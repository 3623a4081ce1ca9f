--------------------------- MODULE PermissionFlag ---------------------------
(***************************************************************************)
(* The permission flag of one session (server/lib/permissions.ts): two     *)
(* hooks report one terminal dialog, the push is for the first report of a *)
(* dialog that is news, and the row shows the flag until the transcript    *)
(* moves on.  Time is in units of a few seconds.                           *)
(***************************************************************************)
EXTENDS Naturals

CONSTANTS MaxPermTime, MaxDialogs, PairGap, Dedupe, Handoff, FallbackDelay, Ttl, Never
ASSUME PermissionTimes == /\ {MaxPermTime, MaxDialogs, PairGap, Dedupe, Handoff, FallbackDelay, Ttl} \subseteq Nat
                          /\ PairGap < Dedupe /\ FallbackDelay + PairGap < Handoff /\ Dedupe < Ttl
                          /\ Never \notin Nat

VARIABLES
  time,
  dialog,     \* the newest dialog's number, 0 before the first
  open,       \* it is on the screen
  openedAt,
  fallback,   \* it is the terminal's side of a wait that was settled
  awaited,    \* a settled wait whose dialog is still to open
  pair,       \* the engine will report it a second time, PairGap later
  notifiedAt, \* the entry's time, Never without an entry
  handoffAt,  \* when a wait was last handed to the terminal, or Never
  messageAt,  \* the transcript's newest message
  reportedAt, \* history: the newest report
  reported,   \* history: the newest dialog was reported
  pushed,     \* history: how often each dialog was pushed
  forgot      \* history: the server restarted since the dialog opened, or since the hand-off

permVars == <<time, dialog, open, openedAt, fallback, awaited, pair, notifiedAt, handoffAt, messageAt, reportedAt, reported, pushed, forgot>>

Times == 0..MaxPermTime

PermTypeOK ==
  /\ {time, openedAt, messageAt} \subseteq Times /\ {notifiedAt, handoffAt, reportedAt} \subseteq Times \cup {Never}
  /\ dialog \in 0..MaxDialogs /\ {open, fallback, awaited, pair, reported, forgot} \subseteq BOOLEAN
  /\ pushed \in [1..MaxDialogs -> Nat]
  \* The entry is of the newest report, and leaves on its timer at the latest.
  /\ notifiedAt # Never => notifiedAt = reportedAt /\ time - notifiedAt <= Ttl

PermInit ==
  /\ time = 0 /\ dialog = 0 /\ openedAt = 0 /\ messageAt = 0
  /\ open = FALSE /\ fallback = FALSE /\ awaited = FALSE /\ pair = FALSE /\ reported = FALSE /\ forgot = FALSE
  /\ notifiedAt = Never /\ handoffAt = Never /\ reportedAt = Never
  /\ pushed = [d \in 1..MaxDialogs |-> 0]

-----------------------------------------------------------------------------
\* Mutant: the hand-off is not asked about.
NeverHanded == FALSE
HandedToTerminal == handoffAt # Never /\ time - handoffAt < Handoff

\* Mutant: the entry's whole life silences.
UnseenByTtl == notifiedAt = Never
\* Mutant: each report is a dialog's first.
AlwaysUnseen == TRUE
Unseen == notifiedAt = Never \/ time - notifiedAt >= Dedupe

(* notifyPermission, of dialog d: the entry is re-armed, and a fresh dialog  *)
(* pushed.                                                                   *)
ReportDialog(d) ==
  /\ notifiedAt' = time /\ reportedAt' = time /\ reported' = TRUE
  /\ pushed' = [pushed EXCEPT ![d] = @ + (IF Unseen /\ ~HandedToTerminal THEN 1 ELSE 0)]

-----------------------------------------------------------------------------
(* A wait store's settle, of any status but `answered`: noteTerminalHandoff. *)
SettleWait ==
  /\ ~open /\ ~awaited /\ dialog < MaxDialogs
  /\ awaited' = TRUE /\ handoffAt' = time
  /\ UNCHANGED <<time, dialog, open, openedAt, fallback, pair, notifiedAt, messageAt, reportedAt, reported, pushed, forgot>>

\* A dialog opens; engines report it at once, later, or both.
OpenDialog ==
  /\ ~open /\ dialog < MaxDialogs
  /\ dialog' = dialog + 1 /\ open' = TRUE /\ openedAt' = time /\ fallback' = awaited /\ awaited' = FALSE
  /\ forgot' = (awaited /\ handoffAt = Never)
  /\ \E atOnce, later \in BOOLEAN :
       /\ atOnce \/ later
       /\ pair' = later
       /\ IF atOnce THEN ReportDialog(dialog + 1) ELSE reported' = FALSE /\ UNCHANGED <<notifiedAt, reportedAt, pushed>>
  /\ UNCHANGED <<time, handoffAt, messageAt>>

SecondReport ==
  /\ pair /\ time = openedAt + PairGap /\ pair' = FALSE
  /\ ReportDialog(dialog)
  /\ UNCHANGED <<time, dialog, open, openedAt, fallback, awaited, handoffAt, messageAt, forgot>>

\* The user answers at the terminal, which cancels a report that is not yet due.
AnswerDialog ==
  /\ open /\ open' = FALSE /\ messageAt' = time
  /\ pair' = (pair /\ time = openedAt + PairGap)
  /\ UNCHANGED <<time, dialog, openedAt, fallback, awaited, notifiedAt, handoffAt, reportedAt, reported, pushed, forgot>>

\* The entry's timer.
Expired == notifiedAt # Never /\ time - notifiedAt >= Ttl
Reap ==
  /\ Expired /\ notifiedAt' = Never
  /\ UNCHANGED <<time, dialog, open, openedAt, fallback, awaited, pair, handoffAt, messageAt, reportedAt, reported, pushed, forgot>>

RestartServer ==
  /\ notifiedAt' = Never /\ handoffAt' = Never /\ forgot' = TRUE
  /\ UNCHANGED <<time, dialog, open, openedAt, fallback, awaited, pair, messageAt, reportedAt, reported, pushed>>

\* Reports, timers and the terminal's own dialog are not put off.
PermTime ==
  /\ time < MaxPermTime /\ time' = time + 1
  /\ ~Expired /\ ~(pair /\ time = openedAt + PairGap)
  /\ ~(awaited /\ handoffAt # Never /\ time - handoffAt >= FallbackDelay)
  /\ UNCHANGED <<dialog, open, openedAt, fallback, awaited, pair, notifiedAt, handoffAt, messageAt, reportedAt, reported, pushed, forgot>>

PermNext == SettleWait \/ OpenDialog \/ SecondReport \/ AnswerDialog \/ Reap \/ RestartServer \/ PermTime

PermSpec == PermInit /\ [][PermNext]_permVars

-----------------------------------------------------------------------------
(* The row's flag (scan.ts buildRow): believed until a newer message.        *)
\* Mutant: a message of the same instant hides it.
ShownIfNewer == notifiedAt # Never /\ messageAt < notifiedAt
PermissionWait == notifiedAt # Never /\ ~(messageAt > notifiedAt)

(* However many hooks report a dialog, the phone buzzes once for it         *)
(* (permissions.ts PERMISSION_PUSH_DEDUPE_MS); a restart forgets that.      *)
PushedOnce == dialog > 0 /\ ~forgot => pushed[dialog] <= 1

(* The dialog the user asked for by sending a wait to the terminal is not   *)
(* pushed (permissions.ts TERMINAL_HANDOFF_MS).                             *)
HandedIsQuiet == dialog > 0 /\ fallback /\ ~forgot => pushed[dialog] = 0

(* A dialog the user was looking at: reported, on screen and within the     *)
(* backstop, it is shown on the row.                                        *)
OpenIsShown ==
  open /\ reported /\ time - reportedAt < Ttl /\ ~forgot => PermissionWait

(* News reaches the phone: the first report of a dialog that opens a dedupe  *)
(* window after the last one was answered, with no hand-off behind it, is    *)
(* pushed.                                                                   *)
NewsIsPushed ==
  [][reported' /\ (dialog' # dialog \/ ~reported) /\ (dialog' = 1 \/ messageAt + Dedupe <= openedAt')
     /\ (handoffAt = Never \/ handoffAt + Handoff <= time) => pushed'[dialog'] > pushed[dialog']]_permVars

(* A dialog the user does not know of is pushed once and shown until it is  *)
(* over, one the user asked for is not.                                     *)
DialogsAreTold == [](PushedOnce /\ HandedIsQuiet /\ OpenIsShown) /\ NewsIsPushed
=============================================================================
