---------------------------- MODULE UsageAlerts ----------------------------
(***************************************************************************)
(* The limit-reached and limit-reset pushes (server/lib/usage-alerts.ts).  *)
(* The ledger of the window last seen at its limit is on disk and, for     *)
(* when the file cannot be written or read, in memory.  Windows follow one *)
(* another, each WindowLength long; a reading reports when its window      *)
(* ends, give or take a moment, or no stamp at all.                        *)
(***************************************************************************)
EXTENDS Naturals

CONSTANTS Accounts, MaxNow, WindowLength, StaleAfter, NoHit, NoStamp, Missing, Corrupt
ASSUME AlertBounds == MaxNow \in Nat /\ WindowLength \in 1..MaxNow /\ StaleAfter \in Nat

VARIABLES
  now,       \* the time
  stamped,   \* the service reports reset stamps
  account,   \* the account signed in
  file,      \* usage-alerts.json: the one window on record, NoHit, or no ledger
  memory,    \* the last ledger this process decided on; Missing before it
  writeFailed,  \* the last write of the file failed
  watched,   \* history: the account and window the counts are of
  alertPushes,    \* history: its pushes of each kind
  excuse     \* history: what first may have undone its record, see below

alertVars == <<now, stamped, account, file, memory, writeFailed, watched, alertPushes, excuse>>

WindowOf(t) == t \div WindowLength
WindowEnd(w) == (w + 1) * WindowLength
Windows == 0..WindowOf(MaxNow)
\* The endpoint recomputes a window's reset stamp for each request; time counts in halves below.
Stamps == [window : Windows, jitter : {0, 1}] \cup {NoStamp}
StampTime(stamp) == 2 * WindowEnd(stamp.window) + stamp.jitter
Hits == [account : Accounts, stamp : Stamps, window : Windows, pushed : BOOLEAN, resetSent : BOOLEAN, seenAt : 0..MaxNow]
\* The histories count to two.
Counts == 0..2
CountOne(count, aw) == IF aw = watched /\ count < 2 THEN count + 1 ELSE count
\* The record was lost with the account, the process or the file; the claim failed
\* to replace an older ledger; a late answer was taken for one of the present.
Excuses == {"lapsed", "unwritten", "strayed"}
Excused(why, holds) == excuse' = IF excuse = "none" /\ holds THEN why ELSE excuse
IsWatched(hit) == hit \in Hits /\ hit.account = watched[1] /\ hit.window = watched[2]
Ledgers == Hits \cup {NoHit}
ASSUME AlertNames == /\ Accounts # {} /\ NoStamp \notin [window : Windows, jitter : {0, 1}]
                     /\ NoHit \notin Hits \cup {Missing, Corrupt} /\ Missing \notin Hits \cup {Corrupt} /\ Corrupt \notin Hits

AlertTypeOK ==
  /\ now \in 0..MaxNow /\ stamped \in BOOLEAN /\ account \in Accounts
  /\ file \in Ledgers \cup {Missing, Corrupt} /\ memory \in Ledgers \cup {Missing} /\ writeFailed \in BOOLEAN
  /\ watched \in Accounts \X Windows /\ alertPushes \in [{"reached", "reset"} -> Counts] /\ excuse \in Excuses \cup {"none"}
  \* The file is never ahead of a process that wrote it.
  /\ file \in Hits /\ memory \in Hits /\ file.account = memory.account => file.seenAt <= memory.seenAt

AlertInit ==
  /\ now = 0 /\ stamped \in BOOLEAN /\ account = CHOOSE a \in Accounts : TRUE
  /\ file = Missing /\ memory = Missing /\ writeFailed = FALSE
  /\ alertPushes = [kind \in {"reached", "reset"} |-> 0] /\ excuse = "none"
  /\ watched = <<account, 1>>

-----------------------------------------------------------------------------
(* readLedger: memory answers for a file that cannot be read, and for one    *)
(* that is missing because it was never written.                             *)
RememberedHit == IF memory = Missing THEN NoHit ELSE memory
\* Mutant: a missing file is always an empty ledger.
OnDisk == CASE file = Missing -> NoHit [] file = Corrupt -> RememberedHit [] OTHER -> file
Base == IF file \notin {Missing, Corrupt} THEN file ELSE IF file = Missing /\ ~writeFailed THEN NoHit ELSE RememberedHit

(* decideUsageAlert.  A record of another account is dropped first.          *)
OnRecord == IF Base # NoHit /\ Base.account = account THEN Base ELSE NoHit

\* A reading judged before the record's own last one.  The guard is meant for the
\* answer of an abandoned cycle, but that is stamped when it lands: only a clock
\* set back would meet it.
Late == OnRecord # NoHit /\ now < OnRecord.seenAt

\* Mutant: two stamps are of one window only when they are equal.
SameStamp(a, b) == a = b
SameWindow(a, b) == a = b \/ (a # NoStamp /\ b # NoStamp /\ a.window = b.window)
Stale(hit) == IF hit.stamp = NoStamp THEN now - hit.seenAt > StaleAfter ELSE 2 * now > StampTime(hit.stamp) + 2 * StaleAfter
Over(hit, stamp) == hit.stamp = NoStamp \/ ~SameWindow(hit.stamp, stamp) \/ StampTime(hit.stamp) <= 2 * now

\* A reset is owed for a hit that was pushed, once, and soon.  Mutant: a hit seen with pushes off earns one.
OwedToAll(hit) == ~Stale(hit)
Owed(hit) == hit.pushed /\ ~Stale(hit)

\* The window on record already.
OnHit(stamp) == OnRecord # NoHit /\ SameWindow(OnRecord.stamp, stamp)

Seen == [OnRecord EXCEPT !.seenAt = now]

\* What an answer about window w leaves on record, and what is pushed.
Decided(w, stamp, full, canSend) ==
  LET hit == [account |-> account, stamp |-> stamp, window |-> w, pushed |-> canSend, resetSent |-> FALSE, seenAt |-> now]
  IN CASE Late -> [hit |-> OnRecord, push |-> "none"]
       [] ~Late /\ full /\ OnHit(stamp) -> [hit |-> Seen, push |-> "none"]
       [] ~Late /\ full /\ ~OnHit(stamp) -> [hit |-> hit, push |-> IF canSend THEN "reached" ELSE "none"]
       [] ~Late /\ ~full /\ OnRecord = NoHit -> [hit |-> NoHit, push |-> "none"]
       [] OTHER ->
            IF OnRecord.resetSent \/ ~Over(OnRecord, stamp) THEN [hit |-> Seen, push |-> "none"]
            ELSE [hit |-> [Seen EXCEPT !.resetSent = TRUE],
                  push |-> IF Owed(OnRecord) /\ canSend THEN "reset" ELSE "none"]

\* The window a push is about: the one answered for, or the one on record.
About(w, push) == <<account, IF push = "reset" THEN OnRecord.window ELSE w>>

\* A late answer that takes the record to another window, or ends it.
IsStray(w, base, d) ==
  /\ w # WindowOf(now)
  /\ d.push = "reset" \/ (d.hit \in Hits /\ ~(base \in Hits /\ base.account = d.hit.account /\ base.window = d.hit.window))

StampsOf(w) == IF stamped THEN [window : {w}, jitter : {0, 1}] ELSE {NoStamp}

(* onUsageReading: decide, write the claim if it changed, push.  An answer   *)
(* is about the present, or comes from an abandoned cycle up to a window's   *)
(* length late, about the window of then; the gates of both pushes are read  *)
(* as one.                                                                   *)
OnUsageReading(w, stamp, full, canSend, written) ==
  \E base \in {Base}, d \in {Decided(w, stamp, full, canSend)} :
    /\ d.hit = base => written   \* only a write fails
    /\ memory' = d.hit
    /\ IF d.hit = base THEN UNCHANGED <<file, writeFailed>>
       ELSE writeFailed' = ~written /\ file' = IF written THEN d.hit ELSE file
    /\ alertPushes' = IF d.push = "none" THEN alertPushes ELSE [alertPushes EXCEPT ![d.push] = CountOne(@, About(w, d.push))]
    /\ IF IsWatched(base) /\ base.account # account THEN Excused("lapsed", TRUE)
       ELSE IF IsStray(w, base, d) THEN Excused("strayed", IsWatched(base) \/ IsWatched(d.hit))
       \* The older ledger stays readable, and is the base of the next reading.
       ELSE Excused("unwritten", d.hit # base /\ ~written /\ file \notin {Missing, Corrupt} /\ IsWatched(d.hit))
    /\ UNCHANGED <<now, stamped, account, watched>>

Reading ==
  \E asked \in {t \in 0..now : now - t <= WindowLength}, full, canSend, written \in BOOLEAN :
    \E stamp \in StampsOf(WindowOf(asked)) : OnUsageReading(WindowOf(asked), stamp, full, canSend, written)

\* A failed fetch is no reading: the ledger it read is kept.
FailedReading ==
  /\ memory' = Base
  /\ UNCHANGED <<now, stamped, account, file, writeFailed, watched, alertPushes, excuse>>

AlertTime == now < MaxNow /\ now' = now + 1 /\ UNCHANGED <<stamped, account, file, memory, writeFailed, watched, alertPushes, excuse>>

SwitchAccount == account' \in Accounts \ {account} /\ UNCHANGED <<now, stamped, file, memory, writeFailed, watched, alertPushes, excuse>>

\* A restart loses what only memory held.
AlertRestart ==
  /\ memory # Missing /\ memory' = Missing /\ writeFailed' = FALSE
  /\ Excused("lapsed", memory # file /\ IsWatched(memory))
  /\ UNCHANGED <<now, stamped, account, file, watched, alertPushes>>

\* The file is deleted by hand, or found unreadable.
LoseFile ==
  /\ file \notin {Missing, Corrupt} /\ file' \in {Missing, Corrupt}
  /\ Excused("lapsed", (file' = Missing \/ memory # file) /\ IsWatched(file))
  /\ UNCHANGED <<now, stamped, account, memory, writeFailed, watched, alertPushes>>

AlertNext == Reading \/ FailedReading \/ AlertTime \/ SwitchAccount \/ AlertRestart \/ LoseFile

AlertSpec == AlertInit /\ [][AlertNext]_alertVars

-----------------------------------------------------------------------------
(* A window's limit is pushed once: again only after its record was lost,   *)
(* its claim failed to replace an older ledger (see OncePerWindow), or a    *)
(* late answer about another window took its place, which line 70 is meant  *)
(* to keep out (usage-alerts.ts decideUsageAlert, "claim before send").     *)
ReachedOnce == stamped => alertPushes["reached"] <= 1 \/ excuse # "none"

(* A reset is pushed for a hit that was pushed, once, and after the window.  *)
ResetEndsAHit ==
  /\ alertPushes["reset"] > 0 => alertPushes["reached"] > 0
  /\ alertPushes["reset"] <= alertPushes["reached"] \/ excuse # "none"
  /\ stamped /\ alertPushes["reset"] > 0 => excuse # "none" \/ WindowEnd(watched[2]) <= now

(* Both together: the alerts come in pairs, one pair a window.              *)
AlertsArePaired == ReachedOnce /\ ResetEndsAHit

(* "If the write fails [...] the process keeps the claim in memory, so it   *)
(* still pushes once per window until it restarts" (docs/subsystems/        *)
(* push-notify.md).  The code breaks this: see the run `alert_repeat`.      *)
OncePerWindow == stamped => alertPushes["reached"] <= 1 \/ excuse \in {"lapsed", "strayed"}
=============================================================================
