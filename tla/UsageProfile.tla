---------------------------- MODULE UsageProfile ----------------------------
(***************************************************************************)
(* The duty profile (server/lib/usage-history.ts): readings of the 5-hour  *)
(* window classified pair by pair, folded week by week into one weight per *)
(* hour of the week, saved now and then, and the ring of classified spans  *)
(* the active time is measured on.  A unit of time is an hour-of-week      *)
(* bucket; the endpoint's figures come from an account that spends, or     *)
(* not, in each unit, on any machine; they move in half points.  A weight  *)
(* is the list of the weekly ratios in it, oldest first: (1 - EWMA_ALPHA)  *)
(* times it adds a zero.  A reading without a window has a utilization of  *)
(* 0, so provableIdleSpan's checks of a contradicting reading never bite.  *)
(***************************************************************************)
EXTENDS Integers, Sequences, FiniteSets

CONSTANTS
  MaxHour,      \* bound: the last unit
  Buckets,      \* units in a week
  WindowSpan,       \* the 5-hour window
  Heartbeat,    \* HEARTBEAT_MS, between two saves
  RingLength,   \* RING_MS
  NoWindow,     \* no window is open
  NoReading     \* no sample yet

ASSUME ProfileAssumption ==
  /\ MaxHour \in Nat /\ Buckets \in Nat \ {0} /\ WindowSpan \in Nat \ {0}
  /\ Heartbeat \in Nat \ {0} /\ RingLength \in Nat \ {0}
  /\ NoWindow \notin Int /\ NoReading \notin [t : Nat, utilization : Nat, resetsAt : Nat \cup {NoWindow}]

VARIABLES
  hour,       \* now
  worked,      \* the units the account spent more than the epsilon in
  unseen,     \* those of a window that opened and closed between two readings
  resetsAt,   \* when the open window resets
  utilization,  \* in half points
  profile,    \* the live state: a bucket each, and the observed weeks
  profileFile,     \* the profile file
  lastSample, savedAt, activity   \* the recorder's memory; activity is its ring

accountVars == <<hour, worked, unseen, resetsAt, utilization>>
profileVars == <<accountVars, profile, profileFile, lastSample, savedAt, activity>>

Hours == 0..(MaxHour - 1)
WeekOf(h) == h \div Buckets
BucketOf(h) == h % Buckets
Kinds == {"active", "idle", "ambiguous", "reset"}

\* The bucket's pending week, and what was credited in it.  told is the history
\* the profile was learned from: each unit's credits.
NewBucket == [weight |-> <<>>, week |-> -1, observed |-> 0, active |-> 0, lifetime |-> 0]
EmptyState ==
  [buckets |-> [b \in 0..(Buckets - 1) |-> NewBucket], weeks |-> {}, told |-> [h \in Hours |-> <<>>]]

ProfileTypeOK ==
  /\ hour \in 0..MaxHour /\ worked \subseteq 0..(hour - 1) /\ unseen \subseteq (1 - WindowSpan)..(hour - 1)
  /\ resetsAt = NoWindow \/ (resetsAt > hour /\ resetsAt <= hour + WindowSpan)
  /\ resetsAt = NoWindow <=> utilization = 0
  /\ DOMAIN profile.buckets = 0..(Buckets - 1) /\ profile.weeks \subseteq 0..WeekOf(MaxHour)
  /\ lastSample # NoReading => lastSample.t <= hour
  /\ savedAt \in -1..hour
  /\ \A i \in 1..Len(activity) : activity[i].end <= hour /\ activity[i].kind \in Kinds

ProfileInit ==
  /\ hour = 0 /\ worked = {} /\ unseen = {} /\ resetsAt = NoWindow /\ utilization = 0
  /\ profile = EmptyState /\ profileFile = EmptyState
  /\ lastSample = NoReading /\ savedAt = -1 /\ activity = <<>>

-----------------------------------------------------------------------------
(* The account.  The first spending opens a window; its end closes it.  A   *)
(* unit's spending is nothing, the epsilon or more.                         *)
Epsilon == 1   \* MOVE_EPSILON
Points == {0, Epsilon, Epsilon + 1}

PassHour(points) ==
  /\ hour < MaxHour /\ hour' = hour + 1
  /\ worked' = IF points > Epsilon THEN worked \cup {hour} ELSE worked
  /\ LET opens == IF points > 0 /\ resetsAt = NoWindow THEN hour + WindowSpan ELSE resetsAt
     IN IF opens = hour'
        THEN /\ resetsAt' = NoWindow /\ utilization' = 0
             /\ unseen' = IF lastSample # NoReading /\ lastSample.t <= hour' - WindowSpan
                          THEN unseen \cup (hour' - WindowSpan)..hour ELSE unseen
        ELSE resetsAt' = opens /\ utilization' = utilization + points /\ unseen' = unseen
  /\ UNCHANGED <<profile, profileFile, lastSample, savedAt, activity>>

-----------------------------------------------------------------------------
(* Two readings.                                                            *)

\* Mutant: a rise is attributed however long it took.
AlwaysAttributed(a, b) == TRUE
Attributable(a, b) == b.t - a.t <= 1

\* classifyInterval.
Classified(a, b) ==
  IF a.resetsAt # b.resetsAt \/ b.utilization < a.utilization - Epsilon THEN "reset"
  ELSE IF b.utilization > a.utilization + Epsilon
       THEN IF Attributable(a, b) THEN "active" ELSE "ambiguous"
       ELSE "idle"

\* provableIdleSpan: from the old window's end to the new one's opening.
\* Mutant: to the new reading.
IdleToReading(a, b) ==
  LET from == IF a.resetsAt = NoWindow \/ a.resetsAt < a.t THEN a.t ELSE a.resetsAt
  IN from..(b.t - 1)
IdleSpan(a, b) ==
  LET from == IF a.resetsAt = NoWindow \/ a.resetsAt < a.t THEN a.t ELSE a.resetsAt
      opened == b.resetsAt - WindowSpan
      to == IF b.resetsAt = NoWindow \/ opened > b.t THEN b.t ELSE opened
  IN from..(to - 1)

Credited(a, b) ==
  CASE Classified(a, b) \in {"active", "idle"} -> a.t..(b.t - 1)
    [] Classified(a, b) = "reset" /\ a.resetsAt # b.resetsAt -> IdleSpan(a, b)
    [] OTHER -> {}

-----------------------------------------------------------------------------
(* The fold.                                                                *)

Zeros(n) == [i \in 1..n |-> <<0, 1>>]

\* The observed weeks the bucket sat out.  Mutant: the week that ends it too.
SatOutToo(weeks, from, to) == {w \in weeks : w > from /\ w <= to}
SatOut(weeks, from, to) == {w \in weeks : w > from /\ w < to}

\* foldBucket: the pending week joins the weight, then the weight ages.
Folded(bucket, week, weeks) ==
  IF bucket.week \in {-1, week} THEN bucket
  ELSE [bucket EXCEPT
          !.weight = Append(@, <<bucket.active, bucket.observed>>)
                       \o Zeros(Cardinality(SatOut(weeks, bucket.week, week))),
          !.observed = 0, !.active = 0]

\* One slice of accumulate.
Slice(state, h, kind) ==
  LET folded == Folded(state.buckets[BucketOf(h)], WeekOf(h), state.weeks)
      bucket == [folded EXCEPT !.week = WeekOf(h), !.observed = @ + 1, !.lifetime = @ + 1,
                               !.active = @ + IF kind = "active" THEN 1 ELSE 0]
  IN [buckets |-> [state.buckets EXCEPT ![BucketOf(h)] = bucket],
      weeks   |-> state.weeks \cup {WeekOf(h)},
      told    |-> [state.told EXCEPT ![h] = Append(@, kind)]]

\* Slices in the order of time.
Accumulated(state, hours, kind) ==
  LET after[h \in 0..MaxHour] ==
        IF h = 0 THEN state
        ELSE IF h - 1 \in hours THEN Slice(after[h - 1], h - 1, kind) ELSE after[h - 1]
  IN after[MaxHour]

-----------------------------------------------------------------------------
(* recordTick.                                                              *)
ReadingNow == [t |-> hour, utilization |-> utilization, resetsAt |-> resetsAt]
Gap == IF lastSample = NoReading THEN 0 ELSE hour - lastSample.t

Learned ==
  IF Gap = 0 THEN profile
  ELSE Accumulated(profile, Credited(lastSample, ReadingNow),
                   IF Classified(lastSample, ReadingNow) = "active" THEN "active" ELSE "idle")

\* The ring without the entries that ended too long ago: they stand in the order of their ends.
Recent(ring) ==
  SubSeq(ring, Cardinality({i \in 1..Len(ring) : ring[i].end <= hour - RingLength}) + 1, Len(ring))

RecordReading(written) ==
  /\ profile' = Learned /\ lastSample' = ReadingNow
  /\ activity' = IF Gap = 0 THEN activity
                 ELSE Recent(Append(activity, [end |-> hour, span |-> Gap, kind |-> Classified(lastSample, ReadingNow)]))
  /\ IF savedAt = -1 \/ hour - savedAt >= Heartbeat
     THEN savedAt' = hour /\ profileFile' = IF written THEN profile' ELSE profileFile
     ELSE UNCHANGED <<savedAt, profileFile>>
  /\ UNCHANGED accountVars

\* The server restarts and reads the file.
ProfileRestart ==
  /\ lastSample # NoReading
  /\ profile' = profileFile /\ lastSample' = NoReading /\ savedAt' = -1 /\ activity' = <<>>
  /\ UNCHANGED <<accountVars, profileFile>>

ProfileNext ==
  \/ \E points \in Points : PassHour(points)
  \/ \E written \in BOOLEAN : RecordReading(written)
  \/ ProfileRestart

ProfileSpec == ProfileInit /\ [][ProfileNext]_profileVars

-----------------------------------------------------------------------------
(* observedActiveMs.                                                        *)
\* Where the coverage that ends with the newest entry begins.
CoveredFrom ==
  LET back[i \in 1..Len(activity)] ==
        LET own == activity[i].end - activity[i].span
        IN IF i = 1 THEN own ELSE IF activity[i - 1].end < own THEN own ELSE back[i - 1]
  IN back[Len(activity)]

\* Mutant: any entry will do.
HasEntries(since) == activity # <<>>
Covers(since) == activity # <<>> /\ CoveredFrom <= since

-----------------------------------------------------------------------------
(* What a bucket's weight would be from the whole history: each observed     *)
(* week since its first, in order, with a zero for the weeks it sat out.     *)
Told(b, w) == {h \in Hours : BucketOf(h) = b /\ WeekOf(h) = w /\ profile.told[h] # <<>>}
ToldActive(b, w) == {h \in Told(b, w) : profile.told[h] = <<"active">>}
WeeksOf(b) == {w \in profile.weeks : Told(b, w) # {}}
WholeWeight(b) ==
  LET first == CHOOSE w \in WeeksOf(b) : \A v \in WeeksOf(b) : w <= v
      last  == CHOOSE w \in WeeksOf(b) : \A v \in WeeksOf(b) : w >= v
      weight[w \in first..last] ==
        IF w = first THEN <<>>
        ELSE weight[w - 1] \o
             (IF Told(b, w - 1) # {} THEN <<<<Cardinality(ToldActive(b, w - 1)), Cardinality(Told(b, w - 1))>>>>
              ELSE IF w - 1 \in profile.weeks THEN Zeros(1) ELSE <<>>)
  IN weight[last]

(* However readings, weeks, failed saves and restarts fall, the profile is  *)
(* that of a history without a unit told twice (usage-history.ts            *)
(* accumulate, foldBucket, recordTick).                                     *)
FoldIsHistory ==
  /\ \A h \in Hours : Len(profile.told[h]) <= 1
  /\ \A b \in 0..(Buckets - 1) :
       /\ profile.buckets[b].lifetime = Cardinality(UNION {Told(b, w) : w \in WeeksOf(b)})
       /\ WeeksOf(b) # {} => profile.buckets[b].weight = WholeWeight(b)

(* However long the sleep between two readings, what is credited as active  *)
(* saw more than the epsilon spent, and what is credited as idle did not,   *)
(* but for a window that opened and closed between two readings, which the  *)
(* code has no sign of (classifyInterval, provableIdleSpan).                *)
CreditIsTrue ==
  \A h \in Hours : profile.told[h] # <<>> =>
    IF profile.told[h][1] = "active" THEN h \in worked ELSE h \in worked => h \in unseen

(* Active time is given only for a span that was watched throughout: every  *)
(* unit of it lies in a classified span (observedActiveMs).                 *)
ActiveTimeIsWhole ==
  \A since \in 0..hour : Covers(since) =>
    LET newest == activity[Len(activity)].end
    IN \A h \in since..(newest - 1) :
         \E i \in 1..Len(activity) : h \in (activity[i].end - activity[i].span)..(activity[i].end - 1)

(* The profile is learned from what happened, and only from that.           *)
ProfileIsLearned == FoldIsHistory /\ CreditIsTrue /\ ActiveTimeIsWhole
=============================================================================
