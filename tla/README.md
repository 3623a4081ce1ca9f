# Claude agents dashboard: TLA+ models

TLA+ models of the stateful core of the dashboard (`src/server/`, the parts of
`src/client/` that keep state between polls, the routine wrapper and the git-sync
skill under `src/plugin/`), the TLC instances that check them, and TLAPS proofs
of what matters most for every value of their constants.

The server is one Node process. Browsers poll it every few seconds; Claude
Code's hooks call it and are held; it starts `claude`, `git`, `open` and
`launchctl` processes and hears of their ends. There are no threads, so a
handler is atomic between two `await`s, and what can go wrong does so **across
an await, a timer, a socket event, a child's exit, a restart, or in a file that
another process writes**. Each model takes one action per synchronous stretch.

    tlc -workers 2 -config wait.cfg MCWaitStore     # any run, see the table of runs
    tlapm WaitStoreProofs.tla                       # any *Proofs module

## 1. Inventory

| Component (source) | State | Operations | What is hard |
|---|---|---|---|
| **Wait stores** (`wait-store.ts`, `pending.ts`, `plans.ts`, `messages.ts`) | three `entries` maps session -> held response, a `settled` set, a deadline timer per entry, one shared 5 s interval | register, answer, dismiss, cancel, dismissAll, sweepDecided, reapIdle, timeout | the late `close` of an older call, two tabs, a deadline meeting an answer, the interval shared by three stores |
| **Wait endpoints, toggle, idle** (`api.ts`, `remoteState.ts`, `idle.ts`) | the remote-answer toggle and its file | /wait, /answer, /reject, /dismiss, toggle | the body is awaited between the toggle check and the registration |
| **Launch store** (`spawn.ts`) | `entries`: launching, running, failed; child handles; stop timers | launch, adopt, list, stop, force, escalate; `exit`, `close`, `error` events | events are keyed by session id, and a resume reuses the id; TTLs; a restart loses the handles |
| **Spawn and stop endpoints** (`api.ts`, `scan.ts`) | the scan's rows | spawn, resume, stop, the poll | the resume checks come from three sources (the store, `ps`, the rail), one of which may not answer |
| **Desktop hand-over** (`handover.ts`, `desktop.ts`) | watches, marks (the rail), the failed set | poll a watch, reserve and release a mark, fire the link | decided on a transcript that is still being written; `open` is awaited; the app's record comes later |
| **Git gate** (`git-locks.ts`, `git-quick.ts`, `git-fetch.ts`) | a lock per git common dir, one in-flight fetch, verdicts | quick pull/push, fetch-all | the lock is asked for after an await; the fetch waits for locks; pins change under way |
| **Git fetch schedule** (`git-fetch.ts`) | interval, last look, last end, next due | tick, mark watched, end of a run | no timer stops it: it must notice by a clock alone that nobody looks |
| **Permission flag** (`permissions.ts`) | an entry with a time, a dedupe window, hand-offs | note, clear, the row, the push's gate | two hooks report one dialog; a settled wait's own dialog must stay quiet |
| **Routine lock** (`run-routine.mjs`, `routine-store.ts`) | a lock file per job | lock with takeover, unlock, sweep | several processes and no server; a stale lock is taken over by rename and link, and may turn out live |
| **Routine steps** (`run-routine.mjs`) | a process group per step, tallies, two timers | spawn a step, signal, time out, record | exit, close, timeout and signal in any order; a group outlives its leader |
| **Routine log and pushes** (`routine-log.ts`, `routine-notify.ts`, `routine-boot.ts`) | inode and offset per file, a ledger of sighted and settled runs | fold what was appended, rotate, judge, push | rotation and emptying between reads, half lines; a wrapper ends between the fold and the look at its pid; restarts |
| **Routine reconcile** (`routine-reconcile.ts`) | one run in flight and one trailing, watchers | plan, bootout / bootstrap, delete | a lock read before awaits and used after; one file event to wake on |
| **Cron** (`shared/cron.ts`) | none | next and last slot, launchd intervals | jumps over hours and days of local time across a DST change |
| **Usage and token** (`usage.ts`, `token-refresh.ts`) | one cycle in flight, a back-off | fetch, abandon, renew | an abandoned cycle wakes up late |
| **Usage alerts, ledger, profile** (`usage-alerts.ts`, `usage-ledger.ts`, `usage-history.ts`) | a file each, what this process remembers, rings | judge a reading, consume a transcript, rotate, fold a week | failed writes, restarts, torn lines, readings of two accounts, gaps |
| **Session scan caches** (`record-cache.ts`, `agents-cache.ts`, `agents.ts`, `jsonl-tail.ts`) | caches by file, offsets | find the newest record, list the subagents | files that grow, shrink, replay and are half written |
| **Codegraph** (`codegraph-store.ts`) | status cache, read slots, one run per repository | read, launch, rebuild | a read that began before a rebuild ended; the slot handed to a waiter |
| **Dashboard client** (`useRoutines.ts`, `pollSeq.ts`, `usePendingReply.ts`, `usePins.ts`) | sequence numbers, an in-flight guard, a reply's phase, optimistic rows | poll, act, reply, reorder | older answers after newer ones; a guard that must reopen |
| **Pins** (`settings.ts`, `api.ts`) | the list of pins | pin, unpin, reorder | two tabs |
| **git-sync skill** (`git-sync.mjs`) | refs, a plan, a log of deletions | sync, survey, verify, push, apply | the user and another machine move every ref between two of its git commands |
| Owner claim, statistics, settings, management, dictation, analytics, HTTP server, hook scripts, kaizen, installers | caches, configuration or none | reads, merges, sequential scripts | see section 7 |

`PROJECT.json` lists them all with their status, and the hazards of each, line by line.

**How they meet.** The scan tick (`GET /api/sessions`) drives the wait stores
(`sweepTerminalDecisions`), the launch store (adopt, expire, escalate) and the
agent lists at once. The hand-over reads the launch store and writes nothing in
it; the spawn endpoint reads the marks of the hand-over before it resumes. The
fetch schedule starts the git gate's fetch, and the gate's locks hold the
schedule back. The wait stores hand a wait "to the terminal", which the
permission flag then covers. The reconcile reads the routine lock that wrappers
and the sweep contend for; the wrappers' log is what the reader folds and the
pushes are judged on. A usage cycle's reading feeds the alerts and the profile,
whose tick drives the ledger.

**What makes each correct.**

- *Wait stores*: each held response is completed exactly once, for a reason that
  is true; nothing open falls out of its map, and nothing in a map is closed; a
  pick is acknowledged only to the tab whose pick the hook received.
- *Launch store*: one writer per transcript; a live child stays reachable for a
  stop; the rail counts processes that exist; a stop ends.
- *Hand-over*: the app gets a session only at rest; a place on the rail is given
  back by whoever took it; a full rail delays and never loses a hand-over.
- *Git gate, schedule*: one git writer per repository, everything waits only for
  what was there before it; never early, never for nobody, never stuck.
- *Routines*: a lock names a live run and only its owner frees it; every step is
  tallied and the lock outlives the groups; a failure is pushed once; launchd ends up
  with what the job file says, and no job is killed for it once it has started.
- *Readers*: incremental reading equals reading everything from the start.
- *Usage*: a figure is never older than one already shown; a limit is announced once
  and its reset once; each turn is counted once; the profile is what the readings tell.
- *Client*: a page never steps back past its own write; a poll that dies reopens the
  guard; the panel shows the reply the session waits for.
- *git-sync*: no commit is lost, and nothing reaches the shared trunk unverified.

## 2. Modules

| Module | Stands for | Notes |
|---|---|---|
| `HeldWait` | what the wait stores promise: slots, fates, supersession | abstract |
| `WaitStore` | the three wait stores, their handlers, the toggle, the reaper, the sweep, restarts | refines `HeldWait` |
| `LaunchStore` | the launch store, its handlers, the children and their events, restarts | |
| `HandOver` | the watches, the marks, the link, the drawer's hand-over | the launch store reduced to what the watch reads |
| `GitGate`, `FetchClock` | locks, quick operations, fetch-all, verdicts; the schedule of fetch-all | a tick may come at any time; the gate reduced to `locked` and one promise |
| `PermissionFlag` | the flag, its hand-offs and pushes | |
| `RoutineLock`, `RoutineSteps` | a job's lock file and its takers, system call by system call; one run's steps and signals | |
| `LogReader`, `RoutinePush` | the incremental reader of the run log; the pushes judged on the fold | |
| `Reconcile` | one job's file, plist, launchd and lock under the queue of reconciles | |
| `CronSlots` | the searches for a slot, launchd's intervals | against "fires at this minute" as reference |
| `UsageCycle` | refresh cycles and token renewal | |
| `UsageAlerts`, `SpendLedger`, `LedgerFile`, `UsageProfile` | alerts of limits and resets; the recorder over one transcript; the ledger's file; the duty profile and the ring of spans | |
| `RecordCache`, `AgentLedger` | the newest-record cache; the list of subagents | against the whole file read at once |
| `CodegraphStore` | status cache, limiter, runs | |
| `ClientPoll`, `ReplyPanel`, `PinRows` | a polled list; the reply panel; the pins of a tab and of the server | |
| `SyncRun` | one run of the git-sync skill | |
| `MCWaitStore`, `MCSessions`, `MCPolled`, `MCBackground`, `MCStores`, `MCPages`, `MCTakeover` | the instances TLC checks | |
| the `*Proofs` modules | the theorems | see section 5 |

A definition carries the name it has in the code where there is one
(`Previous`, `CancelEntry`, `Listed`, `Adopted`, `Reserve`, ...), and
`PROJECT.json` maps each to its lines. A definition marked *Mutant* is not part
of a model: it is a plausible bug in the definition it names, and putting it in
that definition's place makes TLC refute the property it is listed with.

**Bundles.** Components that share no variable are checked in one run; each
`MC` module extends several of them, and a variable `part` that never changes picks at
`Init` which one takes the steps of the behaviour, while the others rest in their
initial state. The states are the sum of the components' and not their product,
and `MCSpec` implies each component's own specification, which is how the
theorems of section 5 come down to the bundle. The properties of a bundle are
conjunctions of named parts, listed in section 3.

### WaitStore

A *call* is one `POST /api/<kind>/wait`. `phase` is the life of its response:
`Arrive` is the handler up to `await readBody` (the only place the toggle is
read), `Register` or `Refuse` the rest of it. `held` is the three maps as one
function of (kind, session); `settled` is the WeakSet, `armed` the live timers,
`reaper` the shared interval. The socket is a state of its own (`sock`), because
`close` is an event that may come after the call was answered or superseded, and
because no one listens while the body is read: `Register` therefore cancels at
once a call whose socket is already closed (`res.destroyed`). `moved` says that
a message later than the call's `askedAt` is in the transcript, which is what the
sweep compares. The text of questions, plans and answers is data and left out.

`HeldWait` has no map, timer or socket: a call takes a slot, whoever was there
is superseded, and each call meets at most one fate. The refinement maps the
phase and the recorded result to the fate. It would fail if an entry were
overwritten without being settled, if one map served two stores, or if a result
were written twice.

### LaunchStore

A *child* is one `claude -p` process; `of` is the session it was started for.
`os` separates what the system knows from what the server knows: a child is
`ended` before its `exit` event has run, `exited` before `close`, an `orphan`
after a restart. `entry` is the map with the fields the handlers read. The two
TTLs and the stop grace are the flags `old` and `stop = "past"`: the model lets
them elapse at any moment, so no race with a clock is missed. `lost` and `blind`
are history: children whose handle the server gave up, and children started by a
resume whose `ps` probe could not answer. A `Poll` takes the set of sessions it
showed, because windows and filters hide some, and whether it got as far as
`stopStates`.

### HandOver

The child's turn is `starting`, `turn`, `deciding` (a Stop hook may block the
stop), `linger`; `turn` is the end of the transcript as `turnComplete` and
`apiError` read it; `settled` that its mtime is that of the poll before. A poll
of the watch is one of four actions, in the order of the code's early returns.
`marks` is the rail and `opening` the `open` calls under way, by session and by
who fired (watch or drawer).

### GitGate and FetchClock

`GitGate` splits a quick operation at its awaits: `Ask` (before `git rev-parse`),
`Lock` (both checks and the lock, no await between), `Release` (the `finally`).
Fetch-all is `FetchAll` (takes the list of locks held now), `StartRun`,
`Resolve`, `GroupEnds` per group, `EndRun`, `Clear` (the promise's own
`finally`, one step later). `FetchClock` keeps ages instead of times; `Pass` is
one unit of time.

### Routines

`RoutineLock` takes a step per system call that reads or changes the lock file;
its text is the process that wrote it, `Left` the text of a process that is gone.
The rename aside takes whatever is there, so a wrapper can carry away a live lock:
`moved` remembers it. `RoutineSteps` keeps a step's leader and the rest of its
group apart, because the wrapper hears of the leader's `exit`, of the pipes'
`close` and of its own timers in any order. `RoutinePush` separates the fold's
read of the log (`underRead`) from the judgement that looks at the wrapper's pid,
as a run may end in between. The fold has the code's three wakes and no other: the
start (`BootRead`, after which `ArmWatch` sets the watch, or fails to while there is no
`runs/`), a change the watch told of (`WatchTold`, after its debounce), and the polls of
an open page (`Polled`); `unheard` collects the records appended while nothing watched. `Reconcile` has the desired text, the plist, what
launchd loaded and the lock of one job, and one action per await of `applyMac`;
the file watcher's debounce is `changed`.

### Readers and caches

In `LogReader` a line is a number and a fold is the set of lines in it, so
"incremental equals whole" is one equation; files keep their inode through a
rename, and offsets count whole lines. `SpendLedger` and `AgentLedger` count in
half records, so a read may end inside one. `RecordCache` counts bytes, as its
answer depends on where a chunk boundary, the window's start or the last poll cuts a line
(the tail drops its first line whenever the file is longer than the window, also a whole
one); `LedgerFile` counts bytes too, and
reads them backwards in chunks.

### Usage

In `UsageCycle` a flight may be abandoned (`REFRESH_STALL_MS`) and answer later.
`UsageAlerts` has the file, what memory last decided on, and whether the last
write failed; the stamp of a reading is its window's end give or take a moment, or
none. An answer may be of an abandoned cycle, up to a window's length late: the code
stamps it when it lands. `excuse` is the first thing that may have undone the record
of the window the counts are of: its loss, a claim that could not replace an older
ledger, a late answer that took its place.
In `UsageProfile` time is counted in hour-of-week buckets; in each unit the account
spends nothing, `MOVE_EPSILON` or more (`Points`; `worked` are the units of more), the
readings show the window's utilization, and a weight is the list of the weekly ratios
in it, oldest first, so that the EWMA is a function of it and no real number is
needed. Two readings may be any time apart.

### Client, pins, codegraph, git-sync

`ClientPoll` numbers fetches per mount and lets answers land in any order;
`ReplyPanel` has no sequence numbers because the code has none. `PinRows` has the
server's list and a tab's rows. `CodegraphStore` abstracts a database to a
version. `SyncRun` abstracts a ref's tip to the set of commits whose change it
holds, so ancestry and the skill's merge proofs are inclusion; the user, the
other machine and the skill take turns at every git command. A deletion and its line in
`deleted.log` are two steps: the second may fail, which is a warning and leaves the tip
to the results, and a kill may come in between (`DieSync`).

## 3. Runs

Six runs hold, six show a finding (section 4).

| Run | Instance | Properties and their parts |
|---|---|---|
| `wait` (`MCWaitStore`) | 2 calls; `scope`: one session and three stores, or two sessions and one store | `NoOrphan`, `OneAckPerCall`, `NoSilentLoss`, `ImplementsHeldWait`; `WaitsEnd` = `EveryHoldEnds` (by its deadline alone), `DeskGetsWaitsBack` (the reaper alone), `MovedOnIsReleased` (the polled scan alone) |
| `sessions` (`MCSessions`) | hand-over: 2 sessions, a rail of 1, 1 press; flag: 3 dialogs, time to 10; cache: files to 14 bytes of lines of two, window 5, chunk 3; alerts: 2 accounts, time to 2, windows of 1 | `OneWriter`; `RemembersNewest`; `AlertsArePaired` = `ReachedOnce`, `ResetEndsAHit`; `RailIsExact` = `MarksAreLinks`, `OwnReleaseOnly`; `HandOverHappens`; `DialogsAreTold` = `PushedOnce`, `HandedIsQuiet`, `OpenIsShown`, `NewsIsPushed` |
| `polled` (`MCPolled`) | gate: 2 operations, 3 trees of 2 repositories; clock: intervals of 2, 4, 8 units of 15 s; graph: 2 pins of one root; cron: a small calendar, DST changes by two hours either way or none | `GitIsExclusive` = `FetchAlone`, `OnePerDir`; `EverythingAnswers`; `NeverEarly`; `FetchesWhileWatched` = `FewAfterClose`, `KeepsFetching`; `GraphKeepsUp` = `EntriesAreCurrent`, `OneRunPerRoot`, `SlotsAreKept`, `QueuedIsRead`; `SlotsAreExact` = `NoSlotIsMissed`, `LaunchdAgrees`, `SearchEnds` |
| `background` (`MCBackground`) | lock: 2 wrappers and the sweep; push: 1 run; steps: 2; reconcile: 2 versions, 2 edits, 2 fires; log: 4 lines, 3 inodes; sync: 2 commits; spend: 3 records, time to 3; profile: 6 units, weeks of 2 | `WrapperIsOrderly` = `RunnerIsNamed`, `LockOutlivesGroup`, `EveryStepTallied`, `ExitKeepsResult`, `StopBeginsNothing`; `RoutinesGoOn` = `StaleIsTakenOver`, `EveryRunEnds`, `FailureIsSighted`; `PushedOnceWhenDue` = `SettledOnce`, `FirstStartIsQuiet`, `PushHasCause`; `LaunchdFollows` = `LoadedHasPlist`, `QuietIsInSync`, `LoadedIsPlist`, `KillsOnlyLateStarts`; `ReadersAreExact` = `FoldIsWholeLog`, `LedgerIsExact` (`CountedOnce`, `WholeRecordsRead`); `SyncIsSafe` = `NothingLost`, `DeletionsAreRecorded`, `MergedIsPublished`, `PushedIsVerified`; `ProfileIsLearned` = `FoldIsHistory`, `CreditIsTrue`, `ActiveTimeIsWhole` |
| `stores` (`MCStores`) | launch: 2 sessions, 2 children, a rail of 1; agents: 2, 2 calls, 6 records; file: 16 bytes, chunk 4, lines of 1 and 3; pins: 3 dirs | `OneWriter`, `HandleHeld`, `RailHolds`, `NoPhantomFailure`; `AgentsAreListed` = `RowsAreRuns`, `OwnEndOnly`, `PartIsWhole`; `LinesSurvive` = `ReadsAllSince`, `NewestSurvive`; `PinsAreShared` = `RowsAreStored`, `ConflictIsNews`, `OrderKeepsPins` |
| `pages` (`MCPages`) | poll: 2 versions, 3 fetches out; reply: 2 replies, 2 posts; rail: 1 session, 2 children; cycle: 2 cycles, back-off 1 to 2 | `TabKeepsUp` = `PollKeepsUp` (`OwnWriteIsShown`, `NeverStepsBack`, `GuardOpens`) and `RepliesLand` (`AcceptedAsTyped`, `PanelFollows`, `SubmitEnds`); `StopEnds` = `TimerStops`, `PollStops`; `HungCycleIsLeft` = `NoOldAnswer`, `FlightIsLeft`, `StatusFollowsStore` |

Each run has one type invariant (`TypeOK`, `TypesOK`).

**Why the bounds are enough.** Two calls give every pairwise race (supersede,
stale id, late close, two tabs), two sessions and three kinds give the shared
interval something to outlive. Two children of one session are a resume over a
dying child; two sessions with a rail of one are a rail that fills. Three trees
of two repositories are the smallest set with linked worktrees and a second
group. The clock's intervals lie below, at and above the 90 s grace divided by
two, where `Window` and `FewAfterClose` change shape (the code's 300 s and 600 s
behave as the longest of these); `Horizon` lies above twice the longest interval,
so an age cut off there compares as the true one does; `MaxUnread` only stops a
counter, above the bound checked. Two wrappers and the sweep are a takeover
meeting a live holder; the third wrapper it takes to run a job twice has a run of
its own (`lock_takeover`). `MaxAttempts` is 2 for the code's 3: one loss and one
retry. Two edits and two fires are an edit that meets a deferred one and a run that
meets a reconcile. Four lines and three inodes are a rotation followed by
another with unread lines in both files. Two commits are what the user adds between check
and use, on either branch. Window, chunk and slack of the cache are chosen
so that a record is cut by each boundary, and the file grows byte by byte, so that a window
begins before, at and behind the start of a line, and a poll ends in one. Six units over weeks of two are
three weeks, a skipped one among them; a window of four and a heartbeat of two let a
save fall into the same window, a ring of four expire, and two readings stand a window and
more apart. Three windows of one unit for the alerts are a hit, the one after it and one to
be late for. Two versions and three fetches out
are a write that overtakes a fetch that overtook another.

`CHECK_DEADLOCK FALSE` stands in every run but `handover_resume`: identities (calls, children,
lines, commits, presses) are used up and never recycled, so the models may
stop. That nothing stops in the system where it should go on is what the liveness properties say.
Symmetry is used in `stores` (sessions, children) and `lock_takeover` (wrappers), which check no liveness.

**Fairness.** Each liveness property assumes what Node or the caller guarantees
and nothing that would answer the question by itself.

| Property | Assumed fair | Why the code has it |
|---|---|---|
| `EveryHoldEnds` | the armed deadlines | Node fires an armed `setTimeout`; no reaper, no browser, no hook is assumed |
| `DeskGetsWaitsBack` | the shared interval | Node runs a live `setInterval`; no deadline is assumed, so the interval must really be live |
| `MovedOnIsReleased` | the scan | a dashboard open somewhere polls |
| `TimerStops` | the escalation timer, a SIGKILL, the grace elapsing | nobody polls |
| `PollStops` | a poll that reaches `stopStates`, a SIGKILL, the grace elapsing | every timer lost |
| `EverythingAnswers` | the fetch's and the operations' own steps | every git call has a timeout that kills it (30 s, 60 s) |
| `KeepsFetching` | the tick, time, the end of a run | a one-second interval; git's timeouts |
| `HandOverHappens` | a watch's poll, an `open` that ends, the mark's window, the app's record, a Stop hook's answer | a timer per watch, `open`'s timeout, a clock; the last two are outside the server |
| `QueuedIsRead` | the step of each read | `codegraph status` runs under a timeout |
| `SearchEnds` | the search goes on | one synchronous loop |
| `StaleIsTakenOver`, `EveryRunEnds` | each process's own next step, unless it is killed; the step's timeout | processes are scheduled; `setTimeout` of the wrapper |
| `FailureIsSighted` | the start's steps and a fold begun; the debounce timer once set; an open page's polls | the first two are synchronous stretches of one process; Node fires a `setTimeout`; a page polls while it is open. The watch may never arm and may fail, and no event is assumed without it |
| `GuardOpens` | the end of each fetch | `pollFetch` aborts after a timeout |
| `PanelFollows`, `SubmitEnds` | the panel's polls and their landing, the end of a POST | the interval; a request of a page ends |
| `FlightIsLeft`, `StatusFollowsStore` | a call of `refreshNow`, the renewal's steps, time, the answer of a cycle that does not hang | the tick; a spawned CLI under a timeout. A hung cycle is not assumed to end |

## 4. Findings

Each is a run whose property states what the repository says, and which TLC
refutes on what the code does.

- **`toggle_race`** (`OffTakesNothing`): the toggle is read before the body is
  awaited and never again. A wait whose body is arriving when the switch goes off is
  registered after `dismissAll` ran, pushes, and is held to its deadline, up to half
  an hour after "off". `api.ts:774` and `test/api-remote-toggle.test.ts:189` say otherwise.
- **`handover_resume`** (`NoForkingLink`): a headless resume between the two settle
  polls is not seen by the watch, which fires the link as the new turn is about to
  begin (`handover.ts:33-34`).
- **`lock_takeover`** (`OneRunAtATime`): the rename aside takes whatever lock is
  there, and only then is its text compared. A wrapper that judged a stale lock and
  was overtaken moves a live holder's lock away, and before it links it back a third
  links its own: two runs of one job (`docs/subsystems/routines.md:184-186`).
- **`stale_delete`** (`EveryTipIsLogged`): `deleteLocal` reads a tip, checks it, and
  runs `git branch -D` by name. A commit made in between goes with the branch, and
  `deleted.log` has the tip that was checked (`references/design.md:187`).
- **`alert_repeat`** (`OncePerWindow`): memory answers only for a file that is missing or
  unreadable. When the write of a claim fails while the file still holds an older
  window's, that ledger is the base of the next reading, and of each one until a write
  succeeds: the limit of one window is pushed again and again
  (`docs/subsystems/push-notify.md:291-292`, `usage-alerts.ts:132`).
- **`late_notice`** (`LateNoticesAreNoOps`): a notification told again after its agent
  was resumed settles the resumed run, whose row reads done while it works
  (`agents.ts:103-104`, `agents.ts:251-252`).

Seen while modelling, smaller than a run of their own:

- `cron.ts` `lastBefore` skips the second pass of a repeated hour when the hour is the
  last before midnight and the next day does not match (`test/cron.test.ts:279` has the
  case for other hours); after a half-hour change its jump over the shortened hour goes
  too far back, which is why `Changes` are whole hours.
- `run-routine.mjs:266-267` searches the slot from an unfloored start plus 60 s, which
  can name the next minute's slot.
- `usage-history.ts:14-16` and `:208-214`: a flat pair of readings "proves" that nothing
  was spent, and between two windows "no window was open at all". Neither sees a rise of
  at most `MOVE_EPSILON`, nor a window that opened and closed between two readings
  further apart than a window; both are credited idle, and `CreditIsTrue` excuses just them
  (`unseen`).
- `record-cache.ts:149-152`: "runs into this tail window with no gap". The tail drops its
  first line, also when it is whole, so a record that was half written, or not at all, at the
  last poll's size is searched by neither poll when the next window begins in it or right at
  it. And `record-cache.ts:112`, `:181`: a search whose read fails returns null, which is
  remembered as the answer until the window finds another. `RemembersNewest` excuses both
  (`missed`).
- `docs/subsystems/routines.md:233`: the owner folds on start, on a watch and on every poll,
  "so a push goes out with no browser open". A record appended between the start's read and
  its watch (`routine-boot.ts:144-147`), when `runs/` does not exist at the start, or after
  the watcher's error (`routine-log.ts:243`) waits for a page, another record or a restart.
- `spawn.ts:691`: an `error` on the stdin or stderr of a live child marks its entry failed,
  although a failed entry "holds no process at all" (`spawn.ts:505`). The process leaves the
  rail, cannot be stopped from the dashboard, and its handle is dropped with the failure's TTL.
- `usage-alerts.ts:70`: the guard is meant for "a late reading from an abandoned fetch cycle",
  but `usage.ts:356` passes no time, so such an answer is stamped when it lands and passes. It
  may take the record of the present window away, or end it early; the alerts' properties
  excuse what follows (`strayed`).
- `spawn.ts:711`: a launch whose child exits before the first scan becomes `running` with
  no event left to delete it. `git-fetch.ts:139`, `:289`: a project unpinned and pinned
  again with no run in between shows the old verdict.

## 5. Proofs

Every theorem holds for all values of the constants that satisfy the modules'
named assumptions. Those are weak: sentinels (`NoCall`, `NoEntry`, `NoTick`, `NoRecord`,
`Idle`, `Never`, ...) lie outside the sets they mark, the rail is a positive number, the
sets whose cardinality is taken are finite, every tree has a common dir, intervals are
positive and at least a third of the grace, half of `Horizon` exceeds them, the permission flag's
times stand in the order the code gives them, and a clock change is of whole hours with no midnight
inside.

| Module | Theorems | The inductive invariant, and why the checked ones are not enough |
|---|---|---|
| `WaitStoreProofs` | `TypeCorrect`, `OpenResponsesAreKept` (NoOrphan, DeadlineArmed, ReaperRuns), `AcksAreTrue`, `NothingIsLostSilently`, `Refinement` | The checked invariants and `Fresh`: a response still owed is not in `settled` and has no result. Without it `settle` could be a no-op on an open response, which is just what the WeakSet guard does. `SettleInv` says once what a settle of any set of open waits keeps; every handler that settles cites it. `IdleIsUp` is inductive alone and is what `Close` needs. |
| `LaunchStoreProofs` | `LaunchTypeCorrect`, `LiveChildrenAreHeld`, `OneWriterUnlessBlind`, `TheRailHolds`, `RanNeverFails` | The checked ones, `ChildrenFit` (an entry's child was started by this process for this very session) and `RailCounted` (the count the handlers compare). `OneWriter` follows only together with `HandleHeld`: the first writer is seen by a resume either through its entry or through `ps`. `TheRailHolds` maps live children that do not run yet injectively into the launching entries. |
| `StoresProofs` | `AgentTypeCorrect`, `AnswersAreWhole`, `AgentsCorrect`; `FileTypeCorrect`, `RotationKeepsNewest`; `PinTypeCorrect`, `PinsCorrect`; `StoresTypeCorrect`, `StoresAreSafe` | *agents*: `Prefix` is what the first k records make of an empty scan; a scan resumed at the kept byte goes on along it (`GoesOn`, `ScannedIs`), so the kept scan is the prefix of what was read, unless the file was emptied and is then shorter than the kept size. What the records make is described by `Story`, the scan of every record begun (`StoryInv`): calls awaiting results are those the reader awaits, what was told once is known, there is one row per launch and resume, and each agent's latest row is its run's. That ends fit runs (`EndsOK`) needs `~LateRepeats`; the run `late_notice` refutes it otherwise. *file*: the chunked search cuts right behind a newline, or at the end of the file it looked at (`RotatedIs`, `TickIs`), and the lines' numbers ascend through the bytes (`InOrder`). *pins*: lists name nothing twice, so an order with the same members is one of the same length, and an order under way is a permutation of the stored list unless another tab wrote since (`OrderStands`). |
| `PolledProofs` | `GateTypeCorrect`, `GitNeverMeets`, `TheWaitOnlyShrinks`, `ClockTypeCorrect`, `TheTimerIsNeverEarly`, `FewFetchesFollow`; `GraphTypeCorrect`, `GraphIsKept`; `CronTypeCorrect`, `NoSlotIsJumped`, `IntervalsAreExact`; `PolledTypeCorrect`, `PolledIsSafe` | *gate*: `GitHolds` and `HeldByGit` make locks and running operations one another's mirror; `GitIsAwaited` says that whoever runs git during a fetch is among those it still waits for. That is why the wait's end means that nobody runs. *clock*: `Owed`, a time planned under the setting in force lies an interval after the last end. It is false of a plan made under an older setting, and the tick re-plans exactly then. `Spaced` bounds what follows the last look: while somebody counts as looking, the look is older than the timer's fetches since it, each with its interval and the time it took, so a third (fourth) fetch would start beyond the window. *codegraph*: a read the map still names, once it has seen the database, saw it no earlier than the last end noticed (`SeenIsFresh`): that is what `dropEntry` buys by forgetting the reads under way, and without it `EntriesAreCurrent` is not inductive. The queue holds each queued read once (`QueueFits`), so a slot handed on goes to a read that has none, and the root's record is the count of its runs (`RunIsRecorded`). *cron*: `CronInv` is no stronger than what is checked; the work is in the jumps. Local time is piecewise (`StretchAhead`, `StretchBehind`): every jump crosses whole stretches of minutes whose day, month or hour are one (`SameDay`, `SameMonth`, `DayOf`, `HourOf`), so none of the minutes it leaves out can fire (`AheadMissesNone`, `BackMissesNone`). |
| `SessionsProofs` | `HandOverTypeCorrect`, `TheLinkForksNothing`, `TheRailIsExact`; `FlagTypeCorrect`, `FlagCorrect`; `CacheTypeCorrect`, `CacheCorrect`, `PollsAnswerNewest`; `AlertsComeInPairs`; `SessionsTypeCorrect`, `SessionsAreSafe` | *hand-over*: a session with a link under way (`LinkAtRest`), or with the app (`AppAtRest`), has a child at rest; until the app has written its record the mark lives (`LinkedIsMarked`), which is what keeps a headless resume out. `StartIsOverlap` isolates the case of the finding. For the rail, a watch is opening exactly while its call is under way, and the marks stay finite. *flag*: the times are in order (`TimesFit`), the reports of an answered dialog came before its answer (`ReportsAreOver`), a second report of a dialog finds the first one's entry (`PairFindsFirst`), and a hand-off is still fresh when its dialog is reported (`HandoffIsFresh`): that is where the order of the constants comes in. *cache*: a file is shorter than the remembered size exactly when it was cut since (`RememberedFits`); the windows of two polls that join leave out at most the line the first one ended at; `ScanStep` and a least counterexample (`LeastNat`) describe the chunked search backwards. *alerts*: a record bears a stamp of its own window (`StampsFit`), what memory knows of the watched window is the base of the next decision unless there is an excuse (`MemoryIsBase`), a pushed window's record stands until it is over (`ReachedIsKept`), and a reset needs a pushed record not yet reset (`ResetsFollow`). |
| `PagesProofs` | `PollTypeCorrect`, `PageIsMonotone`; `ReplyTypeCorrect`, `RepliesAreAnswers`; `UsageTypeCorrect`, `FiguresAreNewest`; `PagesTypeCorrect`, `PagesAreSafe` | *view*: the newest fetch of a mounted view, once it was answered, has a state no older than what is shown and than the tab's own write (`NewestIsNew`), because the write made an even newer fetch the newest; no two fetches out share a number (`SeqsAreOwn`), and none has read the future (`ReadsArePast`). *panel*: a reply the server took was the one typed for that wait. *cycle*: the newest cycle is never an abandoned one. |
| `ReaderProofs` | `ReaderTypeCorrect`, `ReaderCorrect`, `LedgerTypeCorrect`, `LedgerCorrect`; `ProfileTypeCorrect`, `ProfileCorrect` | *readers*: an offset's prefix was folded, and a file only moves to another name, grows, or is emptied (`FilesMove`); so what a reader skips it has read. For the ledger: the turns behind the cursor are at least all remembered ones, and the newest counted turn is remembered, so that a turn it does not remember was never counted. *profile*: the learned state described by itself (`IsHistory`): each bucket's weight is a chain over the observed weeks, its pending week the last one told. A slice keeps that, and what the last reading tells of the account since, but for the windows that went by unseen (`ReadingTells`), makes a credit true, however far apart two readings are. `LeastNat`, a least counterexample, stands in for induction. |
| `BackgroundProofs` | `SyncTypeCorrect`, `SyncSafety`; `ReadersReadOnce`, `NoCommitIsLost`, `JobsAreOrderly`, `FailuresArePushedOnce`, `LaunchdKeepsUp`, `ProfileIsOfWhatHappened`, `BackgroundTypeCorrect` | The bundle's behaviours project to each component's (`LockRuns`, `PushRuns`, `SyncRuns`, ...), then per component: *git-sync*, what each action of the skill relies on, for as long as it runs: what push-trunk is about to publish was verified, save what the user brings in meanwhile (`PushIsVerified`; `late` collects the latter), a local branch is deleted only under the proof that was made of it (`LocalIsPlanned`, `ProofStands`), the log's next line is about the deletion just run, a carry branch holds what the trunk's reset gives up (`ResetIsCarried`), and a carry that could not be pushed is still in the local trunk (`CarryIsTrunk`). Verify runs only while nothing is published, so verified trees never change under a push; *lock*, a free lock has no holder, unless one was moved; *steps*, the tallies add up to the steps begun, stage by stage; *push*, file and memory agree unless a write failed, and a failed run stays failed; *reconcile*, whatever differs is on its way (`IsOnItsWay`): a debounce is pending, a run is queued, or the running one has not passed the call that repairs it. |

Each proof goes the same way: `Init` implies the invariant, one lemma per action
(or per group of actions that disturb the same conjuncts) shows it kept, a last
step combines them with PTL. The inductive invariants were model-checked on the
instances of section 3 before they were proved.

**Only model-checked.** Liveness, which needs ENABLED: `WaitsEnd`, `RoutinesGoOn`,
`EverythingAnswers`, `KeepsFetching`, `HandOverHappens`, `StopEnds`, `HungCycleIsLeft` and the
liveness halves of `GraphKeepsUp` (`QueuedIsRead`), `SlotsAreExact` (`SearchEnds`), `TabKeepsUp` and the
others. The first half of `LinesSurvive`, that a read returns every standing
line, compares two recursive readings of the file, an induction over data.
`DeadlineArmed`, `ReaperRuns` and `WaitOnlyShrinks` are the other way round: proved, and no run of their own.

## 6. Assumptions

- A handler is atomic between awaits (Node's run-to-completion).
- `WaitStore`: call ids are fresh UUIDs; a restart resets every connection.
- `LaunchStore`: a minted session id is new; a signal reaches only a live process.
- `FetchClock`: the clock does not go back, and the setting is not changed twice
  within one second. A value set and set back between two ticks is not noticed
  by the code, which compares settings and not writes. A fetch takes some time, and the
  shortest interval is at least a third of the grace (30 s and 90 s in the code).
- `CronSlots`: clock changes are of whole hours, and no midnight lies inside the time
  they skip or repeat (it may begin or end it). Daylight saving is of that kind, Lord Howe's half hour excepted.
- `HandOver`, each a guard of its own: the app writes its record while the mark
  lives (`AppWritesInTime`); a Stop hook answers before the settle poll three
  seconds later (`HookAnswers`); an `open` that fails delivered nothing; no
  restart falls between the link and the app's record; the resume's `ps` probe
  answers (`LaunchStore` has the other case). Where one fails the transcript may
  fork: the code's own comments give these delays as the reason for the constants.
- `RecordCache`, `AgentLedger`: a transcript is appended to, or replaced by a shorter one;
  it is not rewritten in place to the same or a greater length between two polls.
- `LogReader`: an emptied log is not written beyond its old length before the next fold.
- `SpendLedger`: copies of one turn's usage are adjacent, as Claude Code writes them.
- `UsageProfile`: at most 26 weeks are observed, before pruning begins; a window's reset stamp names it exactly.
- `UsageAlerts`: a late answer is at most a window's length late; the two gates of a push are read as one.
- `RoutinePush`: while the watch is armed, the system reports each append.
- `AgentLedger`: with `LateRepeats` off, an end is not told again after its agent was resumed; the finding is about the other case.
- `SyncRun`: the repository may push; a ref's tip is compared by the changes it holds.

## 7. Not modelled

Parsing, formatting, request limits, the text of answers and prompts; statistics
(usage rates, forecasts, shapes, analytics), which are arithmetic over real numbers; what
git, gh and ps print; React views; the sequential command-line tools and
installers. The owner claim and the move of the state directory; cron expressions' parsing and
wording; async agents without an id; the schtasks side of the reconcile; worktrees, stashes and
superseded branches of git-sync.

## 8. Plan

1. Proofs: what is left is `ReadsAllSince`, and the compositions below once they are modelled.
2. Models: the owner claim and the move of the state directory, the join of rate samples with
   spend (`usage-rate.ts`), the Stop hook's decision, the kaizen queue.
3. Compositions: `HandOver` over `LaunchStore` (the reduced store shown to be an
   abstraction of the whole one), `GitGate` with `FetchClock`, `RoutineLock` with `Reconcile`.
