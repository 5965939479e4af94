# A TLA+ verification of sprawling-agents

sprawling-agents runs a "city" of language-model residents in one process over
one directory.  Everything the city knows is an append-only, hash-chained Ledger
of events; every view, session slice and client screen is a fold of it.  This
directory holds TLA+ models of the parts whose correctness rests on the order in
which things happen, the TLC runs that check them on small instances, and the
theorems TLAPS proves about them for every instance.

| Part of the system | Modules |
|---|---|
| Durable Ledger and its disk | `LineCheck`, `FaultFs`, `JsonlLedger`, `LedgerSpec`, `MCJsonlLedger`, `JsonlLedgerProofs` |
| Endpoint gate of the model calls | `Permits`, `Holds`, `Gate`, `MCGate`, `GateProofs` |
| One run driven to its end, with its account round | `AccountRound`, `RunDrive`, `RunSpec`, `MCRunDrive`, `RunDriveProofs` |
| Event queue | `EventQueue`, `SignalsProofs` |
| Signals between residents | `Signals`, `MCSignals`, `SignalsProofs` |
| Claims on a plan | `Claims`, `MCClaims`, `ClaimsProofs` |
| Background commands | `Backlog`, `MCBacklog`, `BacklogProofs` |
| Accounting thread, pool, command desk, close of the process | `Attend`, `Lifecycle`, `MCAttend`, `AttendProofs` |
| Deduplication of commands | `Doorstep`, `MCDoorstep`, `DoorstepProofs` |

`PROJECT.json` maps every definition to the lines it models and lists the
hazards, each at its line.

## Inventory

Paths are below `src/crates/`.

| Part | State it keeps | Operations | Talks to | Hard behaviour |
|---|---|---|---|---|
| Ledger writer, `storage/src/jsonl` | segment files; position, `barrier`, `pending_unwind`, halt | `append_all`, `finish_unwind`, `open` with tail recovery | the accounting thread calls it; observer and session slices hear of durable waves | power loss between any two disk operations, failing repairs, a killed writer |
| Disk, `storage/src/fault_fs` | live and durable plane | append, truncate, sync_data, sync_dir, remove_file | Ledger | what survives of an unsynced write |
| Chain audit, `storage/src/chain_audit.rs`, `verified_prefix.rs` | halt flag, records of proved prefixes | audit, trip, settle | Ledger, open | an audit beside the writer |
| Event queue, `storage/src/queue.rs` | items, seen keys with their time | enqueue, consume | inboxes | deduplication window against stamps out of order |
| Endpoint gate, `gateway/src/endpoint/permit.rs`, `concurrency.rs`, `hold.rs` | permits, ticket queue, pre-warms | admit, settle, arrive, wait_for, send | every lane that calls a model | many threads, one condition variable, unwinding threads |
| Account round and watchdog, `kernel/src/account_recovery.rs`, `runtime/src/watchdog.rs` | accounts tried, sends here and in total | start, next, apply, repaired | run loop | retry of a request whose effect is unknown |
| Turn and run loop, `runtime/src/turn`, `run` | held lines, phase, checkpoint policy | turn, tool wave, checkpoint, freeze | Ledger, gate, tools, signals | effect against recorded intent, interrupts at safe points |
| Signals, `collab/src/signal_desk.rs`, `inbox.rs`, `reply_wait.rs`, `accounting/src/worker/rooms.rs` | room queues and who holds them, slot, held letters, wait | lend, deliver, send, pull, take_steer, wait_out, give back | two runs and the Ledger | a post that fails half way, replies racing deadlines |
| Plan claims, `collab/src/claim_tool.rs`, `accounting/src/worker/booking.rs` | plan file, each desk's copy, the book, open claims | claim, finish, put down, split, land | lanes, a person's editor | stale copies, landings that fail half way |
| Backlog, `runtime/src/backlog` | table of commands and runs | run, watch, hand over, harvest, halt, release | exec tool, halts | halt against start, result delivered once |
| Accounting thread, `accounting/src/worker` | one queue of wakes, pool, loans, desk | relay, land, dispatch, take a command, close | every lane, people, the process | one writer, lanes that wait for it while it waits for them |
| Command entrance, `accounting/src/worker/commanding` | keys in flight, keys answered, refusals | post, begin, settle, absorb | desk, Ledger | frames sent again, restarts |
| Process lifecycle, `sprawling/src/console/lifecycle.rs` | the face of the process | step | accounting thread, signals, terminal | a close racing its own limit |
| Content store, worktrees, machine budget, reviews, approvals, views, wire, remote access, adapters, client | | | | see "Not modelled" |

What makes the modelled parts correct:

* **Ledger.** A line that was acknowledged is never lost or changed, whatever
  disk operation fails and whenever power goes; an acknowledgement follows the
  sync of everything it covers; whatever a crash leaves, the next open repairs.
* **Gate.** Permits in use are exactly the calls in flight, also when a thread
  unwinds; nobody sleeps while it could go; a provider's `Retry-After` is
  honoured; every call comes to an end.
* **Run.** Nothing is done outside the city ahead of the durable line that
  announces it; writes are in a commit before the next writing wave; sends stay
  in their budget; the run ends.
* **Signals.** A letter on the ledger is in exactly one place until it is
  consumed or let go of; the letters of a lane are taken in the order they were
  sent, though what a leaving run gives back may stand ahead of older ones; a
  wait starts once and ends once, and a timeout means that no reply had reached the run unless one was
  lost on the way.
* **Claims.** A node has one holder, the one the ledger names; every claim is
  closed; the plan file follows the ledger; an ended row stays ended, unless it was saved
  between the compare and the rename of a landing.
* **Backlog.** No process outlives its run; an ending reaches the run that
  started the command, once; a call returns although its command may not.
* **Accounting thread.** Each lane hears the refs of its own lines; no drive
  waits while none is driving; a lent queue comes home; a close lands everything
  first, and ends.
* **Entrance.** A command that writes a line is carried out at most once,
  whatever is sent again and wherever the process died; one that writes none,
  once in a process; a cancel or steer lifted by a lane, once for a frame.  A
  refusal at the door is the last word of that process on a command.

## The Ledger

`LineCheck` is `jsonl/verify.rs` and the scan of `recover_tail`.  A segment is a
sequence of cells; a cell is one line with its `seq`, its `prev` and the number
of the wave that wrote it.  The pair of seq and wave is what a hash of the line
tells apart.  A cell with `whole = FALSE` is the beginning of a line whose
terminator never reached the disk; a whole cell right behind it is on the same
physical line and parses as nothing.  `FaultFs` is the disk: a live and a
durable plane, and `Settled`, everything a power cut may leave of a file (the
code picks one prefix by its fault plan; the model takes any).

`JsonlLedger` is the writer.  One action is one disk operation or the
computation between two of them, and `pc` says which comes next:

| Code | Actions |
|---|---|
| `append_all` to its first write | `FinishUnwind`, `AppendAll` |
| `land` | `LandAppend`, `LandSync`, `LandSyncDir` |
| `append_all` after `write_wave` | `Acknowledge` |
| `write_wave` on an error | `LandAppendFails`, `LandSyncFails` (with `WaveFails`) |
| `restore`, `finish_unwind` | `RestoreUnlink`, `RestoreSyncDir`, `RestoreTruncate`, `RestoreSync`, `RestoreDone`, `RestoreFails` |
| `unopened`, `resume`, `probe_version`, `boundary`, the scan of `recover_tail` | `OpenEmpty`, `OpenRefused`, `Open` |
| the repair of `recover_tail` | `RecoverTruncate`, `RecoverSync`, `RecoverRemove`, `RecoverSyncDir`, `RecoverFails` |
| `append_log_truncated` | `LogTruncated` |
| `ChainHalt::trip` | `Trip` |
| the world | `Close`, `Kill`, `PowerCut` |

Whether a line rolls to a new segment depends on byte lengths, so any line that
finds its segment nonempty may.  `LazyDir` switches between FaultFs's rule for
directory entries (an unsynced one is lost, a removal is durable at once) and a
platform that may do either.  `orphaned` and `exposed` are history: a handle
went away with a failed or unfinished wave on the disk, and power was cut after
that.  The code keeps no promise about that sequence (see "Where code and
comments part"), so the safety properties say where they stop.

`LedgerSpec` is the promise to readers: one growing history whose acknowledged
prefix never changes.  `MCJsonlLedger` maps the files to it (`Readable`, what a
reader finds up to the first line off the chain) and states `ImplementsLedger`.

## The endpoint gate

`Permits` is `gateway::concurrency` and `Holds` is `gateway::hold`, both as
operators on records.  `Gate` is `gateway::endpoint::permit`: every thread that
calls one endpoint, the mutex, the condition variable, the ticket queue.  An
action is what a thread does while it holds the lock, or between two holds.

| Code | Actions |
|---|---|
| `through`, `hold` | `Start` |
| `Gate::arrive`, `wait_for` | `Arrive`, `Wait` |
| `send` | `Send`, `PrewarmEnds` |
| `admit` | `Enter`, `TakeTicket`, `TryAgain` |
| the provider | `Answered`, `Panic` |
| `Admitted::settle`, its `drop` | `Settle`, `Drop` |
| `settle_prewarm` | `Release` |
| the condition variable and the clock | `NotifyAll`, `WakesUp`, `TimesOut`, `Tick` |

Two places where the code leaves room are kept: the clock is read before the
lock is taken in `hold`, `admit`, `settle` and `release` (`stamp` carries the
reading across whatever other threads do), and the lock is dropped before
`notify_all` (`notifying`).  A thread may be woken without reason, and may
unwind with its call in flight.

## A run

`AccountRound` is `kernel::account_recovery` as operators on a record: which
account a request starts on, and what a failure does next (resend here, switch,
stop).  `RunDrive` is `runtime::run::drive` on one thread.

| Code | Actions |
|---|---|
| `Run::dispatch`, `Charter::open` | `Dispatch` |
| the head of `drive`, `Round::open` | `OpenRound`, `RoundStaysOpen` |
| `Turn::assemble`, `Turn::call` | `Assemble`, `Call`, `Answer` |
| `ModelCall::ask`, the repair stage | `Fails`, `Unreadable`, `Repair`, `TurnFails` |
| the checkpoint before a wave | `Checkpoint` |
| `execute_concurrent`, `alone` | `OpenWave`, `AccountRead`, `ReadsDone`, `Alone`, `ToolWrites` |
| the end of a turn, of a run | `Record`, `Conclude`, `FlushFailed`, `Freeze` |
| `Watchdog::on_provider_failure`, back-off | `Dispose`, `Wait` |
| the world | `Crash`, and the interrupts at each safe point |

`held` is `HeldLines`; a barrier moves it to `durable` or, when the ledger
refuses, loses it.  `RunSpec` is the promise: one history, effects only after
their announcement, and only an unannouncing tail is ever lost.  A refusal
inside a turn is one of two failures (a code that no event carries, or a refused
key); which of the codes it was makes no difference to the control.

## The event queue

`EventQueue` is `storage::queue`: `Enqueue` with its forgetting and its
admission, `Consume`.  The stamp of an enqueue is the signal's own, at or before
the clock and in no order.

## Signals

A signal is its place on the ledger.  `Signals` keeps each room's queue at home
or lent to the run that works there, the slot letters arrive in meanwhile, what
a run holds until an answer has read it, and its wait for a reply.

| Code | Actions |
|---|---|
| `RoomQueues::lend`, `deliver`, `give_back` | `Lend`, `Deliver`, `Leave` |
| `Interrupting::ask`, `SignalDesk::take_steer` | `SafePoint`, `Call`, `BackOff` |
| `SignalDesk::wait_out`, `wait_left` | `WaitOut`, `StartRefused`, `StopWaiting`, `NotWaiting` |
| `SignalDesk::answered`, `send`, `pull` | `Answered`, `Send`, `Pull` |
| the run around them | `Answer`, `Fail`, `End` |
| a restart on the fold of the ledger | `Crash` |

A posted line is on the ledger at once, and reaches its room when the accounting
thread shows it: more orders than the relay's batches allow.  A room is lent and
given back by that same thread, so `Lend` and `Leave` wait until it has shown
what was posted.

The history variable `dropped` holds the letters that were let go of unread: shed
by a full queue or slot, taken out of the slot by a call that then failed, or
taken as a reply or a steer whose line was refused.  `PlacedOnce` says that these
are the only ones that are in no place.

## Claims

`Claims` has every run edit its own copy of the plan (`ClaimDesk`), the book
that answers claims on the accounting thread, and the landing: closing lines
(`Close`), the plan file (`ComparePlan`, `WritePlan`), what is given back
(`PutBack`), the end (`Landed`).  A person may edit the file at any moment
(`Edit`), any of the writes may be refused, and the process may die between any
two steps (`Crash`).

`city::edit_against` is two steps.  `ComparePlan` reads the file, compares it with
the text the landing started from and stages the new one; `WritePlan` renames it.
The lock around both is the process's own, so an `Edit` may fall between and the
rename takes its place.  `staged` says that a landing stands between the two, and
the history variable `raced` which rows were saved meanwhile.  A refusal falls
before the rename, or after it when the directory cannot be synced.

## Background commands

`Backlog` is the table: a command is minted, spawned and entered (`Mint`,
`Spawn`, `Enrol`; a container is entered before it starts, `StartContainer`),
polled for its window (`Poll`), handed over (`HandOver`), reported at the end of
a later call (`Harvest`, `HarvestFails`), stopped with its scope (`Halt`) or
with its run (`Release`, `Leave`).  What holds the table's lock is one step.

## The accounting thread

`Attend` is the loop of `worker::attend` and everyone who waits for it.

| Code | Actions |
|---|---|
| `Relay::append_all` in a lane | `Ask`, `AskRefused` |
| `CommandDesk::interrupt_for`, the end of a lane | `SafePoint`, `ComeHome` |
| `RelayGate::serve`, `serve_flight` | `Serve`, `Arrive` |
| `DrivingPool::start_waiting`, `RunWorker::land` | `StartWaiting`, `Land` |
| `stage_dispatch`, `enter_lane`, what a landing starts | `TakeCommand`, `StartHeirs` (with `Enter`, `RefuseDispatch`) |
| the desk found empty, `land_the_rest`, `close_city` | `Idle`, `LandTheRest`, `CloseCity` |
| `CommandDesk::post`, errands | `Post`, `Answer` |
| `lifetime::live` over `lifecycle::step` | `Reaches`, `Joined`, `Deadline` |

`Lifecycle` is the whole transition table of the process's face, as operators.
Claims, signals and what a landing settles have modules of their own; here a
landing succeeds or fails.

## The entrance

`Doorstep` follows one key from the frame to the answer: dropped while its twin
is on the desk (`Post`), answered from memory (`Repeated`), carried out line by
line (`Begin`, `Write`, `Refuse`, `Finish`), finished later by a provider
(`Answer`) or a lane, and read back from the stamped lines (`Restart`, which
forgets refusals).  A command is of one of five kinds:

| Kind | How it ends | What remembers it |
|---|---|---|
| plain, with lines | on the thread | its lines |
| plain, without (`PutPreferences`, `PutGuide`, `Reveal`, `DoctorInstall`, `DoctorRefresh`, a `ConfigureCity` that states nothing) | on the thread | the process's `seen` |
| errand | with the provider's answer (`Answer`) | its lines, the answer's too |
| dispatch | its lane begins the run and stamps its first line (`Fly`), comes home (`ComeHome`), is landed (`Land`) | that line |
| cancel, steer | lifted by the lane of the run it names (`Lift`), or refused on the thread when none drives | nothing once lifted |

`Take` is `CommandDesk::next`: the first command in line that is not a cancel or
steer of a driving run (`ForALane`).  `Lift` is `interrupt_for` with
`Waiting::forget`: a cancel before a steer, the key freed with nothing settled and
no line.  A landing, or a start from the waiting line, that is refused is told to
whoever asked for the run and not to the entrance (`"failed"` in `told`).

## Runs

| Run | Bounds | Shows |
|---|---|---|
| `ledger_cuts` | 7 seqs, 3 waves of up to 2 lines, 2 failing operations, 1 power cut, 1 kill | `PositionIsEnd`, `NeverRefused`, `AckedDurable`, `OkMeansSynced` |
| `ledger_refines` | 6 seqs, 3 waves of 1 line, 2 failing operations, 2 power cuts, with fairness | `ImplementsLedger`, `OpensAgain` |
| `gate` | 2 calls, 2 permits, 1 key, clock 0..2, waits of 1 and 2, 3 starts, with fairness | `PermitsAreHeld`, `NoLostWakeup`, `QueueIsWaiting`, `RetryAfterIsKept`, `HoldsToTheEnd`, `EveryCallEnds` |
| `run_waves` | no roster, replies that read and write, 2 turns, 1 steer, a crash anywhere | `WritesAreSaved`, `SteersRecorded`, `ImplementsHistory` |
| `run_ends` | 2 accounts, 1 retry on each, no ceiling, replies that read, 1 turn, with fairness | `SendBudget`, `NeverBack`, `RunEnds` |
| `queue_window` | 2 keys, capacity 2, window 2, clock 0..4 | `RememberedForWindow` |
| `signals` | 2 rooms with a run each, queues of 2, bandwidth 1, patience 1, 2 sends, 1 crash, posts refused, with fairness | `PlacedOnce`, `OrderKept`, `WaitsPair`, `TimeoutIsSilence`, `WaitEnds` |
| `claims` | 3 interchangeable runs, nodes a over c, and b, 3 effects, 1 edit, 1 crash, 1 refused write | `HolderNamed`, `ClaimsClosed`, `FileFollows`, `HandedBackIsReady`, `EndsStay` |
| `backlog` | 2 runs in 2 scopes, host and container, 2 commands, 1 poll, 1 halt, 1 fault, with fairness | `NothingOutlives`, `EndingsReach`, `CallReturns` |
| `attend` | 3 runs for one room, one of them started by a landing, every verb, 2 events of the process, 1 ask, 1 fault, with fairness | `RefsAreOwn`, `NothingWaitsIdle`, `LoansComeBack`, `DrainedFirst`, `CommandIsTaken`, `CloseEnds` |
| `door` | a plain command of 2 lines and one of none, an errand, a dispatch, a cancel and a steer of its run, 4 frames in all, 2 refusals, 2 crashes | `DoneOnce`, `AnswersAgree` |
| `backlog_halted` | 1 host command, 1 halt | violation of `HaltedIsStill` |

Why the bounds are enough:

* Ledger: two lines make a wave that stays, rolls before, between or twice; two
  failing operations let a wave fail and its restore fail as well; three waves
  let one be written before, one during and one after.  Seqs leave room for the
  `log_truncated` lines recovery writes.  A refused ledger stays refused and one
  out of seqs cannot record a repair, so `ledger_cuts` does not look for
  deadlock; `ledger_refines` does.  There a second cut and a third wave matter
  more than a second line: a tail torn by the first cut, left in a segment the
  next wave rolls away from, is the case in which a reader who does not stop
  each segment at its last terminator sees a different history.  That run kills
  no handle, so `Clean` fails in it only where a restore fails inside open.
* Gate: one permit narrowed from two puts one of two calls behind the other, and
  a third start finds what the first left.  Three instants let a hold or a wait
  run out between a reading of the clock and the lock.  The safety properties
  are proved for any number of calls; a gate nobody calls is at rest.
* Run: two turns have a writing wave follow a writing wave.  Failing requests
  and tool waves are checked apart, because a round ends before a wave begins.
  With `GateWaits = TRUE` and `Replies <- NoTools`, a configuration not kept
  because it asks the same question, `run_ends` also holds.
* Signals: two sends and a patience of 1 have a reply, a deadline and a refused
  post meet in every order; bandwidth 1 leaves a letter behind in the slot.
* Claims: a node with a child and one without, and a third run that claims what
  another hands back while a landing is under way.
* Backlog: a run whose commands are handed over and one whose are not; a second
  command is what an ending can be confused with.
* Attend: one room, so the second run waits for it; an heir is started by a
  landing; a second event turns a drain into an interrupt.  Asks and batches of
  one suffice because refs are told apart by run.
* Door: four frames are a dispatch and three that name its run, or a command
  and its repeats on both sides of two restarts; the second refusal lets a
  dispatch's start fail after another command was refused.

### Fairness

Every `FairSpec` is weak fairness of what the code does by itself, never of
clients, people or faults:

* Ledger: an operation begun goes on, and a closed ledger is opened again.
* Gate: threads are scheduled, and a request is answered or times out on the
  wire (`timeout_ms`).  The clock goes on only to its bound, so `EveryCallEnds`
  cannot be owed to a wait running out: the notifications have to be enough.
* Run: the thread is scheduled; provider and tools answer.  The model answers
  with tool calls finitely often (`MaxTurns`): the code's own bound on turns is
  the policy's, and a run without one may go on.  `RunEnds` says of two accounts
  that no cycle of resends and switches is possible, which is the code's doing.
* Signals: the clock runs, a run that waits keeps polling, and the accounting
  thread delivers what was posted.
* Backlog: the lane goes on, and a run marked by a halt ends at its next safe
  point.  No command need ever end.
* Attend: both threads and the lanes go on, requests to a provider answer or time
  out, and the deadline of a close fires.  A lane's run ends, which `run_ends`
  and `backlog` are about.

### What the properties except

A property that does not hold of every execution names the execution it
excepts, by a history variable where needed:

* The Ledger's properties stop after `exposed`: power lost once a handle died
  with an unfinished wave on the disk.
* `ClaimsClosed` excepts claims of runs lost in a crash or to a refused
  put-back (`lost`); nothing closes those.
* `EndingsReach` says that an ending is reported whole only while no poll or
  stop failed.
* `LoansComeBack` excepts runs `unstarted`, whose dispatch was refused after the
  room's queue was lent; `DrainedFirst` excepts runs `unlanded`, left behind when
  an earlier landing failed.
* `NothingOutlives` excepts commands whose kill the system refused.
* `CommandIsTaken` holds while the process is not closing.
* `EndsStay` excepts rows in `raced`, saved between the compare and the rename of
  the landing that overwrites them.
* `OrderKept` keeps each of a queue's two lines in order, with the slot and the
  letters on their way behind them, and everything a run was given back, holds or
  keeps for its wait older than its slot.  It says nothing of the letters given
  back among themselves or against the lines: `take_inbox` puts letters of the
  slot ahead of older ones there.
* `DoneOnce` counts by `Times`: once for a command that writes a line, once in
  each process for a plain one that writes none, once for each frame of a cancel
  or steer.
* `AnswersAgree` is about the answers of one process, whatever restarts came
  before it (`Restart` empties `told`).  An errand's repeat may hear silence before
  its provider refuses, never after.  The refusal of a dispatch's start or landing
  (`"failed"`) and what a cancel or steer is told stand outside it.
* `TimeoutIsSilence` speaks of the room's holder, the run that waits, and excepts
  a reply that was let go of (`dropped`), and also one that came after it: a call
  of `wait_out` that finds two replies in the slot takes the first and admits the
  second to the queue, so when the line of the wait's end is refused the first is
  lost, the second will never be looked at by the wait, and it times out with that
  reply in the queue (`reply_wait.rs:176-187`).  The exception was added when the
  proof of the property without it failed; TLC shows that behaviour with three
  sends and `PostFails = {"wait_ended"}`.

## Where code and comments part

One disagreement is a finding with its run, `backlog_halted`: a host command is
spawned and then entered in the table under a lock taken afterwards
(`runtime/src/backlog/host.rs:52`), so a halt of its scope in between does not
stop it, while `backlog.rs:31-32` says that "a stopped scope has nothing left
going in it".

Others are kept as definitions that TLC refutes at the given constants (the rest
as in the run of that module).  They are not runs of this project: each is one
comment, and the property beside it in a run says what does hold.

| Definition | Comment | Code | Constants |
|---|---|---|---|
| `NoWaveAfterFailure` | `jsonl.rs:14-16`, `ledger.rs:95-96`: the handle refuses every wave after a failed one until a reopen | `unwind.rs:46`: it goes on once `restore` succeeded | `MaxSeq = 4`, 2 waves, 1 failure, no cut or kill |
| `AckedSurvives` | `barrier.rs:9-10`: every seq answered `Ok` survives a reopen | `append.rs:62`: a segment made by a killed handle never has its entry synced | 1 cut, 1 kill, no failure |
| `AckedReopens` | `barrier.rs:9-10` | `unwind.rs:97`: segments are removed oldest first, a kill in between leaves a gap and the open refuses | 1 failure, 1 kill |
| `AckedReadable` | `fault_fs/plan.rs:10-11`: stricter than any platform | `open.rs:272`: behind a wholly torn segment the one before may be torn too | `LazyDir = TRUE`, `MaxSeq = 5`, 3 waves, 2 cuts |
| `LostStays` | `watchdog.rs:729-731`: a lost answer never moves to another account | `account_recovery.rs:172`: a later failure in the same round may switch | `Spec`, `TwoAccounts`, `NoTools` |
| `RecognisedInWindow` | `queue.rs:74`: each admitted key stands against the moment it was admitted | `inbox.rs:81`: it stands against the signal's own stamp, which may be earlier | as in `queue_window` |
| `StopsAreRead` | `booking.rs:38-40`: every stop a desk was shown is in the plan it read, as a landing writes the file before its lines | `settling/desks.rs:123`: the lines are written first, and stand when the file is refused | 2 runs, 2 effects, `Refusable = {"plan"}` |
| `HandoffIsWritten` | `assembly/listening/lifetime.rs:47-50`: `Ok` once the handoff is written | `attend.rs:151`: a refused handoff is noted and the thread ends as after a written one | `Scripts <- Both`, `QuitDrain`, `Faults = {"handoff"}` |
| `AcceptedIsFinished` | `desk.rs:210-212`: work already accepted is finished first | `desk.rs:220`: a cancel left for a lane that takes no further safe point is still on the desk at the end | specification `AcceptedBefore`, `Scripts <- BothCancel`, no faults |
| `SilenceIsDone` | `entrance.rs:32-33`: a key that is known and not refused was carried out | `entrance.rs:110`: a key is known from its first line on | as in `door` |

Smaller ones are exceptions in a property or only remarks: a claim of a run lost
in a crash stays open (`booking.rs:19-20`); a harvest that fails drops the
endings it had taken out (`exec.rs:343`); the queue lent to a refused dispatch
stays out (`settling/desks.rs:56` against `running.rs:336-338`); a landing that
fails ends `land_the_rest` (`flight.rs:390` against `attend.rs:139-141`); a
refused post of a wait's end loses the reply (`reply_wait.rs:183` against
`163-164`); a delivery may be shed after its line (`rooms.rs:261` against
`248-250`); letters of the slot go home ahead of older ones
(`signal_desk.rs:227` against `inbox.rs:33-35` and `85-87`); an answer consumes a steer it
did not read (`signal_desk.rs:202` against `14-17`), and consumption may be
durable before the answer is (`interrupting.rs:69` against `61-63`); a restart
forgets refusals (`entrance.rs:103` against `16-17`); a repeat before the
provider answered hears silence (`entrance.rs:93` against `90-92`).

Those of the plan file and the entrance that concern work done twice or lost:

* A save between the compare and the rename is overwritten
  (`city/src/document.rs:106-109`; its comments, "a file that has moved underneath
  is refused rather than written over", `95-97`, and "their bytes are kept",
  `114-115`, are true of a save before the compare).  A landing refused after the
  rename, where `settle` fails, leaves the file at its new text, while
  `settling/landing.rs:99-100` says that a refusal "leaves the file at `base`".
* A keyed command that writes no line (`routing.rs:260-300`) is carried out again
  when it is sent again after a restart; `entrance.rs:14-15` has the set answer
  "has this city already done this".
* A lifted cancel or steer frees its key unsettled (`desk.rs:81-88`, `264-301`): a
  steer sent again is applied again, and a cancel sent again, once no run drives,
  is refused (`routing.rs:307`).  `desk.rs:191-192` says as much of every key whose
  work is over, "asking for the same work again is a second piece of work", which
  the entrance does not let be so of the others.
* The refusal of a dispatch's start or landing is handed to the asker
  (`flight.rs:302`, `331`) and never to the entrance, so a repeat hears silence,
  against `entrance.rs:16-17`.

## Proofs

### `JsonlLedgerProofs`, for every value of the bounds, under `BoundsAssumption`

* `TypeCorrect`: `Spec => []TypeOK`.
* `AcknowledgedIsSynced`: `Spec => OkMeansSynced`.  At the step that
  acknowledges a wave its lines are on the durable plane and its new segments
  have durable entries.

`OkMeansSynced` speaks of one step, but why it holds is a fact about the phases
of `land` before it, so the inductive invariant carries `WaveProgress`: during
the appends every segment already done holds its lines, during the syncs every
segment holds them and the ones done hold them durably, and after `sync_dir` the
new entries are durable.  `TypeOK` needs `RecoverTarget` beside it, that a
repair has a segment to repair.  The lemmas give one fact for each operator on
sequences (`ValidLen`, `Settled`, `PartlyAppended`, `WaveFor`) and one
preservation step for each action.

Three more theorems are about the disk:

* `PositionHolds`: `~LazyDir => (Spec => []PositionIsEnd)`,
* `OpensWhatItLeft`: `~LazyDir => (Spec => []NeverRefused)`,
* `AcknowledgedSurvives`: `~LazyDir => (Spec => []AckedDurable)`.

`~LazyDir` is FaultFs's rule for directories, that an entry survives a power cut
exactly when it was synced; where unsynced entries may survive as well a torn
segment may lie behind another, as `AckedReadable` in the table above shows.  The
inductive invariant `DInv` says that, until power is lost under a killed wave or a
handle goes away with a failed one (`Clean`), the disk and the handle stand for one
ledger `h`: lines chained from the genesis, every acknowledged one among them
(`Story`).  How they stand to it depends on what the handle does next.

* `AtRest`: the segments of `h` are the directory on both planes, and each file
  holds its lines and at most a torn one behind them.
* `Writing`: the files written so far hold `h` and the wave behind it, those synced
  hold it durably, and new entries are durable only after `sync_dir`.
* `Undoing`: what `restore` still owes lies outside `h`, and the file the wave was
  appended to is `Recoverable`: whatever power leaves of it are its lines of `h` and
  then a part of lines that continue the chain.

`Survives` follows from each of the three: were power cut now, the ledger that comes
back is `h` or continues it.  It gives both the story after the cut and
`AckedDurable`.  The hard case is the segment a wave shares with the lines before
it: its planes differ, so `Settled` mixes them, and the proof has to show that the
mixture is a prefix of the lines, with at most a torn cell behind.

* `LedgerIsHistory`: `~LazyDir => (Spec /\ []Clean => ImplementsLedger)`, the
  refinement of `LedgerSpec`.

The mapping reads the segments as one text and takes its longest chained
beginning.  The text is a `FlattenSeq`, which is recursive, and the provers cannot
do induction over it; `Flattens` shows from its definition, by the least
counterexample, that it is the last of a chain of texts each of which appends one
segment (`Texts`).  The argument then has three parts.

* One step, one chain.  Before and after a step that writes, the files are
  beginnings of the same chained ledger `L` (`Fits`, `StepFits`), so that two
  readings give the same hash to each seq both reach (`ReadsAgree`), and one is a
  prefix of the other.  While a wave is written `L` is the ledger with the wave in
  it.  While a failed one is undone `L` is the chain its bytes came from, which
  `DInv` does not say of the segments the wave created; `EInv` adds it (`Draft`).
* A reader reaches every acknowledged line (`KeptReadable`): the segments of the
  ledger before the last are complete and nothing readable lies between them
  (`TellingShows`, `ReadsAll`), so that what is taken away was never acknowledged.
* `Acknowledge` covers exactly what a reader finds (`AcknowledgeReads`): the landed
  wave is the end of the text, and its last line has the highest seq.

Writing the proof changed the mapping.  It used to keep the torn tail of every
segment in the text, so that a reader stopped at the first; with two cuts and three
waves TLC found the acknowledged wave such a reader misses.  `read_raw_lines` drops
what stands behind the last terminator of each segment, and so does `Complete` now.

### `GateProofs`, for any number of calls, permits, keys, waits and instants

Under `PermitsAssumption`, `HoldsAssumption` and `GateAssumption`:

| Theorem | Property | Inductive invariant |
|---|---|---|
| `GateTypeCorrect`, `QueueIsExact` | `TypeOK`, `QueueIsWaiting` | `QueueInv` |
| `NoPermitLeaks` | `PermitsAreHeld` | `PermitsInv` |
| `RetryAfterKept` | `RetryAfterIsKept` | `QuietInv` |
| `HoldsEndOnTime` | `HoldsToTheEnd` | `StampInv` |
| `NoSleeperForgotten` | `NoLostWakeup` | `SleepInv` |

* `QueueInv` is types and queue together: a shed ticket is taken out at its
  position, which exists only because a queued call stands in the queue.
* `PermitsInv` adds the count.  `give_back` saturates at zero, so the proof has
  to show that `Admitted::drop` never meets zero: the dropping call is in flight.
* `QuietInv`: the instant held off until is the latest one asked for, because a
  429 takes the later of the two and nothing else touches it.
* `StampInv`: a reading of the clock may be old when it is used, never ahead.
* `SleepInv` says why nobody is forgotten.  A head asleep has no permit to take,
  or sleeps no longer than the hold-off, or somebody is about to notify
  (`Noticed`); a held call sleeps until its own pre-warm's bound.  The second
  needs `HeldBound`, that a held call's bound is that of the pre-warm it waits
  for, which rests on numbers naming pre-warms (`PrewarmIds`): another thread's
  `expire` may end the pre-warm silently, and only the bound then wakes the
  calls behind it.

### `SignalsProofs`, for any rooms, runs, capacity, bandwidth, patience, crashes and refused posts

Under `SignalsAssumption`:

| Theorem | Property | Inductive invariant |
|---|---|---|
| `SignalsTyped` | `TypeOK` | `TypeOK` |
| `WaitsArePaired` | `WaitsPair` | `WaitInv` |
| `SignalsPlacedOnce` | `PlacedOnce` | `HolderInv`, `PlaceInv` |
| `SignalsInOrder` | `OrderKept` | `WayInv`, `OrderInv`, `NewerInv`, with `PlaceInv` |
| `SilenceIsTold` | `TimeoutIsSilence` | `SilenceInv` |

* `HolderInv`: a room's queue is at home or with one run of that room, and a run
  without it has nothing at its desk.  Two runs in one room make this the part on
  which everything else rests.
* `WaitInv`: what the ledger says of a wait is what the desk that keeps it thinks,
  and no two desks keep one wait.
* `PlaceInv`: the lines a letter can stand in are disjoint, hold no letter twice,
  and together hold exactly the letters neither consumed nor dropped.  A restart
  has to establish it from the ledger alone.
* `WayInv` and `OrderInv`: the letters on their way are the last ones sent, the
  rooms were shown the others, what a queue holds is in its lane and rising, and
  all of it is older than the slot behind it.
* `NewerInv`: what stands in a slot is newer than everything its run was given back,
  holds or keeps.  That what was taken is older than what is on its way follows
  from `PlaceInv` and `WayInv`: it stood in a room once, so it was shown.
* `SilenceInv`: until a reply is kept for its wait, every reply is on its way or in
  the slot, or it or an earlier one was let go of.

`collect`, the pull and the restart's fold go through a queue letter by letter.
In `Signals` they are recursive functions of the number of letters done, and what
such a function returns is proved by taking the least number at which a claim
would fail.  For that the lemmas about one letter (`Delivered`, `Sheds`) are
stated on a whole state of the walk.

The module also proves the event queue for every capacity, window and stream of
stamps: `QueueTypes` (`QueueSpec => []QueueTypeOK`) and `Remembers`
(`QueueSpec => []RememberedForWindow`).  The inductive part is `Memory(k)`: the
time remembered for a key covers every copy of it that could still be recognised.
It holds although stamps come in any order, because forgetting goes by the stamp
of the enqueue and admission writes the stamp it was judged by.

### `DoorstepProofs`, for every set of commands and any number of frames and restarts

`DoorTypes` (`Spec => []TypeOK`) and `CarriedOutOnce` (`Spec => []DoneOnce`).
`Types` says that the keys in flight are exactly the commands on the desk or in
hand, each once, which is what lets `Post` drop a twin.  `Progress(c)` says how
far each command is: one in hand is not answered, and one that is finished later
is known and not refused, and not begun while it is out.  `Counted(c)` says how
often it was done and what remembers that: the lines a restart reads; for a plain
command without lines the entrance of this process, which is why each crash
allows one more; for a cancel or steer only the frames sent that are no longer in
line.  `DoorstepAssumption` asks of the lines only that a cancel or steer, which
the thread does nothing but refuse, writes none.

`RepeatsHearTheSame` (`Spec => []AnswersAgree`) adds `Heard(c)`: a command told a
refusal is among the refused, one other than an errand told silence by the door is
known and not refused, and no silence follows a refusal.  A restart empties the
refusals and the answers of the process together.

### `AttendProofs`, for every number of runs, rooms, commands, requests and faults

Under `AttendAssumption`: `NobodyWaitsIdle` (`Spec => []NothingWaitsIdle`),
`LoansReturn` (`Spec => []LoansComeBack`) and `CloseIsDrained`
(`Spec => []DrainedFirst`).  All three rest on one inductive invariant.  `Tables`
ties the thread's tables to the lanes: who runs, waits and drives is exactly what
`Spot` of each lane and `Lander`, the run being landed, say.  `Homes` says that a
run that came home is found in one place only, so that it is landed once;
`Asking`, that a queued request to a provider is of a lane that waits for it.
Landing each run once, together with "no run waits while none drives", is what
makes the set of runs under way empty when `land_the_rest` leaves its loop, and
`Drained` carries that to the handoff.

`RefsOwned` (`Spec => []RefsAreOwn`) adds `RefsInv`: a lane that waits for no
answer was told as many refs as it wrote lines, and one whose request is queued
lacks exactly the lines of that request (`Counts`).  The other half of the
argument is what `RelayGate::serve` computes: the batch is the requests' lines one
after the other, so the lines of a request stand behind all lines of the requests
before it (`DraftsPlace`).  `FlattenSeq` is recursive; `Flattens` and
`FlattenPlace` show from its definition, by the least counterexample, that an
element of a part stands where the lengths of the parts before it say.

### `BacklogProofs`, for every number of runs, commands, scopes, polls, halts and faults

Under `BacklogAssumption`: `NothingOutlivesItsRun` (`Spec => []NothingOutlives`)
and `EndingsReachTheirRun` (`Spec => []EndingsReach`).  `Place(c)` says who answers
for a command: the call that started it, the run it was handed to, or nobody, and
then it was killed or a kill was refused.  `Charge(c)` says that whoever answers is
still there, and `Calls(r)` that a call watches its own command and an answer
carries an ending not told yet.  `Endings(c)` needs them all: a harvest tells
endings of `Claim::Run` and the settled one, and only because the three never
overlap is each told once and to its own run.

### `ClaimsProofs`, for every plan, every number of runs and every bound

Under `ClaimsAssumption`: `ClaimsTyped` (`Spec => []TypeOK`), `HolderIsNamed`
(`Spec => []HolderNamed`), `LandedClosesItsClaims` (`Spec => []ClaimsClosed`),
`FileFollowsLedger` (`Spec => []FileFollows`), `HandedBackReady`
(`Spec => []HandedBackIsReady`) and `EndedRowsStay` (`Spec => EndsStay`).  One
inductive invariant, `CInv` with `Staging`, carries them:

* `Sound`, of the effects a desk has made: every end of a node follows its claim
  with nothing between (`Told`), every claim is answered for but that of the node
  in hand (`Ends`), and a split is the last word on its node and comes before any
  word on its children.  `FirstTouch` follows, that the first effect of a landing
  on a row is a claim `Claims::of` found not started or the split that draws the
  row, and `LastWord`, that a row reads as its last effect says.
* `Fits`: what a desk has said is booked for its run, so no two desks speak of
  one node.
* `LandingSound` and `PlanSound`: what a landing has still to write of is booked
  for nobody, and what it has written is the newest line of its node.
* `DrawnOnce` and `EndedOnce`: a node that was split or ended in the file is
  booked for nobody, and a desk whose copy is from before is turned away, since
  its mark is older than the stop.  This is the part that concerns two runs: the
  copy of the plan may be old, and only the mark says so.
* `OpenIsOwed`: an open claim is booked for its run or owed by its landing.
* `Staging`: while a compared text waits for its rename, its landing stands where
  it compared, and every row of the file nobody saved since (`raced`) reads as the
  landing's base.  It is what carries the compare over to the rename, and what
  makes `raced` the only exception of `EndsStay`.

### `RunDriveProofs`, for every roster, reply, order of interrupts and bound

Under `RoundAssumption` and `DriveAssumption`:

| Theorem | Property | Inductive invariant |
|---|---|---|
| `RunTypes` | `TypeOK` | `Typed` |
| `WavesStartSaved` | `WritesAreSaved` | `TreeInv` |
| `SendsBounded`, `NeverBackHolds` | `SendBudget`, `NeverBack` | `RoundInv` |
| `RunIsHistory` | `ImplementsHistory`, the refinement of `RunSpec` | `LinesInv`, `ActedInv` |
| `SteersAreRecorded` | `SteersRecorded` | `SteerInv` |

* `LinesInv`: nothing is held at the places where a line goes straight to the
  ledger or an effect goes out, and a run that lost lines holds none and is on its
  way to its end, because the failure it met is one the round never retries.
* `TreeInv`: a write in no commit is known to the policy as a changed tree.  The
  policy has to say so while the wave runs already, since a failing wave leaves
  its writes behind.
* `RoundInv`: the round's count of sends on its account covers every send that
  went out there, one more while the last is still to go out (`Covers`), and
  nothing went out on an account it has not tried.  The second half is `NeverBack`.
* `ActedInv`: what was acted, and what acts next, was announced durably.  With
  `LinesInv` every step is one of `RunSpec` or a stutter: a barrier that lands only
  moves the line between held and durable, and one that is refused takes away lines
  that announced nothing acted.
* `SteerInv`: while the leading reads of a wave are accounted for, the steers
  missing from the history are as many as the standing reads still to come, and
  elsewhere none is, unless the turn failed for good.

Each strengthening was checked by TLC on the bounds of its run first.

## Left to TLC

Every liveness property, which this prover does not reach: `OpensAgain`,
`EveryCallEnds`, `RunEnds`, `WaitEnds`, `CallReturns`, `CommandIsTaken` and
`CloseEnds`.

## Not modelled

* Ledger: `SegmentPreallocation::ToRollSize` (offset writes into preallocated
  zeros), reads that fail, and the operating system's writer lock beyond "one
  handle at a time".
* Gate: `PrewarmEnd`, which the hold only records, and the accounts of a call.
* Run: `on_stall`, which nothing calls; the policy cell an interrupt may change;
  reads that run ahead of their turn or side by side (the model accounts for
  them one at a time); the times of the back-off; and a run without a
  checkpoint hook, of which `WritesAreSaved` says nothing.
* Signals: knocks, the city's own handback letters, a clock that fails.
* Claims: rows the Mayor adds and goal registrations.
* Backlog: the live preview, shares, ceilings and control groups, and the native
  job objects of one platform.
* Attend: the schedule tick, keep-warm, wakes of claims and goals, the wait for
  the proof of the history, a lane that panics.
* Entrance: commands without a key, replies lost on their way, runs that succeed
  a run and runs a restart resumes.
* Poisoned locks, and overflow of instants and counters, which the code
  saturates or refuses decades away.
* Whole parts: the chain audit beside the writer and its records, the content
  store, worktrees, the machine budget, reviews, approvals, views, the wire,
  remote access, adapters and the client.  `PROJECT.json` says why for each.

Most of the repository's 280 000 lines are development tools, tests, the client,
adapters to outside protocols, encodings and other conversions of data, in which
nothing depends on the order of steps; the models cover the control logic of the
core, a few thousand lines.

## Plan

1. The chain audit beside the writer, with the verified-prefix records and the
   strict open that takes a proof in place of reading.
2. Views as folds of the ledger: append, fold, broadcast and answer in order.
3. Worktree leases against the sweep and the landing; the machine budget; the
   content store's write-then-rename.
4. Reviews and the arbiter; approvals and shares as operators.
