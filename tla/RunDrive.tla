------------------------------ MODULE RunDrive ------------------------------
(***************************************************************************)
(* One run driven to its end (runtime::run::drive) on its own thread: the  *)
(* dispatch pair, turns of assemble, model call, tool wave and record, the *)
(* watchdog's account round across failed calls, and the freeze.           *)
(*                                                                         *)
(* The lines a turn appends are held and reach the ledger at the next      *)
(* barrier, which is paid before a model call, before a tool that writes,  *)
(* at a cancel and at the end.  What the run meets is chosen by the        *)
(* environment: the interrupt at each safe point, the provider's answer,   *)
(* a tool wave's admissions, a failing hook, a ledger that refuses, and a  *)
(* crash of the process anywhere.                                          *)
(***************************************************************************)
EXTENDS AccountRound, SequencesExt, FiniteSetsExt

CONSTANTS
    Replies,    \* the tool calls a reply may ask for: sequences of "read" and "write"
    MaxTurns,   \* the model asks for tools in at most this many turns
    MaxSteers,  \* steers that reach the run
    GateWaits   \* whether a call may wait at its endpoint's gate

ASSUME DriveAssumption ==
    /\ Replies \subseteq Seq({"read", "write"}) /\ <<>> \in Replies
    /\ MaxTurns \in Nat /\ MaxSteers \in Nat /\ GateWaits \in BOOLEAN

VARIABLES
    pc,        \* where the driving thread is
    durable,   \* the run's lines on the ledger
    held,      \* HeldLines.held: appended, not yet durable
    cut,       \* history: lines were lost, to a refusal or a crash
    turn,      \* turns taken
    prompted,  \* the turn whose prompt_assembled was appended last
    round,     \* the watchdog's account round
    account,   \* the account the model is on
    sends,     \* history: attempts recorded so far
    sentOn,    \* history: attempts of this round, by account
    lost,      \* history: the accounts that lost an answer in this round
    err,       \* what the turn failed with
    reply,     \* the calls of the wave
    next,      \* the next of them
    lead,      \* how many leading reads the safe points let through
    standing,  \* which of those a steer arrived before
    halt,      \* a cancel arrived before the next of them
    steers,    \* steers folded into the conversation
    since,     \* CheckpointPolicy: the tree against the last checkpoint
    unsaved,   \* history: a write is in no commit
    acted,     \* history: effects outside the run
    ending     \* the completion the run freezes with

lines == <<durable, held, cut>>
calling == <<round, account, sends, sentOn, lost>>
wave == <<reply, next, lead, standing, halt>>
tree == <<since, unsaved>>
vars == <<pc, lines, turn, prompted, calling, err, wave, steers, tree, acted, ending>>

NoRound == [current |-> NoAccount, tried |-> {}, usable |-> {}, here |-> 0, total |-> 0]
NoErr == Failure("none", "keep")
Loadtime == Failure("loadtime", "keep")      \* a code no event carries
Exhausted == Failure("exhausted", "keep")    \* no listed account can be redeemed
Line(kind, n, i) == [kind |-> kind, n |-> n, i |-> i]
Effect(kind, n, i) == [effect |-> kind, n |-> n, i |-> i]

Kinds == {"job_pinned", "run_started", "prompt_assembled", "prompt_shape_compared",
          "model_called", "prefix_held", "model_returned", "checkpoint_committed",
          "tool_called", "tool_result", "steer_received", "cancel_received",
          "watchdog_fired", "carrier", "accounts_exhausted", "handoff_written",
          "run_frozen"}
Lines == [kind : Kinds, n : Nat, i : Nat]
Ended == {"frozen", "dead", "crashed"}
Places == {"dispatch", "loop", "assemble", "call", "sent", "repair", "resent", "returned", "boundary",
           "reads", "alone", "acting", "settle", "concluded", "failed", "dispose", "wait",
           "freeze", "handoff", "close"} \cup Ended
AllAccounts == Listed \cup {NoAccount}

TypeOK ==
    /\ pc \in Places
    /\ durable \in Seq(Lines) /\ held \in Seq(Lines) /\ cut \in BOOLEAN
    /\ turn \in Nat /\ prompted \in Nat
    /\ round \in Rounds /\ account \in AllAccounts /\ sends \in Nat
    /\ sentOn \in [AllAccounts -> Nat] /\ lost \subseteq AllAccounts
    /\ err \in Failures \cup {NoErr, Loadtime, Exhausted}
    /\ reply \in Replies /\ next \in Nat /\ lead \in Nat /\ standing \subseteq Nat
    /\ halt \in BOOLEAN /\ steers \in Nat
    /\ since \in {"not_yet", "checkpointed", "changed"} /\ unsaved \in BOOLEAN
    /\ acted \subseteq [effect : {"send", "write"}, n : Nat, i : Nat]
    /\ ending \in {"none", "done", "limit", "cancelled"}

Init ==
    /\ pc = "dispatch" /\ durable = <<>> /\ held = <<>> /\ cut = FALSE
    /\ turn = 0 /\ prompted = 0
    /\ round = NoRound /\ sends = 0
    /\ account \in (IF Several THEN Listed ELSE {NoAccount})
    /\ sentOn = [a \in AllAccounts |-> 0] /\ lost = {}
    /\ err = NoErr /\ reply = <<>> /\ next = 1 /\ lead = 0 /\ standing = {} /\ halt = FALSE
    /\ steers = 0 /\ since = "not_yet" /\ unsaved = FALSE /\ acted = {} /\ ending = "none"

-----------------------------------------------------------------------------
(* The two ways to the ledger.                                             *)

Hold(new) == held' = held \o new /\ UNCHANGED <<durable, cut>>

(* HeldLines::barrier, after holding `new': every held line goes down in   *)
(* order, or the ledger refuses and drops them.  Inside a turn a refusal   *)
(* is the turn's failure.                                                  *)
Lands(new, stage) ==
    /\ durable' = durable \o held \o new /\ held' = <<>>
    /\ pc' = stage /\ UNCHANGED <<cut, err>>
Drops(stage) == held' = <<>> /\ cut' = TRUE /\ pc' = stage /\ UNCHANGED durable
Barrier(new, stage) ==
    \/ Lands(new, stage)
    \/ held \o new # <<>> /\ Drops("failed") /\ err' \in {Loadtime, Refused}

(* Outside a turn a refusal leaves drive at once, without a verdict. *)
Flush(stage) ==
    \/ Lands(<<>>, stage)
    \/ held # <<>> /\ Drops("dead") /\ UNCHANGED err
Append1(line, stage) ==
    \/ durable' = Append(durable, line) /\ pc' = stage /\ UNCHANGED <<held, cut, err>>
    \/ pc' = "dead" /\ UNCHANGED <<lines, err>>

(* consume_boundary: a cancel is written with everything held before it    *)
(* and ends the turn; a steer is recorded and the turn goes on.            *)
Interrupts == {"none", "steer", "cancel"}
Arrives(interrupt) == interrupt = "steer" => steers < MaxSteers
Folded(interrupt) == steers' = IF interrupt = "steer" THEN steers + 1 ELSE steers
Steered(interrupt) ==
    IF interrupt = "steer" THEN <<Line("steer_received", 0, 0)>> ELSE <<>>
Cancelled ==
    /\ ending' = "cancelled"
    /\ Barrier(<<Line("cancel_received", 0, 0)>>, "freeze")

-----------------------------------------------------------------------------
(* Dispatch and the round of the next call.                                *)

Dispatch ==
    /\ pc = "dispatch"
    /\ IF durable = <<>>
       THEN Append1(Line("job_pinned", 0, 0), "dispatch")
       ELSE Append1(Line("run_started", 0, 0), "loop")
    /\ UNCHANGED <<turn, prompted, calling, wave, steers, tree, acted, ending>>

(* The adapter answers which accounts can be redeemed now; the round opens *)
(* on the account the model is on while that is one of them.               *)
OpenRound ==
    /\ pc = "loop" /\ round = NoRound
    /\ \E usable \in SUBSET Listed :
         /\ ~Several => usable = {}
         /\ IF CanStart(usable)
            THEN /\ round' = Start(usable, account) /\ account' = round'.current
                 /\ pc' = "assemble" /\ UNCHANGED err
            ELSE /\ err' = Exhausted /\ pc' = "failed" /\ UNCHANGED <<round, account>>
    /\ sentOn' = [a \in AllAccounts |-> 0] /\ lost' = {}
    /\ UNCHANGED <<lines, turn, prompted, sends, wave, steers, tree, acted, ending>>

RoundStaysOpen ==
    /\ pc = "loop" /\ round # NoRound /\ pc' = "assemble"
    /\ UNCHANGED <<lines, turn, prompted, calling, err, wave, steers, tree, acted, ending>>

-----------------------------------------------------------------------------
(* One turn.                                                               *)

(* Boundary 1, then prompt_assembled unless this run wrote the same one    *)
(* last, then the run's prompt_shape_compared.                             *)
Assemble(interrupt) ==
    /\ pc = "assemble" /\ Arrives(interrupt) /\ Folded(interrupt)
    /\ IF interrupt = "cancel"
       THEN Cancelled /\ UNCHANGED prompted
       ELSE /\ Hold(Steered(interrupt)
                      \o (IF prompted = turn + 1 THEN <<>>
                          ELSE <<Line("prompt_assembled", turn + 1, 0)>>)
                      \o <<Line("prompt_shape_compared", turn + 1, 0)>>)
            /\ prompted' = turn + 1 /\ pc' = "call" /\ UNCHANGED <<err, ending>>
    /\ UNCHANGED <<turn, calling, wave, tree, acted>>

(* ModelCall::record: the attempt is on the ledger before it is made. *)
RecordsSend(stage, before) ==
    /\ sends' = sends + 1
    /\ Barrier(before \o <<Line("model_called", sends + 1, 0)>>, stage)

(* Boundary 2, and the attempt recorded. *)
Call(interrupt) ==
    /\ pc = "call" /\ Arrives(interrupt) /\ Folded(interrupt)
    /\ IF interrupt = "cancel"
       THEN Cancelled /\ UNCHANGED sends
       ELSE RecordsSend("sent", Steered(interrupt)) /\ UNCHANGED ending
    /\ UNCHANGED <<turn, prompted, round, account, sentOn, lost, wave, tree, acted>>

(* The attempt goes out; how it goes is the provider's.  Either way the    *)
(* wait it took at the gate may be a line of its own.                      *)
GoesOut ==
    /\ acted' = acted \cup {Effect("send", sends, 0)}
    /\ sentOn' = [sentOn EXCEPT ![account] = @ + 1]
PrefixHeld == {<<>>} \cup (IF GateWaits THEN {<<Line("prefix_held", sends, 0)>>} ELSE {})

Answer(calls) ==
    /\ pc \in {"sent", "resent"} /\ GoesOut
    /\ calls # <<>> => turn < MaxTurns
    /\ \E wait \in PrefixHeld : Hold(wait \o <<Line("model_returned", sends, 0)>>)
    /\ reply' = calls /\ next' = 1 /\ pc' = "returned"
    /\ UNCHANGED <<turn, prompted, round, account, sends, lost, err, lead, standing, halt,
                   steers, tree, ending>>

(* A failure no segment repairs leaves the turn. *)
Fails(failure) ==
    /\ pc \in {"sent", "resent"} /\ GoesOut
    /\ \E wait \in PrefixHeld : Hold(wait)
    /\ err' = failure /\ pc' = "failed"
    /\ lost' = IF failure = Lost THEN lost \cup {account} ELSE lost
    /\ UNCHANGED <<turn, prompted, round, account, sends, wave, steers, tree, ending>>

(* BlockingResend: a streamed answer that could not be read is asked for   *)
(* once more through the blocking door, if the round admits one more send. *)
Unreadable ==
    /\ pc = "sent" /\ GoesOut /\ AdmitsRepair(round)
    /\ round' = Repaired(round) /\ pc' = "repair"
    /\ \E wait \in PrefixHeld : Hold(wait)
    /\ UNCHANGED <<turn, prompted, account, sends, lost, err, wave, steers, tree, ending>>
Repair ==
    /\ pc = "repair" /\ RecordsSend("resent", <<>>)
    /\ UNCHANGED <<turn, prompted, round, account, sentOn, lost, wave, steers, tree, acted,
                   ending>>

(* The turn fails on its own side: a prefix that is not the frozen one, an *)
(* answer it cannot keep, a checkpoint that fails, a clock that fails.     *)
TurnFails(failure) ==
    /\ pc \in {"assemble", "call", "returned", "reads", "alone"} /\ failure \in {Refused, Loadtime}
    /\ err' = failure /\ pc' = "failed"
    /\ UNCHANGED <<lines, turn, prompted, calling, wave, steers, tree, acted, ending>>

(* The checkpoint goes up before the wave: CheckpointPolicy decides.       *)
MayWrite == "write" \in Range(reply)
StagesOnce == since = "not_yet" /\ MayWrite   \* a later write taken as covered
Stages == since = "changed" \/ (since = "not_yet" /\ MayWrite)
Checkpoint ==
    /\ pc = "returned"
    /\ Hold(IF Stages THEN <<Line("checkpoint_committed", turn + 1, 0)>> ELSE <<>>)
    /\ unsaved' = (unsaved /\ ~Stages)
    /\ since' = IF MayWrite THEN "changed" ELSE IF Stages THEN "checkpointed" ELSE since
    /\ pc' = "boundary"
    /\ UNCHANGED <<turn, prompted, calling, err, wave, steers, acted, ending>>

(* Boundary 3.  The safe point before each leading read is asked before    *)
(* any of them runs; a cancel lets through only the reads ahead of it.     *)
LeadingReads == IF \E i \in DOMAIN reply : reply[i] = "write"
                THEN (CHOOSE i \in DOMAIN reply :
                        reply[i] = "write" /\ \A j \in 1 .. i - 1 : reply[j] = "read") - 1
                ELSE Len(reply)
OpenWave(interrupt) ==
    /\ pc = "boundary" /\ Arrives(interrupt)
    /\ IF interrupt = "cancel"
       THEN Cancelled /\ UNCHANGED <<wave, steers>>
       ELSE /\ Hold(Steered(interrupt))
            /\ \E let \in 0 .. LeadingReads, before \in SUBSET (1 .. LeadingReads) :
                 /\ before \subseteq 1 .. let
                 /\ lead' = let /\ halt' = (let < LeadingReads) /\ standing' = before
                 /\ steers' = steers + Cardinality(before) + (IF interrupt = "steer" THEN 1 ELSE 0)
                 /\ steers' <= MaxSteers
            /\ pc' = "reads" /\ UNCHANGED <<reply, next, err, ending>>
    /\ UNCHANGED <<turn, prompted, calling, tree, acted>>

Called(i) == Line("tool_called", sends, i)
Result(i) == Line("tool_result", sends, i)

(* A leading read accounted without what its safe point answered. *)
AccountReadAlone ==
    /\ pc = "reads" /\ next <= lead
    /\ Hold(<<Called(next), Result(next)>>) /\ next' = next + 1
    /\ UNCHANGED <<pc, turn, prompted, calling, err, reply, lead, standing, halt, steers,
                   tree, acted, ending>>

(* A leading read is accounted in call order, its steer ahead of it. *)
AccountRead ==
    /\ pc = "reads" /\ next <= lead
    /\ Hold(Steered(IF next \in standing THEN "steer" ELSE "none")
              \o <<Called(next), Result(next)>>)
    /\ next' = next + 1
    /\ UNCHANGED <<pc, turn, prompted, calling, err, reply, lead, standing, halt, steers,
                   tree, acted, ending>>

ReadsDone ==
    /\ pc = "reads" /\ next = lead + 1
    /\ IF halt THEN Cancelled ELSE pc' = "alone" /\ UNCHANGED <<lines, err, ending>>
    /\ UNCHANGED <<turn, prompted, calling, wave, steers, tree, acted>>

(* A call that writes run ahead of the barrier. *)
AloneUnannounced(interrupt) ==
    /\ pc = "alone" /\ next <= Len(reply) /\ Arrives(interrupt) /\ Folded(interrupt)
    /\ \/ interrupt = "cancel" /\ Cancelled
       \/ /\ interrupt # "cancel" /\ Hold(Steered(interrupt) \o <<Called(next)>>)
          /\ pc' = "acting" /\ UNCHANGED <<err, ending>>
    /\ UNCHANGED <<turn, prompted, calling, wave, tree, acted>>

(* Every call after the leading reads runs alone.  One that writes and was *)
(* cleared waits for its own tool_called to be durable; one answered at    *)
(* the door, or that only reads, does not.                                 *)
Alone(interrupt) ==
    /\ pc = "alone" /\ next <= Len(reply) /\ Arrives(interrupt) /\ Folded(interrupt)
    /\ \/ interrupt = "cancel" /\ Cancelled /\ UNCHANGED next
       \/ /\ interrupt # "cancel"
          /\ Hold(Steered(interrupt) \o <<Called(next), Result(next)>>)
          /\ next' = next + 1 /\ UNCHANGED <<pc, err, ending>>
       \/ /\ interrupt # "cancel" /\ reply[next] = "write"
          /\ Barrier(Steered(interrupt) \o <<Called(next)>>, "acting")
          /\ UNCHANGED <<next, ending>>
    /\ UNCHANGED <<turn, prompted, calling, reply, lead, standing, halt, tree, acted>>

(* The tool writes; its result is held, or the turn fails before that. *)
ToolWrites ==
    /\ pc = "acting"
    /\ acted' = acted \cup {Effect("write", sends, next)} /\ unsaved' = TRUE
    /\ \/ /\ Hold(<<Result(next)>>) /\ next' = next + 1 /\ pc' = "alone" /\ UNCHANGED err
       \/ /\ err' = Refused /\ pc' = "failed" /\ UNCHANGED <<lines, next>>
    /\ UNCHANGED <<turn, prompted, calling, reply, lead, standing, halt, steers, since, ending>>

(* Boundary 4, and what the driver does with the turn: tools were asked    *)
(* for and the loop goes on, which ends the account round, or none were    *)
(* and the run concludes, citing the durable model_returned.               *)
Record(interrupt) ==
    /\ pc = "alone" /\ next = Len(reply) + 1 /\ Arrives(interrupt) /\ Folded(interrupt)
    /\ IF interrupt = "cancel"
       THEN Cancelled /\ UNCHANGED <<turn, round>>
       ELSE /\ Hold(Steered(interrupt)) /\ turn' = turn + 1
            /\ IF reply = <<>>
               THEN pc' = "concluded" /\ UNCHANGED round
               ELSE pc' = "loop" /\ round' = NoRound
            /\ UNCHANGED <<err, ending>>
    /\ UNCHANGED <<prompted, account, sends, sentOn, lost, wave, tree, acted>>

Conclude ==
    /\ pc = "concluded"
    /\ Barrier(<<>>, "freeze")
    /\ ending' \in {"done", "limit"}
    /\ UNCHANGED <<turn, prompted, calling, wave, steers, tree, acted>>

-----------------------------------------------------------------------------
(* A failed turn, and the end.                                             *)

(* What the failed turn held goes down before anything is said of it. *)
FlushFailed ==
    /\ pc = "failed" /\ Flush("dispose")
    /\ UNCHANGED <<turn, prompted, calling, wave, steers, tree, acted, ending>>

(* The watchdog disposes of a failure that an event carries, by the step   *)
(* the round gives; any other freezes the run.                             *)
Disposes(step) ==
    IF step.act = "stop"
    THEN /\ Append1(Line(IF step.why = "exhausted" THEN "accounts_exhausted" ELSE "carrier",
                         sends, 0), "freeze")
         /\ ending' = "cancelled" /\ UNCHANGED account
    ELSE /\ Append1(Line("watchdog_fired", sends, 0),
                    IF step.act = "switch" THEN "loop" ELSE "wait")
         /\ account' = step.to /\ UNCHANGED ending
Dispose ==
    /\ pc = "dispose"
    /\ IF err = Loadtime
       THEN pc' = "freeze" /\ ending' = "cancelled" /\ UNCHANGED <<lines, err, round, account>>
       ELSE IF err = Exhausted
       THEN Disposes(Stop("exhausted")) /\ UNCHANGED round
       ELSE LET step == NextStep(round, err)
            IN  Disposes(step) /\ round' = Applied(round, step)
    /\ UNCHANGED <<turn, prompted, sends, sentOn, lost, wave, steers, tree, acted>>

(* The back-off: a halt ends it, and the run with it. *)
Wait(halted) ==
    /\ pc = "wait"
    /\ IF halted THEN pc' = "freeze" /\ ending' = "cancelled"
       ELSE pc' = "loop" /\ UNCHANGED ending
    /\ UNCHANGED <<lines, turn, prompted, calling, err, wave, steers, tree, acted>>

(* A refused closing line tried again and again. *)
FreezeRetries ==
    /\ \/ pc = "freeze" /\ Flush("handoff")
       \/ pc = "handoff" /\ pc' = "freeze" /\ UNCHANGED <<lines, err>>
       \/ pc = "close" /\ Append1(Line("run_frozen", sends, 0), "frozen")
    /\ UNCHANGED <<turn, prompted, calling, wave, steers, tree, acted, ending>>

(* freeze: one barrier, then handoff_written and run_frozen. *)
Freeze ==
    /\ \/ pc = "freeze" /\ Flush("handoff")
       \/ pc = "handoff" /\ Append1(Line("handoff_written", 0, 0), "close")
       \/ pc = "close" /\ Append1(Line("run_frozen", sends, 0), "frozen")
    /\ UNCHANGED <<turn, prompted, calling, wave, steers, tree, acted, ending>>

Crash ==
    /\ pc \notin Ended /\ pc' = "crashed" /\ held' = <<>> /\ cut' = TRUE
    /\ UNCHANGED <<durable, turn, prompted, calling, err, wave, steers, tree, acted, ending>>

Drives ==
    \/ Dispatch \/ OpenRound \/ RoundStaysOpen
    \/ \E interrupt \in Interrupts :
         Assemble(interrupt) \/ Call(interrupt) \/ OpenWave(interrupt) \/ Alone(interrupt)
           \/ Record(interrupt)
    \/ \E calls \in Replies : Answer(calls)
    \/ \E failure \in Failures \cup {Loadtime} : Fails(failure) \/ TurnFails(failure)
    \/ Unreadable \/ Repair \/ Checkpoint \/ AccountRead \/ ReadsDone \/ ToolWrites \/ Conclude
    \/ FlushFailed \/ Dispose \/ (\E halted \in BOOLEAN : Wait(halted)) \/ Freeze

Over == pc \in Ended /\ UNCHANGED vars

Next == Drives \/ Crash \/ Over

Spec == Init /\ [][Next]_vars

(* The driving thread is scheduled, its provider and its tools answer, and *)
(* the model asks for tools in finitely many turns.                        *)
FairSpec == Spec /\ WF_vars(Drives)

-----------------------------------------------------------------------------
(* Properties.                                                             *)

Announces(line) ==
    CASE line.kind = "model_called" -> {Effect("send", line.n, 0)}
      [] line.kind = "tool_called" -> {Effect("write", line.n, line.i)}
      [] OTHER -> {}
Closes(line) == line.kind \in {"carrier", "handoff_written", "run_frozen"}

History == INSTANCE RunSpec WITH log <- durable \o held

(* A run's held lines and the ledger's, read together, are one history in  *)
(* the order things happened, and no crash and no refusal takes back the   *)
(* line that announced a model call or a write that was made (wave.rs,     *)
(* HeldLines::barrier).                                                    *)
ImplementsHistory == History!Spec

(* A request with several accounts is sent on one account no more often    *)
(* than its retries allow, the repair stage's sends included               *)
(* (account_recovery.rs, BlockingResend).                                  *)
SendBudget == Several => \A a \in Listed : sentOn[a] <= AccountRetries + 1

(* A round never moves to an account it has already sent on. *)
NeverBack == [][pc = "dispose" /\ account' # account => sentOn[account'] = 0]_vars

(* A wave that may write starts on a tree whose earlier writes are all in  *)
(* a commit (CheckpointPolicy, whatever waves came before).                *)
WritesAreSaved == pc = "boundary" /\ MayWrite => ~unsaved

(* Between two turns every steer the conversation took is a line of the    *)
(* run's history, once: the safe points that fold a steer before a wave's  *)
(* reads run and the boundary that records it later agree.                 *)
SteersRecorded ==
    pc \in {"loop", "concluded"} =>
      Cardinality({k \in DOMAIN (durable \o held) : (durable \o held)[k].kind = "steer_received"})
        = steers

(* Whatever the provider answers, a run comes to an end. *)
RunEnds == <>(pc \in Ended)

(* A request whose answer was lost on an account is asked again there or   *)
(* nowhere.                                                                *)
LostStays == pc \in {"sent", "resent"} /\ lost # {} => account \in lost
=============================================================================
