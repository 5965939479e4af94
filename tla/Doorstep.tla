------------------------------ MODULE Doorstep ------------------------------
(***************************************************************************)
(* The key every command carries (accounting::worker: desk.rs and          *)
(* commanding/entrance.rs): a frame that repeats one still on the desk is  *)
(* dropped, one this process answered is told the first answer, and a      *)
(* restarted city reads the keys it answered back from its own history.    *)
(*                                                                         *)
(* A command is its key.  It is carried out line by line, so that a crash  *)
(* may fall between two of its lines; every line it writes is stamped with *)
(* the key.  Some commands are over when they return, some send a request  *)
(* to a provider and are finished when it answers, and a dispatch leaves a *)
(* run in a lane, which writes the first line of the run itself.  A cancel *)
(* or steer names such a run, and the run's own lane lifts it off the desk *)
(* at a safe point.  Commands without a key, lost replies, runs that       *)
(* succeed a run and runs a restart resumes are left out.                  *)
(***************************************************************************)
EXTENDS Naturals, Sequences, SequencesExt

CONSTANTS
    Commands, NoCommand,
    KindOf,       \* one of Kinds
    LinesOf,      \* the lines each command writes before it returns
    RunOf,        \* the dispatch whose run a cancel or steer names
    MaxFrames,    \* frames sent in all
    MaxRefusals,  \* commands refused on the way
    MaxCrashes

Interrupting == {"cancel", "steer"}
Kinds == {"plain", "errand", "dispatch"} \cup Interrupting
Interrupt(c) == KindOf[c] \in Interrupting

(* A plain command may write no line at all: PutPreferences, Reveal,       *)
(* DoctorInstall and others carry a key and record nothing.  The thread    *)
(* that takes a cancel or steer only refuses it.                           *)
ASSUME DoorstepAssumption ==
    /\ NoCommand \notin Commands
    /\ KindOf \in [Commands -> Kinds]
    /\ LinesOf \in [Commands -> Nat]
    /\ RunOf \in [Commands -> Commands \cup {NoCommand}]
    /\ \A c \in Commands : Interrupt(c) => LinesOf[c] = 0
    /\ {MaxFrames, MaxRefusals, MaxCrashes} \subseteq Nat

VARIABLES
    queue, keys,   \* the desk: commands in line, keys in line or carried
    hand,          \* the command taken off it, how far it is, its lines
    seen, refused, \* the entrance: keys answered, the refusals among them
    away,          \* where a command finished later is: its request is "out",
                   \* or its run is not begun, "flying" or "home"
    proven,        \* the writer takes lines
    ledger,        \* the key on each line
    frames, refusals, crashes,
    told, done     \* history: the answers of this process, the completions

desk == <<queue, keys>>
entrance == <<seen, refused>>
history == <<told, done>>
bounds == <<frames, refusals, crashes>>
vars == <<desk, hand, entrance, away, proven, ledger, bounds, history>>

Unsaid == [c \in Commands |-> <<>>]
NoHand == [cmd |-> NoCommand, at |-> "none", lines |-> 0]

Init ==
    /\ queue = <<>> /\ keys = {} /\ hand = NoHand
    /\ seen = {} /\ refused = {} /\ proven = FALSE
    /\ away = [c \in Commands |-> "no"]
    /\ ledger = <<>>
    /\ frames = [c \in Commands |-> 0] /\ refusals = 0 /\ crashes = 0
    /\ told = Unsaid /\ done = [c \in Commands |-> 0]

Tell(c, answer) == told' = [told EXCEPT ![c] = Append(@, answer)]
Moves(c, where) == away' = [away EXCEPT ![c] = where]
Done(c) == done' = [done EXCEPT ![c] = @ + 1]

(***************************************************************************)
(* The desk.                                                               *)
(***************************************************************************)
(* A key still in flight makes the frame a repeat.                         *)
Admitted(c) == c \notin keys

Post(c) ==
    /\ SumFunction(frames) < MaxFrames
    /\ frames' = [frames EXCEPT ![c] = @ + 1]
    /\ IF Admitted(c) THEN queue' = Append(queue, c) /\ keys' = keys \cup {c}
       ELSE UNCHANGED desk
    /\ UNCHANGED <<hand, entrance, away, proven, ledger, refusals, crashes, history>>

(* Flight.driving: the run is in a lane, or home and not landed.           *)
Drives(c) == c \in Commands /\ KindOf[c] = "dispatch" /\ away[c] # "no"
ForALane(c) == Interrupt(c) /\ Drives(RunOf[c])

(* CommandDesk::next: the first in line that is not left for a lane.       *)
IsFirst(i) == ~ForALane(queue[i]) /\ \A j \in 1..(i - 1) : ForALane(queue[j])

Take ==
    /\ hand = NoHand
    /\ \E i \in DOMAIN queue :
        /\ IsFirst(i)
        /\ hand' = [cmd |-> queue[i], at |-> "taken", lines |-> 0]
        /\ queue' = RemoveAt(queue, i)
    /\ UNCHANGED <<keys, entrance, away, proven, ledger, bounds, history>>

(* CommandDesk::interrupt_for, at a safe point of run r: the first cancel  *)
(* that names it, or else the first steer.                                 *)
IsNextFor(r, i) ==
    LET Asks(j) == Interrupt(queue[j]) /\ RunOf[queue[j]] = r
        Kind(j) == KindOf[queue[j]] IN
    /\ Asks(i)
    /\ \A j \in DOMAIN queue : Asks(j) =>
        (Kind(i) = Kind(j) /\ i <= j) \/ (Kind(i) = "cancel" /\ Kind(j) = "steer")

(* It is over the moment it is lifted: its key is free, nothing is said,   *)
(* nothing is settled and no line is stamped.  A cancel ends the run.      *)
Lift(r) ==
    /\ away[r] = "flying"
    /\ \E i \in DOMAIN queue :
        /\ IsNextFor(r, i)
        /\ queue' = RemoveAt(queue, i) /\ keys' = keys \ {queue[i]}
        /\ Done(queue[i]) /\ Tell(queue[i], "silence")
        /\ IF KindOf[queue[i]] = "cancel" THEN Moves(r, "home") ELSE UNCHANGED away
    /\ UNCHANGED <<hand, entrance, proven, ledger, bounds>>

(* The guard of the key is dropped when the command is over.               *)
Drops == keys' = keys \ {hand.cmd}
PutDown == hand' = NoHand /\ Drops /\ UNCHANGED queue

(***************************************************************************)
(* RunWorker::serve_one.                                                   *)
(***************************************************************************)
(* Before the history is proved a command is refused and nothing is        *)
(* remembered of it.                                                       *)
Unproven ==
    /\ hand.at = "taken" /\ ~proven
    /\ Tell(hand.cmd, "unproven") /\ PutDown
    /\ UNCHANGED <<entrance, away, proven, ledger, bounds, done>>

Answered(c) == c \in seen

Repeated ==
    /\ hand.at = "taken" /\ proven /\ Answered(hand.cmd)
    /\ Tell(hand.cmd, IF hand.cmd \in refused THEN "refusal" ELSE "silence") /\ PutDown
    /\ UNCHANGED <<entrance, away, proven, ledger, bounds, done>>

Begin ==
    /\ hand.at = "taken" /\ proven /\ ~Answered(hand.cmd)
    /\ hand' = [hand EXCEPT !.at = "carrying"]
    /\ UNCHANGED <<desk, entrance, away, proven, ledger, bounds, history>>

Write ==
    /\ hand.at = "carrying" /\ hand.lines < LinesOf[hand.cmd]
    /\ ledger' = Append(ledger, hand.cmd)
    /\ hand' = [hand EXCEPT !.lines = @ + 1]
    /\ UNCHANGED <<desk, entrance, away, proven, bounds, history>>

(* Mutant: a refused command is not remembered.                            *)
SettlesDone(ok) == IF ok THEN seen' = seen \cup {hand.cmd} /\ UNCHANGED refused
                         ELSE UNCHANGED entrance

(* A refusal is remembered as well as a success.                           *)
Settle(ok) ==
    /\ seen' = seen \cup {hand.cmd}
    /\ refused' = IF ok THEN refused ELSE refused \cup {hand.cmd}

(* Any of its steps may refuse a command, its first line or a later one    *)
(* already written.  No run answers to a cancel or steer that gets here.   *)
Refuse ==
    /\ hand.at = "carrying"
    /\ IF Interrupt(hand.cmd) THEN UNCHANGED refusals
       ELSE refusals < MaxRefusals /\ refusals' = refusals + 1
    /\ Settle(FALSE) /\ Tell(hand.cmd, "refusal") /\ PutDown
    /\ UNCHANGED <<away, proven, ledger, frames, crashes, done>>

(* The key settles when the command returns, whether or not its provider   *)
(* has answered and whether or not its run has begun.                      *)
Finish ==
    /\ hand.at = "carrying" /\ hand.lines = LinesOf[hand.cmd] /\ ~Interrupt(hand.cmd)
    /\ Settle(TRUE) /\ PutDown
    /\ IF KindOf[hand.cmd] = "errand" THEN UNCHANGED told ELSE Tell(hand.cmd, "silence")
    /\ IF KindOf[hand.cmd] = "plain" THEN Done(hand.cmd) /\ UNCHANGED away
       ELSE Moves(hand.cmd, "out") /\ UNCHANGED done
    /\ UNCHANGED <<proven, ledger, bounds>>

(* RunWorker::finish, on the thread's next look: the answer is recorded    *)
(* under the command's key, or its refusal remembered and handed back.     *)
Answer(c) ==
    /\ hand = NoHand /\ away[c] = "out" /\ KindOf[c] = "errand"
    /\ Moves(c, "no")
    /\ \/ /\ ledger' = Append(ledger, c) /\ Done(c) /\ Tell(c, "silence")
          /\ UNCHANGED <<entrance, refusals>>
       \/ /\ refusals < MaxRefusals /\ refusals' = refusals + 1
          /\ seen' = seen \cup {c} /\ refused' = refused \cup {c}
          /\ Tell(c, "refusal") /\ UNCHANGED <<ledger, done>>
    /\ UNCHANGED <<desk, hand, proven, frames, crashes>>

(* Mutant: a line a lane writes carries no key.                            *)
Unstamped(c) == NoCommand

(* The lane stamps the run's first line with the command's key.            *)
Stamp(c) == c

(* The lane begins the run, or ends before it could.                       *)
Fly(c) ==
    /\ away[c] = "out" /\ KindOf[c] = "dispatch"
    /\ \/ ledger' = Append(ledger, Stamp(c)) /\ Done(c) /\ Moves(c, "flying")
       \/ Moves(c, "home") /\ UNCHANGED <<ledger, done>>
    /\ UNCHANGED <<desk, hand, entrance, proven, bounds, told>>

(* The drive is over: the lane asks no more and the run waits to land.     *)
ComeHome(c) ==
    /\ away[c] = "flying" /\ Moves(c, "home")
    /\ UNCHANGED <<desk, hand, entrance, proven, ledger, bounds, history>>

(* serve_flight: a run home is landed, and one that waited for a lane may  *)
(* not start.  The refusal of a landing or of a start is handed to whoever *)
(* asked for the run; the entrance hears nothing of it.                    *)
Land(c) ==
    /\ hand = NoHand /\ KindOf[c] = "dispatch" /\ away[c] \in {"out", "home"}
    /\ Moves(c, "no")
    /\ \/ away[c] = "home" /\ UNCHANGED <<refusals, told>>
       \/ refusals < MaxRefusals /\ refusals' = refusals + 1 /\ Tell(c, "failed")
    /\ UNCHANGED <<desk, hand, entrance, proven, ledger, frames, crashes, done>>

(***************************************************************************)
(* The process.                                                            *)
(***************************************************************************)
Prove == ~proven /\ proven' = TRUE
         /\ UNCHANGED <<desk, hand, entrance, away, ledger, bounds, history>>

(* Entrance::absorb over the history: every key on a line.                 *)
Restart ==
    /\ crashes < MaxCrashes
    /\ crashes' = crashes + 1
    /\ queue' = <<>> /\ keys' = {} /\ hand' = NoHand /\ proven' = FALSE
    /\ away' = [c \in Commands |-> "no"] /\ told' = Unsaid
    /\ seen' = ToSet(ledger) \cap Commands /\ refused' = {}
    /\ UNCHANGED <<ledger, frames, refusals, done>>

Serve == Take \/ Unproven \/ Repeated \/ Begin \/ Write \/ Refuse \/ Finish
Next ==
    \/ \E c \in Commands : Post(c) \/ Lift(c) \/ Answer(c) \/ Fly(c) \/ ComeHome(c) \/ Land(c)
    \/ Serve
    \/ Prove
    \/ Restart

Spec == Init /\ [][Next]_vars

(***************************************************************************)
(* Properties.                                                             *)
(***************************************************************************)
(* The variables keep their types, and the keys in flight are exactly      *)
(* those of the commands in line and of the one carried out.               *)
TypeOK ==
    /\ queue \in Seq(Commands)
    /\ hand \in [cmd : Commands \cup {NoCommand}, at : {"none", "taken", "carrying"}, lines : Nat]
    /\ keys = (ToSet(queue) \cup {hand.cmd}) \ {NoCommand}
    /\ seen \subseteq Commands /\ refused \subseteq seen
    /\ away \in [Commands -> {"no", "out", "flying", "home"}]
    /\ ToSet(ledger) \subseteq Commands \cup {NoCommand}

(* How often a command may be carried out to its end.  A cancel or steer   *)
(* is remembered by nobody, so that every frame may be one more.  A plain  *)
(* command that writes no line is remembered by the process alone.         *)
Times(c) ==
    IF Interrupt(c) THEN frames[c]
    ELSE IF KindOf[c] = "plain" /\ LinesOf[c] = 0 THEN 1 + crashes
    ELSE 1

(* A command is not carried out twice: one that writes a line only once,   *)
(* however often its frame is sent and wherever the process died in        *)
(* between; one that writes none once in a process; a cancel or steer once *)
(* for a frame (Entrance::settle and absorb, Waiting::forget).             *)
DoneOnce == \A c \in Commands : done[c] <= Times(c)

(* The answers a command was given about itself, not about the history.    *)
Verdicts(c) == {told[c][i] : i \in DOMAIN told[c]} \ {"unproven"}

(* In one process a refusal is the last word on a command: once the door   *)
(* has refused it, at once or when its provider answered, no repeat hears  *)
(* silence.  A plain command is told the same from the first ask on, and   *)
(* so is a dispatch by the door.  Two answers stand beside this: the       *)
(* refusal of a dispatch's landing, "failed", which no repeat is told, and *)
(* whatever a cancel or steer is told, which may be lifted after a refusal *)
(* and refused after it was lifted (Entrance::settle and refused_later).   *)
AnswersAgree ==
    \A c \in Commands : ~Interrupt(c) =>
        /\ \A i, j \in DOMAIN told[c] :
            i < j /\ told[c][i] = "refusal" => told[c][j] # "silence"
        /\ KindOf[c] # "errand" => ~({"silence", "refusal"} \subseteq Verdicts(c))

(* Silence says that a plain command was carried out to its end.           *)
SilenceIsDone ==
    \A c \in Commands : KindOf[c] = "plain" /\ "silence" \in Verdicts(c) => done[c] > 0
=============================================================================
