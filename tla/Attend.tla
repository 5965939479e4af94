------------------------------- MODULE Attend -------------------------------
(***************************************************************************)
(* The accounting thread (accounting::worker::attend): the one writer of a *)
(* city's ledger, the one queue it is woken on, the lanes that write       *)
(* through it and come home to it, the drives that wait for memory, the    *)
(* queues of the rooms it lends, the command desk, and the close the       *)
(* process's lifecycle decides.                                            *)
(*                                                                         *)
(* A step of the thread is what it does between two points where a lane or *)
(* a person can see the difference.  A line is the run that wrote it and   *)
(* its number.  A look takes all that is queued and serves it by kind, so  *)
(* the queue is kept by kind, in arrival order.  Claims, signals and what  *)
(* a landing settles have modules of their own; the schedule and the       *)
(* keep-warm doors are left out.                                           *)
(***************************************************************************)
EXTENDS Integers, Sequences, SequencesExt, Lifecycle

CONSTANTS
    Runs, NoRun, Rooms,
    RoomOf,      \* the room each run works in
    Heirs,       \* the runs a landing starts; the others are dispatched
    Scripts,     \* what people post, and in which order: [verb, run]
    Events,      \* what reaches the process from outside
    MaxAsks,     \* relay requests of a run
    MaxBatch,    \* lines of a request
    MaxEvents,   \* events from outside
    MaxFaults,   \* refusals
    Faults       \* of what: "stage", "thread", "land", "ledger", "handoff"

Commands == UNION {ToSet(s) : s \in Scripts}

ASSUME AttendAssumption ==
    /\ RoomOf \in [Runs -> Rooms] /\ Heirs \subseteq Runs /\ NoRun \notin Runs
    /\ Scripts \subseteq Seq([verb : {"dispatch", "cancel", "steer", "errand"},
                             run : Runs \cup {NoRun}])
    /\ \A s \in Scripts : IsInjective(s)
    /\ \A c \in Commands : c.verb = "dispatch" => c.run \in Runs \ Heirs
    /\ Events \subseteq Outside
    /\ {MaxAsks, MaxEvents, MaxFaults} \subseteq Nat /\ MaxBatch \in Nat \ {0}

VARIABLES
    thread,    \* where the thread is, the run it lands, whether it has read a close
    wakes,     \* the one queue: relay requests, runs home, provider answers
    homes,     \* runs found home and not yet landed
    running, waiting, driving,   \* the pool's lanes, its queue, the city's table
    lent,      \* the run that holds each room's queue
    lane,      \* each run: where it is, its requests, its lines, the refs it was told
    ledger,
    queue,     \* the command desk
    closing,   \* the close it was told first: "no", or the mode
    interrupting,
    script,    \* the commands still to be posted
    errands, face, events, faults

pool == <<running, waiting, driving, lent>>
desk == <<queue, closing, interrupting, script>>
process == <<face, events>>
vars == <<thread, wakes, homes, pool, lane, ledger, desk, errands, process, faults>>

NoWakes == [relays |-> <<>>, arrivals |-> <<>>, answers |-> 0]
Handoff == <<NoRun, 0>>

Init ==
    /\ thread = [at |-> "serve", run |-> NoRun, draining |-> FALSE]
    /\ wakes = NoWakes /\ homes = <<>>
    /\ running = {} /\ waiting = <<>> /\ driving = {}
    /\ lent = [m \in Rooms |-> NoRun]
    /\ lane = [r \in Runs |-> [at |-> "new", asks |-> 0, lines |-> 0, refs |-> <<>>]]
    /\ ledger = <<>>
    /\ queue = <<>> /\ closing = "no" /\ interrupting = FALSE /\ script \in Scripts
    /\ errands = 0 /\ face = Face("Opening") /\ events = 0 /\ faults = 0

Alive == face.at # "Gone"
At(place) == Alive /\ thread.at = place
GoesTo(place) == thread' = [thread EXCEPT !.at = place]
Fault(kind) == kind \in Faults /\ faults < MaxFaults /\ faults' = faults + 1
NoFault == UNCHANGED faults
(* The end of one look at the queue: the desk, or the next look of a city  *)
(* that lands the rest.                                                    *)
Looked == IF thread.draining THEN "drain" ELSE "desk"

(***************************************************************************)
(* The lanes.                                                              *)
(***************************************************************************)
(* A request waits in the queue until the thread answers it.               *)
Ask(r, n) ==
    /\ Alive /\ lane[r].at = "driving" /\ lane[r].asks < MaxAsks
    /\ thread.at # "gone"
    /\ wakes' = [wakes EXCEPT !.relays = Append(@, [run |-> r, n |-> n])]
    /\ lane' = [lane EXCEPT ![r].at = "asking", ![r].asks = @ + 1, ![r].lines = @ + n]
    /\ UNCHANGED <<thread, homes, pool, ledger, desk, errands, process, faults>>

(* A request after the thread has ended is refused, and the run freezes.   *)
AskRefused(r) ==
    /\ Alive /\ lane[r].at = "driving" /\ lane[r].asks < MaxAsks
    /\ thread.at = "gone"
    /\ lane' = [lane EXCEPT ![r].at = "refused", ![r].asks = @ + 1]
    /\ UNCHANGED <<thread, wakes, homes, pool, ledger, desk, errands, process, faults>>

(* Where the desk holds a verb that names the run.                         *)
Held(verb, r) == {i \in DOMAIN queue : queue[i] = [verb |-> verb, run |-> r]}

(* CommandDesk::interrupt_for at a safe point: a close that interrupts,    *)
(* then a cancel, then a steer, which the run reads and goes on.           *)
SafePoint(r) ==
    /\ Alive /\ lane[r].at = "driving"
    /\ \/ /\ interrupting
          /\ lane' = [lane EXCEPT ![r].at = "stopped"] /\ UNCHANGED queue
       \/ /\ ~interrupting
          /\ lane' = [lane EXCEPT ![r].at = "stopped"]
          /\ \E i \in Held("cancel", r) : queue' = RemoveAt(queue, i)
       \/ /\ ~interrupting /\ Held("cancel", r) = {}
          /\ \E i \in Held("steer", r) : queue' = RemoveAt(queue, i)
          /\ UNCHANGED lane
    /\ UNCHANGED <<thread, wakes, homes, pool, ledger, closing, interrupting, script, errands,
                   process, faults>>

(* The run is over, however it went, and its lane says so; nobody listens  *)
(* once the thread has ended.                                              *)
ComeHome(r) ==
    /\ Alive /\ lane[r].at \in {"driving", "stopped", "refused"}
    /\ lane' = [lane EXCEPT ![r].at = "home"]
    /\ wakes' = IF thread.at = "gone" THEN wakes
                ELSE [wakes EXCEPT !.arrivals = Append(@, r)]
    /\ UNCHANGED <<thread, homes, pool, ledger, desk, errands, process, faults>>

(* A provider answers a request that is out.                               *)
Answer ==
    /\ Alive /\ thread.at # "gone" /\ errands > wakes.answers
    /\ wakes' = [wakes EXCEPT !.answers = @ + 1]
    /\ UNCHANGED <<thread, homes, pool, lane, ledger, desk, errands, process, faults>>

(***************************************************************************)
(* The one queue (RelayGate::serve, RunWorker::serve_flight).              *)
(***************************************************************************)
Lines(w) == [i \in 1..w.n |-> <<w.run, lane[w.run].lines - w.n + i>>]
Relayed == wakes.relays
Drafts(requests) == FlattenSeq([i \in DOMAIN requests |-> Lines(requests[i])])

(* Mutant: every request is told the refs the batch begins with.           *)
RefsFromStart(i) == [k \in 1..Relayed[i].n |-> Len(ledger) + k]

(* Each request takes the next refs of the batch, in queue order.          *)
RefsOf(i) ==
    LET before == Len(Drafts(SubSeq(Relayed, 1, i - 1)))
    IN  [k \in 1..Relayed[i].n |-> Len(ledger) + before + k]

Request(r) == CHOOSE i \in DOMAIN Relayed : Relayed[i].run = r
Answered(r, accepted) ==
    [lane[r] EXCEPT !.at = IF accepted THEN "driving" ELSE "refused",
                    !.refs = IF accepted THEN @ \o RefsOf(Request(r)) ELSE @]
Told(accepted) ==
    [r \in Runs |-> IF \E i \in DOMAIN Relayed : Relayed[i].run = r
                    THEN Answered(r, accepted) ELSE lane[r]]

(* The answers a look takes off the queue.                                 *)
Taken == wakes.answers

(* A look waits for a first wake, for ever while the city lands the rest   *)
(* with no run found home, and takes all that is queued.  Every relay      *)
(* request goes into one append, which the ledger takes or refuses whole.  *)
Serve ==
    /\ At("serve")
    /\ ~(thread.draining /\ homes = <<>> /\ wakes = NoWakes)
    /\ \/ ledger' = ledger \o Drafts(Relayed) /\ lane' = Told(TRUE) /\ NoFault
       \/ Relayed # <<>> /\ Fault("ledger") /\ UNCHANGED ledger /\ lane' = Told(FALSE)
    /\ homes' = homes \o wakes.arrivals
    /\ errands' = errands - Taken
    /\ wakes' = NoWakes
    /\ GoesTo("land")
    /\ UNCHANGED <<pool, desk, process>>

(* At most one run lands in a look: it is taken off both tables.           *)
Arrive ==
    /\ At("land")
    /\ IF homes = <<>>
       THEN GoesTo(Looked) /\ UNCHANGED <<homes, running, driving>>
       ELSE /\ homes' = Tail(homes)
            /\ running' = running \ {Head(homes)} /\ driving' = driving \ {Head(homes)}
            /\ thread' = [thread EXCEPT !.at = "starting", !.run = Head(homes)]
    /\ UNCHANGED <<wakes, waiting, lent, lane, ledger, desk, errands, process, faults>>

(* Mutant: memory is read with no run driving too.                         *)
MayBeFullAnyway == TRUE

(* Whether a new run may be made to wait: another run is driving, and then *)
(* the memory read now decides.                                            *)
MayBeFull == running # {}

(* The drives that waited start before the run home is landed, oldest      *)
(* first, while memory allows; one whose thread is refused leaves the      *)
(* table and its asker is told.                                            *)
StartWaiting ==
    /\ At("starting")
    /\ \/ /\ waiting # <<>> /\ waiting' = Tail(waiting) /\ UNCHANGED thread
          /\ LET r == Head(waiting)
             IN  \/ /\ running' = running \cup {r} /\ UNCHANGED driving /\ NoFault
                    /\ lane' = [lane EXCEPT ![r].at = "driving"]
                 \/ /\ Fault("thread") /\ driving' = driving \ {r} /\ UNCHANGED running
                    /\ lane' = [lane EXCEPT ![r].at = "unstarted"]
       \/ /\ waiting = <<>> \/ MayBeFull
          /\ GoesTo("landing") /\ NoFault /\ UNCHANGED <<running, waiting, driving, lane>>
    /\ UNCHANGED <<wakes, homes, lent, ledger, desk, errands, process>>

(* Mutant: the queue stays with the run that landed.                       *)
StaysLent(r) == lent

(* What the dispatch borrowed goes back before the outcome is read; a      *)
(* landing that fails ends the look, and of a closing city the landing.    *)
Returned(r) == [m \in Rooms |-> IF lent[m] = r THEN NoRun ELSE lent[m]]
AfterFailedLanding == IF thread.draining THEN "handoff" ELSE "desk"

Land ==
    /\ At("landing")
    /\ lent' = Returned(thread.run)
    /\ \/ lane' = [lane EXCEPT ![thread.run].at = "landed"] /\ GoesTo("heirs") /\ NoFault
       \/ /\ Fault("land") /\ lane' = [lane EXCEPT ![thread.run].at = "unlanded"]
          /\ GoesTo(AfterFailedLanding)
    /\ UNCHANGED <<wakes, homes, running, waiting, driving, ledger, desk, errands, process>>

(***************************************************************************)
(* A run enters a lane: its desks are opened on the room's queue, then the *)
(* pool takes it.                                                          *)
(***************************************************************************)
Lend(r) == IF lent[RoomOf[r]] = NoRun THEN [lent EXCEPT ![RoomOf[r]] = r] ELSE lent

Enter(r) ==
    /\ lane[r].at = "new"
    /\ lent' = Lend(r)
    /\ \/ /\ running' = running \cup {r} /\ driving' = driving \cup {r} /\ UNCHANGED waiting
          /\ lane' = [lane EXCEPT ![r].at = "driving"] /\ NoFault
       \/ /\ MayBeFull
          /\ waiting' = Append(waiting, r) /\ driving' = driving \cup {r} /\ UNCHANGED running
          /\ lane' = [lane EXCEPT ![r].at = "waiting"] /\ NoFault
       \/ /\ Fault("stage") \/ Fault("thread")
          /\ lane' = [lane EXCEPT ![r].at = "unstarted"]
          /\ UNCHANGED <<running, waiting, driving>>

(* A refusal that comes before the loan leaves nothing behind.             *)
RefuseDispatch(r) ==
    /\ lane[r].at = "new" /\ Fault("stage")
    /\ lane' = [lane EXCEPT ![r].at = "unstarted"] /\ UNCHANGED pool

(* A landing answers the knocks it left and moves the pursuits on, which   *)
(* may start a run.                                                        *)
StartHeirs ==
    /\ At("heirs")
    /\ \/ GoesTo(Looked) /\ UNCHANGED <<pool, lane, faults>>
       \/ GoesTo(Looked) /\ \E r \in Heirs : Enter(r)
    /\ UNCHANGED <<wakes, homes, ledger, desk, errands, process>>

(***************************************************************************)
(* The desk.                                                               *)
(***************************************************************************)
(* Mutant: a cancel stays on the desk whether or not its run drives.       *)
ForAnyRun(c) == c.verb \in {"cancel", "steer"}

ForALane(c) == c.verb \in {"cancel", "steer"} /\ c.run \in driving
IsNext(i) == ~ForALane(queue[i]) /\ \A j \in 1..(i - 1) : ForALane(queue[j])

(* The first command that is not a lane's to lift.  A cancel or a steer    *)
(* no run answers is refused to whoever posted it.                         *)
TakeCommand ==
    /\ At("desk")
    /\ \E i \in DOMAIN queue :
        /\ IsNext(i)
        /\ queue' = RemoveAt(queue, i)
        /\ LET c == queue[i]
           IN  \/ /\ c.verb = "dispatch" /\ UNCHANGED errands
                  /\ Enter(c.run) \/ RefuseDispatch(c.run)
               \/ /\ c.verb = "errand" /\ UNCHANGED <<pool, lane>>
                  /\ \/ errands' = errands + 1 /\ NoFault
                     \/ Fault("thread") /\ UNCHANGED errands
               \/ c.verb \in {"cancel", "steer"} /\ UNCHANGED <<pool, lane, errands, faults>>
    /\ GoesTo("serve")
    /\ UNCHANGED <<wakes, homes, ledger, closing, interrupting, script, process>>

(* With nothing to take, the thread looks again, or reads the close.       *)
Idle ==
    /\ At("desk") /\ \A i \in DOMAIN queue : ForALane(queue[i])
    /\ IF closing = "no" THEN GoesTo("serve")
       ELSE thread' = [thread EXCEPT !.at = "drain", !.draining = TRUE]
    /\ UNCHANGED <<wakes, homes, pool, lane, ledger, desk, errands, process, faults>>

(* Mutants: the requests still out are not waited for; the desk is.        *)
UnfinishedLanes == running # {}
UnfinishedDesk == running # {} \/ errands > 0 \/ queue # <<>>

(* RunWorker::land_the_rest: lanes still driving, or requests still out.   *)
Unfinished == running # {} \/ errands > 0

LandTheRest ==
    /\ At("drain")
    /\ GoesTo(IF Unfinished THEN "serve" ELSE "handoff")
    /\ UNCHANGED <<wakes, homes, pool, lane, ledger, desk, errands, process, faults>>

(* The handoff is written or refused, and the thread ends either way: a    *)
(* request still queued is answered by the queue's end.                    *)
CloseCity ==
    /\ At("handoff")
    /\ \/ ledger' = Append(ledger, Handoff) /\ NoFault
       \/ Fault("handoff") /\ UNCHANGED ledger
    /\ lane' = Told(FALSE)
    /\ wakes' = NoWakes
    /\ GoesTo("gone")
    /\ UNCHANGED <<homes, pool, desk, errands, process>>

(***************************************************************************)
(* People and the process.                                                 *)
(***************************************************************************)
(* The desk takes what is posted, before the close and after it.           *)
Post ==
    /\ Alive /\ script # <<>>
    /\ script' = Tail(script) /\ queue' = Append(queue, Head(script))
    /\ UNCHANGED <<thread, wakes, homes, pool, lane, ledger, closing, interrupting, errands,
                   process, faults>>

(* The first reason given stands; a face that interrupts interrupts the    *)
(* desk.                                                                   *)
Carried(event) ==
    /\ face' = Step(face, event)
    /\ closing' = IF closing = "no" /\ face'.at = "Stopping" THEN face'.how ELSE closing
    /\ interrupting' = (interrupting \/ Armed(face'))
    /\ UNCHANGED <<thread, wakes, homes, pool, lane, ledger, queue, script, errands, faults>>

Reaches(event) ==
    /\ Alive /\ events < MaxEvents /\ Step(face, event) # face
    /\ events' = events + 1 /\ Carried(event)

(* The worker is joined once its thread has ended.                         *)
Joined == Alive /\ thread.at = "gone" /\ Carried("Landed") /\ UNCHANGED events
Deadline == Armed(face) /\ Carried("Deadline") /\ UNCHANGED events

Thread == Serve \/ Arrive \/ StartWaiting \/ Land \/ StartHeirs \/ TakeCommand \/ Idle
          \/ LandTheRest \/ CloseCity
Lane(r) == SafePoint(r) \/ AskRefused(r) \/ \E n \in 1..MaxBatch : Ask(r, n)
Next ==
    \/ Thread
    \/ \E r \in Runs : Lane(r) \/ ComeHome(r)
    \/ Answer
    \/ Post
    \/ \E e \in Events : Reaches(e)
    \/ Joined
    \/ Deadline

Spec == Init /\ [][Next]_vars

(* The thread and the process go on, every run ends, every provider        *)
(* request answers or times out.                                           *)
Fairness ==
    /\ WF_vars(Thread) /\ WF_vars(Answer) /\ WF_vars(Joined) /\ WF_vars(Deadline)
    /\ \A r \in Runs : WF_vars(ComeHome(r))
FairSpec == Spec /\ Fairness

(***************************************************************************)
(* Properties.                                                             *)
(***************************************************************************)
Places == {"serve", "land", "starting", "landing", "heirs", "desk", "drain", "handoff", "gone"}
LanePlaces == {"new", "waiting", "driving", "asking", "stopped", "refused", "home", "landed",
               "unlanded", "unstarted"}
UnderWay == {r \in Runs : lane[r].at \in {"waiting", "driving", "asking", "stopped", "refused",
                                          "home"}}

(* The variables keep their types: in particular no answer is taken for a  *)
(* provider request that was never sent.                                   *)
TypeOK ==
    /\ thread \in [at : Places, run : Runs \cup {NoRun}, draining : BOOLEAN]
    /\ wakes \in [relays : Seq([run : Runs, n : 1..MaxBatch]), arrivals : Seq(Runs),
                  answers : Nat]
    /\ wakes.answers <= errands
    /\ homes \in Seq(Runs) /\ waiting \in Seq(Runs)
    /\ running \subseteq Runs /\ driving \subseteq Runs
    /\ lent \in [Rooms -> Runs \cup {NoRun}]
    /\ \A r \in Runs : lane[r].at \in LanePlaces /\ lane[r].asks \in 0..MaxAsks
    /\ queue \in Seq(Commands) /\ closing \in Modes \cup {"no"} /\ errands \in Nat
    /\ face \in Faces

(* The refs a lane was told are where its own lines stand in the ledger,   *)
(* in the order it wrote them, although one append carries the lines of    *)
(* several lanes (RelayGate::serve).                                       *)
RefsAreOwn ==
    \A r \in Runs : \A k \in DOMAIN lane[r].refs :
        lane[r].refs[k] \in DOMAIN ledger /\ ledger[lane[r].refs[k]] = <<r, k>>

(* The city's table holds exactly the runs that drive or wait, and no run  *)
(* waits for memory while none drives: what in_flight, which does not      *)
(* count the waiting, rests on.                                            *)
NothingWaitsIdle ==
    /\ driving = running \cup ToSet(waiting)
    /\ thread.at # "starting" => (waiting # <<>> => running # {})

(* The queue of a room is out only with a run the city still has: driving, *)
(* waiting, or being landed (return_borrowed).  A run refused after its    *)
(* loan is the exception: nothing hands its queue back.                    *)
LoansComeBack ==
    \A m \in Rooms : lent[m] # NoRun =>
        \/ lent[m] \in driving
        \/ thread.run = lent[m] /\ thread.at \in {"starting", "landing"}
        \/ lane[lent[m]].at = "unstarted"

(* Before the handoff is written every run under way has landed, also one  *)
(* that waited or that a landing started, and every provider request has   *)
(* been recorded, unless a landing failed (land_the_rest, close_city).     *)
DrainedFirst ==
    thread.at \in {"handoff", "gone"} =>
        (UnderWay = {} /\ errands = 0) \/ \E r \in Runs : lane[r].at = "unlanded"

(* A process that ends saying its handoff is written has written it.       *)
HandoffIsWritten == face = Gone("Written") => Handoff \in ToSet(ledger)

(* What the desk accepted before the close is carried out, lifted by the   *)
(* run it names or refused; nothing is left when the thread ends.          *)
AcceptedIsFinished == thread.at = "gone" => queue = <<>>

(* A command leaves the desk of a city that is not told to close: carried  *)
(* out, lifted at a safe point, or refused when the run it names comes     *)
(* home first.                                                             *)
CommandIsTaken ==
    \A c \in Commands : c \in ToSet(queue) ~> (c \notin ToSet(queue) \/ closing # "no" \/ ~Alive)

(* A city told to close ends, whatever its runs and its desk hold.         *)
CloseEnds == face.at = "Stopping" ~> face.at = "Gone"
=============================================================================
