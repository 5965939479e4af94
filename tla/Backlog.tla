------------------------------ MODULE Backlog ------------------------------
(***************************************************************************)
(* The table of what is still running while a run goes on                  *)
(* (runtime::backlog): the commands the exec tool starts, on the host or   *)
(* in a container, the short window a call waits for one, the hand-over to *)
(* the background, the harvest at the end of a call, the halt of a scope   *)
(* and the release when a run drops its tools; and the runs handed down,   *)
(* which a halt marks and which stop at their next safe point.             *)
(*                                                                         *)
(* Every lane makes one exec call at a time; halts come from the           *)
(* accounting thread; what holds the table's lock is one step.  A member   *)
(* is its number.  The live preview of the output, shares and memory       *)
(* ceilings and a poisoned lock are left out.                              *)
(***************************************************************************)
EXTENDS Integers, Sequences, FiniteSets

CONSTANTS
    Runs, NoRun, Scopes, City,
    ScopeOf,     \* the scope each run works in
    HandedDown,  \* the runs that are members of the table themselves
    Kinds,       \* where commands run: "host", "container"
    MaxCmds,     \* commands started
    MaxPolls,    \* PollBudget.polls
    MaxHalts,    \* halts
    MaxFaults,   \* spawns, kills, removals and polls that fail
    Faults       \* which of them may: "start", "stop", "poll"

ASSUME BacklogAssumption ==
    /\ ScopeOf \in [Runs -> Scopes] /\ HandedDown \subseteq Runs /\ NoRun \notin Runs
    /\ City \notin Scopes
    /\ Kinds \subseteq {"host", "container"} /\ Faults \subseteq {"start", "stop", "poll"}
    /\ {MaxCmds, MaxHalts, MaxFaults} \subseteq Nat /\ MaxPolls \in Nat

VARIABLES
    cmd,     \* each command: where it is, its process, its Claim, its output files
    run,     \* each run: where its lane is, its call, its member of the table
    told,    \* history: the results that carried a command's ending
    halts, faults

vars == <<cmd, run, told, halts, faults>>

Cmds == 1..MaxCmds
NoCmd == 0
NewCmd == [at |-> "new", kind |-> "host", owner |-> NoRun, proc |-> "none", claim |-> "none",
           files |-> FALSE, heard |-> FALSE, refused |-> FALSE]

Init ==
    /\ cmd = [c \in Cmds |-> NewCmd]
    /\ run = [r \in Runs |-> [at |-> "going", call |-> NoCmd, polls |-> 0, settled |-> NoCmd,
                              member |-> IF r \in HandedDown THEN "Going" ELSE "none"]]
    /\ told = [c \in Cmds |-> <<>>]
    /\ halts = 0 /\ faults = 0

Fault(kind) == kind \in Faults /\ faults < MaxFaults /\ faults' = faults + 1
InTable(c) == cmd[c].at = "table"
Alive(c) == cmd[c].proc \in {"running", "stopping"}

(* A call that ends with an answer goes on to the harvest; one that fails  *)
(* is over.                                                                *)
Returns(r, c) == [run EXCEPT ![r].at = "answered", ![r].call = NoCmd, ![r].settled = c]
Fails(r) == [run EXCEPT ![r].at = "going", ![r].call = NoCmd, ![r].settled = NoCmd]

-----------------------------------------------------------------------------
(* A call of the exec tool. *)

(* The numbers not given out; ids are handed out in order. *)
Fresh == {c \in Cmds : cmd[c].at = "new"}

(* The safe point before the call, and mint. *)
Mint(r, kind) ==
    /\ run[r].at = "going" /\ run[r].member # "Stopping"
    /\ \E c \in Fresh :
        /\ \A d \in Fresh : c <= d
        /\ cmd' = [cmd EXCEPT ![c].at = "minted", ![c].kind = kind, ![c].owner = r]
        /\ run' = [run EXCEPT ![r].at = "calling", ![r].call = c, ![r].polls = MaxPolls]
    /\ UNCHANGED <<told, halts, faults>>

(* Backlog::run: the process is started, outside the table's lock. *)
Spawn(r) ==
    LET c == run[r].call IN
    /\ run[r].at = "calling" /\ cmd[c].at = "minted" /\ cmd[c].kind = "host"
    /\ \/ /\ Fault("start")
          /\ cmd' = [cmd EXCEPT ![c].at = "gone"]
          /\ run' = Fails(r)
       \/ /\ cmd' = [cmd EXCEPT ![c].at = "spawned", ![c].proc = "running", ![c].files = TRUE]
          /\ UNCHANGED <<run, faults>>
    /\ UNCHANGED <<told, halts>>

(* Jobs::enrol: the command enters the table, in its window. *)
Enrol(r) ==
    LET c == run[r].call IN
    /\ run[r].at = "calling" /\ cmd[c].at = "spawned"
    /\ cmd' = [cmd EXCEPT ![c].at = "table", ![c].claim = "Window"]
    /\ UNCHANGED <<run, told, halts, faults>>

(* Backlog::run_container: entered and started under one lock; a start     *)
(* that fails takes the member out again, unless its removal fails too.    *)
StartContainer(r) ==
    LET c == run[r].call IN
    /\ run[r].at = "calling" /\ cmd[c].at = "minted" /\ cmd[c].kind = "container"
    /\ \/ /\ cmd' = [cmd EXCEPT ![c].at = "table", ![c].proc = "running", ![c].files = TRUE,
                                ![c].claim = "Window"]
          /\ UNCHANGED <<run, faults>>
       \/ /\ Fault("start")
          /\ cmd' = [cmd EXCEPT ![c].at = "gone"]
          /\ run' = Fails(r)
       \/ /\ "start" \in Faults /\ Fault("stop")
          /\ cmd' = [cmd EXCEPT ![c].at = "table", ![c].proc = "stopping", ![c].files = TRUE,
                                ![c].claim = "Nobody", ![c].refused = TRUE]
          /\ run' = Fails(r)
    /\ UNCHANGED <<told, halts>>

(* Process::poll: a host child always answers; a container that exited or  *)
(* is being stopped is removed now, or the poll fails and leaves it so.    *)
Ended(c) == cmd[c].proc \in {"exited", "stopping", "ended"}
PollFails(c) == cmd[c].kind = "container" /\ cmd[c].proc \in {"running", "exited", "stopping"}

(* settle: the command stopped inside its window, and leaves the table. *)
Settle(r) ==
    LET c == run[r].call IN
    /\ cmd' = [cmd EXCEPT ![c].at = "gone", ![c].proc = "ended", ![c].files = FALSE]
    /\ run' = Returns(r, c)
    /\ UNCHANGED faults

(* Mutant: the wait goes on while the command runs. *)
StillRunningForever(r) == UNCHANGED <<cmd, run, faults>>

(* watch: the command runs on, and one poll of the window is spent. *)
StillRunning(r) ==
    /\ run' = [run EXCEPT ![r].polls = @ - 1]
    /\ UNCHANGED <<cmd, faults>>

(* watch: one poll of the window; a poll that fails leaves the command to  *)
(* the run's harvest, and the call fails.                                  *)
Poll(r) ==
    LET c == run[r].call IN
    /\ run[r].at = "calling" /\ InTable(c) /\ run[r].polls > 0
    /\ \/ Ended(c) /\ Settle(r)
       \/ cmd[c].proc = "running" /\ StillRunning(r)
       \/ /\ PollFails(c) /\ Fault("poll")
          /\ cmd' = [cmd EXCEPT ![c].claim = "Run", ![c].proc = "stopping"]
          /\ run' = Fails(r)
    /\ UNCHANGED <<told, halts>>

(* hand_over: past the window, the command is owed to its run. *)
HandOver(r) ==
    LET c == run[r].call IN
    /\ run[r].at = "calling" /\ InTable(c) /\ run[r].polls = 0
    /\ cmd' = [cmd EXCEPT ![c].claim = "Run"]
    /\ run' = Returns(r, NoCmd)
    /\ UNCHANGED <<told, halts, faults>>

(* Mutant: the harvest does not ask whose a command is. *)
OwedAnyone(r) == {c \in Cmds : InTable(c) /\ cmd[c].claim # "Window"}

(* The members a harvest by r looks at. *)
OwedTo(r) ==
    {c \in Cmds : /\ InTable(c)
                  /\ cmd[c].claim = "Nobody" \/ (cmd[c].claim = "Run" /\ cmd[c].owner = r)}

(* ExecTool::invoke, the harvest: the call's own answer and every ending   *)
(* owed to the run go into one result.                                     *)
Harvest(r) ==
    LET stopped == {c \in OwedTo(r) : Ended(c)}
        reported == {c \in stopped : cmd[c].claim = "Run"} \cup ({run[r].settled} \ {NoCmd})
    IN
    /\ run[r].at = "answered"
    /\ cmd' = [c \in Cmds |->
                IF c \in stopped THEN [cmd[c] EXCEPT !.at = "gone", !.proc = "ended", !.files = FALSE]
                ELSE cmd[c]]
    /\ told' = [c \in Cmds |->
                IF c \notin reported THEN told[c]
                ELSE Append(told[c], [to |-> r, whole |-> c = run[r].settled \/ cmd[c].files])]
    /\ run' = Fails(r)
    /\ UNCHANGED <<halts, faults>>

(* A poll inside the harvest fails: the members before it were read and    *)
(* their files taken away, no member leaves, and the call fails.           *)
HarvestFails(r) ==
    /\ run[r].at = "answered" /\ Fault("poll")
    /\ \E k \in OwedTo(r) :
        /\ PollFails(k)
        /\ cmd' = [c \in Cmds |->
                    IF c = k THEN [cmd[c] EXCEPT !.proc = "stopping"]
                    ELSE IF c \in OwedTo(r) /\ c < k /\ Ended(c)
                         THEN [cmd[c] EXCEPT !.proc = "ended", !.files = FALSE]
                         ELSE cmd[c]]
    /\ run' = Fails(r)
    /\ UNCHANGED <<told, halts>>

-----------------------------------------------------------------------------
(* Stopping. *)

(* Process::stop: killed or removed; a container whose removal failed is   *)
(* removed at a later poll.                                                *)
Stopped(m, refused) ==
    IF ~refused THEN [m EXCEPT !.proc = "ended"]
    ELSE [m EXCEPT !.refused = TRUE,
                   !.proc = IF m.kind = "container" THEN "stopping" ELSE @]

Refusing(cs) == {{}} \cup (IF "stop" \in Faults /\ faults < MaxFaults
                           THEN {{c} : c \in {x \in cs : Alive(x) \/ PollFails(x)}} ELSE {})

(* A halt that names no scope covers the city. *)
Covered(r, s) == s \in {ScopeOf[r], City}

(* The commands a halt of a scope finds in the table. *)
Reached(s) == {c \in Cmds : InTable(c) /\ Covered(cmd[c].owner, s)}

(* halt: every member of the scope, commands stopped and runs marked. *)
Halt(s) ==
    /\ halts < MaxHalts /\ halts' = halts + 1
    /\ \E refusing \in Refusing(Reached(s)) :
        /\ cmd' = [c \in Cmds |->
                    LET m == [cmd[c] EXCEPT !.heard = @ \/ (Alive(c) /\ c \notin refusing
                                                            /\ Covered(cmd[c].owner, s))]
                    IN IF c \in Reached(s) THEN Stopped(m, c \in refusing) ELSE m]
        /\ faults' = faults + Cardinality(refusing)
    /\ run' = [r \in Runs |-> IF Covered(r, s) /\ run[r].member = "Going"
                              THEN [run[r] EXCEPT !.member = "Stopping"] ELSE run[r]]
    /\ UNCHANGED told

(* The commands a run that ends leaves behind. *)
Owned(r) == {c \in Cmds : InTable(c) /\ cmd[c].owner = r /\ cmd[c].claim \in {"Window", "Run"}}

(* Mutant: the claims are lowered and the commands go on. *)
ReleaseOnly(r) ==
    /\ run[r].at = "going"
    /\ cmd' = [c \in Cmds |-> IF c \in Owned(r) THEN [cmd[c] EXCEPT !.claim = "Nobody"] ELSE cmd[c]]
    /\ run' = [run EXCEPT ![r].at = "over"]
    /\ UNCHANGED <<told, halts, faults>>

(* The run ends and drops its tools: release. *)
Release(r) ==
    /\ run[r].at = "going"
    /\ \E refusing \in Refusing(Owned(r)) :
        /\ cmd' = [c \in Cmds |-> IF c \in Owned(r)
                    THEN [Stopped(cmd[c], c \in refusing) EXCEPT !.claim = "Nobody"]
                    ELSE cmd[c]]
        /\ faults' = faults + Cardinality(refusing)
    /\ run' = [run EXCEPT ![r].at = "over"]
    /\ UNCHANGED <<told, halts>>

(* leave: the accounting thread takes the run's own member out. *)
Leave(r) ==
    /\ run[r].at = "over" /\ run[r].member # "none"
    /\ run' = [run EXCEPT ![r].member = "none"]
    /\ UNCHANGED <<cmd, told, halts, faults>>

(* A command's process ends by itself. *)
Exits(c) ==
    /\ cmd[c].proc = "running"
    /\ cmd' = [cmd EXCEPT ![c].proc = "exited"]
    /\ UNCHANGED <<run, told, halts, faults>>

Lane(r) == Spawn(r) \/ Enrol(r) \/ StartContainer(r) \/ Poll(r) \/ HandOver(r) \/ Harvest(r)

Rest == (\A r \in Runs : run[r].at = "over" /\ run[r].member = "none") /\ UNCHANGED vars

Next ==
    \/ \E r \in Runs :
        \/ \E kind \in Kinds : Mint(r, kind)
        \/ Lane(r) \/ HarvestFails(r) \/ Release(r) \/ Leave(r)
    \/ \E s \in Scopes \cup {City} : Halt(s)
    \/ \E c \in Cmds : Exits(c)
    \/ Rest

Spec == Init /\ [][Next]_vars

(* A lane goes on with its call, and a run that a halt marked ends at its  *)
(* next safe point.  No command need ever end.                             *)
Fairness == \A r \in Runs :
    /\ WF_vars(Lane(r) \/ HarvestFails(r))
    /\ WF_vars(run[r].member = "Stopping" /\ Release(r))
FairSpec == Spec /\ Fairness

-----------------------------------------------------------------------------
(* The table, the processes and the lanes. *)
TypeOK ==
    /\ cmd \in [Cmds -> [at : {"new", "minted", "spawned", "table", "gone"}, kind : {"host", "container"},
                         owner : Runs \cup {NoRun}, proc : {"none", "running", "exited", "stopping", "ended"},
                         claim : {"none", "Window", "Run", "Nobody"}, files : BOOLEAN,
                         heard : BOOLEAN, refused : BOOLEAN]]
    /\ run \in [Runs -> [at : {"going", "calling", "answered", "over"}, call : {NoCmd} \cup Cmds,
                         polls : 0..MaxPolls, settled : {NoCmd} \cup Cmds,
                         member : {"none", "Going", "Stopping"}]]
    /\ halts \in 0..MaxHalts /\ faults \in 0..MaxFaults

(* No process outlives its run, unless a kill was refused (release).       *)
NothingOutlives ==
    \A c \in Cmds : Alive(c) /\ run[cmd[c].owner].at = "over" => cmd[c].refused

(* An ending is carried by at most one result, of the run that started the *)
(* command and of no other; and unless something failed (a harvest that    *)
(* fails loses the endings it had read), with its output, and no command   *)
(* that started leaves the table unreported while its run goes on (settle, *)
(* harvest).                                                               *)
EndingsReach ==
    \A c \in Cmds :
        LET r == cmd[c].owner IN
        /\ told[c] \in {<<>>} \cup {<<[to |-> r, whole |-> w]>> : w \in {TRUE, faults = 0}}
        /\ faults = 0 /\ cmd[c].at = "gone" /\ cmd[c].claim \in {"Window", "Run"}
                /\ run[r].settled # c
            => told[c] # <<>>

(* A scope that was halted has nothing left going in it that was going     *)
(* when it was halted, unless the halt said that a kill was refused.       *)
HaltedIsStill == \A c \in Cmds : cmd[c].heard => ~Alive(c)

(* A call comes back, although its command may never end (PollBudget).     *)
CallReturns == \A r \in Runs : run[r].at = "calling" ~> run[r].at # "calling"

=============================================================================
