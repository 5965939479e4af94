---------------------------- MODULE BacklogProofs ----------------------------
(***************************************************************************)
(* What becomes of a command and of its ending, for every number of runs,  *)
(* commands, scopes, polls, halts and faults.                              *)
(***************************************************************************)
EXTENDS Backlog, FiniteSetTheorems, TLAPS

Places == {"new", "minted", "spawned", "table", "gone"}
Member ==
    [at : Places, kind : {"host", "container"}, owner : Runs \cup {NoRun},
     proc : {"none", "running", "exited", "stopping", "ended"},
     claim : {"none", "Window", "Run", "Nobody"}, files : BOOLEAN, heard : BOOLEAN,
     refused : BOOLEAN]
Seat ==
    [at : {"going", "calling", "answered", "over"}, call : {NoCmd} \cup Cmds, polls : Int,
     settled : {NoCmd} \cup Cmds, member : {"none", "Going", "Stopping"}]

Types ==
    /\ cmd \in [Cmds -> Member] /\ run \in [Runs -> Seat]
    /\ told = [c \in Cmds |-> told[c]] /\ faults \in Nat

(* A command its call still watches.                                       *)
Watched(c) ==
    \/ cmd[c].at \in {"minted", "spawned"}
    \/ cmd[c].at = "table" /\ cmd[c].claim = "Window"

(* Where a command is says who answers for it: the call that started it,   *)
(* the run it was handed to, or nobody, and then it was killed.            *)
Place(c) ==
    /\ cmd[c].at # "new" => cmd[c].owner \in Runs
    /\ cmd[c].at \in {"new", "minted"} => cmd[c].proc = "none"
    /\ cmd[c].at \in {"new", "minted", "spawned"} => cmd[c].claim = "none"
    /\ cmd[c].at = "spawned" => cmd[c].files
    /\ cmd[c].at = "gone" => cmd[c].proc \in {"none", "ended"}
    /\ cmd[c].at = "table" => cmd[c].claim # "none"
    /\ cmd[c].claim = "Nobody" => cmd[c].proc = "ended" \/ cmd[c].refused

(* Whoever answers for it is still there.                                  *)
Charge(c) ==
    /\ Watched(c) => run[cmd[c].owner].at = "calling" /\ run[cmd[c].owner].call = c
    /\ cmd[c].at = "table" /\ cmd[c].claim = "Run" => run[cmd[c].owner].at # "over"

(* A call watches its own command, an answer carries its own ending.       *)
Calls(r) ==
    /\ run[r].at = "calling" =>
        run[r].call \in Cmds /\ cmd[run[r].call].owner = r /\ Watched(run[r].call)
    /\ run[r].settled # NoCmd =>
        /\ run[r].at = "answered" /\ cmd[run[r].settled].owner = r
        /\ cmd[run[r].settled].at = "gone" /\ told[run[r].settled] = <<>>

(* What has been told of a command.                                        *)
Endings(c) ==
    /\ cmd[c].at # "gone" => told[c] = <<>>
    /\ told[c] = <<>> \/ \E w \in {TRUE, faults = 0} : told[c] = <<[to |-> cmd[c].owner, whole |-> w]>>
    /\ faults = 0 /\ cmd[c].at = "table" => cmd[c].files
    /\ faults = 0 /\ cmd[c].at = "gone" /\ cmd[c].claim \in {"Window", "Run"} =>
        run[cmd[c].owner].settled = c \/ told[c] # <<>>

IInv ==
    /\ Types
    /\ \A c \in Cmds : Place(c) /\ Charge(c) /\ Endings(c)
    /\ \A r \in Runs : Calls(r)

LEMMA InitHolds == Init => IInv
<1> SUFFICES ASSUME Init PROVE IInv
    OBVIOUS
<1>1. Types
    BY DEF Init, Types, NewCmd, Member, Seat, Places, NoCmd
<1>2. ASSUME NEW c \in Cmds PROVE Place(c) /\ Charge(c) /\ Endings(c)
  <2>1. cmd[c] = NewCmd /\ told[c] = <<>>
      BY DEF Init
  <2> QED
      BY <2>1 DEF NewCmd, Place, Charge, Endings, Watched
<1>3. ASSUME NEW r \in Runs PROVE Calls(r)
    BY DEF Init, Calls
<1> QED
    BY <1>1, <1>2, <1>3 DEF IInv

(***************************************************************************)
(* One call and its command.                                               *)
(***************************************************************************)
(* A run that is in a call, or starts one, changes its seat and one        *)
(* command, which is or becomes its own.                                   *)
LEMMA OneCommand ==
    ASSUME IInv, NEW r \in Runs, NEW c \in Cmds,
           cmd' \in [Cmds -> Member], run' \in [Runs -> Seat], told' = told,
           faults' \in {faults, faults + 1},
           \A d \in Cmds \ {c} : cmd'[d] = cmd[d],
           \A q \in Runs \ {r} : run'[q] = run[q],
           cmd[c].at = "new" \/ cmd[c].owner = r,
           cmd'[c].owner = r,
           \/ run[r].at = "going"
           \/ run[r].at = "calling" /\ run[r].call = c,
           run'[r].at # "over",
           Place(c)', Charge(c)', Endings(c)', Calls(r)'
    PROVE  IInv'
<1>1. run[r].settled = NoCmd
    BY DEF IInv, Calls
<1>2. Types'
    BY DEF IInv, Types
<1>3. faults \in Nat /\ (faults' = 0 => faults = 0) /\ (faults = 0 \/ faults' # 0)
    BY DEF IInv, Types
<1>4. ASSUME NEW d \in Cmds, d # c PROVE Place(d)' /\ Charge(d)' /\ Endings(d)'
  <2>1. cmd'[d] = cmd[d] /\ told'[d] = told[d] /\ Place(d) /\ Charge(d) /\ Endings(d)
      BY <1>4 DEF IInv
  <2>2. Place(d)'
      BY <2>1 DEF Place
  <2>3. Watched(d) => cmd[d].owner # r
      BY <2>1, <1>4 DEF Charge
  <2>4. cmd[d].at # "new" => cmd[d].owner \in Runs
      BY <2>1 DEF Place
  <2>5. Charge(d)'
      BY <2>1, <2>3, <2>4 DEF Charge, Watched
  <2>6. cmd[d].at # "new" /\ cmd[d].owner # r => run'[cmd[d].owner] = run[cmd[d].owner]
      BY <2>4
  <2>7. cmd[d].owner = r => run[r].settled # d
      BY <1>1 DEF NoCmd, Cmds
  <2>8. Endings(d)'
    <3>1. told'[d] = <<>> \/ \E w \in {TRUE, faults' = 0} : told'[d] = <<[to |-> cmd'[d].owner, whole |-> w]>>
      <4>1. CASE told[d] = <<>>
          BY <4>1, <2>1
      <4>2. CASE told[d] # <<>>
        <5>1. PICK w \in {TRUE, faults = 0} : told[d] = <<[to |-> cmd[d].owner, whole |-> w]>>
            BY <4>2, <2>1 DEF Endings
        <5>2. w \in {TRUE, faults' = 0}
            BY <5>1, <1>3
        <5> QED
            BY <5>1, <5>2, <2>1
      <4> QED
          BY <4>1, <4>2
    <3>2. cmd'[d].at # "gone" => told'[d] = <<>>
        BY <2>1 DEF Endings
    <3>3. faults' = 0 /\ cmd'[d].at = "table" => cmd'[d].files
        BY <2>1, <1>3 DEF Endings
    <3>4. faults' = 0 /\ cmd'[d].at = "gone" /\ cmd'[d].claim \in {"Window", "Run"} =>
              run'[cmd'[d].owner].settled = d \/ told'[d] # <<>>
        BY <2>1, <2>6, <2>7, <1>3 DEF Endings
    <3> QED
        BY <3>1, <3>2, <3>3, <3>4 DEF Endings
  <2> QED
      BY <2>2, <2>5, <2>8
<1>5. ASSUME NEW q \in Runs, q # r PROVE Calls(q)'
  <2>1. run'[q] = run[q] /\ Calls(q)
      BY <1>5 DEF IInv
  <2>2. ASSUME run[q].at = "calling" PROVE run[q].call \in Cmds \ {c}
      BY <2>1, <2>2, <1>5 DEF Calls, Watched
  <2>3. ASSUME run[q].settled # NoCmd PROVE run[q].settled \in Cmds \ {c}
    <3>1. run[q].settled \in Cmds
        BY <2>3 DEF IInv, Types, Seat
    <3> QED
        BY <3>1, <2>1, <2>3, <1>5 DEF Calls
  <2> QED
      BY <2>1, <2>2, <2>3 DEF Calls, Watched
<1> QED
    BY <1>2, <1>4, <1>5 DEF IInv

LEMMA MintStep ==
    ASSUME IInv, NEW r \in Runs, NEW kind \in Kinds, Mint(r, kind)
    PROVE  IInv'
<1>1. PICK c \in Fresh :
        /\ \A d \in Fresh : c <= d
        /\ cmd' = [cmd EXCEPT ![c].at = "minted", ![c].kind = kind, ![c].owner = r]
        /\ run' = [run EXCEPT ![r].at = "calling", ![r].call = c, ![r].polls = MaxPolls]
    BY Zenon DEF Mint
<1>2. /\ run[r].at = "going" /\ told' = told /\ faults' = faults
      /\ c \in Cmds /\ cmd[c].at = "new"
    BY DEF Mint, Fresh
<1>3. cmd \in [Cmds -> Member] /\ run \in [Runs -> Seat] /\ cmd[c] \in Member /\ run[r] \in Seat
    BY <1>2 DEF IInv, Types
<1>4. /\ cmd'[c].at = "minted" /\ cmd'[c].owner = r /\ cmd'[c].proc = cmd[c].proc
      /\ cmd'[c].claim = cmd[c].claim /\ cmd'[c].refused = cmd[c].refused
      /\ \A d \in Cmds \ {c} : cmd'[d] = cmd[d]
    BY <1>1, <1>2, <1>3 DEF Member
<1>5. /\ run'[r].at = "calling" /\ run'[r].call = c /\ run'[r].settled = run[r].settled
      /\ \A q \in Runs \ {r} : run'[q] = run[q]
    BY <1>1, <1>3 DEF Seat
<1>6. cmd' \in [Cmds -> Member]
    BY <1>1, <1>2, <1>3, BacklogAssumption DEF Member, Places
<1>7. run' \in [Runs -> Seat]
  <2>1. MaxPolls \in Int
      BY BacklogAssumption
  <2> QED
      BY <2>1, <1>1, <1>2, <1>3 DEF Seat
<1>8. Place(c) /\ Endings(c) /\ Calls(r)
    BY <1>2 DEF IInv
<1>9. Place(c)' /\ Charge(c)'
    BY <1>2, <1>4, <1>5, <1>8 DEF Place, Charge, Watched
<1>10. Endings(c)'
    BY <1>2, <1>4, <1>8 DEF Endings
<1>11. Calls(r)'
    BY <1>2, <1>4, <1>5, <1>8 DEF Calls, Watched
<1> QED
    BY <1>2, <1>4, <1>5, <1>6, <1>7, <1>9, <1>10, <1>11, OneCommand

(* What a call knows of its command.                                       *)
LEMMA CallOf ==
    ASSUME IInv, NEW r \in Runs, run[r].at = "calling"
    PROVE  \E c \in Cmds :
            /\ c = run[r].call /\ cmd[c] \in Member /\ run[r] \in Seat /\ cmd[c].owner = r
            /\ run[r].settled = NoCmd /\ told[c] = <<>>
            /\ Place(c) /\ Charge(c) /\ Endings(c) /\ Watched(c)
<1>1. PICK c \in Cmds : /\ c = run[r].call /\ cmd[c].owner = r /\ Watched(c)
                        /\ run[r].settled = NoCmd
    BY DEF IInv, Calls
<1>2. Place(c) /\ Charge(c) /\ Endings(c)
    BY <1>1 DEF IInv
<1>3. told[c] = <<>>
    BY <1>1, <1>2 DEF Watched, Endings
<1> QED
    BY <1>1, <1>2, <1>3 DEF IInv, Types

(* The seat of a call that fails, or comes back with an ending or none.    *)
LEMMA SeatAfter ==
    ASSUME IInv, NEW r \in Runs, NEW c \in {NoCmd} \cup Cmds,
           run' = Fails(r) \/ run' = Returns(r, c)
    PROVE  /\ run' \in [Runs -> Seat] /\ \A q \in Runs \ {r} : run'[q] = run[q]
           /\ run' = Fails(r) => run'[r].at = "going" /\ run'[r].settled = NoCmd
           /\ run' = Returns(r, c) => run'[r].at = "answered" /\ run'[r].settled = c
<1>1. run \in [Runs -> Seat] /\ run[r] \in Seat
    BY DEF IInv, Types
<1>2. CASE run' = Fails(r)
  <2>1. /\ run' \in [Runs -> Seat] /\ \A q \in Runs \ {r} : run'[q] = run[q]
        /\ run'[r].at = "going" /\ run'[r].settled = NoCmd
      BY <1>1, <1>2 DEF Fails, Seat
  <2>2. run' = Returns(r, c) => run'[r].at = "answered" /\ run'[r].settled = c
      BY <1>1 DEF Returns, Seat
  <2> QED
      BY <2>1, <2>2
<1>3. CASE run' = Returns(r, c)
  <2>1. /\ run' \in [Runs -> Seat] /\ \A q \in Runs \ {r} : run'[q] = run[q]
        /\ run'[r].at = "answered" /\ run'[r].settled = c
      BY <1>1, <1>3 DEF Returns, Seat
  <2>2. run' = Fails(r) => run'[r].at = "going" /\ run'[r].settled = NoCmd
      BY <1>1 DEF Fails, Seat
  <2> QED
      BY <2>1, <2>2
<1> QED
    BY <1>2, <1>3

(* A call that ends without a result: its command never started, or is     *)
(* somebody else's to report.                                              *)
LEMMA CallFails ==
    ASSUME IInv, NEW r \in Runs, NEW c \in Cmds, run[r].at = "calling", run[r].call = c,
           cmd[c].owner = r, told[c] = <<>>, run' = Fails(r),
           cmd' \in [Cmds -> Member], \A d \in Cmds \ {c} : cmd'[d] = cmd[d],
           cmd'[c].owner = r, told' = told, faults' = faults + 1,
           Place(c)', ~Watched(c)', cmd'[c].at # "gone" \/ cmd'[c].claim = "none"
    PROVE  IInv'
<1>1. /\ run' \in [Runs -> Seat] /\ \A q \in Runs \ {r} : run'[q] = run[q]
      /\ run'[r].at = "going" /\ run'[r].settled = NoCmd
    BY SeatAfter DEF NoCmd
<1>2. Charge(c)'
    BY <1>1 DEF Charge
<1>3. faults' # 0 /\ faults' \in {faults, faults + 1}
    BY DEF IInv, Types
<1>4. Endings(c)'
    BY <1>3 DEF Endings
<1>5. Calls(r)'
    BY <1>1 DEF Calls
<1> QED
    BY <1>1, <1>2, <1>3, <1>4, <1>5, OneCommand

(* A call that goes on with its command.                                   *)
LEMMA CallGoesOn ==
    ASSUME IInv, NEW r \in Runs, NEW c \in Cmds, run[r].at = "calling", run[r].call = c,
           cmd[c].owner = r, told[c] = <<>>,
           cmd' \in [Cmds -> Member], \A d \in Cmds \ {c} : cmd'[d] = cmd[d],
           run' \in [Runs -> Seat], \A q \in Runs \ {r} : run'[q] = run[q],
           run'[r].at = "calling", run'[r].call = c, run'[r].settled = run[r].settled,
           cmd'[c].owner = r, told' = told, faults' = faults,
           Place(c)', Watched(c)', faults = 0 /\ cmd'[c].at = "table" => cmd'[c].files
    PROVE  IInv'
<1>1. run[r].settled = NoCmd
    BY DEF IInv, Calls
<1>2. Charge(c)'
    BY DEF Charge, Watched
<1>3. Endings(c)'
    BY DEF Endings, Watched
<1>4. Calls(r)'
    BY <1>1 DEF Calls
<1> QED
    BY <1>2, <1>3, <1>4, OneCommand

LEMMA SpawnStep ==
    ASSUME IInv, NEW r \in Runs, Spawn(r)
    PROVE  IInv'
<1>1. run[r].at = "calling" /\ cmd[run[r].call].at = "minted" /\ told' = told
    BY DEF Spawn
<1>2. PICK c \in Cmds :
        /\ c = run[r].call /\ cmd[c] \in Member /\ run[r] \in Seat /\ cmd[c].owner = r
        /\ run[r].settled = NoCmd /\ told[c] = <<>>
        /\ Place(c) /\ Charge(c) /\ Endings(c) /\ Watched(c)
    BY <1>1, CallOf
<1>3. cmd \in [Cmds -> Member] /\ run \in [Runs -> Seat]
    BY DEF IInv, Types
<1>4. CASE /\ cmd' = [cmd EXCEPT ![c].at = "gone"] /\ run' = Fails(r) /\ faults' = faults + 1
  <2>1. /\ cmd' \in [Cmds -> Member] /\ \A d \in Cmds \ {c} : cmd'[d] = cmd[d]
        /\ cmd'[c].at = "gone" /\ cmd'[c].owner = r /\ cmd'[c].proc = cmd[c].proc
        /\ cmd'[c].claim = cmd[c].claim
      BY <1>2, <1>3, <1>4 DEF Member, Places
  <2>2. Place(c)' /\ ~Watched(c)' /\ cmd'[c].claim = "none"
      BY <2>1, <1>1, <1>2 DEF Place, Watched
  <2> QED
      BY <2>1, <2>2, <1>1, <1>2, <1>4, CallFails
<1>5. CASE /\ cmd' = [cmd EXCEPT ![c].at = "spawned", ![c].proc = "running", ![c].files = TRUE]
           /\ run' = run /\ faults' = faults
  <2>1. /\ cmd' \in [Cmds -> Member] /\ \A d \in Cmds \ {c} : cmd'[d] = cmd[d]
        /\ cmd'[c].at = "spawned" /\ cmd'[c].owner = r /\ cmd'[c].claim = cmd[c].claim
      BY <1>2, <1>3, <1>5 DEF Member, Places
  <2>2. cmd'[c].files
      BY <1>2, <1>3, <1>5 DEF Member
  <2>3. Place(c)' /\ Watched(c)'
      BY <2>1, <2>2, <1>1, <1>2 DEF Place, Watched
  <2> QED
      BY <2>1, <2>2, <2>3, <1>1, <1>2, <1>3, <1>5, CallGoesOn
<1> QED
    BY <1>2, <1>4, <1>5 DEF Spawn, Fault

LEMMA EnrolStep ==
    ASSUME IInv, NEW r \in Runs, Enrol(r)
    PROVE  IInv'
<1>1. run[r].at = "calling" /\ cmd[run[r].call].at = "spawned"
    BY DEF Enrol
<1>2. PICK c \in Cmds :
        /\ c = run[r].call /\ cmd[c] \in Member /\ run[r] \in Seat /\ cmd[c].owner = r
        /\ run[r].settled = NoCmd /\ told[c] = <<>>
        /\ Place(c) /\ Charge(c) /\ Endings(c) /\ Watched(c)
    BY <1>1, CallOf
<1>3. cmd \in [Cmds -> Member] /\ run \in [Runs -> Seat]
    BY DEF IInv, Types
<1>4. /\ cmd' = [cmd EXCEPT ![c].at = "table", ![c].claim = "Window"]
      /\ run' = run /\ told' = told /\ faults' = faults
    BY <1>2 DEF Enrol
<1>5. /\ cmd' \in [Cmds -> Member] /\ \A d \in Cmds \ {c} : cmd'[d] = cmd[d]
      /\ cmd'[c].at = "table" /\ cmd'[c].owner = r /\ cmd'[c].claim = "Window"
      /\ cmd'[c].files = cmd[c].files
    BY <1>2, <1>3, <1>4 DEF Member, Places
<1>6. Place(c)' /\ Watched(c)'
    BY <1>5 DEF Place, Watched
<1>7. cmd[c].files
    BY <1>1, <1>2 DEF Place
<1> QED
    BY <1>1, <1>2, <1>3, <1>4, <1>5, <1>6, <1>7, CallGoesOn

LEMMA StartContainerStep ==
    ASSUME IInv, NEW r \in Runs, StartContainer(r)
    PROVE  IInv'
<1>1. run[r].at = "calling" /\ cmd[run[r].call].at = "minted" /\ told' = told
    BY DEF StartContainer
<1>2. PICK c \in Cmds :
        /\ c = run[r].call /\ cmd[c] \in Member /\ run[r] \in Seat /\ cmd[c].owner = r
        /\ run[r].settled = NoCmd /\ told[c] = <<>>
        /\ Place(c) /\ Charge(c) /\ Endings(c) /\ Watched(c)
    BY <1>1, CallOf
<1>3. cmd \in [Cmds -> Member] /\ run \in [Runs -> Seat]
    BY DEF IInv, Types
<1>4. CASE /\ cmd' = [cmd EXCEPT ![c].at = "table", ![c].proc = "running", ![c].files = TRUE,
                                 ![c].claim = "Window"]
           /\ run' = run /\ faults' = faults
  <2>1. /\ cmd' \in [Cmds -> Member] /\ \A d \in Cmds \ {c} : cmd'[d] = cmd[d]
        /\ cmd'[c].at = "table" /\ cmd'[c].owner = r /\ cmd'[c].claim = "Window"
        /\ cmd'[c].files
      BY <1>2, <1>3, <1>4 DEF Member, Places
  <2>2. Place(c)' /\ Watched(c)'
      BY <2>1, <1>1, <1>2 DEF Place, Watched
  <2>3. run' = run /\ faults' = faults
      BY <1>4
  <2>4. /\ run' \in [Runs -> Seat] /\ \A q \in Runs \ {r} : run'[q] = run[q]
        /\ run'[r].at = "calling" /\ run'[r].call = c /\ run'[r].settled = run[r].settled
      BY <2>3, <1>1, <1>2, <1>3
  <2> QED
      BY <2>1, <2>2, <2>3, <2>4, <1>1, <1>2, CallGoesOn
<1>5. CASE /\ cmd' = [cmd EXCEPT ![c].at = "gone"] /\ run' = Fails(r) /\ faults' = faults + 1
  <2>1. /\ cmd' \in [Cmds -> Member] /\ \A d \in Cmds \ {c} : cmd'[d] = cmd[d]
        /\ cmd'[c].at = "gone" /\ cmd'[c].owner = r /\ cmd'[c].proc = cmd[c].proc
        /\ cmd'[c].claim = cmd[c].claim
      BY <1>2, <1>3, <1>5 DEF Member, Places
  <2>2. Place(c)' /\ ~Watched(c)' /\ cmd'[c].claim = "none"
      BY <2>1, <1>1, <1>2 DEF Place, Watched
  <2> QED
      BY <2>1, <2>2, <1>1, <1>2, <1>5, CallFails
<1>6. CASE /\ cmd' = [cmd EXCEPT ![c].at = "table", ![c].proc = "stopping", ![c].files = TRUE,
                                 ![c].claim = "Nobody", ![c].refused = TRUE]
           /\ run' = Fails(r) /\ faults' = faults + 1
  <2>1. /\ cmd' \in [Cmds -> Member] /\ \A d \in Cmds \ {c} : cmd'[d] = cmd[d]
        /\ cmd'[c].at = "table" /\ cmd'[c].owner = r /\ cmd'[c].claim = "Nobody"
        /\ cmd'[c].refused
      BY <1>2, <1>3, <1>6 DEF Member, Places
  <2>2. Place(c)' /\ ~Watched(c)'
      BY <2>1 DEF Place, Watched
  <2>3. run' = Fails(r) /\ faults' = faults + 1
      BY <1>6
  <2> QED
      BY <2>1, <2>2, <2>3, <1>1, <1>2, CallFails
<1>7. c = run[r].call
    BY <1>2
<1> QED
    BY <1>4, <1>5, <1>6, <1>7, Zenon DEF StartContainer, Fault

(* A poll settles the call, spends one of its polls, or fails and leaves   *)
(* the command to the run's harvest.                                       *)
LEMMA PollStep ==
    ASSUME IInv, NEW r \in Runs, Poll(r)
    PROVE  IInv'
<1>1. run[r].at = "calling" /\ cmd[run[r].call].at = "table" /\ told' = told
    BY DEF Poll, InTable
<1>2. PICK c \in Cmds :
        /\ c = run[r].call /\ cmd[c] \in Member /\ run[r] \in Seat /\ cmd[c].owner = r
        /\ run[r].settled = NoCmd /\ told[c] = <<>>
        /\ Place(c) /\ Charge(c) /\ Endings(c) /\ Watched(c)
    BY <1>1, CallOf
<1>3. cmd \in [Cmds -> Member] /\ run \in [Runs -> Seat] /\ cmd[c].claim = "Window"
    BY <1>1, <1>2 DEF IInv, Types, Watched
<1>4. CASE /\ cmd' = [cmd EXCEPT ![c].at = "gone", ![c].proc = "ended", ![c].files = FALSE]
           /\ run' = Returns(r, c) /\ faults' = faults
  <2>1. /\ cmd' \in [Cmds -> Member] /\ \A d \in Cmds \ {c} : cmd'[d] = cmd[d]
        /\ cmd'[c].at = "gone" /\ cmd'[c].owner = r /\ cmd'[c].claim = "Window"
        /\ cmd'[c].proc = "ended"
      BY <1>2, <1>3, <1>4 DEF Member, Places
  <2>2. /\ run' \in [Runs -> Seat] /\ \A q \in Runs \ {r} : run'[q] = run[q]
        /\ run'[r].at = "answered" /\ run'[r].settled = c
      BY <1>4, SeatAfter
  <2>3. Place(c)' /\ Charge(c)'
      BY <2>1 DEF Place, Charge, Watched
  <2>4. Endings(c)' /\ Calls(r)'
      BY <2>1, <2>2, <1>1, <1>2 DEF Endings, Calls
  <2> QED
      BY <2>1, <2>2, <2>3, <2>4, <1>1, <1>2, <1>4, OneCommand
<1>5. CASE run' = [run EXCEPT ![r].polls = @ - 1] /\ cmd' = cmd /\ faults' = faults
  <2>1. /\ run' \in [Runs -> Seat] /\ \A q \in Runs \ {r} : run'[q] = run[q]
        /\ run'[r].at = "calling" /\ run'[r].call = c /\ run'[r].settled = run[r].settled
      BY <1>1, <1>2, <1>3, <1>5 DEF Seat
  <2>2. Place(c)' /\ Watched(c)' /\ (faults = 0 => cmd'[c].files)
      BY <1>1, <1>2, <1>5 DEF Place, Watched, Endings
  <2> QED
      BY <2>1, <2>2, <1>1, <1>2, <1>3, <1>5, CallGoesOn
<1>6. CASE /\ cmd' = [cmd EXCEPT ![c].claim = "Run", ![c].proc = "stopping"]
           /\ run' = Fails(r) /\ faults' = faults + 1
  <2>1. /\ cmd' \in [Cmds -> Member] /\ \A d \in Cmds \ {c} : cmd'[d] = cmd[d]
        /\ cmd'[c].at = "table" /\ cmd'[c].owner = r /\ cmd'[c].claim = "Run"
      BY <1>1, <1>2, <1>3, <1>6 DEF Member, Places
  <2>2. Place(c)' /\ ~Watched(c)'
      BY <2>1 DEF Place, Watched
  <2> QED
      BY <2>1, <2>2, <1>1, <1>2, <1>6, CallFails
<1> QED
    BY <1>2, <1>4, <1>5, <1>6 DEF Poll, Settle, StillRunning, Fault

LEMMA HandOverStep ==
    ASSUME IInv, NEW r \in Runs, HandOver(r)
    PROVE  IInv'
<1>1. run[r].at = "calling" /\ cmd[run[r].call].at = "table" /\ told' = told /\ faults' = faults
    BY DEF HandOver, InTable
<1>2. PICK c \in Cmds :
        /\ c = run[r].call /\ cmd[c] \in Member /\ run[r] \in Seat /\ cmd[c].owner = r
        /\ run[r].settled = NoCmd /\ told[c] = <<>>
        /\ Place(c) /\ Charge(c) /\ Endings(c) /\ Watched(c)
    BY <1>1, CallOf
<1>3. cmd \in [Cmds -> Member] /\ run \in [Runs -> Seat]
    BY DEF IInv, Types
<1>4. cmd' = [cmd EXCEPT ![c].claim = "Run"] /\ run' = Returns(r, NoCmd)
    BY <1>2 DEF HandOver
<1>5. /\ cmd' \in [Cmds -> Member] /\ \A d \in Cmds \ {c} : cmd'[d] = cmd[d]
      /\ cmd'[c].at = "table" /\ cmd'[c].owner = r /\ cmd'[c].claim = "Run"
      /\ cmd'[c].files = cmd[c].files
    BY <1>1, <1>2, <1>3, <1>4 DEF Member, Places
<1>6. /\ run' \in [Runs -> Seat] /\ \A q \in Runs \ {r} : run'[q] = run[q]
      /\ run'[r].at = "answered" /\ run'[r].settled = NoCmd
    BY <1>4, SeatAfter DEF NoCmd
<1>7. Place(c)' /\ Charge(c)'
    BY <1>5, <1>6 DEF Place, Charge, Watched
<1>8. Endings(c)'
    BY <1>1, <1>2, <1>5 DEF Endings
<1>9. Calls(r)'
    BY <1>6 DEF Calls
<1> QED
    BY <1>1, <1>2, <1>5, <1>6, <1>7, <1>8, <1>9, OneCommand

(***************************************************************************)
(* Steps of several commands.                                              *)
(***************************************************************************)
(* A step that moves no command and no claim: processes end or are killed, *)
(* and a call that has its answer may fail.                                *)
LEMMA NobodyMoves ==
    ASSUME IInv, cmd' \in [Cmds -> Member], run' \in [Runs -> Seat], told' = told,
           faults' \in Nat, faults' = 0 => faults = 0,
           \A c \in Cmds :
               /\ cmd'[c].at = cmd[c].at /\ cmd'[c].owner = cmd[c].owner
               /\ cmd'[c].claim = cmd[c].claim
               /\ faults' = 0 => cmd'[c].files = cmd[c].files
               /\ Place(c)',
           \A q \in Runs :
               \/ /\ run'[q].at = run[q].at /\ run'[q].call = run[q].call
                  /\ run'[q].settled = run[q].settled
               \/ /\ faults' # 0 /\ run[q].at = "answered"
                  /\ run'[q].at = "going" /\ run'[q].settled = NoCmd
    PROVE  IInv'
<1>1. Types'
    BY DEF IInv, Types
<1>2. ASSUME NEW c \in Cmds PROVE Charge(c)' /\ Endings(c)'
  <2>1. /\ Place(c) /\ Charge(c) /\ Endings(c) /\ told'[c] = told[c]
        /\ cmd'[c].at = cmd[c].at /\ cmd'[c].owner = cmd[c].owner
        /\ cmd'[c].claim = cmd[c].claim /\ (faults' = 0 => cmd'[c].files = cmd[c].files)
      BY DEF IInv
  <2>2. cmd[c].at # "new" => cmd[c].owner \in Runs
      BY <2>1 DEF Place
  <2>3. Charge(c)'
      BY <2>1, <2>2 DEF Charge, Watched
  <2>4. told'[c] = <<>> \/ \E w \in {TRUE, faults' = 0} : told'[c] = <<[to |-> cmd'[c].owner, whole |-> w]>>
    <3>1. CASE told[c] = <<>>
        BY <3>1, <2>1
    <3>2. CASE told[c] # <<>>
      <4>1. PICK w \in {TRUE, faults = 0} : told[c] = <<[to |-> cmd[c].owner, whole |-> w]>>
          BY <3>2, <2>1 DEF Endings
      <4>2. w \in {TRUE, faults' = 0}
        <5>1. faults # 0 => faults' # 0
            OBVIOUS
        <5> QED
            BY <4>1, <5>1
      <4> QED
          BY <4>1, <4>2, <2>1
    <3> QED
        BY <3>1, <3>2
  <2>5. Endings(c)'
    <3>1. cmd'[c].at # "gone" => told'[c] = <<>>
        BY <2>1 DEF Endings
    <3>2. faults' = 0 /\ cmd'[c].at = "table" => cmd'[c].files
        BY <2>1 DEF Endings
    <3>3. faults' = 0 /\ cmd'[c].at = "gone" /\ cmd'[c].claim \in {"Window", "Run"} =>
              run'[cmd'[c].owner].settled = c \/ told'[c] # <<>>
        BY <2>1, <2>2 DEF Endings
    <3> QED
        BY <2>4, <3>1, <3>2, <3>3 DEF Endings
  <2> QED
      BY <2>3, <2>5
<1>3. ASSUME NEW q \in Runs PROVE Calls(q)'
  <2>1. Calls(q)
      BY DEF IInv
  <2>2. ASSUME run'[q].at = "calling" PROVE /\ run'[q].call \in Cmds
                                            /\ cmd'[run'[q].call].owner = q /\ Watched(run[q].call)'
      BY <2>1, <2>2 DEF Calls, Watched
  <2>3. ASSUME run'[q].settled # NoCmd
        PROVE  /\ run'[q].at = "answered" /\ cmd'[run'[q].settled].owner = q
               /\ cmd'[run'[q].settled].at = "gone" /\ told'[run'[q].settled] = <<>>
    <3>1. run'[q].at = run[q].at /\ run'[q].settled = run[q].settled
        BY <2>3
    <3>2. run[q].settled \in Cmds
        BY <2>3, <3>1 DEF IInv, Types, Seat
    <3> QED
        BY <2>1, <2>3, <3>1, <3>2 DEF Calls
  <2> QED
      BY <2>2, <2>3 DEF Calls, Watched
<1> QED
    BY <1>1, <1>2, <1>3 DEF IInv

(* A member that is stopped is ended, or a kill was refused.               *)
LEMMA StoppedMember ==
    ASSUME NEW m \in Member, NEW n, n \in {Stopped(m, TRUE), Stopped(m, FALSE)}
    PROVE  /\ n \in Member /\ n.at = m.at /\ n.owner = m.owner /\ n.claim = m.claim
           /\ n.files = m.files /\ (n.proc = "ended" \/ n.refused)
<1>1. CASE n = Stopped(m, TRUE)
    BY <1>1 DEF Stopped, Member
<1>2. CASE n = Stopped(m, FALSE)
    BY <1>2 DEF Stopped, Member
<1> QED
    BY <1>1, <1>2

(* A stop refuses one member at most.                                      *)
LEMMA RefusedCount ==
    ASSUME NEW cs, NEW refusing \in Refusing(cs)
    PROVE  Cardinality(refusing) \in {0, 1}
<1>1. refusing = {} \/ \E c : refusing = {c}
    BY DEF Refusing
<1> QED
    BY <1>1, FS_EmptySet, FS_Singleton

(* What a harvest that fails at k makes of a member.                       *)
HalfRead(r, k, c) ==
    IF c = k THEN [cmd[c] EXCEPT !.proc = "stopping"]
    ELSE IF c \in OwedTo(r) /\ c < k /\ Ended(c)
         THEN [cmd[c] EXCEPT !.proc = "ended", !.files = FALSE]
         ELSE cmd[c]

LEMMA HarvestFailsStep ==
    ASSUME IInv, NEW r \in Runs, HarvestFails(r)
    PROVE  IInv'
<1>1. /\ run[r].at = "answered" /\ faults' = faults + 1 /\ run' = Fails(r) /\ told' = told
    BY Zenon DEF HarvestFails, Fault
<1>2. PICK k \in OwedTo(r) : PollFails(k) /\ cmd' = [c \in Cmds |-> HalfRead(r, k, c)]
    BY Zenon DEF HarvestFails, HalfRead
<1>3. cmd \in [Cmds -> Member] /\ faults \in Nat
    BY DEF IInv, Types
<1>4. ASSUME NEW c \in Cmds
      PROVE  /\ cmd'[c] \in Member /\ cmd'[c].at = cmd[c].at /\ cmd'[c].owner = cmd[c].owner
             /\ cmd'[c].claim = cmd[c].claim /\ Place(c)'
  <2>1. cmd[c] \in Member /\ Place(c)
      BY <1>3 DEF IInv
  <2>2. CASE c = k
    <3>1. cmd'[c] = [cmd[c] EXCEPT !.proc = "stopping"]
        BY <1>2, <2>2, Zenon DEF HalfRead
    <3>2. /\ cmd'[c] \in Member /\ cmd'[c].at = cmd[c].at /\ cmd'[c].owner = cmd[c].owner
          /\ cmd'[c].claim = cmd[c].claim /\ cmd'[c].refused = cmd[c].refused
          /\ cmd'[c].files = cmd[c].files
        BY <3>1, <2>1 DEF Member
    <3>3. cmd[c].at = "table" /\ cmd[c].proc # "ended"
        BY <1>2, <2>2 DEF OwedTo, InTable, PollFails
    <3> QED
        BY <3>2, <3>3, <2>1 DEF Place
  <2>3. CASE c # k /\ c \in OwedTo(r) /\ c < k /\ Ended(c)
    <3>1. cmd'[c] = [cmd[c] EXCEPT !.proc = "ended", !.files = FALSE]
        BY <1>2, <2>3, Zenon DEF HalfRead
    <3>2. /\ cmd'[c] \in Member /\ cmd'[c].at = cmd[c].at /\ cmd'[c].owner = cmd[c].owner
          /\ cmd'[c].claim = cmd[c].claim /\ cmd'[c].proc = "ended"
        BY <3>1, <2>1 DEF Member
    <3>3. cmd[c].at = "table"
        BY <2>3 DEF OwedTo, InTable
    <3> QED
        BY <3>2, <3>3, <2>1 DEF Place
  <2>4. CASE c # k /\ ~(c \in OwedTo(r) /\ c < k /\ Ended(c))
    <3>1. cmd'[c] = cmd[c]
        BY <1>2, <2>4, Zenon DEF HalfRead
    <3> QED
        BY <3>1, <2>1 DEF Place
  <2> QED
      BY <2>2, <2>3, <2>4
<1>5. cmd' \in [Cmds -> Member]
  <2>1. cmd' = [c \in Cmds |-> cmd'[c]]
      BY <1>2
  <2> QED
      BY <2>1, <1>4
<1>6. /\ run' \in [Runs -> Seat] /\ \A q \in Runs \ {r} : run'[q] = run[q]
      /\ run'[r].at = "going" /\ run'[r].settled = NoCmd
    BY <1>1, SeatAfter DEF NoCmd
<1>7. faults' \in Nat /\ faults' # 0
    BY <1>1, <1>3
<1> QED
    BY <1>1, <1>4, <1>5, <1>6, <1>7, NobodyMoves

LEMMA HaltStep ==
    ASSUME IInv, NEW s \in Scopes \cup {City}, Halt(s)
    PROVE  IInv'
<1>1. PICK refusing \in Refusing(Reached(s)) :
        /\ cmd' = [c \in Cmds |->
                    LET m == [cmd[c] EXCEPT !.heard = @ \/ (Alive(c) /\ c \notin refusing
                                                            /\ Covered(cmd[c].owner, s))]
                    IN IF c \in Reached(s) THEN Stopped(m, c \in refusing) ELSE m]
        /\ faults' = faults + Cardinality(refusing)
    BY Zenon DEF Halt
<1>2. /\ told' = told
      /\ run' = [r \in Runs |-> IF Covered(r, s) /\ run[r].member = "Going"
                                THEN [run[r] EXCEPT !.member = "Stopping"] ELSE run[r]]
    BY DEF Halt
<1>3. cmd \in [Cmds -> Member] /\ run \in [Runs -> Seat] /\ faults \in Nat
    BY DEF IInv, Types
<1>4. faults' \in Nat /\ (faults' = 0 => faults = 0)
    BY <1>1, <1>3, RefusedCount
<1>5. ASSUME NEW c \in Cmds
      PROVE  /\ cmd'[c] \in Member /\ cmd'[c].at = cmd[c].at /\ cmd'[c].owner = cmd[c].owner
             /\ cmd'[c].claim = cmd[c].claim /\ cmd'[c].files = cmd[c].files /\ Place(c)'
  <2> DEFINE h == cmd[c].heard \/ (Alive(c) /\ c \notin refusing /\ Covered(cmd[c].owner, s))
             m == [cmd[c] EXCEPT !.heard = h]
  <2>1. cmd[c] \in Member /\ Place(c)
      BY <1>3 DEF IInv
  <2>2. /\ m \in Member /\ m.at = cmd[c].at /\ m.owner = cmd[c].owner /\ m.claim = cmd[c].claim
        /\ m.files = cmd[c].files /\ m.proc = cmd[c].proc /\ m.refused = cmd[c].refused
    <3>1. h \in BOOLEAN
        OBVIOUS
    <3> HIDE DEF h
    <3> QED
        BY <2>1, <3>1 DEF Member
  <2>3. cmd'[c] = IF c \in Reached(s) THEN Stopped(m, c \in refusing) ELSE m
      BY <1>1
  <2> HIDE DEF m
  <2>4. CASE c \in Reached(s)
    <3>1. cmd[c].at = "table"
        BY <2>4 DEF Reached, InTable
    <3>2. cmd'[c] = Stopped(m, c \in refusing)
        BY <2>3, <2>4
    <3>3. cmd'[c] \in {Stopped(m, TRUE), Stopped(m, FALSE)}
      <4>1. CASE c \in refusing
          BY <4>1, <3>2 DEF Stopped
      <4>2. CASE c \notin refusing
          BY <4>2, <3>2 DEF Stopped
      <4> QED
          BY <4>1, <4>2
    <3>4. /\ cmd'[c] \in Member /\ cmd'[c].at = m.at /\ cmd'[c].owner = m.owner
          /\ cmd'[c].claim = m.claim /\ cmd'[c].files = m.files
          /\ cmd'[c].proc = "ended" \/ cmd'[c].refused
      <4>1. m \in Member
          BY <2>2
      <4> QED
          BY <4>1, <3>3, StoppedMember
    <3> QED
        BY <3>1, <3>4, <2>1, <2>2 DEF Place
  <2>5. CASE c \notin Reached(s)
    <3>1. cmd'[c] = m
        BY <2>3, <2>5
    <3> QED
        BY <3>1, <2>1, <2>2 DEF Place
  <2> QED
      BY <2>4, <2>5
<1>6. cmd' \in [Cmds -> Member]
  <2>1. cmd' = [c \in Cmds |-> cmd'[c]]
      BY <1>1
  <2> QED
      BY <2>1, <1>5
<1>7. ASSUME NEW q \in Runs
      PROVE  /\ run'[q] \in Seat /\ run'[q].at = run[q].at /\ run'[q].call = run[q].call
             /\ run'[q].settled = run[q].settled
  <2>1. run[q] \in Seat
      BY <1>3
  <2> QED
      BY <1>2, <2>1 DEF Seat
<1>8. run' \in [Runs -> Seat]
  <2>1. run' = [q \in Runs |-> run'[q]]
      BY <1>2
  <2> QED
      BY <2>1, <1>7
<1> QED
    BY <1>2, <1>4, <1>5, <1>6, <1>7, <1>8, NobodyMoves

LEMMA LeaveStep ==
    ASSUME IInv, NEW r \in Runs, Leave(r)
    PROVE  IInv'
<1>1. cmd' = cmd /\ told' = told /\ faults' = faults /\ run' = [run EXCEPT ![r].member = "none"]
    BY DEF Leave
<1>2. cmd \in [Cmds -> Member] /\ run \in [Runs -> Seat] /\ faults \in Nat
    BY DEF IInv, Types
<1>3. /\ run' \in [Runs -> Seat]
      /\ \A q \in Runs : /\ run'[q].at = run[q].at /\ run'[q].call = run[q].call
                         /\ run'[q].settled = run[q].settled
    BY <1>1, <1>2 DEF Seat
<1>4. \A c \in Cmds : Place(c)'
    BY <1>1 DEF IInv, Place
<1> QED
    BY <1>1, <1>2, <1>3, <1>4, NobodyMoves

LEMMA ExitsStep ==
    ASSUME IInv, NEW c \in Cmds, Exits(c)
    PROVE  IInv'
<1>1. /\ cmd[c].proc = "running" /\ run' = run /\ told' = told /\ faults' = faults
      /\ cmd' = [cmd EXCEPT ![c].proc = "exited"]
    BY DEF Exits
<1>2. cmd \in [Cmds -> Member] /\ run \in [Runs -> Seat] /\ faults \in Nat
    BY DEF IInv, Types
<1>3. /\ cmd' \in [Cmds -> Member]
      /\ \A d \in Cmds : /\ cmd'[d].at = cmd[d].at /\ cmd'[d].owner = cmd[d].owner
                         /\ cmd'[d].claim = cmd[d].claim /\ cmd'[d].files = cmd[d].files
                         /\ cmd'[d].refused = cmd[d].refused
                         /\ d # c => cmd'[d].proc = cmd[d].proc
    BY <1>1, <1>2 DEF Member
<1>4. ASSUME NEW d \in Cmds PROVE Place(d)'
  <2>1. Place(d)
      BY DEF IInv
  <2> QED
      BY <1>1, <1>3, <2>1 DEF Place
<1> QED
    BY <1>1, <1>2, <1>3, <1>4, NobodyMoves

LEMMA RestStep ==
    ASSUME IInv, UNCHANGED vars
    PROVE  IInv'
<1>1. cmd' = cmd /\ run' = run /\ told' = told /\ faults' = faults
    BY DEF vars
<1> QED
    BY <1>1 DEF IInv, Types, Place, Charge, Endings, Calls, Watched

(* The endings a harvest by r takes out of the table, and the ones its     *)
(* result carries.                                                         *)
Taken(r) == {c \in OwedTo(r) : Ended(c)}
Carried(r) == {c \in Taken(r) : cmd[c].claim = "Run"} \cup ({run[r].settled} \ {NoCmd})

LEMMA HarvestStep ==
    ASSUME IInv, NEW r \in Runs, Harvest(r)
    PROVE  IInv'
<1> DEFINE gone(c) == [cmd[c] EXCEPT !.at = "gone", !.proc = "ended", !.files = FALSE]
           line(c) == [to |-> r, whole |-> c = run[r].settled \/ cmd[c].files]
<1>1. /\ run[r].at = "answered" /\ run' = Fails(r) /\ faults' = faults
      /\ cmd' = [c \in Cmds |-> IF c \in Taken(r) THEN gone(c) ELSE cmd[c]]
      /\ told' = [c \in Cmds |-> IF c \notin Carried(r) THEN told[c] ELSE Append(told[c], line(c))]
    BY Zenon DEF Harvest, Taken, Carried
<1>2. cmd \in [Cmds -> Member] /\ run \in [Runs -> Seat] /\ faults \in Nat /\ run[r] \in Seat
    BY DEF IInv, Types
<1>3. /\ run' \in [Runs -> Seat] /\ \A q \in Runs \ {r} : run'[q] = run[q]
      /\ run'[r].at = "going" /\ run'[r].settled = NoCmd
  <2>1. run' = Fails(r)
      BY <1>1, Zenon
  <2> QED
      BY <2>1, SeatAfter DEF NoCmd
<1>4. ASSUME NEW c \in Cmds PROVE cmd'[c] = IF c \in Taken(r) THEN gone(c) ELSE cmd[c]
    BY <1>1, Zenon
<1>5. ASSUME NEW c \in Cmds
      PROVE  told'[c] = IF c \notin Carried(r) THEN told[c] ELSE Append(told[c], line(c))
    BY <1>1, Zenon
<1>6. cmd' = [c \in Cmds |-> cmd'[c]] /\ told' = [c \in Cmds |-> told'[c]]
  <2>1. cmd' = [c \in Cmds |-> cmd'[c]]
      BY <1>1, Zenon
  <2>2. told' = [c \in Cmds |-> told'[c]]
      BY <1>1, Zenon
  <2> QED
      BY <2>1, <2>2
<1>7. ASSUME NEW c \in Cmds
      PROVE  /\ cmd'[c] \in Member /\ cmd'[c].owner = cmd[c].owner /\ cmd'[c].claim = cmd[c].claim
             /\ c \in Taken(r) => cmd'[c].at = "gone" /\ cmd'[c].proc = "ended"
             /\ c \notin Taken(r) => cmd'[c] = cmd[c]
  <2>1. cmd[c] \in Member
      BY <1>2
  <2>2. CASE c \in Taken(r)
    <3>1. cmd'[c] = gone(c)
        BY <1>4, <2>2, Zenon
    <3> QED
        BY <3>1, <2>1, <2>2 DEF Member, Places
  <2>3. CASE c \notin Taken(r)
    <3>1. cmd'[c] = cmd[c]
        BY <1>4, <2>3, Zenon
    <3> QED
        BY <3>1, <2>1, <2>3
  <2> QED
      BY <2>2, <2>3
<1>8. ASSUME NEW c \in Cmds, c \in Taken(r)
      PROVE  /\ cmd[c].at = "table" /\ cmd[c].claim \in {"Nobody", "Run"}
             /\ cmd[c].claim = "Run" => cmd[c].owner = r /\ c \in Carried(r)
    BY <1>8 DEF Taken, Carried, OwedTo, InTable
<1>9. ASSUME NEW c \in Cmds, c \in Carried(r)
      PROVE  /\ cmd[c].owner = r /\ told[c] = <<>> /\ (c \in Taken(r) \/ c = run[r].settled)
             /\ c = run[r].settled => cmd[c].at = "gone"
  <2>1. Calls(r) /\ Endings(c)
      BY DEF IInv
  <2>2. CASE c = run[r].settled
      BY <2>1, <2>2 DEF Calls, NoCmd, Cmds
  <2>3. CASE c # run[r].settled
    <3>1. c \in Taken(r) /\ cmd[c].claim = "Run"
        BY <1>9, <2>3 DEF Carried
    <3> QED
        BY <3>1, <2>1, <2>3, <1>8 DEF Endings
  <2> QED
      BY <2>2, <2>3
<1> HIDE DEF gone
<1>10. Types'
  <2>1. cmd' \in [Cmds -> Member]
      BY <1>6, <1>7
  <2> QED
      BY <2>1, <1>1, <1>2, <1>3, <1>6 DEF Types
<1>11. ASSUME NEW c \in Cmds PROVE Place(c)' /\ Charge(c)'
  <2>1. Place(c) /\ Charge(c)
      BY DEF IInv
  <2>2. CASE c \in Taken(r)
    <3>1. cmd[c].at = "table" /\ cmd'[c].at = "gone" /\ cmd'[c].proc = "ended"
          /\ cmd'[c].owner = cmd[c].owner
        BY <2>2, <1>7, <1>8
    <3> QED
        BY <3>1, <2>1 DEF Place, Charge, Watched
  <2>3. CASE c \notin Taken(r)
    <3>1. cmd'[c] = cmd[c]
        BY <2>3, <1>7
    <3>2. cmd[c].at # "new" => cmd[c].owner \in Runs
        BY <2>1 DEF Place
    <3>3. Watched(c) => cmd[c].owner # r
        BY <2>1, <1>1 DEF Charge
    <3> QED
        BY <3>1, <3>2, <3>3, <2>1, <1>3 DEF Place, Charge, Watched
  <2> QED
      BY <2>2, <2>3
<1>12. ASSUME NEW c \in Cmds PROVE Endings(c)'
  <2>1. Place(c) /\ Endings(c) /\ Calls(r) /\ cmd[c] \in Member
      BY <1>2 DEF IInv
  <2>2. CASE c \in Carried(r)
    <3>1. cmd[c].owner = r /\ told[c] = <<>> /\ cmd'[c].owner = r /\ cmd'[c].at = "gone"
        BY <2>2, <1>7, <1>9
    <3>2. told'[c] = <<line(c)>>
      <4>1. told'[c] = Append(told[c], line(c))
          BY <2>2, <1>5, Zenon
      <4> HIDE DEF line
      <4> QED
          BY <4>1, <3>1
    <3>3. (c = run[r].settled \/ cmd[c].files) \in {TRUE, faults = 0}
      <4>1. CASE c = run[r].settled
          BY <4>1
      <4>2. CASE c # run[r].settled
        <5>1. cmd[c].at = "table"
            BY <4>2, <2>2, <1>8, <1>9
        <5>2. faults = 0 => cmd[c].files
            BY <5>1, <2>1 DEF Endings
        <5>3. cmd[c].files \in BOOLEAN
            BY <2>1 DEF Member
        <5> QED
            BY <4>2, <5>2, <5>3
      <4> QED
          BY <4>1, <4>2
    <3>4. \E w \in {TRUE, faults' = 0} : told'[c] = <<[to |-> cmd'[c].owner, whole |-> w]>>
        BY <3>1, <3>2, <3>3, <1>1
    <3>5. told'[c] # <<>>
        BY <3>2
    <3> QED
        BY <3>1, <3>4, <3>5 DEF Endings
  <2>3. CASE c \notin Carried(r)
    <3>1. told'[c] = told[c]
        BY <2>3, <1>5
    <3>2. CASE c \in Taken(r)
      <4>1. cmd[c].at = "table" /\ cmd[c].claim = "Nobody" /\ cmd'[c].claim = "Nobody"
            /\ cmd'[c].at = "gone"
          BY <3>2, <2>3, <1>7, <1>8
      <4>2. told[c] = <<>>
          BY <4>1, <2>1 DEF Endings
      <4> QED
          BY <4>1, <4>2, <3>1 DEF Endings
    <3>3. CASE c \notin Taken(r)
      <4>1. cmd'[c] = cmd[c]
          BY <3>3, <1>7
      <4>2. cmd[c].at # "new" => cmd[c].owner \in Runs
          BY <2>1 DEF Place
      <4>3. run[r].settled # c
          BY <2>3 DEF Carried, NoCmd, Cmds
      <4>4. faults = 0 /\ cmd[c].at = "gone" /\ cmd[c].claim \in {"Window", "Run"} =>
                run'[cmd[c].owner].settled = c \/ told[c] # <<>>
          BY <4>2, <4>3, <2>1, <1>3 DEF Endings
      <4> QED
          BY <4>1, <4>4, <3>1, <2>1, <1>1 DEF Endings
    <3> QED
        BY <3>2, <3>3
  <2> QED
      BY <2>2, <2>3
<1>13. ASSUME NEW q \in Runs, q # r PROVE Calls(q)'
  <2>1. run'[q] = run[q] /\ Calls(q) /\ run[q] \in Seat
      BY <1>2, <1>3, <1>13 DEF IInv
  <2>2. ASSUME run[q].at = "calling" PROVE cmd'[run[q].call] = cmd[run[q].call]
    <3>1. run[q].call \in Cmds /\ Watched(run[q].call)
        BY <2>1, <2>2 DEF Calls
    <3>2. run[q].call \notin Taken(r)
        BY <3>1, <1>8 DEF Watched
    <3> QED
        BY <3>1, <3>2, <1>7
  <2>3. ASSUME run[q].settled # NoCmd
        PROVE  /\ run[q].settled \in Cmds /\ cmd'[run[q].settled] = cmd[run[q].settled]
               /\ told'[run[q].settled] = told[run[q].settled]
    <3>1. run[q].settled \in Cmds
        BY <2>1, <2>3 DEF Seat
    <3>2. cmd[run[q].settled].owner = q /\ cmd[run[q].settled].at = "gone"
        BY <2>1, <2>3 DEF Calls
    <3>3. run[q].settled \notin Taken(r) /\ run[q].settled \notin Carried(r)
        BY <3>1, <3>2, <1>8, <1>9, <1>13
    <3> QED
        BY <3>1, <3>3, <1>5, <1>7
  <2> QED
      BY <2>1, <2>2, <2>3 DEF Calls, Watched
<1>14. Calls(r)'
    BY <1>3 DEF Calls
<1> QED
    BY <1>10, <1>11, <1>12, <1>13, <1>14 DEF IInv

(* A run that ends kills what it is owed and gives up its claims.          *)
LEMMA ReleaseStep ==
    ASSUME IInv, NEW r \in Runs, Release(r)
    PROVE  IInv'
<1>1. PICK refusing \in Refusing(Owned(r)) :
        /\ cmd' = [c \in Cmds |-> IF c \in Owned(r)
                    THEN [Stopped(cmd[c], c \in refusing) EXCEPT !.claim = "Nobody"]
                    ELSE cmd[c]]
        /\ faults' = faults + Cardinality(refusing)
    BY Zenon DEF Release
<1>2. run[r].at = "going" /\ told' = told /\ run' = [run EXCEPT ![r].at = "over"]
    BY Zenon DEF Release
<1>3. cmd \in [Cmds -> Member] /\ run \in [Runs -> Seat] /\ faults \in Nat
    BY DEF IInv, Types
<1>4. faults' \in Nat /\ (faults' = 0 => faults = 0)
    BY <1>1, <1>3, RefusedCount
<1>5. /\ run' \in [Runs -> Seat] /\ run'[r].at = "over" /\ run'[r].settled = run[r].settled
      /\ \A q \in Runs \ {r} : run'[q] = run[q]
    BY <1>2, <1>3 DEF Seat
<1>6. ASSUME NEW c \in Cmds, c \in Owned(r)
      PROVE  /\ cmd'[c] \in Member /\ cmd'[c].at = "table" /\ cmd[c].at = "table"
             /\ cmd'[c].owner = r /\ cmd[c].owner = r /\ cmd'[c].claim = "Nobody"
             /\ cmd'[c].files = cmd[c].files /\ (cmd'[c].proc = "ended" \/ cmd'[c].refused)
  <2>1. /\ cmd[c] \in Member /\ cmd[c].at = "table" /\ cmd[c].owner = r
      BY <1>3, <1>6 DEF Owned, InTable
  <2>2. cmd'[c] = [Stopped(cmd[c], c \in refusing) EXCEPT !.claim = "Nobody"]
      BY <1>1, <1>6, Zenon
  <2>3. PICK n : /\ n \in {Stopped(cmd[c], TRUE), Stopped(cmd[c], FALSE)}
                 /\ cmd'[c] = [n EXCEPT !.claim = "Nobody"]
    <3>1. CASE c \in refusing
      <4>1. Stopped(cmd[c], c \in refusing) = Stopped(cmd[c], TRUE)
          BY <3>1 DEF Stopped
      <4> QED
          BY <4>1, <2>2
    <3>2. CASE c \notin refusing
      <4>1. Stopped(cmd[c], c \in refusing) = Stopped(cmd[c], FALSE)
          BY <3>2 DEF Stopped
      <4> QED
          BY <4>1, <2>2
    <3> QED
        BY <3>1, <3>2
  <2>4. /\ n \in Member /\ n.at = "table" /\ n.owner = r /\ n.files = cmd[c].files
        /\ n.proc = "ended" \/ n.refused
    <3>1. PICK m \in Member : m = cmd[c]
        BY <2>1
    <3>2. n \in {Stopped(m, TRUE), Stopped(m, FALSE)}
        BY <2>3, <3>1, Zenon
    <3>3. /\ n \in Member /\ n.at = m.at /\ n.owner = m.owner /\ n.files = m.files
          /\ n.proc = "ended" \/ n.refused
        BY <3>2, StoppedMember
    <3> QED
        BY <3>1, <3>3, <2>1
  <2>5. cmd'[c] = [n EXCEPT !.claim = "Nobody"]
      BY <2>3
  <2> QED
      BY <2>1, <2>4, <2>5 DEF Member
<1>7. ASSUME NEW c \in Cmds, c \notin Owned(r) PROVE cmd'[c] = cmd[c]
    BY <1>1, <1>7, Zenon
<1>8. Types'
  <2>1. cmd' = [c \in Cmds |-> cmd'[c]]
      BY <1>1, Zenon
  <2>2. \A c \in Cmds : cmd'[c] \in Member
      BY <1>3, <1>6, <1>7
  <2>3. cmd' \in [Cmds -> Member]
      BY <2>1, <2>2
  <2> QED
      BY <2>3, <1>2, <1>4, <1>5 DEF IInv, Types
<1>9. ASSUME NEW c \in Cmds, c \in Owned(r) PROVE Place(c)' /\ Charge(c)' /\ Endings(c)'
  <2>1. Endings(c) /\ told'[c] = told[c]
      BY <1>2 DEF IInv
  <2>2. told[c] = <<>> /\ (faults = 0 => cmd[c].files)
      BY <2>1, <1>6, <1>9 DEF Endings
  <2> QED
      BY <2>1, <2>2, <1>4, <1>6, <1>9 DEF Place, Charge, Watched, Endings
<1>10. ASSUME NEW c \in Cmds, c \notin Owned(r) PROVE Place(c)' /\ Charge(c)' /\ Endings(c)'
  <2>1. Place(c) /\ Charge(c) /\ Endings(c) /\ told'[c] = told[c] /\ cmd'[c] = cmd[c]
      BY <1>2, <1>7, <1>10 DEF IInv
  <2>2. cmd[c].at # "new" => cmd[c].owner \in Runs
      BY <2>1 DEF Place
  <2>3. Place(c)'
      BY <2>1 DEF Place
  <2>4. Watched(c) => cmd[c].owner # r
      BY <2>1, <1>2 DEF Charge
  <2>5. cmd[c].at = "table" /\ cmd[c].claim = "Run" => cmd[c].owner # r
      BY <1>10 DEF Owned, InTable
  <2>6. Charge(c)'
      BY <2>1, <2>2, <2>4, <2>5, <1>5 DEF Charge, Watched
  <2>7. told'[c] = <<>> \/ \E w \in {TRUE, faults' = 0} : told'[c] = <<[to |-> cmd'[c].owner, whole |-> w]>>
    <3>1. CASE told[c] = <<>>
        BY <3>1, <2>1
    <3>2. CASE told[c] # <<>>
      <4>1. PICK w \in {TRUE, faults = 0} : told[c] = <<[to |-> cmd[c].owner, whole |-> w]>>
          BY <3>2, <2>1 DEF Endings
      <4>2. faults # 0 => faults' # 0
          BY <1>4
      <4>3. w \in {TRUE, faults' = 0}
          BY <4>1, <4>2
      <4> QED
          BY <4>1, <4>3, <2>1
    <3> QED
        BY <3>1, <3>2
  <2>8. cmd[c].at # "new" => run'[cmd[c].owner].settled = run[cmd[c].owner].settled
      BY <2>2, <1>5
  <2>9. cmd'[c].at # "gone" => told'[c] = <<>>
      BY <2>1 DEF Endings
  <2>10. faults' = 0 /\ cmd'[c].at = "table" => cmd'[c].files
      BY <2>1, <1>4 DEF Endings
  <2>11. faults' = 0 /\ cmd'[c].at = "gone" /\ cmd'[c].claim \in {"Window", "Run"} =>
            run'[cmd'[c].owner].settled = c \/ told'[c] # <<>>
      BY <2>1, <2>8, <1>4 DEF Endings
  <2>12. Endings(c)'
      BY <2>7, <2>9, <2>10, <2>11 DEF Endings
  <2> QED
      BY <2>3, <2>6, <2>12
<1>11. ASSUME NEW q \in Runs, q # r PROVE Calls(q)'
  <2>1. run'[q] = run[q] /\ Calls(q) /\ run[q] \in Seat
      BY <1>3, <1>5, <1>11 DEF IInv
  <2>2. ASSUME run[q].at = "calling" PROVE cmd'[run[q].call] = cmd[run[q].call]
    <3>1. run[q].call \in Cmds /\ cmd[run[q].call].owner = q
        BY <2>1, <2>2 DEF Calls
    <3> QED
        BY <3>1, <1>6, <1>7, <1>11
  <2>3. ASSUME run[q].settled # NoCmd
        PROVE  run[q].settled \in Cmds /\ cmd'[run[q].settled] = cmd[run[q].settled]
    <3>1. run[q].settled \in Cmds
        BY <2>1, <2>3 DEF Seat
    <3>2. cmd[run[q].settled].at = "gone"
        BY <2>1, <2>3 DEF Calls
    <3> QED
        BY <3>1, <3>2, <1>6, <1>7
  <2> QED
      BY <2>1, <2>2, <2>3, <1>2 DEF Calls, Watched
<1>12. Calls(r)'
  <2>1. run[r].settled = NoCmd
      BY <1>2 DEF IInv, Calls
  <2> QED
      BY <2>1, <1>5 DEF Calls
<1> QED
    BY <1>8, <1>9, <1>10, <1>11, <1>12 DEF IInv

LEMMA NextStep == IInv /\ [Next]_vars => IInv'
<1> SUFFICES ASSUME IInv, [Next]_vars PROVE IInv'
    OBVIOUS
<1>1. ASSUME NEW r \in Runs, \/ \E kind \in Kinds : Mint(r, kind)
                             \/ Lane(r) \/ HarvestFails(r) \/ Release(r) \/ Leave(r)
      PROVE  IInv'
  <2>1. ASSUME NEW kind \in Kinds, Mint(r, kind) PROVE IInv'
      BY <2>1, MintStep
  <2>2. CASE Lane(r)
      BY <2>2, SpawnStep, EnrolStep, StartContainerStep, PollStep, HandOverStep, HarvestStep DEF Lane
  <2> QED
      BY <1>1, <2>1, <2>2, HarvestFailsStep, ReleaseStep, LeaveStep
<1>2. ASSUME NEW s \in Scopes \cup {City}, Halt(s) PROVE IInv'
    BY <1>2, HaltStep
<1>3. ASSUME NEW c \in Cmds, Exits(c) PROVE IInv'
    BY <1>3, ExitsStep
<1>4. CASE Rest \/ UNCHANGED vars
    BY <1>4, RestStep DEF Rest
<1> QED
    BY <1>1, <1>2, <1>3, <1>4, Zenon DEF Next

LEMMA IInvHolds == Spec => []IInv
    BY InitHolds, NextStep, PTL DEF Spec

(* No process outlives its run unless a kill was refused: a command is     *)
(* watched by a call, owed to a run that goes on, or given up, and giving  *)
(* it up killed it (release, Jobs::enrol).                                 *)
THEOREM NothingOutlivesItsRun == Spec => []NothingOutlives
<1>1. IInv => NothingOutlives
  <2> SUFFICES ASSUME IInv, NEW c \in Cmds, Alive(c), run[cmd[c].owner].at = "over"
               PROVE  cmd[c].refused
      BY DEF NothingOutlives
  <2>1. Place(c) /\ Charge(c) /\ cmd[c] \in Member
      BY DEF IInv, Types
  <2> QED
      BY <2>1 DEF Place, Charge, Watched, Alive, Member, Places
<1> QED
    BY <1>1, IInvHolds, PTL

(* An ending is carried by at most one result, of the command's own run;   *)
(* with its output, and by one at all, unless something failed (settle,    *)
(* harvest).                                                               *)
THEOREM EndingsReachTheirRun == Spec => []EndingsReach
<1>1. IInv => EndingsReach
  <2> SUFFICES ASSUME IInv, NEW c \in Cmds
               PROVE  LET r == cmd[c].owner IN
                        /\ told[c] \in {<<>>} \cup {<<[to |-> r, whole |-> w]>> : w \in {TRUE, faults = 0}}
                        /\ faults = 0 /\ cmd[c].at = "gone" /\ cmd[c].claim \in {"Window", "Run"}
                                /\ run[r].settled # c
                            => told[c] # <<>>
      BY Zenon DEF EndingsReach
  <2>1. Endings(c)
      BY DEF IInv
  <2> QED
      BY <2>1 DEF Endings
<1> QED
    BY <1>1, IInvHolds, PTL
=============================================================================
