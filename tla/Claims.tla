------------------------------- MODULE Claims -------------------------------
(***************************************************************************)
(* Claims on a building's plan: the desk every run edits its own copy of   *)
(* the plan at (collab::claim_tool), the book the accounting thread        *)
(* answers claims from (accounting::worker::booking), and the landing that *)
(* replays a run's effects onto the plan file and closes its claims on the *)
(* ledger (effect::Claims, settling::desks, driving::flight).              *)
(*                                                                         *)
(* The accounting thread answers, lands and dispatches one after another;  *)
(* the lanes edit and ask beside it, and a person may edit the plan file   *)
(* at any moment.  A lane has at most one ask out and lanes are served in  *)
(* the order they asked, which is any order.  Rows the Mayor adds and the  *)
(* goals that are registered the same way are left out.                    *)
(***************************************************************************)
EXTENDS Integers, Sequences, FiniteSetsExt

CONSTANTS
    Runs, NoRun, Nodes, NoNode,
    Kids,         \* the rows a split of each node draws
    Needs,        \* the rows that must be done before each node
    MaxEffects,   \* effects a model makes in one run
    MaxEdits,     \* edits of the plan file by a person
    MaxCrashes,   \* restarts
    MaxRefusals,  \* refused writes
    Refusable     \* the writes that may be refused

Stops == {"Finished", "Blocked", "Split"}
Closings == Stops \cup {"Released"}
Status == {"Absent", "NotStarted", "InProgress", "Done", "Blocked"}
ASSUME ClaimsAssumption ==
    /\ NoRun \notin Runs /\ NoNode \notin Nodes
    /\ Kids \in [Nodes -> SUBSET Nodes] /\ Needs \in [Nodes -> SUBSET Nodes]
    /\ \A n, m \in Nodes : Kids[n] \cap Kids[m] # {} => n = m
    /\ Refusable \subseteq {"claim", "closing", "plan", "put_back"}
    /\ {MaxEffects, MaxEdits, MaxCrashes, MaxRefusals} \subseteq Nat

VARIABLES
    file,      \* the plan file: the status of every row
    last,      \* the newest roadmap line of each node on the ledger
    open,      \* history: runs whose claim on a node no line of theirs closed
    book,      \* ClaimBook.held: the run in flight each node is booked for
    stopped,   \* ClaimBook.stopped, 0 where the node is not in the table
    stops,     \* ClaimBook.stops
    desk,      \* each run's ClaimDesk, and where the run is
    landing,   \* the landing the accounting thread is in
    staged,    \* the landing compared the file and has its own text to rename
    raced,     \* history: rows a person saved since that compare
    lost,      \* history: runs a crash or a refused put-back ended
    edits, crashes, refusals

staging == <<staged, raced>>
counters == <<edits, crashes, refusals>>
vars == <<file, last, open, book, stopped, stops, desk, landing, staging, lost, counters>>

NoLine == [kind |-> "none", run |-> NoRun]
NoLanding == [run |-> NoRun]
Idle == landing.run = NoRun
NewDesk == [at |-> "staged", text |-> [n \in Nodes |-> "Absent"], held |-> NoNode,
            asks |-> NoNode, effects |-> <<>>, read |-> 0]

Init ==
    /\ file = [n \in Nodes |->
                IF \E m \in Nodes : n \in Kids[m] THEN "Absent" ELSE "NotStarted"]
    /\ last = [n \in Nodes |-> NoLine] /\ open = [n \in Nodes |-> {}]
    /\ book = [n \in Nodes |-> NoRun]
    /\ stopped = [n \in Nodes |-> 0] /\ stops = 0
    /\ desk = [r \in Runs |-> NewDesk] /\ landing = NoLanding /\ lost = {}
    /\ staged = FALSE /\ raced = {}
    /\ edits = 0 /\ crashes = 0 /\ refusals = 0

(* A write the ledger or the file system refuses, within the bound. *)
Refuse(write) == write \in Refusable /\ refusals < MaxRefusals /\ refusals' = refusals + 1

-----------------------------------------------------------------------------
(* The plan and what an effect does to it. *)

(* PlanTree::claim: a leaf, not started, with everything it needs done. *)
ReadyIn(text, n) ==
    /\ text[n] = "NotStarted"
    /\ \A k \in Kids[n] : text[k] = "Absent"
    /\ \A m \in Needs[n] : text[m] = "Done"

(* ClaimEffect::apply: the status an effect leaves its own row in; a split *)
(* leaves it as it is and draws the children.                              *)
StatusAfter(kind) ==
    CASE kind = "Claimed" -> "InProgress"
      [] kind = "Finished" -> "Done"
      [] kind = "Blocked" -> "Blocked"
      [] kind = "Released" -> "NotStarted"

Moves(e, n) == e.kind # "Split" /\ e.node = n
Draws(e, n) == e.kind = "Split" /\ n \in Kids[e.node]

(* The text with the effects written into it in order. *)
Applied(text, effects) ==
    [n \in Nodes |->
        LET touching == {i \in DOMAIN effects : Moves(effects[i], n) \/ Draws(effects[i], n)}
            newest == effects[Max(touching)]
        IN IF touching = {} THEN text[n]
           ELSE IF Draws(newest, n) THEN "NotStarted" ELSE StatusAfter(newest.kind)]

(* Mutant: a row another landing moved is still taken. *)
StillTrueAnyway(text, effects) == TRUE

(* Claims::of: every claim still finds its row not started in the text the *)
(* effects before it left.                                                 *)
StillTrue(text, effects) ==
    \A i \in DOMAIN effects : effects[i].kind = "Claimed" =>
        Applied(text, SubSeq(effects, 1, i - 1))[effects[i].node] = "NotStarted"

-----------------------------------------------------------------------------
(* The desk of a run, on its lane. *)

(* open_desks: the plan file and the book's mark, read together. *)
Dispatch(r) ==
    /\ Idle /\ desk[r].at = "staged"
    /\ desk' = [desk EXCEPT ![r] = [NewDesk EXCEPT !.at = "driving", !.text = file,
                                                   !.read = stops]]
    /\ UNCHANGED <<file, last, open, book, stopped, stops, landing, staging, lost, counters>>

(* ClaimDesk::claim, up to the booking: the desk's own copy answers first. *)
Ask(r, n) ==
    /\ desk[r].at = "driving" /\ desk[r].held = NoNode
    /\ Len(desk[r].effects) < MaxEffects
    /\ ReadyIn(desk[r].text, n)
    /\ desk' = [desk EXCEPT ![r].at = "asking", ![r].asks = n]
    /\ UNCHANGED <<file, last, open, book, stopped, stops, landing, staging, lost, counters>>

(* ClaimDesk::take: an effect into the copy and onto the list. *)
Take(d, kind, n, holds) ==
    [d EXCEPT !.text = Applied(d.text, <<[kind |-> kind, node |-> n]>>),
              !.effects = Append(d.effects, [kind |-> kind, node |-> n]),
              !.held = holds]

(* ClaimDesk::finish, put_down and split: the held node leaves the desk. *)
LetGo(r, kind) ==
    /\ desk[r].at = "driving" /\ desk[r].held # NoNode
    /\ Len(desk[r].effects) < MaxEffects
    /\ kind = "Split" => Kids[desk[r].held] # {}
    /\ desk' = [desk EXCEPT ![r] = Take(desk[r], kind, desk[r].held, NoNode)]
    /\ UNCHANGED <<file, last, open, book, stopped, stops, landing, staging, lost, counters>>

(* The lane comes home; a drive that failed never settles its desks. *)
ComeHome(r, how) ==
    /\ desk[r].at = "driving"
    /\ desk' = [desk EXCEPT ![r].at = how]
    /\ UNCHANGED <<file, last, open, book, stopped, stops, landing, staging, lost, counters>>

-----------------------------------------------------------------------------
(* The book, on the accounting thread. *)

(* Mutant: only the stop lines are asked. *)
TurnedAwayByStop(r, n) == stopped[n] > desk[r].read

(* ClaimBook::answer: the two refusals. *)
TurnedAway(r, n) == stopped[n] > desk[r].read \/ book[n] \notin {NoRun, r}

(* ClaimBook::answer and what the desk does with it. *)
Answer(r) ==
    LET n == desk[r].asks IN
    /\ Idle /\ desk[r].at = "asking"
    /\ \/ /\ \/ TurnedAway(r, n) /\ UNCHANGED refusals
             \/ ~TurnedAway(r, n) /\ Refuse("claim")
          /\ desk' = [desk EXCEPT ![r].at = "driving", ![r].asks = NoNode]
          /\ UNCHANGED <<last, open, book>>
       \/ /\ ~TurnedAway(r, n)
          /\ last' = [last EXCEPT ![n] = [kind |-> "Claimed", run |-> r]]
          /\ open' = [open EXCEPT ![n] = @ \cup {r}]
          /\ book' = [book EXCEPT ![n] = r]
          /\ desk' = [desk EXCEPT ![r] =
                Take([desk[r] EXCEPT !.at = "driving", !.asks = NoNode], "Claimed", n, n)]
          /\ UNCHANGED refusals
    /\ UNCHANGED <<file, stopped, stops, landing, staging, lost, edits, crashes>>

(* Mutant: a hand-back does not make the node ready again. *)
AbsorbsStops(kind, n) ==
    /\ stops' = IF kind \in Stops THEN stops + 1 ELSE stops
    /\ stopped' = IF kind \in Stops THEN [stopped EXCEPT ![n] = stops + 1] ELSE stopped

(* ClaimBook::absorb, shown each line the landing wrote. *)
Absorbs(kind, n) ==
    /\ stops' = IF kind \in Stops THEN stops + 1 ELSE stops
    /\ stopped' = [stopped EXCEPT ![n] = IF kind \in Stops THEN stops + 1 ELSE 0]

(* append_for: a closing line of run r on the ledger, and its folds. *)
Records(kind, n, r) ==
    /\ last' = [last EXCEPT ![n] = [kind |-> kind, run |-> r]]
    /\ open' = [open EXCEPT ![n] = @ \ {r}]
    /\ Absorbs(kind, n)

-----------------------------------------------------------------------------
(* The landing, on the accounting thread. *)

(* Mutant: a run that ended with a node in hand says nothing of it. *)
LeftHolding(d) == d.effects

(* ClaimDesk::abandon: a node still held is blocked on the way out. *)
Abandoned(d) ==
    IF d.held = NoNode THEN d.effects
    ELSE Append(d.effects, [kind |-> "Blocked", node |-> d.held])

(* The nodes booked for a run, whose put-back lines it is handed. *)
Booked(r) == {n \in Nodes : book[n] = r}

(* A landing: the lines it writes are those of `lines' in order, the plan  *)
(* is replaced by `text' if it still reads `base', and what is still owed  *)
(* is handed back.                                                         *)
Landing(r, lines, plan) ==
    [run |-> r, lines |-> lines, left |-> DOMAIN lines, plan |-> plan, base |-> file,
     effects |-> IF plan THEN Abandoned(desk[r]) ELSE <<>>, owed |-> Booked(r)]

(* Claims::of: the lines of a landing, in effect order.  A claim's own     *)
(* line is on the ledger already.  A stale landing hands every claim back. *)
ClosingLines(effects, stale) ==
    LET of == IF stale THEN {"Claimed"} ELSE Closings
        at == {i \in DOMAIN effects : effects[i].kind \in of}
    IN [i \in at |-> [kind |-> IF stale THEN "Released" ELSE effects[i].kind,
                      node |-> effects[i].node]]

(* Flight::arrived and land: the bookings are released, and a run whose    *)
(* drive failed, or that did nothing to the plan, has no closing lines.    *)
Land(r) ==
    LET effects == Abandoned(desk[r])
        stale == ~StillTrue(file, effects)
    IN
    /\ Idle /\ desk[r].at \in {"home", "failed"}
    /\ book' = [n \in Nodes |-> IF book[n] = r THEN NoRun ELSE book[n]]
    /\ desk' = [desk EXCEPT ![r] = [NewDesk EXCEPT !.at = "landing"]]
    /\ landing' = IF desk[r].at = "failed" \/ effects = <<>>
                  THEN Landing(r, <<>>, FALSE)
                  ELSE Landing(r, ClosingLines(effects, stale), ~stale)
    /\ UNCHANGED <<file, last, open, stopped, stops, staging, lost, counters>>

(* A landing that fails writes no more of its own. *)
Failed == [landing EXCEPT !.left = {}, !.plan = FALSE]

(* record_closing: the next closing line; on the ledger, it closes its node. *)
Close ==
    LET i == Min(landing.left) line == landing.lines[i] IN
    /\ ~Idle /\ landing.left # {}
    /\ \/ /\ Refuse("closing")
          /\ landing' = Failed
          /\ UNCHANGED <<last, open, stopped, stops>>
       \/ /\ Records(line.kind, line.node, landing.run)
          /\ landing' = [landing EXCEPT !.left = @ \ {i}, !.owed = @ \ {line.node}]
          /\ UNCHANGED refusals
    /\ UNCHANGED <<file, book, desk, staging, lost, edits, crashes>>

(* carry_out_landing and edit_against, up to the rename: the plan file is  *)
(* read and compared with the text the landing started from, and the       *)
(* replayed text is staged beside it.                                      *)
ComparePlan ==
    /\ ~Idle /\ landing.left = {} /\ landing.plan /\ ~staged
    /\ \/ file = landing.base /\ staged' = TRUE /\ raced' = {} /\ UNCHANGED <<landing, refusals>>
       \/ /\ (file # landing.base /\ UNCHANGED refusals) \/ Refuse("plan")
          /\ landing' = Failed /\ UNCHANGED staging
    /\ UNCHANGED <<file, last, open, book, stopped, stops, desk, lost, edits, crashes>>

(* Held::replace: the staged text takes the file's place, whatever a       *)
(* person saved since the compare.  The write may be refused before the    *)
(* rename or after it.                                                     *)
WritePlan ==
    /\ ~Idle /\ landing.left = {} /\ landing.plan /\ staged
    /\ \/ file' = Applied(landing.base, landing.effects) /\ (UNCHANGED refusals \/ Refuse("plan"))
       \/ UNCHANGED file /\ Refuse("plan")
    /\ landing' = Failed /\ staged' = FALSE /\ raced' = {}
    /\ UNCHANGED <<last, open, book, stopped, stops, desk, lost, edits, crashes>>

(* give_back_claims: a hand-back for each node still owed; a refusal ends  *)
(* it.                                                                     *)
PutBack ==
    /\ ~Idle /\ landing.left = {} /\ ~landing.plan
    /\ \E n \in landing.owed :
        \/ /\ Refuse("put_back")
           /\ landing' = [landing EXCEPT !.owed = {}]
           /\ lost' = lost \cup {landing.run}
           /\ UNCHANGED <<last, open, stopped, stops>>
        \/ /\ Records("Released", n, landing.run)
           /\ landing' = [landing EXCEPT !.owed = @ \ {n}]
           /\ UNCHANGED <<lost, refusals>>
    /\ UNCHANGED <<file, book, desk, staging, edits, crashes>>

(* Mutant: the owed hand-backs are left unwritten. *)
LandedOwing ==
    /\ ~Idle /\ landing.left = {} /\ ~landing.plan
    /\ desk' = [desk EXCEPT ![landing.run] = [NewDesk EXCEPT !.at = "landed"]]
    /\ landing' = NoLanding
    /\ UNCHANGED <<file, last, open, book, stopped, stops, staging, lost, counters>>

Landed ==
    /\ ~Idle /\ landing.left = {} /\ ~landing.plan /\ landing.owed = {}
    /\ desk' = [desk EXCEPT ![landing.run] = [NewDesk EXCEPT !.at = "landed"]]
    /\ landing' = NoLanding
    /\ UNCHANGED <<file, last, open, book, stopped, stops, staging, lost, counters>>

-----------------------------------------------------------------------------
(* A person moves a row by hand. *)
Edit(n, status) ==
    /\ edits < MaxEdits /\ edits' = edits + 1
    /\ file[n] # "Absent" /\ file[n] # status
    /\ file' = [file EXCEPT ![n] = status]
    /\ raced' = IF staged THEN raced \cup {n} ELSE raced
    /\ UNCHANGED <<last, open, book, stopped, stops, desk, landing, staged, lost, crashes, refusals>>

(* The process dies and the city is opened again: the ledger and the file  *)
(* are all that is left, and the book starts empty.                        *)
Crash ==
    /\ crashes < MaxCrashes /\ crashes' = crashes + 1
    /\ book' = [n \in Nodes |-> NoRun]
    /\ stopped' = [n \in Nodes |-> 0] /\ stops' = 0
    /\ desk' = [r \in Runs |-> IF desk[r].at \in {"staged", "landed"} THEN desk[r]
                               ELSE [NewDesk EXCEPT !.at = "landed"]]
    /\ lost' = lost \cup {r \in Runs : desk[r].at \notin {"staged", "landed"}}
    /\ landing' = NoLanding /\ staged' = FALSE /\ raced' = {}
    /\ UNCHANGED <<file, last, open, edits, refusals>>

(* Every run has landed. *)
Rest == Idle /\ (\A r \in Runs : desk[r].at = "landed") /\ UNCHANGED vars

Next ==
    \/ \E r \in Runs :
        \/ Dispatch(r) \/ Answer(r) \/ Land(r)
        \/ \E n \in Nodes : Ask(r, n)
        \/ \E kind \in Closings : LetGo(r, kind)
        \/ \E how \in {"home", "failed"} : ComeHome(r, how)
    \/ Close \/ ComparePlan \/ WritePlan \/ PutBack \/ Landed
    \/ \E n \in Nodes, s \in {"NotStarted", "Done", "Blocked"} : Edit(n, s)
    \/ Crash \/ Rest

Spec == Init /\ [][Next]_vars

-----------------------------------------------------------------------------
Effect == [kind : {"Claimed"} \cup Closings, node : Nodes]
Where == {"staged", "driving", "asking", "home", "failed", "landing", "landed"}

(* The state of the plan, the book, the desks and the landing. *)
CityTypes ==
    /\ file \in [Nodes -> Status]
    /\ last \in [Nodes -> [kind : {"none", "Claimed"} \cup Closings, run : Runs \cup {NoRun}]]
    /\ open \in [Nodes -> SUBSET Runs] /\ book \in [Nodes -> Runs \cup {NoRun}]
    /\ stops \in Nat /\ stopped \in [Nodes -> 0..stops]
    /\ desk \in [Runs -> [at : Where, text : [Nodes -> Status], held : Nodes \cup {NoNode},
                          asks : Nodes \cup {NoNode}, effects : Seq(Effect), read : 0..stops]]
    /\ lost \subseteq Runs
    /\ \A r \in Runs : desk[r].at = "landing" <=> landing.run = r
    /\ ~Idle => landing.left \subseteq DOMAIN landing.lines /\ landing.owed \subseteq Nodes

TypeOK == CityTypes /\ staged \in BOOLEAN /\ raced \subseteq Nodes

(* Who holds a node is one run, and the one the ledger names: the newest   *)
(* line of a node a desk holds is that run's own claim, whatever the other *)
(* lanes ask, land or fail at meanwhile (ClaimBook::answer and release).   *)
HolderNamed ==
    \A r \in Runs : desk[r].held # NoNode =>
        last[desk[r].held] = [kind |-> "Claimed", run |-> r]

(* Every claim is closed: once a run has landed, no claim of its own is    *)
(* left open on the ledger, although the landing may have failed before,   *)
(* in or after its closing lines (OpenClaims, give_back_claims).  A run in *)
(* flight at a crash, and one whose put-back was itself refused, are the   *)
(* exceptions: nothing closes their claims.                                *)
ClaimsClosed ==
    \A r \in Runs \ lost, n \in Nodes : desk[r].at = "landed" => r \notin open[n]

(* Between landings the plan file reads as the ledger does, until a person *)
(* edits it, a write is refused or a crash cuts a landing: a row nobody    *)
(* closed is not started, and a closed one is as its newest line left it   *)
(* (Claims::of replays on the file as it stands).                          *)
FileFollows ==
    Idle /\ counters = <<0, 0, 0>> => \A n \in Nodes :
        file[n] \in CASE last[n].kind \in {"none", "Claimed", "Released"} -> {"Absent", "NotStarted"}
                      [] last[n].kind = "Finished" -> {"Done"}
                      [] last[n].kind = "Blocked" -> {"Blocked"}
                      [] last[n].kind = "Split" -> {"InProgress"}

(* A row that somebody ended, a run or a person, is moved by nobody but a  *)
(* person: no landing writes over it (still_true and edit_against), unless *)
(* a person saved that very row between the landing's compare and its      *)
(* rename, where nothing holds an editor back.                             *)
EndsStay ==
    [][\A n \in Nodes : file[n] \in {"Done", "Blocked"} /\ file'[n] # file[n]
            => edits' # edits \/ (staged /\ n \in raced)]_vars

(* A node that was handed back is ready for every desk, the ones that read *)
(* the plan before an earlier end of it too: no claim on it is turned away *)
(* while nobody holds it (ClaimBook::absorb).                              *)
HandedBackIsReady ==
    \A r \in Runs : Idle /\ desk[r].at = "asking" =>
        LET n == desk[r].asks IN
        last[n].kind = "Released" /\ book[n] = NoRun => ~TurnedAway(r, n)

(* Every stop at or below the mark a desk was given is in its copy of the  *)
(* plan (PlanRead).                                                        *)
StopsAreRead ==
    \A r \in Runs, n \in Nodes :
        desk[r].at \in {"driving", "asking"} /\ stopped[n] # 0 /\ stopped[n] <= desk[r].read
            => desk[r].text[n] # "NotStarted"
=============================================================================
