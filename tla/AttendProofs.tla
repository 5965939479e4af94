---------------------------- MODULE AttendProofs ----------------------------
(***************************************************************************)
(* The pool, the loans and the close of the accounting thread, for every   *)
(* number of runs, rooms, commands, requests and faults.                   *)
(***************************************************************************)
EXTENDS Attend, SequenceTheorems, WellFoundedInduction, TLAPS

-----------------------------------------------------------------------------
(* The elements of sequences.                                              *)

(* No element of the sequence is in it twice.                              *)
Once(s) == \A i, j \in DOMAIN s : s[i] = s[j] => i = j

(* The elements after an append.                                           *)
LEMMA ToSetAppend ==
    ASSUME NEW S, NEW s \in Seq(S), NEW e \in S
    PROVE  Append(s, e) \in Seq(S) /\ ToSet(Append(s, e)) = ToSet(s) \cup {e}
<1>1. Append(s, e) \in Seq(S) /\ Len(Append(s, e)) = Len(s) + 1
    OBVIOUS
<1>2. \A i \in 1..Len(s) : Append(s, e)[i] = s[i]
    OBVIOUS
<1>3. Append(s, e)[Len(s) + 1] = e
    OBVIOUS
<1>4. DOMAIN s = 1..Len(s) /\ DOMAIN Append(s, e) = 1..(Len(s) + 1) /\ Len(s) \in Nat
    OBVIOUS
<1>5. ToSet(Append(s, e)) \subseteq ToSet(s) \cup {e}
    BY <1>2, <1>3, <1>4 DEF ToSet
<1>6. ToSet(s) \cup {e} \subseteq ToSet(Append(s, e))
    BY <1>2, <1>3, <1>4 DEF ToSet
<1> QED
    BY <1>1, <1>5, <1>6

(* A new element keeps the elements apart.                                 *)
LEMMA OnceAppend ==
    ASSUME NEW S, NEW s \in Seq(S), NEW e \in S, Once(s), e \notin ToSet(s)
    PROVE  Once(Append(s, e))
<1>1. DOMAIN s = 1..Len(s) /\ DOMAIN Append(s, e) = 1..(Len(s) + 1) /\ Len(s) \in Nat
    OBVIOUS
<1>2. \A i \in 1..Len(s) : Append(s, e)[i] = s[i] /\ s[i] # e
    BY <1>1 DEF ToSet
<1>3. Append(s, e)[Len(s) + 1] = e
    OBVIOUS
<1>4. ASSUME NEW i \in 1..(Len(s) + 1), NEW j \in 1..(Len(s) + 1),
             Append(s, e)[i] = Append(s, e)[j]
      PROVE  i = j
  <2>1. CASE i \in 1..Len(s) /\ j \in 1..Len(s)
      BY <2>1, <1>1, <1>2, <1>4 DEF Once
  <2>2. CASE i = Len(s) + 1 /\ j \in 1..Len(s)
      BY <2>2, <1>2, <1>3, <1>4
  <2>3. CASE j = Len(s) + 1 /\ i \in 1..Len(s)
      BY <2>3, <1>2, <1>3, <1>4
  <2> QED
      BY <2>1, <2>2, <2>3, <1>1
<1> QED
    BY <1>1, <1>4 DEF Once

(* The first element is in no other place, and the rest are the others.    *)
LEMMA OnceTail ==
    ASSUME NEW S, NEW s \in Seq(S), s # <<>>, Once(s)
    PROVE  /\ Tail(s) \in Seq(S) /\ Once(Tail(s))
           /\ Head(s) \in S /\ Head(s) \notin ToSet(Tail(s))
           /\ ToSet(s) = ToSet(Tail(s)) \cup {Head(s)}
<1>1. Len(s) \in Nat /\ Len(s) > 0 /\ DOMAIN s = 1..Len(s) /\ Head(s) = s[1]
    OBVIOUS
<1>2. Tail(s) \in Seq(S) /\ DOMAIN Tail(s) = 1..(Len(s) - 1)
    BY <1>1
<1>3. \A i \in 1..(Len(s) - 1) : Tail(s)[i] = s[i + 1]
    BY <1>1
<1>4. Once(Tail(s))
  <2> SUFFICES ASSUME NEW i \in 1..(Len(s) - 1), NEW j \in 1..(Len(s) - 1),
                      Tail(s)[i] = Tail(s)[j]
               PROVE  i = j
      BY <1>2 DEF Once
  <2>1. s[i + 1] = s[j + 1] /\ i + 1 \in DOMAIN s /\ j + 1 \in DOMAIN s
      BY <1>1, <1>3
  <2>2. i + 1 = j + 1
      BY <2>1 DEF Once
  <2> QED
      BY <2>2
<1>5. Head(s) \notin ToSet(Tail(s))
  <2> SUFFICES ASSUME NEW i \in 1..(Len(s) - 1), Tail(s)[i] = s[1] PROVE FALSE
      BY <1>1, <1>2 DEF ToSet
  <2>1. s[i + 1] = s[1] /\ i + 1 \in DOMAIN s /\ 1 \in DOMAIN s
      BY <1>1, <1>3
  <2>2. i + 1 = 1
      BY <2>1 DEF Once
  <2> QED
      BY <2>2
<1>6. ToSet(s) \subseteq ToSet(Tail(s)) \cup {Head(s)}
  <2> SUFFICES ASSUME NEW i \in 1..Len(s) PROVE s[i] \in ToSet(Tail(s)) \cup {Head(s)}
      BY <1>1 DEF ToSet
  <2>1. CASE i = 1
      BY <2>1, <1>1
  <2>2. CASE i # 1
    <3>1. i - 1 \in 1..(Len(s) - 1) /\ Tail(s)[i - 1] = s[i]
        BY <2>2, <1>1, <1>3
    <3> QED
        BY <3>1, <1>2 DEF ToSet
  <2> QED
      BY <2>1, <2>2
<1>7. ToSet(Tail(s)) \cup {Head(s)} \subseteq ToSet(s)
    BY <1>1, <1>2, <1>3 DEF ToSet
<1> QED
    BY <1>1, <1>2, <1>4, <1>5, <1>6, <1>7

(* The elements of two sequences one after the other.                      *)
LEMMA ToSetConcat ==
    ASSUME NEW S, NEW s \in Seq(S), NEW t \in Seq(S)
    PROVE  s \o t \in Seq(S) /\ ToSet(s \o t) = ToSet(s) \cup ToSet(t)
<1>1. /\ s \o t \in Seq(S) /\ Len(s) \in Nat /\ Len(t) \in Nat
      /\ DOMAIN s = 1..Len(s) /\ DOMAIN t = 1..Len(t) /\ DOMAIN (s \o t) = 1..(Len(s) + Len(t))
    OBVIOUS
<1>2. \A i \in 1..Len(s) : (s \o t)[i] = s[i]
    OBVIOUS
<1>3. \A i \in 1..Len(t) : (s \o t)[Len(s) + i] = t[i]
    OBVIOUS
<1>4. ASSUME NEW i \in 1..(Len(s) + Len(t)) PROVE (s \o t)[i] \in ToSet(s) \cup ToSet(t)
  <2>1. CASE i \in 1..Len(s)
      BY <2>1, <1>1, <1>2 DEF ToSet
  <2>2. CASE i \notin 1..Len(s)
    <3>1. i - Len(s) \in 1..Len(t) /\ (s \o t)[Len(s) + (i - Len(s))] = t[i - Len(s)]
        BY <2>2, <1>1, <1>3
    <3>2. Len(s) + (i - Len(s)) = i
        BY <1>1
    <3> QED
        BY <3>1, <3>2, <1>1 DEF ToSet
  <2> QED
      BY <2>1, <2>2
<1>5. ToSet(s) \subseteq ToSet(s \o t)
    BY <1>1, <1>2 DEF ToSet
<1>6. ToSet(t) \subseteq ToSet(s \o t)
  <2> SUFFICES ASSUME NEW i \in 1..Len(t) PROVE t[i] \in ToSet(s \o t)
      BY <1>1 DEF ToSet
  <2>1. Len(s) + i \in 1..(Len(s) + Len(t)) /\ (s \o t)[Len(s) + i] = t[i]
      BY <1>1, <1>3
  <2> QED
      BY <2>1, <1>1 DEF ToSet
<1>7. ToSet(s \o t) \subseteq ToSet(s) \cup ToSet(t)
    BY <1>1, <1>4 DEF ToSet
<1> QED
    BY <1>1, <1>5, <1>6, <1>7

-----------------------------------------------------------------------------

(* Where each run is.                                                      *)
Spot == [r \in Runs |-> lane[r].at]

(* The run the thread has taken off its tables and not landed yet.         *)
Lander == IF thread.at \in {"starting", "landing"} THEN thread.run ELSE NoRun

(* The runs that came home and are not landed, in order.                   *)
Found == homes \o wakes.arrivals

(* The runs whose request waits for the thread.                            *)
Askers == {Relayed[i].run : i \in DOMAIN Relayed}

(* A run in a lane of the pool, wherever it is there; one that has not     *)
(* come to its end; a thread past its last look.                           *)
InLane == {"driving", "asking", "stopped", "refused", "home"}
Busy == InLane \cup {"waiting"}
Closed == {"handoff", "gone"}

Types ==
    /\ thread \in [at : Places, run : Runs \cup {NoRun}, draining : BOOLEAN]
    /\ Lander \in Runs \cup {NoRun}
    /\ thread.at \in {"starting", "landing"} => Lander \in Runs
    /\ wakes = [relays |-> wakes.relays, arrivals |-> wakes.arrivals, answers |-> wakes.answers]
    /\ wakes.relays \in Seq([run : Runs, n : 1..MaxBatch])
    /\ wakes.answers \in Nat /\ errands \in Nat /\ wakes.answers <= errands
    /\ queue \in Seq(Commands) /\ script \in Seq(Commands)
    /\ lent \in [Rooms -> Runs \cup {NoRun}]

(* A lane is a record, wherever its run is.                                *)
Shape ==
    /\ lane = [r \in Runs |-> lane[r]]
    /\ \A r \in Runs :
        lane[r] = [at |-> lane[r].at, asks |-> lane[r].asks, lines |-> lane[r].lines,
                   refs |-> lane[r].refs]

(* The tables say where the runs are: in a lane, or waiting for one.       *)
Tables ==
    /\ running = {r \in Runs : Spot[r] \in InLane /\ r # Lander}
    /\ waiting \in Seq(Runs) /\ Once(waiting)
    /\ ToSet(waiting) = {r \in Runs : Spot[r] = "waiting"}
    /\ driving = running \cup ToSet(waiting)
    /\ thread.at # "starting" => (waiting # <<>> => running # {})

(* A run that came home is found once, and landed once.                    *)
Homes ==
    /\ homes \in Seq(Runs) /\ wakes.arrivals \in Seq(Runs) /\ Once(Found)
    /\ \A r \in ToSet(Found) : Spot[r] = "home" /\ r # Lander
    /\ \A r \in Runs : r = Lander => Spot[r] = "home"

(* A request in the queue is one its lane is still waiting on.             *)
Asking == \A r \in Askers : r \in Runs /\ Spot[r] = "asking"

(* A room's queue is out with a run on the table, being landed, or refused *)
(* after its loan.                                                         *)
Loans ==
    \A m \in Rooms : lent[m] # NoRun =>
        lent[m] \in driving \/ lent[m] = Lander \/ Spot[lent[m]] = "unstarted"

(* Past its last look the thread leaves nothing behind, or a failed        *)
(* landing.                                                                *)
Drained ==
    thread.at \in Closed =>
        \/ (\A r \in Runs : Spot[r] \notin Busy) /\ errands = 0
        \/ \E r \in Runs : Spot[r] = "unlanded"

IInv == Types /\ Shape /\ Tables /\ Homes /\ Asking /\ Loans /\ Drained

(***************************************************************************)
(* Sequences and records.                                                  *)
(***************************************************************************)
(* A sequence is over any set that holds its elements.                     *)
LEMMA SeqOver ==
    ASSUME NEW S, NEW T, NEW s \in Seq(S), ToSet(s) \subseteq T
    PROVE  s \in Seq(T)
<1>1. Len(s) \in Nat /\ DOMAIN s = 1..Len(s) /\ s = [i \in 1..Len(s) |-> s[i]]
    OBVIOUS
<1>2. \A i \in 1..Len(s) : s[i] \in T
    BY <1>1 DEF ToSet
<1> QED
    BY <1>1, <1>2

(* What is left of a sequence without one of its elements.                 *)
LEMMA RemoveAtSeq ==
    ASSUME NEW S, NEW s \in Seq(S), NEW i \in DOMAIN s
    PROVE  RemoveAt(s, i) \in Seq(S)
<1>1. SubSeq(s, 1, i - 1) \in Seq(S) /\ SubSeq(s, i + 1, Len(s)) \in Seq(S)
    OBVIOUS
<1> QED
    BY <1>1 DEF RemoveAt

(* Elements of a sequence.                                                 *)
LEMMA ElementOf ==
    ASSUME NEW S, NEW s \in Seq(S)
    PROVE  ToSet(s) \subseteq S /\ \A i \in DOMAIN s : s[i] \in S /\ s[i] \in ToSet(s)
    BY DEF ToSet

(* The last of two sequences grows at its end.                             *)
LEMMA AppendConcat ==
    ASSUME NEW S, NEW s \in Seq(S), NEW t \in Seq(S), NEW e \in S
    PROVE  s \o Append(t, e) = Append(s \o t, e)
<1> DEFINE u == s \o Append(t, e)
           v == Append(s \o t, e)
<1>1. Len(s) \in Nat /\ Len(t) \in Nat /\ u \in Seq(S) /\ v \in Seq(S)
    OBVIOUS
<1>2. Len(u) = Len(s) + Len(t) + 1 /\ Len(v) = Len(s) + Len(t) + 1
    BY <1>1
<1>3. ASSUME NEW i \in 1..Len(u) PROVE u[i] = v[i]
  <2>1. CASE i <= Len(s)
      BY <2>1, <1>1, <1>2
  <2>2. CASE i > Len(s) /\ i <= Len(s) + Len(t)
      BY <2>2, <1>1, <1>2
  <2>3. CASE i = Len(s) + Len(t) + 1
      BY <2>3, <1>1, <1>2
  <2> QED
      BY <2>1, <2>2, <2>3, <1>1, <1>2
<1> QED
    BY <1>1, <1>2, <1>3

(* What is once in two sequences is once in the first.                     *)
LEMMA OncePrefix ==
    ASSUME NEW S, NEW s \in Seq(S), NEW t \in Seq(S), Once(s \o t)
    PROVE  Once(s)
<1>1. /\ Len(s) \in Nat /\ Len(t) \in Nat /\ DOMAIN s = 1..Len(s)
      /\ DOMAIN (s \o t) = 1..(Len(s) + Len(t))
    OBVIOUS
<1>2. \A i \in DOMAIN s : i \in DOMAIN (s \o t) /\ (s \o t)[i] = s[i]
    BY <1>1
<1> QED
    BY <1>2 DEF Once

(* The first of two sequences shrinks at its head.                         *)
LEMMA TailConcat ==
    ASSUME NEW S, NEW s \in Seq(S), NEW t \in Seq(S), s # <<>>
    PROVE  s \o t # <<>> /\ Head(s \o t) = Head(s) /\ Tail(s) \o t = Tail(s \o t)
<1> DEFINE u == Tail(s) \o t
           v == Tail(s \o t)
<1>1. Len(s) \in Nat /\ Len(t) \in Nat /\ Len(s) > 0 /\ s \o t \in Seq(S)
    OBVIOUS
<1>2. Len(s \o t) = Len(s) + Len(t) /\ s \o t # <<>> /\ (s \o t)[1] = s[1]
    BY <1>1
<1>3. Tail(s) \in Seq(S) /\ Len(Tail(s)) = Len(s) - 1 /\ \A i \in 1..(Len(s) - 1) : Tail(s)[i] = s[i + 1]
    BY <1>1
<1>4. u \in Seq(S) /\ v \in Seq(S) /\ Len(u) = Len(s) + Len(t) - 1 /\ Len(v) = Len(s) + Len(t) - 1
    BY <1>1, <1>2, <1>3
<1>5. ASSUME NEW i \in 1..Len(u) PROVE u[i] = v[i]
  <2>1. v[i] = (s \o t)[i + 1]
      BY <1>1, <1>2, <1>4
  <2>2. CASE i <= Len(s) - 1
      BY <2>1, <2>2, <1>1, <1>3
  <2>3. CASE i > Len(s) - 1
      BY <2>1, <2>3, <1>1, <1>3, <1>4
  <2> QED
      BY <2>2, <2>3, <1>1, <1>4
<1>6. u = v
    BY <1>4, <1>5
<1>7. Head(s) = s[1] /\ Head(s \o t) = (s \o t)[1]
    BY <1>1
<1> QED
    BY <1>2, <1>6, <1>7

(* What people post are commands, and a dispatch names a run.              *)
LEMMA ScriptIsPosted ==
    ASSUME NEW s \in Scripts
    PROVE  s \in Seq(Commands)
<1>1. ToSet(s) \subseteq Commands
    BY DEF Commands
<1> QED
    BY <1>1, AttendAssumption, SeqOver

(* A lane that goes elsewhere, and the others, which stay.                 *)
LEMMA LaneGoes ==
    ASSUME Shape, NEW r \in Runs, NEW p, lane' = [lane EXCEPT ![r].at = p]
    PROVE  Shape' /\ Spot' = [Spot EXCEPT ![r] = p]
<1>1. lane' = [q \in Runs |-> IF q = r THEN [lane[r] EXCEPT !.at = p] ELSE lane[q]]
    BY DEF Shape
<1>2. [lane[r] EXCEPT !.at = p]
        = [at |-> p, asks |-> lane[r].asks, lines |-> lane[r].lines, refs |-> lane[r].refs]
    BY DEF Shape
<1>3. \A q \in Runs \ {r} : lane'[q] = lane[q]
    BY <1>1
<1>4. lane'[r] = [at |-> p, asks |-> lane[r].asks, lines |-> lane[r].lines, refs |-> lane[r].refs]
    BY <1>1, <1>2
<1>5. lane' = [q \in Runs |-> lane'[q]]
    BY <1>1
<1>6. ASSUME NEW q \in Runs
      PROVE  lane'[q] = [at |-> lane'[q].at, asks |-> lane'[q].asks, lines |-> lane'[q].lines,
                         refs |-> lane'[q].refs]
  <2>1. CASE q = r
      BY <2>1, <1>4
  <2>2. CASE q # r
      BY <2>2, <1>3 DEF Shape
  <2> QED
      BY <2>1, <2>2
<1>7. lane'[r].at = p
    BY <1>4
<1> QED
    BY <1>3, <1>5, <1>6, <1>7 DEF Shape, Spot

(* A lane that is told something.                                          *)
LEMMA RecordGoes ==
    ASSUME NEW l, NEW p, NEW x,
           l = [at |-> l.at, asks |-> l.asks, lines |-> l.lines, refs |-> l.refs]
    PROVE  [l EXCEPT !.at = p, !.refs = x]
             = [at |-> p, asks |-> l.asks, lines |-> l.lines, refs |-> x]
<1>1. PICK a, b, c, d : l = [at |-> a, asks |-> b, lines |-> c, refs |-> d]
    OBVIOUS
<1>2. [l EXCEPT !.at = p] = [at |-> p, asks |-> b, lines |-> c, refs |-> d]
    BY <1>1
<1>3. l.asks = b /\ l.lines = c
    BY <1>1
<1>4. [[at |-> p, asks |-> b, lines |-> c, refs |-> d] EXCEPT !.refs = x]
        = [at |-> p, asks |-> b, lines |-> c, refs |-> x]
    OBVIOUS
<1> QED
    BY <1>2, <1>3, <1>4, Zenon

(* The lanes after a batch of requests is answered.                        *)
LEMMA ToldLanes ==
    ASSUME Shape, NEW b \in BOOLEAN, lane' = Told(b)
    PROVE  /\ Shape'
           /\ Spot' = [r \in Runs |-> IF r \in Askers THEN IF b THEN "driving" ELSE "refused"
                                      ELSE Spot[r]]
<1> DEFINE answer == IF b THEN "driving" ELSE "refused"
<1>1. lane' = [r \in Runs |-> lane'[r]]
    BY DEF Told
<1>2. ASSUME NEW r \in Runs
      PROVE  /\ lane'[r] = [at |-> lane'[r].at, asks |-> lane'[r].asks, lines |-> lane'[r].lines,
                            refs |-> lane'[r].refs]
             /\ lane'[r].at = IF r \in Askers THEN answer ELSE lane[r].at
  <2>1. lane[r] = [at |-> lane[r].at, asks |-> lane[r].asks, lines |-> lane[r].lines,
                   refs |-> lane[r].refs]
      BY DEF Shape
  <2>2. CASE r \notin Askers
    <3>1. ~\E i \in DOMAIN Relayed : Relayed[i].run = r
        BY <2>2 DEF Askers
    <3>2. lane'[r] = lane[r]
        BY <3>1 DEF Told
    <3> QED
        BY <3>2, <2>1, <2>2
  <2>3. CASE r \in Askers
    <3>1. \E i \in DOMAIN Relayed : Relayed[i].run = r
        BY <2>3 DEF Askers
    <3>2. lane'[r] = Answered(r, b)
        BY <1>1, <3>1 DEF Told
    <3>3. CASE b
      <4>1. Answered(r, b) = [at |-> "driving", asks |-> lane[r].asks, lines |-> lane[r].lines,
                              refs |-> lane[r].refs \o RefsOf(Request(r))]
        <5>1. Answered(r, b) = [lane[r] EXCEPT !.at = "driving",
                                               !.refs = lane[r].refs \o RefsOf(Request(r))]
            BY <3>3 DEF Answered
        <5> QED
            BY <5>1, <2>1, RecordGoes, Zenon
      <4> QED
          BY <4>1, <3>2, <3>3, <2>3
    <3>4. CASE ~b
      <4>1. Answered(r, b) = [at |-> "refused", asks |-> lane[r].asks, lines |-> lane[r].lines,
                              refs |-> lane[r].refs]
        <5>1. Answered(r, b) = [lane[r] EXCEPT !.at = "refused", !.refs = lane[r].refs]
            BY <3>4 DEF Answered
        <5> QED
            BY <5>1, <2>1, RecordGoes, Zenon
      <4> QED
          BY <4>1, <3>2, <3>4, <2>3
    <3> QED
        BY <3>3, <3>4
  <2> QED
      BY <2>2, <2>3
<1> QED
    BY <1>1, <1>2 DEF Shape, Spot

(***************************************************************************)
(* The initial states.                                                     *)
(***************************************************************************)
LEMMA InitHolds == Init => IInv
<1> SUFFICES ASSUME Init PROVE IInv
    OBVIOUS
<1>1. /\ waiting = <<>> /\ homes = <<>> /\ wakes.arrivals = <<>> /\ wakes.relays = <<>>
      /\ wakes.answers = 0 /\ errands = 0 /\ running = {} /\ driving = {}
      /\ queue = <<>> /\ thread.at = "serve"
    BY DEF Init, NoWakes
<1>2. \A r \in Runs : lane[r] = [at |-> "new", asks |-> 0, lines |-> 0, refs |-> <<>>]
    BY DEF Init
<1>3. Lander = NoRun /\ Found = <<>> /\ Askers = {} /\ \A r \in Runs : Spot[r] = "new"
    BY <1>1, <1>2 DEF Lander, Found, Askers, Relayed, Spot
<1>4. ToSet(waiting) = {} /\ ToSet(Found) = {} /\ Once(waiting) /\ Once(Found)
    BY <1>1, <1>3 DEF ToSet, Once
<1>5. script \in Seq(Commands)
    BY ScriptIsPosted DEF Init
<1>6. thread \in [at : Places, run : Runs \cup {NoRun}, draining : BOOLEAN]
    BY DEF Init, Places
<1>7. Types /\ Shape
    BY <1>1, <1>2, <1>3, <1>5, <1>6 DEF Init, Types, Shape, NoWakes
<1>8. Tables
    BY <1>1, <1>3, <1>4 DEF Tables, InLane
<1>9. Homes /\ Asking
    BY <1>1, <1>3, <1>4, AttendAssumption DEF Homes, Asking
<1>10. Loans /\ Drained
    BY <1>1 DEF Init, Loans, Drained, Closed
<1> QED
    BY <1>7, <1>8, <1>9, <1>10 DEF IInv

(***************************************************************************)
(* Steps that leave the pool's tables as they are.                         *)
(***************************************************************************)
(* Lanes may move within the pool.                                         *)
LEMMA LanesMove ==
    ASSUME Tables, Loans,
           \A q \in Runs : \/ Spot'[q] = Spot[q]
                           \/ Spot[q] \in InLane \ {"home"} /\ Spot'[q] \in InLane,
           running' = running, waiting' = waiting, driving' = driving, lent' = lent,
           lent \in [Rooms -> Runs \cup {NoRun}],
           Lander' = Lander, thread.at = "starting" => thread'.at = "starting"
    PROVE  Tables' /\ Loans'
<1>1. \A q \in Runs : /\ Spot'[q] \in InLane <=> Spot[q] \in InLane
                      /\ Spot'[q] = "waiting" <=> Spot[q] = "waiting"
                      /\ Spot[q] = "unstarted" => Spot'[q] = "unstarted"
    BY DEF InLane
<1>2. running' = {q \in Runs : Spot'[q] \in InLane /\ q # Lander'}
    BY <1>1 DEF Tables
<1>3. ToSet(waiting') = {q \in Runs : Spot'[q] = "waiting"}
    BY <1>1 DEF Tables
<1>4. Tables'
    BY <1>2, <1>3 DEF Tables
<1>5. Loans'
    BY <1>1 DEF Loans
<1> QED
    BY <1>4, <1>5

(* The close stays drained while no lane is new to the pool.               *)
LEMMA StaysDrained ==
    ASSUME Drained,
           \A q \in Runs : \/ Spot'[q] = Spot[q]
                           \/ Spot[q] \in Busy /\ Spot'[q] # "unlanded",
           thread'.at \in Closed => thread.at \in Closed /\ errands' = errands
    PROVE  Drained'
    BY DEF Drained, Busy, InLane

(* So do the runs found home, when none is added.                          *)
LEMMA SameHomes ==
    ASSUME Homes, \A q \in Runs : Spot[q] = "home" => Spot'[q] = "home",
           homes' \in Seq(Runs), wakes'.arrivals \in Seq(Runs), Found' = Found, Lander' = Lander
    PROVE  Homes'
<1>1. ToSet(Found) \subseteq Runs
    BY ToSetConcat, ElementOf DEF Homes, Found
<1> QED
    BY <1>1 DEF Homes

(* A lane that is not home asks, is answered, or goes on.                  *)
LEMMA WithinPool ==
    ASSUME IInv,
           \A q \in Runs : \/ Spot'[q] = Spot[q]
                           \/ Spot[q] \in InLane \ {"home"} /\ Spot'[q] \in InLane \ {"home"},
           running' = running, waiting' = waiting, driving' = driving, lent' = lent,
           homes' \in Seq(Runs), wakes'.arrivals \in Seq(Runs), Found' = Found,
           Lander' = Lander, thread.at = "starting" => thread'.at = "starting",
           thread'.at \in Closed => thread.at \in Closed /\ errands' = errands
    PROVE  Tables' /\ Loans' /\ Homes' /\ Drained'
<1>1. Tables' /\ Loans'
    BY LanesMove DEF IInv, Types
<1>2. Homes'
    BY SameHomes DEF IInv, InLane
<1>3. Drained'
    BY StaysDrained DEF IInv, InLane, Busy
<1> QED
    BY <1>1, <1>2, <1>3

(* What the invariant says of the queue of wakes, when only requests and   *)
(* lanes change.                                                           *)
LEMMA SameFound ==
    ASSUME homes' = homes, wakes'.arrivals = wakes.arrivals
    PROVE  Found' = Found
    BY DEF Found

LEMMA SameLander == thread' = thread => Lander' = Lander
    BY DEF Lander

(***************************************************************************)
(* The lanes.                                                              *)
(***************************************************************************)
LEMMA AskStep ==
    ASSUME IInv, NEW r \in Runs, NEW n \in 1..MaxBatch, Ask(r, n)
    PROVE  IInv'
<1>1. /\ lane[r].at = "driving"
      /\ wakes' = [wakes EXCEPT !.relays = Append(@, [run |-> r, n |-> n])]
      /\ lane' = [lane EXCEPT ![r].at = "asking", ![r].asks = @ + 1, ![r].lines = @ + n]
      /\ thread' = thread /\ homes' = homes /\ running' = running /\ waiting' = waiting
      /\ driving' = driving /\ lent' = lent /\ queue' = queue /\ script' = script
      /\ errands' = errands
    BY DEF Ask, pool, desk
<1>2. /\ lane' = [q \in Runs |-> lane'[q]]
      /\ \A q \in Runs \ {r} : lane'[q] = lane[q]
      /\ lane'[r] = [[[lane[r] EXCEPT !.at = "asking"] EXCEPT !.asks = lane[r].asks + 1]
                        EXCEPT !.lines = lane[r].lines + n]
    BY <1>1 DEF IInv, Shape
<1>3. lane'[r] = [at |-> "asking", asks |-> lane[r].asks + 1, lines |-> lane[r].lines + n,
                  refs |-> lane[r].refs]
    BY <1>2 DEF IInv, Shape
<1>4. Shape'
  <2>1. ASSUME NEW q \in Runs
        PROVE  lane'[q] = [at |-> lane'[q].at, asks |-> lane'[q].asks, lines |-> lane'[q].lines,
                           refs |-> lane'[q].refs]
    <3>1. CASE q = r
        BY <3>1, <1>3
    <3>2. CASE q # r
        BY <3>2, <1>2 DEF IInv, Shape
    <3> QED
        BY <3>1, <3>2
  <2> QED
      BY <2>1, <1>2 DEF Shape
<1>5. /\ Spot[r] = "driving" /\ Spot'[r] = "asking"
      /\ \A q \in Runs \ {r} : Spot'[q] = Spot[q]
    BY <1>1, <1>2, <1>3 DEF Spot
<1>6. /\ wakes' = [relays |-> wakes'.relays, arrivals |-> wakes'.arrivals, answers |-> wakes'.answers]
      /\ wakes'.relays = Append(wakes.relays, [run |-> r, n |-> n])
      /\ wakes'.arrivals = wakes.arrivals /\ wakes'.answers = wakes.answers
    BY <1>1 DEF IInv, Types
<1>7. wakes'.relays \in Seq([run : Runs, n : 1..MaxBatch])
    BY <1>6 DEF IInv, Types
<1>8. Found' = Found /\ Lander' = Lander
    BY <1>1, <1>6, SameFound, SameLander
<1>9. Types'
    BY <1>1, <1>6, <1>7, <1>8 DEF IInv, Types
<1>10. Tables' /\ Loans' /\ Homes' /\ Drained'
  <2>1. \A q \in Runs : \/ Spot'[q] = Spot[q]
                        \/ Spot[q] \in InLane \ {"home"} /\ Spot'[q] \in InLane \ {"home"}
      BY <1>5 DEF InLane
  <2>2. homes' \in Seq(Runs) /\ wakes'.arrivals \in Seq(Runs)
      BY <1>1, <1>6 DEF IInv, Homes
  <2> QED
      BY <2>1, <2>2, <1>1, <1>8, WithinPool
<1>11. Askers' = Askers \cup {r}
  <2> DEFINE old == wakes.relays
             new == wakes'.relays
  <2>1. DOMAIN old = 1..Len(old) /\ Len(old) \in Nat /\ DOMAIN new = 1..(Len(old) + 1)
      BY <1>6 DEF IInv, Types
  <2>2. \A i \in DOMAIN old : new[i] = old[i]
      BY <2>1, <1>6 DEF IInv, Types
  <2>3. new[Len(old) + 1] = [run |-> r, n |-> n]
      BY <1>6 DEF IInv, Types
  <2>4. Askers = {old[i].run : i \in DOMAIN old} /\ Askers' = {new[i].run : i \in DOMAIN new}
      BY DEF Askers, Relayed
  <2> HIDE DEF old, new
  <2> QED
      BY <2>1, <2>2, <2>3, <2>4
<1>12. Asking'
    BY <1>5, <1>11 DEF IInv, Asking
<1> QED
    BY <1>4, <1>9, <1>10, <1>12 DEF IInv

(* Steps that leave the queue of wakes alone, and move one lane at most.   *)
LEMMA OneLane ==
    ASSUME IInv, NEW r \in Runs, Shape',
           \A q \in Runs \ {r} : Spot'[q] = Spot[q],
           \/ Spot'[r] = Spot[r]
           \/ Spot[r] = "driving" /\ Spot'[r] \in {"stopped", "refused"},
           wakes' = wakes, homes' = homes, thread' = thread, running' = running,
           waiting' = waiting, driving' = driving, lent' = lent, errands' = errands,
           queue' \in Seq(Commands), script' \in Seq(Commands)
    PROVE  IInv'
<1>1. Found' = Found /\ Lander' = Lander
    BY SameFound, SameLander
<1>2. Types'
    BY <1>1 DEF IInv, Types
<1>3. Tables' /\ Loans' /\ Homes' /\ Drained'
  <2>1. \A q \in Runs : \/ Spot'[q] = Spot[q]
                        \/ Spot[q] \in InLane \ {"home"} /\ Spot'[q] \in InLane \ {"home"}
      BY DEF InLane
  <2>2. homes' \in Seq(Runs) /\ wakes'.arrivals \in Seq(Runs)
      BY DEF IInv, Homes
  <2> QED
      BY <2>1, <2>2, <1>1, WithinPool
<1>4. Askers' = Askers
    BY DEF Askers, Relayed
<1>5. Asking'
    BY <1>4 DEF IInv, Asking
<1> QED
    BY <1>2, <1>3, <1>5 DEF IInv

LEMMA AskRefusedStep ==
    ASSUME IInv, NEW r \in Runs, AskRefused(r)
    PROVE  IInv'
<1>1. /\ lane[r].at = "driving"
      /\ lane' = [lane EXCEPT ![r].at = "refused", ![r].asks = @ + 1]
      /\ thread' = thread /\ homes' = homes /\ running' = running /\ waiting' = waiting
      /\ driving' = driving /\ lent' = lent /\ queue' = queue /\ script' = script
      /\ errands' = errands /\ wakes' = wakes
    BY DEF AskRefused, pool, desk
<1>2. /\ lane' = [q \in Runs |-> lane'[q]]
      /\ \A q \in Runs \ {r} : lane'[q] = lane[q]
      /\ lane'[r] = [[lane[r] EXCEPT !.at = "refused"] EXCEPT !.asks = lane[r].asks + 1]
    BY <1>1 DEF IInv, Shape
<1>3. lane'[r] = [at |-> "refused", asks |-> lane[r].asks + 1, lines |-> lane[r].lines,
                  refs |-> lane[r].refs]
    BY <1>2 DEF IInv, Shape
<1>4. Shape'
  <2>1. ASSUME NEW q \in Runs
        PROVE  lane'[q] = [at |-> lane'[q].at, asks |-> lane'[q].asks, lines |-> lane'[q].lines,
                           refs |-> lane'[q].refs]
    <3>1. CASE q = r
        BY <3>1, <1>3
    <3>2. CASE q # r
        BY <3>2, <1>2 DEF IInv, Shape
    <3> QED
        BY <3>1, <3>2
  <2> QED
      BY <2>1, <1>2 DEF Shape
<1>5. /\ Spot[r] = "driving" /\ Spot'[r] = "refused"
      /\ \A q \in Runs \ {r} : Spot'[q] = Spot[q]
    BY <1>1, <1>2, <1>3 DEF Spot
<1>6. queue' \in Seq(Commands) /\ script' \in Seq(Commands)
    BY <1>1 DEF IInv, Types
<1> QED
    BY <1>1, <1>4, <1>5, <1>6, OneLane

LEMMA SafePointStep ==
    ASSUME IInv, NEW r \in Runs, SafePoint(r)
    PROVE  IInv'
<1>1. /\ lane[r].at = "driving"
      /\ lane' = [lane EXCEPT ![r].at = "stopped"] \/ lane' = lane
      /\ queue' = queue \/ \E i \in DOMAIN queue : queue' = RemoveAt(queue, i)
      /\ thread' = thread /\ homes' = homes /\ running' = running /\ waiting' = waiting
      /\ driving' = driving /\ lent' = lent /\ script' = script
      /\ errands' = errands /\ wakes' = wakes
    BY DEF SafePoint, pool, Held
<1>2. queue' \in Seq(Commands) /\ script' \in Seq(Commands)
    BY <1>1, RemoveAtSeq DEF IInv, Types
<1>3. Spot[r] = "driving"
    BY <1>1 DEF Spot
<1>4. CASE lane' = lane
  <2>1. Shape' /\ Spot' = Spot
      BY <1>4 DEF IInv, Shape, Spot
  <2> QED
      BY <2>1, <1>1, <1>2, OneLane
<1>5. CASE lane' = [lane EXCEPT ![r].at = "stopped"]
  <2>1. Shape' /\ Spot' = [Spot EXCEPT ![r] = "stopped"]
      BY <1>5, LaneGoes DEF IInv
  <2>2. Spot'[r] = "stopped" /\ \A q \in Runs \ {r} : Spot'[q] = Spot[q]
      BY <2>1 DEF Spot
  <2> QED
      BY <2>1, <2>2, <1>1, <1>2, <1>3, OneLane
<1> QED
    BY <1>1, <1>4, <1>5

LEMMA ComeHomeStep ==
    ASSUME IInv, NEW r \in Runs, ComeHome(r)
    PROVE  IInv'
<1>1. /\ lane[r].at \in {"driving", "stopped", "refused"}
      /\ lane' = [lane EXCEPT ![r].at = "home"]
      /\ wakes' = wakes \/ wakes' = [wakes EXCEPT !.arrivals = Append(@, r)]
      /\ thread' = thread /\ homes' = homes /\ running' = running /\ waiting' = waiting
      /\ driving' = driving /\ lent' = lent /\ queue' = queue /\ script' = script
      /\ errands' = errands
    BY DEF ComeHome, pool, desk
<1>2. Shape' /\ Spot' = [Spot EXCEPT ![r] = "home"]
    BY <1>1, LaneGoes DEF IInv
<1>3. /\ Spot[r] \in {"driving", "stopped", "refused"} /\ Spot'[r] = "home"
      /\ \A q \in Runs \ {r} : Spot'[q] = Spot[q]
    BY <1>1, <1>2 DEF Spot
<1>4. /\ wakes' = [relays |-> wakes'.relays, arrivals |-> wakes'.arrivals, answers |-> wakes'.answers]
      /\ wakes'.relays = wakes.relays /\ wakes'.answers = wakes.answers
      /\ wakes'.arrivals \in {wakes.arrivals, Append(wakes.arrivals, r)}
    BY <1>1 DEF IInv, Types
<1>5. Lander' = Lander /\ Askers' = Askers
    BY <1>1, <1>4, SameLander DEF Askers, Relayed
<1>6. Types'
    BY <1>1, <1>4, <1>5 DEF IInv, Types
<1>7. Tables' /\ Loans' /\ Drained'
  <2>1. \A q \in Runs : \/ Spot'[q] = Spot[q]
                        \/ Spot[q] \in InLane \ {"home"} /\ Spot'[q] \in InLane
      BY <1>3 DEF InLane
  <2>2. \A q \in Runs : \/ Spot'[q] = Spot[q]
                        \/ Spot[q] \in Busy /\ Spot'[q] # "unlanded"
      BY <1>3 DEF Busy, InLane
  <2>3. Tables' /\ Loans'
      BY <2>1, <1>1, <1>5, LanesMove DEF IInv, Types
  <2>4. Drained'
      BY <2>2, <1>1, StaysDrained DEF IInv
  <2> QED
      BY <2>3, <2>4
<1>8. Homes'
  <2>1. /\ homes \in Seq(Runs) /\ wakes.arrivals \in Seq(Runs) /\ Found \in Seq(Runs)
        /\ Once(Found) /\ ToSet(Found) \subseteq Runs
      BY ToSetConcat, ElementOf DEF IInv, Homes, Found
  <2>2. r # Lander /\ r \notin ToSet(Found)
      BY <1>3 DEF IInv, Homes
  <2>3. CASE wakes'.arrivals = wakes.arrivals
    <3>1. Found' = Found
        BY <2>3, <1>1, SameFound
    <3> QED
        BY <3>1, <2>1, <2>3, <1>1, <1>3, <1>5, SameHomes DEF IInv
  <2>4. CASE wakes'.arrivals = Append(wakes.arrivals, r)
    <3>1. Found' = Append(Found, r)
        BY <2>1, <2>4, <1>1, AppendConcat DEF Found
    <3>2. Once(Found') /\ ToSet(Found') = ToSet(Found) \cup {r}
        BY <3>1, <2>1, <2>2, OnceAppend, ToSetAppend
    <3>3. \A q \in ToSet(Found') : Spot'[q] = "home" /\ q # Lander'
        BY <3>2, <2>1, <2>2, <1>3, <1>5 DEF IInv, Homes
    <3>4. \A q \in Runs : q = Lander' => Spot'[q] = "home"
        BY <1>3, <1>5 DEF IInv, Homes
    <3>5. homes' \in Seq(Runs) /\ wakes'.arrivals \in Seq(Runs)
        BY <2>1, <2>4, <1>1
    <3> QED
        BY <3>2, <3>3, <3>4, <3>5 DEF Homes
  <2> QED
      BY <2>3, <2>4, <1>4
<1>9. Asking'
    BY <1>3, <1>5 DEF IInv, Asking
<1> QED
    BY <1>2, <1>6, <1>7, <1>8, <1>9 DEF IInv

(***************************************************************************)
(* The desk, the process and the requests of a provider.                   *)
(***************************************************************************)
(* Steps that move no run: an answer, a post, what reaches the process,    *)
(* and the thread between two looks.                                       *)
LEMMA NoRunMoves ==
    ASSUME IInv, lane' = lane, homes' = homes, running' = running, waiting' = waiting,
           driving' = driving, lent' = lent,
           thread' \in [at : Places, run : Runs \cup {NoRun}, draining : BOOLEAN],
           Lander' = Lander, thread.at = "starting" => thread'.at = "starting",
           thread'.at \in {"starting", "landing"} => thread.at \in {"starting", "landing"},
           wakes' = [relays |-> wakes.relays, arrivals |-> wakes.arrivals,
                     answers |-> wakes'.answers],
           wakes'.answers \in Nat, errands' \in Nat, wakes'.answers <= errands',
           thread'.at \in Closed => Drained',
           queue' \in Seq(Commands), script' \in Seq(Commands)
    PROVE  IInv'
<1>1. Spot' = Spot /\ Shape'
    BY DEF IInv, Shape, Spot
<1>2. wakes'.relays = wakes.relays /\ wakes'.arrivals = wakes.arrivals
    OBVIOUS
<1>3. Found' = Found /\ Askers' = Askers
    BY <1>2, SameFound DEF Askers, Relayed
<1>4. Types'
    BY <1>2 DEF IInv, Types
<1>5. Tables' /\ Loans'
    BY <1>1, LanesMove DEF IInv, Types
<1>6. Homes'
    BY <1>1, <1>2, <1>3, SameHomes DEF IInv, Homes
<1>7. Asking'
    BY <1>1, <1>3 DEF IInv, Asking
<1>8. Drained'
    BY DEF Drained
<1> QED
    BY <1>1, <1>4, <1>5, <1>6, <1>7, <1>8 DEF IInv

LEMMA AnswerStep == IInv /\ Answer => IInv'
<1> SUFFICES ASSUME IInv, Answer PROVE IInv'
    OBVIOUS
<1>1. /\ errands > wakes.answers
      /\ wakes' = [wakes EXCEPT !.answers = @ + 1]
      /\ thread' = thread /\ homes' = homes /\ running' = running /\ waiting' = waiting
      /\ driving' = driving /\ lent' = lent /\ queue' = queue /\ script' = script
      /\ errands' = errands /\ lane' = lane
    BY DEF Answer, pool, desk
<1>2. /\ wakes' = [relays |-> wakes.relays, arrivals |-> wakes.arrivals,
                   answers |-> wakes'.answers]
      /\ wakes'.answers = wakes.answers + 1
    BY <1>1 DEF IInv, Types
<1>3. wakes'.answers \in Nat /\ errands' \in Nat /\ wakes'.answers <= errands'
    BY <1>1, <1>2 DEF IInv, Types
<1>4. Spot' = Spot /\ Lander' = Lander
    BY <1>1, SameLander DEF Spot
<1>5. Drained'
    BY <1>1, <1>4, StaysDrained DEF IInv
<1>6. /\ thread' \in [at : Places, run : Runs \cup {NoRun}, draining : BOOLEAN]
      /\ queue' \in Seq(Commands) /\ script' \in Seq(Commands)
    BY <1>1 DEF IInv, Types
<1> QED
    BY <1>1, <1>2, <1>3, <1>4, <1>5, <1>6, NoRunMoves

LEMMA PostStep == IInv /\ Post => IInv'
<1> SUFFICES ASSUME IInv, Post PROVE IInv'
    OBVIOUS
<1>1. /\ script # <<>> /\ script' = Tail(script) /\ queue' = Append(queue, Head(script))
      /\ thread' = thread /\ homes' = homes /\ running' = running /\ waiting' = waiting
      /\ driving' = driving /\ lent' = lent /\ wakes' = wakes
      /\ errands' = errands /\ lane' = lane
    BY DEF Post, pool
<1>2. Head(script) \in Commands /\ script' \in Seq(Commands)
    BY <1>1 DEF IInv, Types
<1>3. queue' \in Seq(Commands)
    BY <1>1, <1>2 DEF IInv, Types
<1>4. Spot' = Spot /\ Lander' = Lander
    BY <1>1, SameLander DEF Spot
<1>5. Drained'
    BY <1>1, <1>4, StaysDrained DEF IInv
<1>6. /\ thread' \in [at : Places, run : Runs \cup {NoRun}, draining : BOOLEAN]
      /\ wakes' = [relays |-> wakes.relays, arrivals |-> wakes.arrivals,
                   answers |-> wakes'.answers]
      /\ wakes'.answers \in Nat /\ errands' \in Nat /\ wakes'.answers <= errands'
    BY <1>1 DEF IInv, Types
<1> QED
    BY <1>1, <1>2, <1>3, <1>4, <1>5, <1>6, NoRunMoves

(* What the process's face does touches neither pool nor desk's commands.  *)
LEMMA StillStep ==
    ASSUME IInv,
           UNCHANGED <<thread, wakes, homes, pool, lane, queue, script, errands>>
    PROVE  IInv'
<1>1. /\ thread' = thread /\ homes' = homes /\ running' = running /\ waiting' = waiting
      /\ driving' = driving /\ lent' = lent /\ wakes' = wakes /\ queue' = queue
      /\ script' = script /\ errands' = errands /\ lane' = lane
    BY DEF pool
<1>2. Spot' = Spot /\ Lander' = Lander
    BY <1>1, SameLander DEF Spot
<1>3. Drained'
    BY <1>1, <1>2, StaysDrained DEF IInv
<1>4. /\ thread' \in [at : Places, run : Runs \cup {NoRun}, draining : BOOLEAN]
      /\ wakes' = [relays |-> wakes.relays, arrivals |-> wakes.arrivals,
                   answers |-> wakes'.answers]
      /\ wakes'.answers \in Nat /\ errands' \in Nat /\ wakes'.answers <= errands'
      /\ queue' \in Seq(Commands) /\ script' \in Seq(Commands)
    BY <1>1 DEF IInv, Types
<1> QED
    BY <1>1, <1>2, <1>3, <1>4, NoRunMoves

LEMMA IdleStep == IInv /\ Idle => IInv'
<1> SUFFICES ASSUME IInv, Idle PROVE IInv'
    OBVIOUS
<1>1. /\ thread.at = "desk"
      /\ \/ thread' = [thread EXCEPT !.at = "serve"]
         \/ thread' = [thread EXCEPT !.at = "drain", !.draining = TRUE]
      /\ homes' = homes /\ running' = running /\ waiting' = waiting
      /\ driving' = driving /\ lent' = lent /\ wakes' = wakes /\ queue' = queue
      /\ script' = script /\ errands' = errands /\ lane' = lane
    BY DEF Idle, At, GoesTo, pool, desk
<1>2. /\ thread' \in [at : Places, run : Runs \cup {NoRun}, draining : BOOLEAN]
      /\ thread'.at \in {"serve", "drain"}
    BY <1>1 DEF IInv, Types, Places
<1>3. Lander' = Lander /\ thread'.at \notin Closed /\ thread'.at \notin {"starting", "landing"}
    BY <1>1, <1>2 DEF Lander, Closed
<1>4. /\ wakes' = [relays |-> wakes.relays, arrivals |-> wakes.arrivals,
                   answers |-> wakes'.answers]
      /\ wakes'.answers \in Nat /\ errands' \in Nat /\ wakes'.answers <= errands'
      /\ queue' \in Seq(Commands) /\ script' \in Seq(Commands)
    BY <1>1 DEF IInv, Types
<1> QED
    BY <1>1, <1>2, <1>3, <1>4, NoRunMoves

(* The thread leaves its last look with every lane home and landed: what   *)
(* would still wait has no lane to wait for.                               *)
LEMMA LandTheRestStep == IInv /\ LandTheRest => IInv'
<1> SUFFICES ASSUME IInv, LandTheRest PROVE IInv'
    OBVIOUS
<1>1. /\ thread.at = "drain"
      /\ thread' = [thread EXCEPT !.at = IF Unfinished THEN "serve" ELSE "handoff"]
      /\ homes' = homes /\ running' = running /\ waiting' = waiting
      /\ driving' = driving /\ lent' = lent /\ wakes' = wakes /\ queue' = queue
      /\ script' = script /\ errands' = errands /\ lane' = lane
    BY DEF LandTheRest, At, GoesTo, pool, desk
<1>2. /\ thread' \in [at : Places, run : Runs \cup {NoRun}, draining : BOOLEAN]
      /\ thread'.at = IF Unfinished THEN "serve" ELSE "handoff"
    BY <1>1 DEF IInv, Types, Places
<1>3. Lander' = Lander /\ Lander = NoRun /\ Spot' = Spot
    BY <1>1, <1>2 DEF Lander, Spot
<1>4. ASSUME thread'.at \in Closed PROVE Drained'
  <2>1. running = {} /\ errands = 0
      BY <1>2, <1>4 DEF Closed, Unfinished, IInv, Types
  <2>2. waiting = <<>>
      BY <2>1, <1>1 DEF IInv, Tables
  <2>3. ToSet(waiting) = {}
      BY <2>2 DEF ToSet
  <2>4. \A r \in Runs : Spot[r] \notin Busy
      BY <2>1, <2>3, <1>3, AttendAssumption DEF IInv, Tables, Busy
  <2> QED
      BY <2>1, <2>4, <1>1, <1>3 DEF Drained
<1>5. /\ wakes' = [relays |-> wakes.relays, arrivals |-> wakes.arrivals,
                   answers |-> wakes'.answers]
      /\ wakes'.answers \in Nat /\ errands' \in Nat /\ wakes'.answers <= errands'
      /\ queue' \in Seq(Commands) /\ script' \in Seq(Commands)
    BY <1>1 DEF IInv, Types
<1>6. thread'.at \notin {"starting", "landing"} /\ thread.at # "starting"
    BY <1>1, <1>2
<1> QED
    BY <1>1, <1>2, <1>3, <1>4, <1>5, <1>6, NoRunMoves

(***************************************************************************)
(* The one queue.                                                          *)
(***************************************************************************)
(* A batch that is answered leaves every lane that asked in the pool.      *)
LEMMA AnsweredLanes ==
    ASSUME IInv, NEW b \in BOOLEAN, lane' = Told(b)
    PROVE  /\ Shape'
           /\ \A q \in Runs : \/ Spot'[q] = Spot[q]
                              \/ Spot[q] \in InLane \ {"home"} /\ Spot'[q] \in InLane \ {"home"}
<1>1. /\ Shape'
      /\ Spot' = [r \in Runs |-> IF r \in Askers THEN IF b THEN "driving" ELSE "refused"
                                 ELSE Spot[r]]
    BY ToldLanes DEF IInv
<1> QED
    BY <1>1 DEF IInv, Asking, InLane

LEMMA ServeStep == IInv /\ Serve => IInv'
<1> SUFFICES ASSUME IInv, Serve PROVE IInv'
    OBVIOUS
<1>1. /\ thread.at = "serve" /\ thread' = [thread EXCEPT !.at = "land"]
      /\ lane' = Told(TRUE) \/ lane' = Told(FALSE)
      /\ homes' = homes \o wakes.arrivals
      /\ errands' = errands - wakes.answers /\ wakes' = NoWakes
      /\ running' = running /\ waiting' = waiting /\ driving' = driving /\ lent' = lent
      /\ queue' = queue /\ script' = script
    BY DEF Serve, At, GoesTo, pool, desk, Taken
<1>2. /\ Shape'
      /\ \A q \in Runs : \/ Spot'[q] = Spot[q]
                         \/ Spot[q] \in InLane \ {"home"} /\ Spot'[q] \in InLane \ {"home"}
    BY <1>1, AnsweredLanes
<1>3. /\ thread' \in [at : Places, run : Runs \cup {NoRun}, draining : BOOLEAN]
      /\ thread'.at = "land"
    BY <1>1 DEF IInv, Types, Places
<1>4. Lander' = Lander /\ Lander = NoRun
    BY <1>1, <1>3 DEF Lander
<1>5. /\ wakes' = [relays |-> wakes'.relays, arrivals |-> wakes'.arrivals,
                   answers |-> wakes'.answers]
      /\ wakes'.relays = <<>> /\ wakes'.arrivals = <<>> /\ wakes'.answers = 0
    BY <1>1 DEF NoWakes
<1>6. /\ homes' \in Seq(Runs) /\ wakes'.arrivals \in Seq(Runs) /\ Found' = Found
  <2>1. homes' \in Seq(Runs) /\ wakes'.arrivals \in Seq(Runs)
      BY <1>1, <1>5 DEF IInv, Homes
  <2>2. homes' \o <<>> = homes'
      BY <2>1
  <2> QED
      BY <2>1, <2>2, <1>1, <1>5 DEF Found
<1>7. Types'
  <2>1. errands' \in Nat /\ wakes'.answers <= errands'
      BY <1>1, <1>5 DEF IInv, Types
  <2> QED
      BY <2>1, <1>1, <1>3, <1>4, <1>5 DEF IInv, Types
<1>8. Tables' /\ Loans' /\ Homes' /\ Drained'
    BY <1>1, <1>2, <1>3, <1>4, <1>6, WithinPool DEF Closed
<1>9. Askers' = {}
    BY <1>5 DEF Askers, Relayed
<1> QED
    BY <1>2, <1>7, <1>8, <1>9 DEF IInv, Asking

LEMMA CloseCityStep == IInv /\ CloseCity => IInv'
<1> SUFFICES ASSUME IInv, CloseCity PROVE IInv'
    OBVIOUS
<1>1. /\ thread.at = "handoff" /\ thread' = [thread EXCEPT !.at = "gone"]
      /\ lane' = Told(FALSE)
      /\ homes' = homes /\ errands' = errands /\ wakes' = NoWakes
      /\ running' = running /\ waiting' = waiting /\ driving' = driving /\ lent' = lent
      /\ queue' = queue /\ script' = script
    BY DEF CloseCity, At, GoesTo, pool, desk
<1>2. /\ Shape'
      /\ \A q \in Runs : \/ Spot'[q] = Spot[q]
                         \/ Spot[q] \in InLane \ {"home"} /\ Spot'[q] \in InLane \ {"home"}
    BY <1>1, AnsweredLanes
<1>3. /\ thread' \in [at : Places, run : Runs \cup {NoRun}, draining : BOOLEAN]
      /\ thread'.at = "gone"
    BY <1>1 DEF IInv, Types, Places
<1>4. Lander' = Lander /\ Lander = NoRun
    BY <1>1, <1>3 DEF Lander
<1>5. /\ wakes' = [relays |-> wakes'.relays, arrivals |-> wakes'.arrivals,
                   answers |-> wakes'.answers]
      /\ wakes'.relays = <<>> /\ wakes'.arrivals = <<>> /\ wakes'.answers = 0
    BY <1>1 DEF NoWakes
<1>6. Types'
    BY <1>1, <1>3, <1>4, <1>5 DEF IInv, Types
<1>7. Tables' /\ Loans'
  <2>1. \A q \in Runs : \/ Spot'[q] = Spot[q]
                        \/ Spot[q] \in InLane \ {"home"} /\ Spot'[q] \in InLane
      BY <1>2
  <2> QED
      BY <2>1, <1>1, <1>4, LanesMove DEF IInv, Types
<1>8. Drained'
  <2>1. \A q \in Runs : \/ Spot'[q] = Spot[q]
                        \/ Spot[q] \in Busy /\ Spot'[q] # "unlanded"
      BY <1>2 DEF Busy, InLane
  <2>2. thread.at \in Closed
      BY <1>1 DEF Closed
  <2> QED
      BY <2>1, <2>2, <1>1, StaysDrained DEF IInv
<1>9. Homes'
  <2>1. /\ homes \in Seq(Runs) /\ wakes.arrivals \in Seq(Runs) /\ Once(Found)
        /\ Found = homes \o wakes.arrivals
      BY DEF IInv, Homes, Found
  <2>2. Once(homes) /\ ToSet(homes) \subseteq ToSet(Found) /\ ToSet(homes) \subseteq Runs
      BY <2>1, OncePrefix, ToSetConcat, ElementOf
  <2>3. homes' \o <<>> = homes'
      BY <2>1, <1>1
  <2>4. Found' = homes
      BY <2>3, <1>1, <1>5 DEF Found
  <2>5. \A q \in Runs : Spot[q] = "home" => Spot'[q] = "home"
      BY <1>2
  <2>6. \A q \in ToSet(homes) : Spot'[q] = "home" /\ q # Lander'
      BY <2>2, <2>5, <1>4 DEF IInv, Homes
  <2> QED
      BY <2>1, <2>2, <2>4, <2>5, <2>6, <1>1, <1>4, <1>5 DEF IInv, Homes
<1>10. Askers' = {}
    BY <1>5 DEF Askers, Relayed
<1> QED
    BY <1>2, <1>6, <1>7, <1>8, <1>9, <1>10 DEF IInv, Asking

LEMMA ArriveStep == IInv /\ Arrive => IInv'
<1> SUFFICES ASSUME IInv, Arrive PROVE IInv'
    OBVIOUS
<1>1. /\ thread.at = "land" /\ waiting' = waiting /\ lent' = lent /\ lane' = lane
      /\ wakes' = wakes /\ errands' = errands /\ queue' = queue /\ script' = script
    BY DEF Arrive, At, desk
<1>2. Spot' = Spot /\ Shape' /\ Askers' = Askers
    BY <1>1 DEF IInv, Shape, Spot, Askers, Relayed
<1>3. /\ wakes' = [relays |-> wakes.relays, arrivals |-> wakes.arrivals,
                   answers |-> wakes'.answers]
      /\ wakes'.answers \in Nat /\ errands' \in Nat /\ wakes'.answers <= errands'
      /\ queue' \in Seq(Commands) /\ script' \in Seq(Commands)
    BY <1>1 DEF IInv, Types
<1>4. Lander = NoRun
    BY <1>1 DEF Lander
<1>5. CASE homes = <<>>
  <2>1. /\ thread' = [thread EXCEPT !.at = Looked] /\ homes' = homes
        /\ running' = running /\ driving' = driving
      BY <1>5 DEF Arrive, GoesTo
  <2>2. /\ thread' \in [at : Places, run : Runs \cup {NoRun}, draining : BOOLEAN]
        /\ thread'.at \in {"drain", "desk"}
      BY <2>1 DEF IInv, Types, Places, Looked
  <2>3. Lander' = Lander /\ thread'.at \notin Closed /\ thread'.at \notin {"starting", "landing"}
      BY <1>4, <2>2 DEF Lander, Closed
  <2> QED
      BY <2>1, <2>2, <2>3, <1>1, <1>3, NoRunMoves
<1>6. CASE homes # <<>>
  <2> DEFINE r == Head(homes)
  <2>1. /\ homes' = Tail(homes) /\ running' = running \ {r} /\ driving' = driving \ {r}
        /\ thread' = [thread EXCEPT !.at = "starting", !.run = r]
      BY <1>6 DEF Arrive
  <2>2. /\ homes \in Seq(Runs) /\ wakes.arrivals \in Seq(Runs) /\ Found \in Seq(Runs)
        /\ Once(Found)
      BY ToSetConcat DEF IInv, Homes, Found
  <2>3. Found # <<>> /\ Head(Found) = r /\ Tail(homes) \o wakes.arrivals = Tail(Found)
      BY <2>2, <1>6, TailConcat DEF Found
  <2>4. /\ r \in Runs /\ r \notin ToSet(Tail(Found)) /\ Once(Tail(Found))
        /\ ToSet(Found) = ToSet(Tail(Found)) \cup {r}
      BY <2>2, <2>3, OnceTail
  <2>5. Found' = Tail(Found) /\ homes' \in Seq(Runs) /\ wakes'.arrivals \in Seq(Runs)
    <3>1. Tail(homes) \in Seq(Runs)
        BY <2>2, <1>6
    <3>2. Found' = homes' \o wakes'.arrivals
        BY DEF Found
    <3>3. Found' = Tail(homes) \o wakes.arrivals
        BY <3>2, <2>1, <1>1
    <3> QED
        BY <3>1, <3>3, <2>1, <2>2, <2>3, <1>1
  <2> HIDE DEF r
  <2>6. Spot[r] = "home"
      BY <2>4 DEF IInv, Homes
  <2>7. /\ thread' \in [at : Places, run : Runs \cup {NoRun}, draining : BOOLEAN]
        /\ thread'.at = "starting" /\ Lander' = r
      BY <2>1, <2>4 DEF IInv, Types, Places, Lander
  <2>8. Types'
      BY <2>4, <2>7, <1>1, <1>3 DEF IInv, Types
  <2>9. Homes'
      BY <2>4, <2>5, <2>6, <2>7, <1>2 DEF IInv, Homes
  <2>10. Tables'
    <3>1. running' = {q \in Runs : Spot'[q] \in InLane /\ q # Lander'}
        BY <2>1, <2>7, <1>2, <1>4, AttendAssumption DEF IInv, Tables
    <3>2. r \notin ToSet(waiting)
        BY <2>6 DEF IInv, Tables
    <3>3. driving' = running' \cup ToSet(waiting')
        BY <3>2, <2>1, <1>1 DEF IInv, Tables
    <3> QED
        BY <3>1, <3>3, <2>7, <1>1, <1>2 DEF IInv, Tables
  <2>11. Loans'
    <3>1. \A m \in Rooms : lent[m] # NoRun => lent[m] \in driving \/ Spot[lent[m]] = "unstarted"
        BY <1>4 DEF IInv, Loans
    <3> QED
        BY <3>1, <2>1, <2>7, <1>1, <1>2 DEF Loans
  <2>12. Drained' /\ Asking'
      BY <2>7, <1>2 DEF IInv, Drained, Closed, Asking
  <2> QED
      BY <1>2, <2>8, <2>9, <2>10, <2>11, <2>12 DEF IInv
<1> QED
    BY <1>5, <1>6

(* The drives that waited start one by one, or are taken off the table.    *)
LEMMA StartWaitingStep == IInv /\ StartWaiting => IInv'
<1> SUFFICES ASSUME IInv, StartWaiting PROVE IInv'
    OBVIOUS
<1>1. /\ thread.at = "starting" /\ wakes' = wakes /\ homes' = homes /\ lent' = lent
      /\ errands' = errands /\ queue' = queue /\ script' = script
    BY DEF StartWaiting, At, desk
<1>2. /\ wakes' = [relays |-> wakes.relays, arrivals |-> wakes.arrivals,
                   answers |-> wakes'.answers]
      /\ wakes'.answers \in Nat /\ errands' \in Nat /\ wakes'.answers <= errands'
      /\ queue' \in Seq(Commands) /\ script' \in Seq(Commands)
    BY <1>1 DEF IInv, Types
<1>3. Lander \in Runs /\ Found' = Found /\ Askers' = Askers
    BY <1>1, SameFound DEF IInv, Types, Askers, Relayed
<1>4. CASE /\ waiting = <<>> \/ MayBeFull
           /\ thread' = [thread EXCEPT !.at = "landing"] /\ running' = running
           /\ waiting' = waiting /\ driving' = driving /\ lane' = lane
  <2>1. /\ thread' \in [at : Places, run : Runs \cup {NoRun}, draining : BOOLEAN]
        /\ thread'.at = "landing" /\ thread'.run = thread.run
      BY <1>4 DEF IInv, Types, Places
  <2>2. Lander' = Lander /\ Spot' = Spot /\ Shape'
      BY <2>1, <1>1, <1>4 DEF Lander, Spot, IInv, Shape
  <2>3. Types'
      BY <2>1, <2>2, <1>1, <1>2, <1>3 DEF IInv, Types
  <2>4. Tables'
      BY <2>1, <2>2, <1>4 DEF IInv, Tables, MayBeFull
  <2>5. Homes'
      BY <2>2, <1>1, <1>3, SameHomes DEF IInv, Homes
  <2>6. Loans' /\ Asking'
      BY <2>2, <1>1, <1>3, <1>4 DEF IInv, Loans, Asking
  <2>7. Drained'
      BY <2>1 DEF Drained, Closed
  <2> QED
      BY <2>2, <2>3, <2>4, <2>5, <2>6, <2>7 DEF IInv
<1>5. CASE waiting # <<>> /\ waiting' = Tail(waiting) /\ thread' = thread
  <2> DEFINE r == Head(waiting)
  <2>1. \/ /\ running' = running \cup {r} /\ driving' = driving
           /\ lane' = [lane EXCEPT ![r].at = "driving"]
        \/ /\ running' = running /\ driving' = driving \ {r}
           /\ lane' = [lane EXCEPT ![r].at = "unstarted"]
      BY <1>5 DEF StartWaiting, GoesTo
  <2>2. /\ r \in Runs /\ r \notin ToSet(Tail(waiting)) /\ Once(Tail(waiting))
        /\ Tail(waiting) \in Seq(Runs) /\ ToSet(waiting) = ToSet(Tail(waiting)) \cup {r}
      BY <1>5, OnceTail DEF IInv, Tables
  <2> HIDE DEF r
  <2>3. Spot[r] = "waiting" /\ r \notin running /\ r # Lander
      BY <2>2 DEF IInv, Tables, Homes, InLane
  <2>4. PICK p \in {"driving", "unstarted"} :
            /\ lane' = [lane EXCEPT ![r].at = p]
            /\ running' = IF p = "driving" THEN running \cup {r} ELSE running
            /\ driving' = IF p = "driving" THEN driving ELSE driving \ {r}
      BY <2>1
  <2>5. Shape' /\ Spot' = [Spot EXCEPT ![r] = p]
      BY <2>2, <2>4, LaneGoes DEF IInv
  <2>6. Spot'[r] = p /\ \A q \in Runs \ {r} : Spot'[q] = Spot[q]
      BY <2>2, <2>5 DEF Spot
  <2>7. Lander' = Lander /\ thread'.at = "starting"
      BY <1>1, <1>5, SameLander
  <2>8. Types'
      BY <2>7, <1>1, <1>2, <1>3, <1>5 DEF IInv, Types
  <2>9. Tables'
    <3>1. running' = {q \in Runs : Spot'[q] \in InLane /\ q # Lander'}
      <4>1. p \in InLane <=> p = "driving"
          BY DEF InLane
      <4> QED
          BY <4>1, <2>2, <2>3, <2>4, <2>6, <2>7 DEF IInv, Tables
    <3>2. ToSet(waiting') = {q \in Runs : Spot'[q] = "waiting"}
        BY <2>2, <2>6, <1>5 DEF IInv, Tables
    <3>3. driving' = running' \cup ToSet(waiting')
        BY <2>2, <2>3, <2>4, <1>5 DEF IInv, Tables
    <3> QED
        BY <3>1, <3>2, <3>3, <2>2, <2>7, <1>5 DEF Tables
  <2>10. Homes'
      BY <2>3, <2>6, <2>7, <1>1, <1>3, SameHomes DEF IInv, Homes
  <2>11. Loans'
    <3> SUFFICES ASSUME NEW m \in Rooms, lent[m] # NoRun
                 PROVE  lent[m] \in driving' \/ lent[m] = Lander' \/ Spot'[lent[m]] = "unstarted"
        BY <1>1 DEF Loans
    <3>1. lent[m] \in Runs
        BY DEF IInv, Types
    <3>2. lent[m] \in driving \/ lent[m] = Lander \/ Spot[lent[m]] = "unstarted"
        BY DEF IInv, Loans
    <3> QED
        BY <3>1, <3>2, <2>3, <2>4, <2>6, <2>7
  <2>12. Asking'
      BY <2>3, <2>6, <1>3 DEF IInv, Asking
  <2>13. Drained'
      BY <2>7 DEF Drained, Closed
  <2> QED
      BY <2>5, <2>8, <2>9, <2>10, <2>11, <2>12, <2>13 DEF IInv
<1> QED
    BY <1>4, <1>5 DEF StartWaiting, GoesTo

(* A landing gives back what its run borrowed, also when it fails.         *)
LEMMA LandStep == IInv /\ Land => IInv'
<1> SUFFICES ASSUME IInv, Land PROVE IInv'
    OBVIOUS
<1> DEFINE r == thread.run
<1>1. /\ thread.at = "landing" /\ lent' = Returned(r)
      /\ \/ /\ lane' = [lane EXCEPT ![r].at = "landed"]
            /\ thread' = [thread EXCEPT !.at = "heirs"]
         \/ /\ lane' = [lane EXCEPT ![r].at = "unlanded"]
            /\ thread' = [thread EXCEPT !.at = AfterFailedLanding]
      /\ wakes' = wakes /\ homes' = homes /\ running' = running /\ waiting' = waiting
      /\ driving' = driving /\ errands' = errands /\ queue' = queue /\ script' = script
    BY DEF Land, At, GoesTo, desk
<1>2. r = Lander /\ r \in Runs
    BY <1>1 DEF Lander, IInv, Types
<1>3. /\ wakes' = [relays |-> wakes.relays, arrivals |-> wakes.arrivals,
                   answers |-> wakes'.answers]
      /\ wakes'.answers \in Nat /\ errands' \in Nat /\ wakes'.answers <= errands'
      /\ queue' \in Seq(Commands) /\ script' \in Seq(Commands)
    BY <1>1 DEF IInv, Types
<1>4. Found' = Found /\ Askers' = Askers
    BY <1>1, SameFound DEF Askers, Relayed
<1>5. PICK p \in {"landed", "unlanded"} :
        /\ lane' = [lane EXCEPT ![r].at = p]
        /\ thread' = [thread EXCEPT !.at = IF p = "landed" THEN "heirs" ELSE AfterFailedLanding]
    BY <1>1
<1>6. Shape' /\ Spot' = [Spot EXCEPT ![r] = p]
    BY <1>2, <1>5, LaneGoes DEF IInv
<1>7. Spot[r] = "home" /\ Spot'[r] = p /\ \A q \in Runs \ {r} : Spot'[q] = Spot[q]
    BY <1>2, <1>6 DEF Spot, IInv, Homes
<1>8. /\ thread' \in [at : Places, run : Runs \cup {NoRun}, draining : BOOLEAN]
      /\ thread'.at \in {"heirs", "handoff", "desk"} /\ (p = "landed" => thread'.at = "heirs")
    BY <1>5 DEF IInv, Types, Places, AfterFailedLanding
<1>9. Lander' = NoRun /\ NoRun \notin Runs
    BY <1>8, AttendAssumption DEF Lander
<1> HIDE DEF r
<1>10. /\ lent' \in [Rooms -> Runs \cup {NoRun}]
       /\ \A m \in Rooms : lent'[m] # NoRun => lent'[m] = lent[m] /\ lent[m] # r
    BY <1>1 DEF IInv, Types, Returned
<1>11. Types'
    BY <1>3, <1>1, <1>8, <1>9, <1>10 DEF IInv, Types
<1>12. Tables'
  <2>1. running' = {q \in Runs : Spot'[q] \in InLane /\ q # Lander'}
      BY <1>1, <1>2, <1>7, <1>9 DEF IInv, Tables, InLane
  <2>2. ToSet(waiting') = {q \in Runs : Spot'[q] = "waiting"}
      BY <1>1, <1>2, <1>7 DEF IInv, Tables
  <2> QED
      BY <2>1, <2>2, <1>1 DEF IInv, Tables
<1>13. Homes'
  <2>1. ToSet(Found) \subseteq Runs /\ homes \in Seq(Runs) /\ wakes.arrivals \in Seq(Runs)
      BY ToSetConcat, ElementOf DEF IInv, Homes, Found
  <2>2. \A q \in ToSet(Found) : q # r /\ Spot[q] = "home"
      BY <1>2 DEF IInv, Homes
  <2>3. \A q \in ToSet(Found) : Spot'[q] = "home" /\ q # Lander'
      BY <2>1, <2>2, <1>7, <1>9
  <2> QED
      BY <2>1, <2>3, <1>1, <1>4, <1>9 DEF IInv, Homes
<1>14. Loans'
  <2> SUFFICES ASSUME NEW m \in Rooms, lent'[m] # NoRun
               PROVE  lent'[m] \in driving' \/ lent'[m] = Lander' \/ Spot'[lent'[m]] = "unstarted"
      BY DEF Loans
  <2>1. lent'[m] = lent[m] /\ lent[m] # r /\ lent[m] \in Runs
      BY <1>10 DEF IInv, Types
  <2>2. lent[m] \in driving \/ Spot[lent[m]] = "unstarted"
      BY <2>1, <1>2 DEF IInv, Loans
  <2> QED
      BY <2>1, <2>2, <1>1, <1>7
<1>15. Asking'
    BY <1>4, <1>7 DEF IInv, Asking
<1>16. Drained'
  <2>1. CASE p = "landed"
      BY <2>1, <1>8 DEF Drained, Closed
  <2>2. CASE p = "unlanded"
      BY <2>2, <1>2, <1>7 DEF Drained
  <2> QED
      BY <2>1, <2>2
<1> QED
    BY <1>6, <1>11, <1>12, <1>13, <1>14, <1>15, <1>16 DEF IInv

(***************************************************************************)
(* A run enters a lane.                                                    *)
(***************************************************************************)
(* A thread that lands nobody, before and after the step, and does not     *)
(* close.                                                                  *)
Looking ==
    /\ thread.at \in {"heirs", "desk"}
    /\ thread' \in [at : Places, run : Runs \cup {NoRun}, draining : BOOLEAN]
    /\ thread'.at \in {"serve", "drain", "desk"}

LEMMA LookingLands == Looking => /\ Lander = NoRun /\ Lander' = NoRun
                                 /\ thread'.at \notin Closed
    BY DEF Looking, Lander, Closed

(* What a new run does to the pool: it drives, it waits behind one that    *)
(* does, or it is refused, before its loan or after.                       *)
LEMMA EnterStep ==
    ASSUME IInv, Looking, NEW r \in Runs, Enter(r) \/ RefuseDispatch(r),
           wakes' = wakes, homes' = homes, errands' = errands,
           queue' \in Seq(Commands), script' \in Seq(Commands)
    PROVE  IInv'
<1>1. PICK p \in {"driving", "waiting", "unstarted"} :
        /\ lane[r].at = "new" /\ lane' = [lane EXCEPT ![r].at = p]
        /\ p = "unstarted" => running' = running /\ waiting' = waiting /\ driving' = driving
        /\ p = "driving" => /\ running' = running \cup {r} /\ waiting' = waiting
                            /\ driving' = driving \cup {r}
        /\ p = "waiting" => /\ running # {} /\ running' = running
                            /\ waiting' = Append(waiting, r) /\ driving' = driving \cup {r}
    BY DEF Enter, RefuseDispatch, MayBeFull, pool
<1>2. lent' = Lend(r) \/ lent' = lent
    BY DEF Enter, RefuseDispatch, pool
<1>3. /\ lent' \in [Rooms -> Runs \cup {NoRun}]
      /\ \A m \in Rooms : lent'[m] = lent[m] \/ lent'[m] = r
    BY <1>2, AttendAssumption DEF Lend, IInv, Types
<1>4. Shape' /\ Spot' = [Spot EXCEPT ![r] = p]
    BY <1>1, LaneGoes DEF IInv
<1>5. Spot[r] = "new" /\ Spot'[r] = p /\ \A q \in Runs \ {r} : Spot'[q] = Spot[q]
    BY <1>1, <1>4 DEF Spot
<1>6. /\ Lander = NoRun /\ Lander' = NoRun /\ thread'.at \notin Closed /\ NoRun \notin Runs
      /\ thread.at # "starting"
    BY LookingLands, AttendAssumption DEF Looking
<1>7. Found' = Found /\ Askers' = Askers
    BY SameFound DEF Askers, Relayed
<1>8. Types'
    BY <1>3, <1>6 DEF IInv, Types, Looking
<1>9. Tables'
  <2>1. /\ waiting \in Seq(Runs) /\ Once(waiting) /\ r \notin ToSet(waiting)
        /\ ToSet(waiting) = {q \in Runs : Spot[q] = "waiting"}
        /\ running = {q \in Runs : Spot[q] \in InLane} /\ driving = running \cup ToSet(waiting)
        /\ waiting # <<>> => running # {}
      BY <1>5, <1>6 DEF IInv, Tables
  <2>2. CASE p = "driving"
    <3>1. running' = {q \in Runs : Spot'[q] \in InLane /\ q # Lander'}
        BY <2>1, <2>2, <1>1, <1>5, <1>6 DEF InLane
    <3> QED
        BY <3>1, <2>1, <2>2, <1>1, <1>5 DEF Tables
  <2>3. CASE p = "waiting"
    <3>1. /\ waiting' \in Seq(Runs) /\ Once(waiting')
          /\ ToSet(waiting') = ToSet(waiting) \cup {r}
      <4>1. waiting' = Append(waiting, r)
          BY <2>3, <1>1
      <4>2. Once(Append(waiting, r))
          BY <2>1, OnceAppend
      <4>3. /\ Append(waiting, r) \in Seq(Runs)
            /\ ToSet(Append(waiting, r)) = ToSet(waiting) \cup {r}
          BY <2>1, ToSetAppend
      <4> QED
          BY <4>1, <4>2, <4>3
    <3>2. running' = {q \in Runs : Spot'[q] \in InLane /\ q # Lander'}
        BY <2>1, <2>3, <1>1, <1>5, <1>6 DEF InLane
    <3> QED
        BY <3>1, <3>2, <2>1, <2>3, <1>1, <1>5 DEF Tables
  <2>4. CASE p = "unstarted"
    <3>1. running' = {q \in Runs : Spot'[q] \in InLane /\ q # Lander'}
        BY <2>1, <2>4, <1>1, <1>5, <1>6 DEF InLane
    <3> QED
        BY <3>1, <2>1, <2>4, <1>1, <1>5 DEF Tables
  <2> QED
      BY <2>2, <2>3, <2>4
<1>10. Homes'
    BY <1>5, <1>6, <1>7, SameHomes DEF IInv, Homes
<1>11. Loans'
  <2> SUFFICES ASSUME NEW m \in Rooms, lent'[m] # NoRun
               PROVE  lent'[m] \in driving' \/ Spot'[lent'[m]] = "unstarted"
      BY DEF Loans
  <2>1. CASE lent'[m] = r
      BY <2>1, <1>1, <1>5
  <2>2. CASE lent'[m] # r
    <3>1. lent'[m] = lent[m] /\ lent[m] \in Runs
        BY <2>2, <1>3 DEF IInv, Types
    <3>2. lent[m] \in driving \/ Spot[lent[m]] = "unstarted"
        BY <3>1, <1>6 DEF IInv, Loans
    <3> QED
        BY <3>1, <3>2, <2>2, <1>1, <1>5
  <2> QED
      BY <2>1, <2>2
<1>12. Asking'
    BY <1>5, <1>7 DEF IInv, Asking
<1>13. Drained'
    BY <1>6 DEF Drained
<1> QED
    BY <1>4, <1>8, <1>9, <1>10, <1>11, <1>12, <1>13 DEF IInv

(* A look that starts nobody.                                              *)
LEMMA NobodyEnters ==
    ASSUME IInv, Looking, UNCHANGED <<pool, lane>>, wakes' = wakes, homes' = homes,
           errands' \in Nat, errands' >= errands,
           queue' \in Seq(Commands), script' \in Seq(Commands)
    PROVE  IInv'
<1>1. /\ running' = running /\ waiting' = waiting /\ driving' = driving /\ lent' = lent
      /\ lane' = lane
    BY DEF pool
<1>2. /\ wakes' = [relays |-> wakes.relays, arrivals |-> wakes.arrivals,
                   answers |-> wakes'.answers]
      /\ wakes'.answers \in Nat /\ wakes'.answers <= errands'
    BY DEF IInv, Types
<1>3. /\ Lander' = Lander /\ thread'.at \notin Closed /\ thread.at # "starting"
      /\ thread'.at \notin {"starting", "landing"}
    BY LookingLands DEF Looking
<1>4. thread' \in [at : Places, run : Runs \cup {NoRun}, draining : BOOLEAN]
    BY DEF Looking
<1> QED
    BY <1>1, <1>2, <1>3, <1>4, NoRunMoves

LEMMA StartHeirsStep == IInv /\ StartHeirs => IInv'
<1> SUFFICES ASSUME IInv, StartHeirs PROVE IInv'
    OBVIOUS
<1>1. /\ thread.at = "heirs" /\ thread' = [thread EXCEPT !.at = Looked]
      /\ wakes' = wakes /\ homes' = homes /\ errands' = errands /\ queue' = queue
      /\ script' = script
      /\ UNCHANGED <<pool, lane>> \/ \E r \in Heirs : Enter(r)
    BY DEF StartHeirs, At, GoesTo, desk
<1>2. Looking
    BY <1>1 DEF Looking, Looked, IInv, Types, Places
<1>3. /\ queue' \in Seq(Commands) /\ script' \in Seq(Commands)
      /\ errands' \in Nat /\ errands' >= errands
    BY <1>1 DEF IInv, Types
<1>4. CASE \E r \in Heirs : Enter(r)
  <2>1. PICK r \in Heirs : Enter(r)
      BY <1>4
  <2>2. r \in Runs
      BY AttendAssumption
  <2> QED
      BY <2>1, <2>2, <1>1, <1>2, <1>3, EnterStep
<1> QED
    BY <1>1, <1>2, <1>3, <1>4, NobodyEnters

LEMMA TakeCommandStep == IInv /\ TakeCommand => IInv'
<1> SUFFICES ASSUME IInv, TakeCommand PROVE IInv'
    OBVIOUS
<1>1. PICK i \in DOMAIN queue :
        /\ queue' = RemoveAt(queue, i)
        /\ \/ /\ queue[i].verb = "dispatch" /\ errands' = errands
              /\ Enter(queue[i].run) \/ RefuseDispatch(queue[i].run)
           \/ /\ UNCHANGED <<pool, lane>>
              /\ errands' = errands + 1 \/ errands' = errands
    BY DEF TakeCommand
<1>2. /\ thread.at = "desk" /\ thread' = [thread EXCEPT !.at = "serve"]
      /\ wakes' = wakes /\ homes' = homes /\ script' = script
    BY DEF TakeCommand, At, GoesTo
<1>3. Looking
    BY <1>2 DEF Looking, IInv, Types, Places
<1>4. queue[i] \in Commands /\ queue' \in Seq(Commands) /\ script' \in Seq(Commands)
    BY <1>1, <1>2, RemoveAtSeq, ElementOf DEF IInv, Types
<1>5. CASE /\ queue[i].verb = "dispatch" /\ errands' = errands
           /\ Enter(queue[i].run) \/ RefuseDispatch(queue[i].run)
  <2>1. queue[i].run \in Runs
      BY <1>4, <1>5, AttendAssumption
  <2> QED
      BY <2>1, <1>2, <1>3, <1>4, <1>5, EnterStep
<1>6. CASE UNCHANGED <<pool, lane>> /\ (errands' = errands + 1 \/ errands' = errands)
  <2>1. errands' \in Nat /\ errands' >= errands
      BY <1>6 DEF IInv, Types
  <2> QED
      BY <2>1, <1>2, <1>3, <1>4, <1>6, NobodyEnters
<1> QED
    BY <1>1, <1>5, <1>6

(***************************************************************************)
(* The theorems.                                                           *)
(***************************************************************************)
LEMMA NextStep == IInv /\ [Next]_vars => IInv'
<1> SUFFICES ASSUME IInv, [Next]_vars PROVE IInv'
    OBVIOUS
<1>1. CASE Thread
    BY <1>1, ServeStep, ArriveStep, StartWaitingStep, LandStep, StartHeirsStep, TakeCommandStep,
       IdleStep, LandTheRestStep, CloseCityStep DEF Thread
<1>2. CASE \E r \in Runs : Lane(r) \/ ComeHome(r)
    BY <1>2, AskStep, AskRefusedStep, SafePointStep, ComeHomeStep DEF Lane
<1>3. CASE Answer \/ Post
    BY <1>3, AnswerStep, PostStep
<1>4. CASE (\E e \in Events : Reaches(e)) \/ Joined \/ Deadline
  <2>1. UNCHANGED <<thread, wakes, homes, pool, lane, queue, script, errands>>
      BY <1>4 DEF Reaches, Joined, Deadline, Carried
  <2> QED
      BY <2>1, StillStep
<1>5. CASE UNCHANGED vars
  <2>1. UNCHANGED <<thread, wakes, homes, pool, lane, queue, script, errands>>
      BY <1>5 DEF vars, desk
  <2> QED
      BY <2>1, StillStep
<1> QED
    BY <1>1, <1>2, <1>3, <1>4, <1>5 DEF Next

(* The city's table is the pool and its queue, and no drive waits while    *)
(* none is driving, whatever threads and landings are refused.             *)
THEOREM NobodyWaitsIdle == Spec => []NothingWaitsIdle
<1>1. IInv => NothingWaitsIdle
    BY DEF IInv, Tables, NothingWaitsIdle
<1> QED
    BY <1>1, InitHolds, NextStep, PTL DEF Spec

(* The queue of a room is out only with a run the city has, or with one    *)
(* refused after its loan.                                                 *)
THEOREM LoansReturn == Spec => []LoansComeBack
<1>1. IInv => LoansComeBack
  <2> SUFFICES ASSUME IInv, NEW m \in Rooms, lent[m] # NoRun
               PROVE  \/ lent[m] \in driving
                      \/ thread.run = lent[m] /\ thread.at \in {"starting", "landing"}
                      \/ lane[lent[m]].at = "unstarted"
      BY DEF LoansComeBack
  <2>1. lent[m] \in Runs
      BY DEF IInv, Types
  <2>2. lent[m] \in driving \/ lent[m] = Lander \/ Spot[lent[m]] = "unstarted"
      BY DEF IInv, Loans
  <2> QED
      BY <2>1, <2>2 DEF Lander, Spot
<1> QED
    BY <1>1, InitHolds, NextStep, PTL DEF Spec

(* The handoff is written after every run under way was landed and every   *)
(* provider request recorded, unless a landing failed.                     *)
THEOREM CloseIsDrained == Spec => []DrainedFirst
<1>1. IInv => DrainedFirst
  <2> SUFFICES ASSUME IInv, thread.at \in {"handoff", "gone"}
               PROVE  (UnderWay = {} /\ errands = 0) \/ \E r \in Runs : lane[r].at = "unlanded"
      BY DEF DrainedFirst
  <2>1. \/ (\A r \in Runs : Spot[r] \notin Busy) /\ errands = 0
        \/ \E r \in Runs : Spot[r] = "unlanded"
      BY DEF IInv, Drained, Closed
  <2> QED
      BY <2>1 DEF Spot, Busy, InLane, UnderWay
<1> QED
    BY <1>1, InitHolds, NextStep, PTL DEF Spec

(***************************************************************************)
(* The refs.  A batch reads a sequence of sequences as one: induction and  *)
(* recursion over its places come first.                                   *)
(***************************************************************************)
(* A nonempty set of naturals has a smallest element.                      *)
LEMMA FirstPlace ==
    ASSUME NEW S \in SUBSET Nat, S # {}
    PROVE  \E i \in S : \A j \in S : i <= j
<1> DEFINE R == OpToRel(<, Nat)
<1>1. R = {ss \in Nat \X Nat : ss[1] < ss[2]} BY Zenon DEF OpToRel
<1>2. IsWellFoundedOn(R, Nat) BY NatLessThanWellFounded, Zenon
<1> HIDE DEF R
<1>3. \E x \in S : \A y \in S : ~(<<y, x>> \in R) BY <1>2, WFMin
<1>4. \A x, y \in Nat : y < x => <<y, x>> \in R BY <1>1, Zenon
<1>5. PICK x \in S : \A y \in S : ~(<<y, x>> \in R) BY <1>3
<1>6. \A y \in S : ~(y < x) BY <1>4, <1>5
<1>7. QED BY <1>6

(* Induction up to N, for the set of the numbers it is shown for.          *)
LEMMA UpTo ==
    ASSUME NEW N \in Nat, NEW S, 0 \in S, \A n \in 1 .. N : n - 1 \in S => n \in S
    PROVE  N \in S
<1> DEFINE Bad == {n \in 0 .. N : n \notin S}
<1>1. SUFFICES ASSUME Bad # {} PROVE FALSE OBVIOUS
<1>2. Bad \in SUBSET Nat OBVIOUS
<1>3. PICK k \in Bad : \A j \in Bad : k <= j
    <2> HIDE DEF Bad
    <2> QED BY <1>1, <1>2, FirstPlace
<1>4. k \in 1 .. N /\ k - 1 \in 0 .. N BY <1>3
<1>5. k - 1 \notin Bad BY <1>3, <1>4
<1>6. k - 1 \in S BY <1>4, <1>5
<1>7. QED BY <1>3, <1>4, <1>6

(* A recursion over 0 .. N has a function.                                 *)
Recurs(f, W, N, a, step) ==
    f \in [0 .. N -> W] /\ f[0] = a /\ \A n \in 1 .. N : f[n] = step[<<f[n - 1], n>>]

LEMMA Recursion ==
    ASSUME NEW W, NEW N, NEW a, NEW step,
           N \in Nat, a \in W, step \in [W \X (1 .. N) -> W]
    PROVE  \E f : Recurs(f, W, N, a, step)
<1> DEFINE Good(k, f) == f \in [0 .. k -> W] /\ f[0] = a /\ \A n \in 1 .. k : f[n] = step[<<f[n - 1], n>>]
           S == {k \in 0 .. N : \E f : Good(k, f)}
<1>1. Good(0, [i \in 0 .. 0 |-> a]) OBVIOUS
<1>2. 0 \in S
    <2> HIDE DEF Good
    <2> QED BY <1>1
<1>3. ASSUME NEW k \in 1 .. N, k - 1 \in S PROVE k \in S
    <2>1. PICK f : Good(k - 1, f) BY <1>3
    <2> DEFINE g == [i \in 0 .. k |-> IF i = k THEN step[<<f[k - 1], k>>] ELSE f[i]]
    <2>2. f[k - 1] \in W BY <2>1
    <2>3. step[<<f[k - 1], k>>] \in W BY <2>2
    <2>4. \A i \in 0 .. k : i # k => i \in 0 .. (k - 1) OBVIOUS
    <2>5. g \in [0 .. k -> W] BY <2>1, <2>3, <2>4
    <2>6. g[0] = a BY <2>1
    <2>7. ASSUME NEW n \in 1 .. k PROVE g[n] = step[<<g[n - 1], n>>]
        <3>1. n - 1 \in 0 .. k /\ n - 1 # k /\ g[n - 1] = f[n - 1] OBVIOUS
        <3>2. CASE n = k BY <3>1, <3>2
        <3>3. CASE n # k
            <4>1. n \in 1 .. (k - 1) BY <3>3
            <4>2. f[n] = step[<<f[n - 1], n>>] BY <4>1, <2>1
            <4>3. g[n] = f[n] BY <3>3
            <4>4. QED BY <4>2, <4>3, <3>1
        <3>4. QED BY <3>2, <3>3
    <2>8. Good(k, g) BY <2>5, <2>6, <2>7
    <2> HIDE DEF Good
    <2>9. QED BY <2>8
<1>4. N \in S
    <2> HIDE DEF S
    <2> QED BY <1>2, <1>3, UpTo
<1>5. QED BY <1>4 DEF Recurs

(* What is flat of a sequence of sequences after each of them.             *)
Flats(S, ss, g) ==
    /\ g \in [0 .. Len(ss) -> Seq(S)] /\ g[0] = <<>>
    /\ \A n \in 1 .. Len(ss) : g[n] = g[n - 1] \o ss[n]

LEMMA NothingBefore ==
    ASSUME NEW S, NEW s \in Seq(S)
    PROVE  <<>> \o s = s /\ <<>> \in Seq(S)
BY ConcatEmptySeq

LEMMA Flattens ==
    ASSUME NEW S, NEW ss \in Seq(Seq(S))
    PROVE  \E g : Flats(S, ss, g) /\ FlattenSeq(ss) = g[Len(ss)]
<1> DEFINE N == Len(ss)
           step == [p \in Seq(S) \X (1 .. N) |-> p[1] \o ss[p[2]]]
           F(f) == f = [i \in 1 .. N |-> IF i = 1 THEN ss[i] ELSE f[i - 1] \o ss[i]]
           h == CHOOSE f : F(f)
<1>0. N \in Nat /\ (\A n \in 1 .. N : ss[n] \in Seq(S)) /\ <<>> \in Seq(S)
    OBVIOUS
<1>1. step \in [Seq(S) \X (1 .. N) -> Seq(S)]
  <2>1. ASSUME NEW p \in Seq(S) \X (1 .. N) PROVE p[1] \o ss[p[2]] \in Seq(S)
    <3>1. PICK x \in Seq(S), n \in 1 .. N : x = p[1] /\ n = p[2]
        OBVIOUS
    <3>2. PICK y \in Seq(S) : y = ss[n]
        BY <1>0
    <3> QED
        BY <3>1, <3>2
  <2> QED
      BY <2>1
<1>2. PICK g \in [0 .. N -> Seq(S)] : g[0] = <<>> /\ \A n \in 1 .. N : g[n] = step[<<g[n - 1], n>>]
  <2> HIDE DEF step, N
  <2>1. \E f : Recurs(f, Seq(S), N, <<>>, step)
      BY <1>0, <1>1, Recursion
  <2> QED
      BY <2>1 DEF Recurs
<1>3. ASSUME NEW n \in 1 .. N PROVE g[n] = g[n - 1] \o ss[n]
  <2>1. n - 1 \in 0 .. N
      BY <1>0
  <2>2. <<g[n - 1], n>> \in Seq(S) \X (1 .. N)
      BY <2>1
  <2> QED
      BY <1>2, <2>2
<1>4. \A n \in 1 .. N : g[n] = IF n = 1 THEN ss[n] ELSE g[n - 1] \o ss[n]
  <2>1. SUFFICES ASSUME 1 \in 1 .. N PROVE g[1] = ss[1]
      BY <1>3
  <2>2. <<>> \o ss[1] = ss[1]
      BY <1>0, <2>1, NothingBefore
  <2>3. g[1] = g[0] \o ss[1]
    <3>1. 1 - 1 = 0
        OBVIOUS
    <3> QED
        BY <1>3, <2>1, <3>1
  <2> QED
      BY <1>2, <2>2, <2>3
<1>a. PICK e : e = [n \in 1 .. N |-> g[n]]
    OBVIOUS
<1>5. F(e)
  <2>1. \A n \in 1 .. N : n # 1 => n - 1 \in 1 .. N
      BY <1>0
  <2>2. \A n \in 1 .. N : n # 1 => e[n - 1] = g[n - 1]
      BY <1>a, <2>1
  <2> QED
      BY <1>4, <1>a, <2>2
<1>6. F(h)
  <2> HIDE DEF N
  <2>1. \E f : F(f)
      BY <1>5
  <2> QED
      BY <2>1, Zenon
<1>7. \A n \in 0 .. N : n # 0 => h[n] = g[n]
  <2> DEFINE T == {n \in 0 .. N : n # 0 => h[n] = g[n]}
  <2> HIDE DEF h, N
  <2>1. h = [n \in 1 .. N |-> IF n = 1 THEN ss[n] ELSE h[n - 1] \o ss[n]]
      BY <1>6
  <2>2. 0 \in T
      BY <1>0
  <2>3. ASSUME NEW n \in 1 .. N, n - 1 \in T PROVE n \in T
    <3>1. n # 1 => h[n - 1] = g[n - 1]
        BY <1>0, <2>3
    <3>2. h[n] = IF n = 1 THEN ss[n] ELSE h[n - 1] \o ss[n]
        BY <2>1
    <3>3. g[n] = IF n = 1 THEN ss[n] ELSE g[n - 1] \o ss[n]
        BY <1>4
    <3>4. h[n] = g[n]
        BY <3>1, <3>2, <3>3, Zenon
    <3>5. n \in 0 .. N
        BY <1>0
    <3> QED
        BY <3>4, <3>5
  <2>4. ASSUME NEW m \in 0 .. N PROVE m \in T
    <3> HIDE DEF T
    <3>1. m \in Nat /\ \A n \in 1 .. m : n \in 1 .. N
        BY <1>0
    <3> QED
        BY <2>2, <2>3, <3>1, UpTo
  <2> QED
      BY <2>4
<1>8. FlattenSeq(ss) = g[N]
  <2>1. CASE N = 0
    <3>1. FlattenSeq(ss) = ss /\ ss = <<>>
        BY <2>1 DEF FlattenSeq
    <3> QED
        BY <1>2, <2>1, <3>1
  <2>2. CASE N # 0
    <3>1. FlattenSeq(ss) = h[N]
        BY <2>2 DEF FlattenSeq
    <3>2. N \in 0 .. N
        BY <1>0
    <3>3. h[N] = g[N]
      <4> HIDE DEF h, N
      <4> QED
          BY <1>7, <2>2, <3>2
    <3> QED
        BY <3>1, <3>3
  <2> QED
      BY <2>1, <2>2
<1> QED
    BY <1>2, <1>3, <1>8 DEF Flats

(* It depends only on what it has read.                                    *)
LEMMA FlatsAlike ==
    ASSUME NEW S, NEW ss, NEW tt, NEW g, NEW h, Flats(S, ss, g), Flats(S, tt, h),
           NEW m \in Nat, Len(ss) \in Nat, Len(tt) \in Nat, m <= Len(ss), m <= Len(tt),
           \A i \in 1 .. m : ss[i] = tt[i]
    PROVE  g[m] = h[m]
<1> DEFINE T == {n \in 0 .. m : g[n] = h[n]}
<1>1. 0 \in T
    BY DEF Flats
<1>2. ASSUME NEW n \in 1 .. m, n - 1 \in T PROVE n \in T
  <2>1. n \in 1 .. Len(ss) /\ n \in 1 .. Len(tt)
      OBVIOUS
  <2>2. g[n] = g[n - 1] \o ss[n] /\ h[n] = h[n - 1] \o tt[n]
      BY <2>1 DEF Flats
  <2>3. g[n - 1] = h[n - 1] /\ ss[n] = tt[n] /\ n \in 0 .. m
      BY <1>2
  <2>4. g[n] = h[n]
      BY <2>2, <2>3, Zenon
  <2> QED
      BY <2>3, <2>4
<1>3. m \in T
  <2> HIDE DEF T
  <2> QED
      BY <1>1, <1>2, UpTo
<1> QED
    BY <1>3

(* Where an element of the i-th sequence stands, and stays.                *)
LEMMA FlatsKeep ==
    ASSUME NEW S, NEW ss \in Seq(Seq(S)), NEW g, Flats(S, ss, g),
           NEW i \in 1 .. Len(ss), NEW k \in 1 .. Len(ss[i])
    PROVE  /\ Len(g[i - 1]) + k \in 1 .. Len(g[Len(ss)])
           /\ g[Len(ss)][Len(g[i - 1]) + k] = ss[i][k]
<1> DEFINE N == Len(ss)
<1>0. N \in Nat /\ \A n \in 1 .. N : ss[n] \in Seq(S)
    OBVIOUS
<1>1. g \in [0 .. N -> Seq(S)] /\ \A n \in 1 .. N : g[n] = g[n - 1] \o ss[n]
    BY DEF Flats
<1>a. ASSUME NEW n \in 1 .. N PROVE g[n - 1] \in Seq(S) /\ ss[n] \in Seq(S)
  <2>1. n - 1 \in 0 .. N
      BY <1>0
  <2> QED
      BY <1>0, <1>1, <2>1
<1>2. PICK a \in Seq(S), b \in Seq(S) : a = g[i - 1] /\ b = ss[i]
    BY <1>a, Zenon
<1>b. Len(a) \in Nat /\ Len(b) \in Nat /\ k \in 1 .. Len(b)
    BY <1>2
<1>3. PICK p \in Nat, l \in Nat : p = l + k /\ l = Len(a)
  <2>1. Len(a) + k \in Nat
      BY <1>b
  <2> QED
      BY <1>b, <2>1
<1> DEFINE T == {n \in 0 .. N : n >= i => p \in 1 .. Len(g[n]) /\ g[n][p] = b[k]}
<1>4. 0 \in T
    BY <1>0
<1>5. ASSUME NEW n \in 1 .. N, n - 1 \in T PROVE n \in T
  <2>1. PICK x \in Seq(S), y \in Seq(S) : x = g[n - 1] /\ y = ss[n]
      BY <1>a, Zenon
  <2>2. g[n] = x \o y
      BY <1>1, <2>1
  <2>3. /\ Len(x \o y) = Len(x) + Len(y) /\ Len(x) \in Nat /\ Len(y) \in Nat
        /\ \A j \in 1 .. Len(x) : (x \o y)[j] = x[j]
        /\ \A j \in 1 .. Len(y) : (x \o y)[Len(x) + j] = y[j]
    <3> HIDE DEF T, N
    <3>1. Len(x \o y) = Len(x) + Len(y) /\ Len(x) \in Nat /\ Len(y) \in Nat
        OBVIOUS
    <3>2. \A j \in 1 .. Len(x) : (x \o y)[j] = x[j]
        OBVIOUS
    <3>3. \A j \in 1 .. Len(y) : (x \o y)[Len(x) + j] = y[j]
        OBVIOUS
    <3> QED
        BY <3>1, <3>2, <3>3
  <2>4. CASE n < i
      BY <1>0, <2>4
  <2>5. CASE n = i
    <3>1. x = a /\ y = b /\ k \in 1 .. Len(y) /\ p = Len(x) + k
        BY <1>2, <1>3, <2>1, <2>5
    <3>2. p \in 1 .. Len(x \o y) /\ (x \o y)[p] = b[k]
        BY <1>3, <2>3, <3>1
    <3>3. n \in 0 .. N
        BY <1>0
    <3> QED
        BY <2>2, <3>2, <3>3
  <2>6. CASE n > i
    <3>1. p \in 1 .. Len(x) /\ x[p] = b[k]
        BY <1>0, <1>5, <2>1, <2>6
    <3>2. p \in 1 .. Len(x \o y) /\ (x \o y)[p] = b[k]
        BY <2>3, <3>1
    <3> QED
        BY <1>0, <2>2, <3>2
  <2> QED
      BY <1>0, <2>4, <2>5, <2>6
<1>6. N \in T
  <2> HIDE DEF T, N
  <2> QED
      BY <1>0, <1>4, <1>5, UpTo
<1> QED
    BY <1>2, <1>3, <1>6

(* The elements of the i-th sequence stand behind those before it.         *)
LEMMA FlattenPlace ==
    ASSUME NEW S, NEW ss \in Seq(Seq(S))
    PROVE  /\ FlattenSeq(ss) \in Seq(S)
           /\ \A i \in 1 .. Len(ss) : \A k \in 1 .. Len(ss[i]) :
               LET p == Len(FlattenSeq(SubSeq(ss, 1, i - 1))) + k
               IN  p \in 1 .. Len(FlattenSeq(ss)) /\ FlattenSeq(ss)[p] = ss[i][k]
<1>1. PICK g : Flats(S, ss, g) /\ FlattenSeq(ss) = g[Len(ss)]
    BY Flattens
<1>2. FlattenSeq(ss) \in Seq(S)
    BY <1>1 DEF Flats
<1>3. ASSUME NEW i \in 1 .. Len(ss), NEW k \in 1 .. Len(ss[i])
      PROVE  LET p == Len(FlattenSeq(SubSeq(ss, 1, i - 1))) + k
             IN  p \in 1 .. Len(FlattenSeq(ss)) /\ FlattenSeq(ss)[p] = ss[i][k]
  <2>1. SubSeq(ss, 1, i - 1) \in Seq(Seq(S))
      OBVIOUS
  <2>2. PICK tt \in Seq(Seq(S)) : tt = SubSeq(ss, 1, i - 1)
      BY <2>1, Zenon
  <2>3. Len(tt) = i - 1 /\ i - 1 \in Nat /\ i - 1 <= Len(ss) /\ \A j \in 1 .. i - 1 : ss[j] = tt[j]
      BY <2>2
  <2>4. PICK h : Flats(S, tt, h) /\ FlattenSeq(tt) = h[Len(tt)]
      BY Flattens
  <2>5. PICK m \in Nat : m = i - 1 /\ m = Len(tt)
      BY <2>3
  <2>6. g[m] = h[m]
    <3>1. Len(ss) \in Nat /\ Len(tt) \in Nat /\ m <= Len(ss) /\ m <= Len(tt) /\ \A j \in 1 .. m : ss[j] = tt[j]
        BY <2>3, <2>5
    <3> QED
        BY <1>1, <2>4, <3>1, FlatsAlike
  <2>7. /\ Len(g[i - 1]) + k \in 1 .. Len(g[Len(ss)])
        /\ g[Len(ss)][Len(g[i - 1]) + k] = ss[i][k]
      BY <1>1, FlatsKeep
  <2> QED
      BY <1>1, <2>2, <2>4, <2>5, <2>6, <2>7
<1> QED
    BY <1>2, <1>3

(* The lines of a batch are pairs, and each stands where RefsOf says.      *)
Pairs == (Runs \cup {NoRun}) \X Int

(* What each lane was told covers what it wrote, but for the request it    *)
(* waits on.                                                               *)
Fresh == {"new", "waiting", "driving"}
Counts ==
    /\ ledger \in Seq(Pairs)
    /\ \A r \in Runs : /\ lane[r].lines \in Nat /\ lane[r].refs \in Seq(Nat)
                       /\ Spot[r] \in Fresh => Len(lane[r].refs) = lane[r].lines
    /\ \A i \in DOMAIN Relayed :
        LET r == Relayed[i].run IN Len(lane[r].refs) + Relayed[i].n = lane[r].lines
RefsInv == Counts /\ RefsAreOwn

LEMMA DraftsPlace ==
    ASSUME IInv, Counts
    PROVE  /\ Drafts(Relayed) \in Seq(Pairs)
           /\ \A i \in DOMAIN Relayed : \A k \in 1 .. Relayed[i].n :
               LET p == Len(Drafts(SubSeq(Relayed, 1, i - 1))) + k
               IN  /\ p \in 1 .. Len(Drafts(Relayed))
                   /\ Drafts(Relayed)[p] = <<Relayed[i].run, lane[Relayed[i].run].lines - Relayed[i].n + k>>
           /\ \A i \in DOMAIN Relayed : Len(Drafts(SubSeq(Relayed, 1, i - 1))) \in Nat
<1> DEFINE Requests == [run : Runs, n : 1 .. MaxBatch]
           ss == [i \in DOMAIN Relayed |-> Lines(Relayed[i])]
<1>1. PICK q \in Seq(Requests) : q = Relayed
    BY DEF IInv, Types, Relayed
<1>2. Len(q) \in Nat /\ DOMAIN q = 1 .. Len(q) /\ (\A i \in 1 .. Len(q) : q[i] \in Requests) /\ MaxBatch \in Nat
  <2>1. MaxBatch \in Nat
      BY AttendAssumption
  <2> HIDE DEF Requests
  <2> QED
      BY <2>1
<1>3. ASSUME NEW w \in Requests
      PROVE  /\ Lines(w) \in Seq(Pairs) /\ Len(Lines(w)) = w.n
             /\ \A k \in 1 .. w.n : Lines(w)[k] = <<w.run, lane[w.run].lines - w.n + k>>
  <2>1. w.n \in Nat /\ w.run \in Runs /\ lane[w.run].lines \in Nat
      BY <1>2 DEF Counts
  <2>2. PICK n \in Nat, l \in Nat, r \in Runs : n = w.n /\ l = lane[w.run].lines /\ r = w.run
      BY <2>1
  <2>3. Lines(w) = [k \in 1 .. n |-> <<r, l - n + k>>]
      BY <2>2 DEF Lines
  <2>4. \A k \in 1 .. n : <<r, l - n + k>> \in Pairs
      BY <2>2 DEF Pairs
  <2> HIDE DEF Pairs
  <2>5. Lines(w) \in Seq(Pairs) /\ Len(Lines(w)) = n
    <3>1. PICK f : f = [k \in 1 .. n |-> <<r, l - n + k>>]
        OBVIOUS
    <3>2. f \in [1 .. n -> Pairs]
        BY <2>4, <3>1
    <3>3. f \in Seq(Pairs)
        BY <3>2, SeqDef
    <3>4. Len(f) = n
        BY <3>2, <3>3
    <3> QED
        BY <2>3, <3>1, <3>3, <3>4
  <2> QED
      BY <2>2, <2>3, <2>5
<1> HIDE DEF Requests, Pairs
<1>4. ss = [i \in 1 .. Len(q) |-> Lines(q[i])] /\ \A i \in 1 .. Len(q) : Lines(q[i]) \in Seq(Pairs)
    BY <1>1, <1>2, <1>3
<1> HIDE DEF ss
<1>5. ss \in Seq(Seq(Pairs)) /\ Len(ss) = Len(q)
    BY <1>2, <1>4
<1>6. PICK tt \in Seq(Seq(Pairs)) : tt = ss
    BY <1>5
<1>7. Drafts(Relayed) = FlattenSeq(tt)
    BY <1>6 DEF Drafts, ss
<1>8. ASSUME NEW i \in 1 .. Len(q) PROVE Drafts(SubSeq(Relayed, 1, i - 1)) = FlattenSeq(SubSeq(tt, 1, i - 1))
  <2>1. SubSeq(q, 1, i - 1) \in Seq(Requests)
      BY <1>2
  <2>2. PICK p \in Seq(Requests) : p = SubSeq(q, 1, i - 1)
      BY <2>1, Zenon
  <2>3. i - 1 \in Nat /\ Len(p) = i - 1 /\ \A j \in 1 .. i - 1 : p[j] = q[j] /\ j \in 1 .. Len(q)
      BY <1>2, <2>2
  <2>4. DOMAIN p = 1 .. i - 1
      BY <2>3
  <2>5. [j \in DOMAIN p |-> Lines(p[j])] = [j \in 1 .. i - 1 |-> Lines(q[j])]
      BY <2>3, <2>4
  <2>6. SubSeq(tt, 1, i - 1) = [j \in 1 .. i - 1 |-> Lines(q[j])]
    <3>1. /\ SubSeq(tt, 1, i - 1) \in Seq(Seq(Pairs)) /\ Len(SubSeq(tt, 1, i - 1)) = i - 1
          /\ \A j \in 1 .. i - 1 : SubSeq(tt, 1, i - 1)[j] = tt[j]
        BY <1>2, <1>5, <1>6, <2>3
    <3>2. PICK u \in Seq(Seq(Pairs)) : u = SubSeq(tt, 1, i - 1)
        BY <3>1, Zenon
    <3>3. \A j \in 1 .. i - 1 : u[j] = Lines(q[j])
        BY <1>4, <1>6, <2>3, <3>1, <3>2
    <3>4. u = [j \in 1 .. i - 1 |-> u[j]]
        BY <2>3, <3>1, <3>2
    <3> QED
        BY <3>2, <3>3, <3>4
  <2>7. Drafts(p) = FlattenSeq([j \in DOMAIN p |-> Lines(p[j])])
      BY DEF Drafts
  <2> QED
      BY <1>1, <2>2, <2>5, <2>6, <2>7
<1>9. /\ FlattenSeq(tt) \in Seq(Pairs)
      /\ \A i \in 1 .. Len(tt) : \A k \in 1 .. Len(tt[i]) :
           LET p == Len(FlattenSeq(SubSeq(tt, 1, i - 1))) + k
           IN  p \in 1 .. Len(FlattenSeq(tt)) /\ FlattenSeq(tt)[p] = tt[i][k]
    BY FlattenPlace
<1>10. ASSUME NEW i \in 1 .. Len(q)
       PROVE  /\ Len(Drafts(SubSeq(Relayed, 1, i - 1))) \in Nat
              /\ \A k \in 1 .. Relayed[i].n :
                   LET p == Len(Drafts(SubSeq(Relayed, 1, i - 1))) + k
                   IN  /\ p \in 1 .. Len(Drafts(Relayed))
                       /\ Drafts(Relayed)[p] = <<Relayed[i].run, lane[Relayed[i].run].lines - Relayed[i].n + k>>
  <2>1. PICK w \in Requests : w = q[i]
      BY <1>2
  <2>2. tt[i] = Lines(w) /\ i \in 1 .. Len(tt)
      BY <1>4, <1>5, <1>6, <2>1
  <2>3. /\ Len(tt[i]) = w.n
        /\ \A k \in 1 .. w.n : tt[i][k] = <<w.run, lane[w.run].lines - w.n + k>>
      BY <1>3, <2>2
  <2>4. PICK d \in Seq(Pairs) : d = FlattenSeq(SubSeq(tt, 1, i - 1))
    <3>1. SubSeq(tt, 1, i - 1) \in Seq(Seq(Pairs))
        BY <2>2
    <3> QED
        BY <3>1, FlattenPlace
  <2>5. Len(d) \in Nat /\ Drafts(SubSeq(Relayed, 1, i - 1)) = d
      BY <1>8, <2>4
  <2>6. \A k \in 1 .. w.n : /\ Len(d) + k \in 1 .. Len(FlattenSeq(tt))
                            /\ FlattenSeq(tt)[Len(d) + k] = tt[i][k]
      BY <1>9, <2>2, <2>3, <2>4
  <2>7. Relayed[i] = w
      BY <1>1, <2>1
  <2> QED
      BY <1>7, <2>3, <2>5, <2>6, <2>7
<1> QED
    BY <1>1, <1>2, <1>7, <1>9, <1>10

-----------------------------------------------------------------------------
(* The refs a lane is told are its own.                                    *)

(* What stands in the ledger stays where it is.                            *)
Grown == /\ ledger' \in Seq(Pairs)
         /\ \A p \in DOMAIN ledger : p \in DOMAIN ledger' /\ ledger'[p] = ledger[p]

(* A lane that is told nothing and writes nothing.                         *)
Silent(q) == /\ lane'[q].lines = lane[q].lines /\ lane'[q].refs = lane[q].refs
             /\ Spot'[q] \in Fresh => Spot[q] \in Fresh

(* The fields of a lane.                                                   *)
LaneOf(a, b, c, e) == [at |-> a, asks |-> b, lines |-> c, refs |-> e]

LEMMA FieldsOf ==
    ASSUME NEW l, NEW a, NEW b, NEW c, NEW e, l = LaneOf(a, b, c, e)
    PROVE  l.at = a /\ l.lines = c /\ l.refs = e
    BY DEF LaneOf

LEMMA AllSilent ==
    ASSUME IInv, RefsInv, Grown, Relayed' = Relayed \/ Relayed' = <<>>,
           \A q \in Runs : Silent(q)
    PROVE  RefsInv'
<1>1. \A q \in Runs : /\ lane'[q].lines = lane[q].lines /\ lane'[q].refs = lane[q].refs
                      /\ Spot'[q] \in Fresh => Spot[q] \in Fresh
    BY DEF Silent
<1>2. \A i \in DOMAIN Relayed : Relayed[i].run \in Runs
  <2>1. PICK w \in Seq([run : Runs, n : 1 .. MaxBatch]) : w = Relayed
      BY DEF IInv, Types, Relayed
  <2>2. \A i \in DOMAIN w : w[i] \in [run : Runs, n : 1 .. MaxBatch]
      BY ElementOf
  <2> QED
      BY <2>1, <2>2
<1>3. \A i \in DOMAIN Relayed' : i \in DOMAIN Relayed /\ Relayed'[i] = Relayed[i]
    OBVIOUS
<1>4. \A i \in DOMAIN Relayed' :
        LET r == Relayed'[i].run IN Len(lane'[r].refs) + Relayed'[i].n = lane'[r].lines
  <2> SUFFICES ASSUME NEW i \in DOMAIN Relayed'
               PROVE  Len(lane'[Relayed'[i].run].refs) + Relayed'[i].n = lane'[Relayed'[i].run].lines
      OBVIOUS
  <2>1. /\ i \in DOMAIN Relayed /\ Relayed'[i] = Relayed[i] /\ Relayed[i].run \in Runs
      BY <1>2, <1>3
  <2>2. Len(lane[Relayed[i].run].refs) + Relayed[i].n = lane[Relayed[i].run].lines
      BY <2>1 DEF RefsInv, Counts
  <2> QED
      BY <1>1, <2>1, <2>2
<1>5. \A r \in Runs : /\ lane'[r].lines \in Nat /\ lane'[r].refs \in Seq(Nat)
                      /\ Spot'[r] \in Fresh => Len(lane'[r].refs) = lane'[r].lines
    BY <1>1 DEF RefsInv, Counts
<1>6. Counts'
    BY <1>4, <1>5 DEF Counts, Grown
<1>7. RefsAreOwn'
  <2> SUFFICES ASSUME NEW r \in Runs, NEW k \in DOMAIN lane'[r].refs
               PROVE  lane'[r].refs[k] \in DOMAIN ledger' /\ ledger'[lane'[r].refs[k]] = <<r, k>>
      BY DEF RefsAreOwn
  <2>1. lane[r].refs[k] \in DOMAIN ledger /\ ledger[lane[r].refs[k]] = <<r, k>>
      BY <1>1 DEF RefsInv, RefsAreOwn
  <2> QED
      BY <1>1, <2>1 DEF Grown
<1> QED
    BY <1>6, <1>7 DEF RefsInv

LEMMA SameLedger ==
    ASSUME RefsInv, ledger' = ledger
    PROVE  Grown
    BY DEF RefsInv, Counts, Grown

LEMMA SameLanes ==
    ASSUME IInv, RefsInv, ledger' = ledger, wakes'.relays = wakes.relays, lane' = lane
    PROVE  RefsInv'
<1>1. Grown /\ Relayed' = Relayed
    BY SameLedger DEF Relayed
<1>2. \A q \in Runs : Silent(q)
    BY DEF Silent, Spot
<1> QED
    BY <1>1, <1>2, AllSilent

(* One lane goes elsewhere.                                                *)
LEMMA LaneGoesOn ==
    ASSUME IInv, RefsInv, ledger' = ledger, wakes'.relays = wakes.relays,
           NEW r \in Runs, NEW p, lane' = [lane EXCEPT ![r].at = p],
           p \in Fresh => Spot[r] \in Fresh
    PROVE  RefsInv'
<1>1. Grown /\ Relayed' = Relayed
    BY SameLedger DEF Relayed
<1>2. Spot' = [Spot EXCEPT ![r] = p] /\ Spot = [q \in Runs |-> Spot[q]]
    BY LaneGoes DEF IInv, Spot
<1>3. /\ \A q \in Runs \ {r} : lane'[q] = lane[q]
      /\ lane'[r] = [lane[r] EXCEPT !.at = p]
    BY DEF IInv, Shape
<1>4. lane[r] = [at |-> lane[r].at, asks |-> lane[r].asks, lines |-> lane[r].lines,
                 refs |-> lane[r].refs]
    BY DEF IInv, Shape
<1>5. lane'[r].lines = lane[r].lines /\ lane'[r].refs = lane[r].refs
    BY <1>3, <1>4
<1>6. \A q \in Runs : Silent(q)
    BY <1>2, <1>3, <1>5 DEF Silent
<1> QED
    BY <1>1, <1>6, AllSilent

(* A batch that was refused, or the end of the queue.                      *)
LEMMA RefusedOwn ==
    ASSUME IInv, RefsInv, lane' = Told(FALSE), Grown, wakes' = NoWakes
    PROVE  RefsInv'
<1>1. Relayed' = <<>>
    BY DEF NoWakes, Relayed
<1>2. Spot' = [r \in Runs |-> IF r \in Askers THEN "refused" ELSE Spot[r]]
    BY ToldLanes DEF IInv
<1>3. ASSUME NEW q \in Runs PROVE Silent(q)
  <2>1. Spot'[q] \in Fresh => Spot[q] \in Fresh
      BY <1>2 DEF Fresh
  <2>2. lane[q] = [at |-> lane[q].at, asks |-> lane[q].asks, lines |-> lane[q].lines,
                   refs |-> lane[q].refs]
      BY DEF IInv, Shape
  <2>3. Answered(q, FALSE) = [lane[q] EXCEPT !.at = "refused", !.refs = lane[q].refs]
      BY DEF Answered
  <2>4. Answered(q, FALSE) = [at |-> "refused", asks |-> lane[q].asks, lines |-> lane[q].lines,
                              refs |-> lane[q].refs]
      BY <2>2, <2>3, RecordGoes, Zenon
  <2>5. lane'[q] = Answered(q, FALSE) \/ lane'[q] = lane[q]
      BY DEF Told
  <2>6. lane'[q].lines = lane[q].lines /\ lane'[q].refs = lane[q].refs
    <3>1. CASE lane'[q] = Answered(q, FALSE)
      <4>1. lane'[q] = LaneOf("refused", lane[q].asks, lane[q].lines, lane[q].refs)
          BY <2>4, <3>1, Zenon DEF LaneOf
      <4> QED
        <5>1. PICK m, x : m = lane'[q] /\ x = lane[q]
            OBVIOUS
        <5>2. m = LaneOf("refused", x.asks, x.lines, x.refs)
            BY <4>1, <5>1, Zenon
        <5>3. m.lines = x.lines /\ m.refs = x.refs
            BY <5>2, FieldsOf
        <5> QED
            BY <5>1, <5>3, Zenon
    <3>2. CASE lane'[q] = lane[q]
        BY <3>2, Zenon
    <3> QED
        BY <2>5, <3>1, <3>2, Zenon
  <2> QED
      BY <2>1, <2>6 DEF Silent
<1> QED
    BY <1>1, <1>3, AllSilent

(* A request in the queue: its lane had told lines before it.              *)
LEMMA AskOwn ==
    ASSUME IInv, RefsInv, NEW r \in Runs, NEW n \in 1 .. MaxBatch, Ask(r, n)
    PROVE  RefsInv'
<1>1. /\ lane[r].at = "driving" /\ ledger' = ledger
      /\ wakes' = [wakes EXCEPT !.relays = Append(wakes.relays, [run |-> r, n |-> n])]
      /\ lane' = [lane EXCEPT ![r].at = "asking", ![r].asks = @ + 1, ![r].lines = @ + n]
    BY DEF Ask
<1>2. lane[r] = [at |-> lane[r].at, asks |-> lane[r].asks, lines |-> lane[r].lines,
                 refs |-> lane[r].refs]
    BY DEF IInv, Shape
<1>3. /\ \A q \in Runs \ {r} : lane'[q] = lane[q]
      /\ lane'[r] = [[[lane[r] EXCEPT !.at = "asking"] EXCEPT !.asks = lane[r].asks + 1]
                        EXCEPT !.lines = lane[r].lines + n]
    BY <1>1 DEF IInv, Shape
<1>4. /\ lane'[r].at = "asking" /\ lane'[r].lines = lane[r].lines + n
      /\ lane'[r].refs = lane[r].refs
    BY <1>2, <1>3
<1>5. Spot[r] = "driving" /\ Spot'[r] = "asking" /\ \A q \in Runs \ {r} : Spot'[q] = Spot[q]
  <2>1. \A q \in Runs : Spot[q] = lane[q].at /\ Spot'[q] = lane'[q].at
      BY DEF Spot
  <2>2. Spot[r] = "driving" /\ Spot'[r] = "asking"
      BY <1>1, <1>4, <2>1, Zenon
  <2>3. ASSUME NEW q \in Runs \ {r} PROVE Spot'[q] = Spot[q]
    <3>1. Spot[q] = lane[q].at /\ Spot'[q] = lane'[q].at /\ lane'[q] = lane[q]
        BY <1>3, <2>1
    <3> QED
        BY <3>1, Zenon
  <2> QED
      BY <2>2, <2>3
<1>6. /\ Len(lane[r].refs) = lane[r].lines /\ lane[r].lines \in Nat /\ lane[r].refs \in Seq(Nat)
      /\ n \in Nat
    BY <1>5, AttendAssumption DEF RefsInv, Counts, Fresh
<1>7. Relayed' = Append(Relayed, [run |-> r, n |-> n])
    BY <1>1 DEF IInv, Types, Relayed
<1>8. ASSUME NEW i \in DOMAIN Relayed'
      PROVE  Len(lane'[Relayed'[i].run].refs) + Relayed'[i].n = lane'[Relayed'[i].run].lines
  <2>1. PICK w \in Seq([run : Runs, n : 1 .. MaxBatch]) : w = Relayed
      BY DEF IInv, Types, Relayed
  <2>2. PICK x \in [run : Runs, n : 1 .. MaxBatch] : x = [run |-> r, n |-> n]
      OBVIOUS
  <2>3. x.run = r /\ x.n = n
      BY <2>2
  <2>4. \/ i \in DOMAIN w /\ Append(w, x)[i] = w[i]
        \/ Append(w, x)[i] = x
      BY <1>7, <2>1, <2>2
  <2>5. Relayed' = Append(w, x)
      BY <1>7, <2>1, <2>2
  <2>6. CASE Append(w, x)[i] = x
      BY <1>4, <1>6, <2>3, <2>5, <2>6
  <2>7. CASE i \in DOMAIN w /\ Append(w, x)[i] = w[i]
    <3>1. i \in DOMAIN Relayed /\ Relayed'[i] = Relayed[i]
        BY <2>1, <2>5, <2>7
    <3>2. Relayed[i].run \in Askers
        BY <3>1 DEF Askers
    <3>3. Relayed[i].run \in Runs /\ Relayed[i].run # r
        BY <1>5, <3>2 DEF IInv, Asking
    <3>4. Len(lane[Relayed[i].run].refs) + Relayed[i].n = lane[Relayed[i].run].lines
        BY <3>1 DEF RefsInv, Counts
    <3> QED
        BY <1>3, <3>1, <3>3, <3>4
  <2> QED
      BY <2>4, <2>6, <2>7
<1>9. ASSUME NEW q \in Runs
      PROVE  /\ lane'[q].lines \in Nat /\ lane'[q].refs \in Seq(Nat)
             /\ Spot'[q] \in Fresh => Len(lane'[q].refs) = lane'[q].lines
             /\ lane'[q].refs = lane[q].refs
  <2>1. CASE q = r
      BY <1>4, <1>5, <1>6, <2>1 DEF Fresh
  <2>2. CASE q # r
      BY <1>3, <1>5, <2>2 DEF RefsInv, Counts
  <2> QED
      BY <2>1, <2>2
<1>10. Counts'
    BY <1>1, <1>8, <1>9 DEF Counts, RefsInv
<1>11. RefsAreOwn'
  <2> SUFFICES ASSUME NEW q \in Runs, NEW k \in DOMAIN lane'[q].refs
               PROVE  lane'[q].refs[k] \in DOMAIN ledger' /\ ledger'[lane'[q].refs[k]] = <<q, k>>
      BY DEF RefsAreOwn
  <2>1. lane'[q].refs = lane[q].refs
      BY <1>9
  <2>2. lane[q].refs[k] \in DOMAIN ledger /\ ledger[lane[q].refs[k]] = <<q, k>>
      BY <2>1 DEF RefsInv, RefsAreOwn
  <2> QED
      BY <1>1, <2>1, <2>2, Zenon
<1> QED
    BY <1>10, <1>11 DEF RefsInv

(* A batch the ledger took: the refs of each request stand where its lines *)
(* were put.                                                               *)
LEMMA AcceptedOwn ==
    ASSUME IInv, RefsInv, lane' = Told(TRUE), ledger' = ledger \o Drafts(Relayed),
           wakes' = NoWakes
    PROVE  RefsInv'
<1>1. /\ Drafts(Relayed) \in Seq(Pairs)
      /\ \A i \in DOMAIN Relayed : \A k \in 1 .. Relayed[i].n :
           LET p == Len(Drafts(SubSeq(Relayed, 1, i - 1))) + k
           IN  /\ p \in 1 .. Len(Drafts(Relayed))
               /\ Drafts(Relayed)[p] = <<Relayed[i].run, lane[Relayed[i].run].lines - Relayed[i].n + k>>
      /\ \A i \in DOMAIN Relayed : Len(Drafts(SubSeq(Relayed, 1, i - 1))) \in Nat
    BY DraftsPlace DEF RefsInv
<1>2. PICK d \in Seq(Pairs), l \in Seq(Pairs) : d = Drafts(Relayed) /\ l = ledger
    BY <1>1 DEF RefsInv, Counts
<1>3. ledger' = l \o d
    BY <1>2
<1>4. /\ l \o d \in Seq(Pairs) /\ Len(l) \in Nat /\ Len(d) \in Nat
      /\ DOMAIN l = 1 .. Len(l) /\ DOMAIN (l \o d) = 1 .. Len(l) + Len(d)
      /\ \A p \in 1 .. Len(l) : (l \o d)[p] = l[p]
      /\ \A p \in 1 .. Len(d) : (l \o d)[Len(l) + p] = d[p]
    OBVIOUS
<1>5. Grown
    BY <1>2, <1>3, <1>4 DEF Grown
<1>6. Relayed' = <<>>
    BY DEF NoWakes, Relayed
<1>7. Spot' = [r \in Runs |-> IF r \in Askers THEN "driving" ELSE Spot[r]]
    BY ToldLanes DEF IInv
<1>8. ASSUME NEW r \in Runs
      PROVE  /\ lane'[r].lines \in Nat /\ lane'[r].refs \in Seq(Nat)
             /\ Spot'[r] \in Fresh => Len(lane'[r].refs) = lane'[r].lines
             /\ \A k \in DOMAIN lane'[r].refs :
                  lane'[r].refs[k] \in DOMAIN ledger' /\ ledger'[lane'[r].refs[k]] = <<r, k>>
  <2>1. /\ lane[r].lines \in Nat /\ lane[r].refs \in Seq(Nat)
        /\ Spot[r] \in Fresh => Len(lane[r].refs) = lane[r].lines
        /\ \A k \in DOMAIN lane[r].refs :
             lane[r].refs[k] \in DOMAIN ledger' /\ ledger'[lane[r].refs[k]] = <<r, k>>
      BY <1>5 DEF RefsInv, Counts, RefsAreOwn, Grown
  <2>2. CASE r \notin Askers
    <3>1. ~\E i \in DOMAIN Relayed : Relayed[i].run = r
        BY <2>2 DEF Askers
    <3>2. lane'[r] = lane[r] /\ Spot'[r] = Spot[r]
        BY <1>7, <2>2, <3>1 DEF Told
    <3> QED
        BY <2>1, <3>2
  <2>3. CASE r \in Askers
    <3>1. \E i \in DOMAIN Relayed : Relayed[i].run = r
        BY <2>3 DEF Askers
    <3>2. Request(r) \in DOMAIN Relayed /\ Relayed[Request(r)].run = r
        BY <3>1 DEF Request
    <3>3. PICK i \in DOMAIN Relayed : i = Request(r) /\ Relayed[i].run = r
        BY <3>2
    <3>4. lane[r] = [at |-> lane[r].at, asks |-> lane[r].asks, lines |-> lane[r].lines,
                     refs |-> lane[r].refs]
        BY DEF IInv, Shape
    <3>5. Answered(r, TRUE) = [lane[r] EXCEPT !.at = "driving", !.refs = lane[r].refs \o RefsOf(i)]
        BY <3>3 DEF Answered
    <3>6. Answered(r, TRUE) = [at |-> "driving", asks |-> lane[r].asks, lines |-> lane[r].lines,
                               refs |-> lane[r].refs \o RefsOf(i)]
        BY <3>4, <3>5, RecordGoes, Zenon
    <3>7. lane'[r] = Answered(r, TRUE)
        BY <3>1 DEF Told
    <3>8. lane'[r].lines = lane[r].lines /\ lane'[r].refs = lane[r].refs \o RefsOf(i)
      <4>1. lane'[r] = LaneOf("driving", lane[r].asks, lane[r].lines, lane[r].refs \o RefsOf(i))
          BY <3>6, <3>7, Zenon DEF LaneOf
      <4> QED
        <5>1. PICK m, x, y : m = lane'[r] /\ x = lane[r] /\ y = lane[r].refs \o RefsOf(i)
            OBVIOUS
        <5>2. m = LaneOf("driving", x.asks, x.lines, y)
            BY <4>1, <5>1, Zenon
        <5>3. m.lines = x.lines /\ m.refs = y
            BY <5>2, FieldsOf
        <5> QED
            BY <5>1, <5>3, Zenon
    <3>9. PICK n \in Nat, b \in Nat, g \in Seq(Nat) :
            /\ n = Relayed[i].n /\ b = Len(Drafts(SubSeq(Relayed, 1, i - 1))) /\ g = lane[r].refs
      <4>1. Relayed[i].n \in Nat
        <5>1. PICK w \in Seq([run : Runs, n : 1 .. MaxBatch]) : w = Relayed
            BY DEF IInv, Types, Relayed
        <5>2. w[i] \in [run : Runs, n : 1 .. MaxBatch]
            BY <5>1, ElementOf
        <5> QED
            BY <5>1, <5>2, AttendAssumption
      <4> QED
          BY <1>1, <2>1, <4>1
    <3>10. Len(g) \in Nat /\ lane[r].lines = Len(g) + n
        BY <3>3, <3>9 DEF RefsInv, Counts
    <3>11. RefsOf(i) = [k \in 1 .. n |-> Len(l) + b + k]
        BY <1>2, <3>9 DEF RefsOf
    <3>12. PICK h \in Seq(Nat) : h = RefsOf(i) /\ Len(h) = n /\ \A k \in 1 .. n : h[k] = Len(l) + b + k
      <4>1. PICK f : f = [k \in 1 .. n |-> Len(l) + b + k]
          OBVIOUS
      <4>2. f \in [1 .. n -> Nat]
          BY <1>4, <4>1
      <4>3. f \in Seq(Nat)
          BY <4>2, SeqDef
      <4>4. Len(f) = n
          BY <4>2, <4>3
      <4> QED
          BY <3>11, <4>1, <4>3, <4>4
    <3>13. \A k \in 1 .. n : b + k \in 1 .. Len(d) /\ d[b + k] = <<r, Len(g) + k>>
      <4>1. PICK t \in Nat : t = lane[r].lines
          BY <2>1
      <4>2. \A k \in 1 .. n : b + k \in 1 .. Len(d) /\ d[b + k] = <<r, t - n + k>>
        <5>1. \A k \in 1 .. Relayed[i].n :
                /\ Len(Drafts(SubSeq(Relayed, 1, i - 1))) + k \in 1 .. Len(Drafts(Relayed))
                /\ Drafts(Relayed)[Len(Drafts(SubSeq(Relayed, 1, i - 1))) + k]
                     = <<Relayed[i].run, lane[Relayed[i].run].lines - Relayed[i].n + k>>
            BY <1>1, Zenon
        <5> QED
            BY <1>2, <3>3, <3>9, <4>1, <5>1, Zenon
      <4>3. t = Len(g) + n
          BY <3>10, <4>1, Zenon
      <4>4. \A k \in 1 .. n : t - n + k = Len(g) + k
          BY <3>10, <4>3
      <4> QED
          BY <4>2, <4>4
    <3>14. \A k \in 1 .. n : /\ Len(l) + b + k \in DOMAIN (l \o d)
                             /\ (l \o d)[Len(l) + b + k] = <<r, Len(g) + k>>
      <4> SUFFICES ASSUME NEW k \in 1 .. n
                   PROVE  /\ Len(l) + b + k \in DOMAIN (l \o d)
                          /\ (l \o d)[Len(l) + b + k] = <<r, Len(g) + k>>
          OBVIOUS
      <4>1. PICK p \in 1 .. Len(d) : p = b + k /\ d[p] = <<r, Len(g) + k>>
          BY <3>13
      <4>2. (l \o d)[Len(l) + p] = d[p] /\ Len(l) + p \in DOMAIN (l \o d)
          BY <1>4
      <4>3. Len(l) + p = Len(l) + b + k
          BY <1>4, <4>1
      <4> QED
          BY <4>1, <4>2, <4>3
    <3>15. g \o h \in Seq(Nat) /\ lane'[r].refs = g \o h
      <4>1. g \o h \in Seq(Nat)
          OBVIOUS
      <4>2. lane'[r].refs = g \o h
          BY <3>8, <3>9, <3>12, Zenon
      <4> QED
          BY <4>1, <4>2
    <3>16. PICK s \in Seq(Nat) : s = g \o h
        BY <3>15, Zenon
    <3>17. /\ Len(s) = Len(g) + n /\ \A k \in 1 .. Len(g) : s[k] = g[k]
           /\ \A k \in 1 .. n : s[Len(g) + k] = h[k]
        BY <3>10, <3>12, <3>16
    <3>18. ASSUME NEW k \in DOMAIN s
           PROVE  s[k] \in DOMAIN (l \o d) /\ (l \o d)[s[k]] = <<r, k>>
      <4>1. k \in 1 .. Len(g) \/ k - Len(g) \in 1 .. n
          BY <3>10, <3>17
      <4>2. CASE k \in 1 .. Len(g)
        <5>1. s[k] = g[k] /\ k \in DOMAIN g
            BY <3>17, <4>2
        <5> QED
            BY <1>3, <2>1, <3>9, <5>1
      <4>3. CASE k - Len(g) \in 1 .. n
        <5>1. PICK j \in 1 .. n : k = Len(g) + j
            BY <3>10, <3>17, <4>3
        <5>2. s[k] = Len(l) + b + j
            BY <3>12, <3>17, <5>1
        <5> QED
            BY <3>14, <5>1, <5>2
      <4> QED
          BY <4>1, <4>2, <4>3
    <3>19. Len(lane'[r].refs) = lane'[r].lines
        BY <3>8, <3>10, <3>15, <3>16, <3>17
    <3> QED
        BY <1>3, <2>1, <3>8, <3>15, <3>16, <3>18, <3>19
  <2> QED
      BY <2>2, <2>3
<1>9. Counts'
  <2>1. \A i \in DOMAIN Relayed' :
          LET r == Relayed'[i].run IN Len(lane'[r].refs) + Relayed'[i].n = lane'[r].lines
    <3>1. DOMAIN Relayed' = {}
        BY <1>6
    <3> QED
        BY <3>1, Zenon
  <2>2. ledger' \in Seq(Pairs)
      BY <1>5 DEF Grown
  <2>3. \A r \in Runs : /\ lane'[r].lines \in Nat /\ lane'[r].refs \in Seq(Nat)
                        /\ Spot'[r] \in Fresh => Len(lane'[r].refs) = lane'[r].lines
      BY <1>8, Zenon
  <2> QED
      BY <2>1, <2>2, <2>3, Zenon DEF Counts
<1>10. RefsAreOwn'
    BY <1>8 DEF RefsAreOwn
<1> QED
    BY <1>9, <1>10 DEF RefsInv

LEMMA InitRefs == Init => RefsInv
<1> SUFFICES ASSUME Init PROVE RefsInv
    OBVIOUS
<1>1. /\ ledger = <<>> /\ Relayed = <<>>
      /\ \A r \in Runs : lane[r] = [at |-> "new", asks |-> 0, lines |-> 0, refs |-> <<>>]
    BY DEF Init, NoWakes, Relayed
<1>2. \A r \in Runs : lane[r].lines = 0 /\ lane[r].refs = <<>>
    BY <1>1
<1>3. DOMAIN Relayed = {} /\ \A r \in Runs : DOMAIN lane[r].refs = {}
    BY <1>1, <1>2
<1>4. ledger \in Seq(Pairs) /\ <<>> \in Seq(Nat) /\ Len(<<>>) = 0
    BY <1>1
<1>5. Counts
  <2>1. \A r \in Runs : /\ lane[r].lines \in Nat /\ lane[r].refs \in Seq(Nat)
                        /\ Len(lane[r].refs) = lane[r].lines
    <3> SUFFICES ASSUME NEW r \in Runs
                 PROVE  /\ lane[r].lines \in Nat /\ lane[r].refs \in Seq(Nat)
                        /\ Len(lane[r].refs) = lane[r].lines
        OBVIOUS
    <3>1. 0 \in Nat /\ lane[r].lines = 0 /\ lane[r].refs = <<>>
        BY <1>2
    <3> QED
        BY <1>4, <3>1, Zenon
  <2>2. \A i \in DOMAIN Relayed :
          LET r == Relayed[i].run IN Len(lane[r].refs) + Relayed[i].n = lane[r].lines
      BY <1>3, Zenon
  <2> QED
      BY <1>4, <2>1, <2>2, Zenon DEF Counts
<1>6. RefsAreOwn
    BY <1>3, Zenon DEF RefsAreOwn
<1> QED
    BY <1>5, <1>6 DEF RefsInv

LEMMA LaneOwn ==
    ASSUME IInv, RefsInv, NEW r \in Runs, Lane(r) \/ ComeHome(r)
    PROVE  RefsInv'
<1>1. ASSUME NEW n \in 1 .. MaxBatch, Ask(r, n) PROVE RefsInv'
    BY <1>1, AskOwn
<1>2. CASE AskRefused(r)
  <2>1. /\ lane[r].at = "driving" /\ ledger' = ledger /\ wakes' = wakes
        /\ lane' = [lane EXCEPT ![r].at = "refused", ![r].asks = @ + 1]
      BY <1>2 DEF AskRefused
  <2>2. lane[r] = [at |-> lane[r].at, asks |-> lane[r].asks, lines |-> lane[r].lines,
                   refs |-> lane[r].refs]
      BY DEF IInv, Shape
  <2>3. /\ \A q \in Runs \ {r} : lane'[q] = lane[q]
        /\ lane'[r] = [[lane[r] EXCEPT !.at = "refused"] EXCEPT !.asks = lane[r].asks + 1]
      BY <2>1 DEF IInv, Shape
  <2>4. /\ lane'[r].at = "refused" /\ lane'[r].lines = lane[r].lines
        /\ lane'[r].refs = lane[r].refs
      BY <2>2, <2>3
  <2>5. \A q \in Runs : Spot[q] = lane[q].at /\ Spot'[q] = lane'[q].at
      BY DEF Spot
  <2>6. \A q \in Runs : Silent(q)
    <3>1. Silent(r)
        BY <2>4, <2>5 DEF Silent, Fresh
    <3>2. ASSUME NEW q \in Runs \ {r} PROVE Silent(q)
      <4>1. q \in Runs /\ lane'[q] = lane[q]
          BY <2>3
      <4>2. Spot'[q] = Spot[q]
          BY <2>5, <4>1, Zenon
      <4> QED
          BY <4>1, <4>2 DEF Silent
    <3> QED
        BY <3>1, <3>2
  <2>7. Grown /\ Relayed' = Relayed
      BY <2>1, SameLedger DEF Relayed
  <2> QED
      BY <2>6, <2>7, AllSilent
<1>3. CASE SafePoint(r)
  <2>1. /\ ledger' = ledger /\ wakes'.relays = wakes.relays
        /\ lane' = [lane EXCEPT ![r].at = "stopped"] \/ lane' = lane
      BY <1>3 DEF SafePoint
  <2> QED
      BY <2>1, LaneGoesOn, SameLanes DEF Fresh
<1>4. CASE ComeHome(r)
  <2>1. /\ ledger' = ledger /\ lane' = [lane EXCEPT ![r].at = "home"]
        /\ wakes' = wakes \/ wakes' = [wakes EXCEPT !.arrivals = Append(@, r)]
      BY <1>4 DEF ComeHome
  <2>2. wakes'.relays = wakes.relays
      BY <2>1 DEF IInv, Types
  <2> QED
      BY <2>1, <2>2, LaneGoesOn DEF Fresh
<1> QED
    BY <1>1, <1>2, <1>3, <1>4 DEF Lane

LEMMA EnterOwn ==
    ASSUME IInv, RefsInv, NEW r \in Runs, Enter(r) \/ RefuseDispatch(r),
           ledger' = ledger, wakes' = wakes
    PROVE  RefsInv'
<1>1. PICK p : lane[r].at = "new" /\ lane' = [lane EXCEPT ![r].at = p]
    BY DEF Enter, RefuseDispatch
<1>2. Spot[r] \in Fresh
    BY <1>1 DEF Spot, Fresh
<1> QED
    BY <1>1, <1>2, LaneGoesOn

LEMMA ThreadOwn == IInv /\ RefsInv /\ Thread => RefsInv'
<1> SUFFICES ASSUME IInv, RefsInv, Thread PROVE RefsInv'
    OBVIOUS
<1>1. CASE Serve
  <2>1. /\ wakes' = NoWakes
        /\ \/ ledger' = ledger \o Drafts(Relayed) /\ lane' = Told(TRUE)
           \/ ledger' = ledger /\ lane' = Told(FALSE)
      BY <1>1 DEF Serve
  <2> QED
      BY <2>1, AcceptedOwn, RefusedOwn, SameLedger
<1>2. CASE Arrive \/ Idle \/ LandTheRest
  <2>1. ledger' = ledger /\ wakes' = wakes /\ lane' = lane
      BY <1>2 DEF Arrive, Idle, LandTheRest
  <2> QED
      BY <2>1, SameLanes
<1>3. CASE StartWaiting
  <2>1. /\ ledger' = ledger /\ wakes' = wakes
        /\ \/ lane' = lane
           \/ /\ waiting # <<>>
              /\ \E p : lane' = [lane EXCEPT ![Head(waiting)].at = p]
      BY <1>3 DEF StartWaiting
  <2>2. CASE lane' = lane
      BY <2>1, <2>2, SameLanes
  <2>3. CASE waiting # <<>> /\ \E p : lane' = [lane EXCEPT ![Head(waiting)].at = p]
    <3>1. PICK p : lane' = [lane EXCEPT ![Head(waiting)].at = p]
        BY <2>3
    <3>2. Head(waiting) \in ToSet(waiting)
      <4>1. waiting \in Seq(Runs)
          BY DEF IInv, Tables
      <4>2. 1 \in DOMAIN waiting /\ Head(waiting) = waiting[1]
          BY <2>3, <4>1
      <4> QED
          BY <4>2 DEF ToSet
    <3>3. Head(waiting) \in Runs /\ Spot[Head(waiting)] \in Fresh
        BY <3>2 DEF IInv, Tables, Fresh
    <3> QED
        BY <2>1, <3>1, <3>3, LaneGoesOn
  <2> QED
      BY <2>1, <2>2, <2>3
<1>4. CASE Land
  <2>1. /\ ledger' = ledger /\ wakes' = wakes /\ thread.at = "landing"
        /\ \E p \in {"landed", "unlanded"} : lane' = [lane EXCEPT ![thread.run].at = p]
      BY <1>4 DEF Land, At
  <2>2. PICK p \in {"landed", "unlanded"} : lane' = [lane EXCEPT ![thread.run].at = p]
      BY <2>1
  <2>3. thread.run \in Runs
      BY <2>1 DEF IInv, Types, Lander
  <2> QED
      BY <2>1, <2>2, <2>3, LaneGoesOn DEF Fresh
<1>5. CASE StartHeirs
  <2>1. /\ ledger' = ledger /\ wakes' = wakes
        /\ lane' = lane \/ \E r \in Heirs : Enter(r)
      BY <1>5 DEF StartHeirs
  <2>2. CASE \E r \in Heirs : Enter(r)
    <3>1. PICK r \in Heirs : Enter(r)
        BY <2>2
    <3>2. r \in Runs
        BY AttendAssumption
    <3> QED
        BY <2>1, <3>1, <3>2, EnterOwn
  <2> QED
      BY <2>1, <2>2, SameLanes
<1>6. CASE TakeCommand
  <2>1. /\ ledger' = ledger /\ wakes' = wakes
        /\ \E i \in DOMAIN queue :
             \/ queue[i].verb = "dispatch" /\ (Enter(queue[i].run) \/ RefuseDispatch(queue[i].run))
             \/ lane' = lane
      BY <1>6 DEF TakeCommand
  <2>2. PICK i \in DOMAIN queue :
          \/ queue[i].verb = "dispatch" /\ (Enter(queue[i].run) \/ RefuseDispatch(queue[i].run))
          \/ lane' = lane
      BY <2>1
  <2>3. queue[i] \in Commands
      BY ElementOf DEF IInv, Types
  <2>4. queue[i].verb = "dispatch" => queue[i].run \in Runs
      BY <2>3, AttendAssumption
  <2> QED
      BY <2>1, <2>2, <2>4, EnterOwn, SameLanes
<1>7. CASE CloseCity
  <2>1. /\ wakes' = NoWakes /\ lane' = Told(FALSE)
        /\ ledger' = ledger \/ ledger' = Append(ledger, Handoff)
      BY <1>7 DEF CloseCity
  <2>2. Grown
    <3>1. PICK l \in Seq(Pairs), h \in Pairs : l = ledger /\ h = Handoff
      <4>1. Handoff \in Pairs
          BY DEF Handoff, Pairs
      <4> QED
          BY <4>1 DEF RefsInv, Counts
    <3>2. /\ Append(l, h) \in Seq(Pairs)
          /\ \A p \in DOMAIN l : p \in DOMAIN Append(l, h) /\ Append(l, h)[p] = l[p]
        OBVIOUS
    <3> QED
        BY <2>1, <3>1, <3>2, SameLedger DEF Grown
  <2> QED
      BY <2>1, <2>2, RefusedOwn
<1> QED
    BY <1>1, <1>2, <1>3, <1>4, <1>5, <1>6, <1>7 DEF Thread

LEMMA NextRefs == IInv /\ RefsInv /\ [Next]_vars => RefsInv'
<1> SUFFICES ASSUME IInv, RefsInv, [Next]_vars PROVE RefsInv'
    OBVIOUS
<1>1. CASE Thread
    BY <1>1, ThreadOwn
<1>2. CASE \E r \in Runs : Lane(r) \/ ComeHome(r)
    BY <1>2, LaneOwn
<1>3. CASE Answer
  <2>1. ledger' = ledger /\ lane' = lane /\ wakes'.relays = wakes.relays
    <3>1. ledger' = ledger /\ lane' = lane /\ wakes' = [wakes EXCEPT !.answers = @ + 1]
        BY <1>3 DEF Answer
    <3> QED
        BY <3>1 DEF IInv, Types
  <2> QED
      BY <2>1, SameLanes
<1>4. CASE Post \/ (\E e \in Events : Reaches(e)) \/ Joined \/ Deadline \/ UNCHANGED vars
  <2>1. ledger' = ledger /\ lane' = lane /\ wakes' = wakes
      BY <1>4 DEF Post, Reaches, Joined, Deadline, Carried, vars
  <2> QED
      BY <2>1, SameLanes
<1> QED
    BY <1>1, <1>2, <1>3, <1>4 DEF Next

(* The refs RelayGate::serve hands back to a lane are where that lane's    *)
(* own lines stand, however many lanes wrote in the same append.           *)
THEOREM RefsOwned == Spec => []RefsAreOwn
<1>1. Init => IInv /\ RefsInv
    BY InitHolds, InitRefs
<1>2. IInv /\ RefsInv /\ [Next]_vars => IInv' /\ RefsInv'
    BY NextStep, NextRefs
<1>3. RefsInv => RefsAreOwn
    BY DEF RefsInv
<1> QED
    BY <1>1, <1>2, <1>3, PTL DEF Spec
=============================================================================
