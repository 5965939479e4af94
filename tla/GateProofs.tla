---------------------------- MODULE GateProofs ----------------------------
(***************************************************************************)
(* Proofs about Gate, for every value of its constants: any number of      *)
(* calls, permits, keys and instants.                                      *)
(***************************************************************************)
EXTENDS Gate, FiniteSetTheorems, SequenceTheorems, TLAPS

-----------------------------------------------------------------------------
(* Types of the operators on permits and holds.                            *)

(* The larger of two naturals.                                             *)
LEMMA MaxOfTwo ==
    ASSUME NEW m \in Nat, NEW n \in Nat
    PROVE  Max({m, n}) = IF m >= n THEN m ELSE n
<1>1. CASE m >= n
    <2>1. \A y \in {m, n} : m >= y BY <1>1
    <2>2. \A x \in {m, n} : (\A y \in {m, n} : x >= y) => x = m BY <1>1
    <2>3. QED BY <1>1, <2>1, <2>2 DEF Max
<1>2. CASE n > m
    <2>1. \A y \in {m, n} : n >= y BY <1>2
    <2>2. \A x \in {m, n} : (\A y \in {m, n} : x >= y) => x = n BY <1>2
    <2>3. QED BY <1>2, <2>1, <2>2 DEF Max
<1>3. QED BY <1>1, <1>2

(* What a call may be answered: a wait only with a 429, and at most one.   *)
LEMMA AnswerFacts ==
    ASSUME NEW a \in Answers \cup {NoAnswer}
    PROVE  \/ a.retry = {}
           \/ a.kind = "429" /\ \E wait \in Nat : a.retry = {wait}
BY GateAssumption DEF Answers, Answer, NoAnswer

(* The instant to hold off until, after an answer at t.                    *)
LEMMA HoldUntilType ==
    ASSUME NEW a \in Answers \cup {NoAnswer}, NEW m \in Nat, NEW t \in Nat
    PROVE  Max({m} \cup {t + wait : wait \in a.retry}) \in Nat
<1>1. CASE a.retry = {}
    <2>1. {m} \cup {t + wait : wait \in a.retry} = {m, m} BY <1>1
    <2>2. QED BY <2>1, MaxOfTwo
<1>2. CASE a.retry # {}
    <2>1. PICK wait \in Nat : a.retry = {wait} BY <1>2, AnswerFacts
    <2>2. {m} \cup {t + w : w \in a.retry} = {m, t + wait} BY <2>1
    <2>3. Max({m, t + wait}) \in Nat BY MaxOfTwo
    <2>4. QED BY <2>2, <2>3
<1>3. QED BY <1>1, <1>2

(* The permits stay permits: the limit never leaves 1 .. Cap.              *)
LEMMA PermitsTypes ==
    ASSUME NEW p \in PermitsType, NEW t \in Nat, NEW a \in Answers \cup {NoAnswer}
    PROVE  /\ Taken(p) \in PermitsType
           /\ GivenBack(p) \in PermitsType
           /\ Succeeded(p, t) \in PermitsType
           /\ RateLimited(p, t, a.retry) \in PermitsType
<1> USE PermitsAssumption
<1>1. Taken(p) \in PermitsType BY DEF Taken, PermitsType
<1>2. GivenBack(p) \in PermitsType BY DEF GivenBack, PermitsType
<1>3. Succeeded(p, t) \in PermitsType BY DEF Succeeded, PermitsType
<1>4. RateLimited(p, t, a.retry) \in PermitsType
    <2>1. p.limit \in 1 .. Cap /\ p.holdUntil \in Nat BY DEF PermitsType
    <2>2. p.limit \div 2 \in Nat /\ p.limit \div 2 <= p.limit BY <2>1
    <2>3. Max({p.limit \div 2, 1}) \in 1 .. Cap BY <2>1, <2>2, MaxOfTwo
    <2>4. Max({p.holdUntil} \cup {t + wait : wait \in a.retry}) \in Nat
        BY <2>1, HoldUntilType
    <2>5. QED BY <2>3, <2>4 DEF RateLimited, PermitsType
<1>5. QED BY <1>1, <1>2, <1>3, <1>4

(* The hold stays a hold.                                                  *)
LEMMA HoldsTypes ==
    ASSUME NEW h \in HoldsType, NEW t \in Nat, NEW k \in Keys, NEW id \in Nat
    PROVE  /\ Expired(h, t) \in HoldsType
           /\ SettledHold(h, id, t) \in HoldsType
           /\ StaysWarm(h, k, t) \in HoldsType
           /\ StartsWarming(h, k, t) \in HoldsType
<1> USE HoldsAssumption
<1>1. \A marks \in [Keys -> Nat] : \A gone : Ended(h, marks, gone, t) \in HoldsType
    BY DEF Ended, HoldsType
<1>2. [j \in Keys |-> IF t < h.warm[j] THEN h.warm[j] ELSE 0] \in [Keys -> Nat]
    BY DEF HoldsType
<1>3. Expired(h, t) \in HoldsType BY <1>1, <1>2 DEF Expired
<1>4. SettledHold(h, id, t) \in HoldsType BY <1>1 DEF SettledHold, HoldsType
<1>5. StaysWarm(h, k, t) \in HoldsType BY DEF StaysWarm, HoldsType
<1>6. StartsWarming(h, k, t) \in HoldsType
    <2>1. [key |-> k, id |-> h.next, since |-> t] \in Warming BY DEF HoldsType, Warming
    <2>2. QED BY <2>1 DEF StartsWarming, HoldsType
<1>7. QED BY <1>3, <1>4, <1>5, <1>6

-----------------------------------------------------------------------------
(* The queue.                                                              *)

(* The smaller of two naturals.                                            *)
LEMMA MinOfTwo ==
    ASSUME NEW m \in Nat, NEW n \in Nat
    PROVE  Min({m, n}) \in Nat /\ Min({m, n}) <= m
<1>1. CASE m <= n
    <2>1. \A y \in {m, n} : m <= y BY <1>1
    <2>2. \A x \in {m, n} : (\A y \in {m, n} : x <= y) => x = m BY <1>1
    <2>3. Min({m, n}) = m BY <1>1, <2>1, <2>2 DEF Min
    <2>4. QED BY <2>3
<1>2. CASE n < m
    <2>1. \A y \in {m, n} : n <= y BY <1>2
    <2>2. \A x \in {m, n} : (\A y \in {m, n} : x <= y) => x = n BY <1>2
    <2>3. Min({m, n}) = n BY <1>2, <2>1, <2>2 DEF Min
    <2>4. QED BY <1>2, <2>3
<1>3. QED BY <1>1, <1>2

(* A call stands in a queue, and nobody stands in it twice.                *)
Stands(q, c) == \E i \in DOMAIN q : q[i] = c
OneEach(q) == \A i, j \in DOMAIN q : q[i] = q[j] => i = j

(* A queue with its k-th ticket taken out.                                 *)
LEMMA RemoveAtFacts ==
    ASSUME NEW q \in Seq(Calls), NEW k \in 1 .. Len(q)
    PROVE  /\ RemoveAt(q, k) \in Seq(Calls) /\ Len(RemoveAt(q, k)) = Len(q) - 1
           /\ \A j \in 1 .. Len(q) - 1 :
                  RemoveAt(q, k)[j] = IF j < k THEN q[j] ELSE q[j + 1]
<1> DEFINE u == SubSeq(q, 1, k - 1)
           v == SubSeq(q, k + 1, Len(q))
<1>1. u \in Seq(Calls) /\ Len(u) = k - 1 /\ \A j \in 1 .. k - 1 : u[j] = q[j] OBVIOUS
<1>2. /\ v \in Seq(Calls) /\ Len(v) = Len(q) - k
      /\ \A j \in 1 .. Len(q) - k : v[j] = q[k + j]
    OBVIOUS
<1>3. RemoveAt(q, k) = u \o v BY DEF RemoveAt
<1> HIDE DEF u, v
<1>4. /\ u \o v \in Seq(Calls) /\ Len(u \o v) = Len(q) - 1
      /\ \A j \in 1 .. Len(q) - 1 : (u \o v)[j] = IF j < k THEN u[j] ELSE v[j - k + 1]
    <2>1. /\ u \o v \in Seq(Calls) /\ Len(u \o v) = Len(u) + Len(v)
          /\ \A j \in 1 .. Len(u) + Len(v) :
                (u \o v)[j] = IF j <= Len(u) THEN u[j] ELSE v[j - Len(u)]
        BY <1>1, <1>2, ConcatProperties
    <2> DEFINE w == u \o v
    <2> HIDE DEF w
    <2>2. Len(u) = k - 1 /\ Len(v) = Len(q) - k BY <1>1, <1>2
    <2>3. /\ w \in Seq(Calls) /\ Len(w) = Len(q) - 1
          /\ \A j \in 1 .. Len(q) - 1 : w[j] = IF j < k THEN u[j] ELSE v[j - k + 1]
        <3>1. /\ w \in Seq(Calls) /\ Len(w) = Len(u) + Len(v)
              /\ \A j \in 1 .. Len(u) + Len(v) :
                    w[j] = IF j <= Len(u) THEN u[j] ELSE v[j - Len(u)]
            BY <2>1 DEF w
        <3>2. \A j \in Int : j - (k - 1) = j - k + 1 OBVIOUS
        <3>3. QED BY <2>2, <3>1, <3>2
    <2>4. QED BY <2>3 DEF w
<1>5. ASSUME NEW j \in 1 .. Len(q) - 1
      PROVE  (u \o v)[j] = IF j < k THEN q[j] ELSE q[j + 1]
    <2>1. CASE j < k
        <3>1. j \in 1 .. k - 1 BY <2>1
        <3>2. QED BY <1>1, <1>4, <2>1, <3>1
    <2>2. CASE j >= k
        <3>1. j - k + 1 \in 1 .. Len(q) - k /\ k + (j - k + 1) = j + 1 BY <2>2
        <3>2. v[j - k + 1] = q[k + (j - k + 1)] BY <1>2, <3>1
        <3>3. v[j - k + 1] = q[j + 1] BY <3>1, <3>2
        <3>4. (u \o v)[j] = v[j - k + 1] BY <1>4, <2>2
        <3>5. QED BY <2>2, <3>3, <3>4
    <2>3. j < k \/ j >= k OBVIOUS
    <2>4. QED BY <2>1, <2>2, <2>3
<1>6. QED BY <1>3, <1>4, <1>5

(* Leaving the queue takes out the one ticket and no other.                *)
LEMMA RemoveTicket ==
    ASSUME NEW q \in Seq(Calls), OneEach(q), NEW c \in Calls, Stands(q, c)
    PROVE  LET r == RemoveAt(q, CHOOSE i \in DOMAIN q : q[i] = c) IN
           /\ r \in Seq(Calls) /\ OneEach(r)
           /\ \A d : Stands(r, d) <=> Stands(q, d) /\ d # c
<1> DEFINE k == CHOOSE i \in DOMAIN q : q[i] = c
           r == RemoveAt(q, k)
<1>1. k \in DOMAIN q /\ q[k] = c BY DEF Stands
<1>2. k \in 1 .. Len(q) BY <1>1
<1> HIDE DEF k
<1>6. /\ r \in Seq(Calls) /\ Len(r) = Len(q) - 1
      /\ \A j \in 1 .. Len(q) - 1 : r[j] = IF j < k THEN q[j] ELSE q[j + 1]
    BY <1>2, RemoveAtFacts
<1> HIDE DEF r
<1>7. OneEach(r)
    <2> DEFINE at(j) == IF j < k THEN j ELSE j + 1
    <2>1. \A j \in 1 .. Len(r) : at(j) \in DOMAIN q /\ r[j] = q[at(j)] BY <1>2, <1>6
    <2>2. \A i, j \in 1 .. Len(r) : at(i) = at(j) => i = j BY <1>2, <1>6
    <2> HIDE DEF at
    <2>3. \A i, j \in 1 .. Len(r) : r[i] = r[j] => i = j BY <2>1, <2>2 DEF OneEach
    <2>4. QED BY <1>6, <2>3 DEF OneEach
<1>8. ASSUME NEW d PROVE Stands(r, d) <=> Stands(q, d) /\ d # c
    <2>1. ASSUME NEW j \in 1 .. Len(r), r[j] = d PROVE Stands(q, d) /\ d # c
        <3>1. CASE j < k BY <1>1, <1>2, <1>6, <2>1, <3>1 DEF Stands, OneEach
        <3>2. CASE j >= k
            <4>1. j + 1 \in DOMAIN q /\ q[j + 1] = d /\ j + 1 # k
                BY <1>2, <1>6, <2>1, <3>2
            <4>2. QED BY <1>1, <4>1 DEF Stands, OneEach
        <3>3. QED BY <1>2, <2>1, <3>1, <3>2
    <2>2. ASSUME NEW j \in 1 .. Len(q), q[j] = d, d # c PROVE Stands(r, d)
        <3>1. CASE j < k
            <4>1. j \in 1 .. Len(r) /\ r[j] = d BY <1>2, <1>6, <2>2, <3>1
            <4>2. QED BY <1>6, <4>1 DEF Stands
        <3>2. CASE j > k
            <4>1. j - 1 \in 1 .. Len(r) /\ r[j - 1] = d BY <1>2, <1>6, <2>2, <3>2
            <4>2. QED BY <1>6, <4>1 DEF Stands
        <3>3. j # k BY <1>1, <2>2
        <3>4. QED BY <1>2, <3>1, <3>2, <3>3
    <2>3. QED BY <1>6, <2>1, <2>2 DEF Stands
<1>9. QED BY <1>6, <1>7, <1>8 DEF r, k

(* The head leaving makes the rest the queue.                              *)
LEMMA TailTicket ==
    ASSUME NEW q \in Seq(Calls), OneEach(q), NEW c \in Calls, Stands(q, c), Head(q) = c
    PROVE  /\ Tail(q) \in Seq(Calls) /\ OneEach(Tail(q))
           /\ \A d : Stands(Tail(q), d) <=> Stands(q, d) /\ d # c
<1> DEFINE r == Tail(q)
<1>1. Len(q) >= 1 BY DEF Stands
<1>2. /\ r \in Seq(Calls) /\ Len(r) = Len(q) - 1 /\ q[1] = c
      /\ \A j \in 1 .. Len(q) - 1 : r[j] = q[j + 1]
    BY <1>1
<1> HIDE DEF r
<1>3. OneEach(r)
    <2>1. \A i, j \in 1 .. Len(q) - 1 : q[i + 1] = q[j + 1] => i = j BY <1>1 DEF OneEach
    <2>2. \A i, j \in 1 .. Len(q) - 1 : r[i] = r[j] => i = j BY <1>2, <2>1
    <2>3. DOMAIN r = 1 .. Len(q) - 1 BY <1>2
    <2>4. QED BY <2>2, <2>3 DEF OneEach
<1>4. ASSUME NEW d PROVE Stands(r, d) <=> Stands(q, d) /\ d # c
    <2>1. ASSUME NEW j \in 1 .. Len(q) - 1, r[j] = d PROVE Stands(q, d) /\ d # c
        BY <1>1, <1>2, <2>1 DEF Stands, OneEach
    <2>2. ASSUME NEW j \in 1 .. Len(q), q[j] = d, d # c PROVE Stands(r, d)
        <3>1. j - 1 \in 1 .. Len(r) /\ r[j - 1] = d BY <1>1, <1>2, <2>2
        <3>2. QED BY <1>2, <3>1 DEF Stands
    <2>3. QED BY <1>2, <2>1, <2>2 DEF Stands
<1>5. QED BY <1>2, <1>3, <1>4 DEF r

(* One attempt over a queue that holds the call's ticket: it leaves the    *)
(* queue when it is shed or granted, and nobody else does.                 *)
LEMMA QueueAfterFacts ==
    ASSUME NEW q \in Seq(Calls), OneEach(q), NEW c \in Calls, Stands(q, c)
    PROVE  /\ QueueAfter(c, q) \in Seq(Calls) /\ OneEach(QueueAfter(c, q))
           /\ \A d : Stands(QueueAfter(c, q), d) <=>
                  Stands(q, d) /\ (d = c => ~(Shed(c) \/ Granted(c, q)))
<1>1. CASE Shed(c) BY <1>1, RemoveTicket DEF QueueAfter
<1>2. CASE ~Shed(c) /\ Granted(c, q)
    <2>1. Head(q) = c BY <1>2 DEF Granted
    <2>2. QueueAfter(c, q) = Tail(q) BY <1>2 DEF QueueAfter
    <2>3. QED BY <1>2, <2>1, <2>2, TailTicket
<1>3. CASE ~Shed(c) /\ ~Granted(c, q) BY <1>3 DEF QueueAfter
<1>4. QED BY <1>1, <1>2, <1>3

(* Standing at the end of a queue one is not in.                           *)
LEMMA AppendTicket ==
    ASSUME NEW q \in Seq(Calls), OneEach(q), NEW c \in Calls, ~Stands(q, c)
    PROVE  /\ Append(q, c) \in Seq(Calls) /\ OneEach(Append(q, c))
           /\ \A d : Stands(Append(q, c), d) <=> Stands(q, d) \/ d = c
           /\ q # <<>> => Head(Append(q, c)) = Head(q)
<1>1. /\ Append(q, c) \in Seq(Calls) /\ Len(Append(q, c)) = Len(q) + 1
      /\ \A j \in 1 .. Len(q) : Append(q, c)[j] = q[j]
      /\ Append(q, c)[Len(q) + 1] = c
    OBVIOUS
<1>2. OneEach(Append(q, c)) BY <1>1 DEF OneEach, Stands
<1>3. ASSUME NEW d PROVE Stands(Append(q, c), d) <=> Stands(q, d) \/ d = c
    <2>1. ASSUME NEW j \in 1 .. Len(q) + 1, Append(q, c)[j] = d PROVE Stands(q, d) \/ d = c
        BY <1>1, <2>1 DEF Stands
    <2>2. ASSUME NEW j \in 1 .. Len(q), q[j] = d PROVE Stands(Append(q, c), d)
        <3>1. j \in 1 .. Len(Append(q, c)) /\ Append(q, c)[j] = d BY <1>1, <2>2
        <3>2. QED BY <1>1, <3>1 DEF Stands
    <2>3. Stands(Append(q, c), c)
        <3>1. Len(q) + 1 \in 1 .. Len(Append(q, c)) BY <1>1
        <3>2. QED BY <1>1, <3>1 DEF Stands
    <2>4. QED BY <1>1, <2>1, <2>2, <2>3 DEF Stands
<1>4. q # <<>> => Head(Append(q, c)) = Head(q) BY <1>1
<1>5. QED BY <1>1, <1>2, <1>3, <1>4

-----------------------------------------------------------------------------
(* Types and the queue, proved together: the ticket an attempt takes out   *)
(* is well typed only because it is in the queue.                          *)

QueueInv ==
    /\ TypeOK /\ QueueIsWaiting
    /\ \A c \in Calls : pc[c] = "arrive" => key[c] \in Keys

(* Setting one call's entry of a function, here to naturals.               *)
LEMMA SetFacts ==
    ASSUME NEW f \in [Calls -> Nat], NEW c \in Calls, NEW v \in Nat
    PROVE  /\ Set(f, c, v) \in [Calls -> Nat] /\ Set(f, c, v)[c] = v
           /\ \A d \in Calls : d # c => Set(f, c, v)[d] = f[d]
BY DEF Set

(* A call moved to another stage.                                          *)
LEMMA GoToFacts ==
    ASSUME TypeOK, NEW c \in Calls, NEW s \in Stages, GoTo(c, s)
    PROVE  /\ pc' \in [Calls -> Stages] /\ pc'[c] = s
           /\ \A d \in Calls : d # c => pc'[d] = pc[d]
BY DEF TypeOK, GoTo

(* A step that leaves the queue alone, from a stage outside it to another. *)
LEMMA QueueKept ==
    ASSUME QueueInv, NEW c \in Calls, NEW s \in Stages \ {"queued", "arrive"}, GoTo(c, s),
           waiting' = waiting, pc[c] # "queued", key' = key \/ key' = Set(key, c, NoKey),
           TypeOK'
    PROVE  QueueInv'
<1>1. /\ pc'[c] = s /\ \A d \in Calls : d # c => pc'[d] = pc[d]
    BY GoToFacts DEF QueueInv
<1>2. \A d \in Calls : pc'[d] = "queued" <=> pc[d] = "queued" BY <1>1
<1>3. QueueIsWaiting' BY <1>2 DEF QueueInv, QueueIsWaiting
<1>4. \A d \in Calls : d # c => key'[d] = key[d] BY DEF QueueInv, TypeOK, Set
<1>5. \A d \in Calls : pc'[d] = "arrive" => key'[d] \in Keys BY <1>1, <1>4 DEF QueueInv
<1>6. QED BY <1>3, <1>5 DEF QueueInv

(* Where a call goes from the queue or the wire is a stage outside it.     *)
LEMMA AfterStage ==
    ASSUME NEW c \in Calls
    PROVE  After(c) \in {"answered", "idle"} /\ After(c) \in Stages
BY DEF After, Stages

(* A new call.                                                             *)
LEMMA QueueInvStart ==
    ASSUME QueueInv, NEW c \in Calls, NEW k \in Keys \cup {NoKey}, Start(c, k)
    PROVE  QueueInv'
<1>1. starts' \in 0 .. MaxStarts BY GateAssumption DEF QueueInv, TypeOK, Start
<1>2. CASE k = NoKey
    <2>1. GoTo(c, "enter") /\ UNCHANGED <<key, stamp>> BY <1>2 DEF Start
    <2>2. pc' \in [Calls -> Stages] BY <2>1, GoToFacts DEF QueueInv, Stages
    <2>3. TypeOK' BY <1>1, <2>1, <2>2 DEF QueueInv, TypeOK, Start, gate, prewarm
    <2>4. pc[c] # "queued" /\ waiting' = waiting BY DEF Start, Runs, gate
    <2>5. QED BY <2>1, <2>3, <2>4, QueueKept DEF Stages
<1>3. CASE k # NoKey
    <2>1. /\ GoTo(c, "arrive") /\ key' = Set(key, c, k) /\ stamp' = Set(stamp, c, now)
          /\ k \in Keys
        BY <1>3 DEF Start
    <2>2. /\ pc' \in [Calls -> Stages] /\ pc'[c] = "arrive"
          /\ \A d \in Calls : d # c => pc'[d] = pc[d]
        BY <2>1, GoToFacts DEF QueueInv, Stages
    <2>3. /\ key' \in [Calls -> Keys \cup {NoKey}] /\ key'[c] = k
          /\ \A d \in Calls : d # c => key'[d] = key[d]
        BY <2>1 DEF QueueInv, TypeOK, Set
    <2>4. now \in Nat BY DEF QueueInv, TypeOK
    <2>5. stamp' \in [Calls -> Nat] BY <2>1, <2>4, SetFacts DEF QueueInv, TypeOK
    <2>6. TypeOK' BY <1>1, <2>2, <2>3, <2>5 DEF QueueInv, TypeOK, Start, gate, prewarm
    <2>7. \A d \in Calls : pc'[d] = "queued" <=> pc[d] = "queued"
        BY <2>2 DEF Start, Runs
    <2>8. QueueIsWaiting' BY <2>7 DEF QueueInv, QueueIsWaiting, Start, gate
    <2>9. QED BY <2>1, <2>2, <2>3, <2>6, <2>8 DEF QueueInv
<1>4. QED BY <1>2, <1>3

(* Arrival at the hold.                                                    *)
LEMMA QueueInvArrive ==
    ASSUME QueueInv, NEW c \in Calls, Arrive(c)
    PROVE  QueueInv'
<1> DEFINE h == Expired(holds, stamp[c])
<1>1. /\ stamp[c] \in Nat /\ key[c] \in Keys /\ pc[c] = "arrive" /\ waiting' = waiting
    BY DEF QueueInv, TypeOK, Arrive, Runs
<1>2. h \in HoldsType BY <1>1, HoldsTypes DEF QueueInv, TypeOK
<1>3. PICK s \in {"enter", "held", "send"} : GoTo(c, s) BY DEF Arrive
<1>4. pc' \in [Calls -> Stages] BY <1>3, GoToFacts DEF QueueInv, Stages
<1>5. /\ holds' \in HoldsType /\ on' \in [Calls -> Nat] /\ until' \in [Calls -> Nat]
    <2>1. StaysWarm(h, key[c], stamp[c]) \in HoldsType
             /\ StartsWarming(h, key[c], stamp[c]) \in HoldsType
        BY <1>1, <1>2, HoldsTypes
    <2>2. \A w \in h.warming : w.id \in Nat /\ w.since + HOLD_MAX \in Nat
        BY <1>2, HoldsAssumption DEF HoldsType, Warming
    <2>3. h.next \in Nat /\ stamp[c] + HOLD_MAX \in Nat
        BY <1>1, <1>2, HoldsAssumption DEF HoldsType
    <2> HIDE DEF h
    <2>4. on \in [Calls -> Nat] /\ until \in [Calls -> Nat] BY DEF QueueInv, TypeOK
    <2>5. CASE holds' = StaysWarm(h, key[c], stamp[c]) /\ UNCHANGED <<on, until>>
        BY <2>1, <2>4, <2>5
    <2>6. CASE \E w \in h.warming : /\ holds' = h /\ on' = Set(on, c, w.id)
                                    /\ until' = Set(until, c, w.since + HOLD_MAX)
        <3>1. PICK w \in h.warming : /\ holds' = h /\ on' = Set(on, c, w.id)
                                     /\ until' = Set(until, c, w.since + HOLD_MAX)
            BY <2>6
        <3>2. w.id \in Nat /\ w.since + HOLD_MAX \in Nat BY <2>2
        <3>3. QED BY <1>2, <2>4, <3>1, <3>2, SetFacts
    <2>7. CASE /\ holds' = StartsWarming(h, key[c], stamp[c])
               /\ on' = Set(on, c, h.next) /\ until' = Set(until, c, stamp[c] + HOLD_MAX)
        BY <2>1, <2>3, <2>4, <2>7, SetFacts
    <2>8. QED BY <2>5, <2>6, <2>7 DEF Arrive, WarmingKey, h
<1>6. /\ key' = Set(key, c, NoKey) /\ key' \in [Calls -> Keys \cup {NoKey}]
      /\ stamp' \in [Calls -> Nat] /\ notifying' \subseteq Calls
    BY DEF QueueInv, TypeOK, Arrive, Set, NotifiesNext
<1>7. TypeOK' BY <1>4, <1>5, <1>6 DEF QueueInv, TypeOK, Arrive
<1>8. QED BY <1>1, <1>3, <1>6, <1>7, QueueKept DEF Stages

(* A turn of the wait behind a pre-warm.                                   *)
LEMMA QueueInvWait ==
    ASSUME QueueInv, NEW c \in Calls, Wait(c)
    PROVE  QueueInv'
<1>1. now \in Nat /\ until[c] \in Nat /\ pc[c] = "held" /\ waiting' = waiting /\ key' = key
    BY DEF QueueInv, TypeOK, Wait, Runs
<1>2. holds' = Expired(holds, now) /\ holds' \in HoldsType
    <2>1. holds' = Expired(holds, now) BY DEF Wait
    <2>2. ASSUME NEW k \in Keys PROVE holds' \in HoldsType
        BY <1>1, <2>1, HoldsTypes DEF QueueInv, TypeOK
    <2>3. ASSUME Keys = {} PROVE holds' \in HoldsType
        BY <2>1, <2>3, <1>1 DEF QueueInv, TypeOK, HoldsType, Expired, Ended
    <2>4. QED BY <2>1, <2>2, <2>3
<1>3. CASE Waits(holds', on[c])
    <2>1. /\ asleep' = asleep \cup {c} /\ wake' = Set(wake, c, until[c])
          /\ UNCHANGED <<pc, on, until, bound, notifying>>
        BY <1>3 DEF Wait
    <2>2. wake' \in [Calls -> Nat] BY <1>1, <2>1, SetFacts DEF QueueInv, TypeOK
    <2>3. TypeOK' BY <1>2, <2>1, <2>2 DEF QueueInv, TypeOK, Wait
    <2>4. QED BY <1>1, <2>1, <2>3 DEF QueueInv, QueueIsWaiting
<1>4. CASE ~Waits(holds', on[c])
    <2>1. /\ GoTo(c, "enter") /\ ForgetsPrewarm(c) /\ NotifiesNext(c)
          /\ UNCHANGED <<asleep, wake>>
        BY <1>4 DEF Wait
    <2>2. on' \in [Calls -> Nat] /\ until' \in [Calls -> Nat] /\ bound' \in [Calls -> Nat]
        BY <2>1, SetFacts DEF QueueInv, TypeOK, ForgetsPrewarm
    <2>3. pc' \in [Calls -> Stages] BY <2>1, GoToFacts DEF QueueInv, Stages
    <2>4. notifying' \subseteq Calls BY <2>1 DEF QueueInv, TypeOK, NotifiesNext
    <2>5. TypeOK' BY <1>2, <2>1, <2>2, <2>3, <2>4 DEF QueueInv, TypeOK, Wait
    <2>6. QED BY <1>1, <2>1, <2>5, QueueKept DEF Stages
<1>5. QED BY <1>3, <1>4

(* The pre-warm sets out for the queue, and a call reads the clock.        *)
LEMMA QueueInvClock ==
    ASSUME QueueInv, NEW c \in Calls, Send(c) \/ Enter(c) \/ PrewarmEnds(c)
    PROVE  QueueInv'
<1>1. now \in Nat /\ until[c] \in Nat /\ pc[c] # "queued" /\ waiting' = waiting /\ key' = key
    BY DEF QueueInv, TypeOK, Send, Enter, PrewarmEnds, Runs, gate
<1>2. CASE Send(c)
    <2> DEFINE left == IF until[c] > now THEN until[c] - now ELSE 0
    <2>1. left \in Nat BY <1>1
    <2>2. bound' = Set(bound, c, left) /\ GoTo(c, "enter") BY <1>2 DEF Send
    <2> HIDE DEF left
    <2>3. bound' \in [Calls -> Nat] BY <2>1, <2>2, SetFacts DEF QueueInv, TypeOK
    <2>4. pc' \in [Calls -> Stages] BY <2>2, GoToFacts DEF QueueInv, Stages
    <2>5. TypeOK' BY <1>2, <2>3, <2>4 DEF QueueInv, TypeOK, Send, gate
    <2>6. QED BY <1>1, <2>2, <2>5, QueueKept DEF Stages
<1>3. CASE Enter(c) \/ PrewarmEnds(c)
    <2>1. PICK s \in {"ticket", "release"} : GoTo(c, s)
        BY <1>3 DEF Enter, PrewarmEnds
    <2>2. stamp' = Set(stamp, c, now) BY <1>3 DEF Enter, PrewarmEnds
    <2>3. stamp' \in [Calls -> Nat] BY <1>1, <2>2, SetFacts DEF QueueInv, TypeOK
    <2>4. pc' \in [Calls -> Stages] BY <2>1, GoToFacts DEF QueueInv, Stages
    <2>5. TypeOK' BY <1>3, <2>3, <2>4 DEF QueueInv, TypeOK, Enter, PrewarmEnds, gate, prewarm
    <2>6. QED BY <1>1, <2>1, <2>5, QueueKept DEF Stages
<1>4. QED BY <1>2, <1>3

(* The answer, settled: the permits keep their type and the call its.      *)
LEMMA QueueInvWire ==
    ASSUME QueueInv, NEW c \in Calls,
           (\E a \in Answers : Answered(c, a)) \/ Settle(c) \/ Panic(c) \/ Drop(c)
    PROVE  QueueInv'
<1>1. now \in Nat /\ stamp[c] \in Nat /\ pc[c] # "queued" /\ waiting' = waiting /\ key' = key
    BY DEF QueueInv, TypeOK, Answered, Settle, Panic, Drop, Runs, gate
<1>2. ASSUME NEW a \in Answers, Answered(c, a) PROVE QueueInv'
    <2>1. /\ answer' = Set(answer, c, a) /\ stamp' = Set(stamp, c, now) /\ GoTo(c, "settle")
        BY <1>2 DEF Answered
    <2>2. stamp' \in [Calls -> Nat] BY <1>1, <2>1, SetFacts DEF QueueInv, TypeOK
    <2>3. answer' \in [Calls -> Answers \cup {NoAnswer}] BY <2>1 DEF QueueInv, TypeOK, Set
    <2>4. pc' \in [Calls -> Stages] BY <2>1, GoToFacts DEF QueueInv, Stages
    <2>5. TypeOK' BY <1>2, <2>2, <2>3, <2>4 DEF QueueInv, TypeOK, Answered, gate, prewarm
    <2>6. QED BY <1>1, <2>1, <2>5, QueueKept DEF Stages
<1>3. CASE Settle(c)
    <2> DEFINE a == answer[c]
    <2>1. a \in Answers \cup {NoAnswer} BY DEF QueueInv, TypeOK
    <2>2. /\ permits' = IF a.kind = "ok" THEN Succeeded(permits, stamp[c])
                        ELSE IF a.kind = "429" THEN RateLimited(permits, stamp[c], a.retry)
                        ELSE permits
          /\ quiet' = Max({quiet} \cup {stamp[c] + wait : wait \in a.retry})
          /\ answer' = Set(answer, c, NoAnswer) /\ stamp' = Set(stamp, c, 0) /\ GoTo(c, "drop")
        BY <1>3 DEF Settle
    <2> HIDE DEF a
    <2>3. permits' \in PermitsType
        <3>1. permits \in PermitsType BY DEF QueueInv, TypeOK
        <3>2. Succeeded(permits, stamp[c]) \in PermitsType
                 /\ RateLimited(permits, stamp[c], a.retry) \in PermitsType
            BY <1>1, <2>1, <3>1, PermitsTypes
        <3>3. QED BY <2>2, <3>1, <3>2
    <2>4. quiet' \in Nat BY <1>1, <2>1, <2>2, HoldUntilType DEF QueueInv, TypeOK
    <2>5. stamp' \in [Calls -> Nat] BY <2>2, SetFacts DEF QueueInv, TypeOK
    <2>6. answer' \in [Calls -> Answers \cup {NoAnswer}] BY <2>2 DEF QueueInv, TypeOK, Set
    <2>7. pc' \in [Calls -> Stages] BY <2>2, GoToFacts DEF QueueInv, Stages
    <2>8. TypeOK'
        BY <1>3, <2>3, <2>4, <2>5, <2>6, <2>7 DEF QueueInv, TypeOK, Settle, prewarm
    <2>9. QED BY <1>1, <2>2, <2>8, QueueKept DEF Stages
<1>4. CASE Panic(c)
    <2>1. GoTo(c, "drop") /\ dying' = dying \cup {c} BY <1>4 DEF Panic
    <2>2. pc' \in [Calls -> Stages] BY <2>1, GoToFacts DEF QueueInv, Stages
    <2>3. TypeOK' BY <1>4, <2>1, <2>2 DEF QueueInv, TypeOK, Panic, gate, prewarm
    <2>4. QED BY <1>1, <2>1, <2>3, QueueKept DEF Stages
<1>5. CASE Drop(c)
    <2>1. GoTo(c, After(c)) /\ permits' = GivenBack(permits) /\ NotifiesNext(c)
        BY <1>5 DEF Drop
    <2>2. pc' \in [Calls -> Stages] BY <2>1, AfterStage, GoToFacts DEF QueueInv
    <2>3. permits' \in PermitsType
        BY <1>1, <2>1, PermitsTypes DEF QueueInv, TypeOK
    <2>4. dying' \subseteq Calls /\ notifying' \subseteq Calls
        BY <1>5, <2>1 DEF QueueInv, TypeOK, Drop, NotifiesNext
    <2>5. TypeOK' BY <1>5, <2>2, <2>3, <2>4 DEF QueueInv, TypeOK, Drop, prewarm
    <2>6. QED BY <1>1, <2>1, <2>5, AfterStage, QueueKept
<1>6. QED BY <1>2, <1>3, <1>4, <1>5

(* An attempt over a queue with the caller's ticket in it: the caller is   *)
(* queued afterwards exactly when its ticket is still there.               *)
LEMMA QueueInvAttempt ==
    ASSUME QueueInv, NEW c \in Calls, TakeTicket(c) \/ TryAgain(c)
    PROVE  QueueInv'
<1>1. PICK q \in {waiting, Append(waiting, c)} :
            /\ Attempt(c, q) /\ q \in Seq(Calls) /\ OneEach(q) /\ Stands(q, c)
            /\ \A d \in Calls : d # c => (Stands(q, d) <=> pc[d] = "queued")
    <2>1. OneEach(waiting) /\ waiting \in Seq(Calls)
             /\ \A d \in Calls : pc[d] = "queued" <=> Stands(waiting, d)
        BY DEF QueueInv, TypeOK, QueueIsWaiting, OneEach, Stands
    <2>2. CASE TakeTicket(c)
        <3>1. pc[c] = "ticket" /\ Attempt(c, Append(waiting, c))
            BY <2>2 DEF TakeTicket, Runs
        <3>2. ~Stands(waiting, c) BY <2>1, <3>1
        <3>3. QED BY <2>1, <3>1, <3>2, AppendTicket
    <2>3. CASE TryAgain(c) BY <2>1, <2>3 DEF TryAgain, Runs
    <2>4. QED BY <2>2, <2>3
<1> DEFINE leaves == Shed(c) \/ Granted(c, q)
<1>2. /\ waiting' \in Seq(Calls) /\ OneEach(waiting')
      /\ \A d : Stands(waiting', d) <=> Stands(q, d) /\ (d = c => ~leaves)
    BY <1>1, QueueAfterFacts DEF Attempt
<1>3. PICK s \in {"flight", "answered", "idle", "queued"} :
            GoTo(c, s) /\ (s = "queued" <=> ~leaves)
    BY <1>1, AfterStage DEF Attempt
<1>4. /\ pc' \in [Calls -> Stages] /\ pc'[c] = s
      /\ \A d \in Calls : d # c => pc'[d] = pc[d]
    BY <1>3, GoToFacts DEF QueueInv, Stages
<1> HIDE DEF leaves
<1>5. \A d \in Calls : pc'[d] = "queued" <=> Stands(waiting', d)
    BY <1>1, <1>2, <1>3, <1>4
<1>6. QueueIsWaiting' BY <1>2, <1>5 DEF QueueIsWaiting, OneEach, Stands
<1>7. permits' \in PermitsType
    <2>1. permits \in PermitsType /\ 0 \in Nat /\ NoAnswer \in Answers \cup {NoAnswer}
        BY DEF QueueInv, TypeOK
    <2>2. Taken(permits) \in PermitsType BY <2>1, PermitsTypes
    <2>3. permits' = IF Granted(c, q) THEN Taken(permits) ELSE permits BY <1>1 DEF Attempt
    <2>4. QED BY <2>1, <2>2, <2>3
<1>8. Deadline(c) \in Nat BY GateAssumption DEF QueueInv, TypeOK, Deadline
<1>9. SleepsUntil(c, q) \in Nat
    <2>1. permits.holdUntil \in Nat BY DEF QueueInv, TypeOK, PermitsType
    <2>2. QED BY <1>8, <2>1, MinOfTwo DEF SleepsUntil
<1>10. stamp' \in [Calls -> Nat] /\ wake' \in [Calls -> Nat]
    <2>1. stamp' = stamp \/ stamp' = Set(stamp, c, 0) BY <1>1 DEF Attempt
    <2>2. wake' = wake \/ wake' = Set(wake, c, SleepsUntil(c, q)) BY <1>1 DEF Attempt
    <2>3. stamp \in [Calls -> Nat] /\ wake \in [Calls -> Nat] BY DEF QueueInv, TypeOK
    <2>4. /\ Set(stamp, c, 0) \in [Calls -> Nat]
          /\ Set(wake, c, SleepsUntil(c, q)) \in [Calls -> Nat]
        BY <1>9, <2>3, SetFacts
    <2>5. QED BY <2>1, <2>2, <2>3, <2>4
<1>11. asleep' \subseteq Calls /\ notifying' \subseteq Calls
    BY <1>1 DEF QueueInv, TypeOK, Attempt
<1>12. TypeOK'
    BY <1>1, <1>2, <1>4, <1>7, <1>10, <1>11 DEF QueueInv, TypeOK, Attempt, prewarm
<1>13. key' = key BY <1>1 DEF Attempt
<1>14. QED BY <1>3, <1>4, <1>6, <1>12, <1>13 DEF QueueInv

(* The end of a pre-warm.                                                  *)
LEMMA QueueInvRelease ==
    ASSUME QueueInv, NEW c \in Calls, Release(c)
    PROVE  QueueInv'
<1>1. stamp[c] \in Nat /\ on[c] \in Nat /\ pc[c] = "release" /\ waiting' = waiting /\ key' = key
    BY DEF QueueInv, TypeOK, Release, Runs
<1>2. /\ holds' = SettledHold(holds, on[c], stamp[c]) /\ ForgetsPrewarm(c)
      /\ stamp' = Set(stamp, c, 0) /\ dying' = dying \ {c} /\ NotifiesNext(c)
    BY DEF Release
<1>3. PICK s \in {"idle", "enter"} : GoTo(c, s) BY DEF Release
<1>4. holds' \in HoldsType
    <2>1. ASSUME NEW k \in Keys PROVE holds' \in HoldsType
        BY <1>1, <1>2, HoldsTypes DEF QueueInv, TypeOK
    <2>2. ASSUME Keys = {} PROVE holds' \in HoldsType
        BY <1>2, <2>2 DEF QueueInv, TypeOK, HoldsType, SettledHold, Ended
    <2>3. QED BY <2>1, <2>2
<1>5. /\ on' \in [Calls -> Nat] /\ until' \in [Calls -> Nat] /\ bound' \in [Calls -> Nat]
      /\ stamp' \in [Calls -> Nat]
    BY <1>2, SetFacts DEF QueueInv, TypeOK, ForgetsPrewarm
<1>6. dying' \subseteq Calls /\ notifying' \subseteq Calls
    BY <1>2 DEF QueueInv, TypeOK, NotifiesNext
<1>7. pc' \in [Calls -> Stages] BY <1>3, GoToFacts DEF QueueInv, Stages
<1>8. TypeOK' BY <1>4, <1>5, <1>6, <1>7 DEF QueueInv, TypeOK, Release
<1>9. QED BY <1>1, <1>3, <1>8, QueueKept DEF Stages

(* The condition variable and the clock move no call.                      *)
LEMMA QueueInvIdle ==
    ASSUME QueueInv,
           Tick \/ (\E c \in Calls : NotifyAll(c) \/ WakesUp(c)) \/ UNCHANGED vars
    PROVE  QueueInv'
<1>1. UNCHANGED <<waiting, pc, key>> BY DEF Tick, NotifyAll, WakesUp, vars, gate
<1>2. TypeOK'
    <2>1. CASE Tick
        <3>1. now' \in 0 .. MaxNow BY <2>1, GateAssumption DEF QueueInv, TypeOK, Tick
        <3>2. QED BY <2>1, <3>1 DEF QueueInv, TypeOK, Tick, gate, prewarm
    <2>2. ASSUME NEW c \in Calls, NotifyAll(c) PROVE TypeOK'
        BY <2>2 DEF QueueInv, TypeOK, NotifyAll, gate, prewarm
    <2>3. ASSUME NEW c \in Calls, WakesUp(c) PROVE TypeOK'
        <3>1. wake' \in [Calls -> Nat] BY <2>3, SetFacts DEF QueueInv, TypeOK, WakesUp
        <3>2. QED BY <2>3, <3>1 DEF QueueInv, TypeOK, WakesUp, gate, prewarm
    <2>4. CASE UNCHANGED vars BY <2>4 DEF QueueInv, TypeOK, vars, gate, prewarm
    <2>5. QED BY <2>1, <2>2, <2>3, <2>4
<1>3. QED BY <1>1, <1>2 DEF QueueInv, QueueIsWaiting

(* The gate starts with an empty queue and every permit free.              *)
LEMMA QueueInvInit == Init => QueueInv
<1> SUFFICES ASSUME Init PROVE QueueInv OBVIOUS
<1>1. permits \in PermitsType BY PermitsAssumption DEF Init, NewPermits, PermitsType
<1>2. holds \in HoldsType BY DEF Init, NewHolds, HoldsType
<1>3. waiting \in Seq(Calls) /\ QueueIsWaiting BY DEF Init, QueueIsWaiting
<1>4. QED BY <1>1, <1>2, <1>3, GateAssumption DEF Init, QueueInv, TypeOK, Stages

(* Every step of the gate.                                                 *)
LEMMA QueueInvNext == QueueInv /\ [Next]_vars => QueueInv'
<1> SUFFICES ASSUME QueueInv, [Next]_vars PROVE QueueInv' OBVIOUS
<1>1. ASSUME NEW c \in Calls, Step(c) PROVE QueueInv'
    BY <1>1, QueueInvArrive, QueueInvWait, QueueInvClock, QueueInvAttempt, QueueInvWire,
       QueueInvRelease, QueueInvIdle DEF Step, TimesOut
<1>2. ASSUME NEW c \in Calls, NEW k \in Keys \cup {NoKey}, Start(c, k) PROVE QueueInv'
    BY <1>2, QueueInvStart
<1>3. ASSUME NEW c \in Calls, Panic(c) PROVE QueueInv' BY <1>3, QueueInvWire
<1>4. CASE Tick \/ (\E c \in Calls : WakesUp(c)) \/ UNCHANGED vars BY <1>4, QueueInvIdle
<1>5. QED BY <1>1, <1>2, <1>3, <1>4 DEF Next

(* Every reachable state of the gate is well typed: in particular the      *)
(* limit stays in 1 .. Cap, whatever answers narrow and widen it.          *)
THEOREM GateTypeCorrect == Spec => []TypeOK
<1>1. QueueInv => TypeOK BY DEF QueueInv
<1>2. QED BY QueueInvInit, QueueInvNext, <1>1, PTL DEF Spec

(* For any number of calls, a call has a ticket in the queue exactly while *)
(* it waits for its turn, and one ticket: shedding takes the caller's own. *)
THEOREM QueueIsExact == Spec => []QueueIsWaiting
<1>1. QueueInv => QueueIsWaiting BY DEF QueueInv
<1>2. QED BY QueueInvInit, QueueInvNext, <1>1, PTL DEF Spec

-----------------------------------------------------------------------------
(* The permits in use are the calls in flight.                             *)

PermitsInv == QueueInv /\ PermitsAreHeld

(* The calls in flight are finitely many.                                  *)
LEMMA InFlightFinite == IsFiniteSet(InFlight) /\ Cardinality(InFlight) \in Nat
<1>1. IsFiniteSet(InFlight) BY GateAssumption, FS_Subset DEF InFlight
<1>2. QED BY <1>1, FS_CardinalityType

(* Who is in flight once a call moved to another stage.                    *)
LEMMA InFlightMoves ==
    ASSUME QueueInv, NEW c \in Calls, NEW s \in Stages, GoTo(c, s)
    PROVE  InFlight' = IF s \in {"flight", "settle", "drop"}
                       THEN InFlight \cup {c} ELSE InFlight \ {c}
<1>1. /\ pc'[c] = s /\ \A d \in Calls : d # c => pc'[d] = pc[d]
    BY GoToFacts DEF QueueInv
<1>2. QED BY <1>1 DEF InFlight

(* No call comes into flight or leaves it, and no permit moves.            *)
LEMMA PermitsKept ==
    ASSUME PermitsInv, permits'.inUse = permits.inUse, InFlight' = InFlight
    PROVE  PermitsAreHeld'
BY DEF PermitsInv, PermitsAreHeld

(* Settling an answer gives no permit back and takes none.                 *)
LEMMA SettleKeepsInUse ==
    ASSUME NEW p, NEW t, NEW waits
    PROVE  /\ Succeeded(p, t).inUse = p.inUse
           /\ RateLimited(p, t, waits).inUse = p.inUse
BY DEF Succeeded, RateLimited

(* Every step of the gate keeps count.                                     *)
LEMMA PermitsInvNext == PermitsInv /\ [Next]_vars => PermitsInv'
<1> SUFFICES ASSUME PermitsInv, [Next]_vars PROVE PermitsAreHeld'
    BY QueueInvNext DEF PermitsInv
<1> USE DEF PermitsInv
<1>1. ASSUME NEW c \in Calls, NEW s \in Stages \ {"flight", "settle", "drop"},
             c \notin InFlight, GoTo(c, s), permits' = permits
      PROVE  PermitsAreHeld'
    BY <1>1, InFlightMoves, PermitsKept
<1>2. ASSUME NEW c \in Calls, Arrive(c) \/ Wait(c) \/ Send(c) \/ Enter(c)
                                \/ PrewarmEnds(c) \/ Release(c)
      PROVE  PermitsAreHeld'
    <2>1. permits' = permits /\ c \notin InFlight
        BY <1>2 DEF Arrive, Wait, Send, Enter, PrewarmEnds, Release, Runs, InFlight, gate
    <2>2. \/ pc' = pc
          \/ \E s \in {"enter", "held", "send", "ticket", "release", "idle"} : GoTo(c, s)
        BY <1>2 DEF Arrive, Wait, Send, Enter, PrewarmEnds, Release
    <2>3. CASE pc' = pc BY <2>1, <2>3, PermitsKept DEF InFlight
    <2>4. QED BY <1>1, <2>1, <2>2, <2>3 DEF Stages
<1>3. ASSUME NEW c \in Calls, NEW k, Start(c, k) PROVE PermitsAreHeld'
    <2>1. permits' = permits /\ c \notin InFlight BY <1>3 DEF Start, Runs, InFlight, gate
    <2>2. \E s \in {"enter", "arrive"} : GoTo(c, s) BY <1>3 DEF Start
    <2>3. QED BY <1>1, <2>1, <2>2 DEF Stages
<1>4. ASSUME NEW c \in Calls, NEW q, Attempt(c, q), pc[c] \in {"ticket", "queued"}
      PROVE  PermitsAreHeld'
    <2>1. c \notin InFlight BY <1>4 DEF InFlight
    <2>2. CASE Granted(c, q)
        <3>1. permits' = Taken(permits) /\ GoTo(c, "flight")
            BY <1>4, <2>2 DEF Attempt, Granted
        <3>2. InFlight' = InFlight \cup {c} BY <3>1, InFlightMoves DEF Stages
        <3>3. Cardinality(InFlight') = Cardinality(InFlight) + 1
            BY <2>1, <3>2, InFlightFinite, FS_AddElement
        <3>4. permits'.inUse = permits.inUse + 1
            BY <3>1 DEF Taken, QueueInv, TypeOK, PermitsType
        <3>5. QED BY <3>3, <3>4 DEF PermitsAreHeld
    <2>3. CASE ~Granted(c, q)
        <3>1. permits' = permits BY <1>4, <2>3 DEF Attempt
        <3>2. \E s \in {"queued", "answered", "idle"} : GoTo(c, s)
            BY <1>4, <2>3, AfterStage DEF Attempt
        <3>3. QED BY <1>1, <2>1, <3>1, <3>2 DEF Stages
    <2>4. QED BY <2>2, <2>3
<1>5. ASSUME NEW c \in Calls,
             (\E a \in Answers : Answered(c, a)) \/ Settle(c) \/ Panic(c)
      PROVE  PermitsAreHeld'
    <2>1. c \in InFlight BY <1>5 DEF Answered, Settle, Panic, Runs, InFlight
    <2>2. \E s \in {"settle", "drop"} : GoTo(c, s) BY <1>5 DEF Answered, Settle, Panic
    <2>3. InFlight' = InFlight BY <2>1, <2>2, InFlightMoves DEF Stages
    <2>4. permits'.inUse = permits.inUse
        <3>1. CASE Settle(c) BY <3>1, SettleKeepsInUse DEF Settle
        <3>2. CASE (\E a \in Answers : Answered(c, a)) \/ Panic(c)
            BY <3>2 DEF Answered, Panic, gate
        <3>3. QED BY <1>5, <3>1, <3>2
    <2>5. QED BY <2>3, <2>4, PermitsKept
<1>6. ASSUME NEW c \in Calls, Drop(c) PROVE PermitsAreHeld'
    <2>1. c \in InFlight BY <1>6 DEF Drop, Runs, InFlight
    <2>2. permits' = GivenBack(permits) /\ GoTo(c, After(c)) BY <1>6 DEF Drop
    <2>3. InFlight' = InFlight \ {c} BY <2>2, AfterStage, InFlightMoves
    <2>4. Cardinality(InFlight') = Cardinality(InFlight) - 1
        BY <2>1, <2>3, InFlightFinite, FS_RemoveElement
    <2>5. Cardinality(InFlight) # 0 BY <2>1, InFlightFinite, FS_EmptySet
    <2>6. permits'.inUse = permits.inUse - 1
        <3>1. permits.inUse # 0 BY <2>5 DEF PermitsAreHeld
        <3>2. QED BY <2>2, <3>1 DEF GivenBack, QueueInv, TypeOK, PermitsType
    <2>7. QED BY <2>4, <2>6 DEF PermitsAreHeld
<1>7. CASE Tick \/ (\E c \in Calls : NotifyAll(c) \/ WakesUp(c)) \/ UNCHANGED vars
    <2>1. permits' = permits /\ pc' = pc BY <1>7 DEF Tick, NotifyAll, WakesUp, vars, gate
    <2>2. QED BY <2>1, PermitsKept DEF InFlight
<1>8. QED
    BY <1>2, <1>3, <1>4, <1>5, <1>6, <1>7 DEF Next, Step, TakeTicket, TryAgain, TimesOut, Runs

(* Nobody is in flight at the start.                                       *)
LEMMA PermitsInvInit == Init => PermitsInv
<1> SUFFICES ASSUME Init PROVE PermitsAreHeld BY QueueInvInit DEF PermitsInv
<1>1. InFlight = {} BY DEF Init, InFlight
<1>2. QED BY <1>1, FS_EmptySet DEF Init, NewPermits, PermitsAreHeld

(* For any number of calls, no permit leaks and none is given back twice:  *)
(* the permits in use are the calls between admission and Admitted::drop,  *)
(* through every answer, shed and unwinding.                               *)
THEOREM NoPermitLeaks == Spec => []PermitsAreHeld
<1>1. PermitsInv => PermitsAreHeld BY DEF PermitsInv
<1>2. QED BY PermitsInvInit, PermitsInvNext, <1>1, PTL DEF Spec

-----------------------------------------------------------------------------
(* Retry-After: the instant the permits hold off until is the latest one   *)
(* any provider asked for.                                                 *)

QuietInv == QueueInv /\ quiet = permits.holdUntil

(* What a step does to the permits: an attempt that is granted takes one,  *)
(* Admitted::settle and Admitted::drop change them, no other step does.    *)
LEMMA PermitSteps ==
    ASSUME QueueInv, [Next]_vars
    PROVE  \/ UNCHANGED <<permits, quiet>>
           \/ permits' = Taken(permits) /\ quiet' = quiet /\ Grants(permits, now)
           \/ permits' = GivenBack(permits) /\ quiet' = quiet
           \/ \E c \in Calls : Settle(c)
<1>1. ASSUME NEW c \in Calls, NEW q, Attempt(c, q)
      PROVE  \/ UNCHANGED <<permits, quiet>>
             \/ permits' = Taken(permits) /\ quiet' = quiet /\ Grants(permits, now)
    BY <1>1 DEF Attempt, Granted
<1>2. ASSUME NEW c \in Calls, Arrive(c) \/ Wait(c) \/ Send(c) \/ Enter(c) \/ PrewarmEnds(c)
                   \/ Release(c) \/ (\E a \in Answers : Answered(c, a)) \/ Panic(c)
                   \/ (\E k \in Keys \cup {NoKey} : Start(c, k)) \/ NotifyAll(c) \/ WakesUp(c)
      PROVE  UNCHANGED <<permits, quiet>>
    BY <1>2 DEF Arrive, Wait, Send, Enter, PrewarmEnds, Release, Answered, Panic, Start,
                NotifyAll, WakesUp, gate
<1>3. ASSUME NEW c \in Calls, Drop(c)
      PROVE  permits' = GivenBack(permits) /\ quiet' = quiet
    BY <1>3 DEF Drop
<1>4. CASE Tick \/ UNCHANGED vars BY <1>4 DEF Tick, vars, gate
<1>5. QED BY <1>1, <1>2, <1>3, <1>4 DEF Next, Step, TakeTicket, TryAgain, TimesOut

(* Every step keeps the two instants equal.                                *)
LEMMA QuietInvNext == QuietInv /\ [Next]_vars => QuietInv'
<1> SUFFICES ASSUME QuietInv, [Next]_vars PROVE quiet' = permits'.holdUntil
    BY QueueInvNext DEF QuietInv
<1> USE DEF QuietInv
<1>1. permits \in PermitsType /\ quiet \in Nat BY DEF QueueInv, TypeOK
<1>2. CASE UNCHANGED <<permits, quiet>> BY <1>2
<1>3. CASE quiet' = quiet /\ permits' \in {Taken(permits), GivenBack(permits)}
    BY <1>1, <1>3 DEF Taken, GivenBack, PermitsType
<1>4. ASSUME NEW c \in Calls, Settle(c) PROVE quiet' = permits'.holdUntil
    <2> DEFINE a == answer[c]
    <2>1. a \in Answers \cup {NoAnswer} /\ stamp[c] \in Nat BY DEF QueueInv, TypeOK
    <2>2. /\ permits' = IF a.kind = "ok" THEN Succeeded(permits, stamp[c])
                        ELSE IF a.kind = "429" THEN RateLimited(permits, stamp[c], a.retry)
                        ELSE permits
          /\ quiet' = Max({quiet} \cup {stamp[c] + wait : wait \in a.retry})
        BY <1>4 DEF Settle
    <2> HIDE DEF a
    <2>3. CASE a.kind = "429"
        <3>1. permits' = RateLimited(permits, stamp[c], a.retry) BY <2>2, <2>3
        <3>2. permits'.holdUntil
                 = Max({permits.holdUntil} \cup {stamp[c] + wait : wait \in a.retry})
            BY <3>1 DEF RateLimited
        <3>3. QED BY <2>2, <3>2
    <2>4. CASE a.kind # "429"
        <3>1. a.retry = {} BY <2>1, <2>4, AnswerFacts
        <3>2. {quiet} \cup {stamp[c] + wait : wait \in a.retry} = {quiet, quiet} BY <3>1
        <3>3. quiet' = quiet BY <1>1, <2>2, <3>2, MaxOfTwo
        <3>4. permits'.holdUntil = permits.holdUntil BY <2>2, <2>4 DEF Succeeded
        <3>5. QED BY <3>3, <3>4
    <2>5. QED BY <2>3, <2>4
<1>5. QED BY <1>2, <1>3, <1>4, PermitSteps

(* No step grants a permit while the endpoint holds off.                   *)
LEMMA GrantsAreQuiet ==
    QuietInv /\ [Next]_vars => [permits'.inUse > permits.inUse => quiet <= now]_vars
<1> SUFFICES ASSUME QuietInv, [Next]_vars, permits'.inUse > permits.inUse PROVE quiet <= now
    OBVIOUS
<1>1. permits \in PermitsType /\ now \in Nat BY DEF QuietInv, QueueInv, TypeOK
<1>2. permits.inUse \in Nat /\ permits.holdUntil \in Nat BY <1>1 DEF PermitsType
<1>3. permits' # permits BY <1>2
<1>4. permits' # GivenBack(permits)
    <2>1. SUFFICES ASSUME permits' = GivenBack(permits) PROVE FALSE OBVIOUS
    <2>2. permits'.inUse = IF permits.inUse = 0 THEN 0 ELSE permits.inUse - 1
        BY <1>1, <2>1 DEF GivenBack, PermitsType
    <2>3. QED BY <1>2, <2>2
<1>5. ASSUME NEW c \in Calls, Settle(c) PROVE FALSE
    <2>1. permits'.inUse = permits.inUse BY <1>5, SettleKeepsInUse DEF Settle
    <2>2. QED BY <1>2, <2>1
<1>6. Grants(permits, now) BY <1>3, <1>4, <1>5, PermitSteps DEF QuietInv
<1>7. QED BY <1>1, <1>2, <1>6 DEF Grants, HoldsOff, QuietInv

(* No permit is granted before the end of any Retry-After ever received:   *)
(* of two overlapping ones the shorter never cuts the longer.              *)
THEOREM RetryAfterKept == Spec => RetryAfterIsKept
<1>1. Init => QuietInv BY QueueInvInit DEF QuietInv, Init, NewPermits
<1>2. QED BY <1>1, QuietInvNext, GrantsAreQuiet, PTL DEF Spec, RetryAfterIsKept

-----------------------------------------------------------------------------
(* The hold: a pre-warm stops holding only by its own end or its bound.    *)
(* The clock a call hands to the hold may be old, but never ahead.         *)

StampInv == QueueInv /\ \A c \in Calls : stamp[c] <= now

(* Holds::expire ends the pre-warms whose bound has passed.                *)
LEMMA ExpiredFacts ==
    ASSUME NEW h, NEW t
    PROVE  /\ Expired(h, t).warming = {w \in h.warming : ~(w.since + HOLD_MAX <= t)}
           /\ Expired(h, t).next = h.next
<1>1. \A marks, gone : /\ Ended(h, marks, gone, t).warming = h.warming \ gone
                       /\ Ended(h, marks, gone, t).next = h.next
    BY DEF Ended
<1>2. /\ Expired(h, t).warming = h.warming \ {w \in h.warming : w.since + HOLD_MAX <= t}
      /\ Expired(h, t).next = h.next
    BY <1>1 DEF Expired
<1>3. QED BY <1>2

(* Holds::settle ends the one it is given.                                 *)
LEMMA SettledHoldFacts ==
    ASSUME NEW h, NEW id, NEW t
    PROVE  /\ SettledHold(h, id, t).warming = {w \in h.warming : w.id # id}
           /\ SettledHold(h, id, t).next = h.next
<1>1. \A marks, gone : /\ Ended(h, marks, gone, t).warming = h.warming \ gone
                       /\ Ended(h, marks, gone, t).next = h.next
    BY DEF Ended
<1>2. /\ SettledHold(h, id, t).warming = h.warming \ {w \in h.warming : w.id = id}
      /\ SettledHold(h, id, t).next = h.next
    BY <1>1 DEF SettledHold
<1>3. QED BY <1>2

(* A cold key nobody is warming adds a pre-warm under a new number.        *)
LEMMA StartsWarmingFacts ==
    ASSUME NEW h, NEW k, NEW t
    PROVE  /\ StartsWarming(h, k, t).warming
                = h.warming \cup {[key |-> k, id |-> h.next, since |-> t]}
           /\ StartsWarming(h, k, t).next = h.next + 1
BY DEF StartsWarming

(* A warm key arrived at touches no pre-warm.                              *)
LEMMA StaysWarmFacts ==
    ASSUME NEW h \in HoldsType, NEW k \in Keys, NEW t \in Nat
    PROVE  StaysWarm(h, k, t).warming = h.warming /\ StaysWarm(h, k, t).next = h.next
BY DEF StaysWarm, HoldsType

(* The stamp is read off the clock.                                        *)
LEMMA StampInvNext == StampInv /\ [Next]_vars => StampInv'
<1> SUFFICES ASSUME StampInv, [Next]_vars, NEW d \in Calls PROVE stamp'[d] <= now'
    BY QueueInvNext DEF StampInv
<1>1. /\ stamp \in [Calls -> Nat] /\ now \in Nat /\ stamp[d] \in Nat /\ stamp[d] <= now
    BY DEF StampInv, QueueInv, TypeOK
<1>2. ASSUME NEW c \in Calls, now' = now, stamp' \in {stamp, Set(stamp, c, now), Set(stamp, c, 0)}
      PROVE  stamp'[d] <= now'
    BY <1>1, <1>2 DEF Set
<1>3. ASSUME NEW c \in Calls, Step(c) PROVE stamp'[d] <= now'
    <2>1. now' = now /\ stamp' \in {stamp, Set(stamp, c, now), Set(stamp, c, 0)}
        BY <1>3 DEF Step, Arrive, Wait, Send, Enter, TakeTicket, TryAgain, Attempt, Answered,
                    Settle, Drop, PrewarmEnds, Release, NotifyAll, TimesOut, WakesUp
    <2>2. QED BY <1>2, <2>1
<1>4. ASSUME NEW c \in Calls,
             (\E k \in Keys \cup {NoKey} : Start(c, k)) \/ Panic(c) \/ WakesUp(c)
      PROVE  stamp'[d] <= now'
    <2>1. now' = now /\ stamp' \in {stamp, Set(stamp, c, now)}
        BY <1>4 DEF Start, Panic, WakesUp
    <2>2. QED BY <1>2, <2>1
<1>5. CASE Tick BY <1>1, <1>5 DEF Tick
<1>6. CASE UNCHANGED vars BY <1>1, <1>6 DEF vars
<1>7. QED BY <1>3, <1>4, <1>5, <1>6 DEF Next

(* What a step may take out of the pre-warms in flight.                    *)
LEMMA HoldsEndStep ==
    StampInv /\ [Next]_vars =>
        [\A w \in holds.warming \ holds'.warming :
            \/ w.since + HOLD_MAX <= now
            \/ \E c \in Calls : pc[c] = "release" /\ on[c] = w.id]_vars
<1> SUFFICES ASSUME StampInv, [Next]_vars, NEW w \in holds.warming, w \notin holds'.warming
             PROVE  \/ w.since + HOLD_MAX <= now
                    \/ \E c \in Calls : pc[c] = "release" /\ on[c] = w.id
    OBVIOUS
<1>1. now \in Nat /\ holds \in HoldsType /\ w.since \in Nat
    BY DEF StampInv, QueueInv, TypeOK, HoldsType, Warming
<1>2. ASSUME NEW c \in Calls, Arrive(c) PROVE w.since + HOLD_MAX <= now
    <2> DEFINE h == Expired(holds, stamp[c])
    <2>1. /\ stamp[c] \in Nat /\ stamp[c] <= now /\ key[c] \in Keys
        BY <1>2 DEF StampInv, QueueInv, TypeOK, Arrive, Runs
    <2>2. h \in HoldsType BY <1>1, <2>1, HoldsTypes
    <2>3. h.warming \subseteq holds'.warming
        <3> HIDE DEF h
        <3>1. /\ StaysWarm(h, key[c], stamp[c]).warming = h.warming
              /\ h.warming \subseteq StartsWarming(h, key[c], stamp[c]).warming
            BY <2>1, <2>2, StaysWarmFacts, StartsWarmingFacts
        <3>2. holds' \in {h, StaysWarm(h, key[c], stamp[c]), StartsWarming(h, key[c], stamp[c])}
            BY <1>2 DEF Arrive, h
        <3>3. QED BY <3>1, <3>2
    <2>4. h.warming = {v \in holds.warming : ~(v.since + HOLD_MAX <= stamp[c])}
        BY ExpiredFacts
    <2>5. w.since + HOLD_MAX <= stamp[c] BY <2>3, <2>4
    <2>6. QED BY <1>1, <2>1, <2>5, HoldsAssumption
<1>3. ASSUME NEW c \in Calls, Wait(c) PROVE w.since + HOLD_MAX <= now
    BY <1>3, ExpiredFacts DEF Wait
<1>4. ASSUME NEW c \in Calls, Release(c) PROVE pc[c] = "release" /\ on[c] = w.id
    BY <1>4, SettledHoldFacts DEF Release, Runs
<1>5. ASSUME holds' = holds PROVE FALSE BY <1>5
<1>6. ASSUME NEW c \in Calls, Send(c) \/ Enter(c) \/ TakeTicket(c) \/ TryAgain(c)
                   \/ PrewarmEnds(c) \/ (\E a \in Answers : Answered(c, a)) \/ Settle(c)
                   \/ Panic(c) \/ Drop(c) \/ (\E k \in Keys \cup {NoKey} : Start(c, k))
                   \/ NotifyAll(c) \/ WakesUp(c)
      PROVE  FALSE
    BY <1>5, <1>6 DEF Send, Enter, TakeTicket, TryAgain, Attempt, PrewarmEnds, Answered,
                      Settle, Panic, Drop, Start, NotifyAll, WakesUp, gate
<1>7. CASE Tick \/ UNCHANGED vars BY <1>5, <1>7 DEF Tick, vars, gate
<1>8. QED BY <1>2, <1>3, <1>4, <1>6, <1>7 DEF Next, Step, TimesOut

(* For any number of keys and pre-warms, a pre-warm holds the calls behind *)
(* it until its own sender is done with it or HOLD_MAX has passed, even    *)
(* though arrive and settle are handed a clock read before the lock.       *)
THEOREM HoldsEndOnTime == Spec => HoldsToTheEnd
<1>1. Init => StampInv BY QueueInvInit DEF StampInv, Init
<1>2. QED BY <1>1, StampInvNext, HoldsEndStep, PTL DEF Spec, HoldsToTheEnd

-----------------------------------------------------------------------------
(* Nobody sleeps through its turn.                                         *)

(* Somebody is about to notify everybody. *)
Noticed == notifying # {} \/ \E d \in Calls : pc[d] = "drop"

(* A pre-warm's number names it, ...                                       *)
PrewarmIds ==
    /\ \A w \in holds.warming : w.id < holds.next
    /\ \A v, w \in holds.warming : v.id = w.id => v = w

(* ... and a call held behind it knows its bound.                          *)
HeldBound ==
    \A c \in Calls : pc[c] = "held" =>
        /\ on[c] < holds.next
        /\ \A w \in holds.warming : w.id = on[c] => until[c] = w.since + HOLD_MAX

(* A head asleep has no permit to take, or sleeps no longer than the       *)
(* endpoint holds off.                                                     *)
HeadSleeps(c) ==
    pc[c] = "queued" /\ Head(waiting) = c =>
        Noticed \/ permits.inUse >= permits.limit \/ wake[c] <= permits.holdUntil

(* A held call asleep sleeps until its pre-warm's bound and no longer.     *)
HeldSleeps(c) ==
    pc[c] = "held" => /\ wake[c] = until[c]
                      /\ Noticed \/ wake[c] <= now \/ Waits(holds, on[c])

Sleepers ==
    \A c \in asleep : pc[c] \in {"queued", "held"} /\ HeadSleeps(c) /\ HeldSleeps(c)

SleepInv == QueueInv /\ PrewarmIds /\ HeldBound /\ Sleepers

(* What arriving at the hold leaves of it, for the call that arrives and   *)
(* for the calls already held.                                             *)
LEMMA HoldInvArrive ==
    ASSUME SleepInv, NEW c \in Calls, Arrive(c)
    PROVE  PrewarmIds' /\ HeldBound'
<1> DEFINE h == Expired(holds, stamp[c])
<1>1. /\ stamp[c] \in Nat /\ key[c] \in Keys /\ holds \in HoldsType
      /\ on \in [Calls -> Nat] /\ until \in [Calls -> Nat]
    BY DEF SleepInv, QueueInv, TypeOK, Arrive, Runs
<1>2. h \in HoldsType /\ h.next \in Nat BY <1>1, HoldsTypes DEF HoldsType
<1>3. h.warming \subseteq holds.warming /\ h.next = holds.next
    <2>1. h.warming = {w \in holds.warming : ~(w.since + HOLD_MAX <= stamp[c])}
             /\ h.next = holds.next
        BY ExpiredFacts
    <2>2. QED BY <2>1
<1>4. \A w \in h.warming : w.id \in Nat /\ w.since \in Nat BY <1>2 DEF HoldsType, Warming
<1>5. \/ /\ holds' = StaysWarm(h, key[c], stamp[c]) /\ GoTo(c, "enter")
         /\ UNCHANGED <<on, until>>
      \/ \E w \in h.warming :
            /\ holds' = h /\ GoTo(c, "held")
            /\ on' = Set(on, c, w.id) /\ until' = Set(until, c, w.since + HOLD_MAX)
      \/ /\ holds' = StartsWarming(h, key[c], stamp[c]) /\ GoTo(c, "send")
         /\ on' = Set(on, c, h.next) /\ until' = Set(until, c, stamp[c] + HOLD_MAX)
    BY DEF Arrive, WarmingKey
<1> HIDE DEF h
<1>6. /\ \A w \in h.warming : w.id < h.next
      /\ \A v, w \in h.warming : v.id = w.id => v = w
      /\ \A d \in Calls : pc[d] = "held" =>
            /\ on[d] < h.next
            /\ \A w \in h.warming : w.id = on[d] => until[d] = w.since + HOLD_MAX
    BY <1>3 DEF SleepInv, PrewarmIds, HeldBound
<1>7. CASE /\ holds' = StaysWarm(h, key[c], stamp[c]) /\ GoTo(c, "enter")
           /\ UNCHANGED <<on, until>>
    <2>1. holds'.warming = h.warming /\ holds'.next = h.next
        BY <1>1, <1>2, <1>7, StaysWarmFacts
    <2>2. \A d \in Calls : pc'[d] = "held" => pc[d] = "held"
        BY <1>7, GoToFacts DEF SleepInv, QueueInv, Stages
    <2>3. QED BY <1>6, <1>7, <2>1, <2>2 DEF PrewarmIds, HeldBound
<1>8. CASE \E w \in h.warming :
            /\ holds' = h /\ GoTo(c, "held")
            /\ on' = Set(on, c, w.id) /\ until' = Set(until, c, w.since + HOLD_MAX)
    <2>1. PICK w \in h.warming :
            /\ holds' = h /\ GoTo(c, "held")
            /\ on' = Set(on, c, w.id) /\ until' = Set(until, c, w.since + HOLD_MAX)
        BY <1>8
    <2>2. PrewarmIds' BY <1>6, <2>1 DEF PrewarmIds
    <2>3. on'[c] = w.id /\ until'[c] = w.since + HOLD_MAX BY <1>1, <2>1 DEF Set
    <2>4. \A d \in Calls : d # c => /\ on'[d] = on[d] /\ until'[d] = until[d]
                                    /\ pc'[d] = pc[d]
        BY <1>1, <2>1, GoToFacts DEF Set, SleepInv, QueueInv, Stages
    <2>5. ASSUME NEW d \in Calls, pc'[d] = "held"
          PROVE  /\ on'[d] < h.next
                 /\ \A v \in h.warming : v.id = on'[d] => until'[d] = v.since + HOLD_MAX
        <3>1. CASE d = c BY <1>6, <2>3, <3>1
        <3>2. CASE d # c BY <1>6, <2>4, <2>5, <3>2
        <3>3. QED BY <3>1, <3>2
    <2>6. QED BY <2>1, <2>2, <2>5 DEF HeldBound
<1>9. CASE /\ holds' = StartsWarming(h, key[c], stamp[c]) /\ GoTo(c, "send")
           /\ on' = Set(on, c, h.next) /\ until' = Set(until, c, stamp[c] + HOLD_MAX)
    <2> DEFINE new == [key |-> key[c], id |-> h.next, since |-> stamp[c]]
    <2>1. holds'.warming = h.warming \cup {new} /\ holds'.next = h.next + 1 /\ new.id = h.next
        BY <1>9, StartsWarmingFacts
    <2> HIDE DEF new
    <2>2. \A w \in h.warming : w.id < h.next + 1 /\ w.id # h.next BY <1>2, <1>4, <1>6
    <2>3. PrewarmIds' BY <1>2, <1>6, <2>1, <2>2 DEF PrewarmIds
    <2>4. \A d \in Calls : pc'[d] = "held" =>
            pc[d] = "held" /\ on'[d] = on[d] /\ until'[d] = until[d]
        BY <1>1, <1>9, GoToFacts DEF Set, SleepInv, QueueInv, Stages
    <2>5. \A d \in Calls : pc[d] = "held" => on[d] < h.next + 1 /\ on[d] # h.next
        BY <1>1, <1>2, <1>6
    <2>6. QED BY <1>6, <2>1, <2>3, <2>4, <2>5 DEF HeldBound
<1>10. QED BY <1>5, <1>7, <1>8, <1>9

(* The other steps only take pre-warms out, and let held calls go.         *)
LEMMA HoldInvKept ==
    ASSUME SleepInv, holds'.warming \subseteq holds.warming, holds'.next = holds.next,
           \A d \in Calls : pc'[d] = "held" =>
                pc[d] = "held" /\ on'[d] = on[d] /\ until'[d] = until[d]
    PROVE  PrewarmIds' /\ HeldBound'
BY DEF SleepInv, PrewarmIds, HeldBound

(* A step after which somebody will notify, and no one fell asleep.        *)
LEMMA SleepersNoticed ==
    ASSUME Sleepers, asleep' \subseteq asleep, Noticed',
           \A d \in asleep' : pc'[d] = pc[d] /\ wake'[d] = wake[d] /\ until'[d] = until[d]
    PROVE  Sleepers'
BY DEF Sleepers, HeadSleeps, HeldSleeps

(* A step of one call, awake, that no sleeper can tell from nothing: none  *)
(* of what the sleepers wait for changes, and nobody is kept from          *)
(* notifying.                                                              *)
LEMMA SleepersUnmoved ==
    ASSUME Sleepers, asleep' \subseteq asleep, UNCHANGED <<permits, holds, waiting>>,
           Noticed => Noticed', now' \in Nat, now \in Nat, now <= now',
           wake \in [Calls -> Nat], asleep \subseteq Calls,
           \A d \in asleep' : /\ pc'[d] = pc[d] /\ wake'[d] = wake[d]
                              /\ on'[d] = on[d] /\ until'[d] = until[d]
    PROVE  Sleepers'
<1>1. ASSUME NEW d \in asleep' PROVE HeadSleeps(d)' /\ HeldSleeps(d)'
    <2>1. /\ pc'[d] = pc[d] /\ wake'[d] = wake[d] /\ on'[d] = on[d] /\ until'[d] = until[d]
          /\ d \in asleep /\ wake[d] \in Nat
        OBVIOUS
    <2>2. HeadSleeps(d) /\ HeldSleeps(d) BY <2>1 DEF Sleepers
    <2>3. HeadSleeps(d)' BY <2>1, <2>2 DEF HeadSleeps
    <2>4. wake[d] <= now => wake'[d] <= now' BY <2>1
    <2>5. HeldSleeps(d)' BY <2>1, <2>2, <2>4 DEF HeldSleeps, Waits
    <2>6. QED BY <2>3, <2>5
<1>2. QED BY <1>1 DEF Sleepers

(* The steps a thread takes outside the hold and the queue.                *)
LEMMA SleepInvPlain ==
    ASSUME SleepInv, NEW c \in Calls,
           \/ \E k \in Keys \cup {NoKey} : Start(c, k)
           \/ Send(c) \/ Enter(c) \/ PrewarmEnds(c)
           \/ \E a \in Answers : Answered(c, a)
    PROVE  PrewarmIds' /\ HeldBound' /\ Sleepers'
<1>1. /\ UNCHANGED <<permits, holds, waiting, on, until, asleep, wake, notifying, now>>
      /\ c \notin asleep /\ pc[c] # "drop"
    BY DEF Start, Send, Enter, PrewarmEnds, Answered, Runs, gate, prewarm
<1>2. \E s \in {"enter", "arrive", "ticket", "release", "settle"} : GoTo(c, s)
    BY DEF Start, Send, Enter, PrewarmEnds, Answered
<1>3. pc'[c] # "held" /\ \A d \in Calls : d # c => pc'[d] = pc[d]
    BY <1>2, GoToFacts DEF SleepInv, QueueInv, Stages
<1>4. PrewarmIds' /\ HeldBound' BY <1>1, <1>3, HoldInvKept
<1>5. Noticed => Noticed' BY <1>1, <1>3 DEF Noticed
<1>6. now \in Nat /\ wake \in [Calls -> Nat] /\ asleep \subseteq Calls
    BY DEF SleepInv, QueueInv, TypeOK
<1>7. \A d \in asleep' : d \in Calls /\ d # c BY <1>1, <1>6
<1>8. Sleepers'
    BY <1>1, <1>3, <1>5, <1>6, <1>7, SleepersUnmoved DEF SleepInv
<1>9. QED BY <1>4, <1>8

(* The steps that notify, or after which the call has a drop to make.      *)
LEMMA SleepInvNotifies ==
    ASSUME SleepInv, NEW c \in Calls,
           Arrive(c) \/ Settle(c) \/ Panic(c) \/ Drop(c) \/ Release(c)
    PROVE  PrewarmIds' /\ HeldBound' /\ Sleepers'
<1>1. c \notin asleep /\ UNCHANGED <<asleep, wake>>
    BY DEF Arrive, Settle, Panic, Drop, Release, Runs
<1>2. /\ asleep \subseteq Calls /\ on \in [Calls -> Nat] /\ until \in [Calls -> Nat]
      /\ holds \in HoldsType /\ TypeOK
    BY DEF SleepInv, QueueInv, TypeOK
<1>3. \E s \in {"enter", "held", "send", "drop", "answered", "idle"} : GoTo(c, s)
    BY AfterStage DEF Arrive, Settle, Panic, Drop, Release
<1>4. \A d \in Calls : d # c => pc'[d] = pc[d] BY <1>2, <1>3, GoToFacts DEF Stages
<1>5. Noticed'
    <2>1. CASE Settle(c) \/ Panic(c)
        <3>1. GoTo(c, "drop") BY <2>1 DEF Settle, Panic
        <3>2. pc'[c] = "drop" BY <1>2, <3>1, GoToFacts DEF Stages
        <3>3. QED BY <3>2 DEF Noticed
    <2>2. CASE Arrive(c) \/ Drop(c) \/ Release(c)
        BY <2>2 DEF Arrive, Drop, Release, NotifiesNext, Noticed
    <2>3. QED BY <2>1, <2>2
<1>6. \A d \in Calls : d # c => on'[d] = on[d] /\ until'[d] = until[d]
    <2>1. CASE Arrive(c) BY <1>2, <2>1 DEF Arrive, Set
    <2>2. CASE Release(c) BY <1>2, <2>2 DEF Release, ForgetsPrewarm, Set
    <2>3. CASE Settle(c) \/ Panic(c) \/ Drop(c)
        BY <2>3 DEF Settle, Panic, Drop, prewarm
    <2>4. QED BY <2>1, <2>2, <2>3
<1>7. Sleepers'
    <2>1. \A d \in asleep' : pc'[d] = pc[d] /\ wake'[d] = wake[d] /\ until'[d] = until[d]
        BY <1>1, <1>2, <1>4, <1>6
    <2>2. QED BY <1>1, <1>5, <2>1, SleepersNoticed DEF SleepInv
<1>8. PrewarmIds' /\ HeldBound'
    <2>1. CASE Arrive(c) BY <2>1, HoldInvArrive
    <2>2. CASE Settle(c) \/ Panic(c) \/ Drop(c) \/ Release(c)
        <3>1. holds'.warming \subseteq holds.warming /\ holds'.next = holds.next
            BY <2>2, SettledHoldFacts DEF Settle, Panic, Drop, Release, gate
        <3>2. \E s \in {"drop", "answered", "idle", "enter"} : GoTo(c, s)
            BY <2>2, AfterStage DEF Settle, Panic, Drop, Release
        <3>3. pc'[c] # "held" BY <1>2, <3>2, GoToFacts DEF Stages
        <3>4. QED BY <1>4, <1>6, <3>1, <3>3, HoldInvKept
    <2>3. QED BY <2>1, <2>2
<1>9. QED BY <1>7, <1>8

(* A turn of the wait behind a pre-warm.  It may end other pre-warms whose *)
(* bound has passed: the calls asleep behind those have slept out.         *)
LEMMA SleepInvWait ==
    ASSUME SleepInv, NEW c \in Calls, Wait(c)
    PROVE  PrewarmIds' /\ HeldBound' /\ Sleepers'
<1>1. /\ now \in Nat /\ asleep \subseteq Calls /\ wake \in [Calls -> Nat]
      /\ on \in [Calls -> Nat] /\ until \in [Calls -> Nat] /\ TypeOK
    BY DEF SleepInv, QueueInv, TypeOK
<1>2. /\ holds' = Expired(holds, now) /\ pc[c] = "held" /\ c \notin asleep
      /\ UNCHANGED <<now, permits, waiting>>
    BY DEF Wait, Runs
<1>3. /\ holds'.warming = {w \in holds.warming : ~(w.since + HOLD_MAX <= now)}
      /\ holds'.next = holds.next
    BY <1>2, ExpiredFacts
<1>4. CASE Waits(holds', on[c])
    <2>1. /\ asleep' = asleep \cup {c} /\ wake' = Set(wake, c, until[c])
          /\ UNCHANGED <<pc, on, until, bound, notifying>>
        BY <1>4 DEF Wait
    <2>2. PrewarmIds' /\ HeldBound' BY <1>3, <2>1, HoldInvKept
    <2>3. wake'[c] = until[c] /\ \A d \in Calls : d # c => wake'[d] = wake[d]
        BY <1>1, <2>1, SetFacts
    <2>4. Noticed' <=> Noticed BY <2>1 DEF Noticed
    <2>5. HeadSleeps(c)' /\ HeldSleeps(c)'
        BY <1>2, <1>4, <2>1, <2>3 DEF HeadSleeps, HeldSleeps
    <2>6. ASSUME NEW d \in asleep PROVE HeadSleeps(d)' /\ HeldSleeps(d)'
        <3>1. HeadSleeps(d) /\ HeldSleeps(d) /\ wake'[d] = wake[d]
            BY <1>1, <1>2, <2>3 DEF SleepInv, Sleepers
        <3>2. HeadSleeps(d)' BY <1>2, <2>1, <2>4, <3>1 DEF HeadSleeps
        <3>3. ASSUME pc[d] = "held", Waits(holds, on[d])
              PROVE  wake[d] <= now \/ Waits(holds', on[d])
            <4>1. PICK w \in holds.warming : w.id = on[d] BY <3>3 DEF Waits
            <4>2. wake[d] = w.since + HOLD_MAX
                BY <1>1, <3>1, <3>3, <4>1 DEF HeldSleeps, SleepInv, HeldBound
            <4>3. QED BY <1>3, <4>1, <4>2 DEF Waits
        <3>4. HeldSleeps(d)' BY <1>2, <2>1, <2>4, <3>1, <3>3 DEF HeldSleeps
        <3>5. QED BY <3>2, <3>4
    <2>7. \A d \in asleep' : pc'[d] \in {"queued", "held"}
        BY <1>2, <2>1 DEF SleepInv, Sleepers
    <2>8. QED BY <2>1, <2>2, <2>5, <2>6, <2>7 DEF Sleepers
<1>5. CASE ~Waits(holds', on[c])
    <2>1. GoTo(c, "enter") /\ ForgetsPrewarm(c) /\ NotifiesNext(c) /\ UNCHANGED <<asleep, wake>>
        BY <1>5 DEF Wait
    <2>2. pc'[c] = "enter" /\ \A d \in Calls : d # c => pc'[d] = pc[d]
        BY <1>1, <2>1, GoToFacts DEF Stages
    <2>3. \A d \in Calls : d # c => on'[d] = on[d] /\ until'[d] = until[d]
        BY <1>1, <2>1 DEF ForgetsPrewarm, Set
    <2>4. PrewarmIds' /\ HeldBound' BY <1>3, <2>2, <2>3, HoldInvKept
    <2>5. Noticed' BY <2>1 DEF NotifiesNext, Noticed
    <2>6. \A d \in asleep' : pc'[d] = pc[d] /\ wake'[d] = wake[d] /\ until'[d] = until[d]
        BY <1>1, <1>2, <2>1, <2>2, <2>3
    <2>7. Sleepers' BY <2>1, <2>5, <2>6, SleepersNoticed DEF SleepInv
    <2>8. QED BY <2>4, <2>7
<1>6. QED BY <1>4, <1>5

(* An attempt: a ticket that leaves notifies; one that stays is behind     *)
(* another, or finds no permit, or sleeps no longer than the hold-off.     *)
LEMMA SleepInvAttempt ==
    ASSUME SleepInv, NEW c \in Calls, TakeTicket(c) \/ TryAgain(c)
    PROVE  PrewarmIds' /\ HeldBound' /\ Sleepers'
<1>1. PICK q \in {waiting, Append(waiting, c)} : Attempt(c, q)
    BY DEF TakeTicket, TryAgain
<1>2. /\ now \in Nat /\ asleep \subseteq Calls /\ wake \in [Calls -> Nat] /\ TypeOK
      /\ permits \in PermitsType /\ waiting \in Seq(Calls)
    <2>1. TypeOK BY DEF SleepInv, QueueInv
    <2>2. QED BY <2>1 DEF TypeOK
<1>3. c \notin asleep /\ pc[c] # "drop" /\ UNCHANGED <<now, holds, on, until>>
    BY <1>1 DEF TakeTicket, TryAgain, Runs, Attempt, prewarm
<1>4. \E s \in {"flight", "answered", "idle", "queued"} : GoTo(c, s)
    BY <1>1, AfterStage DEF Attempt
<1>5. pc'[c] # "held" /\ \A d \in Calls : d # c => pc'[d] = pc[d]
    BY <1>2, <1>4, GoToFacts DEF Stages
<1>6. PrewarmIds' /\ HeldBound' BY <1>3, <1>5, HoldInvKept
<1>7. CASE Shed(c) \/ Granted(c, q)
    <2>1. notifying' = notifying \cup {c} /\ UNCHANGED <<asleep, wake>>
        BY <1>1, <1>7 DEF Attempt, TellsQueue
    <2>2. Noticed' BY <2>1 DEF Noticed
    <2>3. \A d \in asleep' : pc'[d] = pc[d] /\ wake'[d] = wake[d] /\ until'[d] = until[d]
        BY <1>2, <1>3, <1>5, <2>1
    <2>4. Sleepers' BY <2>1, <2>2, <2>3, SleepersNoticed DEF SleepInv
    <2>5. QED BY <1>6, <2>4
<1>8. CASE ~Shed(c) /\ ~Granted(c, q)
    <2>1. /\ waiting' = q /\ permits' = permits /\ notifying' = notifying /\ GoTo(c, "queued")
          /\ asleep' = asleep \cup {c} /\ wake' = Set(wake, c, SleepsUntil(c, q))
        BY <1>1, <1>8 DEF Attempt, QueueAfter, TellsQueue
    <2>2. pc'[c] = "queued" BY <1>2, <2>1, GoToFacts DEF Stages
    <2>3. Noticed => Noticed' BY <1>3, <1>5, <2>1 DEF Noticed
    <2>4. Deadline(c) \in Nat BY GateAssumption DEF SleepInv, QueueInv, TypeOK, Deadline
    <2>5. permits.holdUntil \in Nat /\ permits.inUse \in Nat /\ permits.limit \in Nat
        BY <1>2, PermitsAssumption DEF PermitsType
    <2>6. SleepsUntil(c, q) \in Nat BY <2>4, <2>5, MinOfTwo DEF SleepsUntil
    <2>7. wake'[c] = SleepsUntil(c, q) /\ \A d \in Calls : d # c => wake'[d] = wake[d]
        BY <1>2, <2>1, <2>6, SetFacts
    <2>8. HeadSleeps(c)' /\ HeldSleeps(c)'
        <3>1. HeldSleeps(c)' BY <2>2 DEF HeldSleeps
        <3>2. CASE Head(q) = c /\ HoldsOff(permits, now)
            <4>1. wake'[c] = Min({permits.holdUntil, Deadline(c)})
                BY <2>7, <3>2 DEF SleepsUntil
            <4>2. wake'[c] <= permits.holdUntil BY <2>4, <2>5, <4>1, MinOfTwo
            <4>3. QED BY <2>1, <3>1, <4>2 DEF HeadSleeps
        <3>3. CASE Head(q) = c /\ ~HoldsOff(permits, now)
            <4>1. permits.inUse >= permits.limit BY <1>8, <2>5, <3>3 DEF Granted, Grants
            <4>2. QED BY <2>1, <3>1, <4>1 DEF HeadSleeps
        <3>4. CASE Head(q) # c BY <2>1, <3>1, <3>4 DEF HeadSleeps
        <3>5. QED BY <3>2, <3>3, <3>4
    <2>9. ASSUME NEW d \in asleep PROVE HeadSleeps(d)' /\ HeldSleeps(d)'
        <3>1. /\ d \in Calls /\ d # c /\ pc'[d] = pc[d] /\ wake'[d] = wake[d]
              /\ HeadSleeps(d) /\ HeldSleeps(d)
            BY <1>2, <1>3, <1>5, <2>7 DEF SleepInv, Sleepers
        <3>2. HeldSleeps(d)' BY <1>3, <2>3, <3>1 DEF HeldSleeps, Waits
        <3>3. pc[d] = "queued" => Head(q) = Head(waiting)
            <4>1. pc[d] = "queued" => waiting # <<>>
                BY <3>1 DEF SleepInv, QueueInv, QueueIsWaiting
            <4>2. waiting # <<>> => Head(Append(waiting, c)) = Head(waiting) BY <1>2
            <4>3. QED BY <4>1, <4>2
        <3>4. HeadSleeps(d)' BY <2>1, <2>3, <3>1, <3>3 DEF HeadSleeps
        <3>5. QED BY <3>2, <3>4
    <2>10. \A d \in asleep' : pc'[d] \in {"queued", "held"}
        BY <1>2, <1>5, <2>1, <2>2 DEF SleepInv, Sleepers
    <2>11. QED BY <1>6, <2>1, <2>8, <2>9, <2>10 DEF Sleepers
<1>9. QED BY <1>7, <1>8

(* The condition variable and the clock.                                   *)
LEMMA SleepInvIdle ==
    ASSUME SleepInv,
           Tick \/ (\E c \in Calls : NotifyAll(c) \/ WakesUp(c)) \/ UNCHANGED vars
    PROVE  PrewarmIds' /\ HeldBound' /\ Sleepers'
<1>1. UNCHANGED <<permits, holds, waiting, pc, on, until>>
    BY DEF Tick, NotifyAll, WakesUp, vars, gate, prewarm
<1>2. PrewarmIds' /\ HeldBound' BY <1>1, HoldInvKept
<1>3. /\ now \in Nat /\ wake \in [Calls -> Nat] /\ asleep \subseteq Calls
    BY DEF SleepInv, QueueInv, TypeOK
<1>4. ASSUME NEW c \in Calls, NotifyAll(c) PROVE Sleepers' BY <1>4 DEF NotifyAll, Sleepers
<1>5. CASE Tick \/ (\E c \in Calls : WakesUp(c)) \/ UNCHANGED vars
    <2>1. now' \in Nat /\ now <= now' /\ notifying' = notifying /\ asleep' \subseteq asleep
        BY <1>3, <1>5 DEF Tick, WakesUp, vars
    <2>2. \A d \in asleep' : wake'[d] = wake[d]
        BY <1>3, <1>5 DEF Tick, WakesUp, vars, Set
    <2>3. Noticed => Noticed' BY <1>1, <2>1 DEF Noticed
    <2>4. Sleepers' BY <1>1, <1>3, <2>1, <2>2, <2>3, SleepersUnmoved DEF SleepInv
    <2>5. QED BY <1>2, <2>4
<1>6. QED BY <1>2, <1>4, <1>5

(* Every step keeps the sleepers reachable.                                *)
LEMMA SleepInvNext == SleepInv /\ [Next]_vars => SleepInv'
<1> SUFFICES ASSUME SleepInv, [Next]_vars PROVE PrewarmIds' /\ HeldBound' /\ Sleepers'
    BY QueueInvNext DEF SleepInv
<1>1. ASSUME NEW c \in Calls, Step(c) PROVE PrewarmIds' /\ HeldBound' /\ Sleepers'
    BY <1>1, SleepInvPlain, SleepInvNotifies, SleepInvWait, SleepInvAttempt, SleepInvIdle
    DEF Step, TimesOut
<1>2. ASSUME NEW c \in Calls,
             (\E k \in Keys \cup {NoKey} : Start(c, k)) \/ Panic(c) \/ WakesUp(c)
      PROVE  PrewarmIds' /\ HeldBound' /\ Sleepers'
    BY <1>2, SleepInvPlain, SleepInvNotifies, SleepInvIdle
<1>3. CASE Tick \/ UNCHANGED vars BY <1>3, SleepInvIdle
<1>4. QED BY <1>1, <1>2, <1>3 DEF Next

(* A sleeper that could go has a wait that is over, or will be notified.   *)
LEMMA SleepersAreReachable == SleepInv => NoLostWakeup
<1> SUFFICES ASSUME SleepInv, NEW c \in asleep, CouldGo(c)
             PROVE  wake[c] <= now \/ Noticed
    BY DEF NoLostWakeup, Noticed
<1>1. /\ now \in Nat /\ wake[c] \in Nat /\ permits \in PermitsType
    BY DEF SleepInv, QueueInv, TypeOK
<1>2. permits.holdUntil \in Nat /\ permits.inUse \in Nat /\ permits.limit \in Nat
    BY <1>1, PermitsAssumption DEF PermitsType
<1>3. HeadSleeps(c) /\ HeldSleeps(c) BY DEF SleepInv, Sleepers
<1>4. CASE pc[c] = "queued" /\ Head(waiting) = c /\ Grants(permits, now)
    BY <1>1, <1>2, <1>3, <1>4 DEF HeadSleeps, Grants, HoldsOff
<1>5. CASE pc[c] = "held" /\ ~Waits(holds, on[c]) BY <1>3, <1>5 DEF HeldSleeps
<1>6. QED BY <1>4, <1>5 DEF CouldGo

(* For any number of calls and permits: whenever a call asleep on the      *)
(* gate's condition variable could go on, its wait is over or a notify_all *)
(* is on its way.  No permit, ticket or pre-warm is given up silently.     *)
THEOREM NoSleeperForgotten == Spec => []NoLostWakeup
<1>1. Init => SleepInv
    BY QueueInvInit DEF SleepInv, PrewarmIds, HeldBound, Sleepers, Init, NewHolds
<1>2. QED BY <1>1, SleepInvNext, SleepersAreReachable, PTL DEF Spec
=============================================================================
