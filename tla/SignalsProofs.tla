--------------------------- MODULE SignalsProofs ---------------------------
(***************************************************************************)
(* Signals between residents, for any rooms, runs, capacity, bandwidth and *)
(* refused posts, and the event queue that is each line of an inbox, for   *)
(* every window and order of stamps.                                       *)
(***************************************************************************)
EXTENDS Signals, EventQueue, FiniteSetTheorems, SequenceTheorems, WellFoundedInduction, TLAPS

(* No signal of a line is in it twice.                                     *)
Once(s) == \A j, k \in DOMAIN s : s[j] = s[k] => j = k

(* The signals of a line stand in ledger order.                            *)
Rising(s) == \A j, k \in DOMAIN s : j < k => s[j] < s[k]

(* Every signal of one line was sent before every signal of the other.     *)
Before(s, t) == \A i \in Range(s), j \in Range(t) : i < j

Lanes == {"urgent", "ordinary"}

(* The last signal the rooms were shown, and the ones after it, in order.  *)
Shown == Len(sent) - Len(relayed)
WayInv == Shown \in Nat /\ \A k \in DOMAIN relayed : relayed[k] = Shown + k

(* A room's queue is with its holder, a run of that room, and a run that   *)
(* holds no queue has no signal at its desk.                               *)
HolderInv ==
    /\ \A m \in Rooms : holder[m] # NoRun =>
        /\ RoomOf[holder[m]] = m /\ at[holder[m]] \notin Out /\ box[m] = EmptyBox
    /\ \A r \in Runs : holder[RoomOf[r]] # r =>
        box[r] = EmptyBox /\ slot[r] = <<>> /\ held[r] = <<>> /\ wait[r].kept = 0

(* What the ledger says of the wait a desk keeps, which no other desk has. *)
WaitInv ==
    /\ \A r \in Runs : wait[r].id = 0 => wait[r] = NoWait
    /\ \A r \in Runs : wait[r].id # 0 =>
        waits[wait[r].id] = IF wait[r].left < 0 THEN <<>> ELSE <<"started">>
    /\ \A r, q \in Runs : wait[r].id # 0 /\ wait[q].id = wait[r].id => q = r
    /\ WaitsPair

(* The signals of each line, as they stand.                                *)
Where == [p \in Lines |-> Standing(p)]
Placed(whr, gone, ids) ==
    /\ whr \in [Lines -> Seq(Nat)]
    /\ \A p \in Lines : Once(whr[p]) /\ Range(whr[p]) \subseteq ids \ gone
    /\ \A p, q \in Lines : p # q => Range(whr[p]) \cap Range(whr[q]) = {}
    /\ \A i \in ids \ gone : \E p \in Lines : i \in Range(whr[p])
PlaceInv == Placed(Where, consumed \cup dropped, Ids)

(* What a queue holds, in its lane and in order, and what its holder's slot *)
(* has behind it, of the first n signals sent.                              *)
RoomFor(o) == IF o \in Rooms THEN o ELSE RoomOf[o]
Ordered(b, m, n) ==
    \A lane \in Lanes : Rising(b[lane]) /\ \A i \in Range(b[lane]) : i \in Due(m, lane) /\ i <= n
Behind(b, s, m, n) ==
    /\ Rising(s) /\ \A i \in Range(s) : i \in Ids /\ sent[i].to = m /\ i <= n
    /\ \A lane \in Lanes : Before(b[lane], s)
OrderInv ==
    /\ \A o \in Rooms \cup Runs : Ordered(box[o], RoomFor(o), Shown)
    /\ \A r \in Runs : Behind(box[r], slot[r], RoomOf[r], Shown)

(* What stands in a slot is newer than all its run was given or took.      *)
NewerInv == \A r \in Runs : \A i \in Taken(r), j \in Range(slot[r]) : i < j

(* Until a reply is kept for its wait, every reply to a run that holds its *)
(* room's queue is still on its way to the desk, or it or one before it    *)
(* was let go of; and a run that is out waits for none.                    *)
Unheard(r) ==
    wait[r].id # 0 /\ wait[r].kept = 0 /\ holder[RoomOf[r]] = r =>
        \A i \in Ids : i > wait[r].id /\ Answers(r, wait[r], i) =>
            i \in Range(relayed) \cup Range(slot[r]) \/ LetGo(r, wait[r], i)
SilenceInv == \A r \in Runs : Unheard(r) /\ (at[r] \in Out => wait[r].id = 0)

-----------------------------------------------------------------------------
(* Induction and recursion over the places of a line.                      *)

(* A nonempty set of naturals has a smallest element.                      *)
LEMMA FirstPlace ==
    ASSUME NEW S \in SUBSET Nat, S # {}
    PROVE  \E i \in S : \A j \in S : i <= j
<1> DEFINE R == OpToRel(<, Nat)
<1>1. R = {ss \in Nat \X Nat : ss[1] < ss[2]} BY Zenon DEF OpToRel
<1>2. IsWellFoundedOn(R, Nat) BY NatLessThanWellFounded, Zenon
<1> HIDE DEF R
<1>3. \E x \in S : \A y \in S : ~(<<y, x>> \in R) BY <1>2, WFMin
<1>4. \A x, y \in Nat : y < x => <<y, x>> \in R BY <1>1, Zenon
<1>5. PICK x \in S : \A y \in S : ~(<<y, x>> \in R) BY <1>3
<1>6. \A y \in S : ~(y < x) BY <1>4, <1>5
<1>7. QED BY <1>6

(* Min of such a set is in it and below all of it.                         *)
LEMMA MinFirst ==
    ASSUME NEW S \in SUBSET Nat, S # {}
    PROVE  Min(S) \in S /\ \A t \in S : Min(S) <= t
BY FirstPlace DEF Min

(* Induction up to N, for the set of the numbers it is shown for.          *)
LEMMA UpTo ==
    ASSUME NEW N \in Nat, NEW S, 0 \in S, \A n \in 1 .. N : n - 1 \in S => n \in S
    PROVE  N \in S
<1> DEFINE Bad == {n \in 0 .. N : n \notin S}
<1>1. SUFFICES ASSUME Bad # {} PROVE FALSE OBVIOUS
<1>2. Bad \in SUBSET Nat OBVIOUS
<1>3. PICK k \in Bad : \A j \in Bad : k <= j
    <2> HIDE DEF Bad
    <2> QED BY <1>1, <1>2, FirstPlace
<1>4. k \in 1 .. N /\ k - 1 \in 0 .. N BY <1>3
<1>5. k - 1 \notin Bad BY <1>3, <1>4
<1>6. k - 1 \in S BY <1>4, <1>5
<1>7. QED BY <1>3, <1>4, <1>6

(* A recursion over 0 .. N has a function.                                 *)
Recurs(f, W, N, a, step) ==
    f \in [0 .. N -> W] /\ f[0] = a /\ \A n \in 1 .. N : f[n] = step[<<f[n - 1], n>>]

LEMMA Recursion ==
    ASSUME NEW W, NEW N, NEW a, NEW step,
           N \in Nat, a \in W, step \in [W \X (1 .. N) -> W]
    PROVE  \E f : Recurs(f, W, N, a, step)
<1> DEFINE Good(k, f) == f \in [0 .. k -> W] /\ f[0] = a /\ \A n \in 1 .. k : f[n] = step[<<f[n - 1], n>>]
           S == {k \in 0 .. N : \E f : Good(k, f)}
<1>1. Good(0, [i \in 0 .. 0 |-> a]) OBVIOUS
<1>2. 0 \in S
    <2> HIDE DEF Good
    <2> QED BY <1>1
<1>3. ASSUME NEW k \in 1 .. N, k - 1 \in S PROVE k \in S
    <2>1. PICK f : Good(k - 1, f) BY <1>3
    <2> DEFINE g == [i \in 0 .. k |-> IF i = k THEN step[<<f[k - 1], k>>] ELSE f[i]]
    <2>2. f[k - 1] \in W BY <2>1
    <2>3. step[<<f[k - 1], k>>] \in W BY <2>2
    <2>4. \A i \in 0 .. k : i # k => i \in 0 .. (k - 1) OBVIOUS
    <2>5. g \in [0 .. k -> W] BY <2>1, <2>3, <2>4
    <2>6. g[0] = a BY <2>1
    <2>7. ASSUME NEW n \in 1 .. k PROVE g[n] = step[<<g[n - 1], n>>]
        <3>1. n - 1 \in 0 .. k /\ n - 1 # k /\ g[n - 1] = f[n - 1] OBVIOUS
        <3>2. CASE n = k BY <3>1, <3>2
        <3>3. CASE n # k
            <4>1. n \in 1 .. (k - 1) BY <3>3
            <4>2. f[n] = step[<<f[n - 1], n>>] BY <4>1, <2>1
            <4>3. g[n] = f[n] BY <3>3
            <4>4. QED BY <4>2, <4>3, <3>1
        <3>4. QED BY <3>2, <3>3
    <2>8. Good(k, g) BY <2>5, <2>6, <2>7
    <2> HIDE DEF Good
    <2>9. QED BY <2>8
<1>4. N \in S
    <2> HIDE DEF S
    <2> QED BY <1>2, <1>3, UpTo
<1>5. QED BY <1>4 DEF Recurs

-----------------------------------------------------------------------------
(* Lines.                                                                  *)

LEMMA LineFacts ==
    ASSUME NEW S, NEW s \in Seq(S)
    PROVE  /\ Len(s) \in Nat /\ DOMAIN s = 1 .. Len(s) /\ Range(s) \subseteq S
           /\ \A k \in 1 .. Len(s) : s[k] \in S
           /\ \A i : i \in Range(s) <=> \E k \in 1 .. Len(s) : s[k] = i
BY DEF Range

LEMMA NoneIn ==
    /\ Range(<<>>) = {} /\ Once(<<>>) /\ Rising(<<>>)
    /\ \A t : Before(<<>>, t) /\ Before(t, <<>>)
BY DEF Range, Once, Rising, Before

LEMMA OneIn ==
    ASSUME NEW i
    PROVE  Range(<<i>>) = {i} /\ Once(<<i>>) /\ Rising(<<i>>)
<1>1. DOMAIN <<i>> = {1} /\ <<i>>[1] = i OBVIOUS
<1>2. QED BY <1>1 DEF Range, Once, Rising

(* Two lines one behind the other.                                         *)
LEMMA Joined ==
    ASSUME NEW S, NEW s \in Seq(S), NEW t \in Seq(S)
    PROVE  /\ s \o t \in Seq(S) /\ Range(s \o t) = Range(s) \cup Range(t)
           /\ Once(s) /\ Once(t) /\ Range(s) \cap Range(t) = {} => Once(s \o t)
<1>1. /\ s \o t \in Seq(S) /\ Len(s) \in Nat /\ Len(t) \in Nat
      /\ DOMAIN s = 1..Len(s) /\ DOMAIN t = 1..Len(t) /\ DOMAIN (s \o t) = 1..(Len(s) + Len(t))
    OBVIOUS
<1>2. \A i \in 1..Len(s) : (s \o t)[i] = s[i] /\ s[i] \in Range(s)
    BY <1>1 DEF Range
<1>3. ASSUME NEW i \in 1..(Len(s) + Len(t)), i \notin 1..Len(s)
      PROVE  i - Len(s) \in 1..Len(t) /\ (s \o t)[i] = t[i - Len(s)] /\ t[i - Len(s)] \in Range(t)
    <2>1. i - Len(s) \in 1..Len(t) BY <1>1, <1>3
    <2>2. (s \o t)[i] = t[i - Len(s)] BY <1>1, <1>3
    <2>3. QED BY <2>1, <2>2, <1>1 DEF Range
<1>4. Range(s \o t) = Range(s) \cup Range(t)
    <2>1. \A i \in 1..Len(t) : Len(s) + i \in 1..(Len(s) + Len(t)) /\ (s \o t)[Len(s) + i] = t[i]
        BY <1>1
    <2>2. Range(s) \subseteq Range(s \o t) BY <1>1, <1>2 DEF Range
    <2>3. Range(t) \subseteq Range(s \o t) BY <1>1, <2>1 DEF Range
    <2>4. Range(s \o t) \subseteq Range(s) \cup Range(t) BY <1>1, <1>2, <1>3 DEF Range
    <2>5. QED BY <2>2, <2>3, <2>4
<1>5. ASSUME Once(s), Once(t), Range(s) \cap Range(t) = {},
             NEW i \in 1..(Len(s) + Len(t)), NEW j \in 1..(Len(s) + Len(t)), (s \o t)[i] = (s \o t)[j]
      PROVE  i = j
    <2>1. CASE i \in 1..Len(s) /\ j \in 1..Len(s) BY <2>1, <1>1, <1>2, <1>5 DEF Once
    <2>2. CASE i \in 1..Len(s) /\ j \notin 1..Len(s) BY <2>2, <1>2, <1>3, <1>5
    <2>3. CASE i \notin 1..Len(s) /\ j \in 1..Len(s) BY <2>3, <1>2, <1>3, <1>5
    <2>4. CASE i \notin 1..Len(s) /\ j \notin 1..Len(s)
        <3>1. t[i - Len(s)] = t[j - Len(s)] /\ i - Len(s) \in DOMAIN t /\ j - Len(s) \in DOMAIN t
            BY <2>4, <1>1, <1>3, <1>5
        <3>2. i - Len(s) = j - Len(s) BY <3>1, <1>5 DEF Once
        <3>3. QED BY <3>2, <1>1
    <2>5. QED BY <2>1, <2>2, <2>3, <2>4
<1>6. QED BY <1>1, <1>4, <1>5 DEF Once

LEMMA Appended ==
    ASSUME NEW S, NEW s \in Seq(S), NEW e \in S
    PROVE  /\ Append(s, e) \in Seq(S) /\ Range(Append(s, e)) = Range(s) \cup {e}
           /\ Once(s) /\ e \notin Range(s) => Once(Append(s, e))
<1>1. Append(s, e) = s \o <<e>> /\ <<e>> \in Seq(S) OBVIOUS
<1>2. Range(<<e>>) = {e} /\ Once(<<e>>) BY OneIn
<1>3. PICK t \in Seq(S) : t = <<e>> BY <1>1
<1>4. /\ s \o t \in Seq(S) /\ Range(s \o t) = Range(s) \cup Range(t)
      /\ Once(s) /\ Once(t) /\ Range(s) \cap Range(t) = {} => Once(s \o t)
    BY Joined
<1>5. QED BY <1>1, <1>2, <1>3, <1>4

(* A line ends where its two parts meet.                                   *)
LEMMA Parted ==
    ASSUME NEW S, NEW s \in Seq(S), NEW t \in Seq(S), Once(s \o t)
    PROVE  Once(s) /\ Once(t) /\ Range(s) \cap Range(t) = {}
<1>1. /\ Len(s) \in Nat /\ Len(t) \in Nat
      /\ DOMAIN s = 1..Len(s) /\ DOMAIN t = 1..Len(t) /\ DOMAIN (s \o t) = 1..(Len(s) + Len(t))
    OBVIOUS
<1>2. \A i \in 1..Len(s) : (s \o t)[i] = s[i] /\ i \in 1..(Len(s) + Len(t)) BY <1>1
<1>3. \A i \in 1..Len(t) : (s \o t)[Len(s) + i] = t[i] /\ Len(s) + i \in 1..(Len(s) + Len(t)) BY <1>1
<1>4. Once(s) BY <1>1, <1>2 DEF Once
<1>5. ASSUME NEW i \in 1..Len(t), NEW j \in 1..Len(t), t[i] = t[j] PROVE i = j
    <2>1. Len(s) + i = Len(s) + j BY <1>1, <1>3, <1>5 DEF Once
    <2>2. QED BY <2>1, <1>1
<1>6. ASSUME NEW i \in 1..Len(s), NEW j \in 1..Len(t), s[i] = t[j] PROVE FALSE
    <2>1. i = Len(s) + j BY <1>1, <1>2, <1>3, <1>6 DEF Once
    <2>2. QED BY <2>1, <1>1
<1>7. QED BY <1>1, <1>4, <1>5, <1>6 DEF Once, Range

LEMMA Tailed ==
    ASSUME NEW S, NEW s \in Seq(S), s # <<>>
    PROVE  /\ Tail(s) \in Seq(S) /\ Head(s) \in S /\ Range(s) = Range(Tail(s)) \cup {Head(s)}
           /\ s = <<Head(s)>> \o Tail(s)
           /\ Once(s) => Once(Tail(s)) /\ Head(s) \notin Range(Tail(s))
<1>1. Tail(s) \in Seq(S) /\ Head(s) \in S /\ <<Head(s)>> \in Seq(S) OBVIOUS
<1>2. s = <<Head(s)>> \o Tail(s) OBVIOUS
<1>3. PICK h \in Seq(S), t \in Seq(S) : h = <<Head(s)>> /\ t = Tail(s) BY <1>1
<1>4. Range(h) = {Head(s)} BY <1>3, OneIn
<1>a. Range(h \o t) = Range(h) \cup Range(t) BY Joined
<1>5. Range(s) = Range(h) \cup Range(t) BY <1>2, <1>3, <1>a
<1>6. Once(s) => Once(t) /\ Range(h) \cap Range(t) = {} BY <1>2, <1>3, Parted
<1>7. QED BY <1>1, <1>2, <1>3, <1>4, <1>5, <1>6

(* A line is its first n and what is past them.                            *)
LEMMA Divided ==
    ASSUME NEW S, NEW s \in Seq(S), NEW n \in Int
    PROVE  /\ First(s, n) \in Seq(S) /\ Past(s, n) \in Seq(S) /\ s = First(s, n) \o Past(s, n)
<1>1. Len(s) \in Nat OBVIOUS
<1>2. CASE n <= 0
    <2>1. First(s, n) = <<>> /\ Past(s, n) = s BY <1>2 DEF First, Past
    <2>2. <<>> \in Seq(S) OBVIOUS
    <2>3. QED BY <2>1, <2>2, ConcatEmptySeq
<1>3. CASE n > 0 /\ n < Len(s)
    <2>1. First(s, n) = SubSeq(s, 1, n) /\ Past(s, n) = SubSeq(s, n + 1, Len(s))
        BY <1>3, <1>1 DEF First, Past
    <2>2. SubSeq(s, 1, n) \in Seq(S) /\ SubSeq(s, n + 1, Len(s)) \in Seq(S) BY <1>3, <1>1
    <2> DEFINE f == SubSeq(s, 1, n)
               p == SubSeq(s, n + 1, Len(s))
    <2>3. s = f \o p
        <3>1. Len(f) = n /\ Len(p) = Len(s) - n BY <1>3, <1>1
        <3>2. \A i \in 1 .. n : f[i] = s[i] BY <1>3, <1>1
        <3>3. \A i \in 1 .. Len(s) - n : p[i] = s[n + i] BY <1>3, <1>1
        <3>0. f \in Seq(S) /\ p \in Seq(S) BY <2>2
        <3> HIDE DEF f, p
        <3>4. f \o p \in Seq(S) /\ Len(f \o p) = Len(s) BY <3>0, <3>1, <1>1
        <3>5. ASSUME NEW i \in 1 .. Len(s) PROVE (f \o p)[i] = s[i]
            <4>1. CASE i <= n BY <4>1, <3>1, <3>2, <3>0, <1>3, <1>1
            <4>2. CASE i > n
                <5>1. (f \o p)[i] = p[i - n] BY <4>2, <3>1, <3>0, <1>3, <1>1
                <5>2. i - n \in 1 .. Len(s) - n /\ n + (i - n) = i BY <4>2, <1>1
                <5>3. QED BY <5>1, <5>2, <3>3
            <4>3. i <= n \/ i > n BY <1>1
            <4>4. QED BY <4>1, <4>2, <4>3
        <3>6. QED BY <3>4, <3>5, SeqEqual
    <2>4. QED BY <2>1, <2>2, <2>3
<1>4. CASE n > 0 /\ n >= Len(s)
    <2>1. First(s, n) = SubSeq(s, 1, Len(s)) /\ Past(s, n) = SubSeq(s, n + 1, Len(s))
        BY <1>4, <1>1 DEF First, Past
    <2>2. SubSeq(s, 1, Len(s)) = s BY <1>1
    <2>3. SubSeq(s, n + 1, Len(s)) = <<>> BY <1>4, <1>1
    <2>4. <<>> \in Seq(S) OBVIOUS
    <2>5. QED BY <2>1, <2>2, <2>3, <2>4, ConcatEmptySeq
<1>5. QED BY <1>2, <1>3, <1>4, <1>1

(* What is in each part.                                                   *)
LEMMA DividedFacts ==
    ASSUME NEW S, NEW s \in Seq(S), NEW n \in Int
    PROVE  /\ First(s, n) \in Seq(S) /\ Past(s, n) \in Seq(S)
           /\ Range(s) = Range(First(s, n)) \cup Range(Past(s, n))
           /\ Once(s) => /\ Once(First(s, n)) /\ Once(Past(s, n))
                         /\ Range(First(s, n)) \cap Range(Past(s, n)) = {}
           /\ S \subseteq Int /\ Rising(s) => Rising(Past(s, n))
<1>1. PICK f \in Seq(S), p \in Seq(S) : f = First(s, n) /\ p = Past(s, n) /\ s = f \o p BY Divided
<1>a. Range(f \o p) = Range(f) \cup Range(p) BY Joined
<1>2. Range(s) = Range(f) \cup Range(p) BY <1>1, <1>a
<1>3. Once(s) => Once(f) /\ Once(p) /\ Range(f) \cap Range(p) = {}
    <2>1. Once(f \o p) => Once(f) /\ Once(p) /\ Range(f) \cap Range(p) = {} BY Parted
    <2>2. QED BY <1>1, <2>1
<1>4. ASSUME S \subseteq Int, Rising(s) PROVE Rising(p)
    <2>1. /\ Len(f) \in Nat /\ Len(p) \in Nat /\ DOMAIN p = 1 .. Len(p)
          /\ DOMAIN s = 1 .. (Len(f) + Len(p)) BY <1>1
    <2>2. \A i \in 1..Len(p) : s[Len(f) + i] = p[i] /\ Len(f) + i \in DOMAIN s BY <1>1, <2>1
    <2>3. ASSUME NEW j \in 1 .. Len(p), NEW k \in 1 .. Len(p), j < k PROVE p[j] < p[k]
        <3>1. Len(f) + j < Len(f) + k BY <2>1, <2>3
        <3>2. s[Len(f) + j] < s[Len(f) + k] BY <3>1, <2>2, <1>4 DEF Rising
        <3>3. QED BY <3>2, <2>2
    <2>4. QED BY <2>1, <2>3 DEF Rising
<1>5. QED BY <1>1, <1>2, <1>3, <1>4

(* A line without its k-th.                                                *)
LEMMA Removed ==
    ASSUME NEW S, NEW s \in Seq(S), NEW k \in 1 .. Len(s)
    PROVE  /\ RemoveAt(s, k) \in Seq(S) /\ Range(s) = Range(RemoveAt(s, k)) \cup {s[k]}
           /\ Once(s) => Once(RemoveAt(s, k)) /\ s[k] \notin Range(RemoveAt(s, k))
<1> DEFINE f == SubSeq(s, 1, k - 1)
           g == SubSeq(s, k + 1, Len(s))
<1>1. Len(s) \in Nat /\ k \in Nat /\ s[k] \in S /\ <<s[k]>> \in Seq(S) OBVIOUS
<1>2. f \in Seq(S) /\ g \in Seq(S) BY <1>1
<1>3. s = (f \o <<s[k]>>) \o g
    <2>1. Len(f) = k - 1 /\ Len(g) = Len(s) - k BY <1>1
    <2>2. \A i \in 1 .. k - 1 : f[i] = s[i] BY <1>1
    <2>3. \A i \in 1 .. Len(s) - k : g[i] = s[k + i] BY <1>1
    <2> HIDE DEF f, g
    <2>4. Len((f \o <<s[k]>>) \o g) = Len(s) /\ (f \o <<s[k]>>) \o g \in Seq(S) BY <1>1, <1>2, <2>1
    <2>5. ASSUME NEW i \in 1 .. Len(s) PROVE ((f \o <<s[k]>>) \o g)[i] = s[i]
        <3>1. CASE i < k BY <3>1, <1>1, <1>2, <2>1, <2>2
        <3>2. CASE i = k BY <3>2, <1>1, <1>2, <2>1
        <3>3. CASE i > k
            <4>1. ((f \o <<s[k]>>) \o g)[i] = g[i - k] BY <3>3, <1>1, <1>2, <2>1
            <4>2. i - k \in 1 .. Len(s) - k /\ k + (i - k) = i BY <3>3, <1>1
            <4>3. QED BY <4>1, <4>2, <2>3
        <3>4. i < k \/ i = k \/ i > k BY <1>1
        <3>5. QED BY <3>1, <3>2, <3>3, <3>4
    <2>6. QED BY <2>4, <2>5, SeqEqual
<1>4. RemoveAt(s, k) = f \o g BY DEF RemoveAt
<1> HIDE DEF f, g
<1>5. PICK h \in Seq(S) : h = <<s[k]>> BY <1>1
<1>a. f \o h \in Seq(S) /\ Range(f \o h) = Range(f) \cup Range(h) BY <1>2, Joined
<1>6. PICK u \in Seq(S) : u = f \o h BY <1>a
<1>7. Range(h) = {s[k]} BY <1>5, OneIn
<1>8. Range(u) = Range(f) \cup Range(h) BY <1>a, <1>6
<1>b. s = u \o g BY <1>3, <1>5, <1>6
<1>c. Range(u \o g) = Range(u) \cup Range(g) BY <1>2, Joined
<1>9. Range(s) = Range(u) \cup Range(g) BY <1>b, <1>c
<1>10. f \o g \in Seq(S) /\ Range(f \o g) = Range(f) \cup Range(g) BY <1>2, Joined
<1>11. ASSUME Once(s) PROVE Once(f \o g) /\ s[k] \notin Range(f \o g)
    <2>a. Once(u \o g) BY <1>11, <1>b
    <2>1. Once(u) /\ Once(g) /\ Range(u) \cap Range(g) = {} BY <2>a, <1>2, Parted
    <2>b. Once(f \o h) BY <2>1, <1>6
    <2>2. Once(f) /\ Range(f) \cap Range(h) = {} BY <2>b, <1>2, <1>5, Parted
    <2>3. Once(f \o g) BY <2>1, <2>2, <1>2, <1>8, Joined
    <2>4. QED BY <2>1, <2>2, <2>3, <1>7, <1>8, <1>10
<1>12. QED BY <1>4, <1>7, <1>8, <1>9, <1>10, <1>11

-----------------------------------------------------------------------------
(* The operators on inboxes and desks.                                     *)

Boxes == [returned : Seq(Ids), urgent : Seq(Ids), ordinary : Seq(Ids)]
Waits == [id : {0} \cup Ids, left : -1 .. Patience, kept : {0} \cup Ids]
Heaps == [box : Boxes, kept : {0} \cup Ids, lost : SUBSET Ids]

LEMMA IdFacts ==
    ASSUME TypeOK
    PROVE  /\ Len(sent) \in Nat /\ Ids = 1 .. Len(sent) /\ 0 \notin Ids /\ Ids \subseteq Nat
           /\ \A i \in Ids : sent[i].from \in Rooms /\ sent[i].to \in Rooms /\ sent[i].kind \in Kinds
           /\ \A r \in Runs : RoomOf[r] \in Rooms
           /\ consumed \subseteq Ids /\ dropped \subseteq Ids
<1> DEFINE Signal == [from : Rooms, to : Rooms, kind : Kinds]
<1>1. sent \in Seq(Signal) /\ consumed \subseteq Ids /\ dropped \subseteq Ids BY DEF TypeOK
<1>2. Len(sent) \in Nat /\ Ids = 1 .. Len(sent) BY <1>1 DEF Ids
<1>3. \A i \in 1 .. Len(sent) : sent[i] \in Signal
    <2> HIDE DEF Signal
    <2> QED BY <1>1
<1>4. \A i \in Ids : sent[i].from \in Rooms /\ sent[i].to \in Rooms /\ sent[i].kind \in Kinds
    BY <1>2, <1>3
<1>5. 0 \notin Ids /\ Ids \subseteq Nat BY <1>2
<1>6. \A r \in Runs : RoomOf[r] \in Rooms BY SignalsAssumption
<1> HIDE DEF Signal
<1>7. QED BY <1>1, <1>2, <1>4, <1>5, <1>6

LEMMA DeskTypes ==
    ASSUME TypeOK, NEW r \in Runs
    PROVE  /\ box[r] \in Boxes /\ slot[r] \in Seq(Ids) /\ held[r] \in Seq(Ids) /\ wait[r] \in Waits
           /\ stash[r] \in {0} \cup Ids /\ at[r] \in Places
           /\ Len(slot[r]) \in Nat /\ DOMAIN slot[r] = 1 .. Len(slot[r])
           /\ \A n \in 1 .. Len(slot[r]) : slot[r][n] \in Ids
BY DEF TypeOK, Boxes, Waits

LEMMA BoxTypes ==
    ASSUME NEW b \in Boxes
    PROVE  /\ b.returned \in Seq(Ids) /\ b.urgent \in Seq(Ids) /\ b.ordinary \in Seq(Ids)
           /\ b = [returned |-> b.returned, urgent |-> b.urgent, ordinary |-> b.ordinary]
           /\ \A lane \in Lanes : b[lane] \in Seq(Ids)
BY DEF Boxes, Lanes

LEMMA EmptyBoxType ==
    EmptyBox \in Boxes /\ EmptyBox.returned = <<>> /\ EmptyBox.urgent = <<>> /\ EmptyBox.ordinary = <<>>
<1>1. <<>> \in Seq(Ids) OBVIOUS
<1>2. QED BY <1>1 DEF EmptyBox, Boxes

LEMMA LaneIs ==
    \A i : LaneOf(i) \in Lanes
BY DEF LaneOf, Lanes

LEMMA LaneOfBox ==
    ASSUME NEW b \in Boxes, NEW lane \in Lanes
    PROVE  Lane(b, lane) = b[lane]
BY DEF Lane, Lanes

(* A delivery is behind everything else of its lane.                       *)
LEMMA DeliveredIs ==
    ASSUME NEW b \in Boxes, NEW i \in Ids
    PROVE  /\ Delivered(b, i) \in Boxes /\ Delivered(b, i).returned = b.returned
           /\ \A lane \in Lanes : Delivered(b, i)[lane] =
                IF lane = LaneOf(i) THEN Append(b[lane], i) ELSE b[lane]
<1>0. b.returned \in Seq(Ids) /\ b.urgent \in Seq(Ids) /\ b.ordinary \in Seq(Ids) BY BoxTypes
<1>1. CASE LaneOf(i) = "urgent"
    <2>1. Delivered(b, i) = [b EXCEPT !.urgent = Append(@, i)] BY <1>1 DEF Delivered
    <2>2. Append(b.urgent, i) \in Seq(Ids) BY <1>0
    <2>3. QED BY <1>1, <2>1, <2>2 DEF Boxes, Lanes
<1>2. CASE LaneOf(i) # "urgent"
    <2>1. Delivered(b, i) = [b EXCEPT !.ordinary = Append(@, i)] BY <1>2 DEF Delivered
    <2>2. Append(b.ordinary, i) \in Seq(Ids) BY <1>0
    <2>3. LaneOf(i) = "ordinary" BY <1>2, LaneIs DEF Lanes
    <2>4. QED BY <2>1, <2>2, <2>3 DEF Boxes, Lanes
<1>3. QED BY <1>1, <1>2

LEMMA GivenBackIs ==
    ASSUME NEW b \in Boxes, NEW s \in Seq(Ids)
    PROVE  /\ GivenBack(b, s) \in Boxes /\ GivenBack(b, s).returned = s \o b.returned
           /\ GivenBack(b, s).urgent = b.urgent /\ GivenBack(b, s).ordinary = b.ordinary
<1>1. b.returned \in Seq(Ids) BY BoxTypes
<1>2. s \o b.returned \in Seq(Ids) BY <1>1
<1>3. QED BY <1>2 DEF GivenBack, Boxes

LEMMA PulledIs ==
    ASSUME NEW b \in Boxes
    PROVE  \E u, o \in Int :
             /\ AfterPull(b) \in Boxes
             /\ AfterPull(b).returned = Past(b.returned, Bandwidth)
             /\ AfterPull(b).urgent = Past(b.urgent, u) /\ AfterPull(b).ordinary = Past(b.ordinary, o)
             /\ Pulled(b) = First(b.returned, Bandwidth) \o First(b.urgent, u) \o First(b.ordinary, o)
             /\ Pulled(b) \in Seq(Ids)
<1> DEFINE u == Bandwidth - Len(b.returned)
           o == u - Len(b.urgent)
<1>0. b.returned \in Seq(Ids) /\ b.urgent \in Seq(Ids) /\ b.ordinary \in Seq(Ids) BY BoxTypes
<1>1. Bandwidth \in Int /\ u \in Int /\ o \in Int BY <1>0, SignalsAssumption
<1>2. /\ Pulled(b) = First(b.returned, Bandwidth) \o First(b.urgent, u) \o First(b.ordinary, o)
      /\ AfterPull(b) = [returned |-> Past(b.returned, Bandwidth), urgent |-> Past(b.urgent, u),
                         ordinary |-> Past(b.ordinary, o)]
    BY DEF Pulled, AfterPull
<1> HIDE DEF u, o
<1>3. /\ First(b.returned, Bandwidth) \in Seq(Ids) /\ Past(b.returned, Bandwidth) \in Seq(Ids)
      /\ First(b.urgent, u) \in Seq(Ids) /\ Past(b.urgent, u) \in Seq(Ids)
      /\ First(b.ordinary, o) \in Seq(Ids) /\ Past(b.ordinary, o) \in Seq(Ids)
    BY <1>0, <1>1, Divided
<1>4. AfterPull(b) \in Boxes BY <1>2, <1>3 DEF Boxes
<1>5. Pulled(b) \in Seq(Ids) BY <1>2, <1>3
<1>6. /\ AfterPull(b).returned = Past(b.returned, Bandwidth)
      /\ AfterPull(b).urgent = Past(b.urgent, u) /\ AfterPull(b).ordinary = Past(b.ordinary, o)
    BY <1>2
<1>7. QED BY <1>1, <1>2, <1>4, <1>5, <1>6

(* The steer a desk takes out of its inbox, and where from.                *)
LEMMA SteerIs ==
    ASSUME NEW b \in Boxes
    PROVE  /\ AfterSteer(b) \in Boxes /\ AfterSteer(b).ordinary = b.ordinary
           /\ \/ FirstSteer(b) = 0 /\ AfterSteer(b) = b
              \/ \E k \in 1 .. Len(b.returned) :
                   /\ FirstSteer(b) = b.returned[k] /\ AfterSteer(b).returned = RemoveAt(b.returned, k)
                   /\ AfterSteer(b).urgent = b.urgent
              \/ /\ b.urgent # <<>> /\ FirstSteer(b) = Head(b.urgent)
                 /\ AfterSteer(b).urgent = Tail(b.urgent) /\ AfterSteer(b).returned = b.returned
<1>0. b.returned \in Seq(Ids) /\ b.urgent \in Seq(Ids) /\ b.ordinary \in Seq(Ids) BY BoxTypes
<1>1. CASE Returns(b) # {}
    <2>1. Returns(b) \subseteq 1 .. Len(b.returned) /\ Returns(b) \in SUBSET Nat BY <1>0 DEF Returns
    <2>2. PICK k \in 1 .. Len(b.returned) : k = Min(Returns(b)) BY <1>1, <2>1, MinFirst
    <2>3. FirstSteer(b) = b.returned[k] /\ AfterSteer(b) = [b EXCEPT !.returned = RemoveAt(@, k)]
        BY <1>1, <2>2 DEF FirstSteer, AfterSteer
    <2>4. RemoveAt(b.returned, k) \in Seq(Ids) BY <1>0, Removed
    <2>5. AfterSteer(b) \in Boxes BY <2>3, <2>4 DEF Boxes
    <2>6. QED BY <2>3, <2>5 DEF Boxes
<1>2. CASE Returns(b) = {} /\ b.urgent # <<>>
    <2>1. FirstSteer(b) = Head(b.urgent) /\ AfterSteer(b) = [b EXCEPT !.urgent = Tail(@)]
        BY <1>2 DEF FirstSteer, AfterSteer
    <2>2. Tail(b.urgent) \in Seq(Ids) BY <1>0, <1>2
    <2>3. QED BY <1>2, <2>1, <2>2 DEF Boxes
<1>3. CASE Returns(b) = {} /\ b.urgent = <<>>
    BY <1>3 DEF FirstSteer, AfterSteer
<1>4. QED BY <1>1, <1>2, <1>3

(* A steer is a signal, or none.                                           *)
LEMMA SteerType ==
    ASSUME TypeOK, NEW b \in Boxes
    PROVE  FirstSteer(b) \in {0} \cup Ids
<1>0. b.returned \in Seq(Ids) /\ b.urgent \in Seq(Ids) BY BoxTypes
<1>1. \A k \in 1 .. Len(b.returned) : b.returned[k] \in Ids BY <1>0
<1>2. b.urgent # <<>> => Head(b.urgent) \in Ids BY <1>0
<1>3. QED BY <1>1, <1>2, SteerIs

-----------------------------------------------------------------------------
(* Collecting the slot.                                                    *)

Gather(r, w, a, i) ==
    IF a.lost # {} THEN [a EXCEPT !.lost = @ \cup {i}]
    ELSE IF a.kept = 0 /\ Answers(r, w, i) THEN [a EXCEPT !.kept = i]
    ELSE IF Sheds(a.box, i) THEN [a EXCEPT !.lost = {i}]
    ELSE [a EXCEPT !.box = Delivered(@, i)]

LEMMA GatherType ==
    ASSUME NEW r, NEW w, NEW a \in Heaps, NEW i \in Ids
    PROVE  Gather(r, w, a, i) \in Heaps
<1>1. Delivered(a.box, i) \in Boxes BY DeliveredIs DEF Heaps
<1>2. QED BY <1>1 DEF Gather, Heaps

(* The desk after each signal of its slot.                                 *)
Gathers(r, w, f) ==
    /\ f \in [0 .. Len(slot[r]) -> Heaps]
    /\ f[0] = [box |-> box[r], kept |-> w.kept, lost |-> {}]
    /\ \A n \in 1 .. Len(slot[r]) : f[n] = Gather(r, w, f[n - 1], slot[r][n])

LEMMA CollectIs ==
    ASSUME TypeOK, NEW r \in Runs, NEW w \in Waits
    PROVE  \E f : Gathers(r, w, f) /\ Collect(r, w) = f[Len(slot[r])]
<1> DEFINE N == Len(slot[r])
           base == [box |-> box[r], kept |-> w.kept, lost |-> {}]
           step == [p \in Heaps \X (1 .. N) |-> Gather(r, w, p[1], slot[r][p[2]])]
           F(f) == f = [n \in 0 .. N |-> IF n = 0 THEN base ELSE Gather(r, w, f[n - 1], slot[r][n])]
           h == CHOOSE f : F(f)
<1>0. N \in Nat /\ \A n \in 1 .. N : slot[r][n] \in Ids BY DeskTypes
<1>1. base \in Heaps BY DeskTypes DEF Heaps, Waits
<1>2. step \in [Heaps \X (1 .. N) -> Heaps] BY <1>0, GatherType
<1>3. PICK f \in [0 .. N -> Heaps] : f[0] = base /\ \A n \in 1 .. N : f[n] = step[<<f[n - 1], n>>]
    <2> HIDE DEF step, base, N
    <2>1. \E f : Recurs(f, Heaps, N, base, step) BY <1>0, <1>1, <1>2, Recursion
    <2>2. QED BY <2>1 DEF Recurs
<1>4. \A n \in 1 .. N : f[n] = Gather(r, w, f[n - 1], slot[r][n])
    <2> SUFFICES ASSUME NEW n \in 1 .. N PROVE f[n] = Gather(r, w, f[n - 1], slot[r][n]) OBVIOUS
    <2>1. n - 1 \in 0 .. N BY <1>0
    <2>2. <<f[n - 1], n>> \in Heaps \X (1 .. N) BY <2>1
    <2>3. QED BY <1>3, <2>2
<1>5. F(f)
    <2> HIDE DEF base, N
    <2>1. \A n \in 0 .. N : n # 0 => n \in 1 .. N BY <1>0
    <2>2. QED BY <1>0, <1>3, <1>4, <2>1
<1>6. F(h) BY <1>5
<1>7. Collect(r, w) = h[N] BY DEF Collect, Gather
<1>8. h \in [0 .. N -> Heaps] /\ h[0] = base /\ \A n \in 1 .. N : h[n] = Gather(r, w, h[n - 1], slot[r][n])
    <2> DEFINE S == {n \in 0 .. N : h[n] \in Heaps}
    <2> HIDE DEF h, base, N
    <2>1. h = [n \in 0 .. N |-> IF n = 0 THEN base ELSE Gather(r, w, h[n - 1], slot[r][n])] BY <1>6
    <2>2. h[0] = base BY <2>1, <1>0
    <2>3. \A n \in 1 .. N : h[n] = Gather(r, w, h[n - 1], slot[r][n]) BY <2>1, <1>0
    <2>4. h \in [0 .. N -> Heaps]
        <3>1. SUFFICES ASSUME NEW n \in 0 .. N PROVE h[n] = f[n] BY <2>1, <1>3
        <3> DEFINE T == {k \in 0 .. N : h[k] = f[k]}
        <3>2. 0 \in T BY <1>0, <1>3, <2>2
        <3>3. ASSUME NEW k \in 1 .. n, k - 1 \in T PROVE k \in T
            <4>1. k \in 1 .. N /\ h[k - 1] = f[k - 1] BY <1>0, <3>3
            <4>2. QED BY <4>1, <1>4, <2>3
        <3>4. n \in T
            <4> HIDE DEF T
            <4>1. n \in Nat OBVIOUS
            <4>2. QED BY <3>2, <3>3, <4>1, UpTo
        <3>5. QED BY <3>4
    <2>5. QED BY <2>2, <2>3, <2>4
<1> HIDE DEF h
<1>9. QED BY <1>7, <1>8 DEF Gathers

LEMMA CollectType ==
    ASSUME TypeOK, NEW r \in Runs, NEW w \in Waits
    PROVE  Collect(r, w) \in Heaps
<1>1. PICK f : Gathers(r, w, f) /\ Collect(r, w) = f[Len(slot[r])] BY CollectIs
<1>2. Len(slot[r]) \in 0 .. Len(slot[r]) BY DeskTypes
<1>3. QED BY <1>1, <1>2 DEF Gathers

(* What is gathered of the slot is in its order: induction over the slot.  *)
LEMMA GatherInduction ==
    ASSUME TypeOK, NEW r \in Runs, NEW w \in Waits, NEW S,
           \A f : Gathers(r, w, f) => <<0, f[0]>> \in S,
           \A f : \A n \in 1 .. Len(slot[r]) : Gathers(r, w, f) /\ <<n - 1, f[n - 1]>> \in S => <<n, f[n]>> \in S
    PROVE  <<Len(slot[r]), Collect(r, w)>> \in S
<1>1. PICK f : Gathers(r, w, f) /\ Collect(r, w) = f[Len(slot[r])] BY CollectIs
<1> DEFINE T == {n \in 0 .. Len(slot[r]) : <<n, f[n]>> \in S}
<1>2. Len(slot[r]) \in Nat BY DeskTypes
<1>3. 0 \in T BY <1>1, <1>2
<1>4. \A n \in 1 .. Len(slot[r]) : n - 1 \in T => n \in T BY <1>1, <1>2
<1>5. Len(slot[r]) \in T
    <2> HIDE DEF T
    <2> QED BY <1>2, <1>3, <1>4, UpTo
<1>6. QED BY <1>1, <1>5

-----------------------------------------------------------------------------
(* The steps, by what they do.                                             *)

Moved(r) == at[r] \notin Out /\ \E place \in Places \ Out : at' = [at EXCEPT ![r] = place]

(* A run moves on, and no signal does.                                     *)
QuietStep(r) ==
    /\ Moved(r) /\ stash' \in [Runs -> {0} \cup Ids]
    /\ UNCHANGED <<ledger, relayed, holder, box, slot, held, wait, dropped, crashes>>
SteerStep(r) ==
    /\ Moved(r) /\ UNCHANGED <<sent, waits, relayed, holder, crashes>>
    /\ \E stashing \in BOOLEAN : TakeSteer(r, stashing)
ConsumeStep(r) ==
    /\ Moved(r) /\ held[r] # <<>>
    /\ consumed' = consumed \cup {Head(held[r])} /\ held' = [held EXCEPT ![r] = Tail(@)]
    /\ UNCHANGED <<sent, waits, relayed, holder, box, slot, wait, stash, dropped, crashes>>
SendStep(r) ==
    \E to \in Rooms, kind \in Kinds, waiting \in BOOLEAN :
    /\ Moved(r) /\ (waiting => wait[r].id = 0)
    /\ sent' = Append(sent, [from |-> RoomOf[r], to |-> to, kind |-> kind])
    /\ relayed' = Append(relayed, Len(sent')) /\ waits' = Append(waits, <<>>)
    /\ wait' = IF waiting THEN [wait EXCEPT ![r] = [NoWait EXCEPT !.id = Len(sent')]] ELSE wait
    /\ UNCHANGED <<consumed, holder, box, slot, held, stash, dropped, crashes>>

LEMMA Moves ==
    ASSUME TypeOK, NEW r \in Runs, at[r] \notin Out, NEW place \in Places \ Out,
           at' = [at EXCEPT ![r] = place] \/ UNCHANGED at
    PROVE  Moved(r)
<1>1. at[r] \in Places \ Out BY DeskTypes
<1>2. UNCHANGED at => at' = [at EXCEPT ![r] = at[r]] BY DEF TypeOK
<1>3. QED BY <1>1, <1>2 DEF Moved

LEMMA AskIs ==
    ASSUME TypeOK, NEW r \in Runs, Moved(r), Ask(r), UNCHANGED <<sent, waits, relayed, holder, crashes>>
    PROVE  QuietStep(r) \/ SteerStep(r)
<1>0. stash \in [Runs -> {0} \cup Ids] BY DEF TypeOK
<1>1. CASE stash' = [stash EXCEPT ![r] = 0] /\ UNCHANGED <<consumed, box, slot, held, wait, dropped>>
    <2>1. [stash EXCEPT ![r] = 0] \in [Runs -> {0} \cup Ids] BY <1>0
    <2>2. QED BY <1>1, <2>1 DEF QuietStep, ledger
<1>2. CASE TakeSteer(r, FALSE)
    <2>1. FALSE \in BOOLEAN OBVIOUS
    <2>2. SteerStep(r) BY <1>2, <2>1, Zenon DEF SteerStep
    <2>3. QED BY <2>2
<1>3. CASE UNCHANGED <<consumed, box, desks, dropped>>
    BY <1>0, <1>3 DEF QuietStep, ledger, desks
<1>4. QED BY <1>1, <1>2, <1>3 DEF Ask

LEMMA Steps ==
    ASSUME TypeOK, Next
    PROVE  \/ \E r \in Runs : \/ Lend(r) \/ Leave(r) \/ QuietStep(r) \/ SteerStep(r) \/ Pull(r) \/ WaitOut(r)
                              \/ StopWaiting(r) \/ ConsumeStep(r) \/ SendStep(r)
           \/ Deliver \/ Tick \/ Crash \/ UNCHANGED vars
<1>0. stash \in [Runs -> {0} \cup Ids] BY DEF TypeOK
<1>a. /\ {"assemble", "asking", "call", "answering", "backoff", "wave", "boundary", "tools", "tool", "spawn", "home"}
           \subseteq Places \ Out
      /\ {"assemble", "asking", "call", "answering", "backoff", "wave", "boundary", "tools", "tool", "spawn", "home"}
           \cap Out = {}
    BY DEF Places, Out
<1>1. ASSUME NEW r \in Runs, Drives(r)
      PROVE  \/ QuietStep(r) \/ SteerStep(r) \/ Pull(r) \/ WaitOut(r)
             \/ StopWaiting(r) \/ ConsumeStep(r) \/ SendStep(r)
    <2>1. CASE StartRefused(r) \/ NotWaiting(r) \/ Answer(r) \/ Fail(r) \/ End(r)
        <3>1. at[r] \notin Out BY <2>1, <1>a DEF StartRefused, NotWaiting, Answer, Fail, End
        <3>2. \E place \in Places \ Out : at' = [at EXCEPT ![r] = place]
            BY <2>1, <1>a DEF StartRefused, NotWaiting, Answer, Fail, End, Move
        <3>3. UNCHANGED <<ledger, relayed, holder, box, desks, dropped, crashes>>
            BY <2>1 DEF StartRefused, NotWaiting, Answer, Fail, End
        <3>4. QED BY <1>0, <3>1, <3>2, <3>3 DEF QuietStep, Moved, ledger, desks
    <2>2. CASE SafePoint(r) \/ Call(r)
        <3>1. at[r] \notin Out BY <2>2, <1>a DEF SafePoint, Call
        <3>2. \E place \in Places \ Out : at' = [at EXCEPT ![r] = place]
            BY <2>2, <1>a DEF SafePoint, Call, Move
        <3>3. Ask(r) /\ UNCHANGED <<sent, waits, relayed, holder, crashes>> BY <2>2 DEF SafePoint, Call
        <3>4. Moved(r) BY <3>1, <3>2 DEF Moved
        <3>5. QED BY <3>3, <3>4, AskIs
    <2>3. CASE BackOff(r)
        <3>1. at[r] \notin Out /\ at[r] \in Places \ Out /\ "assemble" \in Places \ Out BY <2>3, <1>a DEF BackOff
        <3>2. Moved(r)
            <4>1. at' = [at EXCEPT ![r] = "assemble"] \/ UNCHANGED at BY <2>3 DEF BackOff, Move
            <4>2. QED BY <3>1, <4>1, Moves
        <3>3. CASE TakeSteer(r, TRUE)
            <4>1. TRUE \in BOOLEAN /\ UNCHANGED <<sent, waits, relayed, holder, crashes>> BY <2>3 DEF BackOff
            <4>2. SteerStep(r) BY <3>2, <3>3, <4>1, Zenon DEF SteerStep
            <4>3. QED BY <4>2
        <3>4. CASE UNCHANGED <<consumed, box, desks, dropped>>
            BY <1>0, <2>3, <3>2, <3>4 DEF QuietStep, BackOff, ledger, desks
        <3>5. QED BY <2>3, <3>3, <3>4 DEF BackOff
    <2>4. CASE Answered(r)
        <3>1. at[r] \notin Out /\ "boundary" \in Places \ Out BY <2>4, <1>a DEF Answered
        <3>2. Moved(r)
            <4>1. at' = [at EXCEPT ![r] = "boundary"] \/ UNCHANGED at BY <2>4 DEF Answered, Move
            <4>2. QED BY <3>1, <4>1, Moves
        <3>3. QED BY <1>0, <2>4, <3>2 DEF Answered, QuietStep, ConsumeStep, ledger
    <2>5. CASE \E to \in Rooms, kind \in Kinds, waiting \in BOOLEAN : Send(r, to, kind, waiting)
        <3>1. PICK to \in Rooms, kind \in Kinds, waiting \in BOOLEAN : Send(r, to, kind, waiting) BY <2>5
        <3>2. at[r] \notin Out /\ Moved(r)
            <4>1. at[r] \notin Out /\ "tools" \in Places \ Out BY <3>1, <1>a DEF Send
            <4>2. at' = [at EXCEPT ![r] = "tools"] \/ UNCHANGED at BY <3>1 DEF Send, Move
            <4>3. QED BY <4>1, <4>2, Moves
        <3>3. CASE UNCHANGED <<sent, relayed, waits, wait>>
            BY <1>0, <3>1, <3>2, <3>3 DEF Send, QuietStep, ledger
        <3>4. CASE ~UNCHANGED <<sent, relayed, waits, wait>>
            <4>1. /\ (waiting => wait[r].id = 0)
                  /\ sent' = Append(sent, [from |-> RoomOf[r], to |-> to, kind |-> kind])
                  /\ relayed' = Append(relayed, Len(sent')) /\ waits' = Append(waits, <<>>)
                  /\ wait' = IF waiting THEN [wait EXCEPT ![r] = [NoWait EXCEPT !.id = Len(sent')]] ELSE wait
                  /\ UNCHANGED <<consumed, holder, box, slot, held, stash, dropped, crashes>>
                BY <3>1, <3>4 DEF Send
            <4>2. SendStep(r) BY <3>2, <4>1, Zenon DEF SendStep
            <4>3. QED BY <4>2
        <3>5. QED BY <3>3, <3>4
    <2>6. QED BY <1>1, <2>1, <2>2, <2>3, <2>4, <2>5 DEF Drives
<1>2. CASE \E r \in Runs : Lend(r) \/ Drives(r) \/ Leave(r) BY <1>1, <1>2
<1>3. QED BY <1>2 DEF Next, Over

-----------------------------------------------------------------------------
(* What a desk does once it has emptied its slot.                          *)

(* A reply is kept for good: only a desk that keeps none takes one.        *)
LEMMA KeptStays ==
    ASSUME TypeOK, NEW r \in Runs, NEW w \in Waits
    PROVE  w.kept # 0 => Collect(r, w).kept = w.kept
<1> DEFINE S == {x \in Nat \X Heaps : w.kept # 0 => x[2].kept = w.kept}
<1>0. Len(slot[r]) \in Nat BY DeskTypes
<1>1. ASSUME NEW f, Gathers(r, w, f) PROVE <<0, f[0]>> \in S
    <2>1. f[0] \in Heaps /\ f[0].kept = w.kept BY <1>0, <1>1 DEF Gathers
    <2>2. QED BY <2>1
<1>2. ASSUME NEW f, NEW n \in 1 .. Len(slot[r]), Gathers(r, w, f), <<n - 1, f[n - 1]>> \in S
      PROVE  <<n, f[n]>> \in S
    <2>1. f[n - 1] \in Heaps /\ f[n] \in Heaps /\ f[n] = Gather(r, w, f[n - 1], slot[r][n])
        BY <1>0, <1>2 DEF Gathers
    <2>2. w.kept # 0 => f[n - 1].kept = w.kept BY <1>2
    <2>3. f[n - 1].kept # 0 => f[n].kept = f[n - 1].kept BY <2>1 DEF Gather, Heaps
    <2>4. n \in Nat BY <1>0
    <2>5. QED BY <2>1, <2>2, <2>3, <2>4
<1>3. <<Len(slot[r]), Collect(r, w)>> \in S
    <2> HIDE DEF S
    <2> QED BY <1>1, <1>2, GatherInduction
<1>4. QED BY <1>3

(* Where what was collected goes: `g' and `h' are what the desk holds      *)
(* before and after, `k' the reply it keeps.                               *)
Takes(c, b, g, h, k, gone) ==
    \/ b = c.box /\ h = g /\ k = c.kept /\ gone = {}
    \/ /\ c.lost = {} /\ FirstSteer(c.box) # 0 /\ b = AfterSteer(c.box) /\ k = c.kept
       /\ \/ h = Append(g, FirstSteer(c.box)) /\ gone = {}
          \/ h = g /\ gone = {FirstSteer(c.box)}
    \/ c.lost = {} /\ b = AfterPull(c.box) /\ h = g \o Pulled(c.box) /\ k = c.kept /\ gone = {}
    \/ b = c.box /\ h = Append(g, c.kept) /\ k = 0 /\ c.kept # 0 /\ gone = {}
    \/ b = c.box /\ h = g /\ k = 0 /\ c.kept # 0 /\ gone = {c.kept}

Desked(r, c, b, h, v, gone) ==
    /\ Takes(c, b, held[r], h, v.kept, gone)
    /\ v.id # 0 => v.id = wait[r].id /\ (v.kept = c.kept \/ (c.kept \in dropped' /\ v.kept = wait[r].kept))
    /\ box' = [box EXCEPT ![r] = b] /\ slot' = [slot EXCEPT ![r] = <<>>]
    /\ held' = [held EXCEPT ![r] = h] /\ wait' = [wait EXCEPT ![r] = v]
    /\ consumed' \cup dropped' = (consumed \cup dropped) \cup c.lost \cup gone
    /\ dropped \cup c.lost \subseteq dropped' /\ consumed' \subseteq Ids /\ dropped' \subseteq Ids
    /\ stash' \in [Runs -> {0} \cup Ids] /\ Moved(r) /\ UNCHANGED <<sent, relayed, holder, crashes>>

DeskStep(r) ==
    \E w \in Waits, b \in Boxes, h \in Seq(Ids), v \in Waits, gone \in SUBSET Ids :
        w.id = wait[r].id /\ w.kept = wait[r].kept /\ Desked(r, Collect(r, w), b, h, v, gone)

LEMMA SteerDesk ==
    ASSUME TypeOK, NEW r \in Runs, SteerStep(r)
    PROVE  DeskStep(r) /\ UNCHANGED waits
<1>0. PICK stashing \in BOOLEAN : TakeSteer(r, stashing) BY DEF SteerStep
<1>1. PICK w \in Waits : w = wait[r] BY DeskTypes
<1>2. PICK c \in Heaps : c = Collect(r, w) BY CollectType
<1>3. c.box \in Boxes /\ c.kept \in {0} \cup Ids /\ c.lost \in SUBSET Ids BY DEF Heaps
<1>4. /\ FirstSteer(c.box) \in {0} \cup Ids /\ AfterSteer(c.box) \in Boxes BY <1>3, SteerType, SteerIs
<1>5. PICK s \in {0} \cup Ids : s = IF c.lost = {} THEN FirstSteer(c.box) ELSE 0 BY <1>4
<1>6. PICK b \in Boxes : b = IF c.lost = {} THEN AfterSteer(c.box) ELSE c.box BY <1>3, <1>4
<1> DEFINE readable == s # 0 /\ sent[s].kind # "blank"
           unread == IF s = 0 \/ readable THEN {} ELSE {s}
           h == IF readable THEN Append(held[r], s) ELSE held[r]
           v == [w EXCEPT !.kept = c.kept]
<1>7. /\ slot' = [slot EXCEPT ![r] = <<>>] /\ wait' = [wait EXCEPT ![r].kept = c.kept]
      /\ box' = [box EXCEPT ![r] = b]
      /\ held' = [held EXCEPT ![r] = IF readable THEN Append(@, s) ELSE @]
      /\ stash' = [stash EXCEPT ![r] = IF stashing /\ readable THEN s ELSE @]
      /\ \/ consumed' = consumed \cup unread /\ dropped' = dropped \cup c.lost
         \/ dropped' = dropped \cup c.lost \cup unread /\ consumed' = consumed
    BY <1>0, <1>1, <1>2, <1>5, <1>6 DEF TakeSteer, Emptied
<1>8. held[r] \in Seq(Ids) /\ stash[r] \in {0} \cup Ids BY DeskTypes
<1>9. /\ h \in Seq(Ids) /\ v \in Waits /\ unread \in SUBSET Ids /\ v.id = w.id /\ v.kept = c.kept
    <2>1. Append(held[r], s) \in Seq(Ids) \/ s = 0 BY <1>8
    <2>2. h \in Seq(Ids) BY <2>1, <1>8
    <2>3. v \in Waits /\ v.id = w.id /\ v.kept = c.kept BY <1>3 DEF Waits
    <2>4. QED BY <2>2, <2>3
<1>10. wait' = [wait EXCEPT ![r] = v] /\ held' = [held EXCEPT ![r] = h] BY <1>1, <1>7 DEF TypeOK
<1>11. stash' \in [Runs -> {0} \cup Ids] BY <1>7 DEF TypeOK
<1>12. consumed' \subseteq Ids /\ dropped' \subseteq Ids /\ dropped \cup c.lost \subseteq dropped'
       /\ consumed' \cup dropped' = (consumed \cup dropped) \cup c.lost \cup unread
    BY <1>3, <1>7, <1>9, IdFacts
<1>13. Takes(c, b, held[r], h, v.kept, unread)
    <2>1. CASE s = 0
        <3>1. b = c.box \/ (FirstSteer(c.box) = 0 /\ b = AfterSteer(c.box)) BY <2>1, <1>5, <1>6
        <3>2. FirstSteer(c.box) = 0 => AfterSteer(c.box) = c.box
            <4>1. 0 \notin Ids BY IdFacts
            <4>2. \A k \in 1 .. Len(c.box.returned) : c.box.returned[k] \in Ids
                <5>1. c.box.returned \in Seq(Ids) BY <1>3, BoxTypes
                <5>2. QED BY <5>1
            <4>3. c.box.urgent # <<>> => Head(c.box.urgent) \in Ids
                <5>1. c.box.urgent \in Seq(Ids) BY <1>3, BoxTypes
                <5>2. QED BY <5>1
            <4>4. QED BY <4>1, <4>2, <4>3, <1>3, SteerIs
        <3>3. b = c.box BY <3>1, <3>2
        <3>4. h = held[r] /\ unread = {} BY <2>1
        <3>5. QED BY <3>3, <3>4, <1>9 DEF Takes
    <2>2. CASE s # 0
        <3>1. c.lost = {} /\ FirstSteer(c.box) = s /\ b = AfterSteer(c.box) BY <2>2, <1>5, <1>6
        <3>2. (h = Append(held[r], s) /\ unread = {}) \/ (h = held[r] /\ unread = {s}) BY <2>2
        <3>3. QED BY <2>2, <3>1, <3>2, <1>9 DEF Takes
    <2>3. QED BY <2>1, <2>2
<1>14. Moved(r) /\ UNCHANGED <<sent, relayed, holder, crashes, waits>> BY DEF SteerStep
<1>15. v.id # 0 => v.id = wait[r].id /\ (v.kept = c.kept \/ (c.kept \in dropped' /\ v.kept = wait[r].kept)) BY <1>1, <1>9
<1> HIDE DEF h, v, unread, readable
<1>16. Desked(r, c, b, h, v, unread) BY <1>7, <1>10, <1>11, <1>12, <1>13, <1>14, <1>15 DEF Desked
<1>17. DeskStep(r)
    <2>1. Desked(r, Collect(r, w), b, h, v, unread) /\ w.id = wait[r].id /\ w.kept = wait[r].kept
        BY <1>1, <1>2, <1>16
    <2>2. QED BY <2>1, <1>9, Zenon DEF DeskStep
<1>18. QED BY <1>14, <1>17

LEMMA PullDesk ==
    ASSUME TypeOK, NEW r \in Runs, Pull(r)
    PROVE  DeskStep(r) /\ UNCHANGED waits
<1>1. PICK w \in Waits : w = wait[r] BY DeskTypes
<1>2. PICK c \in Heaps : c = Collect(r, w) BY CollectType
<1>3. c.box \in Boxes /\ c.kept \in {0} \cup Ids /\ c.lost \in SUBSET Ids BY DEF Heaps
<1>4. /\ Pulled(c.box) \in Seq(Ids) /\ AfterPull(c.box) \in Boxes BY <1>3, PulledIs
<1>6. PICK b \in Boxes : b = IF c.lost = {} THEN AfterPull(c.box) ELSE c.box BY <1>3, <1>4
<1>8. held[r] \in Seq(Ids) /\ stash[r] \in {0} \cup Ids BY DeskTypes
<1>b. held[r] \o Pulled(c.box) \in Seq(Ids) BY <1>4, <1>8
<1>5. PICK h \in Seq(Ids) : h = IF c.lost = {} THEN held[r] \o Pulled(c.box) ELSE held[r] BY <1>b, <1>8
<1> DEFINE v == [w EXCEPT !.kept = c.kept]
<1>7. /\ slot' = [slot EXCEPT ![r] = <<>>] /\ wait' = [wait EXCEPT ![r].kept = c.kept]
      /\ box' = [box EXCEPT ![r] = b] /\ held' = [held EXCEPT ![r] = h]
      /\ consumed' = consumed /\ dropped' = dropped \cup c.lost
      /\ UNCHANGED <<stash, sent, waits, relayed, holder, crashes>>
    BY <1>1, <1>2, <1>5, <1>6 DEF Pull, Emptied, ledger
<1>9. v \in Waits /\ v.id = w.id /\ v.kept = c.kept BY <1>3 DEF Waits
<1>10. wait' = [wait EXCEPT ![r] = v] BY <1>1, <1>7 DEF TypeOK
<1>11. stash' \in [Runs -> {0} \cup Ids] BY <1>7 DEF TypeOK
<1>12. consumed' \subseteq Ids /\ dropped' \subseteq Ids /\ dropped \cup c.lost \subseteq dropped'
       /\ consumed' \cup dropped' = (consumed \cup dropped) \cup c.lost \cup {}
    BY <1>3, <1>7, IdFacts
<1>13. Takes(c, b, held[r], h, v.kept, {}) BY <1>5, <1>6, <1>9 DEF Takes
<1>14. Moved(r)
    <2>1. at[r] \notin Out /\ "tools" \in Places \ Out /\ at' = [at EXCEPT ![r] = "tools"]
        BY DEF Pull, Move, Out, Places
    <2>2. QED BY <2>1 DEF Moved
<1>15. v.id # 0 => v.id = wait[r].id /\ (v.kept = c.kept \/ (c.kept \in dropped' /\ v.kept = wait[r].kept)) BY <1>1, <1>9
<1> HIDE DEF v
<1>16. Desked(r, c, b, h, v, {}) BY <1>7, <1>10, <1>11, <1>12, <1>13, <1>14, <1>15 DEF Desked
<1>17. DeskStep(r)
    <2>1. Desked(r, Collect(r, w), b, h, v, {}) /\ w.id = wait[r].id /\ w.kept = wait[r].kept
        BY <1>1, <1>2, <1>16
    <2>2. {} \in SUBSET Ids OBVIOUS
    <2>3. QED BY <2>1, <2>2, <1>9, Zenon DEF DeskStep
<1>18. QED BY <1>7, <1>17

LEMMA ParkedIs ==
    ASSUME NEW w \in Waits
    PROVE  /\ Parked(w) \in Waits /\ Parked(w).id = w.id /\ Parked(w).kept = w.kept
           /\ Parked(w).left >= 0 /\ Parked(w).left \in Int
<1>1. Patience \in Nat /\ Patience > 0 BY SignalsAssumption
<1>2. w.left \in Int BY DEF Waits
<1>3. QED BY <1>1, <1>2 DEF Parked, Waits

LEMMA NoWaitType ==
    NoWait \in Waits /\ NoWait.id = 0 /\ NoWait.kept = 0 /\ NoWait.left = -1
<1>1. Patience \in Nat BY SignalsAssumption
<1>2. QED BY <1>1 DEF NoWait, Waits

LEMMA WaitOutDesk ==
    ASSUME TypeOK, NEW r \in Runs, WaitOut(r)
    PROVE  DeskStep(r)
<1>1. PICK w \in Waits : w = Parked(wait[r]) BY DeskTypes, ParkedIs
<1>a. w.id = wait[r].id /\ w.kept = wait[r].kept BY <1>1, DeskTypes, ParkedIs
<1>2. PICK c \in Heaps : c = Collect(r, w) BY CollectType
<1>3. c.box \in Boxes /\ c.kept \in {0} \cup Ids /\ c.lost \in SUBSET Ids BY DEF Heaps
<1>4. c.kept # w.kept => w.kept = 0 /\ c.kept # 0 BY <1>2, KeptStays
<1>5. PICK b \in Boxes : b = c.box BY <1>3
<1>6. held[r] \in Seq(Ids) /\ held \in [Runs -> Seq(Ids)] /\ stash \in [Runs -> {0} \cup Ids] BY DeskTypes DEF TypeOK
<1>7. /\ slot' = [slot EXCEPT ![r] = <<>>] /\ box' = [box EXCEPT ![r] = b]
      /\ UNCHANGED <<sent, consumed, relayed, holder, stash, crashes>>
    BY <1>1, <1>2, <1>5 DEF WaitOut, Emptied
<1>8. stash' \in [Runs -> {0} \cup Ids] BY <1>6, <1>7
<1>9. at[r] = "assemble" /\ at[r] \notin Out /\ {"call", "asking"} \subseteq Places \ Out BY DEF WaitOut, Out, Places
<1>10. consumed \subseteq Ids /\ dropped \subseteq Ids BY IdFacts
<1>11. CASE c.lost = {} /\ wait' = [wait EXCEPT ![r] = NoWait] /\ at' = [at EXCEPT ![r] = "call"] /\ UNCHANGED dropped
            /\ \/ c.kept # 0 /\ held' = [held EXCEPT ![r] = Append(@, c.kept)]
               \/ c.kept = 0 /\ UNCHANGED held
    <2>1. PICK h \in Seq(Ids) : h = IF c.kept # 0 THEN Append(held[r], c.kept) ELSE held[r]
        <3>1. c.kept # 0 => Append(held[r], c.kept) \in Seq(Ids) BY <1>3, <1>6
        <3>2. QED BY <3>1, <1>6
    <2>2. held' = [held EXCEPT ![r] = h] BY <2>1, <1>11, <1>6
    <2>3. Takes(c, b, held[r], h, NoWait.kept, {}) BY <2>1, <1>5, NoWaitType DEF Takes
    <2>4. Moved(r) BY <1>9, <1>11, Moves
    <2>5. /\ consumed' \cup dropped' = (consumed \cup dropped) \cup c.lost \cup {}
          /\ dropped \cup c.lost \subseteq dropped' /\ consumed' \subseteq Ids /\ dropped' \subseteq Ids
        BY <1>7, <1>10, <1>11
    <2>6. Desked(r, c, b, h, NoWait, {}) BY <2>2, <2>3, <2>4, <2>5, <1>7, <1>8, <1>11, NoWaitType DEF Desked
    <2>7. Desked(r, Collect(r, w), b, h, NoWait, {}) /\ {} \in SUBSET Ids BY <2>6, <1>2
    <2>8. QED BY <2>7, <1>a, NoWaitType, Zenon DEF DeskStep
<1>12. CASE /\ wait' = [wait EXCEPT ![r] = w] /\ (at' = [at EXCEPT ![r] = "asking"] \/ UNCHANGED at) /\ UNCHANGED held
            /\ dropped' = dropped \cup c.lost \cup (IF c.kept = w.kept THEN {} ELSE {c.kept})
    <2>1. PICK gone \in SUBSET Ids : gone = IF c.kept = w.kept THEN {} ELSE {c.kept} BY <1>3, <1>4
    <2>2. held' = [held EXCEPT ![r] = held[r]] BY <1>12, <1>6
    <2>3. Takes(c, b, held[r], held[r], w.kept, gone) BY <2>1, <1>4, <1>5 DEF Takes
    <2>4. Moved(r) BY <1>9, <1>12, Moves
    <2>5. /\ consumed' \cup dropped' = (consumed \cup dropped) \cup c.lost \cup gone
          /\ dropped \cup c.lost \subseteq dropped' /\ consumed' \subseteq Ids /\ dropped' \subseteq Ids
          /\ (w.kept = c.kept \/ c.kept \in dropped')
        BY <2>1, <1>3, <1>7, <1>10, <1>12
    <2>6. Desked(r, c, b, held[r], w, gone) BY <2>2, <2>3, <2>4, <2>5, <1>7, <1>8, <1>a, <1>12 DEF Desked
    <2>7. Desked(r, Collect(r, w), b, held[r], w, gone) BY <2>6, <1>2
    <2>8. QED BY <2>7, <1>a, <1>6, Zenon DEF DeskStep
<1>13. QED
    <2>1. /\ c = Collect(r, Parked(wait[r])) /\ w = Parked(wait[r]) BY <1>1, <1>2
    <2>2. \/ /\ c.lost = {} /\ wait' = [wait EXCEPT ![r] = NoWait] /\ at' = [at EXCEPT ![r] = "call"] /\ UNCHANGED dropped
             /\ \/ c.kept # 0 /\ held' = [held EXCEPT ![r] = Append(@, c.kept)]
                \/ c.kept = 0 /\ UNCHANGED held
          \/ /\ wait' = [wait EXCEPT ![r] = w] /\ (at' = [at EXCEPT ![r] = "asking"] \/ UNCHANGED at) /\ UNCHANGED held
             /\ dropped' = dropped \cup c.lost \cup (IF c.kept = w.kept THEN {} ELSE {c.kept})
        BY <2>1 DEF WaitOut, Move
    <2>3. QED BY <2>2, <1>11, <1>12

-----------------------------------------------------------------------------
(* The fold of the ledger.                                                 *)

FoldStep(m, b, n) == IF sent[n].to # m \/ n \in consumed \/ Sheds(b, n) THEN b ELSE Delivered(b, n)

FoldsTo(m, f) ==
    /\ f \in [0 .. Len(sent) -> Boxes] /\ f[0] = EmptyBox
    /\ \A n \in 1 .. Len(sent) : f[n] = FoldStep(m, f[n - 1], n)

LEMMA FoldedIs ==
    ASSUME TypeOK, NEW m \in Rooms
    PROVE  \E f : FoldsTo(m, f) /\ Folded(m) = f[Len(sent)]
<1> DEFINE N == Len(sent)
           step == [p \in Boxes \X (1 .. N) |-> FoldStep(m, p[1], p[2])]
           F(f) == f = [n \in 0 .. N |-> IF n = 0 THEN EmptyBox ELSE FoldStep(m, f[n - 1], n)]
           h == CHOOSE f : F(f)
<1>0. N \in Nat /\ Ids = 1 .. N BY IdFacts
<1>1. EmptyBox \in Boxes BY EmptyBoxType
<1>2. step \in [Boxes \X (1 .. N) -> Boxes]
    <2>1. ASSUME NEW b \in Boxes, NEW n \in 1 .. N PROVE FoldStep(m, b, n) \in Boxes
        <3>1. n \in Ids BY <1>0
        <3>2. Delivered(b, n) \in Boxes BY <3>1, DeliveredIs
        <3>3. QED BY <3>2 DEF FoldStep
    <2> HIDE DEF N
    <2>2. QED BY <2>1
<1>3. PICK f : f \in [0 .. N -> Boxes] /\ f[0] = EmptyBox /\ \A n \in 1 .. N : f[n] = step[<<f[n - 1], n>>]
    <2> HIDE DEF step, N
    <2>1. \E f : Recurs(f, Boxes, N, EmptyBox, step) BY <1>0, <1>1, <1>2, Recursion
    <2>2. QED BY <2>1 DEF Recurs
<1>4. \A n \in 1 .. N : f[n] = FoldStep(m, f[n - 1], n)
    <2> SUFFICES ASSUME NEW n \in 1 .. N PROVE f[n] = FoldStep(m, f[n - 1], n) OBVIOUS
    <2>1. n - 1 \in 0 .. N BY <1>0
    <2>2. <<f[n - 1], n>> \in Boxes \X (1 .. N) BY <2>1, <1>3
    <2>3. QED BY <1>3, <2>2
<1>5. F(f)
    <2> HIDE DEF N
    <2>1. \A n \in 0 .. N : n # 0 => n \in 1 .. N BY <1>0
    <2>2. QED BY <1>0, <1>3, <1>4, <2>1
<1>6. F(h) BY <1>5
<1>7. Folded(m) = h[N] BY DEF Folded, FoldStep
<1>8. h \in [0 .. N -> Boxes] /\ h[0] = EmptyBox /\ \A n \in 1 .. N : h[n] = FoldStep(m, h[n - 1], n)
    <2> HIDE DEF h, N
    <2>1. h = [n \in 0 .. N |-> IF n = 0 THEN EmptyBox ELSE FoldStep(m, h[n - 1], n)] BY <1>6
    <2>2. h[0] = EmptyBox BY <2>1, <1>0
    <2>3. \A n \in 1 .. N : h[n] = FoldStep(m, h[n - 1], n) BY <2>1, <1>0
    <2>4. h \in [0 .. N -> Boxes]
        <3>1. SUFFICES ASSUME NEW n \in 0 .. N PROVE h[n] = f[n] BY <2>1, <1>3
        <3> DEFINE T == {k \in 0 .. N : h[k] = f[k]}
        <3>2. 0 \in T BY <1>0, <1>3, <2>2
        <3>3. ASSUME NEW k \in 1 .. n, k - 1 \in T PROVE k \in T
            <4>1. k \in 1 .. N /\ h[k - 1] = f[k - 1] BY <1>0, <3>3
            <4>2. QED BY <4>1, <1>4, <2>3
        <3>4. n \in T
            <4> HIDE DEF T
            <4>1. n \in Nat OBVIOUS
            <4>2. QED BY <3>2, <3>3, <4>1, UpTo
        <3>5. QED BY <3>4
    <2>5. QED BY <2>2, <2>3, <2>4
<1> HIDE DEF h
<1>9. QED BY <1>7, <1>8 DEF FoldsTo

(* A restarted room's queue, by induction over the ledger.                 *)
LEMMA FoldInduction ==
    ASSUME TypeOK, NEW m \in Rooms, NEW S,
           \A f : FoldsTo(m, f) => <<0, f[0]>> \in S,
           \A f : \A n \in 1 .. Len(sent) : FoldsTo(m, f) /\ <<n - 1, f[n - 1]>> \in S => <<n, f[n]>> \in S
    PROVE  <<Len(sent), Folded(m)>> \in S
<1>1. PICK f : FoldsTo(m, f) /\ Folded(m) = f[Len(sent)] BY FoldedIs
<1> DEFINE T == {n \in 0 .. Len(sent) : <<n, f[n]>> \in S}
<1>2. Len(sent) \in Nat BY IdFacts
<1>3. 0 \in T BY <1>1, <1>2
<1>4. \A n \in 1 .. Len(sent) : n - 1 \in T => n \in T BY <1>1, <1>2
<1>5. Len(sent) \in T
    <2> HIDE DEF T
    <2> QED BY <1>2, <1>3, <1>4, UpTo
<1>6. QED BY <1>1, <1>5

LEMMA FoldedType ==
    ASSUME TypeOK, NEW m \in Rooms
    PROVE  Folded(m) \in Boxes
<1>1. PICK f : FoldsTo(m, f) /\ Folded(m) = f[Len(sent)] BY FoldedIs
<1>2. Len(sent) \in 0 .. Len(sent) BY IdFacts
<1>3. QED BY <1>1, <1>2 DEF FoldsTo

-----------------------------------------------------------------------------
(* Types.                                                                  *)

WaitLines == Seq({"started", "reply", "timeout", "left"})

LEMMA TypeFacts ==
    ASSUME TypeOK
    PROVE  /\ waits \in Seq(WaitLines) /\ Len(waits) = Len(sent) /\ relayed \in Seq(Ids)
           /\ holder \in [Rooms -> Runs \cup {NoRun}] /\ box \in [Rooms \cup Runs -> Boxes]
           /\ slot \in [Runs -> Seq(Ids)] /\ held \in [Runs -> Seq(Ids)] /\ stash \in [Runs -> {0} \cup Ids]
           /\ wait \in [Runs -> Waits] /\ at \in [Runs -> Places] /\ crashes \in 0 .. MaxCrashes
BY DEF TypeOK, WaitLines, Boxes, Waits

(* A step that sends nothing keeps the types it can disturb.               *)
LEMMA TypedAfter ==
    ASSUME TypeOK, UNCHANGED sent,
           consumed' \subseteq Ids, dropped' \subseteq Ids, waits' \in Seq(WaitLines), Len(waits') = Len(sent),
           relayed' \in Seq(Ids), holder' \in [Rooms -> Runs \cup {NoRun}], box' \in [Rooms \cup Runs -> Boxes],
           slot' \in [Runs -> Seq(Ids)], held' \in [Runs -> Seq(Ids)], stash' \in [Runs -> {0} \cup Ids],
           wait' \in [Runs -> Waits], at' \in [Runs -> Places], crashes' \in 0 .. MaxCrashes
    PROVE  TypeOK'
<1>1. Ids' = Ids BY DEF Ids
<1>2. sent \in Seq([from : Rooms, to : Rooms, kind : Kinds]) BY DEF TypeOK
<1>3. QED BY <1>1, <1>2 DEF TypeOK, WaitLines, Boxes, Waits

LEMMA MovedType ==
    ASSUME TypeOK, NEW r \in Runs, Moved(r)
    PROVE  /\ at' \in [Runs -> Places] /\ at[r] \notin Out /\ at'[r] \notin Out
           /\ \A q \in Runs : q # r => at'[q] = at[q]
BY DEF Moved, TypeOK

LEMMA NoLine ==
    ASSUME NEW S
    PROVE  <<>> \in Seq(S)
OBVIOUS

LEMMA DeskStepType ==
    ASSUME TypeOK, NEW r \in Runs, DeskStep(r), waits' \in Seq(WaitLines), Len(waits') = Len(sent)
    PROVE  TypeOK'
<1>1. PICK w \in Waits, b \in Boxes, h \in Seq(Ids), v \in Waits, gone \in SUBSET Ids :
        w.id = wait[r].id /\ w.kept = wait[r].kept /\ Desked(r, Collect(r, w), b, h, v, gone)
    BY DEF DeskStep
<1>2. /\ box' = [box EXCEPT ![r] = b] /\ slot' = [slot EXCEPT ![r] = <<>>]
      /\ held' = [held EXCEPT ![r] = h] /\ wait' = [wait EXCEPT ![r] = v]
      /\ consumed' \subseteq Ids /\ dropped' \subseteq Ids
      /\ stash' \in [Runs -> {0} \cup Ids] /\ Moved(r) /\ UNCHANGED <<sent, relayed, holder, crashes>>
    BY <1>1 DEF Desked
<1>3. <<>> \in Seq(Ids) BY NoLine
<1>4. at' \in [Runs -> Places] BY <1>2, MovedType
<1>5. /\ box' \in [Rooms \cup Runs -> Boxes] /\ slot' \in [Runs -> Seq(Ids)]
      /\ held' \in [Runs -> Seq(Ids)] /\ wait' \in [Runs -> Waits]
    BY <1>2, <1>3, TypeFacts
<1>6. QED BY <1>2, <1>4, <1>5, TypeFacts, TypedAfter

(* Lines added to the wait of one question.                                *)
LEMMA LoggedIs ==
    ASSUME TypeOK, NEW i \in Ids, NEW new \in WaitLines, Logged(i, new)
    PROVE  /\ waits' \in Seq(WaitLines) /\ Len(waits') = Len(sent)
           /\ waits'[i] = waits[i] \o new /\ \A j \in Ids : j # i => waits'[j] = waits[j]
<1>1. waits \in Seq(WaitLines) /\ Len(waits) = Len(sent) /\ Ids = 1 .. Len(sent) /\ Len(sent) \in Nat
    BY TypeFacts, IdFacts
<1>2. waits[i] \in WaitLines BY <1>1
<1>3. waits[i] \o new \in WaitLines BY <1>2 DEF WaitLines
<1>4. waits' = [waits EXCEPT ![i] = waits[i] \o new] BY DEF Logged
<1> HIDE DEF WaitLines
<1>5. DOMAIN waits = 1 .. Len(sent) BY <1>1
<1>6. QED BY <1>1, <1>3, <1>4, <1>5

(* What a waiting desk adds to the ledger.                                 *)
LEMMA WaitOutLines ==
    ASSUME TypeOK, NEW r \in Runs, WaitOut(r)
    PROVE  /\ wait[r].id # 0 /\ wait[r].id \in Ids
           /\ \E new \in WaitLines : Logged(wait[r].id, new)
           /\ LET line == IF Starts(wait[r]) THEN <<"started">> ELSE <<>> IN
              \/ wait' = [wait EXCEPT ![r] = NoWait] /\ Logged(wait[r].id, line \o <<"reply">>)
              \/ /\ wait' = [wait EXCEPT ![r] = NoWait] /\ Logged(wait[r].id, line \o <<"timeout">>)
                 /\ Collect(r, Parked(wait[r])).kept = 0 /\ Collect(r, Parked(wait[r])).lost = {}
              \/ wait' = [wait EXCEPT ![r] = Parked(wait[r])] /\ Logged(wait[r].id, line)
<1>1. wait[r].id # 0 /\ wait[r].id \in Ids
    <2>1. wait[r].id # 0 BY DEF WaitOut
    <2>2. wait[r] \in Waits BY DeskTypes
    <2>3. QED BY <2>1, <2>2 DEF Waits
<1> DEFINE line == IF Starts(wait[r]) THEN <<"started">> ELSE <<>>
           c == Collect(r, Parked(wait[r]))
<1>2. \/ wait' = [wait EXCEPT ![r] = NoWait] /\ Logged(wait[r].id, line \o <<"reply">>)
      \/ wait' = [wait EXCEPT ![r] = NoWait] /\ Logged(wait[r].id, line \o <<"timeout">>) /\ c.kept = 0 /\ c.lost = {}
      \/ wait' = [wait EXCEPT ![r] = Parked(wait[r])] /\ Logged(wait[r].id, line)
    BY DEF WaitOut
<1>3. line \in WaitLines /\ line \o <<"reply">> \in WaitLines /\ line \o <<"timeout">> \in WaitLines
    <2>1. /\ <<>> \in WaitLines /\ <<"started">> \in WaitLines /\ <<"reply">> \in WaitLines
          /\ <<"timeout">> \in WaitLines BY DEF WaitLines
    <2>2. line \in WaitLines BY <2>1
    <2>3. \A x, y \in WaitLines : x \o y \in WaitLines BY DEF WaitLines
    <2>4. QED BY <2>1, <2>2, <2>3
<1> HIDE DEF line, c
<1>4. \E new \in WaitLines : Logged(wait[r].id, new) BY <1>2, <1>3
<1>5. QED BY <1>1, <1>2, <1>4 DEF line, c

LEMMA LendType ==
    ASSUME TypeOK, NEW r \in Runs, Lend(r)
    PROVE  TypeOK'
<1>1. RoomOf[r] \in Rooms BY IdFacts
<1>2. "assemble" \in Places /\ at' = [at EXCEPT ![r] = "assemble"] BY DEF Lend, Move, Places
<1>3. at' \in [Runs -> Places] BY <1>2, TypeFacts
<1>4. holder' \in [Rooms -> Runs \cup {NoRun}] /\ box' \in [Rooms \cup Runs -> Boxes]
    <2>1. holder \in [Rooms -> Runs \cup {NoRun}] /\ box \in [Rooms \cup Runs -> Boxes] BY TypeFacts
    <2>2. EmptyBox \in Boxes /\ box[RoomOf[r]] \in Boxes BY <2>1, <1>1, EmptyBoxType
    <2>3. CASE UNCHANGED <<holder, box>> BY <2>1, <2>3
    <2>4. CASE /\ holder' = [holder EXCEPT ![RoomOf[r]] = r]
               /\ box' = [box EXCEPT ![r] = box[RoomOf[r]], ![RoomOf[r]] = EmptyBox]
        BY <2>1, <2>2, <2>4, <1>1
    <2>5. QED BY <2>3, <2>4 DEF Lend
<1>5. UNCHANGED <<sent, consumed, waits, relayed, slot, held, wait, stash, dropped, crashes>>
    BY DEF Lend, ledger, desks
<1>6. QED BY <1>3, <1>4, <1>5, TypeFacts, IdFacts, TypedAfter

LEMMA LeaveType ==
    ASSUME TypeOK, NEW r \in Runs, Leave(r)
    PROVE  TypeOK'
<1>1. "gone" \in Places /\ at' = [at EXCEPT ![r] = "gone"] BY DEF Leave, Move, Places, Out
<1>2. at' \in [Runs -> Places] BY <1>1, TypeFacts
<1>3. <<>> \in Seq(Ids) BY NoLine
<1>4. EmptyBox \in Boxes /\ NoWait \in Waits BY EmptyBoxType, NoWaitType
<1>5. KeptReply(r) \in Seq(Ids)
    <2>1. wait[r].kept \in {0} \cup Ids BY DeskTypes DEF Waits
    <2>2. wait[r].kept # 0 => <<wait[r].kept>> \in Seq(Ids) BY <2>1
    <2>3. QED BY <2>2, <1>3 DEF KeptReply
<1>6. held[r] \o KeptReply(r) \o slot[r] \in Seq(Ids)
    <2>1. held[r] \in Seq(Ids) /\ slot[r] \in Seq(Ids) BY DeskTypes
    <2>2. QED BY <1>5, <2>1
<1>7. PICK back \in Boxes : back = GivenBack(box[r], held[r] \o KeptReply(r) \o slot[r])
    BY <1>6, DeskTypes, GivenBackIs
<1>8. box' = [o \in DOMAIN box |-> IF o = r THEN EmptyBox
                                   ELSE IF o \in Rooms /\ holder[o] = r THEN back ELSE box[o]]
    BY <1>7 DEF Leave, KeptReply
<1>9. box' \in [Rooms \cup Runs -> Boxes] BY <1>4, <1>8, TypeFacts
<1>10. holder' \in [Rooms -> Runs \cup {NoRun}] BY TypeFacts DEF Leave
<1>11. /\ slot' = [slot EXCEPT ![r] = <<>>] /\ held' = [held EXCEPT ![r] = <<>>]
       /\ wait' = [wait EXCEPT ![r] = NoWait] /\ stash' = [stash EXCEPT ![r] = 0]
       /\ UNCHANGED <<sent, consumed, waits, relayed, dropped, crashes>>
    BY DEF Leave, Emptied, ledger
<1>12. /\ slot' \in [Runs -> Seq(Ids)] /\ held' \in [Runs -> Seq(Ids)]
       /\ wait' \in [Runs -> Waits] /\ stash' \in [Runs -> {0} \cup Ids]
    BY <1>3, <1>4, <1>11, TypeFacts
<1>13. QED BY <1>2, <1>9, <1>10, <1>11, <1>12, TypeFacts, IdFacts, TypedAfter

LEMMA DeliverType ==
    ASSUME TypeOK, Deliver
    PROVE  TypeOK'
<1>1. relayed \in Seq(Ids) /\ relayed # <<>> /\ relayed' = Tail(relayed) BY TypeFacts DEF Deliver
<1>2. PICK i \in Ids : i = Head(relayed) BY <1>1
<1>3. relayed' \in Seq(Ids) BY <1>1
<1>4. PICK m \in Rooms : m = sent[i].to BY IdFacts
<1>5. box \in [Rooms \cup Runs -> Boxes] /\ slot \in [Runs -> Seq(Ids)] /\ holder \in [Rooms -> Runs \cup {NoRun}]
    BY TypeFacts
<1>6. PICK r \in Runs \cup {NoRun} : r = holder[m] BY <1>5
<1>7. /\ dropped' = dropped \/ dropped' = dropped \cup {i}
      /\ box' = [box EXCEPT ![m] = Delivered(@, i)] \/ box' = box
      /\ (r # NoRun /\ slot' = [slot EXCEPT ![r] = Append(@, i)]) \/ slot' = slot
      /\ UNCHANGED <<sent, consumed, waits, holder, held, wait, stash, at, crashes>>
    BY <1>2, <1>4, <1>6 DEF Deliver, ledger
<1>8. dropped' \subseteq Ids BY <1>7, IdFacts
<1>9. box' \in [Rooms \cup Runs -> Boxes]
    <2>1. Delivered(box[m], i) \in Boxes BY <1>5, DeliveredIs
    <2>2. QED BY <2>1, <1>5, <1>7
<1>10. slot' \in [Runs -> Seq(Ids)]
    <2>1. CASE slot' = slot BY <2>1, <1>5
    <2>2. CASE r # NoRun /\ slot' = [slot EXCEPT ![r] = Append(@, i)]
        <3>1. r \in Runs /\ slot[r] \in Seq(Ids) BY <2>2, <1>5
        <3>2. Append(slot[r], i) \in Seq(Ids) BY <3>1
        <3>3. QED BY <2>2, <3>1, <3>2, <1>5
    <2>3. QED BY <2>1, <2>2, <1>7
<1>11. QED BY <1>3, <1>7, <1>8, <1>9, <1>10, TypeFacts, IdFacts, TypedAfter

LEMMA CrashType ==
    ASSUME TypeOK, Crash
    PROVE  TypeOK'
<1>1. <<>> \in Seq(Ids) BY NoLine
<1>2. NoWait \in Waits /\ EmptyBox \in Boxes /\ NoRun \in Runs \cup {NoRun} BY NoWaitType, EmptyBoxType
<1>3. \A m \in Rooms : Folded(m) \in Boxes BY FoldedType
<1>4. /\ relayed' = <<>> /\ holder' = [m \in Rooms |-> NoRun]
      /\ box' = [o \in DOMAIN box |-> IF o \in Rooms THEN Folded(o) ELSE EmptyBox]
      /\ slot' = [r \in Runs |-> <<>>] /\ held' = [r \in Runs |-> <<>>]
      /\ wait' = [r \in Runs |-> NoWait] /\ stash' = [r \in Runs |-> 0]
      /\ at' = [r \in Runs |-> IF at[r] = "new" THEN "new" ELSE "gone"]
      /\ UNCHANGED <<sent, consumed, waits>> /\ crashes' = crashes + 1 /\ crashes < MaxCrashes
    BY DEF Crash, ledger
<1>5. dropped' \subseteq Ids BY DEF Crash
<1>6. box' \in [Rooms \cup Runs -> Boxes] BY <1>2, <1>3, <1>4, TypeFacts
<1>7. at' \in [Runs -> Places] BY <1>4 DEF Places, Out
<1>8. crashes' \in 0 .. MaxCrashes BY <1>4, TypeFacts, SignalsAssumption
<1>9. slot' \in [Runs -> Seq(Ids)] /\ held' \in [Runs -> Seq(Ids)] /\ relayed' \in Seq(Ids) BY <1>1, <1>4
<1>10. wait' \in [Runs -> Waits] /\ stash' \in [Runs -> {0} \cup Ids]
       /\ holder' \in [Rooms -> Runs \cup {NoRun}] BY <1>2, <1>4
<1>11. QED BY <1>4, <1>5, <1>6, <1>7, <1>8, <1>9, <1>10, TypeFacts, IdFacts, TypedAfter

LEMMA TickIs ==
    ASSUME TypeOK, Tick
    PROVE  /\ wait' \in [Runs -> Waits]
           /\ \A r \in Runs : /\ wait'[r].id = wait[r].id /\ wait'[r].kept = wait[r].kept
                              /\ wait'[r].left < 0 <=> wait[r].left < 0
                              /\ wait[r] = NoWait => wait'[r] = NoWait
<1>1. wait \in [Runs -> Waits] BY TypeFacts
<1>2. wait' = [r \in Runs |-> IF wait[r].left > 0 THEN [wait[r] EXCEPT !.left = @ - 1] ELSE wait[r]] BY DEF Tick
<1>3. ASSUME NEW w \in Waits, w.left > 0
      PROVE  /\ [w EXCEPT !.left = @ - 1] \in Waits /\ [w EXCEPT !.left = @ - 1].id = w.id
             /\ [w EXCEPT !.left = @ - 1].kept = w.kept /\ [w EXCEPT !.left = @ - 1].left >= 0
    <2>1. Patience \in Nat BY SignalsAssumption
    <2>2. QED BY <1>3, <2>1 DEF Waits
<1>4. \A w \in Waits : w.left \in Int BY SignalsAssumption DEF Waits
<1>5. ASSUME NEW r \in Runs
      PROVE  /\ wait'[r] \in Waits /\ wait'[r].id = wait[r].id /\ wait'[r].kept = wait[r].kept
             /\ wait'[r].left < 0 <=> wait[r].left < 0
             /\ wait[r] = NoWait => wait'[r] = NoWait
    <2>1. wait[r] \in Waits /\ wait[r].left \in Int BY <1>1, <1>4
    <2>2. CASE wait[r].left > 0
        <3>1. wait'[r] = [wait[r] EXCEPT !.left = @ - 1] BY <1>2, <2>2
        <3>2. wait[r] # NoWait BY <2>2 DEF NoWait
        <3>3. wait'[r].left \in Int /\ wait'[r].left >= 0 BY <1>3, <1>4, <2>1, <2>2, <3>1
        <3>4. QED BY <1>3, <2>1, <2>2, <3>1, <3>2, <3>3
    <2>3. CASE ~(wait[r].left > 0) BY <1>2, <2>1, <2>3
    <2>4. QED BY <2>2, <2>3
<1>6. wait' \in [Runs -> Waits] BY <1>2, <1>5
<1>7. QED BY <1>5, <1>6

LEMMA TickType ==
    ASSUME TypeOK, Tick
    PROVE  TypeOK'
<1>1. wait' \in [Runs -> Waits] BY TickIs
<1>2. UNCHANGED <<sent, consumed, waits, relayed, holder, box, slot, held, stash, at, dropped, crashes>>
    BY DEF Tick, ledger
<1>3. QED BY <1>1, <1>2, TypeFacts, IdFacts, TypedAfter

LEMMA StopWaitingIs ==
    ASSUME TypeOK, NEW r \in Runs, StopWaiting(r)
    PROVE  /\ box' = [box EXCEPT ![r] = GivenBack(box[r], KeptReply(r))] /\ wait' = [wait EXCEPT ![r] = NoWait]
           /\ KeptReply(r) \in Seq(Ids) /\ GivenBack(box[r], KeptReply(r)) \in Boxes /\ Moved(r)
           /\ UNCHANGED <<sent, consumed, relayed, holder, slot, held, stash, dropped, crashes>>
<1>1. wait[r].kept \in {0} \cup Ids BY DeskTypes DEF Waits
<1>2. KeptReply(r) \in Seq(Ids)
    <2>1. <<>> \in Seq(Ids) BY NoLine
    <2>2. wait[r].kept # 0 => <<wait[r].kept>> \in Seq(Ids) BY <1>1
    <2>3. QED BY <2>1, <2>2 DEF KeptReply
<1>3. GivenBack(box[r], KeptReply(r)) \in Boxes BY <1>2, DeskTypes, GivenBackIs
<1>4. box' = [box EXCEPT ![r] = GivenBack(box[r], KeptReply(r))]
    <2>1. CASE wait[r].kept # 0 BY <2>1 DEF StopWaiting, KeptReply
    <2>2. CASE wait[r].kept = 0
        <3>1. box' = box /\ KeptReply(r) = <<>> BY <2>2 DEF StopWaiting, KeptReply
        <3>2. GivenBack(box[r], <<>>) = box[r]
            <4>1. box[r] \in Boxes BY DeskTypes
            <4>2. box[r].returned \in Seq(Ids) BY <4>1, BoxTypes
            <4>3. <<>> \o box[r].returned = box[r].returned BY <4>2, ConcatEmptySeq
            <4>4. QED BY <4>1, <4>3 DEF GivenBack, Boxes
        <3>3. box = [box EXCEPT ![r] = box[r]] BY TypeFacts
        <3>4. QED BY <3>1, <3>2, <3>3
    <2>3. QED BY <2>1, <2>2
<1>5. Moved(r)
    <2>1. at[r] \notin Out /\ "home" \in Places \ Out /\ at' = [at EXCEPT ![r] = "home"]
        BY DEF StopWaiting, Move, Out, Places
    <2>2. QED BY <2>1 DEF Moved
<1>6. QED BY <1>2, <1>3, <1>4, <1>5 DEF StopWaiting

LEMMA StopWaitingType ==
    ASSUME TypeOK, NEW r \in Runs, StopWaiting(r)
    PROVE  TypeOK'
<1>1. /\ box' = [box EXCEPT ![r] = GivenBack(box[r], KeptReply(r))] /\ wait' = [wait EXCEPT ![r] = NoWait]
      /\ GivenBack(box[r], KeptReply(r)) \in Boxes /\ Moved(r)
      /\ UNCHANGED <<sent, consumed, relayed, holder, slot, held, stash, dropped, crashes>>
    BY StopWaitingIs
<1>2. box' \in [Rooms \cup Runs -> Boxes] /\ wait' \in [Runs -> Waits] BY <1>1, TypeFacts, NoWaitType
<1>3. at' \in [Runs -> Places] BY <1>1, MovedType
<1>4. waits' \in Seq(WaitLines) /\ Len(waits') = Len(sent)
    <2>1. CASE UNCHANGED waits BY <2>1, TypeFacts
    <2>2. CASE Logged(wait[r].id, <<"left">>) /\ wait[r].id \in Ids
        <3>1. <<"left">> \in WaitLines BY DEF WaitLines
        <3>2. QED BY <2>2, <3>1, LoggedIs
    <2>3. CASE Logged(wait[r].id, <<"left">>) /\ wait[r].id \notin Ids
        <3>1. DOMAIN waits = Ids BY TypeFacts, IdFacts
        <3>2. waits' = waits BY <2>3, <3>1, TypeFacts DEF Logged
        <3>3. QED BY <3>2, TypeFacts
    <2>4. QED BY <2>1, <2>2, <2>3 DEF StopWaiting
<1>5. QED BY <1>1, <1>2, <1>3, <1>4, TypeFacts, IdFacts, TypedAfter

LEMMA MoreIn ==
    ASSUME NEW S, NEW T, S \subseteq T
    PROVE  Seq(S) \subseteq Seq(T)
<1>1. SUFFICES ASSUME NEW s \in Seq(S) PROVE s \in Seq(T) OBVIOUS
<1>2. Len(s) \in Nat /\ s \in [1 .. Len(s) -> S] OBVIOUS
<1>3. s \in [1 .. Len(s) -> T] BY <1>2
<1>4. QED BY <1>2, <1>3, SeqDef

(* A signal sent is the next of the ledger, and the last shown.            *)
LEMMA SendIs ==
    ASSUME TypeOK, NEW r \in Runs, SendStep(r)
    PROVE  /\ Len(sent') = Len(sent) + 1 /\ Ids' = 1 .. Len(sent) + 1 /\ Ids' = Ids \cup {Len(sent) + 1}
           /\ Len(sent) + 1 \notin Ids /\ \A i \in Ids : sent'[i] = sent[i]
           /\ sent'[Len(sent) + 1].from = RoomOf[r]
           /\ relayed' = Append(relayed, Len(sent) + 1) /\ waits' = Append(waits, <<>>)
           /\ waits'[Len(sent) + 1] = <<>> /\ \A i \in Ids : waits'[i] = waits[i]
           /\ sent' \in Seq([from : Rooms, to : Rooms, kind : Kinds])
           /\ waits' \in Seq(WaitLines) /\ Len(waits') = Len(sent')
           /\ \/ wait' = [wait EXCEPT ![r] = [NoWait EXCEPT !.id = Len(sent) + 1]] /\ wait[r].id = 0
              \/ wait' = wait
<1> DEFINE Signal == [from : Rooms, to : Rooms, kind : Kinds]
<1>1. PICK e \in Signal :
        /\ e.from = RoomOf[r] /\ sent' = Append(sent, e)
        /\ relayed' = Append(relayed, Len(sent')) /\ waits' = Append(waits, <<>>)
        /\ \/ wait' = [wait EXCEPT ![r] = [NoWait EXCEPT !.id = Len(sent')]] /\ wait[r].id = 0
           \/ wait' = wait
    <2>1. PICK to \in Rooms, kind \in Kinds, waiting \in BOOLEAN :
            /\ (waiting => wait[r].id = 0)
            /\ sent' = Append(sent, [from |-> RoomOf[r], to |-> to, kind |-> kind])
            /\ relayed' = Append(relayed, Len(sent')) /\ waits' = Append(waits, <<>>)
            /\ wait' = IF waiting THEN [wait EXCEPT ![r] = [NoWait EXCEPT !.id = Len(sent')]] ELSE wait
        BY DEF SendStep
    <2>2. [from |-> RoomOf[r], to |-> to, kind |-> kind] \in Signal BY IdFacts
    <2>3. QED BY <2>1, <2>2
<1>2. sent \in Seq(Signal) BY DEF TypeOK
<1>3. sent'[Len(sent) + 1].from = RoomOf[r]
    <2>1. sent'[Len(sent) + 1] = e BY <1>1, <1>2
    <2>2. QED BY <1>1, <2>1
<1> HIDE DEF Signal
<1>4. Len(sent') = Len(sent) + 1 /\ sent' \in Seq(Signal) /\ \A i \in 1 .. Len(sent) : sent'[i] = sent[i]
    BY <1>1, <1>2
<1>5. Len(sent) \in Nat /\ Ids = 1 .. Len(sent) BY IdFacts
<1>6. Ids' = 1 .. Len(sent) + 1 BY <1>4, <1>5 DEF Ids
<1>7. waits \in Seq(WaitLines) /\ Len(waits) = Len(sent) BY TypeFacts
<1>8. <<>> \in WaitLines BY DEF WaitLines
<1>9. waits' \in Seq(WaitLines) /\ Len(waits') = Len(sent) + 1 /\ waits'[Len(sent) + 1] = <<>>
      /\ \A i \in 1 .. Len(sent) : waits'[i] = waits[i]
    <2> HIDE DEF WaitLines
    <2> QED BY <1>1, <1>7, <1>8
<1>10. QED BY <1>1, <1>3, <1>4, <1>5, <1>6, <1>9 DEF Signal

LEMMA SendType ==
    ASSUME TypeOK, NEW r \in Runs, SendStep(r)
    PROVE  TypeOK'
<1>1. /\ Ids' = Ids \cup {Len(sent) + 1} /\ relayed' = Append(relayed, Len(sent) + 1)
      /\ sent' \in Seq([from : Rooms, to : Rooms, kind : Kinds])
      /\ waits' \in Seq(WaitLines) /\ Len(waits') = Len(sent')
      /\ \/ wait' = [wait EXCEPT ![r] = [NoWait EXCEPT !.id = Len(sent) + 1]]
         \/ wait' = wait
    BY SendIs
<1>2. UNCHANGED <<consumed, holder, box, slot, held, stash, dropped, crashes>> /\ Moved(r) BY DEF SendStep
<1>3. PICK J : J = Ids' BY Zenon
<1>4. Ids \subseteq J /\ Len(sent) + 1 \in J BY <1>1, <1>3
<1>5. Seq(Ids) \subseteq Seq(J) BY <1>4, MoreIn
<1>6. relayed' \in Seq(J)
    <2>1. relayed \in Seq(J) BY <1>5, TypeFacts
    <2>2. QED BY <2>1, <1>4, <1>1
<1>7. box' \in [Rooms \cup Runs -> [returned : Seq(J), urgent : Seq(J), ordinary : Seq(J)]]
    <2>1. Boxes \subseteq [returned : Seq(J), urgent : Seq(J), ordinary : Seq(J)] BY <1>5 DEF Boxes
    <2>2. QED BY <2>1, <1>2, TypeFacts
<1>8. slot' \in [Runs -> Seq(J)] /\ held' \in [Runs -> Seq(J)] /\ stash' \in [Runs -> {0} \cup J]
    BY <1>2, <1>4, <1>5, TypeFacts
<1>9. wait' \in [Runs -> [id : {0} \cup J, left : -1 .. Patience, kept : {0} \cup J]]
    <2> DEFINE Wider == [id : {0} \cup J, left : -1 .. Patience, kept : {0} \cup J]
    <2>1. Waits \subseteq Wider BY <1>4 DEF Waits
    <2>2. [NoWait EXCEPT !.id = Len(sent) + 1] \in Wider BY <1>4, SignalsAssumption DEF NoWait
    <2>3. wait \in [Runs -> Wider]
        <3> HIDE DEF Wider
        <3> QED BY <2>1, TypeFacts
    <2> HIDE DEF Wider
    <2>4. wait' \in [Runs -> Wider] BY <1>1, <2>2, <2>3
    <2>5. QED BY <2>4 DEF Wider
<1>10. at' \in [Runs -> Places] BY <1>2, MovedType
<1>11. consumed' \subseteq J /\ dropped' \subseteq J /\ crashes' \in 0 .. MaxCrashes
       /\ holder' \in [Rooms -> Runs \cup {NoRun}]
    BY <1>2, <1>4, IdFacts, TypeFacts
<1>12. QED BY <1>1, <1>3, <1>6, <1>7, <1>8, <1>9, <1>10, <1>11 DEF TypeOK, WaitLines

LEMMA DeskSteps ==
    ASSUME TypeOK, NEW r \in Runs, SteerStep(r) \/ Pull(r) \/ WaitOut(r)
    PROVE  DeskStep(r) /\ waits' \in Seq(WaitLines) /\ Len(waits') = Len(sent)
<1>1. CASE SteerStep(r) BY <1>1, SteerDesk, TypeFacts
<1>2. CASE Pull(r) BY <1>2, PullDesk, TypeFacts
<1>3. CASE WaitOut(r)
    <2>1. PICK new \in WaitLines : Logged(wait[r].id, new) BY <1>3, WaitOutLines
    <2>2. wait[r].id \in Ids BY <1>3, WaitOutLines
    <2>3. QED BY <1>3, <2>1, <2>2, LoggedIs, WaitOutDesk
<1>4. QED BY <1>1, <1>2, <1>3

LEMMA ConsumeIs ==
    ASSUME TypeOK, NEW r \in Runs, ConsumeStep(r)
    PROVE  /\ Head(held[r]) \in Ids /\ Tail(held[r]) \in Seq(Ids) /\ held[r] # <<>> /\ Moved(r)
           /\ consumed' = consumed \cup {Head(held[r])} /\ held' = [held EXCEPT ![r] = Tail(held[r])]
           /\ UNCHANGED <<sent, waits, relayed, holder, box, slot, wait, stash, dropped, crashes>>
<1>1. held[r] \in Seq(Ids) /\ held[r] # <<>> BY DeskTypes DEF ConsumeStep
<1>2. Head(held[r]) \in Ids /\ Tail(held[r]) \in Seq(Ids) BY <1>1
<1>3. QED BY <1>1, <1>2 DEF ConsumeStep

LEMMA TypeStep ==
    ASSUME TypeOK, [Next]_vars
    PROVE  TypeOK'
<1>1. CASE UNCHANGED vars
    <2>1. UNCHANGED <<sent, consumed, waits, relayed, holder, box, slot, held, wait, stash, at, dropped, crashes>>
        BY <1>1 DEF vars, ledger, desks
    <2>2. QED BY <2>1, TypeFacts, IdFacts, TypedAfter
<1>2. ASSUME NEW r \in Runs, SteerStep(r) \/ Pull(r) \/ WaitOut(r) PROVE TypeOK'
    BY <1>2, DeskSteps, DeskStepType
<1>3. ASSUME NEW r \in Runs, QuietStep(r) PROVE TypeOK'
    <2>1. UNCHANGED <<sent, consumed, waits, relayed, holder, box, slot, held, wait, dropped, crashes>>
          /\ stash' \in [Runs -> {0} \cup Ids] /\ Moved(r)
        BY <1>3 DEF QuietStep, ledger
    <2>2. at' \in [Runs -> Places] BY <2>1, MovedType
    <2>3. QED BY <2>1, <2>2, TypeFacts, IdFacts, TypedAfter
<1>4. ASSUME NEW r \in Runs, ConsumeStep(r) PROVE TypeOK'
    <2>1. /\ Head(held[r]) \in Ids /\ Tail(held[r]) \in Seq(Ids) /\ Moved(r)
          /\ consumed' = consumed \cup {Head(held[r])} /\ held' = [held EXCEPT ![r] = Tail(held[r])]
          /\ UNCHANGED <<sent, waits, relayed, holder, box, slot, wait, stash, dropped, crashes>>
        BY <1>4, ConsumeIs
    <2>2. held' \in [Runs -> Seq(Ids)] /\ consumed' \subseteq Ids BY <2>1, TypeFacts, IdFacts
    <2>3. at' \in [Runs -> Places] BY <2>1, MovedType
    <2>4. QED BY <2>1, <2>2, <2>3, TypeFacts, IdFacts, TypedAfter
<1>5. QED BY <1>1, <1>2, <1>3, <1>4, Steps, LendType, LeaveType, DeliverType, CrashType, TickType,
             StopWaitingType, SendType

LEMMA TypeInit ==
    ASSUME Init
    PROVE  TypeOK
<1>1. Ids = {} BY DEF Init, Ids
<1>2. <<>> \in Seq(Ids) /\ <<>> \in Seq([from : Rooms, to : Rooms, kind : Kinds]) /\ <<>> \in Seq(WaitLines)
    BY NoLine
<1>3. EmptyBox \in Boxes /\ NoWait \in Waits BY EmptyBoxType, NoWaitType
<1>4. "new" \in Places BY DEF Places, Out
<1>5. /\ box \in [Rooms \cup Runs -> Boxes] /\ wait \in [Runs -> Waits] /\ slot \in [Runs -> Seq(Ids)]
      /\ held \in [Runs -> Seq(Ids)] /\ stash \in [Runs -> {0} \cup Ids] /\ at \in [Runs -> Places]
      /\ holder \in [Rooms -> Runs \cup {NoRun}] /\ relayed \in Seq(Ids)
    BY <1>2, <1>3, <1>4 DEF Init
<1>6. crashes \in 0 .. MaxCrashes BY SignalsAssumption DEF Init
<1>7. waits \in Seq(WaitLines) /\ Len(waits) = Len(sent) /\ sent \in Seq([from : Rooms, to : Rooms, kind : Kinds])
    BY <1>2 DEF Init
<1>8. consumed \subseteq Ids /\ dropped \subseteq Ids BY DEF Init
<1>9. QED BY <1>5, <1>6, <1>7, <1>8 DEF TypeOK, Boxes, Waits, WaitLines

(* Every signal, line of the ledger, queue, slot and desk keeps its type,  *)
(* for any rooms, runs, capacities, refused posts and restarts.            *)
THEOREM SignalsTyped == Spec => []TypeOK
<1>1. Init => TypeOK BY TypeInit
<1>2. TypeOK /\ [Next]_vars => TypeOK' BY TypeStep
<1>3. QED BY <1>1, <1>2, PTL DEF Spec

-----------------------------------------------------------------------------
(* Who holds a room's queue.                                               *)

LEMMA OwnersApart ==
    /\ \A m \in Rooms : m \notin Runs
    /\ \A r \in Runs : r \notin Rooms /\ r # NoRun /\ RoomOf[r] \in Rooms /\ RoomOf[r] # r
BY SignalsAssumption

(* What stays so if the holders do.                                        *)
LEMMA HolderKept ==
    ASSUME TypeOK, HolderInv, UNCHANGED holder,
           \A m \in Rooms : holder[m] # NoRun => box'[m] = box[m],
           \A r \in Runs : at[r] \notin Out => at'[r] \notin Out,
           \A r \in Runs : holder[RoomOf[r]] # r =>
               box'[r] = EmptyBox /\ slot'[r] = <<>> /\ held'[r] = <<>> /\ wait'[r].kept = 0
    PROVE  HolderInv'
<1>1. \A m \in Rooms : holder[m] \in Runs \cup {NoRun} BY TypeFacts
<1>2. QED BY <1>1 DEF HolderInv

(* A desk without signals collects none and takes none.                    *)
LEMMA EmptyDesk ==
    ASSUME TypeOK, NEW r \in Runs, NEW w \in Waits, box[r] = EmptyBox, slot[r] = <<>>, held[r] = <<>>, w.kept = 0,
           NEW b, NEW h, NEW k, NEW gone, Takes(Collect(r, w), b, held[r], h, k, gone)
    PROVE  b = EmptyBox /\ h = <<>> /\ k = 0
<1>1. PICK f : Gathers(r, w, f) /\ Collect(r, w) = f[Len(slot[r])] BY CollectIs
<1>2. Len(slot[r]) = 0 OBVIOUS
<1>3. PICK c : c = Collect(r, w) BY Zenon
<1>4. c = [box |-> EmptyBox, kept |-> 0, lost |-> {}] BY <1>1, <1>2, <1>3 DEF Gathers
<1>5. c.box = EmptyBox /\ c.kept = 0 /\ c.lost = {} BY <1>4
<1>6. FirstSteer(EmptyBox) = 0
    <2>1. Returns(EmptyBox) = {} BY EmptyBoxType DEF Returns
    <2>2. QED BY <2>1, EmptyBoxType DEF FirstSteer
<1>7. AfterPull(EmptyBox) = EmptyBox /\ Pulled(EmptyBox) = <<>>
    <2>1. EmptyBox \in Boxes BY EmptyBoxType
    <2>2. PICK u \in Int, o \in Int :
             /\ AfterPull(EmptyBox) \in Boxes
             /\ AfterPull(EmptyBox).returned = Past(EmptyBox.returned, Bandwidth)
             /\ AfterPull(EmptyBox).urgent = Past(EmptyBox.urgent, u)
             /\ AfterPull(EmptyBox).ordinary = Past(EmptyBox.ordinary, o)
             /\ Pulled(EmptyBox) = First(EmptyBox.returned, Bandwidth) \o First(EmptyBox.urgent, u)
                                     \o First(EmptyBox.ordinary, o)
        BY <2>1, PulledIs
    <2>3. \A n \in Int : First(<<>>, n) = <<>> /\ Past(<<>>, n) = <<>>
        <3>1. ASSUME NEW n \in Int PROVE First(<<>>, n) = <<>> /\ Past(<<>>, n) = <<>>
            <4>1. CASE n <= 0 BY <4>1 DEF First, Past
            <4>2. CASE n > 0
                <5>1. First(<<>>, n) = SubSeq(<<>>, 1, 0) /\ Past(<<>>, n) = SubSeq(<<>>, n + 1, 0)
                    BY <4>2 DEF First, Past
                <5>2. SubSeq(<<>>, 1, 0) = <<>> /\ SubSeq(<<>>, n + 1, 0) = <<>> BY <4>2
                <5>3. QED BY <5>1, <5>2
            <4>3. QED BY <4>1, <4>2
        <3>2. QED BY <3>1
    <2>4. Bandwidth \in Int BY SignalsAssumption
    <2>5. Pulled(EmptyBox) = <<>> \o <<>> \o <<>> BY <2>2, <2>3, <2>4, EmptyBoxType
    <2>6. <<>> \o <<>> = <<>> OBVIOUS
    <2>7. AfterPull(EmptyBox).returned = <<>> /\ AfterPull(EmptyBox).urgent = <<>> /\ AfterPull(EmptyBox).ordinary = <<>>
        BY <2>2, <2>3, <2>4, EmptyBoxType
    <2>8. AfterPull(EmptyBox) = EmptyBox BY <2>2, <2>7, BoxTypes DEF EmptyBox
    <2>9. QED BY <2>5, <2>6, <2>8
<1>8. <<>> \o <<>> = <<>> OBVIOUS
<1>9. Takes(c, b, <<>>, h, k, gone) BY <1>3
<1>10. QED BY <1>5, <1>6, <1>7, <1>8, <1>9 DEF Takes

LEMMA DeskStepHolder ==
    ASSUME TypeOK, HolderInv, NEW r \in Runs, DeskStep(r)
    PROVE  HolderInv'
<1>1. PICK w \in Waits, b \in Boxes, h \in Seq(Ids), v \in Waits, gone \in SUBSET Ids :
        w.id = wait[r].id /\ w.kept = wait[r].kept /\ Desked(r, Collect(r, w), b, h, v, gone)
    BY DEF DeskStep
<1>2. /\ box' = [box EXCEPT ![r] = b] /\ slot' = [slot EXCEPT ![r] = <<>>]
      /\ held' = [held EXCEPT ![r] = h] /\ wait' = [wait EXCEPT ![r] = v]
      /\ Moved(r) /\ UNCHANGED holder /\ Takes(Collect(r, w), b, held[r], h, v.kept, gone)
    BY <1>1 DEF Desked
<1>3. holder[RoomOf[r]] # r => b = EmptyBox /\ h = <<>> /\ v.kept = 0
    <2>1. SUFFICES ASSUME holder[RoomOf[r]] # r PROVE b = EmptyBox /\ h = <<>> /\ v.kept = 0 OBVIOUS
    <2>2. box[r] = EmptyBox /\ slot[r] = <<>> /\ held[r] = <<>> /\ w.kept = 0 BY <2>1, <1>1 DEF HolderInv
    <2>3. PICK k : k = v.kept BY Zenon
    <2>4. Takes(Collect(r, w), b, held[r], h, k, gone) BY <1>2, <2>3
    <2>5. b = EmptyBox /\ h = <<>> /\ k = 0 BY <2>2, <2>4, EmptyDesk
    <2>6. QED BY <2>3, <2>5
<1>4. \A m \in Rooms : box'[m] = box[m] BY <1>2, TypeFacts, OwnersApart
<1>5. \A q \in Runs : at[q] \notin Out => at'[q] \notin Out BY <1>2, MovedType
<1>6. ASSUME NEW q \in Runs, holder[RoomOf[q]] # q
      PROVE  box'[q] = EmptyBox /\ slot'[q] = <<>> /\ held'[q] = <<>> /\ wait'[q].kept = 0
    <2>1. CASE q = r BY <2>1, <1>2, <1>3, <1>6, TypeFacts
    <2>2. CASE q # r BY <2>2, <1>2, <1>6, TypeFacts DEF HolderInv
    <2>3. QED BY <2>1, <2>2
<1>7. QED BY <1>2, <1>4, <1>5, <1>6, HolderKept

LEMMA LendHolder ==
    ASSUME TypeOK, HolderInv, NEW r \in Runs, Lend(r)
    PROVE  HolderInv'
<1>1. at[r] = "new" /\ at' = [at EXCEPT ![r] = "assemble"] /\ UNCHANGED <<slot, held, wait>>
    BY DEF Lend, Move, desks
<1>2. "new" \in Out /\ "assemble" \notin Out BY DEF Out
<1>3. PICK m \in Rooms : m = RoomOf[r] BY OwnersApart
<1>4. \A q \in Runs : at[q] \notin Out => at'[q] \notin Out BY <1>1, <1>2, TypeFacts
<1>5. CASE UNCHANGED <<holder, box>> BY <1>1, <1>4, <1>5, HolderKept DEF HolderInv
<1>6. CASE /\ holder[m] = NoRun /\ holder' = [holder EXCEPT ![m] = r]
           /\ box' = [box EXCEPT ![r] = box[m], ![m] = EmptyBox]
    <2>1. at'[r] \notin Out /\ box'[m] = EmptyBox /\ holder'[m] = r BY <1>1, <1>2, <1>6, TypeFacts
    <2>2. ASSUME NEW n \in Rooms, holder'[n] # NoRun
          PROVE  RoomOf[holder'[n]] = n /\ at'[holder'[n]] \notin Out /\ box'[n] = EmptyBox
        <3>1. CASE n = m BY <2>1, <1>3, <3>1
        <3>2. CASE n # m
            <4>1. holder'[n] = holder[n] /\ box'[n] = box[n] BY <1>6, <3>2, TypeFacts, OwnersApart
            <4>2. holder[n] \in Runs BY <4>1, <2>2, TypeFacts
            <4>3. QED BY <4>1, <4>2, <2>2, <1>4 DEF HolderInv
        <3>3. QED BY <3>1, <3>2
    <2>3. ASSUME NEW q \in Runs, holder'[RoomOf[q]] # q
          PROVE  box'[q] = EmptyBox /\ slot'[q] = <<>> /\ held'[q] = <<>> /\ wait'[q].kept = 0
        <3>1. q # r BY <2>1, <2>3, <1>3
        <3>2. holder[RoomOf[q]] # q
            <4>1. RoomOf[q] \in Rooms /\ q # NoRun BY OwnersApart
            <4>2. CASE RoomOf[q] = m BY <4>1, <4>2, <1>6
            <4>3. CASE RoomOf[q] # m BY <4>1, <4>3, <1>6, <2>3, TypeFacts
            <4>4. QED BY <4>2, <4>3
        <3>3. box'[q] = box[q]
            <4>1. q # m BY OwnersApart
            <4>2. QED BY <4>1, <3>1, <1>6, TypeFacts
        <3>4. QED BY <3>2, <3>3, <1>1 DEF HolderInv
    <2>4. QED BY <2>2, <2>3 DEF HolderInv
<1>7. QED BY <1>3, <1>5, <1>6 DEF Lend

LEMMA LeaveHolder ==
    ASSUME TypeOK, HolderInv, NEW r \in Runs, Leave(r)
    PROVE  HolderInv'
<1>1. PICK back : box' = [o \in DOMAIN box |-> IF o = r THEN EmptyBox
                                   ELSE IF o \in Rooms /\ holder[o] = r THEN back ELSE box[o]]
    BY DEF Leave
<1>2. /\ holder' = [m \in Rooms |-> IF holder[m] = r THEN NoRun ELSE holder[m]]
      /\ slot' = [slot EXCEPT ![r] = <<>>] /\ held' = [held EXCEPT ![r] = <<>>]
      /\ wait' = [wait EXCEPT ![r] = NoWait] /\ at' = [at EXCEPT ![r] = "gone"]
    BY DEF Leave, Emptied, Move
<1>3. ASSUME NEW n \in Rooms, holder'[n] # NoRun
      PROVE  RoomOf[holder'[n]] = n /\ at'[holder'[n]] \notin Out /\ box'[n] = EmptyBox
    <2>1. holder'[n] = holder[n] /\ holder[n] # r /\ holder[n] \in Runs BY <1>2, <1>3, TypeFacts
    <2>2. box'[n] = box[n] BY <1>1, <2>1, TypeFacts, OwnersApart
    <2>3. at'[holder[n]] = at[holder[n]] BY <1>2, <2>1, TypeFacts
    <2>4. QED BY <2>1, <2>2, <2>3, <1>3 DEF HolderInv
<1>4. ASSUME NEW q \in Runs, holder'[RoomOf[q]] # q
      PROVE  box'[q] = EmptyBox /\ slot'[q] = <<>> /\ held'[q] = <<>> /\ wait'[q].kept = 0
    <2>1. CASE q = r BY <2>1, <1>1, <1>2, TypeFacts, NoWaitType
    <2>2. CASE q # r
        <3>1. holder[RoomOf[q]] # q BY <2>2, <1>2, <1>4, OwnersApart
        <3>2. box'[q] = box[q] BY <1>1, <2>2, TypeFacts, OwnersApart
        <3>3. QED BY <2>2, <3>1, <3>2, <1>2, TypeFacts DEF HolderInv
    <2>3. QED BY <2>1, <2>2
<1>5. QED BY <1>3, <1>4 DEF HolderInv

(* Where a signal shown to the rooms goes.                                 *)
LEMMA DeliverIs ==
    ASSUME TypeOK, HolderInv, Deliver
    PROVE  \E i \in Ids, m \in Rooms :
             /\ relayed # <<>> /\ i = Head(relayed) /\ relayed' = Tail(relayed) /\ m = sent[i].to
             /\ UNCHANGED <<sent, consumed, waits, holder, held, wait, stash, at, crashes>>
             /\ \/ dropped' = dropped \cup {i} /\ UNCHANGED <<box, slot>>
                \/ holder[m] = NoRun /\ box' = [box EXCEPT ![m] = Delivered(box[m], i)] /\ UNCHANGED <<slot, dropped>>
                \/ /\ holder[m] \in Runs /\ RoomOf[holder[m]] = m
                   /\ slot' = [slot EXCEPT ![holder[m]] = Append(slot[holder[m]], i)] /\ UNCHANGED <<box, dropped>>
<1>1. relayed \in Seq(Ids) /\ relayed # <<>> /\ relayed' = Tail(relayed) BY TypeFacts DEF Deliver
<1>2. PICK i \in Ids : i = Head(relayed) BY <1>1
<1>3. PICK m \in Rooms : m = sent[i].to BY IdFacts
<1>4. holder[m] \in Runs \cup {NoRun} BY TypeFacts
<1>5. holder[m] # NoRun => RoomOf[holder[m]] = m BY DEF HolderInv
<1>6. PICK full \in BOOLEAN :
        /\ dropped' = IF full THEN dropped \cup {i} ELSE dropped
        /\ box' = IF holder[m] = NoRun /\ ~full THEN [box EXCEPT ![m] = Delivered(@, i)] ELSE box
        /\ slot' = IF holder[m] # NoRun /\ ~full THEN [slot EXCEPT ![holder[m]] = Append(@, i)] ELSE slot
    <2> DEFINE full == IF holder[m] = NoRun THEN Sheds(box[m], i) ELSE Len(slot[holder[m]]) >= Capacity
    <2>1. /\ dropped' = IF full THEN dropped \cup {i} ELSE dropped
          /\ box' = IF holder[m] = NoRun /\ ~full THEN [box EXCEPT ![m] = Delivered(@, i)] ELSE box
          /\ slot' = IF holder[m] # NoRun /\ ~full THEN [slot EXCEPT ![holder[m]] = Append(@, i)] ELSE slot
        BY <1>2, <1>3 DEF Deliver
    <2> HIDE DEF full
    <2>2. (IF full THEN TRUE ELSE FALSE) \in BOOLEAN OBVIOUS
    <2>3. QED BY <2>1, <2>2
<1>7. UNCHANGED <<sent, consumed, waits, holder, held, wait, stash, at, crashes>> BY DEF Deliver, ledger
<1>8. \/ dropped' = dropped \cup {i} /\ UNCHANGED <<box, slot>>
      \/ holder[m] = NoRun /\ box' = [box EXCEPT ![m] = Delivered(box[m], i)] /\ UNCHANGED <<slot, dropped>>
      \/ /\ holder[m] \in Runs /\ RoomOf[holder[m]] = m
         /\ slot' = [slot EXCEPT ![holder[m]] = Append(slot[holder[m]], i)] /\ UNCHANGED <<box, dropped>>
    BY <1>4, <1>5, <1>6
<1>9. QED BY <1>1, <1>2, <1>3, <1>7, <1>8, Zenon

LEMMA HolderStep ==
    ASSUME TypeOK, HolderInv, [Next]_vars
    PROVE  HolderInv'
<1>1. CASE UNCHANGED vars
    BY <1>1, HolderKept DEF vars, ledger, desks, HolderInv
<1>2. ASSUME NEW r \in Runs, SteerStep(r) \/ Pull(r) \/ WaitOut(r) PROVE HolderInv'
    BY <1>2, DeskSteps, DeskStepHolder
<1>3. ASSUME NEW r \in Runs, QuietStep(r) \/ SendStep(r) \/ ConsumeStep(r) \/ StopWaiting(r) PROVE HolderInv'
    <2>1. Moved(r) /\ UNCHANGED <<holder, slot>>
        BY <1>3, StopWaitingIs DEF QuietStep, SendStep, ConsumeStep
    <2>2. \A q \in Runs : at[q] \notin Out => at'[q] \notin Out BY <2>1, MovedType
    <2>3. CASE QuietStep(r) BY <2>1, <2>2, <2>3, HolderKept DEF QuietStep, HolderInv
    <2>4. CASE SendStep(r)
        <3>1. UNCHANGED <<box, held>> BY <2>4 DEF SendStep
        <3>2. \A q \in Runs : wait'[q].kept = 0 \/ wait'[q].kept = wait[q].kept
            <4>1. \/ wait' = [wait EXCEPT ![r] = [NoWait EXCEPT !.id = Len(sent) + 1]]
                  \/ wait' = wait BY <2>4, SendIs
            <4>2. [NoWait EXCEPT !.id = Len(sent) + 1].kept = 0 BY DEF NoWait
            <4>3. QED BY <4>1, <4>2, TypeFacts
        <3>3. QED BY <2>1, <2>2, <3>1, <3>2, HolderKept DEF HolderInv
    <2>5. CASE ConsumeStep(r)
        <3>1. held[r] # <<>> /\ held' = [held EXCEPT ![r] = Tail(held[r])] /\ UNCHANGED <<box, wait>>
            BY <2>5, ConsumeIs
        <3>2. \A q \in Runs : held[q] = <<>> => held'[q] = <<>> BY <3>1, TypeFacts
        <3>3. QED BY <2>1, <2>2, <3>1, <3>2, HolderKept DEF HolderInv
    <2>6. CASE StopWaiting(r)
        <3>1. /\ box' = [box EXCEPT ![r] = GivenBack(box[r], KeptReply(r))] /\ wait' = [wait EXCEPT ![r] = NoWait]
              /\ UNCHANGED held BY <2>6, StopWaitingIs
        <3>2. \A m \in Rooms : box'[m] = box[m] BY <3>1, TypeFacts, OwnersApart
        <3>3. ASSUME NEW q \in Runs, holder[RoomOf[q]] # q
              PROVE  box'[q] = EmptyBox /\ slot'[q] = <<>> /\ held'[q] = <<>> /\ wait'[q].kept = 0
            <4>1. box[q] = EmptyBox /\ slot[q] = <<>> /\ held[q] = <<>> /\ wait[q].kept = 0
                BY <3>3 DEF HolderInv
            <4>2. CASE q # r BY <4>1, <4>2, <3>1, <2>1, TypeFacts
            <4>3. CASE q = r
                <5>1. KeptReply(r) = <<>> BY <4>1, <4>3 DEF KeptReply
                <5>2. <<>> \o <<>> = <<>> OBVIOUS
                <5>3. GivenBack(EmptyBox, <<>>) = EmptyBox BY <5>2 DEF GivenBack, EmptyBox
                <5>4. QED BY <4>1, <4>3, <5>1, <5>3, <3>1, <2>1, TypeFacts, NoWaitType
            <4>4. QED BY <4>2, <4>3
        <3>4. QED BY <2>1, <2>2, <3>2, <3>3, HolderKept
    <2>7. QED BY <1>3, <2>3, <2>4, <2>5, <2>6
<1>4. CASE Deliver
    <2>1. PICK i \in Ids, m \in Rooms :
             /\ UNCHANGED <<holder, held, wait, at>>
             /\ \/ UNCHANGED <<box, slot>>
                \/ holder[m] = NoRun /\ box' = [box EXCEPT ![m] = Delivered(box[m], i)] /\ UNCHANGED slot
                \/ /\ holder[m] \in Runs /\ RoomOf[holder[m]] = m
                   /\ slot' = [slot EXCEPT ![holder[m]] = Append(slot[holder[m]], i)] /\ UNCHANGED box
        BY <1>4, DeliverIs
    <2>2. \A n \in Rooms : holder[n] # NoRun => box'[n] = box[n] BY <2>1, TypeFacts
    <2>3. \A q \in Runs : box'[q] = box[q] BY <2>1, TypeFacts, OwnersApart
    <2>4. \A q \in Runs : holder[RoomOf[q]] # q => slot'[q] = slot[q] BY <2>1, TypeFacts
    <2>5. QED BY <2>1, <2>2, <2>3, <2>4, HolderKept DEF HolderInv
<1>5. CASE Tick
    <2>1. UNCHANGED <<holder, box, slot, held, at>> BY <1>5 DEF Tick
    <2>2. \A r \in Runs : wait'[r].kept = wait[r].kept BY <1>5, TickIs
    <2>3. QED BY <2>1, <2>2, HolderKept DEF HolderInv
<1>6. CASE Crash
    <2>1. /\ holder' = [m \in Rooms |-> NoRun]
          /\ box' = [o \in DOMAIN box |-> IF o \in Rooms THEN Folded(o) ELSE EmptyBox]
          /\ slot' = [r \in Runs |-> <<>>] /\ held' = [r \in Runs |-> <<>>] /\ wait' = [r \in Runs |-> NoWait]
        BY <1>6 DEF Crash
    <2>2. \A r \in Runs : box'[r] = EmptyBox BY <2>1, TypeFacts, OwnersApart
    <2>3. QED BY <2>1, <2>2, NoWaitType DEF HolderInv
<1>7. QED BY <1>1, <1>2, <1>3, <1>4, <1>5, <1>6, Steps, LendHolder, LeaveHolder

(* What is still to be shown is the end of the ledger.                     *)
LEMMA WayStep ==
    ASSUME TypeOK, HolderInv, WayInv, [Next]_vars
    PROVE  WayInv'
<1>0. relayed \in Seq(Ids) /\ Len(relayed) \in Nat /\ Len(sent) \in Nat /\ Shown = Len(sent) - Len(relayed)
    BY TypeFacts, IdFacts DEF Shown
<1>1. CASE UNCHANGED <<sent, relayed>> BY <1>1 DEF WayInv, Shown
<1>2. ASSUME NEW r \in Runs, SendStep(r) PROVE WayInv'
    <2>1. Len(sent') = Len(sent) + 1 /\ relayed' = Append(relayed, Len(sent) + 1) BY <1>2, SendIs
    <2>2. Len(relayed') = Len(relayed) + 1 /\ DOMAIN relayed' = 1 .. Len(relayed) + 1 BY <1>0, <2>1
    <2>3. Shown' = Shown BY <1>0, <2>1, <2>2 DEF Shown
    <2>4. ASSUME NEW k \in 1 .. Len(relayed) + 1 PROVE relayed'[k] = Shown + k
        <3>1. CASE k = Len(relayed) + 1 BY <3>1, <1>0, <2>1
        <3>2. CASE k # Len(relayed) + 1
            <4>1. k \in 1 .. Len(relayed) /\ relayed'[k] = relayed[k] BY <3>2, <1>0, <2>1
            <4>2. QED BY <4>1, <1>0 DEF WayInv
        <3>3. QED BY <3>1, <3>2
    <2>5. QED BY <2>2, <2>3, <2>4 DEF WayInv
<1>3. CASE Deliver
    <2>1. relayed # <<>> /\ relayed' = Tail(relayed) /\ sent' = sent BY <1>3 DEF Deliver, ledger
    <2>2. /\ Len(relayed') = Len(relayed) - 1 /\ DOMAIN relayed' = 1 .. Len(relayed) - 1 /\ Len(relayed) > 0
          /\ \A k \in 1 .. Len(relayed) - 1 : relayed'[k] = relayed[k + 1]
        BY <1>0, <2>1
    <2>3. Shown' = Shown + 1 BY <1>0, <2>1, <2>2 DEF Shown
    <2>4. ASSUME NEW k \in 1 .. Len(relayed) - 1 PROVE relayed'[k] = Shown' + k
        <3>1. k + 1 \in DOMAIN relayed BY <1>0
        <3>2. relayed[k + 1] = Shown + (k + 1) BY <3>1 DEF WayInv
        <3>3. Shown \in Nat BY DEF WayInv
        <3>4. QED BY <2>2, <2>3, <3>2, <3>3
    <2>5. QED BY <2>2, <2>3, <2>4 DEF WayInv
<1>4. CASE Crash
    <2>1. relayed' = <<>> /\ sent' = sent BY <1>4 DEF Crash, ledger
    <2>2. Shown' = Len(sent) BY <2>1, <1>0 DEF Shown
    <2>3. QED BY <2>1, <2>2, <1>0 DEF WayInv
<1>5. CASE \E r \in Runs : SteerStep(r) \/ Pull(r) \/ WaitOut(r)
    <2>1. UNCHANGED <<sent, relayed>> BY <1>5, DeskSteps DEF DeskStep, Desked
    <2>2. QED BY <2>1, <1>1
<1>6. CASE \E r \in Runs : Lend(r) \/ Leave(r) \/ QuietStep(r) \/ StopWaiting(r) \/ ConsumeStep(r)
    BY <1>1, <1>6 DEF Lend, Leave, QuietStep, StopWaiting, ConsumeStep, ledger
<1>7. CASE Tick \/ UNCHANGED vars BY <1>1, <1>7 DEF Tick, vars, ledger
<1>8. QED BY <1>2, <1>3, <1>4, <1>5, <1>6, <1>7, Steps

-----------------------------------------------------------------------------
(* Waits.                                                                  *)

Ended == {<<"started", e>> : e \in {"reply", "timeout", "left"}}
Paired == {<<>>, <<"started">>} \cup Ended

LEMMA PairedIs ==
    WaitsPair <=> \A i \in Ids : waits[i] \in Paired
BY DEF WaitsPair, Paired, Ended

LEMMA TwoLines ==
    ASSUME NEW x, NEW y
    PROVE  /\ <<x>> \o <<y>> = <<x, y>> /\ <<>> \o (<<x>> \o <<y>>) = <<x, y>>
           /\ <<x>> \o (<<>> \o <<y>>) = <<x, y>>
<1> DEFINE S == {x, y}
           s == <<x>>
           t == <<y>>
           u == <<x, y>>
<1>1. s \in Seq(S) /\ t \in Seq(S) /\ u \in Seq(S) OBVIOUS
<1>2. Len(s) = 1 /\ Len(t) = 1 /\ Len(u) = 2 /\ s[1] = x /\ t[1] = y /\ u[1] = x /\ u[2] = y OBVIOUS
<1> HIDE DEF s, t, u, S
<1>a. s \o t \in Seq(S) /\ Len(s \o t) = Len(s) + Len(t) BY <1>1
<1>b. /\ \A i \in 1 .. Len(s) : (s \o t)[i] = s[i]
      /\ \A i \in 1 .. Len(t) : (s \o t)[Len(s) + i] = t[i]
    BY <1>1
<1>3. s \o t \in Seq(S) /\ Len(s \o t) = 2 /\ (s \o t)[1] = x /\ (s \o t)[2] = y
    <2>1. 1 \in 1 .. Len(s) /\ 1 \in 1 .. Len(t) /\ Len(s) + 1 = 2 /\ Len(s) + Len(t) = 2 BY <1>2
    <2>2. (s \o t)[1] = s[1] BY <1>b, <2>1
    <2>3. (s \o t)[Len(s) + 1] = t[1] BY <1>b, <2>1
    <2>4. QED BY <1>2, <1>a, <2>1, <2>2, <2>3
<1>4. \A i \in 1 .. 2 : i = 1 \/ i = 2 OBVIOUS
<1>5. \A i \in 1 .. Len(u) : (s \o t)[i] = u[i] BY <1>2, <1>3, <1>4
<1>6. s \o t = u BY <1>1, <1>2, <1>3, <1>5, SeqEqual
<1>7. <<>> \o u = u /\ <<>> \o t = t BY <1>1, ConcatEmptySeq
<1>8. QED BY <1>6, <1>7 DEF s, t, u

(* A desk that waits for nothing keeps no reply.                           *)
LEMMA NoneKept ==
    ASSUME TypeOK, NEW r \in Runs, NEW w \in Waits, w.id = 0
    PROVE  Collect(r, w).kept = w.kept
<1> DEFINE S == {x \in Nat \X Heaps : x[2].kept = w.kept}
<1>0. Len(slot[r]) \in Nat BY DeskTypes
<1>1. ASSUME NEW f, Gathers(r, w, f) PROVE <<0, f[0]>> \in S
    <2>1. f[0] \in Heaps /\ f[0].kept = w.kept BY <1>0, <1>1 DEF Gathers
    <2>2. QED BY <2>1
<1>2. ASSUME NEW f, NEW n \in 1 .. Len(slot[r]), Gathers(r, w, f), <<n - 1, f[n - 1]>> \in S
      PROVE  <<n, f[n]>> \in S
    <2>1. f[n - 1] \in Heaps /\ f[n] \in Heaps /\ f[n] = Gather(r, w, f[n - 1], slot[r][n])
        BY <1>0, <1>2 DEF Gathers
    <2>2. f[n - 1].kept = w.kept BY <1>2
    <2>3. f[n].kept = f[n - 1].kept BY <2>1 DEF Gather, Heaps, Answers
    <2>4. n \in Nat BY <1>0
    <2>5. QED BY <2>1, <2>2, <2>3, <2>4
<1>3. <<Len(slot[r]), Collect(r, w)>> \in S
    <2> HIDE DEF S
    <2> QED BY <1>1, <1>2, GatherInduction
<1>4. QED BY <1>3

(* The ledger says nothing new, and no desk starts to wait.                *)
LEMMA WaitKept ==
    ASSUME TypeOK, WaitInv, UNCHANGED <<sent, waits>>,
           \A r \in Runs : \/ wait'[r] = NoWait
                           \/ /\ wait[r].id # 0 /\ wait'[r].id = wait[r].id
                              /\ wait'[r].left < 0 <=> wait[r].left < 0
    PROVE  WaitInv'
<1>1. Ids' = Ids /\ WaitsPair' BY DEF WaitInv, WaitsPair, Ids
<1>2. NoWait.id = 0 BY NoWaitType
<1>3. \A r \in Runs : wait'[r].id = 0 => wait'[r] = NoWait BY <1>2
<1>4. \A r \in Runs : wait'[r].id # 0 =>
        waits'[wait'[r].id] = IF wait'[r].left < 0 THEN <<>> ELSE <<"started">>
    BY <1>2 DEF WaitInv
<1>5. \A r, q \in Runs : wait'[r].id # 0 /\ wait'[q].id = wait'[r].id => q = r BY <1>2 DEF WaitInv
<1>6. QED BY <1>1, <1>3, <1>4, <1>5 DEF WaitInv

(* The ledger says more of one desk's wait.                                *)
LEMMA WaitLogged ==
    ASSUME TypeOK, WaitInv, UNCHANGED sent, NEW r \in Runs, NEW i \in Ids, i = wait[r].id,
           waits'[i] \in Paired, \A j \in Ids : j # i => waits'[j] = waits[j],
           \A q \in Runs : q # r => wait'[q] = wait[q],
           \/ wait'[r] = NoWait
           \/ wait'[r].id = i /\ waits'[i] = <<"started">> /\ ~(wait'[r].left < 0)
    PROVE  WaitInv'
<1>1. Ids' = Ids BY DEF Ids
<1>2. WaitsPair' BY <1>1, PairedIs DEF WaitInv, WaitsPair, Paired, Ended
<1>3. NoWait.id = 0 /\ 0 \notin Ids BY NoWaitType, IdFacts
<1>4. \A q \in Runs : wait'[q].id = 0 => wait'[q] = NoWait BY <1>3 DEF WaitInv
<1>5. \A q \in Runs : q # r /\ wait[q].id # 0 => wait[q].id # i /\ wait[q].id \in Ids
    BY <1>3, DeskTypes DEF WaitInv, Waits
<1>6. ASSUME NEW q \in Runs, wait'[q].id # 0
      PROVE  waits'[wait'[q].id] = IF wait'[q].left < 0 THEN <<>> ELSE <<"started">>
    <2>1. CASE q = r BY <2>1, <1>3, <1>6
    <2>2. CASE q # r BY <2>2, <1>5, <1>6 DEF WaitInv
    <2>3. QED BY <2>1, <2>2
<1>7. \A p, q \in Runs : wait'[p].id # 0 /\ wait'[q].id = wait'[p].id => q = p
    BY <1>3, <1>5 DEF WaitInv
<1>8. QED BY <1>2, <1>4, <1>6, <1>7 DEF WaitInv

LEMMA WaitOutWaits ==
    ASSUME TypeOK, WaitInv, NEW r \in Runs, WaitOut(r)
    PROVE  WaitInv'
<1>1. PICK i \in Ids : i = wait[r].id /\ i # 0 BY WaitOutLines
<1>2. wait[r] \in Waits /\ wait[r].left \in Int /\ wait \in [Runs -> Waits]
    BY DeskTypes, TypeFacts, SignalsAssumption DEF Waits
<1>a. <<>> \in WaitLines /\ <<"started">> \in WaitLines BY DEF WaitLines
<1>3. PICK line \in WaitLines : line = IF Starts(wait[r]) THEN <<"started">> ELSE <<>>
    BY <1>a, Zenon
<1>4. \/ wait' = [wait EXCEPT ![r] = NoWait] /\ Logged(i, line \o <<"reply">>)
      \/ wait' = [wait EXCEPT ![r] = NoWait] /\ Logged(i, line \o <<"timeout">>)
      \/ wait' = [wait EXCEPT ![r] = Parked(wait[r])] /\ Logged(i, line)
    BY <1>1, <1>3, WaitOutLines
<1>5. waits[i] = IF wait[r].left < 0 THEN <<>> ELSE <<"started">> BY <1>1 DEF WaitInv
<1>6. waits[i] \o line = <<"started">>
    <2>1. CASE wait[r].left < 0 BY <2>1, <1>3, <1>5 DEF Starts
    <2>2. CASE ~(wait[r].left < 0) BY <2>2, <1>3, <1>5 DEF Starts
    <2>3. QED BY <2>1, <2>2
<1>7. \A e \in {"reply", "timeout"} : /\ waits[i] \o (line \o <<e>>) = <<"started", e>>
                                      /\ line \o <<e>> \in WaitLines
    <2>1. SUFFICES ASSUME NEW e \in {"reply", "timeout"}
                   PROVE  waits[i] \o (line \o <<e>>) = <<"started", e>> /\ line \o <<e>> \in WaitLines
        OBVIOUS
    <2>2. <<e>> \in WaitLines /\ <<>> \in WaitLines BY DEF WaitLines
    <2>3. line \o <<e>> \in WaitLines BY <2>2 DEF WaitLines
    <2>4. <<>> \o (<<"started">> \o <<e>>) = <<"started", e>> /\ <<"started">> \o (<<>> \o <<e>>) = <<"started", e>>
        BY TwoLines
    <2>5. CASE wait[r].left < 0
        <3>1. waits[i] = <<>> /\ line = <<"started">> BY <2>5, <1>3, <1>5 DEF Starts
        <3>2. QED BY <2>3, <2>4, <3>1
    <2>6. CASE ~(wait[r].left < 0)
        <3>1. waits[i] = <<"started">> /\ line = <<>> BY <2>6, <1>3, <1>5 DEF Starts
        <3>2. QED BY <2>3, <2>4, <3>1
    <2>7. QED BY <2>5, <2>6
<1>8. UNCHANGED sent BY DEF WaitOut
<1>9. CASE \E e \in {"reply", "timeout"} : wait' = [wait EXCEPT ![r] = NoWait] /\ Logged(i, line \o <<e>>)
    <2>1. PICK e \in {"reply", "timeout"} : wait' = [wait EXCEPT ![r] = NoWait] /\ Logged(i, line \o <<e>>) BY <1>9
    <2>2. waits'[i] = <<"started", e>> /\ \A j \in Ids : j # i => waits'[j] = waits[j]
        <3>1. PICK new \in WaitLines : new = line \o <<e>> BY <1>7
        <3>2. Logged(i, new) BY <2>1, <3>1
        <3>3. waits'[i] = waits[i] \o new /\ \A j \in Ids : j # i => waits'[j] = waits[j] BY <3>2, LoggedIs
        <3>4. QED BY <3>1, <3>3, <1>7
    <2>3. waits'[i] \in Paired BY <2>2 DEF Paired, Ended
    <2>4. wait'[r] = NoWait /\ \A q \in Runs : q # r => wait'[q] = wait[q] BY <2>1, <1>2
    <2>5. QED BY <1>1, <1>8, <2>2, <2>3, <2>4, WaitLogged
<1>10. CASE wait' = [wait EXCEPT ![r] = Parked(wait[r])] /\ Logged(i, line)
    <2>1. waits'[i] = waits[i] \o line /\ \A j \in Ids : j # i => waits'[j] = waits[j] BY <1>10, LoggedIs
    <2>2. waits'[i] = <<"started">> /\ waits'[i] \in Paired BY <2>1, <1>6 DEF Paired
    <2>3. wait'[r] = Parked(wait[r]) /\ \A q \in Runs : q # r => wait'[q] = wait[q] BY <1>10, <1>2
    <2>4. wait'[r].id = i /\ ~(wait'[r].left < 0) BY <2>3, <1>1, <1>2, ParkedIs
    <2>5. QED BY <1>1, <1>8, <2>1, <2>2, <2>3, <2>4, WaitLogged
<1>11. QED BY <1>4, <1>9, <1>10

LEMMA StopWaitingWaits ==
    ASSUME TypeOK, WaitInv, NEW r \in Runs, StopWaiting(r)
    PROVE  WaitInv'
<1>1. wait' = [wait EXCEPT ![r] = NoWait] /\ UNCHANGED sent BY StopWaitingIs
<1>2. wait'[r] = NoWait /\ \A q \in Runs : q # r => wait'[q] = wait[q] BY <1>1, TypeFacts
<1>3. wait[r].left >= 0 /\ wait[r] \in Waits /\ wait[r].left \in Int
    BY DeskTypes, SignalsAssumption DEF StopWaiting, Waits
<1>4. wait[r].id # 0 BY <1>3, NoWaitType DEF WaitInv
<1>5. PICK i \in Ids : i = wait[r].id BY <1>3, <1>4 DEF Waits
<1>6. CASE UNCHANGED waits
    <2>1. \A q \in Runs : \/ wait'[q] = NoWait
                          \/ /\ wait[q].id # 0 /\ wait'[q].id = wait[q].id
                             /\ wait'[q].left < 0 <=> wait[q].left < 0
        BY <1>2 DEF WaitInv
    <2>2. QED BY <1>1, <1>6, <2>1, WaitKept
<1>7. CASE Logged(i, <<"left">>)
    <2>1. <<"left">> \in WaitLines BY DEF WaitLines
    <2>2. waits'[i] = waits[i] \o <<"left">> /\ \A j \in Ids : j # i => waits'[j] = waits[j]
        BY <1>7, <2>1, LoggedIs
    <2>3. waits[i] = <<"started">> BY <1>3, <1>4, <1>5 DEF WaitInv
    <2>a. <<"started">> \o <<"left">> = <<"started", "left">> BY TwoLines
    <2>b. waits'[i] = <<"started", "left">> BY <2>2, <2>3, <2>a
    <2>4. waits'[i] \in Paired BY <2>b DEF Paired, Ended
    <2>5. QED BY <1>1, <1>2, <1>5, <2>2, <2>4, WaitLogged
<1>8. QED BY <1>5, <1>6, <1>7 DEF StopWaiting

LEMMA SendWaits ==
    ASSUME TypeOK, WaitInv, NEW r \in Runs, SendStep(r)
    PROVE  WaitInv'
<1>1. /\ Ids' = Ids \cup {Len(sent) + 1} /\ Len(sent) + 1 \notin Ids
      /\ waits'[Len(sent) + 1] = <<>> /\ \A i \in Ids : waits'[i] = waits[i]
      /\ \/ wait' = [wait EXCEPT ![r] = [NoWait EXCEPT !.id = Len(sent) + 1]]
         \/ wait' = wait
    BY SendIs
<1>2. PICK n : n = Len(sent) + 1 /\ n # 0 BY IdFacts
<1>3. WaitsPair' BY <1>1, PairedIs DEF WaitInv, WaitsPair, Paired, Ended
<1>4. \A q \in Runs : wait[q].id # 0 => wait[q].id \in Ids BY DeskTypes DEF Waits
<1>5. PICK w : w = [NoWait EXCEPT !.id = n] /\ w.id = n /\ w.left < 0
    <2>1. [NoWait EXCEPT !.id = n].id = n /\ [NoWait EXCEPT !.id = n].left < 0 BY DEF NoWait
    <2>2. QED BY <2>1, Zenon
<1>6. \A q \in Runs : wait'[q] = wait[q] \/ (q = r /\ wait'[q] = w) BY <1>1, <1>2, <1>5, TypeFacts
<1>7. \A q \in Runs : wait'[q].id = 0 => wait'[q] = NoWait BY <1>2, <1>5, <1>6 DEF WaitInv
<1>8. ASSUME NEW q \in Runs, wait'[q].id # 0
      PROVE  waits'[wait'[q].id] = IF wait'[q].left < 0 THEN <<>> ELSE <<"started">>
    <2>1. CASE wait'[q] = w BY <2>1, <1>1, <1>2, <1>5
    <2>2. CASE wait'[q] = wait[q] BY <2>2, <1>1, <1>4, <1>8 DEF WaitInv
    <2>3. QED BY <2>1, <2>2, <1>6
<1>9. \A p, q \in Runs : wait'[p].id # 0 /\ wait'[q].id = wait'[p].id => q = p
    <2>1. SUFFICES ASSUME NEW p \in Runs, NEW q \in Runs, wait'[p].id # 0, wait'[q].id = wait'[p].id
                   PROVE  q = p
        OBVIOUS
    <2>2. n \notin Ids BY <1>1, <1>2
    <2>3. CASE wait'[p] = wait[p] /\ wait'[q] = wait[q] BY <2>1, <2>3 DEF WaitInv
    <2>4. CASE p = r /\ q = r BY <2>4
    <2>5. CASE p = r /\ wait'[p] = w /\ wait'[q] = wait[q] BY <2>1, <2>2, <2>5, <1>2, <1>4, <1>5
    <2>6. CASE q = r /\ wait'[q] = w /\ wait'[p] = wait[p] BY <2>1, <2>2, <2>6, <1>2, <1>4, <1>5
    <2>7. QED BY <2>3, <2>4, <2>5, <2>6, <1>6
<1>10. QED BY <1>3, <1>7, <1>8, <1>9 DEF WaitInv

LEMMA WaitStep ==
    ASSUME TypeOK, WaitInv, [Next]_vars
    PROVE  WaitInv'
<1>0. \A r \in Runs : wait[r].id = 0 => wait[r] = NoWait BY DEF WaitInv
<1>1. ASSUME UNCHANGED <<sent, waits, wait>> PROVE WaitInv' BY <1>0, <1>1, WaitKept
<1>2. ASSUME NEW r \in Runs, SteerStep(r) \/ Pull(r) PROVE WaitInv'
    <2>1. UNCHANGED <<sent, waits>> /\ wait' = [wait EXCEPT ![r].kept = Collect(r, wait[r]).kept]
        BY <1>2 DEF SteerStep, TakeSteer, Pull, ledger
    <2>2. wait \in [Runs -> Waits] /\ wait[r] \in Waits BY TypeFacts
    <2>3. ASSUME NEW q \in Runs
          PROVE  \/ wait'[q] = NoWait
                 \/ /\ wait[q].id # 0 /\ wait'[q].id = wait[q].id
                    /\ wait'[q].left < 0 <=> wait[q].left < 0
        <3>1. CASE q # r BY <3>1, <2>1, <2>2, <1>0
        <3>2. CASE q = r /\ wait[r].id # 0 BY <3>2, <2>1, <2>2 DEF Waits
        <3>3. CASE q = r /\ wait[r].id = 0
            <4>1. Collect(r, wait[r]).kept = wait[r].kept BY <3>3, <2>2, NoneKept
            <4>2. wait'[r] = wait[r] BY <4>1, <2>1, <2>2 DEF Waits
            <4>3. QED BY <3>3, <4>2, <1>0
        <3>4. QED BY <3>1, <3>2, <3>3
    <2>4. QED BY <2>1, <2>3, WaitKept
<1>3. CASE Deliver \/ UNCHANGED vars
    <2>1. UNCHANGED <<sent, waits, wait>> BY <1>3 DEF Deliver, vars, ledger, desks
    <2>2. QED BY <1>1, <2>1
<1>4. ASSUME NEW r \in Runs, Lend(r) \/ QuietStep(r) \/ ConsumeStep(r) PROVE WaitInv'
    BY <1>1, <1>4 DEF Lend, QuietStep, ConsumeStep, ledger, desks
<1>5. ASSUME NEW r \in Runs, Leave(r) PROVE WaitInv'
    <2>1. UNCHANGED <<sent, waits>> /\ wait' = [wait EXCEPT ![r] = NoWait] BY <1>5 DEF Leave, ledger
    <2>2. \A q \in Runs : wait'[q] = NoWait \/ wait'[q] = wait[q] BY <2>1, TypeFacts
    <2>3. QED BY <1>0, <2>1, <2>2, WaitKept
<1>6. CASE Crash
    <2>1. UNCHANGED <<sent, waits>> /\ wait' = [r \in Runs |-> NoWait] BY <1>6 DEF Crash, ledger
    <2>2. QED BY <2>1, WaitKept
<1>7. CASE Tick
    <2>1. UNCHANGED <<sent, waits>> BY <1>7 DEF Tick, ledger
    <2>2. QED BY <1>0, <1>7, <2>1, TickIs, WaitKept
<1>8. QED BY <1>2, <1>3, <1>4, <1>5, <1>6, <1>7, Steps, WaitOutWaits, StopWaitingWaits, SendWaits

(* Every wait on the ledger starts once and ends at most once, after it    *)
(* started, whatever posts are refused, whoever is stopped and however     *)
(* often the process restarts (SignalDesk::wait_out, wait_left).           *)
THEOREM WaitsArePaired == Spec => []WaitsPair
<1>1. Init => TypeOK /\ WaitInv
    <2>1. SUFFICES ASSUME Init PROVE TypeOK /\ WaitInv OBVIOUS
    <2>2. TypeOK BY <2>1, TypeInit
    <2>3. Ids = {} /\ \A r \in Runs : wait[r] = NoWait BY <2>1 DEF Init, Ids
    <2>4. QED BY <2>2, <2>3, NoWaitType DEF WaitInv, WaitsPair
<1>2. TypeOK /\ WaitInv /\ [Next]_vars => TypeOK' /\ WaitInv' BY TypeStep, WaitStep
<1>3. TypeOK /\ WaitInv => WaitsPair BY DEF WaitInv
<1>4. QED BY <1>1, <1>2, <1>3, PTL DEF Spec

-----------------------------------------------------------------------------
(* Signals that move from line to line.                                    *)

Apart(s, t) == Range(s) \cap Range(t) = {}

(* What two lines hold together is held once, before and after.            *)
Shifts(s, t, s2, t2) ==
    /\ Once(s) /\ Once(t) /\ Apart(s, t) => Once(s2) /\ Once(t2) /\ Apart(s2, t2)
    /\ Range(s2) \cup Range(t2) = Range(s) \cup Range(t)

(* The signals G leave a line.                                             *)
Leaves(s, s2, G) ==
    /\ Once(s) => Once(s2) /\ Range(s2) \cap G = {}
    /\ Range(s) = Range(s2) \cup G

LEMMA HeadShifts ==
    ASSUME NEW S, NEW s \in Seq(S), NEW t \in Seq(S), s # <<>>
    PROVE  Shifts(s, t, Tail(s), Append(t, Head(s))) /\ Leaves(s, Tail(s), {Head(s)})
<1>1. /\ Head(s) \in S /\ Range(s) = Range(Tail(s)) \cup {Head(s)}
      /\ Once(s) => Once(Tail(s)) /\ Head(s) \notin Range(Tail(s))
    BY Tailed
<1>2. /\ Range(Append(t, Head(s))) = Range(t) \cup {Head(s)}
      /\ Once(t) /\ Head(s) \notin Range(t) => Once(Append(t, Head(s)))
    BY <1>1, Appended
<1>3. QED BY <1>1, <1>2 DEF Shifts, Leaves, Apart

LEMMA AtShifts ==
    ASSUME NEW S, NEW s \in Seq(S), NEW t \in Seq(S), NEW k \in 1 .. Len(s)
    PROVE  Shifts(s, t, RemoveAt(s, k), Append(t, s[k])) /\ Leaves(s, RemoveAt(s, k), {s[k]})
<1>1. /\ Range(s) = Range(RemoveAt(s, k)) \cup {s[k]}
      /\ Once(s) => Once(RemoveAt(s, k)) /\ s[k] \notin Range(RemoveAt(s, k))
    BY Removed
<1>2. s[k] \in S OBVIOUS
<1>3. /\ Range(Append(t, s[k])) = Range(t) \cup {s[k]}
      /\ Once(t) /\ s[k] \notin Range(t) => Once(Append(t, s[k]))
    BY <1>2, Appended
<1>4. QED BY <1>1, <1>3 DEF Shifts, Leaves, Apart

LEMMA FirstShifts ==
    ASSUME NEW S, NEW s \in Seq(S), NEW t \in Seq(S), NEW n \in Int
    PROVE  Shifts(s, t, Past(s, n), t \o First(s, n))
<1>1. PICK f \in Seq(S) : f = First(s, n) BY Divided
<1>a. /\ Range(s) = Range(First(s, n)) \cup Range(Past(s, n))
      /\ Once(s) => /\ Once(First(s, n)) /\ Once(Past(s, n))
                    /\ Range(First(s, n)) \cap Range(Past(s, n)) = {}
    BY DividedFacts
<1>2. /\ Range(s) = Range(f) \cup Range(Past(s, n))
      /\ Once(s) => Once(f) /\ Once(Past(s, n)) /\ Range(f) \cap Range(Past(s, n)) = {}
    BY <1>1, <1>a
<1>3. /\ Range(t \o f) = Range(t) \cup Range(f)
      /\ Once(t) /\ Once(f) /\ Range(t) \cap Range(f) = {} => Once(t \o f)
    BY Joined
<1>4. QED BY <1>1, <1>2, <1>3 DEF Shifts, Apart

LEMMA AllShifts ==
    ASSUME NEW S, NEW s \in Seq(S), NEW t \in Seq(S)
    PROVE  Shifts(s, t, <<>>, s \o t)
<1>1. /\ Range(s \o t) = Range(s) \cup Range(t)
      /\ Once(s) /\ Once(t) /\ Range(s) \cap Range(t) = {} => Once(s \o t)
    BY Joined
<1>2. QED BY <1>1, NoneIn DEF Shifts, Apart

(* Only the lines of D change, and between them they keep their signals,   *)
(* but for those that go.                                                  *)
Settles(A, B, D, gone, gone2) ==
    /\ D \subseteq Lines /\ gone \subseteq gone2 /\ \A l \in Lines : l \notin D => B[l] = A[l]
    /\ \A l \in D : Once(B[l]) /\ Range(B[l]) \cap gone2 = {}
    /\ \A k, l \in D : k # l => Range(B[k]) \cap Range(B[l]) = {}
    /\ \A l \in D : \A i \in Range(B[l]) : \E k \in D : i \in Range(A[k])
    /\ \A i \in gone2 \ gone : \E k \in D : i \in Range(A[k])
    /\ \A k \in D : \A i \in Range(A[k]) : i \in gone2 \/ \E l \in D : i \in Range(B[l])

LEMMA Rearranged ==
    ASSUME NEW ids, NEW gone, NEW gone2, NEW A, NEW B, NEW D,
           Placed(A, gone, ids), B \in [Lines -> Seq(Nat)], Settles(A, B, D, gone, gone2)
    PROVE  Placed(B, gone2, ids)
<1> USE DEF Settles
<1>1. /\ \A l \in Lines : Once(A[l]) /\ Range(A[l]) \subseteq ids \ gone
      /\ \A k, l \in Lines : k # l => Range(A[k]) \cap Range(A[l]) = {}
      /\ \A i \in ids \ gone : \E l \in Lines : i \in Range(A[l])
    BY DEF Placed
<1>2. ASSUME NEW l \in Lines PROVE Once(B[l]) /\ Range(B[l]) \subseteq ids \ gone2
    <2>1. CASE l \in D
        <3>1. Range(B[l]) \subseteq ids BY <2>1, <1>1
        <3>2. QED BY <2>1, <3>1
    <2>2. CASE l \notin D
        <3>1. B[l] = A[l] BY <2>2
        <3>2. \A i \in Range(A[l]) : i \notin gone2 BY <2>2, <1>1
        <3>3. QED BY <3>1, <3>2, <1>1
    <2>3. QED BY <2>1, <2>2
<1>3. ASSUME NEW k \in Lines, NEW l \in Lines, k # l, NEW i, i \in Range(B[k]), i \in Range(B[l]) PROVE FALSE
    <2>1. CASE k \in D /\ l \in D BY <2>1, <1>3
    <2>2. CASE k \in D /\ l \notin D BY <2>2, <1>1, <1>3
    <2>3. CASE k \notin D /\ l \in D BY <2>3, <1>1, <1>3
    <2>4. CASE k \notin D /\ l \notin D BY <2>4, <1>1, <1>3
    <2>5. QED BY <2>1, <2>2, <2>3, <2>4
<1>4. ASSUME NEW i \in ids \ gone2 PROVE \E l \in Lines : i \in Range(B[l])
    <2>1. PICK l \in Lines : i \in Range(A[l]) BY <1>1
    <2>2. CASE l \in D BY <2>1, <2>2
    <2>3. CASE l \notin D BY <2>1, <2>3
    <2>4. QED BY <2>2, <2>3
<1>5. QED BY <1>2, <1>3, <1>4 DEF Placed

(* Signals pass from one line to another.                                  *)
LEMMA Exchanged ==
    ASSUME NEW ids, NEW gone, NEW A, NEW B, NEW p \in Lines, NEW q \in Lines, p # q,
           Placed(A, gone, ids), B \in [Lines -> Seq(Nat)],
           \A l \in Lines : l # p /\ l # q => B[l] = A[l],
           Shifts(A[p], A[q], B[p], B[q])
    PROVE  Placed(B, gone, ids)
<1> DEFINE D == {p, q}
<1>1. Once(A[p]) /\ Once(A[q]) /\ Apart(A[p], A[q]) /\ Range(A[p]) \cap gone = {} /\ Range(A[q]) \cap gone = {}
    BY DEF Placed, Apart
<1>2. Once(B[p]) /\ Once(B[q]) /\ Apart(B[p], B[q]) /\ Range(B[p]) \cup Range(B[q]) = Range(A[p]) \cup Range(A[q])
    BY <1>1 DEF Shifts
<1>3. D \in SUBSET Lines /\ \A l \in Lines : l \notin D => B[l] = A[l] OBVIOUS
<1>4. \A l \in D : Once(B[l]) /\ Range(B[l]) \cap gone = {} BY <1>1, <1>2
<1>5. \A k, l \in D : k # l => Range(B[k]) \cap Range(B[l]) = {} BY <1>2 DEF Apart
<1>6. \A l \in D : \A i \in Range(B[l]) : \E k \in D : i \in Range(A[k]) BY <1>2
<1>7. \A k \in D : \A i \in Range(A[k]) : i \in gone \/ \E l \in D : i \in Range(B[l]) BY <1>2
<1>8. gone \subseteq gone /\ \A i \in gone \ gone : \E k \in D : i \in Range(A[k]) OBVIOUS
<1> HIDE DEF D
<1>9. Settles(A, B, D, gone, gone) BY <1>3, <1>4, <1>5, <1>6, <1>7, <1>8 DEF Settles
<1>10. QED BY <1>9, Rearranged

(* Signals leave a line for good.                                          *)
LEMMA Departed ==
    ASSUME NEW ids, NEW gone, NEW A, NEW B, NEW p \in Lines, NEW G,
           Placed(A, gone, ids), B \in [Lines -> Seq(Nat)],
           \A l \in Lines : l # p => B[l] = A[l],
           Leaves(A[p], B[p], G)
    PROVE  Placed(B, gone \cup G, ids)
<1> DEFINE D == {p}
           gone2 == gone \cup G
<1>1. Once(A[p]) /\ Range(A[p]) \cap gone = {} BY DEF Placed
<1>2. Once(B[p]) /\ Range(B[p]) \cap G = {} /\ Range(A[p]) = Range(B[p]) \cup G BY <1>1 DEF Leaves
<1>3. D \in SUBSET Lines /\ \A l \in Lines : l \notin D => B[l] = A[l] OBVIOUS
<1>4. \A l \in D : Once(B[l]) /\ Range(B[l]) \cap gone2 = {} BY <1>1, <1>2
<1>5. \A k, l \in D : k # l => Range(B[k]) \cap Range(B[l]) = {} OBVIOUS
<1>6. \A l \in D : \A i \in Range(B[l]) : \E k \in D : i \in Range(A[k]) BY <1>2
<1>7. \A k \in D : \A i \in Range(A[k]) : i \in gone2 \/ \E l \in D : i \in Range(B[l]) BY <1>2
<1>8. gone \subseteq gone2 /\ \A i \in gone2 \ gone : \E k \in D : i \in Range(A[k]) BY <1>2
<1> HIDE DEF D, gone2
<1>a. Settles(A, B, D, gone, gone2) BY <1>3, <1>4, <1>5, <1>6, <1>7, <1>8 DEF Settles
<1>9. Placed(B, gone2, ids) BY <1>a, Rearranged
<1>10. QED BY <1>9 DEF gone2

(* The lines change their keepers.                                         *)
LEMMA Permuted ==
    ASSUME NEW ids, NEW gone, NEW A, NEW B, NEW pi \in [Lines -> Lines],
           Placed(A, gone, ids), B \in [Lines -> Seq(Nat)],
           \A l \in Lines : B[l] = A[pi[l]] /\ pi[pi[l]] = l
    PROVE  Placed(B, gone, ids)
<1>1. /\ \A l \in Lines : Once(A[l]) /\ Range(A[l]) \subseteq ids \ gone
      /\ \A k, l \in Lines : k # l => Range(A[k]) \cap Range(A[l]) = {}
      /\ \A i \in ids \ gone : \E l \in Lines : i \in Range(A[l])
    BY DEF Placed
<1>2. \A l \in Lines : Once(B[l]) /\ Range(B[l]) \subseteq ids \ gone BY <1>1
<1>3. ASSUME NEW k \in Lines, NEW l \in Lines, k # l PROVE Range(B[k]) \cap Range(B[l]) = {}
    <2>1. pi[k] # pi[l] /\ pi[k] \in Lines /\ pi[l] \in Lines /\ B[k] = A[pi[k]] /\ B[l] = A[pi[l]] BY <1>3
    <2>2. Range(A[pi[k]]) \cap Range(A[pi[l]]) = {} BY <2>1, <1>1
    <2>3. QED BY <2>1, <2>2
<1>4. ASSUME NEW i \in ids \ gone PROVE \E l \in Lines : i \in Range(B[l])
    <2>1. PICK l \in Lines : i \in Range(A[l]) BY <1>1
    <2>2. pi[l] \in Lines /\ B[pi[l]] = A[l] OBVIOUS
    <2>3. QED BY <2>1, <2>2
<1>5. QED BY <1>2, <1>3, <1>4 DEF Placed

-----------------------------------------------------------------------------
(* The lines of one desk.                                                  *)

BoxNames == {"returned", "urgent", "ordinary"}
DeskNames == BoxNames \cup {"slot", "held", "kept"}
KeptLine(k) == IF k = 0 THEN <<>> ELSE <<k>>
DeskOf(b, s, h, k) ==
    [n \in DeskNames |-> CASE n = "slot" -> s [] n = "held" -> h [] n = "kept" -> KeptLine(k) [] OTHER -> b[n]]
Desk(A, r, d) == [l \in Lines |-> IF l[1] = r THEN d[l[2]] ELSE A[l]]
Spreads == [DeskNames -> Seq(Nat)]

LEMMA LinesAre ==
    ASSUME NEW r \in Runs
    PROVE  /\ \A n \in DeskNames : <<r, n>> \in Lines
           /\ \A l \in Lines : l[1] = r => l[2] \in DeskNames /\ l = <<r, l[2]>>
           /\ \A m \in Rooms : \A n \in BoxNames : <<m, n>> \in Lines
           /\ <<NoRun, "relayed">> \in Lines /\ r # NoRun
<1>1. r # NoRun BY OwnersApart
<1>2. \A n \in DeskNames : <<r, n>> \in Lines BY DEF Lines, DeskNames, BoxNames
<1>3. \A l \in Lines : l[1] = r => l[2] \in DeskNames /\ l = <<r, l[2]>> BY <1>1 DEF Lines, DeskNames, BoxNames
<1>4. \A m \in Rooms : \A n \in BoxNames : <<m, n>> \in Lines BY DEF Lines, BoxNames
<1>5. <<NoRun, "relayed">> \in Lines BY DEF Lines
<1>6. QED BY <1>1, <1>2, <1>3, <1>4, <1>5

LEMMA DeskOfIs ==
    ASSUME TypeOK, NEW b \in Boxes, NEW s \in Seq(Ids), NEW h \in Seq(Ids), NEW k \in {0} \cup Ids
    PROVE  /\ DeskOf(b, s, h, k) \in Spreads
           /\ DeskOf(b, s, h, k)["slot"] = s /\ DeskOf(b, s, h, k)["held"] = h
           /\ DeskOf(b, s, h, k)["kept"] = KeptLine(k) /\ \A n \in BoxNames : DeskOf(b, s, h, k)[n] = b[n]
<1>1. Seq(Ids) \subseteq Seq(Nat) BY IdFacts, MoreIn
<1>2. KeptLine(k) \in Seq(Ids)
    <2>1. <<>> \in Seq(Ids) BY NoLine
    <2>2. k # 0 => <<k>> \in Seq(Ids) OBVIOUS
    <2>3. QED BY <2>1, <2>2 DEF KeptLine
<1>3. b["returned"] \in Seq(Ids) /\ b["urgent"] \in Seq(Ids) /\ b["ordinary"] \in Seq(Ids) BY BoxTypes
<1>4. \A n \in DeskNames : (CASE n = "slot" -> s [] n = "held" -> h [] n = "kept" -> KeptLine(k) [] OTHER -> b[n]) \in Seq(Ids)
    BY <1>2, <1>3 DEF DeskNames, BoxNames
<1>5. DeskOf(b, s, h, k) \in Spreads BY <1>1, <1>4 DEF DeskOf, Spreads
<1>6. QED BY <1>5 DEF DeskOf, DeskNames, BoxNames

LEMMA DeskIs ==
    ASSUME NEW r \in Runs, NEW A \in [Lines -> Seq(Nat)], NEW d \in Spreads
    PROVE  /\ Desk(A, r, d) \in [Lines -> Seq(Nat)] /\ \A n \in DeskNames : Desk(A, r, d)[<<r, n>>] = d[n]
           /\ \A l \in Lines : l[1] # r => Desk(A, r, d)[l] = A[l]
BY LinesAre DEF Desk, Spreads

(* Signals pass from one line of a desk to another, or leave it.           *)
LEMMA DeskMoves ==
    ASSUME NEW r \in Runs, NEW A \in [Lines -> Seq(Nat)], NEW d \in Spreads, NEW e \in Spreads, NEW ids, NEW gone,
           NEW n \in DeskNames, NEW o \in DeskNames, n # o,
           Placed(Desk(A, r, d), gone, ids), \A x \in DeskNames : x # n /\ x # o => e[x] = d[x],
           Shifts(d[n], d[o], e[n], e[o])
    PROVE  Placed(Desk(A, r, e), gone, ids)
<1>1. PICK B \in [Lines -> Seq(Nat)], C \in [Lines -> Seq(Nat)] : B = Desk(A, r, d) /\ C = Desk(A, r, e) BY DeskIs
<1>2. PICK p \in Lines, q \in Lines : p = <<r, n>> /\ q = <<r, o>> BY LinesAre
<1>3. p # q BY <1>2
<1>a. \A x \in DeskNames : Desk(A, r, d)[<<r, x>>] = d[x] BY DeskIs
<1>b. \A x \in DeskNames : Desk(A, r, e)[<<r, x>>] = e[x] BY DeskIs
<1>4. B[p] = d[n] /\ B[q] = d[o] /\ C[p] = e[n] /\ C[q] = e[o] BY <1>1, <1>2, <1>a, <1>b
<1>5. ASSUME NEW l \in Lines, l # p, l # q PROVE C[l] = B[l]
    <2>1. CASE l[1] # r BY <2>1, <1>1 DEF Desk
    <2>2. CASE l[1] = r
        <3>1. l[2] \in DeskNames /\ l = <<r, l[2]>> BY <2>2, LinesAre
        <3>2. l[2] # n /\ l[2] # o BY <3>1, <1>2, <1>5
        <3>3. C[l] = e[l[2]] /\ B[l] = d[l[2]] BY <2>2, <1>1 DEF Desk
        <3>4. QED BY <3>1, <3>2, <3>3
    <2>3. QED BY <2>1, <2>2
<1>6. Shifts(B[p], B[q], C[p], C[q]) BY <1>4
<1>7. Placed(B, gone, ids) BY <1>1
<1>8. Placed(C, gone, ids) BY <1>3, <1>5, <1>6, <1>7, Exchanged
<1>9. QED BY <1>1, <1>8

LEMMA DeskGoes ==
    ASSUME NEW r \in Runs, NEW A \in [Lines -> Seq(Nat)], NEW d \in Spreads, NEW e \in Spreads, NEW ids, NEW gone, NEW G,
           NEW n \in DeskNames,
           Placed(Desk(A, r, d), gone, ids), \A x \in DeskNames : x # n => e[x] = d[x],
           Leaves(d[n], e[n], G)
    PROVE  Placed(Desk(A, r, e), gone \cup G, ids)
<1>1. PICK B \in [Lines -> Seq(Nat)], C \in [Lines -> Seq(Nat)] : B = Desk(A, r, d) /\ C = Desk(A, r, e) BY DeskIs
<1>2. PICK p \in Lines : p = <<r, n>> BY LinesAre
<1>4. B[p] = d[n] /\ C[p] = e[n] BY <1>1, <1>2, DeskIs
<1>5. ASSUME NEW l \in Lines, l # p PROVE C[l] = B[l]
    <2>1. CASE l[1] # r BY <2>1, <1>1 DEF Desk
    <2>2. CASE l[1] = r
        <3>1. l[2] \in DeskNames /\ l = <<r, l[2]>> BY <2>2, LinesAre
        <3>2. l[2] # n BY <3>1, <1>2, <1>5
        <3>3. C[l] = e[l[2]] /\ B[l] = d[l[2]] BY <2>2, <1>1 DEF Desk
        <3>4. QED BY <3>1, <3>2, <3>3
    <2>3. QED BY <2>1, <2>2
<1>6. Leaves(B[p], C[p], G) BY <1>4
<1>7. Placed(B, gone, ids) BY <1>1
<1>8. Placed(C, gone \cup G, ids) BY <1>5, <1>6, <1>7, Departed
<1>9. QED BY <1>1, <1>8

-----------------------------------------------------------------------------
(* Where the signals of a state are.                                       *)

LEMMA WhereIs ==
    ASSUME TypeOK
    PROVE  /\ Where \in [Lines -> Seq(Nat)] /\ Where[<<NoRun, "relayed">>] = relayed
           /\ \A o \in Rooms \cup Runs : \A n \in BoxNames : Where[<<o, n>>] = box[o][n]
           /\ \A r \in Runs : /\ Where[<<r, "slot">>] = slot[r] /\ Where[<<r, "held">>] = held[r]
                              /\ Where[<<r, "kept">>] = KeptReply(r)
<1>1. Seq(Ids) \subseteq Seq(Nat) BY IdFacts, MoreIn
<1>2. <<NoRun, "relayed">> \in Lines /\ Standing(<<NoRun, "relayed">>) = relayed /\ relayed \in Seq(Nat)
    BY <1>1, TypeFacts DEF Lines, Standing
<1>3. \A o \in Rooms \cup Runs : \A n \in BoxNames :
        <<o, n>> \in Lines /\ Standing(<<o, n>>) = box[o][n] /\ box[o][n] \in Seq(Nat)
    <2>1. ASSUME NEW o \in Rooms \cup Runs, NEW n \in BoxNames
          PROVE  <<o, n>> \in Lines /\ Standing(<<o, n>>) = box[o][n] /\ box[o][n] \in Seq(Nat)
        <3>2. <<o, n>> \in Lines BY DEF Lines, BoxNames
        <3>3. Standing(<<o, n>>) = box[o][n] BY DEF Standing, BoxNames
        <3>4. box[o] \in Boxes BY TypeFacts
        <3>5. box[o][n] \in Seq(Ids) BY <3>4, BoxTypes DEF BoxNames
        <3>6. QED BY <1>1, <3>2, <3>3, <3>5
    <2>2. QED BY <2>1, Zenon
<1>4. ASSUME NEW r \in Runs
      PROVE  /\ <<r, "slot">> \in Lines /\ <<r, "held">> \in Lines /\ <<r, "kept">> \in Lines
             /\ Standing(<<r, "slot">>) = slot[r] /\ Standing(<<r, "held">>) = held[r]
             /\ Standing(<<r, "kept">>) = KeptReply(r)
             /\ slot[r] \in Seq(Nat) /\ held[r] \in Seq(Nat) /\ KeptReply(r) \in Seq(Nat)
    <2>1. /\ <<r, "slot">> \in Lines /\ <<r, "held">> \in Lines /\ <<r, "kept">> \in Lines BY DEF Lines
    <2>2. /\ Standing(<<r, "slot">>) = slot[r] /\ Standing(<<r, "held">>) = held[r]
          /\ Standing(<<r, "kept">>) = KeptReply(r) BY DEF Standing
    <2>3. slot[r] \in Seq(Nat) /\ held[r] \in Seq(Nat) BY <1>1, DeskTypes
    <2>4. KeptReply(r) \in Seq(Nat)
        <3>1. wait[r].kept \in {0} \cup Ids BY DeskTypes DEF Waits
        <3>2. wait[r].kept \in Nat BY <3>1, IdFacts
        <3>3. <<>> \in Seq(Nat) /\ <<wait[r].kept>> \in Seq(Nat) BY <3>2
        <3>4. QED BY <3>3 DEF KeptReply
    <2>5. QED BY <2>1, <2>2, <2>3, <2>4
<1>5. ASSUME NEW l \in Lines PROVE Standing(l) \in Seq(Nat)
    <2>1. \/ l = <<NoRun, "relayed">>
          \/ \E o \in Rooms \cup Runs : \E n \in BoxNames : l = <<o, n>>
          \/ \E r \in Runs : l = <<r, "slot">> \/ l = <<r, "held">> \/ l = <<r, "kept">>
        BY DEF Lines, BoxNames
    <2>2. QED BY <2>1, <1>2, <1>3, <1>4
<1>6. Where \in [Lines -> Seq(Nat)] BY <1>5 DEF Where
<1>7. QED BY <1>2, <1>3, <1>4, <1>6 DEF Where

LEMMA KeptIs ==
    \A r \in Runs : KeptReply(r) = KeptLine(wait[r].kept)
BY DEF KeptReply, KeptLine

(* Only one desk changes.                                                  *)
LEMMA WhereDesk ==
    ASSUME TypeOK, TypeOK', NEW r \in Runs, UNCHANGED relayed,
           \A o \in Rooms \cup Runs : o # r => box'[o] = box[o],
           \A q \in Runs : q # r => slot'[q] = slot[q] /\ held'[q] = held[q] /\ wait'[q].kept = wait[q].kept
    PROVE  /\ Where = Desk(Where, r, DeskOf(box[r], slot[r], held[r], wait[r].kept))
           /\ Where' = Desk(Where, r, DeskOf(box'[r], slot'[r], held'[r], wait'[r].kept))
<1>0. Where \in [Lines -> Seq(Nat)] /\ Where' = [l \in Lines |-> Standing(l)'] BY WhereIs DEF Where
<1>1. ASSUME NEW l \in Lines
      PROVE  /\ Where[l] = IF l[1] = r THEN DeskOf(box[r], slot[r], held[r], wait[r].kept)[l[2]] ELSE Where[l]
             /\ Standing(l)' = IF l[1] = r THEN DeskOf(box'[r], slot'[r], held'[r], wait'[r].kept)[l[2]] ELSE Where[l]
    <2>1. CASE l[1] = r
        <3>1. l[2] \in DeskNames /\ l = <<r, l[2]>> BY <2>1, LinesAre
        <3>2. Standing(l) = DeskOf(box[r], slot[r], held[r], wait[r].kept)[l[2]]
            BY <2>1, <3>1 DEF Standing, DeskOf, DeskNames, BoxNames, KeptReply, KeptLine
        <3>3. Standing(l)' = DeskOf(box'[r], slot'[r], held'[r], wait'[r].kept)[l[2]]
            BY <2>1, <3>1 DEF Standing, DeskOf, DeskNames, BoxNames, KeptReply, KeptLine
        <3>4. QED BY <2>1, <3>2, <3>3 DEF Where
    <2>2. CASE l[1] # r
        <3>1. Where[l] = Standing(l) BY DEF Where
        <3>2. CASE l = <<NoRun, "relayed">> BY <2>2, <3>1, <3>2 DEF Standing
        <3>3. CASE \E o \in Rooms \cup Runs : \E n \in BoxNames : l = <<o, n>>
            BY <2>2, <3>1, <3>3 DEF Standing, BoxNames
        <3>4. CASE \E q \in Runs : l = <<q, "slot">> \/ l = <<q, "held">> \/ l = <<q, "kept">>
            BY <2>2, <3>1, <3>4 DEF Standing, KeptReply
        <3>5. QED BY <2>2, <3>2, <3>3, <3>4 DEF Lines, BoxNames
    <2>3. QED BY <2>1, <2>2
<1>2. QED BY <1>0, <1>1 DEF Desk

-----------------------------------------------------------------------------
(* Every signal is placed once.                                            *)

LEMMA PastIs ==
    ASSUME NEW S, NEW s \in Seq(S)
    PROVE  /\ Past(s, 0) = s /\ Past(s, Len(s)) = <<>>
           /\ \A n \in 0 .. Len(s) : Past(s, n) \in Seq(S)
           /\ \A n \in 1 .. Len(s) : /\ Past(s, n - 1) # <<>> /\ Head(Past(s, n - 1)) = s[n]
                                     /\ Tail(Past(s, n - 1)) = Past(s, n)
<1>0. Len(s) \in Nat OBVIOUS
<1>1. Past(s, 0) = s BY DEF Past
<1>2. Past(s, Len(s)) = <<>>
    <2>1. CASE Len(s) = 0 BY <2>1 DEF Past
    <2>2. CASE Len(s) > 0
        <3>1. Past(s, Len(s)) = SubSeq(s, Len(s) + 1, Len(s)) BY <2>2, <1>0 DEF Past
        <3>2. SubSeq(s, Len(s) + 1, Len(s)) = <<>> BY <1>0
        <3>3. QED BY <3>1, <3>2
    <2>3. QED BY <2>1, <2>2, <1>0
<1>3. \A n \in 0 .. Len(s) : Past(s, n) \in Seq(S) BY <1>0, Divided
<1>4. ASSUME NEW n \in 1 .. Len(s)
      PROVE  /\ Past(s, n - 1) # <<>> /\ Head(Past(s, n - 1)) = s[n]
             /\ Tail(Past(s, n - 1)) = Past(s, n)
    <2>1. Past(s, n - 1) = SubSeq(s, n, Len(s))
        <3>1. CASE n = 1
            <4>1. SubSeq(s, 1, Len(s)) = s BY <1>0
            <4>2. QED BY <3>1, <4>1, <1>1
        <3>2. CASE n > 1 BY <3>2, <1>0 DEF Past
        <3>3. QED BY <3>1, <3>2, <1>0
    <2>2. Past(s, n) = SubSeq(s, n + 1, Len(s)) BY <1>0 DEF Past
    <2>a. SubSeq(s, n, Len(s)) \in Seq(S) /\ SubSeq(s, n + 1, Len(s)) \in Seq(S) BY <1>0
    <2>3. PICK p \in Seq(S) : p = SubSeq(s, n, Len(s)) BY <2>a, Zenon
    <2>4. PICK q \in Seq(S) : q = SubSeq(s, n + 1, Len(s)) BY <2>a, Zenon
    <2>5. Len(p) = Len(s) - n + 1 /\ \A i \in 1 .. Len(s) - n + 1 : p[i] = s[n - 1 + i] BY <2>3, <1>0
    <2>6. Len(q) = Len(s) - n /\ \A i \in 1 .. Len(s) - n : q[i] = s[n + i] BY <2>4, <1>0
    <2>7. p # <<>> /\ Head(p) = p[1] /\ p[1] = s[n]
        <3>1. 1 \in 1 .. Len(s) - n + 1 /\ n - 1 + 1 = n BY <1>0
        <3>2. QED BY <3>1, <2>5
    <2>8. Tail(p) \in Seq(S) /\ Len(Tail(p)) = Len(q) /\ \A i \in 1 .. Len(q) : Tail(p)[i] = q[i]
        <3>1. Tail(p) \in Seq(S) /\ Len(Tail(p)) = Len(p) - 1 /\ \A i \in 1 .. Len(p) - 1 : Tail(p)[i] = p[i + 1]
            BY <2>7
        <3>2. ASSUME NEW i \in 1 .. Len(q) PROVE Tail(p)[i] = q[i]
            <4>1. i + 1 \in 1 .. Len(s) - n + 1 /\ i \in 1 .. Len(p) - 1 /\ n - 1 + (i + 1) = n + i
                BY <2>5, <2>6, <1>0
            <4>2. Tail(p)[i] = p[i + 1] BY <3>1, <4>1
            <4>3. p[i + 1] = s[n + i] BY <2>5, <4>1
            <4>4. QED BY <4>2, <4>3, <2>6
        <3>3. Len(p) - 1 = Len(q) BY <2>5, <2>6, <1>0
        <3>4. QED BY <3>1, <3>2, <3>3
    <2>9. Tail(p) = q BY <2>8, SeqEqual
    <2>10. QED BY <2>1, <2>2, <2>3, <2>4, <2>7, <2>9
<1>5. QED BY <1>1, <1>2, <1>3, <1>4

(* Where the next signal of the slot goes.                                 *)
Gathered(r, w, a, i, g) ==
    \/ g.box = a.box /\ g.kept = a.kept /\ g.lost = a.lost \cup {i}
    \/ g.box = a.box /\ a.kept = 0 /\ Answers(r, w, i) /\ g.kept = i /\ g.lost = a.lost
    \/ /\ g.box = Delivered(a.box, i) /\ g.kept = a.kept /\ g.lost = a.lost
       /\ a.kept # 0 \/ ~Answers(r, w, i)

LEMMA GatherIs ==
    ASSUME NEW r, NEW w, NEW a \in Heaps, NEW i \in Ids
    PROVE  Gathered(r, w, a, i, Gather(r, w, a, i))
<1>1. CASE a.lost # {} BY <1>1 DEF Gather, Gathered, Heaps
<1>2. CASE a.lost = {} /\ a.kept = 0 /\ Answers(r, w, i) BY <1>2 DEF Gather, Gathered, Heaps
<1>3. CASE a.lost = {} /\ ~(a.kept = 0 /\ Answers(r, w, i)) /\ Sheds(a.box, i) BY <1>3 DEF Gather, Gathered, Heaps
<1>4. CASE a.lost = {} /\ ~(a.kept = 0 /\ Answers(r, w, i)) /\ ~Sheds(a.box, i) BY <1>4 DEF Gather, Gathered, Heaps
<1>5. QED BY <1>1, <1>2, <1>3, <1>4

LEMMA CollectPlaced ==
    ASSUME TypeOK, PlaceInv, NEW r \in Runs, NEW w \in Waits, w.kept = wait[r].kept,
           Where = Desk(Where, r, DeskOf(box[r], slot[r], held[r], wait[r].kept))
    PROVE  Placed(Desk(Where, r, DeskOf(Collect(r, w).box, <<>>, held[r], Collect(r, w).kept)),
                  (consumed \cup dropped) \cup Collect(r, w).lost, Ids)
<1> DEFINE out == consumed \cup dropped
           s == slot[r]
           P(n, x) == Placed(Desk(Where, r, DeskOf(x.box, Past(s, n), held[r], x.kept)), out \cup x.lost, Ids)
           S == {x \in (0 .. Len(s)) \X Heaps : P(x[1], x[2])}
<1>0. Len(s) \in Nat /\ s \in Seq(Ids) /\ held[r] \in Seq(Ids) /\ box[r] \in Boxes BY DeskTypes
<1>1. ASSUME NEW f, Gathers(r, w, f) PROVE <<0, f[0]>> \in S
    <2>a. f[0] = [box |-> box[r], kept |-> w.kept, lost |-> {}] /\ f \in [0 .. Len(s) -> Heaps] BY <1>1 DEF Gathers
    <2>b. f[0] \in Heaps BY <2>a, <1>0
    <2>1. f[0] \in Heaps /\ f[0].kept = wait[r].kept /\ f[0].box = box[r] /\ f[0].lost = {} BY <2>a, <2>b
    <2>2. Past(s, 0) = s BY <1>0, PastIs
    <2>3. Placed(Desk(Where, r, DeskOf(box[r], s, held[r], wait[r].kept)), out, Ids) BY DEF PlaceInv
    <2>4. out \cup f[0].lost = out BY <2>1
    <2>5. P(0, f[0]) BY <2>1, <2>2, <2>3, <2>4
    <2>6. <<0, f[0]>> \in (0 .. Len(s)) \X Heaps BY <2>1, <1>0
    <2> HIDE DEF P
    <2>7. QED BY <2>5, <2>6
<1>2. ASSUME NEW f, NEW n \in 1 .. Len(s), Gathers(r, w, f), <<n - 1, f[n - 1]>> \in S
      PROVE  <<n, f[n]>> \in S
    <2>1. PICK a \in Heaps, g \in Heaps, i \in Ids : a = f[n - 1] /\ g = f[n] /\ i = s[n] /\ g = Gather(r, w, a, i)
        <3>1. f[n - 1] \in Heaps /\ f[n] \in Heaps /\ f[n] = Gather(r, w, f[n - 1], s[n]) BY <1>0, <1>2 DEF Gathers
        <3>2. s[n] \in Ids BY <1>0
        <3>3. QED BY <3>1, <3>2
    <2>2. PICK u \in Seq(Ids), t \in Seq(Ids) :
            u = Past(s, n - 1) /\ t = Past(s, n) /\ u # <<>> /\ Head(u) = i /\ Tail(u) = t
        <3>1. n - 1 \in 0 .. Len(s) /\ n \in 0 .. Len(s) BY <1>0
        <3>2. QED BY <3>1, <2>1, <1>0, PastIs
    <2>3. /\ a.box \in Boxes /\ a.kept \in {0} \cup Ids /\ a.lost \in SUBSET Ids
          /\ g.box \in Boxes /\ g.kept \in {0} \cup Ids /\ g.lost \in SUBSET Ids BY DEF Heaps
    <2>4. P(n - 1, a) BY <1>2, <2>1
    <2>a. PICK ab \in Boxes, gb \in Boxes, h \in Seq(Ids), ak \in {0} \cup Ids, gk \in {0} \cup Ids :
            ab = a.box /\ gb = g.box /\ h = held[r] /\ ak = a.kept /\ gk = g.kept
        BY <1>0, <2>3
    <2>b. PICK d \in Spreads : d = DeskOf(ab, u, h, ak) BY DeskOfIs
    <2>c. PICK e \in Spreads : e = DeskOf(gb, t, h, gk) BY DeskOfIs
    <2>d. /\ d["slot"] = u /\ d["held"] = h /\ d["kept"] = KeptLine(ak) /\ \A x \in BoxNames : d[x] = ab[x]
        BY <2>b, DeskOfIs
    <2>e. /\ e["slot"] = t /\ e["held"] = h /\ e["kept"] = KeptLine(gk) /\ \A x \in BoxNames : e[x] = gb[x]
        BY <2>c, DeskOfIs
    <2>5. d = DeskOf(a.box, u, held[r], a.kept) /\ e = DeskOf(g.box, t, held[r], g.kept) BY <2>a, <2>b, <2>c
    <2>6. Placed(Desk(Where, r, d), out \cup a.lost, Ids) BY <2>2, <2>4, <2>5
    <2>7. /\ d["slot"] = u /\ d["held"] = held[r] /\ d["kept"] = KeptLine(a.kept) /\ \A x \in BoxNames : d[x] = a.box[x]
        BY <2>a, <2>d
    <2>8. /\ e["slot"] = t /\ e["held"] = held[r] /\ e["kept"] = KeptLine(g.kept) /\ \A x \in BoxNames : e[x] = g.box[x]
        BY <2>a, <2>e
    <2>9. Where \in [Lines -> Seq(Nat)] BY WhereIs
    <2>10. Placed(Desk(Where, r, e), out \cup g.lost, Ids)
        <3>1. CASE g.box = a.box /\ g.kept = a.kept /\ g.lost = a.lost \cup {i}
            <4>1. Leaves(d["slot"], e["slot"], {i}) BY <2>2, <2>7, <2>8, HeadShifts
            <4>2. \A x \in DeskNames : x # "slot" => e[x] = d[x] BY <3>1, <2>7, <2>8 DEF DeskNames
            <4>3. "slot" \in DeskNames BY DEF DeskNames
            <4>4. Placed(Desk(Where, r, e), (out \cup a.lost) \cup {i}, Ids) BY <2>6, <2>9, <4>1, <4>2, <4>3, DeskGoes
            <4>5. (out \cup a.lost) \cup {i} = out \cup g.lost BY <3>1
            <4>6. QED BY <4>4, <4>5
        <3>2. CASE g.box = a.box /\ a.kept = 0 /\ g.kept = i /\ g.lost = a.lost
            <4>1. d["kept"] = <<>> /\ e["kept"] = <<i>>
                <5>1. i # 0 BY IdFacts
                <5>2. QED BY <5>1, <3>2, <2>7, <2>8 DEF KeptLine
            <4>2. PICK z \in Seq(Ids) : z = <<>> BY NoLine
            <4>3. Shifts(u, z, Tail(u), Append(z, Head(u))) BY <2>2, HeadShifts
            <4>4. Append(z, i) = <<i>> BY <4>2
            <4>5. Shifts(d["slot"], d["kept"], e["slot"], e["kept"]) BY <2>2, <2>7, <2>8, <4>1, <4>2, <4>3, <4>4
            <4>6. \A x \in DeskNames : x # "slot" /\ x # "kept" => e[x] = d[x] BY <3>2, <2>7, <2>8 DEF DeskNames
            <4>7. "slot" \in DeskNames /\ "kept" \in DeskNames /\ "slot" # "kept" BY DEF DeskNames
            <4>8. Placed(Desk(Where, r, e), out \cup a.lost, Ids) BY <2>6, <2>9, <4>5, <4>6, <4>7, DeskMoves
            <4>9. QED BY <3>2, <4>8
        <3>3. CASE g.box = Delivered(a.box, i) /\ g.kept = a.kept /\ g.lost = a.lost
            <4>1. PICK lane \in Lanes : lane = LaneOf(i) BY LaneIs
            <4>2. lane \in BoxNames /\ lane \in DeskNames /\ "slot" \in DeskNames /\ lane # "slot"
                BY DEF Lanes, BoxNames, DeskNames
            <4>3. /\ e[lane] = Append(d[lane], i) /\ d[lane] \in Seq(Ids)
                  /\ \A x \in BoxNames : x # lane => e[x] = d[x]
                <5>1. /\ g.box.returned = a.box.returned
                      /\ \A x \in Lanes : g.box[x] = IF x = LaneOf(i) THEN Append(a.box[x], i) ELSE a.box[x]
                    <6>1. /\ Delivered(ab, i).returned = ab.returned
                          /\ \A x \in Lanes : Delivered(ab, i)[x] = IF x = LaneOf(i) THEN Append(ab[x], i) ELSE ab[x]
                        BY DeliveredIs
                    <6>2. g.box = Delivered(ab, i) BY <3>3, <2>a
                    <6>3. QED BY <2>a, <6>1, <6>2
                <5>2. a.box[lane] \in Seq(Ids) BY <2>3, BoxTypes
                <5>3. QED BY <4>1, <4>2, <5>1, <5>2, <2>7, <2>8 DEF Lanes, BoxNames
            <4>4. Shifts(u, d[lane], Tail(u), Append(d[lane], Head(u))) BY <2>2, <4>3, HeadShifts
            <4>5. Shifts(d["slot"], d[lane], e["slot"], e[lane]) BY <2>2, <2>7, <2>8, <4>3, <4>4
            <4>6. \A x \in DeskNames : x # "slot" /\ x # lane => e[x] = d[x] BY <3>3, <4>3, <2>7, <2>8 DEF DeskNames
            <4>8. Placed(Desk(Where, r, e), out \cup a.lost, Ids) BY <2>6, <2>9, <4>2, <4>5, <4>6, DeskMoves
            <4>9. QED BY <3>3, <4>8
        <3>4. g = Gather(r, w, a, i) BY <2>1
        <3>5. Gathered(r, w, a, i, g) BY <3>4, GatherIs
        <3>6. QED BY <3>1, <3>2, <3>3, <3>5 DEF Gathered
    <2>11. P(n, g) BY <2>2, <2>5, <2>10
    <2>12. <<n, f[n]>> \in (0 .. Len(s)) \X Heaps BY <2>1, <1>0
    <2> HIDE DEF P
    <2>13. QED BY <2>1, <2>11, <2>12
<1>3. <<Len(s), Collect(r, w)>> \in S
    <2> HIDE DEF S
    <2> QED BY <1>1, <1>2, GatherInduction DEF s
<1>4. P(Len(s), Collect(r, w))
    <2> HIDE DEF P
    <2> QED BY <1>3
<1>5. Past(s, Len(s)) = <<>> BY <1>0, PastIs
<1>6. QED BY <1>4, <1>5

(* Out of the inbox at a desk, into what the desk holds or for good.       *)
LEMMA BoxToHeld ==
    ASSUME TypeOK, NEW r \in Runs, NEW A \in [Lines -> Seq(Nat)], NEW out, NEW s \in Seq(Ids), NEW k \in {0} \cup Ids,
           NEW b \in Boxes, NEW c \in Boxes, NEW h \in Seq(Ids), NEW g \in Seq(Ids), NEW x \in BoxNames,
           \A y \in BoxNames : y # x => c[y] = b[y], Shifts(b[x], h, c[x], g),
           Placed(Desk(A, r, DeskOf(b, s, h, k)), out, Ids)
    PROVE  Placed(Desk(A, r, DeskOf(c, s, g, k)), out, Ids)
<1>1. PICK d \in Spreads : d = DeskOf(b, s, h, k) BY DeskOfIs
<1>2. PICK e \in Spreads : e = DeskOf(c, s, g, k) BY DeskOfIs
<1>3. d["slot"] = s /\ d["held"] = h /\ d["kept"] = KeptLine(k) /\ \A y \in BoxNames : d[y] = b[y] BY <1>1, DeskOfIs
<1>4. e["slot"] = s /\ e["held"] = g /\ e["kept"] = KeptLine(k) /\ \A y \in BoxNames : e[y] = c[y] BY <1>2, DeskOfIs
<1>5. x \in DeskNames /\ "held" \in DeskNames /\ x # "held" BY DEF DeskNames, BoxNames
<1>6. \A y \in DeskNames : y # x /\ y # "held" => e[y] = d[y] BY <1>3, <1>4 DEF DeskNames
<1>7. Shifts(d[x], d["held"], e[x], e["held"]) BY <1>3, <1>4
<1>8. Placed(Desk(A, r, d), out, Ids) BY <1>1
<1>9. Placed(Desk(A, r, e), out, Ids) BY <1>5, <1>6, <1>7, <1>8, DeskMoves
<1>10. QED BY <1>2, <1>9

LEMMA BoxToNone ==
    ASSUME TypeOK, NEW r \in Runs, NEW A \in [Lines -> Seq(Nat)], NEW out, NEW s \in Seq(Ids), NEW k \in {0} \cup Ids,
           NEW b \in Boxes, NEW c \in Boxes, NEW h \in Seq(Ids), NEW G, NEW x \in BoxNames,
           \A y \in BoxNames : y # x => c[y] = b[y], Leaves(b[x], c[x], G),
           Placed(Desk(A, r, DeskOf(b, s, h, k)), out, Ids)
    PROVE  Placed(Desk(A, r, DeskOf(c, s, h, k)), out \cup G, Ids)
<1>1. PICK d \in Spreads : d = DeskOf(b, s, h, k) BY DeskOfIs
<1>2. PICK e \in Spreads : e = DeskOf(c, s, h, k) BY DeskOfIs
<1>3. d["slot"] = s /\ d["held"] = h /\ d["kept"] = KeptLine(k) /\ \A y \in BoxNames : d[y] = b[y] BY <1>1, DeskOfIs
<1>4. e["slot"] = s /\ e["held"] = h /\ e["kept"] = KeptLine(k) /\ \A y \in BoxNames : e[y] = c[y] BY <1>2, DeskOfIs
<1>5. x \in DeskNames BY DEF DeskNames
<1>6. \A y \in DeskNames : y # x => e[y] = d[y] BY <1>3, <1>4 DEF DeskNames
<1>7. Leaves(d[x], e[x], G) BY <1>3, <1>4
<1>8. Placed(Desk(A, r, d), out, Ids) BY <1>1
<1>9. Placed(Desk(A, r, e), out \cup G, Ids) BY <1>5, <1>6, <1>7, <1>8, DeskGoes
<1>10. QED BY <1>2, <1>9

(* The reply kept for the wait is held, or dropped.                        *)
LEMMA KeptToHeld ==
    ASSUME TypeOK, NEW r \in Runs, NEW A \in [Lines -> Seq(Nat)], NEW out, NEW s \in Seq(Ids), NEW k \in Ids,
           NEW b \in Boxes, NEW h \in Seq(Ids), Placed(Desk(A, r, DeskOf(b, s, h, k)), out, Ids)
    PROVE  /\ Placed(Desk(A, r, DeskOf(b, s, Append(h, k), 0)), out, Ids)
           /\ Placed(Desk(A, r, DeskOf(b, s, h, 0)), out \cup {k}, Ids)
<1>0. k \in {0} \cup Ids /\ k # 0 /\ 0 \in {0} \cup Ids BY IdFacts
<1>1. PICK d \in Spreads : d = DeskOf(b, s, h, k) BY <1>0, DeskOfIs
<1>a. PICK g \in Seq(Ids) : g = Append(h, k)
    <2>1. Append(h, k) \in Seq(Ids) OBVIOUS
    <2>2. QED BY <2>1, Zenon
<1>2. PICK e \in Spreads : e = DeskOf(b, s, g, 0) BY <1>0, DeskOfIs
<1>b. PICK f \in Spreads : f = DeskOf(b, s, h, 0) BY <1>0, DeskOfIs
<1>3. d["slot"] = s /\ d["held"] = h /\ d["kept"] = <<k>> /\ \A y \in BoxNames : d[y] = b[y]
    <2>1. d["slot"] = s /\ d["held"] = h /\ d["kept"] = KeptLine(k) /\ \A y \in BoxNames : d[y] = b[y]
        BY <1>0, <1>1, DeskOfIs
    <2>2. KeptLine(k) = <<k>> BY <1>0 DEF KeptLine
    <2>3. QED BY <2>1, <2>2
<1>4. e["slot"] = s /\ e["held"] = g /\ e["kept"] = <<>> /\ \A y \in BoxNames : e[y] = b[y]
    <2>1. e["slot"] = s /\ e["held"] = g /\ e["kept"] = KeptLine(0) /\ \A y \in BoxNames : e[y] = b[y]
        BY <1>0, <1>2, DeskOfIs
    <2>2. KeptLine(0) = <<>> BY <1>0 DEF KeptLine
    <2>3. QED BY <2>1, <2>2
<1>c. f["slot"] = s /\ f["held"] = h /\ f["kept"] = <<>> /\ \A y \in BoxNames : f[y] = b[y]
    <2>1. f["slot"] = s /\ f["held"] = h /\ f["kept"] = KeptLine(0) /\ \A y \in BoxNames : f[y] = b[y]
        BY <1>0, <1>b, DeskOfIs
    <2>2. KeptLine(0) = <<>> BY <1>0 DEF KeptLine
    <2>3. QED BY <2>1, <2>2
<1>5. "kept" \in DeskNames /\ "held" \in DeskNames /\ "kept" # "held" BY DEF DeskNames
<1>d. Placed(Desk(A, r, d), out, Ids) BY <1>1
<1>6. PICK z \in Seq(Ids) : z = <<k>> /\ z # <<>> /\ Tail(z) = <<>> /\ Head(z) = k
    <2>1. <<k>> \in Seq(Ids) /\ <<k>> # <<>> /\ Tail(<<k>>) = <<>> /\ Head(<<k>>) = k OBVIOUS
    <2>2. QED BY <2>1, Zenon
<1>7. Shifts(z, h, Tail(z), Append(h, Head(z))) /\ Leaves(z, Tail(z), {Head(z)}) BY <1>6, HeadShifts
<1>8. Placed(Desk(A, r, e), out, Ids)
    <2>1. \A y \in DeskNames : y # "kept" /\ y # "held" => e[y] = d[y] BY <1>3, <1>4 DEF DeskNames
    <2>2. Shifts(d["kept"], d["held"], e["kept"], e["held"]) BY <1>3, <1>4, <1>a, <1>6, <1>7
    <2>3. QED BY <1>5, <1>d, <2>1, <2>2, DeskMoves
<1>9. Placed(Desk(A, r, f), out \cup {k}, Ids)
    <2>1. \A y \in DeskNames : y # "kept" => f[y] = d[y] BY <1>3, <1>c DEF DeskNames
    <2>2. Leaves(d["kept"], f["kept"], {k}) BY <1>3, <1>c, <1>6, <1>7
    <2>3. QED BY <1>5, <1>d, <2>1, <2>2, DeskGoes
<1>10. QED BY <1>2, <1>a, <1>b, <1>8, <1>9

LEMMA SteerPlaced ==
    ASSUME TypeOK, NEW r \in Runs, NEW A \in [Lines -> Seq(Nat)], NEW out, NEW k \in {0} \cup Ids,
           NEW b \in Boxes, NEW h \in Seq(Ids), NEW s \in Seq(Ids), FirstSteer(b) # 0,
           Placed(Desk(A, r, DeskOf(b, s, h, k)), out, Ids)
    PROVE  /\ Placed(Desk(A, r, DeskOf(AfterSteer(b), s, Append(h, FirstSteer(b)), k)), out, Ids)
           /\ Placed(Desk(A, r, DeskOf(AfterSteer(b), s, h, k)), out \cup {FirstSteer(b)}, Ids)
<1>1. PICK c \in Boxes : c = AfterSteer(b) BY SteerIs
<1>2. PICK i \in Ids : i = FirstSteer(b) BY SteerType
<1>3. PICK g \in Seq(Ids) : g = Append(h, i)
    <2>1. Append(h, i) \in Seq(Ids) OBVIOUS
    <2>2. QED BY <2>1, Zenon
<1>4. b.returned \in Seq(Ids) /\ b.urgent \in Seq(Ids) BY BoxTypes
<1>5. \E x \in BoxNames : /\ Shifts(b[x], h, c[x], g) /\ Leaves(b[x], c[x], {i})
                          /\ \A y \in BoxNames : y # x => c[y] = b[y]
    <2>0. c.ordinary = b.ordinary BY <1>1, SteerIs
    <2>1. CASE \E n \in 1 .. Len(b.returned) : i = b.returned[n] /\ c.returned = RemoveAt(b.returned, n) /\ c.urgent = b.urgent
        <3>1. PICK n \in 1 .. Len(b.returned) : i = b.returned[n] /\ c.returned = RemoveAt(b.returned, n) /\ c.urgent = b.urgent
            BY <2>1
        <3>2. Shifts(b.returned, h, c.returned, g) /\ Leaves(b.returned, c.returned, {i})
            BY <1>3, <1>4, <3>1, AtShifts
        <3>3. \A y \in BoxNames : y # "returned" => c[y] = b[y] BY <2>0, <3>1 DEF BoxNames
        <3>4. "returned" \in BoxNames BY DEF BoxNames
        <3>5. QED BY <3>2, <3>3, <3>4
    <2>2. CASE b.urgent # <<>> /\ i = Head(b.urgent) /\ c.urgent = Tail(b.urgent) /\ c.returned = b.returned
        <3>2. Shifts(b.urgent, h, c.urgent, g) /\ Leaves(b.urgent, c.urgent, {i})
            BY <1>3, <1>4, <2>2, HeadShifts
        <3>3. \A y \in BoxNames : y # "urgent" => c[y] = b[y] BY <2>0, <2>2 DEF BoxNames
        <3>4. "urgent" \in BoxNames BY DEF BoxNames
        <3>5. QED BY <3>2, <3>3, <3>4
    <2>3. QED BY <1>1, <1>2, <2>1, <2>2, SteerIs
<1>6. PICK x \in BoxNames : /\ Shifts(b[x], h, c[x], g) /\ Leaves(b[x], c[x], {i})
                            /\ \A y \in BoxNames : y # x => c[y] = b[y] BY <1>5
<1>7. Placed(Desk(A, r, DeskOf(c, s, g, k)), out, Ids) BY <1>6, BoxToHeld
<1>8. Placed(Desk(A, r, DeskOf(c, s, h, k)), out \cup {i}, Ids) BY <1>6, BoxToNone
<1>9. QED BY <1>1, <1>2, <1>3, <1>7, <1>8

Regroups(s, t, u, v) == ((s \o t) \o u) \o v = s \o ((t \o u) \o v)

LEMMA Regrouped ==
    ASSUME NEW S, NEW s \in Seq(S), NEW t \in Seq(S), NEW u \in Seq(S), NEW v \in Seq(S)
    PROVE  Regroups(s, t, u, v)
<1>1. (s \o t) \o u = s \o (t \o u) BY ConcatAssociative
<1>2. t \o u \in Seq(S) OBVIOUS
<1>3. \A x \in Seq(S) : (s \o x) \o v = s \o (x \o v) BY ConcatAssociative
<1>4. (s \o (t \o u)) \o v = s \o ((t \o u) \o v) BY <1>2, <1>3
<1>5. QED BY <1>1, <1>4 DEF Regroups

LEMMA PullPlaced ==
    ASSUME TypeOK, NEW r \in Runs, NEW A \in [Lines -> Seq(Nat)], NEW out, NEW k \in {0} \cup Ids,
           NEW b \in Boxes, NEW h \in Seq(Ids), NEW s \in Seq(Ids),
           Placed(Desk(A, r, DeskOf(b, s, h, k)), out, Ids)
    PROVE  Placed(Desk(A, r, DeskOf(AfterPull(b), s, h \o Pulled(b), k)), out, Ids)
<1>0. b.returned \in Seq(Ids) /\ b.urgent \in Seq(Ids) /\ b.ordinary \in Seq(Ids) BY BoxTypes
<1>1. PICK u \in Int, o \in Int :
             /\ AfterPull(b) \in Boxes
             /\ AfterPull(b).returned = Past(b.returned, Bandwidth)
             /\ AfterPull(b).urgent = Past(b.urgent, u) /\ AfterPull(b).ordinary = Past(b.ordinary, o)
             /\ Pulled(b) = First(b.returned, Bandwidth) \o First(b.urgent, u) \o First(b.ordinary, o)
    BY PulledIs
<1>2. Bandwidth \in Int BY SignalsAssumption
<1>3. PICK f1 \in Seq(Ids), f2 \in Seq(Ids), f3 \in Seq(Ids) :
        f1 = First(b.returned, Bandwidth) /\ f2 = First(b.urgent, u) /\ f3 = First(b.ordinary, o)
    BY <1>0, <1>2, Divided
<1>4. PICK p1 \in Seq(Ids), p2 \in Seq(Ids), p3 \in Seq(Ids) :
        p1 = Past(b.returned, Bandwidth) /\ p2 = Past(b.urgent, u) /\ p3 = Past(b.ordinary, o)
    BY <1>0, <1>2, Divided
<1>5. PICK h1 \in Seq(Ids) : h1 = h \o f1
    <2>1. h \o f1 \in Seq(Ids) OBVIOUS
    <2>2. QED BY <2>1, Zenon
<1>6. PICK h2 \in Seq(Ids) : h2 = h1 \o f2
    <2>1. h1 \o f2 \in Seq(Ids) OBVIOUS
    <2>2. QED BY <2>1, Zenon
<1>7. PICK h3 \in Seq(Ids) : h3 = h2 \o f3
    <2>1. h2 \o f3 \in Seq(Ids) OBVIOUS
    <2>2. QED BY <2>1, Zenon
<1>8. h3 = h \o Pulled(b)
    <2>1. Pulled(b) = (f1 \o f2) \o f3 BY <1>1, <1>3
    <2>2. h3 = ((h \o f1) \o f2) \o f3 BY <1>5, <1>6, <1>7
    <2>3. ((h \o f1) \o f2) \o f3 = h \o ((f1 \o f2) \o f3)
        <3>1. Regroups(h, f1, f2, f3) BY Regrouped
        <3>2. QED BY <3>1, Zenon DEF Regroups
    <2>4. QED BY <2>1, <2>2, <2>3
<1> DEFINE b1 == [b EXCEPT !.returned = p1]
           b2 == [b1 EXCEPT !.urgent = p2]
           b3 == [b2 EXCEPT !.ordinary = p3]
<1>9. b1 \in Boxes /\ b2 \in Boxes /\ b3 \in Boxes BY DEF Boxes
<1>10. b1.returned = p1 /\ b1.urgent = b.urgent /\ b1.ordinary = b.ordinary
       /\ b2.returned = p1 /\ b2.urgent = p2 /\ b2.ordinary = b.ordinary
       /\ b3.returned = p1 /\ b3.urgent = p2 /\ b3.ordinary = p3
    BY DEF Boxes
<1> HIDE DEF b1, b2, b3
<1>11. b3 = AfterPull(b)
    <2>1. PICK a \in Boxes : a = AfterPull(b) BY <1>1
    <2>2. a.returned = b3.returned /\ a.urgent = b3.urgent /\ a.ordinary = b3.ordinary BY <2>1, <1>1, <1>4, <1>10
    <2>3. a = [returned |-> a.returned, urgent |-> a.urgent, ordinary |-> a.ordinary] BY BoxTypes
    <2>4. b3 = [returned |-> b3.returned, urgent |-> b3.urgent, ordinary |-> b3.ordinary] BY <1>9, BoxTypes
    <2>5. QED BY <2>1, <2>2, <2>3, <2>4
<1>12. Placed(Desk(A, r, DeskOf(b1, s, h1, k)), out, Ids)
    <2>1. Shifts(b.returned, h, p1, h1) BY <1>0, <1>2, <1>3, <1>4, <1>5, FirstShifts
    <2>2. "returned" \in BoxNames /\ Shifts(b["returned"], h, b1["returned"], h1)
          /\ \A y \in BoxNames : y # "returned" => b1[y] = b[y] BY <1>10, <2>1 DEF BoxNames
    <2>3. PICK x \in BoxNames : /\ Shifts(b[x], h, b1[x], h1)
                                /\ \A y \in BoxNames : y # x => b1[y] = b[y] BY <2>2
    <2>4. QED BY <1>9, <2>3, BoxToHeld
<1>13. Placed(Desk(A, r, DeskOf(b2, s, h2, k)), out, Ids)
    <2>1. Shifts(b.urgent, h1, p2, h2) BY <1>0, <1>3, <1>4, <1>6, FirstShifts
    <2>2. "urgent" \in BoxNames /\ Shifts(b1["urgent"], h1, b2["urgent"], h2)
          /\ \A y \in BoxNames : y # "urgent" => b2[y] = b1[y] BY <1>10, <2>1 DEF BoxNames
    <2>3. PICK x \in BoxNames : /\ Shifts(b1[x], h1, b2[x], h2)
                                /\ \A y \in BoxNames : y # x => b2[y] = b1[y] BY <2>2
    <2>4. QED BY <1>9, <1>12, <2>3, BoxToHeld
<1>14. Placed(Desk(A, r, DeskOf(b3, s, h3, k)), out, Ids)
    <2>1. Shifts(b.ordinary, h2, p3, h3) BY <1>0, <1>3, <1>4, <1>7, FirstShifts
    <2>2. "ordinary" \in BoxNames /\ Shifts(b2["ordinary"], h2, b3["ordinary"], h3)
          /\ \A y \in BoxNames : y # "ordinary" => b3[y] = b2[y] BY <1>10, <2>1 DEF BoxNames
    <2>3. PICK x \in BoxNames : /\ Shifts(b2[x], h2, b3[x], h3)
                                /\ \A y \in BoxNames : y # x => b3[y] = b2[y] BY <2>2
    <2>4. QED BY <1>9, <1>13, <2>3, BoxToHeld
<1>15. QED BY <1>8, <1>11, <1>14

LEMMA TakesPlaced ==
    ASSUME TypeOK, NEW r \in Runs, NEW A \in [Lines -> Seq(Nat)], NEW out, NEW c \in Heaps, NEW b, NEW h, NEW k, NEW gone,
           NEW g \in Seq(Ids), NEW s \in Seq(Ids),
           Takes(c, b, g, h, k, gone), Placed(Desk(A, r, DeskOf(c.box, s, g, c.kept)), out, Ids)
    PROVE  Placed(Desk(A, r, DeskOf(b, s, h, k)), out \cup gone, Ids)
<1>1. PICK q \in Boxes, j \in {0} \cup Ids : q = c.box /\ j = c.kept BY DEF Heaps
<1>2. Placed(Desk(A, r, DeskOf(q, s, g, j)), out, Ids) BY <1>1
<1>3. out \cup {} = out OBVIOUS
<1>4. CASE b = c.box /\ h = g /\ k = c.kept /\ gone = {} BY <1>1, <1>2, <1>3, <1>4
<1>5. CASE /\ FirstSteer(c.box) # 0 /\ b = AfterSteer(c.box) /\ k = c.kept
           /\ \/ h = Append(g, FirstSteer(c.box)) /\ gone = {}
              \/ h = g /\ gone = {FirstSteer(c.box)}
    <2>1. FirstSteer(q) # 0 BY <1>1, <1>5
    <2>2. /\ Placed(Desk(A, r, DeskOf(AfterSteer(q), s, Append(g, FirstSteer(q)), j)), out, Ids)
          /\ Placed(Desk(A, r, DeskOf(AfterSteer(q), s, g, j)), out \cup {FirstSteer(q)}, Ids)
        BY <1>2, <2>1, SteerPlaced
    <2>3. QED BY <1>1, <1>3, <1>5, <2>2
<1>6. CASE b = AfterPull(c.box) /\ h = g \o Pulled(c.box) /\ k = c.kept /\ gone = {}
    <2>1. Placed(Desk(A, r, DeskOf(AfterPull(q), s, g \o Pulled(q), j)), out, Ids) BY <1>2, PullPlaced
    <2>2. QED BY <1>1, <1>3, <1>6, <2>1
<1>7. CASE b = c.box /\ k = 0 /\ c.kept # 0 /\ ((h = Append(g, c.kept) /\ gone = {}) \/ (h = g /\ gone = {c.kept}))
    <2>1. PICK i \in Ids : i = j BY <1>1, <1>7
    <2>2. Placed(Desk(A, r, DeskOf(q, s, g, i)), out, Ids) BY <1>2, <2>1
    <2>3. /\ Placed(Desk(A, r, DeskOf(q, s, Append(g, i), 0)), out, Ids)
          /\ Placed(Desk(A, r, DeskOf(q, s, g, 0)), out \cup {i}, Ids)
        BY <2>2, KeptToHeld
    <2>4. QED BY <1>1, <1>3, <1>7, <2>1, <2>3
<1>8. QED BY <1>4, <1>5, <1>6, <1>7 DEF Takes

LEMMA DeskStepPlaced ==
    ASSUME TypeOK, TypeOK', PlaceInv, NEW r \in Runs, DeskStep(r)
    PROVE  PlaceInv'
<1>1. PICK w \in Waits, b \in Boxes, h \in Seq(Ids), v \in Waits, gone \in SUBSET Ids :
        w.id = wait[r].id /\ w.kept = wait[r].kept /\ Desked(r, Collect(r, w), b, h, v, gone)
    BY DEF DeskStep
<1>2. PICK c \in Heaps : c = Collect(r, w) BY CollectType
<1>3. /\ box' = [box EXCEPT ![r] = b] /\ slot' = [slot EXCEPT ![r] = <<>>]
      /\ held' = [held EXCEPT ![r] = h] /\ wait' = [wait EXCEPT ![r] = v]
      /\ consumed' \cup dropped' = ((consumed \cup dropped) \cup c.lost) \cup gone
      /\ UNCHANGED <<sent, relayed, holder>> /\ Takes(c, b, held[r], h, v.kept, gone)
    BY <1>1, <1>2 DEF Desked
<1>4. /\ box'[r] = b /\ slot'[r] = <<>> /\ held'[r] = h /\ wait'[r] = v
      /\ \A o \in Rooms \cup Runs : o # r => box'[o] = box[o]
      /\ \A q \in Runs : q # r => slot'[q] = slot[q] /\ held'[q] = held[q] /\ wait'[q].kept = wait[q].kept
    BY <1>3, TypeFacts
<1>5. /\ Where = Desk(Where, r, DeskOf(box[r], slot[r], held[r], wait[r].kept))
      /\ Where' = Desk(Where, r, DeskOf(b, <<>>, h, v.kept))
    BY <1>3, <1>4, WhereDesk
<1>6. PICK A \in [Lines -> Seq(Nat)] : A = Where BY WhereIs
<1>7. PICK out : out = (consumed \cup dropped) \cup c.lost OBVIOUS
<1>8. PICK s \in Seq(Ids) : s = <<>> BY NoLine
<1>9. PICK g \in Seq(Ids) : g = held[r] BY DeskTypes
<1>10. Placed(Desk(A, r, DeskOf(c.box, s, g, c.kept)), out, Ids)
    BY <1>1, <1>2, <1>5, <1>6, <1>7, <1>8, <1>9, CollectPlaced
<1>11. PICK k : k = v.kept BY Zenon
<1>12. Takes(c, b, g, h, k, gone) BY <1>3, <1>9, <1>11
<1>13. Placed(Desk(A, r, DeskOf(b, s, h, k)), out \cup gone, Ids) BY <1>10, <1>12, TakesPlaced
<1>14. Ids' = Ids BY <1>3 DEF Ids
<1>15. Placed(Where', consumed' \cup dropped', Ids') BY <1>3, <1>5, <1>6, <1>7, <1>8, <1>11, <1>13, <1>14
<1>16. QED BY <1>15 DEF PlaceInv, Placed

LEMMA ConsumePlaced ==
    ASSUME TypeOK, TypeOK', PlaceInv, NEW r \in Runs, ConsumeStep(r)
    PROVE  PlaceInv'
<1>1. /\ Head(held[r]) \in Ids /\ Tail(held[r]) \in Seq(Ids) /\ held[r] # <<>>
      /\ consumed' = consumed \cup {Head(held[r])} /\ held' = [held EXCEPT ![r] = Tail(held[r])]
      /\ UNCHANGED <<sent, waits, relayed, holder, box, slot, wait, stash, dropped, crashes>>
    BY ConsumeIs
<1>2. PICK g \in Seq(Ids), b \in Boxes, s \in Seq(Ids), k \in {0} \cup Ids :
        g = held[r] /\ b = box[r] /\ s = slot[r] /\ k = wait[r].kept
    BY DeskTypes DEF Waits
<1>3. PICK h \in Seq(Ids), i \in Ids : h = Tail(g) /\ i = Head(g) BY <1>1, <1>2
<1>4. /\ Where = Desk(Where, r, DeskOf(b, s, g, k)) /\ Where' = Desk(Where, r, DeskOf(b, s, h, k))
    <2>1. held'[r] = h /\ \A q \in Runs : q # r => held'[q] = held[q] BY <1>1, <1>2, <1>3, TypeFacts
    <2>2. /\ Where = Desk(Where, r, DeskOf(box[r], slot[r], held[r], wait[r].kept))
          /\ Where' = Desk(Where, r, DeskOf(box'[r], slot'[r], held'[r], wait'[r].kept))
        BY <1>1, <2>1, WhereDesk
    <2>3. box'[r] = b /\ slot'[r] = s /\ wait'[r].kept = k BY <1>1, <1>2
    <2>4. QED BY <1>2, <2>1, <2>2, <2>3
<1>5. PICK A \in [Lines -> Seq(Nat)] : A = Where BY WhereIs
<1>6. PICK d \in Spreads : d = DeskOf(b, s, g, k) BY DeskOfIs
<1>7. PICK e \in Spreads : e = DeskOf(b, s, h, k) BY DeskOfIs
<1>8. d["slot"] = s /\ d["held"] = g /\ d["kept"] = KeptLine(k) /\ \A y \in BoxNames : d[y] = b[y] BY <1>6, DeskOfIs
<1>9. e["slot"] = s /\ e["held"] = h /\ e["kept"] = KeptLine(k) /\ \A y \in BoxNames : e[y] = b[y] BY <1>7, DeskOfIs
<1>10. \A y \in DeskNames : y # "held" => e[y] = d[y] BY <1>8, <1>9 DEF DeskNames
<1>11. g # <<>> BY <1>1, <1>2
<1>12. Leaves(g, Tail(g), {Head(g)}) BY <1>11, HeadShifts
<1>13. "held" \in DeskNames /\ Leaves(d["held"], e["held"], {i}) BY <1>3, <1>8, <1>9, <1>12 DEF DeskNames
<1>14. PICK out : out = consumed \cup dropped OBVIOUS
<1>15. Placed(Desk(A, r, d), out, Ids) BY <1>4, <1>5, <1>6, <1>14 DEF PlaceInv
<1>16. Placed(Desk(A, r, e), out \cup {i}, Ids) BY <1>10, <1>13, <1>15, DeskGoes
<1>17. Ids' = Ids /\ consumed' \cup dropped' = out \cup {i} BY <1>1, <1>2, <1>3, <1>14 DEF Ids
<1>18. Placed(Where', consumed' \cup dropped', Ids') BY <1>4, <1>5, <1>7, <1>16, <1>17
<1>19. QED BY <1>18 DEF PlaceInv, Placed

LEMMA LineKinds ==
    ASSUME NEW l \in Lines
    PROVE  \/ l = <<NoRun, "relayed">>
           \/ \E o \in Rooms \cup Runs : \E n \in BoxNames : l = <<o, n>>
           \/ \E r \in Runs : l = <<r, "slot">> \/ l = <<r, "held">> \/ l = <<r, "kept">>
BY DEF Lines, BoxNames

LEMMA WhereAfter ==
    ASSUME TypeOK'
    PROVE  /\ Where' \in [Lines -> Seq(Nat)] /\ Where'[<<NoRun, "relayed">>] = relayed'
           /\ \A o \in Rooms \cup Runs : \A n \in BoxNames : Where'[<<o, n>>] = box'[o][n]
           /\ \A r \in Runs : /\ Where'[<<r, "slot">>] = slot'[r] /\ Where'[<<r, "held">>] = held'[r]
                              /\ Where'[<<r, "kept">>] = KeptLine(wait'[r].kept)
<1>0. Where' = [l \in Lines |-> Standing(l)'] BY DEF Where
<1>a. Ids' \subseteq Nat
    <2>1. Len(sent') \in Nat /\ DOMAIN sent' = 1 .. Len(sent') BY DEF TypeOK
    <2>2. QED BY <2>1 DEF Ids
<1>1. Seq(Ids') \subseteq Seq(Nat) BY <1>a, MoreIn
<1>2. <<NoRun, "relayed">> \in Lines /\ Standing(<<NoRun, "relayed">>)' = relayed' /\ relayed' \in Seq(Nat)
    BY <1>1 DEF TypeOK, Lines, Standing
<1>3. \A o \in Rooms \cup Runs : \A n \in BoxNames :
        <<o, n>> \in Lines /\ Standing(<<o, n>>)' = box'[o][n] /\ box'[o][n] \in Seq(Nat)
    <2>1. ASSUME NEW o \in Rooms \cup Runs, NEW n \in BoxNames
          PROVE  <<o, n>> \in Lines /\ Standing(<<o, n>>)' = box'[o][n] /\ box'[o][n] \in Seq(Nat)
        <3>2. <<o, n>> \in Lines BY DEF Lines, BoxNames
        <3>3. Standing(<<o, n>>)' = box'[o][n] BY DEF Standing, BoxNames
        <3>4. box'[o] \in [returned : Seq(Ids'), urgent : Seq(Ids'), ordinary : Seq(Ids')] BY DEF TypeOK
        <3>5. box'[o][n] \in Seq(Ids') BY <3>4 DEF BoxNames
        <3>6. QED BY <1>1, <3>2, <3>3, <3>5
    <2>2. QED BY <2>1, Zenon
<1>4. ASSUME NEW r \in Runs
      PROVE  /\ <<r, "slot">> \in Lines /\ <<r, "held">> \in Lines /\ <<r, "kept">> \in Lines
             /\ Standing(<<r, "slot">>)' = slot'[r] /\ Standing(<<r, "held">>)' = held'[r]
             /\ Standing(<<r, "kept">>)' = KeptLine(wait'[r].kept)
             /\ slot'[r] \in Seq(Nat) /\ held'[r] \in Seq(Nat) /\ KeptLine(wait'[r].kept) \in Seq(Nat)
    <2>1. /\ <<r, "slot">> \in Lines /\ <<r, "held">> \in Lines /\ <<r, "kept">> \in Lines BY DEF Lines
    <2>2. /\ Standing(<<r, "slot">>)' = slot'[r] /\ Standing(<<r, "held">>)' = held'[r]
          /\ Standing(<<r, "kept">>)' = KeptLine(wait'[r].kept) BY DEF Standing, KeptReply, KeptLine
    <2>3. slot'[r] \in Seq(Nat) /\ held'[r] \in Seq(Nat) BY <1>1 DEF TypeOK
    <2>4. KeptLine(wait'[r].kept) \in Seq(Nat)
        <3>1. wait'[r].kept \in {0} \cup Ids' BY DEF TypeOK
        <3>2. PICK k \in Nat : k = wait'[r].kept BY <3>1, <1>a
        <3>3. <<>> \in Seq(Nat) /\ <<k>> \in Seq(Nat) OBVIOUS
        <3>4. QED BY <3>2, <3>3 DEF KeptLine
    <2>5. QED BY <2>1, <2>2, <2>3, <2>4
<1>5. ASSUME NEW l \in Lines PROVE Standing(l)' \in Seq(Nat)
    <2>1. \/ l = <<NoRun, "relayed">>
          \/ \E o \in Rooms \cup Runs : \E n \in BoxNames : l = <<o, n>>
          \/ \E r \in Runs : l = <<r, "slot">> \/ l = <<r, "held">> \/ l = <<r, "kept">>
        BY LineKinds
    <2>2. QED BY <2>1, <1>2, <1>3, <1>4
<1>6. Where' \in [Lines -> Seq(Nat)] BY <1>0, <1>5
<1>7. QED BY <1>0, <1>2, <1>3, <1>4, <1>6

LEMMA PlaceStays ==
    ASSUME TypeOK, TypeOK', PlaceInv, UNCHANGED <<sent, relayed, box, slot, held>>,
           consumed' \cup dropped' = consumed \cup dropped,
           \A r \in Runs : wait'[r].kept = wait[r].kept
    PROVE  PlaceInv'
<1>1. ASSUME NEW l \in Lines PROVE Where'[l] = Where[l]
    <2>1. \/ l = <<NoRun, "relayed">>
          \/ \E o \in Rooms \cup Runs : \E n \in BoxNames : l = <<o, n>>
          \/ \E r \in Runs : l = <<r, "slot">> \/ l = <<r, "held">> \/ l = <<r, "kept">>
        BY LineKinds
    <2>2. CASE l = <<NoRun, "relayed">> BY <2>2, WhereIs, WhereAfter
    <2>3. CASE \E o \in Rooms \cup Runs : \E n \in BoxNames : l = <<o, n>> BY <2>3, WhereIs, WhereAfter
    <2>4. ASSUME NEW r \in Runs, l = <<r, "slot">> \/ l = <<r, "held">> \/ l = <<r, "kept">> PROVE Where'[l] = Where[l]
        <3>1. Where[<<r, "slot">>] = slot[r] /\ Where[<<r, "held">>] = held[r] /\ Where[<<r, "kept">>] = KeptLine(wait[r].kept)
            BY WhereIs, KeptIs
        <3>2. QED BY <2>4, <3>1, WhereAfter
    <2>5. QED BY <2>1, <2>2, <2>3, <2>4
<1>2. Where' = Where BY <1>1, WhereIs, WhereAfter
<1>3. Ids' = Ids BY DEF Ids
<1>4. Placed(Where', consumed' \cup dropped', Ids') BY <1>2, <1>3 DEF PlaceInv
<1>5. QED BY <1>4 DEF PlaceInv, Placed

(* A line of a desk is given back, in front of what was before.            *)
ToFront(A, r, d, x, e, gone, ids) ==
    /\ e[x] = <<>> /\ e["returned"] = d[x] \o d["returned"]
    /\ \A y \in DeskNames : y # x /\ y # "returned" => e[y] = d[y]
    /\ Placed(Desk(A, r, e), gone, ids)

LEMMA GoesToFront ==
    ASSUME NEW r \in Runs, NEW A \in [Lines -> Seq(Nat)], NEW d \in Spreads, NEW x \in DeskNames, x # "returned",
           NEW gone, NEW ids, Placed(Desk(A, r, d), gone, ids)
    PROVE  \E e \in Spreads : ToFront(A, r, d, x, e, gone, ids)
<1>0. "returned" \in DeskNames BY DEF DeskNames, BoxNames
<1>1. PICK s \in Seq(Nat), t \in Seq(Nat) : s = d[x] /\ t = d["returned"] BY <1>0 DEF Spreads
<1>2. <<>> \in Seq(Nat) /\ s \o t \in Seq(Nat) OBVIOUS
<1> DEFINE e == [y \in DeskNames |-> IF y = x THEN <<>> ELSE IF y = "returned" THEN s \o t ELSE d[y]]
<1>3. e \in Spreads BY <1>2 DEF Spreads
<1>4. e[x] = <<>> /\ e["returned"] = s \o t /\ \A y \in DeskNames : y # x /\ y # "returned" => e[y] = d[y]
    BY <1>0
<1> HIDE DEF e
<1>5. Shifts(s, t, <<>>, s \o t) BY AllShifts
<1>6. Shifts(d[x], d["returned"], e[x], e["returned"]) BY <1>1, <1>4, <1>5
<1>7. PICK o \in DeskNames : o = "returned" BY <1>0
<1>8. Placed(Desk(A, r, e), gone, ids) BY <1>3, <1>4, <1>6, <1>7, DeskMoves
<1>9. QED BY <1>1, <1>3, <1>4, <1>8 DEF ToFront

LEMMA StopWaitingPlaced ==
    ASSUME TypeOK, TypeOK', PlaceInv, NEW r \in Runs, StopWaiting(r)
    PROVE  PlaceInv'
<1>1. /\ box' = [box EXCEPT ![r] = GivenBack(box[r], KeptReply(r))] /\ wait' = [wait EXCEPT ![r] = NoWait]
      /\ KeptReply(r) \in Seq(Ids) /\ GivenBack(box[r], KeptReply(r)) \in Boxes
      /\ UNCHANGED <<sent, consumed, relayed, holder, slot, held, stash, dropped, crashes>>
    BY StopWaitingIs
<1>2. PICK g \in Seq(Ids), b \in Boxes, s \in Seq(Ids), k \in {0} \cup Ids :
        g = held[r] /\ b = box[r] /\ s = slot[r] /\ k = wait[r].kept
    BY DeskTypes DEF Waits
<1>3. PICK c \in Boxes : c = GivenBack(box[r], KeptReply(r)) BY <1>1
<1>4. /\ box'[r] = c /\ wait'[r].kept = 0 /\ slot'[r] = s /\ held'[r] = g
      /\ \A o \in Rooms \cup Runs : o # r => box'[o] = box[o]
      /\ \A q \in Runs : q # r => slot'[q] = slot[q] /\ held'[q] = held[q] /\ wait'[q].kept = wait[q].kept
    BY <1>1, <1>2, <1>3, TypeFacts, NoWaitType DEF NoWait
<1>5. /\ Where = Desk(Where, r, DeskOf(b, s, g, k)) /\ Where' = Desk(Where, r, DeskOf(c, s, g, 0))
    <2>1. UNCHANGED relayed BY <1>1
    <2>2. /\ Where = Desk(Where, r, DeskOf(box[r], slot[r], held[r], wait[r].kept))
          /\ Where' = Desk(Where, r, DeskOf(box'[r], slot'[r], held'[r], wait'[r].kept))
        BY <1>4, <2>1, WhereDesk
    <2>3. QED BY <1>2, <1>4, <2>2
<1>6. PICK A \in [Lines -> Seq(Nat)] : A = Where BY WhereIs
<1>7. PICK d \in Spreads : d = DeskOf(b, s, g, k) BY DeskOfIs
<1>8. PICK f \in Spreads : f = DeskOf(c, s, g, 0) BY DeskOfIs
<1>9. d["slot"] = s /\ d["held"] = g /\ d["kept"] = KeptLine(k) /\ \A y \in BoxNames : d[y] = b[y] BY <1>7, DeskOfIs
<1>10. f["slot"] = s /\ f["held"] = g /\ f["kept"] = <<>> /\ \A y \in BoxNames : f[y] = c[y]
    <2>1. 0 \in {0} \cup Ids /\ KeptLine(0) = <<>> BY DEF KeptLine
    <2>2. f["slot"] = s /\ f["held"] = g /\ f["kept"] = KeptLine(0) /\ \A y \in BoxNames : f[y] = c[y]
        BY <1>8, <2>1, DeskOfIs
    <2>3. QED BY <2>1, <2>2
<1>11. PICK out : out = consumed \cup dropped OBVIOUS
<1>12. Placed(Desk(A, r, d), out, Ids) BY <1>5, <1>6, <1>7, <1>11 DEF PlaceInv
<1>13. PICK x \in DeskNames : x = "kept" BY DEF DeskNames
<1>14. PICK e \in Spreads : ToFront(A, r, d, x, e, out, Ids) BY <1>12, <1>13, GoesToFront
<1>15. c.returned = KeptLine(k) \o b.returned /\ c.urgent = b.urgent /\ c.ordinary = b.ordinary
    <2>1. PICK q \in Seq(Ids) : q = KeptReply(r) BY <1>1
    <2>2. q = KeptLine(k) BY <1>2, <2>1, KeptIs
    <2>3. /\ GivenBack(b, q).returned = q \o b.returned
          /\ GivenBack(b, q).urgent = b.urgent /\ GivenBack(b, q).ordinary = b.ordinary BY GivenBackIs
    <2>4. QED BY <1>2, <1>3, <2>1, <2>2, <2>3
<1>16. \A y \in DeskNames : e[y] = f[y]
    <2>1. e["kept"] = <<>> /\ e["returned"] = KeptLine(k) \o b.returned BY <1>9, <1>13, <1>14 DEF ToFront, BoxNames
    <2>2. e["urgent"] = b.urgent /\ e["ordinary"] = b.ordinary /\ e["slot"] = s /\ e["held"] = g
        BY <1>9, <1>13, <1>14 DEF ToFront, DeskNames, BoxNames
    <2>3. QED BY <1>10, <1>15, <2>1, <2>2 DEF DeskNames, BoxNames
<1>17. e = f BY <1>16 DEF Spreads
<1>18. Placed(Where', out, Ids) BY <1>5, <1>6, <1>8, <1>14, <1>17 DEF ToFront
<1>19. Ids' = Ids /\ consumed' \cup dropped' = out BY <1>1, <1>11 DEF Ids
<1>20. Placed(Where', consumed' \cup dropped', Ids') BY <1>18, <1>19
<1>21. QED BY <1>20 DEF PlaceInv, Placed

(* Two keepers exchange their queues.                                      *)
Swaps(A, B, r, m) ==
    /\ \A n \in BoxNames : B[<<r, n>>] = A[<<m, n>>] /\ B[<<m, n>>] = A[<<r, n>>]
    /\ \A l \in Lines : l[2] \notin BoxNames \/ (l[1] # r /\ l[1] # m) => B[l] = A[l]

LEMMA Swapped ==
    ASSUME NEW A \in [Lines -> Seq(Nat)], NEW B \in [Lines -> Seq(Nat)], NEW ids, NEW gone,
           NEW r \in Runs, NEW m \in Rooms, Placed(A, gone, ids), Swaps(A, B, r, m)
    PROVE  Placed(B, gone, ids)
<1> DEFINE pi == [l \in Lines |-> IF l[2] \in BoxNames /\ l[1] = r THEN <<m, l[2]>>
                                  ELSE IF l[2] \in BoxNames /\ l[1] = m THEN <<r, l[2]>> ELSE l]
<1> USE DEF Swaps
<1>0. r # m BY OwnersApart
<1>1. \A n \in BoxNames : <<r, n>> \in Lines /\ <<m, n>> \in Lines BY DEF Lines, BoxNames
<1>2. \A l \in Lines : l[2] \in BoxNames => l = <<l[1], l[2]>> BY DEF Lines, BoxNames
<1>3. pi \in [Lines -> Lines] BY <1>1
<1>4. ASSUME NEW l \in Lines PROVE B[l] = A[pi[l]] /\ pi[pi[l]] = l
    <2>1. CASE l[2] \in BoxNames /\ l[1] = r
        <3>1. l = <<r, l[2]>> /\ pi[l] = <<m, l[2]>> /\ <<m, l[2]>> \in Lines BY <1>1, <1>2, <2>1
        <3>2. pi[<<m, l[2]>>] = <<r, l[2]>> BY <1>0, <2>1, <3>1
        <3>3. QED BY <2>1, <3>1, <3>2
    <2>2. CASE l[2] \in BoxNames /\ l[1] = m
        <3>1. l = <<m, l[2]>> /\ pi[l] = <<r, l[2]>> /\ <<r, l[2]>> \in Lines BY <1>0, <1>1, <1>2, <2>2
        <3>2. pi[<<r, l[2]>>] = <<m, l[2]>> BY <2>2, <3>1
        <3>3. QED BY <2>2, <3>1, <3>2
    <2>3. CASE l[2] \notin BoxNames \/ (l[1] # r /\ l[1] # m)
        <3>1. pi[l] = l BY <2>3
        <3>2. QED BY <2>3, <3>1
    <2>4. QED BY <2>1, <2>2, <2>3
<1> HIDE DEF pi
<1>5. QED BY <1>3, <1>4, Permuted

LEMMA LendPlaced ==
    ASSUME TypeOK, TypeOK', HolderInv, PlaceInv, NEW r \in Runs, Lend(r)
    PROVE  PlaceInv'
<1>1. UNCHANGED <<sent, consumed, waits, relayed, slot, held, wait, stash, dropped, crashes>>
    BY DEF Lend, ledger, desks
<1>2. PICK m \in Rooms : m = RoomOf[r] BY OwnersApart
<1>3. CASE UNCHANGED <<holder, box>> BY <1>1, <1>3, PlaceStays
<1>4. CASE holder[m] = NoRun /\ box' = [box EXCEPT ![r] = box[m], ![m] = EmptyBox]
    <2>1. box[r] = EmptyBox
        <3>1. holder[RoomOf[r]] # r BY <1>2, <1>4, OwnersApart
        <3>2. QED BY <3>1 DEF HolderInv
    <2>2. r # m BY OwnersApart
    <2>3. box'[r] = box[m] /\ box'[m] = box[r] /\ \A o \in Rooms \cup Runs : o # r /\ o # m => box'[o] = box[o]
        BY <1>4, <2>1, <2>2, TypeFacts
    <2>4. PICK A \in [Lines -> Seq(Nat)] : A = Where BY WhereIs
    <2>5. PICK B \in [Lines -> Seq(Nat)] : B = Where' BY WhereAfter
    <2>6. \A n \in BoxNames : B[<<r, n>>] = A[<<m, n>>] /\ B[<<m, n>>] = A[<<r, n>>]
        <3>1. \A n \in BoxNames : Where[<<r, n>>] = box[r][n] /\ Where[<<m, n>>] = box[m][n] BY WhereIs
        <3>2. \A n \in BoxNames : Where'[<<r, n>>] = box'[r][n] /\ Where'[<<m, n>>] = box'[m][n] BY WhereAfter
        <3>3. QED BY <2>3, <2>4, <2>5, <3>1, <3>2
    <2>7. ASSUME NEW l \in Lines, l[2] \notin BoxNames \/ (l[1] # r /\ l[1] # m) PROVE B[l] = A[l]
        <3>1. \/ l = <<NoRun, "relayed">>
              \/ \E o \in Rooms \cup Runs : \E n \in BoxNames : l = <<o, n>>
              \/ \E q \in Runs : l = <<q, "slot">> \/ l = <<q, "held">> \/ l = <<q, "kept">>
            BY LineKinds
        <3>2. CASE l = <<NoRun, "relayed">> BY <1>1, <2>4, <2>5, <3>2, WhereIs, WhereAfter
        <3>3. CASE \E o \in Rooms \cup Runs : \E n \in BoxNames : l = <<o, n>>
            <4>1. PICK o \in Rooms \cup Runs, n \in BoxNames : l = <<o, n>> BY <3>3
            <4>2. o # r /\ o # m BY <2>7, <4>1
            <4>3. Where[<<o, n>>] = box[o][n] /\ Where'[<<o, n>>] = box'[o][n] BY WhereIs, WhereAfter
            <4>4. QED BY <2>3, <2>4, <2>5, <4>1, <4>2, <4>3
        <3>4. ASSUME NEW q \in Runs, l = <<q, "slot">> \/ l = <<q, "held">> \/ l = <<q, "kept">> PROVE B[l] = A[l]
            <4>1. /\ Where[<<q, "slot">>] = slot[q] /\ Where[<<q, "held">>] = held[q]
                  /\ Where[<<q, "kept">>] = KeptLine(wait[q].kept)
                BY WhereIs, KeptIs
            <4>2. QED BY <1>1, <2>4, <2>5, <3>4, <4>1, WhereAfter
        <3>5. QED BY <3>1, <3>2, <3>3, <3>4
    <2>8. PICK out : out = consumed \cup dropped OBVIOUS
    <2>9. Placed(A, out, Ids) BY <2>4, <2>8 DEF PlaceInv
    <2>a. Swaps(A, B, r, m) BY <2>6, <2>7 DEF Swaps
    <2>10. Placed(B, out, Ids) BY <2>9, <2>a, Swapped
    <2>11. Ids' = Ids /\ consumed' \cup dropped' = out BY <1>1, <2>8 DEF Ids
    <2>12. Placed(Where', consumed' \cup dropped', Ids') BY <2>5, <2>10, <2>11
    <2>13. QED BY <2>12 DEF PlaceInv, Placed
<1>5. QED BY <1>2, <1>3, <1>4 DEF Lend

(* A signal shown to the rooms.                                            *)
LEMMA DeliverPlaced ==
    ASSUME TypeOK, TypeOK', HolderInv, PlaceInv, Deliver
    PROVE  PlaceInv'
<1>1. PICK i \in Ids, m \in Rooms :
             /\ relayed # <<>> /\ i = Head(relayed) /\ relayed' = Tail(relayed) /\ m = sent[i].to
             /\ UNCHANGED <<sent, consumed, waits, holder, held, wait, stash, at, crashes>>
             /\ \/ dropped' = dropped \cup {i} /\ UNCHANGED <<box, slot>>
                \/ holder[m] = NoRun /\ box' = [box EXCEPT ![m] = Delivered(box[m], i)] /\ UNCHANGED <<slot, dropped>>
                \/ /\ holder[m] \in Runs /\ RoomOf[holder[m]] = m
                   /\ slot' = [slot EXCEPT ![holder[m]] = Append(slot[holder[m]], i)] /\ UNCHANGED <<box, dropped>>
    BY DeliverIs
<1>c. /\ relayed # <<>> /\ i = Head(relayed) /\ relayed' = Tail(relayed)
      /\ consumed' = consumed /\ sent' = sent /\ held' = held /\ wait' = wait
    BY <1>1
<1>2. PICK A \in [Lines -> Seq(Nat)] : A = Where BY WhereIs
<1>3. PICK B \in [Lines -> Seq(Nat)] : B = Where' BY WhereAfter
<1>d. <<NoRun, "relayed">> \in Lines BY DEF Lines
<1>4. PICK p \in Lines : p = <<NoRun, "relayed">> BY <1>d
<1>e. relayed \in Seq(Ids) BY TypeFacts
<1>5. PICK s \in Seq(Ids) : s = relayed /\ s # <<>> /\ Head(s) = i BY <1>c, <1>e, Zenon
<1>f. Where[<<NoRun, "relayed">>] = relayed /\ Where'[<<NoRun, "relayed">>] = relayed' BY WhereIs, WhereAfter
<1>6. A[p] = s /\ B[p] = Tail(s) BY <1>c, <1>2, <1>3, <1>4, <1>5, <1>f, Zenon
<1>7. PICK out : out = consumed \cup dropped OBVIOUS
<1>8. Placed(A, out, Ids) BY <1>2, <1>7 DEF PlaceInv
<1>9. Ids' = Ids BY <1>c DEF Ids
<1>a. ASSUME NEW q \in Runs
      PROVE  /\ A[<<q, "slot">>] = slot[q] /\ B[<<q, "slot">>] = slot'[q] /\ B[<<q, "held">>] = A[<<q, "held">>]
             /\ B[<<q, "kept">>] = A[<<q, "kept">>]
    <2>1. /\ Where[<<q, "slot">>] = slot[q] /\ Where[<<q, "held">>] = held[q]
          /\ Where[<<q, "kept">>] = KeptLine(wait[q].kept)
        BY WhereIs, KeptIs
    <2>2. /\ Where'[<<q, "slot">>] = slot'[q] /\ Where'[<<q, "held">>] = held'[q]
          /\ Where'[<<q, "kept">>] = KeptLine(wait'[q].kept)
        BY WhereAfter
    <2>3. held'[q] = held[q] /\ wait'[q] = wait[q] BY <1>c
    <2>4. QED BY <1>2, <1>3, <2>1, <2>2, <2>3
<1>b. \A o \in Rooms \cup Runs : \A n \in BoxNames : A[<<o, n>>] = box[o][n] /\ B[<<o, n>>] = box'[o][n]
    <2>1. \A o \in Rooms \cup Runs : \A n \in BoxNames : Where[<<o, n>>] = box[o][n] BY WhereIs, Zenon
    <2>2. \A o \in Rooms \cup Runs : \A n \in BoxNames : Where'[<<o, n>>] = box'[o][n] BY WhereAfter, Zenon
    <2>3. QED BY <1>2, <1>3, <2>1, <2>2, Zenon
<1>10. CASE dropped' = dropped \cup {i} /\ UNCHANGED <<box, slot>>
    <2>1. ASSUME NEW l \in Lines, l # p PROVE B[l] = A[l]
        <3>1. \/ \E o \in Rooms \cup Runs : \E n \in BoxNames : l = <<o, n>>
              \/ \E q \in Runs : l = <<q, "slot">> \/ l = <<q, "held">> \/ l = <<q, "kept">>
            BY <1>4, <2>1, LineKinds
        <3>2. box' = box /\ slot' = slot BY <1>10
        <3>3. CASE \E o \in Rooms \cup Runs : \E n \in BoxNames : l = <<o, n>> BY <1>b, <3>2, <3>3
        <3>4. CASE \E q \in Runs : l = <<q, "slot">> \/ l = <<q, "held">> \/ l = <<q, "kept">> BY <1>a, <3>2, <3>4
        <3>5. QED BY <3>1, <3>3, <3>4
    <2>2. Leaves(s, Tail(s), {Head(s)}) BY <1>5, HeadShifts
    <2>3. Leaves(A[p], B[p], {i}) BY <1>5, <1>6, <2>2
    <2>4. Placed(B, out \cup {i}, Ids) BY <1>8, <2>1, <2>3, Departed
    <2>5. consumed' \cup dropped' = out \cup {i} BY <1>c, <1>7, <1>10
    <2>6. Placed(Where', consumed' \cup dropped', Ids') BY <1>3, <1>9, <2>4, <2>5
    <2>7. QED BY <2>6 DEF PlaceInv, Placed
<1>11. CASE UNCHANGED dropped /\ \E q \in Lines : /\ q # p /\ \A l \in Lines : l # p /\ l # q => B[l] = A[l]
                                                 /\ A[q] \in Seq(Ids) /\ B[q] = Append(A[q], i)
    <2>1. PICK q \in Lines : /\ q # p /\ \A l \in Lines : l # p /\ l # q => B[l] = A[l]
                             /\ A[q] \in Seq(Ids) /\ B[q] = Append(A[q], i)
        BY <1>11
    <2>2. PICK t \in Seq(Ids) : t = A[q] BY <2>1
    <2>3. Shifts(s, t, Tail(s), Append(t, Head(s))) BY <1>5, HeadShifts
    <2>4. Shifts(A[p], A[q], B[p], B[q]) BY <1>5, <1>6, <2>1, <2>2, <2>3
    <2>5. Placed(B, out, Ids) BY <1>8, <2>1, <2>4, Exchanged
    <2>6. consumed' \cup dropped' = out BY <1>c, <1>7, <1>11
    <2>7. Placed(Where', consumed' \cup dropped', Ids') BY <1>3, <1>9, <2>5, <2>6
    <2>8. QED BY <2>7 DEF PlaceInv, Placed
<1>12. CASE box' = [box EXCEPT ![m] = Delivered(box[m], i)] /\ UNCHANGED <<slot, dropped>>
    <2>1. PICK lane \in Lanes : lane = LaneOf(i) BY LaneIs
    <2>2. lane \in BoxNames BY DEF Lanes, BoxNames
    <2>3. PICK q \in Lines : q = <<m, lane>> BY <2>2 DEF Lines, BoxNames
    <2>4. q # p BY <1>4, <2>2, <2>3 DEF BoxNames
    <2>5. PICK b \in Boxes : b = box[m] BY TypeFacts
    <2>6. /\ Delivered(b, i).returned = b.returned
          /\ \A x \in Lanes : Delivered(b, i)[x] = IF x = LaneOf(i) THEN Append(b[x], i) ELSE b[x]
        BY DeliveredIs
    <2>7. box'[m] = Delivered(b, i) /\ \A o \in Rooms \cup Runs : o # m => box'[o] = box[o] BY <1>12, <2>5, TypeFacts
    <2>8. A[q] = b[lane] /\ B[q] = Append(b[lane], i) /\ b[lane] \in Seq(Ids)
        <3>1. b[lane] \in Seq(Ids) BY BoxTypes
        <3>2. A[q] = box[m][lane] /\ B[q] = box'[m][lane] BY <1>b, <2>2, <2>3
        <3>3. QED BY <2>1, <2>5, <2>6, <2>7, <3>1, <3>2
    <2>9. ASSUME NEW l \in Lines, l # p, l # q PROVE B[l] = A[l]
        <3>1. \/ \E o \in Rooms \cup Runs : \E n \in BoxNames : l = <<o, n>>
              \/ \E x \in Runs : l = <<x, "slot">> \/ l = <<x, "held">> \/ l = <<x, "kept">>
            BY <1>4, <2>9, LineKinds
        <3>2. ASSUME NEW o \in Rooms \cup Runs, NEW n \in BoxNames, l = <<o, n>> PROVE B[l] = A[l]
            <4>1. CASE o # m
                <5>1. A[<<o, n>>] = box[o][n] /\ B[<<o, n>>] = box'[o][n] /\ box'[o] = box[o] BY <1>b, <2>7, <4>1
                <5>2. QED BY <3>2, <5>1
            <4>2. CASE o = m
                <5>1. n # lane BY <2>3, <2>9, <3>2, <4>2
                <5>2. Delivered(b, i)[n] = b[n] BY <2>1, <2>6, <5>1 DEF BoxNames, Lanes
                <5>3. A[l] = b[n] /\ B[l] = Delivered(b, i)[n] BY <1>b, <2>5, <2>7, <3>2, <4>2
                <5>4. QED BY <5>2, <5>3
            <4>3. QED BY <4>1, <4>2
        <3>3. CASE \E x \in Runs : l = <<x, "slot">> \/ l = <<x, "held">> \/ l = <<x, "kept">> BY <1>12, <1>a, <3>3
        <3>4. QED BY <3>1, <3>2, <3>3
    <2>10. QED BY <1>11, <1>12, <2>4, <2>8, <2>9
<1>13. CASE /\ holder[m] \in Runs
            /\ slot' = [slot EXCEPT ![holder[m]] = Append(slot[holder[m]], i)] /\ UNCHANGED <<box, dropped>>
    <2>1. PICK r \in Runs : r = holder[m] BY <1>13
    <2>2. PICK q \in Lines : q = <<r, "slot">> BY DEF Lines
    <2>3. q # p BY <1>4, <2>2
    <2>4. slot'[r] = Append(slot[r], i) /\ slot[r] \in Seq(Ids) /\ \A x \in Runs : x # r => slot'[x] = slot[x]
        BY <1>13, <2>1, TypeFacts
    <2>5. A[q] \in Seq(Ids) /\ B[q] = Append(A[q], i) BY <1>a, <2>2, <2>4
    <2>6. ASSUME NEW l \in Lines, l # p, l # q PROVE B[l] = A[l]
        <3>1. \/ \E o \in Rooms \cup Runs : \E n \in BoxNames : l = <<o, n>>
              \/ \E x \in Runs : l = <<x, "slot">> \/ l = <<x, "held">> \/ l = <<x, "kept">>
            BY <1>4, <2>6, LineKinds
        <3>2. CASE \E o \in Rooms \cup Runs : \E n \in BoxNames : l = <<o, n>> BY <1>13, <1>b, <3>2
        <3>3. ASSUME NEW x \in Runs, l = <<x, "slot">> \/ l = <<x, "held">> \/ l = <<x, "kept">> PROVE B[l] = A[l]
            <4>1. l = <<x, "slot">> => x # r BY <2>2, <2>6
            <4>2. QED BY <1>a, <2>4, <3>3, <4>1
        <3>4. QED BY <3>1, <3>2, <3>3
    <2>7. QED BY <1>11, <1>13, <2>3, <2>5, <2>6
<1>14. QED BY <1>1, <1>10, <1>12, <1>13

(* A signal is sent.                                                       *)
LEMMA Arrived ==
    ASSUME NEW A, NEW B, NEW ids, NEW gone, NEW n, NEW p \in Lines,
           Placed(A, gone, ids), n \notin ids, gone \subseteq ids, n \in Nat,
           B \in [Lines -> Seq(Nat)], B[p] = Append(A[p], n), \A l \in Lines : l # p => B[l] = A[l]
    PROVE  Placed(B, gone, ids \cup {n})
<1>1. /\ A \in [Lines -> Seq(Nat)] /\ \A l \in Lines : Once(A[l]) /\ Range(A[l]) \subseteq ids \ gone
      /\ \A k, l \in Lines : k # l => Range(A[k]) \cap Range(A[l]) = {}
      /\ \A i \in ids \ gone : \E l \in Lines : i \in Range(A[l])
    BY DEF Placed
<1>2. PICK s \in Seq(Nat) : s = A[p] BY <1>1
<1>3. Range(Append(s, n)) = Range(s) \cup {n} /\ (Once(s) /\ n \notin Range(s) => Once(Append(s, n)))
    BY Appended
<1>4. n \notin Range(s) /\ Once(s) BY <1>1, <1>2
<1>5. Range(B[p]) = Range(A[p]) \cup {n} /\ Once(B[p]) BY <1>2, <1>3, <1>4
<1>6. \A l \in Lines : Range(B[l]) = IF l = p THEN Range(A[l]) \cup {n} ELSE Range(A[l]) BY <1>5
<1>7. \A l \in Lines : Once(B[l]) /\ Range(B[l]) \subseteq (ids \cup {n}) \ gone
    <2>1. SUFFICES ASSUME NEW l \in Lines PROVE Once(B[l]) /\ Range(B[l]) \subseteq (ids \cup {n}) \ gone OBVIOUS
    <2>2. Once(A[l]) /\ Range(A[l]) \subseteq ids \ gone /\ n \notin gone BY <1>1
    <2>3. CASE l = p BY <1>5, <2>2, <2>3
    <2>4. CASE l # p BY <2>2, <2>4
    <2>5. QED BY <2>3, <2>4
<1>8. ASSUME NEW k \in Lines, NEW l \in Lines, k # l, NEW i, i \in Range(B[k]), i \in Range(B[l]) PROVE FALSE
    <2>1. n \notin Range(A[k]) /\ n \notin Range(A[l]) BY <1>1
    <2>2. i \in Range(A[k]) \/ (k = p /\ i = n) BY <1>6, <1>8
    <2>3. i \in Range(A[l]) \/ (l = p /\ i = n) BY <1>6, <1>8
    <2>4. QED BY <1>1, <1>8, <2>1, <2>2, <2>3
<1>9. ASSUME NEW i \in (ids \cup {n}) \ gone PROVE \E l \in Lines : i \in Range(B[l])
    <2>1. CASE i = n BY <1>5, <2>1
    <2>2. CASE i # n
        <3>1. PICK l \in Lines : i \in Range(A[l]) BY <1>1, <2>2
        <3>2. i \in Range(B[l]) BY <1>6, <3>1
        <3>3. QED BY <3>2
    <2>3. QED BY <2>1, <2>2
<1>10. QED BY <1>7, <1>8, <1>9 DEF Placed

LEMMA SendPlaced ==
    ASSUME TypeOK, TypeOK', WaitInv, PlaceInv, NEW r \in Runs, SendStep(r)
    PROVE  PlaceInv'
<1>1. PICK n : n = Len(sent) + 1 OBVIOUS
<1>2. /\ Ids' = Ids \cup {n} /\ n \notin Ids /\ n \in Nat /\ relayed' = Append(relayed, n)
      /\ \/ wait' = [wait EXCEPT ![r] = [NoWait EXCEPT !.id = n]] /\ wait[r].id = 0
         \/ wait' = wait
    BY <1>1, SendIs, IdFacts
<1>3. UNCHANGED <<consumed, holder, box, slot, held, stash, dropped, crashes>> BY DEF SendStep
<1>4. \A q \in Runs : wait'[q].kept = wait[q].kept
    <2>1. CASE wait' = wait BY <2>1
    <2>2. CASE wait' = [wait EXCEPT ![r] = [NoWait EXCEPT !.id = n]] /\ wait[r].id = 0
        <3>1. wait[r] = NoWait BY <2>2 DEF WaitInv
        <3>2. wait'[r].kept = 0 /\ \A q \in Runs : q # r => wait'[q] = wait[q] BY <2>2, TypeFacts DEF NoWait
        <3>3. wait[r].kept = 0 BY <3>1 DEF NoWait
        <3>4. QED BY <3>2, <3>3
    <2>3. QED BY <1>2, <2>1, <2>2
<1>5. PICK A \in [Lines -> Seq(Nat)] : A = Where BY WhereIs
<1>6. PICK B \in [Lines -> Seq(Nat)] : B = Where' BY WhereAfter
<1>7. <<NoRun, "relayed">> \in Lines BY DEF Lines
<1>8. PICK p \in Lines : p = <<NoRun, "relayed">> BY <1>7
<1>9. Where[<<NoRun, "relayed">>] = relayed /\ Where'[<<NoRun, "relayed">>] = relayed' BY WhereIs, WhereAfter
<1>10. B[p] = Append(A[p], n) BY <1>2, <1>5, <1>6, <1>8, <1>9
<1>11. ASSUME NEW l \in Lines, l # p PROVE B[l] = A[l]
    <2>1. \/ \E o \in Rooms \cup Runs : \E x \in BoxNames : l = <<o, x>>
          \/ \E q \in Runs : l = <<q, "slot">> \/ l = <<q, "held">> \/ l = <<q, "kept">>
        BY <1>8, <1>11, LineKinds
    <2>2. ASSUME NEW o \in Rooms \cup Runs, NEW x \in BoxNames, l = <<o, x>> PROVE B[l] = A[l]
        <3>1. Where[<<o, x>>] = box[o][x] /\ Where'[<<o, x>>] = box'[o][x] BY WhereIs, WhereAfter
        <3>2. QED BY <1>3, <1>5, <1>6, <2>2, <3>1
    <2>3. ASSUME NEW q \in Runs, l = <<q, "slot">> \/ l = <<q, "held">> \/ l = <<q, "kept">> PROVE B[l] = A[l]
        <3>1. /\ Where[<<q, "slot">>] = slot[q] /\ Where[<<q, "held">>] = held[q]
              /\ Where[<<q, "kept">>] = KeptLine(wait[q].kept)
            BY WhereIs, KeptIs
        <3>2. /\ Where'[<<q, "slot">>] = slot'[q] /\ Where'[<<q, "held">>] = held'[q]
              /\ Where'[<<q, "kept">>] = KeptLine(wait'[q].kept)
            BY WhereAfter
        <3>3. QED BY <1>3, <1>4, <1>5, <1>6, <2>3, <3>1, <3>2
    <2>4. QED BY <2>1, <2>2, <2>3
<1>12. PICK out : out = consumed \cup dropped OBVIOUS
<1>13. Placed(A, out, Ids) /\ out \subseteq Ids BY <1>5, <1>12, IdFacts DEF PlaceInv
<1>14. PICK ids : ids = Ids OBVIOUS
<1>15. Placed(B, out, ids \cup {n}) BY <1>2, <1>10, <1>11, <1>13, <1>14, Arrived
<1>16. consumed' \cup dropped' = out BY <1>3, <1>12
<1>17. Placed(Where', consumed' \cup dropped', Ids') BY <1>2, <1>6, <1>14, <1>15, <1>16
<1>18. QED BY <1>17 DEF PlaceInv, Placed

(* What a restart's fold puts in a room's queue.                           *)
Refolded(m, n, b) ==
    /\ b.returned = <<>>
    /\ \A lane \in Lanes :
        /\ \A i \in Range(b[lane]) : /\ i \in 1 .. n /\ sent[i].to = m /\ i \notin consumed /\ LaneOf(i) = lane
        /\ Rising(b[lane])

LEMMA RisingEnd ==
    ASSUME NEW s \in Seq(Nat), NEW i \in Nat, Rising(s), \A j \in Range(s) : j < i
    PROVE  Rising(Append(s, i))
<1>1. PICK t \in Seq(Nat) : t = Append(s, i)
    <2>1. Append(s, i) \in Seq(Nat) OBVIOUS
    <2>2. QED BY <2>1, Zenon
<1>2. Len(t) = Len(s) + 1 /\ Len(s) \in Nat /\ t[Len(s) + 1] = i /\ \A k \in 1 .. Len(s) : t[k] = s[k] BY <1>1
<1>3. DOMAIN t = 1 .. Len(s) + 1 /\ DOMAIN s = 1 .. Len(s) BY <1>2
<1>4. \A k \in 1 .. Len(s) : s[k] < i BY LineFacts
<1>5. ASSUME NEW j \in DOMAIN t, NEW k \in DOMAIN t, j < k PROVE t[j] < t[k]
    <2>1. j \in 1 .. Len(s) BY <1>2, <1>3, <1>5
    <2>2. CASE k = Len(s) + 1 BY <1>2, <1>4, <2>1, <2>2
    <2>3. CASE k # Len(s) + 1
        <3>1. k \in 1 .. Len(s) BY <1>2, <1>3, <2>3
        <3>2. s[j] < s[k] BY <1>3, <1>5, <2>1, <3>1 DEF Rising
        <3>3. QED BY <1>2, <2>1, <3>1, <3>2
    <2>4. QED BY <2>2, <2>3
<1>6. Rising(t) BY <1>5 DEF Rising
<1>7. QED BY <1>1, <1>6

LEMMA RisingOnce ==
    ASSUME NEW s \in Seq(Nat), Rising(s)
    PROVE  Once(s)
<1>1. Len(s) \in Nat /\ DOMAIN s = 1 .. Len(s) OBVIOUS
<1>2. SUFFICES ASSUME NEW j \in DOMAIN s, NEW k \in DOMAIN s, s[j] = s[k], j # k PROVE FALSE BY DEF Once
<1>3. s[j] \in Nat /\ s[k] \in Nat /\ j \in Nat /\ k \in Nat BY <1>1
<1>4. j < k \/ k < j BY <1>2, <1>3
<1>5. s[j] < s[k] \/ s[k] < s[j] BY <1>4 DEF Rising
<1>6. QED BY <1>2, <1>3, <1>5

LEMMA FoldedFacts ==
    ASSUME TypeOK, NEW m \in Rooms
    PROVE  Refolded(m, Len(sent), Folded(m))
<1> DEFINE S == {x \in Nat \X Boxes : Refolded(m, x[1], x[2])}
<1>0. Len(sent) \in Nat /\ Ids = 1 .. Len(sent) /\ Seq(Ids) \subseteq Seq(Nat) BY IdFacts, MoreIn
<1>1. ASSUME NEW f, FoldsTo(m, f) PROVE <<0, f[0]>> \in S
    <2>1. f[0] = EmptyBox /\ EmptyBox \in Boxes BY <1>1, EmptyBoxType DEF FoldsTo
    <2>2. \A lane \in Lanes : EmptyBox[lane] = <<>> BY EmptyBoxType DEF Lanes
    <2>3. Refolded(m, 0, EmptyBox) BY <2>2, EmptyBoxType, NoneIn DEF Refolded
    <2>4. QED BY <2>1, <2>3
<1>2. ASSUME NEW f, NEW n \in 1 .. Len(sent), FoldsTo(m, f), <<n - 1, f[n - 1]>> \in S PROVE <<n, f[n]>> \in S
    <2>1. f[n - 1] \in Boxes /\ f[n] \in Boxes /\ f[n] = FoldStep(m, f[n - 1], n) BY <1>0, <1>2 DEF FoldsTo
    <2>2. PICK b \in Boxes, c \in Boxes : b = f[n - 1] /\ c = f[n] BY <2>1
    <2>3. Refolded(m, n - 1, b) BY <1>2, <2>2
    <2>4. PICK i \in Ids : i = n BY <1>0
    <2>5. i \in Nat /\ n \in Nat BY <1>0, <2>4
    <2>6. CASE c = b
        <3>1. \A j : j \in 1 .. n - 1 => j \in 1 .. n BY <2>5
        <3>2. Refolded(m, n, c) BY <2>3, <2>6, <3>1 DEF Refolded
        <3>3. QED BY <2>2, <2>5, <3>2
    <2>7. CASE sent[i].to = m /\ i \notin consumed /\ c = Delivered(b, i)
        <3>1. /\ Delivered(b, i).returned = b.returned
              /\ \A x \in Lanes : Delivered(b, i)[x] = IF x = LaneOf(i) THEN Append(b[x], i) ELSE b[x]
            BY DeliveredIs
        <3>2. ASSUME NEW lane \in Lanes
              PROVE  /\ \A j \in Range(c[lane]) : j \in 1 .. n /\ sent[j].to = m /\ j \notin consumed /\ LaneOf(j) = lane
                     /\ Rising(c[lane])
            <4>0. /\ \A j \in Range(b[lane]) : j \in 1 .. n - 1 /\ sent[j].to = m /\ j \notin consumed /\ LaneOf(j) = lane
                  /\ Rising(b[lane])
                BY <2>3 DEF Refolded
            <4>1. CASE lane # LaneOf(i)
                <5>1. c[lane] = b[lane] BY <2>7, <3>1, <4>1
                <5>2. QED BY <1>0, <2>5, <4>0, <5>1
            <4>2. CASE lane = LaneOf(i)
                <5>1. c[lane] = Append(b[lane], i) BY <2>7, <3>1, <4>2
                <5>2. PICK s \in Seq(Ids) : s = b[lane] BY BoxTypes
                <5>3. Range(Append(s, i)) = Range(s) \cup {i} BY Appended
                <5>4. \A j \in Range(s) : j < i BY <2>4, <2>5, <4>0, <5>2
                <5>5. PICK t \in Seq(Nat) : t = s BY <1>0
                <5>6. Rising(Append(t, i)) BY <2>5, <4>0, <5>2, <5>4, <5>5, RisingEnd
                <5>7. \A j \in Range(c[lane]) : j \in Range(b[lane]) \/ j = i BY <5>1, <5>2, <5>3
                <5>8. QED BY <2>4, <2>5, <2>7, <4>0, <4>2, <5>1, <5>2, <5>5, <5>6, <5>7
            <4>3. QED BY <4>1, <4>2
        <3>3. c.returned = <<>> BY <2>3, <2>7, <3>1 DEF Refolded
        <3>4. Refolded(m, n, c) BY <3>2, <3>3 DEF Refolded
        <3>5. QED BY <2>2, <2>5, <3>4
    <2>8. c = b \/ (sent[i].to = m /\ i \notin consumed /\ c = Delivered(b, i)) BY <2>1, <2>2, <2>4 DEF FoldStep
    <2>9. QED BY <2>2, <2>5, <2>6, <2>7, <2>8
<1>3. <<Len(sent), Folded(m)>> \in S
    <2> HIDE DEF S
    <2> QED BY <1>1, <1>2, FoldInduction
<1>4. QED BY <1>3

LEMMA CrashPlaced ==
    ASSUME TypeOK, TypeOK', Crash
    PROVE  PlaceInv'
<1>1. /\ relayed' = <<>> /\ slot' = [r \in Runs |-> <<>>] /\ held' = [r \in Runs |-> <<>>]
      /\ wait' = [r \in Runs |-> NoWait] /\ UNCHANGED <<sent, consumed, waits>>
    BY DEF Crash, ledger
<1>2. box' = [o \in Rooms \cup Runs |-> IF o \in Rooms THEN Folded(o) ELSE EmptyBox] BY TypeFacts DEF Crash
<1>3. dropped' = {i \in Ids \ consumed : i \notin Range(Lane(Folded(sent[i].to), LaneOf(i)))} BY DEF Crash
<1>4. \A m \in Rooms : Folded(m) \in Boxes /\ Refolded(m, Len(sent), Folded(m)) BY FoldedType, FoldedFacts
<1>5. PICK B \in [Lines -> Seq(Nat)] : B = Where' BY WhereAfter
<1>6. PICK gone : gone = consumed' \cup dropped' OBVIOUS
<1>7. \A i \in Ids : i \in gone <=> i \in consumed \/ i \notin Range(Folded(sent[i].to)[LaneOf(i)])
    <2>1. ASSUME NEW i \in Ids PROVE Lane(Folded(sent[i].to), LaneOf(i)) = Folded(sent[i].to)[LaneOf(i)]
        <3>1. PICK m \in Rooms, lane \in Lanes : m = sent[i].to /\ lane = LaneOf(i) BY IdFacts, LaneIs
        <3>2. PICK b \in Boxes : b = Folded(m) BY <1>4
        <3>3. Lane(b, lane) = b[lane] BY LaneOfBox
        <3>4. QED BY <3>1, <3>2, <3>3
    <2>2. consumed' = consumed BY <1>1
    <2>3. QED BY <1>3, <1>6, <2>1, <2>2
<1>8. ASSUME NEW l \in Lines
      PROVE  \/ B[l] = <<>>
             \/ \E m \in Rooms, lane \in Lanes : l = <<m, lane>> /\ B[l] = Folded(m)[lane]
    <2>1. CASE l = <<NoRun, "relayed">>
        <3>1. Where'[<<NoRun, "relayed">>] = relayed' BY WhereAfter
        <3>2. QED BY <1>1, <1>5, <2>1, <3>1
    <2>2. ASSUME NEW o \in Rooms \cup Runs, NEW n \in BoxNames, l = <<o, n>>
          PROVE  \/ B[l] = <<>>
                 \/ \E m \in Rooms, lane \in Lanes : l = <<m, lane>> /\ B[l] = Folded(m)[lane]
        <3>1. B[l] = box'[o][n]
            <4>1. Where'[<<o, n>>] = box'[o][n] BY WhereAfter
            <4>2. QED BY <1>5, <2>2, <4>1
        <3>2. CASE o \notin Rooms
            <4>1. box'[o] = EmptyBox BY <1>2, <3>2
            <4>2. EmptyBox[n] = <<>> BY EmptyBoxType DEF BoxNames
            <4>3. QED BY <3>1, <4>1, <4>2
        <3>3. CASE o \in Rooms
            <4>1. box'[o] = Folded(o) BY <1>2, <3>3
            <4>2. Folded(o).returned = <<>> BY <1>4, <3>3 DEF Refolded
            <4>3. n = "returned" \/ n \in Lanes BY DEF BoxNames, Lanes
            <4>4. QED BY <2>2, <3>1, <3>3, <4>1, <4>2, <4>3
        <3>4. QED BY <3>2, <3>3
    <2>3. ASSUME NEW q \in Runs, l = <<q, "slot">> \/ l = <<q, "held">> \/ l = <<q, "kept">> PROVE B[l] = <<>>
        <3>1. /\ Where'[<<q, "slot">>] = slot'[q] /\ Where'[<<q, "held">>] = held'[q]
              /\ Where'[<<q, "kept">>] = KeptLine(wait'[q].kept)
            BY WhereAfter
        <3>2. slot'[q] = <<>> /\ held'[q] = <<>> /\ wait'[q].kept = 0 BY <1>1 DEF NoWait
        <3>3. KeptLine(0) = <<>> BY DEF KeptLine
        <3>4. QED BY <1>5, <2>3, <3>1, <3>2, <3>3
    <2>4. QED BY <2>1, <2>2, <2>3, LineKinds
<1>9. ASSUME NEW l \in Lines
      PROVE  /\ Once(B[l])
             /\ \A i \in Range(B[l]) : i \in Ids /\ i \notin gone /\ l = <<sent[i].to, LaneOf(i)>>
    <2>1. CASE B[l] = <<>> BY <2>1, NoneIn
    <2>2. ASSUME NEW m \in Rooms, NEW lane \in Lanes, l = <<m, lane>>, B[l] = Folded(m)[lane]
          PROVE  /\ Once(B[l])
                 /\ \A i \in Range(B[l]) : i \in Ids /\ i \notin gone /\ l = <<sent[i].to, LaneOf(i)>>
        <3>1. PICK s \in Seq(Nat) : s = B[l] OBVIOUS
        <3>2. /\ Rising(s)
              /\ \A i \in Range(s) : i \in 1 .. Len(sent) /\ sent[i].to = m /\ i \notin consumed /\ LaneOf(i) = lane
            BY <1>4, <2>2, <3>1 DEF Refolded
        <3>3. Once(s) BY <3>2, RisingOnce
        <3>4. ASSUME NEW i \in Range(s) PROVE i \in Ids /\ i \notin gone /\ l = <<sent[i].to, LaneOf(i)>>
            <4>1. i \in Ids /\ sent[i].to = m /\ i \notin consumed /\ LaneOf(i) = lane BY <3>2, IdFacts
            <4>2. i \in Range(Folded(sent[i].to)[LaneOf(i)]) BY <2>2, <3>1, <4>1
            <4>3. QED BY <1>7, <2>2, <4>1, <4>2
        <3>5. QED BY <3>1, <3>3, <3>4
    <2>3. QED BY <1>8, <2>1, <2>2
<1>10. \A k, l \in Lines : k # l => Range(B[k]) \cap Range(B[l]) = {}
    <2>1. SUFFICES ASSUME NEW k \in Lines, NEW l \in Lines, NEW i, i \in Range(B[k]), i \in Range(B[l]) PROVE k = l
        BY Zenon
    <2>2. k = <<sent[i].to, LaneOf(i)>> BY <1>9, <2>1
    <2>3. l = <<sent[i].to, LaneOf(i)>> BY <1>9, <2>1
    <2>4. QED BY <2>2, <2>3
<1>11. ASSUME NEW i \in Ids \ gone PROVE \E l \in Lines : i \in Range(B[l])
    <2>1. i \in Range(Folded(sent[i].to)[LaneOf(i)]) BY <1>7
    <2>2. PICK m \in Rooms, lane \in Lanes : m = sent[i].to /\ lane = LaneOf(i) BY IdFacts, LaneIs
    <2>3. lane \in BoxNames BY DEF Lanes, BoxNames
    <2>4. <<m, lane>> \in Lines BY <2>3 DEF Lines, BoxNames
    <2>5. Where'[<<m, lane>>] = box'[m][lane] BY <2>3, WhereAfter
    <2>6. box'[m] = Folded(m) BY <1>2
    <2>7. B[<<m, lane>>] = Folded(m)[lane] BY <1>5, <2>5, <2>6
    <2>8. QED BY <2>1, <2>2, <2>4, <2>7
<1>12. \A l \in Lines : Once(B[l]) /\ Range(B[l]) \subseteq Ids \ gone BY <1>9
<1>13. Placed(B, gone, Ids) BY <1>10, <1>11, <1>12 DEF Placed
<1>14. Ids' = Ids BY <1>1 DEF Ids
<1>15. Placed(Where', consumed' \cup dropped', Ids') BY <1>5, <1>6, <1>13, <1>14
<1>16. QED BY <1>15 DEF PlaceInv, Placed

Binds(s, t, u) == (s \o t) \o u = s \o (t \o u)

LEMMA Bound ==
    ASSUME NEW S, NEW s \in Seq(S), NEW t \in Seq(S), NEW u \in Seq(S)
    PROVE  Binds(s, t, u)
BY ConcatAssociative DEF Binds

Fronts(s, t, u, v) == s \o (t \o (u \o v)) = ((s \o t) \o u) \o v

LEMMA InFront ==
    ASSUME NEW S, NEW s \in Seq(S), NEW t \in Seq(S), NEW u \in Seq(S), NEW v \in Seq(S)
    PROVE  Fronts(s, t, u, v)
<1>1. s \o t \in Seq(S) /\ u \o v \in Seq(S) OBVIOUS
<1>2. PICK x \in Seq(S), y \in Seq(S) : x = s \o t /\ y = u \o v BY <1>1, Zenon
<1>3. Binds(s, t, y) /\ Binds(x, u, v) BY Bound
<1>4. QED BY <1>2, <1>3, Zenon DEF Binds, Fronts

LEMMA LeavePlaced ==
    ASSUME TypeOK, TypeOK', HolderInv, PlaceInv, NEW r \in Runs, Leave(r)
    PROVE  PlaceInv'
<1>1. PICK g \in Seq(Ids), b \in Boxes, s \in Seq(Ids), k \in {0} \cup Ids :
        g = held[r] /\ b = box[r] /\ s = slot[r] /\ k = wait[r].kept
    BY DeskTypes DEF Waits
<1>2. PICK z \in Seq(Ids) : z = KeptLine(k)
    <2>1. <<>> \in Seq(Ids) BY NoLine
    <2>2. k # 0 => <<k>> \in Seq(Ids) OBVIOUS
    <2>3. QED BY <2>1, <2>2 DEF KeptLine
<1>3. PICK t \in Seq(Ids) : t = (g \o z) \o s
    <2>1. (g \o z) \o s \in Seq(Ids) OBVIOUS
    <2>2. QED BY <2>1, Zenon
<1>4. PICK c \in Boxes : c = GivenBack(b, t) BY GivenBackIs
<1>5. c.returned = t \o b.returned /\ c.urgent = b.urgent /\ c.ordinary = b.ordinary BY <1>4, GivenBackIs
<1>6. /\ box' = [o \in Rooms \cup Runs |-> IF o = r THEN EmptyBox
                                           ELSE IF o \in Rooms /\ holder[o] = r THEN c ELSE box[o]]
      /\ slot' = [slot EXCEPT ![r] = <<>>] /\ held' = [held EXCEPT ![r] = <<>>]
      /\ wait' = [wait EXCEPT ![r] = NoWait]
      /\ UNCHANGED <<sent, consumed, waits, relayed, dropped, crashes>>
    BY <1>1, <1>2, <1>3, <1>4, TypeFacts DEF Leave, Emptied, ledger, KeptLine
<1>7. /\ slot'[r] = <<>> /\ held'[r] = <<>> /\ wait'[r].kept = 0
      /\ \A q \in Runs : q # r => slot'[q] = slot[q] /\ held'[q] = held[q] /\ wait'[q].kept = wait[q].kept
    BY <1>6, TypeFacts DEF NoWait
<1>8. PICK m \in Rooms : m = RoomOf[r] BY OwnersApart
<1>9. \A o \in Rooms : holder[o] = r => o = m BY <1>8, OwnersApart DEF HolderInv
<1>10. r # m BY OwnersApart
<1>11. CASE holder[m] # r
    <2>1. box[r] = EmptyBox /\ slot[r] = <<>> /\ held[r] = <<>> /\ wait[r].kept = 0 BY <1>8, <1>11 DEF HolderInv
    <2>2. \A o \in Rooms \cup Runs : box'[o] = box[o] BY <1>6, <1>9, <1>11, <2>1
    <2>3. box' = box BY <1>6, <2>2, TypeFacts
    <2>4. slot' = slot /\ held' = held BY <1>6, <2>1, TypeFacts
    <2>5. \A q \in Runs : wait'[q].kept = wait[q].kept BY <1>7, <2>1
    <2>6. QED BY <1>6, <2>3, <2>4, <2>5, PlaceStays
<1>12. CASE holder[m] = r
    <2>1. box[m] = EmptyBox BY <1>12, OwnersApart DEF HolderInv
    <2>2. box'[r] = EmptyBox /\ box'[m] = c /\ \A o \in Rooms \cup Runs : o # r /\ o # m => box'[o] = box[o]
        BY <1>6, <1>9, <1>10, <1>12
    <2>3. Where = Desk(Where, r, DeskOf(b, s, g, k))
        <3>1. [l \in Lines |-> Where[l]] = Where BY WhereIs
        <3>2. ASSUME NEW l \in Lines PROVE Where[l] = IF l[1] = r THEN DeskOf(b, s, g, k)[l[2]] ELSE Where[l]
            <4>1. CASE l[1] = r
                <5>1. l[2] \in DeskNames /\ l = <<r, l[2]>> BY <4>1, LinesAre
                <5>2. Standing(l) = DeskOf(b, s, g, k)[l[2]]
                    BY <1>1, <4>1, <5>1 DEF Standing, DeskOf, DeskNames, BoxNames, KeptReply, KeptLine
                <5>3. QED BY <4>1, <5>2 DEF Where
            <4>2. CASE l[1] # r BY <4>2
            <4>3. QED BY <4>1, <4>2
        <3>3. QED BY <3>1, <3>2 DEF Desk
    <2>4. PICK A \in [Lines -> Seq(Nat)] : A = Where BY WhereIs
    <2>5. PICK d \in Spreads : d = DeskOf(b, s, g, k) BY DeskOfIs
    <2>6. d["slot"] = s /\ d["held"] = g /\ d["kept"] = z /\ \A y \in BoxNames : d[y] = b[y] BY <1>2, <2>5, DeskOfIs
    <2>7. PICK out : out = consumed \cup dropped OBVIOUS
    <2>8. Placed(Desk(A, r, d), out, Ids) BY <2>3, <2>4, <2>5, <2>7 DEF PlaceInv
    <2>9. PICK xs \in DeskNames, xk \in DeskNames, xh \in DeskNames : xs = "slot" /\ xk = "kept" /\ xh = "held"
        BY DEF DeskNames
    <2>10. PICK d1 \in Spreads : ToFront(A, r, d, xs, d1, out, Ids) BY <2>8, <2>9, GoesToFront
    <2>11. PICK d2 \in Spreads : ToFront(A, r, d1, xk, d2, out, Ids)
        <3>1. Placed(Desk(A, r, d1), out, Ids) BY <2>10 DEF ToFront
        <3>2. QED BY <2>9, <3>1, GoesToFront
    <2>12. PICK d3 \in Spreads : ToFront(A, r, d2, xh, d3, out, Ids)
        <3>1. Placed(Desk(A, r, d2), out, Ids) BY <2>11 DEF ToFront
        <3>2. QED BY <2>9, <3>1, GoesToFront
    <2>13. d1["slot"] = <<>> /\ d1["returned"] = s \o b.returned /\ d1["kept"] = z /\ d1["held"] = g
           /\ d1["urgent"] = b.urgent /\ d1["ordinary"] = b.ordinary
        BY <2>6, <2>9, <2>10 DEF ToFront, DeskNames, BoxNames
    <2>14. d2["slot"] = <<>> /\ d2["returned"] = z \o (s \o b.returned) /\ d2["kept"] = <<>> /\ d2["held"] = g
           /\ d2["urgent"] = b.urgent /\ d2["ordinary"] = b.ordinary
        BY <2>9, <2>11, <2>13 DEF ToFront, DeskNames, BoxNames
    <2>15. d3["slot"] = <<>> /\ d3["returned"] = g \o (z \o (s \o b.returned)) /\ d3["kept"] = <<>> /\ d3["held"] = <<>>
           /\ d3["urgent"] = b.urgent /\ d3["ordinary"] = b.ordinary
        BY <2>9, <2>12, <2>14 DEF ToFront, DeskNames, BoxNames
    <2>16. d3["returned"] = c.returned
        <3>1. PICK u \in Seq(Ids) : u = b.returned BY BoxTypes
        <3>2. Fronts(g, z, s, u) BY InFront
        <3>3. g \o (z \o (s \o u)) = ((g \o z) \o s) \o u BY <3>2, Zenon DEF Fronts
        <3>4. QED BY <1>3, <1>5, <2>15, <3>1, <3>3, Zenon
    <2>17. PICK C \in [Lines -> Seq(Nat)] : C = Desk(A, r, d3) BY DeskIs
    <2>18. Placed(C, out, Ids) BY <2>12, <2>17 DEF ToFront
    <2>19. PICK B \in [Lines -> Seq(Nat)] : B = Where' BY WhereAfter
    <2>20. \A n \in DeskNames : C[<<r, n>>] = d3[n]
        <3>1. \A n \in DeskNames : Desk(A, r, d3)[<<r, n>>] = d3[n] BY DeskIs
        <3>2. QED BY <2>17, <3>1
    <2>21. \A l \in Lines : l[1] # r => C[l] = A[l]
        <3>1. \A l \in Lines : l[1] # r => Desk(A, r, d3)[l] = A[l] BY DeskIs
        <3>2. QED BY <2>17, <3>1
    <2>22. ASSUME NEW n \in BoxNames PROVE B[<<r, n>>] = C[<<m, n>>] /\ B[<<m, n>>] = C[<<r, n>>]
        <3>1. B[<<r, n>>] = EmptyBox[n] /\ B[<<m, n>>] = c[n]
            <4>1. Where'[<<r, n>>] = box'[r][n] /\ Where'[<<m, n>>] = box'[m][n] BY WhereAfter
            <4>2. QED BY <2>2, <2>19, <4>1
        <3>2. C[<<m, n>>] = EmptyBox[n]
            <4>1. <<m, n>> \in Lines /\ <<m, n>>[1] # r BY <1>10 DEF Lines, BoxNames
            <4>2. Where[<<m, n>>] = box[m][n] BY WhereIs
            <4>3. QED BY <2>1, <2>4, <2>21, <4>1, <4>2
        <3>3. C[<<r, n>>] = d3[n] BY <2>20 DEF DeskNames
        <3>4. d3[n] = c[n] BY <1>5, <2>15, <2>16 DEF BoxNames
        <3>5. QED BY <3>1, <3>2, <3>3, <3>4
    <2>23. ASSUME NEW l \in Lines, l[2] \notin BoxNames \/ (l[1] # r /\ l[1] # m) PROVE B[l] = C[l]
        <3>1. CASE l = <<NoRun, "relayed">>
            <4>1. Where'[<<NoRun, "relayed">>] = relayed' /\ Where[<<NoRun, "relayed">>] = relayed BY WhereIs, WhereAfter
            <4>2. l[1] # r BY <3>1, OwnersApart
            <4>3. QED BY <1>6, <2>4, <2>19, <2>21, <3>1, <4>1, <4>2
        <3>2. ASSUME NEW o \in Rooms \cup Runs, NEW n \in BoxNames, l = <<o, n>> PROVE B[l] = C[l]
            <4>1. o # r /\ o # m BY <2>23, <3>2
            <4>2. Where[<<o, n>>] = box[o][n] /\ Where'[<<o, n>>] = box'[o][n] BY WhereIs, WhereAfter
            <4>3. C[l] = A[l] BY <2>21, <3>2, <4>1
            <4>4. QED BY <2>2, <2>4, <2>19, <3>2, <4>1, <4>2, <4>3
        <3>3. ASSUME NEW q \in Runs, l = <<q, "slot">> \/ l = <<q, "held">> \/ l = <<q, "kept">> PROVE B[l] = C[l]
            <4>1. /\ Where[<<q, "slot">>] = slot[q] /\ Where[<<q, "held">>] = held[q]
                  /\ Where[<<q, "kept">>] = KeptLine(wait[q].kept)
                BY WhereIs, KeptIs
            <4>2. /\ Where'[<<q, "slot">>] = slot'[q] /\ Where'[<<q, "held">>] = held'[q]
                  /\ Where'[<<q, "kept">>] = KeptLine(wait'[q].kept)
                BY WhereAfter
            <4>3. CASE q # r
                <5>1. C[l] = A[l] BY <2>21, <3>3, <4>3
                <5>2. QED BY <1>7, <2>4, <2>19, <3>3, <4>1, <4>2, <4>3, <5>1
            <4>4. CASE q = r
                <5>1. "slot" \in DeskNames /\ "held" \in DeskNames /\ "kept" \in DeskNames BY DEF DeskNames
                <5>2. C[<<r, "slot">>] = <<>> /\ C[<<r, "held">>] = <<>> /\ C[<<r, "kept">>] = <<>>
                    BY <2>15, <2>20, <5>1
                <5>3. KeptLine(0) = <<>> BY DEF KeptLine
                <5>4. QED BY <1>7, <2>19, <3>3, <4>2, <4>4, <5>2, <5>3
            <4>5. QED BY <4>3, <4>4
        <3>4. QED BY <3>1, <3>2, <3>3, LineKinds
    <2>24. Swaps(C, B, r, m) BY <2>22, <2>23 DEF Swaps
    <2>25. Placed(B, out, Ids) BY <2>18, <2>24, Swapped
    <2>26. Ids' = Ids /\ consumed' \cup dropped' = out BY <1>6, <2>7 DEF Ids
    <2>27. Placed(Where', consumed' \cup dropped', Ids') BY <2>19, <2>25, <2>26
    <2>28. QED BY <2>27 DEF PlaceInv, Placed
<1>13. QED BY <1>11, <1>12

LEMMA PlaceStep ==
    ASSUME TypeOK, TypeOK', HolderInv, WaitInv, PlaceInv, [Next]_vars
    PROVE  PlaceInv'
<1>1. CASE UNCHANGED vars
    <2>1. UNCHANGED <<sent, relayed, box, slot, held>> /\ consumed' \cup dropped' = consumed \cup dropped
          /\ wait' = wait
        BY <1>1 DEF vars, ledger, desks
    <2>2. QED BY <2>1, PlaceStays
<1>2. ASSUME NEW r \in Runs, SteerStep(r) \/ Pull(r) \/ WaitOut(r) PROVE PlaceInv'
    BY <1>2, DeskSteps, DeskStepPlaced
<1>3. ASSUME NEW r \in Runs, QuietStep(r) PROVE PlaceInv'
    <2>1. UNCHANGED <<sent, relayed, box, slot, held>> /\ consumed' \cup dropped' = consumed \cup dropped
          /\ wait' = wait
        BY <1>3 DEF QuietStep, ledger
    <2>2. QED BY <2>1, PlaceStays
<1>4. CASE Tick
    <2>1. UNCHANGED <<sent, relayed, box, slot, held>> /\ consumed' \cup dropped' = consumed \cup dropped
        BY <1>4 DEF Tick, ledger
    <2>2. \A r \in Runs : wait'[r].kept = wait[r].kept BY <1>4, TickIs
    <2>3. QED BY <2>1, <2>2, PlaceStays
<1>5. QED BY <1>1, <1>2, <1>3, <1>4, Steps, LendPlaced, LeavePlaced, DeliverPlaced, CrashPlaced,
             StopWaitingPlaced, SendPlaced, ConsumePlaced

LEMMA PlaceInit ==
    ASSUME Init
    PROVE  PlaceInv
<1>1. Ids = {} BY DEF Init, Ids
<1>2. EmptyBox.returned = <<>> /\ EmptyBox.urgent = <<>> /\ EmptyBox.ordinary = <<>> BY EmptyBoxType
<1>3. ASSUME NEW l \in Lines PROVE Standing(l) = <<>>
    <2>1. CASE l = <<NoRun, "relayed">> BY <2>1 DEF Init, Standing
    <2>2. CASE \E o \in Rooms \cup Runs : \E n \in BoxNames : l = <<o, n>>
        BY <1>2, <2>2 DEF Init, Standing, BoxNames
    <2>3. CASE \E r \in Runs : l = <<r, "slot">> \/ l = <<r, "held">> \/ l = <<r, "kept">>
        BY <2>3 DEF Init, Standing, KeptReply, NoWait
    <2>4. QED BY <2>1, <2>2, <2>3, LineKinds
<1>4. <<>> \in Seq(Nat) BY NoLine
<1>5. Where = [l \in Lines |-> <<>>] BY <1>3 DEF Where
<1>6. Where \in [Lines -> Seq(Nat)] /\ \A l \in Lines : Where[l] = <<>> BY <1>4, <1>5
<1>7. PICK gone : gone = consumed \cup dropped OBVIOUS
<1>8. Placed(Where, gone, Ids) BY <1>1, <1>6, NoneIn DEF Placed
<1>9. QED BY <1>7, <1>8 DEF PlaceInv

LEMMA PlacedSpots ==
    ASSUME TypeOK, PlaceInv
    PROVE  PlacedOnce
<1>1. PICK A \in [Lines -> Seq(Nat)] : A = Where BY WhereIs
<1>2. PICK out : out = consumed \cup dropped OBVIOUS
<1>3. Placed(A, out, Ids) BY <1>1, <1>2 DEF PlaceInv
<1>4. \A l \in Lines : A[l] = Standing(l) BY <1>1 DEF Where
<1>5. ASSUME NEW i \in Ids PROVE Cardinality(Spots(i)) = IF i \in consumed \cup dropped THEN 0 ELSE 1
    <2>1. \A x : x \in Spots(i) <=> \E p \in Lines : \E k \in DOMAIN A[p] : A[p][k] = i /\ x = <<p, k>>
        BY <1>4 DEF Spots
    <2>2. \A p \in Lines : \A k \in DOMAIN A[p] : A[p][k] \in Range(A[p]) BY DEF Range
    <2>3. CASE i \in out
        <3>1. \A p \in Lines : i \notin Range(A[p]) BY <1>3, <2>3 DEF Placed
        <3>2. Spots(i) = {} BY <2>1, <2>2, <3>1
        <3>3. Cardinality({}) = 0 BY FS_EmptySet
        <3>4. QED BY <1>2, <2>3, <3>2, <3>3
    <2>4. CASE i \notin out
        <3>1. PICK p \in Lines : i \in Range(A[p]) BY <1>3, <2>4 DEF Placed
        <3>2. PICK k \in DOMAIN A[p] : A[p][k] = i BY <3>1 DEF Range
        <3>3. ASSUME NEW q \in Lines, NEW j \in DOMAIN A[q], A[q][j] = i PROVE q = p /\ j = k
            <4>1. i \in Range(A[q]) BY <2>2, <3>3
            <4>2. q = p BY <1>3, <3>1, <4>1 DEF Placed
            <4>3. Once(A[p]) BY <1>3 DEF Placed
            <4>4. QED BY <3>2, <3>3, <4>2, <4>3 DEF Once
        <3>4. Spots(i) = {<<p, k>>} BY <2>1, <3>2, <3>3
        <3>5. Cardinality({<<p, k>>}) = 1 BY FS_Singleton
        <3>6. QED BY <1>2, <2>4, <3>4, <3>5
    <2>5. QED BY <2>3, <2>4
<1>6. QED BY <1>5 DEF PlacedOnce

(* What a state needs to be reached from the start.                        *)
LEMMA InvInit ==
    ASSUME Init
    PROVE  HolderInv /\ WayInv /\ WaitInv
<1>1. HolderInv
    <2>1. \A m \in Rooms : holder[m] = NoRun BY DEF Init
    <2>2. \A r \in Runs : box[r] = EmptyBox /\ slot[r] = <<>> /\ held[r] = <<>> /\ wait[r].kept = 0
        BY DEF Init, NoWait
    <2>3. QED BY <2>1, <2>2 DEF HolderInv
<1>2. WayInv
    <2>1. Len(sent) = 0 /\ Len(relayed) = 0 /\ DOMAIN relayed = {} BY DEF Init
    <2>2. QED BY <2>1 DEF WayInv, Shown
<1>3. WaitInv
    <2>1. Ids = {} BY DEF Init, Ids
    <2>2. \A r \in Runs : wait[r] = NoWait BY DEF Init
    <2>3. NoWait.id = 0 BY DEF NoWait
    <2>4. QED BY <2>1, <2>2, <2>3 DEF WaitInv, WaitsPair
<1>4. QED BY <1>1, <1>2, <1>3

(* A signal on the ledger stands in exactly one place until it is consumed *)
(* or dropped, and in none afterwards: whoever leaves, cancels, fails or   *)
(* restarts (rooms.rs, SignalDesk::take_inbox, CollaborationFold::settle). *)
THEOREM SignalsPlacedOnce == Spec => []PlacedOnce
<1> DEFINE IInv == TypeOK /\ HolderInv /\ WaitInv /\ PlaceInv
<1>1. Init => IInv BY TypeInit, InvInit, PlaceInit
<1>2. IInv /\ [Next]_vars => IInv'
    <2>1. SUFFICES ASSUME IInv, [Next]_vars PROVE IInv' OBVIOUS
    <2>2. TypeOK' BY <2>1, TypeStep
    <2>3. HolderInv' BY <2>1, HolderStep
    <2>4. WaitInv' BY <2>1, WaitStep
    <2>5. PlaceInv' BY <2>1, <2>2, PlaceStep
    <2>6. QED BY <2>2, <2>3, <2>4, <2>5
<1>3. IInv => PlacedOnce BY PlacedSpots
<1>4. QED BY <1>1, <1>2, <1>3, PTL DEF Spec

-----------------------------------------------------------------------------
(* The order of each line.                                                 *)

LEMMA Beyond ==
    ASSUME NEW x \in Nat, NEW y \in Nat, NEW k \in 1 .. x + y, k > x
    PROVE  k \in x + 1 .. x + y /\ k - x \in 1 .. y /\ \A j \in 1 .. x + y : j < k => j - x < k - x
OBVIOUS

LEMMA RisingJoin ==
    ASSUME NEW s \in Seq(Nat), NEW t \in Seq(Nat), Rising(s), Rising(t), Before(s, t)
    PROVE  Rising(s \o t)
<1>1. PICK u \in Seq(Nat) : u = s \o t
    <2>1. s \o t \in Seq(Nat) OBVIOUS
    <2>2. QED BY <2>1, Zenon
<1>a. PICK x \in Nat, y \in Nat : x = Len(s) /\ y = Len(t) OBVIOUS
<1>2. /\ DOMAIN u = 1 .. x + y
      /\ DOMAIN s = 1 .. x /\ DOMAIN t = 1 .. y
      /\ \A k \in 1 .. x : u[k] = s[k]
      /\ \A k \in x + 1 .. x + y : u[k] = t[k - x]
    BY <1>1, <1>a
<1>3. \A k \in 1 .. x : s[k] \in Range(s) BY <1>a, LineFacts
<1>4. \A k \in 1 .. y : t[k] \in Range(t) BY <1>a, LineFacts
<1>5. ASSUME NEW j \in DOMAIN u, NEW k \in DOMAIN u, j < k PROVE u[j] < u[k]
    <2>0. j \in 1 .. x + y /\ k \in 1 .. x + y /\ j < k BY <1>2, <1>5
    <2>1. CASE k <= x
        <3>1. j \in 1 .. x /\ k \in 1 .. x BY <2>0, <2>1
        <3>2. s[j] < s[k] BY <1>2, <1>5, <3>1 DEF Rising
        <3>3. QED BY <1>2, <3>1, <3>2
    <2>2. CASE j > x
        <3>1. /\ j \in x + 1 .. x + y /\ k \in x + 1 .. x + y
              /\ j - x \in 1 .. y /\ k - x \in 1 .. y /\ j - x < k - x
            <4>1. k > x BY <2>0, <2>2
            <4>2. QED BY <2>0, <2>2, <4>1, Beyond
        <3>2. t[j - x] < t[k - x] BY <1>2, <3>1 DEF Rising
        <3>3. QED BY <1>2, <3>1, <3>2
    <2>3. CASE j <= x /\ k > x
        <3>1. j \in 1 .. x /\ k \in x + 1 .. x + y /\ k - x \in 1 .. y
            <4>1. j \in 1 .. x BY <2>0, <2>3
            <4>2. QED BY <2>0, <2>3, <4>1, Beyond
        <3>2. s[j] < t[k - x] BY <1>3, <1>4, <3>1 DEF Before
        <3>3. QED BY <1>2, <3>1, <3>2
    <2>4. k <= x \/ j > x \/ (j <= x /\ k > x) BY <2>0
    <2>5. QED BY <2>1, <2>2, <2>3, <2>4
<1>6. Rising(u) BY <1>5 DEF Rising
<1>7. QED BY <1>1, <1>6

LEMMA DueIs ==
    ASSUME NEW m, NEW lane, NEW i
    PROVE  i \in Due(m, lane) <=> i \in Ids /\ sent[i].to = m /\ LaneOf(i) = lane
BY DEF Due

(* What a desk or a room was given back or took has been shown.            *)
LEMMA OldTaken ==
    ASSUME TypeOK, WayInv, PlaceInv, NEW o \in Rooms \cup Runs, NEW i \in Taken(o)
    PROVE  i \in Nat /\ i <= Shown
<1>1. PICK p \in Lines : p # <<NoRun, "relayed">> /\ i \in Range(Where[p])
    <2>1. CASE i \in Range(box[o].returned)
        <3>1. "returned" \in BoxNames BY DEF BoxNames
        <3>2. <<o, "returned">> \in Lines /\ <<o, "returned">> # <<NoRun, "relayed">> BY DEF Lines
        <3>3. QED BY <2>1, <3>1, <3>2, WhereIs
    <2>2. CASE o \in Runs /\ i \in Range(held[o])
        <3>1. <<o, "held">> \in Lines /\ <<o, "held">> # <<NoRun, "relayed">> BY <2>2 DEF Lines
        <3>2. QED BY <2>2, <3>1, WhereIs
    <2>3. CASE o \in Runs /\ i \in Range(KeptReply(o))
        <3>1. <<o, "kept">> \in Lines /\ <<o, "kept">> # <<NoRun, "relayed">> BY <2>3 DEF Lines
        <3>2. QED BY <2>3, <3>1, WhereIs
    <2>4. QED BY <2>1, <2>2, <2>3 DEF Taken
<1>2. <<NoRun, "relayed">> \in Lines /\ Where[<<NoRun, "relayed">>] = relayed BY WhereIs DEF Lines
<1>3. i \in Ids /\ i \notin Range(relayed)
    <2>1. Range(Where[p]) \subseteq Ids \ (consumed \cup dropped) BY DEF PlaceInv, Placed
    <2>2. Range(Where[p]) \cap Range(Where[<<NoRun, "relayed">>]) = {}
        <3>1. PICK q \in Lines : q = <<NoRun, "relayed">> BY <1>2
        <3>2. Range(Where[p]) \cap Range(Where[q]) = {} BY <1>1, <3>1 DEF PlaceInv, Placed
        <3>3. QED BY <3>1, <3>2
    <2>3. QED BY <1>1, <1>2, <2>1, <2>2
<1>4. Ids = 1 .. Len(sent) /\ Len(sent) \in Nat BY IdFacts
<1>5. relayed \in Seq(Ids) BY TypeFacts
<1>6. Len(relayed) \in Nat /\ \A k \in 1 .. Len(relayed) : relayed[k] \in Range(relayed) /\ k \in DOMAIN relayed
    BY <1>5, LineFacts
<1>7. CASE i > Shown
    <2>a. PICK n \in Nat : n = Shown BY DEF WayInv
    <2>b. PICK y \in Nat : y = Len(relayed) BY <1>6
    <2>c. PICK x \in Nat : x = Len(sent) BY <1>4
    <2>d. n + y = x
        <3>1. n = x - y BY <2>a, <2>b, <2>c DEF Shown
        <3>2. QED BY <3>1
    <2>1. n = Shown /\ y = Len(relayed) /\ n + y = Len(sent) BY <2>a, <2>b, <2>c, <2>d
    <2>2. i - n \in 1 .. y /\ n + (i - n) = i BY <1>3, <1>4, <1>7, <2>1
    <2>3. relayed[i - n] = i BY <1>6, <2>1, <2>2 DEF WayInv
    <2>4. QED BY <1>3, <1>6, <2>1, <2>2, <2>3
<1>8. QED BY <1>3, <1>4, <1>6, <1>7 DEF Shown

LEMMA OrderShows ==
    ASSUME TypeOK, HolderInv, WayInv, PlaceInv, OrderInv, NewerInv
    PROVE  OrderKept
<1>1. Seq(Ids) \subseteq Seq(Nat) /\ Ids \subseteq Nat BY IdFacts, MoreIn
<1>2. PICK v \in Seq(Nat) : v = relayed BY <1>1, TypeFacts
<1>3. Shown \in Nat /\ Rising(v) /\ \A i \in Range(v) : i > Shown
    <2>1. Shown \in Nat /\ \A k \in DOMAIN v : v[k] = Shown + k BY <1>2 DEF WayInv
    <2>2. Len(v) \in Nat /\ DOMAIN v = 1 .. Len(v) OBVIOUS
    <2>3. Rising(v) BY <2>1, <2>2 DEF Rising
    <2>4. \A i \in Range(v) : \E k \in 1 .. Len(v) : v[k] = i BY LineFacts
    <2>5. QED BY <2>1, <2>2, <2>3, <2>4
<1>4. ASSUME NEW m \in Rooms, NEW lane \in Lanes, NEW o \in Rooms \cup Runs, NEW t \in Seq(Nat),
             (o = m /\ t = <<>>) \/ (o \in Runs /\ t = slot[o])
      PROVE  Rising(Lane(box[o], lane) \o t \o v)
    <2>1. PICK b \in Boxes : b = box[o] BY TypeFacts
    <2>2. Lane(b, lane) = b[lane] /\ b[lane] \in Seq(Ids) BY LaneOfBox, BoxTypes
    <2>3. PICK s \in Seq(Nat) : s = b[lane] BY <1>1, <2>2
    <2>4. Ordered(box[o], RoomFor(o), Shown) BY DEF OrderInv
    <2>5. Rising(s) /\ \A i \in Range(s) : i \in Ids /\ i <= Shown BY <2>1, <2>3, <2>4, DueIs DEF Ordered
    <2>6. Rising(t) /\ Before(s, t) /\ \A i \in Range(t) : i \in Ids /\ i <= Shown
        <3>1. CASE t = <<>> BY <3>1, NoneIn
        <3>2. CASE o \in Runs /\ t = slot[o]
            <4>1. Behind(box[o], slot[o], RoomOf[o], Shown) BY <3>2 DEF OrderInv
            <4>2. QED BY <2>1, <2>3, <3>2, <4>1 DEF Behind
        <3>3. QED BY <1>4, <3>1, <3>2
    <2>7. s \o t \in Seq(Nat) /\ Range(s \o t) = Range(s) \cup Range(t) BY Joined
    <2>8. PICK u \in Seq(Nat) : u = s \o t BY <2>7, Zenon
    <2>9. Rising(u) BY <2>5, <2>6, <2>8, RisingJoin
    <2>10. \A i \in Range(u) : i \in Nat /\ i <= Shown BY <1>1, <2>5, <2>6, <2>7, <2>8
    <2>11. \A i \in Range(v) : i \in Nat BY LineFacts
    <2>12. Before(u, v) BY <1>3, <2>10, <2>11 DEF Before
    <2>13. Rising(u \o v) BY <1>3, <2>9, <2>12, RisingJoin
    <2>14. QED BY <2>1, <2>2, <2>3, <2>8, <2>13
<1>5. ASSUME NEW m \in Rooms, NEW lane \in Lanes PROVE InLine(m, lane)
    <2>1. PICK o \in Rooms \cup Runs : o = IF holder[m] = NoRun THEN m ELSE holder[m] BY TypeFacts
    <2>2. PICK t \in Seq(Nat) : t = IF holder[m] = NoRun THEN <<>> ELSE slot[holder[m]]
        <3>1. <<>> \in Seq(Nat) BY NoLine
        <3>2. holder[m] # NoRun => holder[m] \in Runs BY TypeFacts
        <3>3. holder[m] # NoRun => slot[holder[m]] \in Seq(Nat) BY <1>1, <3>2, DeskTypes
        <3>4. QED BY <3>1, <3>3
    <2>3. (o = m /\ t = <<>>) \/ (o \in Runs /\ t = slot[o]) BY <2>1, <2>2, TypeFacts
    <2>4. Rising(Lane(box[o], lane) \o t \o v) BY <1>4, <2>3
    <2>5. PICK line : line = Lane(box[o], lane) \o t \o relayed BY Zenon
    <2>6. Rising(line) BY <1>2, <2>4, <2>5
    <2>7. \A j, k \in DOMAIN line : j < k => line[j] < line[k] BY <2>6 DEF Rising
    <2>8. line = Lane(box[IF holder[m] = NoRun THEN m ELSE holder[m]], lane)
                   \o (IF holder[m] = NoRun THEN <<>> ELSE slot[holder[m]]) \o relayed
        BY <2>1, <2>2, <2>5, Zenon
    <2>9. QED BY <2>7, <2>8 DEF InLine
<1>6. ASSUME NEW o \in Rooms \cup Runs, NEW i \in Taken(o), NEW j \in Coming(o) PROVE i < j
    <2>1. i \in Nat /\ i <= Shown BY OldTaken
    <2>2. CASE j \in Range(v)
        <3>1. j \in Nat /\ j > Shown BY <1>3, <2>2, LineFacts
        <3>2. QED BY <1>3, <2>1, <3>1
    <2>3. CASE o \in Runs /\ j \in Range(slot[o]) BY <2>3 DEF NewerInv
    <2>4. QED BY <1>2, <2>2, <2>3 DEF Coming
<1>7. QED BY <1>5, <1>6, Zenon DEF OrderKept, Lanes

(* What stays in order.                                                    *)
LEMMA OrderAfter ==
    ASSUME UNCHANGED sent, NEW n, n = Shown',
           \A o \in Rooms \cup Runs : Ordered(box'[o], RoomFor(o), n),
           \A r \in Runs : Behind(box'[r], slot'[r], RoomOf[r], n)
    PROVE  OrderInv'
<1>1. \A m, lane : Due(m, lane)' = Due(m, lane) BY DEF Due, Ids, LaneOf
<1>2. \A o \in Rooms \cup Runs : Ordered(box[o], RoomFor(o), Shown)' BY <1>1 DEF Ordered, RoomFor
<1>3. \A r \in Runs : Behind(box[r], slot[r], RoomOf[r], Shown)' BY DEF Behind, Ids
<1>4. QED BY <1>2, <1>3 DEF OrderInv

LEMMA OrderStays ==
    ASSUME OrderInv, UNCHANGED <<sent, relayed, box, slot>>
    PROVE  OrderInv'
<1>1. PICK n : n = Shown OBVIOUS
<1>2. Shown' = n BY <1>1 DEF Shown
<1>3. /\ \A o \in Rooms \cup Runs : Ordered(box'[o], RoomFor(o), n)
      /\ \A r \in Runs : Behind(box'[r], slot'[r], RoomOf[r], n)
    BY <1>1 DEF OrderInv
<1>4. QED BY <1>2, <1>3, OrderAfter

(* What a queue without some of its signals keeps.                         *)
Trims(s, t) == Range(t) \subseteq Range(s) /\ (Rising(s) => Rising(t))

LEMMA PastTrims ==
    ASSUME TypeOK, NEW s \in Seq(Ids), NEW n \in Int
    PROVE  Trims(s, Past(s, n))
<1>1. Ids \subseteq Int BY IdFacts
<1>2. Range(s) = Range(First(s, n)) \cup Range(Past(s, n)) /\ (Ids \subseteq Int /\ Rising(s) => Rising(Past(s, n)))
    BY DividedFacts
<1>3. QED BY <1>1, <1>2 DEF Trims

LEMMA TailTrims ==
    ASSUME TypeOK, NEW s \in Seq(Ids), s # <<>>
    PROVE  Trims(s, Tail(s))
<1>1. Len(s) \in Nat /\ 1 \in 1 .. Len(s) OBVIOUS
<1>2. Past(s, 0) = s /\ Tail(Past(s, 1 - 1)) = Past(s, 1) BY <1>1, PastIs
<1>3. Tail(s) = Past(s, 1) BY <1>2
<1>4. Trims(s, Past(s, 1)) BY PastTrims
<1>5. QED BY <1>3, <1>4

LEMMA OrderedTrims ==
    ASSUME NEW b, NEW c, NEW m, NEW n, Ordered(b, m, n), \A lane \in Lanes : Trims(b[lane], c[lane])
    PROVE  Ordered(c, m, n)
BY DEF Ordered, Trims

LEMMA TakesTrims ==
    ASSUME TypeOK, NEW c \in Heaps, NEW b, NEW g, NEW h, NEW k, NEW gone, Takes(c, b, g, h, k, gone)
    PROVE  \A lane \in Lanes : Trims(c.box[lane], b[lane])
<1>1. PICK a \in Boxes : a = c.box BY DEF Heaps
<1>2. \A s : Trims(s, s) BY DEF Trims
<1>3. b = a \/ b = AfterSteer(a) \/ b = AfterPull(a) BY <1>1 DEF Takes
<1>4. a.urgent \in Seq(Ids) /\ a.ordinary \in Seq(Ids) BY BoxTypes
<1>5. Trims(a.urgent, b.urgent) /\ Trims(a.ordinary, b.ordinary)
    <2>1. CASE b = a BY <1>2, <2>1
    <2>2. CASE b = AfterSteer(a)
        <3>1. b.ordinary = a.ordinary BY <2>2, SteerIs
        <3>2. b.urgent = a.urgent \/ (a.urgent # <<>> /\ b.urgent = Tail(a.urgent)) BY <2>2, SteerIs
        <3>3. a.urgent # <<>> => Trims(a.urgent, Tail(a.urgent)) BY <1>4, TailTrims
        <3>4. QED BY <1>2, <3>1, <3>2, <3>3
    <2>3. CASE b = AfterPull(a)
        <3>1. PICK u \in Int, o \in Int : b.urgent = Past(a.urgent, u) /\ b.ordinary = Past(a.ordinary, o) BY <2>3, PulledIs
        <3>2. Trims(a.urgent, Past(a.urgent, u)) /\ Trims(a.ordinary, Past(a.ordinary, o)) BY <1>4, PastTrims
        <3>3. QED BY <3>1, <3>2
    <2>4. QED BY <1>3, <2>1, <2>2, <2>3
<1>6. QED BY <1>1, <1>5 DEF Lanes

(* The slot is emptied behind what its queue holds.                        *)
Collected(r, n, b) ==
    /\ Ordered(b, RoomOf[r], Shown)
    /\ \A lane \in Lanes : \A i \in Range(b[lane]) : \A k \in n + 1 .. Len(slot[r]) : i < slot[r][k]

LEMMA DeliveredOrdered ==
    ASSUME TypeOK, NEW b \in Boxes, NEW i \in Ids, NEW m, NEW n \in Nat, Ordered(b, m, n), sent[i].to = m, i <= n,
           \A j \in Range(b[LaneOf(i)]) : j < i
    PROVE  /\ Ordered(Delivered(b, i), m, n)
           /\ \A lane \in Lanes : Range(Delivered(b, i)[lane]) \subseteq Range(b[lane]) \cup {i}
<1>0. Seq(Ids) \subseteq Seq(Nat) /\ Ids \subseteq Nat BY IdFacts, MoreIn
<1>1. \A x \in Lanes : Delivered(b, i)[x] = IF x = LaneOf(i) THEN Append(b[x], i) ELSE b[x] BY DeliveredIs
<1>2. PICK c : c = Delivered(b, i) BY Zenon
<1>3. ASSUME NEW lane \in Lanes
      PROVE  /\ Rising(c[lane]) /\ \A j \in Range(c[lane]) : j \in Due(m, lane) /\ j <= n
             /\ Range(c[lane]) \subseteq Range(b[lane]) \cup {i}
    <2>0. Rising(b[lane]) /\ \A j \in Range(b[lane]) : j \in Due(m, lane) /\ j <= n BY DEF Ordered
    <2>1. CASE lane # LaneOf(i)
        <3>1. c[lane] = b[lane] BY <1>1, <1>2, <2>1
        <3>2. QED BY <2>0, <3>1
    <2>2. CASE lane = LaneOf(i)
        <3>1. c[lane] = Append(b[lane], i) BY <1>1, <1>2, <2>2
        <3>2. PICK s \in Seq(Ids) : s = b[lane] BY BoxTypes
        <3>3. PICK t \in Seq(Nat) : t = s BY <1>0
        <3>4. Range(Append(s, i)) = Range(s) \cup {i} BY Appended
        <3>5. i \in Nat /\ Rising(t) /\ \A j \in Range(t) : j < i BY <1>0, <2>0, <2>2, <3>2, <3>3
        <3>6. Rising(Append(t, i)) BY <3>5, RisingEnd
        <3>7. i \in Due(m, lane) BY <2>2, DueIs
        <3>8. Rising(c[lane]) BY <3>1, <3>2, <3>3, <3>6
        <3>9. Range(c[lane]) = Range(b[lane]) \cup {i} BY <3>1, <3>2, <3>4
        <3>10. QED BY <2>0, <3>7, <3>8, <3>9
    <2>3. QED BY <2>1, <2>2
<1>4. QED BY <1>2, <1>3 DEF Ordered

LEMMA CollectOrdered ==
    ASSUME TypeOK, WayInv, OrderInv, NEW r \in Runs, NEW w \in Waits
    PROVE  Ordered(Collect(r, w).box, RoomOf[r], Shown)
<1> DEFINE S == {x \in (0 .. Len(slot[r])) \X Heaps : Collected(r, x[1], x[2].box)}
<1>0. Len(slot[r]) \in Nat /\ slot[r] \in Seq(Ids) /\ box[r] \in Boxes /\ Shown \in Nat BY DeskTypes DEF WayInv
<1>a. PICK s \in Seq(Ids), z \in Nat : s = slot[r] /\ z = Len(s) BY <1>0
<1>b. Behind(box[r], s, RoomOf[r], Shown) /\ Ordered(box[r], RoomOf[r], Shown)
    <2>1. RoomFor(r) = RoomOf[r] BY OwnersApart DEF RoomFor
    <2>2. QED BY <1>a, <2>1 DEF OrderInv
<1>c. \A k \in 1 .. z : s[k] \in Ids /\ s[k] \in Range(s) /\ k \in DOMAIN s BY <1>a, LineFacts
<1>1. ASSUME NEW f, Gathers(r, w, f) PROVE <<0, f[0]>> \in S
    <2>1. f[0] = [box |-> box[r], kept |-> w.kept, lost |-> {}] /\ f \in [0 .. Len(slot[r]) -> Heaps] BY <1>1 DEF Gathers
    <2>2. f[0] \in Heaps /\ f[0].box = box[r] /\ 0 \in 0 .. Len(slot[r]) BY <2>1, <1>0
    <2>3. \A lane \in Lanes : \A i \in Range(box[r][lane]) : \A k \in 1 .. z : i < s[k]
        BY <1>b, <1>c DEF Behind, Before
    <2>4. Collected(r, 0, box[r]) BY <1>a, <1>b, <2>3 DEF Collected
    <2>5. <<0, f[0]>> \in (0 .. Len(slot[r])) \X Heaps BY <2>2
    <2>6. QED BY <2>2, <2>4, <2>5
<1>2. ASSUME NEW f, NEW n \in 1 .. Len(slot[r]), Gathers(r, w, f), <<n - 1, f[n - 1]>> \in S PROVE <<n, f[n]>> \in S
    <2>1. PICK a \in Heaps, g \in Heaps, i \in Ids : a = f[n - 1] /\ g = f[n] /\ i = s[n] /\ g = Gather(r, w, a, i)
        <3>1. f[n - 1] \in Heaps /\ f[n] \in Heaps /\ f[n] = Gather(r, w, f[n - 1], slot[r][n]) BY <1>0, <1>2 DEF Gathers
        <3>2. s[n] \in Ids BY <1>a
        <3>3. QED BY <3>1, <3>2, <1>a
    <2>2. PICK b \in Boxes, c \in Boxes : b = a.box /\ c = g.box BY DEF Heaps
    <2>3. c = b \/ c = Delivered(b, i)
        <3>1. Gathered(r, w, a, i, Gather(r, w, a, i)) BY GatherIs
        <3>2. QED BY <2>1, <2>2, <3>1 DEF Gathered
    <2>4. Collected(r, n - 1, b) BY <1>2, <2>1, <2>2
    <2>5. n \in 1 .. z /\ n \in Nat BY <1>a, <1>2
    <2>6. /\ Ordered(b, RoomOf[r], Shown)
          /\ \A lane \in Lanes : \A j \in Range(b[lane]) : \A k \in n .. z : j < s[k]
        BY <1>a, <2>4, <2>5 DEF Collected
    <2>7. Collected(r, n, c)
        <3>1. CASE c = b
            <4>1. \A k \in n + 1 .. z : k \in n .. z BY <2>5
            <4>2. \A lane \in Lanes : \A j \in Range(c[lane]) : \A k \in n + 1 .. z : j < s[k] BY <2>6, <3>1, <4>1
            <4>3. QED BY <1>a, <2>6, <3>1, <4>2 DEF Collected
        <3>2. CASE c = Delivered(b, i)
            <4>1. n \in n .. z BY <2>5
            <4>2. \A lane \in Lanes : \A j \in Range(b[lane]) : j < i BY <2>1, <2>6, <4>1
            <4>3. \A j \in Range(b[LaneOf(i)]) : j < i BY <4>2, LaneIs
            <4>4. sent[i].to = RoomOf[r] /\ i <= Shown BY <1>b, <1>c, <2>1, <2>5 DEF Behind
            <4>5. PICK m \in Rooms, x \in Nat : m = RoomOf[r] /\ x = Shown BY <1>0, OwnersApart
            <4>6. Ordered(b, m, x) BY <2>6, <4>5
            <4>7. /\ Ordered(Delivered(b, i), m, x)
                  /\ \A lane \in Lanes : Range(Delivered(b, i)[lane]) \subseteq Range(b[lane]) \cup {i}
                BY <4>3, <4>4, <4>5, <4>6, DeliveredOrdered
            <4>8. ASSUME NEW k \in n + 1 .. z PROVE i < s[k] /\ k \in n .. z
                <5>1. k \in 1 .. z /\ k \in n .. z /\ n < k BY <2>5
                <5>2. s[n] < s[k] BY <1>b, <1>c, <2>5, <5>1 DEF Behind, Rising
                <5>3. QED BY <2>1, <5>1, <5>2
            <4>9. \A lane \in Lanes : \A j \in Range(c[lane]) : j \in Range(b[lane]) \/ j = i BY <3>2, <4>7
            <4>10. \A lane \in Lanes : \A j \in Range(c[lane]) : \A k \in n + 1 .. z : j < s[k] BY <2>6, <4>8, <4>9
            <4>11. QED BY <1>a, <3>2, <4>5, <4>7, <4>10 DEF Collected
        <3>3. QED BY <2>3, <3>1, <3>2
    <2>8. <<n, f[n]>> \in (0 .. Len(slot[r])) \X Heaps BY <1>0, <2>1
    <2>9. QED BY <2>1, <2>2, <2>7, <2>8
<1>3. <<Len(slot[r]), Collect(r, w)>> \in S
    <2> HIDE DEF S
    <2> QED BY <1>1, <1>2, GatherInduction
<1>4. QED BY <1>3 DEF Collected

(* An inbox without signals is in order, before any slot in order.         *)
LEMMA NoneOrdered ==
    ASSUME NEW b, NEW s, NEW m, NEW n
    PROVE  /\ Ordered(EmptyBox, m, n) /\ Behind(b, <<>>, m, n)
<1>1. \A lane \in Lanes : EmptyBox[lane] = <<>> BY EmptyBoxType DEF Lanes
<1>2. Ordered(EmptyBox, m, n) BY <1>1, NoneIn DEF Ordered
<1>3. Behind(b, <<>>, m, n) BY NoneIn DEF Behind
<1>4. QED BY <1>2, <1>3

LEMMA DeskStepOrder ==
    ASSUME TypeOK, WayInv, OrderInv, NEW r \in Runs, DeskStep(r)
    PROVE  OrderInv'
<1>1. PICK w \in Waits, b \in Boxes, h \in Seq(Ids), v \in Waits, gone \in SUBSET Ids :
        w.id = wait[r].id /\ w.kept = wait[r].kept /\ Desked(r, Collect(r, w), b, h, v, gone)
    BY DEF DeskStep
<1>2. PICK c \in Heaps : c = Collect(r, w) BY CollectType
<1>3. /\ box' = [box EXCEPT ![r] = b] /\ slot' = [slot EXCEPT ![r] = <<>>]
      /\ UNCHANGED <<sent, relayed>> /\ Takes(c, b, held[r], h, v.kept, gone)
    BY <1>1, <1>2 DEF Desked
<1>4. PICK n : n = Shown OBVIOUS
<1>5. Shown' = n BY <1>3, <1>4 DEF Shown
<1>6. Ordered(c.box, RoomOf[r], n) BY <1>2, <1>4, CollectOrdered
<1>7. Ordered(b, RoomOf[r], n)
    <2>1. PICK k, g : k = v.kept /\ g = held[r] BY Zenon
    <2>2. Takes(c, b, g, h, k, gone) BY <1>3, <2>1
    <2>3. \A lane \in Lanes : Trims(c.box[lane], b[lane]) BY <2>2, TakesTrims
    <2>4. PICK d, m : d = c.box /\ m = RoomOf[r] BY Zenon
    <2>5. Ordered(b, m, n) BY <1>6, <2>3, <2>4, OrderedTrims
    <2>6. QED BY <2>4, <2>5
<1>8. RoomFor(r) = RoomOf[r] BY OwnersApart DEF RoomFor
<1>9. ASSUME NEW o \in Rooms \cup Runs PROVE Ordered(box'[o], RoomFor(o), n)
    <2>1. CASE o = r BY <1>3, <1>7, <1>8, <2>1, TypeFacts
    <2>2. CASE o # r
        <3>1. box'[o] = box[o] BY <1>3, <2>2, TypeFacts
        <3>2. QED BY <1>4, <3>1 DEF OrderInv
    <2>3. QED BY <2>1, <2>2
<1>10. ASSUME NEW q \in Runs PROVE Behind(box'[q], slot'[q], RoomOf[q], n)
    <2>1. CASE q = r
        <3>1. slot'[r] = <<>> BY <1>3, TypeFacts
        <3>2. QED BY <2>1, <3>1, NoneOrdered
    <2>2. CASE q # r
        <3>1. box'[q] = box[q] /\ slot'[q] = slot[q] BY <1>3, <2>2, TypeFacts
        <3>2. QED BY <1>4, <3>1 DEF OrderInv
    <2>3. QED BY <2>1, <2>2
<1>11. QED BY <1>3, <1>5, <1>9, <1>10, OrderAfter

LEMMA OrderedUp ==
    ASSUME TypeOK, NEW b, NEW s, NEW m, NEW k \in Nat, NEW n \in Nat, k <= n
    PROVE  /\ Ordered(b, m, k) => Ordered(b, m, n)
           /\ Behind(b, s, m, k) => Behind(b, s, m, n)
<1>1. \A i \in Ids : i \in Nat BY IdFacts
<1>2. \A i \in Ids : i <= k => i <= n BY <1>1
<1>3. QED BY <1>2, DueIs DEF Ordered, Behind

LEMMA DeliverOrder ==
    ASSUME TypeOK, TypeOK', HolderInv, WayInv, WayInv', OrderInv, Deliver
    PROVE  OrderInv'
<1>1. PICK i \in Ids, m \in Rooms :
             /\ relayed # <<>> /\ i = Head(relayed) /\ relayed' = Tail(relayed) /\ m = sent[i].to
             /\ UNCHANGED <<sent, consumed, waits, holder, held, wait, stash, at, crashes>>
             /\ \/ dropped' = dropped \cup {i} /\ UNCHANGED <<box, slot>>
                \/ holder[m] = NoRun /\ box' = [box EXCEPT ![m] = Delivered(box[m], i)] /\ UNCHANGED <<slot, dropped>>
                \/ /\ holder[m] \in Runs /\ RoomOf[holder[m]] = m
                   /\ slot' = [slot EXCEPT ![holder[m]] = Append(slot[holder[m]], i)] /\ UNCHANGED <<box, dropped>>
    BY DeliverIs
<1>a. relayed # <<>> /\ i = Head(relayed) /\ relayed' = Tail(relayed) /\ sent' = sent /\ m = sent[i].to BY <1>1, Zenon
<1>2. PICK k \in Nat, n \in Nat : k = Shown /\ n = Shown' BY DEF WayInv
<1>3. i = n /\ n = k + 1
    <2>1. relayed # <<>> /\ i = Head(relayed) /\ relayed' = Tail(relayed) /\ sent' = sent BY <1>a
    <2>2. PICK s \in Seq(Ids) : s = relayed BY TypeFacts
    <2>3. Len(s) \in Nat /\ 1 \in DOMAIN s /\ Head(s) = s[1] /\ Len(Tail(s)) = Len(s) - 1 BY <2>1, <2>2
    <2>4. s[1] = k + 1 BY <1>2, <2>2, <2>3 DEF WayInv
    <2>5. Len(sent) \in Nat BY IdFacts
    <2>6. k = Len(sent) - Len(s) /\ n = Len(sent) - (Len(s) - 1) BY <1>2, <2>1, <2>2, <2>3 DEF Shown
    <2>7. n = k + 1 BY <2>3, <2>5, <2>6
    <2>8. QED BY <2>1, <2>2, <2>3, <2>4, <2>7
<1>4. sent' = sent /\ k <= n BY <1>a, <1>3
<1>5. \A o \in Rooms \cup Runs : Ordered(box[o], RoomFor(o), k) /\ Ordered(box[o], RoomFor(o), n)
    <2>1. ASSUME NEW o \in Rooms \cup Runs PROVE Ordered(box[o], RoomFor(o), k) /\ Ordered(box[o], RoomFor(o), n)
        <3>1. PICK b, x : b = box[o] /\ x = RoomFor(o) BY Zenon
        <3>2. Ordered(b, x, k) BY <1>2, <3>1 DEF OrderInv
        <3>3. Ordered(b, x, n) BY <1>4, <3>2, OrderedUp
        <3>4. QED BY <3>1, <3>2, <3>3
    <2>2. QED BY <2>1, Zenon
<1>6. \A q \in Runs : Behind(box[q], slot[q], RoomOf[q], k) /\ Behind(box[q], slot[q], RoomOf[q], n)
    <2>1. ASSUME NEW q \in Runs PROVE Behind(box[q], slot[q], RoomOf[q], k) /\ Behind(box[q], slot[q], RoomOf[q], n)
        <3>1. PICK b, s, x : b = box[q] /\ s = slot[q] /\ x = RoomOf[q] BY Zenon
        <3>2. Behind(b, s, x, k) BY <1>2, <3>1 DEF OrderInv
        <3>3. Behind(b, s, x, n) BY <1>4, <3>2, OrderedUp
        <3>4. QED BY <3>1, <3>2, <3>3
    <2>2. QED BY <2>1, Zenon
<1>7. CASE UNCHANGED <<box, slot>>
    <2>1. /\ \A o \in Rooms \cup Runs : Ordered(box'[o], RoomFor(o), n)
          /\ \A q \in Runs : Behind(box'[q], slot'[q], RoomOf[q], n)
        BY <1>5, <1>6, <1>7
    <2>2. QED BY <1>2, <1>4, <2>1, OrderAfter
<1>8. CASE box' = [box EXCEPT ![m] = Delivered(box[m], i)] /\ UNCHANGED slot
    <2>1. PICK b \in Boxes : b = box[m] BY TypeFacts
    <2>2. Ordered(b, m, n) /\ Ordered(b, m, k)
        <3>1. RoomFor(m) = m BY DEF RoomFor
        <3>2. QED BY <1>5, <2>1, <3>1
    <2>3. \A j \in Range(b[LaneOf(i)]) : j < i
        <3>1. \A j \in Range(b[LaneOf(i)]) : j \in Ids /\ j <= k BY <2>2, LaneIs, DueIs DEF Ordered
        <3>2. QED BY <1>3, <3>1, IdFacts
    <2>4. i <= n /\ sent[i].to = m BY <1>a, <1>3
    <2>5. Ordered(Delivered(b, i), m, n) BY <2>2, <2>3, <2>4, DeliveredOrdered
    <2>6. box'[m] = Delivered(b, i) /\ \A o \in Rooms \cup Runs : o # m => box'[o] = box[o] BY <1>8, <2>1, TypeFacts
    <2>7. RoomFor(m) = m BY DEF RoomFor
    <2>8. \A o \in Rooms \cup Runs : Ordered(box'[o], RoomFor(o), n) BY <1>5, <2>5, <2>6, <2>7
    <2>9. \A q \in Runs : box'[q] = box[q] BY <2>6, OwnersApart
    <2>10. \A q \in Runs : Behind(box'[q], slot'[q], RoomOf[q], n) BY <1>6, <1>8, <2>9
    <2>11. QED BY <1>2, <1>4, <2>8, <2>10, OrderAfter
<1>9. CASE /\ holder[m] \in Runs /\ RoomOf[holder[m]] = m
           /\ slot' = [slot EXCEPT ![holder[m]] = Append(slot[holder[m]], i)] /\ UNCHANGED box
    <2>1. PICK r \in Runs : r = holder[m] BY <1>9
    <2>2. slot'[r] = Append(slot[r], i) /\ \A q \in Runs : q # r => slot'[q] = slot[q] BY <1>9, <2>1, TypeFacts
    <2>3. PICK s \in Seq(Ids), b \in Boxes : s = slot[r] /\ b = box[r] BY DeskTypes
    <2>4. Behind(b, s, m, k) /\ Ordered(b, m, k)
        <3>1. RoomFor(r) = RoomOf[r] /\ RoomOf[r] = m BY <1>9, <2>1, OwnersApart DEF RoomFor
        <3>2. QED BY <1>5, <1>6, <2>3, <3>1
    <2>5. Range(Append(s, i)) = Range(s) \cup {i} BY Appended
    <2>6. PICK t \in Seq(Nat) : t = s
        <3>1. Seq(Ids) \subseteq Seq(Nat) BY IdFacts, MoreIn
        <3>2. QED BY <3>1
    <2>7. \A j \in Range(s) : j \in Ids /\ sent[j].to = m /\ j <= k /\ j <= n /\ j < i
        <3>1. \A j \in Range(s) : j \in Ids /\ j \in Nat /\ sent[j].to = m /\ j <= k BY <2>4, IdFacts DEF Behind
        <3>2. QED BY <1>3, <3>1
    <2>8. Rising(t) /\ i \in Nat BY <1>3, <2>4, <2>6 DEF Behind
    <2>9. Rising(Append(t, i)) BY <2>6, <2>7, <2>8, RisingEnd
    <2>10. ASSUME NEW lane \in Lanes PROVE Before(b[lane], Append(s, i))
        <3>1. \A j \in Range(b[lane]) : j \in Ids /\ j \in Nat /\ j <= k BY <2>4, DueIs, IdFacts DEF Ordered
        <3>2. \A j \in Range(b[lane]) : j < i BY <1>3, <3>1
        <3>3. Before(b[lane], s) BY <2>4 DEF Behind
        <3>4. QED BY <2>5, <3>2, <3>3 DEF Before
    <2>11. sent[i].to = m /\ i <= n BY <1>a, <1>3
    <2>12. Behind(b, Append(s, i), m, n)
        <3>1. Rising(Append(s, i)) BY <2>6, <2>9
        <3>2. \A j \in Range(Append(s, i)) : j \in Ids /\ sent[j].to = m /\ j <= n BY <2>5, <2>7, <2>11
        <3>3. QED BY <2>10, <3>1, <3>2 DEF Behind
    <2>13. \A q \in Runs : Behind(box'[q], slot'[q], RoomOf[q], n)
        <3>1. ASSUME NEW q \in Runs PROVE Behind(box'[q], slot'[q], RoomOf[q], n)
            <4>1. CASE q = r BY <1>9, <2>1, <2>2, <2>3, <2>12, <4>1
            <4>2. CASE q # r BY <1>6, <1>9, <2>2, <4>2
            <4>3. QED BY <4>1, <4>2
        <3>2. QED BY <3>1, Zenon
    <2>14. \A o \in Rooms \cup Runs : Ordered(box'[o], RoomFor(o), n) BY <1>5, <1>9
    <2>15. QED BY <1>2, <1>4, <2>13, <2>14, OrderAfter
<1>10. QED BY <1>1, <1>7, <1>8, <1>9, Zenon

LEMMA SendOrder ==
    ASSUME TypeOK, TypeOK', WayInv, OrderInv, NEW r \in Runs, SendStep(r)
    PROVE  OrderInv'
<1>1. /\ \A i \in Ids : i \in Ids' /\ sent'[i] = sent[i]
      /\ Len(sent') = Len(sent) + 1 /\ relayed' = Append(relayed, Len(sent) + 1)
    BY SendIs
<1>2. UNCHANGED <<box, slot>> BY DEF SendStep
<1>3. Shown' = Shown
    <2>1. relayed \in Seq(Ids) /\ Len(sent) \in Nat BY TypeFacts, IdFacts
    <2>2. Len(relayed') = Len(relayed) + 1 /\ Len(relayed) \in Nat BY <1>1, <2>1
    <2>3. QED BY <1>1, <2>1, <2>2 DEF Shown
<1>4. \A m, lane : \A i \in Due(m, lane) : i \in Due(m, lane)' BY <1>1 DEF Due, LaneOf
<1>5. \A o \in Rooms \cup Runs : Ordered(box[o], RoomFor(o), Shown)' BY <1>2, <1>3, <1>4 DEF OrderInv, Ordered, RoomFor
<1>6. \A q \in Runs : Behind(box[q], slot[q], RoomOf[q], Shown)' BY <1>1, <1>2, <1>3 DEF OrderInv, Behind
<1>7. QED BY <1>5, <1>6 DEF OrderInv

LEMMA LendOrder ==
    ASSUME TypeOK, HolderInv, OrderInv, NEW r \in Runs, Lend(r)
    PROVE  OrderInv'
<1>1. UNCHANGED <<sent, relayed, slot>> BY DEF Lend, ledger, desks
<1>2. PICK m \in Rooms : m = RoomOf[r] BY OwnersApart
<1>3. CASE UNCHANGED box BY <1>1, <1>3, OrderStays
<1>4. CASE holder[m] = NoRun /\ box' = [box EXCEPT ![r] = box[m], ![m] = EmptyBox]
    <2>1. slot[r] = <<>>
        <3>1. holder[RoomOf[r]] # r BY <1>2, <1>4, OwnersApart
        <3>2. QED BY <3>1 DEF HolderInv
    <2>2. r # m BY OwnersApart
    <2>3. box'[r] = box[m] /\ box'[m] = EmptyBox /\ \A o \in Rooms \cup Runs : o # r /\ o # m => box'[o] = box[o]
        BY <1>4, <2>2, TypeFacts
    <2>4. PICK n : n = Shown OBVIOUS
    <2>5. Shown' = n BY <1>1, <2>4 DEF Shown
    <2>6. RoomFor(r) = m /\ RoomFor(m) = m BY <1>2, OwnersApart DEF RoomFor
    <2>7. ASSUME NEW o \in Rooms \cup Runs PROVE Ordered(box'[o], RoomFor(o), n)
        <3>1. CASE o = r BY <2>3, <2>4, <2>6, <3>1 DEF OrderInv
        <3>2. CASE o = m BY <2>3, <3>2, NoneOrdered
        <3>3. CASE o # r /\ o # m BY <2>3, <2>4, <3>3 DEF OrderInv
        <3>4. QED BY <3>1, <3>2, <3>3
    <2>8. ASSUME NEW q \in Runs PROVE Behind(box'[q], slot'[q], RoomOf[q], n)
        <3>1. CASE q = r BY <1>1, <2>1, <3>1, NoneOrdered
        <3>2. CASE q # r
            <4>1. box'[q] = box[q] BY <2>3, <3>2, OwnersApart
            <4>2. QED BY <1>1, <2>4, <4>1 DEF OrderInv
        <3>3. QED BY <3>1, <3>2
    <2>9. QED BY <1>1, <2>5, <2>7, <2>8, OrderAfter
<1>5. QED BY <1>2, <1>3, <1>4 DEF Lend

LEMMA LeaveOrder ==
    ASSUME TypeOK, HolderInv, OrderInv, NEW r \in Runs, Leave(r)
    PROVE  OrderInv'
<1>1. UNCHANGED <<sent, relayed>> /\ slot' = [slot EXCEPT ![r] = <<>>] BY DEF Leave, Emptied, ledger
<1>2. PICK t : t = held[r] \o KeptReply(r) \o slot[r] BY Zenon
<1>3. box' = [o \in Rooms \cup Runs |-> IF o = r THEN EmptyBox
                       ELSE IF o \in Rooms /\ holder[o] = r THEN GivenBack(box[r], t) ELSE box[o]]
    BY <1>2, TypeFacts DEF Leave, KeptReply
<1>4. PICK n : n = Shown OBVIOUS
<1>5. Shown' = n BY <1>1, <1>4 DEF Shown
<1>6. \A lane \in Lanes : GivenBack(box[r], t)[lane] = box[r][lane]
    <2>1. PICK b \in Boxes : b = box[r] BY DeskTypes
    <2>2. GivenBack(b, t).urgent = b.urgent /\ GivenBack(b, t).ordinary = b.ordinary BY DEF GivenBack, Boxes
    <2>3. QED BY <2>1, <2>2 DEF Lanes
<1>7. ASSUME NEW o \in Rooms \cup Runs PROVE Ordered(box'[o], RoomFor(o), n)
    <2>1. CASE o = r BY <1>3, <2>1, NoneOrdered
    <2>2. CASE o # r /\ o \in Rooms /\ holder[o] = r
        <3>1. box'[o] = GivenBack(box[r], t) BY <1>3, <2>2
        <3>2. RoomFor(o) = o /\ RoomFor(r) = o BY <2>2, OwnersApart DEF RoomFor, HolderInv
        <3>3. Ordered(box[r], o, n) BY <1>4, <3>2 DEF OrderInv
        <3>4. Ordered(GivenBack(box[r], t), o, n) BY <1>6, <3>3 DEF Ordered
        <3>5. QED BY <3>1, <3>2, <3>4
    <2>3. CASE o # r /\ ~(o \in Rooms /\ holder[o] = r)
        <3>1. box'[o] = box[o] BY <1>3, <2>3
        <3>2. QED BY <1>4, <3>1 DEF OrderInv
    <2>4. QED BY <2>1, <2>2, <2>3
<1>8. ASSUME NEW q \in Runs PROVE Behind(box'[q], slot'[q], RoomOf[q], n)
    <2>1. CASE q = r
        <3>1. slot'[r] = <<>> BY <1>1, TypeFacts
        <3>2. QED BY <2>1, <3>1, NoneOrdered
    <2>2. CASE q # r
        <3>1. box'[q] = box[q] /\ slot'[q] = slot[q] BY <1>1, <1>3, <2>2, TypeFacts, OwnersApart
        <3>2. QED BY <1>4, <3>1 DEF OrderInv
    <2>3. QED BY <2>1, <2>2
<1>9. QED BY <1>1, <1>5, <1>7, <1>8, OrderAfter

LEMMA CrashOrder ==
    ASSUME TypeOK, Crash
    PROVE  OrderInv'
<1>1. relayed' = <<>> /\ slot' = [r \in Runs |-> <<>>] /\ UNCHANGED <<sent, consumed, waits>> BY DEF Crash, ledger
<1>2. box' = [o \in Rooms \cup Runs |-> IF o \in Rooms THEN Folded(o) ELSE EmptyBox] BY TypeFacts DEF Crash
<1>3. Len(sent) \in Nat /\ Ids = 1 .. Len(sent) BY IdFacts
<1>4. PICK n \in Nat : n = Len(sent) BY <1>3
<1>5. Shown' = n
    <2>1. Len(relayed') = 0 BY <1>1
    <2>2. QED BY <1>1, <1>4, <2>1 DEF Shown
<1>6. ASSUME NEW o \in Rooms \cup Runs PROVE Ordered(box'[o], RoomFor(o), n)
    <2>1. CASE o \in Rooms
        <3>1. box'[o] = Folded(o) /\ RoomFor(o) = o BY <1>2, <2>1 DEF RoomFor
        <3>2. Refolded(o, Len(sent), Folded(o)) BY <2>1, FoldedFacts
        <3>3. ASSUME NEW lane \in Lanes
              PROVE  Rising(Folded(o)[lane]) /\ \A i \in Range(Folded(o)[lane]) : i \in Due(o, lane) /\ i <= n
            <4>1. /\ Rising(Folded(o)[lane])
                  /\ \A i \in Range(Folded(o)[lane]) : i \in 1 .. n /\ sent[i].to = o /\ LaneOf(i) = lane
                BY <1>4, <3>2 DEF Refolded
            <4>2. \A i \in 1 .. n : i \in Ids /\ i <= n BY <1>3, <1>4
            <4>3. QED BY <4>1, <4>2, DueIs
        <3>4. Ordered(Folded(o), o, n) BY <3>3 DEF Ordered
        <3>5. QED BY <3>1, <3>4
    <2>2. CASE o \notin Rooms BY <1>2, <2>2, NoneOrdered
    <2>3. QED BY <2>1, <2>2
<1>7. ASSUME NEW q \in Runs PROVE Behind(box'[q], slot'[q], RoomOf[q], n)
    <2>1. slot'[q] = <<>> BY <1>1
    <2>2. QED BY <2>1, NoneOrdered
<1>8. QED BY <1>1, <1>5, <1>6, <1>7, OrderAfter

LEMMA StopWaitingOrder ==
    ASSUME TypeOK, OrderInv, NEW r \in Runs, StopWaiting(r)
    PROVE  OrderInv'
<1>1. PICK t : t = KeptReply(r) BY Zenon
<1>2. box' = [box EXCEPT ![r] = GivenBack(box[r], t)] /\ UNCHANGED <<sent, relayed, slot>> BY <1>1, StopWaitingIs
<1>3. PICK n : n = Shown OBVIOUS
<1>4. Shown' = n BY <1>2, <1>3 DEF Shown
<1>5. \A lane \in Lanes : GivenBack(box[r], t)[lane] = box[r][lane]
    <2>1. PICK b \in Boxes : b = box[r] BY DeskTypes
    <2>2. GivenBack(b, t).urgent = b.urgent /\ GivenBack(b, t).ordinary = b.ordinary BY DEF GivenBack, Boxes
    <2>3. QED BY <2>1, <2>2 DEF Lanes
<1>6. \A o \in Rooms \cup Runs : \A lane \in Lanes : box'[o][lane] = box[o][lane]
    <2>1. box'[r] = GivenBack(box[r], t) /\ \A o \in Rooms \cup Runs : o # r => box'[o] = box[o] BY <1>2, TypeFacts
    <2>2. QED BY <1>5, <2>1
<1>7. \A o \in Rooms \cup Runs : Ordered(box'[o], RoomFor(o), n) BY <1>3, <1>6 DEF OrderInv, Ordered
<1>8. \A q \in Runs : Behind(box'[q], slot'[q], RoomOf[q], n)
    <2>1. SUFFICES ASSUME NEW q \in Runs PROVE Behind(box'[q], slot[q], RoomOf[q], n) BY <1>2
    <2>2. \A lane \in Lanes : box'[q][lane] = box[q][lane] BY <1>6
    <2>3. Behind(box[q], slot[q], RoomOf[q], n) BY <1>3 DEF OrderInv
    <2>4. QED BY <2>2, <2>3 DEF Behind
<1>9. QED BY <1>2, <1>4, <1>7, <1>8, OrderAfter

LEMMA OrderStep ==
    ASSUME TypeOK, TypeOK', HolderInv, WayInv, WayInv', OrderInv, [Next]_vars
    PROVE  OrderInv'
<1>1. CASE UNCHANGED vars
    <2>1. UNCHANGED <<sent, relayed, box, slot>> BY <1>1 DEF vars, ledger, desks
    <2>2. QED BY <2>1, OrderStays
<1>2. ASSUME NEW r \in Runs, SteerStep(r) \/ Pull(r) \/ WaitOut(r) PROVE OrderInv'
    BY <1>2, DeskSteps, DeskStepOrder
<1>3. ASSUME NEW r \in Runs, QuietStep(r) \/ ConsumeStep(r) PROVE OrderInv'
    <2>1. UNCHANGED <<sent, relayed, box, slot>> BY <1>3 DEF QuietStep, ConsumeStep, ledger
    <2>2. QED BY <2>1, OrderStays
<1>4. CASE Tick
    <2>1. UNCHANGED <<sent, relayed, box, slot>> BY <1>4 DEF Tick, ledger
    <2>2. QED BY <2>1, OrderStays
<1>5. QED BY <1>1, <1>2, <1>3, <1>4, Steps, LendOrder, LeaveOrder, DeliverOrder, CrashOrder,
             StopWaitingOrder, SendOrder

(* A slot that is emptied, or stays while its run takes nothing new.       *)
LEMMA NewerStays ==
    ASSUME NewerInv, NEW r \in Runs,
           \/ slot'[r] = <<>>
           \/ slot'[r] = slot[r] /\ Taken(r)' \subseteq Taken(r)
    PROVE  \A i \in Taken(r)', j \in Range(slot'[r]) : i < j
BY NoneIn DEF NewerInv

LEMMA TakenSame ==
    ASSUME NEW r \in Runs, box'[r].returned = box[r].returned, Range(held'[r]) \subseteq Range(held[r]),
           wait'[r].kept = wait[r].kept \/ wait'[r].kept = 0
    PROVE  Taken(r)' \subseteq Taken(r)
<1>1. Range(KeptReply(r)') \subseteq Range(KeptReply(r)) BY NoneIn DEF KeptReply
<1>2. QED BY <1>1 DEF Taken

LEMMA DeliverNewer ==
    ASSUME TypeOK, HolderInv, WayInv, PlaceInv, NewerInv, Deliver
    PROVE  NewerInv'
<1>1. PICK i \in Ids, m \in Rooms :
        /\ relayed # <<>> /\ i = Head(relayed) /\ UNCHANGED <<held, wait>>
        /\ \/ UNCHANGED <<box, slot>>
           \/ box' = [box EXCEPT ![m] = Delivered(box[m], i)] /\ UNCHANGED slot
           \/ /\ holder[m] \in Runs /\ UNCHANGED box
              /\ slot' = [slot EXCEPT ![holder[m]] = Append(slot[holder[m]], i)]
    BY DeliverIs
<1>2. i = Shown + 1 /\ Shown \in Nat
    <2>1. relayed \in Seq(Ids) BY TypeFacts
    <2>2. 1 \in DOMAIN relayed /\ Head(relayed) = relayed[1] BY <1>1, <2>1
    <2>3. QED BY <1>1, <2>2 DEF WayInv
<1>3. \A q \in Runs : box'[q] = box[q] BY <1>1, TypeFacts, OwnersApart
<1>4. \A q \in Runs : Taken(q)' \subseteq Taken(q) BY <1>1, <1>3, TakenSame
<1>5. ASSUME NEW q \in Runs PROVE \A x \in Taken(q)', j \in Range(slot'[q]) : x < j
    <2>1. CASE slot'[q] = slot[q] BY <1>4, <2>1, NewerStays
    <2>2. CASE slot'[q] = Append(slot[q], i)
        <3>1. slot[q] \in Seq(Ids) BY DeskTypes
        <3>2. Range(slot'[q]) = Range(slot[q]) \cup {i} BY <2>2, <3>1, Appended
        <3>3. ASSUME NEW x \in Taken(q)', NEW j \in Range(slot'[q]) PROVE x < j
            <4>1. x \in Taken(q) BY <1>4
            <4>2. x \in Nat /\ x <= Shown BY <4>1, OldTaken
            <4>3. CASE j = i BY <1>2, <4>2, <4>3
            <4>4. CASE j \in Range(slot[q]) BY <4>1, <4>4 DEF NewerInv
            <4>5. QED BY <3>2, <4>3, <4>4
        <3>4. QED BY <3>3
    <2>3. QED BY <1>1, <2>1, <2>2, TypeFacts
<1>6. QED BY <1>5 DEF NewerInv

LEMMA StopWaitingNewer ==
    ASSUME TypeOK, NewerInv, NEW r \in Runs, StopWaiting(r)
    PROVE  NewerInv'
<1>1. PICK t \in Seq(Ids) : t = KeptReply(r) BY StopWaitingIs
<1>2. box' = [box EXCEPT ![r] = GivenBack(box[r], t)] /\ UNCHANGED <<held, slot>>
      /\ wait' = [wait EXCEPT ![r] = NoWait]
    BY <1>1, StopWaitingIs
<1>3. Taken(r)' \subseteq Taken(r)
    <2>1. PICK b \in Boxes : b = box[r] BY DeskTypes
    <2>2. box'[r].returned = t \o b.returned BY <1>2, <2>1, TypeFacts DEF GivenBack, Boxes
    <2>3. b.returned \in Seq(Ids) BY BoxTypes
    <2>4. Range(box'[r].returned) = Range(t) \cup Range(box[r].returned) BY <2>1, <2>2, <2>3, Joined
    <2>5. wait'[r].kept = 0 BY <1>2, TypeFacts DEF NoWait
    <2>6. Range(KeptReply(r)') = {} BY <2>5, NoneIn DEF KeptReply
    <2>7. QED BY <1>1, <1>2, <2>4, <2>6 DEF Taken
<1>4. \A q \in Runs : q # r => box'[q] = box[q] /\ wait'[q] = wait[q] BY <1>2, TypeFacts
<1>5. ASSUME NEW q \in Runs PROVE Taken(q)' \subseteq Taken(q)
    <2>1. CASE q # r BY <1>2, <1>4, <2>1, TakenSame
    <2>2. QED BY <1>3, <2>1
<1>6. \A q \in Runs : \A i \in Taken(q)', j \in Range(slot'[q]) : i < j BY <1>2, <1>5, NewerStays
<1>7. QED BY <1>6 DEF NewerInv

LEMMA NewerStep ==
    ASSUME TypeOK, HolderInv, WayInv, PlaceInv, NewerInv, [Next]_vars
    PROVE  NewerInv'
<1> DEFINE Keeps(q) == slot'[q] = <<>> \/ (slot'[q] = slot[q] /\ Taken(q)' \subseteq Taken(q))
<1>0. (\A q \in Runs : Keeps(q)) => NewerInv'
    <2>1. SUFFICES ASSUME \A q \in Runs : Keeps(q) PROVE NewerInv' OBVIOUS
    <2>2. \A q \in Runs : \A i \in Taken(q)', j \in Range(slot'[q]) : i < j BY <2>1, NewerStays
    <2>3. QED BY <2>2 DEF NewerInv
<1>1. ASSUME UNCHANGED <<box, slot, held>>, \A q \in Runs : wait'[q].kept = wait[q].kept \/ wait'[q].kept = 0
      PROVE  NewerInv'
    <2>1. \A q \in Runs : Keeps(q) BY <1>1, TakenSame
    <2>2. QED BY <1>0, <2>1
<1>2. CASE UNCHANGED vars BY <1>1, <1>2 DEF vars, desks
<1>3. CASE Tick
    <2>1. UNCHANGED <<box, slot, held>> BY <1>3 DEF Tick
    <2>2. QED BY <1>1, <1>3, <2>1, TickIs
<1>4. ASSUME NEW r \in Runs, SteerStep(r) \/ Pull(r) \/ WaitOut(r) PROVE NewerInv'
    <2>1. PICK b \in Boxes, h \in Seq(Ids), v \in Waits :
            /\ box' = [box EXCEPT ![r] = b] /\ slot' = [slot EXCEPT ![r] = <<>>]
            /\ held' = [held EXCEPT ![r] = h] /\ wait' = [wait EXCEPT ![r] = v]
        <3>1. DeskStep(r) BY <1>4, DeskSteps
        <3>2. PICK w \in Waits, b \in Boxes, h \in Seq(Ids), v \in Waits, gone \in SUBSET Ids :
                Desked(r, Collect(r, w), b, h, v, gone)
            BY <3>1, Zenon DEF DeskStep
        <3>3. QED BY <3>2, Zenon DEF Desked
    <2>2. ASSUME NEW q \in Runs PROVE Keeps(q)
        <3>1. CASE q = r BY <2>1, <3>1, TypeFacts
        <3>2. CASE q # r
            <4>1. box'[q] = box[q] /\ slot'[q] = slot[q] /\ held'[q] = held[q] /\ wait'[q] = wait[q]
                BY <2>1, <3>2, TypeFacts
            <4>2. QED BY <4>1, TakenSame
        <3>3. QED BY <3>1, <3>2
    <2>3. QED BY <1>0, <2>2
<1>5. ASSUME NEW r \in Runs, QuietStep(r) PROVE NewerInv'
    <2>1. UNCHANGED <<box, slot, held, wait>> BY <1>5 DEF QuietStep
    <2>2. QED BY <1>1, <2>1
<1>6. ASSUME NEW r \in Runs, ConsumeStep(r) PROVE NewerInv'
    <2>1. held' = [held EXCEPT ![r] = Tail(held[r])] /\ held[r] # <<>> /\ UNCHANGED <<box, slot, wait>>
        BY <1>6, ConsumeIs
    <2>2. Range(Tail(held[r])) \subseteq Range(held[r]) BY <2>1, DeskTypes, Tailed
    <2>3. \A q \in Runs : Range(held'[q]) \subseteq Range(held[q]) BY <2>1, <2>2, TypeFacts
    <2>4. \A q \in Runs : Keeps(q) BY <2>1, <2>3, TakenSame
    <2>5. QED BY <1>0, <2>4
<1>7. ASSUME NEW r \in Runs, SendStep(r) PROVE NewerInv'
    <2>1. UNCHANGED <<box, slot, held>> BY <1>7 DEF SendStep
    <2>2. PICK n : wait' = [wait EXCEPT ![r] = [NoWait EXCEPT !.id = n]] \/ UNCHANGED wait BY <1>7 DEF SendStep
    <2>3. [NoWait EXCEPT !.id = n].kept = 0 BY DEF NoWait
    <2>4. \A q \in Runs : wait'[q].kept = wait[q].kept \/ wait'[q].kept = 0 BY <2>2, <2>3, TypeFacts
    <2>5. QED BY <1>1, <2>1, <2>4
<1>8. ASSUME NEW r \in Runs, Lend(r) PROVE NewerInv'
    <2>1. UNCHANGED <<slot, held, wait>> BY <1>8 DEF Lend, desks
    <2>2. PICK m \in Rooms : m = RoomOf[r] BY OwnersApart
    <2>3. CASE UNCHANGED box BY <1>1, <2>1, <2>3
    <2>4. CASE holder[m] = NoRun /\ box' = [box EXCEPT ![r] = box[m], ![m] = EmptyBox]
        <3>1. slot[r] = <<>>
            <4>1. holder[RoomOf[r]] # r BY <2>2, <2>4, OwnersApart
            <4>2. QED BY <4>1 DEF HolderInv
        <3>2. \A q \in Runs : q # r => box'[q] = box[q] BY <2>4, TypeFacts, OwnersApart
        <3>3. \A q \in Runs : Keeps(q) BY <2>1, <3>1, <3>2, TakenSame
        <3>4. QED BY <1>0, <3>3
    <2>5. QED BY <1>8, <2>2, <2>3, <2>4 DEF Lend
<1>9. ASSUME NEW r \in Runs, Leave(r) PROVE NewerInv'
    <2>1. /\ slot' = [slot EXCEPT ![r] = <<>>] /\ held' = [held EXCEPT ![r] = <<>>]
          /\ wait' = [wait EXCEPT ![r] = NoWait]
        BY <1>9 DEF Leave, Emptied
    <2>2. \A q \in Runs : q # r => box'[q] = box[q] BY <1>9, TypeFacts, OwnersApart DEF Leave
    <2>3. ASSUME NEW q \in Runs PROVE Keeps(q)
        <3>1. CASE q = r BY <2>1, <3>1, TypeFacts
        <3>2. CASE q # r
            <4>1. slot'[q] = slot[q] /\ held'[q] = held[q] /\ wait'[q] = wait[q] BY <2>1, <3>2, TypeFacts
            <4>2. QED BY <2>2, <3>2, <4>1, TakenSame
        <3>3. QED BY <3>1, <3>2
    <2>4. QED BY <1>0, <2>3
<1>10. CASE Crash
    <2>1. \A q \in Runs : Keeps(q) BY <1>10 DEF Crash
    <2>2. QED BY <1>0, <2>1
<1>11. QED BY <1>2, <1>3, <1>4, <1>5, <1>6, <1>7, <1>8, <1>9, <1>10, Steps, DeliverNewer, StopWaitingNewer

LEMMA NewerInit ==
    ASSUME Init
    PROVE  NewerInv
<1>1. \A r \in Runs : slot[r] = <<>> BY DEF Init
<1>2. QED BY <1>1, NoneIn DEF NewerInv

LEMMA OrderInit ==
    ASSUME Init
    PROVE  OrderInv
<1>1. \A o \in Rooms \cup Runs : box[o] = EmptyBox BY DEF Init
<1>2. \A r \in Runs : slot[r] = <<>> BY DEF Init
<1>3. \A o \in Rooms \cup Runs : Ordered(box[o], RoomFor(o), Shown) BY <1>1, NoneOrdered
<1>4. \A r \in Runs : Behind(box[r], slot[r], RoomOf[r], Shown) BY <1>2, NoneOrdered
<1>5. QED BY <1>3, <1>4 DEF OrderInv

(* Until they are taken, signals stand in the order of the ledger: what is *)
(* on its way is newer than what stands in a slot, which is newer than all *)
(* its run was lent or has taken, and each line of an inbox is in order    *)
(* (rooms.rs, Inbox::deliver, Mailslot, CollaborationFold::settle).        *)
THEOREM SignalsInOrder == Spec => []OrderKept
<1> DEFINE IInv == TypeOK /\ HolderInv /\ WaitInv /\ WayInv /\ PlaceInv /\ OrderInv /\ NewerInv
<1>1. Init => IInv BY TypeInit, InvInit, PlaceInit, OrderInit, NewerInit
<1>2. IInv /\ [Next]_vars => IInv'
    <2>1. SUFFICES ASSUME IInv, [Next]_vars PROVE IInv' OBVIOUS
    <2>2. TypeOK' BY <2>1, TypeStep
    <2>3. HolderInv' BY <2>1, HolderStep
    <2>4. WaitInv' BY <2>1, WaitStep
    <2>5. WayInv' BY <2>1, WayStep
    <2>6. PlaceInv' BY <2>1, <2>2, PlaceStep
    <2>7. OrderInv' BY <2>1, <2>2, <2>5, OrderStep
    <2>8. NewerInv' BY <2>1, NewerStep
    <2>9. QED BY <2>2, <2>3, <2>4, <2>5, <2>6, <2>7, <2>8
<1>3. IInv => OrderKept BY OrderShows
<1>4. QED BY <1>1, <1>2, <1>3, PTL DEF Spec

-----------------------------------------------------------------------------
(* What a run that waits has not heard.                                    *)

(* Every reply of an emptied slot is lost, or behind the one the desk kept. *)
LEMMA CollectAnswers ==
    ASSUME TypeOK, NEW r \in Runs, NEW w \in Waits, w.kept = 0, Rising(slot[r])
    PROVE  \A i \in Range(slot[r]) : Answers(r, w, i) =>
             \/ i \in Collect(r, w).lost
             \/ Collect(r, w).kept # 0 /\ Collect(r, w).kept <= i /\ Answers(r, w, Collect(r, w).kept)
<1> DEFINE s == slot[r]
           P(n, x) == /\ x.kept # 0 => Answers(r, w, x.kept) /\ \E j \in 1 .. n : x.kept = s[j]
                      /\ \A k \in 1 .. n : Answers(r, w, s[k]) => s[k] \in x.lost \/ (x.kept # 0 /\ x.kept <= s[k])
           S == {x \in (0 .. Len(s)) \X Heaps : P(x[1], x[2])}
<1>0. Len(s) \in Nat /\ DOMAIN s = 1 .. Len(s) /\ \A n \in 1 .. Len(s) : s[n] \in Ids BY DeskTypes
<1>a. \A i \in Ids : i \in Nat /\ i # 0 BY IdFacts
<1>1. ASSUME NEW f, Gathers(r, w, f) PROVE <<0, f[0]>> \in S
    <2>1. f[0] \in Heaps /\ f[0].kept = 0 BY <1>0, <1>1 DEF Gathers
    <2>2. P(0, f[0]) BY <2>1
    <2> HIDE DEF P
    <2>3. QED BY <1>0, <2>1, <2>2
<1>2. ASSUME NEW f, NEW n \in 1 .. Len(s), Gathers(r, w, f), <<n - 1, f[n - 1]>> \in S
      PROVE  <<n, f[n]>> \in S
    <2>1. f[n - 1] \in Heaps /\ f[n] \in Heaps /\ f[n] = Gather(r, w, f[n - 1], s[n])
        BY <1>0, <1>2 DEF Gathers
    <2>2. PICK a \in Heaps, g \in Heaps : a = f[n - 1] /\ g = f[n] BY <2>1
    <2>3. PICK i \in Ids : i = s[n] BY <1>0
    <2>4. Gathered(r, w, a, i, g) BY <2>1, <2>2, <2>3, GatherIs
    <2>5. P(n - 1, a) BY <1>2, <2>2
    <2>6. n \in Nat /\ n - 1 \in Nat /\ \A k \in 1 .. n : k = n \/ k \in 1 .. n - 1 BY <1>0
    <2>7. \A j \in 1 .. n - 1 : s[j] < i /\ s[j] \in Nat /\ j \in 1 .. n
        <3>1. \A j \in 1 .. n - 1 : j \in DOMAIN s /\ j < n /\ n \in DOMAIN s /\ j \in 1 .. n BY <1>0, <2>6
        <3>2. QED BY <1>0, <1>a, <2>3, <3>1 DEF Rising
    <2>8. n \in 1 .. n /\ i \in Nat /\ i # 0 BY <1>a, <2>6
    <2>9. P(n, g)
        <3>1. CASE g.kept = a.kept /\ g.lost = a.lost \cup {i} BY <2>3, <2>5, <2>6, <2>7, <2>8, <3>1
        <3>2. CASE a.kept = 0 /\ Answers(r, w, i) /\ g.kept = i /\ g.lost = a.lost
            <4>1. \A k \in 1 .. n - 1 : Answers(r, w, s[k]) => s[k] \in g.lost BY <2>5, <3>2
            <4>2. i <= i BY <2>8
            <4>3. QED BY <2>3, <2>6, <2>8, <3>2, <4>1, <4>2
        <3>3. CASE g.kept = a.kept /\ g.lost = a.lost /\ (a.kept # 0 \/ ~Answers(r, w, i))
            <4>1. a.kept # 0 => a.kept <= i
                <5>1. a.kept # 0 => \E j \in 1 .. n - 1 : a.kept = s[j] BY <2>5
                <5>2. QED BY <5>1, <2>7, <2>8
            <4>2. QED BY <2>3, <2>5, <2>6, <2>7, <2>8, <3>3, <4>1
        <3>4. QED BY <2>4, <3>1, <3>2, <3>3 DEF Gathered
    <2> HIDE DEF P
    <2>10. n \in 0 .. Len(s) BY <1>0
    <2>11. QED BY <2>2, <2>9, <2>10
<1>3. <<Len(s), Collect(r, w)>> \in S
    <2> HIDE DEF S
    <2> QED BY <1>1, <1>2, GatherInduction
<1>4. PICK c : c = Collect(r, w) BY Zenon
<1>5. P(Len(s), c) BY <1>3, <1>4
<1>6. \A i \in Range(s) : \E k \in 1 .. Len(s) : i = s[k] BY <1>0 DEF Range
<1>7. \A i \in Range(s) : Answers(r, w, i) => \/ i \in c.lost
                                              \/ c.kept # 0 /\ c.kept <= i /\ Answers(r, w, c.kept)
    BY <1>5, <1>6
<1>8. QED BY <1>4, <1>7

(* A run's silence outlives a step that sends nothing, lets its slot be    *)
(* and keeps what is on its way to it.                                     *)
LEMMA UnheardStays ==
    ASSUME TypeOK, NEW q \in Runs, Unheard(q), UNCHANGED sent,
           wait'[q].id = 0 \/ (wait'[q].id = wait[q].id /\ wait'[q].kept = wait[q].kept
                               /\ (holder'[RoomOf[q]] = q => holder[RoomOf[q]] = q)),
           holder[RoomOf[q]] = q =>
               \A i \in Range(relayed) \cup Range(slot[q]) : sent[i].to = RoomOf[q] =>
                   i \in Range(relayed') \cup Range(slot'[q]) \cup dropped',
           dropped \subseteq dropped' \/ wait'[q].id = 0
    PROVE  Unheard(q)'
<1>1. SUFFICES ASSUME wait'[q].id # 0, wait'[q].kept = 0, holder'[RoomOf[q]] = q,
                      NEW i \in Ids, i > wait'[q].id, Answers(q, wait[q], i)'
               PROVE  i \in Range(relayed') \cup Range(slot'[q]) \/ LetGo(q, wait[q], i)'
    <2>1. Ids' = Ids BY DEF Ids
    <2>2. QED BY <2>1 DEF Unheard
<1>2. wait'[q].id = wait[q].id /\ wait[q].kept = 0 /\ holder[RoomOf[q]] = q /\ dropped \subseteq dropped' BY <1>1
<1>3. \A j : Answers(q, wait[q], j)' <=> Answers(q, wait[q], j) BY <1>2 DEF Answers
<1>4. sent[i].to = RoomOf[q] /\ Answers(q, wait[q], i) BY <1>1, <1>3 DEF Answers
<1>5. CASE i \in Range(relayed) \cup Range(slot[q])
    <2>1. i \in Range(relayed') \cup Range(slot'[q]) \cup dropped' BY <1>2, <1>4, <1>5
    <2>2. i <= i BY IdFacts
    <2>3. QED BY <1>1, <2>1, <2>2 DEF LetGo
<1>6. CASE LetGo(q, wait[q], i) BY <1>2, <1>3, <1>6 DEF LetGo
<1>7. QED BY <1>1, <1>2, <1>4, <1>5, <1>6 DEF Unheard

LEMMA DeskStepSilence ==
    ASSUME TypeOK, OrderInv, SilenceInv, NEW r \in Runs, DeskStep(r)
    PROVE  \A q \in Runs : Unheard(q)'
<1>1. PICK w \in Waits, b \in Boxes, h \in Seq(Ids), v \in Waits, gone \in SUBSET Ids :
        w.id = wait[r].id /\ w.kept = wait[r].kept /\ Desked(r, Collect(r, w), b, h, v, gone)
    BY DEF DeskStep
<1>2. PICK c \in Heaps : c = Collect(r, w) BY CollectType
<1>3. /\ slot' = [slot EXCEPT ![r] = <<>>] /\ wait' = [wait EXCEPT ![r] = v]
      /\ v.id # 0 => v.id = wait[r].id /\ (v.kept = c.kept \/ (c.kept \in dropped' /\ v.kept = wait[r].kept))
      /\ dropped \cup c.lost \subseteq dropped' /\ UNCHANGED <<sent, relayed, holder>>
    BY <1>1, <1>2 DEF Desked
<1>4. wait'[r] = v /\ slot'[r] = <<>> /\ \A q \in Runs : q # r => wait'[q] = wait[q] /\ slot'[q] = slot[q]
    BY <1>3, TypeFacts
<1>5. ASSUME NEW q \in Runs, q # r PROVE Unheard(q)'
    <2>1. wait'[q] = wait[q] /\ slot'[q] = slot[q] /\ UNCHANGED <<sent, relayed, holder>> /\ dropped \subseteq dropped'
        BY <1>3, <1>4, <1>5
    <2>2. Unheard(q) BY DEF SilenceInv
    <2>3. QED BY <2>1, <2>2, UnheardStays
<1>6. Unheard(r)'
    <2>1. SUFFICES ASSUME v.id # 0, v.kept = 0, holder[RoomOf[r]] = r,
                          NEW i \in Ids, i > v.id, Answers(r, wait[r], i)'
                   PROVE  i \in Range(relayed) \/ LetGo(r, wait[r], i)'
        <3>1. Ids' = Ids BY <1>3 DEF Ids
        <3>2. QED BY <1>3, <1>4, <3>1 DEF Unheard
    <2>2. v.id = wait[r].id /\ (v.kept = c.kept \/ (c.kept \in dropped' /\ v.kept = wait[r].kept)) BY <1>3, <2>1
    <2>3. \A j : /\ Answers(r, wait[r], j)' <=> Answers(r, w, j)
                 /\ Answers(r, wait[r], j) <=> Answers(r, w, j)
        BY <1>1, <1>3, <1>4, <2>2 DEF Answers
    <2>4. w.kept = 0
        <3>1. w.kept # 0 => c.kept = w.kept BY <1>2, KeptStays
        <3>2. QED BY <1>1, <2>1, <2>2, <3>1
    <2>5. Rising(slot[r]) BY DEF OrderInv, Behind
    <2>6. \A j \in Range(slot[r]) : Answers(r, w, j) =>
            j \in c.lost \/ (c.kept # 0 /\ c.kept <= j /\ Answers(r, w, c.kept))
        BY <1>2, <2>4, <2>5, CollectAnswers
    <2>7. Answers(r, w, i) /\ Answers(r, wait[r], i) /\ i <= i BY <2>1, <2>3, IdFacts
    <2>8. CASE i \in Range(slot[r])
        <3>1. i \in c.lost \/ (c.kept # 0 /\ c.kept <= i /\ Answers(r, w, c.kept)) BY <2>6, <2>7, <2>8
        <3>2. c.kept # 0 => c.kept \in dropped' BY <2>1, <2>2
        <3>3. i \in c.lost => i \in dropped' BY <1>3
        <3>4. QED BY <2>3, <2>7, <3>1, <3>2, <3>3 DEF LetGo
    <2>9. CASE LetGo(r, wait[r], i) BY <1>3, <2>3, <2>9 DEF LetGo
    <2>10. Unheard(r) /\ wait[r].id # 0 /\ wait[r].kept = 0 BY <1>1, <2>1, <2>2, <2>4 DEF SilenceInv
    <2>11. i \in Range(relayed) \cup Range(slot[r]) \/ LetGo(r, wait[r], i) BY <2>1, <2>2, <2>7, <2>10 DEF Unheard
    <2>12. QED BY <2>8, <2>9, <2>11
<1>7. QED BY <1>5, <1>6

LEMMA SendSilence ==
    ASSUME TypeOK, SilenceInv, NEW r \in Runs, SendStep(r), NEW q \in Runs
    PROVE  Unheard(q)'
<1>1. /\ Len(sent) \in Nat /\ Ids = 1 .. Len(sent) /\ Ids' = Ids \cup {Len(sent) + 1}
      /\ relayed' = Append(relayed, Len(sent) + 1) /\ \A i \in Ids : sent'[i] = sent[i]
      /\ wait' = [wait EXCEPT ![r] = [NoWait EXCEPT !.id = Len(sent) + 1]] \/ wait' = wait
    BY SendIs, IdFacts
<1>2. UNCHANGED <<holder, slot, dropped>> BY DEF SendStep
<1>3. PICK n \in Nat : n = Len(sent) + 1 BY <1>1
<1>4. Range(relayed') = Range(relayed) \cup {n}
    <2>1. PICK s \in Seq(Nat) : s = relayed BY TypeFacts, IdFacts, MoreIn
    <2>2. Range(Append(s, n)) = Range(s) \cup {n} BY Appended
    <2>3. QED BY <1>1, <1>3, <2>1, <2>2
<1>5. SUFFICES ASSUME wait'[q].id # 0, wait'[q].kept = 0, holder[RoomOf[q]] = q,
                      NEW i \in Ids \cup {n}, i > wait'[q].id, Answers(q, wait[q], i)'
               PROVE  i \in Range(relayed') \cup Range(slot[q]) \/ LetGo(q, wait[q], i)'
    BY <1>1, <1>2, <1>3 DEF Unheard
<1>6. CASE wait'[q] = wait[q] /\ i \in Ids
    <2>1. wait[q].id \in Ids BY <1>5, <1>6, DeskTypes DEF Waits
    <2>2. \A j \in Ids : Answers(q, wait[q], j)' <=> Answers(q, wait[q], j) BY <1>1, <1>6, <2>1 DEF Answers
    <2>3. i \in Range(relayed) \cup Range(slot[q]) \/ LetGo(q, wait[q], i)
        BY <1>5, <1>6, <2>2 DEF SilenceInv, Unheard
    <2>4. dropped \subseteq Ids BY IdFacts
    <2>5. LetGo(q, wait[q], i) => LetGo(q, wait[q], i)' BY <1>2, <2>2, <2>4 DEF LetGo
    <2>6. QED BY <1>4, <2>3, <2>5
<1>7. CASE wait'[q] # wait[q]
    <2>1. wait'[q] = [NoWait EXCEPT !.id = n] BY <1>1, <1>3, <1>7, TypeFacts
    <2>2. wait'[q].id = n BY <2>1 DEF NoWait
    <2>3. QED BY <1>1, <1>3, <1>5, <2>2
<1>8. CASE i = n BY <1>4, <1>8
<1>9. QED BY <1>6, <1>7, <1>8

LEMMA DeliverSilence ==
    ASSUME TypeOK, HolderInv, SilenceInv, Deliver, NEW q \in Runs
    PROVE  Unheard(q)'
<1>1. PICK i \in Ids, m \in Rooms :
             /\ relayed # <<>> /\ i = Head(relayed) /\ relayed' = Tail(relayed) /\ m = sent[i].to
             /\ UNCHANGED <<sent, consumed, waits, holder, held, wait, stash, at, crashes>>
             /\ \/ dropped' = dropped \cup {i} /\ UNCHANGED <<box, slot>>
                \/ holder[m] = NoRun /\ box' = [box EXCEPT ![m] = Delivered(box[m], i)] /\ UNCHANGED <<slot, dropped>>
                \/ /\ holder[m] \in Runs /\ RoomOf[holder[m]] = m
                   /\ slot' = [slot EXCEPT ![holder[m]] = Append(slot[holder[m]], i)] /\ UNCHANGED <<box, dropped>>
    BY DeliverIs
<1>2. relayed # <<>> /\ i = Head(relayed) /\ relayed' = Tail(relayed) /\ m = sent[i].to BY <1>1, Zenon
<1>3. sent' = sent /\ wait' = wait /\ holder' = holder /\ dropped \subseteq dropped'
    <2>1. sent' = sent /\ wait' = wait /\ holder' = holder BY <1>1, Zenon
    <2>2. dropped' = dropped \cup {i} \/ dropped' = dropped BY <1>1, Zenon
    <2>3. QED BY <2>1, <2>2
<1>4. Range(relayed) = Range(relayed') \cup {i}
    <2>1. PICK s \in Seq(Ids) : s = relayed BY TypeFacts
    <2>2. Range(s) = Range(Tail(s)) \cup {Head(s)} BY <1>2, <2>1, Tailed
    <2>3. QED BY <1>2, <2>1, <2>2
<1>5. \/ dropped' = dropped \cup {i} /\ slot' = slot
      \/ holder[m] = NoRun /\ slot' = slot
      \/ slot' = [slot EXCEPT ![holder[m]] = Append(slot[holder[m]], i)]
    BY <1>1, Zenon
<1>6. PICK s \in Seq(Ids) : s = slot[q] BY DeskTypes
<1>7. Range(Append(s, i)) = Range(s) \cup {i} BY Appended
<1>8. Range(s) \subseteq Range(slot'[q])
    <2>1. slot'[q] = s \/ slot'[q] = Append(s, i) BY <1>5, <1>6, TypeFacts
    <2>2. QED BY <1>7, <2>1
<1>9. holder[m] = q => i \in Range(slot'[q]) \cup dropped'
    <2>1. SUFFICES ASSUME holder[m] = q PROVE i \in Range(slot'[q]) \cup dropped' OBVIOUS
    <2>2. q # NoRun BY SignalsAssumption
    <2>3. dropped' = dropped \cup {i} \/ slot'[q] = Append(s, i) BY <1>5, <1>6, <2>1, <2>2, TypeFacts
    <2>4. QED BY <1>7, <2>3
<1>10. holder[RoomOf[q]] = q =>
               \A j \in Range(relayed) \cup Range(slot[q]) : sent[j].to = RoomOf[q] =>
                   j \in Range(relayed') \cup Range(slot'[q]) \cup dropped'
    BY <1>2, <1>4, <1>6, <1>8, <1>9
<1>11. Unheard(q) BY DEF SilenceInv
<1>12. QED BY <1>3, <1>10, <1>11, UnheardStays

LEMMA SilenceStep ==
    ASSUME TypeOK, HolderInv, OrderInv, SilenceInv, [Next]_vars
    PROVE  SilenceInv'
<1>0. \A q \in Runs : Unheard(q) /\ (at[q] \in Out => wait[q].id = 0) BY DEF SilenceInv
<1>1. ASSUME NEW r \in Runs, Moved(r), \A q \in Runs : q # r => wait'[q] = wait[q]
      PROVE  \A q \in Runs : at'[q] \in Out => wait'[q].id = 0
    <2>1. at'[r] \notin Out /\ \A q \in Runs : q # r => at'[q] = at[q] BY <1>1, MovedType
    <2>2. QED BY <1>0, <1>1, <2>1
<1>2. CASE UNCHANGED vars \/ Tick
    <2>1. UNCHANGED <<sent, relayed, holder, slot, at, dropped>> BY <1>2 DEF vars, Tick, ledger, desks
    <2>2. \A q \in Runs : wait'[q].id = wait[q].id /\ wait'[q].kept = wait[q].kept
        BY <1>2, TickIs DEF vars, desks
    <2>3. ASSUME NEW q \in Runs PROVE Unheard(q)' BY <1>0, <2>1, <2>2, UnheardStays
    <2>4. QED BY <1>0, <2>1, <2>2, <2>3 DEF SilenceInv
<1>3. ASSUME NEW r \in Runs, SteerStep(r) \/ Pull(r) \/ WaitOut(r) PROVE SilenceInv'
    <2>1. DeskStep(r) BY <1>3, DeskSteps
    <2>2. \A q \in Runs : Unheard(q)' BY <2>1, DeskStepSilence
    <2>3. Moved(r) /\ \E v : wait' = [wait EXCEPT ![r] = v] BY <2>1 DEF DeskStep, Desked
    <2>4. \A q \in Runs : q # r => wait'[q] = wait[q] BY <2>3, TypeFacts
    <2>5. \A q \in Runs : at'[q] \in Out => wait'[q].id = 0 BY <1>1, <2>3, <2>4
    <2>6. QED BY <2>2, <2>5 DEF SilenceInv
<1>4. ASSUME NEW r \in Runs, QuietStep(r) \/ ConsumeStep(r) \/ StopWaiting(r) PROVE SilenceInv'
    <2>1. UNCHANGED <<sent, relayed, holder, slot, dropped>> /\ Moved(r)
        BY <1>4, StopWaitingIs DEF QuietStep, ConsumeStep, ledger
    <2>2. wait' = wait \/ wait' = [wait EXCEPT ![r] = NoWait] BY <1>4, StopWaitingIs DEF QuietStep, ConsumeStep
    <2>3. NoWait.id = 0 BY DEF NoWait
    <2>4. /\ \A q \in Runs : q # r => wait'[q] = wait[q]
          /\ \A q \in Runs : wait'[q] = wait[q] \/ wait'[q].id = 0
        BY <2>2, <2>3, TypeFacts
    <2>5. ASSUME NEW q \in Runs PROVE Unheard(q)' BY <1>0, <2>1, <2>4, UnheardStays
    <2>6. \A q \in Runs : at'[q] \in Out => wait'[q].id = 0 BY <1>1, <2>1, <2>4
    <2>7. QED BY <2>5, <2>6 DEF SilenceInv
<1>5. ASSUME NEW r \in Runs, SendStep(r) PROVE SilenceInv'
    <2>1. \A q \in Runs : Unheard(q)' BY <1>5, SendSilence
    <2>2. Moved(r) BY <1>5 DEF SendStep
    <2>3. \A q \in Runs : q # r => wait'[q] = wait[q] BY <1>5, SendIs, TypeFacts
    <2>4. \A q \in Runs : at'[q] \in Out => wait'[q].id = 0 BY <1>1, <2>2, <2>3
    <2>5. QED BY <2>1, <2>4 DEF SilenceInv
<1>6. ASSUME NEW r \in Runs, Lend(r) PROVE SilenceInv'
    <2>1. UNCHANGED <<sent, relayed, slot, wait, dropped>> BY <1>6 DEF Lend, ledger, desks
    <2>2. at[r] = "new" /\ at' = [at EXCEPT ![r] = "assemble"] BY <1>6 DEF Lend, Move
    <2>3. wait[r].id = 0 BY <1>0, <2>2 DEF Out
    <2>4. holder' = [holder EXCEPT ![RoomOf[r]] = r] \/ holder' = holder BY <1>6 DEF Lend
    <2>5. \A q \in Runs : q # r /\ holder'[RoomOf[q]] = q => holder[RoomOf[q]] = q BY <2>4, TypeFacts, IdFacts
    <2>6. ASSUME NEW q \in Runs PROVE Unheard(q)' BY <1>0, <2>1, <2>3, <2>5, UnheardStays
    <2>7. \A q \in Runs : at'[q] \in Out => wait'[q].id = 0 BY <1>0, <2>1, <2>2, <2>3, TypeFacts
    <2>8. QED BY <2>6, <2>7 DEF SilenceInv
<1>7. ASSUME NEW r \in Runs, Leave(r) PROVE SilenceInv'
    <2>1. /\ UNCHANGED <<sent, relayed, dropped>> /\ slot' = [slot EXCEPT ![r] = <<>>]
          /\ wait' = [wait EXCEPT ![r] = NoWait] /\ at' = [at EXCEPT ![r] = "gone"]
          /\ holder' = [m \in Rooms |-> IF holder[m] = r THEN NoRun ELSE holder[m]]
        BY <1>7 DEF Leave, Move, Emptied, ledger
    <2>2. wait'[r].id = 0 BY <2>1, TypeFacts DEF NoWait
    <2>3. \A q \in Runs : q # r => wait'[q] = wait[q] /\ slot'[q] = slot[q] /\ at'[q] = at[q] BY <2>1, TypeFacts
    <2>4. \A q \in Runs : holder'[RoomOf[q]] = q => holder[RoomOf[q]] = q
        <3>1. \A q \in Runs : q # NoRun /\ RoomOf[q] \in Rooms BY OwnersApart
        <3>2. QED BY <2>1, <3>1
    <2>5. ASSUME NEW q \in Runs PROVE Unheard(q)'
        <3>1. CASE q = r BY <2>2, <3>1 DEF Unheard
        <3>2. CASE q # r BY <1>0, <2>1, <2>3, <2>4, <3>2, UnheardStays
        <3>3. QED BY <3>1, <3>2
    <2>6. \A q \in Runs : at'[q] \in Out => wait'[q].id = 0 BY <1>0, <2>2, <2>3
    <2>7. QED BY <2>5, <2>6 DEF SilenceInv
<1>8. CASE Deliver
    <2>1. UNCHANGED <<wait, at>> BY <1>8 DEF Deliver
    <2>2. \A q \in Runs : Unheard(q)' BY <1>8, DeliverSilence
    <2>3. QED BY <1>0, <2>1, <2>2 DEF SilenceInv
<1>9. CASE Crash
    <2>1. \A q \in Runs : wait'[q].id = 0 BY <1>9 DEF Crash, NoWait
    <2>2. QED BY <2>1 DEF SilenceInv, Unheard
<1>10. QED BY <1>2, <1>3, <1>4, <1>5, <1>6, <1>7, <1>8, <1>9, Steps

(* The line added last.                                                    *)
LEMMA LastLine ==
    ASSUME NEW s \in WaitLines, NEW t \in WaitLines, NEW x \in {"started", "reply", "timeout", "left"}
    PROVE  Last(s \o (t \o <<x>>)) = x /\ Last(s \o <<x>>) = x /\ s \o <<>> = s
<1> DEFINE S == {"started", "reply", "timeout", "left"}
<1>1. s \in Seq(S) /\ t \in Seq(S) /\ <<x>> \in Seq(S) /\ x \in S BY DEF WaitLines
<1> HIDE DEF S
<1>2. PICK u \in Seq(S) : u = t \o <<x>>
    <2>1. t \o <<x>> \in Seq(S) BY <1>1
    <2>2. QED BY <2>1, Zenon
<1>3. Len(u) = Len(t) + 1 /\ u[Len(u)] = x /\ Len(t) \in Nat /\ Len(s) \in Nat BY <1>1, <1>2
<1>4. Len(s \o u) = Len(s) + Len(u) /\ (s \o u)[Len(s) + Len(u)] = u[Len(u)]
    <2>1. Len(u) \in 1 .. Len(u) BY <1>3
    <2>2. \A i \in 1 .. Len(u) : (s \o u)[Len(s) + i] = u[i] BY <1>1
    <2>3. Len(s \o u) = Len(s) + Len(u) BY <1>1
    <2>4. QED BY <2>1, <2>2, <2>3
<1>5. Last(s \o u) = x BY <1>3, <1>4 DEF Last
<1>6. Len(s \o <<x>>) = Len(s) + 1 /\ (s \o <<x>>)[Len(s) + 1] = x BY <1>1
<1>7. Last(s \o <<x>>) = x BY <1>6 DEF Last
<1>8. s \o <<>> = s BY <1>1, ConcatEmptySeq
<1>9. QED BY <1>2, <1>5, <1>7, <1>8

LEMMA SilenceTold ==
    ASSUME TypeOK, WaitInv, OrderInv, SilenceInv, [Next]_vars
    PROVE  [ToldSilence]_vars
<1>1. SUFFICES ASSUME NEW r \in Runs, wait[r].id # 0, waits'[wait[r].id] # waits[wait[r].id],
                      Last(waits'[wait[r].id]) = "timeout", holder[RoomOf[r]] = r,
                      NEW i \in Ids, i > wait[r].id, Answers(r, wait[r], i)
               PROVE  i \in Range(relayed) \/ LetGo(r, wait[r], i)
    BY DEF ToldSilence
<1>2. PICK id \in Ids : id = wait[r].id BY <1>1, DeskTypes DEF Waits
<1>3. waits[id] \in WaitLines BY TypeFacts, IdFacts
<1>4. ASSUME NEW q \in Runs, WaitOut(q) PROVE i \in Range(relayed) \/ LetGo(r, wait[r], i)
    <2>1. wait[q].id # 0 /\ wait[q].id \in Ids BY <1>4, WaitOutLines
    <2>2. PICK line : line = IF Starts(wait[q]) THEN <<"started">> ELSE <<>> BY Zenon
    <2>3. \/ Logged(wait[q].id, line \o <<"reply">>)
          \/ /\ Logged(wait[q].id, line \o <<"timeout">>)
             /\ Collect(q, Parked(wait[q])).kept = 0 /\ Collect(q, Parked(wait[q])).lost = {}
          \/ Logged(wait[q].id, line)
        BY <1>4, <2>2, WaitOutLines
    <2>4. /\ line \in WaitLines /\ line \o <<"reply">> \in WaitLines /\ line \o <<"timeout">> \in WaitLines
          /\ line = <<>> \/ line = <<"started">>
        <3>1. /\ <<>> \in WaitLines /\ <<"started">> \in WaitLines /\ <<"reply">> \in WaitLines
              /\ <<"timeout">> \in WaitLines BY DEF WaitLines
        <3>2. line \in WaitLines /\ (line = <<>> \/ line = <<"started">>) BY <2>2, <3>1
        <3>3. \A x, y \in WaitLines : x \o y \in WaitLines BY DEF WaitLines
        <3>4. QED BY <3>1, <3>2, <3>3
    <2>5. ASSUME NEW new \in WaitLines, Logged(wait[q].id, new)
          PROVE  q = r /\ waits'[id] = waits[id] \o new
        <3>1. /\ waits'[wait[q].id] = waits[wait[q].id] \o new
              /\ \A j \in Ids : j # wait[q].id => waits'[j] = waits[j]
            BY <2>1, <2>5, LoggedIs
        <3>2. wait[q].id = wait[r].id BY <1>1, <1>2, <3>1
        <3>3. q = r BY <1>1, <3>2 DEF WaitInv
        <3>4. QED BY <1>2, <3>1, <3>3
    <2>6. CASE Logged(wait[q].id, line \o <<"reply">>)
        <3>1. waits'[id] = waits[id] \o (line \o <<"reply">>) BY <2>4, <2>5, <2>6
        <3>2. Last(waits[id] \o (line \o <<"reply">>)) = "reply" BY <1>3, <2>4, LastLine
        <3>3. QED BY <1>1, <1>2, <3>1, <3>2
    <2>7. CASE Logged(wait[q].id, line)
        <3>1. waits'[id] = waits[id] \o line BY <2>4, <2>5, <2>7
        <3>2. waits[id] \o <<>> = waits[id] /\ Last(waits[id] \o <<"started">>) = "started" BY <1>3, LastLine
        <3>3. QED BY <1>1, <1>2, <2>4, <3>1, <3>2
    <2>8. CASE /\ Logged(wait[q].id, line \o <<"timeout">>)
               /\ Collect(q, Parked(wait[q])).kept = 0 /\ Collect(q, Parked(wait[q])).lost = {}
        <3>1. q = r BY <2>4, <2>5, <2>8
        <3>2. PICK w \in Waits : w = Parked(wait[r]) /\ w.id = wait[r].id /\ w.kept = wait[r].kept
            BY DeskTypes, ParkedIs
        <3>3. PICK c : c = Collect(r, w) BY Zenon
        <3>4. c.kept = 0 /\ c.lost = {} BY <2>8, <3>1, <3>2, <3>3
        <3>5. w.kept = 0
            <4>1. w.kept # 0 => c.kept = w.kept BY <3>3, KeptStays
            <4>2. QED BY <3>4, <4>1
        <3>6. Rising(slot[r]) BY DEF OrderInv, Behind
        <3>7. Answers(r, w, i) BY <1>1, <3>2 DEF Answers
        <3>8. i \notin Range(slot[r]) BY <3>3, <3>4, <3>5, <3>6, <3>7, CollectAnswers
        <3>9. i \in Range(relayed) \cup Range(slot[r]) \/ LetGo(r, wait[r], i)
            BY <1>1, <3>2, <3>5 DEF SilenceInv, Unheard
        <3>10. QED BY <3>8, <3>9
    <2>9. QED BY <2>3, <2>6, <2>7, <2>8
<1>5. ASSUME NEW q \in Runs, StopWaiting(q) PROVE FALSE
    <2>1. wait[q].id # 0 /\ wait[q].id \in Ids
        <3>1. wait[q].left >= 0 BY <1>5 DEF StopWaiting
        <3>2. wait[q].id # 0 BY <3>1 DEF WaitInv, NoWait
        <3>3. QED BY <3>2, DeskTypes DEF Waits
    <2>2. Logged(wait[q].id, <<"left">>) BY <1>1, <1>5 DEF StopWaiting
    <2>3. <<"left">> \in WaitLines BY DEF WaitLines
    <2>4. /\ waits'[wait[q].id] = waits[wait[q].id] \o <<"left">>
          /\ \A j \in Ids : j # wait[q].id => waits'[j] = waits[j]
        BY <2>1, <2>2, <2>3, LoggedIs
    <2>5. Last(waits[id] \o <<"left">>) = "left" BY <1>3, LastLine
    <2>6. QED BY <1>1, <1>2, <2>4, <2>5
<1>6. ASSUME NEW q \in Runs, SendStep(q) PROVE FALSE
    <2>1. \A j \in Ids : waits'[j] = waits[j] BY <1>6, SendIs
    <2>2. QED BY <1>1, <1>2, <2>1
<1>7. ASSUME NEW q \in Runs, Lend(q) \/ Leave(q) \/ QuietStep(q) \/ SteerStep(q) \/ Pull(q) \/ ConsumeStep(q) PROVE FALSE
    BY <1>1, <1>7 DEF Lend, Leave, QuietStep, SteerStep, Pull, ConsumeStep, ledger
<1>8. CASE Deliver \/ Tick \/ Crash \/ UNCHANGED vars
    <2>1. UNCHANGED ledger BY <1>8, Zenon DEF Deliver, Tick, Crash, vars
    <2>2. QED BY <1>1, <2>1 DEF ledger
<1>9. QED BY <1>4, <1>5, <1>6, <1>7, <1>8, Steps

(* A run that holds its room's queue is told that nobody replied only when *)
(* every reply sent after its question is still on its way, or it or a     *)
(* signal of that room before it was let go of unread, however the         *)
(* arrival of the reply falls between the send, the safe points and the    *)
(* deadline (SignalDesk::wait_out, collect).                               *)
THEOREM SilenceIsTold == Spec => TimeoutIsSilence
<1> DEFINE IInv == TypeOK /\ HolderInv /\ WayInv /\ OrderInv /\ WaitInv /\ SilenceInv
<1>1. Init => IInv
    <2>1. SUFFICES ASSUME Init PROVE IInv OBVIOUS
    <2>2. \A r \in Runs : wait[r].id = 0 BY <2>1 DEF Init, NoWait
    <2>3. SilenceInv BY <2>2 DEF SilenceInv, Unheard
    <2>4. QED BY <2>1, <2>3, TypeInit, InvInit, OrderInit
<1>2. IInv /\ [Next]_vars => IInv'
    <2>1. SUFFICES ASSUME IInv, [Next]_vars PROVE IInv' OBVIOUS
    <2>2. TypeOK' /\ HolderInv' /\ WayInv' /\ WaitInv' BY <2>1, TypeStep, HolderStep, WayStep, WaitStep
    <2>3. OrderInv' BY <2>1, <2>2, OrderStep
    <2>4. SilenceInv' BY <2>1, SilenceStep
    <2>5. QED BY <2>2, <2>3, <2>4
<1>3. IInv /\ [Next]_vars => [ToldSilence]_vars BY SilenceTold
<1>4. QED BY <1>1, <1>2, <1>3, PTL DEF Spec, TimeoutIsSilence
(* Each key's memory against its latest admission: it is that admission's  *)
(* stamp, or gone because some stamp since was a window past it.           *)
Memory(k) ==
    /\ last[k] = Never => seen[k] = Never
    /\ last[k] # Never => seen[k] = last[k] \/ peak[k] >= last[k] + Window

QueueInv == QueueTypeOK /\ \A k \in Keys : Memory(k)

LEMMA KeptIsTyped ==
    ASSUME QueueTypeOK, NEW now \in Nat
    PROVE  /\ Kept(now) \in [Keys -> Stamps]
           /\ Later(now) \in [Keys -> Stamps]
BY QueueAssumption DEF QueueTypeOK, Kept, Later, Stamps, Never

LEMMA QueueTypeStep == QueueTypeOK /\ [QueueNext]_queueVars => QueueTypeOK'
<1> SUFFICES ASSUME QueueTypeOK, [QueueNext]_queueVars PROVE QueueTypeOK'
    OBVIOUS
<1>1. ASSUME NEW key \in Keys, NEW now \in 0 .. MaxClock, Enqueue(key, now) PROVE QueueTypeOK'
  <2>0. now \in Nat
      BY QueueAssumption
  <2>1. Kept(now) \in [Keys -> Stamps] /\ Later(now) \in [Keys -> Stamps]
      BY <2>0, KeptIsTyped
  <2>2. CASE Kept(now)[key] = Never /\ Admits
    <3>1. items' \in Seq(Keys) /\ Len(items') <= QueueCapacity
        BY <1>1, <2>2, QueueAssumption DEF Enqueue, QueueTypeOK, Admits
    <3>2. seen' \in [Keys -> Stamps] /\ peak' \in [Keys -> Stamps]
        BY <1>1, <2>0, <2>1, <2>2 DEF Enqueue, Stamps
    <3>3. last' \in [Keys -> Stamps] /\ moment' \in [Keys -> Stamps] /\ clock' \in Nat
        BY <1>1, <2>0, <2>2 DEF Enqueue, QueueTypeOK, Stamps
    <3> QED  BY <3>1, <3>2, <3>3 DEF QueueTypeOK
  <2>3. CASE ~(Kept(now)[key] = Never /\ Admits)
      BY <1>1, <2>1, <2>3 DEF Enqueue, QueueTypeOK
  <2> QED  BY <2>2, <2>3
<1>2. CASE Consume
  <2>1. items' \in Seq(Keys) /\ Len(items') <= Len(items) /\ Len(items') \in Nat
      BY <1>2 DEF Consume, QueueTypeOK
  <2> QED  BY <1>2, <2>1, QueueAssumption DEF Consume, QueueTypeOK
<1>3. CASE QueueTick
    BY <1>3, QueueAssumption DEF QueueTick, QueueTypeOK
<1>4. CASE UNCHANGED queueVars
    BY <1>4 DEF queueVars, QueueTypeOK
<1> QED  BY <1>1, <1>2, <1>3, <1>4 DEF QueueNext

LEMMA QueueMemoryStep == QueueInv /\ [QueueNext]_queueVars => \A k \in Keys : Memory(k)'
<1> SUFFICES ASSUME QueueInv, [QueueNext]_queueVars, NEW k \in Keys PROVE Memory(k)'
    OBVIOUS
<1>0. /\ last[k] \in Stamps /\ seen[k] \in Stamps /\ peak[k] \in Stamps /\ Memory(k)
      /\ k \in DOMAIN seen /\ k \in DOMAIN last /\ k \in DOMAIN peak
    BY DEF QueueInv, QueueTypeOK
<1>1. ASSUME NEW key \in Keys, NEW now \in 0 .. MaxClock, Enqueue(key, now) PROVE Memory(k)'
  <2>0. now \in Nat
      BY QueueAssumption
  <2>1. Kept(now)[k] = IF now >= Window /\ seen[k] <= now - Window THEN Never ELSE seen[k]
      BY DEF Kept
  <2>2. Later(now)[k] = IF peak[k] < now THEN now ELSE peak[k]
      BY DEF Later
  (* A key not admitted by this call keeps its stamp, or loses it to a *)
  (* stamp that is now its peak.                                       *)
  <2>3. CASE seen'[k] = Kept(now)[k] /\ peak'[k] = Later(now)[k] /\ last'[k] = last[k]
      BY <1>0, <2>0, <2>1, <2>2, <2>3, QueueAssumption DEF Memory, Stamps, Never
  <2>4. CASE seen'[k] = now /\ last'[k] = now
      BY <2>0, <2>4 DEF Memory, Never
  <2>5. CASE Kept(now)[key] = Never /\ Admits
    <3>1. CASE k = key
      <4>1. seen'[k] = now /\ last'[k] = now
          BY <1>0, <1>1, <2>5, <3>1 DEF Enqueue, Kept
      <4> QED  BY <4>1, <2>4
    <3>2. CASE k # key
      <4>1. seen'[k] = Kept(now)[k] /\ peak'[k] = Later(now)[k] /\ last'[k] = last[k]
          BY <1>0, <1>1, <2>5, <3>2 DEF Enqueue, Kept, Later
      <4> QED  BY <4>1, <2>3
    <3> QED  BY <3>1, <3>2
  <2>6. CASE ~(Kept(now)[key] = Never /\ Admits)
    <3>1. seen'[k] = Kept(now)[k] /\ peak'[k] = Later(now)[k] /\ last'[k] = last[k]
        BY <1>1, <2>6 DEF Enqueue
    <3> QED  BY <3>1, <2>3
  <2> QED  BY <2>5, <2>6
<1>2. CASE UNCHANGED <<seen, last, peak>>
    BY <1>0, <1>2 DEF Memory
<1> QED  BY <1>1, <1>2 DEF QueueNext, Consume, QueueTick, queueVars

LEMMA QueueInvInit == QueueInit => QueueInv
<1> SUFFICES ASSUME QueueInit PROVE QueueInv
    OBVIOUS
<1>1. QueueTypeOK
    BY QueueAssumption DEF QueueInit, QueueTypeOK, Stamps, Never
<1>2. \A k \in Keys : Memory(k)
    BY DEF QueueInit, Memory
<1> QED  BY <1>1, <1>2 DEF QueueInv

(* The queue holds its types and never more than its capacity. *)
THEOREM QueueTypes == QueueSpec => []QueueTypeOK
<1>1. QueueInit => QueueTypeOK
    BY QueueInvInit DEF QueueInv
<1>2. QueueTypeOK /\ [QueueNext]_queueVars => QueueTypeOK'
    BY QueueTypeStep
<1> QED  BY <1>1, <1>2, PTL DEF QueueSpec

(* Whatever the window and the stamps, forget_stale drops no key before an *)
(* enqueue a window past its admission.                                    *)
THEOREM Remembers == QueueSpec => []RememberedForWindow
<1>1. QueueInit => QueueInv
    BY QueueInvInit
<1>2. QueueInv /\ [QueueNext]_queueVars => QueueInv'
    BY QueueTypeStep, QueueMemoryStep DEF QueueInv
<1>3. QueueInv => RememberedForWindow
  <2> SUFFICES ASSUME QueueInv, NEW k \in Keys, last[k] # Never, peak[k] < last[k] + Window
               PROVE  seen[k] = last[k]
      BY DEF RememberedForWindow
  <2>1. last[k] \in Nat /\ peak[k] \in Int
      BY DEF QueueInv, QueueTypeOK, Stamps, Never
  <2> QED  BY <2>1, QueueAssumption DEF QueueInv, Memory
<1> QED  BY <1>1, <1>2, <1>3, PTL DEF QueueSpec
=============================================================================
