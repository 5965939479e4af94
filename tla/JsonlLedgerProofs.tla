------------------------- MODULE JsonlLedgerProofs -------------------------
(***************************************************************************)
(* Proofs about JsonlLedger, for every value of its constants.             *)
(***************************************************************************)
EXTENDS MCJsonlLedger, SequenceTheorems, WellFoundedInduction, TLAPS

-----------------------------------------------------------------------------
(* Extrema of sets of naturals.                                            *)

(* A nonempty set of naturals has a smallest element, and Min is it.       *)
LEMMA MinProperties ==
    ASSUME NEW S \in SUBSET Nat, S # {}
    PROVE  Min(S) \in S /\ \A t \in S : Min(S) <= t
<1> DEFINE R == OpToRel(<, Nat)
<1>1. R = {ss \in Nat \X Nat : ss[1] < ss[2]} BY Zenon DEF OpToRel
<1>2. IsWellFoundedOn(R, Nat) BY NatLessThanWellFounded, Zenon
<1> HIDE DEF R
<1>3. \E x \in S : \A y \in S : ~(<<y, x>> \in R) BY <1>2, WFMin
<1>4. \A x, y \in Nat : y < x => <<y, x>> \in R BY <1>1, Zenon
<1>5. PICK x \in S : \A y \in S : ~(<<y, x>> \in R) BY <1>3
<1>6. \A y \in S : ~(y < x) BY <1>4, <1>5
<1>7. \A y \in S : x <= y BY <1>6
<1>8. QED BY <1>7 DEF Min

(* A nonempty bounded set of naturals has a largest element, and Max is    *)
(* it: it lies as far below the bound as the least of the distances to it. *)
LEMMA MaxProperties ==
    ASSUME NEW S \in SUBSET Nat, S # {}, NEW b \in Nat, \A t \in S : t <= b
    PROVE  Max(S) \in S /\ \A t \in S : t <= Max(S)
<1> DEFINE D == {b - t : t \in S}
<1>a. \A t \in S : b - t \in Nat OBVIOUS
<1>1. D \in SUBSET Nat /\ D # {} BY <1>a, Zenon
<1>2. Min(D) \in D /\ \A d \in D : Min(D) <= d BY <1>1, MinProperties
<1>3. PICK t \in S : Min(D) = b - t BY <1>2
<1>4. \A u \in S : b - t <= b - u BY <1>2, <1>3
<1>5. \A u \in S : t >= u BY <1>4
<1>6. QED BY <1>5 DEF Max

-----------------------------------------------------------------------------
(* Types of the operators the model is built from.                         *)

(* TypeOK is about Cell through these facts alone.                         *)
LEMMA CellFacts ==
    /\ \A c \in Cell : /\ c.seq \in Names /\ c.wave \in Nat
                       /\ ChainHash(c) \in Hash
                       /\ TornFrom(c) \in Cell
    /\ GENESIS_PREV \in Hash
    /\ Names \in SUBSET Nat
    /\ <<>> \in Seq(Cell)
<1>1. Names \in SUBSET Nat /\ 0 \in Names BY BoundsAssumption DEF Names
<1>2. \A c \in Cell : c.seq \in Names /\ c.wave \in Nat /\ ChainHash(c) \in Hash
    BY DEF Cell, ChainHash, Hash
<1>3. \A c \in Cell : TornFrom(c) \in Cell BY DEF Cell, TornFrom
<1>4. GENESIS_PREV \in Hash BY <1>1 DEF GENESIS_PREV, Hash
<1>5. <<>> \in Seq(Cell) OBVIOUS
<1>6. QED BY <1>1, <1>2, <1>3, <1>4, <1>5

(* Taking a piece of a file, or a file and a piece, gives a file.          *)
LEMMA PieceType ==
    ASSUME NEW C, NEW f \in Seq(C), NEW m \in Nat, m >= 1, NEW n \in Nat, n <= Len(f)
    PROVE  SubSeq(f, m, n) \in Seq(C)
<1>1. \A i \in m .. n : f[i] \in C OBVIOUS
<1>2. QED BY <1>1, SubSeqProperties

(* Cutting a file short gives a file.                                      *)
LEMMA TruncatedType ==
    ASSUME NEW f \in Seq(Cell), NEW n \in Nat
    PROVE  Truncated(f, n) \in Seq(Cell)
BY PieceType DEF Truncated

(* Spending a fault leaves a budget.                                       *)
LEMMA BudgetFacts ==
    ASSUME NEW f \in Budget
    PROVE  /\ f.fail > 0 => [f EXCEPT !.fail = @ - 1] \in Budget
           /\ f.cut > 0 => [f EXCEPT !.cut = @ - 1] \in Budget
           /\ f.kill > 0 => [f EXCEPT !.kill = @ - 1] \in Budget
<1>1. f.fail \in Nat /\ f.cut \in Nat /\ f.kill \in Nat BY DEF Budget
<1>2. /\ f.fail > 0 => f.fail - 1 \in Nat
      /\ f.cut > 0 => f.cut - 1 \in Nat
      /\ f.kill > 0 => f.kill - 1 \in Nat
    BY <1>1
<1>3. QED BY <1>2 DEF Budget

(* What a power cut leaves of a file is a file.                            *)
LEMMA SettledType ==
    ASSUME NEW d \in Seq(Cell), NEW l \in Seq(Cell)
    PROVE  Settled(d, l) \subseteq Seq(Cell)
<1> DEFINE S == {n \in 0 .. Len(l) : n <= Len(d) /\ SubSeq(d, 1, n) = SubSeq(l, 1, n)}
           From(n) == SubSeq(d, n + 1, Len(d))
<1>1. SubSeq(d, 1, 0) = SubSeq(l, 1, 0)
    <2>1. SubSeq(d, 1, 0) = <<>> BY SubSeqEmpty
    <2>2. SubSeq(l, 1, 0) = <<>> BY SubSeqEmpty
    <2>3. QED BY <2>1, <2>2
<1>2. S \in SUBSET Nat /\ 0 \in S BY <1>1
<1>b. Len(l) \in Nat /\ \A t \in S : t <= Len(l) OBVIOUS
<1> HIDE DEF S
<1>3. Max(S) \in S BY <1>2, <1>b, MaxProperties
<1>4. Common(d, l) \in 0 .. Len(l) BY <1>3 DEF Common, S
<1>5. \A n \in Nat : From(n) \in Seq(Cell) BY PieceType
<1>6. \A n \in 0 .. Len(l) : SubSeq(l, 1, n) \in Seq(Cell) BY PieceType
<1>7. \A n \in Common(d, l) .. Len(l) : SubSeq(l, 1, n) \o From(n) \in Seq(Cell)
    BY <1>4, <1>5, <1>6
<1>8. ASSUME NEW n \in Common(d, l) .. Len(l) - 1
      PROVE  Append(SubSeq(l, 1, n), TornFrom(l[n + 1])) \o From(n + 1) \in Seq(Cell)
    <2>1. l[n + 1] \in Cell BY <1>4
    <2>2. TornFrom(l[n + 1]) \in Cell BY <2>1, CellFacts
    <2>3. Append(SubSeq(l, 1, n), TornFrom(l[n + 1])) \in Seq(Cell) BY <1>4, <1>6, <2>2
    <2>4. QED BY <1>4, <1>5, <2>3
<1>9. QED BY <1>7, <1>8 DEF Settled

(* What a failed append leaves of a file is a file.                        *)
LEMMA PartlyAppendedType ==
    ASSUME NEW l \in Seq(Cell), NEW w \in Seq(Cell)
    PROVE  PartlyAppended(l, w) \subseteq Seq(Cell)
<1>1. \A n \in 0 .. Len(w) : SubSeq(w, 1, n) \in Seq(Cell) BY PieceType
<1>2. \A n \in 0 .. Len(w) : l \o SubSeq(w, 1, n) \in Seq(Cell) BY <1>1
<1>3. ASSUME NEW n \in 0 .. Len(w) - 1
      PROVE  Append(l \o SubSeq(w, 1, n), TornFrom(w[n + 1])) \in Seq(Cell)
    <2>1. w[n + 1] \in Cell OBVIOUS
    <2>2. TornFrom(w[n + 1]) \in Cell BY <2>1, CellFacts
    <2>3. QED BY <1>2, <2>2
<1>4. QED BY <1>2, <1>3 DEF PartlyAppended

(* A line of the wave under way is a cell.                                 *)
LEMMA LineType ==
    ASSUME TypeOK, NEW q \in Names, q >= next, NEW w \in Nat
    PROVE  Line(q, w) \in Cell
<1>1. next \in Nat /\ prev \in Hash /\ q \in 0 .. MaxSeq /\ MaxSeq \in Nat
    BY BoundsAssumption DEF TypeOK, Names
<1>2. q # next => q - 1 \in Names BY <1>1 DEF Names
<1>3. (IF q = next THEN prev ELSE <<q - 1, w>>) \in Hash BY <1>1, <1>2 DEF Hash
<1>4. QED BY <1>3 DEF Line, Cell

(* The cells a wave brings to a segment are lines of the ledger.           *)
LEMMA WaveForType ==
    ASSUME TypeOK, NEW s \in Names, NEW n \in Nat, n >= 1, next + n - 1 <= MaxSeq,
           NEW rolls \in SUBSET (next .. next + n - 1), NEW w \in Nat
    PROVE  WaveFor(s, n, rolls, w) \in Seq(Cell)
<1> DEFINE first == IF s \in rolls THEN s ELSE next
           P == {next + n} \cup {r \in rolls : r > first \/ s \notin rolls}
           past == Min(P)
<1>1. next \in Nat /\ first \in Nat /\ prev \in Hash /\ rolls \in SUBSET Nat /\ MaxSeq \in Nat
    BY BoundsAssumption DEF TypeOK, Names
<1>2. P \in SUBSET Nat /\ next + n \in P
    <2>1. next + n \in Nat BY <1>1
    <2>2. {r \in rolls : r > first \/ s \notin rolls} \in SUBSET Nat BY <1>1
    <2>3. QED BY <2>1, <2>2
<1>3. past \in P /\ \A t \in P : past <= t BY <1>2, MinProperties
<1> HIDE DEF P
<1>4. past \in Nat /\ past <= next + n BY <1>2, <1>3
<1>5. past >= first
    <2>1. \A t \in P : t >= first
        <3>1. first <= next + n /\ first >= next BY <1>1
        <3>2. \A r \in rolls : r >= next BY <1>1
        <3>3. \A r \in rolls : r > first \/ s \notin rolls => r >= first BY <1>1, <3>2
        <3>4. QED BY <3>1, <3>3 DEF P
    <2>2. QED BY <1>3, <2>1
<1>6. past - first \in Nat BY <1>1, <1>4, <1>5
<1>7. ASSUME NEW i \in 1 .. past - first
      PROVE  Line(first + i - 1, w) \in Cell
    <2>1. first + i - 1 \in Names BY <1>1, <1>4, <1>6 DEF Names
    <2>2. first >= next BY <1>1
    <2>3. first + i - 1 >= next BY <1>1, <1>6, <2>2
    <2>4. QED BY <2>1, <2>3, LineType
<1>8. [i \in 1 .. past - first |-> Line(first + i - 1, w)] \in Seq(Cell)
    BY <1>6, <1>7
<1>9. QED BY <1>8, CellFacts DEF WaveFor, P

-----------------------------------------------------------------------------
(* Type correctness.                                                       *)

(* An empty directory and a closed handle are well typed.                  *)
LEMMA InitType == Init => TypeOK
<1> SUFFICES ASSUME Init PROVE TypeOK OBVIOUS
<1>1. NoWave \in [Names -> Seq(Cell)] BY CellFacts DEF NoWave
<1>2. 0 \in Names BY BoundsAssumption DEF Names
<1>3. GENESIS_PREV \in Hash BY CellFacts
<1>4. [fail |-> MaxFails, cut |-> MaxCuts, kill |-> MaxKills] \in Budget
    BY BoundsAssumption DEF Budget
<1>5. 0 \in 0 .. MaxSeq + 1 BY BoundsAssumption
<1>6. QED BY <1>1, <1>2, <1>3, <1>4, <1>5 DEF Init, TypeOK

(* Starting a wave, from a caller or inside open.                          *)
LEMMA StartWaveType ==
    ASSUME TypeOK, NEW n \in Nat, n >= 1, next + n - 1 <= MaxSeq,
           NEW rolls \in SUBSET (next .. next + n - 1), StartWave(n, rolls)
    PROVE  /\ wave' \in [Names -> Seq(Cell)] /\ todo' \subseteq Names
           /\ created' \subseteq Names /\ waves' \in Nat
           /\ pc' = "append" /\ barrier' = "Broken"
<1>1. waves + 1 \in Nat BY DEF TypeOK
<1>2. \A s \in Names : WaveFor(s, n, rolls, waves + 1) \in Seq(Cell) BY <1>1, WaveForType
<1>3. wave' \in [Names -> Seq(Cell)] BY <1>2 DEF StartWave
<1>4. todo' \subseteq Names BY DEF StartWave, Touched
<1>5. next .. next + n - 1 \subseteq Names BY BoundsAssumption DEF TypeOK, Names
<1>6. created' \subseteq Names BY <1>5 DEF StartWave, Creates, TypeOK
<1>7. QED BY <1>1, <1>3, <1>4, <1>6 DEF StartWave

(* The three operations of land keep the types.                            *)
LEMMA LandType ==
    ASSUME TypeOK, LandAppend \/ LandSync \/ LandSyncDir
    PROVE  TypeOK'
<1>1. CASE LandAppend
    <2>1. PICK s \in todo : live' = [live EXCEPT ![s] = @ \o wave[s]]
        BY <1>1 DEF LandAppend, First
    <2>2. s \in Names /\ live[s] \o wave[s] \in Seq(Cell) BY <2>1 DEF TypeOK
    <2>3. live' \in [Names -> Seq(Cell)] BY <2>1, <2>2 DEF TypeOK
    <2>4. liveDir' \subseteq Names /\ todo' \subseteq Names /\ pc' \in {"append", "sync"}
        BY <1>1 DEF LandAppend, First, Touched, TypeOK
    <2>5. QED BY <1>1, <2>3, <2>4 DEF LandAppend, TypeOK, Landing, history, position
<1>2. CASE LandSync
    <2>1. durable' \in [Names -> Seq(Cell)] /\ todo' \subseteq Names
        BY <1>2 DEF LandSync, First, TypeOK
    <2>2. pc' \in {"sync", "syncdir", "landed"} BY <1>2 DEF LandSync, AfterSync
    <2>3. QED BY <1>2, <2>1, <2>2 DEF LandSync, TypeOK, Landing, history, position
<1>3. CASE LandSyncDir
    <2>1. durable' \in [Names -> Seq(Cell)] BY <1>3, CellFacts DEF LandSyncDir, SyncDir, TypeOK
    <2>2. QED BY <1>3, <2>1
            DEF LandSyncDir, SyncDir, TypeOK, Landing, history, position, shape
<1>4. QED BY <1>1, <1>2, <1>3

(* append_all's answer keeps the types: the new position is a position.    *)
LEMMA AcknowledgeType ==
    ASSUME TypeOK, Acknowledge
    PROVE  TypeOK'
<1>1. PICK last \in Touched :
        /\ seg' = last
        /\ len' = Len(wave[last]) + (IF last \in created THEN 0 ELSE len)
        /\ next' = wave[last][Len(wave[last])].seq + 1
        /\ prev' = ChainHash(wave[last][Len(wave[last])])
    BY DEF Acknowledge
<1>2. last \in Names /\ wave[last] \in Seq(Cell) /\ wave[last] # <<>>
    BY <1>1 DEF Touched, TypeOK
<1>3. wave[last][Len(wave[last])] \in Cell BY <1>2
<1>4. next' \in 0 .. MaxSeq + 1
    BY <1>1, <1>3, CellFacts, BoundsAssumption DEF Names
<1>5. prev' \in Hash BY <1>1, <1>3, CellFacts
<1>6. seg' \in Names /\ len' \in Nat BY <1>1, <1>2 DEF TypeOK
<1>7. \A s \in Touched : Range(wave[s]) \subseteq Cell BY DEF Touched, TypeOK, Range
<1>8. acked' \subseteq Cell BY <1>7 DEF Acknowledge, TypeOK
<1>9. NoWave \in [Names -> Seq(Cell)] BY CellFacts DEF NoWave
<1>10. QED BY <1>4, <1>5, <1>6, <1>8, <1>9 DEF Acknowledge, TypeOK, disk

(* write_wave's error path changes these the same way wherever it starts.  *)
LEMMA WaveFailsType ==
    ASSUME TypeOK, WaveFails, live' \in [Names -> Seq(Cell)],
           liveDir' \subseteq Names, UNCHANGED <<durable, durDir>>
    PROVE  TypeOK'
<1>1. NoWave \in [Names -> Seq(Cell)] BY CellFacts DEF NoWave
<1>2. faults' \in Budget BY BudgetFacts DEF WaveFails, TypeOK
<1>3. owed' \subseteq SUBSET Names BY DEF WaveFails, Undoes, TypeOK
<1>4. pc' \in Restoring BY DEF WaveFails, Restoring
<1>5. QED BY <1>1, <1>2, <1>3, <1>4 DEF WaveFails, TypeOK, position

(* An operation of land that fails keeps the types.                        *)
LEMMA LandFailsType ==
    ASSUME TypeOK, LandAppendFails \/ LandSyncFails
    PROVE  TypeOK'
<1>1. CASE LandAppendFails
    <2>1. PICK s \in todo : \E left \in PartlyAppended(live[s], wave[s]) :
            live' = [live EXCEPT ![s] = left]
        BY <1>1 DEF LandAppendFails, First
    <2>2. s \in Names /\ live[s] \in Seq(Cell) /\ wave[s] \in Seq(Cell) BY DEF TypeOK
    <2>3. PartlyAppended(live[s], wave[s]) \subseteq Seq(Cell) BY <2>2, PartlyAppendedType
    <2>4. live' \in [Names -> Seq(Cell)] BY <2>1, <2>2, <2>3 DEF TypeOK
    <2>5. liveDir' \subseteq Names BY <1>1 DEF LandAppendFails, First, TypeOK
    <2>6. QED BY <1>1, <2>4, <2>5, WaveFailsType DEF LandAppendFails
<1>2. CASE LandSyncFails
    BY <1>2, WaveFailsType DEF LandSyncFails, disk, TypeOK
<1>3. QED BY <1>1, <1>2

(* remove_file keeps the planes files and the directory a set of names.    *)
LEMMA UnlinkType ==
    ASSUME TypeOK, NEW s \in Names, Unlink(s)
    PROVE  /\ live' \in [Names -> Seq(Cell)] /\ durable' \in [Names -> Seq(Cell)]
           /\ liveDir' \subseteq Names /\ durDir' \subseteq Names
<1>1. <<>> \in Seq(Cell) BY CellFacts
<1>2. QED BY <1>1 DEF Unlink, TypeOK

(* sync_dir keeps the planes files and the directory a set of names.       *)
LEMMA SyncDirType ==
    ASSUME TypeOK, SyncDir
    PROVE  durable' \in [Names -> Seq(Cell)] /\ durDir' \subseteq Names
BY CellFacts DEF SyncDir, TypeOK

(* Every operation of restore, failing or not, keeps the types.            *)
LEMMA RestoreType ==
    ASSUME TypeOK,
           \/ FinishUnwind \/ RestoreUnlink \/ RestoreSyncDir \/ RestoreTruncate
           \/ RestoreSync \/ RestoreDone \/ RestoreFails
    PROVE  TypeOK'
<1>a. AfterUnlink \in Restoring BY DEF AfterUnlink, Restoring
<1>1. CASE FinishUnwind
    BY <1>1 DEF FinishUnwind, TypeOK, Restoring, disk, position, shape, history
<1>2. CASE RestoreUnlink
    <2>1. CASE Owed \cap liveDir = {}
        <3>1. pc' \in Restoring BY <1>2, <2>1, <1>a DEF RestoreUnlink, Restoring
        <3>2. QED BY <1>2, <2>1, <3>1
                DEF RestoreUnlink, TypeOK, disk, position, shape, history
    <2>2. CASE Owed \cap liveDir # {}
        <3>1. PICK s \in liveDir : Unlink(s) BY <1>2, <2>2 DEF RestoreUnlink, First
        <3>2. s \in Names BY <3>1 DEF TypeOK
        <3>3. QED BY <1>2, <2>2, <3>1, <3>2, UnlinkType
                DEF RestoreUnlink, TypeOK, position, shape, history
    <2>3. QED BY <2>1, <2>2
<1>3. CASE RestoreSyncDir
    BY <1>3, <1>a, SyncDirType DEF RestoreSyncDir, TypeOK, position, shape, history
<1>4. CASE RestoreTruncate
    <2>1. seg \in Names /\ len \in Nat /\ live[seg] \in Seq(Cell) BY DEF TypeOK
    <2>2. Truncated(live[seg], len) \in Seq(Cell) BY <2>1, TruncatedType
    <2>3. QED BY <1>4, <2>1, <2>2
            DEF RestoreTruncate, TypeOK, Restoring, position, shape, history
<1>5. CASE RestoreSync
    BY <1>5 DEF RestoreSync, TypeOK, Restoring, position, shape, history
<1>6. CASE RestoreDone
    BY <1>6 DEF RestoreDone, TypeOK, disk, position, shape, history
<1>7. CASE RestoreFails
    <2>1. faults' \in Budget BY <1>7, BudgetFacts DEF RestoreFails, TypeOK
    <2>2. QED BY <1>7, <2>1 DEF RestoreFails, TypeOK, disk, position, shape
<1>8. QED BY <1>1, <1>2, <1>3, <1>4, <1>5, <1>6, <1>7

(* The names a directory's extrema give are names of it.                   *)
LEMMA LastSegFacts ==
    ASSUME TypeOK, liveDir # {}
    PROVE  LastSeg \in liveDir /\ \A s \in liveDir : s <= LastSeg
<1>1. liveDir \in SUBSET Nat /\ MaxSeq \in Nat /\ \A s \in liveDir : s <= MaxSeq
    BY BoundsAssumption DEF TypeOK, Names
<1>2. QED BY <1>1, MaxProperties DEF LastSeg

(* The segment before the last one, when there is one.                     *)
LEMMA PriorSegFacts ==
    ASSUME TypeOK, liveDir # {}, liveDir # {LastSeg}
    PROVE  PriorSeg \in liveDir \ {LastSeg}
<1>a. liveDir \in SUBSET Nat /\ MaxSeq \in Nat /\ \A s \in liveDir : s <= MaxSeq
    BY BoundsAssumption DEF TypeOK, Names
<1>1. liveDir \ {LastSeg} \in SUBSET Nat /\ \A s \in liveDir \ {LastSeg} : s <= MaxSeq
    BY <1>a, Zenon
<1>2. liveDir \ {LastSeg} # {} BY LastSegFacts
<1>3. QED BY <1>a, <1>1, <1>2, MaxProperties DEF PriorSeg

(* The last line of a segment is one of its cells, when there is one.      *)
LEMMA LastLineFacts ==
    ASSUME NEW f \in Seq(Cell)
    PROVE  LastLine(f) \in 0 .. Len(f)
<1> DEFINE S == {0} \cup {i \in 1 .. Len(f) : f[i].whole}
<1>1. S \in SUBSET Nat /\ S # {} /\ Len(f) \in Nat /\ \A t \in S : t <= Len(f) OBVIOUS
<1>2. S \subseteq 0 .. Len(f) OBVIOUS
<1> HIDE DEF S
<1>3. Max(S) \in S BY <1>1, MaxProperties
<1>4. QED BY <1>2, <1>3 DEF LastLine, S

(* Every line of the valid prefix advances the chain.                      *)
LEMMA ValidLenFacts ==
    ASSUME NEW f \in Seq(Cell), NEW entry
    PROVE  /\ ValidLen(f, entry) \in 0 .. Len(f)
           /\ \A i \in 1 .. ValidLen(f, entry) : Advances(f, i, entry)
<1> DEFINE S == {n \in 0 .. Len(f) : \A i \in 1 .. n : Advances(f, i, entry)}
<1>1. S \in SUBSET Nat /\ 0 \in S /\ Len(f) \in Nat /\ \A t \in S : t <= Len(f) OBVIOUS
<1> HIDE DEF S
<1>3. Max(S) \in S BY <1>1, MaxProperties
<1>4. Max(S) \in 0 .. Len(f) /\ \A i \in 1 .. Max(S) : Advances(f, i, entry)
    BY <1>3 DEF S
<1>5. QED BY <1>4 DEF ValidLen, S

(* The chain state entering the last segment, when open does not refuse.   *)
LEMMA BoundaryType ==
    ASSUME TypeOK, liveDir # {}, ~OpenRefuses
    PROVE  Boundary.next \in 0 .. MaxSeq + 1 /\ Boundary.prev \in Hash
<1>1. CASE liveDir = {LastSeg}
    BY <1>1, CellFacts, BoundsAssumption DEF Boundary
<1>2. CASE liveDir # {LastSeg}
    <2>1. PriorSeg \in Names BY <1>2, PriorSegFacts DEF TypeOK
    <2>2. live[PriorSeg] \in Seq(Cell) BY <2>1 DEF TypeOK
    <2>3. LastLine(live[PriorSeg]) \in 0 .. Len(live[PriorSeg]) BY <2>2, LastLineFacts
    <2>4. LastLine(live[PriorSeg]) > 0 BY <1>2 DEF OpenRefuses, BoundaryRefuses
    <2> DEFINE c == live[PriorSeg][LastLine(live[PriorSeg])]
    <2>5. c \in Cell BY <2>2, <2>3, <2>4
    <2>6. c.seq \in Names /\ ChainHash(c) \in Hash BY <2>5, CellFacts
    <2>7. Boundary = [prev |-> ChainHash(c), next |-> c.seq + 1] BY <1>2 DEF Boundary
    <2>8. QED BY <2>6, <2>7, BoundsAssumption DEF Names
<1>3. QED BY <1>1, <1>2

(* open's reading half keeps the types: the position it finds is one.      *)
LEMMA OpenType ==
    ASSUME TypeOK, OpenEmpty \/ OpenRefused \/ Open
    PROVE  TypeOK'
<1>a. NoWave \in [Names -> Seq(Cell)] BY CellFacts DEF NoWave
<1>b. 0 \in Names /\ 0 \in 0 .. MaxSeq + 1 BY BoundsAssumption DEF Names
<1>1. CASE OpenEmpty
    BY <1>1, <1>a, <1>b, CellFacts DEF OpenEmpty, NewHandle, TypeOK, disk
<1>2. CASE OpenRefused
    BY <1>2 DEF OpenRefused, TypeOK, disk, position, shape, history
<1>3. CASE Open
    <2>1. liveDir # {} /\ ~OpenRefuses BY <1>3 DEF Open
    <2>2. LastSeg \in Names /\ live[LastSeg] \in Seq(Cell)
        BY <2>1, LastSegFacts DEF TypeOK
    <2>3. /\ Valid \in 0 .. Len(live[LastSeg])
          /\ \A i \in 1 .. Valid : Advances(live[LastSeg], i, Boundary)
        BY <2>2, ValidLenFacts DEF Valid
    <2>4. Boundary.next \in 0 .. MaxSeq + 1 /\ Boundary.prev \in Hash
        BY <2>1, BoundaryType
    <2>5. Valid > 0 => live[LastSeg][Valid] \in Cell BY <2>2, <2>3
    <2>6. Valid > 0 => live[LastSeg][Valid].seq = Boundary.next + Valid - 1
        BY <2>3 DEF Advances
    <2>7. Boundary.next + Valid \in 0 .. MaxSeq + 1
        <3>1. CASE Valid = 0 BY <2>4, <3>1
        <3>2. CASE Valid > 0
            <4>1. live[LastSeg][Valid].seq \in 0 .. MaxSeq
                BY <2>5, <3>2, CellFacts DEF Names
            <4>2. QED BY <2>3, <2>4, <2>6, <3>2, <4>1, BoundsAssumption
        <3>3. QED BY <2>3, <3>1, <3>2
    <2>8. next' \in 0 .. MaxSeq + 1 BY <1>3, <2>7 DEF Open
    <2>9. prev' \in Hash
        <3>1. CASE Valid = 0 BY <1>3, <2>4, <3>1 DEF Open
        <3>2. CASE Valid > 0
            <4>1. ChainHash(live[LastSeg][Valid]) \in Hash BY <2>5, <3>2, CellFacts
            <4>2. QED BY <1>3, <3>2, <4>1 DEF Open
        <3>3. QED BY <2>3, <3>1, <3>2
    <2>10. liveDir # {LastSeg} => PriorSeg \in Names /\ live[PriorSeg] \in Seq(Cell)
        BY <2>1, PriorSegFacts DEF TypeOK
    <2>11. seg' \in Names BY <1>3, <1>b, <2>2, <2>10 DEF Open
    <2>12. len' \in Nat BY <1>3, <2>3, <2>10 DEF Open
    <2>13. pc' \in {"trunc", "idle"} /\ opening' \in BOOLEAN BY <1>3 DEF Open
    <2>14. /\ barrier' = "Whole" /\ owed' = {} /\ removed' = FALSE /\ wave' = NoWave
           /\ todo' = {} /\ created' = {} /\ halted' = FALSE /\ failed' = FALSE
           /\ UNCHANGED <<disk, acked, waves, orphaned, exposed, faults>>
        BY <1>3 DEF Open, NewHandle
    <2>15. QED BY <1>a, <2>8, <2>9, <2>11, <2>12, <2>13, <2>14
            DEF TypeOK, disk, Recovering
<1>4. QED BY <1>1, <1>2, <1>3

(* The repair of a torn tail keeps the types.                              *)
LEMMA RecoverType ==
    ASSUME TypeOK,
           RecoverTruncate \/ RecoverSync \/ RecoverRemove => liveDir # {},
           RecoverTruncate \/ RecoverSync \/ RecoverRemove \/ RecoverSyncDir
    PROVE  TypeOK'
<1>a. liveDir # {} => LastSeg \in Names /\ live[LastSeg] \in Seq(Cell) BY LastSegFacts DEF TypeOK
<1>b. AfterRepair \in {"idle", "trunclog"} BY DEF AfterRepair
<1>1. CASE RecoverTruncate
    <2>a. LastSeg \in Names /\ live[LastSeg] \in Seq(Cell) BY <1>a, <1>1
    <2>b. (IF Emptied THEN 0 ELSE len) \in Nat BY DEF TypeOK
    <2>1. Truncated(live[LastSeg], IF Emptied THEN 0 ELSE len) \in Seq(Cell)
        BY <2>a, <2>b, TruncatedType
    <2>2. live' \in [Names -> Seq(Cell)] BY <1>1, <2>a, <2>1 DEF RecoverTruncate, TypeOK
    <2>3. QED BY <1>1, <2>2
            DEF RecoverTruncate, TypeOK, Recovering, position, shape, history
<1>2. CASE RecoverSync
    <2>1. durable' \in [Names -> Seq(Cell)] BY <1>2, <1>a DEF RecoverSync, TypeOK
    <2>2. QED BY <1>2, <1>b, <2>1
            DEF RecoverSync, TypeOK, Recovering, position, shape, history
<1>3. CASE RecoverRemove
    <2>1. /\ live' \in [Names -> Seq(Cell)] /\ durable' \in [Names -> Seq(Cell)]
          /\ liveDir' \subseteq Names /\ durDir' \subseteq Names
        BY <1>3, <1>a, UnlinkType DEF RecoverRemove
    <2>2. QED BY <1>3, <2>1
            DEF RecoverRemove, TypeOK, Recovering, position, shape, history
<1>4. CASE RecoverSyncDir
    BY <1>4, <1>b, SyncDirType
        DEF RecoverSyncDir, TypeOK, Recovering, position, shape, history
<1>5. QED BY <1>1, <1>2, <1>3, <1>4

(* What happens around the handle keeps the types.                         *)
LEMMA WorldType ==
    ASSUME TypeOK, RecoverFails \/ Trip \/ Close \/ Kill \/ PowerCut
    PROVE  TypeOK'
<1>a. NoWave \in [Names -> Seq(Cell)] BY CellFacts DEF NoWave
<1>1. CASE RecoverFails
    <2>1. faults' \in Budget BY <1>1, BudgetFacts DEF RecoverFails, TypeOK
    <2>2. QED BY <1>1, <2>1 DEF RecoverFails, TypeOK, disk, position, shape, history
<1>2. CASE Trip
    BY <1>2 DEF Trip, TypeOK, disk, position, shape, history
<1>3. CASE Close
    BY <1>3 DEF Close, TypeOK, disk, position, shape, history
<1>4. CASE Kill
    <2>1. faults' \in Budget BY <1>4, BudgetFacts DEF Kill, TypeOK
    <2>2. QED BY <1>4, <1>a, <2>1 DEF Kill, TypeOK, disk, position
<1>5. CASE PowerCut
    <2>1. faults' \in Budget BY <1>5, BudgetFacts DEF PowerCut, TypeOK
    <2>2. PICK kept \in SUBSET (liveDir \cup durDir) :
            /\ liveDir' = kept /\ durDir' = kept
            /\ \E left \in [kept -> UNION {Settled(durable[s], live[s]) : s \in kept}] :
                /\ \A s \in kept : left[s] \in Settled(durable[s], live[s])
                /\ live' = [s \in Names |-> IF s \in kept THEN left[s] ELSE <<>>]
                /\ durable' = live'
        BY <1>5 DEF PowerCut
    <2>3. kept \subseteq Names BY DEF TypeOK
    <2>4. \A s \in kept : Settled(durable[s], live[s]) \subseteq Seq(Cell)
        BY <2>3, SettledType DEF TypeOK
    <2>5. PICK left :
            /\ \A s \in kept : left[s] \in Settled(durable[s], live[s])
            /\ live' = [s \in Names |-> IF s \in kept THEN left[s] ELSE <<>>]
            /\ durable' = live'
        BY <2>2
    <2>6. \A s \in Names : (IF s \in kept THEN left[s] ELSE <<>>) \in Seq(Cell)
        BY <2>4, <2>5, CellFacts
    <2>7. live' \in [Names -> Seq(Cell)] /\ durable' \in [Names -> Seq(Cell)]
        BY <2>5, <2>6
    <2>8. QED BY <1>5, <1>a, <2>1, <2>2, <2>3, <2>7 DEF PowerCut, TypeOK, position
<1>6. QED BY <1>1, <1>2, <1>3, <1>4, <1>5

-----------------------------------------------------------------------------
(* The inductive invariant.  Recovery works on the last segment, so TypeOK *)
(* needs that one exists until it is removed.                              *)
RecoverTarget == pc \in {"trunc", "truncsync", "remove"} => liveDir # {}

IInv == TypeOK /\ RecoverTarget /\ WaveProgress

(* The inductive invariant holds of an empty directory.                    *)
LEMMA InitIInv == Init => IInv
BY InitType DEF IInv, RecoverTarget, WaveProgress, Init

(* Every step keeps the types.                                             *)
LEMMA NextType ==
    ASSUME IInv, Next
    PROVE  TypeOK'
<1> TypeOK BY DEF IInv
<1>1. CASE \E n \in 1 .. MaxWave :
                /\ waves < MaxWaves /\ next + n - 1 <= MaxSeq
                /\ \E rolls \in Rolls(n) : AppendAll(n, rolls)
    <2>a. PICK n \in 1 .. MaxWave :
            next + n - 1 <= MaxSeq /\ \E rolls \in Rolls(n) : AppendAll(n, rolls)
        BY <1>1
    <2>b. PICK rolls \in Rolls(n) : AppendAll(n, rolls) BY <2>a
    <2>1. next + n - 1 <= MaxSeq /\ AppendAll(n, rolls) BY <2>a, <2>b
    <2>2. n \in Nat /\ n >= 1 /\ rolls \in SUBSET (next .. next + n - 1)
        BY BoundsAssumption DEF Rolls
    <2>3. StartWave(n, rolls) BY <2>1 DEF AppendAll
    <2>4. /\ wave' \in [Names -> Seq(Cell)] /\ todo' \subseteq Names
          /\ created' \subseteq Names /\ waves' \in Nat
          /\ pc' = "append" /\ barrier' = "Broken"
        BY <2>1, <2>2, <2>3, StartWaveType
    <2>5. QED BY <2>1, <2>4 DEF AppendAll, TypeOK, Landing, disk, position
<1>2. CASE \E rolls \in Rolls(1) : LogTruncated(rolls)
    <2>1. PICK rolls \in Rolls(1) : LogTruncated(rolls) BY <1>2
    <2>2. rolls \in SUBSET (next .. next + 1 - 1) /\ next + 1 - 1 <= MaxSeq
        BY <2>1, BoundsAssumption DEF Rolls, LogTruncated, TypeOK
    <2>3. StartWave(1, rolls) BY <2>1 DEF LogTruncated
    <2>4. /\ wave' \in [Names -> Seq(Cell)] /\ todo' \subseteq Names
          /\ created' \subseteq Names /\ waves' \in Nat
          /\ pc' = "append" /\ barrier' = "Broken"
        BY <2>2, <2>3, StartWaveType
    <2>5. QED BY <2>1, <2>4 DEF LogTruncated, TypeOK, Landing, disk, position
<1>3. CASE RecoverTruncate \/ RecoverSync \/ RecoverRemove \/ RecoverSyncDir
    <2>1. RecoverTruncate \/ RecoverSync \/ RecoverRemove => liveDir # {}
        BY DEF IInv, RecoverTarget, RecoverTruncate, RecoverSync, RecoverRemove
    <2>2. QED BY <1>3, <2>1, RecoverType
<1>4. QED
    BY <1>1, <1>2, <1>3, LandType, AcknowledgeType, LandFailsType, RestoreType,
       OpenType, WorldType
    DEF Next, ClientStep, OpenStep, HandleStep, FaultStep

(* A step that neither starts nor continues a landing or a recovery keeps  *)
(* the rest of IInv, because neither part says anything of its pc.         *)
Quiet == {"closed", "refused", "idle", "removedir", "trunclog"} \cup Restoring

(* A step that leaves no wave landing keeps WaveProgress.                  *)
LEMMA QuietStep ==
    ASSUME pc' \in Quiet
    PROVE  RecoverTarget' /\ WaveProgress'
BY DEF Quiet, Restoring, RecoverTarget, WaveProgress

(* These actions end with no wave landing and nothing left to recover.     *)
LEMMA QuietActions ==
    ASSUME \/ FinishUnwind \/ Close \/ OpenEmpty \/ OpenRefused \/ Acknowledge
           \/ RestoreUnlink \/ RestoreSyncDir \/ RestoreTruncate \/ RestoreSync
           \/ RestoreDone \/ RecoverRemove \/ RecoverSyncDir
           \/ LandAppendFails \/ LandSyncFails \/ RestoreFails \/ RecoverFails
           \/ Kill \/ PowerCut
    PROVE  pc' \in Quiet
<1>1. AfterUnlink \in Quiet /\ AfterRepair \in Quiet
    BY DEF AfterUnlink, AfterRepair, Quiet, Restoring
<1>2. CASE FinishUnwind \/ Close \/ OpenEmpty \/ OpenRefused \/ Acknowledge
    BY <1>2 DEF FinishUnwind, Close, OpenEmpty, OpenRefused, Acknowledge, Quiet, Restoring
<1>3. CASE RestoreUnlink
    BY <1>1, <1>3 DEF RestoreUnlink, Quiet, Restoring
<1>4. CASE RestoreSyncDir \/ RestoreTruncate \/ RestoreSync \/ RestoreDone
    BY <1>1, <1>4 DEF RestoreSyncDir, RestoreTruncate, RestoreSync, RestoreDone, Quiet,
                      Restoring
<1>5. CASE RecoverRemove \/ RecoverSyncDir
    BY <1>1, <1>5 DEF RecoverRemove, RecoverSyncDir, Quiet
<1>6. CASE LandAppendFails \/ LandSyncFails \/ RestoreFails \/ RecoverFails
    BY <1>6 DEF LandAppendFails, LandSyncFails, WaveFails, RestoreFails, RecoverFails,
                Quiet, Restoring
<1>7. CASE Kill \/ PowerCut
    BY <1>7 DEF Kill, PowerCut, Quiet
<1>8. QED BY <1>2, <1>3, <1>4, <1>5, <1>6, <1>7

(* Appending a wave's cells to a file brings them into it, and keeps what  *)
(* was there.                                                              *)
LEMMA ConcatRange ==
    ASSUME NEW f \in Seq(Cell), NEW g \in Seq(Cell)
    PROVE  Range(g) \subseteq Range(f \o g) /\ Range(f) \subseteq Range(f \o g)
<1>1. \A i \in 1 .. Len(g) : (f \o g)[Len(f) + i] = g[i] /\ Len(f) + i \in 1 .. Len(f \o g)
    OBVIOUS
<1>2. \A i \in 1 .. Len(f) : (f \o g)[i] = f[i] /\ i \in 1 .. Len(f \o g)
    OBVIOUS
<1>3. DOMAIN f = 1 .. Len(f) /\ DOMAIN g = 1 .. Len(g) /\ DOMAIN (f \o g) = 1 .. Len(f \o g)
    OBVIOUS
<1>4. QED BY <1>1, <1>2, <1>3, Zenon DEF Range

(* Each operation of land carries the wave one phase on.                   *)
LEMMA LandProgress ==
    ASSUME TypeOK, WaveProgress, LandAppend \/ LandSync \/ LandSyncDir
    PROVE  WaveProgress'
<1>1. CASE LandAppend
    <2>1. PICK s \in todo :
            /\ live' = [live EXCEPT ![s] = @ \o wave[s]]
            /\ liveDir' = liveDir \cup {s}
            /\ IF todo = {s} THEN pc' = "sync" /\ todo' = Touched
               ELSE pc' = pc /\ todo' = todo \ {s}
        BY <1>1 DEF LandAppend, First
    <2>2. UNCHANGED wave /\ pc = "append" BY <1>1 DEF LandAppend
    <2>3. s \in Names /\ live[s] \in Seq(Cell) /\ wave[s] \in Seq(Cell)
        BY <2>1 DEF TypeOK
    <2>4. live'[s] = live[s] \o wave[s] /\ \A t \in Names \ {s} : live'[t] = live[t]
        BY <2>1, <2>3 DEF TypeOK
    <2>5. Range(wave[s]) \subseteq Range(live'[s]) BY <2>3, <2>4, ConcatRange
    <2>6. \A t \in Touched \ todo : t \in liveDir /\ Holds(live, t)
        BY <2>2 DEF WaveProgress
    <2>7. \A t \in Touched \ (todo \ {s}) :
            t \in liveDir' /\ Range(wave[t]) \subseteq Range(live'[t])
        BY <2>1, <2>4, <2>5, <2>6 DEF Holds, Touched
    <2>8. Touched' = Touched BY <2>2 DEF Touched
    <2>9. CASE todo = {s}
        BY <2>1, <2>2, <2>7, <2>8, <2>9 DEF WaveProgress, Holds
    <2>10. CASE todo # {s}
        BY <2>1, <2>2, <2>7, <2>8, <2>10 DEF WaveProgress, Holds
    <2>11. QED BY <2>9, <2>10
<1>2. CASE LandSync
    <2>1. PICK s \in todo :
            /\ durable' = [durable EXCEPT ![s] = live[s]]
            /\ todo' = todo \ {s}
            /\ pc' = IF todo # {s} THEN pc
                     ELSE IF created # {} THEN "syncdir" ELSE "landed"
        BY <1>2 DEF LandSync, AfterSync, First
    <2>2. UNCHANGED <<wave, live, liveDir, created>> /\ pc = "sync" BY <1>2 DEF LandSync
    <2>3. s \in Names BY <2>1 DEF TypeOK
    <2>4. durable'[s] = live[s] /\ \A t \in Names \ {s} : durable'[t] = durable[t]
        BY <2>1, <2>3 DEF TypeOK
    <2>5. \A t \in Touched : t \in liveDir /\ Range(wave[t]) \subseteq Range(live[t])
        BY <2>2 DEF WaveProgress, Holds
    <2>6. \A t \in Touched \ todo : Range(wave[t]) \subseteq Range(durable[t])
        BY <2>2 DEF WaveProgress, Holds
    <2>7. \A t \in Touched \ (todo \ {s}) : Range(wave[t]) \subseteq Range(durable'[t])
        BY <2>4, <2>5, <2>6 DEF Touched
    <2>8. Touched' = Touched BY <2>2 DEF Touched
    <2>9. CASE todo = {s}
        <3>1. \A t \in Touched : Range(wave[t]) \subseteq Range(durable'[t])
            BY <2>7, <2>9
        <3>2. pc' = "landed" => created = {} BY <2>1, <2>9
        <3>3. pc' \in {"syncdir", "landed"} BY <2>1, <2>9
        <3>4. QED BY <2>2, <2>5, <2>8, <3>1, <3>2, <3>3 DEF WaveProgress, Holds
    <2>10. CASE todo # {s}
        BY <2>1, <2>2, <2>5, <2>7, <2>8, <2>10 DEF WaveProgress, Holds
    <2>11. QED BY <2>9, <2>10
<1>3. CASE LandSyncDir
    <2>1. /\ pc = "syncdir" /\ pc' = "landed" /\ UNCHANGED <<wave, live, liveDir, created>>
          /\ durDir' = liveDir
        BY <1>3 DEF LandSyncDir, SyncDir, shape
    <2>2. \A s \in Names : s \in liveDir => durable'[s] = durable[s]
        BY <1>3 DEF LandSyncDir, SyncDir
    <2>3. Touched' = Touched /\ Touched \subseteq Names BY <2>1 DEF Touched
    <2>4. \A s \in Touched : s \in liveDir /\ Holds(live, s) /\ Holds(durable, s)
        BY <2>1 DEF WaveProgress
    <2>5. \A s \in Touched : Range(wave[s]) \subseteq Range(durable'[s])
        BY <2>2, <2>3, <2>4 DEF Holds
    <2>6. Touched \cap created \subseteq durDir' BY <2>1, <2>4
    <2>7. QED BY <2>1, <2>3, <2>4, <2>5, <2>6 DEF WaveProgress, Holds
<1>4. QED BY <1>1, <1>2, <1>3

(* The invariant is inductive.                                             *)
LEMMA NextIInv ==
    ASSUME IInv, [Next]_vars
    PROVE  IInv'
<1> TypeOK /\ RecoverTarget /\ WaveProgress BY DEF IInv
<1>1. CASE Next
    <2>1. TypeOK' BY <1>1, NextType
    <2>2. RecoverTarget' /\ WaveProgress'
        <3>1. CASE pc' \in Quiet BY <3>1, QuietStep
        <3>2. CASE LandAppend \/ LandSync \/ LandSyncDir
            <4>1. pc' \in {"append", "sync", "syncdir", "landed"}
                BY <3>2 DEF LandAppend, LandSync, AfterSync, LandSyncDir
            <4>2. QED BY <3>2, <4>1, LandProgress DEF RecoverTarget
        <3>3. CASE pc' = "append" /\ todo' = Touched'
            BY <3>3 DEF RecoverTarget, WaveProgress
        <3>4. CASE Open \/ RecoverTruncate \/ RecoverSync
            <4>1. pc' \in {"trunc", "truncsync", "remove", "idle", "trunclog"}
                BY <3>4 DEF Open, RecoverTruncate, RecoverSync, AfterRepair
            <4>2. liveDir' = liveDir /\ liveDir # {}
                BY <3>4 DEF Open, RecoverTruncate, RecoverSync, RecoverTarget, disk
            <4>3. QED BY <4>1, <4>2 DEF RecoverTarget, WaveProgress
        <3>5. CASE Trip
            <4>1. UNCHANGED <<live, durable, liveDir, durDir, pc, wave, todo, created>>
                BY <3>5 DEF Trip, disk, shape
            <4>2. QED BY <4>1 DEF RecoverTarget, WaveProgress, Touched, Holds
        <3>6. ASSUME NEW n, NEW rolls, AppendAll(n, rolls) \/ LogTruncated(rolls)
              PROVE  pc' = "append" /\ todo' = Touched'
            BY <3>6 DEF AppendAll, LogTruncated, StartWave
        <3>7. QED
            BY <1>1, <3>1, <3>2, <3>3, <3>4, <3>5, <3>6, QuietActions
            DEF Next, ClientStep, OpenStep, HandleStep, FaultStep
    <2>3. QED BY <2>1, <2>2 DEF IInv
<1>2. CASE UNCHANGED vars
    BY <1>2 DEF vars, disk, position, shape, history, IInv, TypeOK, RecoverTarget,
                WaveProgress, Touched, Holds
<1>3. QED BY <1>1, <1>2

-----------------------------------------------------------------------------
(* The disk, the handle and the history stay within their types: in        *)
(* particular open computes a position from whatever a crash left, and a   *)
(* refused read is never used as one.                                      *)
THEOREM TypeCorrect == Spec => []TypeOK
<1>1. IInv => TypeOK BY DEF IInv
<1>2. QED BY <1>1, InitIInv, NextIInv, PTL DEF Spec

(* A wave is acknowledged only after every one of its lines is on the      *)
(* durable plane and every segment it created has a durable directory      *)
(* entry, for waves of any size over any number of segments.               *)
THEOREM AcknowledgedIsSynced == Spec => OkMeansSynced
<1> DEFINE A == acked' # acked =>
                \A s \in Touched :
                    /\ Range(wave[s]) \subseteq Range(durable[s])
                    /\ s \in created => s \in durDir
<1>1. ASSUME IInv, [Next]_vars PROVE [A]_vars
    <2>1. CASE Acknowledge
        BY <1>1, <2>1 DEF Acknowledge, IInv, WaveProgress, Holds
    <2>2. CASE ~Acknowledge /\ Next
        <3>1. acked' = acked
            BY <2>2 DEF Next, ClientStep, OpenStep, HandleStep, FaultStep,
                AppendAll, FinishUnwind, Close, OpenEmpty, OpenRefused, Open,
                LandAppend, LandSync, LandSyncDir, RestoreUnlink, RestoreSyncDir,
                RestoreTruncate, RestoreSync, RestoreDone, RecoverTruncate, RecoverSync,
                RecoverRemove, RecoverSyncDir, LogTruncated, LandAppendFails,
                LandSyncFails, WaveFails, RestoreFails, RecoverFails, Trip, Kill,
                PowerCut, history
        <3>2. QED BY <3>1
    <2>3. CASE UNCHANGED vars BY <2>3
    <2>4. QED BY <1>1, <2>1, <2>2, <2>3
<1>2. QED BY <1>1, InitIInv, NextIInv, PTL DEF Spec, OkMeansSynced

-----------------------------------------------------------------------------
(* Files cut short.  From here on: the ledger survives what the disk does. *)

(* The first lines of f are the lines of c.                                *)
Starts(f, c) == Len(c) <= Len(f) /\ \A i \in 1 .. Len(c) : f[i] = c[i]

(* f is a beginning of `full' that reaches past its first n lines or ends  *)
(* with them, but for a last cell that may be torn.                        *)
Cut(f, full, n) ==
    /\ n <= Len(f)
    /\ \A i \in 1 .. Len(f) :
        \/ i <= Len(full) /\ f[i] = full[i]
        \/ i = Len(f) /\ i > n /\ ~f[i].whole

(* f is c, or c and a torn cell.                                           *)
Near(f, c) == Cut(f, c, Len(c))

(* The lines of a file that begins at seq s, each chained to the one       *)
(* before it.                                                              *)
Lines(f, s) ==
    \A i \in 1 .. Len(f) :
        /\ f[i].whole /\ f[i].seq = s + i - 1
        /\ i > 1 => f[i].prev = ChainHash(f[i - 1])

(* A file cut down to what it starts with keeps it.                        *)
LEMMA CutStarts ==
    ASSUME NEW f \in Seq(Cell), NEW full \in Seq(Cell), NEW c \in Seq(Cell),
           Starts(full, c), Cut(f, full, Len(c))
    PROVE  Starts(f, c)
BY DEF Starts, Cut

(* A beginning of `full' that keeps its first n lines is cut from it.      *)
LEMMA StartsCut ==
    ASSUME NEW f \in Seq(Cell), NEW full \in Seq(Cell), NEW n \in Nat,
           Starts(full, f), n <= Len(f)
    PROVE  Cut(f, full, n)
BY DEF Starts, Cut

(* A beginning of a file of chained lines is one.                          *)
LEMMA StartsLines ==
    ASSUME NEW f \in Seq(Cell), NEW c \in Seq(Cell), NEW s \in Nat,
           Starts(f, c), Lines(f, s)
    PROVE  Lines(c, s)
BY DEF Starts, Lines

(* Extensionality of files.                                                *)
LEMMA SameFile ==
    ASSUME NEW f \in Seq(Cell), NEW c \in Seq(Cell), Len(f) = Len(c),
           \A i \in 1 .. Len(f) : f[i] = c[i]
    PROVE  f = c
OBVIOUS

(* set_len to where the known lines end leaves exactly those lines         *)
(* (restore and recover_tail).                                             *)
LEMMA TruncatedStarts ==
    ASSUME NEW f \in Seq(Cell), NEW c \in Seq(Cell), Starts(f, c)
    PROVE  Truncated(f, Len(c)) = c
<1>1. \A i \in 1 .. Len(c) : f[i] \in Cell BY DEF Starts
<1>2. Truncated(f, Len(c)) = SubSeq(f, 1, Len(c)) BY DEF Truncated, Starts
<1>3. /\ SubSeq(f, 1, Len(c)) \in Seq(Cell)
      /\ Len(SubSeq(f, 1, Len(c))) = Len(c)
      /\ \A i \in 1 .. Len(c) : SubSeq(f, 1, Len(c))[i] = f[i]
    BY <1>1, SubSeqProperties
<1>4. QED BY <1>2, <1>3, SameFile DEF Starts

(* What a failed append leaves is a beginning of what it would have left.  *)
LEMMA PartlyAppendedCut ==
    ASSUME NEW c \in Seq(Cell), NEW w \in Seq(Cell), NEW f \in PartlyAppended(c, w)
    PROVE  Cut(f, c \o w, Len(c))
<1> DEFINE full == c \o w
<1>a. /\ full \in Seq(Cell) /\ Len(full) = Len(c) + Len(w)
      /\ \A i \in 1 .. Len(c) : full[i] = c[i]
      /\ \A i \in 1 .. Len(w) : full[Len(c) + i] = w[i]
    OBVIOUS
<1>b. ASSUME NEW n \in 0 .. Len(w)
      PROVE  /\ SubSeq(w, 1, n) \in Seq(Cell) /\ Len(SubSeq(w, 1, n)) = n
             /\ \A i \in 1 .. n : SubSeq(w, 1, n)[i] = w[i]
    <2>1. \A i \in 1 .. n : w[i] \in Cell OBVIOUS
    <2>2. QED BY <2>1, SubSeqProperties
<1>1. ASSUME NEW n \in 0 .. Len(w), NEW g \in Seq(Cell), g = SubSeq(w, 1, n)
      PROVE  /\ c \o g \in Seq(Cell) /\ Len(c \o g) = Len(c) + n
             /\ \A i \in 1 .. Len(c) + n : (c \o g)[i] = full[i]
    <2>1. Len(g) = n /\ \A i \in 1 .. n : g[i] = w[i] BY <1>b, <1>1
    <2>2. /\ c \o g \in Seq(Cell) /\ Len(c \o g) = Len(c) + n
          /\ \A i \in 1 .. Len(c) : (c \o g)[i] = c[i]
          /\ \A i \in 1 .. n : (c \o g)[Len(c) + i] = g[i]
        BY <2>1
    <2> HIDE DEF full
    <2>3. ASSUME NEW i \in 1 .. Len(c) + n PROVE (c \o g)[i] = full[i]
        <3>1. CASE i <= Len(c) BY <1>a, <2>2, <3>1
        <3>2. CASE i > Len(c)
            <4>1. PICK j \in 1 .. n : i = Len(c) + j
                <5>1. i - Len(c) \in 1 .. n /\ i = Len(c) + (i - Len(c)) BY <3>2
                <5>2. QED BY <5>1
            <4>2. j \in 1 .. Len(w) OBVIOUS
            <4>3. QED BY <1>a, <2>1, <2>2, <4>1, <4>2
        <3>3. i <= Len(c) \/ i > Len(c) OBVIOUS
        <3>4. QED BY <3>1, <3>2, <3>3, Zenon
    <2>4. QED BY <2>2, <2>3
<1> HIDE DEF full
<1>2. CASE \E n \in 0 .. Len(w) : f = c \o SubSeq(w, 1, n)
    <2>1. PICK n \in 0 .. Len(w) : f = c \o SubSeq(w, 1, n) BY <1>2
    <2>2. PICK g \in Seq(Cell) : g = SubSeq(w, 1, n) BY <1>b
    <2>3. Len(f) = Len(c) + n /\ \A i \in 1 .. Len(c) + n : f[i] = full[i]
        BY <1>1, <2>1, <2>2
    <2>4. Cut(f, full, Len(c)) BY <1>a, <2>3 DEF Cut
    <2>5. QED BY <2>4 DEF full
<1>3. CASE \E n \in 0 .. Len(w) - 1 : f = Append(c \o SubSeq(w, 1, n), TornFrom(w[n + 1]))
    <2>1. PICK n \in 0 .. Len(w) - 1 : f = Append(c \o SubSeq(w, 1, n), TornFrom(w[n + 1]))
        BY <1>3
    <2>a. n \in 0 .. Len(w) OBVIOUS
    <2>2. PICK g \in Seq(Cell) : g = SubSeq(w, 1, n) BY <1>b, <2>a
    <2>3. /\ c \o g \in Seq(Cell) /\ Len(c \o g) = Len(c) + n
          /\ \A i \in 1 .. Len(c) + n : (c \o g)[i] = full[i]
        BY <1>1, <2>2, <2>a
    <2>4. w[n + 1] \in Cell OBVIOUS
    <2>5. PICK t \in Cell : t = TornFrom(w[n + 1]) /\ ~t.whole
        BY <2>4, CellFacts DEF TornFrom, Cell
    <2>6. f = Append(c \o g, t) BY <2>1, <2>2, <2>5
    <2>7. /\ Len(f) = Len(c) + n + 1 /\ f[Len(c) + n + 1] = t
          /\ \A i \in 1 .. Len(c) + n : f[i] = full[i]
        BY <2>3, <2>6
    <2>8. Cut(f, full, Len(c))
        <3>1. Len(c) <= Len(f) BY <2>7
        <3>2. ASSUME NEW i \in 1 .. Len(f)
              PROVE  \/ i <= Len(full) /\ f[i] = full[i]
                     \/ i = Len(f) /\ i > Len(c) /\ ~f[i].whole
            <4>1. CASE i = Len(f) BY <2>5, <2>7, <4>1
            <4>2. CASE i < Len(f)
                <5>1. i \in 1 .. Len(c) + n /\ i <= Len(c) + Len(w) BY <2>7, <4>2
                <5>2. QED BY <1>a, <2>7, <5>1
            <4>3. i \in Nat /\ Len(f) \in Nat /\ i <= Len(f) BY <2>7
            <4>4. QED BY <4>1, <4>2, <4>3
        <3>3. QED BY <3>1, <3>2 DEF Cut
    <2>9. QED BY <2>8 DEF full
<1>4. QED BY <1>2, <1>3 DEF PartlyAppended

(* A beginning of `full' is some whole lines of it and at most a torn cell. *)
LEMMA CutWhole ==
    ASSUME NEW f \in Seq(Cell), NEW full \in Seq(Cell), NEW c \in Seq(Cell),
           Starts(full, c), Cut(f, full, Len(c))
    PROVE  \E g \in Seq(Cell) : Starts(g, c) /\ Starts(full, g) /\ Near(f, g)
<1>1. ASSUME NEW n \in Nat, n >= Len(c), n <= Len(full), n <= Len(f),
             \A i \in 1 .. n : f[i] = full[i],
             Len(f) = n \/ (Len(f) = n + 1 /\ ~f[Len(f)].whole)
      PROVE  \E g \in Seq(Cell) : Starts(g, c) /\ Starts(full, g) /\ Near(f, g)
    <2>1. \A i \in 1 .. n : full[i] \in Cell BY <1>1
    <2>2. PICK g \in Seq(Cell) : Len(g) = n /\ \A i \in 1 .. n : g[i] = full[i]
        <3>1. /\ SubSeq(full, 1, n) \in Seq(Cell) /\ Len(SubSeq(full, 1, n)) = n
              /\ \A i \in 1 .. n : SubSeq(full, 1, n)[i] = full[i]
            BY <2>1, SubSeqProperties
        <3>2. QED BY <3>1
    <2>3. Starts(g, c) /\ Starts(full, g) BY <1>1, <2>2 DEF Starts
    <2>4. Near(f, g) BY <1>1, <2>2 DEF Near, Cut
    <2>5. QED BY <2>3, <2>4
<1>2. CASE Len(f) <= Len(full) /\ \A i \in 1 .. Len(f) : f[i] = full[i]
    <2>1. Len(f) \in Nat /\ Len(f) >= Len(c) BY DEF Cut
    <2>2. QED BY <1>1, <1>2, <2>1
<1>3. CASE ~(Len(f) <= Len(full) /\ \A i \in 1 .. Len(f) : f[i] = full[i])
    <2>1. Len(f) > Len(c) /\ ~f[Len(f)].whole /\ Len(f) - 1 <= Len(full)
        BY <1>3 DEF Cut
    <2>2. \A i \in 1 .. Len(f) - 1 : f[i] = full[i] BY DEF Cut
    <2>3. Len(f) - 1 \in Nat /\ Len(f) - 1 >= Len(c) BY <2>1
    <2>4. PICK n \in Nat : n = Len(f) - 1 BY <2>3
    <2>5. /\ n >= Len(c) /\ n <= Len(full) /\ n <= Len(f)
          /\ Len(f) = n + 1 /\ ~f[Len(f)].whole
          /\ \A i \in 1 .. n : f[i] = full[i]
        BY <2>1, <2>2, <2>3, <2>4
    <2>6. QED BY <1>1, <2>5
<1>4. QED BY <1>2, <1>3

(* What two planes of a file share: the longest beginning they agree on.   *)
LEMMA CommonFacts ==
    ASSUME NEW d \in Seq(Cell), NEW l \in Seq(Cell)
    PROVE  /\ Common(d, l) \in 0 .. Len(l) /\ Common(d, l) <= Len(d)
           /\ \A n \in 0 .. Len(l) :
                n <= Len(d) /\ (\A i \in 1 .. n : d[i] = l[i]) => n <= Common(d, l)
<1> DEFINE S == {n \in 0 .. Len(l) : n <= Len(d) /\ SubSeq(d, 1, n) = SubSeq(l, 1, n)}
<1>1. ASSUME NEW n \in 0 .. Len(l), n <= Len(d), \A i \in 1 .. n : d[i] = l[i]
      PROVE  SubSeq(d, 1, n) = SubSeq(l, 1, n)
    <2>1. \A i \in 1 .. n : d[i] \in Cell /\ l[i] \in Cell BY <1>1
    <2>2. /\ SubSeq(d, 1, n) \in Seq(Cell) /\ Len(SubSeq(d, 1, n)) = n
          /\ \A i \in 1 .. n : SubSeq(d, 1, n)[i] = d[i]
        BY <2>1, SubSeqProperties
    <2>3. /\ SubSeq(l, 1, n) \in Seq(Cell) /\ Len(SubSeq(l, 1, n)) = n
          /\ \A i \in 1 .. n : SubSeq(l, 1, n)[i] = l[i]
        BY <2>1, SubSeqProperties
    <2>4. QED BY <1>1, <2>2, <2>3, SameFile
<1>2. S \in SUBSET Nat /\ 0 \in S
    <2>1. 0 \in 0 .. Len(l) /\ 0 <= Len(d) OBVIOUS
    <2>2. QED BY <1>1, <2>1
<1>3. Len(l) \in Nat /\ \A t \in S : t <= Len(l) OBVIOUS
<1>4. \A n \in 0 .. Len(l) : n <= Len(d) /\ (\A i \in 1 .. n : d[i] = l[i]) => n \in S
    BY <1>1
<1>5. \A t \in S : t \in 0 .. Len(l) /\ t <= Len(d) OBVIOUS
<1> HIDE DEF S
<1>6. Max(S) \in S /\ \A t \in S : t <= Max(S) BY <1>2, <1>3, MaxProperties
<1>7. Common(d, l) = Max(S) BY DEF Common, S
<1>8. QED BY <1>4, <1>5, <1>6, <1>7

(* What power leaves of a file whose planes are both beginnings of `full'  *)
(* is one, when nothing durable lies past what the live plane shares with  *)
(* it but a single cell, or the planes agree, or the live one was cut back.*)
LEMMA SettledCut ==
    ASSUME NEW d \in Seq(Cell), NEW l \in Seq(Cell), NEW full \in Seq(Cell),
           NEW c \in Seq(Cell), Starts(full, c),
           Cut(d, full, Len(c)), Cut(l, full, Len(c)),
           Len(d) <= Len(c) + 1 \/ d = l \/ Len(l) = Len(c),
           NEW f \in Settled(d, l)
    PROVE  f \in Seq(Cell) /\ Cut(f, full, Len(c))
<1> DEFINE From(n) == SubSeq(d, n + 1, Len(d))
<1>1. Starts(d, c) /\ Starts(l, c) BY CutStarts
<1>2. PICK common \in 0 .. Len(l) : common = Common(d, l) BY CommonFacts
<1>3. common <= Len(d) /\ common >= Len(c)
    <2>1. Len(c) \in 0 .. Len(l) /\ Len(c) <= Len(d) /\ \A i \in 1 .. Len(c) : d[i] = l[i]
        BY <1>1 DEF Starts
    <2>2. QED BY <1>2, <2>1, CommonFacts
<1>4. ASSUME NEW n \in Nat, n <= Len(l)
      PROVE  /\ SubSeq(l, 1, n) \in Seq(Cell) /\ Len(SubSeq(l, 1, n)) = n
             /\ \A i \in 1 .. n : SubSeq(l, 1, n)[i] = l[i]
    <2>1. \A i \in 1 .. n : l[i] \in Cell BY <1>4
    <2>2. QED BY <1>4, <2>1, SubSeqProperties
<1>5. ASSUME NEW n \in Nat, n + 1 > Len(d) PROVE From(n) = <<>>
    BY <1>5, SubSeqEmpty
<1>6. f \in Seq(Cell) BY SettledType
<1>7. CASE \E n \in common .. Len(l) : f = SubSeq(l, 1, n) \o From(n)
    <2>1. PICK n \in common .. Len(l) : f = SubSeq(l, 1, n) \o From(n) BY <1>7
    <2>2. n \in Nat /\ n <= Len(l) /\ n >= Len(c) BY <1>3
    <2>3. PICK g \in Seq(Cell) : g = SubSeq(l, 1, n) BY <1>4, <2>2
    <2>4. Len(g) = n /\ \A i \in 1 .. n : g[i] = l[i] BY <1>4, <2>2, <2>3
    <2>5. CASE n >= Len(d)
        <3>1. f = g
            <4>1. From(n) = <<>> BY <1>5, <2>2, <2>5
            <4>2. f = g \o <<>> BY <2>1, <2>3, <4>1, Zenon
            <4>3. QED BY <4>2
        <3>2. \A i \in 1 .. n : f[i] = l[i] BY <2>4, <3>1
        <3>3. Len(f) = n BY <2>4, <3>1
        <3>4. QED BY <1>6, <2>2, <3>2, <3>3 DEF Cut
    <2>6. CASE n < Len(d)
        <3>1. /\ From(n) \in Seq(Cell) /\ Len(From(n)) = Len(d) - n
              /\ \A i \in 1 .. Len(d) - n : From(n)[i] = d[n + i]
            <4>1. \A i \in n + 1 .. Len(d) : d[i] \in Cell BY <2>2
            <4>2. QED BY <2>2, <2>6, <4>1, SubSeqProperties
        <3>2. PICK r \in Seq(Cell) : r = From(n) BY <3>1
        <3>3. Len(r) = Len(d) - n /\ \A i \in 1 .. Len(d) - n : r[i] = d[n + i]
            BY <3>1, <3>2
        <3>4. f = g \o r BY <2>1, <2>3, <3>2
        <3>5. /\ Len(f) = Len(d) /\ \A i \in 1 .. n : f[i] = l[i]
              /\ \A i \in 1 .. Len(d) - n : f[n + i] = d[n + i]
            <4>1. /\ Len(g \o r) = Len(g) + Len(r)
                  /\ \A i \in 1 .. Len(g) : (g \o r)[i] = g[i]
                  /\ \A i \in 1 .. Len(r) : (g \o r)[Len(g) + i] = r[i]
                OBVIOUS
            <4>2. Len(f) = n + (Len(d) - n) BY <2>4, <3>3, <3>4, <4>1, Zenon
            <4>3. \A i \in 1 .. n : f[i] = l[i] BY <2>4, <3>4, <4>1, Zenon
            <4>4. \A i \in 1 .. Len(d) - n : f[n + i] = d[n + i]
                BY <2>4, <3>3, <3>4, <4>1, Zenon
            <4>5. Len(f) = Len(d) BY <2>2, <4>2
            <4>6. QED BY <4>3, <4>4, <4>5
        <3>6. \A i \in n + 1 .. Len(d) : f[i] = d[i]
            <4>1. ASSUME NEW i \in n + 1 .. Len(d) PROVE f[i] = d[i]
                <5>1. i - n \in 1 .. Len(d) - n /\ n + (i - n) = i BY <2>2
                <5>2. QED BY <3>5, <5>1
            <4>2. QED BY <4>1
        <3>7. CASE n = Len(c)
            <4>1. \A i \in 1 .. n : f[i] = d[i]
                BY <1>1, <2>2, <3>5, <3>7 DEF Starts
            <4>2. \A i \in 1 .. Len(d) : f[i] = d[i] BY <2>2, <3>6, <4>1
            <4>3. QED BY <1>6, <3>5, <4>2, SameFile
        <3>8. CASE n # Len(c)
            <4>1. d = l BY <2>2, <2>6, <3>8
            <4>2. \A i \in 1 .. Len(d) : f[i] = d[i] BY <2>2, <3>5, <3>6, <4>1
            <4>3. QED BY <1>6, <3>5, <4>2, SameFile
        <3>9. QED BY <3>7, <3>8
    <2>7. QED BY <2>2, <2>5, <2>6
<1>8. CASE \E n \in common .. Len(l) - 1 :
            f = Append(SubSeq(l, 1, n), TornFrom(l[n + 1])) \o From(n + 1)
    <2>1. PICK n \in common .. Len(l) - 1 :
            f = Append(SubSeq(l, 1, n), TornFrom(l[n + 1])) \o From(n + 1)
        BY <1>8
    <2>2. n \in Nat /\ n + 1 <= Len(l) /\ n <= Len(l) /\ n >= Len(c) BY <1>3
    <2>3. PICK g \in Seq(Cell) : g = SubSeq(l, 1, n) BY <1>4, <2>2
    <2>4. Len(g) = n /\ \A i \in 1 .. n : g[i] = l[i] BY <1>4, <2>2, <2>3
    <2>5. l[n + 1] \in Cell BY <2>2
    <2>6. PICK t \in Cell : t = TornFrom(l[n + 1]) /\ ~t.whole
        BY <2>5, CellFacts DEF TornFrom, Cell
    <2>7. n + 2 > Len(d)
        <3>1. CASE Len(d) <= Len(c) + 1 BY <2>2, <3>1
        <3>2. CASE d = l
            <4>1. Len(l) \in 0 .. Len(l) /\ Len(l) <= Len(d) /\ \A i \in 1 .. Len(l) : d[i] = l[i]
                BY <3>2
            <4>a. Len(l) <= common BY <1>2, <4>1, CommonFacts
            <4>2. QED BY <1>3, <2>2, <4>a
        <3>3. CASE Len(l) = Len(c) BY <2>2, <3>3
        <3>4. QED BY <3>1, <3>2, <3>3
    <2>8. From(n + 1) = <<>> BY <1>5, <2>2, <2>7
    <2>9. f = Append(g, t)
        <3>1. f = Append(g, t) \o <<>> BY <2>1, <2>3, <2>6, <2>8, Zenon
        <3>2. QED BY <3>1
    <2>10. Len(f) = n + 1 /\ f[n + 1] = t /\ \A i \in 1 .. n : f[i] = l[i]
        BY <2>4, <2>9
    <2>11. Cut(f, full, Len(c))
        <3>1. Len(c) <= Len(f) BY <2>2, <2>10
        <3>2. ASSUME NEW i \in 1 .. Len(f)
              PROVE  \/ i <= Len(full) /\ f[i] = full[i]
                     \/ i = Len(f) /\ i > Len(c) /\ ~f[i].whole
            <4>1. CASE i = n + 1 BY <2>2, <2>6, <2>10, <4>1
            <4>2. CASE i # n + 1
                <5>1. i \in 1 .. n /\ i \in 1 .. Len(l) /\ i # Len(l) BY <2>2, <2>10, <4>2
                <5>2. i <= Len(full) /\ l[i] = full[i] BY <5>1 DEF Cut
                <5>3. QED BY <2>10, <5>1, <5>2
            <4>3. QED BY <4>1, <4>2
        <3>3. QED BY <3>1, <3>2 DEF Cut
    <2>12. QED BY <1>6, <2>11
<1>9. QED BY <1>2, <1>7, <1>8 DEF Settled

-----------------------------------------------------------------------------
(* What open reads of a file that is its lines and at most a torn cell.    *)

(* Near in the terms open reads a file in. *)
LEMMA NearFacts ==
    ASSUME NEW f \in Seq(Cell), NEW c \in Seq(Cell), Near(f, c)
    PROVE  /\ Len(c) <= Len(f) /\ Len(f) <= Len(c) + 1
           /\ \A i \in 1 .. Len(c) : f[i] = c[i]
           /\ Len(f) = Len(c) + 1 => ~f[Len(c) + 1].whole
           /\ Len(f) = Len(c) => f = c
<1>1. Len(c) <= Len(f) /\ \A i \in 1 .. Len(c) : f[i] = c[i] BY DEF Near, Cut
<1>2. Len(f) <= Len(c) + 1
    <2>1. SUFFICES ASSUME Len(f) > Len(c) + 1 PROVE FALSE OBVIOUS
    <2>2. Len(c) + 1 \in 1 .. Len(f) /\ Len(c) + 1 # Len(f) BY <2>1
    <2>3. QED BY <2>2 DEF Near, Cut
<1>3. Len(f) = Len(c) + 1 => ~f[Len(c) + 1].whole
    <2>1. SUFFICES ASSUME Len(f) = Len(c) + 1 PROVE ~f[Len(c) + 1].whole OBVIOUS
    <2>2. Len(c) + 1 \in 1 .. Len(f) /\ ~(Len(c) + 1 <= Len(c)) BY <2>1
    <2>3. QED BY <2>2 DEF Near, Cut
<1>4. Len(f) = Len(c) => f = c BY <1>1, SameFile
<1>5. QED BY <1>1, <1>2, <1>3, <1>4

(* A file of lines and at most a torn cell: its last line is the last of   *)
(* them, every line parses, and nothing after them reads as history (the   *)
(* tests of open).                                                         *)
LEMMA NearReads ==
    ASSUME NEW f \in Seq(Cell), NEW c \in Seq(Cell), Near(f, c), NEW s \in Nat,
           Lines(c, s), c # <<>>
    PROVE  /\ Len(c) >= 1 /\ LastLine(f) = Len(c)
           /\ \A i \in 1 .. Len(c) : CarriesEnvelope(f, i)
           /\ ~HistoryAfter(f, Len(c))
<1>1. /\ Len(c) \in Nat /\ Len(c) >= 1 /\ Len(f) \in Nat
      /\ Len(c) <= Len(f) /\ Len(f) <= Len(c) + 1
      /\ \A i \in 1 .. Len(c) : f[i] = c[i]
      /\ Len(f) = Len(c) + 1 => ~f[Len(c) + 1].whole
    BY NearFacts
<1>2. \A i \in 1 .. Len(c) : f[i].whole BY <1>1 DEF Lines
<1>3. \A i \in Len(c) + 1 .. Len(f) : ~f[i].whole
    <2>1. ASSUME NEW i \in Len(c) + 1 .. Len(f) PROVE ~f[i].whole
        <3>1. i = Len(c) + 1 /\ Len(f) = Len(c) + 1 BY <1>1
        <3>2. QED BY <1>1, <3>1
    <2>2. QED BY <2>1
<1>4. \A i \in 1 .. Len(c) : CarriesEnvelope(f, i)
    <2>1. ASSUME NEW i \in 1 .. Len(c) PROVE CarriesEnvelope(f, i)
        <3>1. i > 1 => i - 1 \in 1 .. Len(c) BY <1>1
        <3>2. QED BY <1>2, <3>1 DEF CarriesEnvelope
    <2>2. QED BY <2>1
<1>5. ~HistoryAfter(f, Len(c)) BY <1>3 DEF HistoryAfter, CarriesEnvelope
<1>6. LastLine(f) = Len(c)
    <2> DEFINE S == {0} \cup {i \in 1 .. Len(f) : f[i].whole}
    <2>1. S \in SUBSET Nat /\ Len(c) \in S /\ \A t \in S : t <= Len(f)
        <3>1. Len(c) \in 1 .. Len(f) /\ f[Len(c)].whole BY <1>1, <1>2
        <3>2. QED BY <1>1, <3>1
    <2>2. \A t \in S : t <= Len(c)
        <3>1. ASSUME NEW t \in 1 .. Len(f), f[t].whole PROVE t <= Len(c)
            <4>1. ~(t \in Len(c) + 1 .. Len(f)) BY <1>3, <3>1
            <4>2. QED BY <1>1, <4>1
        <3>2. QED BY <1>1, <3>1
    <2> HIDE DEF S
    <2>3. Max(S) \in S /\ \A t \in S : t <= Max(S) BY <1>1, <2>1, MaxProperties
    <2>4. Max(S) = Len(c)
        <3>1. PICK m \in S : m = Max(S) /\ \A t \in S : t <= m BY <2>3
        <3>2. m \in Nat /\ m <= Len(c) /\ Len(c) <= m BY <2>1, <2>2, <3>1
        <3>3. m = Len(c) BY <1>1, <3>2
        <3>4. QED BY <3>1, <3>3
    <2>5. QED BY <2>4 DEF LastLine, S
<1>7. QED BY <1>1, <1>4, <1>5, <1>6

(* Judged from the chain state its lines were written in, such a file is   *)
(* valid up to the torn cell (recover_tail's reading half).                *)
LEMMA NearValid ==
    ASSUME NEW f \in Seq(Cell), NEW c \in Seq(Cell), Near(f, c), NEW s \in Nat,
           Lines(c, s), c # <<>>, NEW entry, entry.next = s, entry.prev = c[1].prev
    PROVE  ValidLen(f, entry) = Len(c)
<1>1. /\ Len(c) \in Nat /\ Len(c) >= 1 /\ Len(f) \in Nat
      /\ Len(c) <= Len(f) /\ Len(f) <= Len(c) + 1
      /\ \A i \in 1 .. Len(c) : f[i] = c[i]
      /\ Len(f) = Len(c) + 1 => ~f[Len(c) + 1].whole
    BY NearFacts
<1>2. \A i \in 1 .. Len(c) : CarriesEnvelope(f, i) BY NearReads
<1>3. \A i \in 1 .. Len(c) : Advances(f, i, entry)
    <2>1. ASSUME NEW i \in 1 .. Len(c) PROVE Advances(f, i, entry)
        <3>1. f[i] = c[i] /\ c[i].seq = s + i - 1 /\ (i > 1 => c[i].prev = ChainHash(c[i - 1]))
            BY <1>1 DEF Lines
        <3>2. i > 1 => f[i - 1] = c[i - 1] BY <1>1
        <3>3. f[i].prev = IF i = 1 THEN entry.prev ELSE ChainHash(f[i - 1])
            BY <1>1, <3>1, <3>2
        <3>4. f[i].seq = entry.next + i - 1 BY <3>1
        <3>5. QED BY <1>2, <3>3, <3>4 DEF Advances
    <2>2. QED BY <2>1
<1> DEFINE S == {n \in 0 .. Len(f) : \A i \in 1 .. n : Advances(f, i, entry)}
<1>4. S \in SUBSET Nat /\ Len(c) \in S /\ \A t \in S : t <= Len(f) BY <1>1, <1>3
<1>5. \A t \in S : t <= Len(c)
    <2>1. ASSUME NEW t \in 0 .. Len(f), \A i \in 1 .. t : Advances(f, i, entry), t > Len(c)
          PROVE  FALSE
        <3>1. t = Len(c) + 1 /\ Len(f) = Len(c) + 1 /\ t \in 1 .. t BY <1>1, <2>1
        <3>2. f[t].whole BY <2>1, <3>1 DEF Advances, CarriesEnvelope
        <3>3. QED BY <1>1, <3>1, <3>2
    <2>2. QED BY <1>1, <2>1
<1> HIDE DEF S
<1>6. Max(S) \in S /\ \A t \in S : t <= Max(S) BY <1>1, <1>4, MaxProperties
<1>7. Max(S) = Len(c)
    <2>1. PICK m \in S : m = Max(S) /\ \A t \in S : t <= m BY <1>6
    <2>2. m \in Nat /\ m <= Len(c) /\ Len(c) <= m BY <1>4, <1>5, <2>1
    <2>3. m = Len(c) BY <1>1, <2>2
    <2>4. QED BY <2>1, <2>3
<1>8. QED BY <1>7 DEF ValidLen, S

-----------------------------------------------------------------------------
(* The ledger the disk stands for.                                         *)

Ledgers == [Names -> Seq(Cell)]

(* The segments of a ledger. *)
Segs(h) == {s \in Names : h[s] # <<>>}

(* No segment of the ledger lies past t. *)
LastOf(h, t) == \A s \in Segs(h) : s <= t

(* Segment t continues segment s. *)
Follows(h, s, t) ==
    /\ s < t /\ s + Len(h[s]) = t
    /\ h[t][1].prev = ChainHash(h[s][Len(h[s])])

(* One chain from genesis, its segments named by their first seq. *)
Chained(h) ==
    /\ \A s \in Names : Lines(h[s], s)
    /\ \A s, t \in Segs(h) : s < t => s + Len(h[s]) <= t
    /\ \A t \in Segs(h) : \/ t = 0 /\ h[t][1].prev = GENESIS_PREV
                          \/ \E s \in Segs(h) : Follows(h, s, t)

(* Every one of the cells is a line of the ledger. *)
Has(h, cells) == \A cell \in cells : \E s \in Names : \E i \in 1 .. Len(h[s]) : h[s][i] = cell

(* Both planes of a segment hold its lines, and at most a torn cell. *)
Steady(h, s) == Near(live[s], h[s]) /\ Near(durable[s], h[s])

(* Whatever power leaves of the segment, its lines are there and what      *)
(* follows them continues the chain.                                       *)
Recoverable(h, s) ==
    \E full \in Seq(Cell) :
        /\ Lines(full, s) /\ Starts(full, h[s])
        /\ Cut(durable[s], full, Len(h[s])) /\ Cut(live[s], full, Len(h[s]))
        /\ \/ Len(durable[s]) <= Len(h[s]) + 1
           \/ durable[s] = live[s]
           \/ Len(live[s]) = Len(h[s])
        /\ full = h[s] \/ LastOf(h, s)

(* What holds of the ledger whatever the handle is doing. *)
Base(h) ==
    /\ h \in Ledgers /\ Chained(h) /\ Has(h, acked)
    /\ \A s \in Names \ liveDir : live[s] = <<>>
    /\ Segs(h) \subseteq liveDir

(* A file begins with itself.                                              *)
LEMMA StartsSelf ==
    ASSUME NEW f \in Seq(Cell)
    PROVE  Starts(f, f)
BY DEF Starts

(* A ledger that extends another one keeps its lines.                      *)
LEMMA HasMore ==
    ASSUME NEW h \in Ledgers, NEW k \in Ledgers, NEW cells, Has(h, cells),
           \A s \in Names : Starts(k[s], h[s])
    PROVE  Has(k, cells)
<1>1. ASSUME NEW cell \in cells
      PROVE  \E s \in Names : \E i \in 1 .. Len(k[s]) : k[s][i] = cell
    <2>1. PICK s \in Names : \E i \in 1 .. Len(h[s]) : h[s][i] = cell BY DEF Has
    <2>2. PICK i \in 1 .. Len(h[s]) : h[s][i] = cell BY <2>1
    <2>3. h[s] \in Seq(Cell) /\ k[s] \in Seq(Cell) BY DEF Ledgers
    <2>4. i \in 1 .. Len(k[s]) /\ k[s][i] = cell BY <2>2, <2>3 DEF Starts
    <2>5. QED BY <2>4
<1>2. QED BY <1>1 DEF Has

(* More lines in the last segment leave one chain.                         *)
LEMMA ExtendedLast ==
    ASSUME NEW h \in Ledgers, Chained(h), NEW k \in Ledgers, NEW t \in Segs(h),
           LastOf(h, t), \A s \in Names \ {t} : k[s] = h[s],
           Starts(k[t], h[t]), Lines(k[t], t)
    PROVE  Chained(k) /\ Segs(k) = Segs(h)
<1>a. t \in Names /\ Names \in SUBSET Nat BY CellFacts DEF Segs
<1>b. h[t] \in Seq(Cell) /\ k[t] \in Seq(Cell) /\ h[t] # <<>> BY <1>a DEF Ledgers, Segs
<1>c. Len(h[t]) >= 1 /\ k[t] # <<>> /\ k[t][1] = h[t][1] BY <1>b DEF Starts
<1>1. Segs(k) = Segs(h) BY <1>a, <1>b, <1>c DEF Segs
<1>2. \A s \in Names : Lines(k[s], s) BY DEF Chained
<1>3. ASSUME NEW s \in Segs(h), NEW u \in Segs(h), s < u
      PROVE  s + Len(k[s]) <= u
    <2>1. s # t
        <3>1. u <= t BY DEF LastOf
        <3>2. s \in Nat /\ u \in Nat BY <1>a DEF Segs
        <3>3. QED BY <1>3, <1>a, <3>1, <3>2
    <2>2. k[s] = h[s] BY <2>1 DEF Segs
    <2>3. QED BY <1>3, <2>2 DEF Chained
<1>4. ASSUME NEW u \in Segs(h)
      PROVE  \/ u = 0 /\ k[u][1].prev = GENESIS_PREV
             \/ \E s \in Segs(h) : Follows(k, s, u)
    <2>1. k[u][1] = h[u][1] BY <1>c DEF Segs
    <2>2. CASE u = 0 /\ h[u][1].prev = GENESIS_PREV BY <2>1, <2>2
    <2>3. CASE \E s \in Segs(h) : Follows(h, s, u)
        <3>1. PICK s \in Segs(h) : Follows(h, s, u) BY <2>3
        <3>2. s # t
            <4>1. u <= t /\ s < u BY <3>1 DEF LastOf, Follows
            <4>2. s \in Nat /\ u \in Nat BY <1>a DEF Segs
            <4>3. QED BY <1>a, <4>1, <4>2
        <3>3. k[s] = h[s] BY <3>2 DEF Segs
        <3>4. Follows(k, s, u) BY <2>1, <3>1, <3>3 DEF Follows
        <3>5. QED BY <3>4
    <2>4. QED BY <2>2, <2>3 DEF Chained
<1>5. QED BY <1>1, <1>2, <1>3, <1>4 DEF Chained

(* A segment whose planes hold its lines and at most a torn cell survives  *)
(* any power cut.                                                          *)
LEMMA SteadyRecovers ==
    ASSUME TypeOK, NEW h \in Ledgers, Chained(h), NEW s \in Names, Steady(h, s)
    PROVE  Recoverable(h, s)
<1>1. h[s] \in Seq(Cell) /\ live[s] \in Seq(Cell) /\ durable[s] \in Seq(Cell)
    BY DEF Ledgers, TypeOK
<1>2. Lines(h[s], s) BY DEF Chained
<1>3. Len(durable[s]) <= Len(h[s]) + 1 BY <1>1, NearFacts DEF Steady
<1>4. Starts(h[s], h[s]) BY <1>1, StartsSelf
<1>5. QED BY <1>1, <1>2, <1>3, <1>4 DEF Recoverable, Steady, Near

(* The disk between waves: nothing but the segments of the ledger. *)
AtRest(h) ==
    /\ liveDir = Segs(h) /\ durDir = Segs(h) /\ owed = {}
    /\ \A s \in Segs(h) : Steady(h, s)

(* A ledger that is not empty has a last segment.                          *)
LEMMA LastExists ==
    ASSUME NEW h \in Ledgers, Segs(h) # {}
    PROVE  \E t \in Segs(h) : LastOf(h, t)
<1>1. Segs(h) \in SUBSET Nat /\ MaxSeq \in Nat /\ \A s \in Segs(h) : s <= MaxSeq
    BY BoundsAssumption DEF Segs, Names
<1>2. Max(Segs(h)) \in Segs(h) /\ \A s \in Segs(h) : s <= Max(Segs(h))
    BY <1>1, MaxProperties
<1>3. QED BY <1>2 DEF LastOf

(* What a power cut leaves of one recoverable file.                        *)
LEMMA FileAfterCut ==
    ASSUME TypeOK, NEW h \in Ledgers, NEW s \in Names, Recoverable(h, s),
           NEW f \in Settled(durable[s], live[s])
    PROVE  /\ f \in Seq(Cell)
           /\ \E g \in Seq(Cell) : /\ Starts(g, h[s]) /\ Lines(g, s) /\ Near(f, g)
                                   /\ g = h[s] \/ LastOf(h, s)
<1>1. PICK full \in Seq(Cell) :
        /\ Lines(full, s) /\ Starts(full, h[s])
        /\ Cut(durable[s], full, Len(h[s])) /\ Cut(live[s], full, Len(h[s]))
        /\ \/ Len(durable[s]) <= Len(h[s]) + 1
           \/ durable[s] = live[s]
           \/ Len(live[s]) = Len(h[s])
        /\ full = h[s] \/ LastOf(h, s)
    BY DEF Recoverable
<1>2. h[s] \in Seq(Cell) /\ live[s] \in Seq(Cell) /\ durable[s] \in Seq(Cell) /\ s \in Nat
    BY CellFacts DEF Ledgers, TypeOK
<1>3. f \in Seq(Cell) /\ Cut(f, full, Len(h[s])) BY <1>1, <1>2, SettledCut
<1>4. PICK g \in Seq(Cell) : Starts(g, h[s]) /\ Starts(full, g) /\ Near(f, g)
    BY <1>1, <1>2, <1>3, CutWhole
<1>5. Lines(g, s) BY <1>1, <1>2, <1>4, StartsLines
<1>6. full = h[s] => g = h[s]
    <2>1. ASSUME full = h[s] PROVE g = h[s]
        <3>1. Len(g) = Len(h[s]) /\ \A i \in 1 .. Len(g) : g[i] = h[s][i]
            BY <1>2, <1>4, <2>1 DEF Starts
        <3>2. QED BY <1>2, <3>1, SameFile
    <2>2. QED BY <2>1
<1>7. QED BY <1>1, <1>3, <1>4, <1>5, <1>6

(* When every segment is recoverable and has its directory entry, what     *)
(* power leaves is again a ledger at rest: the same segments, the last one *)
(* perhaps longer.                                                         *)
LEMMA AfterCut ==
    ASSUME TypeOK, ~LazyDir, NEW h \in Ledgers, Chained(h), Has(h, acked),
           durDir = Segs(h), \A s \in Segs(h) : Recoverable(h, s), PowerCut
    PROVE  \E k \in Ledgers : Base(k)' /\ AtRest(k)'
<1>a. Segs(h) \subseteq Names BY DEF Segs
<1>1. /\ liveDir' = Segs(h) /\ durDir' = Segs(h) /\ durable' = live'
      /\ \E left : /\ \A s \in Segs(h) : left[s] \in Settled(durable[s], live[s])
                   /\ live' = [s \in Names |-> IF s \in Segs(h) THEN left[s] ELSE <<>>]
    BY DEF PowerCut
<1>2. acked' = acked /\ owed' = {} BY DEF PowerCut
<1>3. PICK lv : /\ live' = lv
                /\ \A s \in Segs(h) : lv[s] \in Settled(durable[s], live[s])
                /\ \A s \in Names \ Segs(h) : lv[s] = <<>>
    BY <1>1, <1>a
<1> DEFINE P(s, g) == /\ Starts(g, h[s]) /\ Lines(g, s) /\ Near(lv[s], g)
                      /\ g = h[s] \/ LastOf(h, s)
           K == [s \in Names |-> IF s \in Segs(h) THEN CHOOSE g \in Seq(Cell) : P(s, g)
                                ELSE <<>>]
<1>4. \A s \in Segs(h) : \E g \in Seq(Cell) : P(s, g)
    BY <1>a, <1>3, FileAfterCut
<1> HIDE DEF P
<1>5. \A s \in Segs(h) : K[s] \in Seq(Cell) /\ P(s, K[s]) BY <1>4, <1>a
<1>6. \A s \in Names \ Segs(h) : K[s] = <<>> OBVIOUS
<1>7. K \in Ledgers BY <1>5, <1>6, CellFacts DEF Ledgers
<1>8. PICK k \in Ledgers : /\ \A s \in Segs(h) : P(s, k[s])
                           /\ \A s \in Names \ Segs(h) : k[s] = <<>>
    BY <1>5, <1>6, <1>7
<1>9. Chained(k) /\ Segs(k) = Segs(h)
    <2>1. CASE Segs(h) = {}
        <3>1. \A s \in Names : k[s] = h[s] BY <1>8, <2>1 DEF Segs
        <3>2. k = h BY <3>1 DEF Ledgers
        <3>3. QED BY <3>2
    <2>2. CASE Segs(h) # {}
        <3>1. PICK t \in Segs(h) : LastOf(h, t) BY <2>2, LastExists
        <3>2. Starts(k[t], h[t]) /\ Lines(k[t], t) BY <1>8 DEF P
        <3>3. ASSUME NEW s \in Names \ {t} PROVE k[s] = h[s]
            <4>1. CASE s \notin Segs(h) BY <1>8, <4>1 DEF Segs
            <4>2. CASE s \in Segs(h)
                <5>1. s \in Nat /\ t \in Nat BY <1>a, CellFacts
                <5>2. ~LastOf(h, s)
                    <6>1. s <= t BY <3>1, <4>2 DEF LastOf
                    <6>2. ~(t <= s) BY <5>1, <6>1
                    <6>3. QED BY <6>2 DEF LastOf
                <5>3. QED BY <1>8, <4>2, <5>2 DEF P
            <4>3. QED BY <4>1, <4>2
        <3>4. QED BY <3>1, <3>2, <3>3, ExtendedLast
    <2>3. QED BY <2>1, <2>2
<1>10. Has(k, acked)
    <2>1. ASSUME NEW s \in Names PROVE Starts(k[s], h[s])
        <3>1. CASE s \in Segs(h) BY <1>8, <3>1 DEF P
        <3>2. CASE s \notin Segs(h)
            <4>1. k[s] = <<>> /\ h[s] = <<>> BY <1>8, <3>2 DEF Segs
            <4>2. QED BY <4>1, CellFacts, StartsSelf
        <3>3. QED BY <3>1, <3>2
    <2>2. QED BY <2>1, HasMore
<1>11. Base(k)'
    <2>1. Has(k, acked') BY <1>2, <1>10
    <2>2. \A s \in Names \ liveDir' : live'[s] = <<>> BY <1>1, <1>3
    <2>3. Segs(k) \subseteq liveDir' BY <1>1, <1>9
    <2>4. QED BY <1>9, <2>1, <2>2, <2>3 DEF Base
<1>12. AtRest(k)'
    <2>1. \A s \in Segs(k) : Near(live'[s], k[s]) /\ Near(durable'[s], k[s])
        BY <1>1, <1>3, <1>8, <1>9 DEF P
    <2>2. liveDir' = Segs(k) /\ durDir' = Segs(k) BY <1>1, <1>9
    <2>3. QED BY <1>2, <2>1, <2>2 DEF AtRest, Steady
<1>13. QED BY <1>11, <1>12

(* The handle's position is the end of the ledger. *)
At(h) ==
    /\ len = Len(h[seg]) /\ next = seg + len /\ LastOf(h, seg)
    /\ prev = IF len = 0 THEN GENESIS_PREV ELSE ChainHash(h[seg][len])
    /\ len = 0 => seg = 0 /\ Segs(h) = {}

(* The types of one segment of the ledger.                                 *)
LEMMA SegmentFacts ==
    ASSUME TypeOK, NEW h \in Ledgers, Chained(h), NEW s \in Segs(h)
    PROVE  /\ s \in Names /\ s \in Nat /\ h[s] \in Seq(Cell) /\ h[s] # <<>> /\ Lines(h[s], s)
           /\ live[s] \in Seq(Cell) /\ durable[s] \in Seq(Cell)
<1>1. s \in Names BY DEF Segs
<1>2. QED BY <1>1, CellFacts DEF Segs, Ledgers, Chained, TypeOK

(* The chain state open enters the last segment with is the one its lines  *)
(* were written in.                                                        *)
LEMMA BoundaryReads ==
    ASSUME TypeOK, NEW h \in Ledgers, Chained(h), AtRest(h), liveDir # {}
    PROVE  /\ LastSeg \in Segs(h) /\ LastOf(h, LastSeg)
           /\ ~ProbeRefuses /\ ~BoundaryRefuses
           /\ Boundary.next = LastSeg /\ Boundary.prev = h[LastSeg][1].prev
<1>1. liveDir = Segs(h) /\ \A s \in Segs(h) : Near(live[s], h[s]) BY DEF AtRest, Steady
<1>2. LastSeg \in Segs(h) /\ LastOf(h, LastSeg) BY <1>1, LastSegFacts DEF LastOf
<1>3. PICK t \in Segs(h) : t = LastSeg BY <1>2
<1>t. /\ t \in Names /\ t \in Nat /\ h[t] \in Seq(Cell) /\ h[t] # <<>>
    BY SegmentFacts
<1>4. ~ProbeRefuses
    <2>1. liveDir \in SUBSET Nat BY CellFacts DEF TypeOK
    <2>2. PICK m \in Segs(h) : m = Min(liveDir) BY <1>1, <2>1, MinProperties
    <2>3. /\ m \in Nat /\ h[m] \in Seq(Cell) /\ h[m] # <<>> /\ Lines(h[m], m)
          /\ live[m] \in Seq(Cell) /\ Near(live[m], h[m])
        BY <1>1, SegmentFacts
    <2>4. /\ Len(h[m]) >= 1 /\ \A i \in 1 .. Len(h[m]) : CarriesEnvelope(live[m], i)
        BY <2>3, NearReads
    <2>5. CarriesEnvelope(live[m], 1) /\ live[m][1].whole BY <2>3, <2>4 DEF CarriesEnvelope
    <2>6. ASSUME NEW i \in DOMAIN live[m], \A j \in 1 .. i - 1 : ~live[m][j].whole
          PROVE  CarriesEnvelope(live[m], i)
        <3>1. i \in Nat /\ i >= 1 BY <2>3
        <3>2. i = 1
            <4>1. ~(1 \in 1 .. i - 1) BY <2>5, <2>6
            <4>2. QED BY <3>1, <4>1
        <3>3. QED BY <2>5, <3>2
    <2>7. QED BY <2>2, <2>6 DEF ProbeRefuses
<1>5. CASE liveDir = {LastSeg}
    <2>1. ~BoundaryRefuses BY <1>5 DEF BoundaryRefuses
    <2>2. Boundary.next = 0 /\ Boundary.prev = GENESIS_PREV BY <1>5 DEF Boundary
    <2>3. t = 0 /\ h[t][1].prev = GENESIS_PREV
        <3>1. ASSUME NEW s \in Segs(h), Follows(h, s, t) PROVE FALSE
            <4>1. s = t BY <1>1, <1>3, <1>5
            <4>2. QED BY <1>t, <3>1, <4>1 DEF Follows
        <3>2. QED BY <3>1 DEF Chained
    <2>4. QED BY <1>2, <1>3, <1>4, <2>1, <2>2, <2>3
<1>6. CASE liveDir # {LastSeg}
    <2>1. PICK p \in Segs(h) \ {t} :
            p = PriorSeg /\ \A s \in Segs(h) \ {t} : s <= p
        <3>1. Segs(h) \ {t} # {} BY <1>1, <1>3, <1>6
        <3>2. Segs(h) \ {t} \in SUBSET Nat /\ MaxSeq \in Nat
              /\ \A s \in Segs(h) \ {t} : s <= MaxSeq
            BY BoundsAssumption DEF Segs, Names
        <3>3. /\ Max(Segs(h) \ {t}) \in Segs(h) \ {t}
              /\ \A s \in Segs(h) \ {t} : s <= Max(Segs(h) \ {t})
            BY <3>1, <3>2, MaxProperties
        <3>4. PriorSeg = Max(Segs(h) \ {t}) BY <1>1, <1>3 DEF PriorSeg
        <3>5. QED BY <3>3, <3>4
    <2>2. /\ p \in Nat /\ h[p] \in Seq(Cell) /\ h[p] # <<>> /\ Lines(h[p], p)
          /\ live[p] \in Seq(Cell) /\ Near(live[p], h[p])
        BY <1>1, SegmentFacts
    <2>3. /\ Len(h[p]) >= 1 /\ LastLine(live[p]) = Len(h[p])
          /\ \A i \in 1 .. Len(h[p]) : CarriesEnvelope(live[p], i)
        BY <2>2, NearReads
    <2>4. live[p][Len(h[p])] = h[p][Len(h[p])] /\ h[p][Len(h[p])].seq = p + Len(h[p]) - 1
        <3>1. Len(h[p]) \in 1 .. Len(h[p]) BY <2>2, <2>3
        <3>2. \A i \in 1 .. Len(h[p]) : live[p][i] = h[p][i] BY <2>2, NearFacts
        <3>3. \A i \in 1 .. Len(h[p]) : h[p][i].seq = p + i - 1 BY <2>2 DEF Lines
        <3>4. QED BY <3>1, <3>2, <3>3
    <2>5. ~BoundaryRefuses
        <3>1. CarriesEnvelope(live[p], LastLine(live[p])) BY <2>2, <2>3
        <3>2. LastLine(live[p]) > 0 BY <2>2, <2>3
        <3>3. QED BY <2>1, <3>1, <3>2 DEF BoundaryRefuses
    <2>6. Follows(h, p, t)
        <3>1. p < t
            <4>1. p <= t BY <1>2, <1>3 DEF LastOf
            <4>2. QED BY <1>t, <2>1, <2>2, <4>1
        <3>2. p + Len(h[p]) <= t BY <3>1 DEF Chained
        <3>3. PICK s \in Segs(h) : Follows(h, s, t)
            <4>1. t # 0 BY <1>t, <2>2, <3>1
            <4>2. QED BY <4>1 DEF Chained
        <3>4. s \in Nat /\ s < t /\ s + Len(h[s]) = t BY <3>3, SegmentFacts DEF Follows
        <3>5. s <= p BY <1>t, <2>1, <3>4
        <3>6. s = p
            <4>1. ASSUME s < p PROVE FALSE
                <5>1. s + Len(h[s]) <= p BY <4>1 DEF Chained
                <5>2. QED BY <1>t, <2>2, <3>1, <3>4, <5>1
            <4>2. QED BY <2>2, <3>4, <3>5, <4>1
        <3>7. QED BY <3>3, <3>6
    <2>7. Boundary = [prev |-> ChainHash(live[p][LastLine(live[p])]),
                      next |-> live[p][LastLine(live[p])].seq + 1]
        BY <1>6, <2>1 DEF Boundary
    <2>8. Boundary.prev = ChainHash(h[p][Len(h[p])]) BY <2>3, <2>4, <2>7
    <2>9. Boundary.next = p + Len(h[p]) BY <2>2, <2>3, <2>4, <2>7
    <2>10. QED BY <1>2, <1>3, <1>4, <2>5, <2>6, <2>8, <2>9 DEF Follows
<1>7. QED BY <1>5, <1>6

(* open accepts a ledger at rest and finds all of its lines valid.         *)
LEMMA OpenReads ==
    ASSUME TypeOK, NEW h \in Ledgers, Chained(h), AtRest(h), liveDir # {}
    PROVE  ~OpenRefuses /\ Valid = Len(h[LastSeg])
<1>1. /\ LastSeg \in Segs(h) /\ ~ProbeRefuses /\ ~BoundaryRefuses
      /\ Boundary.next = LastSeg /\ Boundary.prev = h[LastSeg][1].prev
    BY BoundaryReads
<1>2. PICK t \in Segs(h) : t = LastSeg BY <1>1
<1>3. PICK entry : entry = Boundary /\ entry.next = t /\ entry.prev = h[t][1].prev
    BY <1>1, <1>2
<1>4. /\ t \in Nat /\ h[t] \in Seq(Cell) /\ h[t] # <<>> /\ Lines(h[t], t)
      /\ live[t] \in Seq(Cell)
    BY SegmentFacts
<1>5. Near(live[t], h[t]) BY DEF AtRest, Steady
<1>6. ValidLen(live[t], entry) = Len(h[t]) BY <1>3, <1>4, <1>5, NearValid
<1>7. Valid = Len(h[t]) BY <1>2, <1>3, <1>6 DEF Valid
<1>8. ~HistoryAfter(live[t], Len(h[t])) BY <1>4, <1>5, NearReads
<1>9. QED BY <1>1, <1>2, <1>7, <1>8 DEF OpenRefuses

-----------------------------------------------------------------------------
(* What a wave makes of the ledger.                                        *)

(* The ledger once the wave under way has landed. *)
LandedIn(h) == [s \in Names |-> h[s] \o wave[s]]

(* The segments the wave has been appended to, and synced in. *)
Wrote == IF pc = "append" THEN Touched \ todo ELSE Touched
Synced == IF pc = "append" THEN {} ELSE IF pc = "sync" THEN Touched \ todo ELSE Touched

(* What the wave brings, whatever phase land is in. *)
Continues(h) ==
    /\ Touched # {} /\ todo \subseteq Touched
    /\ created = Touched \ Segs(h) /\ Touched \cap Segs(h) \subseteq {seg}
    /\ \A t \in Touched : seg <= t
    /\ len = 0 => seg \in Touched
    /\ LandedIn(h) \in Ledgers /\ Chained(LandedIn(h))

(* A wave on its way to the disk. *)
Writing(h) ==
    /\ At(h) /\ owed = {} /\ barrier = "Broken" /\ Continues(h)
    /\ \A s \in Segs(h) \ {seg} : Steady(h, s)
    /\ liveDir = Segs(h) \cup (created \cap Wrote)
    /\ durDir = IF pc = "landed" THEN liveDir ELSE Segs(h)
    /\ \A s \in Touched \cup {seg} : live[s] = IF s \in Wrote THEN h[s] \o wave[s] ELSE h[s]
    /\ \A s \in Synced : durable[s] = live[s]
    /\ seg \in Segs(h) \ Synced => Near(durable[seg], h[seg])

(* A failed wave, until restore has undone it. *)
Undoing(h) ==
    /\ At(h) /\ barrier = "Broken" /\ durDir = Segs(h)
    /\ \A s \in Segs(h) \ {seg} : Steady(h, s)
    /\ \E segs \in SUBSET Names :
        /\ owed = {segs} /\ liveDir \subseteq Segs(h) \cup segs /\ segs \cap Segs(h) = {}
        /\ seg \in segs <=> len = 0
    /\ pc \in {"unlinkdir", "cutback", "cutsync", "restored"} => liveDir = Segs(h)
    /\ pc \in {"cutback", "cutsync"} => len > 0
    /\ len > 0 => Recoverable(h, seg)
    /\ pc \in {"cutsync", "restored"} /\ len > 0 => live[seg] = h[seg]
    /\ pc = "restored" /\ len > 0 => durable[seg] = h[seg]

(* How the disk and the position stand to the ledger, by what the handle   *)
(* does next.                                                              *)
Story(h) ==
    /\ Base(h)
    /\ pc # "refused" /\ pc # "remove" /\ pc # "removedir"
    /\ pc = "closed" => AtRest(h)
    /\ pc = "idle" /\ owed = {} => AtRest(h) /\ At(h) /\ live[seg] = h[seg]
    /\ pc \in {"trunc", "truncsync", "trunclog"} => AtRest(h) /\ At(h) /\ len > 0
    /\ pc \in {"truncsync", "trunclog"} => live[seg] = h[seg]
    /\ pc \in Landing => Writing(h)
    /\ pc \in Restoring \/ (pc = "idle" /\ owed # {}) => Undoing(h)

(* The lines of a wave, when the position is the end of the ledger: they   *)
(* continue the file they are appended to.                                 *)
LEMMA LineFacts ==
    ASSUME TypeOK, NEW q \in Nat, NEW m \in Nat
    PROVE  /\ Line(q, m).seq = q /\ Line(q, m).whole /\ ChainHash(Line(q, m)) = <<q, m>>
           /\ Line(q, m).prev = IF q = next THEN prev ELSE <<q - 1, m>>
BY DEF Line, ChainHash

(* Where the wave's lines in segment s end, and which they are, from the   *)
(* first one on.                                                           *)
WaveEnds(s, first, n, rolls, m) ==
    \E past \in Nat :
        /\ past >= first /\ past <= next + n /\ (s \in rolls => past > first)
        /\ past = next + n \/ past \in rolls
        /\ \A r \in rolls : (s = seg \/ r > s) => past <= r
        /\ Len(WaveFor(s, n, rolls, m)) = past - first
        /\ \A i \in 1 .. past - first : WaveFor(s, n, rolls, m)[i] = Line(first + i - 1, m)

(* The lines a wave brings to one segment: chained, numbered from its      *)
(* first seq, and ending where the next roll or the wave ends.             *)
LEMMA WaveForLines ==
    ASSUME TypeOK, NEW n \in Nat, n >= 1, next + n - 1 <= MaxSeq,
           NEW rolls \in SUBSET (next .. next + n - 1), NEW m \in Nat,
           NEW s \in rolls \cup {seg}, seg \notin rolls,
           NEW first, first = IF s \in rolls THEN s ELSE next
    PROVE  WaveEnds(s, first, n, rolls, m)
<1> DEFINE P == {next + n} \cup {r \in rolls : r > first \/ s \notin rolls}
           past == Min(P)
<1>1. next \in Nat /\ first \in Nat /\ rolls \in SUBSET Nat BY DEF TypeOK
<1>2. P \in SUBSET Nat /\ next + n \in P
    <2>1. next + n \in Nat BY <1>1
    <2>2. {r \in rolls : r > first \/ s \notin rolls} \in SUBSET Nat BY <1>1
    <2>3. QED BY <2>1, <2>2
<1>3. past \in P /\ \A t \in P : past <= t BY <1>2, MinProperties
<1>4. \A t \in P : t = next + n \/ t \in rolls OBVIOUS
<1>5. \A r \in rolls : (s = seg \/ r > s) => r \in P OBVIOUS
<1>6. \A t \in P : t >= first /\ (s \in rolls => t > first)
    <2>1. first <= next + n /\ first >= next /\ (s \in rolls => first < next + n) BY <1>1
    <2>2. \A r \in rolls : r >= next BY <1>1
    <2>3. \A r \in rolls : r > first \/ s \notin rolls => r >= first /\ (s \in rolls => r > first)
        BY <1>1, <2>2
    <2>4. QED BY <2>1, <2>3
<1>7. WaveFor(s, n, rolls, m) = [i \in 1 .. past - first |-> Line(first + i - 1, m)]
    BY DEF WaveFor
<1> HIDE DEF P
<1>8. PICK p \in Nat : p = past BY <1>2, <1>3
<1>9. p \in P /\ \A t \in P : p <= t BY <1>3, <1>8
<1>10. /\ p >= first /\ p <= next + n /\ (s \in rolls => p > first)
       /\ p = next + n \/ p \in rolls
       /\ \A r \in rolls : (s = seg \/ r > s) => p <= r
    BY <1>2, <1>4, <1>5, <1>6, <1>9
<1>11. PICK w : w = WaveFor(s, n, rolls, m) OBVIOUS
<1>12. w = [i \in 1 .. p - first |-> Line(first + i - 1, m)] BY <1>7, <1>8, <1>11
<1>13. /\ Len(w) = p - first
       /\ \A i \in 1 .. p - first : w[i] = Line(first + i - 1, m)
    <2>1. p - first \in Nat BY <1>1, <1>10
    <2>2. QED BY <1>12, <2>1
<1>14. QED BY <1>10, <1>11, <1>13 DEF WaveEnds

(* The ledger with a wave in it, segment by segment: the segments the wave *)
(* does not reach are as they were, and the others end where the next one  *)
(* begins or where the wave ends.                                          *)
Shaped(h, w, k, n, rolls, m) ==
    /\ \A r \in rolls : r \in Names /\ r > seg /\ h[r] = <<>> /\ w[r] # <<>>
    /\ \A s \in Names \ (rolls \cup {seg}) : w[s] = <<>> /\ k[s] = h[s]
    /\ w[seg] = <<>> => next \in rolls
    /\ \A s \in rolls \cup {seg} :
         /\ s + Len(k[s]) <= next + n
         /\ s + Len(k[s]) = next + n \/ s + Len(k[s]) \in rolls
         /\ \A r \in rolls : r > s => s + Len(k[s]) <= r
         /\ \A i \in 1 .. Len(k[s]) : s + i - 1 >= next => k[s][i] = Line(s + i - 1, m)
    /\ Len(k[seg]) >= len /\ \A i \in 1 .. len : k[seg][i] = h[seg][i]

(* How the lines of a wave fall on the segments: the rolled segments are   *)
(* new and past the position, and each segment's lines end where the next  *)
(* one starts.                                                             *)
LEMMA WaveShape ==
    ASSUME TypeOK, NEW h \in Ledgers, Chained(h), At(h), NEW n \in Nat, n >= 1,
           next + n - 1 <= MaxSeq, NEW rolls \in SUBSET (next .. next + n - 1),
           len = 0 => next \notin rolls, NEW m \in Nat, NEW w \in Ledgers,
           \A s \in Names : w[s] = WaveFor(s, n, rolls, m),
           NEW k \in Ledgers, \A s \in Names : k[s] = h[s] \o w[s]
    PROVE  Shaped(h, w, k, n, rolls, m)
<1>1. /\ next \in Nat /\ seg \in Nat /\ len \in Nat /\ next = seg + len /\ len = Len(h[seg])
      /\ seg \in Names /\ Names \in SUBSET Nat
    BY CellFacts DEF TypeOK, At
<1>2. \A r \in rolls : r \in Nat /\ r >= next /\ r > seg /\ r \in Names
    <2>1. ASSUME NEW r \in rolls PROVE r \in Nat /\ r >= next /\ r > seg /\ r \in Names
        <3>1. r \in Nat /\ r >= next /\ r <= next + n - 1 BY <1>1
        <3>2. r > seg BY <1>1, <3>1
        <3>3. r \in Names BY <3>1, BoundsAssumption, <1>1 DEF Names
        <3>4. QED BY <3>1, <3>2, <3>3
    <2>2. QED BY <2>1
<1>3. seg \notin rolls BY <1>1, <1>2
<1>4. \A r \in rolls : h[r] = <<>>
    <2>1. ASSUME NEW r \in rolls, h[r] # <<>> PROVE FALSE
        <3>1. r \in Segs(h) BY <1>2, <2>1 DEF Segs
        <3>2. r <= seg BY <3>1 DEF At, LastOf
        <3>3. QED BY <1>1, <1>2, <3>2
    <2>2. QED BY <2>1
<1>5. \A s \in Names \ (rolls \cup {seg}) : w[s] = <<>> BY DEF WaveFor
<1>6. \A s \in Names \ (rolls \cup {seg}) : k[s] = h[s]
    <2>1. ASSUME NEW s \in Names \ (rolls \cup {seg}) PROVE k[s] = h[s]
        <3>1. k[s] = h[s] \o <<>> /\ h[s] \in Seq(Cell) BY <1>5 DEF Ledgers
        <3>2. QED BY <3>1
    <2>2. QED BY <2>1
<1>7. ASSUME NEW s \in rolls
      PROVE  /\ w[s] # <<>> /\ s + Len(k[s]) <= next + n
             /\ s + Len(k[s]) = next + n \/ s + Len(k[s]) \in rolls
             /\ \A r \in rolls : r > s => s + Len(k[s]) <= r
             /\ \A i \in 1 .. Len(k[s]) : k[s][i] = Line(s + i - 1, m)
    <2>0. WaveEnds(s, s, n, rolls, m)
        <3>1. s \in rolls \cup {seg} /\ s = IF s \in rolls THEN s ELSE next OBVIOUS
        <3>2. QED BY <1>3, <3>1, WaveForLines
    <2>1. PICK past \in Nat :
            /\ past <= next + n /\ past > s
            /\ past = next + n \/ past \in rolls
            /\ \A r \in rolls : r > s => past <= r
            /\ Len(WaveFor(s, n, rolls, m)) = past - s
            /\ \A i \in 1 .. past - s : WaveFor(s, n, rolls, m)[i] = Line(s + i - 1, m)
        BY <2>0 DEF WaveEnds
    <2>2. s \in Names /\ s \in Nat BY <1>2
    <2>3. k[s] = w[s] /\ w[s] \in Seq(Cell)
        <3>1. k[s] = <<>> \o w[s] /\ w[s] \in Seq(Cell) BY <1>4, <2>2 DEF Ledgers
        <3>2. QED BY <3>1
    <2>4. /\ Len(w[s]) = past - s
          /\ \A i \in 1 .. past - s : w[s][i] = Line(s + i - 1, m)
        BY <2>1, <2>2
    <2>5. s + Len(k[s]) = past BY <2>2, <2>3, <2>4
    <2>6. w[s] # <<>> BY <2>1, <2>2, <2>3, <2>4
    <2>7. \A i \in 1 .. Len(k[s]) : k[s][i] = Line(s + i - 1, m) BY <2>3, <2>4
    <2>8. QED BY <2>1, <2>5, <2>6, <2>7
<1>8. /\ w[seg] = <<>> => next \in rolls
      /\ seg + Len(k[seg]) <= next + n
      /\ seg + Len(k[seg]) = next + n \/ seg + Len(k[seg]) \in rolls
      /\ \A r \in rolls : r > seg => seg + Len(k[seg]) <= r
      /\ \A i \in 1 .. Len(k[seg]) : seg + i - 1 >= next => k[seg][i] = Line(seg + i - 1, m)
      /\ Len(k[seg]) >= len /\ \A i \in 1 .. len : k[seg][i] = h[seg][i]
    <2>a. PICK e \in Nat : e = next BY <1>1
    <2>b. PICK z \in Nat : z = seg BY <1>1
    <2>c. PICK c \in Seq(Cell) : c = h[seg] BY <1>1 DEF Ledgers
    <2>d. PICK v \in Seq(Cell) : v = w[seg] BY <1>1 DEF Ledgers
    <2>e. PICK g \in Seq(Cell) : g = k[seg] BY <1>1 DEF Ledgers
    <2>f. g = c \o v /\ e = z + Len(c) BY <1>1, <2>a, <2>b, <2>c, <2>d, <2>e
    <2>1. \E past \in Nat :
            /\ past >= e /\ past <= e + n
            /\ past = e + n \/ past \in rolls
            /\ \A r \in rolls : past <= r
            /\ Len(v) = past - e
            /\ \A i \in 1 .. past - e : v[i] = Line(e + i - 1, m)
        <3>1. seg \in rolls \cup {seg} /\ e = IF seg \in rolls THEN seg ELSE next
            BY <1>3, <2>a
        <3>2. v = WaveFor(seg, n, rolls, m) BY <1>1, <2>d
        <3>3. WaveEnds(seg, e, n, rolls, m) BY <1>3, <3>1, WaveForLines
        <3>4. QED BY <2>a, <3>2, <3>3 DEF WaveEnds
    <2>2. PICK past \in Nat :
            /\ past >= e /\ past <= e + n
            /\ past = e + n \/ past \in rolls
            /\ \A r \in rolls : past <= r
            /\ Len(v) = past - e
            /\ \A i \in 1 .. past - e : v[i] = Line(e + i - 1, m)
        BY <2>1
    <2>4. /\ Len(g) = Len(c) + Len(v)
          /\ \A i \in 1 .. Len(c) : g[i] = c[i]
          /\ \A i \in 1 .. Len(v) : g[Len(c) + i] = v[i]
        BY <2>f
    <2>5. z + Len(g) = past BY <2>2, <2>4, <2>f
    <2>6. v = <<>> => e \in rolls
        <3>1. v = <<>> => past = e BY <2>2
        <3>2. QED BY <2>2, <3>1
    <2>7. ASSUME NEW i \in 1 .. Len(g), z + i - 1 >= e
          PROVE  g[i] = Line(z + i - 1, m)
        <3>a. i > Len(c) /\ i \in Nat /\ Len(c) \in Nat BY <2>f, <2>7
        <3>b. i - Len(c) \in Nat /\ i - Len(c) >= 1 BY <3>a
        <3>1. PICK j \in Nat : j = i - Len(c) /\ j >= 1 BY <3>b
        <3>2. j \in 1 .. past - e /\ i = Len(c) + j /\ z + i - 1 = e + j - 1
            BY <2>2, <2>4, <2>f, <3>1
        <3>3. g[Len(c) + j] = v[j] BY <2>2, <2>4, <3>2
        <3>4. v[j] = Line(e + j - 1, m) BY <2>2, <3>2
        <3>5. QED BY <3>2, <3>3, <3>4
    <2>8. Len(g) >= Len(c) /\ \A i \in 1 .. Len(c) : g[i] = c[i] BY <2>4
    <2>9. /\ w[seg] = <<>> => next \in rolls
          /\ seg + Len(k[seg]) <= next + n
          /\ seg + Len(k[seg]) = next + n \/ seg + Len(k[seg]) \in rolls
          /\ \A r \in rolls : r > seg => seg + Len(k[seg]) <= r
        BY <2>a, <2>b, <2>d, <2>e, <2>2, <2>5, <2>6
    <2>10. \A i \in 1 .. Len(k[seg]) : seg + i - 1 >= next => k[seg][i] = Line(seg + i - 1, m)
        BY <2>a, <2>b, <2>e, <2>7
    <2>11. Len(k[seg]) >= len /\ \A i \in 1 .. len : k[seg][i] = h[seg][i]
        BY <1>1, <2>c, <2>e, <2>8
    <2>12. QED BY <2>9, <2>10, <2>11
<1>9. QED BY <1>2, <1>4, <1>5, <1>6, <1>7, <1>8 DEF Shaped

(* A wave that starts at the end of the ledger continues its chain, over   *)
(* however many segments it rolls.                                         *)
LEMMA WaveChained ==
    ASSUME TypeOK, NEW h \in Ledgers, Chained(h), At(h), NEW n \in Nat, n >= 1,
           next + n - 1 <= MaxSeq, NEW rolls \in SUBSET (next .. next + n - 1),
           len = 0 => next \notin rolls, NEW m \in Nat, NEW w \in Ledgers,
           \A s \in Names : w[s] = WaveFor(s, n, rolls, m),
           NEW k \in Ledgers, \A s \in Names : k[s] = h[s] \o w[s]
    PROVE  Chained(k)
<1>0. Shaped(h, w, k, n, rolls, m) BY WaveShape
<1>a. PICK e \in Nat : e = next BY DEF TypeOK
<1>b. PICK z \in Names : z = seg BY DEF TypeOK
<1>c. z \in Nat /\ Names \in SUBSET Nat /\ e = z + Len(h[z]) /\ h[z] \in Seq(Cell)
      /\ LastOf(h, z) /\ len = Len(h[z]) /\ k[z] \in Seq(Cell)
      /\ (Len(h[z]) = 0 => z = 0 /\ Segs(h) = {})
    BY <1>a, <1>b, CellFacts DEF At, Ledgers
<1>d. prev = IF Len(h[z]) = 0 THEN GENESIS_PREV ELSE ChainHash(h[z][Len(h[z])])
    BY <1>b, <1>c DEF At
<1>1. \A r \in rolls : r \in Names /\ r \in Nat /\ r > z /\ r >= e /\ h[r] = <<>> /\ r < e + n
    <2>1. \A r \in rolls : r \in Nat /\ r >= e /\ r < e + n BY <1>a
    <2>2. QED BY <1>0, <1>b, <2>1 DEF Shaped
<1>2. \A s \in Names \ (rolls \cup {z}) : k[s] = h[s] BY <1>0, <1>b DEF Shaped
<1>3. \A s \in rolls \cup {z} :
        /\ s + Len(k[s]) = e + n \/ s + Len(k[s]) \in rolls
        /\ \A r \in rolls : r > s => s + Len(k[s]) <= r
        /\ \A i \in 1 .. Len(k[s]) : s + i - 1 >= e => k[s][i] = Line(s + i - 1, m)
    BY <1>0, <1>a, <1>b DEF Shaped
<1>4. Len(k[z]) >= Len(h[z]) /\ \A i \in 1 .. Len(h[z]) : k[z][i] = h[z][i]
    BY <1>0, <1>b, <1>c DEF Shaped
<1>5. \A q \in Nat : Line(q, m).seq = q /\ Line(q, m).whole BY LineFacts
<1>p. \A q \in Nat : q # e => Line(q, m).prev = ChainHash(Line(q - 1, m))
    <2>1. ASSUME NEW q \in Nat, q # e, NEW o, o = q - 1
          PROVE  Line(q, m).prev = ChainHash(Line(o, m))
        BY <1>a, <2>1 DEF Line, ChainHash
    <2>2. QED BY <2>1
<1>g. Line(e, m).prev = prev BY <1>a DEF Line
<1>6. \A r \in rolls : w[r] # <<>> /\ k[r] \in Seq(Cell) /\ k[r] # <<>> /\ Len(k[r]) >= 1
    <2>1. ASSUME NEW r \in rolls
          PROVE  w[r] # <<>> /\ k[r] \in Seq(Cell) /\ k[r] # <<>> /\ Len(k[r]) >= 1
        <3>1. r \in Names /\ w[r] # <<>> BY <1>0 DEF Shaped
        <3>2. w[r] \in Seq(Cell) /\ k[r] \in Seq(Cell) /\ k[r] = h[r] \o w[r] /\ h[r] = <<>>
            BY <1>1, <3>1 DEF Ledgers
        <3>3. k[r] = w[r] BY <3>2
        <3>4. QED BY <3>1, <3>2, <3>3
    <2>2. QED BY <2>1
<1>7. Segs(k) \subseteq Segs(h) \cup rolls \cup {z} BY <1>2 DEF Segs
<1>8. ASSUME NEW s \in Names PROVE Lines(k[s], s)
    <2>1. CASE s \notin rolls \cup {z} BY <1>2, <2>1 DEF Chained
    <2>2. CASE s \in rolls
        <3>1. ASSUME NEW i \in 1 .. Len(k[s])
              PROVE  /\ k[s][i].whole /\ k[s][i].seq = s + i - 1
                     /\ i > 1 => k[s][i].prev = ChainHash(k[s][i - 1])
            <4>1. s \in Nat /\ s >= e /\ k[s] \in Seq(Cell) /\ i \in Nat /\ i >= 1
                BY <1>1, <1>6, <2>2
            <4>2. PICK q \in Nat : q = s + i - 1 /\ q >= e BY <4>1
            <4>3. k[s][i] = Line(q, m) BY <1>3, <2>2, <4>2
            <4>4. ASSUME i > 1 PROVE k[s][i].prev = ChainHash(k[s][i - 1])
                <5>1. q - 1 \in Nat /\ i - 1 \in 1 .. Len(k[s]) /\ q - 1 = s + (i - 1) - 1
                      /\ q - 1 >= e /\ q # e
                    BY <4>1, <4>2, <4>4
                <5>2. k[s][i - 1] = Line(q - 1, m) BY <1>3, <2>2, <5>1
                <5>3. QED BY <1>p, <4>3, <5>1, <5>2
            <4>5. QED BY <1>5, <4>2, <4>3, <4>4
        <3>2. QED BY <3>1 DEF Lines
    <2>3. CASE s = z
        <3>0. Lines(h[z], z) BY DEF Chained
        <3>1. ASSUME NEW i \in 1 .. Len(k[z])
              PROVE  /\ k[z][i].whole /\ k[z][i].seq = z + i - 1
                     /\ i > 1 => k[z][i].prev = ChainHash(k[z][i - 1])
            <4>0. i \in Nat /\ i >= 1 /\ Len(h[z]) \in Nat BY <1>c
            <4>1. CASE i <= Len(h[z])
                <5>1. i \in 1 .. Len(h[z]) /\ (i > 1 => i - 1 \in 1 .. Len(h[z])) BY <4>0, <4>1
                <5>2. k[z][i] = h[z][i] /\ (i > 1 => k[z][i - 1] = h[z][i - 1])
                    BY <1>4, <5>1
                <5>3. QED BY <3>0, <5>1, <5>2 DEF Lines
            <4>2. CASE i > Len(h[z])
                <5>1. PICK q \in Nat : q = z + i - 1 /\ q >= e BY <1>c, <4>0, <4>2
                <5>2. k[z][i] = Line(q, m) BY <1>3, <5>1
                <5>3. ASSUME i > 1, i = Len(h[z]) + 1
                      PROVE k[z][i].prev = ChainHash(k[z][i - 1])
                    <6>1. q = e BY <1>c, <5>1, <5>3
                    <6>2. Len(h[z]) \in 1 .. Len(h[z]) /\ i - 1 = Len(h[z]) BY <4>0, <5>3
                    <6>3. k[z][i - 1] = h[z][Len(h[z])] BY <1>4, <6>2
                    <6>4. prev = ChainHash(h[z][Len(h[z])]) BY <1>d, <6>2
                    <6>5. QED BY <1>g, <5>2, <6>1, <6>3, <6>4
                <5>4. ASSUME i > 1, i # Len(h[z]) + 1
                      PROVE k[z][i].prev = ChainHash(k[z][i - 1])
                    <6>1. q - 1 \in Nat /\ i - 1 \in 1 .. Len(k[z]) /\ q - 1 = z + (i - 1) - 1
                          /\ q - 1 >= e /\ q # e
                        <7>1. i \in Nat /\ i <= Len(k[z]) /\ Len(k[z]) \in Nat BY <1>c, <4>0
                        <7>2. i >= Len(h[z]) + 2 BY <4>0, <4>2, <5>4
                        <7>3. q = z + i - 1 /\ e = z + Len(h[z]) /\ z \in Nat /\ q \in Nat
                            BY <1>c, <5>1
                        <7>4. q - 1 >= e /\ q - 1 \in Nat /\ q # e
                            BY <4>0, <7>1, <7>2, <7>3
                        <7>5. i - 1 \in 1 .. Len(k[z]) /\ q - 1 = z + (i - 1) - 1
                            BY <5>4, <7>1, <7>3
                        <7>6. QED BY <7>4, <7>5
                    <6>2. k[z][i - 1] = Line(q - 1, m) BY <1>3, <6>1
                    <6>3. QED BY <1>p, <5>2, <6>1, <6>2
                <5>5. QED BY <1>5, <5>1, <5>2, <5>3, <5>4
            <4>3. QED BY <4>0, <4>1, <4>2
        <3>2. QED BY <2>3, <3>1 DEF Lines
    <2>4. QED BY <2>1, <2>2, <2>3
<1>9. ASSUME NEW s \in Segs(k), NEW t \in Segs(k), s < t PROVE s + Len(k[s]) <= t
    <2>1. s \in Nat /\ t \in Nat /\ s \in Names /\ t \in Names BY <1>c DEF Segs
    <2>2. CASE t \in rolls
        <3>1. CASE s \in rolls \cup {z} BY <1>3, <1>9, <2>2, <3>1
        <3>2. CASE s \notin rolls \cup {z}
            <4>1. k[s] = h[s] /\ s \in Segs(h) BY <1>2, <2>1, <3>2 DEF Segs
            <4>2. s < z BY <1>c, <2>1, <3>2, <4>1 DEF LastOf
            <4>3. z \in Segs(h) BY <1>c, <4>1 DEF Segs
            <4>4. s + Len(h[s]) <= z BY <4>1, <4>2, <4>3 DEF Chained
            <4>5. h[s] \in Seq(Cell) BY <2>1 DEF Ledgers
            <4>6. QED BY <1>1, <1>c, <2>1, <2>2, <4>1, <4>4, <4>5
        <3>3. QED BY <3>1, <3>2
    <2>3. CASE t \notin rolls
        <3>1. t <= z
            <4>1. t = z \/ t \in Segs(h) BY <1>7, <2>3
            <4>2. QED BY <1>c, <4>1 DEF LastOf
        <3>2. s \notin rolls \cup {z}
            <4>1. s < z BY <1>9, <1>c, <2>1, <3>1
            <4>2. QED BY <1>1, <1>c, <2>1, <4>1
        <3>3. k[s] = h[s] /\ s \in Segs(h) BY <1>2, <2>1, <3>2 DEF Segs
        <3>4. t \in Segs(h)
            <4>1. z \in Segs(h) BY <1>c, <3>3 DEF Segs
            <4>2. QED BY <1>7, <2>3, <4>1
        <3>5. QED BY <1>9, <3>3, <3>4 DEF Chained
    <2>4. QED BY <2>2, <2>3
<1>10. ASSUME NEW t \in Segs(k)
       PROVE  \/ t = 0 /\ k[t][1].prev = GENESIS_PREV
              \/ \E s \in Segs(k) : Follows(k, s, t)
    <2>1. t \in Names /\ t \in Nat BY <1>c DEF Segs
    <2>2. CASE t \in Segs(h)
        <3>1. k[t][1] = h[t][1]
            <4>1. t \notin rolls BY <1>1, <2>2 DEF Segs
            <4>2. CASE t # z BY <1>2, <2>1, <4>1, <4>2
            <4>3. CASE t = z
                <5>1. 1 \in 1 .. Len(h[z]) BY <1>c, <2>2, <4>3 DEF Segs
                <5>2. QED BY <1>4, <4>3, <5>1
            <4>4. QED BY <4>2, <4>3
        <3>2. CASE \E s \in Segs(h) : Follows(h, s, t)
            <4>1. PICK s \in Segs(h) : Follows(h, s, t) BY <3>2
            <4>2. s \in Names /\ s \in Nat BY <1>c DEF Segs
            <4>3. s < z
                <5>1. t <= z /\ s < t BY <1>c, <2>2, <4>1 DEF LastOf, Follows
                <5>2. QED BY <1>c, <2>1, <4>2, <5>1
            <4>4. k[s] = h[s]
                <5>1. s \notin rolls \cup {z} BY <1>1, <1>c, <4>2, <4>3
                <5>2. QED BY <1>2, <4>2, <5>1
            <4>5. s \in Segs(k) /\ Follows(k, s, t) BY <3>1, <4>1, <4>4 DEF Follows, Segs
            <4>6. QED BY <4>5
        <3>3. QED BY <2>2, <3>1, <3>2 DEF Chained
    <2>3. CASE t \notin Segs(h) /\ t = z
        <3>1. Len(h[z]) = 0 /\ k[z] # <<>> BY <1>c, <2>3 DEF Segs
        <3>2. z = 0 /\ e = 0 /\ prev = GENESIS_PREV BY <1>c, <1>d, <3>1
        <3>3. 1 \in 1 .. Len(k[z]) /\ z + 1 - 1 >= e /\ z + 1 - 1 = e BY <1>c, <3>1, <3>2
        <3>4. k[z][1] = Line(e, m) BY <1>3, <3>3
        <3>5. QED BY <1>g, <2>3, <3>2, <3>4
    <2>4. CASE t \in rolls
        <3>1. PICK s \in rolls \cup {z} : s < t /\ s + Len(k[s]) = t
            <4> DEFINE R == {r \in rolls : r < t}
            <4>1. CASE R = {}
                <5>1. z < t /\ z + Len(k[z]) <= t BY <1>1, <1>3, <2>4
                <5>2. z + Len(k[z]) \in rolls
                    <6>1. z + Len(k[z]) # e + n BY <1>1, <1>a, <1>c, <2>1, <2>4, <5>1
                    <6>2. QED BY <1>3, <6>1
                <5>3. ~(z + Len(k[z]) < t) BY <4>1, <5>2
                <5>4. z + Len(k[z]) = t BY <1>c, <2>1, <5>1, <5>3
                <5>5. QED BY <5>1, <5>4
            <4>2. CASE R # {}
                <5>a. \A r \in rolls : r < t => r <= t /\ r \in Nat BY <1>1, <2>1
                <5>1. R \in SUBSET Nat /\ \A r \in R : r <= t /\ r \in rolls /\ r < t
                    BY <5>a, Zenon
                <5>2. \A r \in rolls : r < t => r \in R OBVIOUS
                <5> HIDE DEF R
                <5>3. PICK s \in R : \A r \in R : r <= s BY <2>1, <4>2, <5>1, MaxProperties
                <5>4. s \in rolls /\ s < t /\ s \in Nat BY <5>1
                <5>5. s + Len(k[s]) <= t BY <1>3, <2>4, <5>4
                <5>6. k[s] \in Seq(Cell) /\ Len(k[s]) >= 1 BY <1>6, <5>4
                <5>7. s + Len(k[s]) # e + n BY <1>1, <1>a, <2>1, <2>4, <5>4, <5>5, <5>6
                <5>8. s + Len(k[s]) \in rolls BY <1>3, <5>4, <5>7
                <5>9. ~(s + Len(k[s]) < t)
                    <6>1. ASSUME s + Len(k[s]) < t PROVE FALSE
                        <7>1. s + Len(k[s]) <= s BY <5>2, <5>3, <5>8, <6>1
                        <7>2. QED BY <5>4, <5>6, <7>1
                    <6>2. QED BY <6>1
                <5>10. s + Len(k[s]) = t BY <2>1, <5>4, <5>5, <5>6, <5>9
                <5>11. QED BY <5>4, <5>10
            <4>3. QED BY <4>1, <4>2
        <3>2. s \in Names /\ s \in Nat /\ k[s] \in Seq(Cell) BY <1>1, <1>c, <1>6
        <3>3. Len(k[s]) >= 1 /\ s \in Segs(k) BY <2>1, <3>1, <3>2 DEF Segs
        <3>4. k[t][1] = Line(t, m)
            <4>1. 1 \in 1 .. Len(k[t]) /\ t + 1 - 1 >= e /\ t + 1 - 1 = t BY <1>1, <1>6, <2>4
            <4>2. QED BY <1>3, <2>4, <4>1
        <3>5. k[t][1].prev = ChainHash(k[s][Len(k[s])])
            <4>1. CASE t = e
                <5>1. s = z BY <1>1, <1>c, <3>1, <3>2, <4>1
                <5>2. Len(k[z]) = Len(h[z]) BY <1>c, <3>1, <4>1, <5>1
                <5>3. Len(h[z]) \in 1 .. Len(h[z]) BY <1>c, <3>3, <5>1, <5>2
                <5>4. k[z][Len(h[z])] = h[z][Len(h[z])] BY <1>4, <5>3
                <5>5. QED BY <1>g, <1>d, <3>4, <4>1, <5>1, <5>2, <5>3, <5>4
            <4>2. CASE t # e
                <5>1. t > e BY <1>1, <2>4, <4>2, <2>1
                <5>2. Len(k[s]) \in 1 .. Len(k[s]) /\ s + Len(k[s]) - 1 = t - 1 /\ t - 1 >= e
                      /\ t - 1 \in Nat
                    BY <2>1, <3>1, <3>2, <3>3, <5>1
                <5>3. k[s][Len(k[s])] = Line(t - 1, m) BY <1>3, <5>2
                <5>4. QED BY <1>p, <2>1, <3>4, <4>2, <5>2, <5>3
            <4>3. QED BY <4>1, <4>2
        <3>6. QED BY <3>1, <3>3, <3>5 DEF Follows
    <2>5. QED BY <1>7, <2>2, <2>3, <2>4
<1>11. QED BY <1>8, <1>9, <1>10 DEF Chained

-----------------------------------------------------------------------------
(* Every action of the handle keeps the story.                             *)

(* The variables the story of the ledger is told in, the wave aside. *)
plot == <<live, durable, liveDir, durDir, seg, len, next, prev, owed, acked>>

(* A step that leaves the disk alone leaves what is said of it.            *)
LEMMA UnchangedParts ==
    ASSUME NEW h, UNCHANGED <<live, durable, liveDir, durDir, acked>>
    PROVE  /\ Base(h) => Base(h)'
           /\ \A s : Steady(h, s) => Steady(h, s)'
           /\ \A s : Recoverable(h, s) => Recoverable(h, s)'
BY DEF Base, Steady, Recoverable

(* Starting a wave, from a caller or inside open.                          *)
LEMMA StartWaveStory ==
    ASSUME TypeOK, NEW h \in Ledgers, Base(h), AtRest(h), At(h), live[seg] = h[seg],
           NEW n \in Nat, n >= 1, next + n - 1 <= MaxSeq, NEW rolls \in Rolls(n),
           StartWave(n, rolls), UNCHANGED plot
    PROVE  Story(h)'
<1>0. UNCHANGED <<live, durable, liveDir, durDir, seg, len, next, prev, owed, acked>>
    BY DEF plot
<1>1. /\ rolls \in SUBSET (next .. next + n - 1) /\ (len = 0 => next \notin rolls)
      /\ Chained(h)
    BY DEF Rolls, Base
<1>2. PICK m \in Nat : m = waves + 1 BY DEF TypeOK
<1>3. wave' \in Ledgers BY <1>1, StartWaveType DEF Ledgers
<1>4. PICK w \in Ledgers : w = wave' /\ \A s \in Names : w[s] = WaveFor(s, n, rolls, m)
    BY <1>2, <1>3 DEF StartWave
<1>5. PICK k \in Ledgers : k = [s \in Names |-> h[s] \o w[s]]
    <2>1. \A s \in Names : h[s] \o w[s] \in Seq(Cell) BY DEF Ledgers
    <2>2. QED BY <2>1 DEF Ledgers
<1>6. \A s \in Names : k[s] = h[s] \o w[s] BY <1>5
<1>7. Shaped(h, w, k, n, rolls, m) /\ Chained(k)
    <2>1. \A s \in Names : w[s] = WaveFor(s, n, rolls, m) BY <1>4
    <2>2. Shaped(h, w, k, n, rolls, m) BY <1>1, <1>6, <2>1, WaveShape
    <2>3. Chained(k) BY <1>1, <1>6, <2>1, WaveChained
    <2>4. QED BY <2>2, <2>3
<1>8. Base(h)' BY <1>0, UnchangedParts
<1>9. At(h)' BY <1>0 DEF At
<1>10. PICK T \in SUBSET Names : T = Touched' /\ T = {s \in Names : w[s] # <<>>}
    BY <1>4 DEF Touched
<1>11. /\ rolls \subseteq T /\ T \subseteq rolls \cup {seg} /\ (seg \notin T => next \in rolls)
       /\ \A r \in rolls : r > seg /\ h[r] = <<>> /\ r \notin Segs(h)
    BY <1>7, <1>10 DEF Shaped, Segs, TypeOK
<1>12. (len = 0 <=> seg \notin Segs(h)) /\ liveDir = Segs(h) /\ durDir = Segs(h) /\ owed = {}
       /\ seg \in Names /\ h[seg] \in Seq(Cell) /\ seg \in Nat
    <2>1. seg \in Names /\ h[seg] \in Seq(Cell) /\ len = Len(h[seg]) /\ seg \in Nat
        BY CellFacts DEF TypeOK, Ledgers, At
    <2>2. len = 0 <=> h[seg] = <<>> BY <2>1
    <2>3. QED BY <2>1, <2>2 DEF Segs, AtRest
<1>13. created' = T \ Segs(h)
    <2>1. created' = rolls \cup IF len = 0 THEN {seg} ELSE {}
        BY <1>12 DEF StartWave, Creates
    <2>2. len = 0 => seg \in T /\ seg \notin Segs(h) BY <1>1, <1>11, <1>12
    <2>3. QED BY <1>11, <1>12, <2>1, <2>2
<1>14. Continues(h)'
    <2>1. T # {} BY <1>11
    <2>2. todo' = T BY <1>10 DEF StartWave
    <2>a. \A t \in rolls : t \in Nat BY <1>10, <1>11, CellFacts
    <2>b. \A t \in rolls : seg <= t BY <1>11, <1>12, <2>a
    <2>c. seg <= seg BY <1>12
    <2>3. T \cap Segs(h) \subseteq {seg} /\ \A t \in T : seg <= t BY <1>11, <2>b, <2>c
    <2>4. len = 0 => seg \in T BY <1>1, <1>11
    <2>5. LandedIn(h)' = k BY <1>4, <1>5 DEF LandedIn
    <2>6. QED BY <1>0, <1>7, <1>10, <1>13, <2>1, <2>2, <2>3, <2>4, <2>5 DEF Continues
<1>15. Writing(h)'
    <2>1. pc' = "append" /\ barrier' = "Broken" /\ todo' = T BY <1>10 DEF StartWave
    <2>2. Wrote' = {} /\ Synced' = {} BY <1>10, <2>1 DEF Wrote, Synced
    <2>3. \A s \in Segs(h) : Near(live[s], h[s]) /\ Near(durable[s], h[s])
        BY DEF AtRest, Steady
    <2>4. \A s \in T \cup {seg} : live[s] = h[s]
        <3>1. \A r \in rolls : live[r] = h[r]
            BY <1>10, <1>11, <1>12 DEF Base
        <3>2. QED BY <1>11, <3>1
    <2>5. QED BY <1>0, <1>9, <1>10, <1>12, <1>14, <2>1, <2>2, <2>3, <2>4
            DEF Writing, Steady
<1>16. pc' = "append" BY DEF StartWave
<1>17. QED BY <1>8, <1>15, <1>16 DEF Story, Restoring

(* seg_len is zero exactly when the position's segment does not exist.     *)
LEMMA PositionFacts ==
    ASSUME TypeOK, NEW h \in Ledgers, At(h)
    PROVE  /\ seg \in Names /\ seg \in Nat /\ h[seg] \in Seq(Cell) /\ len \in Nat
           /\ len = Len(h[seg]) /\ (len = 0 <=> seg \notin Segs(h))
           /\ (len > 0 <=> seg \in Segs(h)) /\ LastOf(h, seg)
<1>1. seg \in Names /\ h[seg] \in Seq(Cell) /\ len = Len(h[seg]) /\ seg \in Nat /\ LastOf(h, seg)
    BY CellFacts DEF TypeOK, Ledgers, At
<1>2. len \in Nat /\ (len = 0 <=> h[seg] = <<>>) BY <1>1
<1>3. QED BY <1>1, <1>2 DEF Segs

(* land writes the next segment's lines: only the live plane moves, and a  *)
(* created segment gets an entry that is not yet durable.                  *)
LEMMA LandAppendStory ==
    ASSUME TypeOK, NEW h \in Ledgers, Story(h), LandAppend
    PROVE  Story(h)'
<1>1. PICK s \in todo :
        /\ live' = [live EXCEPT ![s] = @ \o wave[s]]
        /\ liveDir' = liveDir \cup {s}
        /\ \/ todo = {s} /\ pc' = "sync" /\ todo' = Touched
           \/ todo # {s} /\ pc' = "append" /\ todo' = todo \ {s}
    BY DEF LandAppend, First
<1>2. /\ pc = "append"
      /\ UNCHANGED <<durable, durDir, seg, len, next, prev, barrier, owed, wave, created, acked>>
    BY DEF LandAppend, position, history
<1>3. Base(h) /\ Writing(h) BY <1>2 DEF Story, Landing
<1>4. Touched' = Touched /\ LandedIn(h)' = LandedIn(h) BY <1>2 DEF Touched, LandedIn
<1>5. At(h)' BY <1>2, <1>3 DEF Writing, At
<1>6. /\ Touched # {} /\ todo \subseteq Touched
      /\ created = Touched \ Segs(h) /\ Touched \cap Segs(h) \subseteq {seg}
      /\ \A t \in Touched : seg <= t
      /\ len = 0 => seg \in Touched
      /\ LandedIn(h) \in Ledgers /\ Chained(LandedIn(h))
    BY <1>3 DEF Writing, Continues
<1>7. s \in Touched /\ s \in Names /\ Touched \subseteq Names BY <1>6 DEF Touched
<1>8. Wrote = Touched \ todo /\ Wrote' = Wrote \cup {s} /\ Synced = {} /\ Synced' = {}
    BY <1>1, <1>2, <1>4, <1>6, <1>7 DEF Wrote, Synced
<1>9. live'[s] = live[s] \o wave[s] /\ \A u \in Names \ {s} : live'[u] = live[u]
    BY <1>1, <1>7 DEF TypeOK
<1>10. live'[s] = h[s] \o wave[s]
    <2>1. live[s] = h[s] BY <1>3, <1>7, <1>8 DEF Writing
    <2>2. QED BY <1>9, <2>1
<1>11. Base(h)'
    <2>1. \A u \in Names \ liveDir' : live'[u] = <<>> BY <1>1, <1>3, <1>9 DEF Base
    <2>2. QED BY <1>1, <1>2, <1>3, <2>1 DEF Base
<1>12. Continues(h)'
    <2>1. todo' \subseteq Touched BY <1>1, <1>6
    <2>2. QED BY <1>2, <1>4, <1>6, <2>1 DEF Continues
<1>13. Writing(h)'
    <2>1. \A u \in Segs(h) \ {seg} : Steady(h, u)'
        <3>1. \A u \in Segs(h) \ {seg} : u \in Names \ {s} BY <1>6, <1>7 DEF Segs
        <3>2. QED BY <1>2, <1>3, <1>9, <3>1 DEF Writing, Steady
    <2>2. liveDir' = Segs(h) \cup (created \cap Wrote')
        <3>1. liveDir = Segs(h) \cup (created \cap Wrote) BY <1>3 DEF Writing
        <3>2. QED BY <1>1, <1>6, <1>7, <1>8, <3>1
    <2>3. durDir' = Segs(h) /\ pc' # "landed" BY <1>1, <1>2, <1>3 DEF Writing
    <2>4. \A u \in Touched \cup {seg} : live'[u] = IF u \in Wrote' THEN h[u] \o wave[u] ELSE h[u]
        <3>1. \A u \in Touched \cup {seg} : live[u] = IF u \in Wrote THEN h[u] \o wave[u] ELSE h[u]
            BY <1>3 DEF Writing
        <3>2. \A u \in Touched \cup {seg} : u \in Names BY <1>7 DEF TypeOK
        <3>3. QED BY <1>8, <1>9, <1>10, <3>1, <3>2
    <2>5. seg \in Segs(h) => Near(durable[seg], h[seg]) BY <1>3, <1>8 DEF Writing
    <2>6. owed = {} /\ barrier = "Broken" BY <1>3 DEF Writing
    <2>7. QED BY <1>2, <1>4, <1>5, <1>8, <1>12, <2>1, <2>2, <2>3, <2>4, <2>5, <2>6 DEF Writing
<1>14. QED BY <1>1, <1>11, <1>13 DEF Story, Restoring

(* land syncs one written segment: its durable plane catches up.           *)
LEMMA LandSyncStory ==
    ASSUME TypeOK, NEW h \in Ledgers, Story(h), LandSync
    PROVE  Story(h)'
<1>1. PICK s \in todo :
        /\ durable' = [durable EXCEPT ![s] = live[s]] /\ todo' = todo \ {s}
        /\ pc' = IF todo # {s} THEN "sync" ELSE IF created # {} THEN "syncdir" ELSE "landed"
    BY DEF LandSync, AfterSync, First
<1>2. /\ pc = "sync"
      /\ UNCHANGED <<live, liveDir, durDir, seg, len, next, prev, barrier, owed, wave, created, acked>>
    BY DEF LandSync, position, history
<1>3. Base(h) /\ Writing(h) BY <1>2 DEF Story, Landing
<1>4. Touched' = Touched /\ LandedIn(h)' = LandedIn(h) BY <1>2 DEF Touched, LandedIn
<1>5. At(h)' BY <1>2, <1>3 DEF Writing, At
<1>6. /\ Touched # {} /\ todo \subseteq Touched
      /\ created = Touched \ Segs(h) /\ Touched \cap Segs(h) \subseteq {seg}
      /\ \A t \in Touched : seg <= t
      /\ len = 0 => seg \in Touched
      /\ LandedIn(h) \in Ledgers /\ Chained(LandedIn(h))
    BY <1>3 DEF Writing, Continues
<1>7. s \in Touched /\ s \in Names /\ Touched \subseteq Names BY <1>6 DEF Touched
<1>8. Wrote = Touched /\ Wrote' = Touched /\ Synced = Touched \ todo /\ Synced' = Synced \cup {s}
    BY <1>1, <1>2, <1>4, <1>6, <1>7 DEF Wrote, Synced
<1>9. durable'[s] = live[s] /\ \A u \in Names \ {s} : durable'[u] = durable[u]
    BY <1>1, <1>7 DEF TypeOK
<1>11. Base(h)' BY <1>2, <1>3 DEF Base
<1>12. Continues(h)'
    <2>1. todo' \subseteq Touched BY <1>1, <1>6
    <2>2. QED BY <1>2, <1>4, <1>6, <2>1 DEF Continues
<1>13. Writing(h)'
    <2>1. \A u \in Segs(h) \ {seg} : Steady(h, u)'
        <3>1. \A u \in Segs(h) \ {seg} : u \in Names \ {s} BY <1>6, <1>7 DEF Segs
        <3>2. QED BY <1>2, <1>3, <1>9, <3>1 DEF Writing, Steady
    <2>2. liveDir' = Segs(h) \cup (created \cap Wrote') BY <1>2, <1>3, <1>8 DEF Writing
    <2>3. durDir' = IF pc' = "landed" THEN liveDir' ELSE Segs(h)
        <3>1. durDir = Segs(h) BY <1>2, <1>3 DEF Writing
        <3>2. pc' = "landed" => created = {} BY <1>1
        <3>3. QED BY <1>2, <2>2, <3>1, <3>2
    <2>4. \A u \in Touched \cup {seg} : live'[u] = IF u \in Wrote' THEN h[u] \o wave[u] ELSE h[u]
        BY <1>2, <1>3, <1>8 DEF Writing
    <2>5. \A u \in Synced' : durable'[u] = live'[u]
        <3>1. \A u \in Synced : durable[u] = live[u] BY <1>3 DEF Writing
        <3>2. QED BY <1>2, <1>7, <1>8, <1>9, <3>1
    <2>a. seg \in Segs(h) \ Synced' => Near(durable'[seg], h[seg])
        <3>1. seg \in Segs(h) \ Synced => Near(durable[seg], h[seg]) BY <1>3 DEF Writing
        <3>2. seg \in Names BY DEF TypeOK
        <3>3. QED BY <1>8, <1>9, <3>1, <3>2
    <2>6. owed = {} /\ barrier = "Broken" BY <1>3 DEF Writing
    <2>7. QED BY <1>2, <1>4, <1>5, <1>12, <2>1, <2>2, <2>3, <2>4, <2>5, <2>a, <2>6 DEF Writing
<1>14. pc' \in {"sync", "syncdir", "landed"} BY <1>1
<1>15. QED BY <1>11, <1>13, <1>14 DEF Story, Restoring

(* land syncs the directory: the entries of the created segments are       *)
(* durable, and no synced bytes are lost.                                  *)
LEMMA LandSyncDirStory ==
    ASSUME TypeOK, NEW h \in Ledgers, Story(h), LandSyncDir
    PROVE  Story(h)'
<1>1. /\ durDir' = liveDir /\ pc' = "landed" /\ pc = "syncdir"
      /\ durable' = [s \in Names |-> IF s \in liveDir THEN durable[s] ELSE <<>>]
    BY DEF LandSyncDir, SyncDir
<1>2. UNCHANGED <<live, liveDir, seg, len, next, prev, barrier, owed, wave, todo, created, acked>>
    BY DEF LandSyncDir, position, shape, history
<1>3. Base(h) /\ Writing(h) BY <1>1 DEF Story, Landing
<1>4. Touched' = Touched /\ LandedIn(h)' = LandedIn(h) /\ Touched \subseteq Names
    BY <1>2 DEF Touched, LandedIn
<1>5. At(h)' BY <1>2, <1>3 DEF Writing, At
<1>8. Wrote = Touched /\ Wrote' = Touched /\ Synced = Touched /\ Synced' = Touched
    BY <1>1, <1>4 DEF Wrote, Synced
<1>11. Base(h)' BY <1>2, <1>3 DEF Base
<1>12. Continues(h)' BY <1>2, <1>3, <1>4 DEF Continues, Writing
<1>13. Writing(h)'
    <2>0. liveDir = Segs(h) \cup (created \cap Touched) /\ created = Touched \ Segs(h)
        BY <1>3, <1>8 DEF Writing, Continues
    <2>9. \A u \in Segs(h) \cup Touched : durable'[u] = durable[u]
        BY <1>1, <1>4, <2>0 DEF Segs
    <2>1. \A u \in Segs(h) \ {seg} : Steady(h, u)'
        BY <1>2, <1>3, <2>9 DEF Writing, Steady
    <2>4. \A u \in Touched \cup {seg} : live'[u] = IF u \in Wrote' THEN h[u] \o wave[u] ELSE h[u]
        BY <1>2, <1>3, <1>8 DEF Writing
    <2>5. \A u \in Synced' : durable'[u] = live'[u]
        <3>1. \A u \in Synced : durable[u] = live[u] BY <1>3 DEF Writing
        <3>2. QED BY <1>2, <1>8, <2>9, <3>1
    <2>a. seg \in Segs(h) \ Synced' => Near(durable'[seg], h[seg])
        <3>1. seg \in Segs(h) \ Synced => Near(durable[seg], h[seg]) BY <1>3 DEF Writing
        <3>2. QED BY <1>8, <2>9, <3>1
    <2>6. owed = {} /\ barrier = "Broken" BY <1>3 DEF Writing
    <2>7. QED BY <1>1, <1>2, <1>4, <1>5, <1>8, <1>12, <2>0, <2>1, <2>4, <2>5, <2>a, <2>6
            DEF Writing
<1>15. QED BY <1>1, <1>11, <1>13 DEF Story, Restoring

(* Lengths of a segment and the lines a wave adds to it.                   *)
LEMMA ConcatLen ==
    ASSUME NEW c \in Seq(Cell), NEW v \in Seq(Cell), v # <<>>
    PROVE  \E a, b \in Nat : /\ Len(c) = a /\ Len(v) = b /\ Len(c \o v) = a + b /\ b >= 1
                            /\ a + b \in 1 .. a + b /\ b \in 1 .. b /\ a + b \in Nat
                            /\ b + a = a + b /\ a + b >= 1 /\ a + b # 0
<1>1. Len(c) \in Nat /\ Len(v) \in Nat /\ Len(c \o v) = Len(c) + Len(v) /\ Len(v) >= 1
    OBVIOUS
<1>2. PICK a \in Nat, b \in Nat : a = Len(c) /\ b = Len(v) /\ b >= 1 BY <1>1
<1>3. a + b \in 1 .. a + b /\ b \in 1 .. b /\ a + b \in Nat /\ b + a = a + b
      /\ a + b >= 1 /\ a + b # 0
    BY <1>2
<1>4. QED BY <1>1, <1>2, <1>3

(* A file of lines alone is one with at most a torn cell.                  *)
LEMMA NearSelf ==
    ASSUME NEW f \in Seq(Cell)
    PROVE  Near(f, f)
BY DEF Near, Cut

(* A landed wave is part of the ledger, and its segments with it.          *)
LEMMA LandedFacts ==
    ASSUME TypeOK, NEW h \in Ledgers, NEW k \in Ledgers, k = LandedIn(h)
    PROVE  /\ \A s \in Names : k[s] = h[s] \o wave[s] /\ Starts(k[s], h[s])
           /\ \A s \in Names \ Touched : k[s] = h[s]
           /\ Segs(k) = Segs(h) \cup Touched
           /\ \A s \in Names : \A i \in 1 .. Len(wave[s]) :
                Len(h[s]) + i \in 1 .. Len(k[s]) /\ k[s][Len(h[s]) + i] = wave[s][i]
<1>1. \A s \in Names : /\ k[s] = h[s] \o wave[s] /\ h[s] \in Seq(Cell) /\ wave[s] \in Seq(Cell)
                       /\ k[s] \in Seq(Cell)
    BY DEF LandedIn, Ledgers, TypeOK
<1>2. ASSUME NEW c \in Seq(Cell), NEW v \in Seq(Cell)
      PROVE  /\ Starts(c \o v, c) /\ (v = <<>> => c \o v = c) /\ (c \o v = <<>> <=> c = <<>> /\ v = <<>>)
             /\ \A i \in 1 .. Len(v) : Len(c) + i \in 1 .. Len(c \o v) /\ (c \o v)[Len(c) + i] = v[i]
    <2>1. /\ Len(c \o v) = Len(c) + Len(v) /\ c \o v \in Seq(Cell)
          /\ \A i \in 1 .. Len(c) : (c \o v)[i] = c[i]
          /\ \A i \in 1 .. Len(v) : (c \o v)[Len(c) + i] = v[i]
        OBVIOUS
    <2>2. Starts(c \o v, c) BY <2>1 DEF Starts
    <2>3. v = <<>> => c \o v = c OBVIOUS
    <2>4. c \o v = <<>> <=> c = <<>> /\ v = <<>> OBVIOUS
    <2>5. \A i \in 1 .. Len(v) : Len(c) + i \in 1 .. Len(c \o v) BY <2>1
    <2>6. QED BY <2>1, <2>2, <2>3, <2>4, <2>5
<1>3. \A s \in Names : /\ Starts(k[s], h[s]) /\ (wave[s] = <<>> => k[s] = h[s])
                       /\ (k[s] = <<>> <=> h[s] = <<>> /\ wave[s] = <<>>)
    <2>1. ASSUME NEW s \in Names
          PROVE  /\ Starts(k[s], h[s]) /\ (wave[s] = <<>> => k[s] = h[s])
                 /\ (k[s] = <<>> <=> h[s] = <<>> /\ wave[s] = <<>>)
        <3>1. PICK c \in Seq(Cell), v \in Seq(Cell) : c = h[s] /\ v = wave[s] /\ k[s] = c \o v
            BY <1>1
        <3>2. /\ Starts(c \o v, c) /\ (v = <<>> => c \o v = c)
              /\ (c \o v = <<>> <=> c = <<>> /\ v = <<>>)
            BY <1>2
        <3>3. Starts(k[s], h[s]) BY <3>1, <3>2, Zenon
        <3>4. wave[s] = <<>> => k[s] = h[s] BY <3>1, <3>2, Zenon
        <3>5. k[s] = <<>> <=> h[s] = <<>> /\ wave[s] = <<>> BY <3>1, <3>2, Zenon
        <3>6. QED BY <3>3, <3>4, <3>5
    <2>2. QED BY <2>1
<1>4. ASSUME NEW s \in Names, NEW i \in 1 .. Len(wave[s])
      PROVE  Len(h[s]) + i \in 1 .. Len(k[s]) /\ k[s][Len(h[s]) + i] = wave[s][i]
    <2>1. PICK c \in Seq(Cell), v \in Seq(Cell) : c = h[s] /\ v = wave[s] /\ k[s] = c \o v
        BY <1>1
    <2>2. i \in 1 .. Len(v) BY <2>1
    <2>3. Len(c) + i \in 1 .. Len(c \o v) /\ (c \o v)[Len(c) + i] = v[i] BY <1>2, <2>2
    <2>4. QED BY <2>1, <2>3, Zenon
<1>5. Segs(k) = Segs(h) \cup Touched BY <1>3 DEF Segs, Touched
<1>6. \A s \in Names \ Touched : k[s] = h[s] BY <1>3 DEF Touched
<1>7. QED BY <1>1, <1>3, <1>4, <1>5, <1>6

(* Answering Ok makes the landed wave part of the ledger: the new position *)
(* is its end, and the acknowledged lines are among its lines.             *)
LEMMA AcknowledgeStory ==
    ASSUME TypeOK, NEW h \in Ledgers, Story(h), Acknowledge
    PROVE  \E k \in Ledgers : Story(k)'
<1>1. pc = "landed" /\ pc' = "idle" /\ UNCHANGED <<live, durable, liveDir, durDir, owed>>
    BY DEF Acknowledge, disk
<1>2. PICK last \in Touched :
        /\ \A s \in Touched : s <= last
        /\ seg' = last
        /\ len' = Len(wave[last]) + IF last \in created THEN 0 ELSE len
        /\ next' = wave[last][Len(wave[last])].seq + 1
        /\ prev' = ChainHash(wave[last][Len(wave[last])])
    BY DEF Acknowledge
<1>3. Base(h) /\ Writing(h) BY <1>1 DEF Story, Landing
<1>4. /\ created = Touched \ Segs(h) /\ Touched \cap Segs(h) \subseteq {seg}
      /\ \A t \in Touched : seg <= t
      /\ LandedIn(h) \in Ledgers /\ Chained(LandedIn(h)) /\ At(h) /\ owed = {}
    BY <1>3 DEF Writing, Continues
<1>5. PICK k \in Ledgers : k = LandedIn(h) /\ Chained(k) BY <1>4
<1>6. /\ \A s \in Names : k[s] = h[s] \o wave[s] /\ Starts(k[s], h[s])
      /\ \A s \in Names \ Touched : k[s] = h[s]
      /\ Segs(k) = Segs(h) \cup Touched
      /\ \A s \in Names : \A i \in 1 .. Len(wave[s]) :
            Len(h[s]) + i \in 1 .. Len(k[s]) /\ k[s][Len(h[s]) + i] = wave[s][i]
    BY <1>5, LandedFacts
<1>7. Touched \subseteq Names /\ Wrote = Touched /\ Synced = Touched
    BY <1>1 DEF Touched, Wrote, Synced
<1>8. liveDir = Segs(k) /\ durDir = Segs(k)
    BY <1>1, <1>3, <1>4, <1>6, <1>7 DEF Writing
<1>9. /\ \A s \in Touched : live[s] = k[s] /\ durable[s] = k[s]
      /\ seg \notin Touched => live[seg] = h[seg]
    BY <1>3, <1>6, <1>7 DEF Writing
<1>10. \A s \in Segs(k) : Steady(k, s)
    <2>1. ASSUME NEW s \in Touched PROVE Steady(k, s)
        <3>1. k[s] \in Seq(Cell) BY <1>7 DEF Ledgers
        <3>2. QED BY <1>9, <3>1, NearSelf DEF Steady
    <2>2. ASSUME NEW s \in Segs(h) \ Touched PROVE Steady(k, s)
        <3>1. k[s] = h[s] /\ s \in Names /\ h[s] \in Seq(Cell) BY <1>6 DEF Segs, Ledgers
        <3>2. CASE s # seg BY <1>3, <3>1, <3>2 DEF Writing, Steady
        <3>3. CASE s = seg
            <4>1. live[s] = h[s] /\ Near(durable[s], h[s])
                BY <1>3, <1>7, <1>9, <2>2, <3>3 DEF Writing
            <4>2. QED BY <3>1, <4>1, NearSelf DEF Steady
        <3>4. QED BY <3>2, <3>3
    <2>3. QED BY <1>6, <2>1, <2>2
<1>11. Has(k, acked')
    <2>1. Has(k, acked) BY <1>3, <1>6, HasMore DEF Base
    <2>2. acked' = acked \cup UNION {Range(wave[s]) : s \in Touched} BY DEF Acknowledge
    <2>3. ASSUME NEW s \in Touched, NEW cell \in Range(wave[s])
          PROVE  \E u \in Names : \E i \in 1 .. Len(k[u]) : k[u][i] = cell
        <3>1. s \in Names /\ wave[s] \in Seq(Cell) BY <1>7 DEF TypeOK
        <3>2. PICK i \in DOMAIN wave[s] : wave[s][i] = cell BY <2>3 DEF Range
        <3>3. i \in 1 .. Len(wave[s]) BY <3>1, <3>2
        <3>4. Len(h[s]) + i \in 1 .. Len(k[s]) /\ k[s][Len(h[s]) + i] = cell
            BY <1>6, <3>1, <3>2, <3>3
        <3>5. QED BY <3>1, <3>4
    <2>4. ASSUME NEW cell \in acked'
          PROVE  \E u \in Names : \E i \in 1 .. Len(k[u]) : k[u][i] = cell
        <3>1. CASE cell \in acked BY <2>1, <3>1 DEF Has
        <3>2. CASE \E s \in Touched : cell \in Range(wave[s]) BY <2>3, <3>2
        <3>3. cell \in acked \/ \E s \in Touched : cell \in Range(wave[s])
            BY <2>2, <2>4, Zenon
        <3>4. QED BY <3>1, <3>2, <3>3
    <2>5. QED BY <2>4 DEF Has
<1>12. At(k)'
    <2>1. /\ last \in Names /\ wave[last] \in Seq(Cell) /\ wave[last] # <<>> /\ last \in Nat
          /\ h[last] \in Seq(Cell) /\ k[last] \in Seq(Cell) /\ k[last] = h[last] \o wave[last]
        BY <1>6, <1>7, CellFacts DEF Touched, TypeOK, Ledgers
    <2>2. PICK a \in Nat, b \in Nat :
            /\ Len(h[last]) = a /\ Len(wave[last]) = b /\ Len(k[last]) = a + b
            /\ a + b \in 1 .. a + b /\ b \in 1 .. b /\ a + b \in Nat
            /\ b + a = a + b /\ a + b >= 1 /\ a + b # 0
        <3>1. PICK c \in Seq(Cell), v \in Seq(Cell) :
                c = h[last] /\ v = wave[last] /\ k[last] = c \o v /\ v # <<>>
            BY <2>1
        <3>2. \E a, b \in Nat : /\ Len(c) = a /\ Len(v) = b /\ Len(c \o v) = a + b /\ b >= 1
                               /\ a + b \in 1 .. a + b /\ b \in 1 .. b /\ a + b \in Nat
                               /\ b + a = a + b /\ a + b >= 1 /\ a + b # 0
            BY <3>1, ConcatLen
        <3>3. QED BY <3>1, <3>2, Zenon
    <2>3. Len(h[last]) = IF last \in created THEN 0 ELSE len
        <3>1. CASE last \in created
            <4>1. h[last] = <<>> BY <1>4, <2>1, <3>1 DEF Segs
            <4>2. QED BY <3>1, <4>1
        <3>2. CASE last \notin created
            <4>1. last = seg BY <1>4, <3>2
            <4>2. QED BY <1>4, <3>2, <4>1 DEF At
        <3>3. QED BY <3>1, <3>2
    <2>4. len' = a + b
        <3>1. len' = Len(wave[last]) + Len(h[last]) BY <1>2, <2>3, Zenon
        <3>2. QED BY <2>2, <3>1, Zenon
    <2>5. k[last][a + b] = wave[last][b]
        BY <1>6, <2>1, <2>2, Zenon
    <2>6. k[last][a + b].seq = last + (a + b) - 1
        <3>2. Lines(k[last], last) BY <1>5, <2>1 DEF Chained
        <3>3. QED BY <2>2, <3>2 DEF Lines
    <2>7. next' = last + (a + b)
        <3>1. next' = (last + (a + b) - 1) + 1 BY <1>2, <2>2, <2>5, <2>6, Zenon
        <3>2. QED BY <2>1, <3>1
    <2>8. LastOf(k, last)
        <3>1. ASSUME NEW s \in Segs(h) PROVE s <= last
            <4>1. s <= seg /\ seg <= last /\ s \in Nat /\ seg \in Nat
                BY <1>4, CellFacts DEF At, LastOf, Segs, TypeOK
            <4>2. QED BY <2>1, <4>1
        <3>2. QED BY <1>2, <1>6, <3>1 DEF LastOf
    <2>9. prev' = ChainHash(k[last][len']) BY <1>2, <2>2, <2>4, <2>5, Zenon
    <2>10. len' # 0 BY <2>2, <2>4, Zenon
    <2>11. len' = Len(k[seg']) /\ next' = seg' + len' /\ LastOf(k, seg')
           /\ prev' = ChainHash(k[seg'][len'])
        BY <1>2, <2>2, <2>4, <2>7, <2>8, <2>9, Zenon
    <2>12. QED BY <2>10, <2>11 DEF At
<1>13. Base(k)'
    <2>1. \A s \in Names \ liveDir : live[s] = <<>> BY <1>3 DEF Base
    <2>2. QED BY <1>1, <1>5, <1>8, <1>11, <2>1 DEF Base
<1>14. AtRest(k)' BY <1>1, <1>4, <1>8, <1>10 DEF AtRest, Steady
<1>15. live'[seg'] = k[seg'] BY <1>1, <1>2, <1>9
<1>16. owed' = {} BY <1>1, <1>4
<1>17. Story(k)' BY <1>1, <1>12, <1>13, <1>14, <1>15, <1>16 DEF Story, Landing, Restoring
<1>18. QED BY <1>17

(* A segment that holds its old lines is a cut of what the wave would make *)
(* of it.                                                                  *)
LEMMA NearCut ==
    ASSUME NEW f \in Seq(Cell), NEW full \in Seq(Cell), NEW c \in Seq(Cell),
           Starts(full, c), Near(f, c)
    PROVE  Cut(f, full, Len(c)) /\ Len(f) <= Len(c) + 1
<1>1. Len(f) <= Len(c) + 1 BY NearFacts
<1>2. QED BY <1>1 DEF Near, Cut, Starts

(* The segment a failed wave was appended to, when its live plane is cut   *)
(* anywhere in the wave and the durable one is before it or with it.       *)
LEMMA FailedRecovers ==
    ASSUME NEW h \in Ledgers, NEW s \in Names, NEW full \in Seq(Cell),
           live' \in Ledgers, durable' \in Ledgers,
           Lines(full, s), Starts(full, h[s]), LastOf(h, s),
           Cut(live'[s], full, Len(h[s])),
           Near(durable'[s], h[s]) \/ durable'[s] = live'[s]
    PROVE  Recoverable(h, s)'
<1>1. live'[s] \in Seq(Cell) /\ durable'[s] \in Seq(Cell) /\ h[s] \in Seq(Cell) BY DEF Ledgers
<1>2. CASE Near(durable'[s], h[s])
    <2>1. Cut(durable'[s], full, Len(h[s])) /\ Len(durable'[s]) <= Len(h[s]) + 1
        BY <1>1, <1>2, NearCut
    <2>2. QED BY <2>1 DEF Recoverable
<1>3. CASE durable'[s] = live'[s]
    <2>1. Cut(durable'[s], full, Len(h[s])) BY <1>3
    <2>2. QED BY <1>3, <2>1 DEF Recoverable
<1>4. QED BY <1>2, <1>3

(* A wave that fails at any operation leaves the ledger under it           *)
(* recoverable, and what it created is owed to restore.                    *)
LEMMA WaveFailsStory ==
    ASSUME TypeOK, TypeOK', NEW h \in Ledgers, Story(h), LandAppendFails \/ LandSyncFails
    PROVE  Story(h)'
<1>1. /\ pc \in {"append", "sync", "syncdir"} /\ pc' = "unlink" /\ owed' = {created}
      /\ UNCHANGED <<durable, durDir, seg, len, next, prev, barrier, acked>>
    BY DEF LandAppendFails, LandSyncFails, WaveFails, Undoes, position, disk
<1>2. Base(h) /\ Writing(h) BY <1>1 DEF Story, Landing
<1>3. At(h) /\ At(h)' BY <1>1, <1>2 DEF Writing, At
<1>4. /\ seg \in Names /\ seg \in Nat /\ h[seg] \in Seq(Cell) /\ len \in Nat
      /\ len = Len(h[seg]) /\ (len = 0 <=> seg \notin Segs(h))
      /\ (len > 0 <=> seg \in Segs(h)) /\ LastOf(h, seg)
    BY <1>3, PositionFacts
<1>5. /\ todo \subseteq Touched /\ created = Touched \ Segs(h)
      /\ Touched \cap Segs(h) \subseteq {seg} /\ (len = 0 => seg \in Touched)
      /\ LandedIn(h) \in Ledgers /\ Chained(LandedIn(h)) /\ Touched \subseteq Names
      /\ barrier = "Broken" /\ durDir = Segs(h) /\ liveDir \subseteq Segs(h) \cup created
    BY <1>1, <1>2 DEF Writing, Continues, Touched
<1>6. PICK full \in Seq(Cell) :
        /\ full = h[seg] \o wave[seg] /\ Lines(full, seg) /\ Starts(full, h[seg])
        /\ wave[seg] = <<>> => full = h[seg]
    <2>1. PICK k \in Ledgers : k = LandedIn(h) /\ Chained(k) BY <1>5
    <2>2. k[seg] = h[seg] \o wave[seg] /\ Starts(k[seg], h[seg]) BY <1>4, <2>1, LandedFacts
    <2>3. Lines(k[seg], seg) /\ k[seg] \in Seq(Cell) BY <1>4, <2>1 DEF Chained, Ledgers
    <2>4. wave[seg] = <<>> => k[seg] = h[seg]
        <3>1. wave[seg] = <<>> => seg \in Names \ Touched BY <1>4 DEF Touched
        <3>2. QED BY <2>1, <3>1, LandedFacts
    <2>5. QED BY <2>2, <2>3, <2>4
<1>7. live[seg] = full \/ live[seg] = h[seg] BY <1>2, <1>6 DEF Writing
<1>8. Near(durable[seg], h[seg]) \/ durable[seg] = live[seg] \/ seg \notin Segs(h)
    BY <1>2 DEF Writing
<1>9. live' \in Ledgers /\ durable' \in Ledgers BY DEF TypeOK, Ledgers
<1>10. /\ liveDir \subseteq liveDir' /\ liveDir' \subseteq Segs(h) \cup created
       /\ \A u \in Segs(h) \ {seg} : live'[u] = live[u]
       /\ \A u \in Names \ liveDir' : live'[u] = <<>>
       /\ seg \in Segs(h) => Cut(live'[seg], full, Len(h[seg]))
                           /\ (Near(durable[seg], h[seg]) \/ durable[seg] = live'[seg])
    <2>0. ASSUME live'[seg] = full \/ live'[seg] = h[seg]
          PROVE  Cut(live'[seg], full, Len(h[seg]))
        <3>1. Len(h[seg]) <= Len(full) BY <1>6 DEF Starts
        <3>2. Cut(full, full, Len(h[seg])) BY <1>4, <3>1, StartsSelf, StartsCut
        <3>3. Len(h[seg]) <= Len(h[seg]) BY <1>4
        <3>4. Cut(h[seg], full, Len(h[seg])) BY <1>4, <1>6, <3>3, StartsCut
        <3>5. QED BY <2>0, <3>2, <3>4
    <2>1. CASE LandSyncFails
        <3>1. UNCHANGED <<live, liveDir>> BY <2>1 DEF LandSyncFails, disk
        <3>2. QED BY <1>2, <1>5, <1>7, <1>8, <2>0, <3>1 DEF Base
    <2>2. CASE LandAppendFails
        <3>1. PICK s \in todo : \E left \in PartlyAppended(live[s], wave[s]) :
                /\ live' = [live EXCEPT ![s] = left]
                /\ \/ liveDir' = liveDir \cup {s}
                   \/ left = live[s] /\ liveDir' = liveDir
            BY <2>2 DEF LandAppendFails, First
        <3>2. PICK left \in PartlyAppended(live[s], wave[s]) :
                /\ live' = [live EXCEPT ![s] = left]
                /\ \/ liveDir' = liveDir \cup {s}
                   \/ left = live[s] /\ liveDir' = liveDir
            BY <3>1
        <3>3. s \in Touched /\ s \in Names /\ wave[s] \in Seq(Cell) BY <1>5 DEF TypeOK
        <3>4. live'[s] = left /\ \A u \in Names \ {s} : live'[u] = live[u]
            BY <3>2, <3>3 DEF TypeOK
        <3>5. pc = "append" BY <2>2 DEF LandAppendFails
        <3>6. Synced = {} /\ s \notin Wrote BY <3>5 DEF Synced, Wrote
        <3>7. live[s] = h[s] BY <1>2, <3>3, <3>6 DEF Writing
        <3>8. liveDir \subseteq liveDir' /\ liveDir' \subseteq Segs(h) \cup created
            BY <1>5, <3>2, <3>3
        <3>9. \A u \in Segs(h) \ {seg} : live'[u] = live[u]
            <4>1. \A u \in Segs(h) \ {seg} : u \in Names \ {s} BY <1>5, <3>3 DEF Segs
            <4>2. QED BY <3>4, <4>1
        <3>10. \A u \in Names \ liveDir' : live'[u] = <<>>
            BY <1>2, <3>2, <3>4 DEF Base
        <3>11. seg \in Segs(h) => Near(durable[seg], h[seg]) BY <1>2, <3>6 DEF Writing
        <3>12. Cut(live'[seg], full, Len(h[seg]))
            <4>1. CASE s = seg
                <5>1. left \in PartlyAppended(h[seg], wave[seg]) BY <3>2, <3>7, <4>1
                <5>2. Cut(left, h[seg] \o wave[seg], Len(h[seg]))
                    BY <1>4, <3>3, <4>1, <5>1, PartlyAppendedCut
                <5>3. QED BY <1>6, <3>4, <4>1, <5>2
            <4>2. CASE s # seg
                <5>1. live'[seg] = live[seg] BY <1>4, <3>4, <4>2
                <5>2. QED BY <1>7, <2>0, <5>1
            <4>3. QED BY <4>1, <4>2
        <3>13. QED BY <3>8, <3>9, <3>10, <3>11, <3>12
    <2>3. QED BY <2>1, <2>2
<1>11. Base(h)' BY <1>1, <1>2, <1>10 DEF Base
<1>12. Undoing(h)'
    <2>1. \A u \in Segs(h) \ {seg} : Steady(h, u)'
        BY <1>1, <1>2, <1>10 DEF Writing, Steady
    <2>2. seg \in created <=> len = 0 BY <1>4, <1>5
    <2>3. created \in SUBSET Names /\ created \cap Segs(h) = {} BY <1>5
    <2>a. PICK z \in Names : z = seg BY <1>4
    <2>4. seg \in Segs(h) => Recoverable(h, z)'
        BY <1>1, <1>4, <1>6, <1>9, <1>10, <2>a, FailedRecovers
    <2>5. len' > 0 => Recoverable(h, seg)'
        <3>1. seg' = z BY <1>1, <2>a
        <3>2. Recoverable(h, z)' => Recoverable(h, seg)' BY <3>1 DEF Recoverable
        <3>3. QED BY <1>1, <1>4, <2>4, <3>2
    <2>6. \E segs \in SUBSET Names :
            /\ owed' = {segs} /\ liveDir' \subseteq Segs(h) \cup segs /\ segs \cap Segs(h) = {}
            /\ seg' \in segs <=> len' = 0
        BY <1>1, <1>10, <2>2, <2>3
    <2>7. QED BY <1>1, <1>3, <1>5, <2>1, <2>5, <2>6 DEF Undoing
<1>13. QED BY <1>1, <1>11, <1>12 DEF Story, Landing

(* The parts of Undoing that do not depend on the step restore is at.      *)
LEMMA OwedSegments ==
    ASSUME NEW segs, owed = {segs}
    PROVE  Owed = segs
BY DEF Owed

(* An unwind that is called again, or that fails and stays owed, changes   *)
(* nothing on the disk.                                                    *)
LEMMA UnwindPauses ==
    ASSUME TypeOK, NEW h \in Ledgers, Story(h), ~orphaned', FinishUnwind \/ RestoreFails
    PROVE  Story(h)'
<1>1. /\ UNCHANGED <<live, durable, liveDir, durDir, seg, len, next, prev, acked>>
      /\ UNCHANGED <<barrier, owed>> /\ pc' \in {"unlink", "idle"}
      /\ pc \in Restoring \/ (pc = "idle" /\ owed # {})
    BY DEF FinishUnwind, RestoreFails, disk, position, history, Restoring
<1>2. Base(h) /\ Undoing(h) BY <1>1 DEF Story
<1>3. owed # {} BY <1>2 DEF Undoing
<1>4. Base(h)' /\ \A s : Steady(h, s) => Steady(h, s)' BY <1>1, <1>2, UnchangedParts
<1>5. len > 0 => Recoverable(h, seg)' BY <1>1, <1>2 DEF Undoing, Recoverable
<1>6. At(h)' BY <1>1, <1>2 DEF Undoing, At
<1>7. Undoing(h)'
    <2>1. \E segs \in SUBSET Names :
            /\ owed' = {segs} /\ liveDir' \subseteq Segs(h) \cup segs /\ segs \cap Segs(h) = {}
            /\ seg' \in segs <=> len' = 0
        BY <1>1, <1>2 DEF Undoing
    <2>2. /\ barrier' = "Broken" /\ durDir' = Segs(h)
          /\ \A s \in Segs(h) \ {seg'} : Steady(h, s)'
        BY <1>1, <1>2, <1>4 DEF Undoing
    <2>3. QED BY <1>1, <1>5, <1>6, <2>1, <2>2 DEF Undoing
<1>8. QED BY <1>1, <1>3, <1>4, <1>7 DEF Story, Landing, Restoring

(* restore removes what the failed wave created, and nothing of the        *)
(* ledger.                                                                 *)
LEMMA RestoreUnlinkStory ==
    ASSUME TypeOK, ~LazyDir, NEW h \in Ledgers, Story(h), RestoreUnlink
    PROVE  Story(h)'
<1>1. /\ pc = "unlink" /\ UNCHANGED <<seg, len, next, prev, barrier, owed, acked>>
    BY DEF RestoreUnlink, position, history
<1>2. Base(h) /\ Undoing(h) BY <1>1 DEF Story, Restoring
<1>3. PICK segs \in SUBSET Names :
        /\ owed = {segs} /\ liveDir \subseteq Segs(h) \cup segs /\ segs \cap Segs(h) = {}
        /\ seg \in segs <=> len = 0
    BY <1>2 DEF Undoing
<1>4. Owed = segs BY <1>3, OwedSegments
<1>5. /\ At(h) /\ At(h)' /\ barrier = "Broken" /\ durDir = Segs(h) /\ Segs(h) \subseteq liveDir
      /\ \A s \in Segs(h) \ {seg} : Steady(h, s)
    BY <1>1, <1>2 DEF Undoing, At, Base
<1>6. /\ seg \in Names /\ len \in Nat /\ (len > 0 <=> seg \in Segs(h))
    BY <1>5, PositionFacts
<1>7. CASE segs \cap liveDir = {}
    <2>1. /\ UNCHANGED <<live, durable, liveDir, durDir>>
          /\ pc' = IF removed THEN "unlinkdir" ELSE IF seg \in segs THEN "restored" ELSE "cutback"
        BY <1>4, <1>7 DEF RestoreUnlink, AfterUnlink, disk
    <2>2. liveDir = Segs(h) BY <1>3, <1>5, <1>7
    <2>3. pc' = "cutback" => len > 0 BY <1>3, <1>6, <2>1
    <2>4. pc' = "restored" => len = 0 BY <1>3, <2>1
    <2>5. Base(h)' /\ \A s : Steady(h, s) => Steady(h, s)' BY <1>1, <1>2, <2>1, UnchangedParts
    <2>6. len > 0 => Recoverable(h, seg)' BY <1>1, <1>2, <2>1 DEF Undoing, Recoverable
    <2>7. pc' \in {"unlinkdir", "restored", "cutback"} BY <2>1
    <2>8. Undoing(h)'
        <3>1. \E x \in SUBSET Names :
                /\ owed' = {x} /\ liveDir' \subseteq Segs(h) \cup x /\ x \cap Segs(h) = {}
                /\ seg' \in x <=> len' = 0
            BY <1>1, <1>3, <2>1
        <3>2. pc' \in {"cutsync", "restored"} /\ len' > 0 => FALSE BY <1>1, <1>6, <2>4, <2>7
        <3>3. QED BY <1>1, <1>5, <2>1, <2>2, <2>3, <2>5, <2>6, <2>7, <3>1, <3>2 DEF Undoing
    <2>9. QED BY <2>5, <2>7, <2>8 DEF Story, Landing
<1>8. CASE segs \cap liveDir # {}
    <2>1. PICK s \in segs \cap liveDir : Unlink(s) BY <1>4, <1>8 DEF RestoreUnlink, First
    <2>2. /\ liveDir' = liveDir \ {s} /\ live' = [live EXCEPT ![s] = <<>>]
          /\ durDir' = durDir \ {s} /\ durable' = [durable EXCEPT ![s] = <<>>]
        BY <2>1 DEF Unlink
    <2>3. pc' = "unlink" BY <1>1, <1>4, <1>8 DEF RestoreUnlink
    <2>4. s \in Names /\ s \notin Segs(h) BY <1>3
    <2>5. \A u \in Segs(h) : live'[u] = live[u] /\ durable'[u] = durable[u]
        <3>1. \A u \in Segs(h) : u \in Names \ {s} BY <2>4 DEF Segs
        <3>2. QED BY <2>2, <3>1 DEF TypeOK
    <2>6. durDir' = Segs(h) BY <1>5, <2>2, <2>4
    <2>7. Base(h)'
        <3>1. \A u \in Names \ liveDir' : live'[u] = <<>> BY <1>2, <2>2, <2>4 DEF Base, TypeOK
        <3>2. Segs(h) \subseteq liveDir' BY <1>5, <2>2, <2>4
        <3>3. QED BY <1>1, <1>2, <3>1, <3>2 DEF Base
    <2>8. len > 0 => Recoverable(h, seg)'
        BY <1>1, <1>2, <1>6, <2>5 DEF Undoing, Recoverable
    <2>9. Undoing(h)'
        <3>1. \E x \in SUBSET Names :
                /\ owed' = {x} /\ liveDir' \subseteq Segs(h) \cup x /\ x \cap Segs(h) = {}
                /\ seg' \in x <=> len' = 0
            BY <1>1, <1>3, <2>2
        <3>2. \A u \in Segs(h) \ {seg} : Steady(h, u)' BY <1>5, <2>5 DEF Steady
        <3>3. QED BY <1>1, <1>5, <2>3, <2>6, <2>8, <3>1, <3>2 DEF Undoing
    <2>10. QED BY <2>3, <2>7, <2>9 DEF Story, Landing
<1>9. QED BY <1>7, <1>8

(* restore's directory sync keeps every synced byte of the ledger.         *)
LEMMA RestoreSyncDirStory ==
    ASSUME TypeOK, NEW h \in Ledgers, Story(h), RestoreSyncDir
    PROVE  Story(h)'
<1>1. /\ pc = "unlinkdir" /\ UNCHANGED <<live, liveDir, seg, len, next, prev, barrier, owed, acked>>
      /\ durDir' = liveDir
      /\ durable' = [s \in Names |-> IF s \in liveDir THEN durable[s] ELSE <<>>]
    BY DEF RestoreSyncDir, SyncDir, position, history
<1>2. Base(h) /\ Undoing(h) BY <1>1 DEF Story, Restoring
<1>3. PICK segs \in SUBSET Names :
        /\ owed = {segs} /\ liveDir \subseteq Segs(h) \cup segs /\ segs \cap Segs(h) = {}
        /\ seg \in segs <=> len = 0
    BY <1>2 DEF Undoing
<1>4. Owed = segs BY <1>3, OwedSegments
<1>5. /\ At(h) /\ At(h)' /\ barrier = "Broken" /\ liveDir = Segs(h)
      /\ \A s \in Segs(h) \ {seg} : Steady(h, s)
    BY <1>1, <1>2 DEF Undoing, At, Base
<1>6. /\ seg \in Names /\ len \in Nat /\ (len > 0 <=> seg \in Segs(h))
    BY <1>5, PositionFacts
<1>7. pc' = IF seg \in segs THEN "restored" ELSE "cutback"
    BY <1>4 DEF RestoreSyncDir, AfterUnlink
<1>8. (pc' = "cutback" => len > 0) /\ (pc' = "restored" => len = 0) BY <1>3, <1>6, <1>7
<1>9. \A u \in Segs(h) : durable'[u] = durable[u] BY <1>1, <1>5 DEF Segs
<1>10. Base(h)' BY <1>1, <1>2 DEF Base
<1>11. len > 0 => Recoverable(h, seg)'
    BY <1>1, <1>2, <1>6, <1>9 DEF Undoing, Recoverable
<1>12. Undoing(h)'
    <2>1. \E x \in SUBSET Names :
            /\ owed' = {x} /\ liveDir' \subseteq Segs(h) \cup x /\ x \cap Segs(h) = {}
            /\ seg' \in x <=> len' = 0
        BY <1>1, <1>3
    <2>2. \A u \in Segs(h) \ {seg} : Steady(h, u)' BY <1>1, <1>5, <1>9 DEF Steady
    <2>3. pc' \in {"cutsync", "restored"} /\ len' > 0 => FALSE BY <1>1, <1>6, <1>7, <1>8
    <2>4. QED BY <1>1, <1>5, <1>7, <1>8, <1>11, <2>1, <2>2, <2>3 DEF Undoing
<1>13. QED BY <1>7, <1>10, <1>12 DEF Story, Landing

(* restore cuts the segment the failed wave appended to back to seg_len,   *)
(* first for running processes and then durably.                           *)
LEMMA RestoreCutStory ==
    ASSUME TypeOK, TypeOK', NEW h \in Ledgers, Story(h), RestoreTruncate \/ RestoreSync
    PROVE  Story(h)'
<1>1. /\ pc \in {"cutback", "cutsync"} /\ pc' \in {"cutsync", "restored"}
      /\ UNCHANGED <<liveDir, durDir, seg, len, next, prev, barrier, owed, acked>>
    BY DEF RestoreTruncate, RestoreSync, position, history
<1>2. Base(h) /\ Undoing(h) BY <1>1 DEF Story, Restoring
<1>3. PICK segs \in SUBSET Names :
        /\ owed = {segs} /\ liveDir \subseteq Segs(h) \cup segs /\ segs \cap Segs(h) = {}
        /\ seg \in segs <=> len = 0
    BY <1>2 DEF Undoing
<1>4. /\ At(h) /\ At(h)' /\ barrier = "Broken" /\ durDir = Segs(h) /\ liveDir = Segs(h) /\ len > 0
      /\ \A s \in Segs(h) \ {seg} : Steady(h, s)
    BY <1>1, <1>2 DEF Undoing, At, Base
<1>5. /\ seg \in Names /\ len \in Nat /\ seg \in Segs(h) /\ len = Len(h[seg])
      /\ h[seg] \in Seq(Cell) /\ live[seg] \in Seq(Cell) /\ durable[seg] \in Seq(Cell)
    BY <1>4, PositionFacts DEF TypeOK
<1>6. PICK full \in Seq(Cell) :
        /\ Lines(full, seg) /\ Starts(full, h[seg])
        /\ Cut(durable[seg], full, Len(h[seg])) /\ Cut(live[seg], full, Len(h[seg]))
        /\ full = h[seg] \/ LastOf(h, seg)
    BY <1>2, <1>4 DEF Undoing, Recoverable
<1>7. /\ live'[seg] = h[seg]
      /\ durable'[seg] = durable[seg] \/ durable'[seg] = h[seg]
      /\ pc' = "restored" => durable'[seg] = h[seg]
      /\ \A u \in Names \ {seg} : live'[u] = live[u] /\ durable'[u] = durable[u]
    <2>1. CASE RestoreTruncate
        <3>1. /\ live' = [live EXCEPT ![seg] = Truncated(live[seg], len)] /\ durable' = durable
              /\ pc' = "cutsync"
            BY <2>1 DEF RestoreTruncate
        <3>2. Starts(live[seg], h[seg]) BY <1>5, <1>6, CutStarts
        <3>3. Truncated(live[seg], len) = h[seg] BY <1>5, <3>2, TruncatedStarts
        <3>4. QED BY <1>5, <3>1, <3>3 DEF TypeOK
    <2>2. CASE RestoreSync
        <3>1. durable' = [durable EXCEPT ![seg] = live[seg]] /\ live' = live /\ pc = "cutsync"
            BY <2>2 DEF RestoreSync
        <3>2. live[seg] = h[seg] BY <1>2, <1>4, <3>1 DEF Undoing
        <3>3. QED BY <1>5, <3>1, <3>2 DEF TypeOK
    <2>3. QED BY <2>1, <2>2
<1>8. Recoverable(h, seg)'
    <2>1. Len(h[seg]) <= Len(h[seg]) BY <1>5
    <2>2. Cut(h[seg], full, Len(h[seg])) BY <1>5, <1>6, <2>1, StartsCut
    <2>3. Cut(live'[seg], full, Len(h[seg])) /\ Cut(durable'[seg], full, Len(h[seg]))
        BY <1>6, <1>7, <2>2
    <2>4. Len(live'[seg]) = Len(h[seg]) BY <1>7
    <2>5. QED BY <1>1, <1>6, <2>3, <2>4 DEF Recoverable
<1>9. Base(h)'
    <2>1. \A u \in Names \ liveDir : live'[u] = <<>> BY <1>2, <1>4, <1>5, <1>7 DEF Base
    <2>2. QED BY <1>1, <1>2, <2>1 DEF Base
<1>10. Undoing(h)'
    <2>1. \E x \in SUBSET Names :
            /\ owed' = {x} /\ liveDir' \subseteq Segs(h) \cup x /\ x \cap Segs(h) = {}
            /\ seg' \in x <=> len' = 0
        BY <1>1, <1>3
    <2>2. \A u \in Segs(h) \ {seg} : Steady(h, u)' BY <1>4, <1>7 DEF Steady, Segs
    <2>3. QED BY <1>1, <1>4, <1>7, <1>8, <2>1, <2>2 DEF Undoing
<1>11. QED BY <1>1, <1>9, <1>10 DEF Story, Landing

(* Once restore is through, the barrier is whole over a ledger at rest.    *)
LEMMA RestoreDoneStory ==
    ASSUME TypeOK, NEW h \in Ledgers, Story(h), RestoreDone
    PROVE  Story(h)'
<1>1. /\ pc = "restored" /\ pc' \in {"closed", "idle"} /\ owed' = {}
      /\ UNCHANGED <<live, durable, liveDir, durDir, seg, len, next, prev, acked>>
    BY DEF RestoreDone, disk, position, history
<1>2. Base(h) /\ Undoing(h) BY <1>1 DEF Story, Restoring
<1>3. At(h) /\ At(h)' /\ liveDir = Segs(h) /\ durDir = Segs(h)
    BY <1>1, <1>2 DEF Undoing, At
<1>4. /\ seg \in Names /\ (len = 0 <=> seg \notin Segs(h)) /\ (len > 0 <=> seg \in Segs(h))
      /\ h[seg] \in Seq(Cell)
    BY <1>3, PositionFacts
<1>5. live[seg] = h[seg] /\ (seg \in Segs(h) => durable[seg] = h[seg])
    <2>1. CASE seg \in Segs(h) BY <1>1, <1>2, <1>4, <2>1 DEF Undoing
    <2>2. CASE seg \notin Segs(h)
        <3>1. h[seg] = <<>> /\ live[seg] = <<>> BY <1>2, <1>3, <1>4, <2>2 DEF Segs, Base
        <3>2. QED BY <2>2, <3>1
    <2>3. QED BY <2>1, <2>2
<1>6. \A s \in Segs(h) : Steady(h, s)
    <2>1. seg \in Segs(h) => Steady(h, seg) BY <1>4, <1>5, NearSelf DEF Steady
    <2>2. QED BY <1>2, <2>1 DEF Undoing
<1>7. Base(h)' BY <1>1, <1>2, UnchangedParts
<1>8. AtRest(h)' BY <1>1, <1>3, <1>6 DEF AtRest, Steady
<1>9. live'[seg'] = h[seg'] BY <1>1, <1>5
<1>10. QED BY <1>1, <1>3, <1>7, <1>8, <1>9 DEF Story, Landing, Restoring

(* open finds the end of the ledger.                                       *)
LEMMA OpenStory ==
    ASSUME TypeOK, NEW h \in Ledgers, Story(h), OpenEmpty \/ OpenRefused \/ Open
    PROVE  Story(h)'
<1>1. /\ pc = "closed" /\ UNCHANGED <<live, durable, liveDir, durDir, acked>>
    BY DEF OpenEmpty, OpenRefused, Open, disk, history
<1>2. Base(h) /\ AtRest(h) /\ Chained(h) BY <1>1 DEF Story, Base
<1>3. Base(h)' BY <1>1, <1>2, UnchangedParts
<1>4. ~OpenRefused
    <2>1. liveDir # {} => ~OpenRefuses BY <1>2, OpenReads
    <2>2. OpenRefuses => liveDir # {} BY DEF OpenRefuses
    <2>3. QED BY <2>1, <2>2 DEF OpenRefused
<1>5. CASE OpenEmpty
    <2>1. /\ seg' = 0 /\ len' = 0 /\ next' = 0 /\ prev' = GENESIS_PREV /\ pc' = "idle"
          /\ owed' = {} /\ liveDir = {}
        BY <1>5 DEF OpenEmpty, NewHandle
    <2>2. Segs(h) = {} /\ 0 \in Names BY <1>2, <2>1, BoundsAssumption DEF AtRest, Names
    <2>3. h[0] = <<>> /\ live[0] = <<>> BY <1>2, <2>1, <2>2 DEF Segs, Base
    <2>4. AtRest(h)' BY <1>1, <1>2, <2>1, <2>2 DEF AtRest
    <2>5. At(h)' BY <2>1, <2>2, <2>3 DEF At, LastOf
    <2>6. QED BY <1>1, <1>3, <2>1, <2>3, <2>4, <2>5 DEF Story, Landing, Restoring
<1>6. CASE Open
    <2>1. liveDir # {} BY <1>6 DEF Open
    <2>2. /\ LastSeg \in Segs(h) /\ LastOf(h, LastSeg) /\ Boundary.next = LastSeg
          /\ Valid = Len(h[LastSeg])
        BY <1>2, <2>1, BoundaryReads, OpenReads
    <2>3. PICK t \in Segs(h) : t = LastSeg BY <2>2
    <2>4. /\ t \in Nat /\ h[t] \in Seq(Cell) /\ h[t] # <<>> /\ live[t] \in Seq(Cell)
        BY <1>2, SegmentFacts
    <2>5. Near(live[t], h[t]) BY <1>2 DEF AtRest, Steady
    <2>6. PICK n \in Nat : n = Len(h[t]) /\ n >= 1 /\ n \in 1 .. Len(h[t]) BY <2>4
    <2>7. Valid = n /\ n # 0 BY <2>2, <2>3, <2>6
    <2>8. /\ seg' = t /\ len' = n /\ next' = t + n /\ prev' = ChainHash(live[t][n])
          /\ pc' = (IF n < Len(live[t]) THEN "trunc" ELSE "idle") /\ owed' = {}
        BY <1>6, <2>2, <2>3, <2>7 DEF Open, NewHandle
    <2>9. /\ Len(h[t]) <= Len(live[t]) /\ live[t][n] = h[t][n]
          /\ Len(live[t]) = Len(h[t]) => live[t] = h[t]
        BY <2>4, <2>5, <2>6, NearFacts
    <2>10. AtRest(h)' BY <1>1, <1>2, <2>8 DEF AtRest, Steady
    <2>11. At(h)'
        <3>1. len' = Len(h[seg']) /\ next' = seg' + len' /\ LastOf(h, seg') /\ len' # 0
              /\ prev' = ChainHash(h[seg'][len'])
            BY <2>2, <2>3, <2>6, <2>7, <2>8, <2>9
        <3>2. QED BY <3>1 DEF At
    <2>12. len' > 0 BY <2>6, <2>8
    <2>13. CASE n < Len(live[t])
        <3>1. pc' = "trunc" BY <2>8, <2>13
        <3>2. QED BY <1>3, <2>10, <2>11, <2>12, <3>1 DEF Story, Landing, Restoring
    <2>14. CASE ~(n < Len(live[t]))
        <3>1. pc' = "idle" BY <2>8, <2>14
        <3>2. Len(live[t]) = Len(h[t]) BY <2>4, <2>6, <2>9, <2>14
        <3>3. live'[seg'] = h[seg'] BY <1>1, <2>8, <2>9, <3>2
        <3>4. QED BY <1>3, <2>8, <2>10, <2>11, <3>1, <3>3 DEF Story, Landing, Restoring
    <2>15. QED BY <2>13, <2>14
<1>7. QED BY <1>4, <1>5, <1>6

(* The repair of a torn tail cuts the last segment to its lines.           *)
LEMMA RecoverStory ==
    ASSUME TypeOK, NEW h \in Ledgers, Story(h),
           RecoverTruncate \/ RecoverSync \/ RecoverRemove \/ RecoverSyncDir
    PROVE  Story(h)'
<1>1. RecoverTruncate \/ RecoverSync BY DEF Story, RecoverRemove, RecoverSyncDir
<1>2. /\ pc \in {"trunc", "truncsync"}
      /\ UNCHANGED <<liveDir, durDir, seg, len, next, prev, owed, acked>>
    BY <1>1 DEF RecoverTruncate, RecoverSync, position, history
<1>3. Base(h) /\ AtRest(h) /\ At(h) /\ len > 0 /\ At(h)'
    BY <1>2 DEF Story, At
<1>4. /\ seg \in Names /\ seg \in Nat /\ len \in Nat /\ seg \in Segs(h) /\ len = Len(h[seg])
      /\ h[seg] \in Seq(Cell) /\ live[seg] \in Seq(Cell) /\ durable[seg] \in Seq(Cell)
      /\ LastOf(h, seg)
    BY <1>3, PositionFacts DEF TypeOK
<1>5. LastSeg = seg /\ ~Emptied
    <2>1. liveDir = Segs(h) /\ liveDir # {} BY <1>3, <1>4 DEF AtRest
    <2>2. LastSeg \in Segs(h) /\ LastOf(h, LastSeg) BY <2>1, LastSegFacts DEF LastOf
    <2>3. PICK t \in Segs(h) : t = LastSeg /\ t <= seg /\ seg <= t
        BY <1>4, <2>2 DEF LastOf
    <2>4. t \in Nat BY CellFacts DEF Segs
    <2>5. LastSeg = seg BY <1>4, <2>3, <2>4
    <2>6. QED BY <1>3, <1>4, <2>5 DEF Emptied
<1>6. Near(live[seg], h[seg]) /\ Near(durable[seg], h[seg]) BY <1>3, <1>4 DEF AtRest, Steady
<1>7. /\ live'[seg] = h[seg]
      /\ Near(durable'[seg], h[seg])
      /\ \A u \in Names \ {seg} : live'[u] = live[u] /\ durable'[u] = durable[u]
      /\ pc' \in {"truncsync", "trunclog"}
    <2>1. CASE RecoverTruncate
        <3>1. /\ live' = [live EXCEPT ![seg] = Truncated(live[seg], len)] /\ durable' = durable
              /\ pc' = "truncsync"
            BY <1>5, <2>1 DEF RecoverTruncate
        <3>2. Starts(live[seg], h[seg]) BY <1>4, <1>6, StartsSelf, CutStarts DEF Near
        <3>3. Truncated(live[seg], len) = h[seg] BY <1>4, <3>2, TruncatedStarts
        <3>4. QED BY <1>4, <1>6, <3>1, <3>3 DEF TypeOK
    <2>2. CASE RecoverSync
        <3>1. /\ durable' = [durable EXCEPT ![seg] = live[seg]] /\ live' = live
              /\ pc = "truncsync" /\ pc' = AfterRepair
            BY <1>5, <2>2 DEF RecoverSync
        <3>2. live[seg] = h[seg] BY <3>1 DEF Story
        <3>3. pc' = "trunclog"
            <4>1. next = seg + len BY <1>3 DEF At
            <4>2. next # 0 BY <1>3, <1>4, <4>1
            <4>3. QED BY <3>1, <4>2 DEF AfterRepair
        <3>4. QED BY <1>4, <1>6, <3>1, <3>2, <3>3 DEF TypeOK
    <2>3. QED BY <1>1, <2>1, <2>2
<1>8. Base(h)'
    <2>1. \A u \in Names \ liveDir : live'[u] = <<>> BY <1>3, <1>4, <1>7 DEF Base
    <2>2. QED BY <1>2, <1>3, <2>1 DEF Base
<1>9. AtRest(h)'
    <2>1. Near(live'[seg], h[seg]) BY <1>4, <1>7, NearSelf
    <2>2. \A u \in Segs(h) : Near(live'[u], h[u]) /\ Near(durable'[u], h[u])
        BY <1>3, <1>7, <2>1 DEF AtRest, Steady, Segs
    <2>3. QED BY <1>2, <1>3, <2>2 DEF AtRest, Steady
<1>10. live'[seg'] = h[seg'] /\ len' > 0 BY <1>2, <1>3, <1>7
<1>11. QED BY <1>3, <1>7, <1>8, <1>9, <1>10 DEF Story, Landing, Restoring

(* A handle that goes away at rest leaves the ledger.                      *)
LEMMA GoneStory ==
    ASSUME TypeOK, NEW h \in Ledgers, Story(h), ~orphaned', RecoverFails \/ Close \/ Kill
    PROVE  Story(h)'
<1>1. /\ UNCHANGED <<live, durable, liveDir, durDir, acked>> /\ pc' = "closed"
    BY DEF RecoverFails, Close, Kill, disk, history
<1>2. Base(h) /\ AtRest(h) /\ owed' = {}
    <2>1. CASE RecoverFails
        <3>1. pc \in {"trunc", "truncsync", "remove", "removedir"} /\ owed' = owed
            BY <2>1 DEF RecoverFails
        <3>2. QED BY <3>1 DEF Story, AtRest
    <2>2. CASE Close
        <3>1. pc = "idle" /\ owed = {} /\ owed' = owed BY <2>2 DEF Close
        <3>2. QED BY <3>1 DEF Story
    <2>3. CASE Kill
        <3>1. barrier # "Broken" /\ owed' = {} /\ pc # "closed" BY <2>3 DEF Kill
        <3>2. ~Writing(h) /\ ~Undoing(h) BY <3>1 DEF Writing, Undoing
        <3>3. pc \notin Landing /\ pc \notin Restoring /\ ~(pc = "idle" /\ owed # {})
            BY <3>2 DEF Story
        <3>4. Base(h) /\ pc \notin {"refused", "remove", "removedir"}
              /\ (pc = "idle" /\ owed = {} => AtRest(h))
              /\ (pc \in {"trunc", "truncsync", "trunclog"} => AtRest(h))
            BY DEF Story
        <3>5. AtRest(h)
            BY <3>1, <3>3, <3>4 DEF TypeOK, Landing, Restoring, Recovering
        <3>6. QED BY <3>1, <3>4, <3>5
    <2>4. QED BY <2>1, <2>2, <2>3
<1>3. Base(h)' BY <1>1, <1>2, UnchangedParts
<1>4. AtRest(h)' BY <1>1, <1>2 DEF AtRest, Steady
<1>5. QED BY <1>1, <1>3, <1>4 DEF Story, Landing, Restoring

(* Steps that leave the disk, the position and pc alone.                   *)
LEMMA StillStory ==
    ASSUME NEW h, Story(h),
           UNCHANGED <<live, durable, liveDir, durDir, pc, seg, len, next, prev, barrier, owed,
                       wave, todo, created, acked>>
    PROVE  Story(h)'
<1>1. Base(h)' /\ \A s : (Steady(h, s) => Steady(h, s)') BY UnchangedParts DEF Story
<1>2. Touched' = Touched /\ LandedIn(h)' = LandedIn(h) BY DEF Touched, LandedIn
<1>3. Wrote' = Wrote /\ Synced' = Synced BY <1>2 DEF Wrote, Synced
<1>4. At(h) => At(h)' BY DEF At
<1>5. AtRest(h) => AtRest(h)' BY <1>1 DEF AtRest
<1>6. Writing(h) => Writing(h)'
    <2>1. Continues(h) => Continues(h)' BY <1>2 DEF Continues
    <2>2. QED BY <1>1, <1>2, <1>3, <1>4, <2>1 DEF Writing
<1>7. Undoing(h) => Undoing(h)'
    <2>1. Recoverable(h, seg) => Recoverable(h, seg)' BY DEF Recoverable
    <2>2. QED BY <1>1, <1>4, <2>1 DEF Undoing
<1>8. QED BY <1>1, <1>4, <1>5, <1>6, <1>7 DEF Story

-----------------------------------------------------------------------------
(* What survives a power cut.                                              *)

(* Were power cut now, the ledger that comes back is h or continues it.    *)
Survives(h) ==
    /\ h \in Ledgers /\ Chained(h) /\ Has(h, acked)
    /\ durDir = Segs(h) /\ Segs(h) \subseteq liveDir
    /\ \A s \in Segs(h) : Recoverable(h, s)

(* The segment a wave is being appended to, before the wave has landed:    *)
(* the live plane is before the wave or past it, the durable one before it *)
(* or level with the live one.                                             *)
LEMMA WritingRecovers ==
    ASSUME TypeOK, NEW h \in Ledgers, Writing(h), seg \in Segs(h)
    PROVE  Recoverable(h, seg)
<1>1. At(h) /\ Continues(h) BY DEF Writing
<1>2. /\ seg \in Names /\ h[seg] \in Seq(Cell) /\ LastOf(h, seg)
      /\ live[seg] \in Seq(Cell) /\ durable[seg] \in Seq(Cell)
    BY <1>1, PositionFacts DEF TypeOK
<1>3. PICK k \in Ledgers : k = LandedIn(h) /\ Chained(k) BY <1>1 DEF Continues
<1>4. PICK full \in Seq(Cell) :
        full = h[seg] \o wave[seg] /\ Starts(full, h[seg]) /\ Lines(full, seg)
    <2>1. k[seg] = h[seg] \o wave[seg] /\ Starts(k[seg], h[seg]) BY <1>2, <1>3, LandedFacts
    <2>2. k[seg] \in Seq(Cell) /\ Lines(k[seg], seg) BY <1>2, <1>3 DEF Ledgers, Chained
    <2>3. QED BY <2>1, <2>2
<1>5. live[seg] = full \/ live[seg] = h[seg] BY <1>4 DEF Writing
<1>6. Cut(live[seg], full, Len(h[seg]))
    <2>a. Len(h[seg]) <= Len(full) BY <1>4 DEF Starts
    <2>b. Len(h[seg]) \in Nat /\ Len(h[seg]) <= Len(h[seg]) BY <1>2
    <2>1. Len(h[seg]) <= Len(full) /\ Len(h[seg]) <= Len(h[seg]) /\ Len(h[seg]) \in Nat
        BY <2>a, <2>b
    <2>2. Cut(full, full, Len(h[seg])) BY <2>1, StartsSelf, StartsCut
    <2>3. Cut(h[seg], full, Len(h[seg])) BY <1>2, <1>4, <2>1, StartsCut
    <2>4. QED BY <1>5, <2>2, <2>3
<1>7. Near(durable[seg], h[seg]) \/ durable[seg] = live[seg] BY DEF Writing
<1>8. CASE Near(durable[seg], h[seg])
    <2>1. Cut(durable[seg], full, Len(h[seg])) /\ Len(durable[seg]) <= Len(h[seg]) + 1
        BY <1>2, <1>4, <1>8, NearCut
    <2>2. QED BY <1>2, <1>4, <1>6, <2>1 DEF Recoverable
<1>9. CASE durable[seg] = live[seg]
    <2>1. Cut(durable[seg], full, Len(h[seg])) BY <1>6, <1>9
    <2>2. QED BY <1>2, <1>4, <1>6, <1>9, <2>1 DEF Recoverable
<1>10. QED BY <1>7, <1>8, <1>9

(* Once the wave has landed it is both planes' and the directory's, before *)
(* the caller hears of it.                                                 *)
LEMMA LandedSurvives ==
    ASSUME TypeOK, NEW h \in Ledgers, Base(h), Writing(h), pc = "landed"
    PROVE  \E k \in Ledgers : Survives(k)
<1>1. /\ created = Touched \ Segs(h) /\ LandedIn(h) \in Ledgers /\ Chained(LandedIn(h))
    BY DEF Writing, Continues
<1>2. PICK k \in Ledgers : k = LandedIn(h) /\ Chained(k) BY <1>1
<1>3. /\ \A s \in Names : k[s] = h[s] \o wave[s] /\ Starts(k[s], h[s])
      /\ \A s \in Names \ Touched : k[s] = h[s]
      /\ Segs(k) = Segs(h) \cup Touched
    BY <1>2, LandedFacts
<1>4. Touched \subseteq Names /\ Wrote = Touched /\ Synced = Touched
    BY DEF Touched, Wrote, Synced
<1>5. liveDir = Segs(k) /\ durDir = Segs(k) BY <1>1, <1>3, <1>4 DEF Writing
<1>6. ASSUME NEW s \in Segs(k) PROVE Recoverable(k, s)
    <2>1. s \in Names /\ k[s] \in Seq(Cell) BY DEF Segs, Ledgers
    <2>2. CASE s \in Touched
        <3>1. live[s] = k[s] /\ durable[s] = k[s] BY <1>3, <1>4, <2>2 DEF Writing
        <3>2. Steady(k, s) BY <2>1, <3>1, NearSelf DEF Steady
        <3>3. QED BY <1>2, <2>1, <3>2, SteadyRecovers
    <2>3. CASE s \notin Touched
        <3>1. s \in Segs(h) /\ k[s] = h[s] BY <1>3, <2>1, <2>3
        <3>2. Steady(k, s)
            <4>1. CASE s # seg BY <3>1, <4>1 DEF Writing, Steady
            <4>2. CASE s = seg
                <5>1. live[s] = h[s] /\ Near(durable[s], h[s])
                    BY <1>4, <2>3, <3>1, <4>2 DEF Writing
                <5>2. QED BY <2>1, <3>1, <5>1, NearSelf DEF Steady
            <4>3. QED BY <4>1, <4>2
        <3>3. QED BY <1>2, <2>1, <3>2, SteadyRecovers
    <2>4. QED BY <2>2, <2>3
<1>7. Has(k, acked) BY <1>3, HasMore DEF Base
<1>8. Survives(k) BY <1>2, <1>5, <1>6, <1>7 DEF Survives
<1>9. QED BY <1>8

(* Wherever the handle is, a ledger with every acknowledged line would     *)
(* survive a power cut.                                                    *)
LEMMA StorySurvives ==
    ASSUME TypeOK, NEW h \in Ledgers, Story(h)
    PROVE  \E k \in Ledgers : Survives(k)
<1>1. Base(h) /\ Chained(h) /\ Has(h, acked) /\ Segs(h) \subseteq liveDir BY DEF Story, Base
<1>2. ASSUME NEW s \in Segs(h), Steady(h, s) PROVE Recoverable(h, s)
    BY <1>1, <1>2, SteadyRecovers DEF Segs
<1>3. CASE AtRest(h) BY <1>1, <1>2, <1>3 DEF Survives, AtRest
<1>4. CASE Writing(h) /\ pc = "landed" BY <1>1, <1>4, LandedSurvives
<1>5. CASE Writing(h) /\ pc # "landed"
    <2>1. durDir = Segs(h) /\ \A s \in Segs(h) \ {seg} : Steady(h, s) BY <1>5 DEF Writing
    <2>2. seg \in Segs(h) => Recoverable(h, seg) BY <1>5, WritingRecovers
    <2>3. QED BY <1>1, <1>2, <2>1, <2>2 DEF Survives
<1>6. CASE Undoing(h)
    <2>1. durDir = Segs(h) /\ (\A s \in Segs(h) \ {seg} : Steady(h, s)) /\ At(h)
          /\ (len > 0 => Recoverable(h, seg))
        BY <1>6 DEF Undoing
    <2>2. seg \in Segs(h) => Recoverable(h, seg) BY <2>1, PositionFacts
    <2>3. QED BY <1>1, <1>2, <2>1, <2>2 DEF Survives
<1>7. AtRest(h) \/ Writing(h) \/ Undoing(h)
    BY DEF Story, TypeOK, Landing, Restoring, Recovering
<1>8. QED BY <1>3, <1>4, <1>5, <1>6, <1>7

(* A power cut leaves a ledger at rest, with every acknowledged line.      *)
LEMMA PowerCutStory ==
    ASSUME TypeOK, ~LazyDir, NEW h \in Ledgers, Story(h), PowerCut
    PROVE  \E k \in Ledgers : Story(k)'
<1>1. PICK k \in Ledgers : Survives(k) BY StorySurvives
<1>2. PICK g \in Ledgers : Base(g)' /\ AtRest(g)' BY <1>1, AfterCut DEF Survives
<1>3. pc' = "closed" BY DEF PowerCut
<1>4. Story(g)' BY <1>2, <1>3 DEF Story, Landing, Restoring
<1>5. QED BY <1>4

-----------------------------------------------------------------------------
(* The inductive invariant, and what follows from it.                      *)

(* No handle has gone away with a failed wave still on the disk. *)
Clean == ~orphaned /\ ~exposed

(* The inductive invariant: the disk and the handle always stand for one   *)
(* chained ledger that holds every acknowledged line.                      *)
DInv == IInv /\ (~LazyDir /\ Clean => \E h \in Ledgers : Story(h))

(* The empty disk is an empty ledger.                                      *)
LEMMA InitStory == Init => DInv
<1>1. SUFFICES ASSUME Init PROVE DInv OBVIOUS
<1>2. IInv BY <1>1, InitIInv
<1>3. PICK h \in Ledgers : \A s \in Names : h[s] = <<>>
    <2>1. NoWave \in Ledgers BY CellFacts DEF NoWave, Ledgers
    <2>2. QED BY <2>1 DEF NoWave
<1>4. /\ live = NoWave /\ durable = NoWave /\ liveDir = {} /\ durDir = {} /\ pc = "closed"
      /\ owed = {} /\ acked = {}
    BY <1>1 DEF Init
<1>5. Segs(h) = {} BY <1>3 DEF Segs
<1>6. Chained(h)
    <2>1. \A s \in Names : Lines(h[s], s) BY <1>3 DEF Lines
    <2>2. QED BY <1>5, <2>1 DEF Chained
<1>7. Base(h)
    <2>1. Has(h, acked) BY <1>4 DEF Has
    <2>2. \A s \in Names \ liveDir : live[s] = <<>> BY <1>4 DEF NoWave
    <2>3. QED BY <1>4, <1>5, <1>6, <2>1, <2>2 DEF Base
<1>8. AtRest(h) BY <1>4, <1>5 DEF AtRest
<1>9. Story(h) BY <1>4, <1>7, <1>8 DEF Story, Landing, Restoring
<1>10. QED BY <1>2, <1>9 DEF DInv

(* An orphaned or exposed ledger stays one. *)
LEMMA CleanBefore ==
    ASSUME TypeOK, [Next]_vars, Clean'
    PROVE  Clean
<1>1. CASE UNCHANGED vars BY <1>1 DEF vars, history, Clean
<1>2. CASE ClientStep
    BY <1>2 DEF ClientStep, AppendAll, FinishUnwind, Close, Clean, history
<1>3. CASE OpenStep
    BY <1>3 DEF OpenStep, OpenEmpty, OpenRefused, Open, Clean, history
<1>4. CASE HandleStep
    <2>1. UNCHANGED <<orphaned, exposed>>
        <3>1. LandAppend \/ LandSync \/ LandSyncDir \/ Acknowledge => UNCHANGED <<orphaned, exposed>>
            BY Zenon DEF LandAppend, LandSync, LandSyncDir, Acknowledge, history
        <3>2. RestoreUnlink \/ RestoreSyncDir \/ RestoreTruncate \/ RestoreSync \/ RestoreDone
                => UNCHANGED <<orphaned, exposed>>
            BY Zenon DEF RestoreUnlink, RestoreSyncDir, RestoreTruncate, RestoreSync, RestoreDone, history
        <3>3. RecoverTruncate \/ RecoverSync \/ RecoverRemove \/ RecoverSyncDir
                => UNCHANGED <<orphaned, exposed>>
            BY Zenon DEF RecoverTruncate, RecoverSync, RecoverRemove, RecoverSyncDir, history
        <3>4. (\E rolls \in Rolls(1) : LogTruncated(rolls)) => UNCHANGED <<orphaned, exposed>>
            BY Zenon DEF LogTruncated
        <3>5. QED BY <1>4, <3>1, <3>2, <3>3, <3>4 DEF HandleStep
    <2>2. QED BY <2>1 DEF Clean
<1>5. CASE FaultStep
    <2>1. CASE PowerCut BY <2>1 DEF PowerCut, Clean, TypeOK
    <2>2. CASE Kill BY <2>2 DEF Kill, Clean, TypeOK
    <2>3. CASE RestoreFails BY <2>3 DEF RestoreFails, Clean, TypeOK
    <2>4. CASE LandAppendFails \/ LandSyncFails \/ RecoverFails \/ Trip
        BY <2>4 DEF LandAppendFails, LandSyncFails, WaveFails, RecoverFails, Trip, Clean, history
    <2>5. QED BY <1>5, <2>1, <2>2, <2>3, <2>4 DEF FaultStep
<1>6. QED BY <1>1, <1>2, <1>3, <1>4, <1>5 DEF Next

(* Every step continues the story.                                         *)
LEMMA NextStory ==
    ASSUME TypeOK, TypeOK', ~LazyDir, NEW h \in Ledgers, Story(h), [Next]_vars, ~orphaned'
    PROVE  \E k \in Ledgers : Story(k)'
<1>1. CASE UNCHANGED vars
    <2>1. Story(h)'
        BY <1>1, StillStory DEF vars, disk, position, shape, history
    <2>2. QED BY <2>1
<1>2. CASE ClientStep
    <2>1. ASSUME NEW n \in 1 .. MaxWave, next + n - 1 <= MaxSeq, NEW rolls \in Rolls(n),
                 AppendAll(n, rolls)
          PROVE  Story(h)'
        <3>1. /\ pc = "idle" /\ owed = {} /\ StartWave(n, rolls) /\ UNCHANGED plot
            BY <2>1 DEF AppendAll, plot, disk, position
        <3>2. Base(h) /\ AtRest(h) /\ At(h) /\ live[seg] = h[seg] BY <3>1 DEF Story
        <3>3. n \in Nat /\ n >= 1 BY BoundsAssumption
        <3>4. QED BY <2>1, <3>1, <3>2, <3>3, StartWaveStory
    <2>2. FinishUnwind => Story(h)' BY UnwindPauses
    <2>3. Close => Story(h)' BY GoneStory
    <2>4. Story(h)' BY <1>2, <2>1, <2>2, <2>3 DEF ClientStep
    <2>5. QED BY <2>4
<1>3. CASE OpenStep
    <2>1. Story(h)' BY <1>3, OpenStory DEF OpenStep
    <2>2. QED BY <2>1
<1>4. CASE HandleStep
    <2>1. CASE Acknowledge BY <2>1, AcknowledgeStory
    <2>2. CASE \E rolls \in Rolls(1) : LogTruncated(rolls)
        <3>1. PICK rolls \in Rolls(1) : LogTruncated(rolls) BY <2>2
        <3>2. /\ pc = "trunclog" /\ next <= MaxSeq /\ StartWave(1, rolls) /\ UNCHANGED plot
            BY <3>1 DEF LogTruncated, plot, disk, position
        <3>3. Base(h) /\ AtRest(h) /\ At(h) /\ live[seg] = h[seg] BY <3>2 DEF Story
        <3>4. next + 1 - 1 <= MaxSeq /\ 1 \in Nat /\ 1 >= 1
            BY <3>2, BoundsAssumption DEF TypeOK
        <3>5. Story(h)' BY <3>1, <3>2, <3>3, <3>4, StartWaveStory
        <3>6. QED BY <3>5
    <2>3. CASE \/ LandAppend \/ LandSync \/ LandSyncDir
               \/ RestoreUnlink \/ RestoreSyncDir \/ RestoreTruncate \/ RestoreSync \/ RestoreDone
               \/ RecoverTruncate \/ RecoverSync \/ RecoverRemove \/ RecoverSyncDir
        <3>1. Story(h)'
            BY <2>3, LandAppendStory, LandSyncStory, LandSyncDirStory, RestoreUnlinkStory,
               RestoreSyncDirStory, RestoreCutStory, RestoreDoneStory, RecoverStory
        <3>2. QED BY <3>1
    <2>4. QED BY <1>4, <2>1, <2>2, <2>3 DEF HandleStep
<1>5. CASE FaultStep
    <2>1. CASE PowerCut BY <2>1, PowerCutStory
    <2>2. CASE Trip
        <3>1. Story(h)' BY <2>2, StillStory DEF Trip, disk, position, shape, history
        <3>2. QED BY <3>1
    <2>3. CASE LandAppendFails \/ LandSyncFails \/ RestoreFails \/ RecoverFails \/ Kill
        <3>1. Story(h)' BY <2>3, WaveFailsStory, UnwindPauses, GoneStory
        <3>2. QED BY <3>1
    <2>4. QED BY <1>5, <2>1, <2>2, <2>3 DEF FaultStep
<1>6. QED BY <1>1, <1>2, <1>3, <1>4, <1>5 DEF Next

(* DInv is inductive.                                                      *)
LEMMA NextDInv == DInv /\ [Next]_vars => DInv'
<1>1. SUFFICES ASSUME DInv, [Next]_vars PROVE DInv' OBVIOUS
<1>2. IInv /\ IInv' BY <1>1, NextIInv DEF DInv
<1>3. TypeOK /\ TypeOK' BY <1>2 DEF IInv
<1>4. ASSUME ~LazyDir, Clean' PROVE \E k \in Ledgers : Story(k)'
    <2>1. Clean BY <1>1, <1>3, <1>4, CleanBefore
    <2>2. PICK h \in Ledgers : Story(h) BY <1>1, <1>4, <2>1 DEF DInv
    <2>3. ~orphaned' BY <1>4 DEF Clean
    <2>4. QED BY <1>1, <1>3, <1>4, <2>2, <2>3, NextStory
<1>5. Ledgers' = Ledgers BY DEF Ledgers, Names, Cell, Hash
<1>6. QED BY <1>2, <1>4, <1>5 DEF DInv

(* A whole barrier on an idle handle: nothing is owed, so the files are    *)
(* the ledger and the position is its end.                                 *)
LEMMA DInvPosition == DInv /\ ~LazyDir => PositionIsEnd
<1>1. SUFFICES ASSUME DInv, ~LazyDir, Clean, pc = "idle", barrier = "Whole"
               PROVE  /\ Len(live[seg]) = len /\ (len > 0 => seg \in liveDir)
                      /\ (\A s \in liveDir : s <= seg) /\ next = seg + len
    BY DEF PositionIsEnd, Clean
<1>2. PICK h \in Ledgers : Story(h) BY <1>1 DEF DInv
<1>3. TypeOK BY <1>1 DEF DInv, IInv
<1>4. owed = {} BY <1>1, <1>2 DEF Story, Undoing
<1>5. AtRest(h) /\ At(h) /\ live[seg] = h[seg] BY <1>1, <1>2, <1>4 DEF Story
<1>6. len = Len(h[seg]) /\ (len > 0 <=> seg \in Segs(h)) /\ LastOf(h, seg)
    BY <1>3, <1>5, PositionFacts
<1>7. QED BY <1>5, <1>6 DEF AtRest, At, LastOf

(* A ledger at rest is never refused.                                      *)
LEMMA DInvOpens == DInv /\ ~LazyDir => NeverRefused
BY DEF DInv, NeverRefused, Clean, Story

(* What would survive a power cut holds every acknowledged line.           *)
LEMMA DInvDurable == DInv /\ ~LazyDir => AckedDurable
<1>1. SUFFICES ASSUME DInv, ~LazyDir, Clean, NEW cell \in acked
               PROVE  OnDisk(durable, liveDir \cap durDir, cell)
    BY DEF AckedDurable, Clean
<1>2. PICK h \in Ledgers : Story(h) BY <1>1 DEF DInv
<1>3. TypeOK BY <1>1 DEF DInv, IInv
<1>4. PICK k \in Ledgers : Survives(k) BY <1>2, <1>3, StorySurvives
<1>5. PICK s \in Names : \E i \in 1 .. Len(k[s]) : k[s][i] = cell
    BY <1>1, <1>4 DEF Survives, Has
<1>6. PICK i \in 1 .. Len(k[s]) : k[s][i] = cell BY <1>5
<1>7. k[s] \in Seq(Cell) /\ durable[s] \in Seq(Cell) BY <1>3 DEF Ledgers, TypeOK
<1>8. s \in Segs(k)
    <2>1. k[s] # <<>> BY <1>6, <1>7
    <2>2. QED BY <2>1 DEF Segs
<1>9. s \in liveDir \cap durDir /\ Recoverable(k, s) BY <1>4, <1>8 DEF Survives
<1>10. PICK full \in Seq(Cell) : Starts(full, k[s]) /\ Cut(durable[s], full, Len(k[s]))
    BY <1>9 DEF Recoverable
<1>11. Starts(durable[s], k[s]) BY <1>7, <1>10, CutStarts
<1>12. i \in DOMAIN durable[s] /\ durable[s][i] = cell
    <2>1. i \in 1 .. Len(durable[s]) /\ durable[s][i] = k[s][i] BY <1>7, <1>11 DEF Starts
    <2>2. QED BY <1>6, <1>7, <2>1
<1>13. QED BY <1>9, <1>12 DEF OnDisk

(* Every reachable state has its story. *)
LEMMA DInvHolds == Spec => []DInv
<1>1. Init => DInv BY InitStory
<1>2. DInv /\ [Next]_vars => DInv' BY NextDInv
<1>3. QED BY <1>1, <1>2, PTL DEF Spec

(* On a disk whose directory changes are durable only by sync_dir,         *)
(* removals aside (FaultFs), Barrier::Whole on an idle handle always means *)
(* that seg_path, seg_len and next_seq are the end of what the segments    *)
(* hold: after any sequence of waves, failures, unwinds, repairs, kills    *)
(* and power cuts, unless a handle went away with a failed wave on the     *)
(* disk.                                                                   *)
THEOREM PositionHolds == ASSUME ~LazyDir PROVE Spec => []PositionIsEnd
<1>1. DInv => PositionIsEnd BY DInvPosition
<1>2. QED BY <1>1, DInvHolds, PTL

(* On the same disk and with the same exception, open never refuses what a *)
(* writer, its failures and any number of power cuts left: it is always a  *)
(* chain from genesis whose last segment may be torn (open.rs,             *)
(* recover_tail).                                                          *)
THEOREM OpensWhatItLeft == ASSUME ~LazyDir PROVE Spec => []NeverRefused
<1>1. DInv => NeverRefused BY DInvOpens
<1>2. QED BY <1>1, DInvHolds, PTL

(* On the same disk and with the same exception, every line append_all     *)
(* answered Ok for is on the durable plane under a durable directory entry *)
(* at every later moment, through failed waves, restore's truncations and  *)
(* removals, and recovery's own repairs.                                   *)
THEOREM AcknowledgedSurvives == ASSUME ~LazyDir PROVE Spec => []AckedDurable
<1>1. DInv => AckedDurable BY DInvDurable
<1>2. QED BY <1>1, DInvHolds, PTL

-----------------------------------------------------------------------------
(* What a reader of the files finds.                                       *)

(* Induction up to N, for the set of the numbers it is shown for.          *)
LEMMA UpTo ==
    ASSUME NEW N \in Nat, NEW S, 0 \in S, \A n \in 1 .. N : n - 1 \in S => n \in S
    PROVE  N \in S
<1> DEFINE Bad == {n \in 0 .. N : n \notin S}
<1>1. SUFFICES ASSUME Bad # {} PROVE FALSE OBVIOUS
<1>2. Bad \in SUBSET Nat OBVIOUS
<1>3. PICK k \in Bad : \A j \in Bad : k <= j
    <2> HIDE DEF Bad
    <2> QED BY <1>1, <1>2, MinProperties
<1>4. k \in 1 .. N /\ k - 1 \in 0 .. N BY <1>3
<1>5. k - 1 \notin Bad BY <1>3, <1>4
<1>6. k - 1 \in S BY <1>4, <1>5
<1>7. QED BY <1>3, <1>4, <1>6

(* A recursion over 0 .. N has a function.                                 *)
Recurs(f, W, N, a, step) ==
    f \in [0 .. N -> W] /\ f[0] = a /\ \A n \in 1 .. N : f[n] = step[<<f[n - 1], n>>]

LEMMA Recursion ==
    ASSUME NEW W, NEW N, NEW a, NEW step,
           N \in Nat, a \in W, step \in [W \X (1 .. N) -> W]
    PROVE  \E f : Recurs(f, W, N, a, step)
<1> DEFINE Good(k, f) == f \in [0 .. k -> W] /\ f[0] = a /\ \A n \in 1 .. k : f[n] = step[<<f[n - 1], n>>]
           S == {k \in 0 .. N : \E f : Good(k, f)}
<1>1. Good(0, [i \in 0 .. 0 |-> a]) OBVIOUS
<1>2. 0 \in S
    <2> HIDE DEF Good
    <2> QED BY <1>1
<1>3. ASSUME NEW k \in 1 .. N, k - 1 \in S PROVE k \in S
    <2>1. PICK f : Good(k - 1, f) BY <1>3
    <2> DEFINE g == [i \in 0 .. k |-> IF i = k THEN step[<<f[k - 1], k>>] ELSE f[i]]
    <2>2. f[k - 1] \in W BY <2>1
    <2>3. step[<<f[k - 1], k>>] \in W BY <2>2
    <2>4. \A i \in 0 .. k : i # k => i \in 0 .. (k - 1) OBVIOUS
    <2>5. g \in [0 .. k -> W] BY <2>1, <2>3, <2>4
    <2>6. g[0] = a BY <2>1
    <2>7. ASSUME NEW n \in 1 .. k PROVE g[n] = step[<<g[n - 1], n>>]
        <3>1. n - 1 \in 0 .. k /\ n - 1 # k /\ g[n - 1] = f[n - 1] OBVIOUS
        <3>2. CASE n = k BY <3>1, <3>2
        <3>3. CASE n # k
            <4>1. n \in 1 .. (k - 1) BY <3>3
            <4>2. f[n] = step[<<f[n - 1], n>>] BY <4>1, <2>1
            <4>3. g[n] = f[n] BY <3>3
            <4>4. QED BY <4>2, <4>3, <3>1
        <3>4. QED BY <3>2, <3>3
    <2>8. Good(k, g) BY <2>5, <2>6, <2>7
    <2> HIDE DEF Good
    <2>9. QED BY <2>8
<1>4. N \in S
    <2> HIDE DEF S
    <2> QED BY <1>2, <1>3, UpTo
<1>5. QED BY <1>4 DEF Recurs

(* What is flat of a sequence of sequences after each of them.             *)
Flats(S, ss, g) ==
    /\ g \in [0 .. Len(ss) -> Seq(S)] /\ g[0] = <<>>
    /\ \A n \in 1 .. Len(ss) : g[n] = g[n - 1] \o ss[n]

LEMMA NothingBefore ==
    ASSUME NEW S, NEW s \in Seq(S)
    PROVE  <<>> \o s = s /\ <<>> \in Seq(S)
BY ConcatEmptySeq

LEMMA Flattens ==
    ASSUME NEW S, NEW ss \in Seq(Seq(S))
    PROVE  \E g : Flats(S, ss, g) /\ FlattenSeq(ss) = g[Len(ss)]
<1> DEFINE N == Len(ss)
           step == [p \in Seq(S) \X (1 .. N) |-> p[1] \o ss[p[2]]]
           F(f) == f = [i \in 1 .. N |-> IF i = 1 THEN ss[i] ELSE f[i - 1] \o ss[i]]
           h == CHOOSE f : F(f)
<1>0. N \in Nat /\ (\A n \in 1 .. N : ss[n] \in Seq(S)) /\ <<>> \in Seq(S)
    OBVIOUS
<1>1. step \in [Seq(S) \X (1 .. N) -> Seq(S)]
  <2>1. ASSUME NEW p \in Seq(S) \X (1 .. N) PROVE p[1] \o ss[p[2]] \in Seq(S)
    <3>1. PICK x \in Seq(S), n \in 1 .. N : x = p[1] /\ n = p[2]
        OBVIOUS
    <3>2. PICK y \in Seq(S) : y = ss[n]
        BY <1>0
    <3> QED
        BY <3>1, <3>2
  <2> QED
      BY <2>1
<1>2. PICK g \in [0 .. N -> Seq(S)] : g[0] = <<>> /\ \A n \in 1 .. N : g[n] = step[<<g[n - 1], n>>]
  <2> HIDE DEF step, N
  <2>1. \E f : Recurs(f, Seq(S), N, <<>>, step)
      BY <1>0, <1>1, Recursion
  <2> QED
      BY <2>1 DEF Recurs
<1>3. ASSUME NEW n \in 1 .. N PROVE g[n] = g[n - 1] \o ss[n]
  <2>1. n - 1 \in 0 .. N
      BY <1>0
  <2>2. <<g[n - 1], n>> \in Seq(S) \X (1 .. N)
      BY <2>1
  <2> QED
      BY <1>2, <2>2
<1>4. \A n \in 1 .. N : g[n] = IF n = 1 THEN ss[n] ELSE g[n - 1] \o ss[n]
  <2>1. SUFFICES ASSUME 1 \in 1 .. N PROVE g[1] = ss[1]
      BY <1>3
  <2>2. <<>> \o ss[1] = ss[1]
      BY <1>0, <2>1, NothingBefore
  <2>3. g[1] = g[0] \o ss[1]
    <3>1. 1 - 1 = 0
        OBVIOUS
    <3> QED
        BY <1>3, <2>1, <3>1
  <2> QED
      BY <1>2, <2>2, <2>3
<1>a. PICK e : e = [n \in 1 .. N |-> g[n]]
    OBVIOUS
<1>5. F(e)
  <2>1. \A n \in 1 .. N : n # 1 => n - 1 \in 1 .. N
      BY <1>0
  <2>2. \A n \in 1 .. N : n # 1 => e[n - 1] = g[n - 1]
      BY <1>a, <2>1
  <2> QED
      BY <1>4, <1>a, <2>2
<1>6. F(h)
  <2> HIDE DEF N
  <2>1. \E f : F(f)
      BY <1>5
  <2> QED
      BY <2>1, Zenon
<1>7. \A n \in 0 .. N : n # 0 => h[n] = g[n]
  <2> DEFINE T == {n \in 0 .. N : n # 0 => h[n] = g[n]}
  <2> HIDE DEF h, N
  <2>1. h = [n \in 1 .. N |-> IF n = 1 THEN ss[n] ELSE h[n - 1] \o ss[n]]
      BY <1>6
  <2>2. 0 \in T
      BY <1>0
  <2>3. ASSUME NEW n \in 1 .. N, n - 1 \in T PROVE n \in T
    <3>1. n # 1 => h[n - 1] = g[n - 1]
        BY <1>0, <2>3
    <3>2. h[n] = IF n = 1 THEN ss[n] ELSE h[n - 1] \o ss[n]
        BY <2>1
    <3>3. g[n] = IF n = 1 THEN ss[n] ELSE g[n - 1] \o ss[n]
        BY <1>4
    <3>4. h[n] = g[n]
        BY <3>1, <3>2, <3>3, Zenon
    <3>5. n \in 0 .. N
        BY <1>0
    <3> QED
        BY <3>4, <3>5
  <2>4. ASSUME NEW m \in 0 .. N PROVE m \in T
    <3> HIDE DEF T
    <3>1. m \in Nat /\ \A n \in 1 .. m : n \in 1 .. N
        BY <1>0
    <3> QED
        BY <2>2, <2>3, <3>1, UpTo
  <2> QED
      BY <2>4
<1>8. FlattenSeq(ss) = g[N]
  <2>1. CASE N = 0
    <3>1. FlattenSeq(ss) = ss /\ ss = <<>>
        BY <2>1 DEF FlattenSeq
    <3> QED
        BY <1>2, <2>1, <3>1
  <2>2. CASE N # 0
    <3>1. FlattenSeq(ss) = h[N]
        BY <2>2 DEF FlattenSeq
    <3>2. N \in 0 .. N
        BY <1>0
    <3>3. h[N] = g[N]
      <4> HIDE DEF h, N
      <4> QED
          BY <1>7, <2>2, <3>2
    <3> QED
        BY <3>1, <3>3
  <2> QED
      BY <2>1, <2>2
<1> QED
    BY <1>2, <1>3, <1>8 DEF Flats

(* The lines of the segments before the n-th, in name order.               *)
Texts(files, g) ==
    /\ g \in [0 .. MaxSeq + 1 -> Seq(Cell)] /\ g[0] = <<>>
    /\ \A s \in Names : g[s + 1] = g[s] \o Complete(files[s])
    /\ RawLines(files) = g[MaxSeq + 1]

(* The complete lines of a file are its cells up to the last terminator.   *)
LEMMA CompleteFacts ==
    ASSUME NEW f \in Seq(Cell)
    PROVE  /\ Complete(f) \in Seq(Cell) /\ Len(Complete(f)) = LastLine(f)
           /\ LastLine(f) \in 0 .. Len(f)
           /\ \A i \in 1 .. LastLine(f) : Complete(f)[i] = f[i]
           /\ LastLine(f) > 0 => f[LastLine(f)].whole
           /\ \A i \in 1 .. Len(f) : f[i].whole => i <= LastLine(f)
<1> DEFINE S == {0} \cup {i \in 1 .. Len(f) : f[i].whole}
<1>1. S \in SUBSET Nat /\ S # {} /\ Len(f) \in Nat /\ \A t \in S : t <= Len(f)
    OBVIOUS
<1>2. \A t \in S : t > 0 => f[t].whole
    OBVIOUS
<1>3. \A t \in S : t \in 0 .. Len(f)
    OBVIOUS
<1>4. \A i \in 1 .. Len(f) : f[i].whole => i \in S
    OBVIOUS
<1>5. PICK m : m = LastLine(f) /\ m = Max(S)
    BY DEF LastLine
<1> HIDE DEF S
<1>6. m \in S /\ \A t \in S : t <= m
    BY <1>1, <1>5, MaxProperties
<1>7. m \in 0 .. Len(f)
    BY <1>3, <1>6
<1>8. \A i \in 1 .. m : f[i] \in Cell
    BY <1>1, <1>7
<1>9. /\ SubSeq(f, 1, m) \in Seq(Cell) /\ Len(SubSeq(f, 1, m)) = m
      /\ \A i \in 1 .. m : SubSeq(f, 1, m)[i] = f[i]
    BY <1>7, <1>8, SubSeqProperties
<1>10. Complete(f) = SubSeq(f, 1, m)
    BY <1>5 DEF Complete
<1> QED
    BY <1>2, <1>4, <1>5, <1>6, <1>7, <1>9, <1>10

LEMMA TextsExist ==
    ASSUME NEW files \in Ledgers
    PROVE  \E g : Texts(files, g)
<1> DEFINE N == MaxSeq + 1
           ss == [i \in 1 .. N |-> Complete(files[i - 1])]
<1>0. N \in Nat /\ MaxSeq \in Nat /\ (\A s \in Names : s + 1 \in 1 .. N)
      /\ \A i \in 1 .. N : i - 1 \in Names
    BY BoundsAssumption DEF Names
<1>1. \A i \in 1 .. N : Complete(files[i - 1]) \in Seq(Cell)
    BY <1>0, CompleteFacts DEF Ledgers
<1>2. ss \in Seq(Seq(Cell)) /\ Len(ss) = N
    BY <1>0, <1>1
<1>3. \A s \in Names : ss[s + 1] = Complete(files[s])
  <2>1. ASSUME NEW s \in Names PROVE ss[s + 1] = Complete(files[s])
    <3>1. PICK i \in 1 .. N : i = s + 1 /\ i - 1 = s
        BY <1>0, CellFacts
    <3>2. ss[i] = Complete(files[i - 1])
        OBVIOUS
    <3> QED
        BY <3>1, <3>2, Zenon
  <2> QED
      BY <2>1
<1>4. RawLines(files) = FlattenSeq(ss)
    BY DEF RawLines
<1> HIDE DEF ss, N
<1>5. PICK g : Flats(Cell, ss, g) /\ FlattenSeq(ss) = g[Len(ss)]
    BY <1>2, Flattens
<1>6. ASSUME NEW s \in Names PROVE g[s + 1] = g[s] \o Complete(files[s])
  <2>1. PICK i \in 1 .. N : i = s + 1 /\ i - 1 = s
      BY <1>0, CellFacts
  <2>2. \A n \in 1 .. N : g[n] = g[n - 1] \o ss[n]
      BY <1>2, <1>5 DEF Flats
  <2>3. g[i] = g[i - 1] \o ss[i]
      BY <2>2
  <2> QED
      BY <1>3, <2>1, <2>3, Zenon
<1>7. g \in [0 .. N -> Seq(Cell)] /\ g[0] = <<>>
    BY <1>2, <1>5 DEF Flats
<1>8. Texts(files, g)
    BY <1>2, <1>4, <1>5, <1>6, <1>7 DEF Texts, N
<1> QED
    BY <1>8

(* A reader of a file cut short finds a beginning of its lines.            *)
LEMMA CompleteCut ==
    ASSUME NEW f \in Seq(Cell), NEW full \in Seq(Cell), NEW n \in Nat, Cut(f, full, n)
    PROVE  Starts(full, Complete(f)) /\ Cut(f, full, 0)
<1>0. PICK m : m = LastLine(f)
    OBVIOUS
<1>1. /\ Complete(f) \in Seq(Cell) /\ Len(Complete(f)) = m
      /\ m \in 0 .. Len(f)
      /\ \A i \in 1 .. m : Complete(f)[i] = f[i]
      /\ m > 0 => f[m].whole
    BY <1>0, CompleteFacts
<1>2. ASSUME NEW i \in 1 .. m PROVE i <= Len(full) /\ f[i] = full[i]
  <2>1. i \in 1 .. Len(f) /\ (i = Len(f) => i = m /\ m > 0)
      BY <1>1
  <2> QED
      BY <1>1, <2>1 DEF Cut
<1>3. m <= Len(full)
    BY <1>1, <1>2
<1>4. Cut(f, full, 0)
    BY DEF Cut
<1> QED
    BY <1>1, <1>2, <1>3, <1>4 DEF Starts

(* A reader of a file that begins with whole lines finds them.             *)
LEMMA CompleteStarts ==
    ASSUME NEW f \in Seq(Cell), NEW c \in Seq(Cell), NEW s \in Nat, Lines(c, s), Starts(f, c)
    PROVE  Starts(Complete(f), c)
<1>0. PICK m : m = LastLine(f)
    OBVIOUS
<1>1. /\ Complete(f) \in Seq(Cell) /\ Len(Complete(f)) = m
      /\ m \in 0 .. Len(f)
      /\ \A i \in 1 .. m : Complete(f)[i] = f[i]
      /\ \A i \in 1 .. Len(f) : f[i].whole => i <= m
    BY <1>0, CompleteFacts
<1>2. Len(c) <= m
  <2>1. CASE Len(c) = 0
      BY <1>1, <2>1
  <2>2. CASE Len(c) # 0
    <3>1. Len(c) \in 1 .. Len(c) /\ Len(c) \in 1 .. Len(f)
        BY <2>2 DEF Starts
    <3>2. f[Len(c)].whole
        BY <3>1 DEF Starts, Lines
    <3> QED
        BY <1>1, <3>1, <3>2
  <2> QED
      BY <2>1, <2>2
<1> QED
    BY <1>1, <1>2 DEF Starts

(* A torn cell behind the lines is not read.                               *)
LEMMA CompleteNear ==
    ASSUME NEW f \in Seq(Cell), NEW c \in Seq(Cell), NEW s \in Nat, Lines(c, s), Near(f, c)
    PROVE  Complete(f) = c
<1>1. Starts(f, c)
    BY DEF Near, Cut, Starts
<1>2. Complete(f) \in Seq(Cell)
    BY CompleteFacts
<1>3. Len(c) \in Nat /\ Cut(f, c, Len(c))
    BY DEF Near
<1>4. Starts(Complete(f), c) /\ Starts(c, Complete(f))
    BY <1>1, <1>3, CompleteStarts, CompleteCut
<1>5. PICK d \in Seq(Cell) : d = Complete(f)
    BY <1>2
<1>6. Starts(d, c) /\ Starts(c, d)
    BY <1>4, <1>5
<1>7. Len(d) = Len(c) /\ \A i \in 1 .. Len(d) : d[i] = c[i]
    BY <1>6 DEF Starts
<1>8. d = c
    BY <1>7, SameFile
<1> QED
    BY <1>5, <1>8

(* In one chain a seq names a line.                                        *)
LEMMA SeqNames ==
    ASSUME NEW h \in Ledgers, Chained(h), NEW s \in Names, NEW t \in Names,
           NEW i \in 1 .. Len(h[s]), NEW j \in 1 .. Len(h[t]), h[s][i].seq = h[t][j].seq
    PROVE  h[s][i] = h[t][j]
<1>1. s \in Nat /\ t \in Nat /\ h[s] \in Seq(Cell) /\ h[t] \in Seq(Cell)
    BY CellFacts DEF Ledgers
<1>2. s \in Segs(h) /\ t \in Segs(h)
    BY <1>1 DEF Segs
<1>3. h[s][i].seq = s + i - 1 /\ h[t][j].seq = t + j - 1
    BY DEF Chained, Lines
<1>4. (s < t => s + Len(h[s]) <= t) /\ (t < s => t + Len(h[t]) <= s)
    BY <1>2 DEF Chained
<1>a. i \in Nat /\ j \in Nat /\ Len(h[s]) \in Nat /\ Len(h[t]) \in Nat
    BY <1>1
<1>b. s + i - 1 = t + j - 1
    BY <1>3
<1>5. s + i = t + j
    BY <1>1, <1>a, <1>b
<1>6. s = t /\ i = j
    BY <1>1, <1>4, <1>5
<1> QED
    BY <1>6

(* Every file is a beginning of a segment of L, its last cell perhaps torn. *)
Fits(files, L) == \A s \in Names : Cut(files[s], L[s], 0)

(* What a reader finds in such files are lines of L.                       *)
LEMMA TextCells ==
    ASSUME NEW files \in Ledgers, NEW L \in Ledgers, Fits(files, L),
           NEW g, Texts(files, g), NEW n \in 0 .. MaxSeq + 1, NEW i \in 1 .. Len(g[n])
    PROVE  \E s \in Names : \E j \in 1 .. Len(L[s]) : g[n][i] = L[s][j]
<1> DEFINE OfL(c) == \E s \in Names : \E j \in 1 .. Len(L[s]) : c = L[s][j]
           T == {m \in 0 .. n : \A k \in 1 .. Len(g[m]) : OfL(g[m][k])}
<1>0. n \in Nat /\ (\A m \in 0 .. n : g[m] \in Seq(Cell)) /\ g[0] = <<>>
    BY BoundsAssumption DEF Texts
<1>1. 0 \in T
    BY <1>0
<1>2. ASSUME NEW m \in 1 .. n, m - 1 \in T PROVE m \in T
  <2>1. PICK s \in Names : s = m - 1 /\ s + 1 = m
      BY BoundsAssumption DEF Names
  <2>2. PICK a \in Seq(Cell), b \in Seq(Cell) : a = g[s] /\ b = Complete(files[s])
    <3>1. Complete(files[s]) \in Seq(Cell)
        BY CompleteFacts DEF Ledgers
    <3>2. s \in 0 .. n
        BY <2>1
    <3> QED
        BY <1>0, <3>1, <3>2
  <2>3. g[m] = a \o b
      BY <2>1, <2>2 DEF Texts
  <2>4. Starts(L[s], b)
    <3>1. files[s] \in Seq(Cell) /\ L[s] \in Seq(Cell) /\ Cut(files[s], L[s], 0)
        BY DEF Ledgers, Fits
    <3> QED
        BY <2>2, <3>1, CompleteCut
  <2>5. \A k \in 1 .. Len(b) : OfL(b[k])
    <3>1. L[s] \in Seq(Cell)
        BY DEF Ledgers
    <3>2. \A k \in 1 .. Len(b) : k \in 1 .. Len(L[s]) /\ b[k] = L[s][k]
        BY <2>4, <3>1 DEF Starts
    <3> QED
        BY <3>2
  <2>6. \A k \in 1 .. Len(a) : OfL(a[k])
      BY <1>2, <2>1, <2>2
  <2> HIDE DEF OfL
  <2>7. ASSUME NEW k \in 1 .. Len(a \o b) PROVE OfL((a \o b)[k])
    <3>1. CASE k <= Len(a)
      <4>1. (a \o b)[k] = a[k] /\ k \in 1 .. Len(a)
          BY <3>1
      <4> QED
          BY <2>6, <4>1
    <3>2. CASE ~(k <= Len(a))
      <4>1. (a \o b)[k] = b[k - Len(a)] /\ k - Len(a) \in 1 .. Len(b)
          BY <3>2
      <4> QED
          BY <2>5, <4>1
    <3> QED
        BY <3>1, <3>2
  <2>8. m \in 0 .. n
      BY <1>0
  <2> QED
      BY <2>3, <2>7, <2>8
<1>3. n \in T
  <2> HIDE DEF T
  <2> QED
      BY <1>0, <1>1, <1>2, UpTo
<1> QED
    BY <1>3

Entry == [prev |-> GENESIS_PREV, next |-> 0]

(* A reader's history: each line by its hash, in the order of the seqs.    *)
LEMMA ReadFacts ==
    ASSUME NEW files \in Ledgers, NEW g, Texts(files, g)
    PROVE  /\ Read(files) \in Seq(Hash)
           /\ Len(Read(files)) = ValidLen(g[MaxSeq + 1], Entry)
           /\ Len(Read(files)) \in 0 .. Len(g[MaxSeq + 1])
           /\ \A i \in 1 .. Len(Read(files)) :
                /\ Read(files)[i] = ChainHash(g[MaxSeq + 1][i])
                /\ g[MaxSeq + 1][i].seq = i - 1
<1>0. MaxSeq \in Nat /\ MaxSeq + 1 \in 0 .. MaxSeq + 1
    BY BoundsAssumption
<1>1. PICK e \in Seq(Cell) : e = g[MaxSeq + 1]
    BY <1>0 DEF Texts
<1>2. RawLines(files) = e
    BY <1>1 DEF Texts
<1>3. PICK n : n = ValidLen(e, Entry)
    OBVIOUS
<1>4. n \in 0 .. Len(e) /\ \A i \in 1 .. n : Advances(e, i, Entry)
    BY <1>3, ValidLenFacts
<1>5. PICK r : r = [i \in 1 .. n |-> ChainHash(e[i])]
    OBVIOUS
<1>6. Read(files) = r
  <2>1. {Hashes(lines) : lines \in {RawLines(files)}} = {Hashes(e)}
      BY <1>2
  <2>2. Hashes(e) = r
      BY <1>3, <1>5 DEF Hashes, Entry
  <2> QED
      BY <2>1, <2>2 DEF Read
<1>7. \A i \in 1 .. n : ChainHash(e[i]) \in Hash
  <2>1. \A i \in 1 .. n : e[i] \in Cell
      BY <1>4
  <2> QED
      BY <2>1, CellFacts
<1>8. r \in Seq(Hash) /\ Len(r) = n /\ \A i \in 1 .. n : r[i] = ChainHash(e[i])
    BY <1>4, <1>5, <1>7
<1>9. ASSUME NEW i \in 1 .. n PROVE e[i].seq = i - 1
  <2>1. e[i].seq = Entry.next + i - 1 /\ Entry.next = 0 /\ i \in Nat
      BY <1>4 DEF Advances, Entry
  <2>2. 0 + i - 1 = i - 1
      BY <2>1
  <2> QED
      BY <2>1, <2>2
<1> QED
    BY <1>1, <1>3, <1>4, <1>6, <1>8, <1>9

(* What two readers find of one chain: the one a beginning of the other.   *)
LEMMA ReadsAgree ==
    ASSUME NEW files \in Ledgers, NEW more \in Ledgers, NEW L \in Ledgers, Chained(L),
           Fits(files, L), Fits(more, L)
    PROVE  /\ Read(files) \in Seq(Hash) /\ Read(more) \in Seq(Hash)
           /\ \A i \in 1 .. Len(Read(files)) :
                i <= Len(Read(more)) => Read(files)[i] = Read(more)[i]
<1>0. MaxSeq + 1 \in 0 .. MaxSeq + 1
    BY BoundsAssumption
<1>1. ASSUME NEW f \in Ledgers, Fits(f, L), NEW i \in 1 .. Len(Read(f))
      PROVE  \E s \in Names : \E j \in 1 .. Len(L[s]) :
                Read(f)[i] = ChainHash(L[s][j]) /\ L[s][j].seq = i - 1
  <2>1. PICK g : Texts(f, g)
      BY TextsExist
  <2>2. PICK e \in Seq(Cell) : e = g[MaxSeq + 1]
      BY <1>0, <2>1 DEF Texts
  <2>3. Read(f)[i] = ChainHash(e[i]) /\ e[i].seq = i - 1 /\ i \in 1 .. Len(e)
    <3>1. Len(Read(f)) \in 0 .. Len(e)
        BY <2>1, <2>2, ReadFacts
    <3>2. Read(f)[i] = ChainHash(e[i]) /\ e[i].seq = i - 1
        BY <1>1, <2>1, <2>2, ReadFacts
    <3> QED
        BY <1>1, <3>1, <3>2
  <2>4. \E s \in Names : \E j \in 1 .. Len(L[s]) : e[i] = L[s][j]
      BY <1>0, <1>1, <2>1, <2>2, <2>3, TextCells
  <2> QED
      BY <2>3, <2>4
<1>2. ASSUME NEW i \in 1 .. Len(Read(files)), i \in 1 .. Len(Read(more))
      PROVE  Read(files)[i] = Read(more)[i]
  <2>1. PICK s \in Names : \E j \in 1 .. Len(L[s]) :
            Read(files)[i] = ChainHash(L[s][j]) /\ L[s][j].seq = i - 1
      BY <1>1, <1>2
  <2>2. PICK j \in 1 .. Len(L[s]) : Read(files)[i] = ChainHash(L[s][j]) /\ L[s][j].seq = i - 1
      BY <2>1
  <2>3. PICK t \in Names : \E k \in 1 .. Len(L[t]) :
            Read(more)[i] = ChainHash(L[t][k]) /\ L[t][k].seq = i - 1
      BY <1>1, <1>2
  <2>4. PICK k \in 1 .. Len(L[t]) : Read(more)[i] = ChainHash(L[t][k]) /\ L[t][k].seq = i - 1
      BY <2>3
  <2>5. L[s][j] = L[t][k]
      BY <2>2, <2>4, SeqNames
  <2> QED
      BY <2>2, <2>4, <2>5, Zenon
<1>3. Read(files) \in Seq(Hash) /\ Read(more) \in Seq(Hash)
  <2>1. PICK g : Texts(files, g)
      BY TextsExist
  <2>2. PICK k : Texts(more, k)
      BY TextsExist
  <2> QED
      BY <2>1, <2>2, ReadFacts
<1>4. \A i \in 1 .. Len(Read(files)) : i <= Len(Read(more)) => i \in 1 .. Len(Read(more))
    BY <1>3
<1> QED
    BY <1>2, <1>3, <1>4

(* Of two such histories the shorter is a prefix of the other one.         *)
LEMMA ShorterIsPrefix ==
    ASSUME NEW r \in Seq(Hash), NEW q \in Seq(Hash), Len(r) <= Len(q),
           \A i \in 1 .. Len(r) : i <= Len(q) => r[i] = q[i]
    PROVE  IsPrefix(r, q)
<1> DEFINE n == Len(r)
<1>1. n \in Nat /\ n <= Len(q) /\ \A i \in 1 .. n : r[i] = q[i]
    OBVIOUS
<1>2. \A i \in 1 .. n : r[i] \in Hash /\ q[i] \in Hash
    BY <1>1
<1> HIDE DEF n
<1>3. /\ SubSeq(r, 1, n) \in Seq(Hash) /\ Len(SubSeq(r, 1, n)) = n
      /\ \A i \in 1 .. n : SubSeq(r, 1, n)[i] = r[i]
    BY <1>1, <1>2, SubSeqProperties
<1>4. /\ SubSeq(q, 1, n) \in Seq(Hash) /\ Len(SubSeq(q, 1, n)) = n
      /\ \A i \in 1 .. n : SubSeq(q, 1, n)[i] = q[i]
    BY <1>1, <1>2, SubSeqProperties
<1>5. SubSeq(r, 1, n) = SubSeq(q, 1, n)
    BY <1>1, <1>3, <1>4
<1> QED
    BY <1>1, <1>5 DEF IsPrefix, n

(* The first n lines advance the chain from genesis.                       *)
Genuine(e, n) == \A i \in 1 .. n : Advances(e, i, Entry)

(* Whether a line advances depends on it and the one before it.            *)
LEMMA AdvancesAlike ==
    ASSUME NEW e \in Seq(Cell), NEW f \in Seq(Cell), Starts(f, e), NEW i \in 1 .. Len(e),
           Advances(e, i, Entry)
    PROVE  Advances(f, i, Entry)
<1>1. f[i] = e[i] /\ (i > 1 => f[i - 1] = e[i - 1])
    BY DEF Starts
<1>2. i = 1 \/ i > 1
    OBVIOUS
<1> QED
    BY <1>1, <1>2 DEF Advances, CarriesEnvelope

(* Lines that continue the chain, read after it.                           *)
LEMMA LinesAdvance ==
    ASSUME NEW e \in Seq(Cell), Genuine(e, Len(e)), NEW c \in Seq(Cell), c # <<>>,
           Lines(c, Len(e)),
           c[1].prev = IF Len(e) = 0 THEN GENESIS_PREV ELSE ChainHash(e[Len(e)]),
           NEW f \in Seq(Cell), Starts(f, c)
    PROVE  Genuine(e \o f, Len(e) + Len(c))
<1> DEFINE x == e \o f
           a == Len(e)
<1>0. a \in Nat /\ Len(c) \in Nat /\ Len(c) >= 1 /\ Len(c) <= Len(f)
    BY DEF Starts
<1>1. /\ x \in Seq(Cell) /\ Len(x) = a + Len(f)
      /\ \A i \in 1 .. a : x[i] = e[i]
      /\ \A i \in 1 .. Len(f) : x[a + i] = f[i]
    OBVIOUS
<1>2. Starts(x, e)
    BY <1>0, <1>1 DEF Starts
<1> HIDE DEF x
<1>3. ASSUME NEW i \in 1 .. a PROVE Advances(x, i, Entry)
  <2>1. Advances(e, i, Entry)
      BY DEF Genuine
  <2> QED
      BY <1>1, <1>2, <2>1, AdvancesAlike
<1>4. \A i \in 1 .. a : e[i].whole
    BY DEF Genuine, Advances, CarriesEnvelope
<1>5. \A j \in 1 .. Len(c) : /\ x[a + j] = c[j] /\ c[j].whole /\ c[j].seq = a + j - 1
                             /\ j > 1 => c[j].prev = ChainHash(c[j - 1])
    BY <1>0, <1>1 DEF Starts, Lines
<1>6. ASSUME NEW j \in 1 .. Len(c) PROVE Advances(x, a + j, Entry)
  <2>0. PICK i \in Nat : i = a + j /\ i >= 1
      BY <1>0
  <2>1. x[i] = c[j] /\ x[i].whole /\ x[i].seq = Entry.next + i - 1
    <3>1. Entry.next = 0
        BY DEF Entry
    <3>2. 0 + i - 1 = a + j - 1
        BY <1>0, <2>0
    <3> QED
        BY <1>5, <2>0, <3>1, <3>2
  <2>2. CASE j = 1 /\ a = 0
    <3>1. i = 1
        BY <2>0, <2>2
    <3>2. x[i].prev = GENESIS_PREV
        BY <2>1, <2>2
    <3> QED
        BY <2>0, <2>1, <3>1, <3>2 DEF Advances, CarriesEnvelope, Entry
  <2>3. CASE j = 1 /\ a # 0
    <3>1. i > 1 /\ i - 1 = a /\ i # 1 /\ a \in 1 .. a
        BY <1>0, <2>0, <2>3
    <3>2. x[i - 1] = e[a] /\ x[i - 1].whole
        BY <1>1, <1>4, <3>1
    <3>3. x[i].prev = ChainHash(x[i - 1])
        BY <2>1, <2>3, <3>2
    <3> QED
        BY <2>0, <2>1, <3>1, <3>2, <3>3 DEF Advances, CarriesEnvelope
  <2>4. CASE j # 1
    <3>1. i > 1 /\ i # 1 /\ j > 1 /\ j - 1 \in 1 .. Len(c) /\ i - 1 = a + (j - 1)
        BY <1>0, <2>0, <2>4
    <3>2. x[i - 1] = c[j - 1] /\ x[i - 1].whole
        BY <1>5, <3>1
    <3>3. x[i].prev = ChainHash(x[i - 1])
        BY <1>5, <2>1, <3>1, <3>2
    <3> QED
        BY <2>0, <2>1, <3>1, <3>2, <3>3 DEF Advances, CarriesEnvelope
  <2> QED
      BY <2>2, <2>3, <2>4, Zenon
<1>7. ASSUME NEW i \in 1 .. a + Len(c) PROVE Advances(x, i, Entry)
  <2>1. CASE i <= a
      BY <1>0, <1>3, <2>1
  <2>2. CASE ~(i <= a)
    <3>1. PICK j \in 1 .. Len(c) : i = a + j
      <4>1. i - a \in 1 .. Len(c) /\ i = a + (i - a)
          BY <1>0, <2>2
      <4> QED
          BY <4>1
    <3> QED
        BY <1>6, <3>1
  <2> QED
      BY <2>1, <2>2
<1> QED
    BY <1>7 DEF Genuine, x

(* The lines of a ledger's segments before n are genuine, and end where    *)
(* the last of these segments does.                                        *)
Ends(h, e, n) ==
    /\ Genuine(e, Len(e))
    /\ \A s \in Segs(h) : s < n => s + Len(h[s]) <= Len(e)
    /\ \/ Len(e) = 0
       \/ \E s \in Segs(h) : /\ s < n /\ Len(e) = s + Len(h[s])
                             /\ e[Len(e)] = h[s][Len(h[s])]

(* Where a segment begins, what was read before it ends.                   *)
LEMMA EndsMeets ==
    ASSUME NEW h \in Ledgers, Chained(h), NEW e \in Seq(Cell), NEW n \in Segs(h), Ends(h, e, n)
    PROVE  /\ Len(e) = n
           /\ h[n][1].prev = IF Len(e) = 0 THEN GENESIS_PREV ELSE ChainHash(e[Len(e)])
<1>0. /\ n \in Names /\ n \in Nat /\ Len(e) \in Nat
      /\ \A s \in Segs(h) : s \in Nat /\ Len(h[s]) \in Nat /\ Len(h[s]) >= 1
  <2>1. \A s \in Segs(h) : s \in Nat /\ h[s] \in Seq(Cell) /\ h[s] # <<>>
      BY CellFacts DEF Segs, Ledgers
  <2> QED
      BY <2>1 DEF Segs
<1>1. CASE \E s \in Segs(h) : Follows(h, s, n)
  <2>1. PICK s \in Segs(h) : Follows(h, s, n)
      BY <1>1
  <2>2. s < n /\ s + Len(h[s]) = n /\ h[n][1].prev = ChainHash(h[s][Len(h[s])])
      BY <2>1 DEF Follows
  <2>3. n <= Len(e) /\ n >= 1
      BY <1>0, <2>2 DEF Ends
  <2>4. PICK u \in Segs(h) : /\ u < n /\ Len(e) = u + Len(h[u])
                             /\ e[Len(e)] = h[u][Len(h[u])]
      BY <1>0, <2>3 DEF Ends
  <2>5. u + Len(h[u]) <= n
      BY <2>4 DEF Chained
  <2>6. Len(e) = n
      BY <1>0, <2>3, <2>4, <2>5
  <2>7. u = s
    <3>1. (u < s => u + Len(h[u]) <= s) /\ (s < u => s + Len(h[s]) <= u)
        BY DEF Chained
    <3>2. PICK lu \in Nat, ls \in Nat : lu = Len(h[u]) /\ ls = Len(h[s]) /\ lu >= 1 /\ ls >= 1
        BY <1>0
    <3>3. /\ s \in Nat /\ u \in Nat /\ s + ls = n /\ u + lu = n
          /\ (u < s => u + lu <= s) /\ (s < u => s + ls <= u)
        BY <1>0, <2>2, <2>4, <2>6, <3>1, <3>2
    <3>4. n \in Nat /\ lu \in Nat /\ ls \in Nat /\ lu >= 1 /\ ls >= 1
        BY <1>0, <3>2
    <3>5. ~(u < s) /\ ~(s < u)
        BY <3>3, <3>4
    <3> QED
        BY <3>3, <3>5
  <2> QED
      BY <1>0, <2>2, <2>3, <2>4, <2>6, <2>7
<1>2. CASE n = 0 /\ h[n][1].prev = GENESIS_PREV
  <2>1. Len(e) = 0
      BY <1>0, <1>2 DEF Ends
  <2> QED
      BY <1>2, <2>1
<1> QED
    BY <1>1, <1>2 DEF Chained

(* Reading one segment more.                                               *)
LEMMA EndsStep ==
    ASSUME NEW h \in Ledgers, Chained(h), NEW e \in Seq(Cell), NEW n \in Names, Ends(h, e, n)
    PROVE  Ends(h, e \o h[n], n + 1)
<1>0. /\ n \in Nat /\ h[n] \in Seq(Cell) /\ Len(e) \in Nat
      /\ \A s \in Segs(h) : s \in Nat /\ Len(h[s]) \in Nat
      /\ \A s \in Segs(h) : s < n + 1 <=> s < n \/ s = n
  <2>1. \A s \in Segs(h) : s \in Nat /\ h[s] \in Seq(Cell)
      BY CellFacts DEF Segs, Ledgers
  <2>2. n \in Nat /\ h[n] \in Seq(Cell)
      BY CellFacts DEF Ledgers
  <2> QED
      BY <2>1, <2>2
<1>1. CASE n \notin Segs(h)
  <2>1. h[n] = <<>>
      BY <1>1 DEF Segs
  <2>2. e \o h[n] = e
      BY <2>1
  <2>3. \A s \in Segs(h) : s < n + 1 <=> s < n
      BY <1>0, <1>1
  <2> QED
      BY <2>2, <2>3 DEF Ends
<1>2. CASE n \in Segs(h)
  <2>1. /\ Len(e) = n
        /\ h[n][1].prev = IF Len(e) = 0 THEN GENESIS_PREV ELSE ChainHash(e[Len(e)])
      BY <1>2, EndsMeets
  <2>2. PICK c \in Seq(Cell) : c = h[n] /\ c # <<>>
      BY <1>0, <1>2 DEF Segs
  <2>3. Lines(c, Len(e)) /\ Genuine(e, Len(e))
      BY <2>1, <2>2 DEF Chained, Ends
  <2>4. Genuine(e \o c, Len(e) + Len(c))
      BY <2>1, <2>2, <2>3, StartsSelf, LinesAdvance
  <2>5. /\ Len(e \o c) = Len(e) + Len(c) /\ Len(c) \in Nat /\ Len(c) >= 1
        /\ (e \o c)[Len(e) + Len(c)] = c[Len(c)]
      BY <2>2
  <2>6. \A s \in Segs(h) : s < n + 1 => s + Len(h[s]) <= Len(e \o c)
    <3>1. ASSUME NEW s \in Segs(h), s < n PROVE s + Len(h[s]) <= Len(e \o c)
      <4>1. s + Len(h[s]) <= Len(e)
          BY <3>1 DEF Ends
      <4> QED
          BY <1>0, <2>5, <4>1
    <3>2. n + Len(h[n]) <= Len(e \o c)
        BY <1>0, <2>1, <2>2, <2>5
    <3> QED
        BY <1>0, <3>1, <3>2
  <2>7. n < n + 1 /\ Len(e \o c) = n + Len(h[n]) /\ (e \o c)[Len(e \o c)] = h[n][Len(h[n])]
      BY <1>0, <2>1, <2>2, <2>5
  <2>8. Ends(h, e \o c, n + 1)
      BY <1>2, <2>4, <2>5, <2>6, <2>7 DEF Ends
  <2> QED
      BY <2>2, <2>8
<1> QED
    BY <1>1, <1>2

(* A reader of files whose complete lines are the ledger's, up to t.       *)
LEMMA TextEnds ==
    ASSUME NEW h \in Ledgers, Chained(h), NEW files \in Ledgers, NEW g, Texts(files, g),
           NEW t \in 0 .. MaxSeq + 1, \A s \in Names : s < t => Complete(files[s]) = h[s]
    PROVE  Ends(h, g[t], t)
<1> DEFINE T == {m \in 0 .. t : Ends(h, g[m], m)}
<1>0. t \in Nat /\ (\A m \in 0 .. t : g[m] \in Seq(Cell)) /\ g[0] = <<>>
    BY BoundsAssumption DEF Texts
<1>1. 0 \in T
  <2>a. \A s \in Segs(h) : s \in Nat
      BY CellFacts DEF Segs
  <2>1. \A s \in Segs(h) : ~(s < 0)
      BY <2>a
  <2> QED
      BY <1>0, <2>1 DEF Ends, Genuine
<1>2. ASSUME NEW m \in 1 .. t, m - 1 \in T PROVE m \in T
  <2>1. PICK s \in Names : s = m - 1 /\ s + 1 = m /\ s < t /\ s \in 0 .. t
      BY BoundsAssumption DEF Names
  <2>2. g[m] = g[s] \o h[s]
      BY <2>1 DEF Texts
  <2>3. g[s] \in Seq(Cell) /\ Ends(h, g[s], s)
      BY <1>0, <1>2, <2>1
  <2>4. Ends(h, g[s] \o h[s], s + 1)
      BY <2>3, EndsStep
  <2>5. Ends(h, g[m], m) /\ m \in 0 .. t
      BY <1>0, <2>1, <2>2, <2>4
  <2> QED
      BY <2>5
<1>3. t \in T
  <2> HIDE DEF T
  <2> QED
      BY <1>0, <1>1, <1>2, UpTo
<1> QED
    BY <1>3

(* What is read stays where it is as more segments are read.               *)
LEMMA TextGrows ==
    ASSUME NEW files \in Ledgers, NEW g, Texts(files, g),
           NEW n \in 0 .. MaxSeq + 1
    PROVE  Starts(g[MaxSeq + 1], g[n])
<1> DEFINE N == MaxSeq + 1
           T == {m \in 0 .. N : m >= n => Starts(g[m], g[n])}
<1>0. /\ N \in Nat /\ MaxSeq \in Nat /\ (\A m \in 0 .. N : g[m] \in Seq(Cell)) /\ g[0] = <<>>
      /\ n \in Nat /\ n <= N
    BY BoundsAssumption DEF Texts
<1>1. 0 \in T
  <2>1. 0 >= n => n = 0
      BY <1>0
  <2>2. Starts(g[0], g[0]) /\ 0 \in 0 .. N
      BY <1>0, StartsSelf
  <2> QED
      BY <2>1, <2>2
<1>2. ASSUME NEW m \in 1 .. N, m - 1 \in T PROVE m \in T
  <2>1. PICK s \in Names : s = m - 1 /\ s + 1 = m /\ s \in 0 .. N
      BY <1>0 DEF Names
  <2>2. PICK a \in Seq(Cell), b \in Seq(Cell) : a = g[s] /\ b = Complete(files[s])
    <3>1. Complete(files[s]) \in Seq(Cell)
        BY CompleteFacts DEF Ledgers
    <3> QED
        BY <1>0, <2>1, <3>1
  <2>3. g[m] = a \o b
      BY <2>1, <2>2 DEF Texts
  <2>4. CASE m = n
    <3>1. g[n] \in Seq(Cell) /\ m \in 0 .. N
        BY <1>0
    <3> QED
        BY <2>4, <3>1, StartsSelf
  <2>5. CASE m > n
    <3>1. Starts(a, g[n]) /\ g[n] \in Seq(Cell) /\ m \in 0 .. N
        BY <1>0, <1>2, <2>1, <2>2, <2>5
    <3>2. PICK c \in Seq(Cell) : c = g[n] /\ Starts(a, c)
        BY <3>1
    <3>3. Starts(a \o b, c)
        BY <3>2 DEF Starts
    <3> QED
        BY <2>3, <3>1, <3>2, <3>3
  <2>6. CASE m < n
    <3>1. m \in 0 .. N /\ ~(m >= n)
        BY <1>0, <2>6
    <3> QED
        BY <3>1
  <2> QED
      BY <1>0, <2>4, <2>5, <2>6
<1>3. N \in T
  <2> HIDE DEF T, N
  <2> QED
      BY <1>0, <1>1, <1>2, UpTo
<1> QED
    BY <1>0, <1>3

(* A reader comes at least as far as the lines are genuine.                *)
LEMMA ReadReaches ==
    ASSUME NEW files \in Ledgers, NEW g, Texts(files, g), NEW n \in Nat,
           n <= Len(g[MaxSeq + 1]), Genuine(g[MaxSeq + 1], n)
    PROVE  Len(Read(files)) >= n
<1>0. MaxSeq + 1 \in 0 .. MaxSeq + 1
    BY BoundsAssumption
<1>1. PICK e \in Seq(Cell) : e = g[MaxSeq + 1]
    BY <1>0 DEF Texts
<1> DEFINE S == {m \in 0 .. Len(e) : \A i \in 1 .. m : Advances(e, i, Entry)}
<1>2. S \in SUBSET Nat /\ n \in S /\ Len(e) \in Nat /\ \A t \in S : t <= Len(e)
    BY <1>1 DEF Genuine
<1>3. ValidLen(e, Entry) = Max(S)
    BY DEF ValidLen
<1>4. Len(Read(files)) = ValidLen(e, Entry)
    BY <1>1, ReadFacts
<1> HIDE DEF S
<1>5. n <= Max(S) /\ Max(S) \in Nat
    BY <1>2, MaxProperties
<1> QED
    BY <1>3, <1>4, <1>5

(* The files hold the ledger's lines, and no other line before the last.   *)
Shows(files, h, t) ==
    /\ \A s \in Names : s < t => Complete(files[s]) = h[s]
    /\ Starts(Complete(files[t]), h[t])

(* Then a reader finds all of the ledger's lines.                          *)
LEMMA ReadsAll ==
    ASSUME NEW h \in Ledgers, Chained(h), NEW files \in Ledgers, NEW t \in Segs(h),
           Shows(files, h, t)
    PROVE  Len(Read(files)) >= t + Len(h[t])
<1>1. PICK g : Texts(files, g)
    BY TextsExist
<1>0. /\ t \in Names /\ t \in Nat /\ t \in 0 .. MaxSeq + 1 /\ t + 1 \in 0 .. MaxSeq + 1
      /\ MaxSeq + 1 \in 0 .. MaxSeq + 1
  <2>1. t \in Names
      BY DEF Segs
  <2> QED
      BY <2>1, BoundsAssumption DEF Names
<1>2. PICK e \in Seq(Cell), x \in Seq(Cell), y \in Seq(Cell) :
        e = g[t] /\ x = g[t + 1] /\ y = g[MaxSeq + 1]
    BY <1>0, <1>1 DEF Texts
<1>3. PICK c \in Seq(Cell), f \in Seq(Cell) : c = h[t] /\ f = Complete(files[t]) /\ c # <<>>
  <2>1. Complete(files[t]) \in Seq(Cell)
      BY <1>0, CompleteFacts DEF Ledgers
  <2> QED
      BY <1>0, <2>1 DEF Segs, Ledgers
<1>4. x = e \o f
    BY <1>0, <1>1, <1>2, <1>3 DEF Texts
<1>5. Ends(h, e, t)
    BY <1>0, <1>1, <1>2, TextEnds DEF Shows
<1>6. /\ Len(e) = t
      /\ c[1].prev = IF Len(e) = 0 THEN GENESIS_PREV ELSE ChainHash(e[Len(e)])
    BY <1>3, <1>5, EndsMeets
<1>7. Lines(c, Len(e)) /\ Genuine(e, Len(e)) /\ Starts(f, c)
    BY <1>0, <1>3, <1>5, <1>6 DEF Chained, Ends, Shows
<1>8. Genuine(x, Len(e) + Len(c))
    BY <1>3, <1>4, <1>6, <1>7, LinesAdvance
<1>9. PICK n \in Nat : n = t + Len(c) /\ n = Len(e) + Len(c) /\ n <= Len(x)
  <2>1. Len(x) = Len(e) + Len(f) /\ Len(c) <= Len(f) /\ Len(c) \in Nat /\ Len(f) \in Nat
      BY <1>4, <1>7 DEF Starts
  <2> QED
      BY <1>0, <1>6, <2>1
<1>10. Starts(y, x)
    BY <1>0, <1>1, <1>2, TextGrows
<1>11. n <= Len(y) /\ Genuine(y, n)
  <2>1. n <= Len(y)
      BY <1>9, <1>10 DEF Starts
  <2>2. ASSUME NEW i \in 1 .. n PROVE Advances(y, i, Entry)
    <3>1. Advances(x, i, Entry) /\ i \in 1 .. Len(x)
        BY <1>8, <1>9 DEF Genuine
    <3> QED
        BY <1>10, <3>1, AdvancesAlike
  <2> QED
      BY <2>1, <2>2 DEF Genuine
<1>12. Len(Read(files)) >= n
    BY <1>1, <1>2, <1>11, ReadReaches
<1> QED
    BY <1>3, <1>9, <1>12

(* When they hold nothing else, it finds no more.                          *)
LEMMA ReadsOnly ==
    ASSUME NEW h \in Ledgers, Chained(h), NEW files \in Ledgers, NEW t \in Segs(h),
           LastOf(h, t), \A s \in Names : Complete(files[s]) = h[s]
    PROVE  Len(Read(files)) = t + Len(h[t])
<1>1. PICK g : Texts(files, g)
    BY TextsExist
<1>0. t \in Names /\ t \in Nat /\ MaxSeq + 1 \in 0 .. MaxSeq + 1 /\ h[t] \in Seq(Cell)
    BY BoundsAssumption, CellFacts DEF Segs, Ledgers
<1>2. PICK y \in Seq(Cell) : y = g[MaxSeq + 1]
    BY <1>0, <1>1 DEF Texts
<1>3. Ends(h, y, MaxSeq + 1)
    BY <1>0, <1>1, <1>2, TextEnds
<1>4. Shows(files, h, t)
    BY <1>0, StartsSelf DEF Shows
<1>5. Len(Read(files)) >= t + Len(h[t])
    BY <1>4, ReadsAll
<1>6. Len(Read(files)) \in 0 .. Len(y)
    BY <1>1, <1>2, ReadFacts
<1>7. Len(y) <= t + Len(h[t])
  <2>1. CASE Len(y) = 0
      BY <1>0, <2>1
  <2>2. CASE Len(y) # 0
    <3>1. PICK s \in Segs(h) : Len(y) = s + Len(h[s])
        BY <1>3, <2>2 DEF Ends
    <3>2. s \in Nat /\ s <= t /\ h[s] \in Seq(Cell)
        BY CellFacts DEF LastOf, Segs, Ledgers
    <3>3. s < t => s + Len(h[s]) <= t
        BY DEF Chained
    <3> QED
        BY <1>0, <3>1, <3>2, <3>3
  <2> QED
      BY <2>1, <2>2
<1>8. PICK n \in Nat, m \in Nat, k \in Nat :
        n = Len(Read(files)) /\ m = Len(y) /\ k = t + Len(h[t])
    BY <1>0, <1>6
<1> QED
    BY <1>5, <1>6, <1>7, <1>8

-----------------------------------------------------------------------------
(* The disk as a beginning of one chain, and what is acknowledged of it.   *)

(* How many lines a set of acknowledged ones makes known.                  *)
Mark(cells) == IF cells = {} THEN 0 ELSE Max({cell.seq : cell \in cells}) + 1

(* It is one more than the largest seq.                                    *)
LEMMA MarkFacts ==
    ASSUME NEW cells \in SUBSET Cell
    PROVE  /\ Mark(cells) \in Nat
           /\ \A cell \in cells : cell.seq < Mark(cells)
           /\ cells # {} => \E cell \in cells : Mark(cells) = cell.seq + 1
           /\ cells = {} => Mark(cells) = 0
<1>1. CASE cells = {}
    BY <1>1 DEF Mark
<1>2. CASE cells # {}
  <2> DEFINE S == {cell.seq : cell \in cells}
  <2>0. MaxSeq \in Nat /\ \A cell \in cells : cell.seq \in Nat /\ cell.seq <= MaxSeq
      BY BoundsAssumption, CellFacts DEF Names
  <2>1. S \in SUBSET Nat /\ S # {} /\ \A t \in S : t <= MaxSeq
      BY <1>2, <2>0
  <2>2. \A cell \in cells : cell.seq \in S
      OBVIOUS
  <2>3. \A t \in S : \E cell \in cells : t = cell.seq
      OBVIOUS
  <2>4. Mark(cells) = Max(S) + 1
      BY <1>2 DEF Mark
  <2> HIDE DEF S
  <2>5. PICK m \in S : m = Max(S) /\ \A t \in S : t <= m
      BY <2>0, <2>1, MaxProperties
  <2>6. m \in Nat /\ Mark(cells) = m + 1
      BY <2>1, <2>4, <2>5
  <2>7. ASSUME NEW cell \in cells PROVE cell.seq < m + 1
    <3>1. cell.seq \in Nat /\ cell.seq <= m
        BY <2>0, <2>2, <2>5
    <3> QED
        BY <2>6, <3>1
  <2> QED
      BY <1>2, <2>3, <2>5, <2>6, <2>7
<1> QED
    BY <1>1, <1>2

(* No more is acknowledged than the ledger has.                            *)
LEMMA MarkBound ==
    ASSUME NEW h \in Ledgers, Chained(h), NEW cells \in SUBSET Cell, Has(h, cells)
    PROVE  /\ Segs(h) = {} => Mark(cells) = 0
           /\ \A t \in Segs(h) : LastOf(h, t) => Mark(cells) <= t + Len(h[t])
<1>0. Mark(cells) \in Nat
    BY MarkFacts
<1>1. ASSUME NEW cell \in cells
      PROVE  \E s \in Segs(h) : cell.seq < s + Len(h[s])
  <2>1. PICK s \in Names : \E i \in 1 .. Len(h[s]) : h[s][i] = cell
      BY DEF Has
  <2>2. PICK i \in 1 .. Len(h[s]) : h[s][i] = cell
      BY <2>1
  <2>3. h[s] \in Seq(Cell) /\ s \in Nat
      BY CellFacts DEF Ledgers
  <2>4. s \in Segs(h)
      BY <2>2, <2>3 DEF Segs
  <2>5. cell.seq = s + i - 1
      BY <2>2 DEF Chained, Lines
  <2>6. s + i - 1 < s + Len(h[s])
      BY <2>3
  <2> QED
      BY <2>4, <2>5, <2>6
<1>2. CASE cells = {}
  <2>1. Mark(cells) = 0
      BY <1>2, MarkFacts
  <2>2. \A t \in Segs(h) : t \in Nat /\ h[t] \in Seq(Cell)
      BY CellFacts DEF Segs, Ledgers
  <2>3. \A t \in Segs(h) : 0 <= t + Len(h[t])
      BY <2>2
  <2> QED
      BY <2>1, <2>3
<1>3. CASE cells # {}
  <2>1. PICK cell \in cells : Mark(cells) = cell.seq + 1
      BY <1>3, MarkFacts
  <2>2. PICK s \in Segs(h) : cell.seq < s + Len(h[s])
      BY <1>1
  <2>3. ASSUME NEW t \in Segs(h), LastOf(h, t) PROVE Mark(cells) <= t + Len(h[t])
    <3>1. PICK a \in Nat, b \in Nat : a = Len(h[s]) /\ b = Len(h[t])
        BY DEF Segs, Ledgers
    <3>2. s \in Nat /\ t \in Nat /\ cell.seq \in Nat
        BY CellFacts DEF Segs
    <3>3. s <= t /\ (s < t => s + a <= t) /\ (s = t => a = b)
        BY <2>3, <3>1 DEF LastOf, Chained
    <3>4. PICK q \in Nat : q = cell.seq /\ q < s + a
        BY <2>2, <3>1, <3>2
    <3>a. a \in Nat /\ b \in Nat /\ (s < t \/ s = t)
        BY <3>1, <3>2, <3>3
    <3>5. q + 1 <= t + b
        BY <3>2, <3>3, <3>4, <3>a
    <3> QED
        BY <2>1, <3>1, <3>4, <3>5
  <2> QED
      BY <2>2, <2>3
<1> QED
    BY <1>2, <1>3

(* Acknowledged lines are read, when the ledger is.                        *)
LEMMA MarkRead ==
    ASSUME NEW h \in Ledgers, Chained(h), NEW cells \in SUBSET Cell, Has(h, cells),
           NEW files \in Ledgers,
           \A t \in Segs(h) : LastOf(h, t) => Shows(files, h, t)
    PROVE  Mark(cells) <= Len(Read(files))
<1>0. Len(Read(files)) \in Nat /\ Mark(cells) \in Nat
  <2>1. PICK g : Texts(files, g)
      BY TextsExist
  <2>2. Read(files) \in Seq(Hash)
      BY <2>1, ReadFacts
  <2> QED
      BY <2>2, MarkFacts
<1>1. CASE Segs(h) = {}
  <2>1. Mark(cells) = 0
      BY <1>1, MarkBound
  <2> QED
      BY <1>0, <2>1
<1>2. CASE Segs(h) # {}
  <2>1. PICK t \in Segs(h) : LastOf(h, t)
      BY <1>2, LastExists
  <2>2. Mark(cells) <= t + Len(h[t])
      BY <2>1, MarkBound
  <2>3. Len(Read(files)) >= t + Len(h[t])
      BY <2>1, ReadsAll
  <2>4. t + Len(h[t]) \in Nat
    <3>1. t \in Nat /\ h[t] \in Seq(Cell)
        BY CellFacts DEF Segs, Ledgers
    <3> QED
        BY <3>1
  <2>5. PICK a \in Nat, b \in Nat, c \in Nat :
            a = Mark(cells) /\ b = t + Len(h[t]) /\ c = Len(Read(files))
      BY <1>0, <2>4
  <2>6. a <= b /\ b <= c
      BY <2>2, <2>3, <2>5
  <2>7. a <= c
      BY <2>6
  <2> QED
      BY <2>5, <2>7
<1> QED
    BY <1>1, <1>2

(* Whatever power leaves of segment s, it is a beginning of the one of L   *)
(* that keeps the lines of h.                                              *)
Recovers(h, L, s) ==
    /\ Starts(L[s], h[s])
    /\ Cut(durable[s], L[s], Len(h[s])) /\ Cut(live[s], L[s], Len(h[s]))
    /\ \/ Len(durable[s]) <= Len(h[s]) + 1
       \/ durable[s] = live[s]
       \/ Len(live[s]) = Len(h[s])

(* The files are beginnings of the segments of one chain, now and were     *)
(* power cut.                                                              *)
Sketch(h, L) ==
    /\ Chained(L) /\ Fits(live, L) /\ durDir \subseteq Segs(h)
    /\ \A s \in Segs(h) : Recovers(h, L, s)

LEMMA CutFits ==
    ASSUME TypeOK, ~LazyDir, NEW h \in Ledgers, NEW L \in Ledgers, Sketch(h, L), PowerCut
    PROVE  Fits(live', L)
<1>1. \E left : /\ \A s \in durDir : left[s] \in Settled(durable[s], live[s])
                /\ live' = [s \in Names |-> IF s \in durDir THEN left[s] ELSE <<>>]
    BY DEF PowerCut
<1>2. ASSUME NEW s \in Names PROVE Cut(live'[s], L[s], 0)
  <2>0. /\ h[s] \in Seq(Cell) /\ L[s] \in Seq(Cell) /\ live[s] \in Seq(Cell)
        /\ durable[s] \in Seq(Cell)
      BY DEF Ledgers, TypeOK
  <2>1. CASE s \in durDir
    <3>1. PICK f : f = live'[s] /\ f \in Settled(durable[s], live[s])
        BY <1>1, <2>1
    <3>2. Recovers(h, L, s)
        BY <2>1 DEF Sketch
    <3>3. f \in Seq(Cell) /\ Cut(f, L[s], Len(h[s]))
        BY <2>0, <3>1, <3>2, SettledCut DEF Recovers
    <3>4. Cut(f, L[s], 0)
        BY <2>0, <3>3, CompleteCut
    <3> QED
        BY <3>1, <3>4
  <2>2. CASE s \notin durDir
    <3>1. live'[s] = <<>>
        BY <1>1, <2>2
    <3> QED
        BY <3>1 DEF Cut
  <2> QED
      BY <2>1, <2>2
<1> QED
    BY <1>2 DEF Fits

(* An empty file is a beginning of every file.                             *)
LEMMA EmptyFits ==
    ASSUME NEW full
    PROVE  Cut(<<>>, full, 0) /\ Complete(<<>>) = <<>>
<1>1. Cut(<<>>, full, 0)
    BY DEF Cut
<1>2. PICK e \in Seq(Cell) : e = <<>>
    BY CellFacts
<1>3. Near(e, e)
    BY NearSelf
<1>a. Lines(e, 0)
    BY <1>2 DEF Lines
<1>4. Complete(e) = e
    BY <1>3, <1>a, CompleteNear
<1> QED
    BY <1>1, <1>2, <1>4

(* Both planes hold the old lines and at most a torn cell.                 *)
LEMMA NearRecovers ==
    ASSUME TypeOK, NEW h \in Ledgers, NEW L \in Ledgers, NEW s \in Names,
           Starts(L[s], h[s]), Near(live[s], h[s]), Near(durable[s], h[s])
    PROVE  Recovers(h, L, s) /\ Cut(live[s], L[s], 0)
<1>0. /\ h[s] \in Seq(Cell) /\ L[s] \in Seq(Cell) /\ live[s] \in Seq(Cell)
      /\ durable[s] \in Seq(Cell)
    BY DEF Ledgers, TypeOK
<1>1. Cut(durable[s], L[s], Len(h[s])) /\ Len(durable[s]) <= Len(h[s]) + 1
    BY <1>0, NearCut
<1>2. Cut(live[s], L[s], Len(h[s]))
    BY <1>0, NearCut
<1>3. Cut(live[s], L[s], 0)
    BY <1>0, <1>2, CompleteCut
<1> QED
    BY <1>1, <1>2, <1>3 DEF Recovers

(* A disk at rest is a beginning of its own ledger.                        *)
LEMMA RestSketch ==
    ASSUME TypeOK, NEW h \in Ledgers, Base(h), AtRest(h)
    PROVE  Sketch(h, h)
<1>1. Chained(h) /\ durDir = Segs(h) /\ liveDir = Segs(h)
    BY DEF Base, AtRest
<1>2. ASSUME NEW s \in Segs(h) PROVE Recovers(h, h, s) /\ Cut(live[s], h[s], 0)
  <2>1. Near(live[s], h[s]) /\ Near(durable[s], h[s]) /\ s \in Names /\ h[s] \in Seq(Cell)
      BY DEF AtRest, Steady, Segs, Ledgers
  <2> QED
      BY <2>1, StartsSelf, NearRecovers
<1>3. ASSUME NEW s \in Names PROVE Cut(live[s], h[s], 0)
  <2>1. s \notin Segs(h) => live[s] = <<>>
      BY <1>1 DEF Base
  <2> QED
      BY <1>2, <2>1, EmptyFits
<1> QED
    BY <1>1, <1>2, <1>3 DEF Sketch, Fits

(* A reader of a disk at rest finds the ledger's lines.                    *)
LEMMA RestReads ==
    ASSUME NEW h \in Ledgers, Chained(h), NEW files \in Ledgers,
           \A s \in Segs(h) : Near(files[s], h[s]),
           \A s \in Names \ Segs(h) : files[s] = <<>>
    PROVE  \A s \in Names : Complete(files[s]) = h[s]
<1>1. ASSUME NEW s \in Segs(h) PROVE Complete(files[s]) = h[s]
  <2>1. s \in Names /\ s \in Nat /\ files[s] \in Seq(Cell) /\ h[s] \in Seq(Cell) /\ Lines(h[s], s)
      BY CellFacts DEF Segs, Ledgers, Chained
  <2>2. Near(files[s], h[s])
      OBVIOUS
  <2> QED
      BY <2>1, <2>2, CompleteNear
<1>2. ASSUME NEW s \in Names \ Segs(h) PROVE Complete(files[s]) = h[s]
  <2>1. files[s] = <<>> /\ h[s] = <<>>
      BY DEF Segs
  <2>2. Complete(<<>>) = <<>>
      BY EmptyFits
  <2> QED
      BY <2>1, <2>2
<1> QED
    BY <1>1, <1>2

(* While a wave is written the files are beginnings of the ledger with the *)
(* wave in it.                                                             *)
LEMMA WritingFits ==
    ASSUME TypeOK, NEW h \in Ledgers, Base(h), Writing(h)
    PROVE  /\ LandedIn(h) \in Ledgers /\ Chained(LandedIn(h)) /\ Fits(live, LandedIn(h))
           /\ \A s \in Names \ Segs(h) : s < seg => LandedIn(h)[s] = <<>> /\ live[s] = <<>>
<1>1. /\ LandedIn(h) \in Ledgers /\ Chained(LandedIn(h)) /\ created = Touched \ Segs(h)
      /\ \A t \in Touched : seg <= t
    BY DEF Writing, Continues
<1>2. PICK L \in Ledgers : L = LandedIn(h)
    BY <1>1
<1>3. /\ \A s \in Names : L[s] = h[s] \o wave[s] /\ Starts(L[s], h[s])
      /\ \A s \in Names \ Touched : L[s] = h[s]
    BY <1>2, LandedFacts
<1>4. ASSUME NEW s \in Names PROVE Cut(live[s], L[s], 0)
  <2>0. h[s] \in Seq(Cell) /\ L[s] \in Seq(Cell) /\ live[s] \in Seq(Cell) /\ 0 <= Len(h[s])
        /\ 0 <= Len(L[s])
      BY DEF Ledgers, TypeOK
  <2>1. CASE s \in Touched \cup {seg}
    <3>1. live[s] = L[s] \/ live[s] = h[s]
        BY <1>3, <2>1 DEF Writing
    <3>2. Cut(L[s], L[s], 0)
        BY <2>0, StartsSelf, StartsCut
    <3>3. Cut(h[s], L[s], 0)
        BY <1>3, <2>0, StartsCut
    <3> QED
        BY <3>1, <3>2, <3>3
  <2>2. CASE s \in Segs(h) \ (Touched \cup {seg})
    <3>1. Near(live[s], h[s]) /\ Near(durable[s], h[s])
        BY <2>2 DEF Writing, Steady
    <3> QED
        BY <1>3, <3>1, NearRecovers
  <2>3. CASE s \notin Segs(h) \cup Touched \cup {seg}
    <3>1. s \notin liveDir
        BY <1>1, <2>3 DEF Writing
    <3>2. live[s] = <<>>
        BY <3>1 DEF Base
    <3> QED
        BY <3>2, EmptyFits
  <2> QED
      BY <2>1, <2>2, <2>3
<1>5. ASSUME NEW s \in Names \ Segs(h), s < seg PROVE L[s] = <<>> /\ live[s] = <<>>
  <2>1. s \notin Touched
    <3>1. s \in Nat /\ seg \in Nat
        BY CellFacts DEF TypeOK
    <3>2. ~(seg <= s)
        BY <1>5, <3>1
    <3> QED
        BY <1>1, <3>2
  <2>2. L[s] = h[s] /\ h[s] = <<>>
      BY <1>3, <2>1 DEF Segs
  <2>3. s \notin liveDir
      BY <1>1, <2>1 DEF Writing
  <2> QED
      BY <2>2, <2>3 DEF Base
<1> QED
    BY <1>1, <1>2, <1>4, <1>5 DEF Fits

(* The next segment's lines are a beginning of what land makes of it, all  *)
(* of them or as many as a failed append left.                             *)
LEMMA LandFits ==
    ASSUME TypeOK, NEW h \in Ledgers, Base(h), Writing(h), LandAppend \/ LandAppendFails
    PROVE  Fits(live', LandedIn(h))
<1>1. /\ LandedIn(h) \in Ledgers /\ Fits(live, LandedIn(h)) /\ todo \subseteq Touched
    BY WritingFits DEF Writing, Continues
<1>2. PICK L \in Ledgers : L = LandedIn(h)
    BY <1>1
<1>3. \A s \in Names : L[s] = h[s] \o wave[s]
    BY <1>2, LandedFacts
<1>4. pc = "append"
    BY DEF LandAppend, LandAppendFails
<1>5. PICK s \in todo : \E left : /\ live' = [live EXCEPT ![s] = left]
                                  /\ \/ left = live[s] \o wave[s]
                                     \/ left \in PartlyAppended(live[s], wave[s])
    BY DEF LandAppend, LandAppendFails, First
<1>6. PICK left : /\ live' = [live EXCEPT ![s] = left]
                  /\ left = live[s] \o wave[s] \/ left \in PartlyAppended(live[s], wave[s])
    BY <1>5
<1>7. s \in Touched /\ s \in Names /\ h[s] \in Seq(Cell) /\ wave[s] \in Seq(Cell) /\ L[s] \in Seq(Cell)
    BY <1>1 DEF Touched, TypeOK, Ledgers
<1>8. live[s] = h[s]
    BY <1>4, <1>7 DEF Writing, Wrote
<1>9. Cut(left, L[s], 0)
  <2>1. CASE left = live[s] \o wave[s]
    <3>1. left = L[s]
        BY <1>3, <1>7, <1>8, <2>1, Zenon
    <3>2. 0 <= Len(L[s])
        BY <1>7
    <3>3. Cut(L[s], L[s], 0)
        BY <1>7, <3>2, StartsSelf, StartsCut
    <3> QED
        BY <3>1, <3>3
  <2>2. CASE left \in PartlyAppended(live[s], wave[s])
    <3>1. Cut(left, L[s], Len(h[s])) /\ left \in Seq(Cell)
        BY <1>3, <1>7, <1>8, <2>2, PartlyAppendedCut, PartlyAppendedType
    <3> QED
        BY <1>7, <3>1, CompleteCut
  <2> QED
      BY <1>6, <2>1, <2>2
<1>10. \A u \in Names : live'[u] = IF u = s THEN left ELSE live[u]
    BY <1>6 DEF TypeOK
<1> QED
    BY <1>1, <1>2, <1>9, <1>10 DEF Fits

(* Were power cut before the wave has landed, the same chain would do.     *)
LEMMA WritingSketch ==
    ASSUME TypeOK, NEW h \in Ledgers, Base(h), Writing(h), pc # "landed",
           NEW L \in Ledgers, L = LandedIn(h)
    PROVE  Sketch(h, L)
<1>1. durDir = Segs(h) /\ \A s \in Segs(h) \ {seg} : Near(live[s], h[s]) /\ Near(durable[s], h[s])
    BY DEF Writing, Steady
<1>2. Chained(L) /\ Fits(live, L)
    BY WritingFits
<1>3. \A s \in Names : L[s] = h[s] \o wave[s] /\ Starts(L[s], h[s])
    BY LandedFacts
<1>4. ASSUME NEW s \in Segs(h) \ {seg} PROVE Recovers(h, L, s)
    BY <1>1, <1>3, NearRecovers DEF Segs
<1>5. ASSUME seg \in Segs(h) PROVE Recovers(h, L, seg)
  <2>0. /\ seg \in Names /\ h[seg] \in Seq(Cell) /\ L[seg] \in Seq(Cell)
        /\ live[seg] \in Seq(Cell) /\ durable[seg] \in Seq(Cell)
      BY DEF TypeOK, Ledgers
  <2>1. live[seg] = L[seg] \/ live[seg] = h[seg]
      BY <1>3, <2>0 DEF Writing
  <2>2. Starts(L[seg], h[seg]) /\ Len(h[seg]) <= Len(L[seg])
      BY <1>3, <2>0 DEF Starts
  <2>3. Cut(L[seg], L[seg], Len(h[seg])) /\ Cut(h[seg], L[seg], Len(h[seg]))
    <3>1. Len(h[seg]) \in Nat /\ Len(h[seg]) <= Len(h[seg])
        BY <2>0
    <3> QED
        BY <2>0, <2>2, <3>1, StartsSelf, StartsCut
  <2>4. Cut(live[seg], L[seg], Len(h[seg]))
      BY <2>1, <2>3
  <2>5. durable[seg] = live[seg] \/ Near(durable[seg], h[seg])
      BY <1>5 DEF Writing
  <2>6. CASE durable[seg] = live[seg]
      BY <2>2, <2>4, <2>6 DEF Recovers
  <2>7. CASE Near(durable[seg], h[seg])
    <3>1. Cut(durable[seg], L[seg], Len(h[seg])) /\ Len(durable[seg]) <= Len(h[seg]) + 1
        BY <2>0, <2>2, <2>7, NearCut
    <3> QED
        BY <2>2, <2>4, <3>1 DEF Recovers
  <2> QED
      BY <2>5, <2>6, <2>7
<1> QED
    BY <1>1, <1>2, <1>4, <1>5 DEF Sketch

(* A failed wave is on the disk.                                           *)
Unwinding == pc \in Restoring \/ (pc = "idle" /\ owed # {})

(* What the failed wave left is a beginning of the chain it would have     *)
(* made, and lies past the ledger.                                         *)
Draft(h, L) ==
    /\ Sketch(h, L)
    /\ \A s \in Names \ Segs(h) : s < seg => L[s] = <<>>

(* The story, and where the bytes of a failed wave come from.              *)
Telling(h) == Story(h) /\ (Unwinding => \E L \in Ledgers : Draft(h, L))

(* Wherever the handle is, the files are beginnings of one chain.          *)
LEMMA TellingSketch ==
    ASSUME TypeOK, NEW h \in Ledgers, Telling(h)
    PROVE  \E k, L \in Ledgers : Sketch(k, L)
<1>0. Story(h) /\ Base(h)
    BY DEF Telling, Story
<1>1. CASE Unwinding
    BY <1>1 DEF Telling, Draft
<1>2. CASE AtRest(h)
  <2>1. Sketch(h, h)
      BY <1>0, <1>2, RestSketch
  <2> QED
      BY <2>1
<1>3. CASE Writing(h)
  <2>1. PICK L \in Ledgers : L = LandedIn(h) /\ Chained(L) /\ Fits(live, L)
      BY <1>0, <1>3, WritingFits
  <2>2. /\ \A s \in Names : L[s] = h[s] \o wave[s] /\ Starts(L[s], h[s])
        /\ \A s \in Names \ Touched : L[s] = h[s]
        /\ Segs(L) = Segs(h) \cup Touched
      BY <2>1, LandedFacts
  <2>3. \A s \in Segs(h) \ {seg} : Near(live[s], h[s]) /\ Near(durable[s], h[s])
      BY <1>3 DEF Writing, Steady
  <2>4. Touched \subseteq Names /\ Segs(h) \subseteq Names
      BY DEF Touched, Segs
  <2>5. CASE pc # "landed"
      BY <1>0, <1>3, <2>1, <2>5, WritingSketch
  <2>6. CASE pc = "landed"
    <3>1. Wrote = Touched /\ Synced = Touched
        BY <2>6 DEF Wrote, Synced
    <3>2. durDir = Segs(L)
      <4>1. liveDir = Segs(h) \cup (created \cap Touched) /\ durDir = liveDir
            /\ created = Touched \ Segs(h)
          BY <1>3, <2>6, <3>1 DEF Writing, Continues
      <4> QED
          BY <2>2, <4>1
    <3>3. ASSUME NEW s \in Segs(L) PROVE Recovers(L, L, s)
      <4>0. s \in Names /\ L[s] \in Seq(Cell)
          BY DEF Segs, Ledgers
      <4>1. Near(live[s], L[s]) /\ Near(durable[s], L[s])
        <5>1. CASE s \in Touched
          <6>1. live[s] = L[s] /\ durable[s] = L[s]
              BY <1>3, <2>2, <3>1, <4>0, <5>1 DEF Writing
          <6> QED
              BY <4>0, <6>1, NearSelf
        <5>2. CASE s \notin Touched /\ s # seg
            BY <2>2, <2>3, <4>0, <5>2
        <5>3. CASE s \notin Touched /\ s = seg
          <6>1. live[s] = h[s] /\ L[s] = h[s] /\ Near(durable[s], h[s])
              BY <1>3, <2>2, <3>1, <4>0, <5>3 DEF Writing
          <6> QED
              BY <4>0, <6>1, NearSelf
        <5> QED
            BY <5>1, <5>2, <5>3
      <4> QED
          BY <4>0, <4>1, StartsSelf, NearRecovers
    <3>4. Sketch(L, L)
        BY <2>1, <3>2, <3>3 DEF Sketch
    <3> QED
        BY <3>4
  <2> QED
      BY <2>5, <2>6
<1>4. Unwinding \/ AtRest(h) \/ Writing(h)
    BY <1>0 DEF Story, Unwinding, TypeOK, Landing, Restoring, Recovering
<1> QED
    BY <1>1, <1>2, <1>3, <1>4

(* A reader finds every line of the ledger.                                *)
LEMMA TellingShows ==
    ASSUME TypeOK, NEW h \in Ledgers, Telling(h), NEW t \in Segs(h), LastOf(h, t)
    PROVE  Shows(live, h, t)
<1>0. Story(h) /\ Base(h) /\ Chained(h) /\ live \in Ledgers
    BY DEF Telling, Story, Base, TypeOK, Ledgers
<1>t. t \in Names /\ t \in Nat /\ h[t] \in Seq(Cell)
    BY CellFacts DEF Segs, Ledgers
<1>1. CASE AtRest(h)
  <2>1. \A s \in Names : Complete(live[s]) = h[s]
    <3>1. \A s \in Segs(h) : Near(live[s], h[s])
        BY <1>1 DEF AtRest, Steady
    <3>2. \A s \in Names \ Segs(h) : live[s] = <<>>
        BY <1>0, <1>1 DEF AtRest, Base
    <3> QED
        BY <1>0, <3>1, <3>2, RestReads
  <2> QED
      BY <1>t, <2>1, StartsSelf DEF Shows
<1>2. ASSUME At(h), \A s \in Segs(h) \ {seg} : Steady(h, s),
             \A s \in Names \ Segs(h) : s < seg => Complete(live[s]) = <<>>,
             seg \in Segs(h) => Starts(live[seg], h[seg])
      PROVE  Shows(live, h, t)
  <2>1. LastOf(h, seg) /\ (len = 0 <=> seg \notin Segs(h)) /\ seg \in Nat
      BY <1>2, PositionFacts
  <2>2. seg \in Segs(h)
      BY <1>2, <2>1 DEF At
  <2>3. t = seg
    <3>1. t <= seg /\ seg <= t
        BY <2>1, <2>2 DEF LastOf
    <3> QED
        BY <1>t, <2>1, <3>1
  <2>4. ASSUME NEW s \in Names, s < t PROVE Complete(live[s]) = h[s]
    <3>1. CASE s \in Segs(h)
      <4>1. s # seg
          BY <1>t, <2>3, <2>4
      <4>2. /\ Near(live[s], h[s]) /\ Lines(h[s], s) /\ s \in Nat
            /\ live[s] \in Seq(Cell) /\ h[s] \in Seq(Cell)
          BY <1>0, <1>2, <3>1, <4>1, CellFacts DEF Steady, Chained, Ledgers
      <4> QED
          BY <4>2, CompleteNear
    <3>2. CASE s \notin Segs(h)
      <4>1. h[s] = <<>> /\ Complete(live[s]) = <<>>
          BY <1>2, <2>3, <2>4, <3>2 DEF Segs
      <4> QED
          BY <4>1
    <3> QED
        BY <3>1, <3>2
  <2>5. Starts(Complete(live[t]), h[t])
    <3>1. Starts(live[t], h[t]) /\ Lines(h[t], t) /\ live[t] \in Seq(Cell)
        BY <1>0, <1>2, <1>t, <2>2, <2>3 DEF Chained, Ledgers
    <3> QED
        BY <1>t, <3>1, CompleteStarts
  <2> QED
      BY <2>4, <2>5 DEF Shows
<1>3. CASE Writing(h)
  <2>1. \A s \in Names \ Segs(h) : s < seg => Complete(live[s]) = <<>>
      BY <1>0, <1>3, WritingFits, EmptyFits
  <2>2. Starts(live[seg], h[seg])
    <3>1. LandedIn(h) \in Ledgers
        BY <1>3 DEF Writing, Continues
    <3>2. seg \in Names /\ h[seg] \in Seq(Cell)
        BY DEF TypeOK, Ledgers
    <3>3. Starts(h[seg] \o wave[seg], h[seg])
      <4>1. PICK k \in Ledgers : k = LandedIn(h)
          BY <3>1
      <4>2. k[seg] = h[seg] \o wave[seg] /\ Starts(k[seg], h[seg])
          BY <3>2, <4>1, LandedFacts
      <4> QED
          BY <4>2, Zenon
    <3>4. live[seg] = h[seg] \o wave[seg] \/ live[seg] = h[seg]
        BY <1>3 DEF Writing
    <3> QED
        BY <3>2, <3>3, <3>4, StartsSelf
  <2>3. At(h) /\ \A s \in Segs(h) \ {seg} : Steady(h, s)
      BY <1>3 DEF Writing
  <2> QED
      BY <1>2, <2>1, <2>2, <2>3
<1>4. CASE Unwinding
  <2>1. PICK L \in Ledgers : Draft(h, L)
      BY <1>4 DEF Telling
  <2>2. At(h) /\ \A s \in Segs(h) \ {seg} : Steady(h, s)
      BY <1>0, <1>4 DEF Story, Unwinding, Undoing
  <2>3. ASSUME NEW s \in Names \ Segs(h), s < seg PROVE Complete(live[s]) = <<>>
    <3>1. L[s] = <<>> /\ Cut(live[s], L[s], 0) /\ live[s] \in Seq(Cell) /\ L[s] \in Seq(Cell)
        BY <2>1, <2>3 DEF Draft, Sketch, Fits, TypeOK, Ledgers
    <3>2. Starts(L[s], Complete(live[s]))
        BY <3>1, CompleteCut
    <3>3. PICK c \in Seq(Cell) : c = Complete(live[s])
        BY <3>1, CompleteFacts
    <3>4. Len(c) = 0
        BY <3>1, <3>2, <3>3 DEF Starts
    <3>5. c = <<>>
        BY <3>4
    <3> QED
        BY <3>3, <3>5
  <2>4. ASSUME seg \in Segs(h) PROVE Starts(live[seg], h[seg])
    <3>1. Recovers(h, L, seg)
        BY <2>1, <2>4 DEF Draft, Sketch
    <3>2. /\ h[seg] \in Seq(Cell) /\ L[seg] \in Seq(Cell) /\ live[seg] \in Seq(Cell)
        BY DEF TypeOK, Ledgers
    <3> QED
        BY <3>1, <3>2, CutStarts DEF Recovers
  <2> QED
      BY <1>2, <2>2, <2>3, <2>4
<1>5. Unwinding \/ AtRest(h) \/ Writing(h)
    BY <1>0 DEF Story, Unwinding, TypeOK, Landing, Restoring, Recovering
<1> QED
    BY <1>1, <1>3, <1>4, <1>5

-----------------------------------------------------------------------------
(* Where the bytes of a failed wave come from, step by step.               *)

LEMMA DraftStays ==
    ASSUME NEW h, NEW L, Draft(h, L), UNCHANGED <<live, durable, durDir, seg>>
    PROVE  Draft(h, L)'
<1>1. \A s : Recovers(h, L, s) => Recovers(h, L, s)'
    BY DEF Recovers
<1>2. Sketch(h, L)'
    BY <1>1 DEF Draft, Sketch
<1> QED
    BY <1>2 DEF Draft

(* A wave that fails leaves a beginning of what it would have left.        *)
LEMMA FailsDraft ==
    ASSUME TypeOK, NEW h \in Ledgers, Story(h), LandAppendFails \/ LandSyncFails
    PROVE  \E L \in Ledgers : Draft(h, L)'
<1>1. pc \in {"append", "sync", "syncdir"} /\ UNCHANGED <<durable, durDir, seg>>
    BY DEF LandAppendFails, LandSyncFails, WaveFails, position, disk
<1>2. Base(h) /\ Writing(h)
    BY <1>1 DEF Story, Landing
<1>3. PICK L \in Ledgers : /\ L = LandedIn(h)
                           /\ \A s \in Names \ Segs(h) : s < seg => L[s] = <<>>
    BY <1>2, WritingFits
<1>4. Sketch(h, L)
    BY <1>1, <1>2, <1>3, WritingSketch
<1>5. Draft(h, L)
    BY <1>3, <1>4 DEF Draft
<1>6. CASE LandSyncFails
  <2>1. UNCHANGED live
      BY <1>6 DEF LandSyncFails, disk
  <2>2. Draft(h, L)'
      BY <1>1, <1>5, <2>1, DraftStays
  <2> QED
      BY <2>2
<1>7. CASE LandAppendFails
  <2>1. Fits(live', L)
      BY <1>2, <1>3, <1>7, LandFits
  <2>2. PICK s \in todo : \E left \in PartlyAppended(live[s], wave[s]) :
            live' = [live EXCEPT ![s] = left]
      BY <1>7 DEF LandAppendFails, First
  <2>3. PICK left \in PartlyAppended(live[s], wave[s]) : live' = [live EXCEPT ![s] = left]
      BY <2>2
  <2>4. pc = "append" /\ Synced = {} /\ s \notin Wrote
      BY <1>7 DEF LandAppendFails, Synced, Wrote
  <2>5. /\ s \in Touched /\ s \in Names /\ (s \in Segs(h) => s = seg)
        /\ h[s] \in Seq(Cell) /\ wave[s] \in Seq(Cell) /\ L[s] \in Seq(Cell)
      BY <1>2 DEF Writing, Continues, Touched, TypeOK, Ledgers
  <2>6. live[s] = h[s] /\ L[s] = h[s] \o wave[s]
      BY <1>2, <1>3, <2>4, <2>5 DEF Writing, LandedIn
  <2>7. \A u \in Names : live'[u] = IF u = s THEN left ELSE live[u]
      BY <2>3 DEF TypeOK
  <2>8. Cut(left, L[s], Len(h[s]))
      BY <2>3, <2>5, <2>6, PartlyAppendedCut
  <2>9. ASSUME NEW u \in Segs(h) PROVE Recovers(h, L, u)'
    <3>0. u \in Names /\ Recovers(h, L, u)
        BY <1>4 DEF Sketch, Segs
    <3>1. CASE u # s
      <4>1. live'[u] = live[u] /\ durable'[u] = durable[u]
          BY <1>1, <2>7, <3>0, <3>1
      <4> QED
          BY <3>0, <4>1 DEF Recovers
    <3>2. CASE u = s
      <4>1. u = seg /\ live'[u] = left /\ durable'[u] = durable[u]
          BY <1>1, <2>5, <2>7, <3>0, <3>2
      <4>2. Near(durable[u], h[u])
          BY <1>2, <2>4, <4>1 DEF Writing
      <4>3. Len(durable[u]) <= Len(h[u]) + 1
        <5>1. durable[u] \in Seq(Cell) /\ h[u] \in Seq(Cell)
            BY <3>0 DEF TypeOK, Ledgers
        <5> QED
            BY <4>2, <5>1, NearFacts
      <4> QED
          BY <2>8, <3>0, <3>2, <4>1, <4>3 DEF Recovers
    <3> QED
        BY <3>1, <3>2
  <2>10. Sketch(h, L)'
      BY <1>1, <1>4, <2>1, <2>9 DEF Sketch
  <2>11. Draft(h, L)'
      BY <1>1, <1>3, <2>10 DEF Draft
  <2> QED
      BY <2>11
<1> QED
    BY <1>6, <1>7

(* restore takes bytes away, and makes the removal durable.                *)
LEMMA RestoreDraft ==
    ASSUME TypeOK, ~LazyDir, NEW h \in Ledgers, Story(h), NEW L \in Ledgers, Draft(h, L),
           RestoreUnlink \/ RestoreSyncDir \/ RestoreTruncate \/ RestoreSync
    PROVE  Draft(h, L)'
<1>1. /\ pc \in {"unlink", "unlinkdir", "cutback", "cutsync"} /\ UNCHANGED seg
    BY DEF RestoreUnlink, RestoreSyncDir, RestoreTruncate, RestoreSync, position
<1>2. Base(h) /\ Undoing(h)
    BY <1>1 DEF Story, Restoring
<1>3. /\ Chained(L) /\ Fits(live, L) /\ durDir \subseteq Segs(h) /\ Segs(h) \subseteq Names
      /\ \A s \in Segs(h) : Recovers(h, L, s)
      /\ \A s \in Names \ Segs(h) : s < seg => L[s] = <<>>
    BY DEF Draft, Sketch, Segs
<1>4. CASE RestoreUnlink
  <2>1. PICK segs \in SUBSET Names : owed = {segs} /\ segs \cap Segs(h) = {}
      BY <1>2 DEF Undoing
  <2>2. Owed = segs
      BY <2>1, OwedSegments
  <2>3. CASE segs \cap liveDir = {}
    <3>1. UNCHANGED <<live, durable, durDir>>
        BY <1>4, <2>2, <2>3 DEF RestoreUnlink, disk
    <3> QED
        BY <1>1, <3>1, DraftStays
  <2>4. CASE segs \cap liveDir # {}
    <3>1. PICK s \in segs \cap liveDir : Unlink(s)
        BY <1>4, <2>2, <2>4 DEF RestoreUnlink, First
    <3>2. /\ live' = [live EXCEPT ![s] = <<>>]
          /\ durDir' = durDir \ {s} /\ durable' = [durable EXCEPT ![s] = <<>>]
        BY <3>1 DEF Unlink
    <3>3. s \in Names /\ s \notin Segs(h)
        BY <2>1, <3>1
    <3>4. \A u \in Names : live'[u] = IF u = s THEN <<>> ELSE live[u]
        BY <3>2 DEF TypeOK
    <3>5. \A u \in Segs(h) : live'[u] = live[u] /\ durable'[u] = durable[u]
        BY <1>3, <3>2, <3>3, <3>4 DEF TypeOK
    <3>6. \A u \in Segs(h) : Recovers(h, L, u)'
        BY <1>3, <3>5 DEF Recovers
    <3>7. Fits(live', L)
      <4>1. ASSUME NEW u \in Names PROVE Cut(live'[u], L[u], 0)
          BY <1>3, <3>4, EmptyFits DEF Fits
      <4> QED
          BY <4>1 DEF Fits
    <3> QED
        BY <1>1, <1>3, <3>2, <3>6, <3>7 DEF Draft, Sketch
  <2> QED
      BY <2>3, <2>4
<1>5. CASE RestoreSyncDir
  <2>1. /\ pc = "unlinkdir" /\ live' = live /\ durDir' = liveDir
        /\ durable' = [s \in Names |-> IF s \in liveDir THEN durable[s] ELSE <<>>]
      BY <1>5 DEF RestoreSyncDir, SyncDir
  <2>2. liveDir = Segs(h)
      BY <1>2, <2>1 DEF Undoing
  <2>3. \A u \in Segs(h) : live'[u] = live[u] /\ durable'[u] = durable[u]
      BY <1>3, <2>1, <2>2
  <2>4. \A u \in Segs(h) : Recovers(h, L, u)'
      BY <1>3, <2>3 DEF Recovers
  <2> QED
      BY <1>1, <1>3, <2>1, <2>2, <2>4 DEF Draft, Sketch
<1>6. CASE RestoreTruncate \/ RestoreSync
  <2>1. pc \in {"cutback", "cutsync"} /\ UNCHANGED durDir
      BY <1>6 DEF RestoreTruncate, RestoreSync
  <2>2. At(h) /\ len > 0
      BY <1>2, <2>1 DEF Undoing
  <2>3. /\ seg \in Names /\ len \in Nat /\ seg \in Segs(h) /\ len = Len(h[seg])
        /\ h[seg] \in Seq(Cell) /\ live[seg] \in Seq(Cell) /\ durable[seg] \in Seq(Cell)
        /\ L[seg] \in Seq(Cell)
      BY <2>2, PositionFacts DEF TypeOK, Ledgers
  <2>4. Recovers(h, L, seg)
      BY <1>3, <2>3
  <2>5. /\ live'[seg] = h[seg]
        /\ durable'[seg] = durable[seg] \/ durable'[seg] = h[seg]
        /\ \A u \in Names \ {seg} : live'[u] = live[u] /\ durable'[u] = durable[u]
    <3>1. CASE RestoreTruncate
      <4>1. /\ live' = [live EXCEPT ![seg] = Truncated(live[seg], len)] /\ durable' = durable
          BY <3>1 DEF RestoreTruncate
      <4>2. Starts(live[seg], h[seg])
          BY <2>3, <2>4, CutStarts DEF Recovers
      <4>3. Truncated(live[seg], len) = h[seg]
          BY <2>3, <4>2, TruncatedStarts
      <4> QED
          BY <2>3, <4>1, <4>3 DEF TypeOK
    <3>2. CASE RestoreSync
      <4>1. durable' = [durable EXCEPT ![seg] = live[seg]] /\ live' = live /\ pc = "cutsync"
          BY <3>2 DEF RestoreSync
      <4>2. live[seg] = h[seg]
          BY <1>2, <2>2, <4>1 DEF Undoing
      <4> QED
          BY <2>3, <4>1, <4>2 DEF TypeOK
    <3> QED
        BY <1>6, <3>1, <3>2
  <2>6. Cut(h[seg], L[seg], Len(h[seg])) /\ Cut(h[seg], L[seg], 0)
    <3>1. Starts(L[seg], h[seg]) /\ Len(h[seg]) <= Len(h[seg]) /\ 0 <= Len(h[seg])
          /\ Len(h[seg]) \in Nat /\ 0 \in Nat
        BY <2>3, <2>4 DEF Recovers
    <3> QED
        BY <2>3, <3>1, StartsCut
  <2>7. PICK z \in Names : z = seg
      BY <2>3
  <2>8. Recovers(h, L, z)'
    <3>1. /\ Cut(live'[z], L[z], Len(h[z])) /\ Cut(durable'[z], L[z], Len(h[z]))
          /\ Starts(L[z], h[z]) /\ Len(live'[z]) = Len(h[z])
        BY <2>4, <2>5, <2>6, <2>7 DEF Recovers
    <3> QED
        BY <3>1 DEF Recovers
  <2>9. ASSUME NEW u \in Segs(h) \ {seg} PROVE Recovers(h, L, u)'
    <3>1. Recovers(h, L, u) /\ live'[u] = live[u] /\ durable'[u] = durable[u]
        BY <1>3, <2>5
    <3> QED
        BY <3>1 DEF Recovers
  <2>10. \A u \in Segs(h) : Recovers(h, L, u)'
      BY <2>7, <2>8, <2>9
  <2>11. Fits(live', L)
      BY <1>3, <2>5, <2>6 DEF Fits
  <2> QED
      BY <1>1, <1>3, <2>1, <2>10, <2>11 DEF Draft, Sketch
<1> QED
    BY <1>4, <1>5, <1>6


(* The steps that start an unwind or go on with one.                       *)
LEMMA UnwindSteps ==
    ASSUME TypeOK, NEW h \in Ledgers, Story(h), [Next]_vars, Unwinding'
    PROVE  \/ UNCHANGED vars \/ Trip \/ FinishUnwind \/ RestoreFails
           \/ LandAppendFails \/ LandSyncFails
           \/ RestoreUnlink \/ RestoreSyncDir \/ RestoreTruncate \/ RestoreSync
<1>0. pc' \in {"unlink", "unlinkdir", "cutback", "cutsync", "restored"}
      \/ (pc' = "idle" /\ owed' # {})
    BY DEF Unwinding, Restoring
<1>1. ASSUME ClientStep PROVE FinishUnwind
    BY <1>0, <1>1 DEF ClientStep, AppendAll, StartWave, Close
<1>2. ~OpenStep
    BY <1>0 DEF OpenStep, OpenEmpty, OpenRefused, Open, NewHandle
<1>3. ASSUME HandleStep
      PROVE  RestoreUnlink \/ RestoreSyncDir \/ RestoreTruncate \/ RestoreSync
  <2>1. ~LandAppend /\ ~LandSync /\ ~LandSyncDir
      BY <1>0 DEF LandAppend, LandSync, LandSyncDir, AfterSync
  <2>2. ~Acknowledge
    <3>1. ASSUME Acknowledge PROVE FALSE
      <4>1. pc = "landed" /\ pc' = "idle" /\ owed' = owed
          BY <3>1 DEF Acknowledge
      <4>2. owed = {}
          BY <4>1 DEF Story, Landing, Writing
      <4> QED
          BY <1>0, <4>1, <4>2
    <3> QED
        BY <3>1
  <2>3. ~RestoreDone /\ ~RecoverTruncate
      BY <1>0 DEF RestoreDone, RecoverTruncate
  <2>4. ~RecoverSync
    <3>1. ASSUME RecoverSync PROVE FALSE
      <4>1. pc = "truncsync" /\ owed' = owed /\ pc' \in {"remove", "idle", "trunclog"}
          BY <3>1 DEF RecoverSync, AfterRepair
      <4>2. owed = {}
          BY <4>1 DEF Story, AtRest
      <4> QED
          BY <1>0, <4>1, <4>2
    <3> QED
        BY <3>1
  <2>5. ~RecoverRemove /\ ~RecoverSyncDir
      BY DEF RecoverRemove, RecoverSyncDir, Story
  <2>6. ~(\E rolls \in Rolls(1) : LogTruncated(rolls))
      BY <1>0 DEF LogTruncated, StartWave
  <2> QED
      BY <1>3, <2>1, <2>2, <2>3, <2>4, <2>5, <2>6 DEF HandleStep
<1>4. ASSUME FaultStep PROVE LandAppendFails \/ LandSyncFails \/ RestoreFails \/ Trip
    BY <1>0, <1>4 DEF FaultStep, RecoverFails, Kill, PowerCut
<1> QED
    BY <1>1, <1>2, <1>3, <1>4 DEF Next

(* Every step goes on telling the story.                                   *)
LEMMA NextTelling ==
    ASSUME TypeOK, TypeOK', ~LazyDir, NEW h \in Ledgers, Telling(h), [Next]_vars, ~orphaned'
    PROVE  \E k \in Ledgers : Telling(k)'
<1>0. Story(h) /\ Ledgers' = Ledgers
    BY DEF Telling, Ledgers, Names, Cell, Hash
<1>1. CASE ~Unwinding'
  <2>1. PICK k \in Ledgers : Story(k)'
      BY <1>0, NextStory
  <2> QED
      BY <1>1, <2>1 DEF Telling
<1>2. CASE Unwinding'
  <2>1. CASE LandAppendFails \/ LandSyncFails
    <3>1. Story(h)' /\ \E L \in Ledgers : Draft(h, L)'
        BY <1>0, <2>1, WaveFailsStory, FailsDraft
    <3> QED
        BY <1>0, <3>1 DEF Telling
  <2>2. CASE \/ UNCHANGED vars \/ Trip \/ FinishUnwind \/ RestoreFails
    <3>1. UNCHANGED <<live, durable, durDir, seg>>
        BY <2>2 DEF vars, Trip, FinishUnwind, RestoreFails, disk, position
    <3>2. Story(h)'
      <4>1. CASE UNCHANGED vars \/ Trip
          BY <1>0, <4>1, StillStory DEF vars, Trip, disk, position, shape, history
      <4>2. CASE FinishUnwind \/ RestoreFails
          BY <1>0, <4>2, UnwindPauses
      <4> QED
          BY <2>2, <4>1, <4>2
    <3>3. Unwinding
      <4>1. CASE UNCHANGED vars \/ Trip
          BY <1>2, <4>1 DEF vars, Trip, Unwinding
      <4>2. CASE FinishUnwind \/ RestoreFails
          BY <4>2 DEF FinishUnwind, RestoreFails, Unwinding, Restoring
      <4> QED
          BY <2>2, <4>1, <4>2
    <3>4. PICK L \in Ledgers : Draft(h, L)
        BY <3>3 DEF Telling
    <3>5. Draft(h, L)'
        BY <3>1, <3>4, DraftStays
    <3> QED
        BY <1>0, <3>2, <3>5 DEF Telling
  <2>3. CASE RestoreUnlink \/ RestoreSyncDir \/ RestoreTruncate \/ RestoreSync
    <3>1. Unwinding
        BY <2>3 DEF RestoreUnlink, RestoreSyncDir, RestoreTruncate, RestoreSync, Unwinding, Restoring
    <3>2. PICK L \in Ledgers : Draft(h, L)
        BY <3>1 DEF Telling
    <3>3. Draft(h, L)'
        BY <1>0, <2>3, <3>2, RestoreDraft
    <3>4. Story(h)'
        BY <1>0, <2>3, RestoreUnlinkStory, RestoreSyncDirStory, RestoreCutStory
    <3> QED
        BY <1>0, <3>3, <3>4 DEF Telling
  <2> QED
      BY <1>0, <1>2, <2>1, <2>2, <2>3, UnwindSteps
<1> QED
    BY <1>1, <1>2

(* The inductive invariant with the origin of a failed wave's bytes in it. *)
EInv == DInv /\ (~LazyDir /\ Clean => \E h \in Ledgers : Telling(h))

LEMMA InitEInv == Init => EInv
<1> SUFFICES ASSUME Init PROVE EInv
    OBVIOUS
<1>1. DInv
    BY InitStory
<1>2. ~Unwinding
    BY DEF Init, Unwinding, Restoring
<1> QED
    BY <1>1, <1>2 DEF EInv, DInv, Telling

LEMMA NextEInv == EInv /\ [Next]_vars => EInv'
<1> SUFFICES ASSUME EInv, [Next]_vars PROVE EInv'
    OBVIOUS
<1>1. DInv /\ DInv'
    BY NextDInv DEF EInv
<1>2. TypeOK /\ TypeOK'
    BY <1>1 DEF DInv, IInv
<1>3. ASSUME ~LazyDir, Clean' PROVE \E k \in Ledgers : Telling(k)'
  <2>1. Clean
      BY <1>2, <1>3, CleanBefore
  <2>2. PICK h \in Ledgers : Telling(h)
      BY <1>3, <2>1 DEF EInv
  <2>3. ~orphaned'
      BY <1>3 DEF Clean
  <2> QED
      BY <1>2, <1>3, <2>2, <2>3, NextTelling
<1>4. Ledgers' = Ledgers
    BY DEF Ledgers, Names, Cell, Hash
<1> QED
    BY <1>1, <1>3, <1>4 DEF EInv

LEMMA EInvHolds == Spec => []EInv
BY InitEInv, NextEInv, PTL DEF Spec

(* A reader finds everything that was acknowledged.                        *)
KeptReadable == Kept <= Len(Readable)

LEMMA EInvReadable ==
    ASSUME ~LazyDir, EInv, Clean
    PROVE  KeptReadable
<1>1. PICK h \in Ledgers : Telling(h)
    BY DEF EInv
<1>2. TypeOK /\ live \in Ledgers /\ acked \in SUBSET Cell
    BY DEF EInv, DInv, IInv, TypeOK, Ledgers
<1>3. Chained(h) /\ Has(h, acked)
    BY <1>1 DEF Telling, Story, Base
<1>4. \A t \in Segs(h) : LastOf(h, t) => Shows(live, h, t)
    BY <1>1, <1>2, TellingShows
<1>5. Mark(acked) <= Len(Read(live))
    BY <1>2, <1>3, <1>4, MarkRead
<1> QED
    BY <1>5, Zenon DEF KeptReadable, Kept, Mark, Readable

-----------------------------------------------------------------------------
(* Every step is a step of the history a reader sees.                      *)

(* A file cut shorter is a beginning of the same file.                     *)
LEMMA TruncatedFits ==
    ASSUME NEW f \in Seq(Cell), NEW full \in Seq(Cell), NEW n \in Nat, Cut(f, full, 0)
    PROVE  Cut(Truncated(f, n), full, 0)
<1>1. PICK m \in Nat : /\ m <= Len(f) /\ Truncated(f, n) = SubSeq(f, 1, m)
  <2>1. CASE n <= Len(f)
      BY <2>1 DEF Truncated
  <2>2. CASE ~(n <= Len(f))
      BY <2>2 DEF Truncated
  <2> QED
      BY <2>1, <2>2
<1>2. \A i \in 1 .. m : f[i] \in Cell
    BY <1>1
<1>3. PICK c \in Seq(Cell) : c = SubSeq(f, 1, m) /\ Len(c) = m /\ \A i \in 1 .. m : c[i] = f[i]
    BY <1>1, <1>2, SubSeqProperties
<1>4. ASSUME NEW i \in 1 .. Len(c)
      PROVE  (i <= Len(full) /\ c[i] = full[i]) \/ (i = Len(c) /\ i > 0 /\ ~c[i].whole)
  <2>1. i \in 1 .. m /\ i \in 1 .. Len(f) /\ c[i] = f[i] /\ i \in Nat
      BY <1>1, <1>3
  <2>2. (i <= Len(full) /\ f[i] = full[i]) \/ (i = Len(f) /\ i > 0 /\ ~f[i].whole)
      BY <2>1 DEF Cut
  <2>3. i = Len(f) => i = m
      BY <1>1, <2>1
  <2> QED
      BY <1>3, <2>1, <2>2, <2>3
<1>5. Cut(c, full, 0)
    BY <1>3, <1>4 DEF Cut
<1> QED
    BY <1>1, <1>3, <1>5

(* Files that are cut or removed stay beginnings of the same chain.        *)
LEMMA ShrunkFits ==
    ASSUME NEW files \in Ledgers, NEW more, NEW L \in Ledgers, Fits(files, L),
           \A s \in Names : \/ more[s] = files[s] \/ more[s] = <<>>
                            \/ \E n \in Nat : more[s] = Truncated(files[s], n)
    PROVE  Fits(more, L)
<1>1. ASSUME NEW s \in Names PROVE Cut(more[s], L[s], 0)
  <2>1. files[s] \in Seq(Cell) /\ L[s] \in Seq(Cell) /\ Cut(files[s], L[s], 0)
      BY DEF Ledgers, Fits
  <2>2. CASE more[s] = files[s]
      BY <2>1, <2>2
  <2>3. CASE more[s] = <<>>
      BY <2>3, EmptyFits
  <2>4. CASE \E n \in Nat : more[s] = Truncated(files[s], n)
      BY <2>1, <2>4, TruncatedFits
  <2> QED
      BY <2>2, <2>3, <2>4
<1> QED
    BY <1>1 DEF Fits

(* The steps that write to the files.                                      *)
LEMMA FileSteps ==
    ASSUME [Next]_vars
    PROVE  \/ live' = live
           \/ LandAppend \/ LandAppendFails \/ RestoreUnlink \/ RestoreTruncate
           \/ RecoverTruncate \/ RecoverRemove \/ PowerCut
<1>1. CASE UNCHANGED vars
    BY <1>1 DEF vars, disk
<1>2. CASE ClientStep
    BY <1>2 DEF ClientStep, AppendAll, FinishUnwind, Close, disk
<1>3. CASE OpenStep
    BY <1>3 DEF OpenStep, OpenEmpty, OpenRefused, Open, disk
<1>4. CASE HandleStep
  <2>1. \/ LandSync \/ LandSyncDir \/ Acknowledge \/ RestoreSyncDir \/ RestoreSync
        \/ RestoreDone \/ RecoverSync \/ RecoverSyncDir
        \/ (\E rolls \in Rolls(1) : LogTruncated(rolls))
        => live' = live
      BY DEF LandSync, LandSyncDir, Acknowledge, RestoreSyncDir, RestoreSync, RestoreDone,
             RecoverSync, RecoverSyncDir, LogTruncated, disk
  <2> QED
      BY <1>4, <2>1 DEF HandleStep
<1>5. CASE FaultStep
  <2>1. LandSyncFails \/ RestoreFails \/ RecoverFails \/ Trip \/ Kill => live' = live
      BY DEF LandSyncFails, RestoreFails, RecoverFails, Trip, Kill, disk
  <2> QED
      BY <1>5, <2>1 DEF FaultStep
<1> QED
    BY <1>1, <1>2, <1>3, <1>4, <1>5 DEF Next

(* Only Acknowledge tells the caller anything.                             *)
LEMMA AckedSteps ==
    ASSUME [Next]_vars
    PROVE  Acknowledge \/ acked' = acked
<1>1. CASE UNCHANGED vars
    BY <1>1 DEF vars, history
<1>2. CASE ClientStep
    BY <1>2 DEF ClientStep, AppendAll, FinishUnwind, Close, history
<1>3. CASE OpenStep
    BY <1>3 DEF OpenStep, OpenEmpty, OpenRefused, Open, history
<1>4. CASE HandleStep
  <2>1. \/ LandAppend \/ LandSync \/ LandSyncDir => acked' = acked
      BY DEF LandAppend, LandSync, LandSyncDir, history
  <2>2. \/ RestoreUnlink \/ RestoreSyncDir \/ RestoreTruncate \/ RestoreSync \/ RestoreDone
        => acked' = acked
      BY DEF RestoreUnlink, RestoreSyncDir, RestoreTruncate, RestoreSync, RestoreDone, history
  <2>3. \/ RecoverTruncate \/ RecoverSync \/ RecoverRemove \/ RecoverSyncDir
        \/ (\E rolls \in Rolls(1) : LogTruncated(rolls))
        => acked' = acked
      BY DEF RecoverTruncate, RecoverSync, RecoverRemove, RecoverSyncDir, LogTruncated, history
  <2> QED
      BY <1>4, <2>1, <2>2, <2>3 DEF HandleStep
<1>5. CASE FaultStep
    BY <1>5 DEF FaultStep, LandAppendFails, LandSyncFails, WaveFails, RestoreFails, RecoverFails,
                Trip, Kill, PowerCut, history
<1> QED
    BY <1>1, <1>2, <1>3, <1>4, <1>5 DEF Next

(* A step that writes leaves the files beginnings of a chain they were     *)
(* beginnings of before it.                                                *)
LEMMA StepFits ==
    ASSUME TypeOK, ~LazyDir, NEW h \in Ledgers, Telling(h), [Next]_vars
    PROVE  \/ live' = live
           \/ \E L \in Ledgers : Chained(L) /\ Fits(live, L) /\ Fits(live', L)
<1>0. Story(h) /\ Base(h) /\ live \in Ledgers
    BY DEF Telling, Story, TypeOK, Ledgers
<1>1. CASE LandAppend \/ LandAppendFails
  <2>1. Writing(h)
      BY <1>0, <1>1 DEF LandAppend, LandAppendFails, Story, Landing
  <2>2. PICK L \in Ledgers : L = LandedIn(h) /\ Chained(L) /\ Fits(live, L)
      BY <1>0, <2>1, WritingFits
  <2>3. Fits(live', L)
      BY <1>0, <1>1, <2>1, <2>2, LandFits
  <2> QED
      BY <2>2, <2>3
<1>2. CASE PowerCut
  <2>1. PICK k, L \in Ledgers : Sketch(k, L)
      BY TellingSketch
  <2>2. Chained(L) /\ Fits(live, L)
      BY <2>1 DEF Sketch
  <2>3. Fits(live', L)
      BY <1>2, <2>1, CutFits
  <2> QED
      BY <2>2, <2>3
<1>3. CASE RestoreUnlink \/ RestoreTruncate \/ RecoverTruncate
  <2>1. PICK k, L \in Ledgers : Sketch(k, L)
      BY TellingSketch
  <2>2. Chained(L) /\ Fits(live, L)
      BY <2>1 DEF Sketch
  <2>3. ASSUME NEW s \in Names
        PROVE  \/ live'[s] = live[s] \/ live'[s] = <<>>
               \/ \E n \in Nat : live'[s] = Truncated(live[s], n)
    <3>1. CASE RestoreUnlink
        BY <1>0, <3>1 DEF RestoreUnlink, Unlink, disk, Ledgers
    <3>2. CASE RestoreTruncate
        BY <1>0, <3>2 DEF RestoreTruncate, Ledgers, TypeOK
    <3>3. CASE RecoverTruncate
      <4>1. PICK n \in Nat : live' = [live EXCEPT ![LastSeg] = Truncated(live[LastSeg], n)]
          BY <3>3 DEF RecoverTruncate, TypeOK
      <4> QED
          BY <1>0, <4>1 DEF Ledgers
    <3> QED
        BY <1>3, <3>1, <3>2, <3>3
  <2>4. Fits(live', L)
      BY <1>0, <2>2, <2>3, ShrunkFits
  <2> QED
      BY <2>2, <2>4
<1>4. ~RecoverRemove
    BY <1>0 DEF RecoverRemove, Story
<1> QED
    BY <1>1, <1>2, <1>3, <1>4, FileSteps

(* Ok is answered for everything a reader finds, and no more.              *)
LEMMA AcknowledgeReads ==
    ASSUME TypeOK, TypeOK', NEW h \in Ledgers, Story(h), Acknowledge
    PROVE  live' = live /\ Mark(acked') = Len(Read(live))
<1>1. pc = "landed" /\ live' = live
    BY DEF Acknowledge, disk
<1>2. PICK last \in Touched : \A s \in Touched : s <= last
    BY DEF Acknowledge
<1>3. Base(h) /\ Writing(h)
    BY <1>1 DEF Story, Landing
<1>4. /\ created = Touched \ Segs(h) /\ \A t \in Touched : seg <= t
      /\ LandedIn(h) \in Ledgers /\ Chained(LandedIn(h)) /\ LastOf(h, seg)
    BY <1>3 DEF Writing, Continues, At
<1>5. PICK k \in Ledgers : k = LandedIn(h) /\ Chained(k)
    BY <1>4
<1>6. /\ \A s \in Names : k[s] = h[s] \o wave[s] /\ Starts(k[s], h[s])
      /\ \A s \in Names \ Touched : k[s] = h[s]
      /\ Segs(k) = Segs(h) \cup Touched
      /\ \A s \in Names : \A i \in 1 .. Len(wave[s]) :
            Len(h[s]) + i \in 1 .. Len(k[s]) /\ k[s][Len(h[s]) + i] = wave[s][i]
    BY <1>5, LandedFacts
<1>7. Touched \subseteq Names /\ Wrote = Touched
    BY <1>1 DEF Touched, Wrote
<1>8. liveDir = Segs(k) /\ live \in Ledgers
    BY <1>3, <1>4, <1>6, <1>7 DEF Writing, TypeOK, Ledgers
<1>9. ASSUME NEW s \in Segs(k) PROVE Near(live[s], k[s])
  <2>1. s \in Names /\ k[s] \in Seq(Cell)
      BY DEF Segs, Ledgers
  <2>2. CASE s \in Touched \cup {seg}
    <3>1. live[s] = k[s]
        BY <1>3, <1>6, <1>7, <2>1, <2>2 DEF Writing
    <3> QED
        BY <2>1, <3>1, NearSelf
  <2>3. CASE s \notin Touched \cup {seg}
    <3>1. s \in Segs(h) \ {seg} /\ k[s] = h[s]
        BY <1>6, <2>1, <2>3
    <3> QED
        BY <1>3, <3>1 DEF Writing, Steady
  <2> QED
      BY <2>2, <2>3
<1>10. \A s \in Names \ Segs(k) : live[s] = <<>>
    BY <1>3, <1>8 DEF Base
<1>11. \A s \in Names : Complete(live[s]) = k[s]
    BY <1>5, <1>8, <1>9, <1>10, RestReads
<1>12. last \in Segs(k) /\ LastOf(k, last)
  <2>1. ASSUME NEW s \in Segs(h) PROVE s <= last
    <3>1. s <= seg /\ seg <= last /\ s \in Nat /\ seg \in Nat /\ last \in Nat
        BY <1>2, <1>4, <1>7, CellFacts DEF LastOf, Segs, TypeOK
    <3> QED
        BY <3>1
  <2> QED
      BY <1>2, <1>6, <2>1 DEF LastOf
<1>13. Len(Read(live)) = last + Len(k[last])
    BY <1>5, <1>8, <1>11, <1>12, ReadsOnly
<1>14. acked' \in SUBSET Cell /\ Has(k, acked')
  <2>1. Has(k, acked)
      BY <1>3, <1>6, HasMore DEF Base
  <2>2. acked' = acked \cup UNION {Range(wave[s]) : s \in Touched}
      BY DEF Acknowledge
  <2>3. ASSUME NEW s \in Touched, NEW cell \in Range(wave[s])
        PROVE  \E u \in Names : \E i \in 1 .. Len(k[u]) : k[u][i] = cell
    <3>1. s \in Names /\ wave[s] \in Seq(Cell)
        BY <1>7 DEF TypeOK
    <3>2. PICK i \in DOMAIN wave[s] : wave[s][i] = cell
        BY <2>3 DEF Range
    <3>3. i \in 1 .. Len(wave[s])
        BY <3>1, <3>2
    <3>4. Len(h[s]) + i \in 1 .. Len(k[s]) /\ k[s][Len(h[s]) + i] = cell
        BY <1>6, <3>1, <3>2, <3>3
    <3> QED
        BY <3>1, <3>4
  <2>4. ASSUME NEW cell \in acked'
        PROVE  \E u \in Names : \E i \in 1 .. Len(k[u]) : k[u][i] = cell
    <3>1. CASE cell \in acked
        BY <2>1, <3>1 DEF Has
    <3>2. CASE \E s \in Touched : cell \in Range(wave[s])
        BY <2>3, <3>2
    <3>3. cell \in acked \/ \E s \in Touched : cell \in Range(wave[s])
        BY <2>2, <2>4, Zenon
    <3> QED
        BY <3>1, <3>2, <3>3
  <2>5. acked' \in SUBSET Cell
      BY DEF TypeOK, Cell, Hash, Names
  <2> QED
      BY <2>4, <2>5 DEF Has
<1>15. Mark(acked') <= last + Len(k[last])
    BY <1>5, <1>12, <1>14, MarkBound
<1>16. \E cell \in acked' : cell.seq = (last + Len(k[last])) - 1
  <2>1. /\ last \in Names /\ wave[last] \in Seq(Cell) /\ wave[last] # <<>>
        /\ h[last] \in Seq(Cell) /\ k[last] \in Seq(Cell) /\ k[last] = h[last] \o wave[last]
      BY <1>6, <1>7 DEF Touched, TypeOK, Ledgers
  <2>2. PICK a \in Nat, b \in Nat :
          /\ Len(h[last]) = a /\ Len(wave[last]) = b /\ Len(k[last]) = a + b
          /\ a + b \in 1 .. a + b /\ b \in 1 .. b
    <3>1. PICK c \in Seq(Cell), v \in Seq(Cell) :
            c = h[last] /\ v = wave[last] /\ k[last] = c \o v /\ v # <<>>
        BY <2>1
    <3>2. Len(c) \in Nat /\ Len(v) \in Nat /\ Len(c \o v) = Len(c) + Len(v) /\ Len(v) >= 1
        BY <3>1
    <3>3. PICK a, b \in Nat : a = Len(c) /\ b = Len(v) /\ Len(c \o v) = a + b /\ b >= 1
        BY <3>2
    <3>4. a + b \in 1 .. a + b /\ b \in 1 .. b
        BY <3>3
    <3> QED
        BY <3>1, <3>3, <3>4, Zenon
  <2>3. k[last][a + b] = wave[last][b]
      BY <1>6, <2>1, <2>2, Zenon
  <2>4. k[last][a + b].seq = (last + (a + b)) - 1
    <3>1. Lines(k[last], last) /\ last \in Nat
        BY <1>5, <2>1, CellFacts DEF Chained
    <3>2. k[last][a + b].seq = last + (a + b) - 1
        BY <2>2, <3>1 DEF Lines
    <3> QED
        BY <3>1, <3>2
  <2>5. wave[last][b] \in acked'
    <3>1. wave[last][b] \in Range(wave[last])
        BY <2>1, <2>2 DEF Range
    <3> QED
        BY <3>1 DEF Acknowledge
  <2> QED
      BY <2>2, <2>3, <2>4, <2>5, Zenon
<1>17. PICK cell \in acked' : cell.seq = (last + Len(k[last])) - 1
    BY <1>16
<1>18. cell.seq < Mark(acked') /\ Mark(acked') \in Nat
    BY <1>14, MarkFacts
<1>19. Mark(acked') = last + Len(k[last])
  <2>1. last \in Nat /\ Len(k[last]) \in Nat
    <3>1. last \in Names
        BY <1>7
    <3>2. k[last] \in Seq(Cell)
        BY <3>1 DEF Ledgers
    <3> QED
        BY <3>1, <3>2, CellFacts
  <2>2. PICK m \in Nat, n \in Nat : m = Mark(acked') /\ n = last + Len(k[last])
      BY <1>18, <2>1
  <2>3. m <= n
      BY <1>15, <2>2, Zenon
  <2>4. cell.seq = n - 1
      BY <1>17, <2>2, Zenon
  <2>5. n - 1 < m
      BY <1>18, <2>2, <2>4, Zenon
  <2>6. m = n
      BY <2>3, <2>5
  <2> QED
      BY <2>2, <2>6, Zenon
<1> QED
    BY <1>1, <1>13, <1>19

(* A reader of the empty disk finds nothing.                               *)
LEMMA InitHistory == Init => Abstract!Init
<1> SUFFICES ASSUME Init PROVE Readable = <<>> /\ Kept = 0
    BY DEF Abstract!Init
<1>1. live \in Ledgers /\ \A s \in Names : live[s] = <<>>
    BY CellFacts DEF Init, NoWave, Ledgers
<1>2. PICK g : Texts(live, g)
    BY <1>1, TextsExist
<1>3. \A n \in 0 .. MaxSeq + 1 : \A i \in 1 .. Len(g[n]) : FALSE
  <2>1. PICK e \in Ledgers : e = live
      BY <1>1
  <2>2. Fits(e, e) /\ Texts(e, g)
    <3>1. Fits(e, e)
        BY <1>1, <2>1, EmptyFits DEF Fits
    <3> QED
        BY <1>2, <2>1, <3>1, Zenon
  <2>3. ASSUME NEW n \in 0 .. MaxSeq + 1, NEW i \in 1 .. Len(g[n]) PROVE FALSE
    <3>1. PICK s \in Names : \E j \in 1 .. Len(e[s]) : g[n][i] = e[s][j]
        BY <2>2, <2>3, TextCells
    <3>2. e[s] = <<>>
        BY <1>1, <2>1
    <3> QED
        BY <3>1, <3>2
  <2> QED
      BY <2>3
<1>4. Read(live) \in Seq(Hash) /\ Len(Read(live)) \in 0 .. Len(g[MaxSeq + 1])
    BY <1>1, <1>2, ReadFacts
<1>5. MaxSeq + 1 \in 0 .. MaxSeq + 1
    BY BoundsAssumption
<1>6. PICK z \in Seq(Hash) : z = Read(live)
    BY <1>4
<1>7. Len(z) = 0
  <2>1. Len(z) \in Nat /\ Len(z) \in 0 .. Len(g[MaxSeq + 1])
      BY <1>4, <1>6
  <2>2. ~(1 \in 1 .. Len(g[MaxSeq + 1]))
      BY <1>3, <1>5
  <2>3. Len(g[MaxSeq + 1]) \in Nat
      BY <1>2, <1>5 DEF Texts
  <2> QED
      BY <2>1, <2>2, <2>3
<1>8. z = <<>>
    BY <1>6, <1>7
<1> QED
    BY <1>6, <1>8 DEF Init, Readable, Kept

(* Two readings of one chain: one is a beginning of the other.             *)
LEMMA ReadsMove ==
    ASSUME NEW r \in Seq(Hash), NEW q \in Seq(Hash), NEW m,
           \A i \in 1 .. Len(r) : i <= Len(q) => r[i] = q[i], m <= Len(q)
    PROVE  \/ r = q \/ IsStrictPrefix(r, q) \/ (IsStrictPrefix(q, r) /\ m <= Len(q))
<1>1. PICK a \in Nat, b \in Nat : a = Len(r) /\ b = Len(q)
    OBVIOUS
<1>2. CASE a <= b
  <2>1. IsPrefix(r, q)
      BY <1>1, <1>2, ShorterIsPrefix
  <2> QED
      BY <2>1 DEF IsStrictPrefix
<1>3. CASE b <= a
  <2>1. \A i \in 1 .. Len(q) : i <= Len(r) => q[i] = r[i]
      BY <1>1, <1>3
  <2>2. IsPrefix(q, r)
      BY <1>1, <1>3, <2>1, ShorterIsPrefix
  <2> QED
      BY <2>2 DEF IsStrictPrefix
<1> QED
    BY <1>1, <1>2, <1>3

(* Every step is a step of the history, or none.                           *)
LEMMA StepHistory ==
    ASSUME ~LazyDir, EInv, Clean, TypeOK', KeptReadable', [Next]_vars
    PROVE  [Abstract!Next]_<<Readable, Kept>>
<1>1. TypeOK /\ live \in Ledgers /\ live' \in Ledgers
  <2>1. TypeOK
      BY DEF EInv, DInv, IInv
  <2>2. live' \in Ledgers
      BY DEF TypeOK, Ledgers, Names, Cell, Hash
  <2> QED
      BY <2>1, <2>2 DEF TypeOK, Ledgers
<1>2. PICK h \in Ledgers : Telling(h)
    BY DEF EInv
<1>3. Readable = Read(live) /\ Readable' = Read(live')
    BY DEF Readable, Read, RawLines, Complete, Hashes
<1>4. Kept = Mark(acked) /\ Kept' = Mark(acked')
    BY Zenon DEF Kept, Mark
<1>5. CASE Acknowledge
  <2>1. live' = live /\ Mark(acked') = Len(Read(live))
      BY <1>1, <1>2, <1>5, AcknowledgeReads DEF Telling
  <2>2. Readable' = Readable /\ Kept' = Len(Readable)
      BY <1>3, <1>4, <2>1, Zenon
  <2> QED
      BY <2>2 DEF Abstract!Next, Abstract!Acknowledge
<1>6. CASE acked' = acked
  <2>1. Kept' = Kept
      BY <1>4, <1>6, Zenon
  <2>2. CASE live' = live
    <3>1. Readable' = Readable
        BY <1>3, <2>2, Zenon
    <3> QED
        BY <2>1, <3>1
  <2>3. CASE \E L \in Ledgers : Chained(L) /\ Fits(live, L) /\ Fits(live', L)
    <3>1. PICK L \in Ledgers : Chained(L) /\ Fits(live, L) /\ Fits(live', L)
        BY <2>3
    <3>2. PICK f \in Ledgers, m \in Ledgers : f = live /\ m = live'
        BY <1>1
    <3>3. /\ Read(f) \in Seq(Hash) /\ Read(m) \in Seq(Hash)
          /\ \A i \in 1 .. Len(Read(f)) : i <= Len(Read(m)) => Read(f)[i] = Read(m)[i]
        BY <3>1, <3>2, ReadsAgree
    <3>4. Readable = Read(f) /\ Readable' = Read(m) /\ Kept <= Len(Read(m))
        BY <1>3, <2>1, <3>2, Zenon DEF KeptReadable
    <3>5. PICK r \in Seq(Hash), q \in Seq(Hash) : r = Read(f) /\ q = Read(m)
        BY <3>3
    <3>6. \/ r = q \/ IsStrictPrefix(r, q) \/ (IsStrictPrefix(q, r) /\ Kept <= Len(q))
        BY <3>3, <3>4, <3>5, ReadsMove
    <3>7. Readable = r /\ Readable' = q
        BY <3>4, <3>5, Zenon
    <3> QED
        BY <2>1, <3>6, <3>7, Zenon
           DEF Abstract!Next, Abstract!Land, Abstract!Forget, Abstract!IsStrictPrefix,
               Abstract!IsPrefix, IsStrictPrefix, IsPrefix
  <2> QED
      BY <1>1, <1>2, <2>2, <2>3, StepFits
<1> QED
    BY <1>5, <1>6, AckedSteps

(* The file-level Ledger is one growing history to whoever reads its       *)
(* files: a step of any kind, a failed append, an unwind, a repair or a    *)
(* power cut among them, adds lines nobody was told of at the end or takes *)
(* such lines away, and append_all answers Ok exactly for what a reader    *)
(* then finds.  On a disk whose directory changes are durable only by      *)
(* sync_dir, removals aside (FaultFs), for as long as no handle has gone   *)
(* away with a failed wave on the disk (barrier.rs, land and restore).     *)
THEOREM LedgerIsHistory ==
    ASSUME ~LazyDir PROVE Spec /\ []Clean => ImplementsLedger
<1>1. Init => Abstract!Init
    BY InitHistory
<1>2. EInv /\ Clean => KeptReadable
    BY EInvReadable
<1>3. EInv => TypeOK
    BY DEF EInv, DInv, IInv
<1>4. EInv /\ Clean /\ TypeOK' /\ KeptReadable' /\ [Next]_vars
        => [Abstract!Next]_<<Readable, Kept>>
    BY StepHistory
<1>5. Spec => []EInv
    BY EInvHolds
<1> QED
    BY <1>1, <1>2, <1>3, <1>4, <1>5, PTL DEF Spec, ImplementsLedger, Abstract!Spec
=============================================================================
