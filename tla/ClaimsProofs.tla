---------------------------- MODULE ClaimsProofs ----------------------------
(***************************************************************************)
(* Proofs about Claims, for any runs, plan and bounds.                     *)
(***************************************************************************)
EXTENDS Claims, WellFoundedInduction, TLAPS

-----------------------------------------------------------------------------
(* Extrema of sets of naturals.                                            *)

(* A nonempty set of naturals has a smallest element, and Min is it.       *)
LEMMA MinProperties ==
    ASSUME NEW S \in SUBSET Nat, S # {}
    PROVE  Min(S) \in S /\ \A t \in S : Min(S) <= t
<1> DEFINE R == OpToRel(<, Nat)
<1>1. R = {ss \in Nat \X Nat : ss[1] < ss[2]} BY Zenon DEF OpToRel
<1>2. IsWellFoundedOn(R, Nat) BY NatLessThanWellFounded, Zenon
<1> HIDE DEF R
<1>3. \E x \in S : \A y \in S : ~(<<y, x>> \in R) BY <1>2, WFMin
<1>4. \A x, y \in Nat : y < x => <<y, x>> \in R BY <1>1, Zenon
<1>5. PICK x \in S : \A y \in S : ~(<<y, x>> \in R) BY <1>3
<1>6. \A y \in S : ~(y < x) BY <1>4, <1>5
<1>7. \A y \in S : x <= y BY <1>6
<1>8. QED BY <1>7 DEF Min

(* A nonempty bounded set of naturals has a largest element, and Max is    *)
(* it: it lies as far below the bound as the least of the distances to it. *)
LEMMA MaxProperties ==
    ASSUME NEW S \in SUBSET Nat, S # {}, NEW b \in Nat, \A t \in S : t <= b
    PROVE  Max(S) \in S /\ \A t \in S : t <= Max(S)
<1> DEFINE D == {b - t : t \in S}
<1>a. \A t \in S : b - t \in Nat OBVIOUS
<1>1. D \in SUBSET Nat /\ D # {} BY <1>a, Zenon
<1>2. Min(D) \in D /\ \A d \in D : Min(D) <= d BY <1>1, MinProperties
<1>3. PICK t \in S : Min(D) = b - t BY <1>2
<1>4. \A u \in S : b - t <= b - u BY <1>2, <1>3
<1>5. \A u \in S : t >= u BY <1>4
<1>6. QED BY <1>5 DEF Max

-----------------------------------------------------------------------------
(* What effects do to a text of the plan.                                  *)

Texts == [Nodes -> Status]
Touches(e, n) == Moves(e, n) \/ Draws(e, n)
Leaves(e, n) == IF Draws(e, n) THEN "NotStarted" ELSE StatusAfter(e.kind)

(* An effect that touches a row leaves it in the plan.                     *)
LEMMA LeavesType ==
    ASSUME NEW e \in Effect, NEW n \in Nodes, Touches(e, n)
    PROVE  Leaves(e, n) \in Status \ {"Absent"}
BY DEF Leaves, Touches, Moves, Draws, Effect, Closings, Stops, Status, StatusAfter

(* The newest effect on a row decides it.                                  *)
LEMMA AppliedNewest ==
    ASSUME NEW text, NEW e \in Seq(Effect), NEW n \in Nodes, NEW i \in DOMAIN e,
           Touches(e[i], n), \A j \in DOMAIN e : j > i => ~Touches(e[j], n)
    PROVE  Applied(text, e)[n] = Leaves(e[i], n)
<1> DEFINE S == {j \in DOMAIN e : Moves(e[j], n) \/ Draws(e[j], n)}
<1>1. DOMAIN e \subseteq Nat OBVIOUS
<1>2. i \in S /\ S \subseteq Nat /\ \A j \in S : i >= j BY <1>1 DEF Touches
<1>3. S # {} /\ Max(S) = i
    <2>1. \A x \in S : (\A y \in S : x >= y) => x = i BY <1>2
    <2>2. QED BY <1>2, <2>1 DEF Max
<1>4. Applied(text, e)[n] = IF S = {} THEN text[n]
                            ELSE IF Draws(e[Max(S)], n) THEN "NotStarted"
                                 ELSE StatusAfter(e[Max(S)].kind)
    BY DEF Applied
<1>5. QED BY <1>3, <1>4 DEF Leaves

(* A row no effect touches stays as it is.                                 *)
LEMMA AppliedUntouched ==
    ASSUME NEW text, NEW e, NEW n \in Nodes, \A j \in DOMAIN e : ~Touches(e[j], n)
    PROVE  Applied(text, e)[n] = text[n]
BY DEF Applied, Touches

(* Of the effects with a given property one is the first and one the last. *)
LEMMA FirstAndLast ==
    ASSUME NEW e \in Seq(Effect), NEW S \in SUBSET DOMAIN e, S # {}
    PROVE  /\ \E i \in S : \A j \in S : i <= j
           /\ \E i \in S : \A j \in S : j <= i
<1>1. S \in SUBSET Nat /\ Len(e) \in Nat /\ \A t \in S : t <= Len(e) OBVIOUS
<1>2. Min(S) \in S /\ \A j \in S : Min(S) <= j BY <1>1, MinProperties
<1>3. Max(S) \in S /\ \A j \in S : j <= Max(S) BY <1>1, MaxProperties
<1>4. QED BY <1>2, <1>3

(* ClaimEffect::apply gives a text, with every touched row in it.          *)
LEMMA AppliedType ==
    ASSUME NEW text \in Texts, NEW e \in Seq(Effect)
    PROVE  /\ Applied(text, e) \in Texts
           /\ \A n \in Nodes : text[n] # "Absent" => Applied(text, e)[n] # "Absent"
<1>1. ASSUME NEW n \in Nodes
      PROVE  /\ Applied(text, e)[n] \in Status
             /\ text[n] # "Absent" => Applied(text, e)[n] # "Absent"
    <2> DEFINE S == {j \in DOMAIN e : Touches(e[j], n)}
    <2>1. CASE S = {}
        <3>1. Applied(text, e)[n] = text[n] BY <2>1, AppliedUntouched
        <3>2. QED BY <3>1 DEF Texts
    <2>2. CASE S # {}
        <3>1. PICK i \in S : \A j \in S : j <= i BY <2>2, FirstAndLast
        <3>2. \A j \in DOMAIN e : j > i => ~Touches(e[j], n)
            <4>1. DOMAIN e \subseteq Nat OBVIOUS
            <4>2. QED BY <3>1, <4>1
        <3>3. Applied(text, e)[n] = Leaves(e[i], n) BY <3>1, <3>2, AppliedNewest
        <3>4. e[i] \in Effect /\ Touches(e[i], n) OBVIOUS
        <3>5. QED BY <3>3, <3>4, LeavesType
    <2>3. QED BY <2>1, <2>2
<1>2. Applied(text, e) = [n \in Nodes |-> Applied(text, e)[n]] BY DEF Applied
<1>3. QED BY <1>1, <1>2 DEF Texts

(* A single effect, as the desk takes it into its copy.                    *)
LEMMA AppliedOne ==
    ASSUME NEW text \in Texts, NEW x \in Effect
    PROVE  /\ Applied(text, <<x>>) \in Texts
           /\ \A n \in Nodes :
                Applied(text, <<x>>)[n] = IF Touches(x, n) THEN Leaves(x, n) ELSE text[n]
<1>1. <<x>> \in Seq(Effect) /\ DOMAIN <<x>> = {1} /\ <<x>>[1] = x OBVIOUS
<1>2. Applied(text, <<x>>) \in Texts BY <1>1, AppliedType
<1>3. ASSUME NEW n \in Nodes
      PROVE  Applied(text, <<x>>)[n] = IF Touches(x, n) THEN Leaves(x, n) ELSE text[n]
    <2>1. PICK e \in Seq(Effect) : e = <<x>> /\ DOMAIN e = {1} /\ e[1] = x BY <1>1
    <2>2. CASE Touches(x, n)
        <3>1. Touches(e[1], n) /\ 1 \in DOMAIN e BY <2>1, <2>2
        <3>2. \A j \in DOMAIN e : j > 1 => ~Touches(e[j], n) BY <2>1
        <3>3. Applied(text, e)[n] = Leaves(e[1], n) BY <3>1, <3>2, AppliedNewest
        <3>4. QED BY <2>1, <2>2, <3>3
    <2>3. CASE ~Touches(x, n)
        <3>1. \A j \in DOMAIN e : ~Touches(e[j], n) BY <2>1, <2>3
        <3>2. QED BY <2>1, <2>3, <3>1, AppliedUntouched
    <2>4. QED BY <2>2, <2>3
<1>4. QED BY <1>2, <1>3

-----------------------------------------------------------------------------
(* The effects a desk makes, in order.                                     *)

(* Every end of a node follows the claim it ends, with nothing else said   *)
(* of the node between; a split is the last word on its node and comes     *)
(* before any word on its children.                                        *)
Told(e) ==
    \A i \in DOMAIN e :
        /\ e[i].kind # "Claimed" =>
            \E j \in DOMAIN e : /\ j < i /\ e[j].kind = "Claimed" /\ e[j].node = e[i].node
                                /\ \A l \in DOMAIN e : j < l /\ l < i => e[l].node # e[i].node
        /\ e[i].kind = "Split" =>
            \A l \in DOMAIN e : /\ l > i => e[l].node # e[i].node
                                /\ e[l].node \in Kids[e[i].node] => l > i

(* Every claim but one of the node in hand has been answered for.          *)
Ends(e, held) ==
    \A i \in DOMAIN e : e[i].kind = "Claimed" /\ e[i].node # held =>
        \E j \in DOMAIN e : j > i /\ e[j].node = e[i].node

(* The copy of the plan shows every node the effects are about, and the    *)
(* children of those that were split.                                      *)
Shown(e, text) ==
    \A i \in DOMAIN e :
        /\ text[e[i].node] # "Absent"
        /\ e[i].kind = "Split" => \E k \in Kids[e[i].node] : text[k] # "Absent"

(* A node in hand is a leaf of the copy, and its claim the last word on it. *)
InHand(e, held, text) ==
    held # NoNode =>
        /\ \A k \in Kids[held] : text[k] = "Absent"
        /\ \E j \in DOMAIN e : /\ e[j].kind = "Claimed" /\ e[j].node = held
                               /\ \A l \in DOMAIN e : l > j => e[l].node # held

Sound(e, held, text) ==
    Told(e) /\ Ends(e, held) /\ Shown(e, text) /\ InHand(e, held, text)

(* A list of effects and one more.                                         *)
LEMMA OneMore ==
    ASSUME NEW e \in Seq(Effect), NEW x \in Effect
    PROVE  \E g \in Seq(Effect), m \in Nat :
                /\ g = Append(e, x) /\ m >= 1 /\ g[m] = x /\ DOMAIN g = 1 .. m
                /\ DOMAIN e = 1 .. m - 1 /\ \A i \in 1 .. m - 1 : g[i] = e[i]
<1>1. Len(e) + 1 \in Nat /\ Len(e) + 1 - 1 = Len(e) /\ Len(e) + 1 >= 1 OBVIOUS
<1>2. /\ Append(e, x)[Len(e) + 1] = x /\ DOMAIN Append(e, x) = 1 .. Len(e) + 1
      /\ DOMAIN e = 1 .. Len(e) /\ Append(e, x) \in Seq(Effect)
      /\ \A i \in 1 .. Len(e) : Append(e, x)[i] = e[i]
    OBVIOUS
<1>3. PICK m \in Nat : m = Len(e) + 1 /\ m - 1 = Len(e) /\ m >= 1 BY <1>1
<1>4. PICK g \in Seq(Effect) : g = Append(e, x) BY <1>2
<1>5. g[m] = x /\ DOMAIN g = 1 .. m /\ DOMAIN e = 1 .. m - 1 /\ \A i \in 1 .. m - 1 : g[i] = e[i]
    BY <1>2, <1>3, <1>4
<1>6. QED BY <1>3, <1>4, <1>5

(* A new desk has said nothing.                                            *)
LEMMA SoundEmpty ==
    ASSUME NEW text
    PROVE  Sound(<<>>, NoNode, text)
BY DEF Sound, Told, Ends, Shown, InHand

(* ClaimDesk::claim on a node the copy shows ready: it is in hand.         *)
LEMMA SoundClaim ==
    ASSUME NEW text \in Texts, NEW e \in Seq(Effect), Sound(e, NoNode, text),
           NEW n \in Nodes, ReadyIn(text, n), NEW x, x = [kind |-> "Claimed", node |-> n]
    PROVE  Sound(Append(e, x), n, Applied(text, <<x>>))
<1>0. x \in Effect /\ x.kind = "Claimed" /\ x.node = n BY DEF Effect
<1>1. PICK g \in Seq(Effect), m \in Nat :
        /\ g = Append(e, x) /\ m >= 1 /\ g[m] = x /\ DOMAIN g = 1 .. m
        /\ DOMAIN e = 1 .. m - 1 /\ \A i \in 1 .. m - 1 : g[i] = e[i]
    BY <1>0, OneMore
<1>2. PICK t \in Texts : t = Applied(text, <<x>>)
                         /\ \A k \in Nodes : t[k] = IF k = n THEN "InProgress" ELSE text[k]
    <2>1. \A k \in Nodes : Touches(x, k) <=> k = n BY <1>0 DEF Touches, Moves, Draws
    <2>2. \A k \in Nodes : k = n => Leaves(x, k) = "InProgress"
        BY <1>0 DEF Leaves, Draws, StatusAfter
    <2>3. QED BY <1>0, <2>1, <2>2, AppliedOne
<1>3. text[n] = "NotStarted" /\ \A k \in Kids[n] : text[k] = "Absent" BY DEF ReadyIn
<1>4. Kids \in [Nodes -> SUBSET Nodes] /\ NoNode \notin Nodes BY ClaimsAssumption
<1>5. \A i \in DOMAIN e : e[i].node \in Nodes
    <2>1. \A i \in DOMAIN e : e[i] \in Effect OBVIOUS
    <2>2. QED BY <2>1 DEF Effect
<1>6. m \in DOMAIN g /\ \A i \in DOMAIN g : i = m \/ (i \in DOMAIN e /\ i < m)
    BY <1>1
<1>7. \A i \in DOMAIN e : i \in DOMAIN g /\ i < m /\ g[i] = e[i] BY <1>1
<1>8. \A i \in DOMAIN e : e[i].kind = "Split" => e[i].node # n
    BY <1>3 DEF Sound, Shown
<1>9. ~(\E i \in DOMAIN g : i > m) BY <1>1
<1>10. Told(g)
    <2>1. ASSUME NEW i \in DOMAIN g, g[i].kind # "Claimed"
          PROVE  \E j \in DOMAIN g :
                    /\ j < i /\ g[j].kind = "Claimed" /\ g[j].node = g[i].node
                    /\ \A l \in DOMAIN g : j < l /\ l < i => g[l].node # g[i].node
        <3>1. i \in DOMAIN e BY <1>0, <1>1, <1>6, <2>1
        <3>2. PICK j \in DOMAIN e :
                /\ j < i /\ e[j].kind = "Claimed" /\ e[j].node = e[i].node
                /\ \A l \in DOMAIN e : j < l /\ l < i => e[l].node # e[i].node
            BY <1>7, <2>1, <3>1 DEF Sound, Told
        <3>3. \A l \in DOMAIN g : l < i => l \in DOMAIN e BY <1>1, <3>1
        <3>4. QED BY <1>7, <3>1, <3>2, <3>3
    <2>2. ASSUME NEW i \in DOMAIN g, g[i].kind = "Split", NEW l \in DOMAIN g
          PROVE  /\ l > i => g[l].node # g[i].node
                 /\ g[l].node \in Kids[g[i].node] => l > i
        <3>1. i \in DOMAIN e /\ g[i] = e[i] /\ i < m BY <1>0, <1>1, <1>6, <1>7, <2>2
        <3>2. CASE l = m BY <1>0, <1>1, <1>8, <2>2, <3>1, <3>2
        <3>3. CASE l \in DOMAIN e BY <1>7, <2>2, <3>1, <3>3 DEF Sound, Told
        <3>4. QED BY <1>6, <3>2, <3>3
    <2>3. QED BY <2>1, <2>2 DEF Told
<1>11. Ends(g, n)
    <2>1. ASSUME NEW i \in DOMAIN g, g[i].kind = "Claimed", g[i].node # n
          PROVE  \E j \in DOMAIN g : j > i /\ g[j].node = g[i].node
        <3>1. i \in DOMAIN e /\ g[i] = e[i] /\ e[i].node # NoNode
            BY <1>0, <1>1, <1>4, <1>5, <1>6, <1>7, <2>1
        <3>2. PICK j \in DOMAIN e : j > i /\ e[j].node = e[i].node
            BY <2>1, <3>1 DEF Sound, Ends
        <3>3. QED BY <1>7, <3>1, <3>2
    <2>2. QED BY <2>1 DEF Ends
<1>12. Shown(g, t)
    <2>1. \A k \in Nodes : text[k] # "Absent" => t[k] # "Absent" BY <1>2
    <2>2. t[n] # "Absent" BY <1>2
    <2>3. ASSUME NEW i \in DOMAIN g
          PROVE  /\ t[g[i].node] # "Absent"
                 /\ g[i].kind = "Split" => \E k \in Kids[g[i].node] : t[k] # "Absent"
        <3>1. CASE i = m BY <1>0, <1>1, <2>2, <3>1
        <3>2. CASE i \in DOMAIN e
            <4>1. text[e[i].node] # "Absent"
                  /\ (e[i].kind = "Split" => \E k \in Kids[e[i].node] : text[k] # "Absent")
                BY <3>2 DEF Sound, Shown
            <4>2. QED BY <1>4, <1>5, <1>7, <2>1, <3>2, <4>1
        <3>3. QED BY <1>6, <3>1, <3>2
    <2>4. QED BY <2>3 DEF Shown
<1>13. InHand(g, n, t)
    <2>1. \A k \in Kids[n] : t[k] = "Absent" BY <1>2, <1>3, <1>4
    <2>2. QED BY <1>0, <1>1, <1>6, <1>9, <2>1 DEF InHand
<1>14. QED BY <1>1, <1>2, <1>10, <1>11, <1>12, <1>13 DEF Sound

(* ClaimDesk::finish, put_down, split and abandon: the node in hand is     *)
(* answered for, and a split draws children the copy did not have.         *)
LEMMA SoundEnd ==
    ASSUME NEW text \in Texts, NEW e \in Seq(Effect), NEW n \in Nodes, Sound(e, n, text),
           NEW kind \in Closings, kind = "Split" => Kids[n] # {},
           NEW x, x = [kind |-> kind, node |-> n]
    PROVE  Sound(Append(e, x), NoNode, Applied(text, <<x>>))
<1>0. x \in Effect /\ x.kind = kind /\ x.node = n /\ kind # "Claimed"
    BY DEF Effect, Closings, Stops
<1>1. PICK g \in Seq(Effect), m \in Nat :
        /\ g = Append(e, x) /\ m >= 1 /\ g[m] = x /\ DOMAIN g = 1 .. m
        /\ DOMAIN e = 1 .. m - 1 /\ \A i \in 1 .. m - 1 : g[i] = e[i]
    BY <1>0, OneMore
<1>2. PICK t \in Texts :
        /\ t = Applied(text, <<x>>)
        /\ \A k \in Nodes : text[k] # "Absent" => t[k] # "Absent"
        /\ kind = "Split" => \A k \in Kids[n] : t[k] # "Absent"
    <2>1. /\ Applied(text, <<x>>) \in Texts
          /\ \A k \in Nodes : Applied(text, <<x>>)[k] =
                                IF Touches(x, k) THEN Leaves(x, k) ELSE text[k]
        BY <1>0, AppliedOne
    <2>2. \A k \in Nodes : Touches(x, k) => Leaves(x, k) # "Absent" BY <1>0, LeavesType
    <2>3. kind = "Split" => \A k \in Kids[n] : k \in Nodes /\ Touches(x, k)
        BY <1>0, ClaimsAssumption DEF Touches, Draws
    <2>4. QED BY <2>1, <2>2, <2>3
<1>4. Kids \in [Nodes -> SUBSET Nodes] /\ NoNode \notin Nodes BY ClaimsAssumption
<1>3. /\ \A k \in Kids[n] : text[k] = "Absent"
      /\ \E j \in DOMAIN e : /\ e[j].kind = "Claimed" /\ e[j].node = n
                             /\ \A l \in DOMAIN e : l > j => e[l].node # n
    BY <1>4 DEF Sound, InHand
<1>5. \A i \in DOMAIN e : e[i].node \in Nodes
    <2>1. \A i \in DOMAIN e : e[i] \in Effect OBVIOUS
    <2>2. QED BY <2>1 DEF Effect
<1>6. m \in DOMAIN g /\ \A i \in DOMAIN g : i = m \/ (i \in DOMAIN e /\ i < m)
    BY <1>1
<1>7. \A i \in DOMAIN e : i \in DOMAIN g /\ i < m /\ m > i /\ g[i] = e[i] BY <1>1
<1>8. \A i \in DOMAIN e : e[i].kind = "Split" => e[i].node # n
    BY <1>3 DEF Sound, Shown
<1>9. \A i \in DOMAIN g : ~(i > m) BY <1>1
<1>a. \A i \in DOMAIN e : text[e[i].node] # "Absent" BY DEF Sound, Shown
<1>b. \A i \in DOMAIN g : g[i].node \notin Kids[n]
    <2>1. text[n] # "Absent" BY <1>3, <1>a
    <2>2. QED BY <1>0, <1>1, <1>3, <1>6, <1>7, <1>a, <2>1
<1>10. Told(g)
    <2>1. ASSUME NEW i \in DOMAIN g, g[i].kind # "Claimed"
          PROVE  \E j \in DOMAIN g :
                    /\ j < i /\ g[j].kind = "Claimed" /\ g[j].node = g[i].node
                    /\ \A l \in DOMAIN g : j < l /\ l < i => g[l].node # g[i].node
        <3>a. CASE i = m
            <4>1. PICK j \in DOMAIN e : /\ e[j].kind = "Claimed" /\ e[j].node = n
                                        /\ \A l \in DOMAIN e : l > j => e[l].node # n
                BY <1>3
            <4>2. \A l \in DOMAIN g : j < l /\ l < m => l \in DOMAIN e /\ l > j BY <1>1
            <4>3. QED BY <1>0, <1>1, <1>7, <3>a, <4>1, <4>2
        <3>b. CASE i \in DOMAIN e
            <4>2. PICK j \in DOMAIN e :
                    /\ j < i /\ e[j].kind = "Claimed" /\ e[j].node = e[i].node
                    /\ \A l \in DOMAIN e : j < l /\ l < i => e[l].node # e[i].node
                BY <1>7, <2>1, <3>b DEF Sound, Told
            <4>3. \A l \in DOMAIN g : l < i => l \in DOMAIN e BY <1>1, <3>b
            <4>4. QED BY <1>7, <3>b, <4>2, <4>3
        <3>c. QED BY <1>6, <3>a, <3>b
    <2>2. ASSUME NEW i \in DOMAIN g, g[i].kind = "Split", NEW l \in DOMAIN g
          PROVE  /\ l > i => g[l].node # g[i].node
                 /\ g[l].node \in Kids[g[i].node] => l > i
        <3>1. CASE i = m BY <1>0, <1>1, <1>9, <1>b, <3>1
        <3>2. CASE i \in DOMAIN e /\ l = m BY <1>0, <1>1, <1>7, <1>8, <2>2, <3>2
        <3>3. CASE i \in DOMAIN e /\ l \in DOMAIN e BY <1>7, <2>2, <3>3 DEF Sound, Told
        <3>4. QED BY <1>6, <3>1, <3>2, <3>3
    <2>3. QED BY <2>1, <2>2 DEF Told
<1>11. Ends(g, NoNode)
    <2>1. ASSUME NEW i \in DOMAIN g, g[i].kind = "Claimed"
          PROVE  \E j \in DOMAIN g : j > i /\ g[j].node = g[i].node
        <3>1. i \in DOMAIN e /\ g[i] = e[i] BY <1>0, <1>1, <1>6, <1>7, <2>1
        <3>2. CASE e[i].node = n BY <1>0, <1>1, <1>6, <1>7, <3>1, <3>2
        <3>3. CASE e[i].node # n
            <4>1. PICK j \in DOMAIN e : j > i /\ e[j].node = e[i].node
                BY <2>1, <3>1, <3>3 DEF Sound, Ends
            <4>2. QED BY <1>7, <3>1, <4>1
        <3>4. QED BY <3>2, <3>3
    <2>2. QED BY <2>1 DEF Ends
<1>12. Shown(g, t)
    <2>1. text[n] # "Absent" BY <1>3, <1>a
    <2>2. t[n] # "Absent" BY <1>2, <2>1
    <2>3. ASSUME NEW i \in DOMAIN g
          PROVE  /\ t[g[i].node] # "Absent"
                 /\ g[i].kind = "Split" => \E k \in Kids[g[i].node] : t[k] # "Absent"
        <3>1. CASE i = m BY <1>0, <1>1, <1>2, <2>2, <3>1
        <3>2. CASE i \in DOMAIN e
            <4>1. text[e[i].node] # "Absent"
                  /\ (e[i].kind = "Split" => \E k \in Kids[e[i].node] : text[k] # "Absent")
                BY <3>2 DEF Sound, Shown
            <4>2. QED BY <1>2, <1>4, <1>5, <1>7, <3>2, <4>1
        <3>3. QED BY <1>6, <3>1, <3>2
    <2>4. QED BY <2>3 DEF Shown
<1>13. InHand(g, NoNode, t) BY DEF InHand
<1>14. QED BY <1>1, <1>2, <1>10, <1>11, <1>12, <1>13 DEF Sound

(* A landing moves no row but one it found not started, or drew itself:    *)
(* the first effect on a row is its claim, and Claims::of has looked.      *)
LEMMA FirstTouch ==
    ASSUME NEW text, NEW e \in Seq(Effect), Told(e), StillTrue(text, e), NEW n \in Nodes,
           NEW i \in DOMAIN e, Touches(e[i], n)
    PROVE  \/ text[n] = "NotStarted"
           \/ \E j \in DOMAIN e : e[j].kind = "Split" /\ n \in Kids[e[j].node]
<1> DEFINE S == {j \in DOMAIN e : Touches(e[j], n)}
<1>1. PICK f \in S : \A j \in S : f <= j BY FirstAndLast
<1>2. CASE Draws(e[f], n) BY <1>2 DEF Draws
<1>3. CASE Moves(e[f], n)
    <2>0. DOMAIN e = 1 .. Len(e) /\ Len(e) \in Nat /\ f \in 1 .. Len(e) OBVIOUS
    <2>1. e[f].kind = "Claimed"
        <3>1. SUFFICES ASSUME e[f].kind # "Claimed" PROVE FALSE OBVIOUS
        <3>2. PICK j \in DOMAIN e : j < f /\ e[j].kind = "Claimed" /\ e[j].node = e[f].node
            BY <3>1 DEF Told
        <3>3. j \in S BY <1>3, <3>2 DEF Touches, Moves
        <3>4. QED BY <1>1, <2>0, <3>2, <3>3
    <2>2. e[f].node = n BY <1>3 DEF Moves
    <2>3. Applied(text, SubSeq(e, 1, f - 1))[n] = "NotStarted" BY <2>1, <2>2 DEF StillTrue
    <2>4. \A j \in DOMAIN SubSeq(e, 1, f - 1) : ~Touches(SubSeq(e, 1, f - 1)[j], n)
        <3>1. DOMAIN SubSeq(e, 1, f - 1) = 1 .. f - 1
              /\ \A j \in 1 .. f - 1 : SubSeq(e, 1, f - 1)[j] = e[j]
            BY <2>0
        <3>2. ASSUME NEW j \in 1 .. f - 1 PROVE ~Touches(e[j], n)
            <4>1. j \in DOMAIN e /\ ~(f <= j) BY <2>0
            <4>2. QED BY <1>1, <4>1
        <3>3. QED BY <3>1, <3>2
    <2>5. QED BY <2>3, <2>4, AppliedUntouched
<1>4. QED BY <1>1, <1>2, <1>3 DEF Touches

-----------------------------------------------------------------------------
(* The invariant.                                                          *)

(* A desk whose model is at work, and one whose run has not landed. *)
Flying == {"driving", "asking"}
Out == Flying \cup {"home", "failed"}

(* Desks whose mark is at most b. *)
Desks(b) ==
    [at : Where, text : [Nodes -> Status], held : Nodes \cup {NoNode},
     asks : Nodes \cup {NoNode}, effects : Seq(Effect), read : 0..b]

(* The node's children are in the plan file. *)
Drawn(n) == \E k \in Kids[n] : file[k] # "Absent"

Counted == edits \in Nat /\ crashes \in Nat /\ refusals \in Nat

(* A landing has these fields. *)
Whole(l) ==
    l = [run |-> l.run, lines |-> l.lines, left |-> l.left, plan |-> l.plan, base |-> l.base,
         effects |-> l.effects, owed |-> l.owed]

LandingType ==
    ~Idle =>
        /\ Whole(landing)
        /\ landing.run \in Runs /\ landing.plan \in BOOLEAN
        /\ landing.effects \in Seq(Effect) /\ DOMAIN landing.lines \subseteq Nat
        /\ \A i \in DOMAIN landing.lines : landing.lines[i] \in [kind : Closings, node : Nodes]

(* What a desk d of run r has said and holds is booked for r, and the      *)
(* ledger names r for the node in hand.                                    *)
Fits(r, d) ==
    /\ d.at \notin Out => d.held = NoNode /\ d.effects = <<>> /\ d.read = 0
    /\ d.at = "asking" => d.asks \in Nodes /\ d.held = NoNode /\ ReadyIn(d.text, d.asks)
    /\ Sound(d.effects, d.held, d.text)
    /\ \A i \in DOMAIN d.effects : book[d.effects[i].node] = r
    /\ d.held # NoNode => last[d.held] = [kind |-> "Claimed", run |-> r]

(* The lines of the landing that are on the ledger. *)
Written == DOMAIN landing.lines \ landing.left

(* The nodes a landing still has to write of are booked for nobody, and    *)
(* one that does not write the plan hands its nodes back.                  *)
LandingSound ==
    ~Idle =>
        /\ \A i \in landing.left :
            book[landing.lines[i].node] = NoRun /\ ~Drawn(landing.lines[i].node)
        /\ \A n \in landing.owed : book[n] = NoRun /\ ~Drawn(n)
        /\ \A i \in Written, j \in landing.left : i < j
        /\ \A i \in landing.left : ~landing.plan => landing.lines[i].kind = "Released"

(* The line is the newest the landing wrote of its node. *)
NewestWritten(i) ==
    \A j \in Written : j > i => landing.lines[j].node # landing.lines[i].node

(* A landing that is to write the plan: what it wrote of a node is the     *)
(* newest on the ledger, and a stop is past the mark of every desk.        *)
PlanSound ==
    ~Idle /\ landing.plan =>
        /\ Told(landing.effects) /\ Ends(landing.effects, NoNode)
        /\ StillTrue(landing.base, landing.effects)
        /\ landing.lines = ClosingLines(landing.effects, FALSE)
        /\ \A i \in DOMAIN landing.effects :
            book[landing.effects[i].node] = NoRun /\ ~Drawn(landing.effects[i].node)
        /\ \A i \in Written : landing.lines[i].node \notin landing.owed
        /\ \A i \in Written : NewestWritten(i) =>
            /\ last[landing.lines[i].node].kind = landing.lines[i].kind
            /\ landing.lines[i].kind \in Stops =>
                \A r \in Runs : desk[r].at \in Flying =>
                    stopped[landing.lines[i].node] > desk[r].read

(* A node is split once: nobody has it booked afterwards, and a desk whose *)
(* copy is from before the split is turned away.                           *)
DrawnOnce ==
    \A n \in Nodes : Drawn(n) =>
        /\ book[n] = NoRun
        /\ \A r \in Runs :
            desk[r].at \in Flying /\ (\A k \in Kids[n] : desk[r].text[k] = "Absent")
                => stopped[n] > desk[r].read

ReleasedIsReady == \A n \in Nodes : last[n].kind = "Released" => stopped[n] = 0

(* A claim that is open is booked for its run, or owed by its landing. *)
OpenIsOwed ==
    \A r \in Runs \ lost, n \in Nodes : r \in open[n] =>
        \/ desk[r].at \in Out /\ book[n] = r
        \/ landing.run = r /\ n \in landing.owed

(* Nobody edited the plan, nothing was refused and nothing crashed. *)
Undisturbed == counters = <<0, 0, 0>>

Ended(n) == file[n] \in {"Done", "Blocked", "InProgress"}

(* The row reads as the newest line of the node says. *)
Agrees(n) ==
    file[n] \in CASE last[n].kind \in {"none", "Claimed", "Released"} -> {"Absent", "NotStarted"}
                  [] last[n].kind = "Finished" -> {"Done"}
                  [] last[n].kind = "Blocked" -> {"Blocked"}
                  [] last[n].kind = "Split" -> {"InProgress"}

(* A row that ended stays so: nobody has it booked, no landing has a line  *)
(* of it to write, and a desk that still shows it ready is turned away.    *)
EndedOnce ==
    \A n \in Nodes : Ended(n) =>
        /\ book[n] = NoRun
        /\ \A r \in Runs : desk[r].at \in Flying /\ desk[r].text[n] = "NotStarted"
                => stopped[n] > desk[r].read
        /\ ~Idle => n \notin landing.owed /\ \A i \in landing.left : landing.lines[i].node # n

(* The file reads as the ledger, but for the lines of a landing that has   *)
(* the plan still to write.                                                *)
FileAgrees ==
    /\ ~Idle /\ landing.plan => file = landing.base
    /\ \A n \in Nodes :
        \/ Agrees(n)
        \/ ~Idle /\ landing.plan /\ \E i \in Written : landing.lines[i].node = n

Quietly == Undisturbed => EndedOnce /\ FileAgrees

CInv ==
    /\ CityTypes /\ Counted /\ LandingType
    /\ \A r \in Runs : Fits(r, desk[r])
    /\ LandingSound /\ PlanSound /\ DrawnOnce /\ ReleasedIsReady /\ OpenIsOwed
    /\ Quietly

(* Nothing has happened yet.                                               *)
LEMMA InitCInv == Init => CInv
<1>1. SUFFICES ASSUME Init PROVE CInv OBVIOUS
<1>2. /\ file = [n \in Nodes |->
                    IF \E m \in Nodes : n \in Kids[m] THEN "Absent" ELSE "NotStarted"]
      /\ last = [n \in Nodes |-> NoLine] /\ open = [n \in Nodes |-> {}]
      /\ book = [n \in Nodes |-> NoRun] /\ stopped = [n \in Nodes |-> 0] /\ stops = 0
      /\ desk = [r \in Runs |-> NewDesk] /\ landing = NoLanding /\ lost = {}
      /\ edits = 0 /\ crashes = 0 /\ refusals = 0
    BY <1>1 DEF Init
<1>3. NoRun \notin Runs /\ NoNode \notin Nodes /\ Kids \in [Nodes -> SUBSET Nodes]
    BY ClaimsAssumption
<1>4. Idle /\ \A r \in Runs : landing.run # r BY <1>2, <1>3 DEF Idle, NoLanding
<1>5. NewDesk \in Desks(0) /\ NewDesk.at = "staged" /\ NewDesk.held = NoNode
      /\ NewDesk.effects = <<>> /\ NewDesk.read = 0
    <2>1. <<>> \in Seq(Effect) /\ 0 \in 0..0 OBVIOUS
    <2>2. QED BY <2>1 DEF NewDesk, Desks, Where, Status
<1>6. CityTypes
    <2>1. file \in [Nodes -> Status] BY <1>2 DEF Status
    <2>2. last \in [Nodes -> [kind : {"none", "Claimed"} \cup Closings, run : Runs \cup {NoRun}]]
        BY <1>2 DEF NoLine
    <2>3. stops \in Nat /\ stopped \in [Nodes -> 0..stops] BY <1>2
    <2>4. desk \in [Runs -> Desks(stops)] BY <1>2, <1>5
    <2>5. QED BY <1>2, <1>4, <1>5, <2>1, <2>2, <2>3, <2>4 DEF CityTypes, Desks
<1>7. \A r \in Runs : Fits(r, desk[r])
    BY <1>2, <1>5, SoundEmpty DEF Fits, Out, Flying
<1>8. \A n \in Nodes : ~Drawn(n) BY <1>2, <1>3 DEF Drawn
<1>9. \A n \in Nodes : last[n].kind = "none" /\ ~Ended(n) /\ Agrees(n)
    BY <1>2 DEF NoLine, Ended, Agrees
<1>10. QED BY <1>2, <1>4, <1>6, <1>7, <1>8, <1>9
        DEF CInv, Counted, LandingType, LandingSound, PlanSound, DrawnOnce, ReleasedIsReady,
            OpenIsOwed, Quietly, EndedOnce, FileAgrees

-----------------------------------------------------------------------------
(* The lanes.                                                              *)

(* A step of one desk beside the ledger, the book and the file.            *)
LEMMA LaneStep ==
    ASSUME CInv, NEW r \in Runs, NEW d \in Desks(stops), desk' = [desk EXCEPT ![r] = d],
           UNCHANGED <<file, last, open, book, stopped, stops, landing, lost>>,
           Counted', Undisturbed' => Undisturbed,
           d.at \in Out, desk[r].at \in Out \cup {"staged"}, Fits(r, d),
           d.at \in Flying =>
                \/ /\ desk[r].at \in Flying /\ d.read = desk[r].read
                   /\ \A k \in Nodes : desk[r].text[k] # "Absent" => d.text[k] # "Absent"
                \/ Idle /\ d.text = file,
           Undisturbed /\ d.at \in Flying =>
                \A n \in Nodes : Ended(n) /\ d.text[n] = "NotStarted" =>
                    desk[r].at \in Flying /\ desk[r].text[n] = "NotStarted" /\ d.read = desk[r].read
    PROVE  CInv'
<1>1. desk \in [Runs -> Desks(stops)] BY DEF CInv, CityTypes, Desks
<1>2. desk' \in [Runs -> Desks(stops)] /\ desk'[r] = d /\ \A q \in Runs \ {r} : desk'[q] = desk[q]
    BY <1>1
<1>3. CityTypes'
    <2>1. d.at # "landing" /\ desk[r].at # "landing" BY DEF Out, Flying
    <2>2. \A q \in Runs : desk'[q].at = "landing" <=> landing'.run = q
        BY <1>2, <2>1 DEF CInv, CityTypes
    <2>3. desk' \in [Runs -> Desks(stops')] BY <1>2
    <2>4. QED BY <2>2, <2>3 DEF CInv, CityTypes, Desks, Idle
<1>4. LandingType' BY DEF CInv, LandingType, Idle
<1>5. \A q \in Runs : Fits(q, desk[q])'
    <2>1. \A q \in Runs : \A f : Fits(q, f) => Fits(q, f)' BY DEF Fits
    <2>2. Fits(r, d)' /\ \A q \in Runs : Fits(q, desk[q]) BY <2>1 DEF CInv
    <2>3. ASSUME NEW q \in Runs PROVE Fits(q, desk[q])'
        <3>1. CASE q = r BY <1>2, <2>2, <3>1 DEF Fits
        <3>2. CASE q # r BY <1>2, <2>2, <3>2 DEF Fits
        <3>3. QED BY <3>1, <3>2
    <2>4. QED BY <2>3
<1>6. /\ Idle' = Idle /\ Written' = Written /\ \A n : Drawn(n)' = Drawn(n)
      /\ \A n : Ended(n)' = Ended(n) /\ Agrees(n)' = Agrees(n)
      /\ \A i : NewestWritten(i)' = NewestWritten(i)
    BY DEF Idle, Written, Drawn, Ended, Agrees, NewestWritten
<1>7. LandingSound' BY <1>6 DEF CInv, LandingSound
<1>8. PlanSound'
    <2>1. ~Idle => \A q \in Runs : desk'[q].at \in Flying =>
                        desk[q].at \in Flying /\ desk'[q].read = desk[q].read
        BY <1>2
    <2>2. QED BY <1>6, <2>1 DEF CInv, PlanSound
<1>9. DrawnOnce'
    <2>1. ASSUME NEW n \in Nodes, Drawn(n), NEW q \in Runs, desk'[q].at \in Flying,
                 \A k \in Kids[n] : desk'[q].text[k] = "Absent"
          PROVE  stopped[n] > desk'[q].read
        <3>1. Kids[n] \subseteq Nodes BY ClaimsAssumption
        <3>2. CASE q # r BY <1>2, <2>1, <3>2 DEF CInv, DrawnOnce
        <3>3. CASE q = r
            <4>1. d.text # file BY <1>2, <2>1, <3>3 DEF Drawn
            <4>2. /\ desk[r].at \in Flying /\ d.read = desk[r].read
                  /\ \A k \in Nodes : desk[r].text[k] # "Absent" => d.text[k] # "Absent"
                BY <1>2, <2>1, <3>3, <4>1
            <4>3. \A k \in Kids[n] : desk[r].text[k] = "Absent" BY <1>2, <2>1, <3>1, <3>3, <4>2
            <4>4. QED BY <1>2, <2>1, <3>3, <4>2, <4>3 DEF CInv, DrawnOnce
        <3>4. QED BY <3>2, <3>3
    <2>2. \A n \in Nodes : Drawn(n) => book[n] = NoRun BY DEF CInv, DrawnOnce
    <2>3. QED BY <1>6, <2>1, <2>2 DEF DrawnOnce
<1>10. ReleasedIsReady' BY DEF CInv, ReleasedIsReady
<1>11. OpenIsOwed'
    <2>1. \A q \in Runs : desk[q].at \in Out => desk'[q].at \in Out BY <1>2
    <2>2. QED BY <2>1 DEF CInv, OpenIsOwed
<1>12. Quietly'
    <2>1. SUFFICES ASSUME Undisturbed' PROVE EndedOnce' /\ FileAgrees' BY DEF Quietly
    <2>2. Undisturbed /\ EndedOnce /\ FileAgrees BY <2>1 DEF CInv, Quietly
    <2>3. FileAgrees' BY <1>6, <2>2 DEF FileAgrees
    <2>4. ASSUME NEW n \in Nodes, Ended(n), NEW q \in Runs, desk'[q].at \in Flying,
                 desk'[q].text[n] = "NotStarted"
          PROVE  stopped[n] > desk'[q].read
        <3>1. CASE q # r BY <1>2, <2>2, <2>4, <3>1 DEF EndedOnce
        <3>2. CASE q = r
            <4>1. desk[r].at \in Flying /\ desk[r].text[n] = "NotStarted" /\ d.read = desk[r].read
                BY <1>2, <2>2, <2>4, <3>2
            <4>2. QED BY <1>2, <2>2, <2>4, <3>2, <4>1 DEF EndedOnce
        <3>3. QED BY <3>1, <3>2
    <2>5. EndedOnce' BY <1>6, <2>2, <2>4 DEF EndedOnce
    <2>6. QED BY <2>3, <2>5
<1>13. QED BY <1>3, <1>4, <1>5, <1>7, <1>8, <1>9, <1>10, <1>11, <1>12 DEF CInv

(* What is said of a desk of the city.                                     *)
LEMMA DeskFacts ==
    ASSUME CInv, NEW r \in Runs
    PROVE  /\ desk[r] \in Desks(stops) /\ desk[r].text \in Texts
           /\ desk[r].effects \in Seq(Effect) /\ Fits(r, desk[r])
           /\ desk[r].held \in Nodes \cup {NoNode} /\ desk[r].asks \in Nodes \cup {NoNode}
           /\ stops \in Nat /\ desk[r].read \in 0..stops
<1>1. desk[r] \in Desks(stops) BY DEF CInv, CityTypes, Desks
<1>2. QED BY <1>1 DEF CInv, CityTypes, Desks, Texts

(* A node a desk has said something of is booked for it, so it is neither  *)
(* drawn nor ended in the file.                                            *)
LEMMA SaidIsBooked ==
    ASSUME CInv, NEW r \in Runs, NEW n \in Nodes,
           n = desk[r].held \/ \E i \in DOMAIN desk[r].effects : desk[r].effects[i].node = n
    PROVE  book[n] = r /\ r # NoRun /\ ~Drawn(n) /\ (Undisturbed => ~Ended(n))
<1>1. NoRun \notin Runs /\ NoNode \notin Nodes BY ClaimsAssumption
<1>2. Fits(r, desk[r]) BY DEF CInv
<1>3. book[n] = r
    <2>1. CASE n = desk[r].held
        <3>1. \E j \in DOMAIN desk[r].effects : desk[r].effects[j].node = n
            BY <1>1, <1>2, <2>1 DEF Fits, Sound, InHand
        <3>2. QED BY <1>2, <3>1 DEF Fits
    <2>2. QED BY <1>2, <2>1 DEF Fits
<1>4. QED BY <1>1, <1>3 DEF CInv, DrawnOnce, Quietly, EndedOnce

(* open_desks: a desk opens on the plan file and the book's mark.          *)
LEMMA DispatchKeeps ==
    ASSUME CInv, NEW r \in Runs, Dispatch(r)
    PROVE  CInv'
<1>1. /\ Idle /\ desk[r].at = "staged"
      /\ UNCHANGED <<file, last, open, book, stopped, stops, landing, lost, counters>>
    BY DEF Dispatch
<1>2. PICK d : /\ d = [NewDesk EXCEPT !.at = "driving", !.text = file, !.read = stops]
               /\ desk' = [desk EXCEPT ![r] = d]
    BY DEF Dispatch
<1>3. /\ d.at = "driving" /\ d.text = file /\ d.held = NoNode /\ d.effects = <<>>
      /\ d.read = stops /\ d.asks = NoNode
    BY <1>2 DEF NewDesk
<1>4. d \in Desks(stops)
    <2>1. <<>> \in Seq(Effect) /\ stops \in 0..stops /\ file \in [Nodes -> Status]
        BY DEF CInv, CityTypes
    <2>2. d = [at |-> "driving", text |-> file, held |-> NoNode, asks |-> NoNode,
               effects |-> <<>>, read |-> stops]
        BY <1>2 DEF NewDesk
    <2>3. QED BY <2>1, <2>2 DEF Desks, Where
<1>5. Fits(r, d) BY <1>3, SoundEmpty DEF Fits, Out, Flying
<1>6. Counted' /\ (Undisturbed' => Undisturbed) BY <1>1 DEF CInv, Counted, counters, Undisturbed
<1>7. \A n \in Nodes : Ended(n) => d.text[n] # "NotStarted" BY <1>3 DEF Ended
<1>8. d.at \in Out /\ desk[r].at \in Out \cup {"staged"} BY <1>1, <1>3 DEF Out, Flying
<1>9. QED BY <1>1, <1>2, <1>3, <1>4, <1>5, <1>6, <1>7, <1>8, LaneStep

(* ClaimDesk::claim up to the booking, and a lane coming home.             *)
LEMMA AskKeeps ==
    ASSUME CInv, NEW r \in Runs,
           (\E n \in Nodes : Ask(r, n)) \/ (\E how \in {"home", "failed"} : ComeHome(r, how))
    PROVE  CInv'
<1>0. /\ desk[r] \in Desks(stops) /\ Fits(r, desk[r]) BY DeskFacts
<1>1. /\ desk[r].at = "driving"
      /\ UNCHANGED <<file, last, open, book, stopped, stops, landing, lost, counters>>
    BY DEF Ask, ComeHome
<1>2. PICK d \in Desks(stops) :
        /\ desk' = [desk EXCEPT ![r] = d] /\ d.at \in Out
        /\ d.text = desk[r].text /\ d.held = desk[r].held /\ d.effects = desk[r].effects
        /\ d.read = desk[r].read
        /\ d.at = "asking" => d.asks \in Nodes /\ d.held = NoNode /\ ReadyIn(d.text, d.asks)
    <2>1. CASE \E n \in Nodes : Ask(r, n)
        <3>1. PICK n \in Nodes : Ask(r, n) BY <2>1
        <3>2. PICK d : d = [desk[r] EXCEPT !.at = "asking", !.asks = n] OBVIOUS
        <3>3. desk' = [desk EXCEPT ![r] = d] BY <3>1, <3>2 DEF Ask
        <3>4. d \in Desks(stops) BY <1>0, <3>2 DEF Desks, Where
        <3>5. /\ d.at = "asking" /\ d.asks = n /\ d.text = desk[r].text
              /\ d.held = desk[r].held /\ d.effects = desk[r].effects /\ d.read = desk[r].read
            BY <1>0, <3>2 DEF Desks
        <3>6. desk[r].held = NoNode /\ ReadyIn(desk[r].text, n) BY <3>1 DEF Ask
        <3>7. QED BY <3>3, <3>4, <3>5, <3>6 DEF Out, Flying
    <2>2. CASE \E how \in {"home", "failed"} : ComeHome(r, how)
        <3>1. PICK how \in {"home", "failed"} : ComeHome(r, how) BY <2>2
        <3>2. PICK d : d = [desk[r] EXCEPT !.at = how] OBVIOUS
        <3>3. desk' = [desk EXCEPT ![r] = d] BY <3>1, <3>2 DEF ComeHome
        <3>4. d \in Desks(stops) BY <1>0, <3>2 DEF Desks, Where
        <3>5. /\ d.at = how /\ d.text = desk[r].text
              /\ d.held = desk[r].held /\ d.effects = desk[r].effects /\ d.read = desk[r].read
            BY <1>0, <3>2 DEF Desks
        <3>6. QED BY <3>3, <3>4, <3>5 DEF Out, Flying
    <2>3. QED BY <2>1, <2>2
<1>5. Fits(r, d) BY <1>0, <1>2 DEF Fits
<1>6. Counted' /\ (Undisturbed' => Undisturbed) BY <1>1 DEF CInv, Counted, counters, Undisturbed
<1>8. desk[r].at \in Flying /\ desk[r].at \in Out \cup {"staged"} BY <1>1 DEF Out, Flying
<1>9. QED BY <1>1, <1>2, <1>5, <1>6, <1>8, LaneStep

(* A desk g is desk d with effect x taken and h in hand. *)
Takes(g, d, x, h) == g = Take(d, x.kind, x.node, h)
Took(g, d, x, h) ==
    /\ g.at = d.at /\ g.read = d.read /\ g.held = h /\ g.asks = d.asks
    /\ g.effects = Append(d.effects, x) /\ g.text = Applied(d.text, <<x>>)

(* ClaimDesk::take, in the fields of the desk.                             *)
LEMMA TakeFields ==
    ASSUME NEW b \in Nat, NEW d \in Desks(b), NEW x \in Effect,
           NEW holds, holds = NoNode \/ holds \in Nodes, NEW g, Takes(g, d, x, holds)
    PROVE  g \in Desks(b) /\ Took(g, d, x, holds)
<1>1. x = [kind |-> x.kind, node |-> x.node] BY DEF Effect
<1>2. d.text \in Texts /\ d.effects \in Seq(Effect) BY DEF Desks, Texts
<1>3. PICK t \in Texts : t = Applied(d.text, <<x>>) BY <1>2, AppliedOne
<1>4. PICK e \in Seq(Effect) : e = Append(d.effects, x)
    <2>1. PICK f \in Seq(Effect) : f = d.effects BY <1>2
    <2>2. Append(f, x) \in Seq(Effect) OBVIOUS
    <2>3. QED BY <2>1, <2>2
<1>5. g = [d EXCEPT !.text = t, !.effects = e, !.held = holds]
    BY <1>1, <1>3, <1>4 DEF Takes, Take
<1>6. g \in Desks(b) /\ g.at = d.at /\ g.read = d.read /\ g.held = holds /\ g.asks = d.asks
      /\ g.effects = e /\ g.text = t
    BY <1>5 DEF Desks, Texts
<1>7. QED BY <1>3, <1>4, <1>6 DEF Took

(* ClaimDesk::finish, put_down and split.                                  *)
LEMMA LetGoKeeps ==
    ASSUME CInv, NEW r \in Runs, NEW kind \in Closings, LetGo(r, kind)
    PROVE  CInv'
<1>0. /\ desk[r] \in Desks(stops) /\ Fits(r, desk[r]) /\ desk[r].text \in Texts
      /\ desk[r].effects \in Seq(Effect) /\ stops \in Nat
      /\ desk[r].held \in Nodes \cup {NoNode}
    BY DeskFacts
<1>1. /\ desk[r].at = "driving" /\ desk[r].held # NoNode
      /\ kind = "Split" => Kids[desk[r].held] # {}
      /\ UNCHANGED <<file, last, open, book, stopped, stops, landing, lost, counters>>
    BY DEF LetGo
<1>2. PICK n \in Nodes : n = desk[r].held BY <1>0, <1>1
<1>3. PICK x \in Effect : x = [kind |-> kind, node |-> n] /\ x.kind = kind /\ x.node = n
    <2>1. [kind |-> kind, node |-> n] \in Effect BY DEF Effect
    <2>2. QED BY <2>1
<1>4. PICK d : Takes(d, desk[r], x, NoNode) /\ desk' = [desk EXCEPT ![r] = d]
    BY <1>2, <1>3 DEF LetGo, Takes
<1>5. /\ d \in Desks(stops) /\ d.at = desk[r].at /\ d.read = desk[r].read /\ d.held = NoNode
      /\ d.effects = Append(desk[r].effects, x) /\ d.text = Applied(desk[r].text, <<x>>)
    <2>1. d \in Desks(stops) /\ Took(d, desk[r], x, NoNode) BY <1>0, <1>4, TakeFields
    <2>2. QED BY <2>1 DEF Took
<1>6. book[n] = r /\ r # NoRun /\ ~Drawn(n) /\ (Undisturbed => ~Ended(n)) BY <1>2, SaidIsBooked
<1>7. Fits(r, d)
    <2>1. Sound(desk[r].effects, n, desk[r].text) BY <1>0, <1>2 DEF Fits
    <2>2. Sound(d.effects, d.held, d.text) BY <1>0, <1>1, <1>2, <1>3, <1>5, <2>1, SoundEnd
    <2>3. \A i \in DOMAIN d.effects : book[d.effects[i].node] = r
        <3>1. PICK g \in Seq(Effect), m \in Nat :
                /\ g = Append(desk[r].effects, x) /\ m >= 1 /\ g[m] = x /\ DOMAIN g = 1 .. m
                /\ DOMAIN desk[r].effects = 1 .. m - 1
                /\ \A i \in 1 .. m - 1 : g[i] = desk[r].effects[i]
            BY <1>0, OneMore
        <3>2. \A i \in DOMAIN g : i = m \/ i \in 1 .. m - 1 BY <3>1
        <3>3. \A i \in 1 .. m - 1 : book[g[i].node] = r BY <1>0, <3>1 DEF Fits
        <3>4. QED BY <1>3, <1>5, <1>6, <3>1, <3>2, <3>3
    <2>4. QED BY <1>1, <1>5, <2>2, <2>3 DEF Fits, Out, Flying
<1>8. \A k \in Nodes : d.text[k] = IF Touches(x, k) THEN Leaves(x, k) ELSE desk[r].text[k]
    BY <1>0, <1>3, <1>5, AppliedOne
<1>9. \A k \in Nodes : desk[r].text[k] # "Absent" => d.text[k] # "Absent"
    BY <1>3, <1>8, LeavesType
<1>10. ASSUME Undisturbed, NEW k \in Nodes, Ended(k), d.text[k] = "NotStarted"
       PROVE  desk[r].text[k] = "NotStarted"
    <2>1. ~Touches(x, k)
        <3>1. ~Moves(x, k) BY <1>3, <1>6, <1>10 DEF Moves
        <3>2. ~Draws(x, k) BY <1>3, <1>6, <1>10 DEF Draws, Drawn, Ended
        <3>3. QED BY <3>1, <3>2 DEF Touches
    <2>2. QED BY <1>8, <1>10, <2>1
<1>11. Counted' /\ (Undisturbed' => Undisturbed) BY <1>1 DEF CInv, Counted, counters, Undisturbed
<1>12. desk[r].at \in Flying /\ desk[r].at \in Out \cup {"staged"} /\ d.at \in Out
    BY <1>1, <1>5 DEF Out, Flying
<1>13. QED BY <1>1, <1>4, <1>5, <1>7, <1>9, <1>10, <1>11, <1>12, LaneStep

(* ClaimBook::answer turns the desk away, or the claim's line is refused:  *)
(* the desk is as it was before it asked.                                  *)
LEMMA AnswerNoKeeps ==
    ASSUME CInv, NEW r \in Runs, desk[r].at = "asking",
           UNCHANGED refusals \/ Refuse("claim"),
           desk' = [desk EXCEPT ![r].at = "driving", ![r].asks = NoNode],
           UNCHANGED <<file, last, open, book, stopped, stops, landing, lost, edits, crashes>>
    PROVE  CInv'
<1>0. /\ desk[r] \in Desks(stops) /\ Fits(r, desk[r]) BY DeskFacts
<1>2. PICK d : d = [desk[r] EXCEPT !.at = "driving", !.asks = NoNode] OBVIOUS
<1>3. desk' = [desk EXCEPT ![r] = d] BY <1>2
<1>4. d \in Desks(stops) BY <1>0, <1>2 DEF Desks, Where
<1>5. /\ d.at = "driving" /\ d.text = desk[r].text
      /\ d.held = desk[r].held /\ d.effects = desk[r].effects /\ d.read = desk[r].read
    BY <1>0, <1>2 DEF Desks
<1>6. Fits(r, d) BY <1>0, <1>5 DEF Fits, Out, Flying
<1>7. Counted' /\ (Undisturbed' => Undisturbed)
    <2>1. edits \in Nat /\ crashes \in Nat /\ refusals \in Nat BY DEF CInv, Counted
    <2>2. refusals' = refusals \/ refusals' = refusals + 1 BY DEF Refuse
    <2>3. QED BY <2>1, <2>2 DEF Counted, Undisturbed, counters
<1>8. /\ desk[r].at \in Flying /\ desk[r].at \in Out \cup {"staged"} /\ d.at \in Out
    BY <1>5 DEF Out, Flying
<1>9. QED BY <1>3, <1>4, <1>5, <1>6, <1>7, <1>8, LaneStep

(* A desk g is desk d back from the book, with its claim on n granted. *)
Granted(g, d, n) ==
    g = Take([d EXCEPT !.at = "driving", !.asks = NoNode], "Claimed", n, n)

(* ClaimDesk::claim, once the book has granted it.                         *)
LEMMA TakeClaim ==
    ASSUME NEW b \in Nat, NEW d \in Desks(b), NEW n \in Nodes, NEW g, Granted(g, d, n),
           NEW x \in Effect, x.kind = "Claimed", x.node = n
    PROVE  /\ g \in Desks(b) /\ g.at = "driving" /\ g.read = d.read /\ g.held = n
           /\ g.effects = Append(d.effects, x) /\ g.text = Applied(d.text, <<x>>)
<1>1. PICK f : f = [d EXCEPT !.at = "driving", !.asks = NoNode] OBVIOUS
<1>2. f \in Desks(b) /\ f.at = "driving" /\ f.text = d.text /\ f.effects = d.effects
      /\ f.read = d.read
    BY <1>1 DEF Desks, Where
<1>3. x \in Effect /\ n \in Nodes \cup {NoNode} OBVIOUS
<1>5. Takes(g, f, x, n) BY <1>1 DEF Takes, Granted
<1>6. g \in Desks(b) /\ Took(g, f, x, n) BY <1>2, <1>3, <1>5, TakeFields
<1>7. QED BY <1>2, <1>6 DEF Took

(* ClaimBook::answer grants the claim of a desk. *)
Grants(r, n) ==
    /\ ~TurnedAway(r, n)
    /\ last' = [last EXCEPT ![n] = [kind |-> "Claimed", run |-> r]]
    /\ open' = [open EXCEPT ![n] = @ \cup {r}]
    /\ book' = [book EXCEPT ![n] = r]
    /\ desk' = [desk EXCEPT ![r] =
            Take([desk[r] EXCEPT !.at = "driving", !.asks = NoNode], "Claimed", n, n)]
    /\ UNCHANGED refusals

(* A claim that is granted: its line is on the ledger, the node is booked  *)
(* and in hand.                                                            *)
LEMMA AnswerYesKeeps ==
    ASSUME CInv, NEW r \in Runs, Idle, desk[r].at = "asking", NEW n, n = desk[r].asks,
           Grants(r, n), UNCHANGED <<file, stopped, stops, landing, lost, edits, crashes>>
    PROVE  CInv'
<1> USE DEF Grants
<1>0. /\ desk[r] \in Desks(stops) /\ Fits(r, desk[r]) /\ desk[r].text \in Texts
      /\ desk[r].effects \in Seq(Effect) /\ stops \in Nat /\ desk[r].read \in 0..stops
    BY DeskFacts
<1>1. /\ n \in Nodes /\ desk[r].held = NoNode /\ ReadyIn(desk[r].text, n)
      /\ desk[r].text[n] = "NotStarted" /\ \A k \in Kids[n] : desk[r].text[k] = "Absent"
    BY <1>0 DEF Fits, ReadyIn
<1>2. ~(stopped[n] > desk[r].read) /\ book[n] \in {NoRun, r} BY DEF TurnedAway
<1>3. NoRun \notin Runs /\ NoNode \notin Nodes /\ Kids \in [Nodes -> SUBSET Nodes]
    BY ClaimsAssumption
<1>4. ~Drawn(n) /\ (Undisturbed => ~Ended(n))
    <2>1. desk[r].at \in Flying BY DEF Flying
    <2>2. QED BY <1>1, <1>2, <2>1 DEF CInv, DrawnOnce, Quietly, EndedOnce
<1>5. PICK x \in Effect : x = [kind |-> "Claimed", node |-> n] /\ x.kind = "Claimed" /\ x.node = n
    <2>1. [kind |-> "Claimed", node |-> n] \in Effect BY <1>1 DEF Effect
    <2>2. QED BY <2>1
<1>8. PICK d : Granted(d, desk[r], n) /\ desk' = [desk EXCEPT ![r] = d]
    BY DEF Granted
<1>9. /\ d \in Desks(stops) /\ d.at = "driving" /\ d.read = desk[r].read /\ d.held = n
      /\ d.effects = Append(desk[r].effects, x) /\ d.text = Applied(desk[r].text, <<x>>)
    BY <1>0, <1>1, <1>5, <1>8, TakeClaim
<1>10. desk' \in [Runs -> Desks(stops)] /\ desk'[r] = d /\ \A q \in Runs \ {r} : desk'[q] = desk[q]
    <2>1. desk \in [Runs -> Desks(stops)] BY DEF CInv, CityTypes, Desks
    <2>2. QED BY <1>8, <1>9, <2>1
<1>11. /\ last'[n] = [kind |-> "Claimed", run |-> r] /\ \A m \in Nodes \ {n} : last'[m] = last[m]
       /\ open'[n] = open[n] \cup {r} /\ \A m \in Nodes \ {n} : open'[m] = open[m]
       /\ book'[n] = r /\ \A m \in Nodes \ {n} : book'[m] = book[m]
    BY <1>1 DEF CInv, CityTypes
<1>12. CityTypes'
    <2>1. desk[r].at # "landing" /\ d.at # "landing" BY <1>9
    <2>2. \A q \in Runs : desk'[q].at = "landing" <=> landing'.run = q
        BY <1>10, <2>1 DEF CInv, CityTypes
    <2>3. desk' \in [Runs -> Desks(stops')] BY <1>10
    <2>4. last' \in [Nodes -> [kind : {"none", "Claimed"} \cup Closings, run : Runs \cup {NoRun}]]
        <3>1. [kind |-> "Claimed", run |-> r]
                \in [kind : {"none", "Claimed"} \cup Closings, run : Runs \cup {NoRun}]
            OBVIOUS
        <3>2. QED BY <3>1 DEF CInv, CityTypes
    <2>5. open' \in [Nodes -> SUBSET Runs] /\ book' \in [Nodes -> Runs \cup {NoRun}]
        BY DEF CInv, CityTypes
    <2>6. QED BY <2>2, <2>3, <2>4, <2>5 DEF CInv, CityTypes, Desks, Idle
<1>13. Idle' /\ Counted' /\ (\A m : Drawn(m)' = Drawn(m) /\ Ended(m)' = Ended(m))
    BY DEF CInv, Counted, Idle, Drawn, Ended
<1>14. \A k \in Nodes : d.text[k] = IF k = n THEN "InProgress" ELSE desk[r].text[k]
    <2>1. \A k \in Nodes : Touches(x, k) <=> k = n BY <1>5 DEF Touches, Moves, Draws
    <2>2. \A k \in Nodes : k = n => Leaves(x, k) = "InProgress"
        BY <1>5 DEF Leaves, Draws, StatusAfter
    <2>3. QED BY <1>0, <1>5, <1>9, <2>1, <2>2, AppliedOne
<1>15. \A q \in Runs : Fits(q, desk[q])'
    <2>1. Fits(r, d)'
        <3>1. Sound(desk[r].effects, NoNode, desk[r].text) BY <1>0, <1>1 DEF Fits
        <3>2. Sound(d.effects, d.held, d.text) BY <1>0, <1>1, <1>5, <1>9, <3>1, SoundClaim
        <3>3. \A i \in DOMAIN d.effects : book'[d.effects[i].node] = r
            <4>1. PICK g \in Seq(Effect), m \in Nat :
                    /\ g = Append(desk[r].effects, x) /\ m >= 1 /\ g[m] = x /\ DOMAIN g = 1 .. m
                    /\ DOMAIN desk[r].effects = 1 .. m - 1
                    /\ \A i \in 1 .. m - 1 : g[i] = desk[r].effects[i]
                BY <1>0, OneMore
            <4>2. \A i \in DOMAIN g : i = m \/ i \in 1 .. m - 1 BY <4>1
            <4>3. \A i \in 1 .. m - 1 : g[i] \in Effect /\ book[g[i].node] = r
                BY <1>0, <4>1 DEF Fits
            <4>4. \A i \in 1 .. m - 1 : g[i].node \in Nodes BY <4>3 DEF Effect
            <4>5. \A i \in 1 .. m - 1 : book'[g[i].node] = r BY <1>11, <4>3, <4>4
            <4>6. QED BY <1>5, <1>9, <1>11, <4>1, <4>2, <4>5
        <3>4. QED BY <1>9, <1>11, <3>2, <3>3 DEF Fits, Out, Flying
    <2>2. ASSUME NEW q \in Runs, q # r PROVE Fits(q, desk[q])'
        <3>1. Fits(q, desk[q]) BY DEF CInv
        <3>2. PICK e : e = desk[q] BY Zenon
        <3>3. book[n] # q BY <1>2, <1>3, <2>2
        <3>4. \A i \in DOMAIN e.effects : e.effects[i].node \in Nodes /\ e.effects[i].node # n
            <4>1. \A i \in DOMAIN e.effects : book[e.effects[i].node] = q BY <3>1, <3>2 DEF Fits
            <4>2. e.effects \in Seq(Effect) BY <3>2, DeskFacts
            <4>3. \A i \in DOMAIN e.effects : e.effects[i] \in Effect BY <4>2
            <4>4. QED BY <3>3, <4>1, <4>3 DEF Effect
        <3>5. e.held # NoNode => e.held \in Nodes \ {n}
            <4>1. e.held \in Nodes \cup {NoNode} BY <3>2, DeskFacts
            <4>2. e.held \in Nodes => book[e.held] = q BY <3>2, SaidIsBooked
            <4>3. QED BY <3>3, <4>1, <4>2
        <3>6. Fits(q, e)' BY <1>11, <3>1, <3>2, <3>4, <3>5 DEF Fits
        <3>7. QED BY <1>10, <2>2, <3>2, <3>6 DEF Fits
    <2>3. Fits(r, desk[r])' BY <1>10, <2>1 DEF Fits
    <2>4. QED BY <2>2, <2>3
<1>16. LandingType' /\ LandingSound' /\ PlanSound' BY <1>13 DEF LandingType, LandingSound, PlanSound
<1>17. DrawnOnce'
    <2>1. ASSUME NEW m \in Nodes, Drawn(m)
          PROVE  /\ book'[m] = NoRun
                 /\ \A q \in Runs :
                        desk'[q].at \in Flying /\ (\A k \in Kids[m] : desk'[q].text[k] = "Absent")
                            => stopped[m] > desk'[q].read
        <3>1. m # n /\ book[m] = NoRun BY <1>4, <2>1 DEF CInv, DrawnOnce
        <3>2. desk[r].at \in Flying /\ Kids[m] \subseteq Nodes BY <1>3 DEF Flying
        <3>3. (\A k \in Kids[m] : d.text[k] = "Absent") =>
                \A k \in Kids[m] : desk[r].text[k] = "Absent"
            BY <1>14, <3>2
        <3>4. QED BY <1>9, <1>10, <1>11, <2>1, <3>1, <3>2, <3>3 DEF CInv, DrawnOnce
    <2>2. QED BY <1>13, <2>1 DEF DrawnOnce
<1>18. ReleasedIsReady' BY <1>1, <1>11 DEF CInv, ReleasedIsReady
<1>19. OpenIsOwed'
    <2>1. ASSUME NEW q \in Runs \ lost, NEW m \in Nodes, q \in open'[m]
          PROVE  desk'[q].at \in Out /\ book'[m] = q
        <3>1. landing.run # q BY <1>3 DEF Idle
        <3>2. desk'[r].at \in Out BY <1>9, <1>10 DEF Out, Flying
        <3>3. CASE q = r /\ m = n BY <1>11, <3>2, <3>3
        <3>4. CASE ~(q = r /\ m = n)
            <4>1. q \in open[m] BY <1>11, <2>1, <3>4
            <4>2. desk[q].at \in Out /\ book[m] = q BY <3>1, <4>1 DEF CInv, OpenIsOwed
            <4>3. m # n BY <1>2, <1>3, <3>4, <4>2
            <4>4. QED BY <1>10, <1>11, <3>2, <4>2, <4>3
        <3>5. QED BY <3>3, <3>4
    <2>2. QED BY <2>1 DEF OpenIsOwed
<1>20. Quietly'
    <2>1. SUFFICES ASSUME Undisturbed' PROVE EndedOnce' /\ FileAgrees' BY DEF Quietly
    <2>2. Undisturbed /\ EndedOnce /\ FileAgrees
        <3>1. Undisturbed BY <2>1 DEF Undisturbed, counters
        <3>2. QED BY <3>1 DEF CInv, Quietly
    <2>3. EndedOnce'
        <3>1. ASSUME NEW m \in Nodes, Ended(m)
              PROVE  /\ book'[m] = NoRun
                     /\ \A q \in Runs : desk'[q].at \in Flying /\ desk'[q].text[m] = "NotStarted"
                            => stopped[m] > desk'[q].read
            <4>1. m # n /\ book[m] = NoRun BY <1>4, <2>2, <3>1 DEF EndedOnce
            <4>2. desk[r].at \in Flying BY DEF Flying
            <4>3. QED BY <1>9, <1>10, <1>11, <1>14, <2>2, <3>1, <4>1, <4>2 DEF EndedOnce
        <3>2. QED BY <1>13, <3>1 DEF EndedOnce
    <2>4. FileAgrees'
        <3>1. \A m \in Nodes : Agrees(m) BY <2>2 DEF FileAgrees
        <3>2. \A m \in Nodes \ {n} : Agrees(m)' BY <1>11, <3>1 DEF Agrees
        <3>3. Agrees(n)'
            <4>1. file[n] \in Status /\ ~Ended(n) BY <1>1, <1>4, <2>2 DEF CInv, CityTypes
            <4>2. file[n] \in {"Absent", "NotStarted"} BY <4>1 DEF Status, Ended
            <4>3. QED BY <1>11, <4>2 DEF Agrees
        <3>4. QED BY <1>13, <3>2, <3>3 DEF FileAgrees
    <2>5. QED BY <2>3, <2>4
<1>21. QED BY <1>12, <1>13, <1>15, <1>16, <1>17, <1>18, <1>19, <1>20 DEF CInv

(* ClaimBook::answer, whatever it says.                                    *)
LEMMA AnswerKeeps ==
    ASSUME CInv, NEW r \in Runs, Answer(r)
    PROVE  CInv'
<1>1. /\ Idle /\ desk[r].at = "asking"
      /\ UNCHANGED <<file, stopped, stops, landing, lost, edits, crashes>>
    BY DEF Answer
<1>2. CASE /\ UNCHANGED refusals \/ Refuse("claim")
           /\ desk' = [desk EXCEPT ![r].at = "driving", ![r].asks = NoNode]
           /\ UNCHANGED <<last, open, book>>
    BY <1>1, <1>2, AnswerNoKeeps
<1>3. CASE Grants(r, desk[r].asks)
    <2>1. PICK n : n = desk[r].asks BY Zenon
    <2>2. Grants(r, n) BY <1>3, <2>1
    <2>3. QED BY <1>1, <2>1, <2>2, AnswerYesKeeps
<1>4. QED BY <1>2, <1>3 DEF Answer, Grants

-----------------------------------------------------------------------------
(* The landing begins.                                                     *)

(* The lines c are of the nodes of the effects e, and one for each closing. *)
LinesOf(e, c) ==
    /\ DOMAIN c \subseteq DOMAIN e /\ DOMAIN c \subseteq Nat
    /\ \A i \in DOMAIN c : c[i] \in [kind : Closings, node : Nodes] /\ c[i].node = e[i].node
EachClosing(e, c) ==
    /\ DOMAIN c = {i \in DOMAIN e : e[i].kind \in Closings}
    /\ \A i \in DOMAIN c : c[i].kind = e[i].kind

(* Claims::of: the closing lines are of the nodes of the effects.          *)
LEMMA ClosingFacts ==
    ASSUME NEW e \in Seq(Effect), NEW stale \in BOOLEAN, NEW c, c = ClosingLines(e, stale)
    PROVE  /\ LinesOf(e, c) /\ (~stale => EachClosing(e, c))
           /\ stale => \A i \in DOMAIN c : c[i].kind = "Released"
<1> USE DEF LinesOf, EachClosing
<1>1. DOMAIN e \subseteq Nat /\ \A i \in DOMAIN e : e[i] \in Effect OBVIOUS
<1>2. \A i \in DOMAIN e : e[i].node \in Nodes BY <1>1 DEF Effect
<1>3. CASE stale
    <2>1. c = [i \in {i \in DOMAIN e : e[i].kind \in {"Claimed"}} |->
                    [kind |-> "Released", node |-> e[i].node]]
        BY <1>3 DEF ClosingLines
    <2>2. "Released" \in Closings BY DEF Closings
    <2>3. DOMAIN c \subseteq DOMAIN e
          /\ \A i \in DOMAIN c : c[i] = [kind |-> "Released", node |-> e[i].node]
        BY <2>1
    <2>4. \A i \in DOMAIN c : c[i] \in [kind : Closings, node : Nodes] /\ c[i].node = e[i].node
        BY <1>2, <2>2, <2>3
    <2>5. \A i \in DOMAIN c : c[i].kind = "Released" BY <2>3
    <2>6. QED BY <1>1, <1>3, <2>3, <2>4, <2>5
<1>4. CASE ~stale
    <2>1. c = [i \in {i \in DOMAIN e : e[i].kind \in Closings} |->
                    [kind |-> e[i].kind, node |-> e[i].node]]
        BY <1>4 DEF ClosingLines
    <2>2. DOMAIN c = {i \in DOMAIN e : e[i].kind \in Closings}
          /\ \A i \in DOMAIN c : c[i] = [kind |-> e[i].kind, node |-> e[i].node]
        BY <2>1
    <2>3. \A i \in DOMAIN c : /\ c[i] \in [kind : Closings, node : Nodes]
                             /\ c[i].node = e[i].node /\ c[i].kind = e[i].kind
        <3>1. ASSUME NEW i \in DOMAIN c
              PROVE  /\ c[i] \in [kind : Closings, node : Nodes]
                     /\ c[i].node = e[i].node /\ c[i].kind = e[i].kind
            <4>1. PICK k \in Closings, n \in Nodes : k = e[i].kind /\ n = e[i].node BY <1>2, <2>2
            <4>2. c[i] = [kind |-> k, node |-> n] BY <2>2, <4>1
            <4>3. QED BY <4>1, <4>2
        <3>2. QED BY <3>1
    <2>4. QED BY <1>1, <1>4, <2>2, <2>3
<1>5. QED BY <1>3, <1>4

(* What a run that lands has done: ClaimDesk::abandon has answered for the *)
(* node in hand.                                                           *)
LEMMA LandingEffects ==
    ASSUME CInv, NEW r \in Runs, NEW e, e = Abandoned(desk[r])
    PROVE  /\ e \in Seq(Effect) /\ Told(e) /\ Ends(e, NoNode)
           /\ \A i \in DOMAIN e :
                LET n == e[i].node
                IN  n \in Nodes /\ book[n] = r /\ ~Drawn(n) /\ (Undisturbed => ~Ended(n))
<1>0. /\ Fits(r, desk[r]) /\ desk[r].text \in Texts /\ desk[r].effects \in Seq(Effect)
      /\ desk[r].held \in Nodes \cup {NoNode}
    BY DeskFacts
<1>1. Sound(desk[r].effects, desk[r].held, desk[r].text) BY <1>0 DEF Fits
<1>2. PICK s \in Seq(Effect) : s = desk[r].effects BY <1>0
<1>3. \A i \in DOMAIN s : s[i].node \in Nodes
    <2>1. \A i \in DOMAIN s : s[i] \in Effect OBVIOUS
    <2>2. QED BY <2>1 DEF Effect
<1>4. ASSUME NEW n \in Nodes, n = desk[r].held \/ \E i \in DOMAIN s : s[i].node = n
      PROVE  book[n] = r /\ ~Drawn(n) /\ (Undisturbed => ~Ended(n))
    BY <1>2, <1>4, SaidIsBooked
<1>5. CASE desk[r].held = NoNode
    <2>1. e = s BY <1>2, <1>5 DEF Abandoned
    <2>2. Told(e) /\ Ends(e, NoNode) BY <1>1, <1>2, <1>5, <2>1 DEF Sound
    <2>3. QED BY <1>2, <1>3, <1>4, <2>1, <2>2
<1>6. CASE desk[r].held # NoNode
    <2>1. PICK n \in Nodes : n = desk[r].held BY <1>0, <1>6
    <2>2. PICK x \in Effect : x = [kind |-> "Blocked", node |-> n] /\ x.node = n
        <3>1. [kind |-> "Blocked", node |-> n] \in Effect BY DEF Effect, Closings, Stops
        <3>2. QED BY <3>1
    <2>3. e = Append(s, x) BY <1>2, <1>6, <2>1, <2>2 DEF Abandoned
    <2>4. "Blocked" \in Closings /\ "Blocked" # "Split" BY DEF Closings, Stops
    <2>5. Sound(e, NoNode, Applied(desk[r].text, <<x>>))
        BY <1>0, <1>1, <1>2, <2>1, <2>2, <2>3, <2>4, SoundEnd
    <2>6. Told(e) /\ Ends(e, NoNode) BY <2>5 DEF Sound
    <2>7. PICK g \in Seq(Effect), m \in Nat :
            /\ g = Append(s, x) /\ m >= 1 /\ g[m] = x /\ DOMAIN g = 1 .. m
            /\ DOMAIN s = 1 .. m - 1 /\ \A i \in 1 .. m - 1 : g[i] = s[i]
        BY OneMore
    <2>8. \A i \in DOMAIN g : i = m \/ (i \in DOMAIN s /\ g[i] = s[i]) BY <2>7
    <2>9. \A i \in DOMAIN g :
            /\ g[i].node \in Nodes
            /\ g[i].node = desk[r].held \/ \E l \in DOMAIN s : s[l].node = g[i].node
        BY <1>3, <2>1, <2>2, <2>7, <2>8
    <2>10. g = e /\ e \in Seq(Effect) BY <2>3, <2>7
    <2>11. QED BY <1>4, <2>6, <2>9, <2>10
<1>7. QED BY <1>5, <1>6

(* Flight::arrived: the landing that begins.                               *)
LEMMA LandStarts ==
    ASSUME CInv, NEW r \in Runs, Land(r)
    PROVE  /\ Whole(landing)'
           /\ ~landing'.plan => \A i \in DOMAIN landing'.lines : landing'.lines[i].kind = "Released"
           /\ landing'.run = r /\ landing'.left = DOMAIN landing'.lines
           /\ landing'.base = file /\ landing'.owed = Booked(r)
           /\ landing'.effects \in Seq(Effect) /\ DOMAIN landing'.lines \subseteq Nat
           /\ \A i \in DOMAIN landing'.lines :
                LET n == landing'.lines[i].node
                IN  /\ landing'.lines[i] \in [kind : Closings, node : Nodes]
                    /\ book[n] = r /\ ~Drawn(n) /\ (Undisturbed => ~Ended(n))
           /\ landing'.plan \in BOOLEAN
           /\ landing'.plan =>
                /\ Told(landing'.effects) /\ Ends(landing'.effects, NoNode)
                /\ StillTrue(file, landing'.effects)
                /\ landing'.lines = ClosingLines(landing'.effects, FALSE)
                /\ \A i \in DOMAIN landing'.effects :
                    LET n == landing'.effects[i].node
                    IN  n \in Nodes /\ book[n] = r /\ ~Drawn(n)
<1>1. PICK e : e = Abandoned(desk[r]) BY Zenon
<1>2. /\ e \in Seq(Effect) /\ Told(e) /\ Ends(e, NoNode)
      /\ \A i \in DOMAIN e :
            LET n == e[i].node
            IN  n \in Nodes /\ book[n] = r /\ ~Drawn(n) /\ (Undisturbed => ~Ended(n))
    BY <1>1, LandingEffects
<1>3. CASE landing' = Landing(r, <<>>, FALSE)
    <2>1. landing' = [run |-> r, lines |-> <<>>, left |-> DOMAIN <<>>, plan |-> FALSE,
                      base |-> file, effects |-> <<>>, owed |-> Booked(r)]
        BY <1>3 DEF Landing
    <2>2. <<>> \in Seq(Effect) /\ DOMAIN <<>> = {} OBVIOUS
    <2>3. QED BY <2>1, <2>2 DEF Whole
<1>4. CASE \E stale \in BOOLEAN :
            stale = ~StillTrue(file, e) /\ landing' = Landing(r, ClosingLines(e, stale), ~stale)
    <2>1. PICK stale \in BOOLEAN :
            stale = ~StillTrue(file, e) /\ landing' = Landing(r, ClosingLines(e, stale), ~stale)
        BY <1>4
    <2>2. PICK c : c = ClosingLines(e, stale) BY Zenon
    <2>3. /\ DOMAIN c \subseteq DOMAIN e /\ DOMAIN c \subseteq Nat
          /\ \A i \in DOMAIN c : c[i] \in [kind : Closings, node : Nodes] /\ c[i].node = e[i].node
        <3>1. e \in Seq(Effect) BY <1>2
        <3>2. LinesOf(e, c) BY <2>2, <3>1, ClosingFacts
        <3>3. QED BY <3>2 DEF LinesOf
    <2>9. stale => \A i \in DOMAIN c : c[i].kind = "Released"
        <3>1. e \in Seq(Effect) BY <1>2
        <3>2. QED BY <2>2, <3>1, ClosingFacts
    <2>4. PICK f \in Seq(Effect) : f = (IF ~stale THEN e ELSE <<>>)
        <3>1. <<>> \in Seq(Effect) OBVIOUS
        <3>2. QED BY <1>2, <3>1
    <2>5. landing' = [run |-> r, lines |-> c, left |-> DOMAIN c, plan |-> ~stale,
                      base |-> file, effects |-> f, owed |-> Booked(r)]
        BY <1>1, <2>1, <2>2, <2>4 DEF Landing
    <2>6. /\ landing'.run = r /\ landing'.lines = c /\ landing'.left = DOMAIN c
          /\ landing'.plan = ~stale /\ landing'.base = file /\ landing'.effects = f
          /\ landing'.owed = Booked(r) /\ Whole(landing)'
        BY <2>5 DEF Whole
    <2>7. ~stale => f = e /\ StillTrue(file, e) /\ c = ClosingLines(e, FALSE)
        BY <2>1, <2>2, <2>4
    <2>8. QED BY <1>2, <2>3, <2>4, <2>6, <2>7, <2>9
<1>5. QED BY <1>1, <1>3, <1>4 DEF Land

(* A desk that is not in flight: nothing said, nothing in hand.            *)
LEMMA EmptyDesk ==
    ASSUME CInv, NEW at \in Where \ Out, NEW d, d = [NewDesk EXCEPT !.at = at]
    PROVE  /\ d \in Desks(stops) /\ d.at = at /\ d.held = NoNode /\ d.effects = <<>>
           /\ d.read = 0 /\ Sound(d.effects, d.held, d.text)
<1>1. PICK s \in Seq(Effect), z \in 0..stops, t \in [Nodes -> Status], a \in Where,
           h \in Nodes \cup {NoNode} :
        s = <<>> /\ z = 0 /\ t = [n \in Nodes |-> "Absent"] /\ a = at /\ h = NoNode
    <2>1. <<>> \in Seq(Effect) /\ 0 \in 0..stops BY DEF CInv, CityTypes
    <2>2. [n \in Nodes |-> "Absent"] \in [Nodes -> Status] BY DEF Status
    <2>3. QED BY <2>1, <2>2
<1>2. d = [at |-> a, text |-> t, held |-> h, asks |-> h, effects |-> s, read |-> z]
    BY <1>1 DEF NewDesk
<1>3. d \in Desks(stops)
    <2>1. [at |-> a, text |-> t, held |-> h, asks |-> h, effects |-> s, read |-> z] \in Desks(stops)
        BY DEF Desks
    <2>2. QED BY <1>2, <2>1
<1>4. QED BY <1>1, <1>2, <1>3, SoundEmpty

(* Flight::arrived and land: the bookings are released to the landing.     *)
LEMMA LandKeeps ==
    ASSUME CInv, NEW r \in Runs, Land(r)
    PROVE  CInv'
<1>1. /\ Idle /\ desk[r].at \in {"home", "failed"}
      /\ book' = [n \in Nodes |-> IF book[n] = r THEN NoRun ELSE book[n]]
      /\ UNCHANGED <<file, last, open, stopped, stops, lost, edits, crashes, refusals>>
    BY DEF Land, counters
<1>2. NoRun \notin Runs /\ NoNode \notin Nodes /\ Kids \in [Nodes -> SUBSET Nodes]
    BY ClaimsAssumption
<1>3. PICK d : d = [NewDesk EXCEPT !.at = "landing"] /\ desk' = [desk EXCEPT ![r] = d]
    BY DEF Land
<1>4. /\ d \in Desks(stops) /\ d.at = "landing" /\ d.held = NoNode /\ d.effects = <<>>
      /\ d.read = 0 /\ Sound(d.effects, d.held, d.text)
    <2>1. "landing" \in Where \ Out BY DEF Where, Out, Flying
    <2>2. QED BY <1>3, <2>1, EmptyDesk
<1>5. desk' \in [Runs -> Desks(stops)] /\ desk'[r] = d /\ \A q \in Runs \ {r} : desk'[q] = desk[q]
    <2>1. desk \in [Runs -> Desks(stops)] BY DEF CInv, CityTypes, Desks
    <2>2. QED BY <1>3, <1>4, <2>1
<1>6. \A q \in Runs : desk'[q].at \in Out => q # r BY <1>4, <1>5 DEF Out, Flying
<1>7. /\ Whole(landing)'
      /\ ~landing'.plan => \A i \in DOMAIN landing'.lines : landing'.lines[i].kind = "Released"
      /\ landing'.run = r /\ landing'.left = DOMAIN landing'.lines
      /\ landing'.base = file /\ landing'.owed = Booked(r)
      /\ landing'.effects \in Seq(Effect) /\ DOMAIN landing'.lines \subseteq Nat
      /\ \A i \in DOMAIN landing'.lines :
            LET n == landing'.lines[i].node
            IN  /\ landing'.lines[i] \in [kind : Closings, node : Nodes]
                /\ book[n] = r /\ ~Drawn(n) /\ (Undisturbed => ~Ended(n))
      /\ landing'.plan \in BOOLEAN
      /\ landing'.plan =>
            /\ Told(landing'.effects) /\ Ends(landing'.effects, NoNode)
            /\ StillTrue(file, landing'.effects)
            /\ landing'.lines = ClosingLines(landing'.effects, FALSE)
            /\ \A i \in DOMAIN landing'.effects :
                LET n == landing'.effects[i].node
                IN  n \in Nodes /\ book[n] = r /\ ~Drawn(n)
    BY LandStarts
<1>8. \A n \in Nodes : book'[n] = IF book[n] = r THEN NoRun ELSE book[n] BY <1>1
<1>9. /\ \A n : Drawn(n)' = Drawn(n) /\ Ended(n)' = Ended(n) /\ Agrees(n)' = Agrees(n)
      /\ Undisturbed' = Undisturbed /\ Counted' /\ Written' = {} /\ ~Idle'
    <2>1. \A n : Drawn(n)' = Drawn(n) /\ Ended(n)' = Ended(n) /\ Agrees(n)' = Agrees(n)
        BY <1>1 DEF Drawn, Ended, Agrees
    <2>2. Undisturbed' = Undisturbed /\ Counted' BY <1>1 DEF CInv, Counted, Undisturbed, counters
    <2>3. Written' = {} BY <1>7 DEF Written
    <2>4. ~Idle' BY <1>2, <1>7 DEF Idle
    <2>5. QED BY <2>1, <2>2, <2>3, <2>4
<1>10. CityTypes'
    <2>1. \A q \in Runs : desk'[q].at = "landing" <=> landing'.run = q
        BY <1>1, <1>2, <1>4, <1>5, <1>7 DEF CInv, CityTypes, Idle
    <2>2. book' \in [Nodes -> Runs \cup {NoRun}] BY <1>1 DEF CInv, CityTypes
    <2>3. landing'.left \subseteq DOMAIN landing'.lines /\ landing'.owed \subseteq Nodes
        BY <1>7 DEF Booked
    <2>4. desk' \in [Runs -> Desks(stops')] BY <1>1, <1>5
    <2>5. QED BY <1>1, <2>1, <2>2, <2>3, <2>4 DEF CInv, CityTypes, Desks
<1>11. LandingType' BY <1>7 DEF LandingType
<1>12. \A q \in Runs : Fits(q, desk[q])'
    <2>1. Fits(r, desk[r])' BY <1>2, <1>4, <1>5 DEF Fits
    <2>2. ASSUME NEW q \in Runs, q # r PROVE Fits(q, desk[q])'
        <3>1. Fits(q, desk[q]) BY DEF CInv
        <3>2. PICK e : e = desk[q] /\ e.effects \in Seq(Effect) BY DeskFacts
        <3>3. \A i \in DOMAIN e.effects : e.effects[i].node \in Nodes
            <4>1. \A i \in DOMAIN e.effects : e.effects[i] \in Effect BY <3>2
            <4>2. QED BY <4>1 DEF Effect
        <3>4. \A i \in DOMAIN e.effects : book'[e.effects[i].node] = q
            BY <1>8, <2>2, <3>1, <3>2, <3>3 DEF Fits
        <3>5. Fits(q, e)' BY <1>1, <3>1, <3>2, <3>4 DEF Fits
        <3>6. QED BY <1>5, <2>2, <3>2, <3>5 DEF Fits
    <2>3. QED BY <2>1, <2>2
<1>13. LandingSound'
    <2>1. \A i \in DOMAIN landing'.lines : landing'.lines[i].node \in Nodes BY <1>7
    <2>2. \A i \in landing'.left :
            book'[landing'.lines[i].node] = NoRun /\ ~Drawn(landing'.lines[i].node)
        BY <1>7, <1>8, <2>1
    <2>3. ASSUME NEW n \in landing'.owed PROVE book'[n] = NoRun /\ ~Drawn(n)
        <3>1. n \in Nodes /\ book[n] = r BY <1>7 DEF Booked
        <3>2. QED BY <1>2, <1>8, <3>1 DEF CInv, DrawnOnce
    <2>4. QED BY <1>7, <1>9, <2>2, <2>3 DEF LandingSound
<1>14. PlanSound'
    <2>1. landing'.plan => \A i \in DOMAIN landing'.effects :
                book'[landing'.effects[i].node] = NoRun /\ ~Drawn(landing'.effects[i].node)
        BY <1>7, <1>8
    <2>2. QED BY <1>7, <1>9, <2>1 DEF PlanSound
<1>15. DrawnOnce' BY <1>1, <1>2, <1>5, <1>6, <1>8, <1>9 DEF CInv, DrawnOnce, Out
<1>16. ReleasedIsReady' BY <1>1 DEF CInv, ReleasedIsReady
<1>17. OpenIsOwed'
    <2>1. ASSUME NEW q \in Runs \ lost, NEW m \in Nodes, q \in open[m]
          PROVE  \/ desk'[q].at \in Out /\ book'[m] = q
                 \/ landing'.run = q /\ m \in landing'.owed
        <3>1. desk[q].at \in Out /\ book[m] = q BY <1>1, <1>2, <2>1 DEF CInv, OpenIsOwed, Idle
        <3>2. CASE q = r BY <1>7, <3>1, <3>2 DEF Booked
        <3>3. CASE q # r BY <1>5, <1>8, <3>1, <3>3
        <3>4. QED BY <3>2, <3>3
    <2>2. QED BY <1>1, <2>1 DEF OpenIsOwed
<1>18. Quietly'
    <2>1. SUFFICES ASSUME Undisturbed PROVE EndedOnce' /\ FileAgrees' BY <1>9 DEF Quietly
    <2>2. EndedOnce /\ FileAgrees BY <2>1 DEF CInv, Quietly
    <2>3. ASSUME NEW n \in Nodes, Ended(n)
          PROVE  /\ book'[n] = NoRun
                 /\ \A q \in Runs : desk'[q].at \in Flying /\ desk'[q].text[n] = "NotStarted"
                        => stopped[n] > desk'[q].read
                 /\ n \notin landing'.owed
                 /\ \A i \in landing'.left : landing'.lines[i].node # n
        <3>1. book[n] = NoRun BY <2>2, <2>3 DEF EndedOnce
        <3>2. book'[n] = NoRun BY <1>8, <3>1
        <3>3. \A q \in Runs : desk'[q].at \in Flying => q # r BY <1>6 DEF Out
        <3>4. n \notin landing'.owed BY <1>2, <1>7, <3>1 DEF Booked
        <3>5. \A i \in landing'.left : landing'.lines[i].node # n BY <1>2, <1>7, <3>1
        <3>6. QED BY <1>5, <2>2, <2>3, <3>2, <3>3, <3>4, <3>5 DEF EndedOnce
    <2>4. EndedOnce' BY <1>1, <1>9, <2>3 DEF EndedOnce
    <2>5. FileAgrees' BY <1>1, <1>7, <1>9, <2>2 DEF FileAgrees
    <2>6. QED BY <2>4, <2>5
<1>19. QED BY <1>9, <1>10, <1>11, <1>12, <1>13, <1>14, <1>15, <1>16, <1>17, <1>18 DEF CInv

-----------------------------------------------------------------------------
(* The landing writes.                                                     *)

(* The landing goes on: its lines, its effects and its base are the same,  *)
(* and nothing is added to what it has left or owes.                       *)
GoesOn ==
    /\ ~Idle /\ Whole(landing)' /\ landing'.run = landing.run
    /\ landing'.lines = landing.lines /\ landing'.base = landing.base
    /\ landing'.effects = landing.effects
    /\ landing'.left \subseteq landing.left /\ landing'.owed \subseteq landing.owed

(* The landing l with what it has left, owes and plans replaced. *)
Altered(g, l, left, owed, plan) == g = [l EXCEPT !.left = left, !.owed = owed, !.plan = plan]

Kept(g, l, left, owed, plan) ==
    /\ g.run = l.run /\ g.lines = l.lines /\ g.base = l.base /\ g.effects = l.effects
    /\ g.left = left /\ g.owed = owed /\ g.plan = plan

(* A landing with fields replaced keeps the others.                        *)
LEMMA WholeExcept ==
    ASSUME NEW l, Whole(l), NEW left, NEW owed, NEW plan, NEW g, Altered(g, l, left, owed, plan)
    PROVE  Whole(g) /\ Kept(g, l, left, owed, plan)
<1>1. PICK a, b, c, d, x, y, z :
        l = [run |-> a, lines |-> b, left |-> x, plan |-> y, base |-> c, effects |-> d, owed |-> z]
    BY DEF Whole
<1>2. g = [run |-> a, lines |-> b, left |-> left, plan |-> plan, base |-> c,
           effects |-> d, owed |-> owed]
    BY <1>1 DEF Altered
<1>3. l.run = a /\ l.lines = b /\ l.base = c /\ l.effects = d BY <1>1
<1>4. QED BY <1>2, <1>3 DEF Whole, Kept

(* What holds of a landing at work.                                        *)
LEMMA LandingFacts ==
    ASSUME CInv, ~Idle
    PROVE  /\ Whole(landing) /\ landing.run \in Runs /\ landing.plan \in BOOLEAN
           /\ landing.effects \in Seq(Effect) /\ DOMAIN landing.lines \subseteq Nat
           /\ \A i \in DOMAIN landing.lines : landing.lines[i] \in [kind : Closings, node : Nodes]
           /\ landing.left \subseteq DOMAIN landing.lines /\ landing.owed \subseteq Nodes
           /\ \A i \in DOMAIN landing.lines :
                landing.lines[i].kind \in Closings /\ landing.lines[i].node \in Nodes
BY DEF CInv, LandingType, CityTypes

(* append_for: a closing line of a node that nobody has booked, with the   *)
(* put-back it was owed.                                                   *)
LEMMA RecordKeeps ==
    ASSUME CInv, GoesOn, NEW kind \in Closings, NEW n \in Nodes, Records(kind, n, landing.run),
           book[n] = NoRun, ~Drawn(n), Undisturbed => ~Ended(n),
           landing'.owed = landing.owed \ {n}, landing'.plan = landing.plan,
           UNCHANGED <<file, book, desk, lost, edits, crashes, refusals>>
    PROVE  /\ CityTypes' /\ Counted' /\ LandingType' /\ \A q \in Runs : Fits(q, desk[q])'
           /\ DrawnOnce' /\ ReleasedIsReady' /\ OpenIsOwed'
           /\ (Undisturbed' => Undisturbed /\ EndedOnce')
           /\ last'[n].kind = kind /\ (kind \in Stops => stopped'[n] = stops + 1)
           /\ \A m \in Nodes \ {n} : last'[m] = last[m] /\ stopped'[m] = stopped[m]
<1>1. NoRun \notin Runs /\ NoNode \notin Nodes /\ Kids \in [Nodes -> SUBSET Nodes]
    BY ClaimsAssumption
<1>2. /\ Whole(landing) /\ landing.run \in Runs /\ landing.plan \in BOOLEAN
      /\ landing.effects \in Seq(Effect) /\ DOMAIN landing.lines \subseteq Nat
      /\ \A i \in DOMAIN landing.lines : landing.lines[i] \in [kind : Closings, node : Nodes]
      /\ landing.left \subseteq DOMAIN landing.lines /\ landing.owed \subseteq Nodes
    BY LandingFacts DEF GoesOn
<1>3. /\ last' = [last EXCEPT ![n] = [kind |-> kind, run |-> landing.run]]
      /\ open' = [open EXCEPT ![n] = @ \ {landing.run}]
      /\ stops' = (IF kind \in Stops THEN stops + 1 ELSE stops)
      /\ stopped' = [stopped EXCEPT ![n] = IF kind \in Stops THEN stops + 1 ELSE 0]
    BY DEF Records, Absorbs
<1>4. /\ stops \in Nat /\ stopped \in [Nodes -> 0..stops] /\ open \in [Nodes -> SUBSET Runs]
      /\ last \in [Nodes -> [kind : {"none", "Claimed"} \cup Closings, run : Runs \cup {NoRun}]]
      /\ desk \in [Runs -> Desks(stops)]
    BY DEF CInv, CityTypes, Desks
<1>5. /\ last'[n] = [kind |-> kind, run |-> landing.run]
      /\ stopped'[n] = (IF kind \in Stops THEN stops + 1 ELSE 0)
      /\ open'[n] = open[n] \ {landing.run}
      /\ \A m \in Nodes \ {n} : last'[m] = last[m] /\ stopped'[m] = stopped[m] /\ open'[m] = open[m]
    BY <1>3, <1>4
<1>6. /\ Idle' = Idle /\ \A m : Drawn(m)' = Drawn(m) /\ Ended(m)' = Ended(m)
      /\ Undisturbed' = Undisturbed /\ Counted'
    BY DEF GoesOn, CInv, Counted, Idle, Drawn, Ended, Undisturbed, counters
<1>7. CityTypes'
    <2>1. stops' \in Nat /\ stops <= stops' BY <1>3, <1>4
    <2>2. stopped' \in [Nodes -> 0..stops']
        <3>1. PICK v : v = (IF kind \in Stops THEN stops + 1 ELSE 0) BY Zenon
        <3>2. v \in 0..stops' BY <1>3, <1>4, <3>1
        <3>3. \A m \in Nodes : stopped[m] \in 0..stops' BY <1>4, <2>1
        <3>4. stopped' = [stopped EXCEPT ![n] = v] BY <1>3, <3>1
        <3>5. QED BY <1>4, <3>2, <3>3, <3>4
    <2>3. desk' \in [Runs -> Desks(stops')]
        <3>1. \A d \in Desks(stops) : d \in Desks(stops') BY <1>4, <2>1 DEF Desks
        <3>2. QED BY <1>4, <3>1
    <2>4. last' \in [Nodes -> [kind : {"none", "Claimed"} \cup Closings, run : Runs \cup {NoRun}]]
        <3>1. [kind |-> kind, run |-> landing.run]
                \in [kind : {"none", "Claimed"} \cup Closings, run : Runs \cup {NoRun}]
            BY <1>2
        <3>2. QED BY <1>3, <1>4, <3>1
    <2>5. open' \in [Nodes -> SUBSET Runs] BY <1>3, <1>4
    <2>6. landing'.left \subseteq DOMAIN landing'.lines /\ landing'.owed \subseteq Nodes
        BY <1>2 DEF GoesOn
    <2>7. \A q \in Runs : desk'[q].at = "landing" <=> landing'.run = q
        BY DEF CInv, CityTypes, GoesOn
    <2>8. QED BY <2>1, <2>2, <2>3, <2>4, <2>5, <2>6, <2>7 DEF CInv, CityTypes, Desks
<1>8. LandingType' BY <1>2 DEF LandingType, GoesOn
<1>9. ASSUME NEW q \in Runs PROVE Fits(q, desk[q])'
    <2>1. Fits(q, desk[q]) BY DEF CInv
    <2>2. PICK e : e = desk[q] BY Zenon
    <2>3. e.held # NoNode => e.held \in Nodes \ {n}
        <3>1. e.held \in Nodes \cup {NoNode} BY <2>2, DeskFacts
        <3>2. e.held \in Nodes => book[e.held] = q BY <2>2, SaidIsBooked
        <3>3. QED BY <1>1, <3>1, <3>2
    <2>4. Fits(q, e)' BY <1>5, <2>1, <2>2, <2>3 DEF Fits
    <2>5. QED BY <2>2, <2>4 DEF Fits
<1>10. DrawnOnce' BY <1>5, <1>6 DEF CInv, DrawnOnce
<1>11. ReleasedIsReady'
    <2>1. "Released" \notin Stops BY DEF Stops
    <2>2. QED BY <1>5, <2>1 DEF CInv, ReleasedIsReady
<1>12. OpenIsOwed'
    <2>1. ASSUME NEW q \in Runs \ lost, NEW m \in Nodes, q \in open'[m]
          PROVE  \/ desk[q].at \in Out /\ book[m] = q
                 \/ landing.run = q /\ m \in landing'.owed
        <3>1. CASE m = n BY <1>1, <1>5, <2>1, <3>1 DEF CInv, OpenIsOwed
        <3>2. CASE m # n
            <4>1. q \in open[m] BY <1>5, <2>1, <3>2
            <4>2. QED BY <3>2, <4>1 DEF CInv, OpenIsOwed
        <3>3. QED BY <3>1, <3>2
    <2>2. QED BY <2>1 DEF OpenIsOwed, GoesOn
<1>13. ASSUME Undisturbed PROVE EndedOnce'
    <2>1. EndedOnce BY <1>13 DEF CInv, Quietly
    <2>2. ASSUME NEW m \in Nodes, Ended(m)
          PROVE  /\ book[m] = NoRun
                 /\ \A q \in Runs : desk[q].at \in Flying /\ desk[q].text[m] = "NotStarted"
                        => stopped'[m] > desk[q].read
                 /\ m \notin landing'.owed /\ \A i \in landing'.left : landing'.lines[i].node # m
        <3>1. m # n BY <1>13, <2>2
        <3>2. QED BY <1>5, <2>1, <2>2, <3>1 DEF EndedOnce, GoesOn
    <2>3. QED BY <1>6, <2>2 DEF EndedOnce
<1>14. QED BY <1>5, <1>6, <1>7, <1>8, <1>9, <1>10, <1>11, <1>12, <1>13

(* The closing line with number i reaches the ledger. *)
Closes(i, line) ==
    /\ Records(line.kind, line.node, landing.run)
    /\ landing' = [landing EXCEPT !.left = @ \ {i}, !.owed = @ \ {line.node}]
    /\ UNCHANGED refusals

(* record_closing: the next closing line is on the ledger.                 *)
LEMMA ClosedKeeps ==
    ASSUME CInv, ~Idle, landing.left # {}, NEW i, i = Min(landing.left),
           NEW line, line = landing.lines[i],
           Closes(i, line), UNCHANGED <<file, book, desk, lost, edits, crashes>>
    PROVE  CInv'
<1> USE DEF Closes
<1>1. /\ Whole(landing) /\ landing.run \in Runs /\ landing.plan \in BOOLEAN
      /\ landing.effects \in Seq(Effect) /\ DOMAIN landing.lines \subseteq Nat
      /\ landing.left \subseteq DOMAIN landing.lines /\ landing.owed \subseteq Nodes
      /\ \A j \in DOMAIN landing.lines :
            landing.lines[j].kind \in Closings /\ landing.lines[j].node \in Nodes
    BY LandingFacts
<1>2. i \in landing.left /\ \A j \in landing.left : i <= j
    <2>1. landing.left \in SUBSET Nat BY <1>1
    <2>2. QED BY <2>1, MinProperties
<1>3. PICK n \in Nodes, kind \in Closings : n = line.node /\ kind = line.kind BY <1>1, <1>2
<1>4. /\ Whole(landing') /\ landing'.run = landing.run /\ landing'.lines = landing.lines
      /\ landing'.base = landing.base /\ landing'.effects = landing.effects
      /\ landing'.left = landing.left \ {i} /\ landing'.owed = landing.owed \ {n}
      /\ landing'.plan = landing.plan
    <2>1. PICK l : l = landing BY Zenon
    <2>2. Altered(landing', l, l.left \ {i}, l.owed \ {n}, l.plan)
        BY <1>1, <1>3, <2>1 DEF Whole, Altered
    <2>3. Whole(l) BY <1>1, <2>1
    <2>4. Whole(landing') /\ Kept(landing', l, l.left \ {i}, l.owed \ {n}, l.plan)
        BY <2>2, <2>3, WholeExcept
    <2>5. QED BY <2>1, <2>4 DEF Kept
<1>5. GoesOn BY <1>4 DEF GoesOn, Whole
<1>6. book[n] = NoRun /\ ~Drawn(n) /\ (~landing.plan => kind = "Released")
    BY <1>2, <1>3 DEF CInv, LandingSound
<1>7. Undisturbed => ~Ended(n) BY <1>2, <1>3 DEF CInv, Quietly, EndedOnce
<1>8. Records(kind, n, landing.run) BY <1>3
<1>9. /\ CityTypes' /\ Counted' /\ LandingType' /\ \A q \in Runs : Fits(q, desk[q])'
      /\ DrawnOnce' /\ ReleasedIsReady' /\ OpenIsOwed'
      /\ (Undisturbed' => Undisturbed /\ EndedOnce')
      /\ last'[n].kind = kind /\ (kind \in Stops => stopped'[n] = stops + 1)
      /\ \A m \in Nodes \ {n} : last'[m] = last[m] /\ stopped'[m] = stopped[m]
    BY <1>4, <1>5, <1>6, <1>7, <1>8, RecordKeeps
<1>10. Idle' = Idle /\ (\A m : Drawn(m)' = Drawn(m)) /\ Written' = Written \cup {i}
       /\ \A w : NewestWritten(w)' =
                (\A j \in Written \cup {i} : j > w => landing.lines[j].node # landing.lines[w].node)
    <2>1. Idle' = Idle /\ (\A m : Drawn(m)' = Drawn(m)) BY <1>4 DEF Idle, Drawn
    <2>2. Written' = Written \cup {i} BY <1>1, <1>2, <1>4 DEF Written
    <2>3. QED BY <1>4, <2>1, <2>2 DEF NewestWritten
<1>11. LandingSound'
    <2>1. ASSUME NEW w \in Written \cup {i}, NEW j \in landing.left \ {i} PROVE w < j
        <3>1. CASE w = i
            <4>1. i \in Nat /\ j \in Nat /\ i <= j /\ i # j BY <1>1, <1>2
            <4>2. QED BY <3>1, <4>1
        <3>2. CASE w \in Written BY <2>1, <3>2 DEF CInv, LandingSound
        <3>3. QED BY <3>1, <3>2
    <2>2. QED BY <1>4, <1>10, <2>1 DEF CInv, LandingSound
<1>12. PlanSound'
    <2>1. SUFFICES ASSUME landing.plan
                   PROVE  \A w \in Written \cup {i} :
                            /\ landing.lines[w].node \notin landing'.owed
                            /\ NewestWritten(w)' =>
                                /\ last'[landing.lines[w].node].kind = landing.lines[w].kind
                                /\ landing.lines[w].kind \in Stops =>
                                    \A q \in Runs : desk[q].at \in Flying =>
                                        stopped'[landing.lines[w].node] > desk[q].read
        <3>1. landing.plan =>
                /\ Told(landing'.effects) /\ Ends(landing'.effects, NoNode)
                /\ StillTrue(landing'.base, landing'.effects)
                /\ landing'.lines = ClosingLines(landing'.effects, FALSE)
                /\ \A j \in DOMAIN landing'.effects :
                    book'[landing'.effects[j].node] = NoRun /\ ~Drawn(landing.effects[j].node)'
            <4>1. PICK e : e = landing.effects /\ e = landing'.effects BY <1>4
            <4>2. landing.plan =>
                    /\ Told(e) /\ Ends(e, NoNode) /\ StillTrue(landing.base, e)
                    /\ landing.lines = ClosingLines(e, FALSE)
                    /\ \A j \in DOMAIN e : book[e[j].node] = NoRun /\ ~Drawn(e[j].node)
                BY <4>1 DEF CInv, PlanSound
            <4>3. \A j \in DOMAIN e : Drawn(landing.effects[j].node)' = Drawn(e[j].node)
                BY <4>1 DEF Drawn
            <4>4. landing.plan =>
                    /\ Told(landing'.effects) /\ Ends(landing'.effects, NoNode)
                    /\ StillTrue(landing'.base, landing'.effects)
                    /\ landing'.lines = ClosingLines(landing'.effects, FALSE)
                BY <1>4, <4>1, <4>2
            <4>5. landing.plan => \A j \in DOMAIN e : ~Drawn(landing.effects[j].node)'
                BY <4>2, <4>3
            <4>6. landing.plan => \A j \in DOMAIN e : book'[landing'.effects[j].node] = NoRun
                BY <4>1, <4>2
            <4>7. QED BY <4>1, <4>4, <4>5, <4>6
        <3>3. landing'.plan = landing.plan /\ Idle' = Idle BY <1>4, <1>10
        <3>4. ASSUME landing.plan
              PROVE  \A w \in Written' :
                        /\ landing'.lines[w].node \notin landing'.owed
                        /\ NewestWritten(w)' =>
                            /\ last'[landing'.lines[w].node].kind = landing'.lines[w].kind
                            /\ landing'.lines[w].kind \in Stops =>
                                \A r \in Runs : desk'[r].at \in Flying =>
                                    stopped'[landing'.lines[w].node] > desk'[r].read
            BY <1>4, <1>10, <2>1, <3>4
        <3>5. QED BY <3>1, <3>3, <3>4 DEF PlanSound
    <2>3. ASSUME NEW w \in Written
          PROVE  /\ landing.lines[w].node \notin landing'.owed
                 /\ NewestWritten(w)' =>
                     /\ last'[landing.lines[w].node].kind = landing.lines[w].kind
                     /\ landing.lines[w].kind \in Stops =>
                         \A q \in Runs : desk[q].at \in Flying =>
                             stopped'[landing.lines[w].node] > desk[q].read
        <3>1. landing.lines[w].node \notin landing.owed BY <2>1 DEF CInv, PlanSound
        <3>2. ASSUME NewestWritten(w)'
              PROVE  NewestWritten(w) /\ landing.lines[w].node \in Nodes \ {n}
            <4>1. \A j \in Written \cup {i} : j > w => landing.lines[j].node # landing.lines[w].node
                BY <1>10, <3>2
            <4>2. i > w
                <5>1. w \in Nat /\ i \in Nat BY <1>1, <1>2 DEF Written
                <5>2. w < i BY <1>2 DEF CInv, LandingSound
                <5>3. QED BY <5>1, <5>2
            <4>3. NewestWritten(w) BY <4>1 DEF NewestWritten
            <4>4. landing.lines[w].node \in Nodes BY <1>1 DEF Written
            <4>5. QED BY <1>3, <4>1, <4>2, <4>3, <4>4
        <3>3. NewestWritten(w) =>
                /\ last[landing.lines[w].node].kind = landing.lines[w].kind
                /\ landing.lines[w].kind \in Stops =>
                    \A q \in Runs : desk[q].at \in Flying =>
                        stopped[landing.lines[w].node] > desk[q].read
            BY <2>1 DEF CInv, PlanSound
        <3>4. QED BY <1>4, <1>9, <3>1, <3>2, <3>3
    <2>4. /\ landing.lines[i].node \notin landing'.owed
          /\ last'[landing.lines[i].node].kind = landing.lines[i].kind
          /\ landing.lines[i].kind \in Stops =>
                \A q \in Runs : desk[q].at \in Flying =>
                    stopped'[landing.lines[i].node] > desk[q].read
        <3>1. \A q \in Runs : stops + 1 > desk[q].read
            <4>1. \A q \in Runs : stops \in Nat /\ desk[q].read \in 0..stops BY DeskFacts
            <4>2. QED BY <4>1
        <3>2. QED BY <1>3, <1>4, <1>9, <3>1
    <2>5. QED BY <2>3, <2>4
<1>13. Quietly'
    <2>1. SUFFICES ASSUME Undisturbed' PROVE FileAgrees' BY <1>9 DEF Quietly
    <2>2. Undisturbed /\ FileAgrees BY <1>9, <2>1 DEF CInv, Quietly
    <2>3. ASSUME NEW m \in Nodes
          PROVE  \/ Agrees(m)'
                 \/ landing.plan /\ \E w \in Written \cup {i} : landing.lines[w].node = m
        <3>1. CASE m # n BY <1>9, <2>2, <3>1 DEF FileAgrees, Agrees
        <3>2. CASE m = n /\ landing.plan BY <1>3, <3>2
        <3>3. CASE m = n /\ ~landing.plan
            <4>1. file[n] \in Status /\ ~Ended(n) BY <1>7, <2>2 DEF CInv, CityTypes
            <4>2. file[n] \in {"Absent", "NotStarted"} BY <4>1 DEF Status, Ended
            <4>3. last'[n].kind = "Released" BY <1>6, <1>9, <3>3
            <4>4. QED BY <3>3, <4>2, <4>3 DEF Agrees
        <3>4. QED BY <1>1, <3>1, <3>2, <3>3
    <2>4. QED BY <1>4, <1>10, <2>2, <2>3 DEF FileAgrees
<1>14. QED BY <1>9, <1>11, <1>12, <1>13 DEF CInv

(* A landing that fails, and a put-back that is refused: nothing more is   *)
(* written, and what is still owed stays owed or is given up for lost.     *)
LEMMA FailKeeps ==
    ASSUME CInv, GoesOn, ~Undisturbed', Counted', landing'.left = {}, landing'.plan = FALSE,
           \/ lost' = lost /\ landing'.owed = landing.owed
           \/ lost' = lost \cup {landing.run} /\ landing'.owed = {},
           UNCHANGED <<file, last, open, book, stopped, stops, desk>>
    PROVE  CInv'
<1>1. ~Idle /\ landing'.run = landing.run /\ landing'.lines = landing.lines
      /\ landing'.effects = landing.effects /\ landing'.owed \subseteq landing.owed
      /\ Whole(landing)'
    BY DEF GoesOn
<1>2. /\ landing.run \in Runs /\ landing.effects \in Seq(Effect)
      /\ DOMAIN landing.lines \subseteq Nat
      /\ \A i \in DOMAIN landing.lines : landing.lines[i] \in [kind : Closings, node : Nodes]
      /\ landing.owed \subseteq Nodes
    BY <1>1, LandingFacts
<1>3. CityTypes'
    <2>1. lost' \subseteq Runs BY <1>2 DEF CInv, CityTypes
    <2>2. \A q \in Runs : desk'[q].at = "landing" <=> landing'.run = q
        BY <1>1 DEF CInv, CityTypes
    <2>3. QED BY <1>1, <1>2, <2>1, <2>2 DEF CInv, CityTypes
<1>4. LandingType' BY <1>1, <1>2 DEF LandingType
<1>5. \A q \in Runs : Fits(q, desk[q])'
    <2>1. ASSUME NEW q \in Runs PROVE Fits(q, desk[q])'
        <3>1. Fits(q, desk[q]) BY DEF CInv
        <3>2. QED BY <3>1 DEF Fits
    <2>2. QED BY <2>1
<1>6. Idle' = Idle /\ \A m : Drawn(m)' = Drawn(m) BY <1>1 DEF Idle, Drawn
<1>7. LandingSound' BY <1>1, <1>6 DEF CInv, LandingSound
<1>8. PlanSound' BY DEF PlanSound
<1>9. DrawnOnce' BY <1>6 DEF CInv, DrawnOnce
<1>10. ReleasedIsReady' BY DEF CInv, ReleasedIsReady
<1>11. OpenIsOwed' BY <1>1 DEF CInv, OpenIsOwed
<1>12. Quietly' BY DEF Quietly
<1>13. QED BY <1>3, <1>4, <1>5, <1>7, <1>8, <1>9, <1>10, <1>11, <1>12 DEF CInv

(* A refused write is counted.                                             *)
LEMMA RefuseCounts ==
    ASSUME CInv, NEW write, Refuse(write), UNCHANGED <<edits, crashes>>
    PROVE  Counted' /\ ~Undisturbed'
<1>1. edits \in Nat /\ crashes \in Nat /\ refusals \in Nat /\ refusals' = refusals + 1
    BY DEF CInv, Counted, Refuse
<1>2. Counted' BY <1>1 DEF Counted
<1>3. refusals' # 0 BY <1>1
<1>4. QED BY <1>2, <1>3 DEF Undisturbed, counters

(* A landing that fails keeps its lines and what it owes.                  *)
LEMMA FailedGoesOn ==
    ASSUME CInv, ~Idle, landing' = Failed
    PROVE  GoesOn /\ landing'.left = {} /\ landing'.plan = FALSE /\ landing'.owed = landing.owed
<1>1. Whole(landing) BY LandingFacts
<1>2. PICK l : l = landing BY Zenon
<1>3. Altered(landing', l, {}, l.owed, FALSE) /\ Whole(l) BY <1>1, <1>2 DEF Failed, Whole, Altered
<1>4. Whole(landing') /\ Kept(landing', l, {}, l.owed, FALSE) BY <1>3, WholeExcept
<1>5. QED BY <1>2, <1>4 DEF Kept, GoesOn, Whole

(* record_closing.                                                         *)
LEMMA CloseKeeps ==
    ASSUME CInv, Close
    PROVE  CInv'
<1>1. ~Idle /\ landing.left # {} /\ UNCHANGED <<file, book, desk, lost, edits, crashes>>
    BY DEF Close
<1>2. CASE /\ Refuse("closing") /\ landing' = Failed
           /\ UNCHANGED <<last, open, stopped, stops>>
    <2>1. Counted' /\ ~Undisturbed' BY <1>1, <1>2, RefuseCounts
    <2>2. GoesOn /\ landing'.left = {} /\ landing'.plan = FALSE /\ landing'.owed = landing.owed
        BY <1>1, <1>2, FailedGoesOn
    <2>3. QED BY <1>1, <1>2, <2>1, <2>2, FailKeeps
<1>3. PICK i : i = Min(landing.left) BY Zenon
<1>4. PICK line : line = landing.lines[i] BY Zenon
<1>5. CASE Closes(i, line) BY <1>1, <1>3, <1>4, <1>5, ClosedKeeps
<1>6. QED BY <1>2, <1>3, <1>4, <1>5 DEF Close, Closes

(* give_back_claims: a node still owed is handed back.                     *)
LEMMA HandedBackKeeps ==
    ASSUME CInv, ~Idle, landing.left = {}, ~landing.plan, NEW n \in landing.owed,
           Records("Released", n, landing.run),
           landing' = [landing EXCEPT !.owed = @ \ {n}],
           UNCHANGED <<file, book, desk, lost, edits, crashes, refusals>>
    PROVE  CInv'
<1>1. Whole(landing) /\ landing.owed \subseteq Nodes /\ landing.plan \in BOOLEAN
    BY LandingFacts
<1>2. GoesOn /\ landing'.left = {} /\ landing'.plan = landing.plan
      /\ landing'.owed = landing.owed \ {n}
    <2>1. PICK l : l = landing BY Zenon
    <2>2. Altered(landing', l, l.left, l.owed \ {n}, l.plan) /\ Whole(l)
        BY <1>1, <2>1 DEF Whole, Altered
    <2>3. Whole(landing') /\ Kept(landing', l, l.left, l.owed \ {n}, l.plan)
        BY <2>2, WholeExcept
    <2>4. QED BY <2>1, <2>3 DEF Kept, GoesOn, Whole
<1>3. n \in Nodes /\ book[n] = NoRun /\ ~Drawn(n) BY <1>1 DEF CInv, LandingSound
<1>4. Undisturbed => ~Ended(n) BY <1>3 DEF CInv, Quietly, EndedOnce
<1>5. PICK kind \in Closings : kind = "Released" BY DEF Closings
<1>6. Records(kind, n, landing.run) BY <1>5
<1>9. /\ CityTypes' /\ Counted' /\ LandingType' /\ \A q \in Runs : Fits(q, desk[q])'
      /\ DrawnOnce' /\ ReleasedIsReady' /\ OpenIsOwed'
      /\ (Undisturbed' => Undisturbed /\ EndedOnce')
      /\ last'[n].kind = kind /\ (kind \in Stops => stopped'[n] = stops + 1)
      /\ \A m \in Nodes \ {n} : last'[m] = last[m] /\ stopped'[m] = stopped[m]
    BY <1>2, <1>3, <1>4, <1>6, RecordKeeps
<1>10. Idle' = Idle /\ \A m : Drawn(m)' = Drawn(m) BY <1>2 DEF Idle, Drawn, GoesOn
<1>11. LandingSound' BY <1>2, <1>10 DEF CInv, LandingSound
<1>12. PlanSound' BY <1>2 DEF PlanSound
<1>13. Quietly'
    <2>1. SUFFICES ASSUME Undisturbed' PROVE FileAgrees' BY <1>9 DEF Quietly
    <2>2. Undisturbed /\ FileAgrees BY <1>9, <2>1 DEF CInv, Quietly
    <2>3. ASSUME NEW m \in Nodes PROVE Agrees(m)'
        <3>1. Agrees(m) BY <2>2 DEF FileAgrees
        <3>2. CASE m # n BY <1>9, <3>1, <3>2 DEF Agrees
        <3>3. CASE m = n
            <4>1. file[n] \in Status /\ ~Ended(n) BY <1>3, <1>4, <2>2 DEF CInv, CityTypes
            <4>2. file[n] \in {"Absent", "NotStarted"} BY <4>1 DEF Status, Ended
            <4>3. QED BY <1>5, <1>9, <3>3, <4>2 DEF Agrees
        <3>4. QED BY <3>2, <3>3
    <2>4. QED BY <1>2, <2>3 DEF FileAgrees
<1>14. QED BY <1>9, <1>11, <1>12, <1>13 DEF CInv

(* give_back_claims.                                                       *)
LEMMA PutBackKeeps ==
    ASSUME CInv, PutBack
    PROVE  CInv'
<1>1. ~Idle /\ landing.left = {} /\ ~landing.plan /\ UNCHANGED <<file, book, desk, edits, crashes>>
    BY DEF PutBack
<1>2. PICK n \in landing.owed :
        \/ /\ Refuse("put_back")
           /\ landing' = [landing EXCEPT !.owed = {}]
           /\ lost' = lost \cup {landing.run}
           /\ UNCHANGED <<last, open, stopped, stops>>
        \/ /\ Records("Released", n, landing.run)
           /\ landing' = [landing EXCEPT !.owed = @ \ {n}]
           /\ UNCHANGED <<lost, refusals>>
    BY DEF PutBack
<1>3. CASE /\ Refuse("put_back")
           /\ landing' = [landing EXCEPT !.owed = {}]
           /\ lost' = lost \cup {landing.run}
           /\ UNCHANGED <<last, open, stopped, stops>>
    <2>1. Counted' /\ ~Undisturbed' BY <1>1, <1>3, RefuseCounts
    <2>2. Whole(landing) /\ landing.plan \in BOOLEAN BY <1>1, LandingFacts
    <2>3. PICK l : l = landing BY Zenon
    <2>4. Altered(landing', l, l.left, {}, l.plan) /\ Whole(l)
        BY <1>3, <2>2, <2>3 DEF Whole, Altered
    <2>5. Whole(landing') /\ Kept(landing', l, l.left, {}, l.plan) BY <2>4, WholeExcept
    <2>6. GoesOn /\ landing'.left = {} /\ landing'.plan = FALSE /\ landing'.owed = {}
        BY <1>1, <2>2, <2>3, <2>5 DEF Kept, GoesOn, Whole
    <2>7. QED BY <1>1, <1>3, <2>1, <2>6, FailKeeps
<1>4. CASE /\ Records("Released", n, landing.run)
           /\ landing' = [landing EXCEPT !.owed = @ \ {n}]
           /\ UNCHANGED <<lost, refusals>>
    BY <1>1, <1>4, HandedBackKeeps
<1>5. QED BY <1>2, <1>3, <1>4

(* The landing is over: every claim of the run is closed or lost.          *)
LEMMA LandedKeeps ==
    ASSUME CInv, Landed
    PROVE  CInv'
<1>1. /\ ~Idle /\ landing.left = {} /\ ~landing.plan /\ landing.owed = {}
      /\ landing' = NoLanding
      /\ UNCHANGED <<file, last, open, book, stopped, stops, lost, edits, crashes, refusals>>
    BY DEF Landed, counters
<1>2. NoRun \notin Runs BY ClaimsAssumption
<1>3. landing.run \in Runs /\ landing.plan \in BOOLEAN BY <1>1, LandingFacts
<1>4. PICK r \in Runs : r = landing.run BY <1>3
<1>5. PICK d : d = [NewDesk EXCEPT !.at = "landed"] /\ desk' = [desk EXCEPT ![r] = d]
    BY <1>4 DEF Landed
<1>6. /\ d \in Desks(stops) /\ d.at = "landed" /\ d.held = NoNode /\ d.effects = <<>>
      /\ d.read = 0 /\ Sound(d.effects, d.held, d.text)
    <2>1. "landed" \in Where \ Out BY DEF Where, Out, Flying
    <2>2. QED BY <1>5, <2>1, EmptyDesk
<1>7. desk' \in [Runs -> Desks(stops)] /\ desk'[r] = d /\ \A q \in Runs \ {r} : desk'[q] = desk[q]
    <2>1. desk \in [Runs -> Desks(stops)] BY DEF CInv, CityTypes, Desks
    <2>2. QED BY <1>5, <1>6, <2>1
<1>8. Idle' /\ landing'.run = NoRun BY <1>1 DEF Idle, NoLanding
<1>9. /\ \A m : Drawn(m)' = Drawn(m) /\ Ended(m)' = Ended(m) /\ Agrees(m)' = Agrees(m)
      /\ Undisturbed' = Undisturbed /\ Counted'
    BY <1>1 DEF CInv, Counted, Drawn, Ended, Agrees, Undisturbed, counters
<1>10. CityTypes'
    <2>1. \A q \in Runs : desk'[q].at # "landing" /\ landing'.run # q
        <3>1. \A q \in Runs : desk[q].at = "landing" => q = r BY <1>4 DEF CInv, CityTypes
        <3>2. QED BY <1>2, <1>6, <1>7, <1>8, <3>1
    <2>2. desk' \in [Runs -> Desks(stops')] BY <1>1, <1>7
    <2>3. QED BY <1>1, <1>8, <2>1, <2>2 DEF CInv, CityTypes, Desks
<1>11. ASSUME NEW q \in Runs PROVE Fits(q, desk[q])'
    <2>1. CASE q = r BY <1>6, <1>7, <2>1 DEF Fits, Out, Flying
    <2>2. CASE q # r
        <3>1. Fits(q, desk[q]) BY DEF CInv
        <3>2. QED BY <1>1, <1>7, <2>2, <3>1 DEF Fits
    <2>3. QED BY <2>1, <2>2
<1>12. LandingType' /\ LandingSound' /\ PlanSound' BY <1>8 DEF LandingType, LandingSound, PlanSound
<1>13. \A q \in Runs : (desk'[q].at \in Flying => q # r)
    BY <1>6, <1>7 DEF Flying
<1>14. DrawnOnce' BY <1>1, <1>7, <1>9, <1>13 DEF CInv, DrawnOnce
<1>15. ReleasedIsReady' BY <1>1 DEF CInv, ReleasedIsReady
<1>16. OpenIsOwed'
    <2>1. desk[r].at = "landing" /\ "landing" \notin Out BY <1>4 DEF CInv, CityTypes, Out, Flying
    <2>2. \A q \in Runs : desk[q].at \in Out => desk'[q] = desk[q] BY <1>7, <2>1
    <2>3. QED BY <1>1, <2>2 DEF CInv, OpenIsOwed
<1>17. Quietly'
    <2>1. SUFFICES ASSUME Undisturbed PROVE EndedOnce' /\ FileAgrees' BY <1>9 DEF Quietly
    <2>2. EndedOnce /\ FileAgrees BY <2>1 DEF CInv, Quietly
    <2>3. EndedOnce' BY <1>1, <1>7, <1>8, <1>9, <1>13, <2>2 DEF EndedOnce
    <2>4. FileAgrees' BY <1>1, <1>8, <1>9, <2>2 DEF FileAgrees
    <2>5. QED BY <2>3, <2>4
<1>18. QED BY <1>9, <1>10, <1>11, <1>12, <1>14, <1>15, <1>16, <1>17 DEF CInv

-----------------------------------------------------------------------------
(* A person and a crash.                                                   *)

(* A person edits the plan file: no row appears or goes.                   *)
LEMMA EditKeeps ==
    ASSUME CInv, NEW n \in Nodes, NEW s \in {"NotStarted", "Done", "Blocked"}, Edit(n, s)
    PROVE  CInv' /\ edits' # edits
<1>1. /\ edits' = edits + 1 /\ file[n] # "Absent" /\ file' = [file EXCEPT ![n] = s]
      /\ UNCHANGED <<last, open, book, stopped, stops, desk, landing, lost, crashes, refusals>>
    BY DEF Edit
<1>2. edits \in Nat /\ crashes \in Nat /\ refusals \in Nat BY DEF CInv, Counted
<1>3. Counted' /\ edits' # edits /\ ~Undisturbed'
    <2>1. Counted' BY <1>1, <1>2 DEF Counted
    <2>2. edits' # 0 /\ edits' # edits BY <1>1, <1>2
    <2>3. QED BY <2>1, <2>2 DEF Undisturbed, counters
<1>4. file \in [Nodes -> Status] /\ Kids \in [Nodes -> SUBSET Nodes]
    BY ClaimsAssumption DEF CInv, CityTypes
<1>5. file' \in [Nodes -> Status] /\ \A k \in Nodes : file'[k] = "Absent" <=> file[k] = "Absent"
    BY <1>1, <1>4 DEF Status
<1>6. CityTypes' BY <1>1, <1>5 DEF CInv, CityTypes, Idle
<1>7. Idle' = Idle /\ Written' = Written /\ (\A m \in Nodes : Drawn(m)' = Drawn(m))
      /\ \A i : NewestWritten(i)' = NewestWritten(i)
    <2>1. ASSUME NEW m \in Nodes PROVE Drawn(m)' = Drawn(m) BY <1>4, <1>5 DEF Drawn
    <2>2. QED BY <1>1, <2>1 DEF Idle, Written, NewestWritten
<1>8. LandingType' BY <1>1 DEF CInv, LandingType, Idle
<1>9. ASSUME NEW q \in Runs PROVE Fits(q, desk[q])'
    <2>1. Fits(q, desk[q]) BY DEF CInv
    <2>2. QED BY <1>1, <2>1 DEF Fits
<1>10. LandingSound'
    <2>1. ~Idle => /\ \A i \in landing.left : landing.lines[i].node \in Nodes
                   /\ landing.owed \subseteq Nodes
        BY LandingFacts
    <2>2. QED BY <1>1, <1>7, <2>1 DEF CInv, LandingSound
<1>11. PlanSound'
    <2>1. ~Idle => \A i \in DOMAIN landing.effects : landing.effects[i].node \in Nodes
        <3>1. ~Idle => landing.effects \in Seq(Effect) BY LandingFacts
        <3>2. ~Idle => \A i \in DOMAIN landing.effects : landing.effects[i] \in Effect BY <3>1
        <3>3. QED BY <3>2 DEF Effect
    <2>2. QED BY <1>1, <1>7, <2>1 DEF CInv, PlanSound
<1>12. DrawnOnce' BY <1>1, <1>7 DEF CInv, DrawnOnce
<1>13. ReleasedIsReady' BY <1>1 DEF CInv, ReleasedIsReady
<1>14. OpenIsOwed' BY <1>1 DEF CInv, OpenIsOwed
<1>15. Quietly' BY <1>3 DEF Quietly
<1>16. QED BY <1>3, <1>6, <1>8, <1>9, <1>10, <1>11, <1>12, <1>13, <1>14, <1>15 DEF CInv

(* The process dies: the book is empty and every run in flight is lost.    *)
LEMMA CrashKeeps ==
    ASSUME CInv, Crash
    PROVE  CInv'
<1>1. /\ crashes' = crashes + 1 /\ book' = [n \in Nodes |-> NoRun]
      /\ stopped' = [n \in Nodes |-> 0] /\ stops' = 0 /\ landing' = NoLanding
      /\ lost' = lost \cup {r \in Runs : desk[r].at \notin {"staged", "landed"}}
      /\ UNCHANGED <<file, last, open, edits, refusals>>
    BY DEF Crash
<1>2. PICK d : d = [NewDesk EXCEPT !.at = "landed"]
               /\ desk' = [r \in Runs |->
                            IF desk[r].at \in {"staged", "landed"} THEN desk[r] ELSE d]
    BY DEF Crash
<1>3. /\ d \in Desks(stops) /\ d.at = "landed" /\ d.held = NoNode /\ d.effects = <<>>
      /\ d.read = 0 /\ Sound(d.effects, d.held, d.text)
    <2>1. "landed" \in Where \ Out BY DEF Where, Out, Flying
    <2>2. QED BY <1>2, <2>1, EmptyDesk
<1>4. Counted' /\ ~Undisturbed'
    <2>1. edits \in Nat /\ crashes \in Nat /\ refusals \in Nat BY DEF CInv, Counted
    <2>2. Counted' BY <1>1, <2>1 DEF Counted
    <2>3. crashes' # 0 BY <1>1, <2>1
    <2>4. QED BY <2>2, <2>3 DEF Undisturbed, counters
<1>5. ASSUME NEW q \in Runs
      PROVE  /\ desk'[q] \in Desks(0) /\ desk'[q].at \in {"staged", "landed"}
             /\ desk'[q].held = NoNode /\ desk'[q].effects = <<>> /\ desk'[q].read = 0
             /\ Sound(desk'[q].effects, desk'[q].held, desk'[q].text)
    <2>1. PICK f : f = desk'[q] /\ f \in Desks(stops) /\ f.at \in {"staged", "landed"}
                   /\ f.held = NoNode /\ f.effects = <<>> /\ f.read = 0
                   /\ Sound(f.effects, f.held, f.text)
        <3>1. CASE desk[q].at \in {"staged", "landed"}
            <4>1. desk'[q] = desk[q] BY <1>2, <3>1
            <4>2. desk[q] \in Desks(stops) /\ Fits(q, desk[q]) BY DeskFacts
            <4>3. desk[q].at \notin Out BY <3>1 DEF Out, Flying
            <4>4. QED BY <3>1, <4>1, <4>2, <4>3 DEF Fits
        <3>2. CASE desk[q].at \notin {"staged", "landed"}
            <4>1. desk'[q] = d BY <1>2, <3>2
            <4>2. QED BY <1>3, <4>1
        <3>3. QED BY <3>1, <3>2
    <2>2. f \in Desks(0) BY <2>1 DEF Desks
    <2>3. QED BY <2>1, <2>2
<1>6. Idle' /\ landing'.run = NoRun /\ NoRun \notin Runs
    BY <1>1, ClaimsAssumption DEF Idle, NoLanding
<1>7. CityTypes'
    <2>1. \A q \in Runs : desk'[q].at = "landing" <=> landing'.run = q BY <1>5, <1>6
    <2>2. desk' \in [Runs -> Desks(stops')] BY <1>1, <1>2, <1>5
    <2>3. stops' \in Nat /\ stopped' \in [Nodes -> 0..stops'] BY <1>1
    <2>4. book' \in [Nodes -> Runs \cup {NoRun}] /\ lost' \subseteq Runs BY <1>1 DEF CInv, CityTypes
    <2>5. QED BY <1>1, <1>6, <2>1, <2>2, <2>3, <2>4 DEF CInv, CityTypes, Desks
<1>8. LandingType' /\ LandingSound' /\ PlanSound' BY <1>6 DEF LandingType, LandingSound, PlanSound
<1>9. \A q \in Runs : Fits(q, desk[q])' BY <1>5 DEF Fits
<1>10. DrawnOnce'
    <2>1. \A q \in Runs : desk'[q].at \notin Flying BY <1>5 DEF Flying
    <2>2. QED BY <1>1, <2>1 DEF DrawnOnce
<1>11. ReleasedIsReady' BY <1>1 DEF ReleasedIsReady
<1>12. OpenIsOwed'
    <2>1. ASSUME NEW q \in Runs \ lost', NEW m \in Nodes, q \in open[m] PROVE FALSE
        <3>1. q \notin lost /\ desk[q].at \in {"staged", "landed"} BY <1>1, <2>1
        <3>2. desk[q].at \notin Out /\ landing.run # q BY <3>1 DEF CInv, CityTypes, Out, Flying
        <3>3. QED BY <2>1, <3>1, <3>2 DEF CInv, OpenIsOwed
    <2>2. QED BY <1>1, <2>1 DEF OpenIsOwed
<1>13. Quietly' BY <1>4 DEF Quietly
<1>14. QED BY <1>4, <1>7, <1>8, <1>9, <1>10, <1>11, <1>12, <1>13 DEF CInv

(* Nothing moves.                                                          *)
LEMMA StutterKeeps ==
    ASSUME CInv, UNCHANGED <<file, last, open, book, stopped, stops, desk, landing, lost>>,
           UNCHANGED <<edits, crashes, refusals>>
    PROVE  CInv'
<1>1. UNCHANGED <<file, last, open, book, stopped, stops, desk, landing, lost, edits, crashes,
                  refusals>>
    OBVIOUS
<1>2. CityTypes' /\ Counted' /\ LandingType' /\ ReleasedIsReady' /\ OpenIsOwed'
    BY <1>1 DEF CInv, CityTypes, Counted, LandingType, ReleasedIsReady, OpenIsOwed, Idle
<1>3. ASSUME NEW q \in Runs PROVE Fits(q, desk[q])'
    <2>1. Fits(q, desk[q]) BY DEF CInv
    <2>2. QED BY <1>1, <2>1 DEF Fits
<1>4. Idle' = Idle /\ Written' = Written /\ (\A m : Drawn(m)' = Drawn(m) /\ Ended(m)' = Ended(m)
                                                     /\ Agrees(m)' = Agrees(m))
      /\ (\A i : NewestWritten(i)' = NewestWritten(i)) /\ Undisturbed' = Undisturbed
    BY <1>1 DEF Idle, Written, Drawn, Ended, Agrees, NewestWritten, Undisturbed, counters
<1>5. LandingSound' /\ PlanSound' /\ DrawnOnce'
    BY <1>1, <1>4 DEF CInv, LandingSound, PlanSound, DrawnOnce
<1>6. Quietly' BY <1>1, <1>4 DEF CInv, Quietly, EndedOnce, FileAgrees
<1>7. QED BY <1>2, <1>3, <1>5, <1>6 DEF CInv

-----------------------------------------------------------------------------
(* The plan is written.                                                    *)

(* The row a closing line leaves: a split leaves it as its claim did. *)
Closed(kind) == IF kind = "Split" THEN "InProgress" ELSE StatusAfter(kind)

(* The last word of the effects on a node is a closing one, and the row    *)
(* reads as it says.                                                       *)
LEMMA LastWord ==
    ASSUME NEW text, NEW e \in Seq(Effect), Told(e), Ends(e, NoNode), NEW n \in Nodes,
           NEW w \in DOMAIN e, e[w].node = n
    PROVE  \E j \in DOMAIN e : /\ e[j].node = n /\ e[j].kind \in Closings
                               /\ \A l \in DOMAIN e : l > j => e[l].node # n
                               /\ Applied(text, e)[n] = Closed(e[j].kind)
<1> DEFINE S == {j \in DOMAIN e : e[j].node = n}
<1>1. PICK j \in S : \A l \in S : l <= j BY FirstAndLast
<1>2. DOMAIN e \subseteq Nat /\ j \in DOMAIN e /\ e[j].node = n OBVIOUS
<1>3. \A l \in DOMAIN e : l > j => e[l].node # n BY <1>1, <1>2
<1>4. e[j].kind \in Closings
    <2>1. e[j] \in Effect /\ NoNode \notin Nodes BY <1>2, ClaimsAssumption
    <2>2. e[j].kind # "Claimed" BY <1>2, <1>3, <2>1 DEF Ends
    <2>3. QED BY <2>1, <2>2 DEF Effect
<1>5. \A l \in DOMAIN e : Draws(e[l], n) =>
            \A v \in DOMAIN e : e[v].node = n => v > l
    BY DEF Told, Draws
<1>6. CASE e[j].kind # "Split"
    <2>1. Touches(e[j], n) /\ ~Draws(e[j], n) BY <1>2, <1>6 DEF Touches, Moves, Draws
    <2>2. \A l \in DOMAIN e : l > j => ~Touches(e[l], n)
        BY <1>2, <1>3, <1>5 DEF Touches, Moves
    <2>3. Applied(text, e)[n] = Leaves(e[j], n) BY <1>2, <2>1, <2>2, AppliedNewest
    <2>4. QED BY <1>2, <1>3, <1>4, <1>6, <2>1, <2>3 DEF Leaves, Closed
<1>7. CASE e[j].kind = "Split"
    <2>1. PICK c \in DOMAIN e : /\ c < j /\ e[c].kind = "Claimed" /\ e[c].node = n
                                /\ \A l \in DOMAIN e : c < l /\ l < j => e[l].node # n
        <3>1. e[j].kind # "Claimed" BY <1>7
        <3>2. QED BY <1>2, <3>1 DEF Told
    <2>2. Touches(e[c], n) /\ ~Draws(e[c], n) BY <2>1 DEF Touches, Moves, Draws
    <2>3. ASSUME NEW l \in DOMAIN e, l > c PROVE ~Touches(e[l], n)
        <3>1. ~Draws(e[l], n)
            <4>1. l \in Nat /\ c \in Nat BY <1>2
            <4>2. ~(c > l) BY <2>3, <4>1
            <4>3. QED BY <1>5, <2>1, <4>2
        <3>2. ~Moves(e[l], n)
            <4>1. l \in Nat /\ c \in Nat /\ j \in Nat BY <1>2
            <4>2. CASE l < j
                <5>1. c < l BY <2>3, <4>1
                <5>2. QED BY <2>1, <4>2, <5>1 DEF Moves
            <4>3. CASE l = j BY <1>7, <4>3 DEF Moves
            <4>4. CASE l > j BY <1>3, <4>4 DEF Moves
            <4>5. QED BY <4>1, <4>2, <4>3, <4>4
        <3>3. QED BY <3>1, <3>2 DEF Touches
    <2>4. Applied(text, e)[n] = Leaves(e[c], n) BY <2>2, <2>3, AppliedNewest
    <2>5. Leaves(e[c], n) = "InProgress" BY <2>1, <2>2 DEF Leaves, StatusAfter
    <2>6. QED BY <1>2, <1>3, <1>4, <1>7, <2>4, <2>5 DEF Closed
<1>8. QED BY <1>6, <1>7

(* A row the effects are not about is drawn by a split or stays.           *)
LEMMA NoWord ==
    ASSUME NEW text, NEW e \in Seq(Effect), NEW n \in Nodes, \A i \in DOMAIN e : e[i].node # n
    PROVE  \/ Applied(text, e)[n] = text[n]
           \/ /\ Applied(text, e)[n] = "NotStarted"
              /\ \E j \in DOMAIN e : e[j].kind = "Split" /\ n \in Kids[e[j].node]
<1> DEFINE S == {j \in DOMAIN e : Touches(e[j], n)}
<1>1. CASE S = {} BY <1>1, AppliedUntouched
<1>2. CASE S # {}
    <2>1. PICK i \in S : \A j \in S : j <= i BY <1>2, FirstAndLast
    <2>2. \A j \in DOMAIN e : j > i => ~Touches(e[j], n)
        <3>1. DOMAIN e \subseteq Nat OBVIOUS
        <3>2. QED BY <2>1, <3>1
    <2>3. Applied(text, e)[n] = Leaves(e[i], n) BY <2>2, AppliedNewest
    <2>4. Draws(e[i], n) BY DEF Touches, Moves
    <2>5. QED BY <2>3, <2>4 DEF Leaves, Draws
<1>3. QED BY <1>1, <1>2

(* A landing that has written its lines has one of each closing effect.    *)
LEMMA AllWritten ==
    ASSUME CInv, ~Idle, landing.plan, landing.left = {}, NEW e, e = landing.effects
    PROVE  /\ e \in Seq(Effect) /\ Told(e) /\ Ends(e, NoNode) /\ StillTrue(landing.base, e)
           /\ \A i \in DOMAIN e : e[i].node \in Nodes /\ book[e[i].node] = NoRun
                                  /\ ~Drawn(e[i].node)
           /\ \A j \in DOMAIN e :
                e[j].kind \in Closings /\ (\A l \in DOMAIN e : l > j => e[l].node # e[j].node) =>
                    /\ e[j].node \notin landing.owed /\ last[e[j].node].kind = e[j].kind
                    /\ e[j].kind \in Stops =>
                        \A r \in Runs : desk[r].at \in Flying => stopped[e[j].node] > desk[r].read
           /\ \A i \in Written : \E j \in DOMAIN e : e[j].node = landing.lines[i].node
<1>1. e \in Seq(Effect) BY LandingFacts
<1>2. /\ Told(e) /\ Ends(e, NoNode) /\ StillTrue(landing.base, e)
      /\ landing.lines = ClosingLines(e, FALSE)
      /\ \A i \in DOMAIN e : book[e[i].node] = NoRun /\ ~Drawn(e[i].node)
    BY DEF CInv, PlanSound
<1>3. \A i \in DOMAIN e : e[i].node \in Nodes
    <2>1. \A i \in DOMAIN e : e[i] \in Effect BY <1>1
    <2>2. QED BY <2>1 DEF Effect
<1>4. PICK c : c = landing.lines BY Zenon
<1>5. LinesOf(e, c) /\ EachClosing(e, c)
    <2>1. c = ClosingLines(e, FALSE) BY <1>2, <1>4
    <2>2. PICK stale \in BOOLEAN : ~stale /\ stale = FALSE OBVIOUS
    <2>3. c = ClosingLines(e, stale) BY <2>1, <2>2
    <2>4. QED BY <1>1, <2>2, <2>3, ClosingFacts
<1>6. Written = DOMAIN c BY <1>4 DEF Written
<1>7. ASSUME NEW j \in DOMAIN e, e[j].kind \in Closings,
             \A l \in DOMAIN e : l > j => e[l].node # e[j].node
      PROVE  /\ e[j].node \notin landing.owed /\ last[e[j].node].kind = e[j].kind
             /\ e[j].kind \in Stops =>
                    \A r \in Runs : desk[r].at \in Flying => stopped[e[j].node] > desk[r].read
    <2>1. j \in Written BY <1>5, <1>6, <1>7 DEF EachClosing
    <2>2. landing.lines[j].node = e[j].node /\ landing.lines[j].kind = e[j].kind
        BY <1>4, <1>5, <1>6, <2>1 DEF LinesOf, EachClosing
    <2>3. NewestWritten(j)
        <3>1. \A l \in Written : l \in DOMAIN e /\ landing.lines[l].node = e[l].node
            BY <1>4, <1>5, <1>6 DEF LinesOf
        <3>2. QED BY <1>7, <2>2, <3>1 DEF NewestWritten
    <2>4. QED BY <2>1, <2>2, <2>3 DEF CInv, PlanSound
<1>8. \A i \in Written : \E j \in DOMAIN e : e[j].node = landing.lines[i].node
    BY <1>4, <1>5, <1>6 DEF LinesOf
<1>9. QED BY <1>1, <1>2, <1>3, <1>7, <1>8

(* The file has the rows of the text the landing started from. *)
SameRows ==
    /\ landing.base \in Texts
    /\ \A k \in Nodes : file[k] = "Absent" <=> landing.base[k] = "Absent"

(* A row a landing moves was not started in the text it started from, or   *)
(* was not in the plan.                                                    *)
LEMMA MovesOnlyReady ==
    ASSUME CInv, ~Idle, landing.plan, SameRows, NEW n \in Nodes,
           Applied(landing.base, landing.effects)[n] # landing.base[n]
    PROVE  \/ landing.base[n] = "NotStarted"
           \/ /\ landing.base[n] = "Absent"
              /\ \E j \in DOMAIN landing.effects : landing.effects[j].kind = "Split"
                                                   /\ n \in Kids[landing.effects[j].node]
<1>1. PICK e : e = landing.effects BY Zenon
<1>2. PICK base \in Texts : base = landing.base BY Zenon DEF SameRows
<1>3. e \in Seq(Effect) BY <1>1, LandingFacts
<1>4. Told(e) /\ StillTrue(base, e) /\ \A i \in DOMAIN e : ~Drawn(e[i].node)
    BY <1>1, <1>2 DEF CInv, PlanSound
<1>5. PICK i \in DOMAIN e : Touches(e[i], n) BY <1>1, <1>2, AppliedUntouched
<1>6. \/ base[n] = "NotStarted"
      \/ \E j \in DOMAIN e : e[j].kind = "Split" /\ n \in Kids[e[j].node]
    BY <1>3, <1>4, <1>5, FirstTouch
<1>7. QED BY <1>1, <1>2, <1>4, <1>6 DEF Drawn, SameRows

(* carry_out_landing: the plan file is replaced by the replayed text.      *)
LEMMA PlanWrittenKeeps ==
    ASSUME CInv, ~Idle, landing.left = {}, landing.plan, SameRows,
           file' = Applied(landing.base, landing.effects), landing' = Failed,
           Counted', Undisturbed' => Undisturbed,
           UNCHANGED <<last, open, book, stopped, stops, desk, lost>>
    PROVE  CInv'
<1>1. PICK e : e = landing.effects BY Zenon
<1>2. /\ e \in Seq(Effect) /\ Told(e) /\ Ends(e, NoNode) /\ StillTrue(landing.base, e)
      /\ \A i \in DOMAIN e : e[i].node \in Nodes /\ book[e[i].node] = NoRun /\ ~Drawn(e[i].node)
      /\ \A j \in DOMAIN e :
            e[j].kind \in Closings /\ (\A l \in DOMAIN e : l > j => e[l].node # e[j].node) =>
                /\ e[j].node \notin landing.owed /\ last[e[j].node].kind = e[j].kind
                /\ e[j].kind \in Stops =>
                    \A r \in Runs : desk[r].at \in Flying => stopped[e[j].node] > desk[r].read
      /\ \A i \in Written : \E j \in DOMAIN e : e[j].node = landing.lines[i].node
    BY <1>1, AllWritten
<1>3. /\ GoesOn /\ landing'.left = {} /\ landing'.plan = FALSE /\ landing'.owed = landing.owed
      /\ landing'.run = landing.run /\ landing'.lines = landing.lines
      /\ landing'.effects = landing.effects
    BY FailedGoesOn DEF GoesOn
<1>4. /\ landing.run \in Runs /\ DOMAIN landing.lines \subseteq Nat
      /\ \A i \in DOMAIN landing.lines : landing.lines[i] \in [kind : Closings, node : Nodes]
      /\ landing.owed \subseteq Nodes
    BY LandingFacts
<1>5. file \in Texts /\ file' \in Texts
      /\ \A n \in Nodes : file[n] # "Absent" => file'[n] # "Absent"
    <2>1. file \in Texts /\ landing.base \in Texts BY DEF CInv, CityTypes, Texts, SameRows
    <2>2. PICK base \in Texts : base = landing.base BY <2>1, Zenon
    <2>3. Applied(base, e) \in Texts
          /\ \A n \in Nodes : base[n] # "Absent" => Applied(base, e)[n] # "Absent"
        BY <1>2, AppliedType
    <2>4. QED BY <1>1, <2>1, <2>2, <2>3 DEF SameRows
<1>6. ASSUME NEW n \in Nodes, Drawn(n)', ~Drawn(n)
      PROVE  \E j \in DOMAIN e : /\ e[j].node = n /\ e[j].kind = "Split"
                                 /\ \A l \in DOMAIN e : l > j => e[l].node # e[j].node
    <2>1. Kids \in [Nodes -> SUBSET Nodes] /\ \A m \in Nodes : Kids[n] \cap Kids[m] # {} => n = m
        BY ClaimsAssumption
    <2>2. PICK k \in Kids[n] : file'[k] # "Absent" /\ file[k] = "Absent" BY <1>6 DEF Drawn
    <2>3. k \in Nodes BY <2>1
    <2>4. PICK j \in DOMAIN e : e[j].kind = "Split" /\ k \in Kids[e[j].node]
        <3>1. landing.base[k] = "Absent" BY <2>2, <2>3 DEF SameRows
        <3>2. Applied(landing.base, landing.effects)[k] # landing.base[k] BY <2>2, <3>1
        <3>3. QED BY <1>1, <2>3, <3>1, <3>2, MovesOnlyReady
    <2>5. e[j].node = n BY <1>2, <2>1, <2>4
    <2>6. QED BY <1>2, <2>4, <2>5 DEF Told
<1>7. "Split" \in Stops /\ "Split" \in Closings BY DEF Stops, Closings
<1>8. CityTypes'
    <2>1. \A q \in Runs : desk'[q].at = "landing" <=> landing'.run = q
        BY <1>3 DEF CInv, CityTypes
    <2>2. QED BY <1>3, <1>4, <1>5, <2>1 DEF CInv, CityTypes, Texts
<1>9. LandingType' /\ Counted'
    BY <1>1, <1>2, <1>3, <1>4 DEF LandingType, GoesOn
<1>10. ASSUME NEW q \in Runs PROVE Fits(q, desk[q])'
    <2>1. Fits(q, desk[q]) BY DEF CInv
    <2>2. QED BY <2>1 DEF Fits
<1>11. LandingSound'
    <2>1. ASSUME NEW n \in landing.owed PROVE book[n] = NoRun /\ ~Drawn(n)'
        <3>1. n \in Nodes /\ book[n] = NoRun /\ ~Drawn(n) BY <1>4 DEF CInv, LandingSound
        <3>2. ~Drawn(n)' BY <1>2, <1>6, <1>7, <3>1
        <3>3. QED BY <3>1, <3>2
    <2>2. QED BY <1>3, <2>1 DEF LandingSound
<1>12. PlanSound' BY <1>3 DEF PlanSound
<1>13. DrawnOnce'
    <2>1. ASSUME NEW n \in Nodes, Drawn(n)'
          PROVE  /\ book[n] = NoRun
                 /\ \A r \in Runs :
                        desk[r].at \in Flying /\ (\A k \in Kids[n] : desk[r].text[k] = "Absent")
                            => stopped[n] > desk[r].read
        <3>1. CASE Drawn(n) BY <3>1 DEF CInv, DrawnOnce
        <3>2. CASE ~Drawn(n)
            <4>1. PICK j \in DOMAIN e : /\ e[j].node = n /\ e[j].kind = "Split"
                                        /\ \A l \in DOMAIN e : l > j => e[l].node # e[j].node
                BY <1>6, <2>1, <3>2
            <4>2. QED BY <1>2, <1>7, <4>1
        <3>3. QED BY <3>1, <3>2
    <2>2. QED BY <2>1 DEF DrawnOnce
<1>14. ReleasedIsReady' BY DEF CInv, ReleasedIsReady
<1>15. OpenIsOwed' BY <1>3 DEF CInv, OpenIsOwed
<1>16. Quietly'
    <2>1. SUFFICES ASSUME Undisturbed PROVE EndedOnce' /\ FileAgrees'
        BY DEF Quietly
    <2>2. EndedOnce /\ FileAgrees BY <2>1 DEF CInv, Quietly
    <2>0. file = landing.base /\ file' = Applied(file, landing.effects)
          /\ StillTrue(file, e)
        BY <1>2, <2>2 DEF FileAgrees
    <2>3. ASSUME NEW n \in Nodes, NEW w \in DOMAIN e, e[w].node = n
          PROVE  /\ Agrees(n)' /\ book[n] = NoRun /\ n \notin landing.owed
                 /\ Ended(n)' => \A r \in Runs : desk[r].at \in Flying => stopped[n] > desk[r].read
        <3>1. PICK j \in DOMAIN e : /\ e[j].node = n /\ e[j].kind \in Closings
                                    /\ \A l \in DOMAIN e : l > j => e[l].node # n
                                    /\ Applied(file, e)[n] = Closed(e[j].kind)
            BY <1>2, <2>0, <2>3, LastWord
        <3>2. file'[n] = Closed(e[j].kind) /\ last[n].kind = e[j].kind /\ n \notin landing.owed
              /\ book[n] = NoRun
            BY <1>1, <1>2, <2>0, <3>1
        <3>3. Agrees(n)'
            BY <3>1, <3>2 DEF Agrees, Closed, StatusAfter, Closings, Stops
        <3>4. Ended(n)' => e[j].kind \in Stops
            BY <3>1, <3>2 DEF Ended, Closed, StatusAfter, Closings, Stops
        <3>5. QED BY <1>2, <3>1, <3>2, <3>3, <3>4
    <2>4. ASSUME NEW n \in Nodes, \A w \in DOMAIN e : e[w].node # n
          PROVE  Agrees(n)' /\ (Ended(n)' => Ended(n))
        <3>1. \/ file'[n] = file[n]
              \/ /\ file'[n] = "NotStarted"
                 /\ \E j \in DOMAIN e : e[j].kind = "Split" /\ n \in Kids[e[j].node]
            BY <1>1, <1>2, <2>0, <2>4, NoWord
        <3>2. Agrees(n) BY <1>2, <2>2, <2>4 DEF FileAgrees
        <3>3. CASE file'[n] = file[n] BY <3>2, <3>3 DEF Agrees, Ended
        <3>4. CASE /\ file'[n] = "NotStarted"
                   /\ \E j \in DOMAIN e : e[j].kind = "Split" /\ n \in Kids[e[j].node]
            <4>1. file[n] = "Absent" BY <1>2, <3>4 DEF Drawn
            <4>2. last[n].kind \in {"none", "Claimed"} \cup Closings BY DEF CInv, CityTypes
            <4>3. last[n].kind \in {"none", "Claimed", "Released"}
                BY <3>2, <4>1, <4>2 DEF Agrees, Closings, Stops
            <4>4. QED BY <3>4, <4>3 DEF Agrees, Ended
        <3>5. QED BY <3>1, <3>3, <3>4
    <2>5. EndedOnce'
        <3>1. ASSUME NEW n \in Nodes, Ended(n)'
              PROVE  /\ book[n] = NoRun
                     /\ \A r \in Runs : desk[r].at \in Flying /\ desk[r].text[n] = "NotStarted"
                            => stopped[n] > desk[r].read
                     /\ n \notin landing.owed
            <4>1. CASE \E w \in DOMAIN e : e[w].node = n BY <2>3, <3>1, <4>1
            <4>2. CASE \A w \in DOMAIN e : e[w].node # n
                <5>1. Ended(n) BY <2>4, <3>1, <4>2
                <5>2. QED BY <2>2, <5>1 DEF EndedOnce
            <4>3. QED BY <4>1, <4>2
        <3>2. QED BY <1>3, <3>1 DEF EndedOnce
    <2>6. FileAgrees' BY <1>3, <2>3, <2>4 DEF FileAgrees
    <2>7. QED BY <2>5, <2>6
<1>17. QED BY <1>8, <1>9, <1>10, <1>11, <1>12, <1>13, <1>14, <1>15, <1>16 DEF CInv

(* A text that is compared and not yet in the file's place: the landing    *)
(* goes on to write it, and a row nobody saved since reads as it did.      *)
Staging ==
    /\ staged \in BOOLEAN /\ raced \subseteq Nodes
    /\ staged =>
        /\ ~Idle /\ landing.left = {} /\ landing.plan /\ SameRows
        /\ \A n \in Nodes \ raced : file[n] = landing.base[n]

(* carry_out_landing and edit_against.                                     *)
LEMMA ComparePlanKeeps ==
    ASSUME CInv, ComparePlan
    PROVE  CInv'
<1>1. /\ ~Idle /\ landing.left = {} /\ landing.plan
      /\ UNCHANGED <<file, last, open, book, stopped, stops, desk, lost, edits, crashes>>
    BY DEF ComparePlan
<1>2. CASE UNCHANGED <<landing, refusals>> BY <1>1, <1>2, StutterKeeps
<1>3. CASE landing' = Failed
    <2>1. GoesOn /\ landing'.left = {} /\ landing'.plan = FALSE /\ landing'.owed = landing.owed
        BY <1>1, <1>3, FailedGoesOn
    <2>2. CASE Refuse("plan")
        <3>1. Counted' /\ ~Undisturbed' BY <1>1, <2>2, RefuseCounts
        <3>2. QED BY <1>1, <2>1, <3>1, FailKeeps
    <2>3. CASE file # landing.base /\ UNCHANGED refusals
        <3>1. ~Undisturbed BY <1>1, <2>3 DEF CInv, Quietly, FileAgrees
        <3>2. ~Undisturbed' /\ Counted'
            BY <1>1, <2>3, <3>1 DEF CInv, Undisturbed, counters, Counted
        <3>3. QED BY <1>1, <2>1, <3>2, FailKeeps
    <2>4. CASE UNCHANGED <<landing, refusals>> BY <1>1, <2>4, StutterKeeps
    <2>5. QED BY <2>2, <2>3, <2>4 DEF ComparePlan
<1>4. QED BY <1>2, <1>3 DEF ComparePlan

LEMMA WritePlanKeeps ==
    ASSUME CInv, Staging, WritePlan
    PROVE  CInv'
<1>1. /\ ~Idle /\ landing.left = {} /\ landing.plan /\ landing' = Failed /\ SameRows
      /\ UNCHANGED <<last, open, book, stopped, stops, desk, lost, edits, crashes>>
    BY DEF WritePlan, Staging
<1>2. CASE file' = Applied(landing.base, landing.effects)
    <2>1. UNCHANGED refusals \/ Refuse("plan") BY DEF WritePlan
    <2>2. CASE UNCHANGED refusals
        <3>1. Counted' /\ Undisturbed' = Undisturbed
            BY <1>1, <2>2 DEF CInv, Counted, Undisturbed, counters
        <3>2. QED BY <1>1, <1>2, <3>1, PlanWrittenKeeps
    <2>3. CASE Refuse("plan")
        <3>1. Counted' /\ ~Undisturbed' BY <1>1, <2>3, RefuseCounts
        <3>2. QED BY <1>1, <1>2, <3>1, PlanWrittenKeeps
    <2>4. QED BY <2>1, <2>2, <2>3
<1>3. CASE Refuse("plan") /\ UNCHANGED file
    <2>1. Counted' /\ ~Undisturbed' BY <1>1, <1>3, RefuseCounts
    <2>2. GoesOn /\ landing'.left = {} /\ landing'.plan = FALSE /\ landing'.owed = landing.owed
        BY <1>1, FailedGoesOn
    <2>3. QED BY <1>1, <1>3, <2>1, <2>2, FailKeeps
<1>4. QED BY <1>2, <1>3 DEF WritePlan

-----------------------------------------------------------------------------
(* Every step keeps the invariant.                                         *)
LEMMA NextCInv == CInv /\ Staging /\ [Next]_vars => CInv'
<1>1. SUFFICES ASSUME CInv, Staging, [Next]_vars PROVE CInv' OBVIOUS
<1>2. ASSUME NEW r \in Runs,
             \/ Dispatch(r) \/ Answer(r) \/ Land(r)
             \/ \E n \in Nodes : Ask(r, n)
             \/ \E kind \in Closings : LetGo(r, kind)
             \/ \E how \in {"home", "failed"} : ComeHome(r, how)
      PROVE  CInv'
    BY <1>1, <1>2, DispatchKeeps, AnswerKeeps, LandKeeps, AskKeeps, LetGoKeeps
<1>3. CASE Close \/ ComparePlan \/ WritePlan \/ PutBack \/ Landed
    BY <1>1, <1>3, CloseKeeps, ComparePlanKeeps, WritePlanKeeps, PutBackKeeps, LandedKeeps
<1>4. CASE \E n \in Nodes, s \in {"NotStarted", "Done", "Blocked"} : Edit(n, s)
    BY <1>1, <1>4, EditKeeps
<1>5. CASE Crash BY <1>1, <1>5, CrashKeeps
<1>6. CASE Rest \/ UNCHANGED vars
    <2>1. UNCHANGED <<file, last, open, book, stopped, stops, desk, landing, lost>>
          /\ UNCHANGED <<edits, crashes, refusals>>
        BY <1>6 DEF Rest, vars, counters
    <2>2. QED BY <1>1, <2>1, StutterKeeps
<1>7. QED BY <1>1, <1>2, <1>3, <1>4, <1>5, <1>6 DEF Next

(* A step that leaves the file, the landing and the staged text alone, or  *)
(* that has no text staged.                                                *)
LEMMA StagingStays ==
    ASSUME Staging, UNCHANGED staging,
           staged => UNCHANGED <<file, landing>>
    PROVE  Staging'
<1>1. CASE staged BY <1>1 DEF Staging, SameRows, staging, Idle
<1>2. CASE ~staged BY <1>2 DEF Staging, staging
<1>3. QED BY <1>1, <1>2

(* Between the compare and the rename only a person touches the file, and  *)
(* a row that was saved is among the raced.                                *)
LEMMA NextStaging == CInv /\ Staging /\ [Next]_vars => Staging'
<1>1. SUFFICES ASSUME CInv, Staging, [Next]_vars PROVE Staging' OBVIOUS
<1>2. ASSUME NEW r \in Runs,
             \/ Dispatch(r) \/ Answer(r) \/ Land(r)
             \/ \E n \in Nodes : Ask(r, n)
             \/ \E kind \in Closings : LetGo(r, kind)
             \/ \E how \in {"home", "failed"} : ComeHome(r, how)
      PROVE  Staging'
    <2>1. Dispatch(r) \/ Answer(r) => UNCHANGED <<file, landing, staged, raced>>
        BY DEF Dispatch, Answer, staging
    <2>2. Land(r) => Idle /\ UNCHANGED <<staged, raced>> BY DEF Land, staging
    <2>3. \A n \in Nodes : Ask(r, n) => UNCHANGED <<file, landing, staged, raced>>
        BY DEF Ask, staging
    <2>4. \A kind \in Closings : LetGo(r, kind) => UNCHANGED <<file, landing, staged, raced>>
        BY DEF LetGo, staging
    <2>5. \A how \in {"home", "failed"} :
            ComeHome(r, how) => UNCHANGED <<file, landing, staged, raced>>
        BY DEF ComeHome, staging
    <2>6. UNCHANGED <<staged, raced>> /\ (UNCHANGED <<file, landing>> \/ Idle)
        BY <1>2, <2>1, <2>2, <2>3, <2>4, <2>5
    <2>7. staged => ~Idle BY <1>1 DEF Staging
    <2>8. QED BY <1>1, <2>6, <2>7, StagingStays DEF staging
<1>3. CASE Close \/ PutBack \/ Landed
    <2>1. UNCHANGED <<staged, raced>> /\ (landing.left # {} \/ ~landing.plan)
        BY <1>3 DEF Close, PutBack, Landed, staging
    <2>2. QED BY <1>1, <2>1, StagingStays DEF Staging, staging
<1>4. CASE ComparePlan
    <2>1. file' = file /\ ~Idle /\ landing.left = {} /\ landing.plan /\ ~staged
        BY <1>4 DEF ComparePlan
    <2>2. CASE file = landing.base /\ staged' = TRUE /\ raced' = {} /\ landing' = landing
        <3>1. file \in Texts BY <1>1 DEF CInv, CityTypes, Texts
        <3>2. QED BY <2>1, <2>2, <3>1 DEF Staging, SameRows, Idle
    <2>3. CASE UNCHANGED staging BY <1>1, <2>1, <2>3, StagingStays
    <2>4. QED BY <1>4, <2>2, <2>3 DEF ComparePlan
<1>5. CASE WritePlan \/ Crash
    <2>1. staged' = FALSE /\ raced' = {} BY <1>5 DEF WritePlan, Crash
    <2>2. QED BY <2>1 DEF Staging
<1>6. ASSUME NEW n \in Nodes, NEW s \in {"NotStarted", "Done", "Blocked"}, Edit(n, s)
      PROVE  Staging'
    <2>1. /\ file' = [file EXCEPT ![n] = s] /\ file[n] # "Absent" /\ s # "Absent"
          /\ UNCHANGED <<landing, staged>>
          /\ raced' = IF staged THEN raced \cup {n} ELSE raced
        BY <1>6 DEF Edit
    <2>2. file \in [Nodes -> Status] BY <1>1 DEF CInv, CityTypes
    <2>3. file'[n] = s /\ \A k \in Nodes \ {n} : file'[k] = file[k] BY <2>1, <2>2
    <2>4. CASE staged
        <3>1. raced' = raced \cup {n} BY <2>1, <2>4
        <3>2. QED BY <1>1, <2>1, <2>3, <2>4, <3>1 DEF Staging, SameRows, Idle
    <2>5. CASE ~staged BY <1>1, <2>1, <2>5 DEF Staging
    <2>6. QED BY <2>4, <2>5
<1>7. CASE Rest \/ UNCHANGED vars
    <2>1. UNCHANGED <<file, landing>> /\ UNCHANGED staging BY <1>7 DEF Rest, vars
    <2>2. QED BY <1>1, <2>1, StagingStays
<1>8. QED BY <1>1, <1>2, <1>3, <1>4, <1>5, <1>6, <1>7 DEF Next

(* The invariant holds in every state of every run.                        *)
LEMMA SpecCInv == Spec => [](CInv /\ Staging)
<1>1. Init => Staging BY DEF Init, Staging
<1>2. QED BY <1>1, InitCInv, NextCInv, NextStaging, PTL DEF Spec

(* The plan, the book, the desks and the landing have their types.         *)
THEOREM ClaimsTyped == Spec => []TypeOK
<1>1. CInv /\ Staging => TypeOK BY DEF CInv, Staging, TypeOK
<1>2. QED BY <1>1, SpecCInv, PTL

(* Who holds a node is one run, the one the ledger names: a node in a      *)
(* desk's hand is booked for its run, and only that run's landing releases *)
(* it (ClaimBook::answer and release).                                     *)
THEOREM HolderIsNamed == Spec => []HolderNamed
<1>1. CInv => HolderNamed BY DEF CInv, Fits, HolderNamed
<1>2. QED BY <1>1, SpecCInv, PTL

(* Once a run has landed none of its claims is open, however its landing   *)
(* went, but for a crash or a refused put-back (give_back_claims).         *)
THEOREM LandedClosesItsClaims == Spec => []ClaimsClosed
<1>1. CInv => ClaimsClosed
    <2>1. SUFFICES ASSUME CInv, NEW r \in Runs \ lost, NEW n \in Nodes, desk[r].at = "landed",
                          r \in open[n]
                   PROVE  FALSE
        BY DEF ClaimsClosed
    <2>2. desk[r].at \notin Out /\ landing.run # r BY <2>1 DEF CInv, CityTypes, Out, Flying
    <2>3. QED BY <2>1, <2>2 DEF CInv, OpenIsOwed
<1>2. QED BY <1>1, SpecCInv, PTL

(* Between landings the plan file reads as the ledger does, as long as     *)
(* nobody edits it, nothing is refused and nothing crashes (Claims::of).   *)
THEOREM FileFollowsLedger == Spec => []FileFollows
<1>1. CInv => FileFollows
    BY DEF CInv, Quietly, Undisturbed, FileAgrees, Agrees, FileFollows
<1>2. QED BY <1>1, SpecCInv, PTL

(* A node that was handed back is ready for every desk (ClaimBook::absorb). *)
THEOREM HandedBackReady == Spec => []HandedBackIsReady
<1>1. CInv => HandedBackIsReady
    <2>1. SUFFICES ASSUME CInv, NEW r \in Runs, desk[r].at = "asking",
                          last[desk[r].asks].kind = "Released", book[desk[r].asks] = NoRun
                   PROVE  ~TurnedAway(r, desk[r].asks)
        BY DEF HandedBackIsReady
    <2>2. Fits(r, desk[r]) /\ stops \in Nat /\ desk[r].read \in 0..stops BY <2>1, DeskFacts
    <2>3. desk[r].asks \in Nodes BY <2>1, <2>2 DEF Fits
    <2>4. stopped[desk[r].asks] = 0 BY <2>1, <2>3 DEF CInv, ReleasedIsReady
    <2>5. ~(stopped[desk[r].asks] > desk[r].read) BY <2>2, <2>4
    <2>6. QED BY <2>1, <2>5 DEF TurnedAway
<1>2. QED BY <1>1, SpecCInv, PTL

(* A row that somebody ended is moved by nobody but a person: the first    *)
(* effect of a landing on a row is its claim, which Claims::of found not   *)
(* started in the text the landing started from, or the split that draws   *)
(* it; and the file still reads as that text, but for the rows a person    *)
(* saved between the compare and the rename.                               *)
THEOREM EndedRowsStay == Spec => EndsStay
<1> DEFINE Step == \A n \in Nodes : file[n] \in {"Done", "Blocked"} /\ file'[n] # file[n]
                                        => edits' # edits \/ (staged /\ n \in raced)
<1>1. CInv /\ Staging /\ [Next]_vars => [Step]_vars
    <2>1. SUFFICES ASSUME CInv, Staging, Next, NEW n \in Nodes,
                          file[n] \in {"Done", "Blocked"}, file'[n] # file[n]
                   PROVE  edits' # edits \/ (staged /\ n \in raced)
        OBVIOUS
    <2>2. CASE \E m \in Nodes, s \in {"NotStarted", "Done", "Blocked"} : Edit(m, s)
        BY <2>1, <2>2, EditKeeps
    <2>3. CASE WritePlan
        <3>1. ~Idle /\ landing.plan /\ staged /\ SameRows BY <2>1, <2>3 DEF WritePlan, Staging
        <3>2. file' = Applied(landing.base, landing.effects)
            BY <2>1, <2>3 DEF WritePlan
        <3>3. CASE n \notin raced
            <4>1. file[n] = landing.base[n] BY <2>1, <3>1, <3>3 DEF Staging
            <4>2. landing.base[n] = "NotStarted" \/ landing.base[n] = "Absent"
                BY <2>1, <3>1, <3>2, <4>1, MovesOnlyReady
            <4>3. QED BY <2>1, <4>1, <4>2
        <3>4. QED BY <3>1, <3>3
    <2>4. CASE UNCHANGED file BY <2>1, <2>4
    <2>5. ASSUME NEW r \in Runs,
                 \/ Dispatch(r) \/ Answer(r) \/ Land(r)
                 \/ \E m \in Nodes : Ask(r, m)
                 \/ \E kind \in Closings : LetGo(r, kind)
                 \/ \E how \in {"home", "failed"} : ComeHome(r, how)
          PROVE  file' = file
        <3>1. Dispatch(r) => file' = file BY DEF Dispatch
        <3>2. Answer(r) => file' = file BY DEF Answer
        <3>3. Land(r) => file' = file BY DEF Land
        <3>4. \A m \in Nodes : Ask(r, m) => file' = file BY DEF Ask
        <3>5. \A kind \in Closings : LetGo(r, kind) => file' = file BY DEF LetGo
        <3>6. \A how \in {"home", "failed"} : ComeHome(r, how) => file' = file BY DEF ComeHome
        <3>7. QED BY <2>5, <3>1, <3>2, <3>3, <3>4, <3>5, <3>6
    <2>6. Close \/ ComparePlan \/ PutBack \/ Landed \/ Crash \/ Rest => file' = file
        BY DEF Close, ComparePlan, PutBack, Landed, Crash, Rest, vars
    <2>7. QED BY <2>1, <2>2, <2>3, <2>4, <2>5, <2>6 DEF Next
<1>2. QED BY <1>1, SpecCInv, PTL DEF Spec, EndsStay
=============================================================================
