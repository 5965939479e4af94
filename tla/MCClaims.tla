------------------------------ MODULE MCClaims ------------------------------
EXTENDS Claims, TLC

CONSTANTS a, b, c, r1, r2, r3, none

Tree == a :> {c} @@ b :> {} @@ c :> {}
NoNeeds == [n \in Nodes |-> {}]

Alike == Permutations(Runs)
=============================================================================
