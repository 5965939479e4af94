----------------------------- MODULE MCDoorstep -----------------------------
(* Instances of Doorstep for TLC. *)
EXTENDS Doorstep, TLC

CONSTANTS a, b, d, e, k, s
EachKind == [c \in Commands |->
    CASE c \in {a, e} -> "plain" [] c = b -> "errand" [] c = d -> "dispatch"
      [] c = k -> "cancel" [] c = s -> "steer"]
EachLines == [c \in Commands |-> CASE c = a -> 2 [] c = b -> 1 [] OTHER -> 0]
EachRun == [c \in Commands |-> IF c \in {k, s} THEN d ELSE NoCommand]
=============================================================================
