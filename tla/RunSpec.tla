------------------------------ MODULE RunSpec ------------------------------
(***************************************************************************)
(* What a run promises about its history, whatever interrupts it: every    *)
(* line is written where it happened, an effect outside the city is acted  *)
(* only after the line that announces it, and what a crash or a refusing   *)
(* ledger takes away is a tail of the history that announces no effect     *)
(* that was acted.  After that come only lines about the end.              *)
(***************************************************************************)
EXTENDS Sequences, SequencesExt

CONSTANTS Announces(_),   \* the effects a line announces
          Closes(_)       \* whether a line closes a run

VARIABLES log, acted, cut

vars == <<log, acted, cut>>

Announced(history) == UNION {Announces(line) : line \in Range(history)}

Init == log = <<>> /\ acted = {} /\ cut = FALSE

Write ==
    /\ log' # log /\ IsPrefix(log, log')
    /\ cut => \A i \in Len(log) + 1 .. Len(log') : Closes(log'[i])
    /\ UNCHANGED <<acted, cut>>

(* An effect, and the lines that say how it went. *)
Act ==
    /\ ~cut /\ acted \subseteq acted' /\ acted' \subseteq Announced(log)
    /\ IsPrefix(log, log')
    /\ UNCHANGED cut

LoseTail ==
    /\ IsPrefix(log', log) /\ acted \subseteq Announced(log')
    /\ cut' = TRUE /\ UNCHANGED acted

Next == Write \/ Act \/ LoseTail

Spec == Init /\ [][Next]_vars
=============================================================================
