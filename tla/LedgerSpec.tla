---------------------------- MODULE LedgerSpec ----------------------------
(***************************************************************************)
(* What the Ledger promises its readers: one growing history.  `lines' is  *)
(* what a reader of the files finds now, `kept' how many of them have been *)
(* acknowledged.  Lines nobody was told of may come and go; the first      *)
(* `kept' lines never change.                                              *)
(***************************************************************************)
EXTENDS Naturals, Sequences, SequencesExt

VARIABLES lines, kept

Init == lines = <<>> /\ kept = 0

Land ==
    /\ IsStrictPrefix(lines, lines')
    /\ UNCHANGED kept

Forget ==
    /\ IsStrictPrefix(lines', lines) /\ kept <= Len(lines')
    /\ UNCHANGED kept

(* An acknowledgement covers everything a reader finds. *)
Acknowledge ==
    /\ kept' = Len(lines)
    /\ UNCHANGED lines

Next == Land \/ Forget \/ Acknowledge

Spec == Init /\ [][Next]_<<lines, kept>>
=============================================================================
