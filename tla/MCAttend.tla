------------------------------ MODULE MCAttend ------------------------------
(* Instances of Attend for TLC. *)
EXTENDS Attend, TLC

CONSTANTS r1, r2, r3, m1, m2
OneRoom == [r \in Runs |-> m1]
Dispatch(r) == [verb |-> "dispatch", run |-> r]
Errand == [verb |-> "errand", run |-> NoRun]
Cancel(r) == [verb |-> "cancel", run |-> r]
Steer(r) == [verb |-> "steer", run |-> r]
Both == {<<Dispatch(r1), Dispatch(r2)>>}
BothCancel == {<<Dispatch(r1), Dispatch(r2), Cancel(r1)>>, <<Cancel(r1), Dispatch(r1), Dispatch(r2)>>}
AllVerbs == {<<Dispatch(r1), Dispatch(r2), Cancel(r1)>>, <<Dispatch(r1), Steer(r1), Errand>>}

(* The behaviours in which nothing is posted once the city is closing: all *)
(* that the desk holds was accepted before.                                *)
AcceptedBefore == Init /\ [][Next /\ (closing # "no" => UNCHANGED script)]_vars
=============================================================================
