----------------------------- MODULE MCSignals -----------------------------
EXTENDS Signals, TLC

CONSTANTS east, west, r1, r2, none

TwoRooms == {east, west}
Apart == r1 :> east @@ r2 :> west
=============================================================================
