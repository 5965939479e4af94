------------------------------ MODULE MCBacklog ------------------------------
EXTENDS Backlog, TLC

CONSTANTS r1, r2, lab, hall, all, none

Apart == r1 :> lab @@ r2 :> hall
=============================================================================
