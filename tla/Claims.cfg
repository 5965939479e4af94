CONSTANTS
    a = a
    b = b
    c = c
    r1 = r1
    r2 = r2
    r3 = r3
    none = none
    NoRun = none
    NoNode = none
    Runs = {r1, r2, r3}
    Nodes = {a, b, c}
    Kids <- Tree
    Needs <- NoNeeds
    MaxEffects = 3
    MaxEdits = 1
    MaxCrashes = 1
    MaxRefusals = 1
    Refusable = {"claim", "closing", "plan", "put_back"}
SPECIFICATION Spec
SYMMETRY Alike
INVARIANTS HolderNamed ClaimsClosed FileFollows HandedBackIsReady
PROPERTY EndsStay
