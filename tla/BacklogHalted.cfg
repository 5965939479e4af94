CONSTANTS
    r1 = r1
    r2 = r2
    lab = lab
    hall = hall
    all = all
    none = none
    NoRun = none
    Runs = {r1, r2}
    Scopes = {lab, hall}
    City = all
    ScopeOf <- Apart
    HandedDown = {r1}
    Kinds = {"host"}
    MaxCmds = 1
    MaxPolls = 1
    MaxHalts = 1
    MaxFaults = 0
    Faults = {}
SPECIFICATION Spec
INVARIANT HaltedIsStill
