CONSTANTS
    r1 = r1
    r2 = r2
    lab = lab
    hall = hall
    all = all
    none = none
    NoRun = none
    Runs = {r1, r2}
    Scopes = {lab, hall}
    City = all
    ScopeOf <- Apart
    HandedDown = {r1}
    Kinds = {"host", "container"}
    MaxCmds = 2
    MaxPolls = 1
    MaxHalts = 1
    MaxFaults = 1
    Faults = {"start", "stop", "poll"}
SPECIFICATION FairSpec
INVARIANTS NothingOutlives EndingsReach
PROPERTY CallReturns
