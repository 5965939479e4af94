SPECIFICATION Spec
CONSTANTS
    a1 = a1
    a2 = a2
    NoAccount = NoAccount
    Accounts <- NoRoster
    AccountRetries = 1
    Capped = TRUE
    Cap = 0
    CountMax = 5
    Replies <- ReadsAndWrites
    MaxTurns = 2
    MaxSteers = 1
    GateWaits = FALSE
INVARIANTS WritesAreSaved SteersRecorded
PROPERTY ImplementsHistory
