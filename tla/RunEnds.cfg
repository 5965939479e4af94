SPECIFICATION FairSpec
CONSTANTS
    a1 = a1
    a2 = a2
    NoAccount = NoAccount
    Accounts <- TwoAccounts
    AccountRetries = 1
    Capped = FALSE
    Cap = 0
    CountMax = 8
    Replies <- OnlyReads
    MaxTurns = 1
    MaxSteers = 0
    GateWaits = FALSE
INVARIANT SendBudget
PROPERTIES NeverBack RunEnds
