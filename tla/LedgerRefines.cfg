SPECIFICATION FairSpec
CONSTANTS
    MaxSeq = 5
    MaxWaves = 3
    MaxWave = 1
    MaxFails = 2
    MaxCuts = 2
    MaxKills = 0
    LazyDir = FALSE
PROPERTY ImplementsLedger
PROPERTY OpensAgain
