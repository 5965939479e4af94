SPECIFICATION Spec
CONSTANTS
    MaxSeq = 7
    MaxWaves = 3
    MaxWave = 2
    MaxFails = 2
    MaxCuts = 1
    MaxKills = 1
    LazyDir = FALSE
INVARIANTS PositionIsEnd NeverRefused AckedDurable
PROPERTY OkMeansSynced
CHECK_DEADLOCK FALSE
