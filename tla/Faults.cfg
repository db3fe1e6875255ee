CONSTANTS
    Addr <- MCAddr
    Owner = {f1}
    Worker = {w1}
    NoOwner = NoOwner
    NoIP = NoIP
    MaxSubnetRangeSize = 3
    Configs <- MCConfigs
    Excludes = {}
    PoolAtStart = TRUE
    MaxCreate = 2
    MaxRace = 0
    MaxDelete = 2
    MaxLabel = 0
    MaxRepin = 0
    MaxFault = 2
    MaxRestart = 1
    MaxPoolOp = 0
SPECIFICATION Spec
SYMMETRY Symmetry
INVARIANTS
    NoOrphanedClaim
    SettledNoBurn
    NothingForgotten
CHECK_DEADLOCK FALSE
