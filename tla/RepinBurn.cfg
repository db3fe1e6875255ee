CONSTANTS
    Addr <- MCAddr
    Owner = {f1}
    Worker = {w1}
    NoOwner = NoOwner
    NoIP = NoIP
    MaxSubnetRangeSize = 3
    Configs <- MCConfigs
    Excludes = {}
    PoolAtStart = TRUE
    MaxCreate = 1
    MaxRace = 0
    MaxDelete = 0
    MaxLabel = 0
    MaxRepin = 1
    MaxFault = 0
    MaxRestart = 0
    MaxPoolOp = 0
SPECIFICATION Spec
SYMMETRY Symmetry
INVARIANTS
    SettledNoBurn
CHECK_DEADLOCK FALSE
