CONSTANTS
    Addr <- MCAddr
    Owner = {f1}
    Worker = {w1}
    NoOwner = NoOwner
    NoIP = NoIP
    MaxSubnetRangeSize = 3
    Configs <- MCConfigs
    Excludes = {}
    PoolAtStart = TRUE
    MaxCreate = 2
    MaxRace = 0
    MaxDelete = 1
    MaxLabel = 0
    MaxRepin = 0
    MaxFault = 0
    MaxRestart = 0
    MaxPoolOp = 0
SPECIFICATION Spec
SYMMETRY Symmetry
INVARIANTS
    SettledCounts
CHECK_DEADLOCK FALSE
