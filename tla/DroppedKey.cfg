CONSTANTS
    Addr <- MCAddr
    Owner = {f1}
    Worker = {w1}
    NoOwner = NoOwner
    NoIP = NoIP
    MaxSubnetRangeSize = 3
    Configs <- MCConfigs
    Excludes = {}
    PoolAtStart = FALSE
    MaxCreate = 1
    MaxRace = 0
    MaxDelete = 0
    MaxLabel = 0
    MaxRepin = 0
    MaxFault = 0
    MaxRestart = 0
    MaxPoolOp = 1
SPECIFICATION Spec
SYMMETRY Symmetry
INVARIANTS
    NothingForgotten
CHECK_DEADLOCK FALSE
