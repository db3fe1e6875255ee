CONSTANTS
    Addr <- MCAddr
    Owner = {f1, f2}
    Worker = {w1, w2}
    NoOwner = NoOwner
    NoIP = NoIP
    MaxSubnetRangeSize = 3
    Configs <- MCConfigs
    Excludes = {}
    PoolAtStart = TRUE
    MaxCreate = 2
    MaxRace = 0
    MaxDelete = 0
    MaxLabel = 0
    MaxRepin = 0
    MaxFault = 1
    MaxRestart = 0
    MaxPoolOp = 0
SPECIFICATION Spec
SYMMETRY Symmetry
INVARIANTS
    NoSharedAddress
CHECK_DEADLOCK FALSE
