CONSTANTS
    Addr <- OneAddr
    Owner = {f1, f2, f3}
    Worker = {w1, w2}
    NoOwner = NoOwner
    NoIP = NoIP
    MaxSubnetRangeSize = 3
    Configs <- OneConfig
    Excludes = {}
    PoolAtStart = TRUE
    MaxCreate = 3
    MaxRace = 0
    MaxDelete = 1
    MaxLabel = 0
    MaxRepin = 0
    MaxFault = 0
    MaxRestart = 0
    MaxPoolOp = 0
SPECIFICATION Spec
SYMMETRY Symmetry
INVARIANTS
    NoSharedAddress
CHECK_DEADLOCK FALSE
