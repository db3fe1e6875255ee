CONSTANTS
    Addr <- MCAddr
    Owner = {f1, f2}
    Worker = {w1, w2}
    NoOwner = NoOwner
    NoIP = NoIP
    MaxSubnetRangeSize = 3
    Configs <- MCConfigs
    Excludes = {}
    PoolAtStart = TRUE
    MaxCreate = 2
    MaxRace = 1
    MaxDelete = 0
    MaxLabel = 1
    MaxRepin = 0
    MaxFault = 0
    MaxRestart = 1
    MaxPoolOp = 0
SPECIFICATION Spec
SYMMETRY Symmetry
INVARIANTS
    NoSharedAddress
    GrantedNotFree
    SettledAssigned
CHECK_DEADLOCK FALSE
