CONSTANTS
    Addr <- MCAddr
    Owner = {f1}
    Worker = {w1}
    NoOwner = NoOwner
    NoIP = NoIP
    MaxSubnetRangeSize = 3
    Configs <- PoolConfigs
    Excludes = {}
    PoolAtStart = FALSE
    MaxCreate = 1
    MaxRace = 0
    MaxDelete = 1
    MaxLabel = 0
    MaxRepin = 1
    MaxFault = 0
    MaxRestart = 0
    MaxPoolOp = 3
SPECIFICATION Spec
SYMMETRY Symmetry
INVARIANTS
    TypeOK
    AllocatorFollowsPool
PROPERTIES
    AddressNeverMoves
CHECK_DEADLOCK FALSE
