CONSTANTS
    Addr <- OneAddr
    Owner = {f1, f2}
    Worker = {w1}
    NoOwner = NoOwner
    NoIP = NoIP
    MaxSubnetRangeSize = 3
    Configs <- OneConfig
    Excludes = {}
    PoolAtStart = TRUE
    MaxCreate = 2
    MaxRace = 0
    MaxDelete = 1
    MaxLabel = 0
    MaxRepin = 0
    MaxFault = 1
    MaxRestart = 0
    MaxPoolOp = 0
SPECIFICATION FairSpec
PROPERTIES
    DeletionCompletes
CHECK_DEADLOCK FALSE
