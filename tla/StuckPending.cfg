CONSTANTS
    Addr <- OneAddr
    Owner = {f1, f2}
    Worker = {w1, w2}
    NoOwner = NoOwner
    NoIP = NoIP
    MaxSubnetRangeSize = 3
    Configs <- OneConfig
    Excludes = {}
    PoolAtStart = TRUE
    MaxCreate = 2
    MaxRace = 0
    MaxDelete = 0
    MaxLabel = 0
    MaxRepin = 0
    MaxFault = 0
    MaxRestart = 0
    MaxPoolOp = 0
SPECIFICATION FairSpec
PROPERTIES
    Answered
CHECK_DEADLOCK FALSE
