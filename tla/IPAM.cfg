CONSTANTS
    Addr <- MCAddr
    Owner = {o1, o2, o3}
    NoOwner = NoOwner
    NoIP = NoIP
    MaxSubnetRangeSize = 3
    Pool = {p1}
    Configs <- MCConfigs
SPECIFICATION Spec
INVARIANTS
    TypeOK
    OwnersAllocated
PROPERTIES
    ImplementsClaims
    RefreshKeepsClaims
    OwnerAwareCallsStayHome
