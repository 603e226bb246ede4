SPECIFICATION Spec
CONSTANTS
    f1 = f1
    f2 = f2
    f3 = f3
    alice = alice
    NoFamily = NoFamily
    Families <- TwoFamilies
    Users <- MCUsers
    RefreshTTL = 1
    AbsoluteTTL = 2
    MaxFamilies = 1
    MaxHistory = 2
    MaxInventory = 1
    MaxToken = 4
    MaxClock = 2
    MaxWire = 2
    MaxDelay = 1
SYMMETRY MCSymmetry
CHECK_DEADLOCK FALSE
INVARIANTS
    TheftEndsFamily
    LiveFamiliesBounded
    StoreStaysIntact
PROPERTY
    ImplementsFamilies
