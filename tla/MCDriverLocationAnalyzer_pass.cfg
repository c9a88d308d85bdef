CONSTANTS
    o1 = o1
    o2 = o2
    Null = Null
    Undefined = Undefined
    Orders <- MCOrders
    BadRoute <- MCBadRoute
    NPoints = 2
    MaxChooses = 2
    MaxObjects = 13
    MaxLoads = 1
SPECIFICATION FairSpec
\* The bounds stop the user; the page itself never stops taking input.
CHECK_DEADLOCK FALSE
INVARIANTS
    TypeOK
PROPERTY
    ScopeRefined
    ChooseClearsPrevious
    LoadingEnds
