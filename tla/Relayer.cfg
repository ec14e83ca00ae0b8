SPECIFICATION FairSpec
CONSTANTS
    Validators = {v1, v2}
    v1 = v1
    v2 = v2
    tokenA = tokenA
    tokenB = tokenB
    TotalPower = 300
    PowerThreshold = 198
    FloatSlack = 1
    Plans <- MCPlans
    None = None
INVARIANTS
    RevertsAreExplained
    OldestFirst
PROPERTIES
    ValsetsAreRelayed
    ItemsAreRelayed
