SPECIFICATION FairSpec
CONSTANTS
    v1 = v1
    v2 = v2
    v3 = v3
    deposit = deposit
    batchAtOne = batchAtOne
    batchAtTwo = batchAtTwo
    depositHash = depositHash
    batchHash = batchHash
    NoClaim = NoClaim
    Validators <- MCValidators
    Faulty <- MCFaulty
    Claims <- MCClaims
    Hashes <- MCHashes
    ClaimHash <- MCClaimHash
    PowerMaps <- MCPowerMaps
    MaxEvents = 2
    EventsToKeep = 0
INVARIANTS
    TypeOK
    NoDoubleVote
    ObservedIsApplied
    NeverHalts
PROPERTIES
    DeliversEthereumEvents
    EveryEventIsApplied
