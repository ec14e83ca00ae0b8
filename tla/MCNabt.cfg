SPECIFICATION FairSpec
CONSTANTS
    None = None
    Urls <- MCUrls
    Fee <- MCFee
    PartOf <- MCPartOf
    Accounts <- MCAccounts
    MaxChanges = 2
    Validators <- MCValidators
    OwnOrch <- MCOwnOrch
    OwnEth <- MCOwnEth
    NewOrch = {o2}
    NewEth = {e2}
    Modes <- MCModes
    Tokens0 = 2
    MaxOthers = 2
    MaxDrops = 2
    Balances <- MCBalances
    Denoms = {"token", "stake"}
    Token = "token"
    Withdrawals = {1, 3}
    Fees <- MCFees
    MaxCancels = 1
    MaxFaults = 2
    Users = {u1, u2}
    MaxDeployments = 2
    MaxEvents = 4
    MaxRuns = 3
    EthAddress <- MCEthAddress
    GravityId = "gravity"
    ContractValsets <- MCContractValsets
    Subjects <- MCSubjects
    PrefixSize = 1
    Inputs <- MCInputs
    Weth = weth
    OtherTokens <- MCOtherTokens
    Offers = {0, 1, 3}
    GasCosts = {0, 2, 3, 6}
    Prices = {0, 1, 2}
    Err = Err
    Panic = Panic
    TotalPower = 300
    PowerThreshold = 198
    FloatSlack = 1
    WordSize = 3
    U64MAX = 100
    U32MAX = 4
    U8MAX = 50
    ValidBytes = {65, 66}
    OtherBytes = {200}
    weth = weth
    t1 = t1
    t2 = t2
    val1 = val1
    val2 = val2
    o1 = o1
    o2 = o2
    e1 = e1
    e2 = e2
    u1 = u1
    u2 = u2
CHECK_DEADLOCK FALSE
INVARIANTS
    EveryoneSignsTheSame
    NothingIsHeldBack
    EvidenceIsJudgedRight
    ClaimsSayWhatHappened
    RelaysWhatPays
    RunsOnDelegateKeys
    DepositsAreApproved
    OneRepresentation
PROPERTIES
    ComesUp
    DepositsAreMined
    ShownMeansLocked
