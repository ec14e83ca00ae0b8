SPECIFICATION Spec
CONSTANTS
    alice = alice
    erc20 = erc20
    atom = atom
    wnom = wnom
    NoToken = NoToken
    Module = Module
    BadAddress = BadAddress
    EthereumTokens <- JustErc20
    CosmosTokens <- None
    PermanentSwap <- None
    Accounts <- OneAccount
    Amounts <- One
    Fees <- ZeroOrOne
    Rewards <- None
    MaxUint = 9
    EthereumSupply = 3
    InitialCoins = 0
    OutgoingTxBatchSize = 1
    AverageBlockTime = 1
    AverageEthereumBlockTime = 1
    TargetBatchTimeout = 1
    MaxTransfers = 2
    MaxBatches = 2
    MaxEvents = 4
    MaxEthHeight = 2
    MaxBlockHeight = 1
INVARIANTS
    WaitingBatchesHaveIncreasingFees
