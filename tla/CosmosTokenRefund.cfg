SPECIFICATION Spec
CONSTANTS
    alice = alice
    erc20 = erc20
    atom = atom
    wnom = wnom
    NoToken = NoToken
    Module = Module
    BadAddress = BadAddress
    EthereumTokens <- JustWNom
    CosmosTokens <- JustAtom
    PermanentSwap <- JustWNom
    Accounts <- OneAccount
    Amounts <- One
    Fees <- One
    Rewards <- One
    MaxUint = 9
    EthereumSupply = 1
    InitialCoins = 3
    OutgoingTxBatchSize = 1
    AverageBlockTime = 1
    AverageEthereumBlockTime = 1
    TargetBatchTimeout = 1
    MaxTransfers = 1
    MaxBatches = 2
    MaxEvents = 6
    MaxEthHeight = 2
    MaxBlockHeight = 2
INVARIANTS
    RefundsAreInTheModule
