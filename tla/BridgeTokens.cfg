SPECIFICATION FairSpec
CONSTANTS
    alice = alice
    erc20 = erc20
    atom = atom
    wnom = wnom
    NoToken = NoToken
    Module = Module
    BadAddress = BadAddress
    EthereumTokens <- ErcAndNom
    CosmosTokens <- JustAtom
    PermanentSwap <- JustWNom
    Accounts <- OneAccount
    Amounts <- One
    Fees <- Zero
    Rewards <- One
    MaxUint = 9
    EthereumSupply = 1
    InitialCoins = 1
    OutgoingTxBatchSize = 1
    AverageBlockTime = 1
    AverageEthereumBlockTime = 1
    TargetBatchTimeout = 1
    MaxTransfers = 2
    MaxBatches = 2
    MaxEvents = 5
    MaxEthHeight = 2
    MaxBlockHeight = 1
INVARIANTS
    NoDoubleSpend
    FullyBacked
    DepositsAreCredited
PROPERTY
    ExecutedBatchIsRemoved
