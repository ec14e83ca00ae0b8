SPECIFICATION FairSpec
CONSTANTS
    SignedValsetsWindow = 1
    SignedBatchesWindow = 1
    SignedLogicCallsWindow = 2
    UnbondSlashingValsetsWindow = 2
    BatchKeys = {1, 2}
    CallKeys = {1, 2}
    MaxIssue = 1
    MaxHeight = 3
    NoFees = {1}
    MaxQuery = 2
    None = None
PROPERTY EverythingIsSigned
