SPECIFICATION ChainSpec
CONSTANTS
    SignedValsetsWindow = 2
    SignedBatchesWindow = 1
    SignedLogicCallsWindow = 2
    UnbondSlashingValsetsWindow = 2
    BatchKeys = {1, 2}
    CallKeys = {2}
    MaxIssue = 2
    MaxHeight = 5
CHECK_DEADLOCK FALSE
INVARIANTS
    EveryValsetIsJudged
    WindowIsGranted
    EveryBatchIsJudged
    LeaversSignTheirRemoval
