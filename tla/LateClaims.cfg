SPECIFICATION Spec
CONSTANTS
    Kinds = {"valset", "transfer"}
    NetVersion = "pow"
    Delays <- MCDelays
    BLOCKS_TO_SEARCH = 3
    Height0 = 2
    MaxReorg = 1
    MaxHeight = 5
    MaxEvents = 3
    MaxBlockEvents = 2
    MaxFaults = 2
INVARIANT
    UnprocessedClaimsAreRepeated
