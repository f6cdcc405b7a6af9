SPECIFICATION FairSpec
CONSTANTS
    Nodes = {1, 2}
    Partitions <- PairPartition
    NodeSets <- PairSets
    Jobs = {j1}
    Images = {i1, i2}
    NoImage = NoImage
    BatchSize = 1
    NextStates = {"RESUME", "DOWN"}
    Failures = {"site", "play", "program", "boot", "timeout"}
    Overlap = FALSE
INVARIANTS TypeOK NoMixedJob NoJobOnRestartingNode RollingPartition
PROPERTIES ImplementsRollingUpgrade RequestsSettle
