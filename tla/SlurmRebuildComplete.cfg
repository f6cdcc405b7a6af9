SPECIFICATION FairSpec
CONSTANTS
    Nodes = {1, 2, 3}
    Partitions <- TrioPartition
    NodeSets <- TrioSets
    Jobs = {j1}
    Images = {i1, i2, i3}
    NoImage = NoImage
    BatchSize = 2
    NextStates = {"RESUME"}
    Failures = {}
    Overlap = FALSE
PROPERTIES RebuildsReachInventory UpgradeCompletes
