SPECIFICATION Spec
CONSTANTS
    Nodes = {"ci-0", "ci-1", "ci-2", "my-ci"}
    TopologyNodes = {"ci-0", "ci-1", "ci-2"}
    Prefixed = {"ci-0", "ci-1"}
    HostId <- MCHostId
    Az <- MCAz
    Master <- MCMaster
    Start = 2
    MaxEvents = 2
INVARIANTS TypeOK MapFaithful DeletionOutcome
PROPERTIES DeletesOnlyListed
CHECK_DEADLOCK FALSE
