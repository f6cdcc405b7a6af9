SPECIFICATION Spec
CONSTANTS
    RepoList <- MCRepoList
    PathOf <- MCPathOf
    Distros <- MCDistros
    MajorOf <- MCMajorOf
    Epel = "epel"
    Skippable <- MCSkippable
    MaxSnapshots = 3
    MaxPublished = 1
    MaxPlaybooks = 4
INVARIANTS TypeOK SyncServesHosts RolesUsePinned OnlyAbortedEnabled
PROPERTIES PinsFollowArk ServedStays
CHECK_DEADLOCK FALSE
