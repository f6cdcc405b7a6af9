SPECIFICATION FairSpec
CONSTANTS
    KernelMounts <- Mountable
    InitialTables <- Tables
    Fstab <- FstabLines
    Arguments <- ModuleArguments
    MaxChanges = 0
INVARIANTS TimeoutTolerated
CHECK_DEADLOCK FALSE
