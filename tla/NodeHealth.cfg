SPECIFICATION HealthSpec
CONSTANTS
    KernelMounts <- Mountable
    InitialTables <- Tables
    Fstab <- FstabLines
    Arguments <- ModuleArguments
    MaxChanges = 2
    Ports <- NodePorts
    Gids <- NodeGids
    Speed <- NodeSpeed
    NetDevices = {"ib0", "ib1"}
    Mac <- NodeMac
    NetDeviceOf <- NodeNetDevice
    Efi <- EfiMount
INVARIANTS HealthTypeOK StableReported NoRepeatedSource LiveDefinition InfinibandChecked DownForCause
PROPERTIES GatheringEnds
CHECK_DEADLOCK FALSE
