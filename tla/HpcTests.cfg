SPECIFICATION Spec
CONSTANTS
    Selections <- NodeLists
    Rows <- NodeRows
    EffectiveCpus <- Cpus
    Matrices <- PingOutputs
    ImbOutputs <- Imb
    Sizes <- ImbSizes
    MaxJobs = 2
INVARIANTS ReportFresh GridFits MatrixFaithful PingpongWhole
CHECK_DEADLOCK FALSE
