SPECIFICATION FairSpec
CONSTANTS
    n1 = n1
    Hosts <- OneHost
    Metadata = {"compute", "sssd", "nhc"}
    MaxVersion = 3
    NoFile = NoFile
    Failures = {"site", "boot"}
INVARIANTS TypeOK ConfigCurrent SlurmdConfigured
PROPERTIES DeployCompletes
