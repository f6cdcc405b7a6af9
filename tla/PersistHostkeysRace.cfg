SPECIFICATION Spec
CONSTANTS
    h1 = h1
    h2 = h2
    rsa = rsa
    ed25519 = ed25519
    Hosts <- TwoHosts
    Types <- OneType
    MaxRuns = 1
    NoKey = NoKey
    Crashes = FALSE
INVARIANTS PairsMatch
