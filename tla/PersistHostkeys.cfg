SPECIFICATION Spec
CONSTANTS
    h1 = h1
    h2 = h2
    rsa = rsa
    ed25519 = ed25519
    Hosts <- TwoHosts
    Types <- TwoTypes
    MaxRuns = 2
    NoKey = NoKey
    Crashes = TRUE
INVARIANTS TypeOK SharedKeys
PROPERTIES PersistentKeys
