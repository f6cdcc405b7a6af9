------------------------- MODULE MCPersistHostkeys -------------------------
EXTENDS PersistHostkeys, TLC

CONSTANTS h1, h2, rsa, ed25519

TwoHosts == {h1, h2}
OneType == {rsa}
TwoTypes == {rsa, ed25519}
=============================================================================
