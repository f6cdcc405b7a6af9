--------------------------- MODULE MCComputeInit ---------------------------
EXTENDS ComputeInit

CONSTANT n1

OneHost == {n1}
=============================================================================
