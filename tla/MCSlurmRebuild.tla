--------------------------- MODULE MCSlurmRebuild ---------------------------
EXTENDS SlurmRebuild

(* One partition of two or three nodes, all of it rebuilt at once.         *)
PairPartition == {{1, 2}}
PairSets == {{1, 2}}
TrioPartition == {{1, 2, 3}}
TrioSets == {{1, 2, 3}}
=============================================================================
