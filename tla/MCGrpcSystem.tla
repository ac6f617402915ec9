--------------------------- MODULE MCGrpcSystem ---------------------------
EXTENDS GrpcSystem, TLC
Symmetry == Permutations(Threads)
===========================================================================
