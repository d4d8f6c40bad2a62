---------------------------- MODULE MCProfitLock ----------------------------
EXTENDS ProfitLock, TLC

Symmetry == Permutations(Task)
=============================================================================
