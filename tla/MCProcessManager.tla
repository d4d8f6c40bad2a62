-------------------------- MODULE MCProcessManager --------------------------
EXTENDS ProcessManager, TLC

Symmetry == Permutations(Task)
=============================================================================
