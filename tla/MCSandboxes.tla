---------------------------- MODULE MCSandboxes ----------------------------
EXTENDS Sandboxes, TLC
Symmetry == Permutations(Vms) \cup Permutations(Callers) \cup Permutations(Threads)
=============================================================================
