------------------------------ MODULE MCFleet ------------------------------
EXTENDS Fleet, TLC

Symmetry == Permutations(Hosts) \cup Permutations(Regions) \cup Permutations(Requests)
            \cup Permutations(Beats) \cup Permutations(Admins)
=============================================================================
