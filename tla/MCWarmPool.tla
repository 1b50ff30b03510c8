----------------------------- MODULE MCWarmPool -----------------------------
(* Small instances of WarmPool. *)
EXTENDS WarmPool, TLC

CONSTANTS d, x  \* the default template and another one

MCEntries3 == 1..3
MCEntries4 == 1..4

MCOneTemplate == [e \in Entries |-> d]

\* The ids of the two templates alternate in the key order.
MCTwoTemplates == [e \in Entries |-> IF e % 2 = 1 THEN d ELSE x]

MCTarget1 == [t \in Templates |-> 1]

CallerSymmetry == Permutations(Callers)
=============================================================================
