----------------------------- MODULE PoolLedger -----------------------------
(***************************************************************************)
(* What the warm pool promises about an entry: it is published once, it is *)
(* taken out of the offer at most once, and it never comes back.           *)
(***************************************************************************)
CONSTANT Entries

VARIABLES offered, retired

vars == <<offered, retired>>

Init == offered = {} /\ retired = {}

\* A new snapshot joins the offer.
Publish(e) ==
    /\ e \notin offered \cup retired
    /\ offered' = offered \cup {e}
    /\ UNCHANGED retired

\* An entry leaves the offer, to a claim or to a shrinking pool.
Retire(e) ==
    /\ e \in offered
    /\ offered' = offered \ {e}
    /\ retired' = retired \cup {e}

Next == \E e \in Entries : Publish(e) \/ Retire(e)

Spec == Init /\ [][Next]_vars
=============================================================================
