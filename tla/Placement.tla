----------------------------- MODULE Placement -----------------------------
(***************************************************************************)
(* The choice of a host from a listing: placement.rs, on the snapshots that*)
(* host_registry.rs makes.  A listing is a sequence of snapshots, since    *)
(* each strategy takes the first of the hosts that it finds equally good.  *)
(***************************************************************************)
EXTENDS Integers, Sequences

\* The free part of a resource, never below zero.
FreeVcpus(s) == IF s.usedVcpus > s.totalVcpus THEN 0 ELSE s.totalVcpus - s.usedVcpus
FreeMem(s) == IF s.usedMem > s.totalMem THEN 0 ELSE s.totalMem - s.usedMem

\* Mutant: what is free is not looked at.
CanSchedule_Full(s, size) == s.circuit # "Open"

CanSchedule(s, size) ==
    s.circuit # "Open" /\ FreeVcpus(s) >= size.vcpus /\ FreeMem(s) >= size.mem

\* The hosts of a listing that can take a sandbox of that size, by their place.
Candidates(list, size) == {i \in DOMAIN list : CanSchedule(list[i], size)}

Nobody == [placed |-> FALSE]
Placed(s) == [placed |-> TRUE, host |-> s.host]

\* The first of the candidates that nobody is better than.
Choice(list, among, Better(_, _)) ==
    IF among = {} THEN Nobody
    ELSE LET best == {i \in among : \A j \in among : ~ Better(list[j], list[i])}
         IN  Placed(list[CHOOSE i \in best : \A j \in best : i <= j])

\* The least free vcpus.
BestFit(list, size) ==
    LET Tighter(s, t) == FreeVcpus(s) < FreeVcpus(t)
    IN  Choice(list, Candidates(list, size), Tighter)

FirstFit(list, size) ==
    LET Never(s, t) == FALSE
    IN  Choice(list, Candidates(list, size), Never)

\* The most free vcpus and memory, which a candidate without any does not beat.
LeastLoaded(list, size) ==
    LET Score(s) == FreeVcpus(s) + FreeMem(s)
        Looser(s, t) == Score(s) > Score(t)
    IN  Choice(list, {i \in Candidates(list, size) : Score(list[i]) > 0}, Looser)
=============================================================================
