----------------------------- MODULE MCLibrary -----------------------------
(***************************************************************************)
(* The components of the library and of the scheduler that share no state  *)
(* with any other, checked in one run: each behaviour is one of the subject*)
(* that its first state names, and the others do not move.                 *)
(***************************************************************************)
EXTENDS Templates, Disks, Sharing, Sharding, Transfers, Demand, Webhooks, Egress, TLC

VARIABLE subject

libraryVars == <<subject, templateVars, diskVars, sharingVars, shardVars, transferVars,
                 demandVars, webhookVars>>

ShardPoints == (<<"r1", "any">> :> {1, 5}) @@ (<<"any", "t1">> :> {2, 5})
               @@ (<<"r1", "t1">> :> {3})

LibraryInit ==
    /\ subject \in {"templates", "disks", "sharing", "sharding", "transfers", "demand",
                    "webhooks"}
    /\ TemplatesInit /\ DisksInit /\ SharingInit /\ ShardingInit /\ TransfersInit
    /\ DemandInit /\ WebhooksInit
    \* Where a component may begin in several ways, the others begin in one.
    /\ subject = "disks" \/ \A o \in Owners : backend[o] = "flat"
    /\ subject = "sharding" \/ fallback = <<>>

LibraryNext ==
    /\ UNCHANGED subject
    /\ \/ /\ subject = "templates" /\ TemplatesNext
          /\ UNCHANGED <<diskVars, sharingVars, shardVars,
                         transferVars, demandVars, webhookVars>>
       \/ /\ subject = "disks" /\ DisksNext
          /\ UNCHANGED <<templateVars, sharingVars, shardVars,
                         transferVars, demandVars, webhookVars>>
       \/ /\ subject = "sharing" /\ SharingNext
          /\ UNCHANGED <<templateVars, diskVars, shardVars,
                         transferVars, demandVars, webhookVars>>
       \/ /\ subject = "sharding" /\ ShardingNext
          /\ UNCHANGED <<templateVars, diskVars, sharingVars,
                         transferVars, demandVars, webhookVars>>
       \/ /\ subject = "transfers" /\ TransfersNext
          /\ UNCHANGED <<templateVars, diskVars, sharingVars,
                         shardVars, demandVars, webhookVars>>
       \/ /\ subject = "demand" /\ DemandNext
          /\ UNCHANGED <<templateVars, diskVars, sharingVars,
                         shardVars, transferVars, webhookVars>>
       \/ /\ subject = "webhooks" /\ WebhooksNext
          /\ UNCHANGED <<templateVars, diskVars, sharingVars,
                         shardVars, transferVars, demandVars>>

LibrarySpec == LibraryInit /\ [][LibraryNext]_libraryVars /\ WebhooksFairness

\* Every component keeps to its types: what the handlers store is what they read back.
LibraryTypeOK ==
    /\ TemplatesTypeOK /\ DisksTypeOK /\ SharingTypeOK /\ ShardingTypeOK /\ TransfersTypeOK
    /\ DemandTypeOK /\ WebhooksTypeOK

\* TemplateManager, VolumeManager and BlockDeviceManager: a template that is recorded has
\* a whole image, but for the three exceptions of TemplatesSound; what builds leave behind
\* and the files of disks that nobody finds are somebody's failure.
StorageSound == TemplatesSound /\ DisksAccountedFor

-----------------------------------------------------------------------------
(* Egress.tla against what its decisions are meant to be, on addresses of  *)
(* four bits and hosts of three letters.                                   *)

Addresses == 0 .. 2 ^ AddressBits - 1

Bit(n, i) == (n \div 2 ^ i) % 2

\* A range contains the addresses whose first bits, as many as the prefix, are its own.
ASSUME RangesAgree ==
    \A network \in Addresses, address \in Addresses, prefix \in 0 .. AddressBits :
        CidrContains(network, prefix, address) <=>
        \A i \in AddressBits - prefix .. AddressBits - 1 : Bit(network, i) = Bit(address, i)

MCHosts == {[text |-> t, ip |-> NotAnAddress] :
                t \in {<<"a">>, <<"b", "a">>, <<"b", ".", "a">>}}
           \cup {[text |-> <<"3">>, ip |-> 3], [text |-> <<"5">>, ip |-> 5]}

MCPatterns == {[kind |-> "exact", text |-> h.text] : h \in MCHosts}
    \cup {[kind |-> "wildcard", text |-> <<"*", ".", "a">>, domain |-> <<"a">>],
          [kind |-> "range", text |-> <<"4/1">>, network |-> 4, prefix |-> 1],
          [kind |-> "range", text |-> <<"4/3">>, network |-> 4, prefix |-> 3],
          [kind |-> "all", text |-> <<"*">>]}

MCTargets == {[pattern |-> p, port |-> n] : p \in MCPatterns, n \in {AnyPort, 80, 443}}

\* What a target alone allows, an allowlist with it allows; and a list allows nothing
\* that no target of it does.
ASSUME TargetsAgree ==
    \A s \in MCTargets, t \in MCTargets, h \in MCHosts, n \in {80, 443},
       max \in {0, 1}, active \in {0, 1} :
    LET Decide(targets) ==
            CheckEgress([DenyAll EXCEPT !.targets = targets, !.maxConnections = max],
                        h, n, FALSE, active)
    IN  Decide({s, t}) = "Allowed" <=> Decide({s}) = "Allowed" \/ Decide({t}) = "Allowed"

\* A policy of rules allows what an allowlist of the same targets does, the pattern
\* "*" aside, which is no wildcard for a rule.
ASSUME PoliciesAgree ==
    \A s \in MCTargets, t \in MCTargets, h \in MCHosts, n \in {80, 443} :
    "all" \notin {s.pattern.kind, t.pattern.kind} =>
        (CheckTarget(CustomPolicy(<<s, t>>), h, n) <=>
         CheckEgress([DenyAll EXCEPT !.targets = {s, t}], h, n, FALSE, 0) = "Allowed")

\* The address of a proxy is neither its network's nor the broadcast address.
ASSUME ListenersUsable ==
    \A a \in 0 .. 255, b \in 0 .. 255 : ListenAddress(<<a, b>>)[4] \in 1 .. 254
=============================================================================
