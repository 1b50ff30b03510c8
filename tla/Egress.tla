------------------------------- MODULE Egress -------------------------------
(***************************************************************************)
(* Which connections a sandbox may open: egress_proxy.rs.                  *)
(*                                                                         *)
(* Every operation is one access to one map, and a decision is a function  *)
(* of what it finds there, so that this module has operators only.  Whoever*)
(* calls them, and counts the connections, is not in the repository.       *)
(*                                                                         *)
(* A host is its text and, when the text is an IPv4 address, its number.   *)
(* The targets of an allowlist are a set: they are tried in order, but any *)
(* that allows ends the search and none denies.                            *)
(***************************************************************************)
EXTENDS Integers, Sequences

CONSTANT AddressBits    \* 32

ASSUME EgressAssumption == AddressBits \in Nat \ {0}

NotAnAddress == -1
AnyPort == -1

-----------------------------------------------------------------------------
(* Hosts and patterns *)

\* The bits of an address that a mask of shifted ones keeps.
Masked(address, shift) == address - (address % (2 ^ shift))

\* A prefix of zero keeps nothing.  One that is too long is not refused: the shift
\* wraps around where overflow is not checked, and panics where it is.
CidrContains(network, prefix, address) ==
    LET shift == (AddressBits - prefix) % AddressBits
    IN  prefix = 0 \/ Masked(network, shift) = Masked(address, shift)

EndsWith(text, end) ==
    /\ Len(end) <= Len(text)
    /\ SubSeq(text, Len(text) - Len(end) + 1, Len(text)) = end

\* A pattern matches itself; what follows "*." matches as an end of the text, of a
\* label or not; and a range matches the addresses in it.
MatchesHostOrCidr(host, pattern) ==
    \/ host.text = pattern.text
    \/ pattern.kind = "wildcard" /\ EndsWith(host.text, pattern.domain)
    \/ /\ pattern.kind = "range" /\ host.ip # NotAnAddress
       /\ CidrContains(pattern.network, pattern.prefix, host.ip)

PortFits(wanted, port) == wanted \in {AnyPort, port}

-----------------------------------------------------------------------------
(* check_egress *)

\* "*" is a pattern of its own for targets.
Admits(target, host, port) ==
    /\ target.pattern.kind = "all" \/ MatchesHostOrCidr(host, target.pattern)
    /\ PortFits(target.port, port)

DenyAll == [targets |-> {}, dns |-> FALSE, servers |-> {}, maxConnections |-> 0]

\* The servers are not compared with anything when there are none.
CheckDns(list, host, port) ==
    IF ~ list.dns THEN "DeniedDns"
    ELSE IF list.servers = {} \/ (\E s \in list.servers : s.ip = host.text /\ s.port = port)
         THEN "Allowed"
         ELSE "DeniedDns"

CheckTargets(list, host, port) ==
    IF \E t \in list.targets : Admits(t, host, port) THEN "Allowed"
    ELSE IF \E t \in list.targets : /\ t.pattern.kind # "all"
                                    /\ MatchesHostOrCidr(host, t.pattern)
         THEN "DeniedWrongPort"
         ELSE "DeniedNoMatch"

\* A limit of zero is none, and the count is the caller's.
CheckEgress(list, host, port, isDns, active) ==
    IF isDns THEN CheckDns(list, host, port)
    ELSE IF list.maxConnections > 0 /\ active >= list.maxConnections THEN "DeniedConnectionLimit"
    ELSE CheckTargets(list, host, port)

-----------------------------------------------------------------------------
(* EgressProxyManager: the configuration of each sandbox that has one *)

RegisterConfig(configs, sandbox, list) ==
    [s \in DOMAIN configs \cup {sandbox} |-> IF s = sandbox THEN list ELSE configs[s]]

UnregisterConfig(configs, sandbox) == [s \in DOMAIN configs \ {sandbox} |-> configs[s]]

\* An error, and no change, for a sandbox that has none.
UpdateAllowlist(configs, sandbox, list) ==
    [s \in DOMAIN configs |-> IF s = sandbox THEN list ELSE configs[s]]

CheckSandbox(configs, sandbox, host, port, isDns, active) ==
    IF sandbox \in DOMAIN configs THEN CheckEgress(configs[sandbox], host, port, isDns, active)
    ELSE "DeniedNoMatch"

-----------------------------------------------------------------------------
(* NetworkPolicy::check_target, by the mode of the policy *)

Fits(rule, host, port) == MatchesHostOrCidr(host, rule.pattern) /\ PortFits(rule.port, port)

\* The first rule that fits, by its place, or 0 when the allowlist decides.
MatchedRule(policy, host, port) ==
    LET fitting == {i \in DOMAIN policy.rules : Fits(policy.rules[i], host, port)}
    IN  IF fitting = {} THEN 0 ELSE CHOOSE i \in fitting : \A j \in fitting : i <= j

CheckTarget(policy, host, port) ==
    CASE policy.mode = "AllowAll" -> TRUE
      [] policy.mode = "DenyAll" -> FALSE
      [] policy.mode = "Custom" ->
            \/ MatchedRule(policy, host, port) # 0
            \/ CheckEgress(policy.list, host, port, FALSE, 0) = "Allowed"

DenyAllPolicy == [mode |-> "DenyAll", rules |-> <<>>, list |-> DenyAll]
CustomPolicy(rules) == [mode |-> "Custom", rules |-> rules, list |-> DenyAll]

-----------------------------------------------------------------------------

\* The proxy's address, from the first two bytes of the sandbox's id.
ListenAddress(id) == <<172, 16, id[1] % 16, (id[2] % 254) + 1>>
=============================================================================
