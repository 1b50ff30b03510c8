------------------------------ MODULE Sharing ------------------------------
(***************************************************************************)
(* Who may use whose snapshots: snapshot_sharing.rs.                       *)
(*                                                                         *)
(* Three DashMaps: the snapshots with the accounts each is shared with, the*)
(* grants, and the snapshots of each account.  can_access reads the grants,*)
(* the listings read the snapshots.  Sharing and removing change one entry *)
(* after the other.                                                        *)
(***************************************************************************)
EXTENDS Integers, Sequences

CONSTANTS
    Snapshots,  \* ids, registered by their owners
    Accounts,
    Sharers,    \* tasks that share and remove snapshots
    Shares      \* bound: operations begun

ASSUME SharingAssumption == Shares \in Nat /\ "none" \notin Snapshots \cup Accounts

VARIABLES
    shared,     \* snapshots: the owner and shared_with of each that is registered
    grants,     \* the (snapshot, account) pairs with a grant
    offers,     \* shared_with_account: what was shared with each account
    sharer,     \* what each task is in the middle of
    begun,      \* operations begun, at most Shares
    \* Auxiliary, of (snapshot, account) pairs:
    stale,      \* granted when the id was registered again, or by a share that then
                \* found the snapshot gone; until listed or revoked
    undone      \* revoked by a removal when the id was registered again already, or
                \* between the two steps of a share; until granted again

sharingHistory == <<stale, undone>>
sharingVars == <<shared, grants, offers, sharer, begun, sharingHistory>>

NoShare == [pc |-> "idle", snapshot |-> "none", account |-> "none", left |-> {}]
Unregistered == [owner |-> "none", with |-> {}, org |-> FALSE]

SharingInit ==
    /\ shared = [s \in Snapshots |-> Unregistered]
    /\ grants = {}
    /\ offers = [a \in Accounts |-> <<>>]
    /\ sharer = [t \in Sharers |-> NoShare]
    /\ begun = 0
    /\ stale = {} /\ undone = {}

Registered(s) == shared[s].owner # "none"
InHand(s) == \E t \in Sharers : sharer[t].snapshot = s

Begin == begun < Shares /\ begun' = begun + 1

\* An id that is registered again starts private; grants are not looked at.
Register(s, a) ==
    /\ Begin
    /\ shared' = [shared EXCEPT ![s] = [owner |-> a, with |-> {}, org |-> FALSE]]
    /\ stale' = stale \cup {g \in grants : g[1] = s}
    /\ UNCHANGED <<grants, offers, sharer, undone>>

ShareWithOrg(s) ==
    /\ Begin
    /\ Registered(s)
    /\ shared' = [shared EXCEPT ![s].org = TRUE]
    /\ UNCHANGED <<grants, offers, sharer, sharingHistory>>

\* By the owner, and not with himself; the entry is free again after the check.
ShareWithAccount(t, s, a) ==
    /\ Begin
    /\ sharer[t].pc = "idle"
    /\ Registered(s) /\ shared[s].owner # a
    /\ sharer' = [sharer EXCEPT ![t] =
          [pc |-> "grant", snapshot |-> s, account |-> a, left |-> {}]]
    /\ UNCHANGED <<shared, grants, offers, sharingHistory>>

Pair(t) == <<sharer[t].snapshot, sharer[t].account>>

InsertGrant(t) ==
    /\ sharer[t].pc = "grant"
    /\ grants' = grants \cup {Pair(t)}
    /\ undone' = undone \ {Pair(t)}
    /\ sharer' = [sharer EXCEPT ![t].pc = "list"]
    /\ UNCHANGED <<shared, offers, begun, stale>>

\* A snapshot that has been removed meanwhile is not listed; the grant stays.
ListAccount(t) ==
    LET s == sharer[t].snapshot IN
    /\ sharer[t].pc = "list"
    /\ IF Registered(s)
         THEN /\ shared' = [shared EXCEPT ![s].with = @ \cup {sharer[t].account}]
              /\ stale' = stale \ {Pair(t)}
         ELSE UNCHANGED shared /\ stale' = stale \cup {Pair(t)}
    /\ sharer' = [sharer EXCEPT ![t].pc = "offer"]
    /\ UNCHANGED <<grants, offers, begun, undone>>

Offer(t) ==
    /\ sharer[t].pc = "offer"
    /\ offers' = [offers EXCEPT ![sharer[t].account] = Append(@, sharer[t].snapshot)]
    /\ sharer' = [sharer EXCEPT ![t] = NoShare]
    /\ UNCHANGED <<shared, grants, begun, sharingHistory>>

\* The entry first, and then what it was shared with, one account at a time.
RemoveSnapshot(t, s) ==
    /\ Begin
    /\ sharer[t].pc = "idle" /\ Registered(s)
    /\ shared' = [shared EXCEPT ![s] = Unregistered]
    /\ sharer' = [sharer EXCEPT ![t] = [pc |-> "revoke", snapshot |-> s, account |-> "none",
                                         left |-> shared[s].with]]
    /\ UNCHANGED <<grants, offers, sharingHistory>>

\* Somebody has granted it, and is about to list it.
BeingListed(s, a) ==
    \E t \in Sharers : sharer[t].pc = "list" /\ Pair(t) = <<s, a>>

\* Mutant: the grants are left.
RevokeGrant_Kept(t, a) ==
    /\ sharer[t].pc = "revoke" /\ a \in sharer[t].left
    /\ sharer' = [sharer EXCEPT ![t] = [sharer[t] EXCEPT !.pc = "retract", !.account = a,
                                                !.left = sharer[t].left \ {a}]]
    /\ UNCHANGED <<shared, grants, offers, begun, sharingHistory>>

RevokeGrant(t, a) ==
    LET s == sharer[t].snapshot IN
    /\ sharer[t].pc = "revoke" /\ a \in sharer[t].left
    /\ grants' = grants \ {<<s, a>>}
    /\ sharer' = [sharer EXCEPT ![t] = [sharer[t] EXCEPT !.pc = "retract", !.account = a,
                                                !.left = sharer[t].left \ {a}]]
    /\ stale' = stale \ {<<s, a>>}
    /\ undone' = IF Registered(s) \/ BeingListed(s, a) THEN undone \cup {<<s, a>>} ELSE undone
    /\ UNCHANGED <<shared, offers, begun>>

Retract(t) ==
    LET s == sharer[t].snapshot IN
    /\ sharer[t].pc = "retract"
    /\ offers' = [offers EXCEPT ![sharer[t].account] = SelectSeq(@, LAMBDA x : x # s)]
    /\ sharer' = [sharer EXCEPT ![t].pc = "revoke"]
    /\ UNCHANGED <<shared, grants, begun, sharingHistory>>

Removed(t) ==
    /\ sharer[t].pc = "revoke" /\ sharer[t].left = {}
    /\ sharer' = [sharer EXCEPT ![t] = NoShare]
    /\ UNCHANGED <<shared, grants, offers, begun, sharingHistory>>

\* A snapshot that is shared with the organisation asks for its owner once more.
CanAccess(s, a) ==
    /\ Registered(s)
    /\ \/ shared[s].owner = a
       \/ shared[s].org /\ shared[s].owner = a
       \/ <<s, a>> \in grants

ListVisible(a) ==
    {s \in Snapshots : \/ shared[s].owner = a
                       \/ shared[s].org /\ shared[s].owner = a
                       \/ a \in shared[s].with}

ListSharedWith(a) == {s \in Snapshots : a \in shared[s].with}

SharingNext ==
    \/ \E s \in Snapshots, a \in Accounts : Register(s, a)
    \/ \E s \in Snapshots : ShareWithOrg(s)
    \/ \E t \in Sharers, s \in Snapshots, a \in Accounts : ShareWithAccount(t, s, a)
    \/ \E t \in Sharers, s \in Snapshots : RemoveSnapshot(t, s)
    \/ \E t \in Sharers, a \in Accounts : RevokeGrant(t, a)
    \/ \E t \in Sharers :
          InsertGrant(t) \/ ListAccount(t) \/ Offer(t) \/ Retract(t) \/ Removed(t)

SharingSpec == SharingInit /\ [][SharingNext]_sharingVars

-----------------------------------------------------------------------------

\* The types of the three maps of snapshot_sharing.rs and of the tasks.
SharingTypeOK ==
    /\ shared \in [Snapshots -> [owner : Accounts \cup {"none"}, with : SUBSET Accounts,
                                 org : BOOLEAN]]
    /\ grants \subseteq Snapshots \X Accounts
    /\ sharer \in [Sharers -> [pc : {"idle", "grant", "list", "offer", "revoke", "retract"},
                               snapshot : Snapshots \cup {"none"},
                               account : Accounts \cup {"none"}, left : SUBSET Accounts]]
    /\ begun \in 0 .. Shares
    /\ stale \cup undone \subseteq Snapshots \X Accounts

\* When no operation on a snapshot is under way, an account that can_access lets use it
\* is one whose list_visible lists it, the other way round, and a removed snapshot leaves
\* no grant.  The pairs for which that is not so are told by what came before:
\*  - a stale grant is all that is left of a share when the id is registered again, which
\*    resets shared_with and not the grants, or when the snapshot was removed while it was
\*    being shared.  It lets the account use what no list shows it, and no removal
\*    revokes it, until the snapshot is shared with the account again;
\*  - an undone share is one whose grant a removal of the same id, begun before, took
\*    away: it is listed, and cannot be used.
AccessAgrees ==
    \A s \in Snapshots, a \in Accounts : ~ InHand(s) =>
        /\ CanAccess(s, a) => s \in ListVisible(a) \/ <<s, a>> \in stale
        /\ s \in ListVisible(a) => CanAccess(s, a) \/ <<s, a>> \in undone
        /\ <<s, a>> \in grants => s \in ListSharedWith(a) \/ <<s, a>> \in stale
=============================================================================
