--------------------------- MODULE SharingProofs ---------------------------
(***************************************************************************)
(* Proofs about Sharing, for any snapshots, accounts and tasks: the types, *)
(* and how far the two answers to who may use a snapshot agree.            *)
(***************************************************************************)
EXTENDS Sharing, TLAPS

\* What each task is in the middle of, and each snapshot with whom it is shared.
Share == [pc : {"idle", "grant", "list", "offer", "revoke", "retract"},
          snapshot : Snapshots \cup {"none"}, account : Accounts \cup {"none"},
          left : SUBSET Accounts]
Meta == [owner : Accounts \cup {"none"}, with : SUBSET Accounts, org : BOOLEAN]

\* A task that is not idle has a snapshot in hand, and an account where it needs one.
Shaped(k) ==
    /\ k.pc = "idle" <=> k.snapshot = "none"
    /\ k.pc \in {"grant", "list", "offer", "retract"} => k.account \in Accounts

Types ==
    /\ SharingTypeOK
    /\ \A t \in Sharers : Shaped(sharer[t])
    /\ \A s \in Snapshots : ~ Registered(s) => shared[s].with = {}

Granted(s, a) == <<s, a>> \in grants
Listed(s, a) == a \in shared[s].with

\* A removal has yet to revoke the grant.
BeingRevoked(s, a) ==
    \E t \in Sharers : /\ sharer[t].pc \in {"revoke", "retract"}
                       /\ sharer[t].snapshot = s /\ a \in sharer[t].left

\* What stands behind a grant, and behind a listing or one that is to come.
Backed(s, a) ==
    /\ Granted(s, a) =>
          Listed(s, a) \/ BeingListed(s, a) \/ BeingRevoked(s, a) \/ <<s, a>> \in stale
    /\ Listed(s, a) \/ BeingListed(s, a) => Granted(s, a) \/ <<s, a>> \in undone

Inv == Types /\ \A s \in Snapshots, a \in Accounts : Backed(s, a)

-----------------------------------------------------------------------------

THEOREM InitEstablished == SharingInit => Inv
<1> SUFFICES ASSUME SharingInit PROVE Inv
  OBVIOUS
<1> USE SharingAssumption
<1>1. /\ \A t \in Sharers : sharer[t] = NoShare
      /\ \A s \in Snapshots : shared[s] = Unregistered
  BY DEF SharingInit
<1>2. NoShare \in Share /\ NoShare.pc = "idle" /\ NoShare.snapshot = "none"
  BY DEF NoShare, Share
<1>3. Unregistered \in Meta /\ Unregistered.with = {}
  BY DEF Unregistered, Meta
<1>4. SharingTypeOK
  BY <1>2, <1>3 DEF SharingTypeOK, SharingInit, Share, Meta
<1>5. \A t \in Sharers : Shaped(sharer[t])
  BY <1>1, <1>2 DEF Shaped
<1>6. Types
  BY <1>1, <1>3, <1>4, <1>5 DEF Types
<1>7. ASSUME NEW s \in Snapshots, NEW a \in Accounts PROVE Backed(s, a)
  <2>1. ~ Granted(s, a) /\ ~ Listed(s, a) /\ ~ BeingListed(s, a)
    BY <1>1, <1>2, <1>3 DEF Granted, Listed, BeingListed, SharingInit
  <2> QED BY <2>1 DEF Backed
<1> QED BY <1>6, <1>7 DEF Inv

-----------------------------------------------------------------------------
(* The types *)

\* What Types says of the variables.
LEMMA Shapes ==
    ASSUME Types
    PROVE  /\ sharer \in [Sharers -> Share] /\ shared \in [Snapshots -> Meta]
           /\ \A t \in Sharers : Shaped(sharer[t])
           /\ \A s \in Snapshots : shared[s].owner = "none" => shared[s].with = {}
           /\ grants \subseteq Snapshots \X Accounts /\ begun \in 0 .. Shares
           /\ stale \subseteq Snapshots \X Accounts /\ undone \subseteq Snapshots \X Accounts
  BY DEF Types, SharingTypeOK, Share, Meta, Registered

\* Grants and pairs of the history are changed by pairs.
PairTypes ==
    /\ grants' \subseteq Snapshots \X Accounts /\ begun' \in 0 .. Shares
    /\ stale' \subseteq Snapshots \X Accounts /\ undone' \subseteq Snapshots \X Accounts

LEMMA BeginTypes == ASSUME Types, Begin PROVE begun' \in 0 .. Shares
  BY SharingAssumption DEF Begin, Types, SharingTypeOK

\* A step gives the snapshot s the entry m and leaves the tasks alone.
LEMMA EntryTypes ==
    ASSUME Types, NEW s \in Snapshots, NEW m \in Meta, m.owner = "none" => m.with = {},
           shared' = [shared EXCEPT ![s] = m], sharer' = sharer, PairTypes
    PROVE  /\ Types'
           /\ \A r \in Snapshots : shared'[r] = IF r = s THEN m ELSE shared[r]
<1>1. \A r \in Snapshots : shared'[r] = IF r = s THEN m ELSE shared[r]
  BY Shapes
<1>2. SharingTypeOK'
  BY Shapes DEF SharingTypeOK, Share, Meta, PairTypes
<1>3. \A r \in Snapshots : shared'[r].owner = "none" => shared'[r].with = {}
  BY <1>1, Shapes
<1>4. \A t \in Sharers : Shaped(sharer'[t])
  BY Shapes
<1> QED BY <1>1, <1>2, <1>3, <1>4 DEF Types, Registered, Shaped

\* A step gives the task t the record n, and may give the snapshot s the entry m.
LEMMA TaskTypes ==
    ASSUME Types, NEW t \in Sharers, NEW n \in Share, Shaped(n),
           sharer' = [sharer EXCEPT ![t] = n],
           NEW s \in Snapshots, NEW m \in Meta, m.owner = "none" => m.with = {},
           shared' = [shared EXCEPT ![s] = m], PairTypes
    PROVE  /\ Types'
           /\ \A u \in Sharers : sharer'[u] = IF u = t THEN n ELSE sharer[u]
           /\ \A r \in Snapshots : shared'[r] = IF r = s THEN m ELSE shared[r]
<1>1. \A r \in Snapshots : shared'[r] = IF r = s THEN m ELSE shared[r]
  BY Shapes
<1>2. \A u \in Sharers : sharer'[u] = IF u = t THEN n ELSE sharer[u]
  BY Shapes
<1>3. SharingTypeOK'
  BY Shapes DEF SharingTypeOK, Share, Meta, PairTypes
<1>4. \A r \in Snapshots : shared'[r].owner = "none" => shared'[r].with = {}
  BY <1>1, Shapes
<1>5. \A u \in Sharers : Shaped(sharer'[u])
  BY <1>2, Shapes
<1> QED BY <1>1, <1>2, <1>3, <1>4, <1>5 DEF Types, Registered, Shaped

-----------------------------------------------------------------------------
(* The steps *)

LEMMA RegisterStep ==
    ASSUME Inv, NEW s \in Snapshots, NEW a \in Accounts, Register(s, a)
    PROVE  Inv'
<1> DEFINE m == [owner |-> a, with |-> {}, org |-> FALSE]
<1>1. /\ shared' = [shared EXCEPT ![s] = m] /\ grants' = grants /\ sharer' = sharer
      /\ stale' = stale \cup {g \in grants : g[1] = s} /\ undone' = undone /\ Begin
  BY DEF Register
<1>2. m \in Meta /\ m.owner = a /\ m.with = {} /\ a # "none"
  BY SharingAssumption DEF Meta
<1> HIDE DEF m
<1>3. PairTypes
  BY <1>1, Shapes, BeginTypes DEF Inv, PairTypes
<1>4. Types' /\ \A r \in Snapshots : shared'[r] = IF r = s THEN m ELSE shared[r]
  BY <1>1, <1>2, <1>3, EntryTypes DEF Inv
<1>5. ASSUME NEW r \in Snapshots, NEW b \in Accounts PROVE Backed(r, b)'
  <2>1. Backed(r, b) /\ (Granted(r, b)' <=> Granted(r, b))
    BY <1>1 DEF Inv, Granted
  <2>2. /\ BeingListed(r, b)' <=> BeingListed(r, b)
        /\ BeingRevoked(r, b)' <=> BeingRevoked(r, b)
    BY <1>1 DEF BeingListed, BeingRevoked, Pair
  <2>3. Listed(r, b)' <=> Listed(r, b) /\ r # s
    BY <1>2, <1>4 DEF Listed
  <2>4. <<r, b>> \in stale' <=> <<r, b>> \in stale \/ (r = s /\ Granted(r, b))
    BY <1>1 DEF Granted
  <2> QED BY <1>1, <2>1, <2>2, <2>3, <2>4 DEF Backed
<1> QED BY <1>4, <1>5 DEF Inv

LEMMA ShareWithOrgStep ==
    ASSUME Inv, NEW s \in Snapshots, ShareWithOrg(s)
    PROVE  Inv'
<1> DEFINE m == [shared[s] EXCEPT !.org = TRUE]
<1>1. /\ shared' = [shared EXCEPT ![s] = m] /\ grants' = grants /\ sharer' = sharer
      /\ stale' = stale /\ undone' = undone /\ Begin
  BY DEF ShareWithOrg, sharingHistory
<1>2. shared[s] \in Meta /\ (shared[s].owner = "none" => shared[s].with = {})
  BY Shapes DEF Inv
<1>3. m \in Meta /\ m.owner = shared[s].owner /\ m.with = shared[s].with
  BY <1>2 DEF Meta
<1> HIDE DEF m
<1>4. PairTypes
  BY <1>1, Shapes, BeginTypes DEF Inv, PairTypes
<1>5. Types' /\ \A r \in Snapshots : shared'[r] = IF r = s THEN m ELSE shared[r]
  BY <1>1, <1>2, <1>3, <1>4, EntryTypes DEF Inv
<1>6. ASSUME NEW r \in Snapshots, NEW b \in Accounts PROVE Backed(r, b)'
  <2>1. /\ Backed(r, b) /\ (Granted(r, b)' <=> Granted(r, b))
        /\ (Listed(r, b)' <=> Listed(r, b))
    BY <1>1, <1>3, <1>5 DEF Inv, Granted, Listed
  <2>2. /\ BeingListed(r, b)' <=> BeingListed(r, b)
        /\ BeingRevoked(r, b)' <=> BeingRevoked(r, b)
    BY <1>1 DEF BeingListed, BeingRevoked, Pair
  <2> QED BY <1>1, <2>1, <2>2 DEF Backed
<1> QED BY <1>5, <1>6 DEF Inv

\* A task that begins to share, or that has nothing more to list or to revoke.
LEMMA MovesOn ==
    ASSUME Inv, NEW t \in Sharers, NEW n \in Share, Shaped(n),
           sharer' = [sharer EXCEPT ![t] = n], shared' = shared, grants' = grants,
           stale' = stale, undone' = undone, begun' \in 0 .. Shares,
           sharer[t].pc # "list", n.pc # "list",
           \/ sharer[t].pc \notin {"revoke", "retract"} \/ sharer[t].left = {}
           \/ /\ n.pc \in {"revoke", "retract"} /\ n.snapshot = sharer[t].snapshot
              /\ n.left = sharer[t].left
    PROVE  Inv'
<1>1. SharingTypeOK' /\ \A u \in Sharers : sharer'[u] = IF u = t THEN n ELSE sharer[u]
  BY Shapes DEF Inv, SharingTypeOK, Share, Meta
<1>2. \A u \in Sharers : Shaped(sharer'[u])
  BY <1>1, Shapes DEF Inv
<1>3. Types'
  BY <1>1, <1>2, Shapes DEF Inv, Types, Registered, Shaped
<1>4. ASSUME NEW r \in Snapshots, NEW b \in Accounts PROVE Backed(r, b)'
  <2>1. /\ Backed(r, b) /\ (Granted(r, b)' <=> Granted(r, b))
        /\ (Listed(r, b)' <=> Listed(r, b))
    BY DEF Inv, Granted, Listed
  <2>2. BeingListed(r, b)' <=> BeingListed(r, b)
    BY <1>1 DEF BeingListed, Pair
  <2>3. BeingRevoked(r, b) => BeingRevoked(r, b)'
    BY <1>1 DEF BeingRevoked
  <2> QED BY <2>1, <2>2, <2>3 DEF Backed
<1> QED BY <1>3, <1>4 DEF Inv

LEMMA ShareWithAccountStep ==
    ASSUME Inv, NEW t \in Sharers, NEW s \in Snapshots, NEW a \in Accounts,
           ShareWithAccount(t, s, a)
    PROVE  Inv'
<1> DEFINE n == [pc |-> "grant", snapshot |-> s, account |-> a, left |-> {}]
<1>1. /\ sharer' = [sharer EXCEPT ![t] = n] /\ shared' = shared /\ grants' = grants
      /\ stale' = stale /\ undone' = undone /\ Begin /\ sharer[t].pc = "idle"
  BY DEF ShareWithAccount, sharingHistory
<1>2. n \in Share /\ Shaped(n) /\ n.pc = "grant"
  BY SharingAssumption DEF Share, Shaped
<1> HIDE DEF n
<1>3. begun' \in 0 .. Shares
  BY <1>1, BeginTypes DEF Inv
<1> QED BY <1>1, <1>2, <1>3, MovesOn

\* The task t, with the snapshot and the account it has in hand.
LEMMA InTheMiddle ==
    ASSUME Inv, NEW t \in Sharers, NEW s, s = sharer[t].snapshot, NEW a, a = sharer[t].account,
           sharer[t].pc # "idle"
    PROVE  /\ sharer[t] \in Share /\ Shaped(sharer[t]) /\ s \in Snapshots
           /\ sharer[t].pc \in {"grant", "list", "offer", "retract"} => a \in Accounts
           /\ shared[s] \in Meta /\ (shared[s].owner = "none" => shared[s].with = {})
           /\ shared = [shared EXCEPT ![s] = shared[s]]
           /\ Pair(t) = <<s, a>>
<1>1. sharer[t] \in Share /\ Shaped(sharer[t])
  BY Shapes DEF Inv
<1>2. s \in Snapshots
  BY <1>1 DEF Share, Shaped
<1> QED BY <1>1, <1>2, Shapes DEF Inv, Shaped, Pair

LEMMA InsertGrantStep ==
    ASSUME Inv, NEW t \in Sharers, NEW s, s = sharer[t].snapshot, NEW a, a = sharer[t].account,
           InsertGrant(t)
    PROVE  Inv'
<1> DEFINE n == [sharer[t] EXCEPT !.pc = "list"]
<1>1. /\ sharer[t].pc = "grant" /\ sharer' = [sharer EXCEPT ![t] = n]
      /\ grants' = grants \cup {Pair(t)} /\ undone' = undone \ {Pair(t)}
      /\ shared' = shared /\ begun' = begun /\ stale' = stale
  BY DEF InsertGrant
<1>2. /\ sharer[t] \in Share /\ Shaped(sharer[t]) /\ s \in Snapshots /\ a \in Accounts
      /\ shared[s] \in Meta /\ (shared[s].owner = "none" => shared[s].with = {})
      /\ shared = [shared EXCEPT ![s] = shared[s]] /\ Pair(t) = <<s, a>>
  BY <1>1, InTheMiddle
<1>3. /\ n \in Share /\ n.pc = "list" /\ n.snapshot = s /\ n.account = a
  BY <1>2 DEF Share
<1>4. Shaped(n)
  BY <1>2, <1>3, SharingAssumption DEF Shaped
<1> HIDE DEF n
<1>5. PairTypes
  BY <1>1, <1>2, Shapes DEF Inv, PairTypes
<1>6. Types' /\ \A u \in Sharers : sharer'[u] = IF u = t THEN n ELSE sharer[u]
  <2>1. Types /\ n \in Share /\ Shaped(n) /\ sharer' = [sharer EXCEPT ![t] = n] /\ PairTypes
    BY <1>1, <1>3, <1>4, <1>5 DEF Inv
  <2>2. /\ s \in Snapshots /\ shared[s] \in Meta /\ (shared[s].owner = "none" => shared[s].with = {})
        /\ shared' = [shared EXCEPT ![s] = shared[s]]
    BY <1>1, <1>2, <1>4, <1>5
  <2> QED BY <2>1, <2>2, TaskTypes, ZenonT(30)
<1>7. ASSUME NEW r \in Snapshots, NEW b \in Accounts PROVE Backed(r, b)'
  <2>1. Backed(r, b) /\ (Listed(r, b)' <=> Listed(r, b))
    BY <1>1 DEF Inv, Listed
  <2>2. Granted(r, b)' <=> Granted(r, b) \/ (r = s /\ b = a)
    BY <1>1, <1>2 DEF Granted
  <2>3. BeingListed(r, b)' <=> BeingListed(r, b) \/ (r = s /\ b = a)
    BY <1>1, <1>2, <1>3, <1>6 DEF BeingListed, Pair
  <2>4. BeingRevoked(r, b) => BeingRevoked(r, b)'
    BY <1>1, <1>6 DEF BeingRevoked
  <2>5. <<r, b>> \in undone' <=> <<r, b>> \in undone /\ ~ (r = s /\ b = a)
    BY <1>1, <1>2
  <2> QED BY <1>1, <2>1, <2>2, <2>3, <2>4, <2>5 DEF Backed
<1> QED BY <1>6, <1>7 DEF Inv

LEMMA ListAccountStep ==
    ASSUME Inv, NEW t \in Sharers, NEW s, s = sharer[t].snapshot, NEW a, a = sharer[t].account,
           ListAccount(t)
    PROVE  Inv'
<1> DEFINE n == [sharer[t] EXCEPT !.pc = "offer"]
           m == IF Registered(s) THEN [shared[s] EXCEPT !.with = @ \cup {a}] ELSE shared[s]
<1>1. /\ sharer[t].pc = "list" /\ sharer' = [sharer EXCEPT ![t] = n]
      /\ grants' = grants /\ begun' = begun /\ undone' = undone
      /\ IF Registered(s)
           THEN /\ shared' = [shared EXCEPT ![s].with = @ \cup {a}]
                /\ stale' = stale \ {Pair(t)}
           ELSE shared' = shared /\ stale' = stale \cup {Pair(t)}
  BY DEF ListAccount
<1>2. /\ sharer[t] \in Share /\ Shaped(sharer[t]) /\ s \in Snapshots /\ a \in Accounts
      /\ shared[s] \in Meta /\ (shared[s].owner = "none" => shared[s].with = {})
      /\ shared = [shared EXCEPT ![s] = shared[s]] /\ Pair(t) = <<s, a>>
  BY <1>1, InTheMiddle
<1>3. /\ n \in Share /\ n.pc = "offer" /\ n.snapshot = s /\ n.account = a
  BY <1>2 DEF Share
<1>4. Shaped(n)
  BY <1>2, <1>3, SharingAssumption DEF Shaped
<1>5. /\ shared' = [shared EXCEPT ![s] = m] /\ m \in Meta /\ m.owner = shared[s].owner
      /\ m.with = IF Registered(s) THEN shared[s].with \cup {a} ELSE shared[s].with
      /\ m.owner = "none" => m.with = {}
  <2>1. CASE Registered(s)
    <3>1. m = [shared[s] EXCEPT !.with = shared[s].with \cup {a}]
      BY <2>1
    <3>2. m \in Meta /\ m.owner = shared[s].owner /\ m.with = shared[s].with \cup {a}
      BY <1>2, <3>1 DEF Meta
    <3> QED BY <1>1, <2>1, <3>1, <3>2 DEF Registered
  <2>2. CASE ~ Registered(s)
    BY <1>1, <1>2, <2>2
  <2> QED BY <2>1, <2>2
<1> HIDE DEF n, m
<1>6. PairTypes
  BY <1>1, <1>2, Shapes DEF Inv, PairTypes
<1>7. /\ Types' /\ \A u \in Sharers : sharer'[u] = IF u = t THEN n ELSE sharer[u]
      /\ \A r \in Snapshots : shared'[r] = IF r = s THEN m ELSE shared[r]
  <2>1. Types /\ n \in Share /\ Shaped(n) /\ sharer' = [sharer EXCEPT ![t] = n] /\ PairTypes
    BY <1>1, <1>3, <1>4, <1>5, <1>6 DEF Inv
  <2>2. /\ s \in Snapshots /\ m \in Meta /\ (m.owner = "none" => m.with = {})
        /\ shared' = [shared EXCEPT ![s] = m]
    BY <1>1, <1>2, <1>4, <1>5
  <2>3. Types' /\ \A u \in Sharers : sharer'[u] = IF u = t THEN n ELSE sharer[u]
    BY <2>1, <2>2, TaskTypes
  <2>4. \A r \in Snapshots : shared'[r] = IF r = s THEN m ELSE shared[r]
    BY <2>1, <2>2, Shapes
  <2> QED BY <2>3, <2>4
<1>8. ASSUME NEW r \in Snapshots, NEW b \in Accounts PROVE Backed(r, b)'
  <2>1. Backed(r, b) /\ (Granted(r, b)' <=> Granted(r, b))
    BY <1>1 DEF Inv, Granted
  <2>2. Listed(r, b)' <=> Listed(r, b) \/ (Registered(s) /\ r = s /\ b = a)
    BY <1>5, <1>7 DEF Listed
  <2>3. /\ BeingListed(r, b)' => BeingListed(r, b)
        /\ BeingListed(r, b) => BeingListed(r, b)' \/ (r = s /\ b = a)
    BY <1>2, <1>3, <1>7 DEF BeingListed, Pair
  <2>4. BeingListed(s, a)
    BY <1>1, <1>2 DEF BeingListed
  <2>5. BeingRevoked(r, b) => BeingRevoked(r, b)'
    BY <1>1, <1>7 DEF BeingRevoked
  <2>6. CASE r = s /\ b = a
    <3>1. CASE Registered(s)
      BY <1>1, <2>1, <2>2, <2>4, <2>6, <3>1 DEF Backed
    <3>2. CASE ~ Registered(s)
      BY <1>1, <1>2, <2>1, <2>2, <2>4, <2>6, <3>2 DEF Backed
    <3> QED BY <3>1, <3>2
  <2>7. CASE ~ (r = s /\ b = a)
    <3>1. <<r, b>> \in stale' <=> <<r, b>> \in stale
      BY <1>1, <1>2, <2>7
    <3> QED BY <1>1, <2>1, <2>2, <2>3, <2>5, <2>7, <3>1 DEF Backed
  <2> QED BY <2>6, <2>7
<1> QED BY <1>7, <1>8 DEF Inv

\* A share or a removal that is through.
LEMMA EndStep ==
    ASSUME Inv, NEW t \in Sharers, Offer(t) \/ Removed(t)
    PROVE  Inv'
<1>1. /\ sharer' = [sharer EXCEPT ![t] = NoShare] /\ shared' = shared /\ grants' = grants
      /\ stale' = stale /\ undone' = undone /\ begun' = begun
      /\ sharer[t].pc = "offer" \/ (sharer[t].pc = "revoke" /\ sharer[t].left = {})
  BY DEF Offer, Removed, sharingHistory
<1>2. NoShare \in Share /\ Shaped(NoShare) /\ NoShare.pc = "idle"
  BY DEF Share, Shaped, NoShare
<1>3. begun' \in 0 .. Shares
  BY <1>1, Shapes DEF Inv
<1> QED BY <1>1, <1>2, <1>3, MovesOn

LEMMA RemoveSnapshotStep ==
    ASSUME Inv, NEW t \in Sharers, NEW s \in Snapshots, RemoveSnapshot(t, s)
    PROVE  Inv'
<1> DEFINE n == [pc |-> "revoke", snapshot |-> s, account |-> "none", left |-> shared[s].with]
<1>1. /\ sharer' = [sharer EXCEPT ![t] = n] /\ grants' = grants
      /\ shared' = [shared EXCEPT ![s] = Unregistered]
      /\ stale' = stale /\ undone' = undone /\ Begin /\ sharer[t].pc = "idle"
  BY DEF RemoveSnapshot, sharingHistory
<1>2. n \in Share /\ n.pc = "revoke" /\ n.snapshot = s /\ n.left = shared[s].with
  BY Shapes DEF Inv, Share, Meta
<1>3. Shaped(n)
  BY <1>2, SharingAssumption DEF Shaped
<1> HIDE DEF n
<1>4. Unregistered \in Meta /\ Unregistered.with = {}
  BY DEF Unregistered, Meta
<1>5. PairTypes
  BY <1>1, Shapes, BeginTypes DEF Inv, PairTypes
<1>6. /\ Types' /\ \A u \in Sharers : sharer'[u] = IF u = t THEN n ELSE sharer[u]
      /\ \A r \in Snapshots : shared'[r] = IF r = s THEN Unregistered ELSE shared[r]
  <2>1. Types /\ n \in Share /\ Shaped(n) /\ sharer' = [sharer EXCEPT ![t] = n] /\ PairTypes
    BY <1>1, <1>3, <1>4, <1>5, <1>2 DEF Inv
  <2>2. /\ s \in Snapshots
        /\ Unregistered \in Meta /\ (Unregistered.owner = "none" => Unregistered.with = {})
        /\ shared' = [shared EXCEPT ![s] = Unregistered]
    BY <1>1, <1>2, <1>4, <1>5
  <2>3. Types' /\ \A u \in Sharers : sharer'[u] = IF u = t THEN n ELSE sharer[u]
    BY <2>1, <2>2, TaskTypes
  <2>4. \A r \in Snapshots : shared'[r] = IF r = s THEN Unregistered ELSE shared[r]
    BY <2>1, <2>2, Shapes
  <2> QED BY <2>3, <2>4
<1>7. ASSUME NEW r \in Snapshots, NEW b \in Accounts PROVE Backed(r, b)'
  <2>1. Backed(r, b) /\ (Granted(r, b)' <=> Granted(r, b))
    BY <1>1 DEF Inv, Granted
  <2>2. /\ Listed(r, b)' => Listed(r, b)
        /\ Listed(r, b) /\ r # s => Listed(r, b)'
    BY <1>4, <1>6 DEF Listed
  <2>3. BeingListed(r, b)' <=> BeingListed(r, b)
    BY <1>1, <1>2, <1>6 DEF BeingListed, Pair
  <2>4. BeingRevoked(r, b) => BeingRevoked(r, b)'
    BY <1>1, <1>6 DEF BeingRevoked
  <2>5. r = s /\ Listed(r, b) => BeingRevoked(r, b)'
    BY <1>2, <1>6 DEF BeingRevoked, Listed
  <2> QED BY <1>1, <2>1, <2>2, <2>3, <2>4, <2>5 DEF Backed
<1> QED BY <1>6, <1>7 DEF Inv

LEMMA RevokeGrantStep ==
    ASSUME Inv, NEW t \in Sharers, NEW s, s = sharer[t].snapshot,
           NEW a \in Accounts, RevokeGrant(t, a)
    PROVE  Inv'
<1> DEFINE n == [sharer[t] EXCEPT !.pc = "retract", !.account = a, !.left = sharer[t].left \ {a}]
<1>1. /\ sharer[t].pc = "revoke" /\ sharer' = [sharer EXCEPT ![t] = n]
      /\ grants' = grants \ {<<s, a>>} /\ stale' = stale \ {<<s, a>>}
      /\ undone' = IF Registered(s) \/ BeingListed(s, a) THEN undone \cup {<<s, a>>} ELSE undone
      /\ shared' = shared /\ begun' = begun
  BY DEF RevokeGrant
<1>2. /\ sharer[t] \in Share /\ Shaped(sharer[t]) /\ s \in Snapshots
      /\ shared[s] \in Meta /\ (shared[s].owner = "none" => shared[s].with = {})
      /\ shared = [shared EXCEPT ![s] = shared[s]]
  <2>1. PICK b : b = sharer[t].account
    OBVIOUS
  <2> QED BY <1>1, <2>1, InTheMiddle
<1>3. /\ n \in Share /\ n.pc = "retract" /\ n.snapshot = s /\ n.account = a
      /\ n.left = sharer[t].left \ {a}
  <2>1. sharer[t].left \ {a} \in SUBSET Accounts
    BY <1>2 DEF Share
  <2> QED BY <1>2, <2>1 DEF Share
<1>4. Shaped(n)
  BY <1>2, <1>3, SharingAssumption DEF Shaped
<1> HIDE DEF n
<1>5. PairTypes
  BY <1>1, <1>2, Shapes DEF Inv, PairTypes
<1>6. Types' /\ \A u \in Sharers : sharer'[u] = IF u = t THEN n ELSE sharer[u]
  <2>1. Types /\ n \in Share /\ Shaped(n) /\ sharer' = [sharer EXCEPT ![t] = n] /\ PairTypes
    BY <1>1, <1>3, <1>4, <1>5 DEF Inv
  <2>2. /\ s \in Snapshots /\ shared[s] \in Meta /\ (shared[s].owner = "none" => shared[s].with = {})
        /\ shared' = [shared EXCEPT ![s] = shared[s]]
    BY <1>1, <1>2, <1>4, <1>5
  <2> QED BY <2>1, <2>2, TaskTypes, ZenonT(30)
<1>7. ASSUME NEW r \in Snapshots, NEW b \in Accounts PROVE Backed(r, b)'
  <2>1. Backed(r, b) /\ (Listed(r, b)' <=> Listed(r, b))
    BY <1>1 DEF Inv, Listed
  <2>2. Granted(r, b)' <=> Granted(r, b) /\ ~ (r = s /\ b = a)
    BY <1>1 DEF Granted
  <2>3. BeingListed(r, b)' <=> BeingListed(r, b)
    BY <1>1, <1>3, <1>6 DEF BeingListed, Pair
  <2>4. ~ (r = s /\ b = a) /\ BeingRevoked(r, b) => BeingRevoked(r, b)'
    BY <1>1, <1>3, <1>6 DEF BeingRevoked
  <2>5. CASE r = s /\ b = a
    <3>1. Listed(r, b) => Registered(s)
      BY <1>2, <2>5 DEF Listed, Registered
    <3>2. Listed(r, b) \/ BeingListed(r, b) => <<r, b>> \in undone'
      BY <1>1, <2>5, <3>1
    <3> QED BY <2>1, <2>2, <2>3, <2>5, <3>2 DEF Backed
  <2>6. CASE ~ (r = s /\ b = a)
    <3>1. /\ <<r, b>> \in stale' <=> <<r, b>> \in stale
          /\ <<r, b>> \in undone => <<r, b>> \in undone'
      BY <1>1, <2>6
    <3> QED BY <2>1, <2>2, <2>3, <2>4, <2>6, <3>1 DEF Backed
  <2> QED BY <2>5, <2>6
<1> QED BY <1>6, <1>7 DEF Inv

LEMMA RetractStep ==
    ASSUME Inv, NEW t \in Sharers, Retract(t)
    PROVE  Inv'
<1> DEFINE n == [sharer[t] EXCEPT !.pc = "revoke"]
<1>1. /\ sharer[t].pc = "retract" /\ sharer' = [sharer EXCEPT ![t] = n] /\ shared' = shared
      /\ grants' = grants /\ stale' = stale /\ undone' = undone /\ begun' = begun
  BY DEF Retract, sharingHistory
<1>2. sharer[t] \in Share /\ Shaped(sharer[t]) /\ begun' \in 0 .. Shares
  BY <1>1, Shapes DEF Inv
<1>3. /\ n \in Share /\ n.pc = "revoke" /\ n.snapshot = sharer[t].snapshot
      /\ n.left = sharer[t].left
  BY <1>2 DEF Share
<1>4. Shaped(n)
  BY <1>1, <1>2, <1>3 DEF Shaped
<1> HIDE DEF n
<1> QED BY <1>1, <1>2, <1>3, <1>4, MovesOn

LEMMA StutterStep ==
    ASSUME Inv, UNCHANGED sharingVars
    PROVE  Inv'
<1>1. /\ shared' = shared /\ grants' = grants /\ sharer' = sharer /\ begun' = begun
      /\ stale' = stale /\ undone' = undone
  BY DEF sharingVars, sharingHistory
<1>2. Types'
  BY <1>1 DEF Inv, Types, SharingTypeOK, Shaped, Registered
<1>3. ASSUME NEW r \in Snapshots, NEW b \in Accounts PROVE Backed(r, b)'
  BY <1>1 DEF Inv, Backed, Granted, Listed, BeingListed, BeingRevoked, Pair
<1> QED BY <1>2, <1>3 DEF Inv

-----------------------------------------------------------------------------
(* The theorems *)

LEMMA StepPreserves ==
    ASSUME Inv, [SharingNext]_sharingVars
    PROVE  Inv'
<1>1. ASSUME NEW s \in Snapshots, NEW a \in Accounts, Register(s, a) PROVE Inv'
  BY <1>1, RegisterStep
<1>2. ASSUME NEW s \in Snapshots, ShareWithOrg(s) PROVE Inv'
  BY <1>2, ShareWithOrgStep
<1>3. ASSUME NEW t \in Sharers, NEW s \in Snapshots, NEW a \in Accounts,
             ShareWithAccount(t, s, a)
      PROVE  Inv'
  BY <1>3, ShareWithAccountStep
<1>4. ASSUME NEW t \in Sharers, NEW s \in Snapshots, RemoveSnapshot(t, s) PROVE Inv'
  BY <1>4, RemoveSnapshotStep
<1>5. ASSUME NEW t \in Sharers, NEW a \in Accounts, RevokeGrant(t, a) PROVE Inv'
  <2>1. PICK s : s = sharer[t].snapshot
    OBVIOUS
  <2> QED BY <1>5, <2>1, RevokeGrantStep
<1>6. ASSUME NEW t \in Sharers,
             InsertGrant(t) \/ ListAccount(t) \/ Offer(t) \/ Retract(t) \/ Removed(t)
      PROVE  Inv'
  <2>1. PICK s : s = sharer[t].snapshot
    OBVIOUS
  <2>2. PICK a : a = sharer[t].account
    OBVIOUS
  <2> QED BY <1>6, <2>1, <2>2, InsertGrantStep, ListAccountStep, EndStep, RetractStep
<1>7. CASE UNCHANGED sharingVars
  BY <1>7, StutterStep
<1> QED BY <1>1, <1>2, <1>3, <1>4, <1>5, <1>6, <1>7 DEF SharingNext

\* snapshot_sharing.rs: the maps and the tasks keep their types, a task in the middle
\* of an operation keeps its snapshot, every grant is listed, about to be listed or
\* revoked, or stale, and every listing that is made or about to be made has its grant,
\* or is undone.
THEOREM InvHolds == SharingSpec => []Inv
<1>1. SharingInit => Inv
  BY InitEstablished
<1>2. Inv /\ [SharingNext]_sharingVars => Inv'
  BY StepPreserves
<1> QED BY <1>1, <1>2, PTL DEF SharingSpec

\* The types of the three maps of snapshot_sharing.rs.
THEOREM SharingTypesHold == SharingSpec => []SharingTypeOK
<1>1. Inv => SharingTypeOK
  BY DEF Inv, Types
<1> QED BY <1>1, InvHolds, PTL

\* can_access, list_visible and list_shared_with give the same answers about every
\* account but those whose grant is stale and those whose share is undone, however the
\* operations of snapshot_sharing.rs overlap, once none is under way.
THEOREM AccessAgreesHolds == SharingSpec => []AccessAgrees
<1>1. ASSUME Inv PROVE AccessAgrees
  <2> USE SharingAssumption
  <2> SUFFICES ASSUME NEW s \in Snapshots, NEW a \in Accounts, ~ InHand(s)
               PROVE  /\ CanAccess(s, a) => s \in ListVisible(a) \/ <<s, a>> \in stale
                      /\ s \in ListVisible(a) => CanAccess(s, a) \/ <<s, a>> \in undone
                      /\ <<s, a>> \in grants => s \in ListSharedWith(a) \/ <<s, a>> \in stale
    BY DEF AccessAgrees
  <2>1. ~ BeingListed(s, a) /\ ~ BeingRevoked(s, a)
    BY DEF BeingListed, BeingRevoked, InHand, Pair
  <2>2. Granted(s, a) => Listed(s, a) \/ <<s, a>> \in stale
    BY <1>1, <2>1 DEF Inv, Backed
  <2>3. Listed(s, a) => Granted(s, a) \/ <<s, a>> \in undone
    BY <1>1 DEF Inv, Backed
  <2>4. ~ Registered(s) => shared[s].with = {}
    BY <1>1 DEF Inv, Types
  <2> QED BY <2>2, <2>3, <2>4
        DEF CanAccess, ListVisible, ListSharedWith, Registered, Granted, Listed
<1> QED BY <1>1, InvHolds, PTL

=============================================================================
