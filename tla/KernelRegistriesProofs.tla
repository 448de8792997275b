----------------------- MODULE KernelRegistriesProofs -----------------------
(***************************************************************************)
(* Machine-checked facts about five registries of the kernel: the lease    *)
(* ledger of the capability policy, the ledger of Inside RPC calls, the    *)
(* surface sessions with their continuations, the event, service and audit *)
(* registries, and the blob store, for any principals, calls, chains,      *)
(* topics and contents, any limits and deadlines.                          *)
(***************************************************************************)
EXTENDS CapabilityPolicy, RpcLedger, PluginSurfaces, HostRegistries, BlobStore,
        SequenceTheorems, FiniteSetTheorems, TLAPS

-----------------------------------------------------------------------------
(***************************************************************************)
(* CapabilityPolicy: leases, the grants they came from, and authorizations.*)
(***************************************************************************)

\* What a lease owes to the grant it was issued from, through every renewal.
\* AuthorizationGoesBackToGrant alone is not inductive: whom a call is authorized
\* for is read off the lease, so the lease has to agree with its grant.
LeaseFollowsGrant(id) ==
    /\ leases[id].principal = grantOf[id].principal
    /\ leases[id].capability = grantOf[id].capability
    /\ leases[id].scope = grantOf[id].scope
    /\ leases[id].issuedAt >= grantOf[id].issuedAt
    /\ grantOf[id].principal # Kernel
    /\ ScopeCovers(grantOf[id].asked, grantOf[id].scope)

PolicyInv ==
    /\ PolicyTypeOK
    /\ \A id \in DOMAIN leases : LeaseFollowsGrant(id)
    /\ PluginLeasesExpire

LEMMA NoneAndSome ==
  /\ \A S : None \in Option(S)
  /\ \A S, x : x \in S => Some(x) \in Option(S) /\ Some(x) # None
BY DEF None, Some, Option

LEMMA PolicyInitInv == PolicyInit => PolicyInv
BY PolicyAssumption DEF PolicyInit, PolicyInv, PolicyTypeOK, PluginLeasesExpire, Time

\* A step that keeps every lease but one keeps the invariant if that one is right.
LEMMA OneLease ==
  ASSUME PolicyInv, NEW id \in LeaseIds, DOMAIN leases' = DOMAIN leases \union {id},
         leases' = [x \in DOMAIN leases' |-> leases'[x]],
         grantOf' = [x \in DOMAIN leases' |-> grantOf'[x]],
         \A x \in DOMAIN leases \ {id} : leases'[x] = leases[x] /\ grantOf'[x] = grantOf[x],
         leases'[id] \in LeaseRecords(Time), grantOf'[id] \in Grants,
         LeaseFollowsGrant(id)',
         leases'[id].principal # NativeUI => leases'[id].expiresAt # None,
         clock' = clock
  PROVE  PolicyInv'
<1>1. \A x \in DOMAIN leases' : x = id \/ x \in DOMAIN leases \ {id}
  OBVIOUS
<1>2. \A x \in DOMAIN leases' : leases'[x] \in LeaseRecords(Time) /\ grantOf'[x] \in Grants
  BY <1>1 DEF PolicyInv, PolicyTypeOK
<1>3. PolicyTypeOK'
  BY <1>2 DEF PolicyInv, PolicyTypeOK
<1>4. \A x \in DOMAIN leases' : LeaseFollowsGrant(x)'
  BY <1>1 DEF PolicyInv, LeaseFollowsGrant
<1>5. PluginLeasesExpire'
  BY <1>1 DEF PolicyInv, PluginLeasesExpire
<1>. QED BY <1>3, <1>4, <1>5 DEF PolicyInv

LEMMA GrantAndIssueInv ==
  ASSUME PolicyInv, NEW issuer \in Principals, NEW op \in Operations,
         NEW requested \in Option(Time), NEW p \in Principals, NEW asked \in Scopes,
         NEW scope \in Scopes, NEW most \in Option(Time), NEW from \in 0 .. clock,
         GrantAndIssue(issuer, op, requested,
                       [principal |-> p, capability |-> RequiredCapability[op],
                        asked |-> asked, scope |-> scope, issuedAt |-> from,
                        maxExpires |-> most])
  PROVE  PolicyInv'
<1>. DEFINE g == [principal |-> p, capability |-> RequiredCapability[op],
                  asked |-> asked, scope |-> scope, issuedAt |-> from,
                  maxExpires |-> most]
<1>1. clock \in Nat /\ 0 .. clock \subseteq Time
  BY PolicyAssumption DEF PolicyInv, PolicyTypeOK, Time
<1>2. g \in Grants
  BY <1>1, PolicyAssumption DEF Grants
<1>3. /\ g.principal = p /\ g.capability = RequiredCapability[op] /\ g.asked = asked
      /\ g.scope = scope /\ g.issuedAt = from /\ g.maxExpires = most
  OBVIOUS
<1>. HIDE DEF g
<1>4. Grantable(issuer, op, requested, g)
  BY DEF GrantAndIssue, g
<1>5. PICK id \in LeaseIds, at \in 0 .. clock, expires \in Option(Time) :
        IssueLease(issuer, g, id, at, expires)
  BY DEF GrantAndIssue, g
<1>6. /\ id \notin DOMAIN leases
      /\ DOMAIN leases' = DOMAIN leases \union {id}
      /\ leases' = [x \in DOMAIN leases' |-> leases'[x]]
      /\ grantOf' = [x \in DOMAIN leases' |-> grantOf'[x]]
      /\ leases'[id] = NewLease(g, at, expires) /\ grantOf'[id] = g
      /\ \A x \in DOMAIN leases \ {id} : leases'[x] = leases[x] /\ grantOf'[x] = grantOf[x]
      /\ clock' = clock
  BY <1>5 DEF IssueLease
<1>. DEFINE n == NewLease(g, at, expires)
<1>7. /\ n.principal = p /\ n.capability = RequiredCapability[op] /\ n.scope = scope
      /\ n.issuedAt = at /\ n.expiresAt = expires /\ n.revokedAt = None
  BY <1>3 DEF NewLease
<1>8. n \in LeaseRecords(Time)
  BY <1>1, <1>3, NoneAndSome, PolicyAssumption DEF NewLease, LeaseRecords
<1>. HIDE DEF n
<1>9. leases'[id] = n
  BY <1>6 DEF n
<1>10. LeaseFollowsGrant(id)'
  <2>1. at >= from
    BY <1>1, <1>3, <1>5 DEF IssueLease, GrantActiveAt
  <2>2. p # Kernel
    BY <1>3, <1>5 DEF IssueLease
  <2>3. ScopeCovers(asked, scope)
    BY <1>3, <1>4 DEF Grantable, Attenuated
  <2>. QED BY <1>3, <1>6, <1>7, <1>9, <2>1, <2>2, <2>3 DEF LeaseFollowsGrant
<1>11. n.principal # NativeUI => n.expiresAt # None
  BY <1>3, <1>5, <1>7 DEF IssueLease, LeaseWithin
<1>. QED BY <1>2, <1>6, <1>8, <1>9, <1>10, <1>11, OneLease

\* A renewal or a revocation changes one field of one lease.
LEMMA RenewLeaseInv ==
  ASSUME PolicyInv, NEW issuer \in Principals, NEW id \in LeaseIds,
         NEW expires \in Option(Time), NEW epoch \in 0 .. clock,
         RenewLease(issuer, id, expires, epoch)
  PROVE  PolicyInv'
<1>1. /\ id \in DOMAIN leases
      /\ leases' = [leases EXCEPT ![id].expiresAt = expires]
      /\ leases[id].principal # NativeUI => expires # None
      /\ grantOf' = grantOf /\ clock' = clock
  BY DEF RenewLease
<1>2. leases[id] \in LeaseRecords(Time) /\ DOMAIN grantOf = DOMAIN leases
  BY <1>1 DEF PolicyInv, PolicyTypeOK
<1>3. leases'[id] = [leases[id] EXCEPT !.expiresAt = expires]
  BY <1>1
<1>4. /\ leases'[id] \in LeaseRecords(Time)
      /\ leases'[id].principal = leases[id].principal
      /\ leases'[id].capability = leases[id].capability
      /\ leases'[id].scope = leases[id].scope
      /\ leases'[id].issuedAt = leases[id].issuedAt
      /\ leases'[id].expiresAt = expires
  BY <1>2, <1>3 DEF LeaseRecords
<1>5. LeaseFollowsGrant(id)'
  BY <1>1, <1>4 DEF LeaseFollowsGrant, PolicyInv
<1>6. grantOf'[id] \in Grants
  BY <1>1 DEF PolicyInv, PolicyTypeOK
<1>7. /\ DOMAIN leases' = DOMAIN leases \union {id}
      /\ leases' = [x \in DOMAIN leases' |-> leases'[x]]
      /\ grantOf' = [x \in DOMAIN leases' |-> grantOf'[x]]
      /\ \A x \in DOMAIN leases \ {id} : leases'[x] = leases[x] /\ grantOf'[x] = grantOf[x]
  BY <1>1, <1>2 DEF PolicyInv, PolicyTypeOK
<1>. QED BY <1>1, <1>4, <1>5, <1>6, <1>7, OneLease

LEMMA RevokeLeaseInv ==
  ASSUME PolicyInv, NEW issuer \in Principals, NEW id \in LeaseIds,
         NEW epoch \in 0 .. clock, RevokeLease(issuer, id, epoch)
  PROVE  PolicyInv'
<1>1. /\ id \in DOMAIN leases
      /\ leases' = [leases EXCEPT ![id].revokedAt = Some(epoch)]
      /\ grantOf' = grantOf /\ clock' = clock
  BY DEF RevokeLease
<1>2. leases[id] \in LeaseRecords(Time) /\ DOMAIN grantOf = DOMAIN leases
  BY <1>1 DEF PolicyInv, PolicyTypeOK
<1>3. leases'[id] = [leases[id] EXCEPT !.revokedAt = Some(epoch)]
  BY <1>1
<1>4. Some(epoch) \in Option(Time)
  <2>1. epoch \in Time
    BY PolicyAssumption DEF PolicyInv, PolicyTypeOK, Time
  <2>. QED BY <2>1, NoneAndSome
<1>5. /\ leases'[id] \in LeaseRecords(Time)
      /\ leases'[id].principal = leases[id].principal
      /\ leases'[id].capability = leases[id].capability
      /\ leases'[id].scope = leases[id].scope
      /\ leases'[id].issuedAt = leases[id].issuedAt
      /\ leases'[id].expiresAt = leases[id].expiresAt
  BY <1>2, <1>3, <1>4 DEF LeaseRecords
<1>6. LeaseFollowsGrant(id)'
  BY <1>1, <1>5 DEF LeaseFollowsGrant, PolicyInv
<1>7. leases'[id].principal # NativeUI => leases'[id].expiresAt # None
  BY <1>1, <1>5 DEF PolicyInv, PluginLeasesExpire
<1>8. grantOf'[id] \in Grants
  BY <1>1 DEF PolicyInv, PolicyTypeOK
<1>9. /\ DOMAIN leases' = DOMAIN leases \union {id}
      /\ leases' = [x \in DOMAIN leases' |-> leases'[x]]
      /\ grantOf' = [x \in DOMAIN leases' |-> grantOf'[x]]
      /\ \A x \in DOMAIN leases \ {id} : leases'[x] = leases[x] /\ grantOf'[x] = grantOf[x]
  BY <1>1, <1>2 DEF PolicyInv, PolicyTypeOK
<1>. QED BY <1>1, <1>5, <1>6, <1>7, <1>8, <1>9, OneLease

LEMMA PolicyNextInv == PolicyInv /\ [PolicyNext]_policyVars => PolicyInv'
<1>. SUFFICES ASSUME PolicyInv, [PolicyNext]_policyVars PROVE PolicyInv'
  OBVIOUS
<1>1. CASE Tick
  <2>1. clock' \in Time
    BY <1>1, PolicyAssumption DEF Tick, PolicyInv, PolicyTypeOK, Time
  <2>. QED BY <1>1, <2>1 DEF Tick, PolicyInv, PolicyTypeOK, LeaseFollowsGrant, PluginLeasesExpire
<1>2. CASE UNCHANGED policyVars
  BY <1>2 DEF policyVars, PolicyInv, PolicyTypeOK, LeaseFollowsGrant, PluginLeasesExpire
<1>3. CASE PolicyNext
  BY <1>1, <1>3, GrantAndIssueInv, RenewLeaseInv, RevokeLeaseInv DEF PolicyNext
<1>. QED BY <1>2, <1>3

\* Every reachable lease ledger keeps the inductive invariant: grants and leases well
\* formed, each lease follows the grant it came from, and those of plugins expire.
THEOREM PolicyInvariant == PolicySpec => []PolicyInv
BY PolicyInitInv, PolicyNextInv, PTL DEF PolicySpec

\* Every lease of the ledger is well-formed and has the grant it came from.
THEOREM PolicyTypeCorrect == PolicySpec => []PolicyTypeOK
<1>1. PolicyInv => PolicyTypeOK
  BY DEF PolicyInv
<1>. QED BY PolicyInvariant, <1>1, PTL

\* No chain of grants, leases and renewals gives a plugin authority without an end.
THEOREM PluginAuthorityEnds == PolicySpec => []PluginLeasesExpire
<1>1. PolicyInv => PluginLeasesExpire
  BY DEF PolicyInv
<1>. QED BY PolicyInvariant, <1>1, PTL

\* CapabilityPolicy::authorize answers with a lease only for the principal, the
\* capability and the scope the kernel granted.
THEOREM AuthorityIsGranted == PolicySpec => []AuthorizationGoesBackToGrant
<1>1. ASSUME PolicyInv, NEW op \in Operations, NEW p \in Principals,
             NEW epoch \in 0 .. clock, NEW ids \in Selections, NEW id \in LeaseIds,
             AuthorizedByLease(op, p, ids, epoch, id)
      PROVE  /\ grantOf[id].principal = p
             /\ p # Kernel
             /\ grantOf[id].capability = RequiredCapability[op]
             /\ grantOf[id].asked = Global
             /\ epoch >= grantOf[id].issuedAt
             /\ leases[id].revokedAt = None
  <2>1. PICK i \in 1 .. Len(ids) :
          /\ ids[i] = id
          /\ \A j \in 1 .. i : Usable(ids[j], p, epoch)
          /\ LeaseCovers(id, op)
    BY <1>1 DEF AuthorizedByLease
  <2>2. Usable(id, p, epoch)
    <3>1. Len(ids) \in Nat
      BY DEF Selections
    <3>2. i \in 1 .. i
      BY <3>1
    <3>. QED BY <2>1, <3>2
  <2>3. /\ id \in DOMAIN leases /\ leases[id].principal = p
        /\ leases[id].revokedAt = None /\ epoch >= leases[id].issuedAt
    BY <2>2 DEF Usable, IsActiveAt
  <2>4. leases[id].capability = RequiredCapability[op] /\ leases[id].scope = Global
    BY <2>1 DEF LeaseCovers, ScopeCovers, OperationScope
  <2>5. LeaseFollowsGrant(id) /\ leases[id] \in LeaseRecords(Time) /\ grantOf[id] \in Grants
    BY <1>1, <2>3 DEF PolicyInv, PolicyTypeOK
  <2>6. grantOf[id].asked = Global
    BY <2>4, <2>5 DEF LeaseFollowsGrant, ScopeCovers
  <2>7. epoch >= grantOf[id].issuedAt
    <3>1. leases[id].issuedAt \in Nat /\ grantOf[id].issuedAt \in Nat /\ epoch \in Nat
      BY <2>5 DEF LeaseRecords, Grants, Time
    <3>. QED BY <3>1, <2>3, <2>5 DEF LeaseFollowsGrant
  <2>. QED BY <2>3, <2>4, <2>5, <2>6, <2>7 DEF LeaseFollowsGrant
<1>2. PolicyInv => AuthorizationGoesBackToGrant
  BY <1>1 DEF AuthorizationGoesBackToGrant
<1>. QED BY PolicyInvariant, <1>2, PTL

\* No renewal and no second revocation brings a revoked lease back, and no
\* operation gives a lease to someone else or removes it.
THEOREM RevocationIsFinal == PolicySpec => RevokedForGood
<1>. DEFINE Keeps(id) ==
              /\ id \in DOMAIN leases'
              /\ leases'[id] = [leases[id] EXCEPT !.expiresAt = leases'[id].expiresAt,
                                                  !.revokedAt = leases'[id].revokedAt]
              /\ leases[id].revokedAt # None => leases'[id] = leases[id]
<1>1. ASSUME PolicyInv, [PolicyNext]_policyVars, NEW id \in DOMAIN leases
      PROVE  Keeps(id)
  <2>1. leases[id] \in LeaseRecords(Time)
    BY <1>1 DEF PolicyInv, PolicyTypeOK
  <2>2. leases[id] = [leases[id] EXCEPT !.expiresAt = leases[id].expiresAt,
                                        !.revokedAt = leases[id].revokedAt]
    BY <2>1 DEF LeaseRecords
  <2>3. CASE leases' = leases
    BY <2>2, <2>3
  <2>4. ASSUME NEW issuer \in Principals, NEW g, NEW i \in LeaseIds, NEW at \in 0 .. clock,
               NEW expires \in Option(Time), IssueLease(issuer, g, i, at, expires)
        PROVE  Keeps(id)
    <3>1. id \in DOMAIN leases' /\ leases'[id] = leases[id]
      BY <2>4 DEF IssueLease
    <3>. QED BY <2>2, <3>1
  <2>5. ASSUME NEW issuer \in Principals, NEW i \in LeaseIds, NEW expires \in Option(Time),
               NEW epoch \in 0 .. clock, RenewLease(issuer, i, expires, epoch)
        PROVE  Keeps(id)
    <3>1. leases' = [leases EXCEPT ![i].expiresAt = expires] /\ leases[i].revokedAt = None
      BY <2>5 DEF RenewLease, Renewable, IsActiveAt
    <3>2. CASE i # id
      BY <2>2, <3>1, <3>2
    <3>3. CASE i = id
      <4>1. leases'[id] = [leases[id] EXCEPT !.expiresAt = expires] /\ id \in DOMAIN leases'
        BY <3>1, <3>3
      <4>. QED BY <2>1, <3>1, <3>3, <4>1 DEF LeaseRecords
    <3>. QED BY <3>2, <3>3
  <2>6. ASSUME NEW issuer \in Principals, NEW i \in LeaseIds, NEW epoch \in 0 .. clock,
               RevokeLease(issuer, i, epoch)
        PROVE  Keeps(id)
    <3>1. leases' = [leases EXCEPT ![i].revokedAt = Some(epoch)] /\ leases[i].revokedAt = None
      BY <2>6 DEF RevokeLease
    <3>2. CASE i # id
      BY <2>2, <3>1, <3>2
    <3>3. CASE i = id
      <4>1. leases'[id] = [leases[id] EXCEPT !.revokedAt = Some(epoch)] /\ id \in DOMAIN leases'
        BY <3>1, <3>3
      <4>. QED BY <2>1, <3>1, <3>3, <4>1 DEF LeaseRecords
    <3>. QED BY <3>2, <3>3
  <2>7. CASE UNCHANGED policyVars
    BY <2>3, <2>7 DEF policyVars
  <2>8. ASSUME NEW issuer \in Principals, NEW op \in Operations,
               NEW requested \in Option(Time), NEW g, GrantAndIssue(issuer, op, requested, g)
        PROVE  Keeps(id)
    BY <2>4, <2>8 DEF GrantAndIssue
  <2>9. CASE Tick
    BY <2>3, <2>9 DEF Tick
  <2>. HIDE DEF Keeps
  <2>10. CASE PolicyNext
    BY <2>5, <2>6, <2>8, <2>9, <2>10 DEF PolicyNext
  <2>. QED BY <1>1, <2>7, <2>10
<1>2. PolicyInv /\ [PolicyNext]_policyVars => [\A id \in DOMAIN leases : Keeps(id)]_policyVars
  BY <1>1
<1>. QED BY <1>2, PolicyInvariant, PTL DEF PolicySpec, RevokedForGood
-----------------------------------------------------------------------------
(***************************************************************************)
(* RpcLedger: calls that stream, and the windows they were granted.        *)
(***************************************************************************)

LEMMA LedgerConstantsTyped ==
  /\ DeadlineOf \in [Contexts -> Nat]
  /\ MaxInflightCalls \in Nat \ {0} /\ MaxWindowCredits \in Nat \ {0}
  /\ Credits \subseteq Nat /\ MaxRpcClock \in Nat /\ MaxSequence \in Nat
BY RpcLedgerAssumption

\* The sequence numbers 1 .. n.
UpTo(n) == [k \in 1 .. n |-> k]

LEMMA UpToIsSequence ==
  ASSUME NEW n \in Nat
  PROVE  UpTo(n) \in Seq(Nat) /\ Len(UpTo(n)) = n
BY DEF UpTo

LEMMA UpToGrows ==
  ASSUME NEW n \in Nat
  PROVE  Append(UpTo(n), n + 1) = UpTo(n + 1)
BY DEF UpTo

-----------------------------------------------------------------------------
(* The inductive invariant: the accounts themselves, with what the history
   variables are for an id that has not been used yet. *)

CallRecords == [context : Contexts, state : ActiveStates \cup FinalStates,
                next : Nat \ {0}, credit : 0 .. MaxWindowCredits]

LedgerInv ==
  /\ StreamsAccounted
  /\ granted \in [RpcIds -> Nat]
  /\ accepted \in [RpcIds -> Seq(Nat)]
  /\ IsFiniteSet(ActiveCalls)
  /\ \A i \in RpcIds \ DOMAIN calls : granted[i] = 0 /\ accepted[i] = << >>

LEMMA LedgerInitInv == LedgerInit => LedgerInv
<1>. SUFFICES ASSUME LedgerInit PROVE LedgerInv
  OBVIOUS
<1>1. DOMAIN calls = {} /\ ActiveCalls = {}
  BY DEF LedgerInit, ActiveCalls
<1>2. IsFiniteSet(ActiveCalls) /\ Cardinality(ActiveCalls) = 0
  BY <1>1, FS_EmptySet
<1>3. LedgerTypeOK
  BY <1>1, LedgerConstantsTyped DEF LedgerInit, LedgerTypeOK
<1>4. StreamsAccounted
  BY <1>1, <1>2, <1>3, LedgerConstantsTyped DEF StreamsAccounted
<1>. QED BY <1>2, <1>4, EmptySeq DEF LedgerInv, LedgerInit

-----------------------------------------------------------------------------
(* An envelope changes the record of one call *)

\* One call is written and the rest are left alone: the accounts stay exact if those of
\* this call do, and no call becomes active.
LEMMA OneCallWritten ==
  ASSUME LedgerInv, NEW i \in DOMAIN calls, NEW r \in CallRecords,
         Becomes(i, r),
         r.state \in ActiveStates => calls[i].state \in ActiveStates,
         granted' \in [RpcIds -> Nat], accepted' \in [RpcIds -> Seq(Nat)],
         \A j \in RpcIds \ {i} : granted'[j] = granted[j] /\ accepted'[j] = accepted[j],
         r.credit = granted'[i] - Len(accepted'[i]),
         accepted'[i] = UpTo(r.next - 1)
  PROVE  LedgerInv'
<1>1. /\ DOMAIN calls' = DOMAIN calls /\ DOMAIN calls \subseteq RpcIds
      /\ calls'[i] = r /\ \A j \in DOMAIN calls \ {i} : calls'[j] = calls[j]
      /\ rpcClock' = rpcClock
  BY DEF Becomes, LedgerInv, StreamsAccounted, LedgerTypeOK
<1>2. LedgerTypeOK'
  BY <1>1 DEF LedgerInv, StreamsAccounted, LedgerTypeOK, CallRecords
<1>3. ActiveCalls' \in SUBSET ActiveCalls
  BY <1>1 DEF ActiveCalls
<1>4. IsFiniteSet(ActiveCalls') /\ Cardinality(ActiveCalls') <= MaxInflightCalls
  <2>1. /\ IsFiniteSet(ActiveCalls') /\ Cardinality(ActiveCalls') <= Cardinality(ActiveCalls)
    BY <1>3, FS_Subset DEF LedgerInv
  <2>2. Cardinality(ActiveCalls) \in Nat /\ Cardinality(ActiveCalls') \in Nat
        /\ Cardinality(ActiveCalls) <= MaxInflightCalls
    BY <2>1, FS_CardinalityType DEF LedgerInv, StreamsAccounted
  <2>. QED BY <2>1, <2>2, LedgerConstantsTyped
<1>5. ASSUME NEW j \in DOMAIN calls'
      PROVE  /\ calls'[j].credit = granted'[j] - Len(accepted'[j])
             /\ accepted'[j] = [k \in 1 .. calls'[j].next - 1 |-> k]
  BY <1>1 DEF LedgerInv, StreamsAccounted, UpTo
<1>6. \A j \in RpcIds \ DOMAIN calls' : granted'[j] = 0 /\ accepted'[j] = << >>
  BY <1>1 DEF LedgerInv
<1>. QED BY <1>2, <1>4, <1>5, <1>6 DEF LedgerInv, StreamsAccounted

\* What the invariant says of a call that an envelope finds.
LEMMA KnownCall ==
  ASSUME LedgerInv, NEW i \in DOMAIN calls
  PROVE  /\ i \in RpcIds /\ calls[i] \in CallRecords
         /\ calls[i].credit = granted[i] - Len(accepted[i])
         /\ accepted[i] = UpTo(calls[i].next - 1)
BY DEF LedgerInv, StreamsAccounted, LedgerTypeOK, CallRecords, UpTo

LEMMA StartCallKeeps ==
  ASSUME LedgerInv, NEW e \in Envelopes, StartCall(e)
  PROVE  LedgerInv'
<1>. DEFINE r == NewCall(e)
<1>1. /\ e.id \in RpcIds /\ e.id \notin DOMAIN calls
      /\ r \in CallRecords /\ r.state \in ActiveStates /\ r.credit = 0 /\ r.next = 1
  BY LedgerConstantsTyped DEF StartCall, NewCall, Envelopes, CallRecords, ActiveStates
<1>2. /\ DOMAIN calls' = DOMAIN calls \cup {e.id}
      /\ calls'[e.id] = r /\ \A j \in DOMAIN calls : calls'[j] = calls[j]
      /\ UNCHANGED <<rpcClock, granted, accepted>>
  BY <1>1 DEF StartCall
<1>3. LedgerTypeOK'
  BY <1>1, <1>2 DEF LedgerInv, StreamsAccounted, LedgerTypeOK, CallRecords
<1>4. ActiveCalls' = ActiveCalls \cup {e.id} /\ e.id \notin ActiveCalls
  BY <1>1, <1>2 DEF ActiveCalls
<1>5. IsFiniteSet(ActiveCalls') /\ Cardinality(ActiveCalls') <= MaxInflightCalls
  <2>1. IsFiniteSet(ActiveCalls') /\ Cardinality(ActiveCalls') = Cardinality(ActiveCalls) + 1
    BY <1>4, FS_AddElement DEF LedgerInv
  <2>2. Cardinality(ActiveCalls) \in Nat /\ Cardinality(ActiveCalls) < MaxInflightCalls
    BY FS_CardinalityType DEF LedgerInv, StartCall
  <2>. QED BY <2>1, <2>2, LedgerConstantsTyped
<1>6. ASSUME NEW j \in DOMAIN calls'
      PROVE  /\ calls'[j].credit = granted'[j] - Len(accepted'[j])
             /\ accepted'[j] = [k \in 1 .. calls'[j].next - 1 |-> k]
  <2>1. CASE j = e.id
    <3>1. granted'[j] = 0 /\ accepted'[j] = << >>
      BY <1>1, <1>2, <2>1 DEF LedgerInv
    <3>. QED BY <1>1, <1>2, <2>1, <3>1
  <2>2. CASE j # e.id
    BY <1>2, <2>2 DEF LedgerInv, StreamsAccounted
  <2>. QED BY <2>1, <2>2
<1>. QED BY <1>2, <1>3, <1>5, <1>6 DEF LedgerInv, StreamsAccounted

LEMMA UpdateWindowKeeps ==
  ASSUME LedgerInv, NEW e \in Envelopes, UpdateWindow(e)
  PROVE  LedgerInv'
<1>. DEFINE r == [calls[e.id] EXCEPT !.credit = @ + e.credit]
<1>1. /\ e.id \in DOMAIN calls /\ e.credit \in Nat
      /\ calls[e.id].credit + e.credit <= MaxWindowCredits
      /\ Becomes(e.id, r)
      /\ granted' = [granted EXCEPT ![e.id] = @ + e.credit] /\ accepted' = accepted
  BY LedgerConstantsTyped DEF UpdateWindow, InState, SameContext, Envelopes
<1>2. /\ e.id \in RpcIds /\ calls[e.id] \in CallRecords
      /\ calls[e.id].credit = granted[e.id] - Len(accepted[e.id])
      /\ accepted[e.id] = UpTo(calls[e.id].next - 1)
  BY <1>1, KnownCall
<1>3. /\ r \in CallRecords /\ r.state = calls[e.id].state /\ r.next = calls[e.id].next
      /\ r.credit = calls[e.id].credit + e.credit
  <2>1. calls[e.id].credit \in Nat /\ calls[e.id].credit + e.credit \in 0 .. MaxWindowCredits
    BY <1>1, <1>2, LedgerConstantsTyped DEF CallRecords
  <2>. QED BY <1>2, <2>1 DEF CallRecords
<1>4. /\ granted \in [RpcIds -> Nat] /\ accepted \in [RpcIds -> Seq(Nat)]
      /\ Len(accepted[e.id]) \in Nat
  BY <1>2, LenProperties DEF LedgerInv
<1>5. /\ granted' \in [RpcIds -> Nat] /\ granted'[e.id] = granted[e.id] + e.credit
      /\ \A j \in RpcIds \ {e.id} : granted'[j] = granted[j] /\ accepted'[j] = accepted[j]
  BY <1>1, <1>2, <1>4
<1>6. r.credit = granted'[e.id] - Len(accepted'[e.id])
  BY <1>1, <1>2, <1>3, <1>4, <1>5
<1>. HIDE DEF r
<1>. QED BY <1>1, <1>2, <1>3, <1>4, <1>5, <1>6, OneCallWritten

\* A call that ends keeps its accounts.
LEMMA EndingKeeps ==
  ASSUME LedgerInv, NEW i \in DOMAIN calls, NEW s \in FinalStates,
         Becomes(i, [calls[i] EXCEPT !.state = s]), UNCHANGED <<granted, accepted>>
  PROVE  LedgerInv'
<1>. DEFINE r == [calls[i] EXCEPT !.state = s]
<1>1. /\ i \in RpcIds /\ calls[i] \in CallRecords
      /\ calls[i].credit = granted[i] - Len(accepted[i])
      /\ accepted[i] = UpTo(calls[i].next - 1)
  BY KnownCall
<1>2. /\ r \in CallRecords /\ r.state = s /\ r.next = calls[i].next /\ r.credit = calls[i].credit
      /\ s \notin ActiveStates
  BY <1>1 DEF CallRecords, ActiveStates, FinalStates
<1>3. granted' \in [RpcIds -> Nat] /\ accepted' \in [RpcIds -> Seq(Nat)]
  BY DEF LedgerInv
<1>4. Becomes(i, r)
  OBVIOUS
<1>. HIDE DEF r
<1>. QED BY <1>1, <1>2, <1>3, <1>4, OneCallWritten

LEMMA AcceptItemKeeps ==
  ASSUME LedgerInv, NEW e \in Envelopes, AcceptItem(e)
  PROVE  LedgerInv'
<1>. DEFINE r == [calls[e.id] EXCEPT !.credit = @ - 1, !.next = @ + 1]
<1>1. /\ e.id \in DOMAIN calls /\ calls[e.id].credit > 0 /\ e.sequence = calls[e.id].next
      /\ Becomes(e.id, r)
      /\ accepted' = [accepted EXCEPT ![e.id] = Append(@, e.sequence)] /\ granted' = granted
  BY DEF AcceptItem, InState, SameContext, Expected
<1>2. /\ e.id \in RpcIds /\ calls[e.id] \in CallRecords
      /\ calls[e.id].credit = granted[e.id] - Len(accepted[e.id])
      /\ accepted[e.id] = UpTo(calls[e.id].next - 1)
  BY <1>1, KnownCall
<1>3. /\ r \in CallRecords /\ r.state = calls[e.id].state /\ r.next = calls[e.id].next + 1
      /\ r.credit = calls[e.id].credit - 1 /\ calls[e.id].next \in Nat \ {0}
  <2>1. /\ calls[e.id].credit - 1 \in 0 .. MaxWindowCredits
        /\ calls[e.id].next + 1 \in Nat \ {0} /\ calls[e.id].next \in Nat \ {0}
    BY <1>1, <1>2, LedgerConstantsTyped DEF CallRecords
  <2>. QED BY <1>2, <2>1 DEF CallRecords
<1>4. accepted'[e.id] = UpTo(r.next - 1) /\ r.next - 1 \in Nat
  <2>. DEFINE n == calls[e.id].next - 1
  <2>1. n \in Nat /\ e.sequence = n + 1 /\ r.next - 1 = n + 1 /\ accepted[e.id] = UpTo(n)
    BY <1>1, <1>2, <1>3
  <2>2. accepted'[e.id] = Append(accepted[e.id], e.sequence)
    BY <1>1, <1>2 DEF LedgerInv
  <2>3. Append(UpTo(n), n + 1) = UpTo(n + 1)
    BY <2>1, UpToGrows
  <2>. HIDE DEF n, r
  <2>. QED BY <2>1, <2>2, <2>3
<1>5. Len(accepted'[e.id]) = r.next - 1 /\ Len(accepted[e.id]) = calls[e.id].next - 1
      /\ accepted'[e.id] \in Seq(Nat)
  <2>1. calls[e.id].next - 1 \in Nat
    BY <1>3
  <2>. HIDE DEF r
  <2>. QED BY <1>2, <1>4, <2>1, UpToIsSequence
<1>6. /\ granted' \in [RpcIds -> Nat] /\ accepted' \in [RpcIds -> Seq(Nat)]
      /\ \A j \in RpcIds \ {e.id} : granted'[j] = granted[j] /\ accepted'[j] = accepted[j]
  BY <1>1, <1>2, <1>5 DEF LedgerInv
<1>7. r.credit = granted'[e.id] - Len(accepted'[e.id])
  <2>1. granted[e.id] \in Nat /\ calls[e.id].credit \in Nat
    BY <1>2, LedgerConstantsTyped DEF LedgerInv, CallRecords
  <2>. HIDE DEF r
  <2>. QED BY <2>1, <1>1, <1>2, <1>3, <1>5
<1>. HIDE DEF r
<1>. QED BY <1>1, <1>2, <1>3, <1>4, <1>6, <1>7, OneCallWritten

LEMMA LedgerNextInv == LedgerInv /\ [LedgerNext]_rpcLedgerVars => LedgerInv'
<1>. SUFFICES ASSUME LedgerInv, [LedgerNext]_rpcLedgerVars PROVE LedgerInv'
  OBVIOUS
<1>1. CASE RpcTick
  <2>1. UNCHANGED <<calls, granted, accepted>> /\ rpcClock' \in 0 .. MaxRpcClock
    BY <1>1, LedgerConstantsTyped DEF RpcTick, LedgerInv, StreamsAccounted, LedgerTypeOK
  <2>2. ActiveCalls' = ActiveCalls
    BY <2>1 DEF ActiveCalls
  <2>. QED BY <2>1, <2>2 DEF LedgerInv, StreamsAccounted, LedgerTypeOK
<1>2. ASSUME NEW e \in Envelopes, AcceptEnvelope(e) PROVE LedgerInv'
  <2>1. CASE StartCall(e)
    BY <2>1, StartCallKeeps
  <2>2. CASE UpdateWindow(e)
    BY <2>2, UpdateWindowKeeps
  <2>3. CASE CancelCall(e)
    BY <2>3, EndingKeeps DEF CancelCall, SameContext, FinalStates
  <2>4. CASE CompleteUnary(e)
    BY <2>4, EndingKeeps DEF CompleteUnary, InState, SameContext, FinalStates
  <2>5. CASE AcceptItem(e)
    BY <2>5, AcceptItemKeeps
  <2>6. CASE EndStream(e)
    BY <2>6, EndingKeeps DEF EndStream, InState, SameContext, FinalStates
  <2>. QED BY <1>2, <2>1, <2>2, <2>3, <2>4, <2>5, <2>6 DEF AcceptEnvelope
<1>3. CASE UNCHANGED rpcLedgerVars
  <2>1. UNCHANGED <<calls, rpcClock, granted, accepted>>
    BY <1>3 DEF rpcLedgerVars
  <2>2. ActiveCalls' = ActiveCalls
    BY <2>1 DEF ActiveCalls
  <2>. QED BY <2>1, <2>2 DEF LedgerInv, StreamsAccounted, LedgerTypeOK
<1>. QED BY <1>1, <1>2, <1>3 DEF LedgerNext

\* Every reachable Inside RPC ledger keeps the inductive invariant: what was delivered
\* and granted is what the record of each call counts.
THEOREM LedgerStaysInv == LedgerSpec => []LedgerInv
BY LedgerInitInv, LedgerNextInv, PTL DEF LedgerSpec

\* RpcLedger keeps its accounts under any loss, duplication and reordering of the
\* envelopes: never more calls in flight than its limit, never more items of a stream
\* than were granted, and exactly the items 1, 2, ... up to the next one expected.
THEOREM StreamsStayAccounted == LedgerSpec => []StreamsAccounted
<1>1. LedgerInv => StreamsAccounted
  BY DEF LedgerInv
<1>. QED BY <1>1, LedgerStaysInv, PTL

\* A call of RpcLedger keeps the context of its first envelope and stays in the table,
\* and one that has ended takes nothing more, whatever arrives late or twice.
THEOREM EndsAreFinal == LedgerSpec => EndedCallsStay
<1>. DEFINE Lasting(i) == /\ i \in DOMAIN calls'
                          /\ calls'[i].context = calls[i].context
                          /\ calls[i].state \in FinalStates => calls'[i] = calls[i]
<1>1. ASSUME LedgerInv, [LedgerNext]_rpcLedgerVars, NEW i \in DOMAIN calls PROVE Lasting(i)
  <2>0. calls[i] \in CallRecords
    BY <1>1, KnownCall
  <2>1. ASSUME NEW j \in DOMAIN calls, NEW r, Becomes(j, r), r.context = calls[j].context,
               calls[j].state \notin FinalStates
        PROVE  Lasting(i)
    BY <2>1 DEF Becomes
  <2>2. CASE RpcTick \/ UNCHANGED rpcLedgerVars
    BY <2>2 DEF RpcTick, rpcLedgerVars
  <2>3. ASSUME NEW e \in Envelopes, AcceptEnvelope(e) PROVE Lasting(i)
    <3>1. CASE StartCall(e)
      BY <3>1 DEF StartCall
    <3>2. ASSUME ~ StartCall(e)
          PROVE  e.id \in DOMAIN calls /\ calls[e.id] \in CallRecords
      BY <1>1, <2>3, <3>2, KnownCall DEF AcceptEnvelope, UpdateWindow, CancelCall, CompleteUnary,
         AcceptItem, EndStream, InState, SameContext
    <3>3. CASE ~ StartCall(e)
      BY <2>1, <2>3, <3>2, <3>3 DEF AcceptEnvelope, UpdateWindow, CancelCall, CompleteUnary,
         AcceptItem, EndStream, InState, SameContext, CallRecords, ActiveStates, FinalStates
    <3>. QED BY <3>1, <3>3
  <2>. QED BY <1>1, <2>2, <2>3 DEF LedgerNext
<1>2. LedgerInv /\ [LedgerNext]_rpcLedgerVars => [\A i \in DOMAIN calls : Lasting(i)]_rpcLedgerVars
  BY <1>1
<1>. QED BY <1>2, LedgerStaysInv, PTL DEF LedgerSpec, EndedCallsStay
-----------------------------------------------------------------------------
(***************************************************************************)
(* PluginSurfaces: what is on its way for a surface, and for how long.     *)
(***************************************************************************)

LEMMA SurfaceConstantsTyped ==
  /\ MaxSurfaceSessions \in Nat \ {0} /\ ContinuationBudget \in Nat \ {0}
  /\ MaxContinuations \in Nat /\ MaxChains \in Nat /\ MaxCursors \in Nat
  /\ MaxSurfaceClock \in Nat
BY SurfacesAssumption

-----------------------------------------------------------------------------
(* The inductive invariant: where every chain is, and how far it has come. *)

CallRecord == [kind : {"none", "state", "host", "action"}, key : SurfaceKeys \cup {"none"},
               action : SurfaceActions \cup {"none"}, capability : Capabilities \cup {"none"},
               chain : ChainType]
SessionRecord == [writer : {"none", "state", "host", "action"},
                  pending : [cursor : Nat, action : SurfaceActions \cup {"none"}, chain : ChainType]]

SurfacesTyped ==
  /\ IsFiniteSet(DOMAIN surfaces) /\ DOMAIN surfaces \subseteq SurfaceKeys
  /\ Cardinality(DOMAIN surfaces) <= MaxSurfaceSessions
  /\ surfaces = [k \in DOMAIN surfaces |-> surfaces[k]]
  /\ \A k \in DOMAIN surfaces : /\ surfaces[k] \in SessionRecord
                                /\ surfaces[k].pending.cursor <= cursors
  /\ call \in [SurfaceThreads -> CallRecord]
  /\ cursors \in Nat /\ surfaceClock \in 0 .. MaxSurfaceClock
  /\ begun \in [Chains -> 0 .. MaxSurfaceClock] /\ links \in [Chains -> Nat]

\* A chain that lives is one that was begun, with the deadline of its beginning.
Rooted(chain, when, count) ==
  /\ chain.root \in Chains
  /\ chain.deadline = when[chain.root] + ContinuationBudget
  /\ count[chain.root] >= 1

\* The worker runs for the chain: its links are counted up to this request.
Running(chain, when, count) == Rooted(chain, when, count) /\ count[chain.root] = chain.n + 1

\* A session waits with the chain for the next cursor.
Waiting(chain, when, count) == Rooted(chain, when, count) /\ count[chain.root] = chain.n

ChainsPlaced ==
  /\ \A t \in SurfaceThreads : call[t] = NoCall \/ call[t].key \in SurfaceKeys
  /\ \A t \in SurfaceThreads : call[t].chain = NoChain \/ Running(call[t].chain, begun, links)
  /\ \A k \in DOMAIN surfaces : surfaces[k].pending = NoPending \/ Waiting(surfaces[k].pending.chain, begun, links)
  /\ \A c \in Chains : links[c] <= MaxContinuations + 1

\* No chain is in two places.
ChainsApart ==
  /\ \A t, u \in SurfaceThreads :
        call[t].chain.root = call[u].chain.root /\ call[t].chain.root # 0 => t = u
  /\ \A k, l \in DOMAIN surfaces :
        surfaces[k].pending.chain.root = surfaces[l].pending.chain.root
        /\ surfaces[k].pending.chain.root # 0 => k = l
  /\ \A t \in SurfaceThreads, k \in DOMAIN surfaces :
        call[t].chain.root = surfaces[k].pending.chain.root => call[t].chain.root = 0

SurfacesInv ==
  /\ SurfacesTyped /\ ChainsPlaced /\ ChainsApart
  /\ decisions \subseteq {ReviewCapability}
LEMMA ChainFields ==
  /\ NoChain \in ChainType /\ NoChain.root = 0
  /\ NoPending.chain = NoChain /\ NoPending.cursor = 0 /\ NoPending.action = "none"
  /\ NoPending.chain.root = 0
  /\ NoCall \in CallRecord /\ NoCall.chain = NoChain
  /\ NewSession \in SessionRecord /\ NewSession.pending = NoPending
  /\ \A c \in ChainType : /\ c.root \in 0 .. MaxChains /\ c.n \in 0 .. MaxContinuations
                          /\ c.deadline \in 0 .. MaxSurfaceClock + ContinuationBudget
  /\ \A r \in CallRecord : /\ r.chain \in ChainType /\ r.key \in SurfaceKeys \cup {"none"}
                           /\ r.kind \in {"none", "state", "host", "action"}
  /\ \A s \in SessionRecord : /\ s.writer \in {"none", "state", "host", "action"}
                              /\ s.pending.cursor \in Nat /\ s.pending.chain \in ChainType
                              /\ s.pending.action \in SurfaceActions \cup {"none"}
<1>. USE SurfaceConstantsTyped
<1>1. NoChain \in ChainType /\ NoChain.root = 0
  BY DEF NoChain, ChainType
<1>. HIDE DEF ChainType
<1>2. \A c \in ChainType : /\ c.root \in 0 .. MaxChains /\ c.n \in 0 .. MaxContinuations
                           /\ c.deadline \in 0 .. MaxSurfaceClock + ContinuationBudget
  BY DEF ChainType
<1>3. /\ NoPending.chain = NoChain /\ NoPending.cursor = 0 /\ NoPending.action = "none"
      /\ NoPending.chain.root = 0
  BY <1>1 DEF NoPending
<1>4. NoCall \in CallRecord /\ NoCall.chain = NoChain
  BY <1>1 DEF NoCall, CallRecord
<1>5. NewSession \in SessionRecord /\ NewSession.pending = NoPending
  BY <1>1 DEF NewSession, SessionRecord, NoPending
<1>6. \A r \in CallRecord : /\ r.chain \in ChainType /\ r.key \in SurfaceKeys \cup {"none"}
                            /\ r.kind \in {"none", "state", "host", "action"}
  BY DEF CallRecord
<1>7. \A s \in SessionRecord : /\ s.writer \in {"none", "state", "host", "action"}
                               /\ s.pending.cursor \in Nat /\ s.pending.chain \in ChainType
                               /\ s.pending.action \in SurfaceActions \cup {"none"}
  BY DEF SessionRecord
<1>. QED BY <1>1, <1>2, <1>3, <1>4, <1>5, <1>6, <1>7

\* The session that an operation finds or makes.
LEMMA SessionFound ==
  ASSUME SurfacesInv, NEW key \in SurfaceKeys
  PROVE  /\ Session(key) \in SessionRecord
         /\ Session(key).pending.cursor <= cursors
         /\ Session(key).pending = NoPending \/ Waiting(Session(key).pending.chain, begun, links)
         /\ \A k \in DOMAIN surfaces :
               k # key /\ surfaces[k].pending.chain.root = Session(key).pending.chain.root =>
                  surfaces[k].pending.chain.root = 0
         /\ \A t \in SurfaceThreads :
               call[t].chain.root = Session(key).pending.chain.root => call[t].chain.root = 0
<1>1. CASE key \in DOMAIN surfaces
  <2>1. Session(key) = surfaces[key]
    BY <1>1 DEF Session
  <2>. QED BY <1>1, <2>1 DEF SurfacesInv, SurfacesTyped, ChainsPlaced, ChainsApart
<1>2. CASE key \notin DOMAIN surfaces
  <2>1. Session(key) = NewSession
    BY <1>2 DEF Session
  <2>. QED BY <2>1, ChainFields DEF SurfacesInv, SurfacesTyped
<1>. QED BY <1>1, <1>2

\* A session is written when there is room for it.
LEMMA SessionWritten ==
  ASSUME SurfacesTyped, NEW key \in SurfaceKeys, HasSurfaceRoom(key), NEW s \in SessionRecord,
         cursors' \in Nat, cursors <= cursors', s.pending.cursor <= cursors',
         surfaces' = With(key, s),
         call' \in [SurfaceThreads -> CallRecord], surfaceClock' = surfaceClock,
         begun' \in [Chains -> 0 .. MaxSurfaceClock], links' \in [Chains -> Nat]
  PROVE  SurfacesTyped'
<1>1. DOMAIN surfaces' = DOMAIN surfaces \cup {key}
  BY DEF With
<1>2. IsFiniteSet(DOMAIN surfaces') /\ Cardinality(DOMAIN surfaces') <= MaxSurfaceSessions
  <2>1. /\ IsFiniteSet(DOMAIN surfaces \cup {key})
        /\ Cardinality(DOMAIN surfaces \cup {key}) =
             IF key \in DOMAIN surfaces THEN Cardinality(DOMAIN surfaces)
                                        ELSE Cardinality(DOMAIN surfaces) + 1
    <3>1. IsFiniteSet(DOMAIN surfaces)
      BY DEF SurfacesTyped
    <3>. QED BY <3>1, FS_AddElement
  <2>2. Cardinality(DOMAIN surfaces) \in Nat
    BY FS_CardinalityType DEF SurfacesTyped
  <2>. QED BY <1>1, <2>1, <2>2, SurfaceConstantsTyped DEF HasSurfaceRoom, SurfacesTyped
<1>3. \A k \in DOMAIN surfaces' : surfaces'[k] = IF k = key THEN s ELSE surfaces[k]
  BY DEF With
<1>4. ASSUME NEW k \in DOMAIN surfaces'
      PROVE  surfaces'[k] \in SessionRecord /\ surfaces'[k].pending.cursor <= cursors'
  <2>1. CASE k = key
    BY <1>3, <2>1
  <2>2. CASE k # key
    <3>1. surfaces'[k] = surfaces[k] /\ k \in DOMAIN surfaces
      BY <1>1, <1>3, <2>2
    <3>2. surfaces[k] \in SessionRecord /\ surfaces[k].pending.cursor <= cursors
      BY <3>1 DEF SurfacesTyped
    <3>3. surfaces[k].pending.cursor \in Nat /\ cursors \in Nat
      BY <3>2, ChainFields DEF SurfacesTyped
    <3>. QED BY <3>1, <3>2, <3>3
  <2>. QED BY <2>1, <2>2
<1>5. surfaces' = [k \in DOMAIN surfaces' |-> surfaces'[k]]
  BY DEF With
<1>6. DOMAIN surfaces' \subseteq SurfaceKeys /\ surfaceClock' \in 0 .. MaxSurfaceClock
  BY <1>1 DEF SurfacesTyped
<1>. HIDE DEF SessionRecord, CallRecord
<1>. QED BY <1>2, <1>4, <1>5, <1>6 DEF SurfacesTyped

\* Nobody but the thread and the session has the chain.
Elsewhere(t, key, root) ==
  /\ \A u \in SurfaceThreads : u # t => call[u].chain.root # root
  /\ \A k \in DOMAIN surfaces : k # key => surfaces[k].pending.chain.root # root

SameBut(new, old, root) == \A d \in Chains : d # root => new[d] = old[d]

\* One thread and one session get other chains, each of which nobody else has.
LEMMA ChainsStayApart ==
  ASSUME SurfacesInv, NEW t \in SurfaceThreads, NEW c, NEW key \in SurfaceKeys, NEW s,
         call' = [call EXCEPT ![t] = c], surfaces' = With(key, s),
         c.chain.root = 0 \/ Elsewhere(t, key, c.chain.root),
         s.pending.chain.root = 0 \/ Elsewhere(t, key, s.pending.chain.root),
         c.chain.root = s.pending.chain.root => c.chain.root = 0
  PROVE  ChainsApart'
<1>1. \A u \in SurfaceThreads : call'[u] = IF u = t THEN c ELSE call[u]
  BY DEF SurfacesInv, SurfacesTyped
<1>2. /\ DOMAIN surfaces' = DOMAIN surfaces \cup {key}
      /\ \A k \in DOMAIN surfaces' : surfaces'[k] = IF k = key THEN s ELSE surfaces[k]
  BY DEF With
<1>3. ChainsApart
  BY DEF SurfacesInv
<1>4. ASSUME NEW u \in SurfaceThreads, NEW v \in SurfaceThreads,
             call'[u].chain.root = call'[v].chain.root, call'[u].chain.root # 0
      PROVE  u = v
  BY <1>1, <1>3, <1>4 DEF ChainsApart, Elsewhere
<1>5. ASSUME NEW k \in DOMAIN surfaces', NEW l \in DOMAIN surfaces',
             surfaces'[k].pending.chain.root = surfaces'[l].pending.chain.root,
             surfaces'[k].pending.chain.root # 0
      PROVE  k = l
  BY <1>2, <1>3, <1>5 DEF ChainsApart, Elsewhere
<1>6. ASSUME NEW u \in SurfaceThreads, NEW k \in DOMAIN surfaces',
             call'[u].chain.root = surfaces'[k].pending.chain.root
      PROVE  call'[u].chain.root = 0
  BY <1>1, <1>2, <1>3, <1>6 DEF ChainsApart, Elsewhere
<1>. QED BY <1>4, <1>5, <1>6 DEF ChainsApart

\* The others keep their chains, which were begun and counted as before.
LEMMA ChainsStayPlaced ==
  ASSUME SurfacesInv, NEW t \in SurfaceThreads, NEW c, NEW key \in SurfaceKeys, NEW s, NEW r,
         call' = [call EXCEPT ![t] = c], surfaces' = With(key, s),
         c = NoCall \/ c.key \in SurfaceKeys,
         c.chain = NoChain \/ Running(c.chain, begun', links'),
         s.pending = NoPending \/ Waiting(s.pending.chain, begun', links'),
         Elsewhere(t, key, r), SameBut(begun', begun, r), SameBut(links', links, r),
         \A d \in Chains : links'[d] <= MaxContinuations + 1
  PROVE  ChainsPlaced'
<1>1. \A u \in SurfaceThreads : call'[u] = IF u = t THEN c ELSE call[u]
  BY DEF SurfacesInv, SurfacesTyped
<1>2. /\ DOMAIN surfaces' = DOMAIN surfaces \cup {key}
      /\ \A k \in DOMAIN surfaces' : surfaces'[k] = IF k = key THEN s ELSE surfaces[k]
  BY DEF With
<1>3. ASSUME NEW u \in SurfaceThreads
      PROVE  (call[u].chain = NoChain \/ Running(call[u].chain, begun, links))'
  <2>1. CASE u = t
    BY <1>1, <2>1 DEF NoChain
  <2>2. CASE u # t
    <3>1. call'[u] = call[u] /\ call[u].chain.root # r
      BY <1>1, <2>2 DEF Elsewhere
    <3>2. call[u].chain = NoChain \/ Running(call[u].chain, begun, links)
      BY DEF SurfacesInv, ChainsPlaced
    <3>. QED BY <3>1, <3>2 DEF Running, Rooted, NoChain, Chains, SameBut
  <2>. QED BY <2>1, <2>2
<1>4. ASSUME NEW k \in DOMAIN surfaces'
      PROVE  (surfaces[k].pending = NoPending \/ Waiting(surfaces[k].pending.chain, begun, links))'
  <2>1. CASE k = key
    BY <1>2, <2>1 DEF NoPending, NoChain
  <2>2. CASE k # key
    <3>1. surfaces'[k] = surfaces[k] /\ k \in DOMAIN surfaces /\ surfaces[k].pending.chain.root # r
      BY <1>2, <2>2 DEF Elsewhere
    <3>2. surfaces[k].pending = NoPending \/ Waiting(surfaces[k].pending.chain, begun, links)
      BY <3>1 DEF SurfacesInv, ChainsPlaced
    <3>. QED BY <3>1, <3>2 DEF Waiting, Rooted, NoPending, NoChain, Chains, SameBut
  <2>. QED BY <2>1, <2>2
<1>5. \A u \in SurfaceThreads : call'[u] = NoCall \/ call'[u].key \in SurfaceKeys
  BY <1>1 DEF SurfacesInv, ChainsPlaced
<1>. QED BY <1>3, <1>4, <1>5 DEF ChainsPlaced, Chains, NoCall, NoChain
-----------------------------------------------------------------------------
(* Every operation keeps it *)

LEMMA SurfacesInitInv == SurfacesInit => SurfacesInv
<1>. SUFFICES ASSUME SurfacesInit PROVE SurfacesInv
  OBVIOUS
<1>1. DOMAIN surfaces = {} /\ surfaces = [k \in DOMAIN surfaces |-> surfaces[k]]
  BY DEF SurfacesInit
<1>2. IsFiniteSet(DOMAIN surfaces) /\ Cardinality(DOMAIN surfaces) = 0
  BY <1>1, FS_EmptySet
<1>3. \A t \in SurfaceThreads : call[t] = NoCall
  BY DEF SurfacesInit
<1>4. call \in [SurfaceThreads -> CallRecord]
  BY ChainFields DEF SurfacesInit
<1>5. begun \in [Chains -> 0 .. MaxSurfaceClock] /\ links \in [Chains -> Nat]
  BY SurfaceConstantsTyped DEF SurfacesInit
<1>6. SurfacesTyped
  BY <1>1, <1>2, <1>4, <1>5, SurfaceConstantsTyped DEF SurfacesTyped, SurfacesInit
<1>7. ChainsPlaced
  BY <1>1, <1>3, ChainFields, SurfaceConstantsTyped DEF ChainsPlaced, SurfacesInit
<1>8. ChainsApart
  BY <1>1, <1>3, ChainFields DEF ChainsApart
<1>. QED BY <1>6, <1>7, <1>8 DEF SurfacesInv, SurfacesInit

\* An operation that runs without a chain, or one that is over, changes no place.
LEMMA CallWithoutChain ==
  ASSUME SurfacesInv, NEW t \in SurfaceThreads, NEW c \in CallRecord, c.chain = NoChain,
         c = NoCall \/ c.key \in SurfaceKeys,
         call' = [call EXCEPT ![t] = c],
         UNCHANGED <<surfaces, cursors, surfaceClock, begun, links, decisions>>
  PROVE  SurfacesInv'
<1>1. \A u \in SurfaceThreads : call'[u] = IF u = t THEN c ELSE call[u]
  BY DEF SurfacesInv, SurfacesTyped
<1>2. SurfacesTyped'
  <2>1. call' \in [SurfaceThreads -> CallRecord]
    BY DEF SurfacesInv, SurfacesTyped
  <2>. QED BY <2>1 DEF SurfacesInv, SurfacesTyped
<1>3. ChainsPlaced'
  BY <1>1 DEF SurfacesInv, ChainsPlaced, Running, Waiting, Rooted, NoChain, NoPending, NoCall, Chains
<1>4. ChainsApart'
  BY <1>1, ChainFields DEF SurfacesInv, ChainsApart
<1>. QED BY <1>2, <1>3, <1>4 DEF SurfacesInv

LEMMA ActKeepsSurfaces ==
  ASSUME SurfacesInv, NEW t \in SurfaceThreads, NEW key \in SurfaceKeys,
         NEW action \in SurfaceActions, NEW capability \in Capabilities,
         Act(t, key, action, capability)
  PROVE  SurfacesInv'
<1>1. PICK r : r = NextChain
  OBVIOUS
<1>2. r \in Chains /\ links[r] = 0
  BY <1>1 DEF Act, NextChain
<1>3. PICK chain : chain = [root |-> r, n |-> 0, deadline |-> surfaceClock + ContinuationBudget]
  OBVIOUS
<1>4. PICK c : c = [kind |-> "action", key |-> key, action |-> action,
                    capability |-> capability, chain |-> chain]
  OBVIOUS
<1>5. PICK s : s = [Session(key) EXCEPT !.pending = NoPending]
  OBVIOUS
<1>6. /\ HasSurfaceRoom(key) /\ call' = [call EXCEPT ![t] = c] /\ surfaces' = With(key, s)
      /\ begun' = [begun EXCEPT ![r] = surfaceClock] /\ links' = [links EXCEPT ![r] = 1]
      /\ UNCHANGED <<cursors, surfaceClock, decisions>>
  BY <1>1, <1>3, <1>4, <1>5 DEF Act, Busy
<1>7. SurfacesTyped /\ surfaceClock \in 0 .. MaxSurfaceClock /\ cursors \in Nat
  BY DEF SurfacesInv, SurfacesTyped
<1>8. chain \in ChainType
  BY <1>2, <1>3, <1>7, SurfaceConstantsTyped DEF ChainType, Chains
<1>9. c \in CallRecord /\ c.chain = chain /\ chain.root = r
  BY <1>3, <1>4, <1>8 DEF CallRecord
<1>10. s \in SessionRecord /\ s.pending = NoPending
  BY <1>5, SessionFound, ChainFields DEF SessionRecord, NewSession
<1>11. /\ call' \in [SurfaceThreads -> CallRecord]
       /\ begun' \in [Chains -> 0 .. MaxSurfaceClock] /\ links' \in [Chains -> Nat]
  BY <1>6, <1>7, <1>9 DEF SurfacesTyped
<1>12. SurfacesTyped'
  BY <1>6, <1>7, <1>10, <1>11, ChainFields, SessionWritten
<1>13. Elsewhere(t, key, r)
  BY <1>2, ChainFields, SurfaceConstantsTyped
     DEF SurfacesInv, SurfacesTyped, ChainsPlaced, Running, Waiting, Rooted, Chains, Elsewhere
<1>14. ChainsApart'
  BY <1>6, <1>9, <1>10, <1>13, ChainFields, ChainsStayApart
<1>15. Running(c.chain, begun', links')
  BY <1>2, <1>3, <1>6, <1>7, <1>9, <1>11 DEF Running, Rooted, Chains, SurfacesTyped
<1>16. ChainsPlaced'
  <2>1. SameBut(begun', begun, r) /\ SameBut(links', links, r)
    BY <1>6, <1>7 DEF SurfacesTyped, SameBut
  <2>2. \A d \in Chains : links'[d] <= MaxContinuations + 1
    BY <1>2, <1>6, <1>7, SurfaceConstantsTyped DEF SurfacesTyped, SurfacesInv, ChainsPlaced
  <2>3. c.key \in SurfaceKeys
    BY <1>4
  <2>. QED BY <1>6, <1>10, <1>13, <1>15, <2>1, <2>2, <2>3, ChainsStayPlaced
<1>. QED BY <1>6, <1>12, <1>14, <1>16 DEF SurfacesInv

LEMMA ContinueKeepsSurfaces ==
  ASSUME SurfacesInv, NEW t \in SurfaceThreads, NEW key \in SurfaceKeys,
         NEW action \in SurfaceActions, NEW cursor \in Nat \ {0}, Continue(t, key, action, cursor)
  PROVE  SurfacesInv'
<1>1. PICK old : old = Session(key)
  OBVIOUS
<1>2. PICK s : s = TakenPending(old)
  OBVIOUS
<1>3. /\ call[t] = NoCall /\ HasSurfaceRoom(key) /\ surfaces' = With(key, s)
      /\ UNCHANGED <<cursors, surfaceClock, begun, decisions>>
  BY <1>1, <1>2 DEF Continue, Idle
<1>4. /\ SurfacesTyped /\ surfaceClock \in 0 .. MaxSurfaceClock /\ cursors \in Nat
      /\ call \in [SurfaceThreads -> CallRecord] /\ links \in [Chains -> Nat]
      /\ begun \in [Chains -> 0 .. MaxSurfaceClock]
  BY DEF SurfacesInv, SurfacesTyped
<1>5. s \in SessionRecord /\ s.pending = NoPending
  BY <1>1, <1>2, SessionFound, ChainFields DEF SessionRecord, TakenPending
<1>6. CASE UNCHANGED <<call, links>>
  <2>1. call' = [call EXCEPT ![t] = call[t]]
    BY <1>4, <1>6
  <2>2. SurfacesTyped'
    BY <1>3, <1>4, <1>5, <1>6, ChainFields, SessionWritten
  <2>3. ChainsApart'
    BY <1>3, <1>5, <2>1, ChainFields, ChainsStayApart
  <2>4. ChainsPlaced'
    <3>1. \A d \in Chains : links'[d] <= MaxContinuations + 1
      BY <1>6 DEF SurfacesInv, ChainsPlaced
    <3>2. Elsewhere(t, key, -1)
      BY <1>4, ChainFields, SurfaceConstantsTyped DEF SurfacesTyped, Elsewhere
    <3>3. SameBut(begun', begun, -1) /\ SameBut(links', links, -1)
      BY <1>3, <1>6 DEF SameBut
    <3>4. call[t].chain = NoChain
      BY <1>3, ChainFields
    <3>. QED BY <1>3, <1>5, <2>1, <3>1, <3>2, <3>3, <3>4, ChainsStayPlaced
  <2>. QED BY <1>3, <2>2, <2>3, <2>4 DEF SurfacesInv
<1>7. CASE ~ UNCHANGED <<call, links>>
  <2>1. PICK chain : chain = old.pending.chain
    OBVIOUS
  <2>2. PICK c : c = [kind |-> "action", key |-> key, action |-> action,
                      capability |-> "none", chain |-> chain]
    OBVIOUS
  <2>3. /\ old.pending # NoPending /\ call' = [call EXCEPT ![t] = c]
        /\ links' = [links EXCEPT ![chain.root] = @ + 1]
    BY <1>1, <1>7, <2>1, <2>2 DEF Continue, Busy
  <2>4. Waiting(chain, begun, links) /\ chain \in ChainType
    BY <1>1, <2>1, <2>3, SessionFound, ChainFields
  <2>5. chain.root \in Chains /\ chain.root # 0 /\ chain.n \in 0 .. MaxContinuations
    BY <2>4, ChainFields, SurfaceConstantsTyped DEF Waiting, Rooted, Chains
  <2>6. c \in CallRecord /\ c.chain = chain
    BY <2>2, <2>4 DEF CallRecord
  <2>7. call' \in [SurfaceThreads -> CallRecord] /\ links' \in [Chains -> Nat]
    BY <1>4, <2>3, <2>5, <2>6
  <2>8. SurfacesTyped'
    BY <1>3, <1>4, <1>5, <2>7, ChainFields, SessionWritten
  <2>9. Elsewhere(t, key, chain.root)
    BY <1>1, <2>1, <2>5, SessionFound DEF Elsewhere
  <2>10. ChainsApart'
    BY <1>3, <1>5, <2>3, <2>6, <2>9, ChainFields, ChainsStayApart
  <2>11. links'[chain.root] = chain.n + 1 /\ Running(c.chain, begun', links')
    BY <1>3, <1>4, <2>3, <2>4, <2>5, <2>6 DEF Running, Waiting, Rooted, Chains
  <2>12. ChainsPlaced'
    <3>1. SameBut(begun', begun, chain.root) /\ SameBut(links', links, chain.root)
      BY <1>3, <1>4, <2>3 DEF SameBut
    <3>2. \A d \in Chains : links'[d] <= MaxContinuations + 1
      BY <1>4, <2>5, <2>11, <3>1, SurfaceConstantsTyped DEF SurfacesInv, ChainsPlaced, SameBut
    <3>3. c.key \in SurfaceKeys
      BY <2>2
    <3>. QED BY <1>3, <1>5, <3>3, <2>3, <2>9, <2>11, <3>1, <3>2, ChainsStayPlaced
  <2>. QED BY <1>3, <2>8, <2>10, <2>12 DEF SurfacesInv
<1>. QED BY <1>6, <1>7

\* What an answer of the worker leaves in the session: nothing, what was there when it
\* belongs to no chain, or its own chain on the way.
LEMMA AnswerKeepsSurfaces ==
  ASSUME SurfacesInv, NEW t \in SurfaceThreads, call[t].key \in SurfaceKeys,
         HasSurfaceRoom(call[t].key), NEW p, Applied(t, p),
         \/ p = NoPending
         \/ call[t].chain = NoChain /\ p = Session(call[t].key).pending
         \/ /\ call[t].chain # NoChain /\ p.chain = [call[t].chain EXCEPT !.n = @ + 1]
            /\ call[t].chain.n < MaxContinuations
            /\ p.cursor \in Nat /\ p.action \in SurfaceActions
            /\ p = [cursor |-> p.cursor, action |-> p.action, chain |-> p.chain],
         cursors' \in Nat, cursors <= cursors', p.cursor <= cursors',
         call' = [call EXCEPT ![t] = NoCall],
         UNCHANGED <<surfaceClock, begun, links>>, decisions' \subseteq {ReviewCapability}
  PROVE  SurfacesInv'
<1>. DEFINE key == call[t].key
            c == call[t].chain
<1>1. PICK s : s = [writer |-> call[t].kind, pending |-> p]
  OBVIOUS
<1>2. surfaces' = With(key, s) /\ s.pending = p
  BY <1>1 DEF Applied
<1>3. /\ SurfacesTyped /\ call \in [SurfaceThreads -> CallRecord] /\ links \in [Chains -> Nat]
      /\ begun \in [Chains -> 0 .. MaxSurfaceClock]
      /\ surfaceClock \in 0 .. MaxSurfaceClock /\ cursors \in Nat
  BY DEF SurfacesInv, SurfacesTyped
<1>4. /\ call[t].kind \in {"none", "state", "host", "action"} /\ c \in ChainType
      /\ c = NoChain \/ Running(c, begun, links)
  BY <1>3, ChainFields DEF SurfacesInv, ChainsPlaced
<1>5. CASE \/ p = NoPending
           \/ call[t].chain = NoChain /\ p = Session(call[t].key).pending
  <2>1. /\ p = NoPending \/ Waiting(p.chain, begun, links)
        /\ p.chain.root = 0 \/ Elsewhere(t, key, p.chain.root)
    <3>1. CASE p = NoPending
      BY <3>1, ChainFields
    <3>2. CASE call[t].chain = NoChain /\ p = Session(call[t].key).pending
      BY <3>2, SessionFound DEF Elsewhere
    <3>. QED BY <1>5, <3>1, <3>2
  <2>2. s \in SessionRecord
    <3>1. p \in [cursor : Nat, action : SurfaceActions \cup {"none"}, chain : ChainType]
      <4>1. CASE p = NoPending
        BY <4>1, ChainFields DEF SessionRecord
      <4>2. CASE p = Session(call[t].key).pending
        BY <4>2, SessionFound DEF SessionRecord
      <4>. QED BY <1>5, <4>1, <4>2
    <3>. HIDE DEF key
    <3>. QED BY <1>1, <1>4, <3>1 DEF SessionRecord
  <2>3. Waiting(p.chain, begun', links') <=> Waiting(p.chain, begun, links)
    BY DEF Waiting, Rooted, Chains
  <2>4. Elsewhere(t, key, -1) /\ SameBut(begun', begun, -1) /\ SameBut(links', links, -1)
    BY <1>3, ChainFields, SurfaceConstantsTyped DEF SurfacesTyped, Elsewhere, SameBut
  <2>5. SurfacesTyped'
    <3>1. call' \in [SurfaceThreads -> CallRecord]
      BY <1>3, ChainFields
    <3>. QED BY <1>2, <1>3, <2>2, <3>1, SessionWritten
  <2>6. ChainsApart'
    <3>1. NoCall.chain.root = 0
      BY ChainFields
    <3>. QED BY <1>2, <2>1, <3>1, ChainsStayApart
  <2>7. ChainsPlaced'
    <3>1. \A d \in Chains : links'[d] <= MaxContinuations + 1
      BY DEF SurfacesInv, ChainsPlaced
    <3>2. s.pending = NoPending \/ Waiting(s.pending.chain, begun', links')
      BY <1>2, <2>1, <2>3 DEF NoPending, NoChain
    <3>. QED BY <1>2, <2>4, <3>1, <3>2, ChainFields, ChainsStayPlaced
  <2>. QED BY <2>5, <2>6, <2>7 DEF SurfacesInv
<1>6. CASE /\ call[t].chain # NoChain /\ p.chain = [call[t].chain EXCEPT !.n = @ + 1]
           /\ call[t].chain.n < MaxContinuations
           /\ p.cursor \in Nat /\ p.action \in SurfaceActions
           /\ p = [cursor |-> p.cursor, action |-> p.action, chain |-> p.chain]
  <2>1. Running(c, begun, links) /\ c.root \in Chains /\ c.root # 0 /\ c.n \in 0 .. MaxContinuations
    BY <1>4, <1>6, ChainFields, SurfaceConstantsTyped DEF Running, Rooted, Chains
  <2>2. /\ p.chain \in ChainType /\ p.chain.root = c.root /\ p.chain.n = c.n + 1
        /\ p.chain.deadline = c.deadline
    <3>. HIDE DEF c
    <3>1. p.chain = [c EXCEPT !.n = @ + 1] /\ c.n < MaxContinuations
      BY <1>6 DEF c
    <3>. QED BY <1>4, <2>1, <3>1, SurfaceConstantsTyped DEF ChainType
  <2>3. Waiting(p.chain, begun', links')
    BY <2>1, <2>2 DEF Running, Waiting, Rooted, Chains
  <2>4. s \in SessionRecord
    <3>1. p \in [cursor : Nat, action : SurfaceActions \cup {"none"}, chain : ChainType]
      BY <1>6, <2>2
    <3>. QED BY <1>1, <1>4, <3>1 DEF SessionRecord
  <2>5. /\ Elsewhere(t, key, c.root)
        /\ SameBut(begun', begun, c.root) /\ SameBut(links', links, c.root)
    BY <2>1 DEF SurfacesInv, ChainsApart, Elsewhere, SameBut
  <2>6. SurfacesTyped'
    <3>1. call' \in [SurfaceThreads -> CallRecord]
      BY <1>3, ChainFields
    <3>. QED BY <1>2, <1>3, <2>4, <3>1, SessionWritten
  <2>7. ChainsApart'
    <3>1. NoCall.chain.root = 0 /\ p.chain.root # 0
      BY <2>1, <2>2, ChainFields
    <3>2. s.pending.chain.root = c.root
      BY <1>2, <2>2
    <3>. HIDE DEF c
    <3>. QED BY <1>2, <2>5, <3>1, <3>2, ChainsStayApart
  <2>8. ChainsPlaced'
    <3>1. \A d \in Chains : links'[d] <= MaxContinuations + 1
      BY DEF SurfacesInv, ChainsPlaced
    <3>. QED BY <1>2, <2>3, <2>5, <3>1, ChainFields, ChainsStayPlaced
  <2>. QED BY <2>6, <2>7, <2>8 DEF SurfacesInv
<1>. QED BY <1>5, <1>6
LEMMA WorkerContinuesKeepsSurfaces ==
  ASSUME SurfacesInv, NEW t \in SurfaceThreads, NEW next \in SurfaceActions,
         WorkerContinues(t, next)
  PROVE  SurfacesInv'
<1>1. /\ call[t].key \in SurfaceKeys /\ HasSurfaceRoom(call[t].key)
      /\ call' = [call EXCEPT ![t] = NoCall]
      /\ UNCHANGED <<surfaceClock, begun, links, decisions>>
  BY DEF WorkerContinues, Idle, Refused, SurfacesInv, ChainsPlaced
<1>2. cursors \in Nat /\ call[t].chain \in ChainType /\ decisions' \subseteq {ReviewCapability}
  BY <1>1, ChainFields DEF SurfacesInv, SurfacesTyped
<1>3. CASE call[t].chain = NoChain
  <2>1. PICK p : p = Session(call[t].key).pending
    OBVIOUS
  <2>2. Applied(t, p) /\ cursors' = cursors
    BY <1>3, <2>1 DEF WorkerContinues
  <2>3. cursors' \in Nat /\ cursors <= cursors' /\ p.cursor <= cursors'
    BY <1>1, <1>2, <2>1, <2>2, SessionFound
  <2>. QED BY <1>1, <1>2, <1>3, <2>1, <2>2, <2>3, AnswerKeepsSurfaces
<1>4. CASE call[t].chain # NoChain /\ Exhausted(call[t].chain)
  <2>1. Applied(t, NoPending) /\ cursors' = cursors
    BY <1>4 DEF WorkerContinues
  <2>2. cursors' \in Nat /\ cursors <= cursors' /\ NoPending.cursor <= cursors'
    BY <1>2, <2>1, ChainFields
  <2>. QED BY <1>1, <1>2, <2>1, <2>2, AnswerKeepsSurfaces
<1>5. CASE call[t].chain # NoChain /\ ~ Exhausted(call[t].chain)
  <2>1. PICK p : p = [cursor |-> cursors + 1, action |-> next,
                      chain |-> [call[t].chain EXCEPT !.n = @ + 1]]
    OBVIOUS
  <2>2. cursors' = cursors + 1 /\ Applied(t, p)
    BY <1>5, <2>1 DEF WorkerContinues
  <2>3. call[t].chain.n < MaxContinuations
    BY <1>2, <1>5, ChainFields, SurfaceConstantsTyped DEF Exhausted
  <2>4. /\ p.chain = [call[t].chain EXCEPT !.n = @ + 1]
        /\ p.cursor = cursors + 1 /\ p.action = next
        /\ p = [cursor |-> p.cursor, action |-> p.action, chain |-> p.chain]
    BY <2>1
  <2>5. /\ cursors' \in Nat /\ cursors <= cursors' /\ p.cursor <= cursors'
        /\ p.cursor \in Nat /\ p.action \in SurfaceActions
    BY <1>2, <2>2, <2>4
  <2>. QED BY <1>1, <1>2, <1>5, <2>2, <2>3, <2>4, <2>5, AnswerKeepsSurfaces
<1>. QED BY <1>3, <1>4, <1>5

LEMMA WorkerAnswersKeepsSurfaces ==
  ASSUME SurfacesInv, NEW t \in SurfaceThreads, NEW event \in {"none", "error", "decision"},
         WorkerAnswers(t, event)
  PROVE  SurfacesInv'
<1>1. /\ call[t].key \in SurfaceKeys /\ HasSurfaceRoom(call[t].key)
      /\ call' = [call EXCEPT ![t] = NoCall]
      /\ UNCHANGED <<cursors, surfaceClock, begun, links>>
  BY DEF WorkerAnswers, Idle, Refused, SurfacesInv, ChainsPlaced
<1>2. decisions' \subseteq {ReviewCapability}
  BY DEF WorkerAnswers, Refused, ReviewAllowed, SurfacesInv
<1>3. PICK p : p = IF call[t].chain = NoChain THEN Session(call[t].key).pending ELSE NoPending
  OBVIOUS
<1>4. Applied(t, p)
  BY <1>3 DEF WorkerAnswers
<1>5. cursors' \in Nat /\ cursors <= cursors' /\ p.cursor <= cursors'
  BY <1>1, <1>3, SessionFound, ChainFields DEF SurfacesInv, SurfacesTyped
<1>6. \/ p = NoPending
      \/ call[t].chain = NoChain /\ p = Session(call[t].key).pending
  BY <1>3
<1>. QED BY <1>1, <1>2, <1>4, <1>5, <1>6, AnswerKeepsSurfaces

LEMMA SurfacesInvNext == SurfacesInv /\ [SurfacesNext]_surfaceVars => SurfacesInv'
<1>. SUFFICES ASSUME SurfacesInv, [SurfacesNext]_surfaceVars PROVE SurfacesInv'
  OBVIOUS
<1>1. CASE SurfaceTick \/ UNCHANGED surfaceVars
  <2>1. /\ UNCHANGED <<surfaces, call, cursors, begun, links, decisions>>
        /\ surfaceClock' \in 0 .. MaxSurfaceClock
    BY <1>1, SurfaceConstantsTyped DEF SurfaceTick, surfaceVars, SurfacesInv, SurfacesTyped
  <2>2. SurfacesTyped'
    BY <2>1 DEF SurfacesInv, SurfacesTyped
  <2>3. ChainsPlaced' /\ ChainsApart'
    BY <2>1 DEF SurfacesInv, ChainsPlaced, ChainsApart, NoCall, NoChain, NoPending, Running,
                Waiting, Rooted, Chains
  <2>. QED BY <2>1, <2>2, <2>3 DEF SurfacesInv
<1>2. ASSUME NEW t \in SurfaceThreads, NEW e, NEW a, WorkerRefused(t, e, a) PROVE SurfacesInv'
  BY <1>2, ChainFields, CallWithoutChain DEF WorkerRefused
<1>3. ASSUME NEW t \in SurfaceThreads, NEW a \in SurfaceActions, WorkerContinues(t, a)
      PROVE  SurfacesInv'
  BY <1>3, WorkerContinuesKeepsSurfaces
<1>4. ASSUME NEW t \in SurfaceThreads, NEW e \in {"none", "error", "decision"}, WorkerAnswers(t, e)
      PROVE  SurfacesInv'
  BY <1>4, WorkerAnswersKeepsSurfaces
<1>5. ASSUME NEW t \in SurfaceThreads, NEW k \in SurfaceKeys, AskState(t, k) \/ HostAction(t, k)
      PROVE  SurfacesInv'
  <2>1. PICK kind \in {"state", "host"} :
          /\ call' = [call EXCEPT ![t] = [kind |-> kind, key |-> k, action |-> "none",
                                          capability |-> "none", chain |-> NoChain]]
          /\ UNCHANGED <<surfaces, cursors, surfaceClock, begun, links, decisions>>
    BY <1>5 DEF AskState, HostAction, Busy
  <2>2. PICK c : c = [kind |-> kind, key |-> k, action |-> "none",
                      capability |-> "none", chain |-> NoChain]
    OBVIOUS
  <2>3. c \in CallRecord /\ c.chain = NoChain /\ c.key \in SurfaceKeys
    BY <2>2, ChainFields DEF CallRecord
  <2>. QED BY <2>1, <2>2, <2>3, CallWithoutChain
<1>6. ASSUME NEW t \in SurfaceThreads, NEW k \in SurfaceKeys, NEW a \in SurfaceActions,
             NEW c \in Capabilities, Act(t, k, a, c)
      PROVE  SurfacesInv'
  BY <1>6, ActKeepsSurfaces
<1>7. ASSUME NEW t \in SurfaceThreads, NEW k \in SurfaceKeys, NEW a \in SurfaceActions,
             NEW n \in 1 .. MaxCursors, Continue(t, k, a, n)
      PROVE  SurfacesInv'
  BY <1>7, SurfaceConstantsTyped, ContinueKeepsSurfaces
<1>. QED BY <1>1, <1>2, <1>3, <1>4, <1>5, <1>6, <1>7 DEF SurfacesNext

\* The inductive invariant of the surface sessions: every chain that lives is in one
\* place, with the deadline of its beginning and its requests counted.
THEOREM SurfacesStaysInv == SurfacesSpec => []SurfacesInv
BY SurfacesInitInv, SurfacesInvNext, PTL DEF SurfacesSpec

\* Whatever cursors the interface sends, however often and to whatever session, and
\* whenever workers answer, a continuation runs in one place, is bounded in its number
\* of requests and keeps its deadline; only a review the user asked for decides one.
THEOREM ContinuationsStaySound == SurfacesSpec => []ContinuationsSound
<1>1. ASSUME SurfacesInv PROVE SurfacesTypeOK
  BY <1>1, ChainFields DEF SurfacesInv, SurfacesTyped, SurfacesTypeOK
<1>2. ASSUME SurfacesInv, NEW c \in Chains PROVE Cardinality(Places(c)) <= 1
  <2>1. c # 0
    BY SurfaceConstantsTyped DEF Chains
  <2>2. ASSUME NEW x \in Places(c), NEW y \in Places(c) PROVE x = y
    <3>1. ChainsApart
      BY <1>2 DEF SurfacesInv
    <3>2. CASE \E t, u \in SurfaceThreads : /\ x = <<"call", t>> /\ call[t].chain.root = c
                                            /\ y = <<"call", u>> /\ call[u].chain.root = c
      BY <2>1, <3>1, <3>2 DEF ChainsApart
    <3>3. CASE \E k, l \in DOMAIN surfaces :
                  /\ x = <<"pending", k>> /\ surfaces[k].pending.chain.root = c
                  /\ y = <<"pending", l>> /\ surfaces[l].pending.chain.root = c
      BY <2>1, <3>1, <3>3 DEF ChainsApart
    <3>4. CASE \E t \in SurfaceThreads, k \in DOMAIN surfaces :
                  call[t].chain.root = c /\ surfaces[k].pending.chain.root = c
      BY <2>1, <3>1, <3>4 DEF ChainsApart
    <3>. QED BY <2>2, <3>2, <3>3, <3>4 DEF Places
  <2>3. Places(c) = {} \/ \E x : Places(c) = {x}
    BY <2>2
  <2>4. CASE Places(c) = {}
    BY <2>4, FS_EmptySet
  <2>5. CASE \E x : Places(c) = {x}
    <3>1. PICK x : Places(c) = {x}
      BY <2>5
    <3>2. Cardinality({x}) = 1
      BY FS_Singleton
    <3>. QED BY <3>1, <3>2
  <2>. QED BY <2>3, <2>4, <2>5
<1>3. ASSUME SurfacesInv, NEW t \in SurfaceThreads, call[t].chain # NoChain
      PROVE  call[t].chain.deadline = begun[call[t].chain.root] + ContinuationBudget
  BY <1>3 DEF SurfacesInv, ChainsPlaced, Running, Rooted
<1>4. SurfacesInv => ContinuationsSound
  BY <1>1, <1>2, <1>3 DEF ContinuationsSound, SurfacesInv, ChainsPlaced
<1>. QED BY <1>4, SurfacesStaysInv, PTL
-----------------------------------------------------------------------------
(*****************************************************************************)
(* HostRegistries: event queues, services and the audit ring in order.       *)
(*****************************************************************************)

\* The inductive invariant of the registries: a queue and the audit ring hold the
\* last sequence numbers in order, and what was given out is older than what is kept.
IsRecent(queue, last) ==
    /\ queue \in Seq(Nat) /\ last \in Nat /\ Len(queue) <= last
    /\ \A k \in 1 .. Len(queue) : queue[k] = last - Len(queue) + k

GivenBefore(given, bound) ==
    /\ given \in Seq(Nat) /\ Increasing(given)
    /\ \A k \in 1 .. Len(given) : given[k] <= bound

SubscriptionOK(s, given) ==
    /\ s \in [topic : Topics, mode : Modes, expires : Nat, queue : Seq(Nat), next : Nat]
    /\ IsRecent(s.queue, s.next)
    /\ Len(s.queue) <= (IF s.mode = "latest" THEN 1 ELSE MaxQueue)
    /\ GivenBefore(given, s.next - Len(s.queue))

SubscriptionsOK ==
    /\ \E n \in Nat : DOMAIN subscriptions = 1 .. n /\ n <= MaxSubscribed /\ n <= MaxSubscriptions
    /\ DOMAIN seen = 1 .. MaxSubscribed
    /\ \A i \in 1 .. MaxSubscribed : i \notin DOMAIN subscriptions => seen[i] = << >>
    /\ \A i \in DOMAIN subscriptions : SubscriptionOK(subscriptions[i], seen[i])
ServicesOK ==
    /\ DOMAIN services \subseteq Services
    /\ IsFiniteSet(DOMAIN services) /\ Cardinality(DOMAIN services) <= MaxServices
AuditOK ==
    /\ auditRing \in [events : Seq(Nat), last : 0 .. MaxRecorded]
    /\ IsRecent(auditRing.events, auditRing.last)
    /\ auditCursor \in Nat \ {0}
    /\ GivenBefore(auditSeen, auditCursor - 1)
    /\ \A n \in 1 .. auditCursor - 1 :
          \/ \E i \in 1 .. Len(auditSeen) : auditSeen[i] = n
          \/ n <= auditRing.last - Len(auditRing.events)
RegistriesInv == SubscriptionsOK /\ ServicesOK /\ AuditOK /\ hostClock \in Instants

LEMMA BoundsTyped ==
  /\ MaxSubscriptions \in Nat \ {0} /\ MaxQueue \in Nat \ {0} /\ MaxServices \in Nat \ {0}
  /\ MaxAudit \in Nat \ {0} /\ ServiceTtl \in Nat \ {0} /\ SubscriptionTtls \subseteq Nat
  /\ MaxSubscribed \in Nat /\ MaxPublished \in Nat /\ MaxRecorded \in Nat /\ MaxHostClock \in Nat
BY HostRegistriesAssumption

LEMMA QueueIsRecent ==
  ASSUME NEW queue, NEW last, IsRecent(queue, last)
  PROVE  /\ queue \in Seq(Nat) /\ last \in Nat /\ Len(queue) \in Nat /\ Len(queue) <= last
         /\ \A k \in 1 .. Len(queue) : queue[k] \in Nat /\ queue[k] = last - Len(queue) + k
BY LenProperties, ElementOfSeq DEF IsRecent

LEMMA EmptyIsRecent == ASSUME NEW last \in Nat PROVE IsRecent(<< >>, last)
BY EmptySeq DEF IsRecent

LEMMA AppendedIsRecent ==
  ASSUME NEW queue, NEW last, IsRecent(queue, last)
  PROVE  /\ IsRecent(Append(queue, last + 1), last + 1)
         /\ Len(Append(queue, last + 1)) = Len(queue) + 1
<1> DEFINE more == Append(queue, last + 1)
<1>1. /\ queue \in Seq(Nat) /\ last \in Nat /\ Len(queue) \in Nat /\ Len(queue) <= last
      /\ \A k \in 1 .. Len(queue) : queue[k] = last - Len(queue) + k
  BY QueueIsRecent
<1>2. /\ more \in Seq(Nat) /\ Len(more) = Len(queue) + 1
      /\ \A k \in 1 .. Len(queue) + 1 : more[k] = IF k <= Len(queue) THEN queue[k] ELSE last + 1
  BY <1>1
<1> HIDE DEF more
<1>3. ASSUME NEW k \in 1 .. Len(queue) + 1 PROVE more[k] = (last + 1) - (Len(queue) + 1) + k
  <2>1. CASE k <= Len(queue)
    <3>1. more[k] = queue[k] /\ k \in 1 .. Len(queue)
      BY <1>1, <1>2, <2>1
    <3>2. queue[k] = last - Len(queue) + k
      BY <1>1, <3>1
    <3>. QED BY <1>1, <3>1, <3>2
  <2>2. CASE k = Len(queue) + 1
    BY <1>1, <1>2, <2>2
  <2>. QED BY <1>1, <2>1, <2>2
<1>4. IsRecent(more, last + 1) /\ Len(more) = Len(queue) + 1
  BY <1>1, <1>2, <1>3 DEF IsRecent
<1>. QED BY <1>4 DEF more

\* What is left of a queue without its first n records.
LEMMA RestIsRecent ==
  ASSUME NEW queue, NEW last, IsRecent(queue, last), NEW n \in 0 .. Len(queue)
  PROVE  /\ IsRecent(SubSeq(queue, n + 1, Len(queue)), last)
         /\ Len(SubSeq(queue, n + 1, Len(queue))) = Len(queue) - n
<1> DEFINE rest == SubSeq(queue, n + 1, Len(queue))
<1>1. /\ queue \in Seq(Nat) /\ last \in Nat /\ Len(queue) \in Nat /\ Len(queue) <= last /\ n \in Nat
      /\ \A k \in 1 .. Len(queue) : queue[k] = last - Len(queue) + k
  BY QueueIsRecent
<1>2. \A i \in n + 1 .. Len(queue) : queue[i] \in Nat
  BY <1>1, ElementOfSeq
<1>3. /\ rest \in Seq(Nat)
      /\ Len(rest) = IF n + 1 <= Len(queue) THEN Len(queue) - (n + 1) + 1 ELSE 0
      /\ \A i \in 1 .. Len(queue) - (n + 1) + 1 : rest[i] = queue[(n + 1) + i - 1]
  <2> DEFINE from == n + 1
             to == Len(queue)
  <2>1. from \in Int /\ to \in Int /\ \A i \in from .. to : queue[i] \in Nat
    BY <1>1, <1>2
  <2> HIDE DEF from, to
  <2>2. /\ SubSeq(queue, from, to) \in Seq(Nat)
        /\ Len(SubSeq(queue, from, to)) = IF from <= to THEN to - from + 1 ELSE 0
        /\ \A i \in 1 .. to - from + 1 : SubSeq(queue, from, to)[i] = queue[from + i - 1]
    BY <2>1, SubSeqProperties
  <2>. QED BY <2>2 DEF from, to
<1>4. Len(rest) = Len(queue) - n
  BY <1>1, <1>3
<1> HIDE DEF rest
<1>5. ASSUME NEW k \in 1 .. Len(rest) PROVE rest[k] = last - Len(rest) + k
  <2>1. rest[k] = queue[n + k] /\ n + k \in 1 .. Len(queue)
    BY <1>1, <1>3, <1>4
  <2>2. queue[n + k] = last - Len(queue) + (n + k)
    BY <1>1, <2>1
  <2>. QED BY <1>1, <1>4, <2>1, <2>2
<1>6. Len(rest) <= last
  BY <1>1, <1>4
<1>7. IsRecent(rest, last) /\ Len(rest) = Len(queue) - n
  BY <1>1, <1>3, <1>4, <1>5, <1>6 DEF IsRecent
<1>. QED BY <1>7 DEF rest

LEMMA TailIsRecent ==
  ASSUME NEW queue, NEW last, IsRecent(queue, last), Len(queue) > 0
  PROVE  IsRecent(Tail(queue), last) /\ Len(Tail(queue)) = Len(queue) - 1
<1>1. queue \in Seq(Nat) /\ Len(queue) \in Nat /\ queue # << >>
  BY QueueIsRecent, EmptySeq
<1>2. Tail(queue) = SubSeq(queue, 1 + 1, Len(queue))
  BY <1>1, TailIsSubSeq
<1>3. 1 \in 0 .. Len(queue)
  BY <1>1
<1>4. /\ IsRecent(SubSeq(queue, 1 + 1, Len(queue)), last)
      /\ Len(SubSeq(queue, 1 + 1, Len(queue))) = Len(queue) - 1
  BY <1>3, RestIsRecent
<1>. QED BY <1>2, <1>4

\* Records that follow one another, appended to records that are all older.
LEMMA GivenNext ==
  ASSUME NEW given, NEW bound \in Nat, GivenBefore(given, bound),
         NEW c \in Nat, bound <= c,
         NEW w \in Seq(Nat), \A k \in 1 .. Len(w) : w[k] = c + k
  PROVE  GivenBefore(given \o w, c + Len(w))
<1> DEFINE all == given \o w
<1>1. /\ given \in Seq(Nat) /\ Len(given) \in Nat /\ Len(w) \in Nat
      /\ \A k \in 1 .. Len(given) : given[k] \in Nat /\ given[k] <= bound
      /\ \A i \in 1 .. Len(given) - 1 : given[i] < given[i + 1]
  BY LenProperties, ElementOfSeq DEF GivenBefore, Increasing
<1>2. /\ all \in Seq(Nat) /\ Len(all) = Len(given) + Len(w)
      /\ \A i \in 1 .. Len(given) + Len(w) :
            all[i] = IF i <= Len(given) THEN given[i] ELSE w[i - Len(given)]
  BY <1>1, ConcatProperties
<1> HIDE DEF all
<1>3. ASSUME NEW i \in 1 .. Len(all) - 1
      PROVE  all[i] < all[i + 1]
  <2>0. i \in Int /\ i + 1 \in 1 .. Len(given) + Len(w) /\ i \in 1 .. Len(given) + Len(w)
    BY <1>1, <1>2
  <2>1. CASE i + 1 <= Len(given)
    <3>1. all[i] = given[i] /\ all[i + 1] = given[i + 1]
      BY <1>1, <1>2, <2>0, <2>1
    <3>2. i \in 1 .. Len(given) - 1
      BY <1>1, <2>0, <2>1
    <3>. QED BY <1>1, <3>1, <3>2
  <2>2. CASE i = Len(given)
    <3>0. i \in 1 .. Len(given) /\ 1 \in 1 .. Len(w) /\ ~ (i + 1 <= Len(given)) /\ i <= Len(given)
      BY <1>1, <2>0, <2>2
    <3>3. all[i] = given[i] /\ all[i + 1] = w[i + 1 - Len(given)]
      BY <1>2, <2>0, <3>0
    <3>4. i + 1 - Len(given) = 1
      BY <1>1, <2>2
    <3>1. all[i] = given[i] /\ all[i + 1] = w[1] /\ i \in 1 .. Len(given) /\ 1 \in 1 .. Len(w)
      BY <3>0, <3>3, <3>4
    <3>2. given[i] <= c /\ w[1] = c + 1 /\ given[i] \in Nat
      BY <1>1, <3>1
    <3>. QED BY <3>1, <3>2
  <2>3. CASE i > Len(given)
    <3>1. /\ all[i] = w[i - Len(given)] /\ all[i + 1] = w[i + 1 - Len(given)]
          /\ i - Len(given) \in 1 .. Len(w) /\ i + 1 - Len(given) \in 1 .. Len(w)
      BY <1>1, <1>2, <2>0, <2>3
    <3>2. all[i] = c + (i - Len(given)) /\ all[i + 1] = c + (i + 1 - Len(given))
      BY <3>1
    <3>. QED BY <1>1, <2>0, <3>2
  <2>. QED BY <1>1, <2>0, <2>1, <2>2, <2>3
<1>4. ASSUME NEW k \in 1 .. Len(all) PROVE all[k] <= c + Len(w)
  <2>1. CASE k <= Len(given)
    <3>1. all[k] = given[k] /\ k \in 1 .. Len(given)
      BY <1>1, <1>2, <2>1
    <3>. QED BY <1>1, <3>1
  <2>2. CASE ~ (k <= Len(given))
    <3>1. all[k] = w[k - Len(given)] /\ k - Len(given) \in 1 .. Len(w)
      BY <1>1, <1>2, <2>2
    <3>2. all[k] = c + (k - Len(given)) /\ k - Len(given) <= Len(w)
      BY <1>1, <3>1
    <3>. QED BY <1>1, <3>2
  <2>. QED BY <2>1, <2>2
<1>5. all \in Seq(Nat) /\ Increasing(all)
  BY <1>2, <1>3 DEF Increasing
<1>6. QED
  BY <1>4, <1>5 DEF GivenBefore, all

LEMMA GivenIsOlder ==
  ASSUME NEW given, NEW b \in Nat, NEW c \in Nat, b <= c, GivenBefore(given, b)
  PROVE  GivenBefore(given, c)
BY LenProperties, ElementOfSeq DEF GivenBefore

LEMMA NothingGiven == ASSUME NEW b \in Nat PROVE GivenBefore(<< >>, b)
BY EmptySeq DEF GivenBefore, Increasing

LEMMA RegistriesInitInv == RegistriesInit => RegistriesInv
<1> SUFFICES ASSUME RegistriesInit PROVE RegistriesInv
  OBVIOUS
<1> USE BoundsTyped
<1>1. DOMAIN subscriptions = {} /\ DOMAIN services = {}
  BY DEF RegistriesInit, NoEntries
<1>2. \E n \in Nat : DOMAIN subscriptions = 1 .. n /\ n <= MaxSubscribed /\ n <= MaxSubscriptions
  <2>1. DOMAIN subscriptions = 1 .. 0
    BY <1>1
  <2>. QED BY <2>1
<1>3. IsFiniteSet(DOMAIN services) /\ Cardinality(DOMAIN services) <= MaxServices
  BY <1>1, FS_EmptySet
<1>4. /\ auditRing \in [events : Seq(Nat), last : 0 .. MaxRecorded]
      /\ auditRing.events = << >> /\ auditRing.last = 0
  BY EmptySeq DEF RegistriesInit
<1>5. IsRecent(auditRing.events, auditRing.last)
  BY <1>4, EmptyIsRecent
<1>6. GivenBefore(auditSeen, auditCursor - 1)
  BY NothingGiven DEF RegistriesInit
<1>7. DOMAIN seen = 1 .. MaxSubscribed /\ \A i \in 1 .. MaxSubscribed : seen[i] = << >>
  BY DEF RegistriesInit
<1>8. hostClock \in Instants /\ auditCursor = 1
  BY DEF RegistriesInit, Instants
<1>9. SubscriptionsOK
  BY <1>1, <1>2, <1>7 DEF SubscriptionsOK
<1>10. ServicesOK
  BY <1>1, <1>3 DEF ServicesOK
<1>11. AuditOK
  BY <1>4, <1>5, <1>6, <1>8 DEF AuditOK
<1>. QED BY <1>8, <1>9, <1>10, <1>11 DEF RegistriesInv

LEMMA SubscriptionOkFacts ==
  ASSUME NEW s, NEW given, SubscriptionOK(s, given)
  PROVE  /\ s \in [topic : Topics, mode : Modes, expires : Nat, queue : Seq(Nat), next : Nat]
         /\ IsRecent(s.queue, s.next) /\ GivenBefore(given, s.next - Len(s.queue))
         /\ Len(s.queue) \in Nat /\ Len(s.queue) <= s.next /\ s.next - Len(s.queue) \in Nat
         /\ Len(s.queue) <= (IF s.mode = "latest" THEN 1 ELSE MaxQueue)
BY LenProperties DEF SubscriptionOK, IsRecent

LEMMA SubscribeStep ==
  ASSUME SubscriptionsOK, hostClock \in Instants, NEW t \in Topics, NEW m \in Modes, NEW ttl \in SubscriptionTtls,
         Subscribe(t, m, ttl)
  PROVE  SubscriptionsOK'
<1> USE BoundsTyped
<1> DEFINE id == Cardinality(DOMAIN subscriptions) + 1
<1>1. PICK n \in Nat : DOMAIN subscriptions = 1 .. n /\ n <= MaxSubscribed /\ n <= MaxSubscriptions
  BY DEF SubscriptionsOK
<1>2. id = n + 1 /\ Cardinality(DOMAIN subscriptions) = n
  <2>1. Cardinality(1 .. n) = n
    BY <1>1, FS_Interval
  <2>. QED BY <1>1, <2>1
<1>3. PICK at \in HostReadings :
        /\ id <= MaxSubscribed /\ Cardinality(DOMAIN subscriptions) < MaxSubscriptions
        /\ subscriptions' = Entered(subscriptions, id,
              [topic |-> t, mode |-> m, expires |-> at + ttl, queue |-> << >>, next |-> 0])
        /\ seen' = seen
  BY DEF Subscribe
<1> DEFINE entry == [topic |-> t, mode |-> m, expires |-> at + ttl, queue |-> << >>, next |-> 0]
<1>4. n + 1 <= MaxSubscribed /\ n + 1 <= MaxSubscriptions
  BY <1>1, <1>2, <1>3
<1>5. at + ttl \in Nat
  BY DEF HostReadings, Instants
<1>6. SubscriptionOK(entry, << >>)
  <2>1. /\ entry \in [topic : Topics, mode : Modes, expires : Nat, queue : Seq(Nat), next : Nat]
        /\ entry.queue = << >> /\ entry.next = 0 /\ Len(entry.queue) = 0
    BY <1>5, EmptySeq
  <2>2. IsRecent(entry.queue, entry.next) /\ GivenBefore(<< >>, entry.next - Len(entry.queue))
    BY <2>1, EmptyIsRecent, NothingGiven
  <2>. QED BY <2>1, <2>2 DEF SubscriptionOK
<1> HIDE DEF entry
<1>7. subscriptions' = [x \in 1 .. (n + 1) |-> IF x = n + 1 THEN entry ELSE subscriptions[x]]
  <2>1. (1 .. n) \cup {n + 1} = 1 .. (n + 1)
    BY <1>1
  <2>. QED BY <1>1, <1>2, <1>3, <2>1 DEF Entered, entry
<1>8. DOMAIN subscriptions' = 1 .. (n + 1) /\ n + 1 \in 1 .. MaxSubscribed /\ n + 1 \notin DOMAIN subscriptions
  BY <1>1, <1>4, <1>7
<1>9. seen[n + 1] = << >>
  BY <1>8 DEF SubscriptionsOK
<1>10. ASSUME NEW i \in DOMAIN subscriptions' PROVE SubscriptionOK(subscriptions'[i], seen'[i])
  <2>1. CASE i = n + 1
    BY <1>3, <1>6, <1>7, <1>9, <2>1
  <2>2. CASE i # n + 1
    <3>1. i \in DOMAIN subscriptions /\ subscriptions'[i] = subscriptions[i]
      BY <1>1, <1>7, <1>8, <2>2
    <3>. QED BY <1>3, <3>1 DEF SubscriptionsOK
  <2>. QED BY <2>1, <2>2
<1>11. \A i \in 1 .. MaxSubscribed : i \notin DOMAIN subscriptions' => seen'[i] = << >>
  BY <1>1, <1>3, <1>8 DEF SubscriptionsOK
<1>12. \E k \in Nat : DOMAIN subscriptions' = 1 .. k /\ k <= MaxSubscribed /\ k <= MaxSubscriptions
  BY <1>4, <1>8
<1>. QED BY <1>3, <1>10, <1>11, <1>12 DEF SubscriptionsOK

\* A delivery keeps a subscription right: what no longer fits is the oldest.
LEMMA DeliveredOK ==
  ASSUME NEW s, NEW given, SubscriptionOK(s, given)
  PROVE  SubscriptionOK(Delivered(s), given)
<1> USE BoundsTyped
<1> DEFINE base == IF s.mode = "latest" THEN << >> ELSE s.queue
           longer == Append(base, s.next + 1)
           kept == Kept(longer)
           after == Delivered(s)
<1>1. /\ s \in [topic : Topics, mode : Modes, expires : Nat, queue : Seq(Nat), next : Nat]
      /\ IsRecent(s.queue, s.next) /\ GivenBefore(given, s.next - Len(s.queue))
      /\ Len(s.queue) \in Nat /\ Len(s.queue) <= s.next /\ s.next - Len(s.queue) \in Nat /\ s.next \in Nat
      /\ Len(s.queue) <= (IF s.mode = "latest" THEN 1 ELSE MaxQueue)
  BY SubscriptionOkFacts
<1>2. after = [s EXCEPT !.next = s.next + 1, !.queue = kept]
  BY DEF Delivered
<1>3. IsRecent(base, s.next) /\ Len(base) = (IF s.mode = "latest" THEN 0 ELSE Len(s.queue))
  BY <1>1, EmptyIsRecent, EmptySeq
<1>4. IsRecent(longer, s.next + 1) /\ Len(longer) = Len(base) + 1
  BY <1>3, AppendedIsRecent
<1> HIDE DEF longer, base
<1>5. /\ IsRecent(kept, s.next + 1)
      /\ Len(kept) = IF Len(longer) > MaxQueue THEN Len(longer) - 1 ELSE Len(longer)
  <2>1. CASE Len(longer) > MaxQueue
    <3>1. Len(longer) > 0 /\ kept = Tail(longer)
      BY <1>3, <1>4, <2>1, QueueIsRecent DEF Kept
    <3>. QED BY <1>4, <2>1, <3>1, TailIsRecent
  <2>2. CASE ~ (Len(longer) > MaxQueue)
    BY <1>4, <2>2 DEF Kept
  <2>. QED BY <2>1, <2>2
<1> HIDE DEF kept
<1>6. Len(kept) <= (IF s.mode = "latest" THEN 1 ELSE MaxQueue)
  BY <1>1, <1>3, <1>4, <1>5
<1>7. kept \in Seq(Nat) /\ Len(kept) \in Nat /\ Len(kept) <= s.next + 1
  BY <1>5, QueueIsRecent
<1>8. s.next - Len(s.queue) <= s.next + 1 - Len(kept)
  <2>1. Len(base) \in Nat /\ Len(base) <= Len(s.queue)
    BY <1>1, <1>3
  <2>2. Len(kept) <= Len(base) + 1
    BY <1>4, <1>5, <1>7, <2>1
  <2>. QED BY <1>1, <1>7, <2>1, <2>2
<1>9. GivenBefore(given, s.next + 1 - Len(kept))
  <2>1. s.next + 1 - Len(kept) \in Nat
    BY <1>1, <1>7
  <2>. QED BY <1>1, <1>8, <2>1, GivenIsOlder
<1>10. after \in [topic : Topics, mode : Modes, expires : Nat, queue : Seq(Nat), next : Nat]
  <2>1. kept \in Seq(Nat) /\ s.next + 1 \in Nat
    BY <1>1, <1>7
  <2> HIDE DEF after
  <2>. QED BY <1>1, <1>2, <2>1
<1>13. after.next = s.next + 1 /\ after.queue = kept /\ after.mode = s.mode
  BY <1>1, <1>2
<1> HIDE DEF after
<1>12. /\ IsRecent(after.queue, after.next) /\ GivenBefore(given, after.next - Len(after.queue))
       /\ Len(after.queue) <= (IF after.mode = "latest" THEN 1 ELSE MaxQueue)
  <2>1. IsRecent(after.queue, after.next)
    BY <1>5, <1>13
  <2>2. GivenBefore(given, after.next - Len(after.queue))
    <3>1. after.next - Len(after.queue) = s.next + 1 - Len(kept)
      BY <1>1, <1>7, <1>13
    <3>. QED BY <1>9, <3>1
  <2>3. Len(after.queue) <= (IF after.mode = "latest" THEN 1 ELSE MaxQueue)
    BY <1>6, <1>13
  <2>. QED BY <2>1, <2>2, <2>3
<1>11. SubscriptionOK(after, given)
  BY <1>10, <1>12 DEF SubscriptionOK
<1>. QED BY <1>11 DEF after

LEMMA PublishStep ==
  ASSUME SubscriptionsOK, NEW t, Publish(t)
  PROVE  SubscriptionsOK'
<1>1. /\ subscriptions' = [i \in DOMAIN subscriptions |->
             IF subscriptions[i].topic = t /\ hostClock < subscriptions[i].expires
             THEN Delivered(subscriptions[i]) ELSE subscriptions[i]]
      /\ seen' = seen
  BY DEF Publish
<1>2. DOMAIN subscriptions' = DOMAIN subscriptions
  BY <1>1
<1>3. ASSUME NEW i \in DOMAIN subscriptions PROVE SubscriptionOK(subscriptions'[i], seen'[i])
  <2>1. SubscriptionOK(subscriptions[i], seen[i])
    BY DEF SubscriptionsOK
  <2>2. SubscriptionOK(Delivered(subscriptions[i]), seen[i])
    BY <2>1, DeliveredOK
  <2>3. subscriptions'[i] = subscriptions[i] \/ subscriptions'[i] = Delivered(subscriptions[i])
    BY <1>1
  <2>. QED BY <1>1, <2>1, <2>2, <2>3
<1>. QED BY <1>1, <1>2, <1>3 DEF SubscriptionsOK

LEMMA PollStep ==
  ASSUME SubscriptionsOK, NEW id \in DOMAIN subscriptions, NEW limit \in Limits, Poll(id, limit)
  PROVE  SubscriptionsOK'
<1> USE BoundsTyped
<1> DEFINE s == subscriptions[id]
           queue == s.queue
           n == IF limit < Len(queue) THEN limit ELSE Len(queue)
           rest == SubSeq(queue, n + 1, Len(queue))
           taken == SubSeq(queue, 1, n)
<1>0. SubscriptionOK(s, seen[id])
  BY DEF SubscriptionsOK
<1>1. /\ s \in [topic : Topics, mode : Modes, expires : Nat, queue : Seq(Nat), next : Nat]
      /\ IsRecent(queue, s.next) /\ GivenBefore(seen[id], s.next - Len(queue))
      /\ Len(queue) \in Nat /\ Len(queue) <= s.next /\ s.next - Len(queue) \in Nat /\ s.next \in Nat
      /\ Len(queue) <= (IF s.mode = "latest" THEN 1 ELSE MaxQueue)
  BY <1>0, SubscriptionOkFacts
<1>2. n \in 0 .. Len(queue) /\ n \in Nat
  BY <1>1 DEF Limits
<1>3. /\ subscriptions' = [subscriptions EXCEPT ![id] = [s EXCEPT !.queue = rest]]
      /\ seen' = [seen EXCEPT ![id] = seen[id] \o taken]
  BY DEF Poll
<1>4. IsRecent(rest, s.next) /\ Len(rest) = Len(queue) - n
  BY <1>1, <1>2, RestIsRecent
<1>5. /\ taken \in Seq(Nat) /\ Len(taken) = n
      /\ \A k \in 1 .. Len(taken) : taken[k] = (s.next - Len(queue)) + k
  <2>1. queue \in Seq(Nat) /\ \A k \in 1 .. Len(queue) : queue[k] = s.next - Len(queue) + k
    BY <1>1, QueueIsRecent
  <2>2. \A i \in 1 .. n : queue[i] \in Nat
    BY <1>1, <1>2, QueueIsRecent
  <2>3. /\ taken \in Seq(Nat) /\ Len(taken) = (IF 1 <= n THEN n - 1 + 1 ELSE 0)
        /\ \A i \in 1 .. n - 1 + 1 : taken[i] = queue[1 + i - 1]
    BY <1>2, <2>2, SubSeqProperties
  <2> HIDE DEF n, taken
  <2>6. n - 1 + 1 = n /\ \A i \in 1 .. n : 1 + i - 1 = i
    BY <1>2
  <2>4. Len(taken) = n /\ \A i \in 1 .. n : taken[i] = queue[i]
    BY <1>2, <2>3, <2>6
  <2>5. ASSUME NEW k \in 1 .. Len(taken) PROVE taken[k] = (s.next - Len(queue)) + k
    <3>1. k \in 1 .. n /\ k \in 1 .. Len(queue)
      BY <1>1, <1>2, <2>4
    <3>2. taken[k] = queue[k]
      BY <2>4, <3>1
    <3>. QED BY <2>1, <3>1, <3>2
  <2>. QED BY <2>3, <2>4, <2>5
<1>6. GivenBefore(seen[id] \o taken, (s.next - Len(queue)) + Len(taken))
  <2> DEFINE given == seen[id]
             bound == s.next - Len(queue)
  <2>1. GivenBefore(given, bound) /\ bound \in Nat /\ bound <= bound
    BY <1>1
  <2>2. taken \in Seq(Nat) /\ \A k \in 1 .. Len(taken) : taken[k] = bound + k
    BY <1>5
  <2> HIDE DEF taken, n, bound, given
  <2>3. GivenBefore(given \o taken, bound + Len(taken))
    BY <2>1, <2>2, GivenNext
  <2>. QED BY <2>3 DEF bound, given
<1> HIDE DEF n, rest, taken
<1>7. (s.next - Len(queue)) + Len(taken) = s.next - Len(rest)
  BY <1>1, <1>2, <1>4, <1>5
<1> DEFINE after == [s EXCEPT !.queue = rest]
<1>8. /\ after \in [topic : Topics, mode : Modes, expires : Nat, queue : Seq(Nat), next : Nat]
      /\ after.queue = rest /\ after.next = s.next /\ after.mode = s.mode
  <2>1. rest \in Seq(Nat)
    BY <1>4, QueueIsRecent
  <2>. QED BY <1>1, <2>1
<1>9. Len(rest) <= (IF s.mode = "latest" THEN 1 ELSE MaxQueue)
  BY <1>1, <1>2, <1>4
<1> HIDE DEF after
<1>10. SubscriptionOK(after, seen[id] \o taken)
  BY <1>4, <1>6, <1>7, <1>8, <1>9 DEF SubscriptionOK
<1>11. /\ DOMAIN subscriptions' = DOMAIN subscriptions /\ DOMAIN seen' = DOMAIN seen
       /\ subscriptions'[id] = after
       /\ \A i \in DOMAIN subscriptions \ {id} : subscriptions'[i] = subscriptions[i]
       /\ \A i \in DOMAIN seen \ {id} : seen'[i] = seen[i]
  BY <1>3 DEF after
<1>12. PICK k \in Nat : DOMAIN subscriptions = 1 .. k /\ k <= MaxSubscribed /\ k <= MaxSubscriptions
  BY DEF SubscriptionsOK
<1>13. id \in DOMAIN seen /\ \A i \in DOMAIN subscriptions : i \in DOMAIN seen
  BY <1>12 DEF SubscriptionsOK
<1>14. seen'[id] = seen[id] \o taken
  BY <1>3, <1>13
<1>15. ASSUME NEW i \in DOMAIN subscriptions' PROVE SubscriptionOK(subscriptions'[i], seen'[i])
  <2>1. CASE i = id
    BY <1>10, <1>11, <1>14, <2>1
  <2>2. CASE i # id
    BY <1>11, <1>13, <2>2 DEF SubscriptionsOK
  <2>. QED BY <2>1, <2>2
<1>16. \A i \in 1 .. MaxSubscribed : i \notin DOMAIN subscriptions' => seen'[i] = << >>
  BY <1>11, <1>13 DEF SubscriptionsOK
<1>. QED BY <1>11, <1>15, <1>16 DEF SubscriptionsOK

LEMMA ServicesStep ==
  ASSUME ServicesOK,
         \/ \E id \in Services, ms \in SUBSET Methods : RegisterService(id, ms)
         \/ \E id \in DOMAIN services : UnregisterService(id)
  PROVE  ServicesOK'
<1> USE BoundsTyped
<1>1. IsFiniteSet(DOMAIN services) /\ Cardinality(DOMAIN services) \in Nat
  BY FS_CardinalityType DEF ServicesOK
<1>2. ASSUME NEW id \in Services, NEW ms, RegisterService(id, ms) PROVE ServicesOK'
  <2>1. /\ id \notin DOMAIN services /\ Cardinality(DOMAIN services) < MaxServices
        /\ DOMAIN services' = DOMAIN services \cup {id}
    BY <1>2 DEF RegisterService, Entered
  <2>2. /\ IsFiniteSet(DOMAIN services \cup {id})
        /\ Cardinality(DOMAIN services \cup {id}) = Cardinality(DOMAIN services) + 1
    BY <1>1, <2>1, FS_AddElement
  <2>. QED BY <1>1, <2>1, <2>2 DEF ServicesOK
<1>3. ASSUME NEW id \in DOMAIN services, UnregisterService(id) PROVE ServicesOK'
  <2>1. DOMAIN services' = DOMAIN services \ {id}
    BY <1>3 DEF UnregisterService, Restrict
  <2>2. /\ IsFiniteSet(DOMAIN services \ {id})
        /\ Cardinality(DOMAIN services \ {id}) = Cardinality(DOMAIN services) - 1
    BY <1>1, FS_RemoveElement
  <2>. QED BY <1>1, <2>1, <2>2 DEF ServicesOK
<1>. QED BY <1>2, <1>3

LEMMA RecordStep ==
  ASSUME AuditOK, Record
  PROVE  AuditOK'
<1> USE BoundsTyped
<1> DEFINE ring == auditRing.events
           last == auditRing.last
           longer == Append(ring, last + 1)
           kept == IF Len(longer) > MaxAudit THEN Tail(longer) ELSE longer
<1>1. /\ IsRecent(ring, last) /\ last \in 0 .. MaxRecorded /\ last < MaxRecorded
      /\ auditRing' = [events |-> kept, last |-> last + 1]
      /\ auditCursor' = auditCursor /\ auditSeen' = auditSeen
  BY DEF AuditOK, Record
<1>2. Len(ring) \in Nat /\ Len(ring) <= last /\ last \in Nat
  BY <1>1, QueueIsRecent
<1>3. IsRecent(longer, last + 1) /\ Len(longer) = Len(ring) + 1
  BY <1>1, AppendedIsRecent
<1> HIDE DEF longer
<1>4. IsRecent(kept, last + 1) /\ (Len(kept) = Len(ring) \/ Len(kept) = Len(ring) + 1)
  <2>1. CASE Len(longer) > MaxAudit
    <3>1. Len(longer) > 0 /\ kept = Tail(longer)
      BY <1>2, <1>3, <2>1
    <3>2. IsRecent(Tail(longer), last + 1) /\ Len(Tail(longer)) = Len(longer) - 1
      BY <1>3, <3>1, TailIsRecent
    <3>. QED BY <1>2, <1>3, <3>1, <3>2
  <2>2. CASE ~ (Len(longer) > MaxAudit)
    BY <1>3, <2>2
  <2>. QED BY <2>1, <2>2
<1> HIDE DEF kept
<1>5. kept \in Seq(Nat) /\ Len(kept) \in Nat
  BY <1>4, QueueIsRecent
<1>6. /\ auditRing' \in [events : Seq(Nat), last : 0 .. MaxRecorded]
      /\ auditRing'.events = kept /\ auditRing'.last = last + 1
  BY <1>1, <1>5
<1>7. last - Len(ring) <= auditRing'.last - Len(auditRing'.events)
  <2>1. last - Len(ring) <= last + 1 - Len(kept)
    <3> HIDE DEF last, ring
    <3>. QED BY <1>2, <1>4, <1>5
  <2>2. auditRing'.last - Len(auditRing'.events) = last + 1 - Len(kept)
    BY <1>2, <1>5, <1>6
  <2>. QED BY <2>1, <2>2
<1>8. ASSUME NEW n \in 1 .. auditCursor - 1
      PROVE  \/ \E i \in 1 .. Len(auditSeen) : auditSeen[i] = n
             \/ n <= auditRing'.last - Len(auditRing'.events)
  <2>1. \/ \E i \in 1 .. Len(auditSeen) : auditSeen[i] = n
        \/ n <= last - Len(ring)
    BY DEF AuditOK
  <2>2. last - Len(ring) \in Nat /\ auditRing'.last - Len(auditRing'.events) \in Int
    BY <1>2, <1>5, <1>6
  <2>. QED BY <1>7, <2>1, <2>2
<1>9. IsRecent(auditRing'.events, auditRing'.last)
  BY <1>4, <1>6
<1>. QED BY <1>1, <1>6, <1>8, <1>9 DEF AuditOK

\* The events before the cursor are the first of the ring.
LEMMA BeforeIsCount ==
  ASSUME AuditOK
  PROVE  LET n == Len(auditRing.events) first == auditRing.last - Len(auditRing.events) IN
         /\ Before \in 0 .. n
         /\ Before = IF auditCursor - 1 <= first THEN 0
                     ELSE IF auditCursor - 1 - first <= n THEN auditCursor - 1 - first ELSE n
<1> DEFINE ring == auditRing.events
           n == Len(auditRing.events)
           first == auditRing.last - Len(auditRing.events)
           b == IF auditCursor - 1 <= first THEN 0
                ELSE IF auditCursor - 1 - first <= n THEN auditCursor - 1 - first ELSE n
<1>1. /\ ring \in Seq(Nat) /\ n \in Nat /\ first \in Nat /\ auditCursor \in Nat \ {0}
      /\ \A k \in 1 .. n : ring[k] = first + k
  BY QueueIsRecent DEF AuditOK
<1>2. DOMAIN ring = 1 .. n
  BY <1>1, LenProperties
<1>3. b \in 0 .. n
  BY <1>1
<1>4. {k \in DOMAIN ring : ring[k] < auditCursor} = 1 .. b
  <2>1. ASSUME NEW k \in 1 .. n PROVE (ring[k] < auditCursor) <=> k <= b
    <3>1. ring[k] = first + k
      BY <1>1
    <3> HIDE DEF ring, n, first
    <3>. QED BY <1>1, <3>1
  <2>. QED BY <1>2, <1>3, <2>1
<1>5. Cardinality(1 .. b) = b
  BY <1>3, FS_Interval
<1>. QED BY <1>3, <1>4, <1>5 DEF Before

LEMMA ReadAuditStep ==
  ASSUME AuditOK, NEW limit \in Limits, ReadAudit(limit)
  PROVE  AuditOK'
<1> USE BoundsTyped
<1> DEFINE ring == auditRing.events
           n == Len(auditRing.events)
           first == auditRing.last - Len(auditRing.events)
           b == Before
           e == IF b + limit < n THEN b + limit ELSE n
           window == Window(limit)
<1>1. /\ ring \in Seq(Nat) /\ n \in Nat /\ first \in Nat /\ auditCursor \in Nat \ {0}
      /\ \A k \in 1 .. n : ring[k] \in Nat /\ ring[k] = first + k
  BY QueueIsRecent DEF AuditOK
<1> HIDE DEF ring, n, first, b, e, window
<1>2. /\ b \in 0 .. n /\ limit \in Nat
      /\ b = IF auditCursor - 1 <= first THEN 0
             ELSE IF auditCursor - 1 - first <= n THEN auditCursor - 1 - first ELSE n
  BY BeforeIsCount DEF Limits, ring, n, first, b
<1>3. e \in b .. n
  BY <1>1, <1>2 DEF e
<1>4. window = SubSeq(ring, b + 1, e)
  BY DEF Window, window, e, b, n, ring
<1>5. /\ auditSeen' = auditSeen \o window /\ auditRing' = auditRing
      /\ auditCursor' = IF window = << >> THEN auditCursor ELSE window[Len(window)] + 1
  BY DEF ReadAudit, window
<1>6. /\ window \in Seq(Nat) /\ Len(window) = e - b
      /\ \A k \in 1 .. Len(window) : window[k] = (first + b) + k
  <2>1. \A i \in b + 1 .. e : ring[i] \in Nat
    BY <1>1, <1>2, <1>3
  <2>2. /\ window \in Seq(Nat)
        /\ Len(window) = (IF b + 1 <= e THEN e - (b + 1) + 1 ELSE 0)
        /\ \A i \in 1 .. e - (b + 1) + 1 : window[i] = ring[(b + 1) + i - 1]
    <3>1. b + 1 \in Int /\ e \in Int
      BY <1>1, <1>2, <1>3
    <3>2. /\ SubSeq(ring, b + 1, e) \in Seq(Nat)
          /\ Len(SubSeq(ring, b + 1, e)) = (IF b + 1 <= e THEN e - (b + 1) + 1 ELSE 0)
          /\ \A i \in 1 .. e - (b + 1) + 1 : SubSeq(ring, b + 1, e)[i] = ring[(b + 1) + i - 1]
      BY <2>1, <3>1, SubSeqProperties
    <3>. QED BY <1>4, <3>2
  <2>3. Len(window) = e - b
    BY <1>1, <1>2, <1>3, <2>2
  <2>4. ASSUME NEW k \in 1 .. Len(window) PROVE window[k] = (first + b) + k
    <3>1. k \in 1 .. e - (b + 1) + 1 /\ (b + 1) + k - 1 = b + k /\ b + k \in 1 .. n
      BY <1>1, <1>2, <1>3, <2>3
    <3>2. window[k] = ring[b + k]
      BY <2>2, <3>1
    <3>3. ring[b + k] = first + (b + k)
      BY <1>1, <3>1
    <3>. QED BY <1>1, <1>2, <3>2, <3>3
  <2>. QED BY <2>2, <2>3, <2>4
<1>7. CASE window = << >>
  <2>1. auditSeen' = auditSeen /\ auditCursor' = auditCursor
    BY <1>5, <1>7, ConcatEmptySeq DEF AuditOK, GivenBefore
  <2>. QED BY <1>5, <2>1 DEF AuditOK
<1>8. CASE window # << >>
  <2>1. Len(window) \in Nat \ {0}
    BY <1>6, <1>8, EmptySeq
  <2>2. b < e /\ b < n
    BY <1>1, <1>2, <1>3, <1>6, <2>1
  <2>3. auditCursor - 1 <= first + b
    BY <1>1, <1>2, <2>2
  <2>4. auditCursor' = first + b + Len(window) + 1
    <3>1. window[Len(window)] = (first + b) + Len(window)
      BY <1>6, <2>1
    <3>. QED BY <1>1, <1>2, <1>5, <1>8, <2>1, <3>1
  <2>5. auditCursor' \in Nat \ {0} /\ auditCursor' - 1 = (first + b) + Len(window)
    BY <1>1, <1>2, <2>1, <2>4
  <2>6. GivenBefore(auditSeen \o window, (first + b) + Len(window))
    <3>1. auditCursor - 1 \in Nat /\ first + b \in Nat /\ GivenBefore(auditSeen, auditCursor - 1)
      BY <1>1, <1>2 DEF AuditOK
    <3> DEFINE c == first + b
               bound == auditCursor - 1
    <3> HIDE DEF c, bound
    <3>2. GivenBefore(auditSeen \o window, c + Len(window))
      BY <1>6, <2>3, <3>1, GivenNext DEF c, bound
    <3>. QED BY <3>2 DEF c
  <2>7. ASSUME NEW m \in 1 .. auditCursor' - 1
        PROVE  \/ \E i \in 1 .. Len(auditSeen') : auditSeen'[i] = m
               \/ m <= auditRing'.last - Len(auditRing'.events)
    <3>1. /\ auditSeen \in Seq(Nat) /\ Len(auditSeen) \in Nat
          /\ Len(auditSeen') = Len(auditSeen) + Len(window)
          /\ \A i \in 1 .. Len(auditSeen) + Len(window) :
                auditSeen'[i] = IF i <= Len(auditSeen) THEN auditSeen[i] ELSE window[i - Len(auditSeen)]
      BY <1>5, <1>6, LenProperties, ConcatProperties DEF AuditOK, GivenBefore
    <3>2. CASE m <= auditCursor - 1
      <4>1. \/ \E i \in 1 .. Len(auditSeen) : auditSeen[i] = m
            \/ m <= first
        BY <1>1, <3>2 DEF AuditOK, first
      <4>2. CASE m <= first
        BY <1>5, <4>2 DEF first
      <4>3. ASSUME NEW i \in 1 .. Len(auditSeen), auditSeen[i] = m
            PROVE  \E k \in 1 .. Len(auditSeen') : auditSeen'[k] = m
        <5>1. i \in 1 .. Len(auditSeen') /\ auditSeen'[i] = m
          BY <2>1, <3>1, <4>3
        <5>. QED BY <5>1
      <4>. QED BY <4>1, <4>2, <4>3
    <3>3. CASE m <= first
      BY <1>5, <3>3 DEF first
    <3>4. CASE m > auditCursor - 1 /\ m > first
      <4>1. m > first + b
        BY <1>1, <1>2, <2>2, <3>4
      <4> DEFINE j == m - (first + b)
      <4>2. j \in 1 .. Len(window)
        <5>1. m \in Int /\ m <= (first + b) + Len(window)
          <6>1. m \in 1 .. (first + b) + Len(window)
            BY <2>5
          <6>. QED BY <1>1, <1>2, <2>1, <6>1
        <5>. QED BY <1>1, <1>2, <2>1, <4>1, <5>1
      <4>3. window[j] = m
        <5>1. window[j] = (first + b) + j
          BY <1>6, <4>2
        <5>. QED BY <1>1, <1>2, <5>1
      <4> HIDE DEF j
      <4>4. /\ Len(auditSeen) + j \in 1 .. Len(auditSeen')
            /\ ~ (Len(auditSeen) + j <= Len(auditSeen)) /\ Len(auditSeen) + j - Len(auditSeen) = j
        BY <2>1, <3>1, <4>2
      <4>5. auditSeen'[Len(auditSeen) + j] = m
        <5> DEFINE at == Len(auditSeen) + j
        <5>1. /\ at \in 1 .. Len(auditSeen) + Len(window)
              /\ ~ (at <= Len(auditSeen)) /\ at - Len(auditSeen) = j
          <6>1. Len(auditSeen) \in Nat /\ Len(window) \in Nat /\ j \in 1 .. Len(window)
            BY <2>1, <3>1, <4>2
          <6>. QED BY <6>1
        <5> HIDE DEF at
        <5>2. auditSeen'[at] = window[at - Len(auditSeen)]
          BY <3>1, <5>1
        <5>3. auditSeen'[at] = m
          BY <4>3, <5>1, <5>2
        <5>. QED BY <5>3 DEF at
      <4>. QED BY <4>4, <4>5
    <3>. QED BY <1>1, <3>2, <3>3, <3>4
  <2>. QED BY <1>5, <2>5, <2>6, <2>7 DEF AuditOK
<1>. QED BY <1>7, <1>8

LEMMA RegistriesStepInv == RegistriesInv /\ [RegistriesNext]_registryVars => RegistriesInv'
<1> SUFFICES ASSUME RegistriesInv, [RegistriesNext]_registryVars PROVE RegistriesInv'
  OBVIOUS
<1>0. SubscriptionsOK /\ ServicesOK /\ AuditOK /\ hostClock \in Instants
  BY DEF RegistriesInv
<1> DEFINE SubscriptionsSame == subscriptions' = subscriptions /\ seen' = seen
           ServicesSame == services' = services
           AuditSame == auditRing' = auditRing /\ auditCursor' = auditCursor /\ auditSeen' = auditSeen
<1>1. SubscriptionsSame => SubscriptionsOK'
  BY <1>0 DEF SubscriptionsOK
<1>2. ServicesSame => ServicesOK'
  BY <1>0 DEF ServicesOK
<1>3. AuditSame => AuditOK'
  BY <1>0 DEF AuditOK
<1>4. CASE UNCHANGED registryVars
  BY <1>0, <1>1, <1>2, <1>3, <1>4 DEF registryVars, RegistriesInv
<1>5. CASE HostTick
  <2>1. hostClock' \in Instants
    BY <1>0, <1>5, BoundsTyped DEF HostTick, Instants
  <2>. QED BY <1>1, <1>2, <1>3, <1>5, <2>1 DEF HostTick, RegistriesInv
<1>6. CASE Record
  <2>1. AuditOK'
    BY <1>0, <1>6, RecordStep
  <2>. QED BY <1>0, <1>1, <1>2, <1>6, <2>1 DEF Record, RegistriesInv
<1>7. ASSUME NEW t \in Topics, Publish(t) PROVE RegistriesInv'
  <2>1. SubscriptionsOK'
    BY <1>0, <1>7, PublishStep
  <2>. QED BY <1>0, <1>2, <1>3, <1>7, <2>1 DEF Publish, RegistriesInv
<1>8. ASSUME NEW t \in Topics, NEW m \in Modes, NEW ttl \in SubscriptionTtls, Subscribe(t, m, ttl)
      PROVE  RegistriesInv'
  <2>1. SubscriptionsOK'
    BY <1>0, <1>8, SubscribeStep
  <2>. QED BY <1>0, <1>2, <1>3, <1>8, <2>1 DEF Subscribe, RegistriesInv
<1>9. ASSUME NEW i \in DOMAIN subscriptions, NEW n \in Limits, Poll(i, n) PROVE RegistriesInv'
  <2>1. SubscriptionsOK'
    BY <1>0, <1>9, PollStep
  <2>. QED BY <1>0, <1>2, <1>3, <1>9, <2>1 DEF Poll, RegistriesInv
<1>10. ASSUME NEW id \in Services, NEW ms \in SUBSET Methods, RegisterService(id, ms) PROVE RegistriesInv'
  <2>1. ServicesOK'
    BY <1>0, <1>10, ServicesStep
  <2>. QED BY <1>0, <1>1, <1>3, <1>10, <2>1 DEF RegisterService, RegistriesInv
<1>11. ASSUME NEW id \in DOMAIN services, UnregisterService(id) PROVE RegistriesInv'
  <2>1. ServicesOK'
    BY <1>0, <1>11, ServicesStep
  <2>. QED BY <1>0, <1>1, <1>3, <1>11, <2>1 DEF UnregisterService, RegistriesInv
<1>12. ASSUME NEW n \in Limits, ReadAudit(n) PROVE RegistriesInv'
  <2>1. AuditOK'
    BY <1>0, <1>12, ReadAuditStep
  <2>. QED BY <1>0, <1>1, <1>2, <1>12, <2>1 DEF ReadAudit, RegistriesInv
<1>. QED BY <1>4, <1>5, <1>6, <1>7, <1>8, <1>9, <1>10, <1>11, <1>12 DEF RegistriesNext

LEMMA RecentSkipsNothing ==
  ASSUME NEW queue, NEW last, IsRecent(queue, last)
  PROVE  NothingSkipped(queue, last)
<1>1. /\ queue \in Seq(Nat) /\ last \in Nat /\ Len(queue) \in Nat /\ Len(queue) <= last
      /\ \A k \in 1 .. Len(queue) : queue[k] = last - Len(queue) + k
  BY QueueIsRecent
<1>2. ASSUME queue # << >> PROVE queue[Len(queue)] = last /\ queue[1] = last - Len(queue) + 1
  <2>1. Len(queue) \in 1 .. Len(queue) /\ 1 \in 1 .. Len(queue)
    BY <1>1, <1>2, EmptySeq
  <2>2. queue[Len(queue)] = last - Len(queue) + Len(queue)
    BY <1>1, <2>1
  <2>. QED BY <1>1, <2>1, <2>2
<1>. QED BY <1>2 DEF NothingSkipped

LEMMA RegistriesInvOrders == RegistriesInv => RecordsInOrder
<1> SUFFICES ASSUME RegistriesInv PROVE RecordsInOrder
  OBVIOUS
<1> USE BoundsTyped
<1>0. SubscriptionsOK /\ ServicesOK /\ AuditOK /\ hostClock \in Instants
  BY DEF RegistriesInv
<1>1. PICK n \in Nat : DOMAIN subscriptions = 1 .. n /\ n <= MaxSubscribed /\ n <= MaxSubscriptions
  BY <1>0 DEF SubscriptionsOK
<1>2. DOMAIN subscriptions \subseteq 1 .. MaxSubscribed /\ Cardinality(DOMAIN subscriptions) <= MaxSubscriptions
  <2>1. Cardinality(1 .. n) = n
    BY FS_Interval
  <2>. QED BY <1>1, <2>1
<1>3. ASSUME NEW i \in DOMAIN subscriptions
      PROVE  /\ subscriptions[i].topic \in Topics /\ subscriptions[i].mode \in Modes
             /\ subscriptions[i].expires \in Nat /\ subscriptions[i].next \in Nat
             /\ Increasing(seen[i] \o subscriptions[i].queue)
             /\ NothingSkipped(subscriptions[i].queue, subscriptions[i].next)
             /\ Len(subscriptions[i].queue) <= (IF subscriptions[i].mode = "latest" THEN 1 ELSE MaxQueue)
  <2> DEFINE s == subscriptions[i]
             given == seen[i]
             c == s.next - Len(s.queue)
  <2>1. SubscriptionOK(s, given)
    BY <1>0 DEF SubscriptionsOK
  <2>2. /\ s \in [topic : Topics, mode : Modes, expires : Nat, queue : Seq(Nat), next : Nat]
        /\ IsRecent(s.queue, s.next) /\ GivenBefore(given, c) /\ c \in Nat
        /\ Len(s.queue) <= (IF s.mode = "latest" THEN 1 ELSE MaxQueue)
    BY <2>1, SubscriptionOkFacts
  <2>3. s.queue \in Seq(Nat) /\ \A k \in 1 .. Len(s.queue) : s.queue[k] = c + k
    BY <2>2, QueueIsRecent
  <2>4. Increasing(given \o s.queue)
    <3> DEFINE w == s.queue
    <3> HIDE DEF c, w, given
    <3>1. GivenBefore(given \o w, c + Len(w))
      BY <2>2, <2>3, GivenNext DEF w
    <3>. QED BY <3>1 DEF GivenBefore, w
  <2>5. NothingSkipped(s.queue, s.next)
    BY <2>2, RecentSkipsNothing
  <2>. QED BY <2>2, <2>4, <2>5
<1>4. Increasing(auditSeen) /\ NothingSkipped(auditRing.events, auditRing.last)
  BY <1>0, RecentSkipsNothing DEF AuditOK, GivenBefore
<1>5. ASSUME NEW m \in 1 .. auditCursor - 1
      PROVE  \/ \E i \in 1 .. Len(auditSeen) : auditSeen[i] = m
             \/ auditRing.events = << >> \/ m < auditRing.events[1]
  <2>1. \/ \E i \in 1 .. Len(auditSeen) : auditSeen[i] = m
        \/ m <= auditRing.last - Len(auditRing.events)
    BY <1>0 DEF AuditOK
  <2>2. ASSUME auditRing.events # << >>
        PROVE  /\ auditRing.events[1] = auditRing.last - Len(auditRing.events) + 1
               /\ auditRing.last - Len(auditRing.events) \in Nat
    <3>1. IsRecent(auditRing.events, auditRing.last)
      BY <1>0 DEF AuditOK
    <3>. QED BY <2>2, <3>1, QueueIsRecent, RecentSkipsNothing DEF NothingSkipped
  <2>. QED BY <2>1, <2>2
<1>6. auditRing.last \in 0 .. MaxRecorded /\ auditCursor \in Nat
  BY <1>0 DEF AuditOK
<1>7. DOMAIN services \subseteq Services /\ Cardinality(DOMAIN services) <= MaxServices
  BY <1>0 DEF ServicesOK
<1>8. RegistriesTypeOK
  BY <1>0, <1>2, <1>3, <1>6, <1>7 DEF RegistriesTypeOK
<1>. QED BY <1>2, <1>3, <1>4, <1>5, <1>7, <1>8 DEF RecordsInOrder

\* RegistriesInv holds in every state: queues, the audit ring and what was given out
\* agree on the order of the records and no registry exceeds its cap.
THEOREM RegistriesStaysInv == RegistriesSpec => []RegistriesInv
<1>. QED BY RegistriesInitInv, RegistriesStepInv, PTL DEF RegistriesSpec

\* The event bus, the service registry and the audit ring of the kernel give their
\* readers ever later records, each at most once, keep the most recent ones without
\* a gap and stay within their caps, for any topics, limits and times to live.
THEOREM RecordsStayInOrder == RegistriesSpec => []RecordsInOrder
<1>. QED BY RegistriesStaysInv, RegistriesInvOrders, PTL
-----------------------------------------------------------------------------
(*****************************************************************************)
(* BlobStore: the accounts of the blob store.                                *)
(*****************************************************************************)

\* Sums as numbers of units: of a finite function of naturals, of one entry, of two
\* functions on disjoint domains.
UnitsOf(size, S) == UNION {{i} \X (1 .. size[i]) : i \in S}

LEMMA UnitsMember ==
  ASSUME NEW size, NEW S
  PROVE  \A u : u \in UnitsOf(size, S) <=> \E i \in S : \E k \in 1 .. size[i] : u = <<i, k>>
BY DEF UnitsOf

LEMMA UnitsFinite ==
  ASSUME NEW size, NEW S, IsFiniteSet(S), \A i \in S : size[i] \in Nat
  PROVE  IsFiniteSet(UnitsOf(size, S)) /\ Cardinality(UnitsOf(size, S)) \in Nat
<1> DEFINE T == {{i} \X (1 .. size[i]) : i \in S}
           f == [i \in S |-> {i} \X (1 .. size[i])]
<1>1. f \in Surjection(S, T)
  BY DEF Surjection
<1>2. IsFiniteSet(T)
  <2> HIDE DEF f, T
  <2>. QED BY <1>1, FS_Surjection
<1>3. ASSUME NEW i \in S PROVE IsFiniteSet({i} \X (1 .. size[i]))
  <2>1. IsFiniteSet({i}) /\ IsFiniteSet(1 .. size[i])
    <3>1. 1 \in Int /\ size[i] \in Int
      OBVIOUS
    <3>. QED BY <3>1, FS_Singleton, FS_Interval
  <2>. QED BY <2>1, FS_Product
<1>4. IsFiniteSet(UNION T)
  BY <1>2, <1>3, FS_UNION
<1>. QED BY <1>4, FS_CardinalityType DEF UnitsOf

LEMMA UnitsSplit ==
  ASSUME NEW size, NEW A, NEW B, IsFiniteSet(A), IsFiniteSet(B), A \cap B = {},
         \A i \in A \cup B : size[i] \in Nat
  PROVE  Cardinality(UnitsOf(size, A \cup B)) = Cardinality(UnitsOf(size, A)) + Cardinality(UnitsOf(size, B))
<1>1. UnitsOf(size, A \cup B) = UnitsOf(size, A) \cup UnitsOf(size, B)
  BY DEF UnitsOf
<1>2. UnitsOf(size, A) \cap UnitsOf(size, B) = {}
  <2> SUFFICES ASSUME NEW u, u \in UnitsOf(size, A), u \in UnitsOf(size, B) PROVE FALSE
    OBVIOUS
  <2>1. PICK i \in A : \E k \in 1 .. size[i] : u = <<i, k>>
    BY UnitsMember
  <2>2. PICK j \in B : \E k \in 1 .. size[j] : u = <<j, k>>
    BY UnitsMember
  <2>3. i = j
    BY <2>1, <2>2
  <2>. QED BY <2>3
<1>3. IsFiniteSet(UnitsOf(size, A)) /\ IsFiniteSet(UnitsOf(size, B))
      /\ Cardinality(UnitsOf(size, A)) \in Nat /\ Cardinality(UnitsOf(size, B)) \in Nat
  BY UnitsFinite
<1>4. Cardinality(UnitsOf(size, A) \cup UnitsOf(size, B))
        = Cardinality(UnitsOf(size, A)) + Cardinality(UnitsOf(size, B))
          - Cardinality(UnitsOf(size, A) \cap UnitsOf(size, B))
  BY <1>3, FS_Union
<1>5. Cardinality(UnitsOf(size, A) \cap UnitsOf(size, B)) = 0
  BY <1>2, FS_EmptySet
<1> DEFINE a == Cardinality(UnitsOf(size, A))
           b == Cardinality(UnitsOf(size, B))
           both == Cardinality(UnitsOf(size, A) \cap UnitsOf(size, B))
           all == Cardinality(UnitsOf(size, A) \cup UnitsOf(size, B))
<1>6. a \in Nat /\ b \in Nat /\ both = 0 /\ all = a + b - both
  BY <1>3, <1>4, <1>5
<1>7. all = a + b
  <2> HIDE DEF all, a, b, both
  <2>. QED BY <1>6
<1>. QED BY <1>1, <1>7

LEMMA UnitsOfOne ==
  ASSUME NEW size, NEW x, size[x] \in Nat
  PROVE  Cardinality(UnitsOf(size, {x})) = size[x]
<1>1. UnitsOf(size, {x}) = {x} \X (1 .. size[x])
  BY DEF UnitsOf
<1>2. /\ IsFiniteSet({x}) /\ Cardinality({x}) = 1
      /\ IsFiniteSet(1 .. size[x]) /\ Cardinality(1 .. size[x]) = size[x]
  <2> DEFINE n == size[x]
  <2>1. n \in Nat /\ n \in Int /\ 1 \in Int
    OBVIOUS
  <2> HIDE DEF n
  <2>2. IsFiniteSet(1 .. n) /\ Cardinality(1 .. n) = n
    BY <2>1, FS_Interval
  <2>. QED BY <2>2, FS_Singleton DEF n
<1>3. Cardinality({x} \X (1 .. size[x])) = Cardinality({x}) * Cardinality(1 .. size[x])
  BY <1>2, FS_Product
<1>4. 1 * size[x] = size[x]
  OBVIOUS
<1>. QED BY <1>1, <1>2, <1>3, <1>4

LEMMA TotalIsUnits == ASSUME NEW size PROVE Total(size) = Cardinality(UnitsOf(size, DOMAIN size))
BY DEF Total, UnitsOf

LEMMA UnitsAgree ==
  ASSUME NEW f, NEW g, NEW S, \A i \in S : f[i] = g[i]
  PROVE  UnitsOf(f, S) = UnitsOf(g, S)
BY DEF UnitsOf

LEMMA TotalNat ==
  ASSUME NEW size, IsFiniteSet(DOMAIN size), \A i \in DOMAIN size : size[i] \in Nat
  PROVE  Total(size) \in Nat
BY TotalIsUnits, UnitsFinite

LEMMA TotalNone == ASSUME NEW size, DOMAIN size = {} PROVE Total(size) = 0
<1>1. UnitsOf(size, DOMAIN size) = {}
  BY DEF UnitsOf
<1>. QED BY <1>1, TotalIsUnits, FS_EmptySet

\* The sums of two parts make the sum of the whole.
LEMMA TotalSplit ==
  ASSUME NEW whole, NEW a, NEW b, IsFiniteSet(DOMAIN a), IsFiniteSet(DOMAIN b),
         DOMAIN a \cap DOMAIN b = {}, DOMAIN whole = DOMAIN a \cup DOMAIN b,
         \A i \in DOMAIN a : whole[i] = a[i], \A i \in DOMAIN b : whole[i] = b[i],
         \A i \in DOMAIN whole : whole[i] \in Nat
  PROVE  Total(whole) = Total(a) + Total(b) /\ Total(a) \in Nat /\ Total(b) \in Nat
<1>1. UnitsOf(whole, DOMAIN a) = UnitsOf(a, DOMAIN a) /\ UnitsOf(whole, DOMAIN b) = UnitsOf(b, DOMAIN b)
  BY UnitsAgree
<1>2. Cardinality(UnitsOf(whole, DOMAIN a \cup DOMAIN b))
        = Cardinality(UnitsOf(whole, DOMAIN a)) + Cardinality(UnitsOf(whole, DOMAIN b))
  BY UnitsSplit
<1>3. Total(a) \in Nat /\ Total(b) \in Nat
  BY TotalNat
<1>. QED BY <1>1, <1>2, <1>3, TotalIsUnits

\* One more entry adds its size.
LEMMA TotalAdd ==
  ASSUME NEW more, NEW size, NEW x, IsFiniteSet(DOMAIN size), x \notin DOMAIN size,
         DOMAIN more = DOMAIN size \cup {x}, \A i \in DOMAIN size : more[i] = size[i],
         \A i \in DOMAIN more : more[i] \in Nat
  PROVE  Total(more) = Total(size) + more[x] /\ Total(size) \in Nat
<1> DEFINE one == [i \in {x} |-> more[i]]
<1>1. DOMAIN one = {x} /\ one[x] = more[x] /\ IsFiniteSet({x}) /\ more[x] \in Nat
  BY FS_Singleton
<1> HIDE DEF one
<1>2. Total(more) = Total(size) + Total(one) /\ Total(size) \in Nat
  BY <1>1, TotalSplit
<1>3. Total(one) = more[x]
  BY <1>1, UnitsOfOne, TotalIsUnits
<1>. QED BY <1>2, <1>3

\* A part sums to no more than the whole.
LEMMA TotalOfPart ==
  ASSUME NEW whole, NEW part, IsFiniteSet(DOMAIN whole), DOMAIN part \subseteq DOMAIN whole,
         \A i \in DOMAIN part : part[i] = whole[i], \A i \in DOMAIN whole : whole[i] \in Nat
  PROVE  Total(part) <= Total(whole) /\ Total(part) \in Nat
<1> DEFINE rest == [i \in DOMAIN whole \ DOMAIN part |-> whole[i]]
<1>1. IsFiniteSet(DOMAIN part) /\ IsFiniteSet(DOMAIN whole \ DOMAIN part)
  BY FS_Subset
<1>2. DOMAIN rest = DOMAIN whole \ DOMAIN part /\ \A i \in DOMAIN rest : whole[i] = rest[i]
  OBVIOUS
<1> HIDE DEF rest
<1>4. /\ IsFiniteSet(DOMAIN part) /\ IsFiniteSet(DOMAIN rest) /\ DOMAIN part \cap DOMAIN rest = {}
      /\ DOMAIN whole = DOMAIN part \cup DOMAIN rest
      /\ \A i \in DOMAIN part : whole[i] = part[i]
      /\ \A i \in DOMAIN rest : whole[i] = rest[i]
  BY <1>1, <1>2
<1>3. Total(whole) = Total(part) + Total(rest) /\ Total(part) \in Nat /\ Total(rest) \in Nat
  BY <1>4, TotalSplit
<1>. QED BY <1>3
-----------------------------------------------------------------------------
\* What the store looks like between operations. Beyond BlobAccountsExact: everything
\* is finite, an upload holds no more than it announced, and its bytes are a digest.
UploadRecords ==
    [owner : BlobOwners, mediaType : MediaTypes, expected : 0 .. BlobQuota.blob, expires : Nat,
     bytes : Seq(Bytes)]
ReadRecords ==
    [digest : Bytestrings, owner : BlobOwners, expires : 0 .. MaxBlobClock + BlobQuota.readTtl]
StoredRecords == [mediaType : MediaTypes, lastAccess : Times]
Sizes(uploads) == [i \in DOMAIN uploads |-> uploads[i].expected]
Lengths(blobs) == [d \in DOMAIN blobs |-> Len(d)]

BlobsOK(blobs) ==
    /\ IsFiniteSet(DOMAIN blobs) /\ DOMAIN blobs \subseteq Bytestrings
    /\ \A d \in DOMAIN blobs : blobs[d] \in StoredRecords
    /\ Total(Lengths(blobs)) <= BlobQuota.stored
UploadsOK(uploads, next, inflight) ==
    /\ IsFiniteSet(DOMAIN uploads) /\ DOMAIN uploads \subseteq 1 .. next - 1
    /\ \A i \in DOMAIN uploads : uploads[i] \in UploadRecords /\ Len(uploads[i].bytes) <= uploads[i].expected
    /\ Cardinality(DOMAIN uploads) <= BlobQuota.uploads
    /\ inflight = Total(Sizes(uploads)) /\ inflight <= BlobQuota.inflight
ReadsOK(reads, next, blobs) ==
    /\ IsFiniteSet(DOMAIN reads) /\ DOMAIN reads \subseteq 1 .. next - 1
    /\ \A i \in DOMAIN reads : reads[i] \in ReadRecords /\ reads[i].digest \in DOMAIN blobs
    /\ Cardinality(DOMAIN reads) <= BlobQuota.reads
StoreOK(s) ==
    /\ DOMAIN s = {"blobs", "uploads", "reads", "next", "inflight"}
    /\ s.next \in Nat \ {0}
    /\ BlobsOK(s.blobs) /\ UploadsOK(s.uploads, s.next, s.inflight) /\ ReadsOK(s.reads, s.next, s.blobs)

LEMMA BlobBounds ==
  /\ BlobQuota.stored \in Nat /\ BlobQuota.blob \in Nat /\ BlobQuota.inflight \in Nat
  /\ BlobQuota.uploads \in Nat /\ BlobQuota.reads \in Nat /\ BlobQuota.readTtl \in Nat
  /\ UploadTtl \in Nat /\ ReadTtl \in Nat /\ ReadTtl <= BlobQuota.readTtl /\ ReadTtl > 0
  /\ MaxLeases \in Nat /\ MaxBlobClock \in Nat /\ IdleAfter \in Nat
  /\ NativeCaller \in BlobOwners
BY BlobAssumption

LEMMA BytestringsAre ==
  /\ \A b \in Bytestrings : b \in Seq(Bytes) /\ Len(b) \in Nat /\ Len(b) <= BlobQuota.blob
  /\ \A b \in Seq(Bytes) : Len(b) <= BlobQuota.blob => b \in Bytestrings
<1>1. ASSUME NEW b \in Bytestrings PROVE b \in Seq(Bytes) /\ Len(b) \in Nat /\ Len(b) <= BlobQuota.blob
  <2>1. PICK n \in 0 .. BlobQuota.blob : b \in [1 .. n -> Bytes]
    BY DEF Bytestrings
  <2>2. n \in Nat
    BY BlobBounds
  <2>. QED BY <2>1, <2>2, BlobBounds
<1>2. ASSUME NEW b \in Seq(Bytes), Len(b) <= BlobQuota.blob PROVE b \in Bytestrings
  <2>1. Len(b) \in Nat /\ b \in [1 .. Len(b) -> Bytes]
    BY LenProperties
  <2>2. Len(b) \in 0 .. BlobQuota.blob
    BY <1>2, <2>1, BlobBounds
  <2>. QED BY <2>1, <2>2 DEF Bytestrings
<1>. QED BY <1>1, <1>2

\* Uploads: those outside `keep` are dropped with their announced bytes.
LEMMA UploadsPart ==
  ASSUME NEW u, NEW n, NEW f, UploadsOK(u, n, f), NEW keep, keep \subseteq DOMAIN u
  PROVE  UploadsOK(Restrict(u, keep), n, LessBytes(f, Total([i \in DOMAIN u \ keep |-> u[i].expected])))
<1> DEFINE kept == Restrict(u, keep)
           gone == [i \in DOMAIN u \ keep |-> u[i].expected]
           rest == Sizes(kept)
           whole == Sizes(u)
<1>1. DOMAIN kept = keep /\ \A i \in keep : kept[i] = u[i]
  BY DEF Restrict
<1>2. IsFiniteSet(keep) /\ IsFiniteSet(DOMAIN u \ keep) /\ Cardinality(keep) <= Cardinality(DOMAIN u)
  BY FS_Subset DEF UploadsOK
<1>3. \A i \in DOMAIN u : u[i].expected \in Nat
  BY BlobBounds DEF UploadsOK, UploadRecords
<1>4. /\ DOMAIN rest = keep /\ DOMAIN gone = DOMAIN u \ keep /\ DOMAIN whole = DOMAIN u
      /\ \A i \in DOMAIN rest : whole[i] = rest[i]
      /\ \A i \in DOMAIN gone : whole[i] = gone[i]
      /\ \A i \in DOMAIN whole : whole[i] \in Nat
  BY <1>1, <1>3 DEF Sizes
<1>5. f = Total(whole) /\ f <= BlobQuota.inflight
  BY DEF UploadsOK
<1>6. Cardinality(keep) <= BlobQuota.uploads
  BY <1>2, BlobBounds, FS_CardinalityType DEF UploadsOK
<1> HIDE DEF rest, whole, gone
<1>7. /\ IsFiniteSet(DOMAIN rest) /\ IsFiniteSet(DOMAIN gone) /\ DOMAIN rest \cap DOMAIN gone = {}
      /\ DOMAIN whole = DOMAIN rest \cup DOMAIN gone
  BY <1>2, <1>4
<1>8. Total(whole) = Total(rest) + Total(gone) /\ Total(rest) \in Nat /\ Total(gone) \in Nat
  BY <1>4, <1>7, TotalSplit
<1>9. LessBytes(f, Total(gone)) = Total(rest) /\ Total(rest) <= BlobQuota.inflight
  BY <1>5, <1>8, BlobBounds DEF LessBytes
<1>10. UploadsOK(kept, n, LessBytes(f, Total(gone)))
  <2>1. \A i \in DOMAIN kept : kept[i] \in UploadRecords /\ Len(kept[i].bytes) <= kept[i].expected
    BY <1>1 DEF UploadsOK
  <2>2. DOMAIN kept \subseteq 1 .. n - 1
    BY <1>1 DEF UploadsOK
  <2>3. LessBytes(f, Total(gone)) = Total(Sizes(kept))
    BY <1>9 DEF rest
  <2> HIDE DEF kept
  <2>. QED BY <1>1, <1>2, <1>6, <1>9, <2>1, <2>2, <2>3 DEF UploadsOK
<1>. QED BY <1>10 DEF gone

LEMMA UploadsMinus ==
  ASSUME NEW u, NEW n, NEW f, UploadsOK(u, n, f), NEW id \in DOMAIN u
  PROVE  UploadsOK(WithoutBlob(u, id), n, LessBytes(f, u[id].expected))
<1> DEFINE one == [i \in {id} |-> u[i].expected]
<1>1. DOMAIN u \ (DOMAIN u \ {id}) = {id}
  OBVIOUS
<1>2. u[id].expected \in Nat
  BY BlobBounds DEF UploadsOK, UploadRecords
<1>3. DOMAIN one = {id} /\ one[id] = u[id].expected
  OBVIOUS
<1>4. Total(one) = u[id].expected
  <2> HIDE DEF one
  <2>. QED BY <1>2, <1>3, TotalIsUnits, UnitsOfOne
<1>5. UploadsOK(Restrict(u, DOMAIN u \ {id}), n,
                LessBytes(f, Total([i \in DOMAIN u \ (DOMAIN u \ {id}) |-> u[i].expected])))
  BY UploadsPart
<1>6. [i \in DOMAIN u \ (DOMAIN u \ {id}) |-> u[i].expected] = one
  BY <1>1
<1>. QED BY <1>4, <1>5, <1>6 DEF WithoutBlob

LEMMA UploadsPlus ==
  ASSUME NEW u, NEW n \in Nat \ {0}, NEW f, UploadsOK(u, n, f), NEW entry \in UploadRecords,
         Len(entry.bytes) <= entry.expected,
         Cardinality(DOMAIN u) < BlobQuota.uploads, f + entry.expected <= BlobQuota.inflight
  PROVE  UploadsOK(Placed(u, n, entry), n + 1, f + entry.expected)
<1> DEFINE more == Placed(u, n, entry)
<1>1. n \notin DOMAIN u
  BY DEF UploadsOK
<1>2. /\ DOMAIN more = DOMAIN u \cup {n} /\ more[n] = entry
      /\ \A i \in DOMAIN u : more[i] = u[i]
  BY <1>1 DEF Placed
<1> HIDE DEF more
<1>3. /\ IsFiniteSet(DOMAIN more) /\ Cardinality(DOMAIN more) = Cardinality(DOMAIN u) + 1
      /\ Cardinality(DOMAIN u) \in Nat
  BY <1>1, <1>2, FS_AddElement, FS_CardinalityType DEF UploadsOK
<1>4. \A i \in DOMAIN more : more[i] \in UploadRecords /\ Len(more[i].bytes) <= more[i].expected
  BY <1>2 DEF UploadsOK
<1>5. DOMAIN more \subseteq 1 .. (n + 1) - 1
  BY <1>2 DEF UploadsOK
<1>6. \A i \in DOMAIN more : more[i].expected \in Nat
  BY <1>4, BlobBounds DEF UploadRecords
<1>7. Total(Sizes(more)) = Total(Sizes(u)) + entry.expected
  <2> DEFINE a == Sizes(more)
             b == Sizes(u)
  <2>1. /\ DOMAIN a = DOMAIN b \cup {n} /\ n \notin DOMAIN b /\ IsFiniteSet(DOMAIN b)
        /\ \A i \in DOMAIN b : a[i] = b[i]
        /\ \A i \in DOMAIN a : a[i] \in Nat
        /\ a[n] = entry.expected
    BY <1>1, <1>2, <1>6 DEF Sizes, UploadsOK
  <2> HIDE DEF a, b
  <2>2. Total(a) = Total(b) + entry.expected
    BY <2>1, TotalAdd
  <2>. QED BY <2>2 DEF a, b
<1>8. f + entry.expected = Total(Sizes(more))
  BY <1>7 DEF UploadsOK
<1>9. Cardinality(DOMAIN more) <= BlobQuota.uploads
  BY <1>3, BlobBounds
<1>10. UploadsOK(more, n + 1, f + entry.expected)
  BY <1>3, <1>4, <1>5, <1>8, <1>9 DEF UploadsOK
<1>. QED BY <1>10 DEF more

LEMMA UploadsExtended ==
  ASSUME NEW u, NEW n, NEW f, UploadsOK(u, n, f), NEW id \in DOMAIN u, NEW chunk \in Seq(Bytes),
         Len(u[id].bytes) + Len(chunk) <= u[id].expected
  PROVE  UploadsOK([u EXCEPT ![id].bytes = @ \o chunk], n, f)
<1> DEFINE w == [u EXCEPT ![id].bytes = @ \o chunk]
           entry == [u[id] EXCEPT !.bytes = @ \o chunk]
<1>1. u[id] \in UploadRecords
  BY DEF UploadsOK
<1>2. u[id].bytes \o chunk \in Seq(Bytes) /\ Len(u[id].bytes \o chunk) = Len(u[id].bytes) + Len(chunk)
  BY <1>1, ConcatProperties DEF UploadRecords
<1>3. /\ entry \in UploadRecords /\ entry.expected = u[id].expected
      /\ Len(entry.bytes) <= entry.expected
  BY <1>1, <1>2 DEF UploadRecords
<1>4. DOMAIN w = DOMAIN u /\ w[id] = entry /\ \A i \in DOMAIN u : i # id => w[i] = u[i]
  OBVIOUS
<1> HIDE DEF w, entry
<1>5. Sizes(w) = Sizes(u)
  BY <1>3, <1>4 DEF Sizes
<1>6. \A i \in DOMAIN w : w[i] \in UploadRecords /\ Len(w[i].bytes) <= w[i].expected
  BY <1>3, <1>4 DEF UploadsOK
<1>7. UploadsOK(w, n, f)
  BY <1>4, <1>5, <1>6 DEF UploadsOK
<1>. QED BY <1>7 DEF w

LEMMA UploadsNext ==
  ASSUME NEW u, NEW n \in Nat \ {0}, NEW f, UploadsOK(u, n, f)
  PROVE  UploadsOK(u, n + 1, f)
<1>1. DOMAIN u \subseteq 1 .. (n + 1) - 1
  BY DEF UploadsOK
<1>. QED BY <1>1 DEF UploadsOK

\* Stored blobs.
LEMMA LengthsNat ==
  ASSUME NEW b, BlobsOK(b)
  PROVE  /\ DOMAIN Lengths(b) = DOMAIN b /\ \A d \in DOMAIN b : Lengths(b)[d] = Len(d) /\ Len(d) \in Nat
         /\ Total(Lengths(b)) \in Nat
<1>1. DOMAIN Lengths(b) = DOMAIN b /\ \A d \in DOMAIN b : Lengths(b)[d] = Len(d)
  BY DEF Lengths
<1>2. \A d \in DOMAIN b : Len(d) \in Nat
  BY BytestringsAre DEF BlobsOK
<1>3. IsFiniteSet(DOMAIN Lengths(b)) /\ \A d \in DOMAIN Lengths(b) : Lengths(b)[d] \in Nat
  BY <1>1, <1>2 DEF BlobsOK
<1>. QED BY <1>1, <1>2, <1>3, TotalNat

LEMMA BlobsPlus ==
  ASSUME NEW b, BlobsOK(b), NEW d \in Bytestrings, NEW entry \in StoredRecords,
         d \in DOMAIN b \/ Total(Lengths(b)) + Len(d) <= BlobQuota.stored
  PROVE  BlobsOK(Placed(b, d, entry)) /\ DOMAIN b \subseteq DOMAIN Placed(b, d, entry)
<1> DEFINE more == Placed(b, d, entry)
<1>1. /\ DOMAIN more = DOMAIN b \cup {d} /\ more[d] = entry
      /\ \A x \in DOMAIN b : x # d => more[x] = b[x]
  BY DEF Placed
<1> HIDE DEF more
<1>2. IsFiniteSet(DOMAIN more) /\ DOMAIN more \subseteq Bytestrings
  BY <1>1, FS_AddElement DEF BlobsOK
<1>3. \A x \in DOMAIN more : more[x] \in StoredRecords
  BY <1>1 DEF BlobsOK
<1>4. Total(Lengths(more)) <= BlobQuota.stored
  <2>1. CASE d \in DOMAIN b
    <3>1. Lengths(more) = Lengths(b)
      BY <1>1, <2>1 DEF Lengths
    <3>. QED BY <3>1 DEF BlobsOK
  <2>2. CASE d \notin DOMAIN b
    <3> DEFINE w == Lengths(more)
               v == Lengths(b)
    <3>1. /\ DOMAIN w = DOMAIN v \cup {d} /\ d \notin DOMAIN v /\ IsFiniteSet(DOMAIN v)
          /\ \A x \in DOMAIN v : w[x] = v[x]
          /\ \A x \in DOMAIN w : w[x] \in Nat
          /\ w[d] = Len(d)
      BY <1>1, <1>2, <2>2, BytestringsAre DEF Lengths, BlobsOK
    <3> HIDE DEF w, v
    <3>2. Total(w) = Total(v) + Len(d)
      BY <3>1, TotalAdd
    <3>. QED BY <2>2, <3>2 DEF w, v
  <2>. QED BY <2>1, <2>2
<1>5. BlobsOK(more) /\ DOMAIN b \subseteq DOMAIN more
  BY <1>1, <1>2, <1>3, <1>4 DEF BlobsOK
<1>. QED BY <1>5 DEF more

LEMMA BlobsTouched ==
  ASSUME NEW b, BlobsOK(b), NEW d \in DOMAIN b, NEW at \in Times
  PROVE  BlobsOK([b EXCEPT ![d].lastAccess = at]) /\ DOMAIN [b EXCEPT ![d].lastAccess = at] = DOMAIN b
<1> DEFINE w == [b EXCEPT ![d].lastAccess = at]
<1>1. DOMAIN w = DOMAIN b
  OBVIOUS
<1>2. \A x \in DOMAIN w : w[x] \in StoredRecords
  BY DEF BlobsOK, StoredRecords
<1> HIDE DEF w
<1>3. Lengths(w) = Lengths(b)
  BY <1>1 DEF Lengths
<1>4. BlobsOK(w)
  BY <1>1, <1>2, <1>3 DEF BlobsOK
<1>. QED BY <1>1, <1>4 DEF w

LEMMA BlobsPart ==
  ASSUME NEW b, BlobsOK(b), NEW keep, keep \subseteq DOMAIN b
  PROVE  BlobsOK(Restrict(b, keep)) /\ DOMAIN Restrict(b, keep) = keep
<1> DEFINE w == Restrict(b, keep)
<1>1. DOMAIN w = keep /\ \A x \in keep : w[x] = b[x]
  BY DEF Restrict
<1> HIDE DEF w
<1>2. IsFiniteSet(keep)
  BY FS_Subset DEF BlobsOK
<1>3. Total(Lengths(w)) <= Total(Lengths(b)) /\ Total(Lengths(w)) \in Nat
  <2> DEFINE part == Lengths(w)
             whole == Lengths(b)
  <2>1. /\ IsFiniteSet(DOMAIN whole) /\ DOMAIN part \subseteq DOMAIN whole
        /\ \A x \in DOMAIN part : part[x] = whole[x]
        /\ \A x \in DOMAIN whole : whole[x] \in Nat
    BY <1>1, LengthsNat DEF Lengths, BlobsOK
  <2> HIDE DEF part, whole
  <2>2. Total(part) <= Total(whole) /\ Total(part) \in Nat
    BY <2>1, TotalOfPart
  <2>. QED BY <2>2 DEF part, whole
<1>4. Total(Lengths(w)) <= BlobQuota.stored
  BY <1>3, LengthsNat, BlobBounds DEF BlobsOK
<1>5. BlobsOK(w)
  BY <1>1, <1>2, <1>4 DEF BlobsOK
<1>. QED BY <1>1, <1>5 DEF w

\* Read leases.
LEMMA ReadsPart ==
  ASSUME NEW r, NEW n, NEW b, ReadsOK(r, n, b), NEW keep, keep \subseteq DOMAIN r
  PROVE  ReadsOK(Restrict(r, keep), n, b)
<1> DEFINE w == Restrict(r, keep)
<1>1. DOMAIN w = keep /\ \A x \in keep : w[x] = r[x]
  BY DEF Restrict
<1> HIDE DEF w
<1>2. IsFiniteSet(keep) /\ Cardinality(keep) <= Cardinality(DOMAIN r)
      /\ Cardinality(keep) \in Nat /\ Cardinality(DOMAIN r) \in Nat
  BY FS_Subset, FS_CardinalityType DEF ReadsOK
<1>3. ReadsOK(w, n, b)
  BY <1>1, <1>2, BlobBounds DEF ReadsOK
<1>. QED BY <1>3 DEF w

LEMMA ReadsPlus ==
  ASSUME NEW r, NEW n \in Nat \ {0}, NEW b, ReadsOK(r, n, b), NEW entry \in ReadRecords,
         entry.digest \in DOMAIN b, Cardinality(DOMAIN r) < BlobQuota.reads
  PROVE  ReadsOK(Placed(r, n, entry), n + 1, b)
<1> DEFINE more == Placed(r, n, entry)
<1>1. n \notin DOMAIN r
  BY DEF ReadsOK
<1>2. /\ DOMAIN more = DOMAIN r \cup {n} /\ more[n] = entry
      /\ \A i \in DOMAIN r : more[i] = r[i]
  BY <1>1 DEF Placed
<1> HIDE DEF more
<1>3. /\ IsFiniteSet(DOMAIN more) /\ Cardinality(DOMAIN more) = Cardinality(DOMAIN r) + 1
      /\ Cardinality(DOMAIN r) \in Nat
  BY <1>1, <1>2, FS_AddElement, FS_CardinalityType DEF ReadsOK
<1>4. \A i \in DOMAIN more : more[i] \in ReadRecords /\ more[i].digest \in DOMAIN b
  BY <1>2 DEF ReadsOK
<1>5. DOMAIN more \subseteq 1 .. (n + 1) - 1
  BY <1>2 DEF ReadsOK
<1>6. ReadsOK(more, n + 1, b)
  BY <1>3, <1>4, <1>5, BlobBounds DEF ReadsOK
<1>. QED BY <1>6 DEF more

LEMMA ReadsNext ==
  ASSUME NEW r, NEW n \in Nat \ {0}, NEW b, ReadsOK(r, n, b)
  PROVE  ReadsOK(r, n + 1, b)
<1>1. DOMAIN r \subseteq 1 .. (n + 1) - 1
  BY DEF ReadsOK
<1>. QED BY <1>1 DEF ReadsOK

LEMMA ReadsBlobs ==
  ASSUME NEW r, NEW n, NEW b, NEW c, ReadsOK(r, n, b),
         \A i \in DOMAIN r : r[i].digest \in DOMAIN c
  PROVE  ReadsOK(r, n, c)
BY DEF ReadsOK
-----------------------------------------------------------------------------
\* Every transition of the store keeps it in order.
LEMMA StoreFields ==
  ASSUME NEW s, StoreOK(s)
  PROVE  /\ DOMAIN s = {"blobs", "uploads", "reads", "next", "inflight"}
         /\ s.next \in Nat \ {0}
         /\ BlobsOK(s.blobs) /\ UploadsOK(s.uploads, s.next, s.inflight) /\ ReadsOK(s.reads, s.next, s.blobs)
         /\ StoredBytes(s) = Total(Lengths(s.blobs)) /\ StoredBytes(s) \in Nat
         /\ Announced(s, DOMAIN s.uploads) = Total(Sizes(s.uploads)) /\ s.inflight \in Nat
<1>1. BlobsOK(s.blobs) /\ UploadsOK(s.uploads, s.next, s.inflight)
  BY DEF StoreOK
<1>2. Total(Lengths(s.blobs)) \in Nat
  BY <1>1, LengthsNat
<1>3. Total(Sizes(s.uploads)) \in Nat
  <2> DEFINE w == Sizes(s.uploads)
  <2>1. IsFiniteSet(DOMAIN w) /\ \A i \in DOMAIN w : w[i] \in Nat
    BY <1>1, BlobBounds DEF UploadsOK, UploadRecords, Sizes
  <2> HIDE DEF w
  <2>2. Total(w) \in Nat
    BY <2>1, TotalNat
  <2>. QED BY <2>2 DEF w
<1>4. s.inflight \in Nat
  BY <1>1, <1>3 DEF UploadsOK
<1>. QED BY <1>2, <1>4 DEF StoreOK, StoredBytes, Announced, Lengths, Sizes

LEMMA WithoutUploadOK ==
  ASSUME NEW s, StoreOK(s), NEW id \in DOMAIN s.uploads
  PROVE  /\ StoreOK(WithoutUpload(s, id))
         /\ WithoutUpload(s, id).blobs = s.blobs /\ WithoutUpload(s, id).next = s.next
<1> DEFINE w == WithoutUpload(s, id)
<1>1. /\ DOMAIN w = DOMAIN s /\ w.blobs = s.blobs /\ w.reads = s.reads /\ w.next = s.next
      /\ w.uploads = WithoutBlob(s.uploads, id)
      /\ w.inflight = LessBytes(s.inflight, s.uploads[id].expected)
  BY StoreFields DEF WithoutUpload
<1> HIDE DEF w
<1>2. UploadsOK(w.uploads, w.next, w.inflight)
  BY <1>1, StoreFields, UploadsMinus
<1>3. StoreOK(w)
  BY <1>1, <1>2 DEF StoreOK
<1>. QED BY <1>1, <1>3 DEF w

LEMMA ExpiredUploadOK ==
  ASSUME NEW s, StoreOK(s), NEW id, NEW at
  PROVE  StoreOK(ExpiredUpload(s, id, at)) /\ ExpiredUpload(s, id, at).next = s.next
BY WithoutUploadOK DEF ExpiredUpload

LEMMA BegunOK ==
  ASSUME NEW s, StoreOK(s), NEW owner \in BlobOwners, NEW mediaType \in MediaTypes,
         NEW size \in 0 .. BlobQuota.blob, NEW at \in Times, CanBegin(s, size)
  PROVE  /\ StoreOK(Begun(s, owner, mediaType, size, at))
         /\ Begun(s, owner, mediaType, size, at).next = s.next + 1
<1> DEFINE w == Begun(s, owner, mediaType, size, at)
           entry == [owner |-> owner, mediaType |-> mediaType, expected |-> size,
                     expires |-> at + UploadTtl, bytes |-> << >>]
<1>1. /\ DOMAIN w = DOMAIN s /\ w.blobs = s.blobs /\ w.reads = s.reads /\ w.next = s.next + 1
      /\ w.uploads = Placed(s.uploads, s.next, entry) /\ w.inflight = s.inflight + size
  BY StoreFields DEF Begun
<1>2. entry \in UploadRecords /\ Len(entry.bytes) <= entry.expected /\ entry.expected = size
  <2>1. at + UploadTtl \in Nat
    BY BlobBounds DEF Times
  <2>2. << >> \in Seq(Bytes) /\ Len(<< >>) = 0 /\ size \in Nat /\ 0 <= size
    BY EmptySeq, BlobBounds
  <2>. QED BY <2>1, <2>2 DEF UploadRecords
<1> HIDE DEF w, entry
<1>3. Cardinality(DOMAIN s.uploads) < BlobQuota.uploads /\ s.inflight + size <= BlobQuota.inflight
  BY DEF CanBegin
<1>4. UploadsOK(w.uploads, w.next, w.inflight)
  <2> DEFINE u == s.uploads
             n == s.next
             f == s.inflight
  <2>1. n \in Nat \ {0} /\ UploadsOK(u, n, f) /\ Cardinality(DOMAIN u) < BlobQuota.uploads
        /\ f + entry.expected <= BlobQuota.inflight
    BY <1>2, <1>3, StoreFields
  <2> HIDE DEF u, n, f
  <2>2. UploadsOK(Placed(u, n, entry), n + 1, f + entry.expected)
    BY <1>2, <2>1, UploadsPlus
  <2>. QED BY <1>1, <1>2, <2>2 DEF u, n, f
<1>5. ReadsOK(w.reads, w.next, w.blobs)
  BY <1>1, StoreFields, ReadsNext
<1>6. StoreOK(w)
  BY <1>1, <1>4, <1>5, StoreFields DEF StoreOK
<1>. QED BY <1>1, <1>6 DEF w

LEMMA ExtendedOK ==
  ASSUME NEW s, StoreOK(s), NEW id, NEW owner, NEW chunk \in Seq(Bytes), NEW at
  PROVE  /\ StoreOK(Extended(s, id, owner, chunk, at))
         /\ Extended(s, id, owner, chunk, at).next = s.next
<1>1. CASE CanExtend(s, id, owner, chunk, at)
  <2> DEFINE w == [s EXCEPT !.uploads[id].bytes = @ \o chunk]
  <2>1. id \in DOMAIN s.uploads /\ Len(s.uploads[id].bytes) + Len(chunk) <= s.uploads[id].expected
    BY <1>1 DEF CanExtend, LiveUpload
  <2>2. /\ DOMAIN w = DOMAIN s /\ w.blobs = s.blobs /\ w.reads = s.reads /\ w.next = s.next
        /\ w.uploads = [s.uploads EXCEPT ![id].bytes = @ \o chunk] /\ w.inflight = s.inflight
    BY StoreFields
  <2>3. Extended(s, id, owner, chunk, at) = w
    BY <1>1 DEF Extended
  <2> HIDE DEF w
  <2>4. UploadsOK(w.uploads, w.next, w.inflight)
    <3>1. UploadsOK(s.uploads, s.next, s.inflight)
      BY StoreFields
    <3>2. UploadsOK([s.uploads EXCEPT ![id].bytes = @ \o chunk], s.next, s.inflight)
      BY <2>1, <3>1, UploadsExtended
    <3>. QED BY <2>2, <3>2
  <2>5. StoreOK(w)
    BY <2>2, <2>4 DEF StoreOK
  <2>. QED BY <2>2, <2>3, <2>5
<1>2. CASE ~ CanExtend(s, id, owner, chunk, at)
  BY <1>2, ExpiredUploadOK DEF Extended
<1>. QED BY <1>1, <1>2

LEMMA CommittedBlobOK ==
  ASSUME NEW s, StoreOK(s), NEW id, NEW owner, NEW at \in Times
  PROVE  /\ StoreOK(CommittedBlob(s, id, owner, at))
         /\ CommittedBlob(s, id, owner, at).next = s.next
<1>1. CASE CanCommitBlob(s, id, owner, at)
  <2> DEFINE u == s.uploads[id]
             base == WithoutUpload(s, id)
             entry == [mediaType |-> u.mediaType, lastAccess |-> at]
             w == [base EXCEPT !.blobs = Placed(@, u.bytes, entry)]
  <2>1. /\ id \in DOMAIN s.uploads /\ Len(u.bytes) = u.expected
        /\ u.bytes \in DOMAIN s.blobs \/ StoredBytes(s) + u.expected <= BlobQuota.stored
    BY <1>1 DEF CanCommitBlob, LiveUpload
  <2>2. u \in UploadRecords
    BY <2>1, StoreFields DEF UploadsOK
  <2>3. u.bytes \in Bytestrings /\ entry \in StoredRecords
    <3>1. u.bytes \in Seq(Bytes) /\ u.expected \in 0 .. BlobQuota.blob /\ u.mediaType \in MediaTypes
      BY <2>2 DEF UploadRecords
    <3>2. Len(u.bytes) <= BlobQuota.blob
      BY <2>1, <3>1, BlobBounds
    <3>. QED BY <3>1, <3>2, BytestringsAre DEF StoredRecords
  <2>4. StoreOK(base) /\ base.blobs = s.blobs /\ base.next = s.next
    BY <2>1, WithoutUploadOK
  <2>5. CommittedBlob(s, id, owner, at) = w
    BY <1>1 DEF CommittedBlob
  <2>6. u.bytes \in DOMAIN s.blobs \/ Total(Lengths(s.blobs)) + Len(u.bytes) <= BlobQuota.stored
    BY <2>1, StoreFields
  <2> HIDE DEF u, base, entry
  <2>7. /\ DOMAIN w = DOMAIN base /\ w.uploads = base.uploads /\ w.reads = base.reads
        /\ w.next = base.next /\ w.inflight = base.inflight
        /\ w.blobs = Placed(base.blobs, u.bytes, entry)
    BY <2>4, StoreFields
  <2> HIDE DEF w
  <2>8. BlobsOK(w.blobs) /\ DOMAIN s.blobs \subseteq DOMAIN w.blobs
    BY <2>3, <2>4, <2>6, <2>7, StoreFields, BlobsPlus
  <2>9. ReadsOK(w.reads, w.next, w.blobs)
    <3>1. ReadsOK(base.reads, base.next, s.blobs)
      BY <2>4, StoreFields
    <3>. QED BY <2>7, <2>8, <3>1 DEF ReadsOK
  <2>10. UploadsOK(w.uploads, w.next, w.inflight)
    BY <2>4, <2>7, StoreFields
  <2>11. StoreOK(w)
    BY <2>4, <2>7, <2>8, <2>9, <2>10, StoreFields DEF StoreOK
  <2>. QED BY <2>4, <2>5, <2>7, <2>11
<1>2. CASE ~ CanCommitBlob(s, id, owner, at)
  BY <1>2, ExpiredUploadOK DEF CommittedBlob
<1>. QED BY <1>1, <1>2

LEMMA AbortedOK ==
  ASSUME NEW s, StoreOK(s), NEW id, NEW owner, NEW at
  PROVE  StoreOK(Aborted(s, id, owner, at))
BY WithoutUploadOK, ExpiredUploadOK DEF Aborted, LiveUpload

LEMMA WithoutReadOK ==
  ASSUME NEW s, StoreOK(s), NEW id
  PROVE  StoreOK([s EXCEPT !.reads = WithoutBlob(@, id)])
<1> DEFINE w == [s EXCEPT !.reads = WithoutBlob(@, id)]
<1>1. /\ DOMAIN w = DOMAIN s /\ w.blobs = s.blobs /\ w.uploads = s.uploads /\ w.next = s.next
      /\ w.inflight = s.inflight /\ w.reads = Restrict(s.reads, DOMAIN s.reads \ {id})
  BY StoreFields DEF WithoutBlob
<1> HIDE DEF w
<1>2. ReadsOK(w.reads, w.next, w.blobs)
  BY <1>1, StoreFields, ReadsPart
<1>3. StoreOK(w)
  BY <1>1, <1>2, StoreFields DEF StoreOK
<1>. QED BY <1>3 DEF w

LEMMA OpenedOK ==
  ASSUME NEW s, StoreOK(s), NEW digest, NEW scope, NEW mediaType, NEW caller \in BlobOwners,
         NEW workspace, NEW ttl, NEW at \in Times,
         CanOpen(s, digest, scope, mediaType, caller, workspace, ttl)
  PROVE  /\ StoreOK(Opened(s, digest, caller, ttl, at))
         /\ s.next \in DOMAIN Opened(s, digest, caller, ttl, at).reads
<1> DEFINE w == Opened(s, digest, caller, ttl, at)
           entry == [digest |-> digest, owner |-> caller, expires |-> at + ttl]
           blobs == [s.blobs EXCEPT ![digest].lastAccess = at]
<1>1. ttl \in 1 .. BlobQuota.readTtl /\ Cardinality(DOMAIN s.reads) < BlobQuota.reads
      /\ digest \in DOMAIN s.blobs
  BY DEF CanOpen
<1>2. /\ DOMAIN w = DOMAIN s /\ w.blobs = blobs /\ w.uploads = s.uploads /\ w.next = s.next + 1
      /\ w.inflight = s.inflight /\ w.reads = Placed(s.reads, s.next, entry)
  BY StoreFields DEF Opened
<1>3. entry \in ReadRecords /\ entry.digest = digest
  <2>1. at + ttl \in 0 .. MaxBlobClock + BlobQuota.readTtl
    BY <1>1, BlobBounds DEF Times
  <2>2. digest \in Bytestrings
    BY <1>1, StoreFields DEF BlobsOK
  <2>. QED BY <2>1, <2>2 DEF ReadRecords
<1>4. BlobsOK(blobs) /\ DOMAIN blobs = DOMAIN s.blobs
  BY <1>1, StoreFields, BlobsTouched
<1> HIDE DEF w, entry, blobs
<1>5. ReadsOK(w.reads, w.next, w.blobs)
  <2>1. ReadsOK(s.reads, s.next, blobs)
    BY <1>4, StoreFields DEF ReadsOK
  <2>. QED BY <1>1, <1>2, <1>3, <1>4, <2>1, StoreFields, ReadsPlus
<1>6. UploadsOK(w.uploads, w.next, w.inflight)
  BY <1>2, StoreFields, UploadsNext
<1>7. StoreOK(w)
  BY <1>2, <1>4, <1>5, <1>6, StoreFields DEF StoreOK
<1>8. s.next \in DOMAIN w.reads
  BY <1>2 DEF Placed
<1>. QED BY <1>7, <1>8 DEF w

LEMMA TouchedOK ==
  ASSUME NEW s, StoreOK(s), NEW id \in DOMAIN s.reads, NEW caller, NEW at \in Times
  PROVE  StoreOK(Touched(s, id, caller, at))
<1>1. CASE s.reads[id].expires <= at
  BY <1>1, WithoutReadOK DEF Touched
<1>2. CASE ~ (s.reads[id].expires <= at)
           /\ (s.reads[id].owner # caller \/ s.reads[id].digest \notin DOMAIN s.blobs)
  BY <1>2 DEF Touched
<1>3. CASE ~ (s.reads[id].expires <= at)
           /\ ~ (s.reads[id].owner # caller \/ s.reads[id].digest \notin DOMAIN s.blobs)
  <2> DEFINE w == [s EXCEPT !.blobs[s.reads[id].digest].lastAccess = at]
  <2>1. Touched(s, id, caller, at) = w
    BY <1>3 DEF Touched
  <2>2. /\ DOMAIN w = DOMAIN s /\ w.uploads = s.uploads /\ w.reads = s.reads /\ w.next = s.next
        /\ w.inflight = s.inflight
        /\ w.blobs = [s.blobs EXCEPT ![s.reads[id].digest].lastAccess = at]
    BY StoreFields
  <2> HIDE DEF w
  <2>3. BlobsOK(w.blobs) /\ DOMAIN w.blobs = DOMAIN s.blobs
    BY <1>3, <2>2, StoreFields, BlobsTouched
  <2>4. ReadsOK(w.reads, w.next, w.blobs)
    BY <2>2, <2>3, StoreFields DEF ReadsOK
  <2>. QED BY <2>1, <2>2, <2>3, <2>4, StoreFields DEF StoreOK
<1>. QED BY <1>1, <1>2, <1>3

LEMMA ReleasedOK ==
  ASSUME NEW s, StoreOK(s), NEW digest
  PROVE  StoreOK(Released(s, digest))
<1>1. CASE digest \in Pinned(s)
  BY <1>1 DEF Released
<1>2. CASE digest \notin Pinned(s)
  <2> DEFINE w == [s EXCEPT !.blobs = WithoutBlob(@, digest)]
  <2>1. Released(s, digest) = w
    BY <1>2 DEF Released
  <2>2. /\ DOMAIN w = DOMAIN s /\ w.uploads = s.uploads /\ w.reads = s.reads /\ w.next = s.next
        /\ w.inflight = s.inflight /\ w.blobs = Restrict(s.blobs, DOMAIN s.blobs \ {digest})
    BY StoreFields DEF WithoutBlob
  <2> HIDE DEF w
  <2>3. BlobsOK(w.blobs) /\ DOMAIN w.blobs = DOMAIN s.blobs \ {digest}
    BY <2>2, StoreFields, BlobsPart
  <2>4. ReadsOK(w.reads, w.next, w.blobs)
    BY <1>2, <2>2, <2>3, StoreFields DEF ReadsOK, Pinned
  <2>. QED BY <2>1, <2>2, <2>3, <2>4, StoreFields DEF StoreOK
<1>. QED BY <1>1, <1>2

LEMMA SweptOK ==
  ASSUME NEW s, StoreOK(s), NEW at, NEW idleAfter
  PROVE  StoreOK(Swept(s, at, idleAfter))
<1> DEFINE uploads == {i \in DOMAIN s.uploads : at < s.uploads[i].expires}
           reads   == {i \in DOMAIN s.reads : at < s.reads[i].expires}
           pinned  == {s.reads[i].digest : i \in reads}
           stale   == {d \in DOMAIN s.blobs \ pinned : at - s.blobs[d].lastAccess >= idleAfter}
           kept    == DOMAIN s.blobs \ stale
           w == Swept(s, at, idleAfter)
<1>1. /\ DOMAIN w = DOMAIN s /\ w.next = s.next
      /\ w.uploads = Restrict(s.uploads, uploads)
      /\ w.reads = Restrict(s.reads, reads)
      /\ w.inflight = LessBytes(s.inflight, Announced(s, DOMAIN s.uploads \ uploads))
      /\ w.blobs = Restrict(s.blobs, kept)
  BY StoreFields DEF Swept
<1>2. uploads \subseteq DOMAIN s.uploads /\ reads \subseteq DOMAIN s.reads /\ kept \subseteq DOMAIN s.blobs
  OBVIOUS
<1>3. \A i \in reads : s.reads[i].digest \in kept
  BY StoreFields DEF ReadsOK
<1> HIDE DEF uploads, reads, pinned, stale, kept, w
<1>4. UploadsOK(w.uploads, w.next, w.inflight)
  <2>1. UploadsOK(s.uploads, s.next, s.inflight)
    BY StoreFields
  <2> DEFINE gone == [i \in DOMAIN s.uploads \ uploads |-> s.uploads[i].expected]
  <2>2. UploadsOK(Restrict(s.uploads, uploads), s.next, LessBytes(s.inflight, Total(gone)))
    BY <1>2, <2>1, UploadsPart
  <2>3. Announced(s, DOMAIN s.uploads \ uploads) = Total(gone)
    BY DEF Announced
  <2>. QED BY <1>1, <2>2, <2>3
<1>5. BlobsOK(w.blobs) /\ DOMAIN w.blobs = kept
  BY <1>1, <1>2, StoreFields, BlobsPart
<1>6. ReadsOK(w.reads, w.next, w.blobs)
  <2>1. ReadsOK(w.reads, w.next, s.blobs)
    BY <1>1, <1>2, StoreFields, ReadsPart
  <2>2. DOMAIN w.reads = reads /\ \A i \in reads : w.reads[i] = s.reads[i]
    BY <1>1 DEF Restrict
  <2>. QED BY <1>3, <1>5, <2>1, <2>2 DEF ReadsOK
<1>7. StoreOK(w)
  BY <1>1, <1>4, <1>5, <1>6, StoreFields DEF StoreOK
<1>. QED BY <1>7 DEF w
-----------------------------------------------------------------------------
\* The inductive invariant: the store in order, the clock and the picked file typed.
PickOK(p) ==
    /\ p.lease \in 0 .. MaxLeases /\ p.at \in Times /\ p.left \in Seq(Bytes) /\ p.failed \in BOOLEAN
    /\ DOMAIN p = {"lease", "at", "left", "failed"}
BlobInv == StoreOK(store) /\ blobClock \in Times /\ PickOK(picker)

LEMMA BlobInvInit == BlobInit => BlobInv
<1> SUFFICES ASSUME BlobInit PROVE BlobInv
  OBVIOUS
<1>1. /\ DOMAIN store = {"blobs", "uploads", "reads", "next", "inflight"}
      /\ store.blobs = NoBlobs /\ store.uploads = NoBlobs /\ store.reads = NoBlobs
      /\ store.next = 1 /\ store.inflight = 0
  BY DEF BlobInit
<1>2. DOMAIN NoBlobs = {}
  BY DEF NoBlobs
<1>3. IsFiniteSet(DOMAIN NoBlobs) /\ Cardinality(DOMAIN NoBlobs) = 0
  BY <1>2, FS_EmptySet
<1>4. DOMAIN Sizes(NoBlobs) = {} /\ DOMAIN Lengths(NoBlobs) = {}
  BY <1>2 DEF Sizes, Lengths
<1>5. Total(Sizes(NoBlobs)) = 0 /\ Total(Lengths(NoBlobs)) = 0
  BY <1>4, TotalNone
<1>6. BlobsOK(NoBlobs)
  BY <1>2, <1>3, <1>5, BlobBounds DEF BlobsOK
<1>7. UploadsOK(NoBlobs, 1, 0)
  BY <1>2, <1>3, <1>5, BlobBounds DEF UploadsOK
<1>8. ReadsOK(NoBlobs, 1, NoBlobs)
  BY <1>2, <1>3, BlobBounds DEF ReadsOK
<1>9. StoreOK(store)
  BY <1>1, <1>6, <1>7, <1>8 DEF StoreOK
<1>10. blobClock \in Times /\ 0 \in Times /\ 0 \in 0 .. MaxLeases
  BY BlobBounds DEF BlobInit, Times
<1>11. PickOK(picker)
  BY <1>10, EmptySeq DEF BlobInit, NoPick, PickOK
<1>. QED BY <1>9, <1>10, <1>11 DEF BlobInv

LEMMA ReadingsAreTimes == Readings \subseteq Times
BY DEF Readings

LEMMA StoreOnlyStep ==
  ASSUME BlobInv, NEW s, StoreOK(s), StoreOnly(s)
  PROVE  BlobInv'
BY DEF BlobInv, StoreOnly

LEMMA StoreAtOnceStep ==
  ASSUME BlobInv, NEW owner \in BlobOwners, NEW mediaType \in MediaTypes,
         NEW declared \in 0 .. BlobQuota.blob, NEW content \in Bytestrings,
         StoreAtOnce(owner, mediaType, declared, content)
  PROVE  BlobInv'
<1>1. PICK at \in Times :
         /\ CanBegin(store, declared)
         /\ LET id == store.next
                held == Begun(store, owner, mediaType, declared, at)
            IN  IF CanExtend(held, id, owner, content, at)
                THEN StoreOnly(CommittedBlob(Extended(held, id, owner, content, at), id, owner, at))
                ELSE StoreOnly(held)
  BY ReadingsAreTimes DEF StoreAtOnce
<1> DEFINE id == store.next
           held == Begun(store, owner, mediaType, declared, at)
<1>2. StoreOK(held)
  BY <1>1, BegunOK DEF BlobInv
<1>3. content \in Seq(Bytes)
  BY BytestringsAre
<1> HIDE DEF id, held
<1>4. StoreOK(Extended(held, id, owner, content, at))
  BY <1>2, <1>3, ExtendedOK
<1>5. StoreOK(CommittedBlob(Extended(held, id, owner, content, at), id, owner, at))
  BY <1>4, CommittedBlobOK
<1>6. StoreOnly(CommittedBlob(Extended(held, id, owner, content, at), id, owner, at)) \/ StoreOnly(held)
  BY <1>1 DEF id, held
<1>. QED BY <1>2, <1>5, <1>6, StoreOnlyStep

LEMMA UploadStep ==
  ASSUME BlobInv,
         \/ \E m \in MediaTypes, n \in 0 .. BlobQuota.blob : UploadBegin(m, n)
         \/ \E id \in DOMAIN store.uploads :
               UploadCommit(id) \/ \E c \in Bytestrings : UploadChunk(id, c)
  PROVE  BlobInv'
<1>0. StoreOK(store)
  BY DEF BlobInv
<1>1. ASSUME NEW m \in MediaTypes, NEW n \in 0 .. BlobQuota.blob, UploadBegin(m, n) PROVE BlobInv'
  <2>1. PICK at \in Times : CanBegin(store, n) /\ StoreOnly(Begun(store, NativeCaller, m, n, at))
    BY <1>1, ReadingsAreTimes DEF UploadBegin
  <2>2. NativeCaller \in BlobOwners
    BY BlobBounds
  <2>. QED BY <1>0, <2>1, <2>2, BegunOK, StoreOnlyStep
<1>2. ASSUME NEW id \in DOMAIN store.uploads, UploadCommit(id) PROVE BlobInv'
  <2>1. PICK at \in Times : StoreOnly(CommittedBlob(store, id, NativeCaller, at))
    BY <1>2, ReadingsAreTimes DEF UploadCommit
  <2>. QED BY <1>0, <2>1, CommittedBlobOK, StoreOnlyStep
<1>3. ASSUME NEW id \in DOMAIN store.uploads, NEW c \in Bytestrings, UploadChunk(id, c) PROVE BlobInv'
  <2>1. PICK at \in Times : StoreOnly(Extended(store, id, NativeCaller, c, at))
    BY <1>3, ReadingsAreTimes DEF UploadChunk
  <2>2. c \in Seq(Bytes)
    BY BytestringsAre
  <2>. QED BY <1>0, <2>1, <2>2, ExtendedOK, StoreOnlyStep
<1>. QED BY <1>1, <1>2, <1>3

\* The picked file: the guards of the first step put its lease within the bound.
LEMMA PickStep ==
  ASSUME BlobInv,
         \/ PickChunk \/ PickCommit \/ PickAbort
         \/ \E m \in MediaTypes, n \in 0 .. BlobQuota.blob, c \in Bytestrings : PickBegin(m, n, c)
  PROVE  BlobInv'
<1>0. StoreOK(store) /\ blobClock \in Times /\ PickOK(picker) /\ picker.at \in Times
  BY DEF BlobInv, PickOK
<1>n. PickOK(NoPick)
  BY BlobBounds, EmptySeq DEF PickOK, NoPick, Times
<1>1. ASSUME NEW m \in MediaTypes, NEW n \in 0 .. BlobQuota.blob, NEW c \in Bytestrings, PickBegin(m, n, c)
      PROVE  BlobInv'
  <2>1. NativeCaller \in BlobOwners /\ MaxLeases \in Nat /\ store.next \in Nat /\ c \in Seq(Bytes)
    BY <1>0, BlobBounds, StoreFields, BytestringsAre
  <2>2. StoreOK(store')
    BY <1>0, <1>1, <2>1, BegunOK DEF PickBegin
  <2>3. store.next \in 0 .. MaxLeases
    BY <1>1, <2>1 DEF PickBegin
  <2>4. PickOK(picker')
    BY <1>0, <1>1, <2>1, <2>3 DEF PickBegin, PickOK
  <2>. QED BY <1>0, <1>1, <2>2, <2>4 DEF BlobInv, PickBegin
<1>2. ASSUME PickChunk PROVE BlobInv'
  <2>1. picker.left \in Seq(Bytes) /\ picker.left # << >>
    BY <1>0, <1>2 DEF PickOK, PickChunk
  <2>2. Head(picker.left) \in Bytes /\ Tail(picker.left) \in Seq(Bytes)
    BY <2>1, HeadTailProperties
  <2>3. <<Head(picker.left)>> \in Seq(Bytes)
    BY <2>2
  <2>4. StoreOK(store')
    BY <1>0, <1>2, <2>3, ExtendedOK DEF PickChunk
  <2>5. PickOK(picker')
    <3> DEFINE chunk == <<Head(picker.left)>>
               f == ~ CanExtend(store, picker.lease, NativeCaller, chunk, picker.at)
    <3>1. picker' = [picker EXCEPT !.left = Tail(@), !.failed = f]
      BY <1>2 DEF PickChunk
    <3>2. f \in BOOLEAN
      OBVIOUS
    <3> HIDE DEF f
    <3>3. /\ DOMAIN picker' = {"lease", "at", "left", "failed"}
          /\ picker'.lease = picker.lease /\ picker'.at = picker.at
          /\ picker'.left = Tail(picker.left) /\ picker'.failed = f
      BY <1>0, <3>1 DEF PickOK
    <3>. QED BY <1>0, <2>2, <3>2, <3>3 DEF PickOK
  <2>. QED BY <1>0, <1>2, <2>4, <2>5 DEF BlobInv, PickChunk
<1>3. ASSUME PickCommit PROVE BlobInv'
  <2>1. StoreOK(store')
    BY <1>0, <1>3, CommittedBlobOK DEF PickCommit
  <2>2. PickOK(picker')
    <3>1. picker' = NoPick \/ picker' = [picker EXCEPT !.failed = TRUE]
      BY <1>3 DEF PickCommit
    <3>. QED BY <1>0, <1>n, <3>1 DEF PickOK
  <2>. QED BY <1>0, <1>3, <2>1, <2>2 DEF BlobInv, PickCommit
<1>4. ASSUME PickAbort PROVE BlobInv'
  <2>1. StoreOK(store')
    BY <1>0, <1>4, AbortedOK DEF PickAbort
  <2>. QED BY <1>0, <1>4, <1>n, <2>1 DEF BlobInv, PickAbort
<1>. QED BY <1>1, <1>2, <1>3, <1>4

LEMMA ReadStep ==
  ASSUME BlobInv,
         \/ \E d \in DOMAIN store.blobs, s \in BlobScopes, m \in MediaTypes, o \in BlobOwners,
               w \in BlobWorkspaces :
               \/ BlobRead(d, s, m, o, w)
               \/ \E ttl \in 1 .. BlobQuota.readTtl : OpenRead(d, s, m, o, w, ttl)
         \/ \E id \in DOMAIN store.reads, o \in BlobOwners : ReadChunk(id, o) \/ CloseRead(id, o)
  PROVE  BlobInv'
<1>0. StoreOK(store)
  BY DEF BlobInv
<1>1. ASSUME NEW d, NEW s, NEW m, NEW o \in BlobOwners, NEW w, BlobRead(d, s, m, o, w)
      PROVE  BlobInv'
  <2>1. PICK at \in Times :
           /\ CanOpen(store, d, s, m, o, w, ReadTtl)
           /\ LET id == store.next IN
                 StoreOnly([Touched(Opened(store, d, o, ReadTtl, at), id, o, at)
                              EXCEPT !.reads = WithoutBlob(@, id)])
    BY <1>1, ReadingsAreTimes DEF BlobRead
  <2> DEFINE opened == Opened(store, d, o, ReadTtl, at)
             id == store.next
  <2>2. StoreOK(opened) /\ id \in DOMAIN opened.reads
    BY <1>0, <2>1, OpenedOK
  <2>3. StoreOnly([Touched(opened, id, o, at) EXCEPT !.reads = WithoutBlob(@, id)])
    BY <2>1
  <2> HIDE DEF opened, id
  <2>4. StoreOK(Touched(opened, id, o, at))
    BY <2>2, TouchedOK
  <2>5. StoreOK([Touched(opened, id, o, at) EXCEPT !.reads = WithoutBlob(@, id)])
    BY <2>4, WithoutReadOK
  <2>. QED BY <2>3, <2>5, StoreOnlyStep
<1>2. ASSUME NEW d, NEW s, NEW m, NEW o \in BlobOwners, NEW w, NEW ttl, OpenRead(d, s, m, o, w, ttl)
      PROVE  BlobInv'
  <2>1. PICK at \in Times : CanOpen(store, d, s, m, o, w, ttl) /\ StoreOnly(Opened(store, d, o, ttl, at))
    BY <1>2, ReadingsAreTimes DEF OpenRead
  <2>. QED BY <1>0, <2>1, OpenedOK, StoreOnlyStep
<1>3. ASSUME NEW id \in DOMAIN store.reads, NEW o \in BlobOwners, ReadChunk(id, o) PROVE BlobInv'
  <2>1. PICK at \in Times : StoreOnly(Touched(store, id, o, at))
    BY <1>3, ReadingsAreTimes DEF ReadChunk
  <2>. QED BY <1>0, <2>1, TouchedOK, StoreOnlyStep
<1>4. ASSUME NEW id \in DOMAIN store.reads, NEW o \in BlobOwners, CloseRead(id, o) PROVE BlobInv'
  BY <1>0, <1>4, WithoutReadOK, StoreOnlyStep DEF CloseRead
<1>. QED BY <1>1, <1>2, <1>3, <1>4

LEMMA CleanUpStep ==
  ASSUME BlobInv, Sweep \/ BlobTick \/ \E d \in DOMAIN store.blobs : Release(d)
  PROVE  BlobInv'
<1>0. StoreOK(store)
  BY DEF BlobInv
<1>1. ASSUME Sweep PROVE BlobInv'
  <2>1. PICK at : StoreOnly(Swept(store, at, IdleAfter))
    BY <1>1 DEF Sweep
  <2>. QED BY <1>0, <2>1, SweptOK, StoreOnlyStep
<1>2. ASSUME BlobTick PROVE BlobInv'
  <2>1. blobClock' \in Times
    BY <1>2, BlobBounds DEF BlobTick, BlobInv, Times
  <2>. QED BY <1>2, <2>1 DEF BlobTick, BlobInv
<1>3. ASSUME NEW d, Release(d) PROVE BlobInv'
  BY <1>0, <1>3, ReleasedOK, StoreOnlyStep DEF Release
<1>. QED BY <1>1, <1>2, <1>3

LEMMA BlobInvStep == BlobInv /\ [BlobNext]_blobVars => BlobInv'
<1> SUFFICES ASSUME BlobInv, [BlobNext]_blobVars PROVE BlobInv'
  OBVIOUS
<1>1. CASE UNCHANGED blobVars
  BY <1>1 DEF blobVars, BlobInv
<1>2. CASE BlobNext
  BY <1>2, StoreAtOnceStep, UploadStep, PickStep, ReadStep, CleanUpStep DEF BlobNext
<1>. QED BY <1>1, <1>2

LEMMA BlobInvAccounts == BlobInv => BlobAccountsExact
<1> SUFFICES ASSUME BlobInv PROVE BlobAccountsExact
  OBVIOUS
<1>0. StoreOK(store) /\ picker.lease \in 0 .. MaxLeases
  BY DEF BlobInv, PickOK
<1>1. BlobTypeOK
  BY <1>0, StoreFields DEF BlobTypeOK, BlobsOK, UploadsOK, ReadsOK, StoredRecords, ReadRecords
<1>2. InflightExact
  BY <1>0, StoreFields DEF InflightExact, UploadsOK
<1>3. BlobQuotaKept
  BY <1>0, StoreFields DEF BlobQuotaKept, BlobsOK, UploadsOK, ReadsOK
<1>4. PinnedBlobsStay
  BY <1>0, StoreFields DEF PinnedBlobsStay, ReadsOK
<1>. QED BY <1>1, <1>2, <1>3, <1>4 DEF BlobAccountsExact

\* kernel/blob.rs: through every order of begin, chunk, commit, abort, expiry, release,
\* sweep and picked file, the store stays in order (StoreOK: finite, typed, an upload
\* never above what it announced, every read lease pinning a blob that is stored).
THEOREM BlobStoreStaysInOrder == BlobSpec => []BlobInv
<1>. QED BY BlobInvInit, BlobInvStep, PTL DEF BlobSpec

\* kernel/blob.rs: for every quota, the bytes in flight are exactly the sum of what the
\* open uploads announced, the stored bytes and the leases stay within their quotas, and
\* whoever holds a read lease finds the blob.
THEOREM BlobAccountsStayExact == BlobSpec => []BlobAccountsExact
<1>. QED BY BlobStoreStaysInOrder, BlobInvAccounts, PTL
=============================================================================
