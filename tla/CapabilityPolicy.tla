-------------------------- MODULE CapabilityPolicy --------------------------
(***************************************************************************)
(* The kernel's capability policy (kernel/policy.rs): a request becomes an *)
(* attenuated grant, a grant becomes a lease in the ledger, and a call is  *)
(* authorized by a lease of the ledger or by a native bootstrap grant.     *)
(*                                                                         *)
(* Requests and grants are immutable values their holder keeps, so only    *)
(* the ledger is state.  Callers read the clock before they take the       *)
(* policy lock, so an operation may be given any epoch up to the present.  *)
(***************************************************************************)
EXTENDS Capabilities, Sequences

CONSTANTS Operations,
          RequiredCapability,     \* operation_requirement: operation -> capability
          BootstrapCapabilities,  \* capabilities of the native bootstrap grants
          Kernel, NativeUI,       \* the two trusted principals
          LeaseIds,
          MaxTime                 \* bound: last clock reading

Time == 0 .. MaxTime

ASSUME PolicyAssumption ==
    /\ RequiredCapability \in [Operations -> CapabilityNames]
    /\ BootstrapCapabilities \subseteq CapabilityNames
    /\ {Kernel, NativeUI} \subseteq Principals
    /\ Kernel # NativeUI
    /\ MaxTime \in Nat

VARIABLES leases,   \* lease id -> lease (partial); leases are never removed
          grantOf,  \* history: lease id -> the grant it was issued from
          clock

policyVars == <<leases, grantOf, clock>>

\* asked is history: the scope the request named.
Grants == [principal : Principals, capability : CapabilityNames, asked : Scopes,
           scope : Scopes, issuedAt : Time, maxExpires : Option(Time)]

PolicyTypeOK ==
    /\ DOMAIN leases \subseteq LeaseIds
    /\ leases \in [DOMAIN leases -> LeaseRecords(Time)]
    /\ grantOf \in [DOMAIN leases -> Grants]
    /\ clock \in Time

PolicyInit ==
    /\ leases = [id \in {} |-> id]
    /\ grantOf = [id \in {} |-> id]
    /\ clock = 0
-----------------------------------------------------------------------------
\* operation_requirement asks for the global scope of every operation.
OperationScope == Global

\* Mutant: the approved scope is not compared with the one asked for.
AttenuatedAny(granted, requested) == TRUE

\* The approved scope may only narrow the requested one.
Attenuated(granted, requested) == ScopeCovers(requested, granted)

\* CapabilityPolicy::grant.  The kernel attenuates a request (request checked
\* the capability and the scope against the operation) in scope and expiry; a
\* caller other than the native UI gets no grant without an end.
Grantable(issuer, op, requested, g) ==
    /\ issuer = Kernel
    /\ g.capability = RequiredCapability[op]
    /\ ScopeCovers(OperationScope, g.asked)
    /\ Attenuated(g.scope, g.asked)
    /\ \A asked \in requested :
          asked > g.issuedAt /\ \E most \in g.maxExpires : most <= asked
    /\ \A most \in g.maxExpires : most > g.issuedAt
    /\ g.principal # NativeUI => g.maxExpires # None

GrantActiveAt(g, epoch) ==
    epoch >= g.issuedAt /\ \A most \in g.maxExpires : epoch < most

\* Mutant: a lease without an end may be issued to anyone.
LeaseWithinAny(g, expires) ==
    \A most \in g.maxExpires, t \in expires : t <= most

\* A lease ends no later than its grant, and one of a plugin does end.
LeaseWithin(g, expires) ==
    /\ \A most \in g.maxExpires : \E t \in expires : t <= most
    /\ g.principal # NativeUI => expires # None

\* Mutant: a lease starts one tick after it was issued.
NewLeaseLate(g, at, expires) ==
    [principal |-> g.principal, capability |-> g.capability, scope |-> g.scope,
     issuedAt |-> at + 1, expiresAt |-> expires, revokedAt |-> None]

NewLease(g, at, expires) ==
    [principal |-> g.principal, capability |-> g.capability, scope |-> g.scope,
     issuedAt |-> at, expiresAt |-> expires, revokedAt |-> None]

\* CapabilityPolicy::issue_lease; CapabilityLease::issue adds the last check.
IssueLease(issuer, g, id, at, expires) ==
    /\ issuer = Kernel
    /\ g.principal # Kernel
    /\ id \notin DOMAIN leases
    /\ GrantActiveAt(g, at)
    /\ LeaseWithin(g, expires)
    /\ \A t \in expires : t > at
    /\ leases' = [x \in DOMAIN leases \cup {id} |->
                    IF x = id THEN NewLease(g, at, expires) ELSE leases[x]]
    /\ grantOf' = [x \in DOMAIN leases \cup {id} |->
                     IF x = id THEN g ELSE grantOf[x]]
    /\ UNCHANGED clock

\* Mutant: a revoked lease can be renewed.
RenewableRevoked(lease, epoch) ==
    /\ epoch >= lease.issuedAt
    /\ \A expiry \in lease.expiresAt : epoch < expiry

\* CapabilityLease::renew.
Renewable(lease, epoch) == IsActiveAt(lease, epoch)

\* CapabilityPolicy::renew_lease.
RenewLease(issuer, id, expires, epoch) ==
    /\ issuer = Kernel
    /\ id \in DOMAIN leases
    /\ leases[id].principal # NativeUI => expires # None
    /\ Renewable(leases[id], epoch)
    /\ \A t \in expires : t > epoch
    /\ leases' = [leases EXCEPT ![id].expiresAt = expires]
    /\ UNCHANGED <<grantOf, clock>>

\* CapabilityPolicy::revoke_lease.
RevokeLease(issuer, id, epoch) ==
    /\ issuer = Kernel
    /\ id \in DOMAIN leases
    /\ leases[id].revokedAt = None
    /\ leases' = [leases EXCEPT ![id].revokedAt = Some(epoch)]
    /\ UNCHANGED <<grantOf, clock>>

Tick == /\ clock < MaxTime
        /\ clock' = clock + 1
        /\ UNCHANGED <<leases, grantOf>>

\* A selected lease passes the checks that end authorize with an error.
Usable(id, p, epoch) ==
    /\ id \in DOMAIN leases
    /\ leases[id].principal = p
    /\ IsActiveAt(leases[id], epoch)

LeaseCovers(id, op) ==
    /\ leases[id].capability = RequiredCapability[op]
    /\ ScopeCovers(leases[id].scope, OperationScope)

\* The lease of the selection that authorize answers with: it walks the
\* selection until a lease covers the operation, and fails on the first lease
\* before it that is unknown, of another principal or inactive.
AuthorizedByLease(op, p, selected, epoch, id) ==
    \E i \in 1 .. Len(selected) :
       /\ selected[i] = id
       /\ \A j \in 1 .. i : Usable(selected[j], p, epoch)
       /\ LeaseCovers(id, op)
       /\ \A j \in 1 .. i - 1 : ~ LeaseCovers(selected[j], op)

\* Without a selection only the native UI is authorized, by its bootstrap
\* grants, which are global and have no end.
AuthorizedByBootstrap(op, p, selected) ==
    /\ selected = << >>
    /\ p = NativeUI
    /\ RequiredCapability[op] \in BootstrapCapabilities

\* The kernel grants a request and issues a lease from the grant, then or later.
GrantAndIssue(issuer, op, requested, g) ==
    /\ Grantable(issuer, op, requested, g)
    /\ \E id \in LeaseIds, at \in 0 .. clock, expires \in Option(Time) :
          IssueLease(issuer, g, id, at, expires)

PolicyNext ==
    \/ \E issuer \in Principals, op \in Operations, requested \in Option(Time),
          p \in Principals, asked, scope \in Scopes, most \in Option(Time),
          from \in 0 .. clock :
             GrantAndIssue(issuer, op, requested,
                           [principal |-> p, capability |-> RequiredCapability[op],
                            asked |-> asked, scope |-> scope, issuedAt |-> from,
                            maxExpires |-> most])
    \/ \E issuer \in Principals, id \in LeaseIds, expires \in Option(Time),
          epoch \in 0 .. clock : RenewLease(issuer, id, expires, epoch)
    \/ \E issuer \in Principals, id \in LeaseIds, epoch \in 0 .. clock :
          RevokeLease(issuer, id, epoch)
    \/ Tick

PolicySpec == PolicyInit /\ [][PolicyNext]_policyVars
-----------------------------------------------------------------------------
Selections == {<< >>} \cup {<<a>> : a \in LeaseIds}
              \cup {<<a, b>> : a, b \in LeaseIds}

\* Whatever leases a caller selects and in whatever order, a call is authorized
\* only by a lease that goes back to a grant the kernel made to this very principal
\* for this very capability, in the whole scope of the operation as asked for, not
\* before the grant and not after a revocation.  The chain of request, grant,
\* lease, renewal and authorization attenuates and never widens.
AuthorizationGoesBackToGrant ==
    \A op \in Operations, p \in Principals, epoch \in 0 .. clock, ids \in Selections :
       \A id \in LeaseIds : AuthorizedByLease(op, p, ids, epoch, id) =>
             /\ grantOf[id].principal = p
             /\ p # Kernel
             /\ grantOf[id].capability = RequiredCapability[op]
             /\ grantOf[id].asked = Global
             /\ epoch >= grantOf[id].issuedAt
             /\ leases[id].revokedAt = None

\* Every lease of a principal other than the native UI has an end, through
\* grants, issues and any number of renewals, so a plugin that is forgotten
\* loses its authority by itself.
PluginLeasesExpire ==
    \A id \in DOMAIN leases : leases[id].principal # NativeUI => leases[id].expiresAt # None

\* A lease is known for good and its identity never changes; once revoked it is
\* frozen, and no later renewal or second revocation touches it.
RevokedForGood ==
    [][\A id \in DOMAIN leases :
         /\ id \in DOMAIN leases'
         /\ leases'[id] = [leases[id] EXCEPT !.expiresAt = leases'[id].expiresAt,
                                             !.revokedAt = leases'[id].revokedAt]
         /\ leases[id].revokedAt # None => leases'[id] = leases[id]]_policyVars

\* docs/architecture/capability-policy.md, "a lease may end earlier than its
\* grant maximum, but never later": renew_lease does not know the grant.
LeaseWithinGrant ==
    \A id \in DOMAIN leases : LeaseWithin(grantOf[id], leases[id].expiresAt)
=============================================================================
