---------------------------- MODULE Capabilities ----------------------------
(***************************************************************************)
(* Capability scopes and leases, from kernel/identity.rs.                  *)
(*                                                                         *)
(* A lease is a record                                                     *)
(*   [principal, capability, scope, issuedAt, expiresAt, revokedAt]        *)
(* whose optional fields (Option<u64> in the code) are sets with at most   *)
(* one element: {} is None and {t} is Some(t).                             *)
(***************************************************************************)
EXTENDS Naturals

CONSTANTS Principals,   \* authenticated callers (PrincipalId)
          CapabilityNames,
          Global,       \* the scope that covers every resource
          Resources     \* resource scopes

ASSUME ScopeAssumption == Global \notin Resources

Scopes == Resources \cup {Global}

None == {}
Some(x) == {x}
Option(S) == {None} \cup {Some(x) : x \in S}

\* CapabilityScope::covers (policy.rs has the same function as scope_covers).
ScopeCovers(granted, requested) == granted = Global \/ granted = requested

\* CapabilityLease::is_active_at.  An expiry is exclusive: a lease that
\* expires at t is already inactive at t.
IsActiveAt(lease, epoch) ==
    /\ lease.revokedAt = None
    /\ epoch >= lease.issuedAt
    /\ \A expiry \in lease.expiresAt : epoch < expiry

\* CapabilityLease::covers.
Covers(lease, principal, capability, scope, epoch) ==
    /\ IsActiveAt(lease, epoch)
    /\ lease.principal = principal
    /\ lease.capability = capability
    /\ ScopeCovers(lease.scope, scope)

LeaseRecords(Time) ==
    [principal : Principals, capability : CapabilityNames, scope : Scopes,
     issuedAt : Time, expiresAt : Option(Time), revokedAt : Option(Time)]
=============================================================================
