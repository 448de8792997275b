----------------------------- MODULE MCHostCore -----------------------------
(* The admission ledger and the operations of the gateway in one instance.  The
   first is one structure behind one lock; the second abstracts it to the lock and
   the capability it compares.  `focus` says which of the two this behaviour
   moves. *)
EXTENDS HostBus, HostOperations, TLC

CONSTANTS c1, c2

VARIABLE focus

MCCapability == [o \in Operations |-> "graph.read"]
MCScope == [o \in Operations |-> Global]
MCLimit == [o \in Operations |-> IF o = "put" THEN 1 ELSE 2]

\* Each caller may hold a permanent lease, one that expires at time 1, a
\* revoked one, and one for a single resource, which covers no operation here.
MCLease(p, scope, expires, revoked) ==
    [principal |-> p, capability |-> "graph.read", scope |-> scope,
     issuedAt |-> 0, expiresAt |-> expires, revokedAt |-> revoked]
MCLeases == {MCLease(p, Global, None, None) : p \in Principals}
       \cup {MCLease(p, Global, Some(1), None) : p \in Principals}
       \cup {MCLease(p, Global, None, Some(0)) : p \in Principals}
       \cup {MCLease(p, s, None, None) : p \in Principals, s \in Resources}

PrincipalSymmetry == Permutations(Principals)

\* One call may ask for anything, beside one that holds a lock over other steps.
MCOffered == c1 :> (DOMAIN Routes \union DOMAIN Requirements)
             @@ c2 :> {"plugin.surface.action", "plugin.worker.open", "plugin.worker.call",
                       "plugin.settings.write", "graph.patch.review"}
MCAsked == c1 :> DOMAIN WorkerRoutes @@ c2 :> {"event.publish"}

\* An uninstallation after a request to the plugin's pooled worker, and a proposal.
MCFew == c1 :> {"plugin.surface.state", "graph.patch.propose"} @@ c2 :> {"plugin.uninstall"}

hostVars == <<busVars, callVars, focus>>

HostInit ==
    /\ focus \in {"bus", "operations"}
    /\ BusInit
    /\ OperationsInit

HostNext ==
    /\ focus' = focus
    /\ \/ focus = "bus" /\ BusNext
       \/ focus # "bus" /\ UNCHANGED busVars
    /\ \/ focus = "operations" /\ OperationsNext
       \/ focus # "operations" /\ UNCHANGED callVars

HostSpec == HostInit /\ [][HostNext]_hostVars
=============================================================================
