---------------------------- MODULE MCHostCalls -----------------------------
(* Small instances of what a host call may be: one that the gateway carries out
   while the caller waits, and a document import, which leaves jobs behind that go
   on after the call has been answered.  The jobs hold no lock of the gateway;
   `focus` says which of the two this behaviour moves. *)
EXTENDS HostGateway, AgentJobs, TLC

CONSTANTS t1, t2, b1, b2, j1, j2, j3

VARIABLE focus

MCCapability ==
    [op \in Operations |-> CASE op = "action" -> "plugin.surface"
                             [] op = "renew"  -> "host-bus.lease"
                             [] OTHER         -> "graph.read"]
MCScope == [op \in Operations |-> Global]
MCLimit == [op \in Operations |-> IF op = "query" THEN 1 ELSE 2]
MCWorkerRequest(n) == 10 + n

\* The leases a call can be admitted with: made up for it, or issued for it.
MCLeases == {CallLease(p, op, at, until) : p \in Plugins \cup {NativeUI},
               op \in Operations, at, until \in Time}

\* Two batches for one permit.
TwoAndOne == b1 :> <<j1, j2>> @@ b2 :> <<j3>>

ThreadSymmetry == Permutations({t1, t2})

callVars == <<gatewayVars, jobsVars, focus>>

CallsInit ==
    /\ focus \in {"gateway", "jobs"}
    /\ GatewayInit
    /\ JobsInit

CallsNext ==
    /\ focus' = focus
    /\ \/ focus = "gateway" /\ GatewayNext
       \/ focus # "gateway" /\ UNCHANGED gatewayVars
    /\ \/ focus = "jobs" /\ JobsNext
       \/ focus # "jobs" /\ UNCHANGED jobsVars

CallsSpec == CallsInit /\ [][CallsNext]_callVars
=============================================================================
