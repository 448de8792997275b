---------------------------- MODULE HostGateway -----------------------------
(***************************************************************************)
(* The Host SDK gateway (kernel_commands.rs): kernel_host_call takes every *)
(* call of the native UI through authorization, admission, a handler, the  *)
(* audit ledger and the end of the admission.  The handler of a plugin     *)
(* surface call runs the plugin's worker, which may call Host operations   *)
(* of its own (dispatch_worker_host_operation): each gets a fresh lease    *)
(* and its own admission, inside the outer call.                           *)
(*                                                                         *)
(* The bus, the policy and the audit ledger have a lock each, and no step  *)
(* below holds two of them; calls of several threads interleave between    *)
(* the steps.  The bus is HostBus, the policy CapabilityPolicy.            *)
(***************************************************************************)
EXTENDS HostBus

CONSTANTS Kernel, NativeUI,       \* the trusted principals
          BootstrapCapabilities,  \* capabilities of the native bootstrap grants
          SurfaceAction,          \* the operation that runs a plugin's worker
          LeaseRenew,             \* the operation lease.renew
          WorkerOperations,       \* manifest.worker.hostOperations
          UIRequests,             \* request ids of the native UI
          WorkerRequest(_),       \* 2^127 | sequence
          Threads,
          Budgets,                \* relative deadlines of calls
          MaxSequence,            \* bound: worker calls
          MaxCalls                \* bound: UI calls

Plugins == Principals \ {Kernel, NativeUI}

Sequences == 1 .. MaxSequence

VARIABLES leases, grantOf,  \* the policy ledger
          outer,            \* thread -> its UI call
          inner,            \* thread -> the worker's call inside it
          sequence,         \* WORKER_HOST_REQUEST_SEQUENCE
          audited,          \* principal -> outcome -> number of audit events
          returned          \* history: calls of each principal that returned

policyState == <<leases, grantOf>>
calling == <<outer, inner, sequence>>
gatewayVars == <<busVars, policyState, calling, audited, returned>>

Policy == INSTANCE CapabilityPolicy WITH LeaseIds <- Sequences

ASSUME GatewayAssumption ==
    /\ {Kernel, NativeUI} \subseteq Principals
    /\ Plugins # {}
    /\ {SurfaceAction, LeaseRenew} \subseteq Operations
    /\ SurfaceAction # LeaseRenew
    /\ WorkerOperations \subseteq Operations \ {SurfaceAction, LeaseRenew}
    /\ UIRequests \subseteq RequestIds
    /\ \A n \in Sequences : WorkerRequest(n) \in RequestIds \ UIRequests
    /\ \A m, n \in Sequences : WorkerRequest(m) = WorkerRequest(n) => m = n
    /\ \A op \in Operations : RequiredScope[op] = Global
    /\ Budgets \subseteq Nat \ {0}
    /\ {MaxSequence, MaxCalls} \subseteq Nat

Outcomes == {"Denied", "Completed", "Failed"}

\* A call in progress: step is what its thread does next, now the clock reading
\* its caller took, lease the lease it was authorized with, nth the number of
\* its admission (0 before), and ok the handler's result.
Idle == [step |-> "idle"]

\* Option(S), told without listing S.
AtMostOne(S) == {o \in SUBSET S : \A x, y \in o : x = y}

Calls(steps) ==
    [step : steps, request : RequestIds, principal : Principals,
     op : Operations, selected : Seq(Nat), now : Time, budget : Nat,
     lease : AtMostOne(LeaseRecords(Time)), nth : Nat, ok : BOOLEAN]

OuterSteps == {"authorize", "begin", "dispatch", "audit", "finish"}
InnerSteps == {"grant", "begin", "dispatch", "finish", "revoke", "audit"}

GatewayTypeOK ==
    /\ BusTypeOK
    /\ Policy!PolicyTypeOK
    /\ DOMAIN outer = Threads /\ DOMAIN inner = Threads
    /\ \A t \in Threads : /\ outer[t] = Idle \/ outer[t] \in Calls(OuterSteps)
                          /\ inner[t] = Idle \/ inner[t] \in Calls(InnerSteps)
    /\ sequence \in Nat
    /\ audited \in [Principals -> [Outcomes -> Nat]]
    /\ returned \in [Principals -> Nat]

GatewayInit ==
    /\ BusInit
    /\ Policy!PolicyInit
    /\ outer = [t \in Threads |-> Idle]
    /\ inner = [t \in Threads |-> Idle]
    /\ sequence = 1
    /\ audited = [p \in Principals |-> [o \in Outcomes |-> 0]]
    /\ returned = [p \in Principals |-> 0]
-----------------------------------------------------------------------------
At(call, step) == call.step = step

Audit(p, outcome) == audited' = [audited EXCEPT ![p][outcome] = @ + 1]

\* Mutant: a failed handler is recorded as a denial.
OutcomeDenied(call) == IF call.ok THEN "Completed" ELSE "Denied"

Outcome(call) == IF call.ok THEN "Completed" ELSE "Failed"

Return(p) == returned' = [returned EXCEPT ![p] = @ + 1]

HandleOf(call) == [request |-> call.request, principal |-> call.principal,
                   nth |-> call.nth]

\* A lease issued at `at` for one call of p on op.
CallLease(p, op, at, until) ==
    [principal |-> p, capability |-> RequiredCapability[op], scope |-> Global,
     issuedAt |-> at, expiresAt |-> Some(until), revokedAt |-> None]

\* The leases the gateway presents to the bus.
IssuedLeases == {CallLease(p, op, at, until) :
                   p \in Plugins \cup {NativeUI}, op \in Operations, at, until \in Time}

\* The bus is offered at least these (Leases holds what its begin may be given).
ASSUME PresentedAssumption == IssuedLeases \subseteq Leases

\* create_kernel_state registers the operations before the first call.
RegisterHandler(op) ==
    /\ RegisterOperation(op)
    /\ UNCHANGED <<policyState, calling, audited, returned>>

\* kernel_host_call: the request is valid, the clock is read, and the lease ids
\* the UI selected are parsed.  The operation may be one that is unknown to the
\* policy (RequiredCapability not granted to the UI).
Arrive(t, r, op, selected, budget) ==
    /\ operations = Operations
    /\ At(outer[t], "idle")
    /\ returned[NativeUI] < MaxCalls
    /\ clock + budget <= MaxTime
    /\ outer' = [outer EXCEPT ![t] =
                   [step |-> "authorize", request |-> r, principal |-> NativeUI,
                    op |-> op, selected |-> selected, now |-> clock,
                    budget |-> budget, lease |-> None, nth |-> 0, ok |-> FALSE]]
    /\ UNCHANGED <<busVars, policyState, inner, sequence, audited, returned>>

\* authorize_for_bus: the lease of the ledger that authorizes the call, or one
\* made up for this call from a bootstrap grant.
AuthorizedWith(call) ==
    {leases[id] : id \in {n \in DOMAIN leases :
        Policy!AuthorizedByLease(call.op, call.principal, call.selected, call.now, n)}}
    \cup (IF Policy!AuthorizedByBootstrap(call.op, call.principal, call.selected)
          THEN {CallLease(call.principal, call.op, call.now, call.now + call.budget)}
          ELSE {})

Authorize(t) ==
    /\ At(outer[t], "authorize")
    /\ \E lease \in AuthorizedWith(outer[t]) :
          outer' = [outer EXCEPT ![t].step = "begin", ![t].lease = Some(lease)]
    /\ UNCHANGED <<busVars, policyState, inner, sequence, audited, returned>>

\* An authorization error is audited and returned.
Deny(t) ==
    /\ At(outer[t], "authorize")
    /\ AuthorizedWith(outer[t]) = {}
    /\ Audit(NativeUI, "Denied")
    /\ Return(NativeUI)
    /\ outer' = [outer EXCEPT ![t] = Idle]
    /\ UNCHANGED <<busVars, policyState, inner, sequence>>

\* with_relative_deadline and bus.begin for a call: the admission of a UI call
\* and of a worker's call alike.
Admit(call) ==
    \E lease \in call.lease :
       Begin(call.request, call.principal, call.op, call.now + call.budget,
             lease, call.now)

RefusedByBus(call) ==
    \E lease \in call.lease :
       AdmissionError(call.request, call.principal, call.op,
                      call.now + call.budget, lease, call.now) # "None"

BeginCall(t) ==
    /\ At(outer[t], "begin")
    /\ Admit(outer[t])
    /\ outer' = [outer EXCEPT ![t].step = "dispatch",
                              ![t].nth = admissions'[outer[t].request]]
    /\ UNCHANGED <<policyState, inner, sequence, audited, returned>>

\* An admission error goes back to the UI.
RefuseCall(t) ==
    /\ At(outer[t], "begin")
    /\ RefusedByBus(outer[t])
    /\ Return(NativeUI)
    /\ outer' = [outer EXCEPT ![t] = Idle]
    /\ UNCHANGED <<busVars, policyState, inner, sequence, audited>>

\* dispatch: the handler of the operation answers; the state it changes belongs
\* to other components.  A surface call may end while no worker call runs.
HandlerReturns(t, ok) ==
    /\ At(outer[t], "dispatch")
    /\ At(inner[t], "idle")
    /\ outer' = [outer EXCEPT ![t].step = "audit", ![t].ok = ok]
    /\ UNCHANGED <<busVars, policyState, inner, sequence, audited, returned>>

\* dispatch_lease_renew: the handler that changes the policy ledger, on behalf
\* of the kernel and at a clock reading of its own.
RenewReturns(t, id, expires, now) ==
    /\ At(outer[t], "dispatch")
    /\ outer[t].op = LeaseRenew
    /\ outer[t].now <= now
    /\ Policy!RenewLease(Kernel, id, expires, now)
    /\ outer' = [outer EXCEPT ![t].step = "audit", ![t].ok = TRUE]
    /\ UNCHANGED <<busVars, inner, sequence, audited, returned>>

AuditCall(t) ==
    /\ At(outer[t], "audit")
    /\ Audit(NativeUI, Outcome(outer[t]))
    /\ outer' = [outer EXCEPT ![t].step = "finish"]
    /\ UNCHANGED <<busVars, policyState, inner, sequence, returned>>

FinishCall(t) ==
    /\ At(outer[t], "finish")
    /\ Finish(HandleOf(outer[t]))
    /\ Return(NativeUI)
    /\ outer' = [outer EXCEPT ![t] = Idle]
    /\ UNCHANGED <<policyState, inner, sequence, audited>>
-----------------------------------------------------------------------------
\* dispatch_worker_host_operation: the worker of the running surface call asks
\* for an operation on the list of its manifest.  The principal is the one of
\* the installed plugin and session, the clock reading that of the outer call.
WorkerCall(t, p, op, budget) ==
    /\ At(outer[t], "dispatch")
    /\ outer[t].op = SurfaceAction
    /\ At(inner[t], "idle")
    /\ sequence <= MaxSequence
    /\ outer[t].now + budget <= MaxTime
    /\ sequence' = sequence + 1
    /\ inner' = [inner EXCEPT ![t] =
                   [step |-> "grant", request |-> WorkerRequest(sequence),
                    principal |-> p, op |-> op, selected |-> <<sequence>>,
                    now |-> outer[t].now, budget |-> budget, lease |-> None,
                    nth |-> 0, ok |-> FALSE]]
    /\ UNCHANGED <<busVars, policyState, outer, audited, returned>>

LeaseIdOf(call) == call.selected[1]

WorkerGrant(call) ==
    LET expires == call.now + call.budget
    IN  [principal |-> call.principal, capability |-> RequiredCapability[call.op],
         asked |-> Global, scope |-> Global, issuedAt |-> call.now,
         maxExpires |-> Some(expires)]

\* Under one policy lock: request, grant, issue_lease with the sequence number
\* as its id, and authorize.
GrantWorker(t) ==
    LET call == inner[t]  grant == WorkerGrant(inner[t]) IN
    /\ At(call, "grant")
    /\ Policy!Grantable(Kernel, call.op, grant.maxExpires, grant)
    /\ Policy!IssueLease(Kernel, grant, LeaseIdOf(call), call.now, grant.maxExpires)
    /\ inner' = [inner EXCEPT ![t].step = "begin",
                              ![t].lease = Some(leases'[LeaseIdOf(call)])]
    /\ UNCHANGED <<busVars, outer, sequence, audited, returned>>

BeginWorker(t) ==
    /\ At(inner[t], "begin")
    /\ Admit(inner[t])
    /\ inner' = [inner EXCEPT ![t].step = "dispatch",
                              ![t].nth = admissions'[inner[t].request]]
    /\ UNCHANGED <<policyState, outer, sequence, audited, returned>>

\* The ? after begin: HOST_ADMISSION_DENIED goes back to the worker.
RefuseWorker(t) ==
    /\ At(inner[t], "begin")
    /\ RefusedByBus(inner[t])
    /\ Return(inner[t].principal)
    /\ inner' = [inner EXCEPT ![t] = Idle]
    /\ UNCHANGED <<busVars, policyState, outer, sequence, audited>>

WorkerHandlerReturns(t, ok) ==
    /\ At(inner[t], "dispatch")
    /\ inner' = [inner EXCEPT ![t].step = "finish", ![t].ok = ok]
    /\ UNCHANGED <<busVars, policyState, outer, sequence, audited, returned>>

\* Mutant: a failed handler returns before the lease is revoked.
AfterFinishEarly(call) == IF call.ok THEN "revoke" ELSE "audit"

\* What follows finish, whatever the handler answered.
AfterFinish(call) == "revoke"

FinishWorker(t) ==
    /\ At(inner[t], "finish")
    /\ Finish(HandleOf(inner[t]))
    /\ inner' = [inner EXCEPT ![t].step = AfterFinish(inner[t])]
    /\ UNCHANGED <<policyState, outer, sequence, audited, returned>>

RevokeWorker(t) ==
    /\ At(inner[t], "revoke")
    /\ Policy!RevokeLease(Kernel, LeaseIdOf(inner[t]), inner[t].now)
    /\ inner' = [inner EXCEPT ![t].step = "audit"]
    /\ UNCHANGED <<busVars, outer, sequence, audited, returned>>

AuditWorker(t) ==
    /\ At(inner[t], "audit")
    /\ Audit(inner[t].principal, Outcome(inner[t]))
    /\ Return(inner[t].principal)
    /\ inner' = [inner EXCEPT ![t] = Idle]
    /\ UNCHANGED <<busVars, policyState, outer, sequence>>

Elapse == Tick /\ UNCHANGED <<policyState, calling, audited, returned>>

Selections == {<< >>} \cup {<<id>> : id \in Sequences}

CallStep(t) ==
    \/ \E r \in UIRequests, op \in Operations, selected \in Selections,
          budget \in Budgets : Arrive(t, r, op, selected, budget)
    \/ Authorize(t) \/ Deny(t)
    \/ BeginCall(t) \/ RefuseCall(t)
    \/ \E ok \in BOOLEAN : HandlerReturns(t, ok)
    \/ \E id \in Sequences, expires \in Option(Time), now \in 0 .. clock :
          RenewReturns(t, id, expires, now)
    \/ AuditCall(t) \/ FinishCall(t)

WorkerStep(t) ==
    \/ \E p \in Plugins, op \in WorkerOperations, budget \in Budgets :
          WorkerCall(t, p, op, budget)
    \/ GrantWorker(t)
    \/ BeginWorker(t) \/ RefuseWorker(t)
    \/ \E ok \in BOOLEAN : WorkerHandlerReturns(t, ok)
    \/ FinishWorker(t) \/ RevokeWorker(t) \/ AuditWorker(t)

GatewayNext ==
    \/ \E op \in Operations : RegisterHandler(op)
    \/ \E t \in Threads : CallStep(t) \/ WorkerStep(t)
    \/ Elapse

GatewaySpec == GatewayInit /\ [][GatewayNext]_gatewayVars
-----------------------------------------------------------------------------
\* The threads whose call holds an admission: a worker's call gives it up before
\* it revokes and audits, a UI call as its last step.
OuterAdmitted == {t \in Threads : outer[t].step \in {"dispatch", "audit", "finish"}}
InnerAdmitted == {t \in Threads : inner[t].step \in {"dispatch", "finish"}}

\* The admitted calls that have not been audited yet.
Unaudited(p) ==
    {t \in Threads : outer[t].step \in {"dispatch", "audit"} /\ outer[t].principal = p}
Unrecorded(p) ==
    {t \in Threads : /\ inner[t].step \in {"dispatch", "finish", "revoke", "audit"}
                     /\ inner[t].principal = p}

\* The pending calls of the bus are exactly the admitted calls that still run in
\* some thread, one to one and each with its own admission.  So no quota place
\* is leaked by a call that returned, and finish is never refused: the branches
\* of kernel_host_call and dispatch_worker_host_operation that report a failed
\* finish are not reachable (and not modelled).
AdmissionsAreRunningCalls ==
    /\ {HandleOf(outer[t]) : t \in OuterAdmitted} \cup {HandleOf(inner[t]) : t \in InnerAdmitted}
         = {[request |-> r, principal |-> calls[r].principal, nth |-> calls[r].nth] :
              r \in {x \in DOMAIN calls : IsPending(x)}}
    /\ Cardinality(OuterAdmitted) + Cardinality(InnerAdmitted)
         = Cardinality({r \in DOMAIN calls : IsPending(r)})

\* The gateway's threads and the ledgers they share are well formed and agree.
GatewaySound == GatewayTypeOK /\ AdmissionsAreRunningCalls

\* Every admission of a principal has exactly one audit event with the outcome
\* of its handler, or its call is still on the way to record it.
AdmissionsAudited ==
    \A p \in Principals :
       audited[p]["Completed"] + audited[p]["Failed"]
          + Cardinality(Unaudited(p)) + Cardinality(Unrecorded(p))
       = Cardinality({h \in handles : h.principal = p})

InProgress(id) == \E t \in Threads : inner[t] # Idle /\ LeaseIdOf(inner[t]) = id

\* A worker's call that was admitted leaves no authority behind: once it has
\* returned, its lease is revoked in the policy ledger, whatever the handler
\* answered and whatever lease.renew calls ran meanwhile.
AdmittedWorkerLeasesRevoked ==
    \A id \in DOMAIN leases :
       leases[id].revokedAt = None /\ ~ InProgress(id)
          => admissions[WorkerRequest(id)] = 0

\* docs/architecture/python-worker-rpc.md, "Rust creates the short-lived policy
\* grant and lease, performs Host Bus admission, invokes the registered handler,
\* audits the bound principal, finishes admission, and revokes the lease": no
\* lease is active after its call.  A refused admission returns before revoke.
WorkerLeasesRevoked ==
    \A id \in DOMAIN leases : leases[id].revokedAt # None \/ InProgress(id)
=============================================================================
