------------------------------- MODULE HostBus -------------------------------
(***************************************************************************)
(* The Host Bus admission ledger (kernel/bus.rs): every Host SDK call is   *)
(* admitted with begin, runs outside the bus, and leaves with finish,      *)
(* cancel or cancel_expired.  Each operation runs under the write lock of  *)
(* KernelState, so each is one atomic action.                              *)
(*                                                                         *)
(* Callers read the clock before they take the lock, so an operation may   *)
(* be given any clock reading up to the present one.                       *)
(***************************************************************************)
EXTENDS Capabilities, Integers, Sequences, FiniteSets

CONSTANTS Operations, RequestIds,
          RequiredCapability, RequiredScope,   \* of each OperationDescriptor
          OperationLimit,     \* max_inflight_per_principal of each descriptor
          MaxInflight,        \* HostBusConfig.max_inflight_per_principal
          MaxTerminal,        \* HostBusConfig.max_terminal_records
          Leases,             \* leases the callers present
          CancelReasons,      \* reasons a caller of cancel gives
          MaxTime,            \* bound: last clock reading
          MaxAdmissions       \* bound: admissions of one request id

Time == 0 .. MaxTime

ASSUME BusAssumption ==
    /\ RequestIds \subseteq Nat                \* RequestId is an ordered u128
    /\ RequiredCapability \in [Operations -> CapabilityNames]
    /\ RequiredScope \in [Operations -> Scopes]
    /\ OperationLimit \in [Operations -> Nat \ {0}]
    /\ MaxInflight \in Nat \ {0}
    /\ MaxTerminal \in Nat \ {0}
    /\ Leases \subseteq LeaseRecords(Time)
    /\ CancelReasons \cap {"Pending", "Finished"} = {}
    /\ MaxTime \in Nat
    /\ MaxAdmissions \in Nat

VARIABLES operations,          \* registered operations
          calls,               \* request id -> call record (partial)
          terminalOrder,       \* tombstones, oldest first
          inflightByPrincipal,
          inflightByOperation,
          clock,
          handles,             \* AdmissionHandles given out so far
          admissions           \* history: admissions of each request id

busVars == <<operations, calls, terminalOrder, inflightByPrincipal,
             inflightByOperation, clock, handles, admissions>>

\* Cancelled(reason) is modelled by the reason itself.
AdmissionStates == {"Pending", "Finished", "Deadline"} \cup CancelReasons

\* nth is history: which admission of its request id the record stands for.
CallRecords == [principal : Principals, operation : Operations,
                deadline : Nat, state : AdmissionStates, nth : Nat]

Handles == [request : RequestIds, principal : Principals, nth : Nat]

BusTypeOK ==
    /\ operations \subseteq Operations
    /\ DOMAIN calls \subseteq RequestIds
    /\ calls \in [DOMAIN calls -> CallRecords]
    /\ terminalOrder \in Seq(RequestIds)
    /\ inflightByPrincipal \in [Principals -> Nat]
    /\ inflightByOperation \in [Principals \X Operations -> Nat]
    /\ clock \in Time
    /\ handles \subseteq Handles
    /\ admissions \in [RequestIds -> Nat]

BusInit ==
    /\ operations = {}
    /\ calls = [r \in {} |-> r]
    /\ terminalOrder = << >>
    /\ inflightByPrincipal = [p \in Principals |-> 0]
    /\ inflightByOperation = [k \in Principals \X Operations |-> 0]
    /\ clock = 0
    /\ handles = {}
    /\ admissions = [r \in RequestIds |-> 0]
-----------------------------------------------------------------------------
IsPending(r) == r \in DOMAIN calls /\ calls[r].state = "Pending"

IsExpired(deadline, now) == now >= deadline

PendingOf(p) == {r \in DOMAIN calls : /\ calls[r].state = "Pending"
                                      /\ calls[r].principal = p}

PendingOn(p, op) == {r \in PendingOf(p) : calls[r].operation = op}

RegisterOperation(op) ==
    /\ op \notin operations
    /\ operations' = operations \cup {op}
    /\ UNCHANGED <<calls, terminalOrder, inflightByPrincipal,
                   inflightByOperation, clock, handles, admissions>>

\* Mutant: the quota comparison admits one call too many.
QuotaFullOffByOne(p, op) ==
    \/ inflightByPrincipal[p] > MaxInflight
    \/ inflightByOperation[<<p, op>>] > OperationLimit[op]

QuotaFull(p, op) ==
    \/ inflightByPrincipal[p] >= MaxInflight
    \/ inflightByOperation[<<p, op>>] >= OperationLimit[op]

\* Mutant: only a pending call makes its request id a duplicate.
IsDuplicatePending(r) == IsPending(r)

IsDuplicate(r) == r \in DOMAIN calls

\* The checks of HostBus::begin in their order; the first that fails is the
\* error returned, and an error leaves the ledger as it was.
AdmissionError(r, p, op, deadline, lease, now) ==
    IF IsDuplicate(r) THEN "DuplicateRequest"
    ELSE IF IsExpired(deadline, now) THEN "RequestExpired"
    ELSE IF op \notin operations THEN "UnknownOperation"
    ELSE IF lease.principal # p THEN "CapabilityPrincipalMismatch"
    ELSE IF ~ Covers(lease, p, RequiredCapability[op], RequiredScope[op], now)
         THEN "CapabilityInactive"
    ELSE IF QuotaFull(p, op) THEN "TooManyInflight"
    ELSE "None"

Begin(r, p, op, deadline, lease, now) ==
    /\ AdmissionError(r, p, op, deadline, lease, now) = "None"
    /\ admissions[r] < MaxAdmissions
    /\ LET nth == admissions[r] + 1 IN
       /\ admissions' = [admissions EXCEPT ![r] = nth]
       /\ handles' = handles \cup {[request |-> r, principal |-> p, nth |-> nth]}
       /\ calls' = [x \in DOMAIN calls \cup {r} |->
                      IF x = r
                      THEN [principal |-> p, operation |-> op,
                            deadline |-> deadline, state |-> "Pending",
                            nth |-> nth]
                      ELSE calls[x]]
    /\ inflightByPrincipal' = [inflightByPrincipal EXCEPT ![p] = @ + 1]
    /\ inflightByOperation' = [inflightByOperation EXCEPT ![<<p, op>>] = @ + 1]
    /\ UNCHANGED <<operations, terminalOrder, clock>>

\* Mutant: a release that takes two places instead of one.
DecrementedTwice(n, k) == n - 2 * k

\* decrement_count applied k times: an absent (zero) counter stays as it is.
Decremented(n, k) == IF n >= k THEN n - k ELSE 0

\* Mutant: only the principal's counter is released.
ReleasePrincipalOnly(batch) ==
    /\ inflightByPrincipal' =
         [p \in Principals |->
            Decremented(inflightByPrincipal[p],
                        Cardinality({r \in batch : calls[r].principal = p}))]
    /\ UNCHANGED inflightByOperation

\* release_inflight for every request of a set.
ReleaseInflight(batch) ==
    /\ inflightByPrincipal' =
         [p \in Principals |->
            Decremented(inflightByPrincipal[p],
                        Cardinality({r \in batch : calls[r].principal = p}))]
    /\ inflightByOperation' =
         [k \in Principals \X Operations |->
            Decremented(inflightByOperation[k],
                        Cardinality({r \in batch : /\ calls[r].principal = k[1]
                                                   /\ calls[r].operation = k[2]}))]

\* Mutant: the tombstone bound is tested before the new one is counted.
ExcessLate(queue) == IF Len(queue) > MaxTerminal + 1 THEN Len(queue) - MaxTerminal ELSE 0

Excess(queue) == IF Len(queue) > MaxTerminal THEN Len(queue) - MaxTerminal ELSE 0

\* record_terminal, called once for each request of the sequence order while
\* their records take state s: the newest MaxTerminal tombstones survive, and
\* the records of the others leave the ledger.
RecordTerminal(order, s) ==
    LET queue   == terminalOrder \o order
        evicted == {queue[i] : i \in 1 .. Excess(queue)}
        ended   == {order[i] : i \in 1 .. Len(order)}
    IN  /\ terminalOrder' = SubSeq(queue, Excess(queue) + 1, Len(queue))
        /\ calls' = [r \in DOMAIN calls \ evicted |->
                       IF r \in ended THEN [calls[r] EXCEPT !.state = s]
                       ELSE calls[r]]

\* The common body of finish and cancel: the handle names a pending record of
\* its own principal (else UnknownRequest, WrongPrincipal, InvalidTransition).
EndCall(h, s) ==
    /\ IsPending(h.request)
    /\ calls[h.request].principal = h.principal
    /\ ReleaseInflight({h.request})
    /\ RecordTerminal(<<h.request>>, s)
    /\ UNCHANGED <<operations, clock, handles, admissions>>

Finish(h) == EndCall(h, "Finished")

Cancel(h, reason) == EndCall(h, reason)

ExpiredAt(now) == {r \in DOMAIN calls : /\ calls[r].state = "Pending"
                                        /\ IsExpired(calls[r].deadline, now)}

\* cancel_expired walks the expired requests in ascending order.
Ascending(S) == {s \in [1 .. Cardinality(S) -> S] :
                   \A i, j \in 1 .. Cardinality(S) : i < j => s[i] < s[j]}

CancelExpired(now) ==
    /\ ExpiredAt(now) # {}
    /\ ReleaseInflight(ExpiredAt(now))
    /\ \E order \in Ascending(ExpiredAt(now)) :
          RecordTerminal(order, "Deadline")
    /\ UNCHANGED <<operations, clock, handles, admissions>>

Tick == /\ clock < MaxTime
        /\ clock' = clock + 1
        /\ UNCHANGED <<operations, calls, terminalOrder, inflightByPrincipal,
                       inflightByOperation, handles, admissions>>

\* The bus as one component: any caller, any registered or unknown operation,
\* any lease, any clock reading a caller may still hold, and any handle that
\* was ever given out (an AdmissionHandle can be cloned and kept).
BusNext ==
    \/ \E op \in Operations : RegisterOperation(op)
    \/ \E r \in RequestIds, p \in Principals, op \in Operations,
          deadline \in 1 .. MaxTime + 1, now \in 0 .. clock,
          lease \in Leases :
             Begin(r, p, op, deadline, lease, now)
    \/ \E h \in handles : Finish(h)
    \/ \E h \in handles, reason \in CancelReasons : Cancel(h, reason)
    \/ \E now \in 0 .. clock : CancelExpired(now)
    \/ Tick

BusSpec == BusInit /\ [][BusNext]_busVars
-----------------------------------------------------------------------------
\* The quota counters of the bus are exact: each equals the number of pending
\* calls it stands for, whatever mix of finish, cancel, deadline cancellation
\* and eviction came before.  A counter that drifts up locks its principal out
\* for good; one that drifts down (decrement_count) admits more than the quota.
CountersExact ==
    /\ \A p \in Principals :
          inflightByPrincipal[p] = Cardinality(PendingOf(p))
    /\ \A p \in Principals, op \in Operations :
          inflightByOperation[<<p, op>>] = Cardinality(PendingOn(p, op))

\* No principal ever has more pending calls than the bus allows it, nor more on
\* one operation than that operation allows (HostBus::begin).
QuotaRespected ==
    \A p \in Principals :
       /\ Cardinality(PendingOf(p)) <= MaxInflight
       /\ \A op \in Operations :
             Cardinality(PendingOn(p, op)) <= OperationLimit[op]

\* terminal_order holds exactly the ended calls, each once, and no more than
\* max_terminal_records of them; so eviction never meets a pending call and the
\* ledger is bounded by the pending calls plus the tombstones.
TombstonesExact ==
    /\ Len(terminalOrder) <= MaxTerminal
    /\ \A i, j \in 1 .. Len(terminalOrder) :
          terminalOrder[i] = terminalOrder[j] => i = j
    /\ {terminalOrder[i] : i \in 1 .. Len(terminalOrder)}
         = {r \in DOMAIN calls : calls[r].state # "Pending"}

\* The ledger as a whole: exact counters, quotas kept, and a tombstone for each
\* ended call and for nothing else, whatever the order of endings and sweeps.
LedgerExact == CountersExact /\ QuotaRespected /\ TombstonesExact

\* A request id in the ledger stands for one call: while it is tracked it is
\* not admitted again, its principal, operation and deadline stay, and once it
\* has ended its outcome stays (a second finish or a cancel after finish, by
\* any holder of the handle, changes nothing).
EndedOnceForGood ==
    [][\A r \in DOMAIN calls \cap DOMAIN calls' :
         /\ calls'[r] = [calls[r] EXCEPT !.state = calls'[r].state]
         /\ calls[r].state # "Pending" => calls'[r] = calls[r]]_busVars
=============================================================================
