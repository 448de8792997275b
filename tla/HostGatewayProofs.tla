------------------------- MODULE HostGatewayProofs --------------------------
(***************************************************************************)
(* Machine-checked facts about HostGateway, for any number of threads,     *)
(* plugins, operations and request ids, any limits of the bus and any      *)
(* numbering of the workers' requests that GatewayAssumption allows.       *)
(***************************************************************************)
EXTENDS HostGateway, HostBusProofs, FunctionTheorems

-----------------------------------------------------------------------------
(* The inductive invariant *)

\* The types of the gateway's own variables.
CallsTyped ==
  /\ outer \in [Threads -> {Idle} \cup Calls(OuterSteps)]
  /\ inner \in [Threads -> {Idle} \cup Calls(InnerSteps)]
  /\ sequence \in Nat \ {0}
  /\ audited \in [Principals -> [Outcomes -> Nat]]
  /\ returned \in [Principals -> Nat]
  /\ Policy!PolicyTypeOK

\* Who calls and under which id: the UI's ids are its own, and a worker's call is known
\* by the sequence number it drew, which is also the id of its lease.
OuterPlaced(call) ==
  call # Idle => /\ call.request \in UIRequests /\ call.principal = NativeUI
                 /\ call.budget > 0 /\ call.now + call.budget <= MaxTime

InnerPlaced(call) ==
  call # Idle => /\ call.selected = <<LeaseIdOf(call)>>
                 /\ LeaseIdOf(call) \in Sequences /\ LeaseIdOf(call) < sequence
                 /\ call.request = WorkerRequest(LeaseIdOf(call))
                 /\ call.budget > 0 /\ call.now + call.budget <= MaxTime

CallsPlaced ==
  /\ \A t \in Threads : OuterPlaced(outer[t]) /\ InnerPlaced(inner[t])
  /\ \A t, u \in Threads :
        inner[t] # Idle /\ inner[u] # Idle /\ inner[t].request = inner[u].request => t = u

\* A call that is admitted holds the handle of the pending call of its id.
HoldsAdmission(call) ==
  /\ IsPending(call.request)
  /\ calls[call.request].principal = call.principal
  /\ calls[call.request].nth = call.nth
  /\ HandleOf(call) \in handles

AdmissionsHeld ==
  /\ \A t \in OuterAdmitted : HoldsAdmission(outer[t])
  /\ \A t \in InnerAdmitted : HoldsAdmission(inner[t])
  /\ \A t, u \in OuterAdmitted : outer[t].request = outer[u].request => t = u
  /\ \A r \in DOMAIN calls : IsPending(r) =>
        \/ \E t \in OuterAdmitted : outer[t].request = r
        \/ \E t \in InnerAdmitted : inner[t].request = r

\* A worker's request is admitted at most once, after its lease was issued; and the
\* lease is revoked before the call is over.
LeasesFollow ==
  /\ \A n \in Sequences : n >= sequence => admissions[WorkerRequest(n)] = 0
  /\ \A t \in Threads :
        /\ inner[t].step \in {"grant", "begin"} => admissions[inner[t].request] = 0
        /\ inner[t].step = "audit" =>
              LeaseIdOf(inner[t]) \in DOMAIN leases /\ leases[LeaseIdOf(inner[t])].revokedAt # None

\* What can be counted, and that no handle is given out twice.
Countable ==
  /\ IsFiniteSet(handles)
  /\ \A h \in handles : h.nth <= admissions[h.request]
  /\ \A p \in Principals : IsFiniteSet(Unaudited(p)) /\ IsFiniteSet(Unrecorded(p))

GatewayInv ==
  /\ BusInv /\ CallsTyped /\ CallsPlaced /\ AdmissionsHeld
  /\ LeasesFollow /\ AdmittedWorkerLeasesRevoked
  /\ Countable /\ AdmissionsAudited

-----------------------------------------------------------------------------
(* Calls and the handles they hold *)

\* The fields of a call that nothing changes once it has begun.
SameCall(c, d) ==
  /\ d.request = c.request /\ d.principal = c.principal /\ d.op = c.op
  /\ d.selected = c.selected /\ d.now = c.now /\ d.budget = c.budget

LEMMA CallFields ==
  ASSUME NEW S, NEW c \in Calls(S)
  PROVE  /\ c.step \in S /\ c.request \in RequestIds /\ c.principal \in Principals
         /\ c.op \in Operations /\ c.selected \in Seq(Nat) /\ c.now \in Time /\ c.budget \in Nat
         /\ c.lease \in AtMostOne(LeaseRecords(Time)) /\ c.nth \in Nat /\ c.ok \in BOOLEAN
<1>. DEFINE L == AtMostOne(LeaseRecords(Time))
<1>. HIDE DEF L
<1>1. Calls(S) = [step : S, request : RequestIds, principal : Principals,
                  op : Operations, selected : Seq(Nat), now : Time, budget : Nat,
                  lease : L, nth : Nat, ok : BOOLEAN]
  BY DEF Calls, L
<1>. QED BY <1>1 DEF L

\* A call that moves to another step keeps what it is.
LEMMA CallMoves ==
  ASSUME NEW S, NEW c \in Calls(S), NEW s \in S
  PROVE  /\ [c EXCEPT !.step = s] \in Calls(S)
         /\ SameCall(c, [c EXCEPT !.step = s])
         /\ [c EXCEPT !.step = s].step = s
         /\ [c EXCEPT !.step = s].nth = c.nth
<1>. DEFINE L == AtMostOne(LeaseRecords(Time))
<1>0. Calls(S) = [step : S, request : RequestIds, principal : Principals,
                  op : Operations, selected : Seq(Nat), now : Time, budget : Nat,
                  lease : L, nth : Nat, ok : BOOLEAN]
  BY DEF Calls
<1>. HIDE DEF L
<1>. QED BY <1>0 DEF SameCall

LEMMA CallLeased ==
  ASSUME NEW S, NEW c \in Calls(S), NEW l \in AtMostOne(LeaseRecords(Time))
  PROVE  /\ [c EXCEPT !.lease = l] \in Calls(S)
         /\ SameCall(c, [c EXCEPT !.lease = l])
         /\ [c EXCEPT !.lease = l].step = c.step
         /\ [c EXCEPT !.lease = l].nth = c.nth
<1>. DEFINE L == AtMostOne(LeaseRecords(Time))
<1>0. Calls(S) = [step : S, request : RequestIds, principal : Principals,
                  op : Operations, selected : Seq(Nat), now : Time, budget : Nat,
                  lease : L, nth : Nat, ok : BOOLEAN]
  BY DEF Calls
<1>1. l \in L
  OBVIOUS
<1>. HIDE DEF L
<1>. QED BY <1>0, <1>1 DEF SameCall

LEMMA CallAdmitted ==
  ASSUME NEW S, NEW c \in Calls(S), NEW n \in Nat
  PROVE  /\ [c EXCEPT !.nth = n] \in Calls(S)
         /\ SameCall(c, [c EXCEPT !.nth = n])
         /\ [c EXCEPT !.nth = n].step = c.step
         /\ [c EXCEPT !.nth = n].nth = n
<1>. DEFINE L == AtMostOne(LeaseRecords(Time))
<1>0. Calls(S) = [step : S, request : RequestIds, principal : Principals,
                  op : Operations, selected : Seq(Nat), now : Time, budget : Nat,
                  lease : L, nth : Nat, ok : BOOLEAN]
  BY DEF Calls
<1>. HIDE DEF L
<1>. QED BY <1>0 DEF SameCall

LEMMA CallAnswered ==
  ASSUME NEW S, NEW c \in Calls(S), NEW k \in BOOLEAN
  PROVE  /\ [c EXCEPT !.ok = k] \in Calls(S)
         /\ SameCall(c, [c EXCEPT !.ok = k])
         /\ [c EXCEPT !.ok = k].step = c.step
         /\ [c EXCEPT !.ok = k].nth = c.nth
<1>. DEFINE L == AtMostOne(LeaseRecords(Time))
<1>0. Calls(S) = [step : S, request : RequestIds, principal : Principals,
                  op : Operations, selected : Seq(Nat), now : Time, budget : Nat,
                  lease : L, nth : Nat, ok : BOOLEAN]
  BY DEF Calls
<1>. HIDE DEF L
<1>. QED BY <1>0 DEF SameCall

\* A thread is idle or at a step of a call.
LEMMA ThreadStates ==
  ASSUME CallsTyped, NEW t \in Threads
  PROVE  /\ outer[t] = Idle \/ outer[t] \in Calls(OuterSteps)
         /\ inner[t] = Idle \/ inner[t] \in Calls(InnerSteps)
         /\ outer[t].step = "idle" <=> outer[t] = Idle
         /\ inner[t].step = "idle" <=> inner[t] = Idle
         /\ Idle.step = "idle"
<1>1. outer[t] \in {Idle} \cup Calls(OuterSteps) /\ inner[t] \in {Idle} \cup Calls(InnerSteps)
  BY DEF CallsTyped
<1>2. Idle.step = "idle"
  BY DEF Idle
<1>3. \A c \in Calls(OuterSteps) : c.step # "idle"
  BY CallFields DEF OuterSteps
<1>4. \A c \in Calls(InnerSteps) : c.step # "idle"
  BY CallFields DEF InnerSteps
<1>. QED BY <1>1, <1>2, <1>3, <1>4

\* The end of an admission: its call is no longer pending, and every other one is as it was.
LEMMA AdmissionEnds ==
  ASSUME BusInv, NEW h \in handles, Finish(h)
  PROVE  /\ BusInv' /\ UNCHANGED <<operations, clock, handles, admissions>>
         /\ \A r : IsPending(r)' <=> IsPending(r) /\ r # h.request
         /\ \A r : IsPending(r)' => /\ calls'[r].principal = calls[r].principal
                                    /\ calls'[r].nth = calls[r].nth
<1>. DEFINE order == <<h.request>>
            ended == {order[i] : i \in 1 .. Len(order)}
<1>1. EndCall(h, "Finished") /\ "Finished" \in AdmissionStates \ {"Pending"}
  BY DEF Finish, AdmissionStates
<1>2. BusInv' /\ UNCHANGED <<operations, clock, handles, admissions>>
  BY <1>1, FinishCancelPreserves DEF EndCall
<1>3. h.request \in DOMAIN calls /\ calls[h.request].state = "Pending"
  BY <1>1 DEF EndCall, IsPending
<1>4. /\ order \in Seq(DOMAIN calls) /\ Len(order) = 1 /\ order[1] = h.request
      /\ ended = {h.request} /\ RecordTerminal(order, "Finished")
  BY <1>1, <1>3 DEF EndCall
<1>5. /\ \A i \in 1 .. Len(order) : calls[order[i]].state = "Pending"
      /\ \A i, j \in 1 .. Len(order) : order[i] = order[j] => i = j
  BY <1>3, <1>4
<1>. HIDE DEF order
<1>6. /\ DOMAIN calls' \subseteq DOMAIN calls
      /\ \A r \in DOMAIN calls' : calls'[r] = [calls[r] EXCEPT !.state = calls'[r].state]
      /\ \A p : PendingOf(p)' = PendingOf(p) \ {h.request}
  <2>1. BusTypeOK /\ TombstonesExact
    BY DEF BusInv
  <2>2. /\ DOMAIN calls' \subseteq DOMAIN calls
        /\ \A r \in DOMAIN calls' : calls'[r] = [calls[r] EXCEPT !.state = calls'[r].state]
        /\ \A p : PendingOf(p)' = PendingOf(p) \ {order[i] : i \in 1 .. Len(order)}
    BY <1>1, <1>4, <1>5, <2>1, RecordTerminalEffect
  <2>. QED BY <1>4, <2>2
<1>7. \A r \in DOMAIN calls : calls[r] \in CallRecords
  BY DEF BusInv, BusTypeOK
<1>8. \A r \in DOMAIN calls' : /\ calls'[r].principal = calls[r].principal
                               /\ calls'[r].nth = calls[r].nth
  BY <1>6, <1>7 DEF CallRecords
<1>9. ASSUME NEW r PROVE IsPending(r)' <=> IsPending(r) /\ r # h.request
  <2>1. ASSUME IsPending(r)' PROVE IsPending(r) /\ r # h.request
    <3>1. PICK q : q = calls'[r].principal
      OBVIOUS
    <3>2. r \in PendingOf(q)'
      BY <2>1, <3>1 DEF IsPending, PendingOf
    <3>. QED BY <1>6, <3>2 DEF IsPending, PendingOf
  <2>2. ASSUME IsPending(r), r # h.request PROVE IsPending(r)'
    <3>1. PICK q : q = calls[r].principal
      OBVIOUS
    <3>2. r \in PendingOf(q) \ {h.request}
      BY <2>2, <3>1 DEF IsPending, PendingOf
    <3>3. r \in PendingOf(q)'
      BY <1>6, <3>2
    <3>. QED BY <3>3 DEF IsPending, PendingOf
  <2>. QED BY <2>1, <2>2
<1>. QED BY <1>2, <1>8, <1>9 DEF IsPending

\* A new admission: the handle was never given out, and every other call is as it was.
LEMMA AdmissionBegins ==
  ASSUME BusInv, Countable, NEW r \in RequestIds, NEW p \in Principals, NEW op \in Operations,
         NEW deadline \in 1 .. MaxTime + 1, NEW lease, NEW now,
         Begin(r, p, op, deadline, lease, now),
         NEW h, h = [request |-> r, principal |-> p, nth |-> admissions'[r]]
  PROVE  /\ BusInv' /\ UNCHANGED <<operations, clock>>
         /\ admissions' = [admissions EXCEPT ![r] = admissions[r] + 1]
         /\ admissions'[r] \in Nat
         /\ handles' = handles \cup {h} /\ h \notin handles
         /\ ~ IsPending(r) /\ IsPending(r)'
         /\ calls'[r].principal = p /\ calls'[r].nth = admissions'[r]
         /\ \A x : x # r => /\ IsPending(x)' <=> IsPending(x)
                            /\ IsPending(x) => calls'[x] = calls[x]
<1>1. BusInv'
  BY BeginPreserves
<1>2. r \notin DOMAIN calls /\ admissions \in [RequestIds -> Nat]
  BY DEF Begin, AdmissionError, IsDuplicate, BusInv, BusTypeOK
<1>3. /\ admissions' = [admissions EXCEPT ![r] = admissions[r] + 1]
      /\ UNCHANGED <<operations, clock>>
      /\ handles' = handles \cup {[request |-> r, principal |-> p, nth |-> admissions[r] + 1]}
      /\ calls' = [x \in DOMAIN calls \cup {r} |->
                      IF x = r
                      THEN [principal |-> p, operation |-> op,
                            deadline |-> deadline, state |-> "Pending",
                            nth |-> admissions[r] + 1]
                      ELSE calls[x]]
  BY DEF Begin
<1>4. admissions'[r] = admissions[r] + 1 /\ admissions[r] \in Nat /\ admissions'[r] \in Nat
  BY <1>2, <1>3
<1>5. h.request = r /\ h.nth = admissions[r] + 1
  BY <1>4
<1>6. h \notin handles
  <2>1. ASSUME h \in handles PROVE FALSE
    <3>1. h.nth <= admissions[h.request]
      BY <2>1 DEF Countable
    <3>. QED BY <1>4, <1>5, <3>1
  <2>. QED BY <2>1
<1>7. handles' = handles \cup {h}
  BY <1>3, <1>4
<1>8. /\ DOMAIN calls' = DOMAIN calls \cup {r}
      /\ calls'[r].principal = p /\ calls'[r].nth = admissions[r] + 1 /\ calls'[r].state = "Pending"
      /\ \A x \in DOMAIN calls : calls'[x] = calls[x]
  BY <1>2, <1>3
<1>. QED BY <1>1, <1>2, <1>3, <1>4, <1>6, <1>7, <1>8 DEF IsPending

-----------------------------------------------------------------------------
(* What a step may leave alone *)

LEMMA AdmissionsStay ==
  ASSUME AdmissionsHeld, UNCHANGED <<calls, handles>>,
         OuterAdmitted' = OuterAdmitted, InnerAdmitted' = InnerAdmitted,
         \A t \in OuterAdmitted : /\ outer'[t].request = outer[t].request
                                  /\ outer'[t].principal = outer[t].principal
                                  /\ outer'[t].nth = outer[t].nth,
         \A t \in InnerAdmitted : /\ inner'[t].request = inner[t].request
                                  /\ inner'[t].principal = inner[t].principal
                                  /\ inner'[t].nth = inner[t].nth
  PROVE  AdmissionsHeld'
<1>1. ASSUME NEW t \in OuterAdmitted PROVE HoldsAdmission(outer[t])'
  BY <1>1 DEF AdmissionsHeld, HoldsAdmission, IsPending, HandleOf
<1>2. ASSUME NEW t \in InnerAdmitted PROVE HoldsAdmission(inner[t])'
  BY <1>2 DEF AdmissionsHeld, HoldsAdmission, IsPending, HandleOf
<1>3. \A t, u \in OuterAdmitted : outer'[t].request = outer'[u].request => t = u
  BY DEF AdmissionsHeld
<1>4. \A r \in DOMAIN calls : IsPending(r) =>
        \/ \E t \in OuterAdmitted : outer'[t].request = r
        \/ \E t \in InnerAdmitted : inner'[t].request = r
  BY DEF AdmissionsHeld
<1>. QED BY <1>1, <1>2, <1>3, <1>4 DEF AdmissionsHeld, IsPending

LEMMA CountsStay ==
  ASSUME Countable, AdmissionsAudited, UNCHANGED <<handles, admissions>>,
         \A p \in Principals :
            /\ Unaudited(p)' = Unaudited(p) /\ Unrecorded(p)' = Unrecorded(p)
            /\ audited'[p]["Completed"] = audited[p]["Completed"]
            /\ audited'[p]["Failed"] = audited[p]["Failed"]
  PROVE  Countable' /\ AdmissionsAudited'
BY DEF Countable, AdmissionsAudited

HandlesOf(p) == {h \in handles : h.principal = p}

LEMMA OneMore ==
  ASSUME NEW S, IsFiniteSet(S), NEW x, x \notin S, NEW T, T = S \cup {x}
  PROVE  IsFiniteSet(T) /\ Cardinality(T) = Cardinality(S) + 1 /\ Cardinality(S) \in Nat
BY FS_AddElement, FS_CardinalityType

LEMMA OneLess ==
  ASSUME NEW S, IsFiniteSet(S), NEW x \in S, NEW T, T = S \ {x}
  PROVE  IsFiniteSet(T) /\ Cardinality(S) = Cardinality(T) + 1 /\ Cardinality(T) \in Nat
<1>1. IsFiniteSet(T) /\ Cardinality(T) = Cardinality(S) - 1 /\ Cardinality(S) \in Nat
  BY FS_RemoveElement, FS_CardinalityType
<1>2. Cardinality(T) \in Nat
  BY <1>1, FS_CardinalityType
<1>. QED BY <1>1, <1>2

\* An admission is owed an audit event: one more handle, one more call to be recorded.
LEMMA CountsAdmit ==
  ASSUME Countable, AdmissionsAudited, audited \in [Principals -> [Outcomes -> Nat]],
         audited' = audited, NEW h, h \notin handles, handles' = handles \cup {h},
         h.nth <= admissions'[h.request],
         \A x \in handles : x.nth <= admissions'[x.request],
         NEW t, NEW q \in Principals, h.principal = q,
         \/ /\ \A p \in Principals : Unrecorded(p)' = Unrecorded(p)
            /\ \A p \in Principals : Unaudited(p)' = IF p = q THEN Unaudited(p) \cup {t} ELSE Unaudited(p)
            /\ t \notin Unaudited(q)
         \/ /\ \A p \in Principals : Unaudited(p)' = Unaudited(p)
            /\ \A p \in Principals : Unrecorded(p)' = IF p = q THEN Unrecorded(p) \cup {t} ELSE Unrecorded(p)
            /\ t \notin Unrecorded(q)
  PROVE  Countable' /\ AdmissionsAudited'
<1>1. ASSUME NEW p \in Principals
      PROVE  /\ IsFiniteSet(Unaudited(p)') /\ IsFiniteSet(Unrecorded(p)')
             /\ Cardinality(Unaudited(p)) \in Nat /\ Cardinality(Unrecorded(p)) \in Nat
             /\ Cardinality(Unaudited(p)') + Cardinality(Unrecorded(p)')
                  = Cardinality(Unaudited(p)) + Cardinality(Unrecorded(p)) + IF p = q THEN 1 ELSE 0
  <2>1. /\ IsFiniteSet(Unaudited(p)) /\ IsFiniteSet(Unrecorded(p))
        /\ Cardinality(Unaudited(p)) \in Nat /\ Cardinality(Unrecorded(p)) \in Nat
    BY FS_CardinalityType DEF Countable
  <2>2. CASE p # q
    BY <2>1, <2>2
  <2>3. CASE p = q
    <3>1. CASE Unaudited(q)' = Unaudited(q) \cup {t} /\ t \notin Unaudited(q) /\ Unrecorded(q)' = Unrecorded(q)
      <4>1. IsFiniteSet(Unaudited(q)') /\ Cardinality(Unaudited(q)') = Cardinality(Unaudited(q)) + 1
        BY <2>1, <2>3, <3>1, OneMore
      <4>. QED BY <2>1, <2>3, <3>1, <4>1
    <3>2. CASE Unrecorded(q)' = Unrecorded(q) \cup {t} /\ t \notin Unrecorded(q) /\ Unaudited(q)' = Unaudited(q)
      <4>1. IsFiniteSet(Unrecorded(q)') /\ Cardinality(Unrecorded(q)') = Cardinality(Unrecorded(q)) + 1
        BY <2>1, <2>3, <3>2, OneMore
      <4>. QED BY <2>1, <2>3, <3>2, <4>1
    <3>. QED BY <3>1, <3>2
  <2>. QED BY <2>2, <2>3
<1>2. ASSUME NEW p \in Principals
      PROVE  Cardinality(HandlesOf(p)') = Cardinality(HandlesOf(p)) + IF p = q THEN 1 ELSE 0
  <2>1. IsFiniteSet(HandlesOf(p)) /\ Cardinality(HandlesOf(p)) \in Nat
    <3>1. HandlesOf(p) \in SUBSET handles
      BY DEF HandlesOf
    <3>. QED BY <3>1, FS_Subset, FS_CardinalityType DEF Countable
  <2>2. CASE p = q
    <3>1. HandlesOf(p)' = HandlesOf(p) \cup {h} /\ h \notin HandlesOf(p)
      BY <2>2 DEF HandlesOf
    <3>. QED BY <2>1, <2>2, <3>1, OneMore
  <2>3. CASE p # q
    <3>1. HandlesOf(p)' = HandlesOf(p)
      BY <2>3 DEF HandlesOf
    <3>. QED BY <2>1, <2>3, <3>1
  <2>. QED BY <2>2, <2>3
<1>3. Countable'
  <2>1. IsFiniteSet(handles')
    BY FS_AddElement DEF Countable
  <2>2. \A x \in handles' : x.nth <= admissions'[x.request]
    OBVIOUS
  <2>. QED BY <1>1, <2>1, <2>2 DEF Countable
<1>4. ASSUME NEW p \in Principals
      PROVE  audited'[p]["Completed"] + audited'[p]["Failed"]
                + Cardinality(Unaudited(p)') + Cardinality(Unrecorded(p)')
             = Cardinality(HandlesOf(p)')
  <2>1. audited[p]["Completed"] \in Nat /\ audited[p]["Failed"] \in Nat
    BY DEF Outcomes
  <2>2. audited[p]["Completed"] + audited[p]["Failed"]
           + Cardinality(Unaudited(p)) + Cardinality(Unrecorded(p))
        = Cardinality(HandlesOf(p))
    BY DEF AdmissionsAudited, HandlesOf
  <2>3. Cardinality(Unaudited(p)') \in Nat /\ Cardinality(Unrecorded(p)') \in Nat
    BY <1>1, FS_CardinalityType
  <2>. QED BY <1>1, <1>2, <2>1, <2>2, <2>3
<1>. QED BY <1>3, <1>4 DEF AdmissionsAudited, HandlesOf

\* An audit event settles what one admission was owed.
LEMMA CountsRecord ==
  ASSUME Countable, AdmissionsAudited, audited \in [Principals -> [Outcomes -> Nat]],
         UNCHANGED <<handles, admissions>>,
         NEW q \in Principals, NEW o \in {"Completed", "Failed"}, Audit(q, o), NEW t,
         \/ /\ \A p \in Principals : Unrecorded(p)' = Unrecorded(p)
            /\ \A p \in Principals : Unaudited(p)' = IF p = q THEN Unaudited(p) \ {t} ELSE Unaudited(p)
            /\ t \in Unaudited(q)
         \/ /\ \A p \in Principals : Unaudited(p)' = Unaudited(p)
            /\ \A p \in Principals : Unrecorded(p)' = IF p = q THEN Unrecorded(p) \ {t} ELSE Unrecorded(p)
            /\ t \in Unrecorded(q)
  PROVE  Countable' /\ AdmissionsAudited' /\ audited' \in [Principals -> [Outcomes -> Nat]]
<1>0. /\ audited' \in [Principals -> [Outcomes -> Nat]]
      /\ \A p \in Principals :
            /\ audited[p]["Completed"] \in Nat /\ audited[p]["Failed"] \in Nat
            /\ audited'[p]["Completed"] \in Nat /\ audited'[p]["Failed"] \in Nat
            /\ audited'[p]["Completed"] + audited'[p]["Failed"]
                 = audited[p]["Completed"] + audited[p]["Failed"] + IF p = q THEN 1 ELSE 0
  BY DEF Audit, Outcomes
<1>1. ASSUME NEW p \in Principals
      PROVE  /\ IsFiniteSet(Unaudited(p)') /\ IsFiniteSet(Unrecorded(p)')
             /\ Cardinality(Unaudited(p)) \in Nat /\ Cardinality(Unrecorded(p)) \in Nat
             /\ Cardinality(Unaudited(p)') \in Nat /\ Cardinality(Unrecorded(p)') \in Nat
             /\ Cardinality(Unaudited(p)) + Cardinality(Unrecorded(p))
                  = Cardinality(Unaudited(p)') + Cardinality(Unrecorded(p)') + IF p = q THEN 1 ELSE 0
  <2>1. /\ IsFiniteSet(Unaudited(p)) /\ IsFiniteSet(Unrecorded(p))
        /\ Cardinality(Unaudited(p)) \in Nat /\ Cardinality(Unrecorded(p)) \in Nat
    BY FS_CardinalityType DEF Countable
  <2>2. CASE p # q
    BY <2>1, <2>2
  <2>3. CASE p = q
    <3>1. CASE Unaudited(q)' = Unaudited(q) \ {t} /\ t \in Unaudited(q) /\ Unrecorded(q)' = Unrecorded(q)
      <4>1. /\ IsFiniteSet(Unaudited(q)') /\ Cardinality(Unaudited(q)') = Cardinality(Unaudited(q)) - 1
            /\ Cardinality(Unaudited(q)') \in Nat
        BY <2>1, <2>3, <3>1, FS_RemoveElement, FS_CardinalityType
      <4>. QED BY <2>1, <2>3, <3>1, <4>1
    <3>2. CASE Unrecorded(q)' = Unrecorded(q) \ {t} /\ t \in Unrecorded(q) /\ Unaudited(q)' = Unaudited(q)
      <4>1. /\ IsFiniteSet(Unrecorded(q)') /\ Cardinality(Unrecorded(q)') = Cardinality(Unrecorded(q)) - 1
            /\ Cardinality(Unrecorded(q)') \in Nat
        BY <2>1, <2>3, <3>2, FS_RemoveElement, FS_CardinalityType
      <4>. QED BY <2>1, <2>3, <3>2, <4>1
    <3>. QED BY <3>1, <3>2
  <2>. QED BY <2>2, <2>3
<1>2. Countable'
  BY <1>1 DEF Countable
<1>3. AdmissionsAudited'
  <2>1. ASSUME NEW p \in Principals
        PROVE  audited'[p]["Completed"] + audited'[p]["Failed"]
                  + Cardinality(Unaudited(p)') + Cardinality(Unrecorded(p)')
               = Cardinality(HandlesOf(p))
    <3>1. audited[p]["Completed"] + audited[p]["Failed"]
             + Cardinality(Unaudited(p)) + Cardinality(Unrecorded(p))
          = Cardinality(HandlesOf(p))
      BY DEF AdmissionsAudited, HandlesOf
    <3>. DEFINE A == audited[p]["Completed"] + audited[p]["Failed"]
                B == audited'[p]["Completed"] + audited'[p]["Failed"]
                C == Cardinality(Unaudited(p)) + Cardinality(Unrecorded(p))
                D == Cardinality(Unaudited(p)') + Cardinality(Unrecorded(p)')
                K == IF p = q THEN 1 ELSE 0
    <3>2. A \in Nat /\ B \in Nat /\ B = A + K
      BY <1>0
    <3>3. C \in Nat /\ D \in Nat /\ C = D + K
      BY <1>1
    <3>4. A + C = Cardinality(HandlesOf(p))
      BY <1>0, <1>1, <3>1
    <3>5. audited'[p]["Completed"] + audited'[p]["Failed"]
                  + Cardinality(Unaudited(p)') + Cardinality(Unrecorded(p)') = B + D
      BY <1>0, <1>1
    <3>6. K \in Nat
      OBVIOUS
    <3>. HIDE DEF A, B, C, D, K
    <3>7. B + D = A + C
      BY <3>2, <3>3, <3>6
    <3>. QED BY <3>4, <3>5, <3>7
  <2>2. \A p \in Principals : HandlesOf(p)' = HandlesOf(p)
    BY DEF HandlesOf
  <2>. QED BY <2>1, <2>2 DEF AdmissionsAudited, HandlesOf
<1>. QED BY <1>0, <1>2, <1>3

-----------------------------------------------------------------------------
(* Steps of one thread that leave the bus alone *)

OuterHolds == {"dispatch", "audit", "finish"}
InnerHolds == {"dispatch", "finish"}

\* What a call keeps when it goes on to another step without the bus.
SameAdmission(c, d, holding) ==
  /\ d.step \in holding <=> c.step \in holding
  /\ d.step \in holding => /\ d.request = c.request /\ d.principal = c.principal
                           /\ d.nth = c.nth

LEMMA OuterStep ==
  ASSUME GatewayInv, NEW t \in Threads, NEW c \in {Idle} \cup Calls(OuterSteps),
         outer' = [outer EXCEPT ![t] = c], OuterPlaced(c),
         SameAdmission(outer[t], c, OuterHolds),
         UNCHANGED <<busVars, inner, sequence>>,
         audited' \in [Principals -> [Outcomes -> Nat]],
         returned' \in [Principals -> Nat],
         Policy!PolicyTypeOK', DOMAIN leases' = DOMAIN leases,
         \A id \in DOMAIN leases : leases'[id].revokedAt = leases[id].revokedAt,
         Countable', AdmissionsAudited'
  PROVE  GatewayInv'
<1>1. outer \in [Threads -> {Idle} \cup Calls(OuterSteps)]
  BY DEF GatewayInv, CallsTyped
<1>2. outer'[t] = c /\ \A u \in Threads : u # t => outer'[u] = outer[u]
  BY <1>1
<1>3. BusInv'
  <2>1. operations' \subseteq Operations /\ clock' \in Time
    BY DEF busVars, GatewayInv, BusInv, BusTypeOK
  <2>. QED BY <2>1, BusInvFrame DEF busVars, GatewayInv
<1>4. CallsTyped'
  <2>1. outer' \in [Threads -> {Idle} \cup Calls(OuterSteps)]
    BY <1>1
  <2>2. inner' \in [Threads -> {Idle} \cup Calls(InnerSteps)] /\ sequence' \in Nat \ {0}
    BY DEF GatewayInv, CallsTyped
  <2>. QED BY <2>1, <2>2 DEF CallsTyped
<1>5. CallsPlaced'
  <2>1. \A u \in Threads : OuterPlaced(outer'[u])
    BY <1>2 DEF GatewayInv, CallsPlaced
  <2>2. \A u \in Threads : InnerPlaced(inner[u])'
    BY DEF GatewayInv, CallsPlaced, InnerPlaced
  <2>3. \A u, v \in Threads :
          inner'[u] # Idle /\ inner'[v] # Idle /\ inner'[u].request = inner'[v].request => u = v
    BY DEF GatewayInv, CallsPlaced
  <2>. QED BY <2>1, <2>2, <2>3 DEF CallsPlaced, OuterPlaced
<1>6. AdmissionsHeld'
  <2>1. \A u \in Threads : outer'[u].step \in OuterHolds <=> outer[u].step \in OuterHolds
    BY <1>2 DEF SameAdmission
  <2>2. OuterAdmitted' = OuterAdmitted
    BY <2>1 DEF OuterAdmitted, OuterHolds
  <2>3. InnerAdmitted' = InnerAdmitted
    BY DEF InnerAdmitted
  <2>4. \A u \in OuterAdmitted : /\ outer'[u].request = outer[u].request
                                 /\ outer'[u].principal = outer[u].principal
                                 /\ outer'[u].nth = outer[u].nth
    BY <1>2 DEF OuterAdmitted, SameAdmission, OuterHolds
  <2>5. \A u \in InnerAdmitted : /\ inner'[u].request = inner[u].request
                                 /\ inner'[u].principal = inner[u].principal
                                 /\ inner'[u].nth = inner[u].nth
    OBVIOUS
  <2>6. UNCHANGED <<calls, handles>> /\ AdmissionsHeld
    BY DEF busVars, GatewayInv
  <2>. QED BY <2>2, <2>3, <2>4, <2>5, <2>6, AdmissionsStay
<1>7. LeasesFollow'
  <2>1. LeasesFollow /\ admissions' = admissions
    BY DEF GatewayInv, busVars
  <2>. QED BY <2>1 DEF LeasesFollow, LeaseIdOf
<1>8. AdmittedWorkerLeasesRevoked'
  <2>1. AdmittedWorkerLeasesRevoked /\ admissions' = admissions
    BY DEF GatewayInv, busVars
  <2>2. \A id : InProgress(id)' <=> InProgress(id)
    BY DEF InProgress, LeaseIdOf
  <2>. QED BY <2>1, <2>2 DEF AdmittedWorkerLeasesRevoked
<1>. QED BY <1>3, <1>4, <1>5, <1>6, <1>7, <1>8 DEF GatewayInv

LEMMA InnerStep ==
  ASSUME GatewayInv, NEW t \in Threads, NEW c \in {Idle} \cup Calls(InnerSteps),
         inner' = [inner EXCEPT ![t] = c], InnerPlaced(c)',
         SameAdmission(inner[t], c, InnerHolds),
         UNCHANGED <<busVars, outer>>, sequence' \in Nat, sequence' >= sequence,
         c # Idle => IF inner[t] = Idle
                     THEN LeaseIdOf(c) = sequence
                     ELSE c.request = inner[t].request /\ LeaseIdOf(c) = LeaseIdOf(inner[t]),
         c.step \in {"grant", "begin"} => admissions[c.request] = 0,
         c.step = "audit" => LeaseIdOf(c) \in DOMAIN leases'
                             /\ leases'[LeaseIdOf(c)].revokedAt # None,
         audited' \in [Principals -> [Outcomes -> Nat]],
         returned' \in [Principals -> Nat],
         Policy!PolicyTypeOK',
         \A id \in DOMAIN leases :
            id \in DOMAIN leases' /\ (leases[id].revokedAt # None => leases'[id].revokedAt # None),
         \A id \in DOMAIN leases' : leases'[id].revokedAt = None =>
            \/ id \in DOMAIN leases /\ leases[id].revokedAt = None
            \/ c # Idle /\ id = LeaseIdOf(c),
         c = Idle /\ inner[t] # Idle /\ LeaseIdOf(inner[t]) \in DOMAIN leases =>
            \/ leases[LeaseIdOf(inner[t])].revokedAt # None
            \/ admissions[inner[t].request] = 0,
         Countable', AdmissionsAudited'
  PROVE  GatewayInv'
<1>1. inner \in [Threads -> {Idle} \cup Calls(InnerSteps)] /\ sequence \in Nat \ {0}
  BY DEF GatewayInv, CallsTyped
<1>2. inner'[t] = c /\ \A u \in Threads : u # t => inner'[u] = inner[u]
  BY <1>1
<1>3. BusInv'
  <2>1. operations' \subseteq Operations /\ clock' \in Time
    BY DEF busVars, GatewayInv, BusInv, BusTypeOK
  <2>. QED BY <2>1, BusInvFrame DEF busVars, GatewayInv
<1>4. CallsTyped'
  <2>1. inner' \in [Threads -> {Idle} \cup Calls(InnerSteps)] /\ sequence' \in Nat \ {0}
    BY <1>1
  <2>2. outer' \in [Threads -> {Idle} \cup Calls(OuterSteps)]
    BY DEF GatewayInv, CallsTyped
  <2>. QED BY <2>1, <2>2 DEF CallsTyped
<1>5. CallsPlaced'
  <2>1. \A u \in Threads : OuterPlaced(outer[u])'
    BY DEF GatewayInv, CallsPlaced, OuterPlaced
  <2>2. ASSUME NEW u \in Threads PROVE InnerPlaced(inner[u])'
    <3>1. CASE u = t
      BY <1>2, <3>1 DEF InnerPlaced, LeaseIdOf
    <3>2. CASE u # t
      <4>1. inner'[u] = inner[u] /\ InnerPlaced(inner[u])
        BY <1>2, <3>2 DEF GatewayInv, CallsPlaced
      <4>. QED BY <1>1, <4>1 DEF InnerPlaced, LeaseIdOf, Sequences
    <3>. QED BY <3>1, <3>2
  <2>3. ASSUME NEW u \in Threads, u # t, inner[u] # Idle, c # Idle PROVE inner[u].request # c.request
    <3>1. InnerPlaced(inner[u]) /\ InnerPlaced(inner[t])
      BY DEF GatewayInv, CallsPlaced
    <3>2. CASE inner[t] # Idle
      BY <2>3, <3>2 DEF GatewayInv, CallsPlaced
    <3>3. CASE inner[t] = Idle
      <4>1. c.request = WorkerRequest(LeaseIdOf(c)) /\ LeaseIdOf(c) \in Sequences /\ LeaseIdOf(c) = sequence
        BY <2>3, <3>3 DEF InnerPlaced, LeaseIdOf
      <4>2. /\ inner[u].request = WorkerRequest(LeaseIdOf(inner[u]))
            /\ LeaseIdOf(inner[u]) \in Sequences /\ LeaseIdOf(inner[u]) < sequence
        BY <2>3, <3>1 DEF InnerPlaced
      <4>3. LeaseIdOf(inner[u]) # sequence
        BY <1>1, <4>2 DEF Sequences
      <4>. QED BY <4>1, <4>2, <4>3, GatewayAssumption
    <3>. QED BY <3>2, <3>3
  <2>4. \A u, v \in Threads :
          inner'[u] # Idle /\ inner'[v] # Idle /\ inner'[u].request = inner'[v].request => u = v
    BY <1>2, <2>3 DEF GatewayInv, CallsPlaced
  <2>. QED BY <2>1, <2>2, <2>4 DEF CallsPlaced
<1>6. AdmissionsHeld'
  <2>1. \A u \in Threads : inner'[u].step \in InnerHolds <=> inner[u].step \in InnerHolds
    BY <1>2 DEF SameAdmission
  <2>2. InnerAdmitted' = InnerAdmitted
    BY <2>1 DEF InnerAdmitted, InnerHolds
  <2>3. OuterAdmitted' = OuterAdmitted
    BY DEF OuterAdmitted
  <2>4. \A u \in InnerAdmitted : /\ inner'[u].request = inner[u].request
                                 /\ inner'[u].principal = inner[u].principal
                                 /\ inner'[u].nth = inner[u].nth
    BY <1>2 DEF InnerAdmitted, SameAdmission, InnerHolds
  <2>5. \A u \in OuterAdmitted : /\ outer'[u].request = outer[u].request
                                 /\ outer'[u].principal = outer[u].principal
                                 /\ outer'[u].nth = outer[u].nth
    OBVIOUS
  <2>6. UNCHANGED <<calls, handles>> /\ AdmissionsHeld
    BY DEF busVars, GatewayInv
  <2>. QED BY <2>2, <2>3, <2>4, <2>5, <2>6, AdmissionsStay
<1>7. LeasesFollow'
  <2>1. LeasesFollow /\ admissions' = admissions
    BY DEF GatewayInv, busVars
  <2>2. \A n \in Sequences : n >= sequence' => admissions'[WorkerRequest(n)] = 0
    BY <1>1, <2>1 DEF LeasesFollow, Sequences
  <2>3. ASSUME NEW u \in Threads
        PROVE  /\ inner'[u].step \in {"grant", "begin"} => admissions'[inner'[u].request] = 0
               /\ inner'[u].step = "audit" =>
                     /\ LeaseIdOf(inner'[u]) \in DOMAIN leases'
                     /\ leases'[LeaseIdOf(inner'[u])].revokedAt # None
    <3>1. CASE u = t
      BY <1>2, <2>1, <3>1
    <3>2. CASE u # t
      BY <1>2, <2>1, <3>2 DEF LeasesFollow
    <3>. QED BY <3>1, <3>2
  <2>. QED BY <2>2, <2>3 DEF LeasesFollow, LeaseIdOf
<1>8. AdmittedWorkerLeasesRevoked'
  <2>1. AdmittedWorkerLeasesRevoked /\ admissions' = admissions
    BY DEF GatewayInv, busVars
  <2>2. ASSUME NEW id \in DOMAIN leases', leases'[id].revokedAt = None,
               ~ \E u \in Threads : inner'[u] # Idle /\ LeaseIdOf(inner'[u]) = id
        PROVE  admissions[WorkerRequest(id)] = 0
    <3>1. id \in DOMAIN leases /\ leases[id].revokedAt = None
      BY <1>2, <2>2
    <3>2. CASE \E u \in Threads : inner[u] # Idle /\ LeaseIdOf(inner[u]) = id
      <4>1. PICK u \in Threads : inner[u] # Idle /\ LeaseIdOf(inner[u]) = id
        BY <3>2
      <4>2. u = t
        BY <1>2, <2>2, <4>1
      <4>3. c = Idle
        BY <1>2, <2>2, <4>1, <4>2
      <4>4. inner[t].request = WorkerRequest(LeaseIdOf(inner[t]))
        BY <4>1, <4>2 DEF GatewayInv, CallsPlaced, InnerPlaced
      <4>. QED BY <3>1, <4>1, <4>2, <4>3, <4>4
    <3>3. CASE ~ \E u \in Threads : inner[u] # Idle /\ LeaseIdOf(inner[u]) = id
      BY <2>1, <3>1, <3>3 DEF AdmittedWorkerLeasesRevoked, InProgress
    <3>. QED BY <3>2, <3>3
  <2>. QED BY <2>1, <2>2 DEF AdmittedWorkerLeasesRevoked, InProgress, LeaseIdOf
<1>. QED BY <1>3, <1>4, <1>5, <1>6, <1>7, <1>8 DEF GatewayInv

-----------------------------------------------------------------------------
(* The steps of a call of the native UI *)

\* Nothing that is counted changes when no call is admitted or recorded.
LEMMA OuterCountsStay ==
  ASSUME GatewayInv, NEW t \in Threads, NEW c,
         outer' = [outer EXCEPT ![t] = c], c.step \in {"dispatch", "audit"} <=> outer[t].step \in {"dispatch", "audit"},
         c.step \in {"dispatch", "audit"} => c.principal = outer[t].principal,
         UNCHANGED <<busVars, inner>>,
         \A p \in Principals : /\ audited'[p]["Completed"] = audited[p]["Completed"]
                               /\ audited'[p]["Failed"] = audited[p]["Failed"]
  PROVE  Countable' /\ AdmissionsAudited'
<1>1. outer'[t] = c /\ \A u \in Threads : u # t => outer'[u] = outer[u]
  BY DEF GatewayInv, CallsTyped
<1>2. \A p \in Principals : Unaudited(p)' = Unaudited(p)
  BY <1>1 DEF Unaudited
<1>3. \A p \in Principals : Unrecorded(p)' = Unrecorded(p)
  BY DEF Unrecorded
<1>4. UNCHANGED <<handles, admissions>> /\ Countable /\ AdmissionsAudited
  BY DEF busVars, GatewayInv
<1>. QED BY <1>2, <1>3, <1>4, CountsStay

LEMMA InnerCountsStay ==
  ASSUME GatewayInv, NEW t \in Threads, NEW c, NEW S, S = {"dispatch", "finish", "revoke", "audit"},
         inner' = [inner EXCEPT ![t] = c], c.step \in S <=> inner[t].step \in S,
         c.step \in S => c.principal = inner[t].principal,
         UNCHANGED <<handles, admissions, outer>>,
         \A p \in Principals : /\ audited'[p]["Completed"] = audited[p]["Completed"]
                               /\ audited'[p]["Failed"] = audited[p]["Failed"]
  PROVE  Countable' /\ AdmissionsAudited'
<1>1. inner'[t] = c /\ \A u \in Threads : u # t => inner'[u] = inner[u]
  BY DEF GatewayInv, CallsTyped
<1>2. \A p \in Principals : Unrecorded(p)' = Unrecorded(p)
  BY <1>1 DEF Unrecorded
<1>3. \A p \in Principals : Unaudited(p)' = Unaudited(p)
  BY DEF Unaudited
<1>4. Countable /\ AdmissionsAudited
  BY DEF GatewayInv
<1>. QED BY <1>2, <1>3, <1>4, CountsStay

\* The types that an unchanged ledger and history keep.
LEMMA LedgersTyped ==
  ASSUME GatewayInv
  PROVE  /\ audited \in [Principals -> [Outcomes -> Nat]] /\ returned \in [Principals -> Nat]
         /\ Policy!PolicyTypeOK /\ Countable /\ AdmissionsAudited
         /\ UNCHANGED <<leases, grantOf, clock>> => Policy!PolicyTypeOK'
         /\ \A p \in Principals : Return(p) => returned' \in [Principals -> Nat]
<1>1. /\ audited \in [Principals -> [Outcomes -> Nat]] /\ returned \in [Principals -> Nat]
      /\ Policy!PolicyTypeOK /\ Countable /\ AdmissionsAudited
  BY DEF GatewayInv, CallsTyped
<1>2. UNCHANGED <<leases, grantOf, clock>> => Policy!PolicyTypeOK'
  BY <1>1 DEF Policy!PolicyTypeOK
<1>3. ASSUME NEW p \in Principals, Return(p) PROVE returned' \in [Principals -> Nat]
  BY <1>1, <1>3 DEF Return
<1>. QED BY <1>1, <1>2, <1>3

\* A call that goes on keeps its place and, if it holds one, its admission.
LEMMA OuterGoesOn ==
  ASSUME GatewayInv, NEW t \in Threads, outer[t] # Idle, NEW c \in Calls(OuterSteps),
         SameCall(outer[t], c)
  PROVE  OuterPlaced(c) /\ c # Idle
<1>1. OuterPlaced(outer[t])
  BY DEF GatewayInv, CallsPlaced
<1>2. c # Idle
  BY CallFields DEF OuterSteps, Idle
<1>. QED BY <1>1, <1>2 DEF OuterPlaced, SameCall

LEMMA ArrivePreserves ==
  ASSUME GatewayInv, NEW t \in Threads, NEW r \in UIRequests, NEW op \in Operations,
         NEW selected \in Seq(Nat), NEW budget \in Budgets, Arrive(t, r, op, selected, budget)
  PROVE  GatewayInv'
<1>. DEFINE c == [step |-> "authorize", request |-> r, principal |-> NativeUI,
                  op |-> op, selected |-> selected, now |-> clock,
                  budget |-> budget, lease |-> None, nth |-> 0, ok |-> FALSE]
            L == AtMostOne(LeaseRecords(Time))
<1>1. outer' = [outer EXCEPT ![t] = c] /\ outer[t].step = "idle" /\ clock + budget <= MaxTime
      /\ UNCHANGED <<busVars, policyState, inner, sequence, audited, returned>>
  BY DEF Arrive, At
<1>2. c \in Calls(OuterSteps)
  <2>1. None \in L
    BY DEF AtMostOne, None
  <2>2. clock \in Time /\ r \in RequestIds /\ NativeUI \in Principals /\ budget \in Nat
    BY GatewayAssumption DEF GatewayInv, BusInv, BusTypeOK
  <2>. HIDE DEF L
  <2>3. Calls(OuterSteps) =
          [step : OuterSteps, request : RequestIds, principal : Principals,
           op : Operations, selected : Seq(Nat), now : Time, budget : Nat,
           lease : L, nth : Nat, ok : BOOLEAN]
    BY DEF Calls, L
  <2>4. "authorize" \in OuterSteps
    BY DEF OuterSteps
  <2>. QED BY <2>1, <2>2, <2>3, <2>4
<1>3. budget > 0
  BY GatewayAssumption
<1>4. OuterPlaced(c) /\ c.step = "authorize"
  BY <1>1, <1>3 DEF OuterPlaced
<1>. HIDE DEF c
<1>5. SameAdmission(outer[t], c, OuterHolds)
  BY <1>1, <1>4 DEF SameAdmission, OuterHolds
<1>6. c.step \in {"dispatch", "audit"} <=> outer[t].step \in {"dispatch", "audit"}
  BY <1>1, <1>4
<1>7. Countable' /\ AdmissionsAudited'
  BY <1>1, <1>4, <1>6, OuterCountsStay
<1>8. Policy!PolicyTypeOK' /\ audited' \in [Principals -> [Outcomes -> Nat]] /\ returned' \in [Principals -> Nat]
  BY <1>1, LedgersTyped DEF busVars, policyState
<1>9. /\ DOMAIN leases' = DOMAIN leases
      /\ \A id \in DOMAIN leases : leases'[id].revokedAt = leases[id].revokedAt
      /\ UNCHANGED <<busVars, inner, sequence>>
  BY <1>1 DEF policyState
<1>10. c \in {Idle} \cup Calls(OuterSteps)
  BY <1>2
<1>. QED BY <1>1, <1>4, <1>5, <1>7, <1>8, <1>9, <1>10, OuterStep

\* A UI call ends: nothing that is placed or held by it is left.
LEMMA OuterGoesIdle ==
  ASSUME GatewayInv, NEW t \in Threads, outer' = [outer EXCEPT ![t] = Idle],
         outer[t].step \in {"authorize", "begin"},
         UNCHANGED <<busVars, policyState, inner, sequence>>,
         audited' \in [Principals -> [Outcomes -> Nat]], returned' \in [Principals -> Nat],
         \A p \in Principals : /\ audited'[p]["Completed"] = audited[p]["Completed"]
                               /\ audited'[p]["Failed"] = audited[p]["Failed"]
  PROVE  GatewayInv'
<1>1. Idle.step = "idle"
  BY DEF Idle
<1>2. OuterPlaced(Idle)
  BY DEF OuterPlaced
<1>3. SameAdmission(outer[t], Idle, OuterHolds)
  BY <1>1 DEF SameAdmission, OuterHolds
<1>4. Idle.step \in {"dispatch", "audit"} <=> outer[t].step \in {"dispatch", "audit"}
  BY <1>1
<1>5. Countable' /\ AdmissionsAudited'
  BY <1>1, <1>4, OuterCountsStay
<1>6. Policy!PolicyTypeOK'
  BY LedgersTyped DEF busVars, policyState
<1>7. /\ DOMAIN leases' = DOMAIN leases
      /\ \A id \in DOMAIN leases : leases'[id].revokedAt = leases[id].revokedAt
      /\ UNCHANGED <<busVars, inner, sequence>>
  BY DEF policyState
<1>8. Idle \in {Idle} \cup Calls(OuterSteps)
  OBVIOUS
<1>. QED BY <1>2, <1>3, <1>5, <1>6, <1>7, <1>8, OuterStep

\* The lease a call is authorized with is of the ledger or made up for it.
LEMMA AuthorizePreserves ==
  ASSUME GatewayInv, NEW t \in Threads, Authorize(t)
  PROVE  GatewayInv'
<1>1. PICK lease \in AuthorizedWith(outer[t]) :
        outer' = [outer EXCEPT ![t].step = "begin", ![t].lease = Some(lease)]
  BY DEF Authorize
<1>2. outer[t].step = "authorize" /\ UNCHANGED <<busVars, policyState, inner, sequence, audited, returned>>
  BY DEF Authorize, At
<1>3. outer[t] \in Calls(OuterSteps) /\ outer[t] # Idle
  BY <1>2, ThreadStates DEF GatewayInv
<1>5. lease \in LeaseRecords(Time)
  <2>1. CASE \E id \in DOMAIN leases : lease = leases[id]
    BY <2>1 DEF GatewayInv, CallsTyped, Policy!PolicyTypeOK, Policy!Time, Policy!LeaseRecords,
                LeaseRecords, Time, Policy!Option, Option, Policy!Some, Some, Policy!None, None,
                Policy!Scopes, Scopes
  <2>2. CASE lease = CallLease(outer[t].principal, outer[t].op, outer[t].now, outer[t].now + outer[t].budget)
    <3>1. /\ outer[t].principal \in Principals /\ outer[t].op \in Operations
          /\ outer[t].now \in Time /\ outer[t].budget \in Nat
          /\ outer[t].now + outer[t].budget <= MaxTime
      BY <1>3, CallFields DEF GatewayInv, CallsPlaced, OuterPlaced
    <3>2. outer[t].now + outer[t].budget \in Time /\ RequiredCapability[outer[t].op] \in CapabilityNames
      BY <3>1, BusAssumption DEF Time
    <3>3. Some(outer[t].now + outer[t].budget) \in Option(Time) /\ None \in Option(Time) /\ Global \in Scopes
      BY <3>2 DEF Option, Scopes
    <3>. QED BY <2>2, <3>1, <3>2, <3>3 DEF CallLease, LeaseRecords
  <2>. QED BY <1>1, <2>1, <2>2 DEF AuthorizedWith
<1>6. Some(lease) \in AtMostOne(LeaseRecords(Time))
  BY <1>5 DEF AtMostOne, Some
<1>7. PICK b : b = [outer[t] EXCEPT !.step = "begin"]
  OBVIOUS
<1>8. b \in Calls(OuterSteps) /\ SameCall(outer[t], b) /\ b.step = "begin"
  BY <1>3, <1>7, CallMoves DEF OuterSteps
<1>0. PICK c : c = [b EXCEPT !.lease = Some(lease)]
  OBVIOUS
<1>4. outer' = [outer EXCEPT ![t] = c]
  BY <1>0, <1>1, <1>3, <1>7 DEF GatewayInv, CallsTyped
<1>15. c \in Calls(OuterSteps) /\ SameCall(outer[t], c) /\ c.step = "begin"
  BY <1>0, <1>6, <1>8, CallLeased DEF SameCall
<1>9. OuterPlaced(c) /\ c \in {Idle} \cup Calls(OuterSteps)
  BY <1>3, <1>15, OuterGoesOn
<1>10. SameAdmission(outer[t], c, OuterHolds)
  BY <1>2, <1>15 DEF SameAdmission, OuterHolds
<1>11. c.step \in {"dispatch", "audit"} <=> outer[t].step \in {"dispatch", "audit"}
  BY <1>2, <1>15
<1>12. Countable' /\ AdmissionsAudited'
  BY <1>2, <1>4, <1>15, <1>11, OuterCountsStay
<1>13. Policy!PolicyTypeOK' /\ audited' \in [Principals -> [Outcomes -> Nat]] /\ returned' \in [Principals -> Nat]
  BY <1>2, LedgersTyped DEF busVars, policyState
<1>14. /\ DOMAIN leases' = DOMAIN leases
       /\ \A id \in DOMAIN leases : leases'[id].revokedAt = leases[id].revokedAt
       /\ UNCHANGED <<busVars, inner, sequence>>
  BY <1>2 DEF policyState
<1>. QED BY <1>4, <1>9, <1>10, <1>12, <1>13, <1>14, OuterStep

LEMMA DenyPreserves ==
  ASSUME GatewayInv, NEW t \in Threads, Deny(t)
  PROVE  GatewayInv'
<1>1. /\ outer[t].step = "authorize" /\ outer' = [outer EXCEPT ![t] = Idle]
      /\ UNCHANGED <<busVars, policyState, inner, sequence>>
      /\ Audit(NativeUI, "Denied") /\ Return(NativeUI)
  BY DEF Deny, At
<1>2. returned' \in [Principals -> Nat]
  BY <1>1, LedgersTyped, GatewayAssumption
<1>3. /\ audited' \in [Principals -> [Outcomes -> Nat]]
      /\ \A p \in Principals : /\ audited'[p]["Completed"] = audited[p]["Completed"]
                               /\ audited'[p]["Failed"] = audited[p]["Failed"]
  <2>1. NativeUI \in Principals /\ audited \in [Principals -> [Outcomes -> Nat]]
    BY LedgersTyped, GatewayAssumption
  <2>2. audited' = [audited EXCEPT ![NativeUI]["Denied"] = @ + 1]
    BY <1>1 DEF Audit
  <2>. QED BY <2>1, <2>2 DEF Outcomes
<1>. QED BY <1>1, <1>2, <1>3, OuterGoesIdle

LEMMA RefusePreserves ==
  ASSUME GatewayInv, NEW t \in Threads, RefuseCall(t)
  PROVE  GatewayInv'
<1>1. /\ outer[t].step = "begin" /\ outer' = [outer EXCEPT ![t] = Idle]
      /\ UNCHANGED <<busVars, policyState, inner, sequence>>
      /\ Return(NativeUI) /\ audited' = audited
  BY DEF RefuseCall, At
<1>2. returned' \in [Principals -> Nat] /\ audited' \in [Principals -> [Outcomes -> Nat]]
  BY <1>1, LedgersTyped, GatewayAssumption
<1>. QED BY <1>1, <1>2, OuterGoesIdle

\* A handler that answers, whatever it does to the ends of the leases.
LEMMA AnswerPreserves ==
  ASSUME GatewayInv, NEW t \in Threads, NEW k \in BOOLEAN,
         outer[t].step = "dispatch",
         outer' = [outer EXCEPT ![t].step = "audit", ![t].ok = k],
         UNCHANGED <<busVars, inner, sequence, audited, returned>>,
         Policy!PolicyTypeOK', DOMAIN leases' = DOMAIN leases,
         \A id \in DOMAIN leases : leases'[id].revokedAt = leases[id].revokedAt
  PROVE  GatewayInv'
<1>3. outer[t] \in Calls(OuterSteps) /\ outer[t] # Idle
  BY ThreadStates DEF GatewayInv
<1>4. PICK b : b = [outer[t] EXCEPT !.step = "audit"]
  OBVIOUS
<1>5. /\ b \in Calls(OuterSteps) /\ SameCall(outer[t], b) /\ b.step = "audit"
      /\ b.nth = outer[t].nth
  BY <1>3, <1>4, CallMoves DEF OuterSteps
<1>6. PICK c : c = [b EXCEPT !.ok = k]
  OBVIOUS
<1>7. outer' = [outer EXCEPT ![t] = c]
  BY <1>3, <1>4, <1>6 DEF GatewayInv, CallsTyped
<1>8. /\ c \in Calls(OuterSteps) /\ SameCall(outer[t], c) /\ c.step = "audit"
      /\ c.nth = outer[t].nth
  BY <1>5, <1>6, CallAnswered DEF SameCall
<1>9. OuterPlaced(c) /\ c \in {Idle} \cup Calls(OuterSteps)
  BY <1>3, <1>8, OuterGoesOn
<1>10. SameAdmission(outer[t], c, OuterHolds)
  BY <1>8 DEF SameAdmission, OuterHolds, SameCall
<1>11. /\ c.step \in {"dispatch", "audit"} <=> outer[t].step \in {"dispatch", "audit"}
       /\ c.principal = outer[t].principal
  BY <1>8 DEF SameCall
<1>12. Countable' /\ AdmissionsAudited'
  BY <1>7, <1>11, OuterCountsStay
<1>13. audited' \in [Principals -> [Outcomes -> Nat]] /\ returned' \in [Principals -> Nat]
  BY LedgersTyped
<1>. QED BY <1>7, <1>9, <1>10, <1>12, <1>13, OuterStep

LEMMA HandlerPreserves ==
  ASSUME GatewayInv, NEW t \in Threads, NEW k \in BOOLEAN, HandlerReturns(t, k)
  PROVE  GatewayInv'
<1>1. /\ outer[t].step = "dispatch"
      /\ outer' = [outer EXCEPT ![t].step = "audit", ![t].ok = k]
      /\ UNCHANGED <<busVars, policyState, inner, sequence, audited, returned>>
  BY DEF HandlerReturns, At
<1>2. Policy!PolicyTypeOK'
  BY <1>1, LedgersTyped DEF busVars, policyState
<1>3. DOMAIN leases' = DOMAIN leases /\ \A id \in DOMAIN leases : leases'[id].revokedAt = leases[id].revokedAt
  BY <1>1 DEF policyState
<1>. QED BY <1>1, <1>2, <1>3, AnswerPreserves

\* The policy of the gateway speaks of the same leases as the bus.
LEMMA SameRecords ==
  /\ Policy!Time = Time /\ Policy!Option(Policy!Time) = Option(Time)
  /\ Policy!LeaseRecords(Policy!Time) = LeaseRecords(Time)
BY DEF Policy!Time, Time, Policy!LeaseRecords, LeaseRecords, Policy!Option, Option,
       Policy!Some, Some, Policy!None, None, Policy!Scopes, Scopes

\* A lease that is in the ledger and takes a new end or is revoked.
LEMMA LeaseChanges ==
  ASSUME NEW l \in LeaseRecords(Time), NEW v \in Option(Time)
  PROVE  /\ [l EXCEPT !.expiresAt = v] \in LeaseRecords(Time)
         /\ [l EXCEPT !.expiresAt = v].revokedAt = l.revokedAt
         /\ [l EXCEPT !.revokedAt = v] \in LeaseRecords(Time)
         /\ [l EXCEPT !.revokedAt = v].revokedAt = v
<1>. DEFINE O == Option(Time)
<1>1. LeaseRecords(Time) =
        [principal : Principals, capability : CapabilityNames, scope : Scopes,
         issuedAt : Time, expiresAt : O, revokedAt : O]
  BY DEF LeaseRecords
<1>2. v \in O
  OBVIOUS
<1>. HIDE DEF O
<1>. QED BY <1>1, <1>2

LEMMA RenewPreserves ==
  ASSUME GatewayInv, NEW t \in Threads, NEW id, NEW expires \in Option(Time), NEW now,
         RenewReturns(t, id, expires, now)
  PROVE  GatewayInv'
<1>1. /\ outer[t].step = "dispatch"
      /\ outer' = [outer EXCEPT ![t].step = "audit", ![t].ok = TRUE]
      /\ UNCHANGED <<busVars, inner, sequence, audited, returned>>
      /\ Policy!RenewLease(Kernel, id, expires, now)
  BY DEF RenewReturns, At
<1>2. /\ id \in DOMAIN leases /\ leases' = [leases EXCEPT ![id].expiresAt = expires]
      /\ grantOf' = grantOf /\ clock' = clock
  BY <1>1 DEF Policy!RenewLease
<1>3. /\ leases \in [DOMAIN leases -> LeaseRecords(Time)] /\ DOMAIN leases \subseteq Sequences
      /\ grantOf \in [DOMAIN leases -> Policy!Grants] /\ clock \in Policy!Time
  BY SameRecords DEF GatewayInv, CallsTyped, Policy!PolicyTypeOK
<1>4. PICK l : l = [leases[id] EXCEPT !.expiresAt = expires]
  OBVIOUS
<1>5. l \in LeaseRecords(Time) /\ l.revokedAt = leases[id].revokedAt
  BY <1>2, <1>3, <1>4, LeaseChanges
<1>6. leases' = [leases EXCEPT ![id] = l]
  BY <1>2, <1>4
<1>7. DOMAIN leases' = DOMAIN leases
  BY <1>6
<1>8. leases' \in [DOMAIN leases' -> LeaseRecords(Time)]
  BY <1>2, <1>3, <1>5, <1>6
<1>9. Policy!PolicyTypeOK'
  BY <1>2, <1>3, <1>7, <1>8, SameRecords DEF Policy!PolicyTypeOK
<1>10. \A x \in DOMAIN leases : leases'[x].revokedAt = leases[x].revokedAt
  BY <1>2, <1>5, <1>6
<1>. QED BY <1>1, <1>7, <1>9, <1>10, AnswerPreserves

\* The audit event of an admitted UI call.
LEMMA AuditCallPreserves ==
  ASSUME GatewayInv, NEW t \in Threads, AuditCall(t)
  PROVE  GatewayInv'
<1>1. /\ outer[t].step = "audit" /\ outer' = [outer EXCEPT ![t].step = "finish"]
      /\ UNCHANGED <<busVars, policyState, inner, sequence, returned>>
      /\ Audit(NativeUI, Outcome(outer[t]))
  BY DEF AuditCall, At
<1>2. outer[t] \in Calls(OuterSteps) /\ outer[t] # Idle /\ outer[t].principal = NativeUI
  <2>1. outer[t] \in Calls(OuterSteps) /\ outer[t] # Idle
    BY <1>1, ThreadStates DEF GatewayInv
  <2>. QED BY <2>1 DEF GatewayInv, CallsPlaced, OuterPlaced
<1>3. PICK c : c = [outer[t] EXCEPT !.step = "finish"]
  OBVIOUS
<1>4. /\ c \in Calls(OuterSteps) /\ SameCall(outer[t], c) /\ c.step = "finish"
      /\ c.nth = outer[t].nth
  BY <1>2, <1>3, CallMoves DEF OuterSteps
<1>5. outer' = [outer EXCEPT ![t] = c]
  BY <1>1, <1>3
<1>6. OuterPlaced(c) /\ c \in {Idle} \cup Calls(OuterSteps)
  BY <1>2, <1>4, OuterGoesOn
<1>7. SameAdmission(outer[t], c, OuterHolds)
  BY <1>1, <1>4 DEF SameAdmission, OuterHolds, SameCall
<1>8. Countable' /\ AdmissionsAudited' /\ audited' \in [Principals -> [Outcomes -> Nat]]
  <2>1. outer'[t] = c /\ \A u \in Threads : u # t => outer'[u] = outer[u]
    BY <1>5 DEF GatewayInv, CallsTyped
  <2>2. \A p \in Principals : Unaudited(p)' = IF p = NativeUI THEN Unaudited(p) \ {t} ELSE Unaudited(p)
    BY <1>2, <1>4, <2>1 DEF Unaudited
  <2>3. t \in Unaudited(NativeUI)
    BY <1>1, <1>2 DEF Unaudited
  <2>4. \A p \in Principals : Unrecorded(p)' = Unrecorded(p)
    BY <1>1 DEF Unrecorded
  <2>5. Outcome(outer[t]) \in {"Completed", "Failed"} /\ NativeUI \in Principals
    BY GatewayAssumption DEF Outcome
  <2>6. UNCHANGED <<handles, admissions>>
    BY <1>1 DEF busVars
  <2>. HIDE DEF Outcome
  <2>. QED BY <1>1, <2>2, <2>3, <2>4, <2>5, <2>6, LedgersTyped, CountsRecord
<1>9. Policy!PolicyTypeOK' /\ returned' \in [Principals -> Nat]
  BY <1>1, LedgersTyped DEF busVars, policyState
<1>10. /\ DOMAIN leases' = DOMAIN leases
       /\ \A id \in DOMAIN leases : leases'[id].revokedAt = leases[id].revokedAt
       /\ UNCHANGED <<busVars, inner, sequence>>
  BY <1>1 DEF policyState
<1>. QED BY <1>5, <1>6, <1>7, <1>8, <1>9, <1>10, OuterStep

\* A UI call is admitted: it holds the admission that nobody else holds.
LEMMA BeginCallPreserves ==
  ASSUME GatewayInv, NEW t \in Threads, BeginCall(t)
  PROVE  GatewayInv'
<1>0. PICK r, h, q, o : /\ r = outer[t].request /\ q = outer[t].principal /\ o = outer[t].op
                       /\ h = [request |-> r, principal |-> q, nth |-> admissions'[r]]
  OBVIOUS
<1>1. /\ outer[t].step = "begin"
      /\ outer' = [outer EXCEPT ![t].step = "dispatch", ![t].nth = admissions'[r]]
      /\ UNCHANGED <<policyState, inner, sequence, audited, returned>>
  BY <1>0 DEF BeginCall, At
<1>2. PICK lease : Begin(r, q, o, outer[t].now + outer[t].budget,
                         lease, outer[t].now)
  BY <1>0 DEF BeginCall, Admit
<1>3. outer[t] \in Calls(OuterSteps) /\ outer[t] # Idle
  BY <1>1, ThreadStates DEF GatewayInv
<1>4. /\ r \in RequestIds /\ r \in UIRequests /\ q \in Principals /\ o \in Operations
      /\ outer[t].now + outer[t].budget \in 1 .. MaxTime + 1
  <2>1. /\ r \in RequestIds /\ q \in Principals /\ o \in Operations
        /\ outer[t].now \in Time /\ outer[t].budget \in Nat
    BY <1>0, <1>3, CallFields
  <2>2. r \in UIRequests /\ outer[t].budget > 0 /\ outer[t].now + outer[t].budget <= MaxTime
    BY <1>0, <1>3 DEF GatewayInv, CallsPlaced, OuterPlaced
  <2>. QED BY <2>1, <2>2, BusAssumption DEF Time
<1>5. /\ BusInv' /\ UNCHANGED <<operations, clock>>
      /\ admissions' = [admissions EXCEPT ![r] = admissions[r] + 1]
      /\ admissions'[r] \in Nat
      /\ handles' = handles \cup {h} /\ h \notin handles
      /\ ~ IsPending(r) /\ IsPending(r)'
      /\ calls'[r].principal = q /\ calls'[r].nth = admissions'[r]
      /\ \A x : x # r => /\ IsPending(x)' <=> IsPending(x)
                         /\ IsPending(x) => calls'[x] = calls[x]
  <2>1. BusInv /\ Countable
    BY DEF GatewayInv
  <2>2. PICK d : d = outer[t].now + outer[t].budget /\ d \in 1 .. MaxTime + 1
    BY <1>4
  <2>3. PICK n : n = outer[t].now
    OBVIOUS
  <2>4. Begin(r, q, o, d, lease, n)
    BY <1>2, <2>2, <2>3
  <2>5. h = [request |-> r, principal |-> q, nth |-> admissions'[r]]
    BY <1>0
  <2>. QED BY <1>4, <2>1, <2>2, <2>4, <2>5, AdmissionBegins
<1>6. PICK b : b = [outer[t] EXCEPT !.step = "dispatch"]
  OBVIOUS
<1>7. b \in Calls(OuterSteps) /\ SameCall(outer[t], b) /\ b.step = "dispatch"
  BY <1>3, <1>6, CallMoves DEF OuterSteps
<1>8. PICK c : c = [b EXCEPT !.nth = admissions'[r]]
  OBVIOUS
<1>9. /\ c \in Calls(OuterSteps) /\ SameCall(outer[t], c) /\ c.step = "dispatch"
      /\ c.nth = admissions'[r]
  BY <1>5, <1>7, <1>8, CallAdmitted DEF SameCall
<1>10. outer' = [outer EXCEPT ![t] = c]
  BY <1>1, <1>3, <1>6, <1>8 DEF GatewayInv, CallsTyped
<1>11. outer'[t] = c /\ \A u \in Threads : u # t => outer'[u] = outer[u]
  BY <1>10 DEF GatewayInv, CallsTyped
<1>12. OuterPlaced(c) /\ c.request = r /\ c.principal = q
  BY <1>0, <1>3, <1>9, OuterGoesOn DEF SameCall
<1>13. HandleOf(c) = h
  BY <1>0, <1>9, <1>12 DEF HandleOf
<1>14. CallsTyped'
  <2>1. outer' \in [Threads -> {Idle} \cup Calls(OuterSteps)]
    BY <1>9, <1>10 DEF GatewayInv, CallsTyped
  <2>2. inner' \in [Threads -> {Idle} \cup Calls(InnerSteps)] /\ sequence' \in Nat \ {0}
    BY <1>1 DEF GatewayInv, CallsTyped
  <2>3. Policy!PolicyTypeOK' /\ audited' \in [Principals -> [Outcomes -> Nat]] /\ returned' \in [Principals -> Nat]
    BY <1>1, <1>5, LedgersTyped DEF policyState
  <2>. QED BY <2>1, <2>2, <2>3 DEF CallsTyped
<1>15. CallsPlaced'
  <2>1. \A u \in Threads : OuterPlaced(outer'[u])
    BY <1>11, <1>12 DEF GatewayInv, CallsPlaced
  <2>2. \A u \in Threads : InnerPlaced(inner[u])'
    BY <1>1 DEF GatewayInv, CallsPlaced, InnerPlaced
  <2>3. \A u, v \in Threads :
          inner'[u] # Idle /\ inner'[v] # Idle /\ inner'[u].request = inner'[v].request => u = v
    BY <1>1 DEF GatewayInv, CallsPlaced
  <2>. QED BY <2>1, <2>2, <2>3 DEF CallsPlaced, OuterPlaced
<1>16. AdmissionsHeld'
  <2>1. OuterAdmitted' = OuterAdmitted \cup {t} /\ t \notin OuterAdmitted
    BY <1>1, <1>9, <1>11 DEF OuterAdmitted
  <2>2. InnerAdmitted' = InnerAdmitted
    BY <1>1 DEF InnerAdmitted
  <2>3. AdmissionsHeld
    BY DEF GatewayInv
  <2>4. HoldsAdmission(outer[t])'
    BY <1>5, <1>9, <1>11, <1>12, <1>13 DEF HoldsAdmission
  <2>5. ASSUME NEW d, HoldsAdmission(d) PROVE HoldsAdmission(d)' /\ d.request # r
    BY <1>5, <2>5 DEF HoldsAdmission
  <2>6. ASSUME NEW u \in OuterAdmitted PROVE HoldsAdmission(outer[u])' /\ outer'[u].request # r
    <3>1. u \in Threads /\ u # t /\ outer'[u] = outer[u] /\ HoldsAdmission(outer[u])
      BY <1>11, <2>1, <2>3 DEF AdmissionsHeld, OuterAdmitted
    <3>2. PICK d : d = outer[u]
      OBVIOUS
    <3>3. HoldsAdmission(d)' /\ d.request # r
      BY <2>5, <3>1, <3>2
    <3>. QED BY <3>1, <3>2, <3>3 DEF HoldsAdmission, HandleOf
  <2>7. ASSUME NEW u \in InnerAdmitted PROVE HoldsAdmission(inner[u])'
    <3>1. inner'[u] = inner[u] /\ HoldsAdmission(inner[u])
      BY <1>1, <2>3 DEF AdmissionsHeld
    <3>2. PICK d : d = inner[u]
      OBVIOUS
    <3>3. HoldsAdmission(d)'
      BY <2>5, <3>1, <3>2
    <3>. QED BY <3>1, <3>2, <3>3 DEF HoldsAdmission, HandleOf
  <2>8. \A u, v \in OuterAdmitted' : outer'[u].request = outer'[v].request => u = v
    BY <1>11, <1>12, <2>1, <2>3, <2>6 DEF AdmissionsHeld, OuterAdmitted
  <2>9. ASSUME NEW x \in DOMAIN calls', IsPending(x)'
        PROVE  \/ \E u \in OuterAdmitted' : outer'[u].request = x
               \/ \E u \in InnerAdmitted' : inner'[u].request = x
    <3>1. CASE x = r
      BY <1>11, <1>12, <2>1, <3>1
    <3>2. CASE x # r
      <4>1. IsPending(x) /\ x \in DOMAIN calls
        BY <1>5, <2>9, <3>2 DEF IsPending
      <4>2. \/ \E u \in OuterAdmitted : outer[u].request = x
            \/ \E u \in InnerAdmitted : inner[u].request = x
        BY <2>3, <4>1 DEF AdmissionsHeld
      <4>. QED BY <1>1, <1>11, <2>1, <2>2, <4>2 DEF OuterAdmitted
    <3>. QED BY <3>1, <3>2
  <2>. QED BY <1>11, <2>1, <2>2, <2>4, <2>6, <2>7, <2>8, <2>9 DEF AdmissionsHeld
<1>17. \A n \in Sequences : admissions'[WorkerRequest(n)] = admissions[WorkerRequest(n)]
  BY <1>4, <1>5, GatewayAssumption DEF GatewayInv, BusInv, BusTypeOK
<1>18. LeasesFollow'
  <2>1. LeasesFollow /\ UNCHANGED <<inner, sequence, leases>>
    BY <1>1 DEF GatewayInv, policyState
  <2>2. \A n \in Sequences : n >= sequence' => admissions'[WorkerRequest(n)] = 0
    BY <1>17, <2>1 DEF LeasesFollow
  <2>3. ASSUME NEW u \in Threads, inner[u].step \in {"grant", "begin"} PROVE admissions'[inner[u].request] = 0
    <3>1. inner[u] # Idle
      BY <2>3 DEF Idle
    <3>2. inner[u].request = WorkerRequest(LeaseIdOf(inner[u])) /\ LeaseIdOf(inner[u]) \in Sequences
      BY <3>1 DEF GatewayInv, CallsPlaced, InnerPlaced
    <3>. QED BY <1>17, <2>1, <2>3, <3>2 DEF LeasesFollow
  <2>. QED BY <2>1, <2>2, <2>3 DEF LeasesFollow, LeaseIdOf
<1>19. AdmittedWorkerLeasesRevoked'
  <2>1. AdmittedWorkerLeasesRevoked /\ UNCHANGED <<inner, leases>> /\ DOMAIN leases \subseteq Sequences
    BY <1>1 DEF GatewayInv, policyState, CallsTyped, Policy!PolicyTypeOK
  <2>2. \A id : InProgress(id)' <=> InProgress(id)
    BY <2>1 DEF InProgress, LeaseIdOf
  <2>. QED BY <1>17, <2>1, <2>2 DEF AdmittedWorkerLeasesRevoked
<1>20. Countable' /\ AdmissionsAudited'
  <2>1. h.principal = q /\ h.request = r /\ h.nth = admissions'[r]
    BY <1>0
  <2>2. \A x \in handles : x.nth <= admissions'[x.request]
    BY <1>4, <1>5 DEF GatewayInv, Countable, BusInv, BusTypeOK, Handles
  <2>3. \A p \in Principals : Unrecorded(p)' = Unrecorded(p)
    BY <1>1 DEF Unrecorded
  <2>4. \A p \in Principals :
           Unaudited(p)' = IF p = q THEN Unaudited(p) \cup {t} ELSE Unaudited(p)
    BY <1>0, <1>1, <1>9, <1>11, <1>12 DEF Unaudited
  <2>5. t \notin Unaudited(q)
    BY <1>1 DEF Unaudited
  <2>6. h.nth <= admissions'[h.request]
    BY <1>5, <2>1
  <2>7. audited' = audited
    BY <1>1
  <2>. QED BY <1>4, <1>5, <2>1, <2>2, <2>3, <2>4, <2>5, <2>6, <2>7, LedgersTyped, CountsAdmit
<1>. QED BY <1>5, <1>14, <1>15, <1>16, <1>18, <1>19, <1>20 DEF GatewayInv

\* The end of an admission in some thread leaves the other admissions where they are.
LEMMA OthersHold ==
  ASSUME NEW r, NEW d, HoldsAdmission(d), d.request # r, UNCHANGED handles,
         \A x : IsPending(x)' <=> IsPending(x) /\ x # r,
         \A x : IsPending(x)' => /\ calls'[x].principal = calls[x].principal
                                 /\ calls'[x].nth = calls[x].nth
  PROVE  HoldsAdmission(d)'
BY DEF HoldsAdmission

\* What a call of a worker is called by: its sequence number, which no UI call has.
LEMMA InnerPlace ==
  ASSUME GatewayInv, NEW t \in Threads, inner[t] # Idle
  PROVE  /\ LeaseIdOf(inner[t]) \in Sequences /\ LeaseIdOf(inner[t]) < sequence
         /\ inner[t].request = WorkerRequest(LeaseIdOf(inner[t]))
         /\ inner[t].request \notin UIRequests /\ inner[t].request \in RequestIds
         /\ inner[t].budget > 0 /\ inner[t].now + inner[t].budget <= MaxTime
         /\ \A n \in Sequences : WorkerRequest(n) = inner[t].request => n = LeaseIdOf(inner[t])
<1>1. InnerPlaced(inner[t])
  BY DEF GatewayInv, CallsPlaced
<1>. QED BY <1>1, GatewayAssumption DEF InnerPlaced

LEMMA FinishCallPreserves ==
  ASSUME GatewayInv, NEW t \in Threads, FinishCall(t)
  PROVE  GatewayInv'
<1>0. PICK r, h : r = outer[t].request /\ h = HandleOf(outer[t])
  OBVIOUS
<1>1. /\ outer[t].step = "finish" /\ outer' = [outer EXCEPT ![t] = Idle] /\ Finish(h)
      /\ UNCHANGED <<policyState, inner, sequence, audited>> /\ Return(NativeUI)
  BY <1>0 DEF FinishCall, At
<1>2. outer[t] # Idle /\ t \in OuterAdmitted /\ AdmissionsHeld
  BY <1>1 DEF Idle, OuterAdmitted, GatewayInv
<1>3. h \in handles /\ h.request = r
  BY <1>0, <1>2 DEF AdmissionsHeld, HoldsAdmission, HandleOf
<1>4. /\ BusInv' /\ UNCHANGED <<operations, clock, handles, admissions>>
      /\ \A x : IsPending(x)' <=> IsPending(x) /\ x # r
      /\ \A x : IsPending(x)' => /\ calls'[x].principal = calls[x].principal
                                 /\ calls'[x].nth = calls[x].nth
  <2>1. BusInv
    BY DEF GatewayInv
  <2>. QED BY <1>1, <1>3, <2>1, AdmissionEnds
<1>5. r \in UIRequests
  BY <1>0, <1>2 DEF GatewayInv, CallsPlaced, OuterPlaced
<1>6. outer'[t] = Idle /\ \A u \in Threads : u # t => outer'[u] = outer[u]
  BY <1>1 DEF GatewayInv, CallsTyped
<1>7. Idle.step = "idle"
  BY DEF Idle
<1>8. CallsTyped'
  <2>1. outer' \in [Threads -> {Idle} \cup Calls(OuterSteps)]
    BY <1>1 DEF GatewayInv, CallsTyped
  <2>2. inner' \in [Threads -> {Idle} \cup Calls(InnerSteps)] /\ sequence' \in Nat \ {0}
    BY <1>1 DEF GatewayInv, CallsTyped
  <2>3. Policy!PolicyTypeOK' /\ audited' \in [Principals -> [Outcomes -> Nat]] /\ returned' \in [Principals -> Nat]
    BY <1>1, <1>4, LedgersTyped, GatewayAssumption DEF policyState
  <2>. QED BY <2>1, <2>2, <2>3 DEF CallsTyped
<1>9. CallsPlaced'
  <2>1. \A u \in Threads : OuterPlaced(outer'[u])
    BY <1>6 DEF GatewayInv, CallsPlaced, OuterPlaced
  <2>2. \A u \in Threads : InnerPlaced(inner[u])'
    BY <1>1 DEF GatewayInv, CallsPlaced, InnerPlaced
  <2>3. \A u, v \in Threads :
          inner'[u] # Idle /\ inner'[v] # Idle /\ inner'[u].request = inner'[v].request => u = v
    BY <1>1 DEF GatewayInv, CallsPlaced
  <2>. QED BY <2>1, <2>2, <2>3 DEF CallsPlaced, OuterPlaced
<1>10. AdmissionsHeld'
  <2>1. OuterAdmitted' = OuterAdmitted \ {t}
    BY <1>6, <1>7 DEF OuterAdmitted
  <2>2. InnerAdmitted' = InnerAdmitted
    BY <1>1 DEF InnerAdmitted
  <2>3. ASSUME NEW u \in OuterAdmitted, u # t PROVE HoldsAdmission(outer[u])' /\ outer'[u] = outer[u]
    <3>1. outer'[u] = outer[u] /\ HoldsAdmission(outer[u]) /\ outer[u].request # r
      BY <1>0, <1>2, <1>6, <2>3 DEF AdmissionsHeld, OuterAdmitted
    <3>2. PICK d : d = outer[u]
      OBVIOUS
    <3>3. HoldsAdmission(d)'
      BY <1>4, <3>1, <3>2, OthersHold
    <3>. QED BY <3>1, <3>2, <3>3 DEF HoldsAdmission, HandleOf
  <2>4. ASSUME NEW u \in InnerAdmitted PROVE HoldsAdmission(inner[u])'
    <3>1. inner'[u] = inner[u] /\ HoldsAdmission(inner[u])
      BY <1>1, <1>2, <2>4 DEF AdmissionsHeld
    <3>2. u \in Threads /\ inner[u] # Idle
      BY <2>4 DEF InnerAdmitted, Idle
    <3>3. inner[u].request # r
      BY <1>5, <3>2, InnerPlace
    <3>4. PICK d : d = inner[u]
      OBVIOUS
    <3>5. HoldsAdmission(d)'
      BY <1>4, <3>1, <3>3, <3>4, OthersHold
    <3>. QED BY <3>1, <3>4, <3>5 DEF HoldsAdmission, HandleOf
  <2>5. \A u, v \in OuterAdmitted' : outer'[u].request = outer'[v].request => u = v
    BY <1>2, <2>1, <2>3 DEF AdmissionsHeld
  <2>6. ASSUME NEW x \in DOMAIN calls', IsPending(x)'
        PROVE  \/ \E u \in OuterAdmitted' : outer'[u].request = x
               \/ \E u \in InnerAdmitted' : inner'[u].request = x
    <3>1. IsPending(x) /\ x \in DOMAIN calls /\ x # r
      BY <1>4, <2>6 DEF IsPending
    <3>2. \/ \E u \in OuterAdmitted : outer[u].request = x
          \/ \E u \in InnerAdmitted : inner[u].request = x
      BY <1>2, <3>1 DEF AdmissionsHeld
    <3>. QED BY <1>0, <1>1, <2>1, <2>2, <2>3, <3>1, <3>2
  <2>. QED BY <2>1, <2>2, <2>3, <2>4, <2>5, <2>6 DEF AdmissionsHeld
<1>11. LeasesFollow' /\ AdmittedWorkerLeasesRevoked'
  <2>1. LeasesFollow /\ AdmittedWorkerLeasesRevoked /\ UNCHANGED <<inner, sequence, leases, admissions>>
    BY <1>1, <1>4 DEF GatewayInv, policyState
  <2>2. \A id : InProgress(id)' <=> InProgress(id)
    BY <2>1 DEF InProgress, LeaseIdOf
  <2>. QED BY <2>1, <2>2 DEF LeasesFollow, LeaseIdOf, AdmittedWorkerLeasesRevoked
<1>12. Countable' /\ AdmissionsAudited'
  <2>1. \A p \in Principals : Unaudited(p)' = Unaudited(p) /\ Unrecorded(p)' = Unrecorded(p)
    BY <1>1, <1>6, <1>7 DEF Unaudited, Unrecorded
  <2>. QED BY <1>1, <1>4, <2>1, LedgersTyped, CountsStay
<1>. QED BY <1>4, <1>8, <1>9, <1>10, <1>11, <1>12 DEF GatewayInv

-----------------------------------------------------------------------------
(* The steps of a call of a worker *)

InnerRecorded == {"dispatch", "finish", "revoke", "audit"}

\* A call that goes on keeps its place.
LEMMA InnerGoesOn ==
  ASSUME GatewayInv, NEW t \in Threads, inner[t] # Idle, NEW c \in Calls(InnerSteps),
         SameCall(inner[t], c), sequence' = sequence
  PROVE  /\ InnerPlaced(c)' /\ c # Idle /\ c \in {Idle} \cup Calls(InnerSteps)
         /\ c.request = inner[t].request /\ LeaseIdOf(c) = LeaseIdOf(inner[t])
<1>1. InnerPlaced(inner[t])
  BY DEF GatewayInv, CallsPlaced
<1>2. c # Idle
  BY CallFields DEF InnerSteps, Idle
<1>3. c.request = inner[t].request /\ LeaseIdOf(c) = LeaseIdOf(inner[t])
  BY DEF SameCall, LeaseIdOf
<1>. QED BY <1>1, <1>2, <1>3 DEF InnerPlaced, SameCall, LeaseIdOf

LEMMA WorkerCallPreserves ==
  ASSUME GatewayInv, NEW t \in Threads, NEW p \in Plugins, NEW op \in WorkerOperations,
         NEW budget \in Budgets, WorkerCall(t, p, op, budget)
  PROVE  GatewayInv'
<1>. DEFINE L == AtMostOne(LeaseRecords(Time))
<1>0. PICK c : c = [step |-> "grant", request |-> WorkerRequest(sequence),
                    principal |-> p, op |-> op, selected |-> <<sequence>>,
                    now |-> outer[t].now, budget |-> budget, lease |-> None,
                    nth |-> 0, ok |-> FALSE]
  OBVIOUS
<1>1. /\ outer[t].step = "dispatch" /\ inner[t].step = "idle" /\ sequence <= MaxSequence
      /\ outer[t].now + budget <= MaxTime
      /\ sequence' = sequence + 1 /\ inner' = [inner EXCEPT ![t] = c]
      /\ UNCHANGED <<busVars, policyState, outer, audited, returned>>
  BY <1>0 DEF WorkerCall, At
<1>2. sequence \in Sequences /\ sequence \in Nat /\ MaxSequence \in Nat
  BY <1>1, GatewayAssumption DEF GatewayInv, CallsTyped, Sequences
<1>3. WorkerRequest(sequence) \in RequestIds \ UIRequests /\ budget \in Nat /\ budget > 0
  BY <1>2, GatewayAssumption
<1>4. inner[t] = Idle /\ outer[t] \in Calls(OuterSteps)
  BY <1>1, ThreadStates DEF GatewayInv
<1>5. c \in Calls(InnerSteps)
  <2>1. None \in L
    BY DEF AtMostOne, None
  <2>2. outer[t].now \in Time
    BY <1>4, CallFields
  <2>3. p \in Principals /\ op \in Operations
    BY GatewayAssumption DEF Plugins
  <2>4. <<sequence>> \in Seq(Nat)
    BY <1>2
  <2>. HIDE DEF L
  <2>5. Calls(InnerSteps) =
          [step : InnerSteps, request : RequestIds, principal : Principals,
           op : Operations, selected : Seq(Nat), now : Time, budget : Nat,
           lease : L, nth : Nat, ok : BOOLEAN]
    BY DEF Calls, L
  <2>6. "grant" \in InnerSteps
    BY DEF InnerSteps
  <2>. QED BY <1>0, <1>3, <2>1, <2>2, <2>3, <2>4, <2>5, <2>6
<1>6. /\ c.step = "grant" /\ c.request = WorkerRequest(sequence) /\ LeaseIdOf(c) = sequence
      /\ c.selected = <<LeaseIdOf(c)>> /\ c.budget = budget /\ c.now = outer[t].now
  BY <1>0 DEF LeaseIdOf
<1>7. InnerPlaced(c)' /\ c \in {Idle} \cup Calls(InnerSteps)
  BY <1>1, <1>2, <1>3, <1>5, <1>6 DEF InnerPlaced
<1>8. SameAdmission(inner[t], c, InnerHolds)
  BY <1>1, <1>6 DEF SameAdmission, InnerHolds
<1>9. admissions[c.request] = 0
  BY <1>2, <1>6 DEF GatewayInv, LeasesFollow
<1>10. c.step \in InnerRecorded <=> inner[t].step \in InnerRecorded
  BY <1>1, <1>6 DEF InnerRecorded
<1>11. Countable' /\ AdmissionsAudited'
  <2>1. UNCHANGED <<handles, admissions, outer>>
    BY <1>1 DEF busVars
  <2>2. c.step \notin InnerRecorded
    BY <1>6 DEF InnerRecorded
  <2>. QED BY <1>1, <1>10, <2>1, <2>2, InnerCountsStay DEF InnerRecorded
<1>12. Policy!PolicyTypeOK' /\ audited' \in [Principals -> [Outcomes -> Nat]] /\ returned' \in [Principals -> Nat]
  BY <1>1, LedgersTyped DEF busVars, policyState
<1>13. leases' = leases /\ UNCHANGED <<busVars, outer>> /\ sequence' \in Nat /\ sequence' >= sequence
  BY <1>1, <1>2 DEF policyState
<1>14. c.step # "audit" /\ c # Idle
  BY <1>6 DEF Idle
<1>. QED BY <1>1, <1>4, <1>6, <1>7, <1>8, <1>9, <1>11, <1>12, <1>13, <1>14, InnerStep

\* A worker's call moves to another step, with the bus as it is and no lease issued.
LEMMA InnerMoves ==
  ASSUME GatewayInv, NEW t \in Threads, inner[t] # Idle, NEW c \in Calls(InnerSteps),
         SameCall(inner[t], c), inner' = [inner EXCEPT ![t] = c],
         SameAdmission(inner[t], c, InnerHolds),
         c.step \in InnerRecorded, inner[t].step \in InnerRecorded,
         UNCHANGED <<busVars, outer, sequence, audited, returned>>,
         c.step = "audit" => LeaseIdOf(c) \in DOMAIN leases'
                             /\ leases'[LeaseIdOf(c)].revokedAt # None,
         Policy!PolicyTypeOK', DOMAIN leases' = DOMAIN leases,
         \A id \in DOMAIN leases : leases[id].revokedAt # None => leases'[id].revokedAt # None
  PROVE  GatewayInv'
<1>1. /\ InnerPlaced(c)' /\ c # Idle /\ c \in {Idle} \cup Calls(InnerSteps)
      /\ c.request = inner[t].request /\ LeaseIdOf(c) = LeaseIdOf(inner[t])
  BY InnerGoesOn
<1>2. c.step \notin {"grant", "begin"}
  BY DEF InnerRecorded
<1>3. Countable' /\ AdmissionsAudited'
  <2>1. UNCHANGED <<handles, admissions, outer>>
    BY DEF busVars
  <2>2. c.principal = inner[t].principal
    BY DEF SameCall
  <2>. QED BY <2>1, <2>2, InnerCountsStay DEF InnerRecorded
<1>4. audited' \in [Principals -> [Outcomes -> Nat]] /\ returned' \in [Principals -> Nat]
  BY LedgersTyped
<1>5. sequence' \in Nat /\ sequence' >= sequence /\ UNCHANGED <<busVars, outer>>
  BY DEF GatewayInv, CallsTyped
<1>. QED BY <1>1, <1>2, <1>3, <1>4, <1>5, InnerStep

LEMMA WorkerHandlerPreserves ==
  ASSUME GatewayInv, NEW t \in Threads, NEW k \in BOOLEAN, WorkerHandlerReturns(t, k)
  PROVE  GatewayInv'
<1>1. /\ inner[t].step = "dispatch"
      /\ inner' = [inner EXCEPT ![t].step = "finish", ![t].ok = k]
      /\ UNCHANGED <<busVars, policyState, outer, sequence, audited, returned>>
  BY DEF WorkerHandlerReturns, At
<1>2. inner[t] \in Calls(InnerSteps) /\ inner[t] # Idle
  BY <1>1, ThreadStates DEF GatewayInv
<1>3. PICK b : b = [inner[t] EXCEPT !.step = "finish"]
  OBVIOUS
<1>4. /\ b \in Calls(InnerSteps) /\ SameCall(inner[t], b) /\ b.step = "finish"
      /\ b.nth = inner[t].nth
  BY <1>2, <1>3, CallMoves DEF InnerSteps
<1>5. PICK c : c = [b EXCEPT !.ok = k]
  OBVIOUS
<1>6. /\ c \in Calls(InnerSteps) /\ SameCall(inner[t], c) /\ c.step = "finish"
      /\ c.nth = inner[t].nth
  BY <1>4, <1>5, CallAnswered DEF SameCall
<1>7. inner' = [inner EXCEPT ![t] = c]
  BY <1>1, <1>2, <1>3, <1>5 DEF GatewayInv, CallsTyped
<1>8. SameAdmission(inner[t], c, InnerHolds)
  BY <1>1, <1>6 DEF SameAdmission, InnerHolds, SameCall
<1>9. c.step \in InnerRecorded /\ inner[t].step \in InnerRecorded /\ c.step # "audit"
  BY <1>1, <1>6 DEF InnerRecorded
<1>10. Policy!PolicyTypeOK' /\ leases' = leases
  BY <1>1, LedgersTyped DEF busVars, policyState
<1>11. UNCHANGED <<busVars, outer, sequence, audited, returned>>
  BY <1>1
<1>. QED BY <1>2, <1>6, <1>7, <1>8, <1>9, <1>10, <1>11, InnerMoves

\* The revocation: the only lease it touches is the one of this call.
LEMMA RevokePreserves ==
  ASSUME GatewayInv, NEW t \in Threads, RevokeWorker(t)
  PROVE  GatewayInv'
<1>1. /\ inner[t].step = "revoke" /\ inner' = [inner EXCEPT ![t].step = "audit"]
      /\ UNCHANGED <<busVars, outer, sequence, audited, returned>>
      /\ Policy!RevokeLease(Kernel, LeaseIdOf(inner[t]), inner[t].now)
  BY DEF RevokeWorker, At
<1>2. inner[t] \in Calls(InnerSteps) /\ inner[t] # Idle
  BY <1>1, ThreadStates DEF GatewayInv
<1>3. PICK id, now : id = LeaseIdOf(inner[t]) /\ now = inner[t].now
  OBVIOUS
<1>4. /\ id \in DOMAIN leases /\ leases' = [leases EXCEPT ![id].revokedAt = Some(now)]
      /\ grantOf' = grantOf /\ clock' = clock
  BY <1>1, <1>3 DEF Policy!RevokeLease, Policy!Some, Some
<1>5. now \in Time /\ Some(now) \in Option(Time) /\ Some(now) # None
  <2>1. now \in Time
    BY <1>2, <1>3, CallFields
  <2>. QED BY <2>1 DEF Option, Some, None
<1>6. /\ leases \in [DOMAIN leases -> LeaseRecords(Time)] /\ DOMAIN leases \subseteq Sequences
      /\ grantOf \in [DOMAIN leases -> Policy!Grants] /\ clock \in Policy!Time
  BY SameRecords DEF GatewayInv, CallsTyped, Policy!PolicyTypeOK
<1>7. PICK v : v = Some(now)
  OBVIOUS
<1>8. PICK l : l = [leases[id] EXCEPT !.revokedAt = v]
  OBVIOUS
<1>9. l \in LeaseRecords(Time) /\ l.revokedAt = v
  <2>1. PICK m : m = leases[id]
    OBVIOUS
  <2>2. m \in LeaseRecords(Time) /\ v \in Option(Time) /\ l = [m EXCEPT !.revokedAt = v]
    BY <1>4, <1>5, <1>6, <1>7, <1>8, <2>1
  <2>. QED BY <2>2, LeaseChanges
<1>10. leases' = [leases EXCEPT ![id] = l]
  BY <1>4, <1>7, <1>8
<1>11. DOMAIN leases' = DOMAIN leases /\ leases'[id] = l
  BY <1>4, <1>10
<1>12. leases' \in [DOMAIN leases' -> LeaseRecords(Time)]
  BY <1>6, <1>9, <1>10
<1>13. Policy!PolicyTypeOK'
  BY <1>4, <1>6, <1>11, <1>12, SameRecords DEF Policy!PolicyTypeOK
<1>14. \A x \in DOMAIN leases : leases[x].revokedAt # None => leases'[x].revokedAt # None
  BY <1>5, <1>7, <1>9, <1>10
<1>15. PICK c : c = [inner[t] EXCEPT !.step = "audit"]
  OBVIOUS
<1>16. /\ c \in Calls(InnerSteps) /\ SameCall(inner[t], c) /\ c.step = "audit"
       /\ inner' = [inner EXCEPT ![t] = c]
  BY <1>1, <1>2, <1>15, CallMoves DEF InnerSteps
<1>17. SameAdmission(inner[t], c, InnerHolds)
  BY <1>1, <1>16 DEF SameAdmission, InnerHolds
<1>18. c.step \in InnerRecorded /\ inner[t].step \in InnerRecorded
  BY <1>1, <1>16 DEF InnerRecorded
<1>19. LeaseIdOf(c) = id
  BY <1>3, <1>16 DEF SameCall, LeaseIdOf
<1>20. LeaseIdOf(c) \in DOMAIN leases' /\ leases'[LeaseIdOf(c)].revokedAt # None
  BY <1>4, <1>5, <1>7, <1>9, <1>11, <1>19
<1>21. UNCHANGED <<busVars, outer, sequence, audited, returned>>
  BY <1>1
<1>. QED BY <1>2, <1>11, <1>13, <1>14, <1>16, <1>17, <1>18, <1>20, <1>21, InnerMoves

\* A worker's call is over: its lease is revoked or it never was admitted.
LEMMA InnerGoesIdle ==
  ASSUME GatewayInv, NEW t \in Threads, inner[t] # Idle, inner' = [inner EXCEPT ![t] = Idle],
         inner[t].step \notin InnerHolds,
         UNCHANGED <<busVars, policyState, outer, sequence>>, Return(inner[t].principal),
         audited' \in [Principals -> [Outcomes -> Nat]],
         LeaseIdOf(inner[t]) \in DOMAIN leases =>
            \/ leases[LeaseIdOf(inner[t])].revokedAt # None
            \/ admissions[inner[t].request] = 0,
         Countable', AdmissionsAudited'
  PROVE  GatewayInv'
<1>1. Idle.step = "idle" /\ Idle \in {Idle} \cup Calls(InnerSteps) /\ InnerPlaced(Idle)'
  BY DEF Idle, InnerPlaced
<1>2. SameAdmission(inner[t], Idle, InnerHolds)
  BY <1>1 DEF SameAdmission, InnerHolds
<1>3. inner[t].principal \in Principals
  BY ThreadStates, CallFields DEF GatewayInv
<1>4. Policy!PolicyTypeOK' /\ returned' \in [Principals -> Nat]
  BY <1>3, LedgersTyped DEF busVars, policyState
<1>5. leases' = leases /\ UNCHANGED <<busVars, outer>> /\ sequence' \in Nat /\ sequence' >= sequence
  BY DEF policyState, GatewayInv, CallsTyped
<1>6. Idle.step \notin {"grant", "begin"} /\ Idle.step # "audit"
  BY <1>1
<1>. QED BY <1>1, <1>2, <1>4, <1>5, <1>6, InnerStep

LEMMA RefuseWorkerPreserves ==
  ASSUME GatewayInv, NEW t \in Threads, RefuseWorker(t)
  PROVE  GatewayInv'
<1>1. /\ inner[t].step = "begin" /\ inner' = [inner EXCEPT ![t] = Idle]
      /\ UNCHANGED <<busVars, policyState, outer, sequence, audited>> /\ Return(inner[t].principal)
  BY DEF RefuseWorker, At
<1>2. inner[t] # Idle /\ inner[t].step \notin InnerHolds
  BY <1>1 DEF Idle, InnerHolds
<1>3. admissions[inner[t].request] = 0
  BY <1>1 DEF GatewayInv, LeasesFollow
<1>4. Countable' /\ AdmissionsAudited'
  <2>1. UNCHANGED <<handles, admissions, outer>>
    BY <1>1 DEF busVars
  <2>2. Idle.step \notin InnerRecorded /\ inner[t].step \notin InnerRecorded
    BY <1>1 DEF InnerRecorded, Idle
  <2>. QED BY <1>1, <2>1, <2>2, InnerCountsStay DEF InnerRecorded
<1>5. audited' \in [Principals -> [Outcomes -> Nat]]
  BY <1>1, LedgersTyped
<1>. QED BY <1>1, <1>2, <1>3, <1>4, <1>5, InnerGoesIdle

LEMMA AuditWorkerPreserves ==
  ASSUME GatewayInv, NEW t \in Threads, AuditWorker(t)
  PROVE  GatewayInv'
<1>0. PICK q : q = inner[t].principal
  OBVIOUS
<1>1. /\ inner[t].step = "audit" /\ inner' = [inner EXCEPT ![t] = Idle]
      /\ UNCHANGED <<busVars, policyState, outer, sequence>> /\ Return(inner[t].principal)
      /\ Audit(q, Outcome(inner[t]))
  BY <1>0 DEF AuditWorker, At
<1>2. inner[t] # Idle /\ inner[t].step \notin InnerHolds
  BY <1>1 DEF Idle, InnerHolds
<1>3. LeaseIdOf(inner[t]) \in DOMAIN leases /\ leases[LeaseIdOf(inner[t])].revokedAt # None
  BY <1>1 DEF GatewayInv, LeasesFollow
<1>4. q \in Principals
  BY <1>0, <1>2, ThreadStates, CallFields DEF GatewayInv
<1>5. Countable' /\ AdmissionsAudited' /\ audited' \in [Principals -> [Outcomes -> Nat]]
  <2>1. inner'[t] = Idle /\ Idle.step = "idle" /\ \A u \in Threads : u # t => inner'[u] = inner[u]
    BY <1>1 DEF GatewayInv, CallsTyped, Idle
  <2>2. \A p \in Principals : Unrecorded(p)' = IF p = q THEN Unrecorded(p) \ {t} ELSE Unrecorded(p)
    BY <1>0, <2>1 DEF Unrecorded
  <2>3. t \in Unrecorded(q)
    BY <1>0, <1>1 DEF Unrecorded
  <2>4. \A p \in Principals : Unaudited(p)' = Unaudited(p)
    BY <1>1 DEF Unaudited
  <2>5. PICK o : o = Outcome(inner[t])
    OBVIOUS
  <2>6. o \in {"Completed", "Failed"} /\ Audit(q, o)
    BY <1>1, <2>5 DEF Outcome
  <2>7. UNCHANGED <<handles, admissions>>
    BY <1>1 DEF busVars
  <2>. QED BY <1>4, <2>2, <2>3, <2>4, <2>6, <2>7, LedgersTyped, CountsRecord
<1>. QED BY <1>1, <1>2, <1>3, <1>5, InnerGoesIdle

\* The kernel's grant and the lease issued from it: one more lease, of this call.
LEMMA GrantPreserves ==
  ASSUME GatewayInv, NEW t \in Threads, GrantWorker(t)
  PROVE  GatewayInv'
<1>0. PICK id, g, now, until : /\ id = LeaseIdOf(inner[t]) /\ g = WorkerGrant(inner[t])
                               /\ now = inner[t].now /\ until = now + inner[t].budget
  OBVIOUS
<1>1. /\ inner[t].step = "grant" /\ UNCHANGED <<busVars, outer, sequence, audited, returned>>
      /\ inner' = [inner EXCEPT ![t].step = "begin", ![t].lease = Some(leases'[id])]
      /\ Policy!IssueLease(Kernel, g, id, now, g.maxExpires)
  BY <1>0 DEF GrantWorker, At
<1>2. inner[t] \in Calls(InnerSteps) /\ inner[t] # Idle
  BY <1>1, ThreadStates DEF GatewayInv
<1>3. /\ id \in Sequences /\ now \in Time /\ until \in Time
      /\ inner[t].principal \in Principals /\ RequiredCapability[inner[t].op] \in CapabilityNames
  <2>1. /\ inner[t].principal \in Principals /\ inner[t].op \in Operations
        /\ inner[t].now \in Time /\ inner[t].budget \in Nat
    BY <1>2, CallFields
  <2>2. inner[t].now + inner[t].budget <= MaxTime /\ id \in Sequences
    BY <1>0, <1>2, InnerPlace
  <2>. QED BY <1>0, <2>1, <2>2, BusAssumption DEF Time
<1>4. /\ g.principal = inner[t].principal /\ g.capability = RequiredCapability[inner[t].op]
      /\ g.scope = Global /\ g.maxExpires = Some(until) /\ g \in Policy!Grants
  <2>1. Some(until) \in Option(Time)
    BY <1>3 DEF Option
  <2>2. Policy!Grants = [principal : Principals, capability : CapabilityNames, asked : Policy!Scopes,
                         scope : Policy!Scopes, issuedAt : Time, maxExpires : Option(Time)]
    BY SameRecords DEF Policy!Grants
  <2>3. Global \in Policy!Scopes
    BY DEF Policy!Scopes
  <2>4. g = [principal |-> inner[t].principal, capability |-> RequiredCapability[inner[t].op],
             asked |-> Global, scope |-> Global, issuedAt |-> now, maxExpires |-> Some(until)]
    BY <1>0 DEF WorkerGrant
  <2>. QED BY <1>3, <2>1, <2>2, <2>3, <2>4
<1>5. PICK l : l = Policy!NewLease(g, now, g.maxExpires)
  OBVIOUS
<1>6. l \in LeaseRecords(Time) /\ l.revokedAt = None
  <2>1. l = [principal |-> g.principal, capability |-> g.capability, scope |-> g.scope,
             issuedAt |-> now, expiresAt |-> g.maxExpires, revokedAt |-> None]
    BY <1>5 DEF Policy!NewLease, Policy!None, None
  <2>2. g.maxExpires \in Option(Time) /\ None \in Option(Time) /\ Global \in Scopes
    BY <1>3, <1>4 DEF Option, Scopes
  <2>. QED BY <1>3, <1>4, <2>1, <2>2 DEF LeaseRecords
<1>7. /\ id \notin DOMAIN leases /\ clock' = clock
      /\ leases' = [x \in DOMAIN leases \cup {id} |-> IF x = id THEN l ELSE leases[x]]
      /\ grantOf' = [x \in DOMAIN leases \cup {id} |-> IF x = id THEN g ELSE grantOf[x]]
  BY <1>1, <1>5 DEF Policy!IssueLease
<1>8. /\ leases \in [DOMAIN leases -> LeaseRecords(Time)] /\ DOMAIN leases \subseteq Sequences
      /\ grantOf \in [DOMAIN leases -> Policy!Grants] /\ clock \in Policy!Time
  BY SameRecords DEF GatewayInv, CallsTyped, Policy!PolicyTypeOK
<1>9. /\ DOMAIN leases' = DOMAIN leases \cup {id} /\ leases'[id] = l
      /\ \A x \in DOMAIN leases : leases'[x] = leases[x]
  BY <1>7
<1>10. Policy!PolicyTypeOK'
  <2>1. leases' \in [DOMAIN leases' -> LeaseRecords(Time)]
    BY <1>6, <1>7, <1>8
  <2>2. grantOf' \in [DOMAIN leases' -> Policy!Grants]
    BY <1>4, <1>7, <1>8
  <2>. QED BY <1>3, <1>7, <1>8, <1>9, <2>1, <2>2, SameRecords DEF Policy!PolicyTypeOK
<1>11. PICK b : b = [inner[t] EXCEPT !.step = "begin"]
  OBVIOUS
<1>12. b \in Calls(InnerSteps) /\ SameCall(inner[t], b) /\ b.step = "begin"
  BY <1>2, <1>11, CallMoves DEF InnerSteps
<1>13. PICK m : m = Some(l)
  OBVIOUS
<1>14. m \in AtMostOne(LeaseRecords(Time))
  BY <1>6, <1>13 DEF AtMostOne, Some
<1>15. PICK c : c = [b EXCEPT !.lease = m]
  OBVIOUS
<1>16. c \in Calls(InnerSteps) /\ SameCall(inner[t], c) /\ c.step = "begin"
  BY <1>12, <1>14, <1>15, CallLeased DEF SameCall
<1>17. inner' = [inner EXCEPT ![t] = c]
  BY <1>1, <1>2, <1>9, <1>11, <1>13, <1>15 DEF GatewayInv, CallsTyped
<1>18. /\ InnerPlaced(c)' /\ c # Idle /\ c \in {Idle} \cup Calls(InnerSteps)
       /\ c.request = inner[t].request /\ LeaseIdOf(c) = LeaseIdOf(inner[t])
  BY <1>1, <1>2, <1>16, InnerGoesOn
<1>19. SameAdmission(inner[t], c, InnerHolds)
  BY <1>1, <1>16 DEF SameAdmission, InnerHolds
<1>20. admissions[c.request] = 0
  BY <1>1, <1>18 DEF GatewayInv, LeasesFollow
<1>21. Countable' /\ AdmissionsAudited'
  <2>1. UNCHANGED <<handles, admissions, outer>>
    BY <1>1 DEF busVars
  <2>2. c.step \notin InnerRecorded /\ inner[t].step \notin InnerRecorded
    BY <1>1, <1>16 DEF InnerRecorded
  <2>. QED BY <1>1, <1>17, <2>1, <2>2, InnerCountsStay DEF InnerRecorded
<1>22. audited' \in [Principals -> [Outcomes -> Nat]] /\ returned' \in [Principals -> Nat]
  BY <1>1, LedgersTyped
<1>23. sequence' \in Nat /\ sequence' >= sequence /\ UNCHANGED <<busVars, outer>> /\ c.step # "audit"
  BY <1>1, <1>16 DEF GatewayInv, CallsTyped
<1>24. \A x \in DOMAIN leases' : leases'[x].revokedAt = None =>
          \/ x \in DOMAIN leases /\ leases[x].revokedAt = None
          \/ c # Idle /\ x = LeaseIdOf(c)
  BY <1>0, <1>9, <1>18
<1>25. \A x \in DOMAIN leases :
          x \in DOMAIN leases' /\ (leases[x].revokedAt # None => leases'[x].revokedAt # None)
  BY <1>9
<1>. QED BY <1>2, <1>10, <1>17, <1>18, <1>19, <1>20, <1>21, <1>22, <1>23, <1>24, <1>25, InnerStep

\* A worker's call is admitted: the only admission its request ever gets.
LEMMA BeginWorkerPreserves ==
  ASSUME GatewayInv, NEW t \in Threads, BeginWorker(t)
  PROVE  GatewayInv'
<1>0. PICK r, h, q, o, n : /\ r = inner[t].request /\ q = inner[t].principal /\ o = inner[t].op
                          /\ h = [request |-> r, principal |-> q, nth |-> admissions'[r]]
                          /\ n = LeaseIdOf(inner[t])
  OBVIOUS
<1>1. /\ inner[t].step = "begin"
      /\ inner' = [inner EXCEPT ![t].step = "dispatch", ![t].nth = admissions'[r]]
      /\ UNCHANGED <<policyState, outer, sequence, audited, returned>>
  BY <1>0 DEF BeginWorker, At
<1>2. PICK lease : Begin(r, q, o, inner[t].now + inner[t].budget, lease, inner[t].now)
  BY <1>0 DEF BeginWorker, Admit
<1>3. inner[t] \in Calls(InnerSteps) /\ inner[t] # Idle
  BY <1>1, ThreadStates DEF GatewayInv
<1>4. /\ r \in RequestIds /\ q \in Principals /\ o \in Operations
      /\ inner[t].now + inner[t].budget \in 1 .. MaxTime + 1
      /\ n \in Sequences /\ n < sequence /\ r = WorkerRequest(n) /\ r \notin UIRequests
      /\ \A m \in Sequences : WorkerRequest(m) = r => m = n
  <2>1. /\ r \in RequestIds /\ q \in Principals /\ o \in Operations
        /\ inner[t].now \in Time /\ inner[t].budget \in Nat
    BY <1>0, <1>3, CallFields
  <2>2. inner[t].budget > 0 /\ inner[t].now + inner[t].budget <= MaxTime
    BY <1>3, InnerPlace
  <2>3. /\ n \in Sequences /\ n < sequence /\ r = WorkerRequest(n) /\ r \notin UIRequests
        /\ \A m \in Sequences : WorkerRequest(m) = r => m = n
    BY <1>0, <1>3, InnerPlace
  <2>. QED BY <2>1, <2>2, <2>3, BusAssumption DEF Time
<1>5. /\ BusInv' /\ UNCHANGED <<operations, clock>>
      /\ admissions' = [admissions EXCEPT ![r] = admissions[r] + 1]
      /\ admissions'[r] \in Nat
      /\ handles' = handles \cup {h} /\ h \notin handles
      /\ ~ IsPending(r) /\ IsPending(r)'
      /\ calls'[r].principal = q /\ calls'[r].nth = admissions'[r]
      /\ \A x : x # r => /\ IsPending(x)' <=> IsPending(x)
                         /\ IsPending(x) => calls'[x] = calls[x]
  <2>1. BusInv /\ Countable
    BY DEF GatewayInv
  <2>2. PICK d : d = inner[t].now + inner[t].budget /\ d \in 1 .. MaxTime + 1
    BY <1>4
  <2>3. PICK now : now = inner[t].now
    OBVIOUS
  <2>4. Begin(r, q, o, d, lease, now)
    BY <1>2, <2>2, <2>3
  <2>5. h = [request |-> r, principal |-> q, nth |-> admissions'[r]]
    BY <1>0
  <2>. QED BY <1>4, <2>1, <2>2, <2>4, <2>5, AdmissionBegins
<1>6. PICK b : b = [inner[t] EXCEPT !.step = "dispatch"]
  OBVIOUS
<1>7. b \in Calls(InnerSteps) /\ SameCall(inner[t], b) /\ b.step = "dispatch"
  BY <1>3, <1>6, CallMoves DEF InnerSteps
<1>8. PICK c : c = [b EXCEPT !.nth = admissions'[r]]
  OBVIOUS
<1>9. /\ c \in Calls(InnerSteps) /\ SameCall(inner[t], c) /\ c.step = "dispatch"
      /\ c.nth = admissions'[r]
  BY <1>5, <1>7, <1>8, CallAdmitted DEF SameCall
<1>10. inner' = [inner EXCEPT ![t] = c]
  BY <1>1, <1>3, <1>6, <1>8 DEF GatewayInv, CallsTyped
<1>11. inner'[t] = c /\ \A u \in Threads : u # t => inner'[u] = inner[u]
  BY <1>10 DEF GatewayInv, CallsTyped
<1>12. InnerPlaced(c)' /\ c.request = r /\ c.principal = q /\ c # Idle /\ LeaseIdOf(c) = n
  BY <1>0, <1>1, <1>3, <1>9, InnerGoesOn DEF SameCall
<1>13. HandleOf(c) = h
  BY <1>0, <1>9, <1>12 DEF HandleOf
<1>14. CallsTyped'
  <2>1. inner' \in [Threads -> {Idle} \cup Calls(InnerSteps)] /\ sequence' \in Nat \ {0}
    BY <1>1, <1>9, <1>10 DEF GatewayInv, CallsTyped
  <2>2. outer' \in [Threads -> {Idle} \cup Calls(OuterSteps)]
    BY <1>1 DEF GatewayInv, CallsTyped
  <2>3. Policy!PolicyTypeOK' /\ audited' \in [Principals -> [Outcomes -> Nat]] /\ returned' \in [Principals -> Nat]
    BY <1>1, <1>5, LedgersTyped DEF policyState
  <2>. QED BY <2>1, <2>2, <2>3 DEF CallsTyped
<1>15. CallsPlaced'
  <2>1. \A u \in Threads : OuterPlaced(outer[u])'
    BY <1>1 DEF GatewayInv, CallsPlaced, OuterPlaced
  <2>2. ASSUME NEW u \in Threads PROVE InnerPlaced(inner[u])'
    <3>1. CASE u = t
      BY <1>11, <1>12, <3>1 DEF InnerPlaced, LeaseIdOf
    <3>2. CASE u # t
      BY <1>1, <1>11, <3>2 DEF GatewayInv, CallsPlaced, InnerPlaced, LeaseIdOf
    <3>. QED BY <3>1, <3>2
  <2>3. \A u, v \in Threads :
          inner'[u] # Idle /\ inner'[v] # Idle /\ inner'[u].request = inner'[v].request => u = v
    BY <1>0, <1>3, <1>11, <1>12 DEF GatewayInv, CallsPlaced
  <2>. QED BY <2>1, <2>2, <2>3 DEF CallsPlaced
<1>16. AdmissionsHeld'
  <2>1. InnerAdmitted' = InnerAdmitted \cup {t} /\ t \notin InnerAdmitted
    BY <1>1, <1>9, <1>11 DEF InnerAdmitted
  <2>2. OuterAdmitted' = OuterAdmitted
    BY <1>1 DEF OuterAdmitted
  <2>3. AdmissionsHeld
    BY DEF GatewayInv
  <2>4. HoldsAdmission(inner[t])'
    BY <1>5, <1>9, <1>11, <1>12, <1>13 DEF HoldsAdmission
  <2>5. ASSUME NEW d, HoldsAdmission(d) PROVE HoldsAdmission(d)' /\ d.request # r
    BY <1>5, <2>5 DEF HoldsAdmission
  <2>6. ASSUME NEW u \in InnerAdmitted PROVE HoldsAdmission(inner[u])'
    <3>1. u \in Threads /\ u # t /\ inner'[u] = inner[u] /\ HoldsAdmission(inner[u])
      BY <1>11, <2>1, <2>3 DEF AdmissionsHeld, InnerAdmitted
    <3>2. PICK d : d = inner[u]
      OBVIOUS
    <3>3. HoldsAdmission(d)'
      BY <2>5, <3>1, <3>2
    <3>. QED BY <3>1, <3>2, <3>3 DEF HoldsAdmission, HandleOf
  <2>7. ASSUME NEW u \in OuterAdmitted PROVE HoldsAdmission(outer[u])'
    <3>1. outer'[u] = outer[u] /\ HoldsAdmission(outer[u])
      BY <1>1, <2>3 DEF AdmissionsHeld
    <3>2. PICK d : d = outer[u]
      OBVIOUS
    <3>3. HoldsAdmission(d)'
      BY <2>5, <3>1, <3>2
    <3>. QED BY <3>1, <3>2, <3>3 DEF HoldsAdmission, HandleOf
  <2>8. \A u, v \in OuterAdmitted' : outer'[u].request = outer'[v].request => u = v
    BY <1>1, <2>2, <2>3 DEF AdmissionsHeld
  <2>9. ASSUME NEW x \in DOMAIN calls', IsPending(x)'
        PROVE  \/ \E u \in OuterAdmitted' : outer'[u].request = x
               \/ \E u \in InnerAdmitted' : inner'[u].request = x
    <3>1. CASE x = r
      BY <1>11, <1>12, <2>1, <3>1
    <3>2. CASE x # r
      <4>1. IsPending(x) /\ x \in DOMAIN calls
        BY <1>5, <2>9, <3>2 DEF IsPending
      <4>2. \/ \E u \in OuterAdmitted : outer[u].request = x
            \/ \E u \in InnerAdmitted : inner[u].request = x
        BY <2>3, <4>1 DEF AdmissionsHeld
      <4>. QED BY <1>1, <1>11, <2>1, <2>2, <4>2 DEF InnerAdmitted
    <3>. QED BY <3>1, <3>2
  <2>. QED BY <1>11, <2>1, <2>2, <2>4, <2>6, <2>7, <2>8, <2>9 DEF AdmissionsHeld
<1>17. \A m \in Sequences : m # n => admissions'[WorkerRequest(m)] = admissions[WorkerRequest(m)]
  BY <1>4, <1>5, GatewayAssumption DEF GatewayInv, BusInv, BusTypeOK
<1>18. LeasesFollow'
  <2>1. LeasesFollow /\ UNCHANGED <<sequence, leases>> /\ sequence \in Nat
    BY <1>1 DEF GatewayInv, policyState, CallsTyped
  <2>2. \A m \in Sequences : m >= sequence' => admissions'[WorkerRequest(m)] = 0
    BY <1>4, <1>17, <2>1 DEF LeasesFollow, Sequences
  <2>3. ASSUME NEW u \in Threads, inner'[u].step \in {"grant", "begin"}
        PROVE  admissions'[inner'[u].request] = 0
    <3>1. u # t /\ inner'[u] = inner[u] /\ inner[u] # Idle
      BY <1>9, <1>11, <2>3 DEF Idle
    <3>2. inner[u].request = WorkerRequest(LeaseIdOf(inner[u])) /\ LeaseIdOf(inner[u]) \in Sequences
      BY <3>1, InnerPlace
    <3>3. inner[u].request # r
      BY <1>0, <1>3, <3>1 DEF GatewayInv, CallsPlaced
    <3>4. LeaseIdOf(inner[u]) # n
      BY <1>4, <3>2, <3>3
    <3>. QED BY <1>17, <2>1, <2>3, <3>1, <3>2, <3>4 DEF LeasesFollow
  <2>4. ASSUME NEW u \in Threads, inner'[u].step = "audit"
        PROVE  /\ LeaseIdOf(inner'[u]) \in DOMAIN leases'
               /\ leases'[LeaseIdOf(inner'[u])].revokedAt # None
    <3>1. inner'[u] = inner[u]
      BY <1>9, <1>11, <2>4
    <3>. QED BY <2>1, <2>4, <3>1 DEF LeasesFollow
  <2>. QED BY <2>2, <2>3, <2>4 DEF LeasesFollow, LeaseIdOf
<1>19. AdmittedWorkerLeasesRevoked'
  <2>1. AdmittedWorkerLeasesRevoked /\ UNCHANGED leases /\ DOMAIN leases \subseteq Sequences
    BY <1>1 DEF GatewayInv, policyState, CallsTyped, Policy!PolicyTypeOK
  <2>2. ASSUME NEW id PROVE InProgress(id)' <=> InProgress(id)
    <3>1. \A u \in Threads : inner'[u] # Idle /\ LeaseIdOf(inner'[u]) = id
                               <=> inner[u] # Idle /\ LeaseIdOf(inner[u]) = id
      BY <1>0, <1>3, <1>11, <1>12
    <3>. QED BY <3>1 DEF InProgress, LeaseIdOf
  <2>3. InProgress(n)
    BY <1>0, <1>3 DEF InProgress
  <2>. QED BY <1>17, <2>1, <2>2, <2>3 DEF AdmittedWorkerLeasesRevoked
<1>20. Countable' /\ AdmissionsAudited'
  <2>1. h.principal = q /\ h.request = r /\ h.nth = admissions'[r]
    BY <1>0
  <2>2. \A x \in handles : x.nth <= admissions'[x.request]
    BY <1>4, <1>5 DEF GatewayInv, Countable, BusInv, BusTypeOK, Handles
  <2>3. \A p \in Principals : Unaudited(p)' = Unaudited(p)
    BY <1>1 DEF Unaudited
  <2>4. \A p \in Principals :
           Unrecorded(p)' = IF p = q THEN Unrecorded(p) \cup {t} ELSE Unrecorded(p)
    BY <1>0, <1>1, <1>9, <1>11, <1>12 DEF Unrecorded
  <2>5. t \notin Unrecorded(q)
    BY <1>1 DEF Unrecorded
  <2>6. h.nth <= admissions'[h.request]
    BY <1>5, <2>1
  <2>7. audited' = audited
    BY <1>1
  <2>. QED BY <1>4, <1>5, <2>1, <2>2, <2>3, <2>4, <2>5, <2>6, <2>7, LedgersTyped, CountsAdmit
<1>. QED BY <1>5, <1>14, <1>15, <1>16, <1>18, <1>19, <1>20 DEF GatewayInv

LEMMA FinishWorkerPreserves ==
  ASSUME GatewayInv, NEW t \in Threads, FinishWorker(t)
  PROVE  GatewayInv'
<1>0. PICK r, h : r = inner[t].request /\ h = HandleOf(inner[t])
  OBVIOUS
<1>1. /\ inner[t].step = "finish" /\ inner' = [inner EXCEPT ![t].step = "revoke"] /\ Finish(h)
      /\ UNCHANGED <<policyState, outer, sequence, audited, returned>>
  BY <1>0 DEF FinishWorker, At, AfterFinish
<1>2. inner[t] # Idle /\ t \in InnerAdmitted /\ AdmissionsHeld
  BY <1>1 DEF Idle, InnerAdmitted, GatewayInv
<1>3. h \in handles /\ h.request = r
  BY <1>0, <1>2 DEF AdmissionsHeld, HoldsAdmission, HandleOf
<1>4. /\ BusInv' /\ UNCHANGED <<operations, clock, handles, admissions>>
      /\ \A x : IsPending(x)' <=> IsPending(x) /\ x # r
      /\ \A x : IsPending(x)' => /\ calls'[x].principal = calls[x].principal
                                 /\ calls'[x].nth = calls[x].nth
  <2>1. BusInv
    BY DEF GatewayInv
  <2>. QED BY <1>1, <1>3, <2>1, AdmissionEnds
<1>5. PICK c : c = [inner[t] EXCEPT !.step = "revoke"]
  OBVIOUS
<1>6. c \in Calls(InnerSteps) /\ SameCall(inner[t], c) /\ c.step = "revoke"
  <2>1. inner[t] \in Calls(InnerSteps)
    BY <1>1, ThreadStates DEF GatewayInv
  <2>. QED BY <1>5, <2>1, CallMoves DEF InnerSteps
<1>7. inner' = [inner EXCEPT ![t] = c]
  BY <1>1, <1>5
<1>8. inner'[t] = c /\ \A u \in Threads : u # t => inner'[u] = inner[u]
  BY <1>7 DEF GatewayInv, CallsTyped
<1>9. InnerPlaced(c)' /\ c.request = r /\ c # Idle /\ LeaseIdOf(c) = LeaseIdOf(inner[t])
  BY <1>0, <1>1, <1>2, <1>6, InnerGoesOn
<1>10. CallsTyped'
  <2>1. inner' \in [Threads -> {Idle} \cup Calls(InnerSteps)] /\ sequence' \in Nat \ {0}
    BY <1>1, <1>6, <1>7 DEF GatewayInv, CallsTyped
  <2>2. outer' \in [Threads -> {Idle} \cup Calls(OuterSteps)]
    BY <1>1 DEF GatewayInv, CallsTyped
  <2>3. Policy!PolicyTypeOK' /\ audited' \in [Principals -> [Outcomes -> Nat]] /\ returned' \in [Principals -> Nat]
    BY <1>1, <1>4, LedgersTyped DEF policyState
  <2>. QED BY <2>1, <2>2, <2>3 DEF CallsTyped
<1>11. CallsPlaced'
  <2>1. \A u \in Threads : OuterPlaced(outer[u])'
    BY <1>1 DEF GatewayInv, CallsPlaced, OuterPlaced
  <2>2. ASSUME NEW u \in Threads PROVE InnerPlaced(inner[u])'
    <3>1. CASE u = t
      BY <1>8, <1>9, <3>1 DEF InnerPlaced, LeaseIdOf
    <3>2. CASE u # t
      BY <1>1, <1>8, <3>2 DEF GatewayInv, CallsPlaced, InnerPlaced, LeaseIdOf
    <3>. QED BY <3>1, <3>2
  <2>3. \A u, v \in Threads :
          inner'[u] # Idle /\ inner'[v] # Idle /\ inner'[u].request = inner'[v].request => u = v
    BY <1>0, <1>2, <1>8, <1>9 DEF GatewayInv, CallsPlaced
  <2>. QED BY <2>1, <2>2, <2>3 DEF CallsPlaced
<1>12. AdmissionsHeld'
  <2>1. InnerAdmitted' = InnerAdmitted \ {t}
    BY <1>6, <1>8 DEF InnerAdmitted
  <2>2. OuterAdmitted' = OuterAdmitted
    BY <1>1 DEF OuterAdmitted
  <2>3. ASSUME NEW u \in InnerAdmitted, u # t PROVE HoldsAdmission(inner[u])' /\ inner'[u] = inner[u]
    <3>1. inner'[u] = inner[u] /\ HoldsAdmission(inner[u]) /\ u \in Threads /\ inner[u] # Idle
      BY <1>2, <1>8, <2>3 DEF AdmissionsHeld, InnerAdmitted, Idle
    <3>2. inner[u].request # r
      BY <1>0, <1>2, <2>3, <3>1 DEF GatewayInv, CallsPlaced
    <3>3. PICK d : d = inner[u]
      OBVIOUS
    <3>4. HoldsAdmission(d)'
      BY <1>4, <3>1, <3>2, <3>3, OthersHold
    <3>. QED BY <3>1, <3>3, <3>4 DEF HoldsAdmission, HandleOf
  <2>4. ASSUME NEW u \in OuterAdmitted PROVE HoldsAdmission(outer[u])'
    <3>1. outer'[u] = outer[u] /\ HoldsAdmission(outer[u])
      BY <1>1, <1>2, <2>4 DEF AdmissionsHeld
    <3>2. outer[u].request \in UIRequests
      BY <2>4 DEF GatewayInv, CallsPlaced, OuterPlaced, OuterAdmitted, Idle
    <3>3. outer[u].request # r
      BY <1>0, <1>2, <3>2, InnerPlace
    <3>4. PICK d : d = outer[u]
      OBVIOUS
    <3>5. HoldsAdmission(d)'
      BY <1>4, <3>1, <3>3, <3>4, OthersHold
    <3>. QED BY <3>1, <3>4, <3>5 DEF HoldsAdmission, HandleOf
  <2>5. \A u, v \in OuterAdmitted' : outer'[u].request = outer'[v].request => u = v
    BY <1>1, <1>2, <2>2 DEF AdmissionsHeld
  <2>6. ASSUME NEW x \in DOMAIN calls', IsPending(x)'
        PROVE  \/ \E u \in OuterAdmitted' : outer'[u].request = x
               \/ \E u \in InnerAdmitted' : inner'[u].request = x
    <3>1. IsPending(x) /\ x \in DOMAIN calls /\ x # r
      BY <1>4, <2>6 DEF IsPending
    <3>2. \/ \E u \in OuterAdmitted : outer[u].request = x
          \/ \E u \in InnerAdmitted : inner[u].request = x
      BY <1>2, <3>1 DEF AdmissionsHeld
    <3>. QED BY <1>0, <1>1, <2>1, <2>2, <2>3, <3>1, <3>2
  <2>. QED BY <2>1, <2>2, <2>3, <2>4, <2>5, <2>6 DEF AdmissionsHeld
<1>13. LeasesFollow'
  <2>1. LeasesFollow /\ UNCHANGED <<sequence, leases, admissions>>
    BY <1>1, <1>4 DEF GatewayInv, policyState
  <2>2. \A u \in Threads : inner'[u].step \in {"grant", "begin", "audit"} => inner'[u] = inner[u]
    BY <1>6, <1>8
  <2>. QED BY <2>1, <2>2 DEF LeasesFollow, LeaseIdOf
<1>14. AdmittedWorkerLeasesRevoked'
  <2>1. AdmittedWorkerLeasesRevoked /\ UNCHANGED <<leases, admissions>>
    BY <1>1, <1>4 DEF GatewayInv, policyState
  <2>2. ASSUME NEW id PROVE InProgress(id)' <=> InProgress(id)
    <3>1. \A u \in Threads : inner'[u] # Idle /\ LeaseIdOf(inner'[u]) = id
                               <=> inner[u] # Idle /\ LeaseIdOf(inner[u]) = id
      BY <1>2, <1>8, <1>9
    <3>. QED BY <3>1 DEF InProgress, LeaseIdOf
  <2>. QED BY <2>1, <2>2 DEF AdmittedWorkerLeasesRevoked
<1>15. Countable' /\ AdmissionsAudited'
  <2>1. c.principal = inner[t].principal /\ c.step \in InnerRecorded /\ inner[t].step \in InnerRecorded
    BY <1>1, <1>6 DEF SameCall, InnerRecorded
  <2>2. UNCHANGED <<handles, admissions, outer, audited>>
    BY <1>1, <1>4
  <2>. QED BY <1>7, <2>1, <2>2, InnerCountsStay DEF InnerRecorded
<1>. QED BY <1>4, <1>10, <1>11, <1>12, <1>13, <1>14, <1>15 DEF GatewayInv

-----------------------------------------------------------------------------
(* The invariant of the gateway *)

\* Registration and the clock touch no call.
LEMMA FramePreserves ==
  ASSUME GatewayInv, operations' \subseteq Operations, clock' \in Time,
         UNCHANGED <<calls, terminalOrder, inflightByPrincipal, inflightByOperation,
                     handles, admissions, policyState, calling, audited, returned>>
  PROVE  GatewayInv'
<1>0. UNCHANGED <<leases, grantOf, outer, inner, sequence>>
  BY DEF policyState, calling
<1>1. BusInv'
  BY BusInvFrame DEF GatewayInv
<1>2. CallsTyped'
  BY <1>0, SameRecords DEF GatewayInv, CallsTyped, Policy!PolicyTypeOK
<1>3. CallsPlaced'
  BY <1>0 DEF GatewayInv, CallsPlaced, OuterPlaced, InnerPlaced, LeaseIdOf
<1>4. AdmissionsHeld'
  <2>1. OuterAdmitted' = OuterAdmitted /\ InnerAdmitted' = InnerAdmitted
    BY <1>0 DEF OuterAdmitted, InnerAdmitted
  <2>. QED BY <1>0, <2>1, AdmissionsStay DEF GatewayInv
<1>5. LeasesFollow' /\ AdmittedWorkerLeasesRevoked'
  BY <1>0 DEF GatewayInv, LeasesFollow, AdmittedWorkerLeasesRevoked, InProgress, LeaseIdOf
<1>6. Countable' /\ AdmissionsAudited'
  <2>1. \A p \in Principals : Unaudited(p)' = Unaudited(p) /\ Unrecorded(p)' = Unrecorded(p)
    BY <1>0 DEF Unaudited, Unrecorded
  <2>. QED BY <2>1, LedgersTyped, CountsStay
<1>. QED BY <1>1, <1>2, <1>3, <1>4, <1>5, <1>6 DEF GatewayInv

LEMMA GatewayInvInit == GatewayInit => GatewayInv
<1>. SUFFICES ASSUME GatewayInit PROVE GatewayInv
  OBVIOUS
<1>1. BusInv
  BY BusInvInit DEF GatewayInit
<1>2. \A t \in Threads : outer[t] = Idle /\ inner[t] = Idle
  BY DEF GatewayInit
<1>3. Idle.step = "idle"
  BY DEF Idle
<1>4. /\ OuterAdmitted = {} /\ InnerAdmitted = {}
      /\ \A p : Unaudited(p) = {} /\ Unrecorded(p) = {}
  BY <1>2, <1>3 DEF OuterAdmitted, InnerAdmitted, Unaudited, Unrecorded
<1>5. /\ DOMAIN calls = {} /\ handles = {} /\ admissions = [r \in RequestIds |-> 0]
      /\ DOMAIN leases = {} /\ sequence = 1
  BY DEF GatewayInit, BusInit, Policy!PolicyInit
<1>6. CallsTyped
  <2>1. Policy!PolicyTypeOK
    <3>1. clock \in Time
      BY <1>1 DEF BusInv, BusTypeOK
    <3>2. leases \in [DOMAIN leases -> LeaseRecords(Time)] /\ grantOf \in [DOMAIN leases -> Policy!Grants]
      BY <1>5 DEF GatewayInit, Policy!PolicyInit
    <3>. QED BY <1>5, <3>1, <3>2, SameRecords DEF Policy!PolicyTypeOK
  <2>2. audited \in [Principals -> [Outcomes -> Nat]] /\ returned \in [Principals -> Nat]
    BY DEF GatewayInit
  <2>. QED BY <1>5, <2>1, <2>2 DEF CallsTyped, GatewayInit
<1>7. CallsPlaced
  BY <1>2 DEF CallsPlaced, OuterPlaced, InnerPlaced
<1>8. AdmissionsHeld
  BY <1>4, <1>5 DEF AdmissionsHeld
<1>9. LeasesFollow /\ AdmittedWorkerLeasesRevoked
  BY <1>2, <1>3, <1>5, GatewayAssumption DEF LeasesFollow, AdmittedWorkerLeasesRevoked
<1>10. Countable /\ AdmissionsAudited
  <2>1. Cardinality({}) = 0 /\ IsFiniteSet({})
    BY FS_EmptySet
  <2>2. \A p \in Principals : {h \in handles : h.principal = p} = {}
    BY <1>5
  <2>3. \A p \in Principals : audited[p]["Completed"] = 0 /\ audited[p]["Failed"] = 0
    BY DEF GatewayInit, Outcomes
  <2>4. Countable
    BY <1>4, <1>5, <2>1 DEF Countable
  <2>5. AdmissionsAudited
    <3>1. ASSUME NEW p \in Principals
          PROVE  audited[p]["Completed"] + audited[p]["Failed"]
                    + Cardinality(Unaudited(p)) + Cardinality(Unrecorded(p))
                 = Cardinality({h \in handles : h.principal = p})
      <4>1. Cardinality(Unaudited(p)) = 0 /\ Cardinality(Unrecorded(p)) = 0
        BY <1>4, <2>1
      <4>2. Cardinality({h \in handles : h.principal = p}) = 0
        BY <2>1, <2>2
      <4>. QED BY <2>3, <4>1, <4>2
    <3>. QED BY <3>1 DEF AdmissionsAudited
  <2>. QED BY <2>4, <2>5
<1>. QED BY <1>1, <1>6, <1>7, <1>8, <1>9, <1>10 DEF GatewayInv

LEMMA GatewayInvNext == GatewayInv /\ [GatewayNext]_gatewayVars => GatewayInv'
<1>. SUFFICES ASSUME GatewayInv, [GatewayNext]_gatewayVars PROVE GatewayInv'
  OBVIOUS
<1>0. operations \subseteq Operations /\ clock \in Time /\ MaxTime \in Nat
  BY BusAssumption DEF GatewayInv, BusInv, BusTypeOK
<1>1. ASSUME NEW op \in Operations, RegisterHandler(op) PROVE GatewayInv'
  BY <1>0, <1>1, FramePreserves DEF RegisterHandler, RegisterOperation
<1>2. ASSUME NEW t \in Threads, CallStep(t) PROVE GatewayInv'
  <2>1. ASSUME NEW r \in UIRequests, NEW op \in Operations, NEW selected \in Selections,
               NEW budget \in Budgets, Arrive(t, r, op, selected, budget)
        PROVE  GatewayInv'
    <3>1. selected \in Seq(Nat)
      <4>1. CASE selected = << >>
        BY <4>1
      <4>2. ASSUME NEW id \in Sequences, selected = <<id>> PROVE selected \in Seq(Nat)
        <5>1. id \in Nat
          BY DEF Sequences
        <5>. QED BY <4>2, <5>1
      <4>. QED BY <4>1, <4>2 DEF Selections
    <3>. QED BY <2>1, <3>1, ArrivePreserves
  <2>2. CASE Authorize(t)
    BY <2>2, AuthorizePreserves
  <2>3. CASE Deny(t)
    BY <2>3, DenyPreserves
  <2>4. CASE BeginCall(t)
    BY <2>4, BeginCallPreserves
  <2>5. CASE RefuseCall(t)
    BY <2>5, RefusePreserves
  <2>6. ASSUME NEW k \in BOOLEAN, HandlerReturns(t, k) PROVE GatewayInv'
    BY <2>6, HandlerPreserves
  <2>7. ASSUME NEW id \in Sequences, NEW expires \in Option(Time), NEW now \in 0 .. clock,
               RenewReturns(t, id, expires, now)
        PROVE  GatewayInv'
    BY <2>7, RenewPreserves
  <2>8. CASE AuditCall(t)
    BY <2>8, AuditCallPreserves
  <2>9. CASE FinishCall(t)
    BY <2>9, FinishCallPreserves
  <2>. QED BY <1>2, <2>1, <2>2, <2>3, <2>4, <2>5, <2>6, <2>7, <2>8, <2>9 DEF CallStep
<1>3. ASSUME NEW t \in Threads, WorkerStep(t) PROVE GatewayInv'
  <2>1. ASSUME NEW p \in Plugins, NEW op \in WorkerOperations, NEW budget \in Budgets,
               WorkerCall(t, p, op, budget)
        PROVE  GatewayInv'
    BY <2>1, WorkerCallPreserves
  <2>2. CASE GrantWorker(t)
    BY <2>2, GrantPreserves
  <2>3. CASE BeginWorker(t)
    BY <2>3, BeginWorkerPreserves
  <2>4. CASE RefuseWorker(t)
    BY <2>4, RefuseWorkerPreserves
  <2>5. ASSUME NEW k \in BOOLEAN, WorkerHandlerReturns(t, k) PROVE GatewayInv'
    BY <2>5, WorkerHandlerPreserves
  <2>6. CASE FinishWorker(t)
    BY <2>6, FinishWorkerPreserves
  <2>7. CASE RevokeWorker(t)
    BY <2>7, RevokePreserves
  <2>8. CASE AuditWorker(t)
    BY <2>8, AuditWorkerPreserves
  <2>. QED BY <1>3, <2>1, <2>2, <2>3, <2>4, <2>5, <2>6, <2>7, <2>8 DEF WorkerStep
<1>4. CASE Elapse
  <2>1. clock' \in Time /\ operations' \subseteq Operations
    BY <1>0, <1>4 DEF Elapse, Tick, Time
  <2>. QED BY <1>4, <2>1, FramePreserves DEF Elapse, Tick
<1>5. CASE UNCHANGED gatewayVars
  BY <1>0, <1>5, FramePreserves DEF gatewayVars, busVars
<1>. QED BY <1>1, <1>2, <1>3, <1>4, <1>5 DEF GatewayNext

\* Calls, admissions, leases and audit events of the gateway stay in step.
THEOREM GatewayStaysInv == GatewaySpec => []GatewayInv
BY GatewayInvInit, GatewayInvNext, PTL DEF GatewaySpec

\* A set that is mapped one to one onto a finite set is as large.
LEMMA OneToOne ==
  ASSUME NEW S, NEW T, IsFiniteSet(T), NEW f \in [S -> T],
         \A a, b \in S : f[a] = f[b] => a = b, \A y \in T : \E a \in S : f[a] = y
  PROVE  IsFiniteSet(S) /\ Cardinality(S) = Cardinality(T)
<1>1. f \in Bijection(S, T)
  BY Fun_IsBij
<1>2. ExistsBijection(T, S)
  BY <1>1, Fun_ExistsBijSymmetric DEF ExistsBijection
<1>. QED BY <1>2, FS_Bijection

\* The pending calls of the bus are the admitted calls of the threads, one to one.
LEMMA RunningCallsCounted == GatewayInv => AdmissionsAreRunningCalls
<1>. SUFFICES ASSUME GatewayInv PROVE AdmissionsAreRunningCalls
  OBVIOUS
<1>. DEFINE P == {r \in DOMAIN calls : IsPending(r)}
            U == {r \in P : r \in UIRequests}
            W == {r \in P : r \notin UIRequests}
<1>1. AdmissionsHeld
  BY DEF GatewayInv
<1>2. ASSUME NEW t \in OuterAdmitted
      PROVE  /\ outer[t].request \in U
             /\ HandleOf(outer[t]) = [request |-> outer[t].request,
                                      principal |-> calls[outer[t].request].principal,
                                      nth |-> calls[outer[t].request].nth]
  <2>1. t \in Threads /\ outer[t] # Idle
    BY <1>2 DEF OuterAdmitted, Idle
  <2>2. outer[t].request \in UIRequests
    BY <2>1 DEF GatewayInv, CallsPlaced, OuterPlaced
  <2>. QED BY <1>1, <1>2, <2>2 DEF AdmissionsHeld, HoldsAdmission, IsPending, HandleOf
<1>3. ASSUME NEW t \in InnerAdmitted
      PROVE  /\ inner[t].request \in W
             /\ HandleOf(inner[t]) = [request |-> inner[t].request,
                                      principal |-> calls[inner[t].request].principal,
                                      nth |-> calls[inner[t].request].nth]
  <2>1. t \in Threads /\ inner[t] # Idle
    BY <1>3 DEF InnerAdmitted, Idle
  <2>2. inner[t].request \notin UIRequests
    BY <2>1, InnerPlace
  <2>. QED BY <1>1, <1>3, <2>2 DEF AdmissionsHeld, HoldsAdmission, IsPending, HandleOf
<1>4. ASSUME NEW r \in U PROVE \E t \in OuterAdmitted : outer[t].request = r
  BY <1>1, <1>3, <1>4 DEF AdmissionsHeld
<1>5. ASSUME NEW r \in W PROVE \E t \in InnerAdmitted : inner[t].request = r
  BY <1>1, <1>2, <1>5 DEF AdmissionsHeld
<1>6. IsFiniteSet(P) /\ IsFiniteSet(U) /\ IsFiniteSet(W)
  <2>1. IsFiniteSet(DOMAIN calls)
    BY DEF GatewayInv, BusInv
  <2>2. P \subseteq DOMAIN calls /\ U \subseteq DOMAIN calls /\ W \subseteq DOMAIN calls
    OBVIOUS
  <2>. QED BY <2>1, <2>2, FS_Subset
<1>7. P = U \cup W /\ U \cap W = {}
  OBVIOUS
<1>. HIDE DEF U, W
<1>8. Cardinality(OuterAdmitted) = Cardinality(U)
  <2>1. PICK f : f = [t \in OuterAdmitted |-> outer[t].request]
    OBVIOUS
  <2>2. f \in [OuterAdmitted -> U]
    BY <1>2, <2>1
  <2>3. \A a, b \in OuterAdmitted : f[a] = f[b] => a = b
    BY <1>1, <2>1 DEF AdmissionsHeld
  <2>4. \A y \in U : \E a \in OuterAdmitted : f[a] = y
    BY <1>4, <2>1
  <2>. QED BY <1>6, <2>2, <2>3, <2>4, OneToOne
<1>9. Cardinality(InnerAdmitted) = Cardinality(W)
  <2>1. PICK f : f = [t \in InnerAdmitted |-> inner[t].request]
    OBVIOUS
  <2>2. f \in [InnerAdmitted -> W]
    BY <1>3, <2>1
  <2>3. \A a, b \in InnerAdmitted : f[a] = f[b] => a = b
    BY <2>1 DEF GatewayInv, CallsPlaced, InnerAdmitted, Idle
  <2>4. \A y \in W : \E a \in InnerAdmitted : f[a] = y
    BY <1>5, <2>1
  <2>. QED BY <1>6, <2>2, <2>3, <2>4, OneToOne
<1>10. Cardinality(OuterAdmitted) + Cardinality(InnerAdmitted) = Cardinality(P)
  <2>1. /\ Cardinality(P) = Cardinality(U) + Cardinality(W) - Cardinality(U \cap W)
        /\ Cardinality(U) \in Nat /\ Cardinality(W) \in Nat
    BY <1>6, <1>7, FS_Union, FS_CardinalityType
  <2>2. Cardinality(U \cap W) = 0
    BY <1>7, FS_EmptySet
  <2>. QED BY <1>8, <1>9, <2>1, <2>2
<1>11. {HandleOf(outer[t]) : t \in OuterAdmitted} \cup {HandleOf(inner[t]) : t \in InnerAdmitted}
         = {[request |-> r, principal |-> calls[r].principal, nth |-> calls[r].nth] : r \in P}
  <2>. DEFINE H(r) == [request |-> r, principal |-> calls[r].principal, nth |-> calls[r].nth]
  <2>1. \A t \in OuterAdmitted : outer[t].request \in P /\ HandleOf(outer[t]) = H(outer[t].request)
    BY <1>2, <1>7
  <2>2. \A t \in InnerAdmitted : inner[t].request \in P /\ HandleOf(inner[t]) = H(inner[t].request)
    BY <1>3, <1>7
  <2>3. \A r \in P : \/ \E t \in OuterAdmitted : outer[t].request = r
                     \/ \E t \in InnerAdmitted : inner[t].request = r
    BY <1>4, <1>5, <1>7
  <2>. HIDE DEF H, P
  <2>4. {HandleOf(outer[t]) : t \in OuterAdmitted} \cup {HandleOf(inner[t]) : t \in InnerAdmitted}
          = {H(r) : r \in P}
    BY <2>1, <2>2, <2>3
  <2>. QED BY <2>4 DEF H
<1>. QED BY <1>10, <1>11 DEF AdmissionsAreRunningCalls

\* The calls of the threads and the ledgers they share are well formed and agree: every
\* pending admission belongs to one running call, so none is leaked and finish never fails.
THEOREM GatewayStaysSound == GatewaySpec => []GatewaySound
<1>1. GatewayInv => GatewayTypeOK
  BY DEF GatewayInv, BusInv, CallsTyped, GatewayTypeOK
<1>2. GatewayInv => GatewaySound
  BY <1>1, RunningCallsCounted DEF GatewaySound
<1>. QED BY <1>2, GatewayStaysInv, PTL

\* Each admission is audited exactly once with its outcome, or its call is about to do so.
THEOREM AdmissionsStayAudited == GatewaySpec => []AdmissionsAudited
<1>1. GatewayInv => AdmissionsAudited
  BY DEF GatewayInv
<1>. QED BY <1>1, GatewayStaysInv, PTL

\* A worker's call that was admitted leaves no lease behind that still gives authority.
THEOREM WorkerLeasesAreRevoked == GatewaySpec => []AdmittedWorkerLeasesRevoked
<1>1. GatewayInv => AdmittedWorkerLeasesRevoked
  BY DEF GatewayInv
<1>. QED BY <1>1, GatewayStaysInv, PTL

-----------------------------------------------------------------------------
(* The gateway implements the bus and the policy *)

\* A call is never ahead of the clock and shows a lease that was issued.
CallInTime(call) == call # Idle => call.now <= clock /\ call.lease \subseteq IssuedLeases

\* The ledger has leases of plugins only, each as its grant has it, and with an end.
LeaseIssued(id) ==
  /\ leases[id].principal \in Plugins /\ leases[id].scope = Global
  /\ \E op \in Operations : leases[id].capability = RequiredCapability[op]
  /\ leases[id].expiresAt # None
  /\ grantOf[id].principal = leases[id].principal
  /\ grantOf[id].capability = leases[id].capability
  /\ grantOf[id].asked = Global /\ grantOf[id].issuedAt <= leases[id].issuedAt

CallsInTime == \A t \in Threads : CallInTime(outer[t]) /\ CallInTime(inner[t])

InnerOfPlugins == \A t \in Threads : inner[t] # Idle => inner[t].principal \in Plugins

IssuedInv ==
  /\ GatewayInv /\ CallsInTime /\ InnerOfPlugins
  /\ \A id \in DOMAIN leases : LeaseIssued(id)

\* What became of a call: it ended, or it is the same one with the same lease.
Continues(c, d) ==
  d # Idle => c # Idle /\ d.now = c.now /\ d.lease = c.lease /\ d.principal = c.principal

LEMMA CallContinues ==
  ASSUME NEW S, NEW c \in Calls(S), c # Idle, NEW s, NEW n, NEW k
  PROVE  /\ Continues(c, c) /\ Continues(c, Idle)
         /\ Continues(c, [c EXCEPT !.step = s])
         /\ Continues(c, [c EXCEPT !.step = s, !.nth = n])
         /\ Continues(c, [c EXCEPT !.step = s, !.ok = k])
<1>. DEFINE L == AtMostOne(LeaseRecords(Time))
<1>0. Calls(S) = [step : S, request : RequestIds, principal : Principals,
                  op : Operations, selected : Seq(Nat), now : Time, budget : Nat,
                  lease : L, nth : Nat, ok : BOOLEAN]
  BY DEF Calls
<1>. HIDE DEF L
<1>. QED BY <1>0 DEF Continues

\* Calls that go on or end are in time still.
LEMMA InTimeStays ==
  ASSUME CallsInTime, InnerOfPlugins, CallsTyped, clock' \in Nat, clock \in Nat, clock' >= clock,
         \A t \in Threads : Continues(outer[t], outer'[t]) /\ Continues(inner[t], inner'[t])
  PROVE  CallsInTime' /\ InnerOfPlugins'
<1>1. ASSUME NEW t \in Threads PROVE CallInTime(outer[t])'
  <2>1. SUFFICES ASSUME outer'[t] # Idle PROVE outer'[t].now <= clock' /\ outer'[t].lease \subseteq IssuedLeases
    BY DEF CallInTime, IssuedLeases, CallLease
  <2>2. outer[t] # Idle /\ outer'[t].now = outer[t].now /\ outer'[t].lease = outer[t].lease
    BY <2>1 DEF Continues
  <2>3. outer[t].now <= clock /\ outer[t].lease \subseteq IssuedLeases
    BY <2>2 DEF CallsInTime, CallInTime
  <2>4. outer[t].now \in Time
    BY <2>2, ThreadStates, CallFields
  <2>. QED BY <2>2, <2>3, <2>4 DEF Time
<1>2. ASSUME NEW t \in Threads PROVE CallInTime(inner[t])'
  <2>1. SUFFICES ASSUME inner'[t] # Idle PROVE inner'[t].now <= clock' /\ inner'[t].lease \subseteq IssuedLeases
    BY DEF CallInTime, IssuedLeases, CallLease
  <2>2. inner[t] # Idle /\ inner'[t].now = inner[t].now /\ inner'[t].lease = inner[t].lease
    BY <2>1 DEF Continues
  <2>3. inner[t].now <= clock /\ inner[t].lease \subseteq IssuedLeases
    BY <2>2 DEF CallsInTime, CallInTime
  <2>4. inner[t].now \in Time
    BY <2>2, ThreadStates, CallFields
  <2>. QED BY <2>2, <2>3, <2>4 DEF Time
<1>3. InnerOfPlugins'
  BY DEF InnerOfPlugins, Continues, Plugins
<1>. QED BY <1>1, <1>2, <1>3 DEF CallsInTime

\* A call that has just begun, or been given its lease, is in time as well.
LEMMA InTimeMoves ==
  ASSUME CallsInTime, CallsTyped, clock' = clock, NEW t \in Threads, NEW c,
         c # Idle => c.now <= clock' /\ c.lease \subseteq IssuedLeases,
         \/ outer' = [outer EXCEPT ![t] = c] /\ inner' = inner
         \/ inner' = [inner EXCEPT ![t] = c] /\ outer' = outer
  PROVE  CallsInTime'
<1>1. DOMAIN outer = Threads /\ DOMAIN inner = Threads
  BY DEF CallsTyped
<1>2. ASSUME NEW u \in Threads
      PROVE  /\ outer'[u] # Idle => outer'[u].now <= clock' /\ outer'[u].lease \subseteq IssuedLeases
             /\ inner'[u] # Idle => inner'[u].now <= clock' /\ inner'[u].lease \subseteq IssuedLeases
  <2>1. CallInTime(outer[u]) /\ CallInTime(inner[u])
    BY DEF CallsInTime
  <2>. HIDE DEF IssuedLeases
  <2>. QED BY <1>1, <2>1 DEF CallInTime
<1>. QED BY <1>2 DEF CallsInTime, CallInTime, IssuedLeases, CallLease

\* One thread moves and the others stand still.
LEMMA OneMoves ==
  ASSUME CallsTyped, NEW t \in Threads, NEW c,
         \/ outer' = [outer EXCEPT ![t] = c] /\ inner' = inner /\ Continues(outer[t], c)
         \/ inner' = [inner EXCEPT ![t] = c] /\ outer' = outer /\ Continues(inner[t], c)
  PROVE  \A u \in Threads : Continues(outer[u], outer'[u]) /\ Continues(inner[u], inner'[u])
<1>1. \A d : Continues(d, d)
  BY DEF Continues
<1>2. DOMAIN outer = Threads /\ DOMAIN inner = Threads
  BY DEF CallsTyped
<1>. QED BY <1>1, <1>2

LEMMA CallLeasesIssued ==
  \A p \in Plugins \cup {NativeUI}, op \in Operations, at \in Time, until \in Time :
     CallLease(p, op, at, until) \in IssuedLeases
BY SMT DEF IssuedLeases

\* A lease of the ledger that is not revoked is one the bus is offered.
LEMMA ActiveIsIssued ==
  ASSUME IssuedInv, NEW id \in DOMAIN leases, leases[id].revokedAt = None
  PROVE  leases[id] \in IssuedLeases
<1>. DEFINE l == leases[id]
            O == Option(Time)
<1>1. l \in LeaseRecords(Time)
  BY SameRecords DEF IssuedInv, GatewayInv, CallsTyped, Policy!PolicyTypeOK
<1>2. LeaseRecords(Time) =
        [principal : Principals, capability : CapabilityNames, scope : Scopes,
         issuedAt : Time, expiresAt : O, revokedAt : O]
  BY DEF LeaseRecords
<1>3. /\ l.principal \in Plugins /\ l.scope = Global /\ l.expiresAt # None
      /\ \E op \in Operations : l.capability = RequiredCapability[op]
  BY DEF IssuedInv, LeaseIssued
<1>4. l.expiresAt \in O /\ l.issuedAt \in Time
  <2>. HIDE DEF O, l
  <2>. QED BY <1>1, <1>2
<1>5. PICK until \in Time : l.expiresAt = Some(until)
  BY <1>3, <1>4 DEF Option
<1>6. PICK op \in Operations : l.capability = RequiredCapability[op]
  BY <1>3
<1>7. l = CallLease(l.principal, op, l.issuedAt, until)
  <2>. HIDE DEF O
  <2>1. l = [principal |-> l.principal, capability |-> l.capability, scope |-> l.scope,
             issuedAt |-> l.issuedAt, expiresAt |-> l.expiresAt, revokedAt |-> l.revokedAt]
    <3>. HIDE DEF l
    <3>. QED BY <1>1, <1>2
  <2>. QED BY <2>1, <1>3, <1>5, <1>6 DEF CallLease
<1>. QED BY <1>3, <1>4, <1>7 DEF IssuedLeases

\* What a UI call is authorized with is one of them too.
LEMMA AuthorizedIsIssued ==
  ASSUME IssuedInv, NEW t \in Threads, outer[t] # Idle, NEW lease \in AuthorizedWith(outer[t])
  PROVE  lease \in IssuedLeases
<1>1. CASE \E id \in DOMAIN leases :
             /\ lease = leases[id]
             /\ Policy!AuthorizedByLease(outer[t].op, outer[t].principal, outer[t].selected, outer[t].now, id)
  <2>1. PICK id \in DOMAIN leases :
             /\ lease = leases[id]
             /\ Policy!AuthorizedByLease(outer[t].op, outer[t].principal, outer[t].selected, outer[t].now, id)
    BY <1>1
  <2>2. PICK i \in 1 .. Len(outer[t].selected) :
             /\ outer[t].selected[i] = id
             /\ \A j \in 1 .. i : Policy!Usable(outer[t].selected[j], outer[t].principal, outer[t].now)
    BY <2>1 DEF Policy!AuthorizedByLease
  <2>3. outer[t].selected \in Seq(Nat)
    BY ThreadStates, CallFields DEF IssuedInv, GatewayInv
  <2>4. i \in 1 .. i
    BY <2>3
  <2>5. Policy!Usable(id, outer[t].principal, outer[t].now)
    BY <2>2, <2>4
  <2>6. leases[id].revokedAt = None
    BY <2>5 DEF Policy!Usable, Policy!IsActiveAt, Policy!None, None
  <2>. QED BY <2>1, <2>6, ActiveIsIssued
<1>2. CASE lease = CallLease(outer[t].principal, outer[t].op, outer[t].now, outer[t].now + outer[t].budget)
  <2>1. /\ outer[t].op \in Operations /\ outer[t].now \in Time /\ outer[t].budget \in Nat
        /\ outer[t].principal = NativeUI /\ outer[t].now + outer[t].budget <= MaxTime
    BY ThreadStates, CallFields DEF IssuedInv, GatewayInv, CallsPlaced, OuterPlaced
  <2>2. outer[t].now + outer[t].budget \in Time
    BY <2>1, BusAssumption DEF Time
  <2>. QED BY <1>2, <2>1, <2>2, CallLeasesIssued
<1>3. \/ lease \in {leases[id] : id \in {n \in DOMAIN leases :
              Policy!AuthorizedByLease(outer[t].op, outer[t].principal, outer[t].selected,
                                       outer[t].now, n)}}
      \/ lease = CallLease(outer[t].principal, outer[t].op, outer[t].now,
                          outer[t].now + outer[t].budget)
  BY Zenon DEF AuthorizedWith
<1>. QED BY <1>1, <1>2, <1>3

\* The ledger of leases stays as it is issued when one lease ends otherwise.
LEMMA LeasesStayIssued ==
  ASSUME IssuedInv, NEW id \in DOMAIN leases, NEW expires, NEW revoked,
         expires # None, UNCHANGED grantOf,
         \/ leases' = [leases EXCEPT ![id].expiresAt = expires]
         \/ leases' = [leases EXCEPT ![id].revokedAt = revoked]
  PROVE  \A x \in DOMAIN leases' : LeaseIssued(x)'
<1>1. DOMAIN leases' = DOMAIN leases
  OBVIOUS
<1>2. ASSUME NEW x \in DOMAIN leases PROVE LeaseIssued(x)'
  <2>1. LeaseIssued(x) /\ leases[x] \in LeaseRecords(Time)
    BY SameRecords DEF IssuedInv, GatewayInv, CallsTyped, Policy!PolicyTypeOK
  <2>2. CASE x # id
    BY <2>1, <2>2 DEF LeaseIssued, Plugins
  <2>3. CASE x = id
    <3>1. /\ leases'[x].principal = leases[x].principal /\ leases'[x].scope = leases[x].scope
          /\ leases'[x].capability = leases[x].capability
          /\ leases'[x].issuedAt = leases[x].issuedAt
          /\ leases'[x].expiresAt \in {leases[x].expiresAt, expires}
      <4>. DEFINE O == Option(Time)
      <4>1. LeaseRecords(Time) =
              [principal : Principals, capability : CapabilityNames, scope : Scopes,
               issuedAt : Time, expiresAt : O, revokedAt : O]
        BY DEF LeaseRecords
      <4>. HIDE DEF O
      <4>2. CASE leases' = [leases EXCEPT ![id].expiresAt = expires]
        BY <2>1, <2>3, <4>1, <4>2
      <4>3. CASE leases' = [leases EXCEPT ![id].revokedAt = revoked]
        BY <2>1, <2>3, <4>1, <4>3
      <4>. QED BY <4>2, <4>3
    <3>. QED BY <2>1, <3>1 DEF LeaseIssued, Plugins
  <2>. QED BY <2>2, <2>3
<1>. QED BY <1>1, <1>2

\* The grant of a worker's call: its lease is as it is asked for, and the call shows it.
LEMMA GrantIssues ==
  ASSUME IssuedInv, GatewayInv', NEW t \in Threads, GrantWorker(t)
  PROVE  IssuedInv'
<1>0. PICK id, g : id = LeaseIdOf(inner[t]) /\ g = WorkerGrant(inner[t])
  OBVIOUS
<1>1. /\ CallsTyped /\ CallsInTime /\ InnerOfPlugins /\ \A x \in DOMAIN leases : LeaseIssued(x)
      /\ inner[t] # Idle /\ inner[t] \in Calls(InnerSteps)
  BY ThreadStates DEF IssuedInv, GatewayInv, GrantWorker, At
<1>2. /\ UNCHANGED <<busVars, outer>>
      /\ inner' = [inner EXCEPT ![t].step = "begin", ![t].lease = Some(leases'[id])]
      /\ Policy!IssueLease(Kernel, g, id, inner[t].now, g.maxExpires)
  BY <1>0 DEF GrantWorker
<1>3. /\ inner[t].op \in Operations /\ inner[t].principal \in Plugins /\ id \in Sequences
      /\ inner[t].now \in Time /\ inner[t].now + inner[t].budget \in Time
      /\ inner[t].now <= clock
  <2>1. inner[t].op \in Operations /\ inner[t].now \in Time /\ inner[t].budget \in Nat
    BY <1>1, CallFields
  <2>2. inner[t].now + inner[t].budget <= MaxTime /\ id \in Sequences
    BY <1>0, <1>1, InnerPlace DEF IssuedInv
  <2>3. inner[t].principal \in Plugins /\ inner[t].now <= clock
    BY <1>1 DEF InnerOfPlugins, CallsInTime, CallInTime
  <2>. QED BY <2>1, <2>2, <2>3, BusAssumption DEF Time
<1>4. /\ g.principal = inner[t].principal /\ g.capability = RequiredCapability[inner[t].op]
      /\ g.asked = Global /\ g.scope = Global /\ g.issuedAt = inner[t].now
      /\ g.maxExpires = Some(inner[t].now + inner[t].budget)
  BY <1>0 DEF WorkerGrant
<1>5. PICK l : l = Policy!NewLease(g, inner[t].now, g.maxExpires)
  OBVIOUS
<1>6. l = CallLease(inner[t].principal, inner[t].op, inner[t].now, inner[t].now + inner[t].budget)
  BY <1>4, <1>5 DEF Policy!NewLease, CallLease, Policy!None, None
<1>7. l \in IssuedLeases
  BY <1>3, <1>6, CallLeasesIssued
<1>8. /\ id \notin DOMAIN leases /\ clock' = clock
      /\ leases' = [x \in DOMAIN leases \cup {id} |-> IF x = id THEN l ELSE leases[x]]
      /\ grantOf' = [x \in DOMAIN leases \cup {id} |-> IF x = id THEN g ELSE grantOf[x]]
  BY <1>2, <1>5 DEF Policy!IssueLease
<1>9. \A x \in DOMAIN leases' : LeaseIssued(x)'
  <2>1. /\ l.principal = inner[t].principal /\ l.scope = Global /\ l.issuedAt = inner[t].now
        /\ l.capability = RequiredCapability[inner[t].op]
        /\ l.expiresAt = Some(inner[t].now + inner[t].budget)
    BY <1>6 DEF CallLease
  <2>2. l.expiresAt # None
    BY <2>1 DEF Some, None
  <2>3. LeaseIssued(id)'
    BY <1>3, <1>4, <1>8, <2>1, <2>2 DEF LeaseIssued, Plugins, Time
  <2>4. ASSUME NEW x \in DOMAIN leases, x # id PROVE LeaseIssued(x)'
    BY <1>1, <1>8, <2>4 DEF LeaseIssued, Plugins
  <2>. QED BY <1>8, <2>3, <2>4
<1>10. PICK c : c = [inner[t] EXCEPT !.step = "begin", !.lease = Some(leases'[id])]
  OBVIOUS
<1>11. inner' = [inner EXCEPT ![t] = c]
  BY <1>1, <1>2, <1>10 DEF CallsTyped
<1>12. c.now = inner[t].now /\ c.principal = inner[t].principal /\ c.lease = Some(leases'[id])
  <2>. DEFINE L == AtMostOne(LeaseRecords(Time))
  <2>0. Calls(InnerSteps) = [step : InnerSteps, request : RequestIds, principal : Principals,
                  op : Operations, selected : Seq(Nat), now : Time, budget : Nat,
                  lease : L, nth : Nat, ok : BOOLEAN]
    BY DEF Calls
  <2>. HIDE DEF L
  <2>. QED BY <1>1, <1>10, <2>0
<1>13. c.lease \subseteq IssuedLeases
  BY <1>7, <1>8, <1>12 DEF Some
<1>14. CallsInTime'
  BY <1>1, <1>2, <1>3, <1>8, <1>11, <1>12, <1>13, InTimeMoves
<1>15. InnerOfPlugins'
  BY <1>1, <1>3, <1>11, <1>12 DEF InnerOfPlugins, CallsTyped, Plugins
<1>. QED BY <1>9, <1>14, <1>15 DEF IssuedInv

\* A step of the gateway keeps what the bus and the policy need to know of it.
LEMMA IssuedInvNext == IssuedInv /\ [GatewayNext]_gatewayVars => IssuedInv'
<1>. SUFFICES ASSUME IssuedInv, [GatewayNext]_gatewayVars PROVE IssuedInv'
  OBVIOUS
<1>. DEFINE Same == /\ \A t \in Threads : Continues(outer[t], outer'[t]) /\ Continues(inner[t], inner'[t])
            Kept == /\ clock' = clock /\ UNCHANGED <<leases, grantOf>>
<1>0. /\ GatewayInv /\ GatewayInv' /\ CallsTyped /\ CallsInTime /\ InnerOfPlugins
      /\ \A id \in DOMAIN leases : LeaseIssued(id)
      /\ clock \in Nat /\ clock' \in Nat
  <2>1. GatewayInv'
    BY GatewayInvNext DEF IssuedInv
  <2>2. clock \in Time /\ clock' \in Time
    BY <2>1 DEF IssuedInv, GatewayInv, BusInv, BusTypeOK
  <2>. QED BY <2>1, <2>2 DEF IssuedInv, GatewayInv, Time
<1>1. ASSUME Same, Kept PROVE IssuedInv'
  <2>1. CallsInTime' /\ InnerOfPlugins'
    BY <1>0, <1>1, InTimeStays
  <2>2. \A id \in DOMAIN leases' : LeaseIssued(id)'
    BY <1>0, <1>1 DEF LeaseIssued, Plugins
  <2>. QED BY <1>0, <2>1, <2>2 DEF IssuedInv
<1>2. ASSUME UNCHANGED <<outer, inner>>, clock' >= clock, UNCHANGED <<leases, grantOf>>
      PROVE  IssuedInv'
  <2>1. \A t \in Threads : Continues(outer[t], outer'[t]) /\ Continues(inner[t], inner'[t])
    BY <1>2 DEF Continues
  <2>2. CallsInTime' /\ InnerOfPlugins'
    BY <1>0, <1>2, <2>1, InTimeStays
  <2>3. \A id \in DOMAIN leases' : LeaseIssued(id)'
    BY <1>0, <1>2 DEF LeaseIssued, Plugins
  <2>. QED BY <1>0, <2>2, <2>3 DEF IssuedInv
<1>3. ASSUME NEW t \in Threads, CallStep(t) PROVE IssuedInv'
  <2>0. outer[t] = Idle \/ (outer[t] \in Calls(OuterSteps) /\ outer[t] # Idle)
    BY <1>0, ThreadStates
  <2>1. ASSUME NEW r \in UIRequests, NEW op \in Operations, NEW selected \in Selections,
               NEW budget \in Budgets, Arrive(t, r, op, selected, budget)
        PROVE  IssuedInv'
    <3>0. PICK c : c = [step |-> "authorize", request |-> r, principal |-> NativeUI,
                      op |-> op, selected |-> selected, now |-> clock,
                      budget |-> budget, lease |-> None, nth |-> 0, ok |-> FALSE]
      OBVIOUS
    <3>1. /\ outer' = [outer EXCEPT ![t] = c]
          /\ UNCHANGED <<busVars, policyState, inner, sequence, audited, returned>>
      BY <2>1, <3>0 DEF Arrive
    <3>2. c.now <= clock' /\ c.lease \subseteq IssuedLeases
      BY <1>0, <3>0, <3>1 DEF None, busVars
    <3>3. CallsInTime'
      BY <1>0, <3>1, <3>2, InTimeMoves DEF busVars
    <3>4. InnerOfPlugins' /\ \A id \in DOMAIN leases' : LeaseIssued(id)'
      BY <1>0, <3>1 DEF InnerOfPlugins, LeaseIssued, Plugins, policyState
    <3>. QED BY <1>0, <3>3, <3>4 DEF IssuedInv
  <2>2. CASE Authorize(t)
    <3>1. PICK lease \in AuthorizedWith(outer[t]) :
            outer' = [outer EXCEPT ![t].step = "begin", ![t].lease = Some(lease)]
      BY <2>2 DEF Authorize
    <3>2. outer[t] # Idle /\ UNCHANGED <<busVars, policyState, inner, sequence, audited, returned>>
      BY <1>0, <2>2, ThreadStates DEF Authorize, At
    <3>3. Some(lease) \subseteq IssuedLeases
      BY <3>2, AuthorizedIsIssued DEF Some
    <3>4. PICK c : c = [outer[t] EXCEPT !.step = "begin", !.lease = Some(lease)]
      OBVIOUS
    <3>5. outer' = [outer EXCEPT ![t] = c]
      BY <1>0, <3>1, <3>4 DEF CallsTyped
    <3>6. c.now = outer[t].now /\ c.lease = Some(lease)
      <4>. DEFINE L == AtMostOne(LeaseRecords(Time))
      <4>0. Calls(OuterSteps) = [step : OuterSteps, request : RequestIds, principal : Principals,
                      op : Operations, selected : Seq(Nat), now : Time, budget : Nat,
                      lease : L, nth : Nat, ok : BOOLEAN]
        BY DEF Calls
      <4>. HIDE DEF L
      <4>. QED BY <2>0, <3>2, <3>4, <4>0
    <3>7. c.now <= clock'
      BY <1>0, <3>2, <3>6 DEF CallsInTime, CallInTime, busVars
    <3>8. CallsInTime'
      BY <1>0, <3>2, <3>3, <3>5, <3>6, <3>7, InTimeMoves DEF busVars
    <3>9. InnerOfPlugins' /\ \A id \in DOMAIN leases' : LeaseIssued(id)'
      BY <1>0, <3>2 DEF InnerOfPlugins, LeaseIssued, Plugins, policyState
    <3>. QED BY <1>0, <3>8, <3>9 DEF IssuedInv
  <2>3. CASE Deny(t) \/ RefuseCall(t) \/ AuditCall(t) \/ FinishCall(t) \/ BeginCall(t)
    <3>1. outer[t] # Idle /\ Kept /\ inner' = inner
      BY <1>0, <2>3, ThreadStates DEF Deny, RefuseCall, AuditCall, FinishCall, BeginCall, At,
         busVars, policyState, Admit, Begin, Finish, EndCall
    <3>2. \/ outer' = [outer EXCEPT ![t] = Idle]
          \/ outer' = [outer EXCEPT ![t].step = "finish"]
          \/ outer' = [outer EXCEPT ![t].step = "dispatch", ![t].nth = admissions'[outer[t].request]]
      BY <2>3 DEF Deny, RefuseCall, AuditCall, FinishCall, BeginCall
    <3>3. \E c : outer' = [outer EXCEPT ![t] = c] /\ Continues(outer[t], c)
      <4>1. CASE outer' = [outer EXCEPT ![t] = Idle]
        BY <4>1 DEF Continues
      <4>2. CASE outer' = [outer EXCEPT ![t].step = "finish"]
        <5>1. Continues(outer[t], [outer[t] EXCEPT !.step = "finish"])
          BY <2>0, <3>1, CallContinues
        <5>. QED BY <4>2, <5>1
      <4>3. CASE outer' = [outer EXCEPT ![t].step = "dispatch", ![t].nth = admissions'[outer[t].request]]
        <5>1. PICK c : c = [outer[t] EXCEPT !.step = "dispatch", !.nth = admissions'[outer[t].request]]
          OBVIOUS
        <5>2. outer' = [outer EXCEPT ![t] = c]
          BY <1>0, <4>3, <5>1 DEF CallsTyped
        <5>3. Continues(outer[t], c)
          BY <2>0, <3>1, <5>1, CallContinues
        <5>. QED BY <5>2, <5>3
      <4>. QED BY <3>2, <4>1, <4>2, <4>3
    <3>4. Same
      BY <1>0, <3>1, <3>3, OneMoves
    <3>. QED BY <1>1, <3>1, <3>4
  <2>4. ASSUME NEW k \in BOOLEAN, HandlerReturns(t, k) PROVE IssuedInv'
    <3>1. /\ outer[t] # Idle /\ Kept /\ inner' = inner
          /\ outer' = [outer EXCEPT ![t].step = "audit", ![t].ok = k]
      BY <1>0, <2>4, ThreadStates DEF HandlerReturns, At, busVars, policyState
    <3>2. PICK c : c = [outer[t] EXCEPT !.step = "audit", !.ok = k]
      OBVIOUS
    <3>3. outer' = [outer EXCEPT ![t] = c] /\ Continues(outer[t], c)
      BY <1>0, <2>0, <3>1, <3>2, CallContinues DEF CallsTyped
    <3>4. Same
      BY <1>0, <3>1, <3>3, OneMoves
    <3>. QED BY <1>1, <3>1, <3>4
  <2>5. ASSUME NEW id \in Sequences, NEW expires \in Option(Time), NEW now \in 0 .. clock,
               RenewReturns(t, id, expires, now)
        PROVE  IssuedInv'
    <3>1. /\ outer[t] # Idle /\ clock' = clock /\ inner' = inner
          /\ outer' = [outer EXCEPT ![t].step = "audit", ![t].ok = TRUE]
          /\ id \in DOMAIN leases /\ grantOf' = grantOf
          /\ leases[id].principal # NativeUI => expires # None
          /\ leases' = [leases EXCEPT ![id].expiresAt = expires]
      BY <1>0, <2>5, ThreadStates DEF RenewReturns, At, busVars, Policy!RenewLease, Policy!None, None
    <3>2. expires # None
      BY <1>0, <3>1 DEF LeaseIssued, Plugins
    <3>3. PICK c : c = [outer[t] EXCEPT !.step = "audit", !.ok = TRUE]
      OBVIOUS
    <3>4. outer' = [outer EXCEPT ![t] = c] /\ Continues(outer[t], c)
      BY <1>0, <2>0, <3>1, <3>3, CallContinues DEF CallsTyped
    <3>5. Same
      BY <1>0, <3>1, <3>4, OneMoves
    <3>6. clock' >= clock
      BY <1>0, <3>1
    <3>7. CallsInTime' /\ InnerOfPlugins'
      BY <1>0, <3>5, <3>6, InTimeStays
    <3>8. \A x \in DOMAIN leases' : LeaseIssued(x)'
      BY <3>1, <3>2, LeasesStayIssued
    <3>. QED BY <1>0, <3>7, <3>8 DEF IssuedInv
  <2>. QED BY <1>3, <2>1, <2>2, <2>3, <2>4, <2>5 DEF CallStep
<1>4. ASSUME NEW t \in Threads, WorkerStep(t) PROVE IssuedInv'
  <2>0. inner[t] = Idle \/ (inner[t] \in Calls(InnerSteps) /\ inner[t] # Idle)
    BY <1>0, ThreadStates
  <2>1. ASSUME NEW p \in Plugins, NEW op \in WorkerOperations, NEW budget \in Budgets,
               WorkerCall(t, p, op, budget)
        PROVE  IssuedInv'
    <3>0. PICK c : c = [step |-> "grant", request |-> WorkerRequest(sequence),
                      principal |-> p, op |-> op, selected |-> <<sequence>>,
                      now |-> outer[t].now, budget |-> budget, lease |-> None,
                      nth |-> 0, ok |-> FALSE]
      OBVIOUS
    <3>1. /\ inner' = [inner EXCEPT ![t] = c] /\ outer[t] # Idle
          /\ UNCHANGED <<busVars, policyState, outer, audited, returned>>
      BY <1>0, <2>1, <3>0, ThreadStates DEF WorkerCall, At
    <3>2. c.now <= clock' /\ c.lease \subseteq IssuedLeases /\ c.principal \in Plugins
      BY <1>0, <3>0, <3>1 DEF CallsInTime, CallInTime, None, busVars
    <3>3. CallsInTime'
      BY <1>0, <3>1, <3>2, InTimeMoves DEF busVars
    <3>4. InnerOfPlugins' /\ \A id \in DOMAIN leases' : LeaseIssued(id)'
      BY <1>0, <3>1, <3>2 DEF InnerOfPlugins, LeaseIssued, Plugins, policyState, CallsTyped
    <3>. QED BY <1>0, <3>3, <3>4 DEF IssuedInv
  <2>2. CASE GrantWorker(t)
    BY <1>0, <2>2, GrantIssues
  <2>3. CASE RefuseWorker(t) \/ AuditWorker(t) \/ FinishWorker(t) \/ BeginWorker(t)
    <3>1. inner[t] # Idle /\ Kept /\ outer' = outer
      BY <1>0, <2>3, ThreadStates DEF RefuseWorker, AuditWorker, FinishWorker, BeginWorker, At,
         busVars, policyState, Admit, Begin, Finish, EndCall
    <3>2. \/ inner' = [inner EXCEPT ![t] = Idle]
          \/ inner' = [inner EXCEPT ![t].step = AfterFinish(inner[t])]
          \/ inner' = [inner EXCEPT ![t].step = "dispatch", ![t].nth = admissions'[inner[t].request]]
      BY <2>3 DEF RefuseWorker, AuditWorker, FinishWorker, BeginWorker
    <3>3. \E c : inner' = [inner EXCEPT ![t] = c] /\ Continues(inner[t], c)
      <4>1. CASE inner' = [inner EXCEPT ![t] = Idle]
        BY <4>1 DEF Continues
      <4>2. CASE inner' = [inner EXCEPT ![t].step = AfterFinish(inner[t])]
        <5>1. Continues(inner[t], [inner[t] EXCEPT !.step = AfterFinish(inner[t])])
          BY <2>0, <3>1, CallContinues
        <5>. QED BY <4>2, <5>1
      <4>3. CASE inner' = [inner EXCEPT ![t].step = "dispatch", ![t].nth = admissions'[inner[t].request]]
        <5>1. PICK c : c = [inner[t] EXCEPT !.step = "dispatch", !.nth = admissions'[inner[t].request]]
          OBVIOUS
        <5>2. inner' = [inner EXCEPT ![t] = c]
          BY <1>0, <4>3, <5>1 DEF CallsTyped
        <5>3. Continues(inner[t], c)
          BY <2>0, <3>1, <5>1, CallContinues
        <5>. QED BY <5>2, <5>3
      <4>. QED BY <3>2, <4>1, <4>2, <4>3
    <3>4. Same
      BY <1>0, <3>1, <3>3, OneMoves
    <3>. QED BY <1>1, <3>1, <3>4
  <2>4. ASSUME NEW k \in BOOLEAN, WorkerHandlerReturns(t, k) PROVE IssuedInv'
    <3>1. /\ inner[t] # Idle /\ Kept /\ outer' = outer
          /\ inner' = [inner EXCEPT ![t].step = "finish", ![t].ok = k]
      BY <1>0, <2>4, ThreadStates DEF WorkerHandlerReturns, At, busVars, policyState
    <3>2. PICK c : c = [inner[t] EXCEPT !.step = "finish", !.ok = k]
      OBVIOUS
    <3>3. inner' = [inner EXCEPT ![t] = c] /\ Continues(inner[t], c)
      BY <1>0, <2>0, <3>1, <3>2, CallContinues DEF CallsTyped
    <3>4. Same
      BY <1>0, <3>1, <3>3, OneMoves
    <3>. QED BY <1>1, <3>1, <3>4
  <2>5. CASE RevokeWorker(t)
    <3>. DEFINE id == LeaseIdOf(inner[t])
    <3>1. /\ inner[t] # Idle /\ clock' = clock /\ outer' = outer
          /\ inner' = [inner EXCEPT ![t].step = "audit"]
          /\ id \in DOMAIN leases /\ grantOf' = grantOf
          /\ leases' = [leases EXCEPT ![id].revokedAt = Policy!Some(inner[t].now)]
      BY <1>0, <2>5, ThreadStates DEF RevokeWorker, At, busVars, Policy!RevokeLease
    <3>2. PICK c : c = [inner[t] EXCEPT !.step = "audit"]
      OBVIOUS
    <3>3. inner' = [inner EXCEPT ![t] = c] /\ Continues(inner[t], c)
      BY <1>0, <2>0, <3>1, <3>2, CallContinues DEF CallsTyped
    <3>4. Same
      BY <1>0, <3>1, <3>3, OneMoves
    <3>5. CallsInTime' /\ InnerOfPlugins'
      BY <1>0, <3>1, <3>4, InTimeStays
    <3>6. \A x \in DOMAIN leases' : LeaseIssued(x)'
      <4>1. Some(0) # None
        BY DEF Some, None
      <4>. QED BY <3>1, <4>1, LeasesStayIssued
    <3>. QED BY <1>0, <3>5, <3>6 DEF IssuedInv
  <2>. QED BY <1>4, <2>1, <2>2, <2>3, <2>4, <2>5 DEF WorkerStep
<1>5. CASE \E op \in Operations : RegisterHandler(op)
  BY <1>0, <1>2, <1>5 DEF RegisterHandler, RegisterOperation, policyState, calling
<1>6. CASE Elapse
  BY <1>0, <1>2, <1>6 DEF Elapse, Tick, policyState, calling
<1>7. CASE UNCHANGED gatewayVars
  BY <1>0, <1>2, <1>7 DEF gatewayVars, busVars, policyState, calling
<1>. QED BY <1>3, <1>4, <1>5, <1>6, <1>7 DEF GatewayNext

LEMMA IssuedInvInit == GatewayInit => IssuedInv
<1>. SUFFICES ASSUME GatewayInit PROVE IssuedInv
  OBVIOUS
<1>1. CallsInTime /\ InnerOfPlugins /\ DOMAIN leases = {}
  BY DEF GatewayInit, CallsInTime, CallInTime, InnerOfPlugins, Policy!PolicyInit
<1>. QED BY <1>1, GatewayInvInit DEF IssuedInv

LEMMA IssuedStays == GatewaySpec => []IssuedInv
BY IssuedInvInit, IssuedInvNext, PTL DEF GatewaySpec

\* An admission of a UI call or of a worker's call is a begin of the bus.
LEMMA AdmitIsBusStep ==
  ASSUME GatewayInv, NEW S, NEW c \in Calls(S), c # Idle, CallInTime(c), c.budget > 0,
         c.now + c.budget <= MaxTime, Admit(c)
  PROVE  BusNext
<1>1. PICK lease \in c.lease :
         Begin(c.request, c.principal, c.op, c.now + c.budget, lease, c.now)
  BY DEF Admit
<1>2. /\ c.request \in RequestIds /\ c.principal \in Principals /\ c.op \in Operations
      /\ c.now \in Time /\ c.budget \in Nat
  BY CallFields
<1>3. c.now + c.budget \in 1 .. MaxTime + 1 /\ c.now \in 0 .. clock /\ lease \in Leases
  BY <1>2, BusAssumption, PresentedAssumption DEF CallInTime, Time, GatewayInv, BusInv, BusTypeOK
<1>. QED BY <1>1, <1>2, <1>3 DEF BusNext

LEMMA GatewayStepsBus == IssuedInv /\ [GatewayNext]_gatewayVars => [BusNext]_busVars
<1>. SUFFICES ASSUME IssuedInv, GatewayNext, ~ UNCHANGED busVars PROVE BusNext
  BY DEF gatewayVars
<1>0. GatewayInv /\ CallsTyped /\ CallsInTime
  BY DEF IssuedInv, GatewayInv
<1>1. CASE \E op \in Operations : RegisterHandler(op)
  BY <1>1 DEF RegisterHandler, BusNext
<1>2. CASE Elapse
  BY <1>2 DEF Elapse, BusNext
<1>3. ASSUME NEW t \in Threads, CallStep(t) PROVE BusNext
  <2>1. BeginCall(t) \/ FinishCall(t)
    BY <1>3 DEF CallStep, Arrive, Authorize, Deny, RefuseCall, HandlerReturns, RenewReturns, AuditCall
  <2>2. CASE BeginCall(t)
    <3>1. outer[t] # Idle /\ outer[t] \in Calls(OuterSteps) /\ Admit(outer[t])
      BY <1>0, <2>2, ThreadStates DEF BeginCall, At
    <3>2. OuterPlaced(outer[t]) /\ CallInTime(outer[t])
      BY <1>0 DEF GatewayInv, CallsPlaced, CallsInTime
    <3>. QED BY <1>0, <3>1, <3>2, AdmitIsBusStep DEF OuterPlaced
  <2>3. CASE FinishCall(t)
    <3>1. t \in OuterAdmitted /\ Finish(HandleOf(outer[t]))
      BY <2>3 DEF FinishCall, At, OuterAdmitted
    <3>2. HandleOf(outer[t]) \in handles
      BY <1>0, <3>1 DEF GatewayInv, AdmissionsHeld, HoldsAdmission
    <3>. QED BY <3>1, <3>2 DEF BusNext
  <2>. QED BY <2>1, <2>2, <2>3
<1>4. ASSUME NEW t \in Threads, WorkerStep(t) PROVE BusNext
  <2>1. BeginWorker(t) \/ FinishWorker(t)
    BY <1>4 DEF WorkerStep, WorkerCall, GrantWorker, RefuseWorker, WorkerHandlerReturns, RevokeWorker, AuditWorker
  <2>2. CASE BeginWorker(t)
    <3>1. inner[t] # Idle /\ inner[t] \in Calls(InnerSteps) /\ Admit(inner[t])
      BY <1>0, <2>2, ThreadStates DEF BeginWorker, At
    <3>2. InnerPlaced(inner[t]) /\ CallInTime(inner[t])
      BY <1>0 DEF GatewayInv, CallsPlaced, CallsInTime
    <3>. QED BY <1>0, <3>1, <3>2, AdmitIsBusStep DEF InnerPlaced
  <2>3. CASE FinishWorker(t)
    <3>1. t \in InnerAdmitted /\ Finish(HandleOf(inner[t]))
      BY <2>3 DEF FinishWorker, At, InnerAdmitted
    <3>2. HandleOf(inner[t]) \in handles
      BY <1>0, <3>1 DEF GatewayInv, AdmissionsHeld, HoldsAdmission
    <3>. QED BY <3>1, <3>2 DEF BusNext
  <2>. QED BY <2>1, <2>2, <2>3
<1>. QED BY <1>1, <1>2, <1>3, <1>4 DEF GatewayNext

LEMMA GatewayStepsPolicy == IssuedInv /\ [GatewayNext]_gatewayVars => [Policy!PolicyNext]_(Policy!policyVars)
<1>. SUFFICES ASSUME IssuedInv, GatewayNext, ~ UNCHANGED <<leases, grantOf, clock>> PROVE Policy!PolicyNext
  BY DEF gatewayVars, busVars, policyState, Policy!policyVars
<1>0. GatewayInv /\ CallsTyped /\ CallsInTime /\ Kernel \in Principals /\ clock \in Nat
      /\ Policy!Option(Policy!Time) = Option(Time)
  BY GatewayAssumption, SameRecords DEF IssuedInv, GatewayInv, BusInv, BusTypeOK, Time
<1>1. CASE \E op \in Operations : RegisterHandler(op)
  BY <1>1 DEF RegisterHandler, RegisterOperation, policyState
<1>2. CASE Elapse
  BY <1>2 DEF Elapse, Tick, Policy!PolicyNext, Policy!Tick, policyState
<1>3. ASSUME NEW t \in Threads, CallStep(t) PROVE Policy!PolicyNext
  <2>1. \E id \in Sequences, expires \in Option(Time), now \in 0 .. clock : RenewReturns(t, id, expires, now)
    BY <1>3 DEF CallStep, Arrive, Authorize, Deny, RefuseCall, HandlerReturns, AuditCall, BeginCall, FinishCall,
                busVars, policyState, Admit, Begin, Finish, EndCall
  <2>. QED BY <1>0, <2>1 DEF RenewReturns, Policy!PolicyNext
<1>4. ASSUME NEW t \in Threads, WorkerStep(t) PROVE Policy!PolicyNext
  <2>1. GrantWorker(t) \/ RevokeWorker(t)
    BY <1>4 DEF WorkerStep, WorkerCall, BeginWorker, FinishWorker, RefuseWorker, WorkerHandlerReturns, AuditWorker,
                busVars, policyState, Admit, Begin, Finish, EndCall
  <2>2. inner[t] # Idle /\ inner[t] \in Calls(InnerSteps)
    BY <1>0, <2>1, ThreadStates DEF GrantWorker, RevokeWorker, At
  <2>3. /\ inner[t].now \in 0 .. clock /\ LeaseIdOf(inner[t]) \in Sequences
        /\ inner[t].principal \in Principals /\ inner[t].op \in Operations
        /\ inner[t].now + inner[t].budget \in Time
    <3>1. /\ inner[t].op \in Operations /\ inner[t].now \in Time /\ inner[t].budget \in Nat
          /\ inner[t].principal \in Principals
      BY <2>2, CallFields
    <3>2. inner[t].now + inner[t].budget <= MaxTime /\ LeaseIdOf(inner[t]) \in Sequences
      BY <1>0, <2>2, InnerPlace
    <3>3. inner[t].now <= clock
      BY <1>0, <2>2 DEF CallsInTime, CallInTime
    <3>. QED BY <1>0, <3>1, <3>2, <3>3, BusAssumption DEF Time
  <2>4. CASE RevokeWorker(t)
    BY <1>0, <2>3, <2>4 DEF RevokeWorker, Policy!PolicyNext
  <2>5. CASE GrantWorker(t)
    <3>. DEFINE most == Some(inner[t].now + inner[t].budget)
                g == WorkerGrant(inner[t])
    <3>1. /\ g = [principal |-> inner[t].principal, capability |-> RequiredCapability[inner[t].op],
                  asked |-> Global, scope |-> Global, issuedAt |-> inner[t].now, maxExpires |-> most]
          /\ g.maxExpires = most
      BY DEF WorkerGrant
    <3>2. most \in Policy!Option(Policy!Time) /\ Global \in Policy!Scopes
      BY <1>0, <2>3 DEF Option, Policy!Scopes
    <3>. HIDE DEF g, most
    <3>3. /\ Policy!Grantable(Kernel, inner[t].op, most, g)
          /\ Policy!IssueLease(Kernel, g, LeaseIdOf(inner[t]), inner[t].now, most)
      BY <2>5, <3>1 DEF GrantWorker, g
    <3>4. Policy!GrantAndIssue(Kernel, inner[t].op, most, g)
      BY <2>3, <3>2, <3>3 DEF Policy!GrantAndIssue
    <3>. QED BY <1>0, <2>3, <3>1, <3>2, <3>4 DEF Policy!PolicyNext
  <2>. QED BY <2>1, <2>4, <2>5
<1>. QED BY <1>1, <1>2, <1>3, <1>4 DEF GatewayNext

\* Whatever the threads of the gateway do with calls of the interface and of the workers,
\* the admission ledger sees a behaviour of the bus alone (HostBus): it is only ever asked
\* to register, begin, finish and let time pass as the specification of the bus allows.
THEOREM GatewayImplementsBus == GatewaySpec => BusSpec
<1>1. GatewayInit => BusInit
  BY DEF GatewayInit
<1>. QED BY <1>1, IssuedStays, GatewayStepsBus, PTL DEF GatewaySpec, BusSpec

\* The same for the lease ledger: what the threads do to it is a behaviour of the
\* capability policy (CapabilityPolicy), each grant, renewal and revocation in its order.
THEOREM GatewayImplementsPolicy == GatewaySpec => Policy!PolicySpec
<1>1. GatewayInit => Policy!PolicyInit
  BY DEF GatewayInit
<1>. QED BY <1>1, IssuedStays, GatewayStepsPolicy, PTL DEF GatewaySpec, Policy!PolicySpec

\* An admission that has ended never comes back, the gateway's concurrent calls included:
\* the property of the bus, carried over by the refinement.
THEOREM AdmissionsEndOnce == GatewaySpec => EndedOnceForGood
BY GatewayImplementsBus, EndedStayEnded

\* Every lease the gateway issues to a plugin expires, however its worker call ends.
THEOREM WorkerAuthorityEnds == GatewaySpec => []Policy!PluginLeasesExpire
<1>1. IssuedInv => Policy!PluginLeasesExpire
  BY DEF IssuedInv, LeaseIssued, Policy!PluginLeasesExpire, Policy!None, None
<1>. QED BY <1>1, IssuedStays, PTL
=============================================================================
