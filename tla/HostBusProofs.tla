---------------------------- MODULE HostBusProofs ----------------------------
(***************************************************************************)
(* Machine-checked facts about HostBus, for any number of principals,      *)
(* operations and request ids and any limits.                              *)
(***************************************************************************)
EXTENDS HostBus, FiniteSetTheorems, SequenceTheorems, TLAPS

Ended == {r \in DOMAIN calls : calls[r].state # "Pending"}

\* The inductive invariant.  CountersExact alone is not inductive: an eviction
\* must not remove a pending record, which is what TombstonesExact says.
BusInv ==
    /\ BusTypeOK
    /\ IsFiniteSet(DOMAIN calls)
    /\ CountersExact
    /\ QuotaRespected
    /\ TombstonesExact

\* Pending calls form finite sets, so they can be counted.
LEMMA PendingFinite ==
  ASSUME IsFiniteSet(DOMAIN calls)
  PROVE  /\ \A p : IsFiniteSet(PendingOf(p)) /\ Cardinality(PendingOf(p)) \in Nat
         /\ \A p, op : /\ IsFiniteSet(PendingOn(p, op))
                       /\ Cardinality(PendingOn(p, op)) \in Nat
<1>1. ASSUME NEW S, S \subseteq DOMAIN calls
      PROVE  IsFiniteSet(S) /\ Cardinality(S) \in Nat
  BY <1>1, FS_Subset, FS_CardinalityType
<1>2. \A p : PendingOf(p) \subseteq DOMAIN calls
  BY DEF PendingOf
<1>3. \A p, op : PendingOn(p, op) \subseteq DOMAIN calls
  BY DEF PendingOf, PendingOn
<1>. QED BY <1>1, <1>2, <1>3

\* record_terminal, for distinct pending requests that end together: the
\* tombstone queue stays exact and no other pending call is disturbed.
LEMMA RecordTerminalEffect ==
  ASSUME BusTypeOK, TombstonesExact,
         NEW order \in Seq(DOMAIN calls),
         \A i \in 1 .. Len(order) : calls[order[i]].state = "Pending",
         \A i, j \in 1 .. Len(order) : order[i] = order[j] => i = j,
         NEW s \in AdmissionStates \ {"Pending"},
         RecordTerminal(order, s)
  PROVE  /\ DOMAIN calls' \subseteq DOMAIN calls
         /\ calls' \in [DOMAIN calls' -> CallRecords]
         /\ terminalOrder' \in Seq(RequestIds)
         /\ TombstonesExact'
         /\ \A r \in DOMAIN calls' : 
              calls'[r] = [calls[r] EXCEPT !.state = calls'[r].state]
         /\ \A r \in DOMAIN calls : calls[r].state # "Pending" =>
              (r \in DOMAIN calls' => calls'[r] = calls[r])
         /\ LET ended == {order[i] : i \in 1 .. Len(order)} IN
            /\ \A p : PendingOf(p)' = PendingOf(p) \ ended
            /\ \A p, op : PendingOn(p, op)' = PendingOn(p, op) \ ended
<1>. DEFINE queue == terminalOrder \o order
            n     == Len(queue)
            x     == Excess(queue)
            evicted == {queue[i] : i \in 1 .. x}
            ended == {order[i] : i \in 1 .. Len(order)}
<1>1. /\ order \in Seq(RequestIds) /\ terminalOrder \in Seq(RequestIds)
      /\ queue \in Seq(RequestIds)
      /\ n = Len(terminalOrder) + Len(order)
      /\ n \in Nat /\ x \in Nat /\ x <= n
      /\ n - x <= MaxTerminal
      /\ Len(terminalOrder) \in Nat /\ Len(order) \in Nat
  BY BusAssumption DEF BusTypeOK, Excess
<1>2. /\ \A i \in 1 .. Len(terminalOrder) : queue[i] = terminalOrder[i]
      /\ \A i \in 1 .. Len(order) : queue[Len(terminalOrder) + i] = order[i]
  BY <1>1
<1>3. /\ terminalOrder' = SubSeq(queue, x + 1, n)
      /\ calls' = [r \in DOMAIN calls \ evicted |->
                     IF r \in ended THEN [calls[r] EXCEPT !.state = s]
                     ELSE calls[r]]
  BY DEF RecordTerminal
<1>4. ended \subseteq DOMAIN calls /\ \A r \in ended : calls[r].state = "Pending"
  BY <1>1
<1>5. \A i \in 1 .. Len(terminalOrder) :
         /\ terminalOrder[i] \in DOMAIN calls
         /\ calls[terminalOrder[i]].state # "Pending"
  BY DEF TombstonesExact
<1>6. \A r \in DOMAIN calls : calls[r].state # "Pending" =>
         \E i \in 1 .. Len(terminalOrder) : terminalOrder[i] = r
  BY DEF TombstonesExact
<1>e. /\ \A r : r \in evicted <=> \E i \in 1 .. x : queue[i] = r
      /\ \A r : r \in ended <=> \E i \in 1 .. Len(order) : order[i] = r
  OBVIOUS
<1>. HIDE DEF queue, n, x, evicted, ended
<1>7. ASSUME NEW i \in 1 .. n
      PROVE  \/ i \in 1 .. Len(terminalOrder) /\ queue[i] = terminalOrder[i]
             \/ \E j \in 1 .. Len(order) : /\ i = Len(terminalOrder) + j
                                           /\ queue[i] = order[j]
  <2>1. CASE i <= Len(terminalOrder)
    BY <2>1, <1>1, <1>2
  <2>2. CASE ~ (i <= Len(terminalOrder))
    <3>1. /\ i - Len(terminalOrder) \in 1 .. Len(order)
          /\ i = Len(terminalOrder) + (i - Len(terminalOrder))
      BY <2>2, <1>1
    <3>. QED BY <3>1, <1>2
  <2>. QED BY <2>1, <2>2
<1>8. \A i, j \in 1 .. n : queue[i] = queue[j] => i = j
  <2>. SUFFICES ASSUME NEW i \in 1 .. n, NEW j \in 1 .. n, queue[i] = queue[j]
                PROVE  i = j
    OBVIOUS
  <2>1. CASE i \in 1 .. Len(terminalOrder) /\ j \in 1 .. Len(terminalOrder)
    BY <2>1, <1>2 DEF TombstonesExact
  <2>2. CASE \E k \in 1 .. Len(order) : i = Len(terminalOrder) + k
    <3>1. PICK k \in 1 .. Len(order) : i = Len(terminalOrder) + k
      BY <2>2
    <3>2. queue[i] = order[k] /\ calls[order[k]].state = "Pending"
      BY <3>1, <1>2
    <3>3. ASSUME j \in 1 .. Len(terminalOrder) PROVE FALSE
      <4>1. queue[j] = terminalOrder[j] /\ calls[terminalOrder[j]].state # "Pending"
        BY <3>3, <1>2, <1>5
      <4>. QED BY <4>1, <3>2
    <3>4. PICK m \in 1 .. Len(order) : j = Len(terminalOrder) + m /\ queue[j] = order[m]
      BY <3>3, <1>7
    <3>. QED BY <3>1, <3>2, <3>4
  <2>3. CASE \E k \in 1 .. Len(order) : j = Len(terminalOrder) + k
    <3>1. PICK k \in 1 .. Len(order) : j = Len(terminalOrder) + k
      BY <2>3
    <3>2. queue[j] = order[k] /\ calls[order[k]].state = "Pending"
      BY <3>1, <1>2
    <3>3. i \notin 1 .. Len(terminalOrder)
      BY <3>2, <1>2, <1>5
    <3>4. PICK m \in 1 .. Len(order) : i = Len(terminalOrder) + m /\ queue[i] = order[m]
      BY <3>3, <1>7
    <3>. QED BY <3>1, <3>2, <3>4
  <2>. QED BY <2>1, <2>2, <2>3, <1>7
<1>9. evicted \subseteq ended \cup Ended
  <2>. SUFFICES ASSUME NEW r \in evicted
                PROVE  r \in ended \/ r \in Ended
    OBVIOUS
  <2>1. PICK i \in 1 .. n : queue[i] = r
    BY <1>1, <1>e
  <2>. QED BY <2>1, <1>5, <1>7, <1>e DEF Ended
<1>10. /\ DOMAIN calls' = DOMAIN calls \ evicted
       /\ \A r \in DOMAIN calls' :
            calls'[r] = IF r \in ended THEN [calls[r] EXCEPT !.state = s]
                        ELSE calls[r]
  BY <1>3
<1>11. /\ calls' \in [DOMAIN calls' -> CallRecords]
       /\ \A r \in DOMAIN calls' : 
             /\ calls'[r] = [calls[r] EXCEPT !.state = calls'[r].state]
             /\ r \in ended => calls'[r].state = s
             /\ r \notin ended => calls'[r].state = calls[r].state
             /\ calls'[r].principal = calls[r].principal
             /\ calls'[r].operation = calls[r].operation
  <2>1. \A r \in DOMAIN calls : calls[r] \in CallRecords
    BY DEF BusTypeOK
  <2>2. calls' = [r \in DOMAIN calls' |-> calls'[r]]
    BY <1>3, <1>10
  <2>3. ASSUME NEW r \in DOMAIN calls'
        PROVE  /\ calls'[r] \in CallRecords
               /\ calls'[r] = [calls[r] EXCEPT !.state = calls'[r].state]
               /\ r \in ended => calls'[r].state = s
               /\ r \notin ended => calls'[r].state = calls[r].state
               /\ calls'[r].principal = calls[r].principal
               /\ calls'[r].operation = calls[r].operation
    BY <2>1, <2>3, <1>10 DEF CallRecords
  <2>. QED BY <2>2, <2>3
<1>12. /\ terminalOrder' \in Seq(RequestIds)
       /\ Len(terminalOrder') = n - x
       /\ \A i \in 1 .. n - x : terminalOrder'[i] = queue[x + i]
  <2>1. x + 1 \in 1 .. n + 1 /\ n \in x + 1 - 1 .. n /\ n = Len(queue)
    BY <1>1 DEF n
  <2>2. /\ SubSeq(queue, x + 1, n) \in Seq(RequestIds)
        /\ Len(SubSeq(queue, x + 1, n)) = IF x + 1 <= n THEN n - (x + 1) + 1 ELSE 0
        /\ \A i \in 1 .. n - (x + 1) + 1 :
              SubSeq(queue, x + 1, n)[i] = queue[x + 1 + i - 1]
    BY <1>1, <2>1, SubSeqProperties
  <2>3. \A i \in 1 .. n - x : x + 1 + i - 1 = x + i
    BY <1>1
  <2>4. n - (x + 1) + 1 = n - x /\ (~ (x + 1 <= n) => n - x = 0)
    BY <1>1
  <2>. QED BY <1>3, <2>2, <2>3, <2>4
<1>13. TombstonesExact'
  <2>1. Len(terminalOrder') <= MaxTerminal
    BY <1>1, <1>12
  <2>2. \A i, j \in 1 .. Len(terminalOrder') :
           terminalOrder'[i] = terminalOrder'[j] => i = j
    <3>. SUFFICES ASSUME NEW i \in 1 .. n - x, NEW j \in 1 .. n - x,
                         terminalOrder'[i] = terminalOrder'[j]
                  PROVE  i = j
      BY <1>12
    <3>1. queue[x + i] = queue[x + j]
      BY <1>12
    <3>2. x + i \in 1 .. n /\ x + j \in 1 .. n
      BY <1>1
    <3>3. x + i = x + j
      BY <3>1, <3>2, <1>8
    <3>. QED BY <3>3, <1>1
  <2>3. ASSUME NEW i \in 1 .. Len(terminalOrder')
        PROVE  /\ terminalOrder'[i] \in DOMAIN calls'
               /\ calls'[terminalOrder'[i]].state # "Pending"
    <3>1. x + i \in 1 .. n /\ terminalOrder'[i] = queue[x + i]
      BY <1>1, <1>12
    <3>2. queue[x + i] \notin evicted
      <4>. SUFFICES ASSUME NEW k \in 1 .. x, queue[k] = queue[x + i]
                    PROVE  FALSE
        BY <1>e
      <4>1. k \in 1 .. n /\ k # x + i
        BY <1>1
      <4>. QED BY <4>1, <3>1, <1>8
    <3>3. queue[x + i] \in ended \/ queue[x + i] \in Ended
      BY <3>1, <1>5, <1>7, <1>e DEF Ended
    <3>. QED BY <3>1, <3>2, <3>3, <1>4, <1>10, <1>11 DEF Ended
  <2>4. ASSUME NEW r \in DOMAIN calls', calls'[r].state # "Pending"
        PROVE  \E i \in 1 .. Len(terminalOrder') : terminalOrder'[i] = r
    <3>1. r \in ended \/ r \in Ended
      BY <2>4, <1>10, <1>11 DEF Ended
    <3>2. PICK i \in 1 .. n : queue[i] = r
      <4>1. CASE r \in ended
        <5>1. PICK k \in 1 .. Len(order) : order[k] = r
          BY <4>1, <1>e
        <5>2. /\ Len(terminalOrder) + k \in 1 .. n
              /\ queue[Len(terminalOrder) + k] = r
          BY <5>1, <1>1, <1>2
        <5>. QED BY <5>2
      <4>2. CASE r \in Ended
        <5>1. PICK k \in 1 .. Len(terminalOrder) : terminalOrder[k] = r
          BY <4>2, <1>6 DEF Ended
        <5>2. k \in 1 .. n /\ queue[k] = r
          BY <5>1, <1>1, <1>2
        <5>. QED BY <5>2
      <4>. QED BY <3>1, <4>1, <4>2
    <3>3. i \notin 1 .. x
      BY <3>2, <1>10, <1>e
    <3>4. i - x \in 1 .. n - x /\ x + (i - x) = i
      BY <3>2, <3>3, <1>1
    <3>. QED BY <3>2, <3>4, <1>12
  <2>. QED BY <2>1, <2>2, <2>3, <2>4 DEF TombstonesExact
<1>14. \A r : (r \in DOMAIN calls' /\ calls'[r].state = "Pending")
                 <=> /\ r \in DOMAIN calls /\ calls[r].state = "Pending"
                     /\ r \notin ended
  BY <1>4, <1>9, <1>10, <1>11 DEF Ended
<1>15. \A p : PendingOf(p)' = PendingOf(p) \ ended
  <2>. SUFFICES ASSUME NEW p, NEW r
                PROVE  r \in PendingOf(p)' <=> r \in PendingOf(p) \ ended
    OBVIOUS
  <2>1. r \in PendingOf(p)' <=> /\ r \in DOMAIN calls' /\ calls'[r].state = "Pending"
                                /\ calls'[r].principal = p
    BY DEF PendingOf
  <2>2. r \in PendingOf(p) <=> /\ r \in DOMAIN calls /\ calls[r].state = "Pending"
                               /\ calls[r].principal = p
    BY DEF PendingOf
  <2>. QED BY <2>1, <2>2, <1>10, <1>11, <1>14
<1>16. \A p, op : PendingOn(p, op)' = PendingOn(p, op) \ ended
  <2>1. \A p : PendingOf(p)' \subseteq DOMAIN calls'
    BY DEF PendingOf
  <2>. QED BY <1>15, <1>11, <2>1 DEF PendingOn
<1>17. \A r \in DOMAIN calls : calls[r].state # "Pending" =>
              (r \in DOMAIN calls' => calls'[r] = calls[r])
  BY <1>4, <1>10
<1>. QED BY <1>10, <1>11, <1>12, <1>13, <1>15, <1>16, <1>17 DEF ended

\* Ending a batch of pending calls releases exactly the places they held.
LEMMA ReleaseEffect ==
  ASSUME BusInv, NEW batch, batch \subseteq DOMAIN calls,
         \A r \in batch : calls[r].state = "Pending",
         ReleaseInflight(batch),
         \A p : PendingOf(p)' = PendingOf(p) \ batch,
         \A p, op : PendingOn(p, op)' = PendingOn(p, op) \ batch
  PROVE  /\ inflightByPrincipal' \in [Principals -> Nat]
         /\ inflightByOperation' \in [Principals \X Operations -> Nat]
         /\ CountersExact'
         /\ QuotaRespected'
<1>1. \A p \in Principals :
         /\ Cardinality(PendingOf(p)) \in Nat
         /\ Cardinality(PendingOf(p)') \in Nat
         /\ Cardinality(PendingOf(p)') <= Cardinality(PendingOf(p))
         /\ inflightByPrincipal'[p] = Cardinality(PendingOf(p)')
  <2>. SUFFICES ASSUME NEW p \in Principals
                PROVE  /\ Cardinality(PendingOf(p)) \in Nat
                       /\ Cardinality(PendingOf(p)') \in Nat
                       /\ Cardinality(PendingOf(p)') <= Cardinality(PendingOf(p))
                       /\ inflightByPrincipal'[p] = Cardinality(PendingOf(p)')
    OBVIOUS
  <2>. DEFINE mine == {r \in batch : calls[r].principal = p}
  <2>1. mine = PendingOf(p) \cap batch
    BY DEF PendingOf
  <2>2. IsFiniteSet(PendingOf(p)) /\ Cardinality(PendingOf(p)) \in Nat
    BY PendingFinite DEF BusInv
  <2>3. Cardinality(mine) \in Nat
    BY <2>1, <2>2, FS_Intersection, FS_CardinalityType
  <2>4. /\ IsFiniteSet(PendingOf(p) \ batch)
        /\ Cardinality(PendingOf(p) \ batch) = Cardinality(PendingOf(p)) - Cardinality(mine)
    BY <2>1, <2>2, FS_Difference
  <2>5. Cardinality(PendingOf(p) \ batch) \in Nat
    BY <2>4, FS_CardinalityType
  <2>6. inflightByPrincipal'[p] = Decremented(inflightByPrincipal[p], Cardinality(mine))
    BY DEF ReleaseInflight
  <2>7. inflightByPrincipal[p] = Cardinality(PendingOf(p))
    BY DEF BusInv, CountersExact
  <2>8. Cardinality(PendingOf(p)') = Cardinality(PendingOf(p) \ batch)
    <3>1. PendingOf(p)' = PendingOf(p) \ batch
      OBVIOUS
    <3>. QED BY <3>1
  <2>. HIDE DEF mine
  <2>. QED BY <2>2, <2>3, <2>4, <2>5, <2>6, <2>7, <2>8 DEF Decremented
<1>2. \A p \in Principals, op \in Operations :
         /\ Cardinality(PendingOn(p, op)) \in Nat
         /\ Cardinality(PendingOn(p, op)') \in Nat
         /\ Cardinality(PendingOn(p, op)') <= Cardinality(PendingOn(p, op))
         /\ inflightByOperation'[<<p, op>>] = Cardinality(PendingOn(p, op)')
  <2>. SUFFICES ASSUME NEW p \in Principals, NEW op \in Operations
                PROVE  /\ Cardinality(PendingOn(p, op)) \in Nat
                       /\ Cardinality(PendingOn(p, op)') \in Nat
                       /\ Cardinality(PendingOn(p, op)') <= Cardinality(PendingOn(p, op))
                       /\ inflightByOperation'[<<p, op>>] = Cardinality(PendingOn(p, op)')
    OBVIOUS
  <2>. DEFINE mine == {r \in batch : calls[r].principal = p /\ calls[r].operation = op}
  <2>1. mine = PendingOn(p, op) \cap batch
    BY DEF PendingOf, PendingOn
  <2>2. IsFiniteSet(PendingOn(p, op)) /\ Cardinality(PendingOn(p, op)) \in Nat
    BY PendingFinite DEF BusInv
  <2>3. Cardinality(mine) \in Nat
    BY <2>1, <2>2, FS_Intersection, FS_CardinalityType
  <2>4. /\ IsFiniteSet(PendingOn(p, op) \ batch)
        /\ Cardinality(PendingOn(p, op) \ batch)
              = Cardinality(PendingOn(p, op)) - Cardinality(mine)
    <3>. HIDE DEF mine
    <3>1. /\ IsFiniteSet(PendingOn(p, op) \ batch)
          /\ Cardinality(PendingOn(p, op) \ batch)
               = Cardinality(PendingOn(p, op)) - Cardinality(PendingOn(p, op) \cap batch)
      BY <2>2, FS_Difference
    <3>. QED BY <2>1, <3>1
  <2>5. Cardinality(PendingOn(p, op) \ batch) \in Nat
    BY <2>4, FS_CardinalityType
  <2>6. inflightByOperation'[<<p, op>>]
          = Decremented(inflightByOperation[<<p, op>>], Cardinality(mine))
    BY DEF ReleaseInflight
  <2>7. inflightByOperation[<<p, op>>] = Cardinality(PendingOn(p, op))
    BY DEF BusInv, CountersExact
  <2>8. Cardinality(PendingOn(p, op)') = Cardinality(PendingOn(p, op) \ batch)
    <3>1. PendingOn(p, op)' = PendingOn(p, op) \ batch
      OBVIOUS
    <3>. QED BY <3>1
  <2>. HIDE DEF mine
  <2>. QED BY <2>2, <2>3, <2>4, <2>5, <2>6, <2>7, <2>8 DEF Decremented
<1>3. inflightByPrincipal' \in [Principals -> Nat]
  BY <1>1 DEF ReleaseInflight
<1>4. inflightByOperation' \in [Principals \X Operations -> Nat]
  <2>1. \A k \in Principals \X Operations : inflightByOperation'[k] \in Nat
    BY <1>2
  <2>. QED BY <2>1 DEF ReleaseInflight
<1>5. CountersExact'
  BY <1>1, <1>2 DEF CountersExact
<1>6. QuotaRespected'
  <2>1. \A p \in Principals : Cardinality(PendingOf(p)') <= MaxInflight
    <3>. SUFFICES ASSUME NEW p \in Principals
                  PROVE  Cardinality(PendingOf(p)') <= MaxInflight
      OBVIOUS
    <3>1. Cardinality(PendingOf(p)) <= MaxInflight
      BY DEF BusInv, QuotaRespected
    <3>2. MaxInflight \in Nat
      BY BusAssumption
    <3>. QED BY <1>1, <3>1, <3>2
  <2>2. \A p \in Principals, op \in Operations :
           Cardinality(PendingOn(p, op)') <= OperationLimit[op]
    <3>. SUFFICES ASSUME NEW p \in Principals, NEW op \in Operations
                  PROVE  Cardinality(PendingOn(p, op)') <= OperationLimit[op]
      OBVIOUS
    <3>1. Cardinality(PendingOn(p, op)) <= OperationLimit[op]
      BY DEF BusInv, QuotaRespected
    <3>2. OperationLimit[op] \in Nat
      BY BusAssumption
    <3>3. /\ Cardinality(PendingOn(p, op)) \in Nat
          /\ Cardinality(PendingOn(p, op)') \in Nat
          /\ Cardinality(PendingOn(p, op)') <= Cardinality(PendingOn(p, op))
      BY <1>2
    <3>. HIDE <1>2
    <3>. QED BY <3>1, <3>2, <3>3
  <2>. QED BY <2>1, <2>2 DEF QuotaRespected
<1>. QED BY <1>3, <1>4, <1>5, <1>6

\* Admission: the new call is counted once, and only below both limits.
LEMMA BeginPreserves ==
  ASSUME BusInv,
         NEW r \in RequestIds, NEW p \in Principals, NEW op \in Operations,
         NEW deadline \in 1 .. MaxTime + 1, NEW lease, NEW now,
         Begin(r, p, op, deadline, lease, now)
  PROVE  BusInv'
<1>1. /\ r \notin DOMAIN calls
      /\ inflightByPrincipal[p] < MaxInflight
      /\ inflightByOperation[<<p, op>>] < OperationLimit[op]
  <2>1. r \notin DOMAIN calls /\ ~ QuotaFull(p, op)
    BY DEF Begin, AdmissionError, IsDuplicate
  <2>2. /\ inflightByPrincipal[p] \in Nat /\ MaxInflight \in Nat
        /\ inflightByOperation[<<p, op>>] \in Nat /\ OperationLimit[op] \in Nat
    BY BusAssumption DEF BusInv, BusTypeOK
  <2>. QED BY <2>1, <2>2 DEF QuotaFull
<1>. DEFINE rec == [principal |-> p, operation |-> op, deadline |-> deadline,
                    state |-> "Pending", nth |-> admissions[r] + 1]
<1>2. /\ calls' = [x \in DOMAIN calls \cup {r} |-> IF x = r THEN rec ELSE calls[x]]
      /\ admissions' = [admissions EXCEPT ![r] = admissions[r] + 1]
      /\ handles' = handles \cup
            {[request |-> r, principal |-> p, nth |-> admissions[r] + 1]}
      /\ inflightByPrincipal' = [inflightByPrincipal EXCEPT ![p] = @ + 1]
      /\ inflightByOperation' = [inflightByOperation EXCEPT ![<<p, op>>] = @ + 1]
      /\ UNCHANGED <<operations, terminalOrder, clock>>
  BY DEF Begin
<1>3. /\ DOMAIN calls' = DOMAIN calls \cup {r}
      /\ calls'[r] = rec
      /\ \A x \in DOMAIN calls : calls'[x] = calls[x]
  BY <1>1, <1>2
<1>4. rec \in CallRecords
  BY BusAssumption DEF CallRecords, BusInv, BusTypeOK, AdmissionStates
<1>5. BusTypeOK'
  <2>1. calls' \in [DOMAIN calls' -> CallRecords]
    BY <1>2, <1>3, <1>4 DEF BusInv, BusTypeOK
  <2>2. handles' \subseteq Handles
    BY <1>2 DEF BusInv, BusTypeOK, Handles
  <2>3. /\ inflightByPrincipal' \in [Principals -> Nat]
        /\ inflightByOperation' \in [Principals \X Operations -> Nat]
        /\ admissions' \in [RequestIds -> Nat]
    BY <1>2 DEF BusInv, BusTypeOK
  <2>. QED BY <1>2, <1>3, <2>1, <2>2, <2>3 DEF BusInv, BusTypeOK
<1>6. IsFiniteSet(DOMAIN calls')
  BY <1>3, FS_AddElement DEF BusInv
<1>7. \A q : PendingOf(q)' = IF q = p THEN PendingOf(q) \cup {r} ELSE PendingOf(q)
  BY <1>1, <1>3 DEF PendingOf
<1>8. \A q, o : PendingOn(q, o)' = IF q = p /\ o = op THEN PendingOn(q, o) \cup {r}
                                   ELSE PendingOn(q, o)
  BY <1>1, <1>3 DEF PendingOf, PendingOn
<1>9. /\ \A q : r \notin PendingOf(q)
      /\ \A q, o : r \notin PendingOn(q, o)
  BY <1>1 DEF PendingOf, PendingOn
<1>10. /\ \A q : Cardinality(PendingOf(q)') =
                   IF q = p THEN Cardinality(PendingOf(q)) + 1 ELSE Cardinality(PendingOf(q))
       /\ \A q, o : Cardinality(PendingOn(q, o)') =
                      IF q = p /\ o = op THEN Cardinality(PendingOn(q, o)) + 1
                      ELSE Cardinality(PendingOn(q, o))
  <2>1. \A S : IsFiniteSet(S) /\ r \notin S => Cardinality(S \cup {r}) = Cardinality(S) + 1
    BY FS_AddElement
  <2>2. /\ \A q : IsFiniteSet(PendingOf(q))
        /\ \A q, o : IsFiniteSet(PendingOn(q, o))
    BY PendingFinite DEF BusInv
  <2>. QED BY <1>7, <1>8, <1>9, <2>1, <2>2
<1>11. CountersExact'
  BY <1>2, <1>10 DEF BusInv, BusTypeOK, CountersExact
<1>12. QuotaRespected'
  <2>1. ASSUME NEW q \in Principals
        PROVE  Cardinality(PendingOf(q)') <= MaxInflight
    <3>1. /\ inflightByPrincipal[q] \in Nat /\ MaxInflight \in Nat
          /\ inflightByPrincipal[q] = Cardinality(PendingOf(q))
          /\ Cardinality(PendingOf(q)) <= MaxInflight
      BY BusAssumption DEF BusInv, BusTypeOK, CountersExact, QuotaRespected
    <3>2. Cardinality(PendingOf(q)') = IF q = p THEN Cardinality(PendingOf(q)) + 1
                                       ELSE Cardinality(PendingOf(q))
      BY <1>10
    <3>. QED BY <3>1, <3>2, <1>1
  <2>2. ASSUME NEW q \in Principals, NEW o \in Operations
        PROVE  Cardinality(PendingOn(q, o)') <= OperationLimit[o]
    <3>1. /\ inflightByOperation[<<q, o>>] \in Nat /\ OperationLimit[o] \in Nat
          /\ inflightByOperation[<<q, o>>] = Cardinality(PendingOn(q, o))
          /\ Cardinality(PendingOn(q, o)) <= OperationLimit[o]
      BY BusAssumption DEF BusInv, BusTypeOK, CountersExact, QuotaRespected
    <3>2. Cardinality(PendingOn(q, o)') =
             IF q = p /\ o = op THEN Cardinality(PendingOn(q, o)) + 1
             ELSE Cardinality(PendingOn(q, o))
      BY <1>10
    <3>. QED BY <3>1, <3>2, <1>1
  <2>. QED BY <2>1, <2>2 DEF QuotaRespected
<1>13. TombstonesExact'
  BY <1>1, <1>2, <1>3 DEF BusInv, TombstonesExact
<1>. QED BY <1>5, <1>6, <1>11, <1>12, <1>13 DEF BusInv

\* Ending calls by finish, cancel or cancel_expired.
LEMMA EndPreserves ==
  ASSUME BusInv, NEW order \in Seq(DOMAIN calls),
         \A i \in 1 .. Len(order) : calls[order[i]].state = "Pending",
         \A i, j \in 1 .. Len(order) : order[i] = order[j] => i = j,
         NEW s \in AdmissionStates \ {"Pending"},
         RecordTerminal(order, s),
         ReleaseInflight({order[i] : i \in 1 .. Len(order)}),
         UNCHANGED <<operations, clock, handles, admissions>>
  PROVE  BusInv'
<1>. DEFINE ended == {order[i] : i \in 1 .. Len(order)}
<1>1. /\ DOMAIN calls' \subseteq DOMAIN calls
      /\ calls' \in [DOMAIN calls' -> CallRecords]
      /\ terminalOrder' \in Seq(RequestIds)
      /\ TombstonesExact'
      /\ \A p : PendingOf(p)' = PendingOf(p) \ ended
      /\ \A p, op : PendingOn(p, op)' = PendingOn(p, op) \ ended
  BY RecordTerminalEffect DEF BusInv
<1>2. ended \subseteq DOMAIN calls /\ \A r \in ended : calls[r].state = "Pending"
  OBVIOUS
<1>3. ReleaseInflight(ended)
  OBVIOUS
<1>. HIDE DEF ended
<1>4. /\ inflightByPrincipal' \in [Principals -> Nat]
      /\ inflightByOperation' \in [Principals \X Operations -> Nat]
      /\ CountersExact'
      /\ QuotaRespected'
  BY <1>1, <1>2, <1>3, ReleaseEffect
<1>5. IsFiniteSet(DOMAIN calls')
  BY <1>1, FS_Subset DEF BusInv
<1>6. BusTypeOK'
  BY <1>1, <1>4 DEF BusInv, BusTypeOK
<1>. QED BY <1>1, <1>4, <1>5, <1>6 DEF BusInv

LEMMA FinishCancelPreserves ==
  ASSUME BusInv, NEW h \in handles, NEW s \in AdmissionStates \ {"Pending"},
         EndCall(h, s)
  PROVE  BusInv'
<1>. DEFINE order == <<h.request>>
<1>1. h.request \in DOMAIN calls /\ calls[h.request].state = "Pending"
  BY DEF EndCall, IsPending
<1>2. /\ order \in Seq(DOMAIN calls)
      /\ Len(order) = 1 /\ order[1] = h.request
  BY <1>1
<1>3. {order[i] : i \in 1 .. Len(order)} = {h.request}
  BY <1>2
<1>4. /\ RecordTerminal(order, s)
      /\ ReleaseInflight({order[i] : i \in 1 .. Len(order)})
      /\ UNCHANGED <<operations, clock, handles, admissions>>
  BY <1>3 DEF EndCall
<1>5. /\ \A i \in 1 .. Len(order) : calls[order[i]].state = "Pending"
      /\ \A i, j \in 1 .. Len(order) : order[i] = order[j] => i = j
  BY <1>1, <1>2
<1>. HIDE DEF order
<1>. QED BY <1>2, <1>4, <1>5, EndPreserves

\* cancel_expired ends each expired call exactly once.
LEMMA ExpiredOrder ==
  ASSUME BusInv, NEW now, CancelExpired(now)
  PROVE  \E order \in Ascending(ExpiredAt(now)) :
           /\ order \in Seq(DOMAIN calls)
           /\ \A i \in 1 .. Len(order) : calls[order[i]].state = "Pending"
           /\ \A i, j \in 1 .. Len(order) : order[i] = order[j] => i = j
           /\ {order[i] : i \in 1 .. Len(order)} = ExpiredAt(now)
           /\ RecordTerminal(order, "Deadline")
<1>. DEFINE E == ExpiredAt(now)
            n == Cardinality(E)
<1>1. /\ E \subseteq DOMAIN calls
      /\ \A r \in E : calls[r].state = "Pending"
  BY DEF ExpiredAt
<1>2. IsFiniteSet(E) /\ n \in Nat
  BY <1>1, FS_Subset, FS_CardinalityType DEF BusInv
<1>3. PICK order \in Ascending(E) : RecordTerminal(order, "Deadline")
  BY DEF CancelExpired
<1>4. /\ order \in [1 .. n -> E]
      /\ \A i, j \in 1 .. n : i < j => order[i] < order[j]
  BY <1>3 DEF Ascending
<1>5. order \in Seq(DOMAIN calls) /\ Len(order) = n
  BY <1>1, <1>2, <1>4
<1>6. E \subseteq Nat
  BY <1>1, BusAssumption DEF BusInv, BusTypeOK
<1>7. \A i, j \in 1 .. n : order[i] = order[j] => i = j
  <2>. SUFFICES ASSUME NEW i \in 1 .. n, NEW j \in 1 .. n, order[i] = order[j]
                PROVE  i = j
    OBVIOUS
  <2>. HIDE DEF E, n
  <2>1. order[i] \in Nat /\ order[j] \in Nat
    BY <1>4, <1>6
  <2>2. ~ (i < j) /\ ~ (j < i)
    BY <2>1, <1>4
  <2>. QED BY <2>2, <1>2
<1>8. {order[i] : i \in 1 .. Len(order)} = E
  <2>. HIDE DEF E
  <2>1. order \in Injection(1 .. n, E)
    BY <1>4, <1>7 DEF Injection, IsInjective
  <2>2. Cardinality(1 .. n) = n
    BY <1>2, FS_Interval
  <2>3. order \in Surjection(1 .. n, E)
    BY <2>1, <2>2, <1>2, FS_Injection
  <2>. QED BY <2>3, <1>4, <1>5 DEF Surjection
<1>9. \A i \in 1 .. Len(order) : calls[order[i]].state = "Pending"
  BY <1>1, <1>4, <1>5
<1>10. \A i, j \in 1 .. Len(order) : order[i] = order[j] => i = j
  BY <1>5, <1>7
<1>. QED BY <1>3, <1>5, <1>8, <1>9, <1>10

LEMMA CancelExpiredPreserves ==
  ASSUME BusInv, NEW now, CancelExpired(now)
  PROVE  BusInv'
<1>1. PICK order \in Ascending(ExpiredAt(now)) :
         /\ order \in Seq(DOMAIN calls)
         /\ \A i \in 1 .. Len(order) : calls[order[i]].state = "Pending"
         /\ \A i, j \in 1 .. Len(order) : order[i] = order[j] => i = j
         /\ {order[i] : i \in 1 .. Len(order)} = ExpiredAt(now)
         /\ RecordTerminal(order, "Deadline")
  BY ExpiredOrder
<1>2. /\ ReleaseInflight({order[i] : i \in 1 .. Len(order)})
      /\ UNCHANGED <<operations, clock, handles, admissions>>
  BY <1>1 DEF CancelExpired
<1>3. "Deadline" \in AdmissionStates \ {"Pending"}
  BY DEF AdmissionStates
<1>. QED BY <1>1, <1>2, <1>3, EndPreserves

LEMMA BusInvInit == BusInit => BusInv
<1>. SUFFICES ASSUME BusInit PROVE BusInv
  OBVIOUS
<1>1. DOMAIN calls = {} /\ terminalOrder = << >> /\ Len(terminalOrder) = 0
  BY DEF BusInit
<1>2. \A p, op : PendingOf(p) = {} /\ PendingOn(p, op) = {}
  BY <1>1 DEF PendingOf, PendingOn
<1>3. BusTypeOK
  BY <1>1, BusAssumption DEF BusInit, BusTypeOK, Time
<1>4. CountersExact /\ QuotaRespected
  <2>1. Cardinality({}) = 0 /\ MaxInflight \in Nat
    BY FS_EmptySet, BusAssumption
  <2>2. \A op \in Operations : OperationLimit[op] \in Nat
    BY BusAssumption
  <2>3. /\ \A p \in Principals : inflightByPrincipal[p] = 0
        /\ \A p \in Principals, op \in Operations : inflightByOperation[<<p, op>>] = 0
    BY DEF BusInit
  <2>4. CountersExact
    <3>1. /\ \A p : Cardinality(PendingOf(p)) = 0
          /\ \A p, op : Cardinality(PendingOn(p, op)) = 0
      BY <1>2, <2>1
    <3>2. \A p \in Principals : inflightByPrincipal[p] = Cardinality(PendingOf(p))
      BY <3>1, <2>3
    <3>3. \A p \in Principals, op \in Operations :
             inflightByOperation[<<p, op>>] = Cardinality(PendingOn(p, op))
      BY <3>1, <2>3
    <3>. QED BY <3>2, <3>3 DEF CountersExact
  <2>5. QuotaRespected
    <3>1. /\ \A p : Cardinality(PendingOf(p)) = 0
          /\ \A p, op : Cardinality(PendingOn(p, op)) = 0
      BY <1>2, <2>1
    <3>2. \A p \in Principals : Cardinality(PendingOf(p)) <= MaxInflight
      BY <3>1, <2>1
    <3>3. \A op \in Operations : 0 <= OperationLimit[op]
      BY <2>2
    <3>4. \A p \in Principals, op \in Operations :
             Cardinality(PendingOn(p, op)) <= OperationLimit[op]
      BY <3>1, <3>3
    <3>. QED BY <3>2, <3>4 DEF QuotaRespected
  <2>. QED BY <2>4, <2>5
<1>5. TombstonesExact
  BY <1>1, BusAssumption DEF TombstonesExact
<1>. QED BY <1>1, <1>3, <1>4, <1>5, FS_EmptySet DEF BusInv

\* The invariant does not speak of the clock, nor of which operations exist.
LEMMA BusInvFrame ==
  ASSUME BusInv, operations' \subseteq Operations, clock' \in Time,
         UNCHANGED <<calls, terminalOrder, inflightByPrincipal,
                     inflightByOperation, handles, admissions>>
  PROVE  BusInv'
<1>1. /\ \A p : PendingOf(p)' = PendingOf(p)
      /\ \A p, op : PendingOn(p, op)' = PendingOn(p, op)
  BY DEF PendingOf, PendingOn
<1>2. BusTypeOK'
  BY DEF BusInv, BusTypeOK
<1>3. CountersExact'
  BY <1>1 DEF BusInv, CountersExact
<1>4. QuotaRespected'
  BY <1>1 DEF BusInv, QuotaRespected
<1>5. TombstonesExact'
  BY DEF BusInv, TombstonesExact
<1>. QED BY <1>2, <1>3, <1>4, <1>5 DEF BusInv

LEMMA BusInvNext == BusInv /\ [BusNext]_busVars => BusInv'
<1>. SUFFICES ASSUME BusInv, [BusNext]_busVars PROVE BusInv'
  OBVIOUS
<1>1. ASSUME NEW op \in Operations, RegisterOperation(op) PROVE BusInv'
  <2>1. operations' \subseteq Operations /\ clock' \in Time
    BY <1>1 DEF RegisterOperation, BusInv, BusTypeOK
  <2>. QED BY <1>1, <2>1, BusInvFrame DEF RegisterOperation
<1>2. ASSUME NEW r \in RequestIds, NEW p \in Principals, NEW op \in Operations,
             NEW deadline \in 1 .. MaxTime + 1, NEW now \in 0 .. clock,
             NEW lease \in Leases, Begin(r, p, op, deadline, lease, now)
      PROVE  BusInv'
  BY <1>2, BeginPreserves
<1>3. ASSUME NEW h \in handles, Finish(h) PROVE BusInv'
  <2>1. "Finished" \in AdmissionStates \ {"Pending"}
    BY DEF AdmissionStates
  <2>. QED BY <1>3, <2>1, FinishCancelPreserves DEF Finish
<1>4. ASSUME NEW h \in handles, NEW reason \in CancelReasons, Cancel(h, reason)
      PROVE  BusInv'
  <2>1. reason \in AdmissionStates \ {"Pending"}
    BY BusAssumption DEF AdmissionStates
  <2>. QED BY <1>4, <2>1, FinishCancelPreserves DEF Cancel
<1>5. ASSUME NEW now \in 0 .. clock, CancelExpired(now) PROVE BusInv'
  BY <1>5, CancelExpiredPreserves
<1>6. CASE Tick
  <2>1. operations' \subseteq Operations /\ clock' \in Time
    BY <1>6, BusAssumption DEF Tick, BusInv, BusTypeOK, Time
  <2>. QED BY <1>6, <2>1, BusInvFrame DEF Tick
<1>7. CASE UNCHANGED busVars
  <2>1. operations' \subseteq Operations /\ clock' \in Time
    BY <1>7 DEF busVars, BusInv, BusTypeOK
  <2>. QED BY <1>7, <2>1, BusInvFrame DEF busVars
<1>. QED BY <1>1, <1>2, <1>3, <1>4, <1>5, <1>6, <1>7 DEF BusNext

\* The bus keeps its inductive invariant in every reachable state.
THEOREM BusInvariant == BusSpec => []BusInv
BY BusInvInit, BusInvNext, PTL DEF BusSpec

\* Every reachable state of the bus is well typed.
THEOREM BusTypeCorrect == BusSpec => []BusTypeOK
<1>1. BusInv => BusTypeOK
  BY DEF BusInv
<1>. QED BY <1>1, BusInvariant, PTL

\* The quota counters always equal the number of pending calls they stand for,
\* through finish, cancel, deadline sweeps and tombstone eviction.
THEOREM CountersStayExact == BusSpec => []CountersExact
<1>1. BusInv => CountersExact
  BY DEF BusInv
<1>. QED BY <1>1, BusInvariant, PTL

\* No principal ever exceeds the bus-wide limit or the limit of an operation.
THEOREM QuotaHolds == BusSpec => []QuotaRespected
<1>1. BusInv => QuotaRespected
  BY DEF BusInv
<1>. QED BY <1>1, BusInvariant, PTL

\* The tombstone queue is exactly the set of ended calls, without repetition
\* and within its bound.
THEOREM TombstonesStayExact == BusSpec => []TombstonesExact
<1>1. BusInv => TombstonesExact
  BY DEF BusInv
<1>. QED BY <1>1, BusInvariant, PTL

\* The ledger stays exact as a whole: counters, quotas and tombstones.
THEOREM LedgerStaysExact == BusSpec => []LedgerExact
<1>1. BusInv => LedgerExact
  BY DEF BusInv, LedgerExact
<1>. QED BY <1>1, BusInvariant, PTL

\* A tracked id stands for one call: it is never admitted again while tracked,
\* and once ended its outcome stays.
THEOREM EndedStayEnded == BusSpec => EndedOnceForGood
<1>. DEFINE A == \A r \in DOMAIN calls \cap DOMAIN calls' :
                   /\ calls'[r] = [calls[r] EXCEPT !.state = calls'[r].state]
                   /\ calls[r].state # "Pending" => calls'[r] = calls[r]
<1>0. BusInv => \A r \in DOMAIN calls : calls[r] = [calls[r] EXCEPT !.state = calls[r].state]
  BY DEF BusInv, BusTypeOK, CallRecords
<1>1. ASSUME BusInv, NEW r \in RequestIds, NEW p \in Principals, NEW op \in Operations,
             NEW deadline \in 1 .. MaxTime + 1, NEW now \in 0 .. clock,
             NEW lease \in Leases, Begin(r, p, op, deadline, lease, now)
      PROVE  A
  <2>1. r \notin DOMAIN calls
    BY <1>1 DEF Begin, AdmissionError, IsDuplicate
  <2>2. \A x \in DOMAIN calls : calls'[x] = calls[x]
    BY <1>1, <2>1 DEF Begin
  <2>. QED BY <2>2, <1>0, <1>1
<1>2. ASSUME BusInv, NEW order \in Seq(DOMAIN calls),
             \A i \in 1 .. Len(order) : calls[order[i]].state = "Pending",
             \A i, j \in 1 .. Len(order) : order[i] = order[j] => i = j,
             NEW s \in AdmissionStates \ {"Pending"}, RecordTerminal(order, s)
      PROVE  A
  BY <1>2, RecordTerminalEffect DEF BusInv
<1>3. ASSUME BusInv, NEW h \in handles, NEW s \in AdmissionStates \ {"Pending"},
             EndCall(h, s)
      PROVE  A
  <2>. DEFINE order == <<h.request>>
  <2>1. h.request \in DOMAIN calls /\ calls[h.request].state = "Pending"
    BY <1>3 DEF EndCall, IsPending
  <2>2. order \in Seq(DOMAIN calls) /\ Len(order) = 1 /\ order[1] = h.request
    BY <2>1
  <2>3. RecordTerminal(order, s)
    BY <1>3 DEF EndCall
  <2>4. /\ \A i \in 1 .. Len(order) : calls[order[i]].state = "Pending"
        /\ \A i, j \in 1 .. Len(order) : order[i] = order[j] => i = j
    BY <2>1, <2>2
  <2>. HIDE DEF order, A
  <2>. QED BY <1>2, <1>3, <2>2, <2>3, <2>4
<1>4. ASSUME BusInv, NEW now, CancelExpired(now) PROVE A
  <2>1. PICK order \in Ascending(ExpiredAt(now)) :
           /\ order \in Seq(DOMAIN calls)
           /\ \A i \in 1 .. Len(order) : calls[order[i]].state = "Pending"
           /\ \A i, j \in 1 .. Len(order) : order[i] = order[j] => i = j
           /\ RecordTerminal(order, "Deadline")
    BY <1>4, ExpiredOrder
  <2>2. "Deadline" \in AdmissionStates \ {"Pending"}
    BY DEF AdmissionStates
  <2>. HIDE DEF A
  <2>. QED BY <1>2, <1>4, <2>1, <2>2
<1>5. BusInv /\ [BusNext]_busVars => [A]_busVars
  <2>. SUFFICES ASSUME BusInv, BusNext PROVE A
    OBVIOUS
  <2>1. ASSUME UNCHANGED calls PROVE A
    BY <2>1, <1>0
  <2>2. ASSUME NEW h \in handles, Finish(h) PROVE A
    <3>1. "Finished" \in AdmissionStates \ {"Pending"}
      BY DEF AdmissionStates
    <3>. HIDE DEF A
    <3>. QED BY <2>2, <3>1, <1>3 DEF Finish
  <2>3. ASSUME NEW h \in handles, NEW reason \in CancelReasons, Cancel(h, reason)
        PROVE  A
    <3>1. reason \in AdmissionStates \ {"Pending"}
      BY BusAssumption DEF AdmissionStates
    <3>. HIDE DEF A
    <3>. QED BY <2>3, <3>1, <1>3 DEF Cancel
  <2>. HIDE DEF A
  <2>. QED BY <1>1, <1>4, <2>1, <2>2, <2>3 DEF BusNext, RegisterOperation, Tick
<1>. QED BY <1>5, BusInvariant, PTL DEF BusSpec, EndedOnceForGood
=============================================================================
