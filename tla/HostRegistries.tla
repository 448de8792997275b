--------------------------- MODULE HostRegistries ---------------------------
(***************************************************************************)
(* The three small registries of the kernel that hand out ordered or       *)
(* expiring records: the event bus (kernel/events.rs), the service         *)
(* registry (kernel/service_registry.rs) and the ring of the audit ledger  *)
(* (kernel/audit.rs), with the Host operations over them (host_bus/).      *)
(*                                                                         *)
(* Each is behind its own lock and each operation is one critical section; *)
(* subscribing and registering read the clock before they take the lock.   *)
(* Subscribers poll at any time; one audit reader resumes from the cursor  *)
(* it was last given.                                                      *)
(***************************************************************************)
EXTENDS Integers, Sequences, FiniteSets, Functions

CONSTANTS Topics, Services, Methods,
          MaxSubscriptions, MaxQueue, MaxServices, MaxAudit,
          ServiceTtl, SubscriptionTtls,
          MaxSubscribed, MaxPublished, MaxRecorded, MaxHostClock   \* bounds

Modes == {"queued", "latest"}
Limits == 0 .. MaxQueue

ASSUME HostRegistriesAssumption ==
    /\ {MaxSubscriptions, MaxQueue, MaxServices, MaxAudit, ServiceTtl} \subseteq Nat \ {0}
    /\ SubscriptionTtls \subseteq Nat
    /\ {MaxSubscribed, MaxPublished, MaxRecorded, MaxHostClock} \subseteq Nat

VARIABLES subscriptions,  \* id -> topic, mode, expiry, queue, next sequence
          services,       \* id -> methods, expiry
          auditRing,      \* the retained sequence numbers, oldest first, and the last given
          hostClock,
          published,      \* history: events published
          seen,           \* history: subscription -> sequence numbers polled
          auditCursor,    \* the reader's next sequence number
          auditSeen       \* history: sequence numbers the audit reader was given

registryVars == <<subscriptions, services, auditRing, hostClock, published, seen, auditCursor, auditSeen>>

Instants == 0 .. MaxHostClock
HostReadings == {t \in Instants : t <= hostClock /\ t >= hostClock - 1}
NoEntries == << >>
Entered(f, k, entry) == [x \in DOMAIN f \cup {k} |-> IF x = k THEN entry ELSE f[x]]

RegistriesInit ==
    /\ subscriptions = NoEntries
    /\ services = NoEntries
    /\ auditRing = [events |-> << >>, last |-> 0]
    /\ hostClock = 0
    /\ published = 0
    /\ seen = [i \in 1 .. MaxSubscribed |-> << >>]
    /\ auditCursor = 1
    /\ auditSeen = << >>

RegistriesTypeOK ==
    /\ DOMAIN subscriptions \subseteq 1 .. MaxSubscribed
    /\ \A i \in DOMAIN subscriptions :
          /\ subscriptions[i].topic \in Topics /\ subscriptions[i].mode \in Modes
          /\ subscriptions[i].expires \in Nat /\ subscriptions[i].next \in Nat
    /\ DOMAIN services \subseteq Services
    /\ auditRing.last \in 0 .. MaxRecorded
    /\ hostClock \in Instants /\ auditCursor \in Nat
-----------------------------------------------------------------------------
\* event.subscribe; an entry is never removed, so ids are not used twice.
Subscribe(topic, mode, ttl) ==
    \E at \in HostReadings :
       LET id == Cardinality(DOMAIN subscriptions) + 1 IN
       /\ id <= MaxSubscribed
       /\ at + ttl > at
       /\ Cardinality(DOMAIN subscriptions) < MaxSubscriptions
       /\ subscriptions' = Entered(subscriptions, id,
             [topic |-> topic, mode |-> mode, expires |-> at + ttl, queue |-> << >>, next |-> 0])
       /\ UNCHANGED <<services, auditRing, hostClock, published, seen, auditCursor, auditSeen>>

\* Mutant: a full queue keeps its oldest events.
KeptOldest(queue) == IF Len(queue) > MaxQueue THEN SubSeq(queue, 1, MaxQueue) ELSE queue

Kept(queue) == IF Len(queue) > MaxQueue THEN Tail(queue) ELSE queue

Delivered(sub) ==
    [sub EXCEPT !.next = @ + 1,
                !.queue = Kept(Append(IF sub.mode = "latest" THEN << >> ELSE @, sub.next + 1))]

\* event.publish reaches the subscriptions of the topic that have not expired.
Publish(topic) ==
    /\ published < MaxPublished
    /\ published' = published + 1
    /\ subscriptions' = [i \in DOMAIN subscriptions |->
          IF subscriptions[i].topic = topic /\ hostClock < subscriptions[i].expires
          THEN Delivered(subscriptions[i]) ELSE subscriptions[i]]
    /\ UNCHANGED <<services, auditRing, hostClock, seen, auditCursor, auditSeen>>

\* event.poll takes at most the limit of the request, which is 0 when it names none.
Poll(id, limit) ==
    /\ hostClock < subscriptions[id].expires
    /\ LET queue == subscriptions[id].queue
           n == IF limit < Len(queue) THEN limit ELSE Len(queue)
       IN  /\ subscriptions' = [subscriptions EXCEPT ![id].queue = SubSeq(@, n + 1, Len(@))]
           /\ seen' = [seen EXCEPT ![id] = @ \o SubSeq(queue, 1, n)]
    /\ UNCHANGED <<services, auditRing, hostClock, published, auditCursor, auditSeen>>
-----------------------------------------------------------------------------
\* service.register: an expired registration is still in the way and still counted.
RegisterService(id, methods) ==
    \E at \in HostReadings :
       /\ id \notin DOMAIN services
       /\ Cardinality(DOMAIN services) < MaxServices
       /\ services' = Entered(services, id, [methods |-> methods, expires |-> at + ServiceTtl])
       /\ UNCHANGED <<subscriptions, auditRing, hostClock, published, seen, auditCursor, auditSeen>>

\* service.call and service.list see the registrations that have not expired.
Callable(id, method) ==
    id \in DOMAIN services /\ hostClock < services[id].expires /\ method \in services[id].methods
Listed == {id \in DOMAIN services : hostClock < services[id].expires}

\* service.unregister.
UnregisterService(id) ==
    /\ services' = Restrict(services, DOMAIN services \ {id})
    /\ UNCHANGED <<subscriptions, auditRing, hostClock, published, seen, auditCursor, auditSeen>>
-----------------------------------------------------------------------------
\* AuditLedger::record.
Record ==
    /\ auditRing.last < MaxRecorded
    /\ LET events == Append(auditRing.events, auditRing.last + 1) IN
          auditRing' = [events |-> IF Len(events) > MaxAudit THEN Tail(events) ELSE events,
                        last |-> auditRing.last + 1]
    /\ UNCHANGED <<subscriptions, services, hostClock, published, seen, auditCursor, auditSeen>>

\* audit.read: the retained events from the cursor on, at most limit of them, and
\* the cursor that follows the last of them. The ring is in order, so the events
\* before the cursor are its first ones.
Before == Cardinality({k \in DOMAIN auditRing.events : auditRing.events[k] < auditCursor})
Window(limit) ==
    LET end == Before + limit
    IN  SubSeq(auditRing.events, Before + 1,
               IF end < Len(auditRing.events) THEN end ELSE Len(auditRing.events))
ReadAudit(limit) ==
    /\ auditSeen' = auditSeen \o Window(limit)
    /\ auditCursor' = IF Window(limit) = << >> THEN auditCursor ELSE Window(limit)[Len(Window(limit))] + 1
    /\ UNCHANGED <<subscriptions, services, auditRing, hostClock, published, seen>>

HostTick ==
    /\ hostClock < MaxHostClock
    /\ hostClock' = hostClock + 1
    /\ UNCHANGED <<subscriptions, services, auditRing, published, seen, auditCursor, auditSeen>>

RegistriesNext ==
    \/ HostTick \/ Record
    \/ \E t \in Topics : Publish(t) \/ \E m \in Modes, ttl \in SubscriptionTtls : Subscribe(t, m, ttl)
    \/ \E i \in DOMAIN subscriptions, n \in Limits : Poll(i, n)
    \/ \E s \in Services, ms \in SUBSET Methods : RegisterService(s, ms)
    \/ \E s \in DOMAIN services : UnregisterService(s)
    \/ \E n \in Limits : ReadAudit(n)

RegistriesSpec == RegistriesInit /\ [][RegistriesNext]_registryVars
-----------------------------------------------------------------------------
Increasing(s) == \A i \in 1 .. Len(s) - 1 : s[i] < s[i + 1]

\* A reader that has kept up has missed nothing: what is retained follows without a
\* gap what was last given out or evicted.
NothingSkipped(queue, last) ==
    queue # << >> => queue[Len(queue)] = last /\ queue[1] = last - Len(queue) + 1

\* Whatever the order of publishing, polling, eviction and expiry: a subscriber and
\* the reader of the audit ring are given ever later records, each at most once, the
\* retained ones are the most recent without a gap, and no registry exceeds its cap.
RecordsInOrder ==
    /\ RegistriesTypeOK
    /\ Cardinality(DOMAIN subscriptions) <= MaxSubscriptions
    /\ Cardinality(DOMAIN services) <= MaxServices
    /\ \A i \in DOMAIN subscriptions :
          /\ Increasing(seen[i] \o subscriptions[i].queue)
          /\ NothingSkipped(subscriptions[i].queue, subscriptions[i].next)
          /\ Len(subscriptions[i].queue) <= (IF subscriptions[i].mode = "latest" THEN 1 ELSE MaxQueue)
    /\ Increasing(auditSeen) /\ NothingSkipped(auditRing.events, auditRing.last)
    /\ \A n \in 1 .. auditCursor - 1 :
          \/ \E i \in 1 .. Len(auditSeen) : auditSeen[i] = n
          \/ auditRing.events = << >> \/ n < auditRing.events[1]
=============================================================================
