------------------------ MODULE HostOperationsProofs ------------------------
(***************************************************************************)
(* Machine-checked facts about HostOperations, for any number of calls and *)
(* whatever they ask for: the handlers take the locks in one order, so no  *)
(* set of calls waits for one another; and the tables of the operations    *)
(* agree, so what the policy authorises is admitted and has a handler.     *)
(***************************************************************************)
EXTENDS HostOperations, SequenceTheorems, TLAPS

-----------------------------------------------------------------------------
(* The order of the locks.  Waiting for the outside has a place in it: what is held
   meanwhile comes before. *)

Kinds == {"take", "drop", "write", "read", "outside", "installed", "start", "shutdown", "removed"}

Locks ==
  {"agent", "audit", "blobs", "bus", "calls", "cancellations", "controls", "entry", "events",
   "manifests", "packages", "policy", "pool", "projects", "proposals", "record", "secrets",
   "services", "sessions", "storage", "supervisor", "surfaces"}

Steps == Kinds \X (Locks \union {"dialog", "disk", "network", "plugin", "worker"})

Rank(l) ==
  IF l \in {"entry", "record"} THEN 1
  ELSE IF l \in {"blobs", "sessions"} THEN 2
  ELSE IF l = "projects" THEN 4 ELSE 3

Level(step) == IF step[1] = "outside" THEN 3 ELSE Rank(step[2])

\* What a call holds after a step, and what the step asks of what it holds before: its
\* lock comes after the held ones and after rank b, and a plugin found missing ends the
\* handler when nothing is held.
Holding(step, held) ==
  IF step[1] = "take" THEN held \union {step[2]}
  ELSE IF step[1] = "drop" THEN held \ {step[2]} ELSE held

InOrder(step, held, b) ==
  /\ \A l \in held : b < Rank(l)
  /\ step[1] \in {"take", "write", "read", "outside"} =>
       b < Level(step) /\ \A l \in held : Rank(l) < Level(step)
  /\ step[1] = "drop" => step[2] \in held
  /\ step[1] = "installed" => b = 0 /\ held = {}

\* h is what is held before each step of s and at its end.
Follows(s, h, b) ==
  /\ DOMAIN h = 1 .. Len(s) + 1
  /\ h[1] = {} /\ h[Len(s) + 1] = {}
  /\ \A i \in 1 .. Len(s) : h[i + 1] = Holding(s[i], h[i]) /\ InOrder(s[i], h[i], b)

Fits(s, b) == s \in Seq(Steps) /\ \E h : Follows(s, h, b)

LEMMA RankIsNumber == ASSUME NEW l PROVE Rank(l) \in 1 .. 4
BY DEF Rank, Locks

LEMMA EmptyFits == ASSUME NEW b PROVE Fits(<<>>, b)
<1>. DEFINE h == [i \in 1 .. 1 |-> {}]
<1>1. Follows(<<>>, h, b)
  BY DEF Follows
<1>. QED BY <1>1 DEF Fits

\* A step of its own that keeps no lock.
LEMMA StepFits ==
  ASSUME NEW kind, NEW what, <<kind, what>> \in Steps, NEW b \in Nat,
         kind \notin {"take", "drop"},
         kind \in {"write", "read", "outside"} => b < Level(<<kind, what>>),
         kind = "installed" => b = 0
  PROVE  Fits(<< <<kind, what>> >>, b)
<1>. DEFINE s == << <<kind, what>> >>
            h == [i \in 1 .. 2 |-> {}]
<1>1. s \in Seq(Steps) /\ Len(s) = 1 /\ s[1] = <<kind, what>>
  OBVIOUS
<1>2. Holding(s[1], {}) = {} /\ InOrder(s[1], {}, b)
  BY <1>1 DEF Holding, InOrder
<1>3. Follows(s, h, b)
  BY <1>1, <1>2 DEF Follows
<1>. QED BY <1>1, <1>3 DEF Fits

LEMMA Joined ==
  ASSUME NEW s \in Seq(Steps), NEW t \in Seq(Steps)
  PROVE  /\ Len(s) \in Nat /\ Len(t) \in Nat
         /\ s \o t \in Seq(Steps) /\ Len(s \o t) = Len(s) + Len(t)
         /\ \A i \in 1 .. Len(s) : (s \o t)[i] = s[i]
         /\ \A i \in Len(s) + 1 .. Len(s) + Len(t) : (s \o t)[i] = t[i - Len(s)]
BY LenProperties, ConcatProperties

LEMMA AloneIs ==
  ASSUME NEW x \in Steps
  PROVE  <<x>> \in Seq(Steps) /\ Len(<<x>>) = 1 /\ <<x>>[1] = x
OBVIOUS

LEMMA InTurnFits ==
  ASSUME NEW b, NEW s, NEW t, Fits(s, b), Fits(t, b)
  PROVE  Fits(s \o t, b)
<1>1. PICK g : Follows(s, g, b)
  BY DEF Fits
<1>2. PICK h : Follows(t, h, b)
  BY DEF Fits
<1>3. PICK m, n : m = Len(s) /\ n = Len(t)
  OBVIOUS
<1>4. /\ m \in Nat /\ n \in Nat /\ s \o t \in Seq(Steps) /\ Len(s \o t) = m + n
      /\ \A i \in 1 .. m : (s \o t)[i] = s[i]
      /\ \A i \in m + 1 .. m + n : (s \o t)[i] = t[i - m]
  BY <1>3, Joined DEF Fits
<1>. DEFINE k == [i \in 1 .. m + n + 1 |-> IF i <= m THEN g[i] ELSE h[i - m]]
<1>a. g[1] = {} /\ g[m + 1] = {} /\ h[1] = {} /\ h[n + 1] = {}
  BY <1>1, <1>2, <1>3 DEF Follows
<1>5. k[1] = {} /\ k[m + n + 1] = {}
  <2>1. k[1] = IF 1 <= m THEN g[1] ELSE h[1 - m]
    BY <1>4
  <2>2. k[m + n + 1] = h[n + 1]
    <3>1. m + n + 1 \in 1 .. m + n + 1 /\ ~(m + n + 1 <= m) /\ (m + n + 1) - m = n + 1
      BY <1>4
    <3>. QED BY <3>1
  <2>3. ~(1 <= m) => 1 - m = 1
    BY <1>4
  <2>. QED BY <1>a, <2>1, <2>2, <2>3
<1>6. ASSUME NEW i \in 1 .. m + n
      PROVE  k[i + 1] = Holding((s \o t)[i], k[i]) /\ InOrder((s \o t)[i], k[i], b)
  <2>1. CASE i \in 1 .. m
    <3>1. k[i] = g[i] /\ k[i + 1] = g[i + 1]
      <4>1. CASE i < m
        BY <1>4, <2>1, <4>1
      <4>2. CASE i = m
        <5>1. /\ i + 1 \in 1 .. m + n + 1 /\ ~(i + 1 <= m) /\ (i + 1) - m = 1
              /\ i \in 1 .. m + n + 1 /\ i <= m
          BY <1>4, <2>1, <4>2
        <5>2. k[i + 1] = h[1] /\ k[i] = g[i]
          BY <5>1
        <5>. QED BY <1>a, <4>2, <5>2
      <4>. QED BY <1>4, <2>1, <4>1, <4>2
    <3>. QED BY <1>1, <1>3, <1>4, <2>1, <3>1 DEF Follows
  <2>2. CASE i \in m + 1 .. m + n
    <3>1. i - m \in 1 .. n /\ k[i] = h[i - m] /\ k[i + 1] = h[(i - m) + 1]
      BY <1>4, <2>2
    <3>. QED BY <1>2, <1>3, <1>4, <2>2, <3>1 DEF Follows
  <2>. QED BY <1>4, <2>1, <2>2
<1>7. Follows(s \o t, k, b)
  <2>. HIDE DEF k
  <2>1. DOMAIN k = 1 .. Len(s \o t) + 1
    BY <1>4 DEF k
  <2>. QED BY <1>4, <1>5, <1>6, <2>1 DEF Follows
<1>. QED BY <1>4, <1>7 DEF Fits

\* A lock held over a script whose locks come after it.
LEMMA WithFits ==
  ASSUME NEW b \in Nat, NEW l \in Locks, NEW t, b < Rank(l), Fits(t, Rank(l))
  PROVE  Fits(With(l, t), b)
<1>1. PICK h : Follows(t, h, Rank(l))
  BY DEF Fits
<1>2. PICK n : n = Len(t)
  OBVIOUS
<1>. DEFINE s == With(l, t)
<1>3. /\ n \in Nat /\ s \in Seq(Steps) /\ Len(s) = n + 2
      /\ s[1] = <<"take", l>> /\ s[n + 2] = <<"drop", l>>
      /\ \A i \in 2 .. n + 1 : s[i] = t[i - 1]
  <2>1. t \in Seq(Steps) /\ n \in Nat
    BY <1>2, LenProperties DEF Fits
  <2>2. PICK x, y : x = <<"take", l>> /\ y = <<"drop", l>>
    OBVIOUS
  <2>3. x \in Steps /\ y \in Steps
    <3>1. <<"take", l>> \in Steps /\ <<"drop", l>> \in Steps
      BY DEF Steps, Kinds
    <3>. QED BY <2>2, <3>1
  <2>4. PICK a, c : a = <<x>> /\ c = <<y>>
    OBVIOUS
  <2>5. /\ a \in Seq(Steps) /\ Len(a) = 1 /\ a[1] = x
        /\ c \in Seq(Steps) /\ Len(c) = 1 /\ c[1] = y
    BY <2>3, <2>4, AloneIs
  <2>6. PICK u : u = a \o t
    OBVIOUS
  <2>7. /\ u \in Seq(Steps) /\ Len(u) = 1 + n
        /\ \A i \in 1 .. 1 : u[i] = a[i]
        /\ \A i \in 2 .. 1 + n : u[i] = t[i - 1]
    <3>1. /\ a \o t \in Seq(Steps) /\ Len(a \o t) = Len(a) + Len(t)
          /\ \A i \in 1 .. Len(a) : (a \o t)[i] = a[i]
          /\ \A i \in Len(a) + 1 .. Len(a) + Len(t) : (a \o t)[i] = t[i - Len(a)]
      BY <2>1, <2>5, Joined
    <3>. QED BY <1>2, <2>1, <2>5, <2>6, <3>1
  <2>8. s = u \o c
    BY <2>2, <2>4, <2>6 DEF With
  <2>. HIDE DEF s
  <2>9. /\ s \in Seq(Steps) /\ Len(s) = n + 2
        /\ \A i \in 1 .. n + 1 : s[i] = u[i]
        /\ s[n + 2] = c[1]
    <3>1. /\ u \o c \in Seq(Steps) /\ Len(u \o c) = Len(u) + Len(c)
          /\ \A i \in 1 .. Len(u) : (u \o c)[i] = u[i]
          /\ \A i \in Len(u) + 1 .. Len(u) + Len(c) : (u \o c)[i] = c[i - Len(u)]
      BY <2>7, <2>5, Joined
    <3>2. Len(u) = n + 1 /\ Len(c) = 1 /\ 1 + n = n + 1 /\ (n + 1) + 1 = n + 2
      BY <2>1, <2>5, <2>7
    <3>3. /\ s \in Seq(Steps) /\ Len(s) = n + 2
          /\ \A i \in 1 .. n + 1 : s[i] = u[i]
          /\ \A i \in n + 2 .. n + 2 : s[i] = c[i - (n + 1)]
      BY <2>8, <3>1, <3>2
    <3>4. n + 2 \in n + 2 .. n + 2 /\ (n + 2) - (n + 1) = 1
      BY <2>1
    <3>. QED BY <3>3, <3>4
  <2>10. s[1] = a[1] /\ \A i \in 2 .. n + 1 : s[i] = t[i - 1]
    BY <2>1, <2>7, <2>9
  <2>. QED BY <2>1, <2>2, <2>5, <2>9, <2>10
<1>. DEFINE k == [i \in 1 .. n + 3 |-> IF i \in 2 .. n + 2 THEN {l} \union h[i - 1] ELSE {}]
<1>4. k[1] = {} /\ k[n + 3] = {} /\ k[2] = {l} /\ k[n + 2] = {l}
  BY <1>1, <1>2, <1>3 DEF Follows
<1>5. ASSUME NEW i \in 1 .. n + 2
      PROVE  k[i + 1] = Holding(s[i], k[i]) /\ InOrder(s[i], k[i], b)
  <2>. HIDE DEF s
  <2>1. CASE i = 1
    <3>1. k[i] = {} /\ k[i + 1] = {l} /\ s[i] = <<"take", l>>
      <4>1. i + 1 = 2
        BY <2>1
      <4>. HIDE DEF k
      <4>. QED BY <1>3, <1>4, <2>1, <4>1
    <3>. HIDE DEF k
    <3>2. Holding(s[i], {}) = {l}
      BY <3>1 DEF Holding
    <3>3. InOrder(s[i], {}, b)
      BY <3>1 DEF InOrder, Level
    <3>. QED BY <3>1, <3>2, <3>3
  <2>2. CASE i = n + 2
    <3>1. k[i] = {l} /\ k[i + 1] = {}
      <4>1. i + 1 = n + 3
        BY <1>3, <2>2
      <4>. HIDE DEF k
      <4>. QED BY <1>4, <2>2, <4>1
    <3>. HIDE DEF k
    <3>. QED BY <1>3, <2>2, <3>1 DEF Holding, InOrder
  <2>3. CASE i \in 2 .. n + 1
    <3>1. /\ i - 1 \in 1 .. n /\ k[i] = {l} \union h[i - 1] /\ k[i + 1] = {l} \union h[(i - 1) + 1]
          /\ s[i] = t[i - 1]
      BY <1>3, <2>3
    <3>2. h[(i - 1) + 1] = Holding(s[i], h[i - 1]) /\ InOrder(s[i], h[i - 1], Rank(l))
      BY <1>1, <1>2, <3>1 DEF Follows
    <3>3. s[i][1] = "drop" => s[i][2] # l
      BY <3>2, RankIsNumber DEF InOrder
    <3>4. PICK p, q : p = h[i - 1] /\ q = h[(i - 1) + 1]
      OBVIOUS
    <3>. HIDE DEF k
    <3>5. {l} \union q = Holding(s[i], {l} \union p)
      BY <3>2, <3>3, <3>4 DEF Holding
    <3>6. InOrder(s[i], {l} \union p, b)
      <4>1. Rank(l) \in Nat /\ Level(s[i]) \in Nat
        BY RankIsNumber DEF Level
      <4>2. \A x \in p : Rank(l) < Rank(x) /\ Rank(x) \in Nat
        BY <3>2, <3>4, RankIsNumber DEF InOrder
      <4>3. ASSUME NEW x \in {l} \union p
            PROVE  b < Rank(x)
        <5>1. CASE x = l
          BY <5>1
        <5>2. CASE x \in p
          <6>1. PICK j, m : j = Rank(l) /\ m = Rank(x)
            OBVIOUS
          <6>2. j \in Nat /\ m \in Nat /\ b < j /\ j < m
            BY <4>1, <4>2, <5>2, <6>1
          <6>3. b < m
            BY <6>2
          <6>. QED BY <6>1, <6>3
        <5>. QED BY <5>1, <5>2
      <4>4. s[i][1] \in {"take", "write", "read", "outside"} =>
              b < Level(s[i]) /\ \A x \in {l} \union p : Rank(x) < Level(s[i])
        BY <3>2, <3>4, <4>1, <4>2 DEF InOrder
      <4>5. s[i][1] # "installed"
        BY <3>2, RankIsNumber DEF InOrder
      <4>. QED BY <3>2, <3>4, <4>3, <4>4, <4>5 DEF InOrder
    <3>. QED BY <3>1, <3>4, <3>5, <3>6
  <2>. QED BY <1>3, <2>1, <2>2, <2>3
<1>6. Follows(s, k, b)
  <2>1. DOMAIN k = 1 .. Len(s) + 1
    BY <1>3
  <2>. HIDE DEF k, s
  <2>. QED BY <1>3, <1>4, <1>5, <2>1 DEF Follows
<1>. QED BY <1>3, <1>6 DEF Fits
-----------------------------------------------------------------------------
(* The scripts of the handlers, each in order. *)

LEMMA CriticalFits ==
  ASSUME NEW l \in Locks, NEW b \in Nat, b < Rank(l)
  PROVE  Fits(Write(l), b) /\ Fits(Read(l), b)
<1>1. \A kind \in {"write", "read"} : <<kind, l>> \in Steps /\ b < Level(<<kind, l>>)
  BY DEF Level, Steps, Kinds
<1>2. Fits(<< <<"write", l>> >>, b)
  BY <1>1, StepFits
<1>3. Fits(<< <<"read", l>> >>, b)
  BY <1>1, StepFits
<1>. QED BY <1>2, <1>3 DEF Write, Read

LEMMA OutsideFits ==
  ASSUME NEW what \in {"dialog", "disk", "network", "worker"}, NEW b \in Nat, b < 3
  PROVE  Fits(Outside(what), b)
<1>1. <<"outside", what>> \in Steps /\ b < Level(<<"outside", what>>)
  BY DEF Level, Steps, Kinds
<1>2. Fits(<< <<"outside", what>> >>, b)
  BY <1>1, StepFits
<1>. QED BY <1>2 DEF Outside

LEMMA OtherStepFits ==
  ASSUME NEW what \in {"plugin", "worker"}, NEW b \in Nat
  PROVE  /\ Fits(<< <<"start", what>> >>, b) /\ Fits(<< <<"shutdown", what>> >>, b)
         /\ Fits(<< <<"removed", what>> >>, b) /\ Fits(<< <<"installed", what>> >>, 0)
<1>1. \A kind \in {"start", "shutdown", "removed", "installed"} : <<kind, what>> \in Steps
  BY DEF Steps, Kinds
<1>2. Fits(<< <<"start", what>> >>, b)
  BY <1>1, StepFits
<1>3. Fits(<< <<"shutdown", what>> >>, b)
  BY <1>1, StepFits
<1>4. Fits(<< <<"removed", what>> >>, b)
  BY <1>1, StepFits
<1>5. Fits(<< <<"installed", what>> >>, 0)
  BY <1>1, StepFits
<1>. QED BY <1>2, <1>3, <1>4, <1>5

LEMMA InstalledFits == Fits(Installed, 0) /\ Fits(Resolved, 0)
<1>1. Fits(Write("manifests"), 0) /\ Fits(Write("secrets"), 0)
  BY CriticalFits DEF Rank, Locks
<1>2. Fits(<< <<"installed", "plugin">> >>, 0)
  BY OtherStepFits
<1>3. Fits(Write("manifests") \o Write("manifests"), 0)
  BY <1>1, InTurnFits
<1>. QED BY <1>1, <1>2, <1>3, InTurnFits DEF Installed, Resolved

\* What a worker asks of the host while its entry, or its session, is locked.
LEMMA WishFits ==
  ASSUME NEW o \in DOMAIN WorkerRoutes
  PROVE  Fits(WorkerHostOperation(o), 1)
<1>1. /\ Fits(Read("bus"), 1) /\ Fits(Write("bus"), 1) /\ Fits(Write("policy"), 1)
      /\ Fits(Write("audit"), 1) /\ Fits(Write("surfaces"), 1) /\ Fits(Write("blobs"), 1)
      /\ Fits(Write("events"), 1) /\ Fits(Write("storage"), 1) /\ Fits(Read("storage"), 1)
      /\ Fits(Write("proposals"), 1) /\ Fits(<<>>, 1)
  BY CriticalFits, EmptyFits DEF Rank, Locks
<1>2. PICK route : route = WorkerRoutes[o]
  OBVIOUS
<1>3. Fits(route, 1)
  BY <1>1, <1>2 DEF WorkerRoutes
<1>4. PICK note : note = IF o = "event.publish" THEN Write("surfaces") ELSE <<>>
  OBVIOUS
<1>5. Fits(note, 1)
  BY <1>1, <1>4
<1>6. Fits(Read("bus") \o Write("policy"), 1)
  BY <1>1, InTurnFits
<1>7. Fits(Read("bus") \o Write("policy") \o Write("bus") \o route, 1)
  BY <1>1, <1>3, <1>6, InTurnFits
<1>8. Fits(Read("bus") \o Write("policy") \o Write("bus") \o route
           \o Write("bus") \o Write("policy") \o Write("audit"), 1)
  BY <1>1, <1>7, InTurnFits
<1>9. Fits(Read("bus") \o Write("policy") \o Write("bus") \o route
           \o Write("bus") \o Write("policy") \o Write("audit") \o note, 1)
  BY <1>5, <1>8, InTurnFits
<1>10. WorkerHostOperation(o) =
         IF ~WorkerMayAsk(o) THEN Read("bus") \o Write("policy")
         ELSE Read("bus") \o Write("policy") \o Write("bus") \o route
              \o Write("bus") \o Write("policy") \o Write("audit") \o note
  BY <1>2, <1>4 DEF WorkerHostOperation
<1>. QED BY <1>6, <1>9, <1>10

Wishes == {"none"} \union DOMAIN WorkerRoutes

LEMMA PooledFits ==
  ASSUME NEW wish \in Wishes
  PROVE  Fits(PooledRequest(wish), 0)
<1>1. PICK part : part = IF wish = "none" THEN <<>> ELSE WorkerHostOperation(wish)
  OBVIOUS
<1>2. Fits(part, 1)
  <2>1. CASE wish = "none"
    BY <1>1, <2>1, EmptyFits
  <2>2. CASE wish # "none"
    BY <1>1, <2>2, WishFits DEF Wishes
  <2>. QED BY <2>1, <2>2
<1>3. /\ Fits(<< <<"start", "worker">> >>, 1) /\ Fits(Outside("worker"), 1)
      /\ Fits(Write("pool"), 0)
  BY OtherStepFits, OutsideFits, CriticalFits DEF Rank, Locks
<1>4. Fits(<< <<"start", "worker">> >> \o Outside("worker"), 1)
  BY <1>3, InTurnFits
<1>5. Fits(<< <<"start", "worker">> >> \o Outside("worker") \o part, 1)
  BY <1>2, <1>4, InTurnFits
<1>6. PICK inner : inner = << <<"start", "worker">> >> \o Outside("worker") \o part \o Outside("worker")
  OBVIOUS
<1>7. Fits(inner, 1)
  BY <1>3, <1>5, <1>6, InTurnFits
<1>8. Rank("entry") = 1 /\ "entry" \in Locks
  BY DEF Rank, Locks
<1>9. Fits(With("entry", inner), 0)
  BY <1>7, <1>8, WithFits
<1>10. PooledRequest(wish) = Write("pool") \o With("entry", inner)
  BY <1>1, <1>6 DEF PooledRequest
<1>. QED BY <1>3, <1>9, <1>10, InTurnFits

LEMMA ClosingFits == Fits(PoolShutdown, 0) /\ Fits(SessionClosed, 0)
<1>1. /\ Fits(Write("pool"), 0) /\ Fits(Write("sessions"), 0)
      /\ Fits(<< <<"shutdown", "worker">> >>, 1) /\ Fits(Outside("worker"), 1)
      /\ Rank("entry") = 1 /\ Rank("record") = 1 /\ "entry" \in Locks /\ "record" \in Locks
  BY CriticalFits, OtherStepFits, OutsideFits DEF Rank, Locks
<1>2. Fits(With("entry", << <<"shutdown", "worker">> >>), 0)
  BY <1>1, WithFits
<1>3. Fits(With("record", Outside("worker")), 0)
  BY <1>1, WithFits
<1>. QED BY <1>1, <1>2, <1>3, InTurnFits DEF PoolShutdown, SessionClosed
\* The critical sections of the handlers, and their waits.
LEMMA SectionsFit ==
  /\ Fits(<<>>, 0)
  /\ \A l \in Locks : Fits(Write(l), 0) /\ Fits(Read(l), 0)
  /\ \A what \in {"dialog", "disk", "network", "worker"} : Fits(Outside(what), 0)
BY EmptyFits, CriticalFits, OutsideFits, RankIsNumber

LEMMA SurfaceFits ==
  ASSUME NEW o \in SurfaceOperations, NEW wish \in Wishes
  PROVE  Fits(SurfaceScript(o, wish), 0)
<1>1. PICK pooling : pooling = PooledRequest(wish)
  OBVIOUS
<1>2. Fits(pooling, 0) /\ Fits(Installed, 0) /\ Fits(Resolved, 0)
  BY <1>1, PooledFits, InstalledFits
<1>3. /\ Fits(Write("surfaces"), 0) /\ Fits(Read("surfaces"), 0) /\ Fits(Write("controls"), 0)
      /\ Rank("blobs") = 2 /\ "blobs" \in Locks
  BY SectionsFit DEF Locks, Rank
<1>4. Fits(With("blobs", Outside("disk")), 0)
  <2>1. Fits(Outside("disk"), 2)
    BY OutsideFits
  <2>. QED BY <1>3, <2>1, WithFits
<1>5. CASE o = "plugin.surface.state"
  <2>1. SurfaceScript(o, wish)
          = Installed \o Read("surfaces") \o Resolved \o pooling \o Write("surfaces")
    BY <1>1, <1>5 DEF SurfaceScript
  <2>2. Fits(Installed \o Read("surfaces") \o Resolved, 0)
    BY <1>2, <1>3, InTurnFits
  <2>. QED BY <1>2, <1>3, <2>1, <2>2, InTurnFits
<1>6. CASE o = "plugin.surface.action"
  <2>1. SurfaceScript(o, wish)
          = Installed \o Resolved \o Write("surfaces") \o Write("controls") \o pooling
            \o Write("controls") \o Write("surfaces")
    BY <1>1, <1>6 DEF SurfaceScript
  <2>2. Fits(Installed \o Resolved \o Write("surfaces") \o Write("controls"), 0)
    BY <1>2, <1>3, InTurnFits
  <2>. QED BY <1>2, <1>3, <2>1, <2>2, InTurnFits
<1>7. CASE o = "plugin.surface.host-action"
  <2>1. SurfaceScript(o, wish)
          = Installed \o Resolved \o Write("controls") \o pooling
            \o Write("controls") \o Write("surfaces")
    BY <1>1, <1>7 DEF SurfaceScript
  <2>2. Fits(Installed \o Resolved \o Write("controls"), 0)
    BY <1>2, <1>3, InTurnFits
  <2>. QED BY <1>2, <1>3, <2>1, <2>2, InTurnFits
<1>8. CASE o = "plugin.surface.file-attach"
  <2>1. SurfaceScript(o, wish)
          = Installed \o With("blobs", Outside("disk")) \o Installed \o Resolved \o pooling
            \o Write("surfaces")
    BY <1>1, <1>8 DEF SurfaceScript
  <2>2. Fits(Installed \o With("blobs", Outside("disk")) \o Installed \o Resolved, 0)
    BY <1>2, <1>4, InTurnFits
  <2>. QED BY <1>2, <1>3, <2>1, <2>2, InTurnFits
<1>. QED BY <1>5, <1>6, <1>7, <1>8 DEF SurfaceOperations

LEMMA WorkerFits ==
  ASSUME NEW o \in WorkerOperations, NEW wish \in Wishes
  PROVE  Fits(WorkerScript(o, wish), 0)
<1>1. /\ Fits(Write("sessions"), 0) /\ Fits(Write("calls"), 0) /\ Fits(Write("cancellations"), 0)
      /\ Fits(Installed, 0) /\ Fits(Resolved, 0) /\ Fits(SessionClosed, 0)
      /\ Rank("sessions") = 2 /\ Rank("record") = 1 /\ {"sessions", "record"} \subseteq Locks
  BY SectionsFit, InstalledFits, ClosingFits DEF Locks, Rank
<1>2. CASE o = "plugin.worker.open"
  <2>1. Fits(Outside("worker"), 2)
    BY OutsideFits
  <2>2. Fits(With("sessions", Outside("worker")), 0)
    BY <1>1, <2>1, WithFits
  <2>3. WorkerScript(o, wish) = Installed \o Resolved \o With("sessions", Outside("worker"))
    BY <1>2 DEF WorkerScript
  <2>. QED BY <1>1, <2>2, <2>3, InTurnFits
<1>3. CASE o = "plugin.worker.call"
  <2>1. PICK part : part = IF wish = "blob.read" THEN Write("blobs") ELSE <<>>
    OBVIOUS
  <2>2. Fits(part, 1) /\ Fits(Outside("worker"), 1)
    BY <2>1, EmptyFits, CriticalFits, OutsideFits DEF Rank, Locks
  <2>3. PICK inner : inner = Outside("worker") \o part \o Outside("worker")
    OBVIOUS
  <2>4. Fits(inner, 1)
    BY <2>2, <2>3, InTurnFits
  <2>5. Fits(With("record", inner), 0)
    BY <1>1, <2>4, WithFits
  <2>6. WorkerScript(o, wish)
          = Write("sessions") \o Write("calls") \o Write("cancellations")
            \o With("record", inner) \o Write("cancellations") \o Write("calls")
    BY <1>3, <2>1, <2>3 DEF WorkerScript
  <2>7. Fits(Write("sessions") \o Write("calls") \o Write("cancellations"), 0)
    BY <1>1, InTurnFits
  <2>. QED BY <1>1, <2>5, <2>6, <2>7, InTurnFits
<1>4. CASE o = "plugin.worker.cancel"
  BY <1>1, <1>4, InTurnFits DEF WorkerScript
<1>5. CASE o = "plugin.worker.close"
  BY <1>1, <1>5 DEF WorkerScript
<1>. QED BY <1>2, <1>3, <1>4, <1>5 DEF WorkerOperations

LEMMA SettingsFits ==
  ASSUME NEW o \in SettingsOperations
  PROVE  Fits(SettingsScript(o), 0)
<1>1. /\ Fits(Installed, 0) /\ Fits(Write("secrets"), 0) /\ Fits(PoolShutdown, 0)
      /\ Fits(SessionClosed, 0) /\ Fits(Outside("network"), 0)
  BY SectionsFit, InstalledFits, ClosingFits DEF Locks
<1>2. Fits(Installed \o Write("secrets"), 0)
  BY <1>1, InTurnFits
<1>3. CASE o \in {"plugin.settings.write", "plugin.settings.reset"}
  <2>1. SettingsScript(o) = Installed \o Write("secrets") \o PoolShutdown \o SessionClosed
    BY <1>3 DEF SettingsScript
  <2>. QED BY <1>1, <1>2, <2>1, InTurnFits
<1>4. CASE o \in {"plugin.settings.read", "plugin.settings.read-trusted"}
  <2>1. SettingsScript(o) = Installed \o Write("secrets")
    BY <1>4 DEF SettingsScript
  <2>. QED BY <1>2, <2>1
<1>5. CASE o = "plugin.connection.test"
  <2>1. SettingsScript(o) = Installed \o Write("secrets") \o Outside("network")
    BY <1>5 DEF SettingsScript
  <2>. QED BY <1>1, <1>2, <2>1, InTurnFits
<1>. QED BY <1>3, <1>4, <1>5 DEF SettingsOperations
LEMMA InstallFits ==
  ASSUME NEW o \in InstallOperations
  PROVE  Fits(InstallScript(o), 0)
<1>1. /\ Fits(Outside("disk"), 0) /\ Fits(Write("packages"), 0) /\ Fits(Write("manifests"), 0)
      /\ Fits(Write("secrets"), 0) /\ Fits(SessionClosed, 0)
      /\ Fits(<< <<"removed", "plugin">> >>, 0)
  BY SectionsFit, ClosingFits, OtherStepFits DEF Locks
<1>2. CASE o = "plugin.install"
  BY <1>1, <1>2, InTurnFits DEF InstallScript
<1>3. CASE o = "plugin.uninstall"
  <2>1. InstallScript(o)
          = SessionClosed \o Write("secrets") \o Outside("disk") \o Write("manifests")
            \o << <<"removed", "plugin">> >>
    BY <1>3 DEF InstallScript
  <2>2. Fits(SessionClosed \o Write("secrets") \o Outside("disk") \o Write("manifests"), 0)
    BY <1>1, InTurnFits
  <2>. QED BY <1>1, <2>1, <2>2, InTurnFits
<1>4. CASE o = "plugin.vsix.import"
  BY <1>1, <1>4 DEF InstallScript
<1>. QED BY <1>2, <1>3, <1>4 DEF InstallOperations

LEMMA PluginFits ==
  ASSUME NEW o \in PluginOperations
  PROVE  Fits(PluginScript(o), 0)
<1>1. /\ Fits(Outside("disk"), 0) /\ Fits(Outside("dialog"), 0) /\ Fits(Write("blobs"), 0)
      /\ Fits(Read("blobs"), 0) /\ Fits(Installed, 0)
  BY SectionsFit, InstalledFits DEF Locks
<1>2. CASE o = "plugin.files.pick"
  <2>1. PluginScript(o)
          = Installed \o Outside("dialog") \o Write("blobs") \o Write("blobs") \o Write("blobs")
    BY <1>2 DEF PluginScript
  <2>2. Fits(Installed \o Outside("dialog") \o Write("blobs"), 0)
    BY <1>1, InTurnFits
  <2>. QED BY <1>1, <2>1, <2>2, InTurnFits
<1>3. CASE o = "plugin.artifact.save"
  BY <1>1, <1>3, InTurnFits DEF PluginScript
<1>4. CASE o \in {"plugin.list", "plugin.frontend.resolve", "plugin.analysis.run",
                  "plugin.icon-theme.read"}
  <2>1. PluginScript(o) = Installed
    BY <1>4 DEF PluginScript
  <2>. QED BY <1>1, <2>1
<1>. QED BY <1>2, <1>3, <1>4 DEF PluginOperations

LEMMA GraphFits ==
  ASSUME NEW o \in GraphOperations
  PROVE  Fits(GraphScript(o), 0)
<1>1. /\ Fits(Outside("disk"), 0) /\ Fits(Installed, 0) /\ Fits(<<>>, 0) /\ Fits(Read("blobs"), 0)
      /\ Fits(Write("proposals"), 0) /\ Fits(Write("projects"), 0) /\ Fits(Read("projects"), 0)
  BY SectionsFit, InstalledFits DEF Locks
<1>2. CASE o = "graph.patch.propose"
  BY <1>1, <1>2, InTurnFits DEF GraphScript
<1>3. CASE o \in {"graph.patch.get", "graph.patch.cleanup-session"}
  <2>1. GraphScript(o) = Write("proposals")
    BY <1>3 DEF GraphScript
  <2>. QED BY <1>1, <2>1
<1>4. CASE o = "graph.patch.review"
  <2>1. Rank("proposals") = 3 /\ Rank("projects") = 4 /\ {"proposals", "projects"} \subseteq Locks
    BY DEF Rank, Locks
  <2>2. Fits(Write("projects"), 3)
    BY <2>1, CriticalFits
  <2>3. Fits(With("proposals", Write("projects")), 0)
    BY <2>1, <2>2, WithFits
  <2>. QED BY <1>4, <2>3 DEF GraphScript
<1>5. CASE o = "graph.project.sync"
  BY <1>1, <1>5, InTurnFits DEF GraphScript
<1>6. CASE o = "graph.project.get"
  BY <1>1, <1>6 DEF GraphScript
<1>7. CASE o \in {"graph.project.remove", "graph.project.cleanup-session"}
  <2>1. GraphScript(o) = Write("projects")
    BY <1>7 DEF GraphScript
  <2>. QED BY <1>1, <2>1
<1>8. CASE o \in {"project.save", "project.import"}
  <2>1. GraphScript(o) = Outside("disk")
    BY <1>8 DEF GraphScript
  <2>. QED BY <1>1, <2>1
<1>9. CASE o \in {"graph.compile", "graph.diff", "graph.ir.compile", "graph.ir.query"}
  <2>1. GraphScript(o) = <<>>
    BY <1>9 DEF GraphScript
  <2>. QED BY <1>1, <2>1
<1>. QED BY <1>2, <1>3, <1>4, <1>5, <1>6, <1>7, <1>8, <1>9 DEF GraphOperations

LEMMA WorkspaceFits ==
  ASSUME NEW o
  PROVE  Fits(WorkspaceScript(o), 0)
<1>1. PICK place : place = IF o \in {"workspace.github.login", "workspace.github.ssh.upload"}
                           THEN "network" ELSE "disk"
  OBVIOUS
<1>2. Fits(Installed, 0) /\ Fits(Outside(place), 0)
  BY <1>1, SectionsFit, InstalledFits
<1>3. WorkspaceScript(o) = Installed \o Outside(place)
  BY <1>1 DEF WorkspaceScript
<1>. QED BY <1>2, <1>3, InTurnFits

\* One registry, one lock.
LEMMA RegistryFits ==
  ASSUME NEW o \in RegistryOperations
  PROVE  Fits(RegistryScript(o), 0)
<1>2. \A l \in Locks : \A script \in {Write(l), Read(l)} : Fits(script, 0)
  BY SectionsFit
<1>1. DOMAIN AgentRoutes = {"agent.job.status", "agent.job.list", "agent.batch.status",
                           "agent.job.review", "agent.job.cancel", "agent.job.start",
                           "agent.batch.start"}
  BY DEF AgentRoutes, Own
<1>3. \E l \in Locks : RegistryScript(o) \in {Write(l), Read(l)}
  <2>1. CASE o \in {"blob.write", "blob.read", "blob.upload.begin", "blob.upload.chunk",
                    "blob.upload.commit", "blob.release"}
    <3>1. RegistryScript(o) = Write("blobs")
      BY <1>1, <2>1 DEF RegistryScript
    <3>. QED BY <3>1 DEF Locks
  <2>2. CASE o \in {"service.register", "service.unregister"}
    BY <1>1, <2>2 DEF RegistryScript, Locks
  <2>3. CASE o \in {"service.call", "service.list"}
    BY <1>1, <2>3 DEF RegistryScript, Locks
  <2>4. CASE o \in {"event.subscribe", "event.publish", "event.poll"}
    BY <1>1, <2>4 DEF RegistryScript, Locks
  <2>5. CASE o \in {"worker.spawn", "worker.stop"}
    BY <1>1, <2>5 DEF RegistryScript, Locks
  <2>7. CASE o = "blob.list"
    BY <1>1, <2>7 DEF RegistryScript, Locks
  <2>8. CASE o = "graph.storage.put"
    BY <1>1, <2>8 DEF RegistryScript, Locks
  <2>9. CASE o = "graph.storage.query"
    BY <1>1, <2>9 DEF RegistryScript, Locks
  <2>10. CASE o = "lease.renew"
    BY <1>1, <2>10 DEF RegistryScript, Locks
  <2>11. CASE o = "audit.read"
    BY <1>1, <2>11 DEF RegistryScript, Locks
  <2>6. CASE o \in {"agent.job.status", "agent.job.list", "agent.batch.status",
                    "agent.job.review", "agent.job.cancel", "agent.job.start",
                    "agent.batch.start"}
    <3>1. RegistryScript(o) = Write("agent")
      BY <1>1, <2>6 DEF RegistryScript
    <3>. QED BY <3>1 DEF Locks
  <2>. QED BY <2>1, <2>2, <2>3, <2>4, <2>5, <2>6, <2>7, <2>8, <2>9, <2>10, <2>11
           DEF RegistryOperations
<1>. QED BY <1>2, <1>3

\* No operation is in two groups.
LEMMA GroupsApart ==
  ASSUME NEW o
  PROVE  /\ o \in SurfaceOperations =>
               /\ o \notin WorkerOperations /\ o \notin WorkspaceOperations
               /\ o \notin SettingsOperations /\ o \notin InstallOperations
               /\ o \notin PluginOperations /\ o \notin GraphOperations
               /\ o \notin RegistryOperations
         /\ o \in WorkerOperations =>
               /\ o \notin WorkspaceOperations /\ o \notin SettingsOperations
               /\ o \notin InstallOperations /\ o \notin PluginOperations
               /\ o \notin GraphOperations /\ o \notin RegistryOperations
         /\ o \in WorkspaceOperations =>
               /\ o \notin SettingsOperations /\ o \notin InstallOperations
               /\ o \notin PluginOperations /\ o \notin GraphOperations
               /\ o \notin RegistryOperations
         /\ o \in SettingsOperations =>
               /\ o \notin InstallOperations /\ o \notin PluginOperations
               /\ o \notin GraphOperations /\ o \notin RegistryOperations
         /\ o \in InstallOperations =>
               /\ o \notin PluginOperations /\ o \notin GraphOperations
               /\ o \notin RegistryOperations
         /\ o \in PluginOperations =>
               /\ o \notin GraphOperations /\ o \notin RegistryOperations
         /\ o \in GraphOperations =>
               /\ o \notin RegistryOperations
<1>1. o \in SurfaceOperations =>
        /\ o \notin WorkerOperations /\ o \notin WorkspaceOperations
        /\ o \notin SettingsOperations /\ o \notin InstallOperations
        /\ o \notin PluginOperations /\ o \notin GraphOperations
        /\ o \notin RegistryOperations
  BY DEF SurfaceOperations, WorkerOperations, WorkspaceOperations, SettingsOperations,
         InstallOperations, PluginOperations, GraphOperations, RegistryOperations
<1>2. o \in WorkerOperations =>
        /\ o \notin WorkspaceOperations /\ o \notin SettingsOperations
        /\ o \notin InstallOperations /\ o \notin PluginOperations
        /\ o \notin GraphOperations /\ o \notin RegistryOperations
  BY DEF WorkerOperations, WorkspaceOperations, SettingsOperations, InstallOperations,
         PluginOperations, GraphOperations, RegistryOperations
<1>3. o \in WorkspaceOperations =>
        /\ o \notin SettingsOperations /\ o \notin InstallOperations
        /\ o \notin PluginOperations /\ o \notin GraphOperations
        /\ o \notin RegistryOperations
  BY DEF WorkspaceOperations, SettingsOperations, InstallOperations, PluginOperations,
         GraphOperations, RegistryOperations
<1>4. o \in SettingsOperations =>
        /\ o \notin InstallOperations /\ o \notin PluginOperations
        /\ o \notin GraphOperations /\ o \notin RegistryOperations
  BY DEF SettingsOperations, InstallOperations, PluginOperations, GraphOperations,
         RegistryOperations
<1>5. o \in InstallOperations =>
        /\ o \notin PluginOperations /\ o \notin GraphOperations
        /\ o \notin RegistryOperations
  BY DEF InstallOperations, PluginOperations, GraphOperations, RegistryOperations
<1>6. o \in PluginOperations =>
        /\ o \notin GraphOperations /\ o \notin RegistryOperations
  BY DEF PluginOperations, GraphOperations, RegistryOperations
<1>7. o \in GraphOperations =>
        /\ o \notin RegistryOperations
  BY DEF GraphOperations, RegistryOperations
<1>. QED BY <1>1, <1>2, <1>3, <1>4, <1>5, <1>6, <1>7

\* Every handler of dispatch, whatever its worker asks of the host.
LEMMA HandlerFits ==
  ASSUME NEW o \in Dispatched, NEW wish \in Wishes
  PROVE  Fits(Handler(o, wish), 0)
<1>1. CASE o \in SurfaceOperations
  <2>1. Handler(o, wish) = SurfaceScript(o, wish)
    BY <1>1, GroupsApart DEF Handler
  <2>. QED BY <1>1, <2>1, SurfaceFits
<1>2. CASE o \in WorkerOperations
  <2>1. Handler(o, wish) = WorkerScript(o, wish)
    BY <1>2, GroupsApart DEF Handler
  <2>. QED BY <1>2, <2>1, WorkerFits
<1>3. CASE o \in WorkspaceOperations
  <2>1. Handler(o, wish) = WorkspaceScript(o)
    BY <1>3, GroupsApart DEF Handler
  <2>. QED BY <1>3, <2>1, WorkspaceFits
<1>4. CASE o \in SettingsOperations
  <2>1. Handler(o, wish) = SettingsScript(o)
    BY <1>4, GroupsApart DEF Handler
  <2>. QED BY <1>4, <2>1, SettingsFits
<1>5. CASE o \in InstallOperations
  <2>1. Handler(o, wish) = InstallScript(o)
    BY <1>5, GroupsApart DEF Handler
  <2>. QED BY <1>5, <2>1, InstallFits
<1>6. CASE o \in PluginOperations
  <2>1. Handler(o, wish) = PluginScript(o)
    BY <1>6, GroupsApart DEF Handler
  <2>. QED BY <1>6, <2>1, PluginFits
<1>7. CASE o \in GraphOperations
  <2>1. Handler(o, wish) = GraphScript(o)
    BY <1>7, GroupsApart DEF Handler
  <2>. QED BY <1>7, <2>1, GraphFits
<1>8. CASE o \in RegistryOperations
  <2>1. Handler(o, wish) = RegistryScript(o)
    BY <1>8, GroupsApart DEF Handler
  <2>. QED BY <1>8, <2>1, RegistryFits
<1>. QED BY <1>1, <1>2, <1>3, <1>4, <1>5, <1>6, <1>7, <1>8 DEF Dispatched

-----------------------------------------------------------------------------
(* What a call holds is what its script says at the step it has come to. *)

Held(script) == CHOOSE h : Follows(script, h, 0)

LEMMA HeldFollows ==
  ASSUME NEW o \in Dispatched, NEW wish \in Wishes
  PROVE  Follows(Handler(o, wish), Held(Handler(o, wish)), 0)
BY HandlerFits DEF Fits, Held

CallsTyped ==
  /\ DOMAIN op = HostCalls /\ DOMAIN asked = HostCalls /\ DOMAIN stage = HostCalls
  /\ DOMAIN pos = HostCalls /\ DOMAIN holds = HostCalls

InsideHandler(c, o, wish, p, held) ==
  LET script == Handler(o, wish) IN
  /\ o \in Dispatched
  /\ p \in 1 .. Len(script) \/ (p = 1 /\ script = <<>>)
  /\ held = Held(script)[p]

CallPlaced(c) ==
  /\ asked[c] \in Wishes
  /\ stage[c] = "run" => InsideHandler(c, op[c], asked[c], pos[c], holds[c])
  /\ stage[c] # "run" => pos[c] = 1 /\ holds[c] = {}

OperationsInv == CallsTyped /\ \A c \in HostCalls : CallPlaced(c)

LEMMA OperationsStart == OperationsInit => OperationsInv
BY DEF OperationsInit, OperationsInv, CallsTyped, CallPlaced, Wishes

\* A call that begins its handler holds nothing.
LEMMA EntersHandler ==
  ASSUME NEW c, NEW o \in Dispatched, NEW wish \in Wishes
  PROVE  InsideHandler(c, o, wish, 1, {})
<1>1. PICK script : script = Handler(o, wish)
  OBVIOUS
<1>2. script \in Seq(Steps) /\ Follows(script, Held(script), 0)
  BY <1>1, HandlerFits, HeldFollows DEF Fits
<1>3. Len(script) \in Nat /\ (Len(script) = 0 => script = <<>>)
  BY <1>2, EmptySeq, LenProperties
<1>4. 1 \in 1 .. Len(script) \/ script = <<>>
  BY <1>3
<1>5. {} = Held(script)[1]
  BY <1>2 DEF Follows
<1>. QED BY <1>1, <1>4, <1>5 DEF InsideHandler

\* A step of its handler, and where it leaves the call.
LEMMA StepsOn ==
  ASSUME NEW c, NEW o \in Dispatched, NEW wish \in Wishes, NEW p, NEW held,
         InsideHandler(c, o, wish, p, held), p \in DOMAIN Handler(o, wish)
  PROVE  LET script == Handler(o, wish)
             next == Holding(script[p], held)
         IN  /\ p \in 1 .. Len(script) /\ Len(script) \in Nat
             /\ InOrder(script[p], held, 0)
             /\ p = Len(script) => next = {}
             /\ p # Len(script) => InsideHandler(c, o, wish, p + 1, next)
<1>1. PICK script : script = Handler(o, wish)
  OBVIOUS
<1>2. script \in Seq(Steps) /\ Follows(script, Held(script), 0)
  BY <1>1, HandlerFits, HeldFollows DEF Fits
<1>3. Len(script) \in Nat /\ DOMAIN script = 1 .. Len(script)
  BY <1>2, LenProperties
<1>4. p \in 1 .. Len(script) /\ held = Held(script)[p]
  BY <1>1, <1>3 DEF InsideHandler
<1>5. /\ InOrder(script[p], held, 0)
      /\ Held(script)[p + 1] = Holding(script[p], held)
      /\ Held(script)[Len(script) + 1] = {}
  BY <1>2, <1>4 DEF Follows
<1>6. ASSUME p # Len(script)
      PROVE  InsideHandler(c, o, wish, p + 1, Holding(script[p], held))
  <2>1. p + 1 \in 1 .. Len(script)
    BY <1>3, <1>4, <1>6
  <2>. QED BY <1>1, <1>5, <2>1 DEF InsideHandler
<1>. QED BY <1>1, <1>3, <1>4, <1>5, <1>6

-----------------------------------------------------------------------------
(* Every step leaves every call where its script says. *)

\* The calls a step leaves alone stay placed.
Untouched(c) ==
  /\ op'[c] = op[c] /\ asked'[c] = asked[c] /\ stage'[c] = stage[c]
  /\ pos'[c] = pos[c] /\ holds'[c] = holds[c]

LEMMA UntouchedStays ==
  ASSUME NEW c, CallPlaced(c), Untouched(c)
  PROVE  CallPlaced(c)'
BY DEF CallPlaced, Untouched

LEMMA WaitsOrAnswers ==
  ASSUME NEW c, stage[c] = "run", pos[c] \in DOMAIN Script(c)
  PROVE  NeedsNow(c) = Step(c)
BY DEF NeedsNow

LEMMA AskKeeps ==
  ASSUME NEW c \in HostCalls, OperationsInv, Ask(c)
  PROVE  OperationsInv'
<1>1. CallsTyped'
  BY DEF OperationsInv, CallsTyped, Ask
<1>2. ASSUME NEW d \in HostCalls
      PROVE  CallPlaced(d)'
  <2>1. CASE d = c
    <3>1. asked'[c] \in Wishes
      BY OperationsAssumption DEF Ask, OperationsInv, CallsTyped, Wishes
    <3>2. stage'[c] = "authorize" /\ pos'[c] = pos[c] /\ holds'[c] = holds[c]
      BY DEF Ask, OperationsInv, CallsTyped
    <3>3. pos[c] = 1 /\ holds[c] = {}
      BY DEF Ask, OperationsInv, CallPlaced
    <3>. QED BY <2>1, <3>1, <3>2, <3>3 DEF CallPlaced
  <2>2. CASE d # c
    <3>1. Untouched(d)
      BY <2>2 DEF Ask, OperationsInv, CallsTyped, Untouched
    <3>. QED BY <3>1, UntouchedStays DEF OperationsInv
  <2>. QED BY <2>1, <2>2
<1>. QED BY <1>1, <1>2 DEF OperationsInv

\* The steps around the handler hold nothing; the last of them but one enters it.
OutsideStep(c) ==
  \/ Authorize(c) \/ AdmitCall(c) \/ RunPure(c) \/ AuditCall(c) \/ FinishCall(c)

LEMMA OutsideKeeps ==
  ASSUME NEW c \in HostCalls, OperationsInv, OutsideStep(c)
  PROVE  OperationsInv'
<1>1. /\ op' = op /\ asked' = asked /\ pos' = pos /\ holds' = holds
      /\ DOMAIN stage' = DOMAIN stage
      /\ \A d \in HostCalls \ {c} : stage'[d] = stage[d]
  <2>1. \E next : stage' = [stage EXCEPT ![c] = next]
    <3>1. CASE Authorize(c)
      BY <3>1 DEF Authorize
    <3>2. CASE AdmitCall(c)
      BY <3>2 DEF AdmitCall
    <3>3. CASE RunPure(c) \/ AuditCall(c) \/ FinishCall(c)
      BY <3>3 DEF RunPure, AuditCall, FinishCall
    <3>. QED BY <3>1, <3>2, <3>3 DEF OutsideStep
  <2>2. op' = op /\ asked' = asked /\ pos' = pos /\ holds' = holds
    BY DEF OutsideStep, Authorize, AdmitCall, RunPure, AuditCall, FinishCall
  <2>3. DOMAIN stage = HostCalls
    BY DEF OperationsInv, CallsTyped
  <2>. QED BY <2>1, <2>2, <2>3
<1>2. CallsTyped'
  BY <1>1 DEF OperationsInv, CallsTyped
<1>3. ASSUME NEW d \in HostCalls \ {c}
      PROVE  CallPlaced(d)'
  <2>1. Untouched(d)
    BY <1>1, <1>3 DEF Untouched
  <2>. QED BY <2>1, UntouchedStays DEF OperationsInv
<1>4. CallPlaced(c)
  BY DEF OperationsInv
<1>5. pos[c] = 1 /\ holds[c] = {}
  <2>1. CASE RunPure(c)
    <3>1. /\ stage[c] = "run" /\ Handler(op[c], asked[c]) = <<>>
          /\ InsideHandler(c, op[c], asked[c], pos[c], holds[c]) /\ asked[c] \in Wishes
      BY <1>4, <2>1 DEF CallPlaced, RunPure, Script
    <3>2. Follows(<<>>, Held(<<>>), 0)
      BY <3>1, HeldFollows DEF InsideHandler
    <3>3. Held(<<>>)[1] = {} /\ Len(<<>>) = 0
      BY <3>2 DEF Follows
    <3>. QED BY <3>1, <3>3 DEF InsideHandler
  <2>2. CASE ~RunPure(c)
    <3>1. stage[c] # "run"
      BY <2>2 DEF OutsideStep, Authorize, AdmitCall, AuditCall, FinishCall
    <3>. QED BY <1>4, <3>1 DEF CallPlaced
  <2>. QED BY <2>1, <2>2
<1>6. stage'[c] = "run" => op[c] \in Dispatched
  BY DEF OutsideStep, Authorize, AdmitCall, RunPure, AuditCall, FinishCall, OperationsInv,
         CallsTyped
<1>7. CallPlaced(c)'
  <2>1. asked[c] \in Wishes
    BY <1>4 DEF CallPlaced
  <2>2. op[c] \in Dispatched => InsideHandler(c, op[c], asked[c], 1, {})
    BY <2>1, EntersHandler
  <2>. QED BY <1>1, <1>5, <1>6, <2>1, <2>2 DEF CallPlaced
<1>. QED BY <1>2, <1>3, <1>7 DEF OperationsInv

\* A handler that fails drops its guards.
LEMMA FailKeeps ==
  ASSUME NEW c \in HostCalls, OperationsInv, HandlerFails(c)
  PROVE  OperationsInv'
<1>1. CallsTyped'
  BY DEF OperationsInv, CallsTyped, HandlerFails
<1>2. ASSUME NEW d \in HostCalls
      PROVE  CallPlaced(d)'
  <2>1. CASE d = c
    <3>1. asked'[c] \in Wishes /\ stage'[c] = "audit" /\ pos'[c] = 1 /\ holds'[c] = {}
      BY DEF HandlerFails, OperationsInv, CallsTyped, CallPlaced
    <3>. QED BY <2>1, <3>1 DEF CallPlaced
  <2>2. CASE d # c
    <3>1. Untouched(d)
      BY <2>2 DEF HandlerFails, OperationsInv, CallsTyped, Untouched
    <3>. QED BY <3>1, UntouchedStays DEF OperationsInv
  <2>. QED BY <2>1, <2>2
<1>. QED BY <1>1, <1>2 DEF OperationsInv

LEMMA RunKeeps ==
  ASSUME NEW c \in HostCalls, OperationsInv, RunStep(c)
  PROVE  OperationsInv'
<1>1. PICK step, held, script :
        step = Step(c) /\ held = holds[c] /\ script = Handler(op[c], asked[c])
  OBVIOUS
<1>2. PICK stops : stops = (step[1] = "installed" /\ ~present)
  OBVIOUS
<1>3. /\ stage[c] = "run" /\ pos[c] \in DOMAIN script /\ step = script[pos[c]]
      /\ op' = op /\ asked' = asked
      /\ pos' = [pos EXCEPT ![c] = IF stage'[c] = "run" THEN pos[c] + 1 ELSE 1]
  BY <1>1 DEF RunStep, Script, Step
<1>4. stage' = [stage EXCEPT ![c] = IF stops THEN "audit" ELSE AfterStep(c)]
  BY <1>1, <1>2 DEF RunStep
<1>5. holds' = [holds EXCEPT ![c] = Holding(step, held)]
  <2>1. holds' = [holds EXCEPT ![c] = CASE step[1] = "take" -> held \union {step[2]}
                                        [] step[1] = "drop" -> held \ {step[2]}
                                        [] OTHER -> held]
    BY <1>1 DEF RunStep
  <2>2. (CASE step[1] = "take" -> held \union {step[2]}
           [] step[1] = "drop" -> held \ {step[2]}
           [] OTHER -> held) = Holding(step, held)
    BY DEF Holding
  <2>. QED BY <2>1, <2>2
<1>6. CallsTyped /\ CallPlaced(c)
  BY DEF OperationsInv
<1>7. CallsTyped'
  BY <1>3, <1>4, <1>5, <1>6 DEF CallsTyped
<1>8. ASSUME NEW d \in HostCalls \ {c}
      PROVE  CallPlaced(d)'
  <2>1. Untouched(d)
    BY <1>3, <1>4, <1>5, <1>6 DEF CallsTyped, Untouched
  <2>. QED BY <2>1, UntouchedStays DEF OperationsInv
<1>9. /\ op[c] \in Dispatched /\ asked[c] \in Wishes
      /\ InsideHandler(c, op[c], asked[c], pos[c], held)
  BY <1>1, <1>3, <1>6 DEF CallPlaced, InsideHandler
<1>10. /\ InOrder(step, held, 0)
       /\ pos[c] = Len(script) => Holding(step, held) = {}
       /\ pos[c] # Len(script) =>
            InsideHandler(c, op[c], asked[c], pos[c] + 1, Holding(step, held))
  <2>1. PICK o, wish, p : o = op[c] /\ wish = asked[c] /\ p = pos[c]
    OBVIOUS
  <2>2. /\ o \in Dispatched /\ wish \in Wishes /\ InsideHandler(c, o, wish, p, held)
        /\ p \in DOMAIN Handler(o, wish) /\ Handler(o, wish)[p] = step
        /\ Handler(o, wish) = script
    BY <1>1, <1>3, <1>9, <2>1
  <2>3. /\ InOrder(step, held, 0)
        /\ p = Len(script) => Holding(step, held) = {}
        /\ p # Len(script) => InsideHandler(c, o, wish, p + 1, Holding(step, held))
    BY <2>2, StepsOn
  <2>. QED BY <2>1, <2>3
<1>11. stops => Holding(step, held) = {}
  BY <1>2, <1>10 DEF InOrder, Holding
<1>12. AfterStep(c) = IF pos[c] = Len(script) THEN "audit" ELSE "run"
  BY <1>1 DEF AfterStep, Script
<1>13. CallPlaced(c)'
  <2>1. holds'[c] = Holding(step, held) /\ op'[c] = op[c] /\ asked'[c] = asked[c]
    BY <1>3, <1>5, <1>6 DEF CallsTyped
  <2>2. CASE stops \/ pos[c] = Len(script)
    <3>1. stage'[c] = "audit" /\ pos'[c] = 1
      BY <1>3, <1>4, <1>6, <1>12, <2>2 DEF CallsTyped
    <3>. QED BY <1>9, <1>10, <1>11, <2>1, <2>2, <3>1 DEF CallPlaced
  <2>3. CASE ~stops /\ pos[c] # Len(script)
    <3>1. stage'[c] = "run" /\ pos'[c] = pos[c] + 1
      BY <1>3, <1>4, <1>6, <1>12, <2>3 DEF CallsTyped
    <3>. QED BY <1>9, <1>10, <2>1, <2>3, <3>1 DEF CallPlaced
  <2>. QED BY <2>2, <2>3
<1>. QED BY <1>7, <1>8, <1>13 DEF OperationsInv

LEMMA OperationsStepKeeps == OperationsInv /\ [OperationsNext]_callVars => OperationsInv'
<1>. SUFFICES ASSUME OperationsInv, [OperationsNext]_callVars PROVE OperationsInv'
  OBVIOUS
<1>1. CASE UNCHANGED callVars
  BY <1>1 DEF callVars, OperationsInv, CallsTyped, CallPlaced
<1>2. ASSUME NEW c \in HostCalls, Ask(c) PROVE OperationsInv'
  BY <1>2, AskKeeps
<1>3. ASSUME NEW c \in HostCalls, OutsideStep(c) PROVE OperationsInv'
  BY <1>3, OutsideKeeps
<1>4. ASSUME NEW c \in HostCalls, RunStep(c) PROVE OperationsInv'
  BY <1>4, RunKeeps
<1>5. ASSUME NEW c \in HostCalls, HandlerFails(c) PROVE OperationsInv'
  BY <1>5, FailKeeps
<1>. QED BY <1>1, <1>2, <1>3, <1>4, <1>5 DEF OperationsNext, OutsideStep

-----------------------------------------------------------------------------
(* No call waits for one that waits for it. *)

\* A lock that a call waits for comes after those it holds.
LEMMA WaitsForLater ==
  ASSUME NEW c \in HostCalls, NEW d, OperationsInv, Waits(c, d), NEW l \in holds[c]
  PROVE  Rank(l) < Rank(NeedsNow(c)[2])
<1>1. PICK script : script = Handler(op[c], asked[c])
  OBVIOUS
<1>2. /\ stage[c] = "run" /\ op[c] \in Dispatched /\ asked[c] \in Wishes
      /\ InsideHandler(c, op[c], asked[c], pos[c], holds[c])
  BY DEF OperationsInv, CallPlaced, InsideHandler
<1>3. script \in Seq(Steps) /\ Follows(script, Held(script), 0)
  BY <1>1, <1>2, HandlerFits, HeldFollows DEF Fits
<1>4. pos[c] \in DOMAIN script
  <2>1. script # <<>>
    <3>1. script = <<>> => holds[c] = {}
      <4>1. Len(<<>>) = 0 /\ Held(script)[1] = {}
        BY <1>3 DEF Follows
      <4>. QED BY <1>1, <1>2, <4>1 DEF InsideHandler
    <3>. QED BY <3>1
  <2>. QED BY <1>1, <1>2, <1>3, <2>1, LenProperties DEF InsideHandler
<1>5. NeedsNow(c) = script[pos[c]]
  BY <1>1, <1>2, <1>4, WaitsOrAnswers DEF Script, Step
<1>6. InOrder(script[pos[c]], holds[c], 0)
  BY <1>1, <1>2, <1>4, StepsOn
<1>7. script[pos[c]][1] \in {"take", "write", "read"}
  BY <1>5 DEF Waits
<1>. QED BY <1>5, <1>6, <1>7 DEF InOrder, Level

LEMMA OrderIsSound == OperationsInv => LocksSound
<1>. SUFFICES ASSUME OperationsInv PROVE LocksSound
  OBVIOUS
<1>1. ASSUME NEW S \in (SUBSET HostCalls) \ {{}}
      PROVE  \E c \in S : \A d \in S : ~Waits(c, d)
  <2>. SUFFICES ASSUME \A c \in S : \E d \in S : Waits(c, d) PROVE FALSE
    OBVIOUS
  <2>. DEFINE Below(r) == \A c \in S : \A l \in holds[c] : Rank(l) < r
  <2>1. Below(5)
    BY RankIsNumber
  <2>2. ASSUME NEW r \in 1 .. 4, Below(r + 1)
        PROVE  Below(r)
    <3>1. ASSUME NEW c \in S, NEW l \in holds[c], ~(Rank(l) < r)
          PROVE  FALSE
      <4>1. PICK d \in S : Waits(c, d)
        OBVIOUS
      <4>2. PICK m : m = NeedsNow(c)[2]
        OBVIOUS
      <4>3. m \in holds[d] /\ Rank(l) < Rank(m)
        BY <4>1, <4>2, WaitsForLater DEF Waits
      <4>4. Rank(m) < r + 1 /\ Rank(m) \in 1 .. 4 /\ Rank(l) \in 1 .. 4
        BY <2>2, <4>3, RankIsNumber
      <4>. QED BY <3>1, <4>3, <4>4
    <3>. QED BY <3>1
  <2>3. Below(1)
    <3>1. Below(4)
      BY <2>1, <2>2
    <3>2. Below(3)
      BY <2>2, <3>1
    <3>3. Below(2)
      BY <2>2, <3>2
    <3>. QED BY <2>2, <3>3
  <2>4. PICK c \in S : TRUE
    OBVIOUS
  <2>5. PICK d \in S : NeedsNow(c)[2] \in holds[d]
    BY DEF Waits
  <2>. QED BY <2>3, <2>5, RankIsNumber
<1>2. ASSUME NEW c \in HostCalls, NeedsNow(c)[1] = "outside", NEW l \in holds[c], l \in CoreLocks
      PROVE  FALSE
  <2>1. /\ stage[c] = "run" /\ op[c] \in Dispatched /\ asked[c] \in Wishes
        /\ InsideHandler(c, op[c], asked[c], pos[c], holds[c])
    BY DEF OperationsInv, CallPlaced, InsideHandler
  <2>2. pos[c] \in DOMAIN Script(c)
    BY <1>2, <2>1 DEF NeedsNow
  <2>3. NeedsNow(c) = Step(c)
    BY <2>1, <2>2, WaitsOrAnswers
  <2>4. InOrder(Step(c), holds[c], 0)
    BY <2>1, <2>2, StepsOn DEF Script, Step
  <2>5. Rank(l) < 3
    BY <1>2, <2>3, <2>4 DEF InOrder, Level
  <2>. QED BY <1>2, <2>5 DEF Rank, CoreLocks
<1>3. \A c \in HostCalls : stage[c] # "run" => holds[c] = {}
  BY DEF OperationsInv, CallPlaced
<1>. QED BY <1>1, <1>2, <1>3 DEF LocksSound

\* For any number of calls, asking for any operations in any order: no set of calls
\* waits for one another, whoever waits for the outside holds none of the locks that all
\* calls need, and a call keeps no lock once its handler has returned.
THEOREM LocksStaySound == OperationsSpec => []LocksSound
<1>1. OperationsInit => OperationsInv
  BY OperationsStart
<1>2. OperationsInv /\ [OperationsNext]_callVars => OperationsInv'
  BY OperationsStepKeeps
<1>3. OperationsInv => LocksSound
  BY OrderIsSound
<1>. QED BY <1>1, <1>2, <1>3, PTL DEF OperationsSpec

-----------------------------------------------------------------------------
(* The tables of the operations: what the bus registers and what the policy requires give
   an operation one capability, so the tables are compared part by part with it. *)

LEMMA OwnIs == ASSUME NEW names PROVE DOMAIN Own(names) = names /\ \A n \in names : Own(names)[n] = n
BY DEF Own

LEMMA SharedIs ==
  ASSUME NEW capability, NEW names
  PROVE  DOMAIN Shared(capability, names) = names /\ \A n \in names : Shared(capability, names)[n] = capability
BY DEF Shared

\* The capability of an operation, as both tables have it.
Several == {"plugin.list", "graph.patch.review", "graph.patch.get", "graph.patch.cleanup-session",
            "graph.storage.put", "graph.storage.query", "graph.ir.compile", "graph.ir.query",
            "lease.renew", "event.subscribe", "event.publish", "event.poll", "worker.stop",
            "service.list", "service.unregister", "blob.list", "blob.release"}
CapabilityOf(o) ==
  CASE o = "plugin.list" -> "plugin.catalog.read"
    [] o \in {"graph.patch.review", "graph.patch.get", "graph.patch.cleanup-session"} -> "agent.review.request"
    [] o = "graph.storage.put" -> "graph.storage.write"
    [] o = "graph.storage.query" -> "graph.storage.read"
    [] o \in {"graph.ir.compile", "graph.ir.query"} -> "graph.ir"
    [] o = "lease.renew" -> "host-bus.lease"
    [] o \in {"event.subscribe", "event.publish", "event.poll"} -> "host-bus.event"
    [] o = "worker.stop" -> "host-bus.worker"
    [] o \in {"service.list", "service.unregister"} -> "host-bus.service"
    [] o \in {"blob.list", "blob.release"} -> "blob.manage"
    [] OTHER -> o

Tells(table, o) == table[o] = CapabilityOf(o) \/ o = "graph.patch.propose"
Agrees(table) == \A o \in DOMAIN table : Tells(table, o)

LEMMA JoinedAgree ==
  ASSUME NEW f, NEW g, Agrees(f), Agrees(g)
  PROVE  Agrees(f ++ g)
BY DEF Agrees, Tells, ++

LEMMA OwnAgree ==
  ASSUME NEW names, names \intersect Several = {}
  PROVE  Agrees(Own(names))
<1>1. \A o \in names : CapabilityOf(o) = o
  BY DEF CapabilityOf, Several
<1>. QED BY <1>1 DEF Own, Agrees, Tells

LEMMA SharedAgree ==
  ASSUME NEW capability, NEW names, \A o \in names : CapabilityOf(o) = capability \/ o = "graph.patch.propose"
  PROVE  Agrees(Shared(capability, names))
BY DEF Shared, Agrees, Tells

LEMMA RoutesAgree == Agrees(Routes)
<1>1. Agrees(PluginRoutes)
  <2>1. \A o \in {"plugin.list"} : CapabilityOf(o) = "plugin.catalog.read"
    BY DEF CapabilityOf
  <2>. QED BY <2>1, OwnAgree, SharedAgree, JoinedAgree DEF PluginRoutes, Several
<1>2. Agrees(BlobRoutes) /\ Agrees(SurfaceRoutes) /\ Agrees(WorkspaceRoutes) /\ Agrees(AgentRoutes)
  BY OwnAgree DEF BlobRoutes, SurfaceRoutes, WorkspaceRoutes, AgentRoutes, Several
<1>3. Agrees(GraphRoutes)
  <2>1. \A o \in {"graph.patch.get", "graph.patch.review", "graph.patch.cleanup-session"} :
          CapabilityOf(o) = "agent.review.request"
    BY DEF CapabilityOf
  <2>. QED BY <2>1, OwnAgree, SharedAgree, JoinedAgree DEF GraphRoutes, Several
<1>4. Agrees(DomainRoutes)
  <2>1. /\ \A o \in {"graph.storage.put"} : CapabilityOf(o) = "graph.storage.write"
        /\ \A o \in {"graph.storage.query"} : CapabilityOf(o) = "graph.storage.read"
        /\ \A o \in {"graph.ir.compile", "graph.ir.query"} : CapabilityOf(o) = "graph.ir"
        /\ \A o \in {"lease.renew"} : CapabilityOf(o) = "host-bus.lease"
        /\ \A o \in {"event.subscribe", "event.publish", "event.poll"} : CapabilityOf(o) = "host-bus.event"
        /\ \A o \in {"worker.stop"} : CapabilityOf(o) = "host-bus.worker"
        /\ \A o \in {"service.list", "service.unregister"} : CapabilityOf(o) = "host-bus.service"
        /\ \A o \in {"blob.list", "blob.release"} : CapabilityOf(o) = "blob.manage"
    BY DEF CapabilityOf
  <2>2. Agrees(Own({"worker.spawn", "audit.read"}))
    BY OwnAgree DEF Several
  <2>. QED BY <2>1, <2>2, SharedAgree, JoinedAgree DEF DomainRoutes
<1>. QED BY <1>1, <1>2, <1>3, <1>4, JoinedAgree DEF Routes

LEMMA RequirementsAgree == Agrees(Requirements)
<1>1. Agrees(PluginRequirements)
  <2>1. /\ \A o \in {"plugin.list", "plugin.catalog.read"} : CapabilityOf(o) = "plugin.catalog.read"
        /\ \A o \in {"graph.patch.review", "graph.patch.get", "graph.patch.cleanup-session"} :
             CapabilityOf(o) = "agent.review.request"
    BY DEF CapabilityOf
  <2>. QED BY <2>1, OwnAgree, SharedAgree, JoinedAgree DEF PluginRequirements, Several
<1>2. Agrees(HostRequirements)
  <2>1. /\ \A o \in {"graph.storage.put"} : CapabilityOf(o) = "graph.storage.write"
        /\ \A o \in {"graph.storage.query"} : CapabilityOf(o) = "graph.storage.read"
        /\ \A o \in {"graph.ir.compile", "graph.ir.query"} : CapabilityOf(o) = "graph.ir"
        /\ \A o \in {"lease.renew"} : CapabilityOf(o) = "host-bus.lease"
        /\ \A o \in {"event.subscribe", "event.publish", "event.poll"} : CapabilityOf(o) = "host-bus.event"
        /\ \A o \in {"worker.stop"} : CapabilityOf(o) = "host-bus.worker"
        /\ \A o \in {"service.list", "service.unregister"} : CapabilityOf(o) = "host-bus.service"
        /\ \A o \in {"blob.list", "blob.release"} : CapabilityOf(o) = "blob.manage"
    BY DEF CapabilityOf
  <2>. QED BY <2>1, OwnAgree, SharedAgree, JoinedAgree DEF HostRequirements, Several
<1>. QED BY <1>1, <1>2, JoinedAgree DEF Requirements

-----------------------------------------------------------------------------
(* Every registered operation is required of somebody, granted at start and dispatched. *)

Has(table, o) == o \in DOMAIN table

Settled(o) ==
  Has(Requirements, o) /\ o \in Dispatched /\ (CapabilityOf(o) \in Grants \/ o = "blob.write")

LEMMA JoinedHas ==
  ASSUME NEW f, NEW g, NEW o
  PROVE  Has(f ++ g, o) <=> Has(f, o) \/ Has(g, o)
BY DEF Has, ++

LEMMA OwnHas == ASSUME NEW names, NEW o PROVE Has(Own(names), o) <=> o \in names
BY OwnIs DEF Has

LEMMA SharedHas ==
  ASSUME NEW capability, NEW names, NEW o
  PROVE  Has(Shared(capability, names), o) <=> o \in names
BY SharedIs DEF Has

LEMMA PluginRoutesSettled == ASSUME NEW o, Has(PluginRoutes, o) PROVE Settled(o)
<1>1. Has(PluginRequirements, o)
  BY JoinedHas, OwnHas, SharedHas DEF PluginRoutes, PluginRequirements
<1>2. o \in WorkerOperations \union PluginOperations
  BY JoinedHas, OwnHas, SharedHas DEF PluginRoutes, WorkerOperations, PluginOperations
<1>3. CapabilityOf(o) \in Grants
  BY JoinedHas, OwnHas, SharedHas DEF PluginRoutes, CapabilityOf, Grants, PluginGrants
<1>. QED BY <1>1, <1>2, <1>3, JoinedHas DEF Requirements, Settled, Dispatched

LEMMA BlobRoutesSettled == ASSUME NEW o, Has(BlobRoutes, o) PROVE Settled(o)
<1>1. Has(PluginRequirements, o)
  BY JoinedHas, OwnHas, SharedHas DEF BlobRoutes, PluginRequirements
<1>2. o \in RegistryOperations
  BY OwnHas DEF BlobRoutes, RegistryOperations
<1>3. CapabilityOf(o) \in Grants \/ o = "blob.write"
  BY OwnHas DEF BlobRoutes, CapabilityOf, Grants, PluginGrants
<1>. QED BY <1>1, <1>2, <1>3, JoinedHas DEF Requirements, Settled, Dispatched

LEMMA SurfaceRoutesSettled == ASSUME NEW o, Has(SurfaceRoutes, o) PROVE Settled(o)
<1>1. Has(PluginRequirements, o) \/ Has(HostRequirements, o)
  BY JoinedHas, OwnHas, SharedHas DEF SurfaceRoutes, PluginRequirements, HostRequirements
<1>2. o \in SurfaceOperations \union PluginOperations \union RegistryOperations
                                   \union SettingsOperations \union InstallOperations
  BY OwnHas DEF SurfaceRoutes, SurfaceOperations, PluginOperations, RegistryOperations,
               SettingsOperations, InstallOperations
<1>3. CapabilityOf(o) \in Grants
  <2>1. CapabilityOf(o) = o
    BY OwnHas DEF SurfaceRoutes, CapabilityOf
  <2>. QED BY <2>1, OwnHas DEF SurfaceRoutes, Grants, PluginGrants, HostGrants
<1>. QED BY <1>1, <1>2, <1>3, JoinedHas DEF Requirements, Settled, Dispatched

LEMMA GraphRoutesSettled == ASSUME NEW o, Has(GraphRoutes, o) PROVE Settled(o)
<1>1. Has(PluginRequirements, o) \/ Has(HostRequirements, o)
  BY JoinedHas, OwnHas, SharedHas DEF GraphRoutes, PluginRequirements, HostRequirements
<1>2. o \in GraphOperations
  BY JoinedHas, OwnHas, SharedHas DEF GraphRoutes, GraphOperations
<1>3. CapabilityOf(o) \in Grants
  BY JoinedHas, OwnHas, SharedHas DEF GraphRoutes, CapabilityOf, Grants, PluginGrants, HostGrants
<1>. QED BY <1>1, <1>2, <1>3, JoinedHas DEF Requirements, Settled, Dispatched

LEMMA WorkspaceRoutesSettled == ASSUME NEW o, Has(WorkspaceRoutes, o) PROVE Settled(o)
<1>1. Has(HostRequirements, o)
  BY JoinedHas, OwnHas, SharedHas DEF WorkspaceRoutes, HostRequirements
<1>2. o \in WorkspaceOperations \union PluginOperations
  BY OwnHas DEF WorkspaceRoutes, WorkspaceOperations, PluginOperations
<1>3. CapabilityOf(o) \in Grants
  <2>1. CapabilityOf(o) = o
    BY OwnHas DEF WorkspaceRoutes, CapabilityOf
  <2>. QED BY <2>1, OwnHas DEF WorkspaceRoutes, Grants, HostGrants
<1>. QED BY <1>1, <1>2, <1>3, JoinedHas DEF Requirements, Settled, Dispatched

LEMMA AgentRoutesSettled == ASSUME NEW o, Has(AgentRoutes, o) PROVE Settled(o)
<1>1. Has(HostRequirements, o)
  BY JoinedHas, OwnHas, SharedHas DEF AgentRoutes, HostRequirements
<1>2. o \in RegistryOperations
  BY OwnHas DEF AgentRoutes, RegistryOperations
<1>3. CapabilityOf(o) \in Grants
  BY OwnHas DEF AgentRoutes, CapabilityOf, Grants, HostGrants
<1>. QED BY <1>1, <1>2, <1>3, JoinedHas DEF Requirements, Settled, Dispatched

LEMMA DomainRoutesSettled == ASSUME NEW o, Has(DomainRoutes, o) PROVE Settled(o)
<1>1. Has(PluginRequirements, o) \/ Has(HostRequirements, o)
  BY JoinedHas, OwnHas, SharedHas DEF DomainRoutes, PluginRequirements, HostRequirements
<1>2. o \in RegistryOperations \union GraphOperations
  BY JoinedHas, OwnHas, SharedHas DEF DomainRoutes, RegistryOperations, GraphOperations
<1>3. CapabilityOf(o) \in Grants
  BY JoinedHas, OwnHas, SharedHas DEF DomainRoutes, CapabilityOf, Grants, HostGrants
<1>. QED BY <1>1, <1>2, <1>3, JoinedHas DEF Requirements, Settled, Dispatched

LEMMA RoutesSettled == ASSUME NEW o, Has(Routes, o) PROVE Settled(o)
<1>1. \/ Has(PluginRoutes, o) \/ Has(BlobRoutes, o) \/ Has(SurfaceRoutes, o) \/ Has(GraphRoutes, o)
      \/ Has(WorkspaceRoutes, o) \/ Has(AgentRoutes, o) \/ Has(DomainRoutes, o)
  BY JoinedHas DEF Routes
<1>. QED BY <1>1, PluginRoutesSettled, BlobRoutesSettled, SurfaceRoutesSettled, GraphRoutesSettled,
            WorkspaceRoutesSettled, AgentRoutesSettled, DomainRoutesSettled

LEMMA FirstHas ==
  ASSUME NEW f, NEW g, NEW o \in DOMAIN f
  PROVE  (f ++ g)[o] = f[o]
BY DEF ++

LEMMA SecondHas ==
  ASSUME NEW f, NEW g, NEW o \in DOMAIN g, o \notin DOMAIN f
  PROVE  (f ++ g)[o] = g[o]
BY DEF ++

\* The one operation whose capability differs between the tables is required by its name.
LEMMA ProposalsRequirement == Requirements["graph.patch.propose"] = "graph.patch.propose"
<1>1. PICK o : o = "graph.patch.propose"
  OBVIOUS
<1>2. ~Has(Shared("plugin.catalog.read", {"plugin.list", "plugin.catalog.read"}), o)
  BY <1>1, SharedHas
<1>3. Has(PluginRequirements, o)
  BY <1>1, JoinedHas, OwnHas DEF PluginRequirements
<1>4. PluginRequirements[o] = o
  <2>. DEFINE listed == Shared("plugin.catalog.read", {"plugin.list", "plugin.catalog.read"})
  <2>1. PICK own, others : PluginRequirements = (listed ++ Own(own)) ++ others /\ o \in own
    BY <1>1 DEF PluginRequirements
  <2>2. o \in DOMAIN Own(own) /\ Own(own)[o] = o /\ o \notin DOMAIN listed
    BY <1>2, <2>1, OwnIs DEF Has
  <2>. HIDE DEF listed
  <2>3. (listed ++ Own(own))[o] = o /\ o \in DOMAIN (listed ++ Own(own))
    BY <2>2, SecondHas DEF ++
  <2>. QED BY <2>1, <2>3, FirstHas
<1>. QED BY <1>1, <1>3, <1>4, FirstHas DEF Requirements, Has

\* What the bus asks for and what the policy requires is the same capability.
LEMMA TablesAgree ==
  ASSUME NEW o \in DOMAIN Routes
  PROVE  /\ o \in DOMAIN Requirements /\ o \in Dispatched
         /\ o # "graph.patch.propose" => Routes[o] = Requirements[o]
         /\ Requirements[o] \in Grants \/ o = "blob.write"
<1>1. o \in DOMAIN Requirements /\ o \in Dispatched /\ (CapabilityOf(o) \in Grants \/ o = "blob.write")
  BY RoutesSettled DEF Settled, Has
<1>2. o # "graph.patch.propose" => Routes[o] = CapabilityOf(o) /\ Requirements[o] = CapabilityOf(o)
  BY <1>1, RoutesAgree, RequirementsAgree DEF Agrees, Tells
<1>3. "graph.patch.propose" \in Grants
  BY DEF Grants, PluginGrants
<1>. QED BY <1>1, <1>2, <1>3, ProposalsRequirement

LEMMA WorkersMayAsk ==
  ASSUME NEW o \in DOMAIN WorkerRoutes, o # "graph.patch.propose"
  PROVE  WorkerMayAsk(o)
<1>1. o \in {"blob.read", "event.publish", "graph.storage.put", "graph.storage.query",
               "graph.ir.compile", "graph.ir.query", "graph.patch.propose"}
  BY DEF WorkerRoutes
<1>a. Has(BlobRoutes, o) \/ Has(DomainRoutes, o)
  BY <1>1, JoinedHas, OwnHas, SharedHas DEF BlobRoutes, DomainRoutes
<1>2. o \in DOMAIN Routes
  <2>1. Has(Routes, o)
    BY <1>a, JoinedHas DEF Routes
  <2>. QED BY <2>1 DEF Has
<1>. QED BY <1>2, TablesAgree DEF WorkerMayAsk

-----------------------------------------------------------------------------
(* What a call's stage says of what it asked for. *)

AdmissionPlaced(c) ==
  /\ asked[c] \in {"none"} \union DOMAIN WorkerRoutes
  /\ stage[c] = "refused" => op[c] = "graph.patch.propose"
  /\ stage[c] # "unhandled"
  /\ stage[c] = "denied" =>
       op[c] \notin DOMAIN Routes \/ (op[c] = "blob.write" /\ "blob.write" \notin UserLeases)

AdmissionInv ==
  /\ DOMAIN op = HostCalls /\ DOMAIN asked = HostCalls /\ DOMAIN stage = HostCalls
  /\ \A c \in HostCalls : AdmissionPlaced(c)

LEMMA AdmissionStarts == OperationsInit => AdmissionInv
BY DEF OperationsInit, AdmissionInv, AdmissionPlaced

\* A step that leaves what the other calls asked for, and where they are.
LEMMA OthersAdmitted ==
  ASSUME NEW c \in HostCalls, AdmissionInv, AdmissionPlaced(c)',
         DOMAIN op' = DOMAIN op, DOMAIN asked' = DOMAIN asked, DOMAIN stage' = DOMAIN stage,
         \A d \in HostCalls \ {c} : op'[d] = op[d] /\ asked'[d] = asked[d] /\ stage'[d] = stage[d]
  PROVE  AdmissionInv'
BY DEF AdmissionInv, AdmissionPlaced

LEMMA AskAdmits ==
  ASSUME NEW c \in HostCalls, AdmissionInv, Ask(c)
  PROVE  AdmissionInv'
<1>1. PICK o, a : /\ op' = [op EXCEPT ![c] = o] /\ asked' = [asked EXCEPT ![c] = a]
                  /\ a \in {"none"} \union AskedBy[c]
  BY DEF Ask
<1>2. stage' = [stage EXCEPT ![c] = "authorize"]
  BY DEF Ask
<1>3. asked'[c] \in {"none"} \union DOMAIN WorkerRoutes
  BY <1>1, OperationsAssumption DEF AdmissionInv
<1>4. AdmissionPlaced(c)'
  BY <1>2, <1>3 DEF AdmissionInv, AdmissionPlaced
<1>. QED BY <1>1, <1>2, <1>4, OthersAdmitted DEF AdmissionInv

LEMMA AuthorizeAdmits ==
  ASSUME NEW c \in HostCalls, AdmissionInv, Authorize(c)
  PROVE  AdmissionInv'
<1>1. PICK s : stage' = [stage EXCEPT ![c] = s] /\ s = stage'[c] /\ op' = op /\ asked' = asked
  BY DEF Authorize, AdmissionInv
<1>2. stage'[c] = IF op[c] \in DOMAIN Requirements /\ Requirements[op[c]] \in Grants \union UserLeases
                  THEN "begin" ELSE "denied"
  BY DEF Authorize, AdmissionInv
<1>3. ASSUME stage'[c] = "denied", op[c] \in DOMAIN Routes
      PROVE  op[c] = "blob.write" /\ "blob.write" \notin UserLeases
  <2>1. op[c] \in DOMAIN Requirements /\ (Requirements[op[c]] \in Grants \/ op[c] = "blob.write")
    BY <1>3, TablesAgree
  <2>2. Requirements[op[c]] \notin Grants \union UserLeases
    BY <1>2, <1>3, <2>1
  <2>3. op[c] = "blob.write" => Requirements[op[c]] = "blob.write"
    BY <2>1, RequirementsAgree DEF Agrees, Tells, CapabilityOf
  <2>. QED BY <2>1, <2>2, <2>3
<1>4. AdmissionPlaced(c)'
  BY <1>1, <1>2, <1>3 DEF AdmissionInv, AdmissionPlaced
<1>. QED BY <1>1, <1>4, OthersAdmitted

LEMMA BeginAdmits ==
  ASSUME NEW c \in HostCalls, AdmissionInv, AdmitCall(c)
  PROVE  AdmissionInv'
<1>1. PICK s : stage' = [stage EXCEPT ![c] = s] /\ s = stage'[c] /\ op' = op /\ asked' = asked
  BY DEF AdmitCall, AdmissionInv
<1>2. stage'[c] = CASE op[c] \notin DOMAIN Routes -> "unrouted"
                    [] op[c] \in DOMAIN Routes /\ Routes[op[c]] # Requirements[op[c]] -> "refused"
                    [] OTHER -> IF op[c] \in Dispatched THEN "run" ELSE "unhandled"
  BY DEF AdmitCall, AdmissionInv
<1>3. CASE op[c] \notin DOMAIN Routes
  <2>1. stage'[c] = "unrouted"
    BY <1>2, <1>3
  <2>2. AdmissionPlaced(c)'
    BY <1>1, <2>1 DEF AdmissionInv, AdmissionPlaced
  <2>. QED BY <1>1, <2>2, OthersAdmitted
<1>4. CASE op[c] \in DOMAIN Routes /\ Routes[op[c]] # Requirements[op[c]]
  <2>1. stage'[c] = "refused" /\ op[c] = "graph.patch.propose"
    BY <1>2, <1>4, TablesAgree
  <2>2. AdmissionPlaced(c)'
    BY <1>1, <2>1 DEF AdmissionInv, AdmissionPlaced
  <2>. QED BY <1>1, <2>2, OthersAdmitted
<1>5. CASE op[c] \in DOMAIN Routes /\ Routes[op[c]] = Requirements[op[c]]
  <2>1. stage'[c] = "run"
    BY <1>2, <1>5, TablesAgree
  <2>2. AdmissionPlaced(c)'
    BY <1>1, <2>1 DEF AdmissionInv, AdmissionPlaced
  <2>. QED BY <1>1, <2>2, OthersAdmitted
<1>. QED BY <1>3, <1>4, <1>5

LEMMA RunsOnAdmitted ==
  ASSUME NEW c \in HostCalls, AdmissionInv,
         RunStep(c) \/ RunPure(c) \/ HandlerFails(c) \/ AuditCall(c) \/ FinishCall(c)
  PROVE  AdmissionInv'
<1>1. \E s \in {"run", "audit", "finish", "done"} : stage' = [stage EXCEPT ![c] = s]
  <2>1. CASE RunStep(c)
    BY <2>1 DEF RunStep, AfterStep
  <2>2. CASE RunPure(c) \/ HandlerFails(c) \/ AuditCall(c) \/ FinishCall(c)
    BY <2>2 DEF RunPure, HandlerFails, AuditCall, FinishCall
  <2>. QED BY <2>1, <2>2
<1>2. op' = op /\ asked' = asked
  BY DEF RunStep, RunPure, HandlerFails, AuditCall, FinishCall
<1>3. AdmissionPlaced(c)'
  BY <1>1, <1>2 DEF AdmissionInv, AdmissionPlaced
<1>. QED BY <1>1, <1>2, <1>3, OthersAdmitted

LEMMA AdmissionKeeps == AdmissionInv /\ [OperationsNext]_callVars => AdmissionInv'
<1>. SUFFICES ASSUME AdmissionInv, [OperationsNext]_callVars PROVE AdmissionInv'
  OBVIOUS
<1>1. CASE UNCHANGED callVars
  BY <1>1 DEF callVars, AdmissionInv, AdmissionPlaced
<1>2. ASSUME NEW c \in HostCalls, Ask(c) PROVE AdmissionInv'
  BY <1>2, AskAdmits
<1>3. ASSUME NEW c \in HostCalls, Authorize(c) PROVE AdmissionInv'
  BY <1>3, AuthorizeAdmits
<1>4. ASSUME NEW c \in HostCalls, AdmitCall(c) PROVE AdmissionInv'
  BY <1>4, BeginAdmits
<1>5. ASSUME NEW c \in HostCalls,
             RunStep(c) \/ RunPure(c) \/ HandlerFails(c) \/ AuditCall(c) \/ FinishCall(c)
      PROVE  AdmissionInv'
  BY <1>5, RunsOnAdmitted
<1>. QED BY <1>1, <1>2, <1>3, <1>4, <1>5 DEF OperationsNext

\* Whatever is asked and whoever holds what lease: a call is denied only what the bus does
\* not register, or blob.write without a lease of it; an admitted call has a handler.
THEOREM AdmissionStays == OperationsSpec => []AdmissionInv
<1>. QED BY AdmissionStarts, AdmissionKeeps, PTL DEF OperationsSpec

\* Once the shell has a lease for blob.write, which nothing grants at start, every call the
\* policy authorises runs its handler, graph.patch.propose alone excepted: the three tables
\* (create_kernel_state, operation_requirement, with_principals) agree on every operation.
THEOREM AuthorizedCallsStayRun ==
  ASSUME "blob.write" \in UserLeases
  PROVE  OperationsSpec => []AuthorizedCallsRun
<1>1. AdmissionInv => AuthorizedCallsRun
  BY WorkersMayAsk DEF AdmissionInv, AdmissionPlaced, AuthorizedCallsRun
<1>. QED BY <1>1, AdmissionStays, PTL
=============================================================================
