-------------------------- MODULE AgentJobsProofs --------------------------
(***************************************************************************)
(* Machine-checked facts about WorkerSupervisor and about AgentJobs, whose *)
(* worker it supervises, for any batches of documents, any number of       *)
(* permits and any restart policy; and about ProviderCalls, the client the *)
(* documents are sent with, for any limits and any answers.                *)
(***************************************************************************)
EXTENDS AgentJobs, ProviderCalls, SequenceTheorems, FiniteSetTheorems, TLAPS

-----------------------------------------------------------------------------
(* The supervisor *)

\* What the safety proofs need of the types.  How long a restart waits does not
\* matter to them, so the delay is left out.
MachineTypeOK ==
    /\ state \in [Workers -> States]
    /\ attempts \in [Workers -> Nat]
    /\ stable \in [Workers -> 0 .. StableTicks - 1]
    /\ wanted \in [Workers -> BOOLEAN]
    /\ restarts \in [Workers -> Nat]

\* The inductive invariant: StopIsObeyed and RestartBudgetKept need only the types.
SupervisorInv == MachineTypeOK /\ StopIsObeyed /\ RestartBudgetKept

\* A worker that leaves a lifecycle edge was at its beginning and is at its end.
LEMMA TakesOneEdge ==
  ASSUME state \in [Workers -> States], NEW w \in Workers, NEW event, Takes(w, event)
  PROVE  /\ state' \in [Workers -> States]
         /\ \A v \in Workers \ {w} : state'[v] = state[v]
         /\ <<state[w], event, state'[w]>> \in Edges
<1>1. PICK edge \in Edges : /\ edge[1] = state[w]
                            /\ edge[2] = event
                            /\ state' = [state EXCEPT ![w] = edge[3]]
  BY DEF Takes
<1>2. edge[3] \in States /\ edge = <<edge[1], edge[2], edge[3]>>
  BY DEF Edges, States
<1>3. state'[w] = edge[3]
  BY <1>1
<1>. QED BY <1>1, <1>2, <1>3

LEMMA SupervisorInitInv == SupervisorInit => SupervisorInv
<1>. SUFFICES ASSUME SupervisorInit PROVE SupervisorInv
  OBVIOUS
<1>1. MachineTypeOK
  BY SupervisorAssumption DEF SupervisorInit, MachineTypeOK, States
<1>2. StopIsObeyed
  BY DEF SupervisorInit, StopIsObeyed
<1>3. 0 <= MaxRestarts
  BY SupervisorAssumption
<1>4. RestartBudgetKept
  BY <1>3 DEF SupervisorInit, RestartBudgetKept
<1>. QED BY <1>1, <1>2, <1>4 DEF SupervisorInv

LEMMA SupervisorNextInv == SupervisorInv /\ [SupervisorNext]_supervisorVars => SupervisorInv'
<1>. SUFFICES ASSUME SupervisorInv, [SupervisorNext]_supervisorVars
              PROVE  SupervisorInv'
  OBVIOUS
<1>. USE SupervisorAssumption DEF SupervisorInv, MachineTypeOK, StopIsObeyed, RestartBudgetKept
<1>1. ASSUME NEW w \in Workers, Register(w) PROVE SupervisorInv'
  BY <1>1 DEF Register, observed, States
<1>2. ASSUME NEW w \in Workers, Start(w) PROVE SupervisorInv'
  <2>1. Takes(w, "StartRequested") /\ wanted' = [wanted EXCEPT ![w] = TRUE]
        /\ UNCHANGED <<attempts, stable, restarts>>
    BY <1>2 DEF Start
  <2>2. /\ state' \in [Workers -> States]
        /\ \A v \in Workers \ {w} : state'[v] = state[v]
    BY <2>1, TakesOneEdge
  <2>. QED BY <2>1, <2>2
<1>3. ASSUME NEW w \in Workers, Spawn(w) PROVE SupervisorInv'
  BY <1>3 DEF Spawn, States
<1>4. ASSUME NEW w \in Workers, RequestStop(w) PROVE SupervisorInv'
  <2>1. Takes(w, "StopRequested") /\ wanted' = [wanted EXCEPT ![w] = FALSE]
        /\ UNCHANGED <<attempts, stable, restarts>>
    BY <1>4 DEF RequestStop
  <2>2. /\ state' \in [Workers -> States]
        /\ \A v \in Workers \ {w} : state'[v] = state[v]
        /\ <<state[w], "StopRequested", state'[w]>> \in Edges
    BY <2>1, TakesOneEdge
  <2>3. state'[w] \in {"Stopped", "Draining"}
    BY <2>2 DEF Edges
  <2>. QED BY <2>1, <2>2, <2>3
<1>5. ASSUME NEW w \in Workers, ObserveStarted(w)
      PROVE  SupervisorInv'
  <2>1. Takes(w, "StartSucceeded") /\ UNCHANGED <<attempts, stable, wanted, restarts>>
    BY <1>5 DEF ObserveStarted, observed
  <2>2. /\ state' \in [Workers -> States]
        /\ \A v \in Workers \ {w} : state'[v] = state[v]
        /\ <<state[w], "StartSucceeded", state'[w]>> \in Edges
    BY <2>1, TakesOneEdge
  <2>3. state[w] = "Starting"
    BY <2>2 DEF Edges
  <2>. QED BY <2>1, <2>2, <2>3
<1>6. ASSUME NEW w \in Workers, ObserveStopped(w) PROVE SupervisorInv'
  <2>1. Takes(w, "StopSucceeded") /\ UNCHANGED <<attempts, stable, wanted, restarts>>
    BY <1>6 DEF ObserveStopped, observed
  <2>2. /\ state' \in [Workers -> States]
        /\ \A v \in Workers \ {w} : state'[v] = state[v]
        /\ <<state[w], "StopSucceeded", state'[w]>> \in Edges
    BY <2>1, TakesOneEdge
  <2>3. state'[w] = "Stopped"
    BY <2>2 DEF Edges
  <2>. QED BY <2>1, <2>2, <2>3
<1>7. ASSUME NEW w \in Workers, ObserveRetryTimer(w) PROVE SupervisorInv'
  <2>1. Takes(w, "RetryTimerElapsed") /\ UNCHANGED <<attempts, stable, wanted, restarts>>
    BY <1>7 DEF ObserveRetryTimer, observed
  <2>2. /\ state' \in [Workers -> States]
        /\ \A v \in Workers \ {w} : state'[v] = state[v]
        /\ <<state[w], "RetryTimerElapsed", state'[w]>> \in Edges
    BY <2>1, TakesOneEdge
  <2>3. state[w] = "Restarting"
    BY <2>2 DEF Edges
  <2>. QED BY <2>1, <2>2, <2>3
<1>8. ASSUME NEW w \in Workers, NEW ticks \in HealthyTicks, ObserveHealthy(w, ticks)
      PROVE  SupervisorInv'
  <2>. DEFINE total == stable[w] + ticks
  <2>1. total \in Nat /\ UNCHANGED <<state, wanted>>
    BY <1>8 DEF ObserveHealthy
  <2>2. CASE LongEnough(total)
    <3>1. /\ stable' = [stable EXCEPT ![w] = 0]
          /\ attempts' = [attempts EXCEPT ![w] = 0]
          /\ restarts' = [restarts EXCEPT ![w] = 0]
      BY <1>8, <2>2 DEF ObserveHealthy
    <3>. QED BY <2>1, <3>1
  <2>3. CASE ~ LongEnough(total)
    <3>1. /\ stable' = [stable EXCEPT ![w] = total]
          /\ attempts' = attempts /\ restarts' = restarts
      BY <1>8, <2>3 DEF ObserveHealthy
    <3>2. total \in 0 .. StableTicks - 1
      BY <2>1, <2>3 DEF LongEnough
    <3>. QED BY <2>1, <3>1, <3>2
  <2>. QED BY <2>2, <2>3
<1>9. ASSUME NEW w \in Workers, NEW reason \in Reasons, ObserveFailed(w, reason)
      PROVE  SupervisorInv'
  <2>1. CASE RestartAfter(w, reason)
    BY <2>1 DEF RestartAfter, BudgetLeft, States
  <2>2. CASE GiveUp(w, reason)
    BY <2>2 DEF GiveUp, observed, States
  <2>3. CASE FailDraining(w, reason)
    BY <2>3 DEF FailDraining, observed, States
  <2>. QED BY <1>9, <2>1, <2>2, <2>3 DEF ObserveFailed
<1>10. CASE UNCHANGED supervisorVars
  BY <1>10 DEF supervisorVars, machine, observed
<1>. QED
  BY <1>1, <1>2, <1>3, <1>4, <1>5, <1>6, <1>7, <1>8, <1>9, <1>10 DEF SupervisorNext

\* The types, the mark of a stop request and the restart budget are kept together by
\* every operation of the supervisor, for every policy.
THEOREM SupervisorInvariant == SupervisorSpec => []SupervisorInv
BY SupervisorInitInv, SupervisorNextInv, PTL DEF SupervisorSpec

\* Supervisor::request_stop wins over every late observation, whatever the policy.
THEOREM StopStaysObeyed == SupervisorSpec => []StopIsObeyed
<1>1. SupervisorInv => StopIsObeyed
  BY DEF SupervisorInv
<1>. QED BY SupervisorInvariant, <1>1, PTL

\* Supervisor::handle_failure never grants more restarts than RestartPolicy allows
\* between two resets of the budget.
THEOREM RestartsStayInBudget == SupervisorSpec => []RestartBudgetKept
<1>1. SupervisorInv => RestartBudgetKept
  BY DEF SupervisorInv
<1>. QED BY SupervisorInvariant, <1>1, PTL

\* Supervisor obeys the last start or stop request and its restart policy at once,
\* for every policy and any order of observations.
THEOREM SupervisionStaysSound == SupervisorSpec => []SupervisionSound
<1>1. SupervisorInv => SupervisionSound
  BY DEF SupervisorInv, SupervisionSound
<1>. QED BY SupervisorInvariant, <1>1, PTL

-----------------------------------------------------------------------------
(* The types, with the delays *)

LEMMA DelayIsNumber ==
  ASSUME NEW attempt \in Nat \ {0}
  PROVE  DelayFor(attempt) \in Nat
<1>. DEFINE shift == IF attempt - 1 < Width - 1 THEN attempt - 1 ELSE Width - 1
<1>1. /\ shift \in 0 .. Width /\ Width \in 0 .. Width
      /\ InitialTicks \in Nat /\ MaxTicks \in Nat
  BY SupervisorAssumption
<1>2. 2^shift \in Nat /\ 2^Width \in Nat \ {0}
  BY <1>1, PowersAreNumbers
<1>. HIDE DEF shift
<1>3. InitialTicks * 2^shift \in Nat
  BY <1>1, <1>2
<1>4. (InitialTicks * 2^shift) % 2^Width \in Nat
  BY <1>2, <1>3
<1>. QED BY <1>1, <1>4 DEF DelayFor, shift

LEMMA SupervisorFields ==
  SupervisorTypeOK <=> /\ MachineTypeOK
                       /\ delay \in [Workers -> Nat]
BY DEF SupervisorTypeOK, MachineTypeOK

\* What the agent host's adapter and the supervisor's other callers do keeps the types.
LEMMA TakesKeepsTypes ==
  ASSUME SupervisorTypeOK, NEW w \in Workers, NEW event, Takes(w, event),
         UNCHANGED <<attempts, stable, restarts, delay>>,
         wanted' = wanted \/ \E b \in BOOLEAN : wanted' = [wanted EXCEPT ![w] = b]
  PROVE  SupervisorTypeOK'
<1>1. state' \in [Workers -> States]
  BY TakesOneEdge DEF SupervisorTypeOK
<1>. QED BY <1>1 DEF SupervisorTypeOK

LEMMA HealthyKeepsTypes ==
  ASSUME SupervisorTypeOK, NEW w \in Workers, NEW ticks \in Nat, ObserveHealthy(w, ticks)
  PROVE  SupervisorTypeOK'
<1>. DEFINE total == stable[w] + ticks
<1>. USE SupervisorAssumption DEF SupervisorTypeOK
<1>1. total \in Nat /\ UNCHANGED <<state, wanted>>
  BY DEF ObserveHealthy
<1>2. CASE LongEnough(total)
  <2>1. /\ stable' = [stable EXCEPT ![w] = 0]
        /\ attempts' = [attempts EXCEPT ![w] = 0]
        /\ restarts' = [restarts EXCEPT ![w] = 0]
        /\ delay' = [delay EXCEPT ![w] = 0]
    BY <1>2 DEF ObserveHealthy
  <2>. QED BY <1>1, <2>1
<1>3. CASE ~ LongEnough(total)
  <2>1. /\ stable' = [stable EXCEPT ![w] = total]
        /\ attempts' = attempts /\ restarts' = restarts /\ delay' = delay
    BY <1>3 DEF ObserveHealthy
  <2>2. total \in 0 .. StableTicks - 1
    BY <1>1, <1>3 DEF LongEnough
  <2>. QED BY <1>1, <2>1, <2>2
<1>. QED BY <1>2, <1>3

LEMMA FailureKeepsTypes ==
  ASSUME SupervisorTypeOK, NEW w \in Workers, NEW reason \in Reasons, ObserveFailed(w, reason)
  PROVE  SupervisorTypeOK'
<1>. USE SupervisorAssumption DEF SupervisorTypeOK
<1>1. CASE RestartAfter(w, reason)
  <2>1. attempts[w] + 1 \in Nat \ {0} /\ DelayFor(attempts[w] + 1) \in Nat
    BY DelayIsNumber
  <2>. QED BY <1>1, <2>1 DEF RestartAfter, States
<1>2. CASE GiveUp(w, reason)
  BY <1>2 DEF GiveUp, observed, States
<1>3. CASE FailDraining(w, reason)
  BY <1>3 DEF FailDraining, observed, States
<1>. QED BY <1>1, <1>2, <1>3 DEF ObserveFailed

\* The supervisor's table is well formed in every behaviour: counters of an interval
\* never go negative and no delay leaves the numbers, for every width of the tick word.
THEOREM SupervisorTypeCorrect == SupervisorSpec => []SupervisorTypeOK
<1>1. SupervisorInit => SupervisorTypeOK
  BY SupervisorAssumption DEF SupervisorInit, SupervisorTypeOK, States
<1>2. SupervisorTypeOK /\ [SupervisorNext]_supervisorVars => SupervisorTypeOK'
  <2>. SUFFICES ASSUME SupervisorTypeOK, [SupervisorNext]_supervisorVars
                PROVE  SupervisorTypeOK'
    OBVIOUS
  <2>1. CASE UNCHANGED supervisorVars
    BY <2>1 DEF supervisorVars, machine, observed, SupervisorTypeOK
  <2>2. ASSUME NEW w \in Workers,
               Start(w) \/ RequestStop(w) \/ ObserveStarted(w) \/ ObserveStopped(w) \/ ObserveRetryTimer(w)
        PROVE  SupervisorTypeOK'
    BY <2>2, TakesKeepsTypes
       DEF Start, RequestStop, ObserveStarted, ObserveStopped, ObserveRetryTimer, observed
  <2>3. ASSUME NEW w \in Workers, Register(w) \/ Spawn(w) PROVE SupervisorTypeOK'
    BY <2>3 DEF Register, Spawn, observed, SupervisorTypeOK, States
  <2>4. ASSUME NEW w \in Workers, NEW ticks \in HealthyTicks, ObserveHealthy(w, ticks)
        PROVE  SupervisorTypeOK'
    BY <2>4, HealthyKeepsTypes, SupervisorAssumption
  <2>5. ASSUME NEW w \in Workers, NEW reason \in Reasons, ObserveFailed(w, reason)
        PROVE  SupervisorTypeOK'
    BY <2>5, FailureKeepsTypes
  <2>. QED BY <2>1, <2>2, <2>3, <2>4, <2>5 DEF SupervisorNext
<1>. QED BY <1>1, <1>2, PTL DEF SupervisorSpec

-----------------------------------------------------------------------------
(* The delays of the restarts *)

\* No restart the budget grants shifts a bit out of the word.  RestartPolicy::default has
\* it: it begins at one tick, so that the limit of the shift keeps the last bit too.
NoBitsLost == \A k \in 0 .. Width - 1 : k < MaxRestarts => InitialTicks * 2^k < 2^Width

\* The delay kept is the one of the last restart that was granted.
DelaysFollowAttempts ==
    \A w \in Workers : delay[w] = IF attempts[w] = 0 THEN 0 ELSE DelayFor(attempts[w])

DelayInv == SupervisorTypeOK /\ RestartBudgetKept /\ DelaysFollowAttempts

LEMMA DelayGrows ==
  ASSUME NoBitsLost, NEW attempt \in Nat \ {0}, attempt < MaxRestarts
  PROVE  DelayFor(attempt) <= DelayFor(attempt + 1)
<1>. DEFINE first == IF attempt - 1 < Width - 1 THEN attempt - 1 ELSE Width - 1
            second == IF attempt < Width - 1 THEN attempt ELSE Width - 1
            word == 2^Width
            a == InitialTicks * 2^first
            b == InitialTicks * 2^second
<1>1. /\ first \in 0 .. Width - 1 /\ second \in 0 .. Width - 1
      /\ first < MaxRestarts /\ second < MaxRestarts
      /\ second = first \/ second = first + 1
      /\ InitialTicks \in Nat /\ MaxTicks \in Nat /\ Width \in Nat
  BY SupervisorAssumption
<1>2. /\ 2^first \in Nat /\ 2^second \in Nat /\ word \in Nat \ {0}
      /\ 2^(first + 1) = 2 * 2^first
  <2>1. first \in 0 .. Width /\ second \in 0 .. Width /\ Width \in 0 .. Width
    BY <1>1
  <2>. HIDE DEF first, second
  <2>. QED BY <2>1, PowersAreNumbers
<1>3. a < word /\ b < word
  <2>. HIDE DEF first, second
  <2>. QED BY <1>1 DEF NoBitsLost
<1>4. DelayFor(attempt) = IF a % word < MaxTicks THEN a % word ELSE MaxTicks
  BY DEF DelayFor
<1>5. DelayFor(attempt + 1) = IF b % word < MaxTicks THEN b % word ELSE MaxTicks
  <2>1. second = IF (attempt + 1) - 1 < Width - 1 THEN (attempt + 1) - 1 ELSE Width - 1
    BY SupervisorAssumption
  <2>. HIDE DEF second
  <2>. QED BY <2>1 DEF DelayFor
<1>6. a \in Nat /\ b \in Nat /\ a <= b
  <2>. HIDE DEF first, second
  <2>1. 2^second = 2^first \/ 2^second = 2 * 2^first
    BY <1>1, <1>2
  <2>2. 2^first <= 2^second
    BY <1>2, <2>1
  <2>. DEFINE x == 2^first
              y == 2^second
  <2>3. x \in Nat /\ y \in Nat /\ x <= y /\ InitialTicks \in Nat
    BY <1>1, <1>2, <2>2
  <2>. HIDE DEF x, y
  <2>4. InitialTicks * x \in Nat /\ InitialTicks * y \in Nat /\ InitialTicks * x <= InitialTicks * y
    BY <2>3
  <2>. QED BY <2>4 DEF x, y
<1>. HIDE DEF a, b, word
<1>7. a % word = a /\ b % word = b
  BY <1>2, <1>3, <1>6
<1>. QED BY <1>1, <1>4, <1>5, <1>6, <1>7

\* BackoffPolicy::delay_for within one budget: every restart waits at least as long as the
\* one before, for every policy whose delays fit the word (NoBitsLost); of others it is
\* false: in a word of three bits delays that begin at three ticks are 3, 6 and 12 % 8 = 4.
THEOREM BackoffStaysMonotone == ASSUME NoBitsLost PROVE SupervisorSpec => BackoffNeverShrinks
<1>1. SupervisorInit => DelayInv
  <2>. SUFFICES ASSUME SupervisorInit PROVE DelayInv
    OBVIOUS
  <2>1. SupervisorTypeOK
    BY SupervisorAssumption DEF SupervisorInit, SupervisorTypeOK, States
  <2>2. RestartBudgetKept
    BY SupervisorInitInv DEF SupervisorInv
  <2>. QED BY <2>1, <2>2 DEF DelayInv, SupervisorInit, DelaysFollowAttempts
<1>2. DelayInv /\ [SupervisorNext]_supervisorVars => DelaysFollowAttempts'
  <2>. SUFFICES ASSUME DelayInv, [SupervisorNext]_supervisorVars PROVE DelaysFollowAttempts'
    OBVIOUS
  <2>. USE DEF DelayInv, DelaysFollowAttempts, SupervisorTypeOK
  <2>1. CASE UNCHANGED supervisorVars
    BY <2>1 DEF supervisorVars, machine, observed
  <2>2. ASSUME NEW w \in Workers, Register(w) \/ Start(w) \/ Spawn(w) \/ RequestStop(w)
               \/ ObserveStarted(w) \/ ObserveStopped(w) \/ ObserveRetryTimer(w)
        PROVE  DelaysFollowAttempts'
    BY <2>2 DEF Register, Start, Spawn, RequestStop, ObserveStarted, ObserveStopped,
                ObserveRetryTimer, observed
  <2>3. ASSUME NEW w \in Workers, NEW ticks \in HealthyTicks, ObserveHealthy(w, ticks)
        PROVE  DelaysFollowAttempts'
    BY <2>3 DEF ObserveHealthy
  <2>4. ASSUME NEW w \in Workers, NEW reason \in Reasons, ObserveFailed(w, reason)
        PROVE  DelaysFollowAttempts'
    <3>1. CASE RestartAfter(w, reason)
      <4>1. /\ attempts' = [attempts EXCEPT ![w] = attempts[w] + 1]
            /\ delay' = [delay EXCEPT ![w] = DelayFor(attempts[w] + 1)]
            /\ attempts[w] + 1 # 0
        BY <3>1 DEF RestartAfter
      <4>. QED BY <4>1
    <3>2. CASE GiveUp(w, reason) \/ FailDraining(w, reason)
      BY <3>2 DEF GiveUp, FailDraining, observed
    <3>. QED BY <2>4, <3>1, <3>2 DEF ObserveFailed
  <2>. QED BY <2>1, <2>2, <2>3, <2>4 DEF SupervisorNext
<1>3. ASSUME DelayInv, [SupervisorNext]_supervisorVars, NEW w \in Workers, restarts'[w] > restarts[w]
      PROVE  delay'[w] >= delay[w]
  <2>1. PICK reason \in Reasons : RestartAfter(w, reason)
    <3>. USE DEF DelayInv, SupervisorTypeOK
    <3>0. restarts[w] \in Nat /\ ~ (0 > restarts[w]) /\ ~ (restarts[w] > restarts[w])
      BY <1>3
    <3>1. ~ UNCHANGED supervisorVars
      BY <1>3, <3>0 DEF supervisorVars, machine, observed
    <3>2. ASSUME NEW v \in Workers, Register(v) \/ Start(v) \/ Spawn(v) \/ RequestStop(v)
                 \/ ObserveStarted(v) \/ ObserveStopped(v) \/ ObserveRetryTimer(v)
          PROVE  FALSE
      BY <1>3, <3>0, <3>2 DEF Register, Start, Spawn, RequestStop, ObserveStarted, ObserveStopped,
                        ObserveRetryTimer, observed
    <3>3. ASSUME NEW v \in Workers, NEW ticks \in HealthyTicks, ObserveHealthy(v, ticks)
          PROVE  FALSE
      BY <1>3, <3>0, <3>3 DEF ObserveHealthy
    <3>4. ASSUME NEW v \in Workers, NEW reason \in Reasons, ObserveFailed(v, reason)
          PROVE  v = w /\ RestartAfter(v, reason)
      BY <1>3, <3>0, <3>4 DEF ObserveFailed, RestartAfter, GiveUp, FailDraining, observed
    <3>. QED BY <1>3, <3>1, <3>2, <3>3, <3>4 DEF SupervisorNext
  <2>2. delay'[w] = DelayFor(attempts[w] + 1) /\ attempts[w] < MaxRestarts /\ attempts[w] \in Nat
    BY <1>3, <2>1 DEF RestartAfter, BudgetLeft, DelayInv, SupervisorTypeOK
  <2>3. delay[w] = IF attempts[w] = 0 THEN 0 ELSE DelayFor(attempts[w])
    BY <1>3 DEF DelayInv, DelaysFollowAttempts
  <2>4. DelayFor(attempts[w] + 1) \in Nat
    BY <2>2, DelayIsNumber
  <2>5. CASE attempts[w] = 0
    BY <2>2, <2>3, <2>4, <2>5
  <2>6. CASE attempts[w] # 0
    <3>1. DelayFor(attempts[w]) <= DelayFor(attempts[w] + 1) /\ DelayFor(attempts[w]) \in Nat
      BY <2>2, <2>6, DelayGrows, DelayIsNumber
    <3>. QED BY <2>2, <2>3, <2>4, <2>6, <3>1
  <2>. QED BY <2>5, <2>6
<1>4. DelayInv /\ [SupervisorNext]_supervisorVars
        => [\A w \in Workers : restarts'[w] > restarts[w] => delay'[w] >= delay[w]]_supervisorVars
  BY <1>3
<1>5. SupervisorSpec => []DelayInv
  <2>1. SupervisorTypeOK /\ RestartBudgetKept /\ DelaysFollowAttempts => DelayInv
    BY DEF DelayInv
  <2>. QED BY <1>1, <1>2, <2>1, SupervisorTypeCorrect, RestartsStayInBudget, PTL DEF SupervisorSpec
<1>. QED BY <1>4, <1>5, PTL DEF SupervisorSpec, BackoffNeverShrinks

-----------------------------------------------------------------------------
(* The jobs: the inductive invariant *)

PermitHeld == {"permitted", "next", "config", "stages", "error", "releasing", "released"}
SlotHeld   == {"next", "config", "stages", "error", "releasing"}
Holders    == {b \in Batches : phase[b] \in PermitHeld}
Slotted    == {b \in Batches : phase[b] \in SlotHeld}

\* Permits and slots are where the tasks are that took them.
GateCounts ==
  /\ IsFiniteSet(Holders) /\ permits + Cardinality(Holders) = Quota
  /\ IsFiniteSet(Slotted) /\ admitted = Cardinality(Slotted)

Persisted(j) == \E n \in DOMAIN checkpoints[j] : checkpoints[j][n].stage = "PersistingCanvas"

\* A task is at a document of its batch, and past PersistingCanvas only with a
\* checkpoint of it.
TasksPlaced ==
  \A b \in Batches :
     /\ phase[b] \in {"config", "stages", "error"} => cur[b] <= Len(DocumentsOf[b])
     /\ phase[b] \in {"releasing", "released", "done"} => cur[b] > Len(DocumentsOf[b])
     /\ phase[b] = "stages" /\ pos[b] > 8 => Persisted(Current(b))

\* A job exists from the moment its batch is queued, and what the task has passed is
\* settled or was never begun.
DocumentsPlaced ==
  \A b \in Batches : \A n \in 1 .. Len(DocumentsOf[b]) :
     /\ phase[b] = "none" => job[DocumentsOf[b][n]] = "None"
     /\ phase[b] \notin {"none", "refused"} => job[DocumentsOf[b][n]] # "None"
     /\ n < cur[b] => job[DocumentsOf[b][n]] \in Settled \union {"Queued"}

AgentInv ==
  /\ JobsTypeOK /\ GateCounts /\ TasksPlaced /\ DocumentsPlaced
  /\ CheckpointsFollowState /\ CancelStopsEffects

-----------------------------------------------------------------------------
(* Constants and histories *)

Checkpoints == [stage : JobStates, closed : BOOLEAN]

LEMMA BatchesTyped ==
  /\ Quota \in Nat \ {0} /\ AgentWorker \in Workers
  /\ \A b \in Batches :
        /\ Len(DocumentsOf[b]) \in Nat /\ DOMAIN DocumentsOf[b] = 1 .. Len(DocumentsOf[b])
        /\ \A n \in 1 .. Len(DocumentsOf[b]) : DocumentsOf[b][n] \in Jobs
<1>1. \A b \in Batches : DocumentsOf[b] \in Seq(Jobs)
  BY JobsAssumption
<1>. QED BY <1>1, LenProperties, ElementOfSeq, JobsAssumption

\* No two places of any batches hold the same job.
LEMMA DocumentsDistinct ==
  ASSUME NEW b \in Batches, NEW c \in Batches,
         NEW n \in 1 .. Len(DocumentsOf[b]), NEW m \in 1 .. Len(DocumentsOf[c]),
         DocumentsOf[b][n] = DocumentsOf[c][m]
  PROVE  b = c /\ n = m
<1>1. n \in DOMAIN DocumentsOf[b] /\ m \in DOMAIN DocumentsOf[c]
  BY BatchesTyped
<1>2. b = c
  BY <1>1, JobsAssumption
<1>. QED BY <1>1, <1>2, JobsAssumption

LEMMA PipelineTyped ==
  /\ Len(Pipeline) = 12 /\ DOMAIN Pipeline = 1 .. 12
  /\ \A n \in 1 .. 12 : Pipeline[n] \notin Effects =>
        Pipeline[n] \in JobStates \ {"Queued"} /\ (Pipeline[n] \in Terminal <=> FALSE)
  /\ \A n \in 1 .. 12 : Pipeline[n] \in {"store", "publish"} => n > 8
  /\ \A n \in 1 .. 12 : n + 1 > 8 /\ n \notin 9 .. 12 => Pipeline[n] = "PersistingCanvas"
  /\ \A n \in 1 .. 12 : n = 12 => Pipeline[n] = "AwaitingReview"
  /\ Pipeline[8] = "PersistingCanvas"
BY DEF Pipeline, Effects, JobStates, Terminal, Settled

NewCheckpoint(s) == [stage |-> s, closed |-> s \in Terminal]

LEMMA NewCheckpointTyped ==
  ASSUME NEW s \in JobStates
  PROVE  /\ NewCheckpoint(s) \in Checkpoints /\ NewCheckpoint(s).stage = s
         /\ NewCheckpoint(s).closed <=> s \in Terminal
<1>1. NewCheckpoint(s).stage = s /\ NewCheckpoint(s) \in Checkpoints
  BY DEF NewCheckpoint, Checkpoints
<1>2. CASE s \in Terminal
  <2>1. NewCheckpoint(s).closed
    BY <1>2 DEF NewCheckpoint
  <2>. QED BY <1>1, <1>2, <2>1
<1>3. CASE s \notin Terminal
  <2>1. ~ NewCheckpoint(s).closed
    BY <1>3 DEF NewCheckpoint
  <2>. QED BY <1>1, <1>3, <2>1
<1>. QED BY <1>2, <1>3

\* The history after a stage was entered: one longer, with the old last one completed.
LEMMA HistoryGrows ==
  ASSUME NEW h \in Seq(Checkpoints), NEW s \in JobStates,
         NEW g, g = Append(CloseLast(h), NewCheckpoint(s))
  PROVE  /\ g \in Seq(Checkpoints) /\ Len(g) = Len(h) + 1 /\ Len(h) \in Nat
         /\ g[Len(h) + 1] = NewCheckpoint(s)
         /\ \A n \in 1 .. Len(h) : /\ g[n].stage = h[n].stage
                                   /\ n < Len(h) => (g[n].closed <=> h[n].closed)
                                   /\ n = Len(h) => g[n].closed
<1>. DEFINE c == CloseLast(h)
<1>1. Len(h) \in Nat /\ DOMAIN h = 1 .. Len(h) /\ \A n \in 1 .. Len(h) : h[n] \in Checkpoints
  BY LenProperties, ElementOfSeq
<1>2. /\ c \in Seq(Checkpoints) /\ Len(c) = Len(h)
      /\ \A n \in 1 .. Len(h) : /\ c[n].stage = h[n].stage
                                /\ n < Len(h) => (c[n].closed <=> h[n].closed)
                                /\ n = Len(h) => c[n].closed
  <2>1. CASE h = << >>
    BY <2>1, EmptySeq DEF CloseLast
  <2>2. CASE h # << >>
    <3>. DEFINE r == [h[Len(h)] EXCEPT !.closed = TRUE]
    <3>1. Len(h) \in 1 .. Len(h)
      BY <2>2, <1>1, EmptySeq
    <3>2. r \in Checkpoints /\ r.stage = h[Len(h)].stage /\ r.closed
      BY <1>1, <3>1 DEF Checkpoints
    <3>3. c = [h EXCEPT ![Len(h)] = r]
      BY <2>2 DEF CloseLast
    <3>4. /\ c \in Seq(Checkpoints) /\ Len(c) = Len(h)
          /\ \A n \in 1 .. Len(h) : c[n] = IF n = Len(h) THEN r ELSE h[n]
      BY <3>1, <3>2, <3>3, ExceptSeq
    <3>. HIDE DEF r, c
    <3>5. ASSUME NEW n \in 1 .. Len(h)
          PROVE  /\ c[n].stage = h[n].stage
                 /\ n < Len(h) => (c[n].closed <=> h[n].closed)
                 /\ n = Len(h) => c[n].closed
      <4>1. CASE n = Len(h)
        BY <4>1, <3>2, <3>4, <1>1
      <4>2. CASE n # Len(h)
        BY <4>2, <3>4, <1>1
      <4>. QED BY <4>1, <4>2
    <3>. QED BY <3>4, <3>5
  <2>. QED BY <2>1, <2>2
<1>3. NewCheckpoint(s) \in Checkpoints
  BY NewCheckpointTyped
<1>. HIDE DEF c
<1>4. g = Append(c, NewCheckpoint(s))
  BY DEF c
<1>5. /\ g \in Seq(Checkpoints) /\ Len(g) = Len(h) + 1
      /\ \A n \in 1 .. Len(h) : g[n] = c[n]
      /\ g[Len(h) + 1] = NewCheckpoint(s)
  BY <1>2, <1>3, <1>4, AppendProperties
<1>. QED BY <1>1, <1>2, <1>5, LenProperties

-----------------------------------------------------------------------------
(* Entering a stage *)

\* Whoever moves a job on: the checkpoints still tell the truth, no stage that was
\* entered is forgotten, and every other job is left alone.
LEMMA EnterKeeps ==
  ASSUME AgentInv, NEW j \in Jobs, NEW s \in JobStates \ {"Queued"},
         job[j] \notin Terminal \union {"None"}, Enter(j, s)
  PROVE  /\ job' \in [Jobs -> JobStates \union {"None"}] /\ checkpoints' \in [Jobs -> Seq(Checkpoints)]
         /\ job'[j] = s /\ \A i \in Jobs \ {j} : job'[i] = job[i] /\ checkpoints'[i] = checkpoints[i]
         /\ \A i \in Jobs : Persisted(i) => Persisted(i)'
         /\ s = "PersistingCanvas" => Persisted(j)'
         /\ CheckpointsFollowState'
<1>. DEFINE h == checkpoints[j]
            g == Append(CloseLast(h), NewCheckpoint(s))
<1>1. /\ job \in [Jobs -> JobStates \union {"None"}] /\ checkpoints \in [Jobs -> Seq(Checkpoints)]
      /\ h \in Seq(Checkpoints)
  BY DEF AgentInv, JobsTypeOK, Checkpoints
<1>2. /\ job' = [job EXCEPT ![j] = s] /\ checkpoints' = [checkpoints EXCEPT ![j] = g]
  BY <1>1, Zenon DEF Enter, NewCheckpoint
<1>. HIDE DEF h, g
<1>0. g = Append(CloseLast(h), NewCheckpoint(s)) /\ s \in JobStates /\ h \in Seq(Checkpoints)
  BY <1>1 DEF g
<1>3. /\ g \in Seq(Checkpoints) /\ Len(g) = Len(h) + 1 /\ Len(h) \in Nat
      /\ g[Len(h) + 1].stage = s /\ (g[Len(h) + 1].closed <=> s \in Terminal)
  <2>1. g \in Seq(Checkpoints) /\ Len(g) = Len(h) + 1 /\ Len(h) \in Nat
    BY <1>0, HistoryGrows
  <2>2. g[Len(h) + 1] = NewCheckpoint(s)
    BY <1>0, HistoryGrows
  <2>3. g[Len(h) + 1].stage = s /\ (g[Len(h) + 1].closed <=> s \in Terminal)
    BY <1>0, <2>2, NewCheckpointTyped, Zenon
  <2>. QED BY <2>1, <2>3
<1>10. \A n \in 1 .. Len(h) : /\ g[n].stage = h[n].stage
                              /\ n < Len(h) => (g[n].closed <=> h[n].closed)
                              /\ n = Len(h) => g[n].closed
  BY <1>0, HistoryGrows
<1>4. checkpoints'[j] = g /\ job'[j] = s
      /\ \A i \in Jobs \ {j} : job'[i] = job[i] /\ checkpoints'[i] = checkpoints[i]
  BY <1>1, <1>2
<1>5. \A n \in 1 .. Len(h) : h[n].closed <=> n < Len(h)
  BY <1>1, <1>3 DEF h, AgentInv, CheckpointsFollowState
<1>6. ASSUME NEW i \in Jobs, Persisted(i) PROVE Persisted(i)'
  <2>1. CASE i = j
    <3>1. PICK n \in DOMAIN h : h[n].stage = "PersistingCanvas"
      BY <1>6, <2>1 DEF Persisted, h
    <3>2. n \in DOMAIN g /\ g[n].stage = "PersistingCanvas"
      BY <1>0, <1>3, <1>10, <3>1
    <3>. QED BY <1>4, <2>1, <3>2 DEF Persisted
  <2>2. CASE i # j
    BY <1>4, <1>6, <2>2 DEF Persisted
  <2>. QED BY <2>1, <2>2
<1>7. s = "PersistingCanvas" => Persisted(j)'
  <2>1. Len(h) + 1 \in DOMAIN g
    BY <1>3
  <2>. QED BY <1>3, <1>4, <2>1 DEF Persisted
<1>8. CheckpointsFollowState'
  <2>1. /\ g # << >> /\ job'[j] \notin {"None", "Queued"}
        /\ g[Len(g)].stage = job'[j]
    <3>1. g # << >> /\ Len(g) = Len(h) + 1
      BY <1>3, EmptySeq
    <3>2. s \notin {"None", "Queued"}
      BY DEF JobStates, Settled, Terminal
    <3>3. g[Len(g)].stage = s
      BY <1>3, <3>1
    <3>. QED BY <1>4, <3>1, <3>2, <3>3
  <2>2. ASSUME NEW n \in DOMAIN g
        PROVE  g[n].closed <=> n < Len(g) \/ job'[j] \in Terminal
    <3>1. CASE n = Len(h) + 1
      BY <1>3, <1>4, <3>1
    <3>2. CASE n \in 1 .. Len(h)
      BY <1>3, <1>5, <1>10, <3>2
    <3>. QED BY <1>3, <3>1, <3>2
  <2>. QED BY <1>4, <2>1, <2>2 DEF AgentInv, CheckpointsFollowState
<1>9. job' \in [Jobs -> JobStates \union {"None"}] /\ checkpoints' \in [Jobs -> Seq(Checkpoints)]
  BY <1>1, <1>2, <1>3
<1>. QED BY <1>4, <1>6, <1>7, <1>8, <1>9

-----------------------------------------------------------------------------
(* The gate *)

LEMMA GateUnchanged ==
  ASSUME GateCounts, UNCHANGED <<permits, admitted>>,
         \A b \in Batches : /\ phase'[b] \in PermitHeld <=> phase[b] \in PermitHeld
                            /\ phase'[b] \in SlotHeld <=> phase[b] \in SlotHeld
  PROVE  GateCounts'
<1>1. Holders' = Holders /\ Slotted' = Slotted
  BY DEF Holders, Slotted
<1>. QED BY <1>1 DEF GateCounts

\* What the counts say: both are within the quota, and the semaphore's permits bound the
\* scheduler's slots.
LEMMA GateBounds ==
  ASSUME JobsTypeOK, GateCounts
  PROVE  /\ Cardinality(Holders) \in Nat /\ Cardinality(Slotted) \in Nat
         /\ Slotted \subseteq Holders
         /\ Cardinality(Slotted) <= Cardinality(Holders)
         /\ permits \in Nat /\ Cardinality(Holders) <= Quota
<1>1. Slotted \in SUBSET Holders
  BY DEF Slotted, Holders, SlotHeld, PermitHeld
<1>2. Cardinality(Slotted) <= Cardinality(Holders)
  BY <1>1, FS_Subset DEF GateCounts
<1>3. Cardinality(Holders) \in Nat /\ Cardinality(Slotted) \in Nat
  BY FS_CardinalityType DEF GateCounts
<1>4. permits \in Nat /\ Quota \in Nat
  BY BatchesTyped DEF JobsTypeOK
<1>. QED BY <1>1, <1>2, <1>3, <1>4 DEF GateCounts

\* The scheduler has a slot for whoever holds a permit and no slot yet.
LEMMA SlotForPermit ==
  ASSUME JobsTypeOK, GateCounts, NEW b \in Batches, phase[b] = "permitted"
  PROVE  admitted < Quota
<1>1. Slotted \in SUBSET (Holders \ {b}) /\ b \in Holders
  BY DEF Slotted, Holders, SlotHeld, PermitHeld
<1>2. IsFiniteSet(Holders \ {b}) /\ Cardinality(Holders \ {b}) = Cardinality(Holders) - 1
  BY <1>1, FS_RemoveElement DEF GateCounts
<1>3. Cardinality(Slotted) <= Cardinality(Holders) - 1
  BY <1>1, <1>2, FS_Subset
<1>. QED BY <1>3, GateBounds, BatchesTyped DEF GateCounts

LEMMA PermitTaken ==
  ASSUME JobsTypeOK, GateCounts, NEW b \in Batches, phase[b] = "waiting", permits > 0,
         phase' = [phase EXCEPT ![b] = "permitted"], permits' = permits - 1, admitted' = admitted
  PROVE  GateCounts' /\ permits' \in 0 .. Quota
<1>1. Holders' = Holders \cup {b} /\ b \notin Holders /\ Slotted' = Slotted
  BY DEF Holders, Slotted, PermitHeld, SlotHeld, JobsTypeOK
<1>2. IsFiniteSet(Holders') /\ Cardinality(Holders') = Cardinality(Holders) + 1
  BY <1>1, FS_AddElement DEF GateCounts
<1>3. permits' + Cardinality(Holders') = Quota /\ permits' \in 0 .. Quota
  <2>1. Cardinality(Holders) \in Nat /\ permits \in Nat
    BY GateBounds
  <2>2. permits + Cardinality(Holders) = Quota /\ Quota \in Nat
    BY BatchesTyped DEF GateCounts
  <2>. QED BY <1>2, <2>1, <2>2
<1>. QED BY <1>1, <1>2, <1>3 DEF GateCounts

LEMMA SlotTaken ==
  ASSUME JobsTypeOK, GateCounts, NEW b \in Batches, phase[b] = "permitted",
         phase' = [phase EXCEPT ![b] = "next"], admitted' = admitted + 1, permits' = permits
  PROVE  GateCounts' /\ admitted' \in 0 .. Quota
<1>1. Slotted' = Slotted \cup {b} /\ b \notin Slotted /\ Holders' = Holders
  BY DEF Holders, Slotted, PermitHeld, SlotHeld, JobsTypeOK
<1>2. IsFiniteSet(Slotted') /\ Cardinality(Slotted') = Cardinality(Slotted) + 1
  BY <1>1, FS_AddElement DEF GateCounts
<1>3. admitted < Quota /\ admitted \in Nat
  BY SlotForPermit, GateBounds DEF GateCounts
<1>. QED BY <1>1, <1>2, <1>3, BatchesTyped DEF GateCounts

LEMMA SlotGivenBack ==
  ASSUME JobsTypeOK, GateCounts, NEW b \in Batches, phase[b] = "releasing",
         phase' = [phase EXCEPT ![b] = "released"], GiveBack("slot")
  PROVE  GateCounts' /\ admitted' \in 0 .. Quota /\ permits' = permits
<1>1. Slotted' = Slotted \ {b} /\ b \in Slotted /\ Holders' = Holders
  BY DEF Holders, Slotted, PermitHeld, SlotHeld, JobsTypeOK
<1>2. IsFiniteSet(Slotted') /\ Cardinality(Slotted') = Cardinality(Slotted) - 1
  BY <1>1, FS_RemoveElement DEF GateCounts
<1>3. Cardinality(Slotted) # 0
  BY <1>1, FS_EmptySet DEF GateCounts
<1>4. admitted > 0 /\ admitted \in 0 .. Quota /\ admitted = Cardinality(Slotted)
  BY <1>3, GateBounds DEF GateCounts, JobsTypeOK
<1>5. admitted' = admitted - 1 /\ permits' = permits
  BY <1>4 DEF GiveBack
<1>. QED BY <1>1, <1>2, <1>4, <1>5, BatchesTyped DEF GateCounts

LEMMA PermitGivenBack ==
  ASSUME JobsTypeOK, GateCounts, NEW b \in Batches, phase[b] = "released",
         phase' = [phase EXCEPT ![b] = "done"], GiveBack("permit")
  PROVE  GateCounts' /\ permits' \in 0 .. Quota /\ admitted' = admitted
<1>1. Holders' = Holders \ {b} /\ b \in Holders /\ Slotted' = Slotted
  BY DEF Holders, Slotted, PermitHeld, SlotHeld, JobsTypeOK
<1>2. IsFiniteSet(Holders') /\ Cardinality(Holders') = Cardinality(Holders) - 1
  BY <1>1, FS_RemoveElement DEF GateCounts
<1>3. Cardinality(Holders) # 0 /\ Cardinality(Holders) \in Nat
  BY <1>1, FS_EmptySet, GateBounds DEF GateCounts
<1>4. permits' = permits + 1 /\ admitted' = admitted
  BY DEF GiveBack
<1>5. permits' + Cardinality(Holders') = Quota /\ permits' \in 0 .. Quota
  <2>1. permits \in Nat /\ Cardinality(Holders) >= 1
    BY <1>3, GateBounds
  <2>2. permits + Cardinality(Holders) = Quota /\ Quota \in Nat
    BY BatchesTyped DEF GateCounts
  <2>. QED BY <1>2, <1>3, <1>4, <2>1, <2>2
<1>. QED BY <1>1, <1>2, <1>4, <1>5 DEF GateCounts

-----------------------------------------------------------------------------
(* The invariant holds at first and each action keeps it *)

LEMMA AgentInitInv == JobsInit => AgentInv
<1>. SUFFICES ASSUME JobsInit PROVE AgentInv
  OBVIOUS
<1>1. Holders = {} /\ Slotted = {}
  BY DEF JobsInit, Holders, Slotted, PermitHeld, SlotHeld
<1>2. GateCounts
  BY <1>1, FS_EmptySet, BatchesTyped DEF JobsInit, GateCounts
<1>3. SupervisorTypeOK
  BY SupervisorAssumption DEF JobsInit, SupervisorTypeOK, States
<1>4. JobsTypeOK
  <2>1. \A b \in Batches : cur[b] \in 1 .. Len(DocumentsOf[b]) + 1
    BY BatchesTyped DEF JobsInit
  <2>2. \A b \in Batches : pos[b] \in 1 .. Len(Pipeline)
    BY PipelineTyped DEF JobsInit
  <2>3. checkpoints \in [Jobs -> Seq([stage : JobStates, closed : BOOLEAN])] /\ line \in Seq(Batches)
    BY EmptySeq DEF JobsInit
  <2>. QED BY <1>3, <2>1, <2>2, <2>3, BatchesTyped DEF JobsInit, JobsTypeOK, Phases
<1>5. TasksPlaced /\ DocumentsPlaced
  BY BatchesTyped DEF JobsInit, TasksPlaced, DocumentsPlaced
<1>6. CheckpointsFollowState /\ CancelStopsEffects
  BY DEF JobsInit, CheckpointsFollowState, CancelStopsEffects
<1>. QED BY <1>2, <1>4, <1>5, <1>6 DEF AgentInv

\* What the inductive step needs of the types, without the supervisor's.
LEMMA TaskTypes ==
  ASSUME AgentInv
  PROVE  /\ job \in [Jobs -> JobStates \union {"None"}]
         /\ checkpoints \in [Jobs -> Seq(Checkpoints)]
         /\ effects \in [Jobs -> SUBSET Effects] /\ phase \in [Batches -> Phases]
         /\ cur \in [Batches -> Nat] /\ pos \in [Batches -> Nat]
         /\ \A b \in Batches : /\ cur[b] \in 1 .. Len(DocumentsOf[b]) + 1 /\ pos[b] \in 1 .. 12
                               /\ Len(DocumentsOf[b]) \in Nat
                               /\ cur[b] <= Len(DocumentsOf[b]) =>
                                     cur[b] \in 1 .. Len(DocumentsOf[b]) /\ Current(b) \in Jobs
         /\ unhealthy \in [Batches -> BOOLEAN]
         /\ permits \in 0 .. Quota /\ admitted \in 0 .. Quota /\ line \in Seq(Batches)
<1>1. /\ job \in [Jobs -> JobStates \union {"None"}]
      /\ checkpoints \in [Jobs -> Seq(Checkpoints)]
      /\ effects \in [Jobs -> SUBSET Effects] /\ phase \in [Batches -> Phases]
      /\ cur \in [Batches -> Nat] /\ pos \in [Batches -> Nat]
      /\ \A b \in Batches : cur[b] \in 1 .. Len(DocumentsOf[b]) + 1 /\ pos[b] \in 1 .. Len(Pipeline)
      /\ unhealthy \in [Batches -> BOOLEAN]
      /\ permits \in 0 .. Quota /\ admitted \in 0 .. Quota /\ line \in Seq(Batches)
  BY DEF AgentInv, JobsTypeOK, Checkpoints
<1>2. ASSUME NEW b \in Batches
      PROVE  /\ cur[b] \in 1 .. Len(DocumentsOf[b]) + 1 /\ pos[b] \in 1 .. 12
             /\ Len(DocumentsOf[b]) \in Nat
             /\ cur[b] <= Len(DocumentsOf[b]) =>
                   cur[b] \in 1 .. Len(DocumentsOf[b]) /\ Current(b) \in Jobs
  <2>1. Len(DocumentsOf[b]) \in Nat /\ cur[b] \in 1 .. Len(DocumentsOf[b]) + 1
    BY <1>1, BatchesTyped
  <2>2. cur[b] <= Len(DocumentsOf[b]) => cur[b] \in 1 .. Len(DocumentsOf[b])
    BY <2>1
  <2>. QED BY <1>1, <2>1, <2>2, BatchesTyped, PipelineTyped DEF Current
<1>. QED BY <1>1, <1>2

\* Steps that move one task and touch no document.
LEMMA TaskMovesKeeps ==
  ASSUME AgentInv, NEW b \in Batches, NEW p \in Phases,
         phase' = [phase EXCEPT ![b] = p], UNCHANGED <<documents, cur>>,
         \A c \in Batches : c # b => pos'[c] = pos[c],
         pos' \in [Batches -> Nat], pos'[b] \in 1 .. 12, unhealthy' \in [Batches -> BOOLEAN],
         permits' \in 0 .. Quota, admitted' \in 0 .. Quota, line' \in Seq(Batches),
         SupervisorTypeOK', GateCounts',
         phase[b] \notin {"none", "refused"}, p \notin {"none", "refused"},
         p \in {"config", "stages", "error"} => cur[b] <= Len(DocumentsOf[b]),
         p \in {"releasing", "released", "done"} => cur[b] > Len(DocumentsOf[b]),
         p = "stages" => pos'[b] <= 8
  PROVE  AgentInv'
<1>1. /\ phase'[b] = p /\ \A c \in Batches \ {b} : phase'[c] = phase[c] /\ pos'[c] = pos[c]
      /\ UNCHANGED <<job, checkpoints, effects, cur>>
  BY TaskTypes DEF documents
<1>2. JobsTypeOK'
  <2>1. phase' \in [Batches -> Phases] /\ {cur', pos'} \subseteq [Batches -> Nat]
    BY <1>1, TaskTypes
  <2>2. \A c \in Batches : cur'[c] \in 1 .. Len(DocumentsOf[c]) + 1 /\ pos'[c] \in 1 .. Len(Pipeline)
    BY <1>1, TaskTypes, PipelineTyped
  <2>3. /\ job' \in [Jobs -> JobStates \union {"None"}]
        /\ checkpoints' \in [Jobs -> Seq([stage : JobStates, closed : BOOLEAN])]
        /\ effects' \in [Jobs -> SUBSET Effects]
    BY <1>1 DEF AgentInv, JobsTypeOK
  <2>. QED BY <2>1, <2>2, <2>3 DEF JobsTypeOK
<1>3. TasksPlaced'
  <2>1. ASSUME NEW c \in Batches
        PROVE  /\ phase'[c] \in {"config", "stages", "error"} => cur[c] <= Len(DocumentsOf[c])
               /\ phase'[c] \in {"releasing", "released", "done"} => cur[c] > Len(DocumentsOf[c])
               /\ phase'[c] = "stages" /\ pos'[c] > 8 => Persisted(Current(c))
    <3>1. CASE c = b
      <4>1. pos'[b] > 8 => p # "stages"
        OBVIOUS
      <4>. QED BY <1>1, <3>1, <4>1
    <3>2. CASE c # b
      BY <1>1, <3>2 DEF AgentInv, TasksPlaced
    <3>. QED BY <3>1, <3>2
  <2>. QED BY <1>1, <2>1 DEF TasksPlaced, Persisted, Current
<1>4. DocumentsPlaced'
  BY <1>1 DEF AgentInv, DocumentsPlaced
<1>5. CheckpointsFollowState' /\ CancelStopsEffects'
  BY <1>1 DEF AgentInv, CheckpointsFollowState, CancelStopsEffects
<1>. QED BY <1>2, <1>3, <1>4, <1>5 DEF AgentInv

\* A job moves on and the tasks stay where they are.
LEMMA EnteredDocuments ==
  ASSUME AgentInv, NEW j \in Jobs, NEW s \in JobStates \ {"Queued"},
         job[j] \notin Terminal \union {"None"}, Enter(j, s),
         s \in Settled \/ \E b \in Batches : cur[b] <= Len(DocumentsOf[b]) /\ j = Current(b)
  PROVE  \A c \in Batches : \A n \in 1 .. Len(DocumentsOf[c]) :
            /\ phase[c] = "none" => job'[DocumentsOf[c][n]] = "None"
            /\ phase[c] \notin {"none", "refused"} => job'[DocumentsOf[c][n]] # "None"
            /\ n < cur[c] => job'[DocumentsOf[c][n]] \in Settled \union {"Queued"}
<1>. SUFFICES ASSUME NEW c \in Batches, NEW n \in 1 .. Len(DocumentsOf[c])
              PROVE  /\ phase[c] = "none" => job'[DocumentsOf[c][n]] = "None"
                     /\ phase[c] \notin {"none", "refused"} => job'[DocumentsOf[c][n]] # "None"
                     /\ n < cur[c] => job'[DocumentsOf[c][n]] \in Settled \union {"Queued"}
  OBVIOUS
<1>. DEFINE d == DocumentsOf[c][n]
<1>1. d \in Jobs
  BY BatchesTyped
<1>2. job'[j] = s /\ \A i \in Jobs \ {j} : job'[i] = job[i]
  BY EnterKeeps
<1>3. /\ phase[c] = "none" => job[d] = "None"
      /\ phase[c] \notin {"none", "refused"} => job[d] # "None"
      /\ n < cur[c] => job[d] \in Settled \union {"Queued"}
  BY DEF AgentInv, DocumentsPlaced
<1>4. s # "None"
  BY DEF JobStates, Settled, Terminal
<1>5. CASE d # j
  BY <1>1, <1>2, <1>3, <1>5
<1>6. CASE d = j
  <2>1. n < cur[c] => s \in Settled
    <3>1. ASSUME NEW b \in Batches, cur[b] <= Len(DocumentsOf[b]), j = Current(b), n < cur[c]
          PROVE  FALSE
      <4>1. cur[b] \in 1 .. Len(DocumentsOf[b]) /\ DocumentsOf[b][cur[b]] = DocumentsOf[c][n]
        BY <1>6, <3>1, TaskTypes DEF Current
      <4>2. b = c /\ cur[b] = n
        BY <4>1, DocumentsDistinct
      <4>3. cur[c] \in Nat
        BY TaskTypes
      <4>. QED BY <3>1, <4>2, <4>3
    <3>. QED BY <3>1
  <2>. QED BY <1>2, <1>3, <1>4, <1>6, <2>1
<1>. QED BY <1>5, <1>6

\* cancel_job and review_patch: a job is settled under the task's feet.
LEMMA UserSettlesKeeps ==
  ASSUME AgentInv, NEW j \in Jobs, NEW s \in Terminal,
         job[j] \notin Terminal \union {"None"}, Enter(j, s),
         UNCHANGED <<effects, phase, task, gate, supervisorVars>>
  PROVE  AgentInv'
<1>1. s \in JobStates \ {"Queued"} /\ s \in Settled
  BY DEF JobStates, Settled, Terminal
<1>2. /\ UNCHANGED <<effects, phase, cur, pos, unhealthy, permits, line, admitted>>
      /\ UNCHANGED <<state, attempts, stable, wanted, restarts, delay>>
  BY DEF task, gate, supervisorVars, machine, observed
<1>3. /\ job' \in [Jobs -> JobStates \union {"None"}] /\ checkpoints' \in [Jobs -> Seq(Checkpoints)]
      /\ \A i \in Jobs : Persisted(i) => Persisted(i)'
      /\ CheckpointsFollowState'
  BY <1>1, EnterKeeps
<1>4. JobsTypeOK'
  BY <1>2, <1>3 DEF AgentInv, JobsTypeOK, Checkpoints, SupervisorTypeOK
<1>5. GateCounts'
  BY <1>2, GateUnchanged DEF AgentInv
<1>6. TasksPlaced'
  <2>1. ASSUME NEW c \in Batches, phase[c] = "stages", pos[c] > 8
        PROVE  \E n \in DOMAIN checkpoints'[DocumentsOf[c][cur[c]]] :
                  checkpoints'[DocumentsOf[c][cur[c]]][n].stage = "PersistingCanvas"
    <3>1. Persisted(Current(c)) /\ Current(c) \in Jobs
      BY <2>1, TaskTypes DEF AgentInv, TasksPlaced
    <3>. QED BY <1>3, <3>1 DEF Persisted, Current
  <2>. QED BY <1>2, <2>1 DEF AgentInv, TasksPlaced, Persisted, Current
<1>7. DocumentsPlaced'
  BY <1>1, <1>2, EnteredDocuments DEF DocumentsPlaced
<1>8. CancelStopsEffects'
  BY <1>2, <1>3 DEF AgentInv, CancelStopsEffects, Persisted
<1>. QED BY <1>3, <1>4, <1>5, <1>6, <1>7, <1>8 DEF AgentInv

LEMMA TransitionFromLive ==
  ASSUME NEW from, NEW to, CanTransition(from, to)
  PROVE  from \notin Terminal \union {"None"}
BY DEF CanTransition, Terminal

\* A job that exists and cannot fail any more is at an end or was never begun.
LEMMA CannotFail ==
  ASSUME NEW s \in JobStates, s \in Terminal \/ ~ CanTransition(s, "Failed")
  PROVE  s \in Settled \union {"Queued"}
BY DEF JobStates, Settled, Terminal, CanTransition

-----------------------------------------------------------------------------
(* The batches' own actions *)

LEMMA SameSupervisor ==
  ASSUME SupervisorTypeOK, UNCHANGED supervisorVars
  PROVE  SupervisorTypeOK'
BY DEF SupervisorTypeOK, supervisorVars, machine, observed

\* create_batch queues the first documents of a batch, or all of them.
LEMMA CreateKeeps ==
  ASSUME AgentInv, NEW b \in Batches, phase[b] = "none", NEW p \in {"spawned", "refused"},
         NEW made \in SUBSET (1 .. Len(DocumentsOf[b])),
         p = "spawned" => made = 1 .. Len(DocumentsOf[b]),
         job' = [j \in Jobs |-> IF \E n \in made : DocumentsOf[b][n] = j THEN "Queued" ELSE job[j]],
         phase' = [phase EXCEPT ![b] = p],
         UNCHANGED <<checkpoints, effects, task, gate, supervisorVars>>
  PROVE  AgentInv'
<1>1. UNCHANGED <<checkpoints, effects, cur, pos, unhealthy, permits, line, admitted>>
  BY DEF task, gate
<1>2. /\ phase'[b] = p /\ \A c \in Batches \ {b} : phase'[c] = phase[c]
      /\ phase' \in [Batches -> Phases]
  BY TaskTypes DEF Phases
<1>3. ASSUME NEW c \in Batches, NEW n \in 1 .. Len(DocumentsOf[c])
      PROVE  /\ DocumentsOf[c][n] \in Jobs
             /\ job'[DocumentsOf[c][n]] =
                   IF c = b /\ n \in made THEN "Queued" ELSE job[DocumentsOf[c][n]]
             /\ c = b => job[DocumentsOf[c][n]] = "None" /\ ~ n < cur[c]
  <2>1. DocumentsOf[c][n] \in Jobs
    BY BatchesTyped
  <2>2. (\E m \in made : DocumentsOf[b][m] = DocumentsOf[c][n]) <=> c = b /\ n \in made
    BY DocumentsDistinct
  <2>3. c = b => job[DocumentsOf[c][n]] = "None" /\ ~ n < cur[c]
    BY DEF AgentInv, DocumentsPlaced, Settled, Terminal
  <2>. QED BY <2>1, <2>2, <2>3
<1>4. \A j \in Jobs : \/ job'[j] = job[j]
                      \/ job[j] = "None" /\ job'[j] = "Queued"
  BY <1>3
<1>5. job' \in [Jobs -> JobStates \union {"None"}]
  BY TaskTypes DEF JobStates
<1>6. JobsTypeOK'
  BY <1>1, <1>2, <1>5, SameSupervisor DEF AgentInv, JobsTypeOK
<1>7. GateCounts'
  BY <1>1, <1>2, GateUnchanged DEF AgentInv, PermitHeld, SlotHeld
<1>8. TasksPlaced'
  BY <1>1, <1>2 DEF AgentInv, TasksPlaced, Persisted, Current
<1>9. DocumentsPlaced'
  <2>1. ASSUME NEW c \in Batches, NEW n \in 1 .. Len(DocumentsOf[c])
        PROVE  /\ phase'[c] = "none" => job'[DocumentsOf[c][n]] = "None"
               /\ phase'[c] \notin {"none", "refused"} => job'[DocumentsOf[c][n]] # "None"
               /\ n < cur'[c] => job'[DocumentsOf[c][n]] \in Settled \union {"Queued"}
    <3>1. CASE c = b
      BY <1>1, <1>2, <1>3, <3>1
    <3>2. CASE c # b
      BY <1>1, <1>2, <1>3, <3>2 DEF AgentInv, DocumentsPlaced
    <3>. QED BY <3>1, <3>2
  <2>. QED BY <2>1 DEF DocumentsPlaced
<1>10. CheckpointsFollowState'
  <2>1. ASSUME NEW j \in Jobs, NEW h, h = checkpoints[j]
        PROVE  /\ h = <<>> <=> job'[j] \in {"None", "Queued"}
               /\ \A n \in DOMAIN h : h[n].closed <=> n < Len(h) \/ job'[j] \in Terminal
               /\ h # <<>> => h[Len(h)].stage = job'[j]
    BY <1>4, <2>1 DEF AgentInv, CheckpointsFollowState, Terminal
  <2>. QED BY <1>1, <2>1 DEF CheckpointsFollowState
<1>11. CancelStopsEffects'
  BY <1>1 DEF AgentInv, CancelStopsEffects
<1>. QED BY <1>6, <1>7, <1>8, <1>9, <1>10, <1>11 DEF AgentInv

LEMMA CreatingKeeps ==
  ASSUME AgentInv, NEW b \in Batches,
         QueueBatch(b) \/ \E n \in 0 .. Len(DocumentsOf[b]) - 1 : RefuseBatch(b, n)
  PROVE  AgentInv'
<1>1. Len(DocumentsOf[b]) \in Nat /\ DOMAIN DocumentsOf[b] = 1 .. Len(DocumentsOf[b])
  BY BatchesTyped
<1>2. CASE QueueBatch(b)
  <2>1. job' = [j \in Jobs |-> IF \E n \in 1 .. Len(DocumentsOf[b]) : DocumentsOf[b][n] = j
                               THEN "Queued" ELSE job[j]]
    BY <1>1, <1>2 DEF QueueBatch
  <2>2. /\ phase[b] = "none" /\ phase' = [phase EXCEPT ![b] = "spawned"]
        /\ UNCHANGED <<checkpoints, effects, task, gate, supervisorVars>>
    BY <1>2 DEF QueueBatch
  <2>3. 1 .. Len(DocumentsOf[b]) \in SUBSET (1 .. Len(DocumentsOf[b]))
    OBVIOUS
  <2>. QED BY <2>1, <2>2, <2>3, CreateKeeps
<1>3. CASE \E n \in 0 .. Len(DocumentsOf[b]) - 1 : RefuseBatch(b, n)
  <2>1. PICK n \in 0 .. Len(DocumentsOf[b]) - 1 : RefuseBatch(b, n)
    BY <1>3
  <2>2. 1 .. n \in SUBSET (1 .. Len(DocumentsOf[b]))
    BY <1>1
  <2>. QED BY <2>1, <2>2, CreateKeeps DEF RefuseBatch
<1>. QED BY <1>2, <1>3

\* Steps that touch neither a job nor a task's document.
LEMMA StoppingKeeps ==
  ASSUME AgentInv, StopWorker
  PROVE  AgentInv'
<1>1. /\ UNCHANGED <<job, checkpoints, effects, phase, cur, pos, unhealthy, permits, line, admitted>>
      /\ RequestStop(AgentWorker)
  BY DEF StopWorker, documents, task, gate
<1>2. SupervisorTypeOK'
  BY <1>1, TakesKeepsTypes, BatchesTyped DEF AgentInv, JobsTypeOK, RequestStop
<1>3. JobsTypeOK'
  BY <1>1, <1>2 DEF AgentInv, JobsTypeOK
<1>4. GateCounts'
  BY <1>1, GateUnchanged DEF AgentInv
<1>5. TasksPlaced' /\ DocumentsPlaced'
  BY <1>1 DEF AgentInv, TasksPlaced, DocumentsPlaced, Persisted, Current
<1>6. CheckpointsFollowState' /\ CancelStopsEffects'
  BY <1>1 DEF AgentInv, CheckpointsFollowState, CancelStopsEffects
<1>. QED BY <1>3, <1>4, <1>5, <1>6 DEF AgentInv

\* The way in and out of the gate.
LEMMA GateKeeps ==
  ASSUME AgentInv, NEW b \in Batches,
         AskPermit(b) \/ TakePermit(b) \/ ReserveSlot(b) \/ DropPermit(b)
  PROVE  AgentInv'
<1>1. /\ JobsTypeOK /\ GateCounts /\ SupervisorTypeOK
      /\ permits \in 0 .. Quota /\ admitted \in 0 .. Quota /\ line \in Seq(Batches)
      /\ pos \in [Batches -> Nat] /\ pos[b] \in 1 .. 12 /\ unhealthy \in [Batches -> BOOLEAN]
  BY TaskTypes DEF AgentInv, JobsTypeOK
<1>2. CASE AskPermit(b)
  <2>1. /\ phase[b] = "spawned" /\ phase' = [phase EXCEPT ![b] = "waiting"]
        /\ UNCHANGED <<documents, cur, pos, unhealthy, permits, admitted, supervisorVars>>
        /\ line' \in Seq(Batches)
    BY <1>1, <1>2, AppendProperties DEF AskPermit, task
  <2>2. GateCounts'
    BY <1>1, <2>1, TaskTypes, GateUnchanged DEF PermitHeld, SlotHeld
  <2>3. SupervisorTypeOK'
    BY <1>1, <2>1, SameSupervisor
  <2>. QED BY <1>1, <2>1, <2>2, <2>3, TaskMovesKeeps DEF Phases
<1>3. CASE TakePermit(b)
  <2>1. /\ phase[b] = "waiting" /\ phase' = [phase EXCEPT ![b] = "permitted"]
        /\ UNCHANGED <<documents, cur, pos, unhealthy, admitted, supervisorVars>>
        /\ permits > 0 /\ permits' = permits - 1
        /\ line' \in Seq(Batches)
    BY <1>1, <1>3, HeadTailProperties DEF TakePermit, task
  <2>2. GateCounts' /\ permits' \in 0 .. Quota
    BY <1>1, <2>1, PermitTaken
  <2>3. SupervisorTypeOK'
    BY <1>1, <2>1, SameSupervisor
  <2>. QED BY <1>1, <2>1, <2>2, <2>3, TaskMovesKeeps DEF Phases
<1>4. CASE ReserveSlot(b)
  <2>1. /\ phase[b] = "permitted" /\ phase' = [phase EXCEPT ![b] = "next"]
        /\ UNCHANGED <<documents, cur, pos, unhealthy, permits, line, supervisorVars>>
        /\ admitted' = admitted + 1
    BY <1>4 DEF ReserveSlot, task
  <2>2. GateCounts' /\ admitted' \in 0 .. Quota
    BY <1>1, <2>1, SlotTaken
  <2>3. SupervisorTypeOK'
    BY <1>1, <2>1, SameSupervisor
  <2>. QED BY <1>1, <2>1, <2>2, <2>3, TaskMovesKeeps DEF Phases
<1>5. CASE DropPermit(b)
  <2>1. /\ UNCHANGED <<documents, cur, pos, unhealthy, line, supervisorVars>>
        /\ phase[b] \in {"releasing", "released"}
        /\ cur[b] > Len(DocumentsOf[b])
    BY <1>5 DEF DropPermit, task, AgentInv, TasksPlaced
  <2>2. SupervisorTypeOK'
    BY <1>1, <2>1, SameSupervisor
  <2>3. CASE phase[b] = "releasing"
    <3>1. phase' = [phase EXCEPT ![b] = "released"] /\ GiveBack("slot")
      BY <1>5, <2>3 DEF DropPermit, DropOrder
    <3>2. GateCounts' /\ admitted' \in 0 .. Quota /\ permits' = permits
      BY <1>1, <2>3, <3>1, SlotGivenBack
    <3>. QED BY <1>1, <2>1, <2>2, <2>3, <3>1, <3>2, TaskMovesKeeps DEF Phases
  <2>4. CASE phase[b] = "released"
    <3>1. phase' = [phase EXCEPT ![b] = "done"] /\ GiveBack("permit")
      BY <1>5, <2>4 DEF DropPermit, DropOrder
    <3>2. GateCounts' /\ permits' \in 0 .. Quota /\ admitted' = admitted
      BY <1>1, <2>4, <3>1, PermitGivenBack
    <3>. QED BY <1>1, <2>1, <2>2, <2>4, <3>1, <3>2, TaskMovesKeeps DEF Phases
  <2>. QED BY <2>1, <2>3, <2>4
<1>. QED BY <1>2, <1>3, <1>4, <1>5

\* The task starts on a document, or on the stages of it, or a stage's work fails.
LEMMA StartingKeeps ==
  ASSUME AgentInv, NEW b \in Batches, ResolveConfig(b) \/ WorkFails(b)
  PROVE  AgentInv'
<1>1. /\ UNCHANGED <<documents, cur, unhealthy, permits, line, admitted, supervisorVars>>
      /\ phase[b] \in {"config", "stages"} /\ cur[b] <= Len(DocumentsOf[b])
  BY DEF ResolveConfig, WorkFails, AgentInv, TasksPlaced, gate
<1>2. /\ GateCounts /\ permits' \in 0 .. Quota /\ admitted' \in 0 .. Quota /\ line' \in Seq(Batches)
      /\ unhealthy' \in [Batches -> BOOLEAN] /\ pos \in [Batches -> Nat] /\ pos[b] \in 1 .. 12
  BY <1>1, TaskTypes DEF AgentInv
<1>3. SupervisorTypeOK'
  BY <1>1, SameSupervisor DEF AgentInv, JobsTypeOK
<1>4. CASE ResolveConfig(b)
  <2>1. phase' = [phase EXCEPT ![b] = "stages"] /\ pos' = [pos EXCEPT ![b] = 1]
    BY <1>4 DEF ResolveConfig
  <2>2. GateCounts'
    BY <1>1, <1>2, <2>1, TaskTypes, GateUnchanged DEF PermitHeld, SlotHeld
  <2>3. pos' \in [Batches -> Nat] /\ pos'[b] = 1 /\ \A c \in Batches : c # b => pos'[c] = pos[c]
    BY <1>2, <2>1
  <2>4. UNCHANGED <<documents, cur>> /\ "stages" \in Phases
    BY <1>1 DEF Phases
  <2>5. /\ pos'[b] \in 1 .. 12 /\ pos'[b] <= 8
        /\ phase[b] \notin {"none", "refused"} /\ cur[b] <= Len(DocumentsOf[b])
    BY <1>1, <2>3
  <2>. QED BY <1>2, <1>3, <2>1, <2>2, <2>3, <2>4, <2>5, TaskMovesKeeps
<1>5. CASE WorkFails(b)
  <2>1. phase' = [phase EXCEPT ![b] = "error"] /\ pos' = pos
    BY <1>5 DEF WorkFails
  <2>2. GateCounts'
    BY <1>1, <1>2, <2>1, TaskTypes, GateUnchanged DEF PermitHeld, SlotHeld
  <2>. QED BY <1>1, <1>2, <1>3, <2>1, <2>2, TaskMovesKeeps DEF Phases
<1>. QED BY <1>4, <1>5

\* What a step may do to the documents: the checkpoints stay true, none is forgotten, and
\* every document is where its batch's task left it.
DocumentsKept ==
  /\ job' \in [Jobs -> JobStates \union {"None"}] /\ checkpoints' \in [Jobs -> Seq(Checkpoints)]
  /\ \A c \in Batches : \A n \in 1 .. Len(DocumentsOf[c]) :
        /\ phase[c] = "none" => job'[DocumentsOf[c][n]] = "None"
        /\ phase[c] \notin {"none", "refused"} => job'[DocumentsOf[c][n]] # "None"
        /\ n < cur[c] => job'[DocumentsOf[c][n]] \in Settled \union {"Queued"}
  /\ \A i \in Jobs : Persisted(i) => Persisted(i)'
  /\ CheckpointsFollowState'

\* The task leaves the document it is at, whose job is settled or was never begun, or
\* goes on with it.
LEMMA NextKeeps ==
  ASSUME AgentInv, NEW b \in Batches, NEW p \in {"next", "config", "stages", "error"},
         phase[b] \in {"next", "config", "stages", "error"},
         phase' = [phase EXCEPT ![b] = p],
         cur[b] <= Len(DocumentsOf[b]),
         \/ cur' = cur
         \/ p = "next" /\ cur' = [cur EXCEPT ![b] = @ + 1] /\ job'[Current(b)] \in Settled \union {"Queued"},
         pos' \in [Batches -> Nat], \A c \in Batches : c # b => pos'[c] = pos[c],
         pos'[b] \in 1 .. 12, p = "stages" /\ pos'[b] > 8 => Persisted(Current(b))',
         unhealthy' \in [Batches -> BOOLEAN],
         UNCHANGED <<gate, supervisorVars>>,
         effects' \in [Jobs -> SUBSET Effects], DocumentsKept, CancelStopsEffects'
  PROVE  AgentInv'
<1>. USE DEF DocumentsKept
<1>1. /\ UNCHANGED <<permits, line, admitted>>
      /\ phase'[b] = p /\ phase' \in [Batches -> Phases]
      /\ \A c \in Batches \ {b} : phase'[c] = phase[c] /\ pos'[c] = pos[c] /\ cur'[c] = cur[c]
  BY TaskTypes DEF gate, Phases
<1>2. cur'[b] \in 1 .. Len(DocumentsOf[b]) + 1 /\ cur' \in [Batches -> Nat]
  <2>1. cur[b] \in 1 .. Len(DocumentsOf[b]) /\ Len(DocumentsOf[b]) \in Nat /\ cur \in [Batches -> Nat]
    BY TaskTypes
  <2>2. CASE cur' = cur
    BY <2>1, <2>2
  <2>3. CASE cur' = [cur EXCEPT ![b] = @ + 1]
    <3>1. cur'[b] = cur[b] + 1 /\ cur' \in [Batches -> Nat]
      BY <2>1, <2>3
    <3>. QED BY <2>1, <3>1
  <2>. QED BY <2>2, <2>3
<1>3. JobsTypeOK'
  <2>1. ASSUME NEW c \in Batches
        PROVE  cur'[c] \in 1 .. Len(DocumentsOf[c]) + 1 /\ pos'[c] \in 1 .. Len(Pipeline)
    <3>1. CASE c = b
      BY <1>2, <3>1, PipelineTyped
    <3>2. CASE c # b
      <4>1. cur'[c] = cur[c] /\ pos'[c] = pos[c]
        BY <1>1, <3>2
      <4>2. cur[c] \in 1 .. Len(DocumentsOf[c]) + 1 /\ pos[c] \in 1 .. 12
        BY TaskTypes
      <4>. QED BY <4>1, <4>2, PipelineTyped
    <3>. QED BY <3>1, <3>2
  <2>4. {cur', pos'} \subseteq [Batches -> Nat]
    BY <1>2
  <2>2. permits' \in 0 .. Quota /\ admitted' \in 0 .. Quota /\ line' \in Seq(Batches)
    BY <1>1, TaskTypes
  <2>3. SupervisorTypeOK'
    BY SameSupervisor DEF AgentInv, JobsTypeOK
  <2>. QED BY <1>1, <2>1, <2>2, <2>3, <2>4 DEF JobsTypeOK, Checkpoints
<1>4. GateCounts'
  BY <1>1, GateUnchanged DEF AgentInv, PermitHeld, SlotHeld
<1>5. ASSUME NEW c \in Batches
      PROVE  /\ phase'[c] \in {"config", "stages", "error"} => cur'[c] <= Len(DocumentsOf[c])
             /\ phase'[c] \in {"releasing", "released", "done"} => cur'[c] > Len(DocumentsOf[c])
             /\ phase'[c] = "stages" /\ pos'[c] > 8 => Persisted(Current(c))'
  <2>1. CASE c = b
    BY <1>1, <2>1
  <2>2. CASE c # b
    <3>1. /\ phase'[c] \in {"config", "stages", "error"} => cur'[c] <= Len(DocumentsOf[c])
          /\ phase'[c] \in {"releasing", "released", "done"} => cur'[c] > Len(DocumentsOf[c])
      BY <1>1, <2>2 DEF AgentInv, TasksPlaced
    <3>2. ASSUME phase'[c] = "stages", pos'[c] > 8 PROVE Persisted(Current(c))'
      <4>1. Persisted(Current(c)) /\ Current(c) \in Jobs
        BY <1>1, <2>2, <3>2, TaskTypes DEF AgentInv, TasksPlaced
      <4>2. Current(c)' = Current(c)
        BY <1>1, <2>2 DEF Current
      <4>. QED BY <4>1, <4>2
    <3>. QED BY <3>1, <3>2
  <2>. QED BY <2>1, <2>2
<1>6. TasksPlaced'
  BY <1>5 DEF TasksPlaced
<1>7. DocumentsPlaced'
  <2>1. ASSUME NEW c \in Batches, NEW n \in 1 .. Len(DocumentsOf[c])
        PROVE  /\ phase'[c] = "none" => job'[DocumentsOf[c][n]] = "None"
               /\ phase'[c] \notin {"none", "refused"} => job'[DocumentsOf[c][n]] # "None"
               /\ n < cur'[c] => job'[DocumentsOf[c][n]] \in Settled \union {"Queued"}
    <3>1. CASE c = b
      <4>1. phase'[c] \notin {"none", "refused"} /\ phase[c] \notin {"none", "refused"}
        BY <1>1, <3>1
      <4>2. CASE cur' = cur
        BY <4>1, <4>2
      <4>3. CASE cur' = [cur EXCEPT ![b] = @ + 1] /\ job'[Current(b)] \in Settled \union {"Queued"}
        <5>1. cur'[b] = cur[b] + 1 /\ cur[b] \in Nat
          BY <4>3, TaskTypes
        <5>2. n < cur'[b] => n < cur[b] \/ n = cur[b]
          BY <5>1
        <5>. QED BY <3>1, <4>1, <4>3, <5>2 DEF Current
      <4>. QED BY <4>2, <4>3
    <3>2. CASE c # b
      BY <1>1, <3>2
    <3>. QED BY <3>1, <3>2
  <2>. QED BY <2>1 DEF DocumentsPlaced
<1>. QED BY <1>3, <1>4, <1>6, <1>7 DEF AgentInv

\* The job and checkpoints are as they were.
LEMMA SameDocuments ==
  ASSUME AgentInv, UNCHANGED <<job, checkpoints>>
  PROVE  DocumentsKept
<1>1. job' = job /\ checkpoints' = checkpoints
  OBVIOUS
<1>2. \A i \in Jobs : Persisted(i) => Persisted(i)'
  BY <1>1 DEF Persisted
<1>3. CheckpointsFollowState'
  BY <1>1 DEF AgentInv, CheckpointsFollowState
<1>4. \A c \in Batches : \A n \in 1 .. Len(DocumentsOf[c]) :
         /\ phase[c] = "none" => job'[DocumentsOf[c][n]] = "None"
         /\ phase[c] \notin {"none", "refused"} => job'[DocumentsOf[c][n]] # "None"
         /\ n < cur[c] => job'[DocumentsOf[c][n]] \in Settled \union {"Queued"}
  BY <1>1 DEF AgentInv, DocumentsPlaced
<1>. QED BY <1>1, <1>2, <1>3, <1>4, TaskTypes DEF DocumentsKept

\* run_document_batch looks at the next document.
LEMMA NextDocumentKeeps ==
  ASSUME AgentInv, NEW b \in Batches, NextDocument(b)
  PROVE  AgentInv'
<1>1. /\ UNCHANGED <<job, checkpoints, effects, pos, unhealthy, gate, supervisorVars>>
      /\ phase[b] = "next" /\ cur[b] <= Len(DocumentsOf[b])
  BY DEF NextDocument, documents
<1>2. \/ cur' = cur /\ phase' = [phase EXCEPT ![b] = "config"]
      \/ /\ cur' = [cur EXCEPT ![b] = @ + 1] /\ phase' = [phase EXCEPT ![b] = "next"]
         /\ job'[Current(b)] \in Settled \union {"Queued"}
  BY <1>1, TaskTypes DEF NextDocument, Settled
<1>3. CancelStopsEffects'
  BY <1>1 DEF AgentInv, CancelStopsEffects
<1>4. pos' \in [Batches -> Nat] /\ pos'[b] \in 1 .. 12 /\ unhealthy' \in [Batches -> BOOLEAN]
      /\ effects' \in [Jobs -> SUBSET Effects]
  BY <1>1, TaskTypes
<1>. QED BY <1>1, <1>2, <1>3, <1>4, SameDocuments, NextKeeps

\* run_document_stages does something to a document: an effect, or the next stage.
LEMMA StageEffectKeeps ==
  ASSUME AgentInv, NEW b \in Batches, StageEffect(b)
  PROVE  AgentInv'
<1>. DEFINE d == Current(b)
            e == Pipeline[pos[b]]
<1>1. /\ phase[b] = "stages" /\ e \in Effects /\ StageDone(b)
      /\ effects' = [effects EXCEPT ![d] = @ \union {e}]
      /\ UNCHANGED <<job, checkpoints, unhealthy, gate, supervisorVars>>
  BY DEF StageEffect
<1>2. /\ cur[b] <= Len(DocumentsOf[b]) /\ pos[b] \in 1 .. 12 /\ d \in Jobs
      /\ pos \in [Batches -> Nat] /\ unhealthy' \in [Batches -> BOOLEAN]
  BY <1>1, TaskTypes DEF AgentInv, TasksPlaced
<1>3. pos[b] # 12 /\ (e \in {"store", "publish"} => pos[b] > 8)
  BY <1>1, <1>2, PipelineTyped DEF Effects
<1>4. pos[b] > 8 => Persisted(d)
  BY <1>1 DEF AgentInv, TasksPlaced
<1>5. /\ pos' = [pos EXCEPT ![b] = @ + 1] /\ cur' = cur
      /\ phase' = [phase EXCEPT ![b] = "stages"]
  BY <1>1, <1>3, TaskTypes, PipelineTyped DEF StageDone
<1>6. /\ pos' \in [Batches -> Nat] /\ pos'[b] = pos[b] + 1 /\ pos'[b] \in 1 .. 12
      /\ \A c \in Batches : c # b => pos'[c] = pos[c]
  BY <1>2, <1>3, <1>5
<1>7. effects' \in [Jobs -> SUBSET Effects]
  BY <1>1, TaskTypes
<1>8. CancelStopsEffects'
  <2>1. ASSUME NEW j \in Jobs, effects'[j] \cap {"store", "publish"} # {}
        PROVE  Persisted(j)
    <3>1. CASE j = d /\ e \in {"store", "publish"}
      BY <1>3, <1>4, <3>1
    <3>2. CASE ~ (j = d /\ e \in {"store", "publish"})
      <4>1. effects[j] \cap {"store", "publish"} # {}
        BY <1>1, <2>1, <3>2, TaskTypes
      <4>. QED BY <4>1 DEF AgentInv, CancelStopsEffects, Persisted
    <3>. QED BY <3>1, <3>2
  <2>. QED BY <1>1, <2>1 DEF CancelStopsEffects, Persisted
<1>9. pos'[b] > 8 => Persisted(Current(b))'
  <2>1. pos[b] = 8 => FALSE
    BY <1>1, PipelineTyped DEF Effects
  <2>2. pos'[b] > 8 => pos[b] > 8
    BY <1>2, <1>6, <2>1
  <2>3. Current(b)' = d /\ checkpoints' = checkpoints
    BY <1>1, <1>5 DEF Current
  <2>. QED BY <1>4, <2>2, <2>3 DEF Persisted
<1>. HIDE DEF d, e
<1>10. DocumentsKept
  BY <1>1, SameDocuments
<1>11. phase[b] \in {"next", "config", "stages", "error"} /\ UNCHANGED <<gate, supervisorVars>>
  BY <1>1
<1>. QED BY <1>2, <1>5, <1>6, <1>7, <1>8, <1>9, <1>10, <1>11, NextKeeps

\* Entering a stage leaves the other documents of all batches where they are.
LEMMA EnteredKeeps ==
  ASSUME AgentInv, NEW b \in Batches, NEW s \in JobStates \ {"Queued"},
         cur[b] <= Len(DocumentsOf[b]),
         job[Current(b)] \notin Terminal \union {"None"}, Enter(Current(b), s),
         UNCHANGED effects
  PROVE  /\ DocumentsKept /\ CancelStopsEffects'
         /\ job'[Current(b)] = s
         /\ s = "PersistingCanvas" /\ cur' = cur => Persisted(Current(b))'
<1>. DEFINE d == Current(b)
<1>1. d \in Jobs /\ job[d] \notin Terminal \union {"None"} /\ Enter(d, s)
  BY TaskTypes
<1>2. d = Current(b)
  OBVIOUS
<1>. HIDE DEF d
<1>3. /\ job' \in [Jobs -> JobStates \union {"None"}] /\ checkpoints' \in [Jobs -> Seq(Checkpoints)]
      /\ job'[d] = s
      /\ \A i \in Jobs : Persisted(i) => Persisted(i)'
      /\ s = "PersistingCanvas" => \E n \in DOMAIN checkpoints'[d] :
                                      checkpoints'[d][n].stage = "PersistingCanvas"
      /\ CheckpointsFollowState'
  BY <1>1, EnterKeeps DEF Persisted
<1>4. \A c \in Batches : \A n \in 1 .. Len(DocumentsOf[c]) :
         /\ phase[c] = "none" => job'[DocumentsOf[c][n]] = "None"
         /\ phase[c] \notin {"none", "refused"} => job'[DocumentsOf[c][n]] # "None"
         /\ n < cur[c] => job'[DocumentsOf[c][n]] \in Settled \union {"Queued"}
  BY <1>1, <1>2, EnteredDocuments
<1>5. CancelStopsEffects'
  BY <1>3 DEF AgentInv, CancelStopsEffects, Persisted
<1>6. s = "PersistingCanvas" /\ cur' = cur => Persisted(Current(b))'
  BY <1>2, <1>3 DEF Persisted, Current
<1>. QED BY <1>2, <1>3, <1>4, <1>5, <1>6 DEF DocumentsKept

\* advance_stage: the next stage is entered, or refused because the job was cancelled.
LEMMA AdvanceStageKeeps ==
  ASSUME AgentInv, NEW b \in Batches, AdvanceStage(b)
  PROVE  AgentInv'
<1>. DEFINE d == Current(b)
            e == Pipeline[pos[b]]
<1>1. /\ phase[b] = "stages" /\ e \notin Effects
      /\ UNCHANGED <<effects, unhealthy, gate, supervisorVars>>
      /\ IF CanTransition(job[d], e)
         THEN Enter(d, e) /\ StageDone(b)
         ELSE /\ phase' = [phase EXCEPT ![b] = "error"]
              /\ UNCHANGED <<job, checkpoints, cur, pos>>
  BY DEF AdvanceStage
<1>2. /\ cur[b] <= Len(DocumentsOf[b]) /\ pos[b] \in 1 .. 12 /\ d \in Jobs
      /\ pos \in [Batches -> Nat] /\ unhealthy' \in [Batches -> BOOLEAN]
      /\ effects' \in [Jobs -> SUBSET Effects]
  BY <1>1, TaskTypes DEF AgentInv, TasksPlaced
<1>3. CASE ~ CanTransition(job[d], e)
  <2>1. /\ phase' = [phase EXCEPT ![b] = "error"] /\ pos' = pos /\ cur' = cur
        /\ UNCHANGED <<job, checkpoints>>
    BY <1>1, <1>3
  <2>2. CancelStopsEffects'
    BY <1>1, <2>1 DEF AgentInv, CancelStopsEffects
  <2>. HIDE DEF d, e
  <2>. QED BY <1>1, <1>2, <2>1, <2>2, SameDocuments, NextKeeps
<1>4. CASE CanTransition(job[d], e)
  <2>1. Enter(d, e) /\ StageDone(b) /\ job[d] \notin Terminal \union {"None"}
    BY <1>1, <1>4, TransitionFromLive
  <2>2. e \in JobStates \ {"Queued"}
    BY <1>1, <1>2, PipelineTyped
  <2>3. e = Pipeline[pos[b]] /\ d = Current(b)
    OBVIOUS
  <2>. HIDE DEF d, e
  <2>4. /\ DocumentsKept /\ CancelStopsEffects'
        /\ job'[Current(b)] = e
        /\ e = "PersistingCanvas" /\ cur' = cur => Persisted(Current(b))'
    BY <1>1, <1>2, <2>1, <2>2, <2>3, EnteredKeeps
  <2>5. CASE pos[b] = 12
    <3>1. /\ phase' = [phase EXCEPT ![b] = "next"] /\ pos' = pos
          /\ cur' = [cur EXCEPT ![b] = @ + 1]
      BY <2>1, <2>5, PipelineTyped DEF StageDone
    <3>2. job'[Current(b)] \in Settled \union {"Queued"}
      BY <2>3, <2>4, <2>5, PipelineTyped DEF Settled
    <3>. QED BY <1>1, <1>2, <2>4, <3>1, <3>2, NextKeeps
  <2>6. CASE pos[b] # 12
    <3>1. /\ pos' = [pos EXCEPT ![b] = @ + 1] /\ cur' = cur
          /\ phase' = [phase EXCEPT ![b] = "stages"]
      BY <1>1, <2>1, <2>6, TaskTypes, PipelineTyped DEF StageDone
    <3>2. /\ pos' \in [Batches -> Nat] /\ pos'[b] = pos[b] + 1 /\ pos'[b] \in 1 .. 12
          /\ \A c \in Batches : c # b => pos'[c] = pos[c]
      BY <1>2, <2>6, <3>1
    <3>3. pos'[b] > 8 => Persisted(Current(b))'
      <4>1. CASE pos[b] = 8
        BY <2>3, <2>4, <3>1, <4>1, PipelineTyped
      <4>2. CASE pos[b] > 8
        <5>1. Persisted(Current(b)) /\ Current(b) \in Jobs
          BY <1>1, <1>2, <2>3, <4>2 DEF AgentInv, TasksPlaced
        <5>2. Current(b)' = Current(b)
          BY <3>1 DEF Current
        <5>. QED BY <2>4, <5>1, <5>2 DEF DocumentsKept
      <4>. QED BY <1>2, <3>2, <4>1, <4>2
    <3>. QED BY <1>1, <1>2, <2>4, <3>1, <3>2, <3>3, NextKeeps
  <2>. QED BY <2>5, <2>6
<1>. QED BY <1>3, <1>4

\* The document of an error fails, unless it is at an end or was never begun.
LEMMA RecordErrorKeeps ==
  ASSUME AgentInv, NEW b \in Batches, RecordError(b)
  PROVE  AgentInv'
<1>. DEFINE d == Current(b)
<1>1. /\ phase[b] = "error" /\ unhealthy' = [unhealthy EXCEPT ![b] = TRUE]
      /\ phase' = [phase EXCEPT ![b] = "next"] /\ cur' = [cur EXCEPT ![b] = @ + 1]
      /\ UNCHANGED <<effects, pos, gate, supervisorVars>>
      /\ IF job[d] \notin Terminal /\ CanTransition(job[d], "Failed")
         THEN Enter(d, "Failed")
         ELSE UNCHANGED <<job, checkpoints>>
  BY DEF RecordError
<1>2. /\ cur[b] <= Len(DocumentsOf[b]) /\ d \in Jobs /\ cur[b] \in 1 .. Len(DocumentsOf[b])
      /\ unhealthy' \in [Batches -> BOOLEAN]
      /\ effects' \in [Jobs -> SUBSET Effects] /\ pos' = pos
      /\ pos \in [Batches -> Nat] /\ pos[b] \in 1 .. 12
  BY <1>1, TaskTypes DEF AgentInv, TasksPlaced
<1>3. job[d] \in JobStates
  <2>1. job[d] # "None"
    BY <1>1, <1>2 DEF AgentInv, DocumentsPlaced, Current
  <2>. QED BY <1>2, <2>1, TaskTypes
<1>4. /\ "next" \in {"next", "config", "stages", "error"}
      /\ phase[b] \in {"next", "config", "stages", "error"} /\ cur[b] <= Len(DocumentsOf[b])
      /\ phase' = [phase EXCEPT ![b] = "next"] /\ cur' = [cur EXCEPT ![b] = @ + 1]
      /\ pos' \in [Batches -> Nat] /\ pos'[b] \in 1 .. 12
      /\ \A c \in Batches : c # b => pos'[c] = pos[c]
      /\ unhealthy' \in [Batches -> BOOLEAN] /\ effects' \in [Jobs -> SUBSET Effects]
      /\ UNCHANGED <<gate, supervisorVars>>
  BY <1>1, <1>2
<1>5. CASE job[d] \notin Terminal /\ CanTransition(job[d], "Failed")
  <2>1. Enter(d, "Failed") /\ job[d] \notin Terminal \union {"None"}
    BY <1>1, <1>5, TransitionFromLive
  <2>2. "Failed" \in JobStates \ {"Queued"} /\ "Failed" \in Settled
    BY DEF JobStates, Settled, Terminal
  <2>3. d = Current(b)
    OBVIOUS
  <2>. HIDE DEF d
  <2>4. /\ DocumentsKept /\ CancelStopsEffects'
        /\ job'[Current(b)] = "Failed"
    BY <1>1, <1>2, <2>1, <2>2, <2>3, EnteredKeeps
  <2>5. job'[Current(b)] \in Settled \union {"Queued"}
    BY <2>2, <2>4
  <2>. QED BY <1>4, <2>4, <2>5, NextKeeps
<1>6. CASE ~ (job[d] \notin Terminal /\ CanTransition(job[d], "Failed"))
  <2>1. UNCHANGED <<job, checkpoints>>
    BY <1>1, <1>6
  <2>2. job'[Current(b)] \in Settled \union {"Queued"}
    BY <1>3, <1>6, <2>1, CannotFail
  <2>3. CancelStopsEffects'
    BY <1>1, <2>1 DEF AgentInv, CancelStopsEffects
  <2>. HIDE DEF d
  <2>4. DocumentsKept
    BY <2>1, SameDocuments
  <2>. QED BY <1>4, <2>2, <2>3, <2>4, NextKeeps
<1>. QED BY <1>5, <1>6

\* The batch's report leaves its task to give the permit back.
LEMMA ReportKeeps ==
  ASSUME AgentInv, NEW b \in Batches, Report(b)
  PROVE  AgentInv'
<1>1. /\ phase[b] = "next" /\ cur[b] > Len(DocumentsOf[b])
      /\ phase' = [phase EXCEPT ![b] = "releasing"]
      /\ UNCHANGED <<documents, cur, pos, unhealthy, permits, line, admitted>>
      /\ \/ ObserveHealthy(AgentWorker, 1)
         \/ ObserveFailed(AgentWorker, "Crash")
         \/ UNCHANGED supervisorVars
  BY DEF Report, task, gate
<1>2. SupervisorTypeOK /\ AgentWorker \in Workers /\ "Crash" \in Reasons
  BY BatchesTyped DEF AgentInv, JobsTypeOK, Reasons
<1>3. SupervisorTypeOK'
  <2>1. CASE ObserveHealthy(AgentWorker, 1)
    BY <1>2, <2>1, HealthyKeepsTypes
  <2>2. CASE ObserveFailed(AgentWorker, "Crash")
    BY <1>2, <2>2, FailureKeepsTypes
  <2>3. CASE UNCHANGED supervisorVars
    BY <1>2, <2>3, SameSupervisor
  <2>. QED BY <1>1, <2>1, <2>2, <2>3
<1>4. GateCounts'
  BY <1>1, TaskTypes, GateUnchanged DEF AgentInv, PermitHeld, SlotHeld
<1>5. /\ permits' \in 0 .. Quota /\ admitted' \in 0 .. Quota /\ line' \in Seq(Batches)
      /\ unhealthy' \in [Batches -> BOOLEAN] /\ pos' \in [Batches -> Nat] /\ pos'[b] \in 1 .. 12
      /\ \A c \in Batches : c # b => pos'[c] = pos[c]
  BY <1>1, TaskTypes
<1>6. "releasing" \in Phases /\ UNCHANGED <<documents, cur>>
  BY <1>1 DEF Phases
<1>. QED BY <1>1, <1>3, <1>4, <1>5, <1>6, TaskMovesKeeps

-----------------------------------------------------------------------------
(* The invariant, and what it means *)

LEMMA AgentNextInv == AgentInv /\ [JobsNext]_jobsVars => AgentInv'
<1>. SUFFICES ASSUME AgentInv, [JobsNext]_jobsVars PROVE AgentInv'
  OBVIOUS
<1>1. ASSUME NEW b \in Batches, QueueBatch(b) PROVE AgentInv'
  BY <1>1, CreatingKeeps
<1>2. ASSUME NEW b \in Batches, NEW n \in 0 .. Len(DocumentsOf[b]) - 1, RefuseBatch(b, n)
      PROVE  AgentInv'
  BY <1>2, CreatingKeeps
<1>3. ASSUME NEW b \in Batches, AskPermit(b) \/ TakePermit(b) \/ ReserveSlot(b) \/ DropPermit(b)
      PROVE  AgentInv'
  BY <1>3, GateKeeps
<1>4. ASSUME NEW b \in Batches, NextDocument(b) PROVE AgentInv'
  BY <1>4, NextDocumentKeeps
<1>5. ASSUME NEW b \in Batches, ResolveConfig(b) \/ WorkFails(b) PROVE AgentInv'
  BY <1>5, StartingKeeps
<1>6. ASSUME NEW b \in Batches, StageEffect(b) PROVE AgentInv'
  BY <1>6, StageEffectKeeps
<1>7. ASSUME NEW b \in Batches, AdvanceStage(b) PROVE AgentInv'
  BY <1>7, AdvanceStageKeeps
<1>8. ASSUME NEW b \in Batches, RecordError(b) PROVE AgentInv'
  BY <1>8, RecordErrorKeeps
<1>9. ASSUME NEW b \in Batches, Report(b) PROVE AgentInv'
  BY <1>9, ReportKeeps
<1>10. ASSUME NEW j \in Jobs, CancelJob(j) PROVE AgentInv'
  BY <1>10, UserSettlesKeeps DEF CancelJob, Terminal
<1>11. ASSUME NEW j \in Jobs, NEW accept \in BOOLEAN, ReviewPatch(j, accept) PROVE AgentInv'
  <2>1. Verdict(accept) \in Terminal /\ "AwaitingReview" \notin Terminal \union {"None"}
    BY DEF Verdict, Terminal
  <2>. QED BY <1>11, <2>1, UserSettlesKeeps DEF ReviewPatch
<1>12. ASSUME StopWorker PROVE AgentInv'
  BY <1>12, StoppingKeeps
<1>13. ASSUME UNCHANGED jobsVars PROVE AgentInv'
  <2>1. /\ UNCHANGED <<job, checkpoints, effects, phase, cur, pos, unhealthy, permits, line, admitted>>
        /\ UNCHANGED supervisorVars
    BY <1>13 DEF jobsVars, documents, task, gate
  <2>2. JobsTypeOK'
    BY <2>1, SameSupervisor DEF AgentInv, JobsTypeOK
  <2>3. GateCounts'
    BY <2>1, GateUnchanged DEF AgentInv
  <2>. QED BY <2>1, <2>2, <2>3 DEF AgentInv, TasksPlaced, DocumentsPlaced, Persisted, Current,
                                   CheckpointsFollowState, CancelStopsEffects
<1>. QED BY <1>1, <1>2, <1>3, <1>4, <1>5, <1>6, <1>7, <1>8, <1>9, <1>10, <1>11, <1>12, <1>13
         DEF JobsNext, BatchStep

\* Every reachable state of the import has its permits and slots where its tasks are, and
\* its documents and checkpoints where the tasks left them.
THEOREM AgentStaysInv == JobsSpec => []AgentInv
BY AgentInitInv, AgentNextInv, PTL DEF JobsSpec

\* AgentJobGate never panics a task, whatever the number of batches and the quota, and no
\* batch ends with a job left in the middle of its pipeline.
THEOREM JobsStaySound == JobsSpec => []JobsSound
<1>1. AgentInv => JobsSound
  <2>. SUFFICES ASSUME AgentInv PROVE JobsSound
    OBVIOUS
  <2>1. GateNeverPanics
    BY SlotForPermit DEF AgentInv, GateNeverPanics
  <2>2. ASSUME NEW b \in Batches, phase[b] \in {"releasing", "released", "done"},
               NEW n \in DOMAIN DocumentsOf[b]
        PROVE  job[DocumentsOf[b][n]] \in Settled \union {"Queued"}
    <3>1. n \in 1 .. Len(DocumentsOf[b]) /\ Len(DocumentsOf[b]) \in Nat
      BY BatchesTyped
    <3>2. cur[b] > Len(DocumentsOf[b]) /\ cur[b] \in Nat
      BY <2>2, TaskTypes DEF AgentInv, TasksPlaced
    <3>3. n < cur[b]
      BY <3>1, <3>2
    <3>. QED BY <3>1, <3>3 DEF AgentInv, DocumentsPlaced
  <2>. QED BY <2>1, <2>2 DEF AgentInv, JobsSound, NoJobLeftHalfway
<1>. QED BY <1>1, AgentStaysInv, PTL

\* The checkpoints of a job tell the truth about it, whoever of the task, a cancel, a
\* review and a failure moved it and however they interleaved.
THEOREM CheckpointsStayTrue == JobsSpec => []CheckpointsFollowState
<1>1. AgentInv => CheckpointsFollowState
  BY DEF AgentInv
<1>. QED BY <1>1, AgentStaysInv, PTL

\* No canvas is stored and no event published for a job cancelled before PersistingCanvas.
THEOREM CancelsStopEffects == JobsSpec => []CancelStopsEffects
<1>1. AgentInv => CancelStopsEffects
  BY DEF AgentInv
<1>. QED BY <1>1, AgentStaysInv, PTL

\* Entering a stage changes one job, and not one that is at its end.
LEMMA EnterSparesTheSettled ==
  ASSUME AgentInv, NEW i \in Jobs, NEW s, job[i] \notin Terminal, Enter(i, s),
         NEW j \in Jobs, job[j] \in Terminal
  PROVE  job'[j] = job[j] /\ checkpoints'[j] = checkpoints[j]
<1>1. i # j
  OBVIOUS
<1>. QED BY <1>1, TaskTypes DEF Enter

\* A job that is Accepted, Rejected, Cancelled or Failed stays so, with the history it has.
THEOREM SettledJobsStay == JobsSpec => SettledForGood
<1>1. ASSUME AgentInv, [JobsNext]_jobsVars, NEW j \in Jobs, job[j] \in Terminal
      PROVE  job'[j] = job[j] /\ checkpoints'[j] = checkpoints[j]
  <2>1. CASE UNCHANGED <<job, checkpoints>>
    BY <2>1
  <2>2. ASSUME NEW i \in Jobs, NEW s, job[i] \notin Terminal, Enter(i, s)
        PROVE  job'[j] = job[j] /\ checkpoints'[j] = checkpoints[j]
    BY <1>1, <2>2, EnterSparesTheSettled
  <2>3. ASSUME NEW b \in Batches, NEW made \in SUBSET (1 .. Len(DocumentsOf[b])), phase[b] = "none",
               job' = [i \in Jobs |-> IF \E n \in made : DocumentsOf[b][n] = i THEN "Queued" ELSE job[i]],
               checkpoints' = checkpoints
        PROVE  job'[j] = job[j] /\ checkpoints'[j] = checkpoints[j]
    <3>1. \A n \in made : job[DocumentsOf[b][n]] = "None"
      BY <1>1, <2>3 DEF AgentInv, DocumentsPlaced
    <3>. QED BY <1>1, <2>3, <3>1 DEF Terminal
  <2>4. ASSUME NEW b \in Batches, QueueBatch(b)
        PROVE  job'[j] = job[j] /\ checkpoints'[j] = checkpoints[j]
    <3>1. DOMAIN DocumentsOf[b] \in SUBSET (1 .. Len(DocumentsOf[b]))
      BY BatchesTyped
    <3>. QED BY <2>3, <2>4, <3>1 DEF QueueBatch
  <2>5. ASSUME NEW b \in Batches, NEW n \in 0 .. Len(DocumentsOf[b]) - 1, RefuseBatch(b, n)
        PROVE  job'[j] = job[j] /\ checkpoints'[j] = checkpoints[j]
    <3>1. 1 .. n \in SUBSET (1 .. Len(DocumentsOf[b]))
      BY BatchesTyped
    <3>. QED BY <2>3, <2>5, <3>1 DEF RefuseBatch
  <2>6. ASSUME NEW b \in Batches, AdvanceStage(b)
        PROVE  job'[j] = job[j] /\ checkpoints'[j] = checkpoints[j]
    <3>1. CASE CanTransition(job[Current(b)], Pipeline[pos[b]])
      <4>1. Current(b) \in Jobs /\ phase[b] = "stages"
        BY <1>1, <2>6, TaskTypes DEF AdvanceStage, AgentInv, TasksPlaced
      <4>2. Enter(Current(b), Pipeline[pos[b]]) /\ job[Current(b)] \notin Terminal
        BY <2>6, <3>1, TransitionFromLive DEF AdvanceStage
      <4>. QED BY <2>2, <4>1, <4>2
    <3>2. CASE ~ CanTransition(job[Current(b)], Pipeline[pos[b]])
      BY <2>1, <2>6, <3>2 DEF AdvanceStage
    <3>. QED BY <3>1, <3>2
  <2>7. ASSUME NEW b \in Batches, RecordError(b)
        PROVE  job'[j] = job[j] /\ checkpoints'[j] = checkpoints[j]
    <3>1. Current(b) \in Jobs
      BY <1>1, <2>7, TaskTypes DEF RecordError, AgentInv, TasksPlaced
    <3>. QED BY <2>1, <2>2, <2>7, <3>1 DEF RecordError
  <2>8. ASSUME NEW i \in Jobs, CancelJob(i) \/ \E accept \in BOOLEAN : ReviewPatch(i, accept)
        PROVE  job'[j] = job[j] /\ checkpoints'[j] = checkpoints[j]
    BY <2>2, <2>8 DEF CancelJob, ReviewPatch, Terminal
  <2>9. ASSUME NEW b \in Batches,
               \/ AskPermit(b) \/ TakePermit(b) \/ ReserveSlot(b) \/ DropPermit(b)
               \/ NextDocument(b) \/ ResolveConfig(b) \/ WorkFails(b) \/ StageEffect(b) \/ Report(b)
        PROVE  job'[j] = job[j] /\ checkpoints'[j] = checkpoints[j]
    BY <2>9 DEF AskPermit, TakePermit, ReserveSlot, DropPermit, NextDocument, ResolveConfig,
                WorkFails, StageEffect, Report, documents
  <2>10. CASE StopWorker \/ UNCHANGED jobsVars
    BY <2>10 DEF StopWorker, documents, jobsVars
  <2>. QED BY <1>1, <2>4, <2>5, <2>6, <2>7, <2>8, <2>9, <2>10 DEF JobsNext, BatchStep
<1>2. AgentInv /\ [JobsNext]_jobsVars =>
         [\A j \in Jobs : job[j] \in Terminal =>
             job'[j] = job[j] /\ checkpoints'[j] = checkpoints[j]]_jobsVars
  BY <1>1
<1>. QED BY <1>2, AgentStaysInv, PTL DEF JobsSpec, SettledForGood

-----------------------------------------------------------------------------
(* The agent host is a worker of the supervisor *)

\* What the batches report, and the stop of the agent host, are steps of Supervisor in
\* every behaviour of the import: no batch moves the worker outside its lifecycle.  A
\* report counts one healthy tick, so that has to be one of the ticks observed.
THEOREM ReportsFollowSupervisor ==
  ASSUME 1 \in HealthyTicks PROVE JobsSpec => [][SupervisorNext]_supervisorVars
<1>1. [JobsNext]_jobsVars => [SupervisorNext]_supervisorVars
  <2>. SUFFICES ASSUME [JobsNext]_jobsVars PROVE [SupervisorNext]_supervisorVars
    OBVIOUS
  <2>0. AgentWorker \in Workers /\ "Crash" \in Reasons
    BY JobsAssumption DEF Reasons
  <2>1. ASSUME NEW b \in Batches, Report(b) PROVE [SupervisorNext]_supervisorVars
    <3>1. \/ ObserveHealthy(AgentWorker, 1) \/ ObserveFailed(AgentWorker, "Crash")
          \/ UNCHANGED supervisorVars
      BY <2>1 DEF Report
    <3>. QED BY <2>0, <3>1 DEF SupervisorNext
  <2>2. ASSUME StopWorker PROVE SupervisorNext
    BY <2>0, <2>2 DEF StopWorker, SupervisorNext
  <2>3. ASSUME NEW b \in Batches,
               \/ AskPermit(b) \/ TakePermit(b) \/ ReserveSlot(b) \/ DropPermit(b)
               \/ NextDocument(b) \/ ResolveConfig(b) \/ WorkFails(b)
               \/ StageEffect(b) \/ AdvanceStage(b) \/ RecordError(b)
        PROVE  UNCHANGED supervisorVars
    BY <2>3 DEF AskPermit, TakePermit, ReserveSlot, DropPermit, NextDocument, ResolveConfig,
                WorkFails, StageEffect, AdvanceStage, RecordError
  <2>4. ASSUME NEW b \in Batches,
               QueueBatch(b) \/ \E n \in 0 .. Len(DocumentsOf[b]) - 1 : RefuseBatch(b, n)
        PROVE  UNCHANGED supervisorVars
    BY <2>4 DEF QueueBatch, RefuseBatch
  <2>5. ASSUME NEW j \in Jobs, CancelJob(j) \/ \E accept \in BOOLEAN : ReviewPatch(j, accept)
        PROVE  UNCHANGED supervisorVars
    BY <2>5 DEF CancelJob, ReviewPatch
  <2>6. CASE UNCHANGED jobsVars
    BY <2>6 DEF jobsVars
  <2>. QED BY <2>1, <2>2, <2>3, <2>4, <2>5, <2>6 DEF JobsNext, BatchStep
<1>. QED BY <1>1, PTL DEF JobsSpec

\* Whatever the batches report and in whatever order, the agent host is not brought back
\* after its stop was requested, and its restarts stay within the policy.
THEOREM AgentHostStaysSupervised ==
  ASSUME 1 \in HealthyTicks PROVE JobsSpec => []SupervisionSound
<1>1. JobsInit => SupervisorInv
  BY SupervisorAssumption
     DEF JobsInit, SupervisorInv, MachineTypeOK, States, StopIsObeyed, RestartBudgetKept
<1>2. SupervisorInv => SupervisionSound
  BY DEF SupervisorInv, SupervisionSound
<1>3. JobsSpec => []SupervisorInv
  BY <1>1, ReportsFollowSupervisor, SupervisorNextInv, PTL DEF JobsSpec
<1>. QED BY <1>2, <1>3, PTL

-----------------------------------------------------------------------------
(* The calls of a provider *)

\* The requests one attempt may take, and a document's call.
PerAttempt == 1 + MaxRepairs
Longest == Max({3, MaxRetries})

ChatShaped(s) ==
  /\ DOMAIN s = {"at", "kind", "json", "key", "attempt", "repairs", "partial", "sent", "asked", "result", "text"}
  /\ s.attempt \in Nat /\ s.repairs \in Nat /\ s.sent \in Nat

\* Where a chat stands bounds what it sent: whole attempts before this one, and the
\* repairs of this one.
ChatCounted(s) ==
  /\ s.at \in {"call", "repair", "done"} /\ s.sent <= MaxRetries * PerAttempt
  /\ s.at = "call" => s.attempt \in 1 .. MaxRetries /\ s.sent <= (s.attempt - 1) * PerAttempt
  /\ s.at = "repair" => /\ s.json /\ s.attempt \in 1 .. MaxRetries /\ s.repairs \in 1 .. MaxRepairs
                        /\ s.sent <= (s.attempt - 1) * PerAttempt + s.repairs
  /\ s.at # "done" => s.result # "ok"
  /\ s.json /\ s.result = "ok" => Usable(s.text)

DocumentCounted(s) ==
  /\ s.at \in {"idle", "done", "upload", "download", "delete", "post"} /\ s.sent <= Longest
  /\ s.at = "upload" => s.sent = 0
  /\ s.at = "download" => s.sent <= 1
  /\ s.at = "delete" => s.sent <= 2
  /\ s.at = "post" => s.attempt \in 1 .. MaxRetries /\ s.sent <= s.attempt - 1

ChatOK(s) ==
  /\ ChatShaped(s)
  /\ s.kind = "chat" => ChatCounted(s)
  /\ s.kind # "chat" => DocumentCounted(s)
  /\ "upload" \in s.asked /\ s.at \notin {"download", "delete"} => "delete" \in s.asked

LlmInv ==
  /\ DOMAIN chat = Chats /\ \A c \in Chats : ChatOK(chat[c])
  /\ IsFiniteSet(DOMAIN reasoningCache) /\ CacheBounded

LEMMA LlmNumbers ==
  /\ MaxRetries \in Nat \ {0} /\ MaxRepairs \in Nat \ {0} /\ MaxCache \in Nat \ {0}
  /\ PerAttempt \in Nat \ {0} /\ Longest \in Nat /\ 3 <= Longest /\ MaxRetries <= Longest
<1>1. MaxRetries \in Nat \ {0} /\ MaxRepairs \in Nat \ {0} /\ MaxCache \in Nat \ {0}
  BY LlmAssumption
<1>2. PICK x \in {3, MaxRetries} : \A y \in {3, MaxRetries} : x >= y
  <2>1. 3 >= 3 /\ MaxRetries >= MaxRetries /\ (3 >= MaxRetries \/ MaxRetries >= 3)
    BY <1>1
  <2>. QED BY <2>1
<1>3. Longest \in {3, MaxRetries} /\ \A y \in {3, MaxRetries} : Longest >= y
  BY <1>2 DEF Longest, Max
<1>. QED BY <1>1, <1>3 DEF PerAttempt

\* Whole attempts: one more is PerAttempt more, and a later one has sent no less.
LEMMA AttemptsAddUp ==
  ASSUME NEW attempt \in 1 .. MaxRetries
  PROVE  /\ (attempt - 1) * PerAttempt \in Nat /\ attempt * PerAttempt \in Nat
         /\ MaxRetries * PerAttempt \in Nat
         /\ (attempt - 1) * PerAttempt + PerAttempt = attempt * PerAttempt
         /\ attempt * PerAttempt <= MaxRetries * PerAttempt
         /\ PerAttempt = 1 + MaxRepairs
<1>. DEFINE b == PerAttempt
            r == MaxRetries
<1>1. b \in Nat /\ r \in Nat /\ attempt \in Nat /\ 1 <= attempt /\ attempt <= r
  BY LlmNumbers
<1>. HIDE DEF b, r
<1>2. (attempt - 1) * b \in Nat /\ attempt * b \in Nat /\ r * b \in Nat
  BY <1>1
<1>3. (attempt - 1) * b + b = attempt * b
  BY <1>1
<1>4. attempt * b <= r * b
  BY <1>1
<1>. QED BY <1>2, <1>3, <1>4 DEF b, r, PerAttempt

LEMMA RoomForOne ==
  ASSUME NEW s, ChatOK(s), s.kind = "chat", s.at \in {"call", "repair"}
  PROVE  /\ s.attempt \in 1 .. MaxRetries /\ s.sent \in Nat
         /\ s.sent + 1 <= s.attempt * PerAttempt /\ s.sent + 1 <= MaxRetries * PerAttempt
<1>1. ChatCounted(s) /\ s.attempt \in 1 .. MaxRetries /\ s.sent \in Nat
  BY DEF ChatOK, ChatCounted, ChatShaped
<1>. DEFINE before == (s.attempt - 1) * PerAttempt
            upto == s.attempt * PerAttempt
            all == MaxRetries * PerAttempt
<1>2. /\ before \in Nat /\ upto \in Nat /\ all \in Nat /\ before + PerAttempt = upto /\ upto <= all
      /\ PerAttempt = 1 + MaxRepairs /\ MaxRepairs \in Nat \ {0}
  BY <1>1, AttemptsAddUp, LlmNumbers
<1>3. s.sent <= before \/ (s.sent <= before + s.repairs /\ s.repairs \in 1 .. MaxRepairs)
  BY <1>1 DEF ChatCounted
<1>. HIDE DEF before, upto, all
<1>4. s.sent + 1 <= upto /\ s.sent + 1 <= all
  BY <1>1, <1>2, <1>3
<1>. QED BY <1>1, <1>4 DEF upto, all

LEMMA DoneStateOK ==
  ASSUME NEW s, ChatOK(s), s.at \in {"call", "repair", "upload", "post"}, NEW e, ChatShaped(e),
         e.at = "done", e.sent = s.sent + 1, e.kind = s.kind, e.json = s.json, e.asked = s.asked,
         s.kind = "chat" /\ s.json /\ e.result = "ok" => Usable(e.text)
  PROVE  ChatOK(e)
<1>1. CASE s.kind = "chat"
  <2>1. s.at \in {"call", "repair"}
    BY <1>1 DEF ChatOK, ChatCounted
  <2>2. e.sent <= MaxRetries * PerAttempt
    BY <1>1, <2>1, RoomForOne
  <2>3. ChatCounted(e)
    BY <1>1, <2>2 DEF ChatCounted
  <2>. QED BY <1>1, <2>3 DEF ChatOK
<1>2. CASE s.kind # "chat"
  <2>1. DocumentCounted(s) /\ s.sent \in Nat
    BY <1>2 DEF ChatOK, ChatShaped
  <2>2. s.at \in {"upload", "post"}
    BY <2>1 DEF DocumentCounted
  <2>3. e.sent <= Longest
    <3>1. CASE s.at = "upload"
      BY <2>1, <3>1, LlmNumbers DEF DocumentCounted
    <3>2. CASE s.at = "post"
      BY <2>1, <3>2, LlmNumbers DEF DocumentCounted
    <3>. QED BY <2>2, <3>1, <3>2
  <2>4. DocumentCounted(e)
    BY <2>3 DEF DocumentCounted
  <2>. QED BY <1>2, <2>4 DEF ChatOK
<1>. QED BY <1>1, <1>2

LEMMA DoneOK ==
  ASSUME NEW c, ChatOK(chat[c]), NEW result, NEW text,
         chat[c].at \in {"call", "repair", "upload", "post"},
         chat[c].kind = "chat" /\ chat[c].json /\ result = "ok" => Usable(text)
  PROVE  ChatOK(Done(c, result, text))
<1>. DEFINE s == chat[c]
            e == Done(c, result, text)
<1>1. /\ ChatShaped(e) /\ e.at = "done" /\ e.result = result /\ e.text = text /\ e.sent = s.sent + 1
      /\ e.kind = s.kind /\ e.json = s.json /\ e.asked = s.asked
  BY DEF ChatOK, ChatShaped, Done, Ends
<1>. HIDE DEF e, s
<1>2. ChatOK(s) /\ s.at \in {"call", "repair", "upload", "post"}
      /\ (s.kind = "chat" /\ s.json /\ e.result = "ok" => Usable(e.text))
  BY <1>1 DEF s
<1>3. ChatOK(e)
  BY <1>1, <1>2, DoneStateOK
<1>. QED BY <1>3 DEF e

\* A chat goes on with its next attempt.
LEMMA NextChatAttemptOK ==
  ASSUME NEW c, ChatOK(chat[c]), chat[c].kind = "chat", chat[c].at \in {"call", "repair"}, NEW error, error # "ok"
  PROVE  ChatOK(NextAttempt(c, error))
<1>. DEFINE s == chat[c]
            e == NextAttempt(c, error)
<1>1. CASE ~ (s.attempt < MaxRetries)
  <2>1. e = Done(c, error, <<>>)
    BY <1>1 DEF NextAttempt, Done
  <2>. QED BY <2>1, DoneOK
<1>2. CASE s.attempt < MaxRetries
  <2>1. /\ ChatShaped(e) /\ e.at = "call" /\ e.attempt = s.attempt + 1 /\ e.sent = s.sent + 1
        /\ e.kind = "chat" /\ e.result = s.result /\ e.asked = s.asked
    BY <1>2 DEF ChatOK, ChatShaped, NextAttempt, Sends
  <2>2. /\ s.attempt \in 1 .. MaxRetries /\ s.sent \in Nat
        /\ s.sent + 1 <= s.attempt * PerAttempt /\ s.sent + 1 <= MaxRetries * PerAttempt
    BY RoomForOne
  <2>3. s.result # "ok" /\ ("upload" \in s.asked => "delete" \in s.asked)
    BY DEF ChatOK, ChatCounted
  <2>. HIDE DEF e, s
  <2>4. e.attempt - 1 = s.attempt /\ e.attempt \in 1 .. MaxRetries
    BY <1>2, <2>1, <2>2, LlmNumbers
  <2>5. e.sent <= (e.attempt - 1) * PerAttempt /\ e.sent <= MaxRetries * PerAttempt
    BY <2>1, <2>2, <2>4
  <2>6. ChatCounted(e)
    BY <2>1, <2>3, <2>4, <2>5 DEF ChatCounted
  <2>7. ChatOK(e)
    BY <2>1, <2>3, <2>6 DEF ChatOK
  <2>. QED BY <2>7 DEF e
<1>. QED BY <1>1, <1>2

LEMMA OthersKept ==
  ASSUME LlmInv, NEW c \in Chats, NEW e, ChatOK(e), Becomes(c, e)
  PROVE  DOMAIN chat' = Chats /\ \A d \in Chats : ChatOK(chat'[d])
BY DEF LlmInv, Becomes

CacheKept == IsFiniteSet(DOMAIN reasoningCache) /\ CacheBounded

LEMMA CachingKeepsLimit ==
  ASSUME CacheKept, NEW key, NEW reasoning, CacheReasoning(key, reasoning)
  PROVE  CacheKept'
<1>. DEFINE kept == DOMAIN reasoningCache
<1>1. IsFiniteSet(kept) /\ Cardinality(kept) <= MaxCache /\ Cardinality(kept) \in Nat /\ MaxCache \in Nat \ {0}
  BY FS_CardinalityType, LlmNumbers DEF CacheKept, CacheBounded
<1>2. CASE UNCHANGED reasoningCache
  BY <1>2 DEF CacheKept, CacheBounded
<1>3. CASE DOMAIN reasoningCache' = kept \union {key} /\ Cardinality(kept) < MaxCache
  <2>1. IsFiniteSet(kept \union {key}) /\ Cardinality(kept \union {key}) <= Cardinality(kept) + 1
        /\ Cardinality(kept \union {key}) \in Nat
    <3>. HIDE DEF kept
    <3>1. /\ IsFiniteSet(kept \union {key})
          /\ Cardinality(kept \union {key}) = IF key \in kept THEN Cardinality(kept) ELSE Cardinality(kept) + 1
      BY <1>1, FS_AddElement
    <3>2. Cardinality(kept) \in Nat
      BY <1>1, FS_CardinalityType
    <3>. QED BY <3>1, <3>2
  <2>. QED BY <1>1, <1>3, <2>1 DEF CacheKept, CacheBounded
<1>4. ASSUME NEW oldest \in kept, DOMAIN reasoningCache' = (kept \ {oldest}) \union {key}
      PROVE  CacheKept'
  <2>. DEFINE rest == kept \ {oldest}
  <2>1. IsFiniteSet(rest) /\ Cardinality(rest) = Cardinality(kept) - 1
    <3>. HIDE DEF kept
    <3>. QED BY <1>1, FS_RemoveElement
  <2>2. IsFiniteSet(rest \union {key}) /\ Cardinality(rest \union {key}) <= Cardinality(rest) + 1
        /\ Cardinality(rest \union {key}) \in Nat /\ Cardinality(rest) \in Nat
    <3>. HIDE DEF rest
    <3>1. /\ IsFiniteSet(rest \union {key})
          /\ Cardinality(rest \union {key}) = IF key \in rest THEN Cardinality(rest) ELSE Cardinality(rest) + 1
      BY <2>1, FS_AddElement
    <3>2. Cardinality(rest) \in Nat
      BY <2>1, FS_CardinalityType
    <3>. QED BY <3>1, <3>2
  <2>. QED BY <1>1, <1>4, <2>1, <2>2 DEF CacheKept, CacheBounded
<1>. QED BY <1>1, <1>2, <1>3, <1>4 DEF CacheReasoning

LEMMA LlmInitInv == LlmInit => LlmInv
<1>. SUFFICES ASSUME LlmInit PROVE LlmInv
  OBVIOUS
<1>1. ChatOK(NoChat)
  BY LlmNumbers DEF NoChat, ChatOK, ChatShaped, DocumentCounted
<1>2. DOMAIN reasoningCache = {} /\ IsFiniteSet({}) /\ Cardinality({}) = 0
  BY FS_EmptySet DEF LlmInit
<1>. QED BY <1>1, <1>2, LlmNumbers DEF LlmInit, LlmInv, CacheBounded

LEMMA BeginChatOK ==
  ASSUME LlmInv, NEW c \in Chats, NEW json, NEW key, BeginChat(c, json, key)
  PROVE  LlmInv'
<1>. DEFINE begun == [NoChat EXCEPT !.at = "call", !.kind = "chat", !.json = json, !.key = key, !.attempt = 1]
            refused == [begun EXCEPT !.at = "done", !.result = "panic"]
<1>1. 0 * PerAttempt = 0 /\ 1 \in 1 .. MaxRetries /\ MaxRetries * PerAttempt \in Nat
  <2>1. 1 \in 1 .. MaxRetries /\ PerAttempt \in Nat
    BY LlmNumbers
  <2>. QED BY <2>1, AttemptsAddUp
<1>2. ChatOK(begun)
  BY <1>1 DEF NoChat, ChatOK, ChatShaped, ChatCounted
<1>3. ChatOK(refused)
  <2>1. /\ ChatShaped(refused) /\ refused.at = "done" /\ refused.kind = "chat" /\ refused.sent = 0
        /\ refused.result = "panic" /\ refused.asked = {}
    BY DEF NoChat, ChatShaped
  <2>. HIDE DEF refused
  <2>. QED BY <1>1, <2>1 DEF ChatOK, ChatCounted
<1>. HIDE DEF begun, refused
<1>4. Becomes(c, begun) \/ Becomes(c, refused)
  BY DEF BeginChat, begun, refused
<1>5. DOMAIN chat' = Chats /\ \A d \in Chats : ChatOK(chat'[d])
  BY <1>2, <1>3, <1>4, OthersKept
<1>. QED BY <1>5 DEF BeginChat, LlmInv, CacheBounded

LEMMA BeginExtractionOK ==
  ASSUME LlmInv, NEW c \in Chats, NEW kimi, BeginExtraction(c, kimi)
  PROVE  LlmInv'
<1>. DEFINE begun == [NoChat EXCEPT !.at = IF kimi THEN "upload" ELSE "post", !.kind = "document",
                               !.json = TRUE, !.attempt = 1]
<1>1. ChatOK(begun)
  BY LlmNumbers DEF NoChat, ChatOK, ChatShaped, DocumentCounted
<1>. HIDE DEF begun
<1>2. Becomes(c, begun)
  BY DEF BeginExtraction, begun
<1>3. DOMAIN chat' = Chats /\ \A d \in Chats : ChatOK(chat'[d])
  BY <1>1, <1>2, OthersKept
<1>. QED BY <1>3 DEF BeginExtraction, LlmInv, CacheBounded

LEMMA CallWithRetryOK ==
  ASSUME LlmInv, NEW c \in Chats, CallWithRetry(c)
  PROVE  LlmInv'
<1>. DEFINE s == chat[c]
<1>1. PICK answer \in FirstAnswers :
        /\ CacheReasoning(s.key, answer.reasoning)
        /\ Becomes(c,
            CASE ShouldTerminate(answer) -> Done(c, answer.kind, <<>>)
              [] answer \in HttpFailures /\ ~ ShouldTerminate(answer) -> NextAttempt(c, "RetryExhausted")
              [] answer.kind = "NoChoices" -> Done(c, "empty", <<>>)
              [] answer.kind = "choice" /\ ~ s.json -> Done(c, "ok", answer.text)
              [] answer.kind = "choice" /\ s.json ->
                   CASE DetectTruncation(answer) = "complete" -> Done(c, "ok", answer.text)
                     [] DetectTruncation(answer) = "invalid" -> Done(c, "ParseError", <<>>)
                     [] DetectTruncation(answer) = "truncated" ->
                          [Sends(c) EXCEPT !.at = "repair", !.repairs = 1, !.partial = answer.text])
  BY DEF CallWithRetry
<1>2. ChatOK(s) /\ s.at = "call" /\ s.kind = "chat"
  BY DEF LlmInv, CallWithRetry, ChatOK, DocumentCounted
<1>3. answer.kind \in {"HttpError", "ServerError", "ClientError", "ParseError", "NoChoices", "choice"}
      /\ (answer.kind \notin {"NoChoices", "choice"} => answer \in HttpFailures)
  BY DEF FirstAnswers, HttpFailures, Failed, Response
<1>4. ASSUME NEW result, result # "ok" PROVE ChatOK(Done(c, result, <<>>))
  BY <1>2, <1>4, DoneOK
<1>5. ChatOK(NextAttempt(c, "RetryExhausted"))
  BY <1>2, NextChatAttemptOK
<1>6. ASSUME s.json => Usable(answer.text) PROVE ChatOK(Done(c, "ok", answer.text))
  BY <1>2, <1>6, DoneOK
<1>7. DetectTruncation(answer) = "complete" => Usable(answer.text)
  BY DEF DetectTruncation, Usable
<1>8. DetectTruncation(answer) \in {"complete", "invalid", "truncated"}
  BY DEF DetectTruncation
<1>9. ASSUME s.json PROVE ChatOK([Sends(c) EXCEPT !.at = "repair", !.repairs = 1, !.partial = answer.text])
  <2>. DEFINE e == [Sends(c) EXCEPT !.at = "repair", !.repairs = 1, !.partial = answer.text]
  <2>1. /\ ChatShaped(e) /\ e.at = "repair" /\ e.attempt = s.attempt /\ e.repairs = 1 /\ e.sent = s.sent + 1
        /\ e.kind = "chat" /\ e.json = s.json /\ e.result = s.result /\ e.asked = s.asked
    BY <1>2 DEF ChatOK, ChatShaped, Sends
  <2>2. /\ s.attempt \in 1 .. MaxRetries /\ s.sent \in Nat /\ s.sent + 1 <= MaxRetries * PerAttempt
    BY <1>2, RoomForOne
  <2>3. s.sent <= (s.attempt - 1) * PerAttempt /\ s.result # "ok"
        /\ ("upload" \in s.asked => "delete" \in s.asked)
    BY <1>2 DEF ChatOK, ChatCounted
  <2>. HIDE DEF e, s
  <2>4. e.sent <= (e.attempt - 1) * PerAttempt + e.repairs /\ e.repairs \in 1 .. MaxRepairs
    <3>. DEFINE before == (s.attempt - 1) * PerAttempt
    <3>1. before \in Nat /\ s.sent \in Nat /\ s.sent <= before /\ MaxRepairs \in Nat \ {0}
      BY <2>2, <2>3, AttemptsAddUp, LlmNumbers
    <3>2. e.repairs \in 1 .. MaxRepairs
      BY <2>1, <3>1
    <3>. HIDE DEF before
    <3>3. s.sent + 1 <= before + 1
      BY <3>1
    <3>. QED BY <2>1, <3>2, <3>3 DEF before
  <2>5. ChatCounted(e)
    BY <1>9, <2>1, <2>2, <2>3, <2>4 DEF ChatCounted
  <2>6. ChatOK(e)
    BY <2>1, <2>3, <2>5 DEF ChatOK
  <2>. QED BY <2>6 DEF e
<1>10. \E e : ChatOK(e) /\ Becomes(c, e)
  <2>1. CASE ShouldTerminate(answer)
    BY <1>1, <1>4, <2>1 DEF ShouldTerminate
  <2>2. CASE ~ ShouldTerminate(answer) /\ answer \in HttpFailures
    <3>1. answer.kind \notin {"NoChoices", "choice"}
      BY <2>2 DEF HttpFailures, Failed
    <3>2. Becomes(c, NextAttempt(c, "RetryExhausted"))
      BY <1>1, <2>2, <3>1
    <3>. QED BY <1>5, <3>2
  <2>3. CASE answer.kind = "NoChoices"
    <3>1. ~ ShouldTerminate(answer) /\ answer \notin HttpFailures
      BY <2>3 DEF ShouldTerminate, HttpFailures, Failed
    <3>. QED BY <1>1, <1>4, <2>3, <3>1
  <2>4. CASE answer.kind = "choice"
    <3>1. ~ ShouldTerminate(answer) /\ answer \notin HttpFailures /\ answer.kind # "NoChoices"
      BY <2>4 DEF ShouldTerminate, HttpFailures, Failed
    <3>2. CASE ~ s.json
      BY <1>1, <1>6, <2>4, <3>1, <3>2
    <3>3. CASE s.json /\ DetectTruncation(answer) = "complete"
      BY <1>1, <1>6, <1>7, <2>4, <3>1, <3>3
    <3>4. CASE s.json /\ DetectTruncation(answer) = "invalid"
      BY <1>1, <1>4, <2>4, <3>1, <3>4
    <3>5. CASE s.json /\ DetectTruncation(answer) = "truncated"
      BY <1>1, <1>9, <2>4, <3>1, <3>5
    <3>. QED BY <1>8, <3>2, <3>3, <3>4, <3>5
  <2>. QED BY <1>3, <2>1, <2>2, <2>3, <2>4
<1>11. DOMAIN chat' = Chats /\ \A d \in Chats : ChatOK(chat'[d])
  BY <1>10, OthersKept
<1>12. CacheKept'
  BY <1>1, CachingKeepsLimit DEF LlmInv, CacheKept
<1>. QED BY <1>11, <1>12 DEF LlmInv, CacheKept

LEMMA RepairTruncationOK ==
  ASSUME LlmInv, NEW c \in Chats, RepairTruncation(c)
  PROVE  LlmInv'
<1>. DEFINE s == chat[c]
            again == s.repairs < MaxRepairs
            retried == [Sends(c) EXCEPT !.repairs = @ + 1]
            Merged(answer) == MergeTruncatedOutput(s.partial, answer.text)
<1>1. PICK answer \in Continuations :
        Becomes(c,
            CASE ShouldTerminate(answer) -> NextAttempt(c, answer.kind)
              [] answer \in HttpFailures /\ ~ ShouldTerminate(answer) ->
                   IF again THEN retried ELSE NextAttempt(c, "TruncationRepairFailed")
              [] answer.kind = "NoChoices" -> Done(c, "empty", <<>>)
              [] answer.kind = "choice" ->
                   IF MergePanics(s.partial, answer.text) THEN Done(c, "panic", <<>>)
                   ELSE IF Mended(s.partial, answer.text)
                   THEN Done(c, "ok", Merged(answer))
                   ELSE IF again THEN retried ELSE NextAttempt(c, "TruncationRepairFailed"))
  BY DEF RepairTruncation
<1>2. ChatOK(s) /\ s.at = "repair" /\ s.kind = "chat"
  BY DEF LlmInv, RepairTruncation, ChatOK, DocumentCounted
<1>3. answer.kind \in {"HttpError", "ServerError", "ClientError", "ParseError", "NoChoices", "choice"}
      /\ (answer.kind \notin {"NoChoices", "choice"} => answer \in HttpFailures)
  BY DEF Continuations, HttpFailures, Failed, Response
<1>4. ASSUME NEW result, result # "ok"
      PROVE  ChatOK(Done(c, result, <<>>)) /\ ChatOK(NextAttempt(c, result))
  BY <1>2, <1>4, DoneOK, NextChatAttemptOK
<1>5. ASSUME Mended(s.partial, answer.text) PROVE ChatOK(Done(c, "ok", Merged(answer)))
  BY <1>2, <1>5, DoneOK DEF Mended, Usable
<1>6. ASSUME again PROVE ChatOK(retried)
  <2>1. /\ ChatShaped(retried) /\ retried.at = "repair" /\ retried.attempt = s.attempt
        /\ retried.repairs = s.repairs + 1 /\ retried.sent = s.sent + 1
        /\ retried.kind = "chat" /\ retried.json = s.json /\ retried.result = s.result /\ retried.asked = s.asked
    BY <1>2 DEF ChatOK, ChatShaped, Sends
  <2>2. /\ s.attempt \in 1 .. MaxRetries /\ s.sent \in Nat /\ s.sent + 1 <= MaxRetries * PerAttempt
    BY <1>2, RoomForOne
  <2>3. /\ s.sent <= (s.attempt - 1) * PerAttempt + s.repairs /\ s.result # "ok" /\ s.json
        /\ s.repairs \in 1 .. MaxRepairs /\ ("upload" \in s.asked => "delete" \in s.asked)
    BY <1>2 DEF ChatOK, ChatCounted
  <2>4. s.repairs < MaxRepairs
    BY <1>6
  <2>. HIDE DEF retried, s
  <2>5. /\ retried.sent <= (retried.attempt - 1) * PerAttempt + retried.repairs
        /\ retried.repairs \in 1 .. MaxRepairs
    <3>. DEFINE before == (s.attempt - 1) * PerAttempt
    <3>1. before \in Nat /\ s.sent \in Nat /\ MaxRepairs \in Nat \ {0} /\ s.sent <= before + s.repairs
      BY <2>2, <2>3, AttemptsAddUp, LlmNumbers
    <3>2. retried.repairs \in 1 .. MaxRepairs
      BY <2>1, <2>3, <2>4, <3>1
    <3>. HIDE DEF before
    <3>3. s.sent + 1 <= before + (s.repairs + 1)
      BY <2>3, <3>1
    <3>. QED BY <2>1, <3>2, <3>3 DEF before
  <2>6. ChatCounted(retried)
    BY <2>1, <2>2, <2>3, <2>5 DEF ChatCounted
  <2>7. ChatOK(retried)
    BY <2>1, <2>3, <2>6 DEF ChatOK
  <2>. QED BY <2>7
<1>7. \E e : ChatOK(e) /\ Becomes(c, e)
  <2>. HIDE DEF again, retried, Merged, s
  <2>1. CASE ShouldTerminate(answer)
    <3>1. Becomes(c, NextAttempt(c, answer.kind)) /\ answer.kind # "ok"
      BY <1>1, <2>1 DEF ShouldTerminate
    <3>. QED BY <1>4, <3>1
  <2>2. CASE ~ ShouldTerminate(answer) /\ answer \in HttpFailures
    <3>1. answer.kind \notin {"NoChoices", "choice"}
      BY <2>2 DEF HttpFailures, Failed
    <3>2. Becomes(c, IF again THEN retried ELSE NextAttempt(c, "TruncationRepairFailed"))
      BY <1>1, <2>2, <3>1
    <3>. QED BY <1>4, <1>6, <3>2
  <2>3. CASE answer.kind = "NoChoices"
    <3>1. ~ ShouldTerminate(answer) /\ answer \notin HttpFailures
      BY <2>3 DEF ShouldTerminate, HttpFailures, Failed
    <3>2. Becomes(c, Done(c, "empty", <<>>))
      BY <1>1, <2>3, <3>1
    <3>. QED BY <1>4, <3>2
  <2>4. CASE answer.kind = "choice"
    <3>1. ~ ShouldTerminate(answer) /\ answer \notin HttpFailures /\ answer.kind # "NoChoices"
      BY <2>4 DEF ShouldTerminate, HttpFailures, Failed
    <3>2. Becomes(c, IF MergePanics(s.partial, answer.text) THEN Done(c, "panic", <<>>)
                     ELSE IF Mended(s.partial, answer.text)
                     THEN Done(c, "ok", Merged(answer))
                     ELSE IF again THEN retried ELSE NextAttempt(c, "TruncationRepairFailed"))
      BY <1>1, <2>4, <3>1
    <3>. QED BY <1>4, <1>5, <1>6, <3>2
  <2>. QED BY <1>3, <2>1, <2>2, <2>3, <2>4
<1>8. DOMAIN chat' = Chats /\ \A d \in Chats : ChatOK(chat'[d])
  BY <1>7, OthersKept
<1>. QED BY <1>8 DEF LlmInv, RepairTruncation, CacheBounded

\* The four steps of a document's call.
LEMMA UploadOK ==
  ASSUME LlmInv, NEW c \in Chats, UploadKimiFile(c)
  PROVE  LlmInv'
<1>. DEFINE s == chat[c]
            e == [Sends(c) EXCEPT !.at = "download", !.asked = @ \union {"upload"}]
<1>1. ChatOK(s) /\ s.at = "upload" /\ s.kind # "chat" /\ s.sent = 0
  BY DEF LlmInv, UploadKimiFile, ChatOK, ChatCounted, DocumentCounted
<1>2. ASSUME NEW result, result # "ok" PROVE ChatOK(Done(c, result, <<>>))
  BY <1>1, <1>2, DoneOK
<1>3. ChatOK(e)
  <2>1. ChatShaped(e) /\ e.at = "download" /\ e.sent = 1 /\ e.kind # "chat"
    BY <1>1 DEF ChatOK, ChatShaped, Sends
  <2>. HIDE DEF e
  <2>. QED BY <2>1, LlmNumbers DEF ChatOK, DocumentCounted
<1>4. \A answer \in HttpFailures : answer.kind # "ok"
  BY DEF HttpFailures, Failed
<1>. HIDE DEF e
<1>5. \E made : ChatOK(made) /\ Becomes(c, made)
  BY <1>2, <1>3, <1>4 DEF UploadKimiFile, e
<1>6. DOMAIN chat' = Chats /\ \A d \in Chats : ChatOK(chat'[d])
  BY <1>5, OthersKept
<1>. QED BY <1>6 DEF LlmInv, UploadKimiFile, CacheBounded

LEMMA DownloadOK ==
  ASSUME LlmInv, NEW c \in Chats, DownloadKimiFileText(c)
  PROVE  LlmInv'
<1>. DEFINE s == chat[c]
<1>1. ChatOK(s) /\ s.at = "download" /\ s.kind # "chat" /\ s.sent <= 1 /\ s.sent \in Nat
  BY DEF LlmInv, DownloadKimiFileText, ChatOK, ChatShaped, ChatCounted, DocumentCounted
<1>2. PICK result : Becomes(c, AfterDownload(c, result))
  BY DEF DownloadKimiFileText
<1>. DEFINE e == AfterDownload(c, result)
<1>3. ChatShaped(e) /\ e.at = "delete" /\ e.sent = s.sent + 1 /\ e.kind # "chat"
  BY <1>1 DEF ChatOK, ChatShaped, AfterDownload, Sends
<1>. HIDE DEF e
<1>4. ChatOK(e)
  BY <1>1, <1>3, LlmNumbers DEF ChatOK, DocumentCounted
<1>5. DOMAIN chat' = Chats /\ \A d \in Chats : ChatOK(chat'[d])
  BY <1>2, <1>4, OthersKept DEF e
<1>. QED BY <1>5 DEF LlmInv, DownloadKimiFileText, CacheBounded

LEMMA DeleteOK ==
  ASSUME LlmInv, NEW c \in Chats, DeleteKimiFile(c)
  PROVE  LlmInv'
<1>. DEFINE s == chat[c]
            e == [Done(c, s.result, <<>>) EXCEPT !.asked = @ \union {"delete"}]
<1>1. ChatOK(s) /\ s.at = "delete" /\ s.kind # "chat" /\ s.sent <= 2 /\ s.sent \in Nat
  BY DEF LlmInv, DeleteKimiFile, ChatOK, ChatShaped, ChatCounted, DocumentCounted
<1>2. ChatShaped(e) /\ e.at = "done" /\ e.sent = s.sent + 1 /\ e.kind # "chat" /\ "delete" \in e.asked
  BY <1>1 DEF ChatOK, ChatShaped, Done, Ends
<1>. HIDE DEF e
<1>3. ChatOK(e)
  BY <1>1, <1>2, LlmNumbers DEF ChatOK, DocumentCounted
<1>4. Becomes(c, e)
  BY DEF DeleteKimiFile, e
<1>5. DOMAIN chat' = Chats /\ \A d \in Chats : ChatOK(chat'[d])
  BY <1>3, <1>4, OthersKept
<1>. QED BY <1>5 DEF LlmInv, DeleteKimiFile, CacheBounded

LEMMA PostOK ==
  ASSUME LlmInv, NEW c \in Chats, PostJsonWithRetry(c)
  PROVE  LlmInv'
<1>. DEFINE s == chat[c]
            Again(answer) == [NextAttempt(c, answer.kind) EXCEPT !.at = IF @ = "call" THEN "post" ELSE @]
<1>1. PICK answer \in FirstAnswers :
       Becomes(c,
         CASE ShouldTerminate(answer) \/ answer.kind = "NoChoices" -> Done(c, "ParseError", <<>>)
           [] answer \in HttpFailures /\ ~ ShouldTerminate(answer) -> Again(answer)
           [] answer.kind = "choice" -> Done(c, "ok", ModelText(answer.text)))
  BY DEF PostJsonWithRetry
<1>2. ChatOK(s) /\ s.at = "post" /\ s.kind # "chat" /\ DocumentCounted(s) /\ s.sent \in Nat
  BY DEF LlmInv, PostJsonWithRetry, ChatOK, ChatShaped, ChatCounted
<1>3. answer.kind \in {"HttpError", "ServerError", "ClientError", "ParseError", "NoChoices", "choice"}
      /\ (answer.kind \notin {"NoChoices", "choice"} => answer \in HttpFailures)
  BY DEF FirstAnswers, HttpFailures, Failed, Response
<1>4. ASSUME NEW result, NEW text PROVE ChatOK(Done(c, result, text))
  BY <1>2, DoneOK
<1>5. ChatOK(Again(answer))
  <2>. DEFINE e == Again(answer)
  <2>1. CASE ~ (s.attempt < MaxRetries)
    <3>1. NextAttempt(c, answer.kind) = Done(c, answer.kind, <<>>)
      BY <2>1 DEF NextAttempt, Done
    <3>. DEFINE d == Done(c, answer.kind, <<>>)
    <3>2. ChatOK(d) /\ d.at = "done" /\ d.kind # "chat" /\ ChatShaped(d)
      BY <1>2, <1>4 DEF ChatOK, ChatShaped, Done, Ends
    <3>3. e = [d EXCEPT !.at = IF @ = "call" THEN "post" ELSE @]
      BY <3>1
    <3>. HIDE DEF d, e
    <3>4. /\ ChatShaped(e) /\ e.at = "done" /\ e.sent = d.sent /\ e.kind = d.kind /\ e.asked = d.asked
      BY <3>2, <3>3 DEF ChatShaped
    <3>5. ChatOK(e)
      BY <3>2, <3>4 DEF ChatOK, DocumentCounted
    <3>. QED BY <3>5 DEF e
  <2>2. CASE s.attempt < MaxRetries
    <3>1. /\ ChatShaped(e) /\ e.at = "post" /\ e.sent = s.sent + 1 /\ e.attempt = s.attempt + 1
          /\ e.kind # "chat" /\ e.asked = s.asked
      BY <1>2, <2>2 DEF ChatOK, ChatShaped, NextAttempt, Sends
    <3>. HIDE DEF e
    <3>2. e.attempt \in 1 .. MaxRetries /\ e.sent <= e.attempt - 1 /\ e.sent <= Longest
      BY <1>2, <2>2, <3>1, LlmNumbers DEF DocumentCounted
    <3>3. "upload" \in s.asked => "delete" \in s.asked
      BY <1>2 DEF ChatOK
    <3>. QED BY <3>1, <3>2, <3>3 DEF ChatOK, DocumentCounted, e
  <2>. QED BY <2>1, <2>2
<1>6. \E e : ChatOK(e) /\ Becomes(c, e)
  <2>. HIDE DEF Again
  <2>1. CASE ShouldTerminate(answer) \/ answer.kind = "NoChoices"
    <3>0. answer.kind # "choice" /\ ~ (answer \in HttpFailures /\ ~ ShouldTerminate(answer))
      BY <2>1 DEF ShouldTerminate, HttpFailures, Failed
    <3>1. Becomes(c, Done(c, "ParseError", <<>>))
      BY <1>1, <2>1, <3>0
    <3>. QED BY <1>4, <3>1
  <2>2. CASE ~ ShouldTerminate(answer) /\ answer \in HttpFailures
    <3>1. answer.kind \notin {"NoChoices", "choice"}
      BY <2>2 DEF HttpFailures, Failed
    <3>2. Becomes(c, Again(answer))
      BY <1>1, <2>2, <3>1
    <3>. QED BY <1>5, <3>2
  <2>3. CASE answer.kind = "choice"
    <3>1. ~ ShouldTerminate(answer) /\ answer \notin HttpFailures /\ answer.kind # "NoChoices"
      BY <2>3 DEF ShouldTerminate, HttpFailures, Failed
    <3>2. Becomes(c, Done(c, "ok", ModelText(answer.text)))
      BY <1>1, <2>3, <3>1
    <3>. QED BY <1>4, <3>2
  <2>. QED BY <1>3, <2>1, <2>2, <2>3
<1>7. DOMAIN chat' = Chats /\ \A d \in Chats : ChatOK(chat'[d])
  BY <1>6, OthersKept
<1>. QED BY <1>7 DEF LlmInv, PostJsonWithRetry, CacheBounded

LEMMA LlmInvSound == LlmInv => LlmSound
<1>. SUFFICES ASSUME LlmInv PROVE LlmSound
  OBVIOUS
<1>1. \A c \in Chats : ChatOK(chat[c])
  BY DEF LlmInv
<1>2. JsonIsUsable
  BY <1>1 DEF JsonIsUsable, ChatOK, ChatCounted
<1>3. RequestsBounded
  <2>1. ASSUME NEW c \in Chats, chat[c].kind = "chat" PROVE chat[c].sent <= MaxRetries * (1 + MaxRepairs)
    BY <1>1, <2>1 DEF ChatOK, ChatCounted, PerAttempt
  <2>2. ASSUME NEW c \in Chats, chat[c].kind # "chat" PROVE chat[c].sent <= Max({3, MaxRetries})
    BY <1>1, <2>2 DEF ChatOK, DocumentCounted, Longest
  <2>. QED BY <2>1, <2>2 DEF RequestsBounded
<1>4. UploadsAreDeleted
  BY <1>1 DEF UploadsAreDeleted, ChatOK
<1>. QED BY <1>2, <1>3, <1>4 DEF LlmSound, LlmInv

\* The calls of a provider, whatever it answers: every attempt and every repair is counted
\* where the call stands, so that none sends more than its attempts and their repairs; an
\* answer is JSON when JSON was asked for, an upload is deleted, and the cache is bounded.
THEOREM CallsStaySound == LlmSpec => []LlmSound
<1>1. LlmInv /\ [LlmNext]_llmVars => LlmInv'
  <2>1. LlmInv /\ UNCHANGED llmVars => LlmInv'
    BY DEF llmVars, LlmInv, CacheBounded
  <2>. QED BY <2>1, BeginChatOK, CallWithRetryOK, RepairTruncationOK, BeginExtractionOK, UploadOK,
              DownloadOK, DeleteOK, PostOK DEF LlmNext
<1>. QED BY <1>1, LlmInitInv, LlmInvSound, PTL DEF LlmSpec

-----------------------------------------------------------------------------
(* The registry of the providers *)

ProvidersInv ==
  /\ apiKeys = entered /\ DOMAIN entered = Providers
  /\ installed \subseteq Providers /\ providers \subseteq Providers
  /\ ClientsUseOwnKeys

\* Whatever is installed, entered, cleared or written over in the shared key file, and
\* whenever the host starts again: a client carries the key entered for its own provider.
THEOREM ClientsKeepOwnKeys == ProvidersSpec => []ClientsUseOwnKeys
<1>1. ProvidersInit => ProvidersInv
  BY DEF ProvidersInit, ProvidersInv, ClientsUseOwnKeys, Unset
<1>2. ProvidersInv /\ [ProvidersNext]_providerVars => ProvidersInv'
  <2>. SUFFICES ASSUME ProvidersInv, [ProvidersNext]_providerVars PROVE ProvidersInv'
    OBVIOUS
  <2>. USE DEF ProvidersInv, ClientsUseOwnKeys
  <2>1. CASE UNCHANGED providerVars
    BY <2>1 DEF providerVars
  <2>2. CASE InstallOrRemove \/ ListProviders \/ WriteKeyFile
    BY <2>2 DEF InstallOrRemove, ListProviders, WriteKeyFile, NotBuilt, ActiveAmong
  <2>3. CASE BuildClient
    BY <2>3 DEF BuildClient, NoClient
  <2>4. CASE RestartHost
    BY <2>4 DEF RestartHost, NotBuilt, Unset
  <2>5. ASSUME NEW p \in Providers, SetActive(p) \/ ClearApiKey(p) PROVE ProvidersInv'
    BY <2>5 DEF SetActive, ClearApiKey, NotBuilt
  <2>6. ASSUME NEW p \in Providers, NEW apiKey \in ApiKeys, SetApiKey(p, apiKey) PROVE ProvidersInv'
    BY <2>6 DEF SetApiKey, NotBuilt
  <2>. QED BY <2>1, <2>2, <2>3, <2>4, <2>5, <2>6 DEF ProvidersNext
<1>. QED BY <1>1, <1>2, PTL DEF ProvidersSpec, ProvidersInv

\* A provider's calls and its keys together, for any chats, documents, limits and providers.
THEOREM ProviderCallsStaySound == ProviderCallsSpec => []ProviderCallsSound
<1>. QED BY CallsStaySound, ClientsKeepOwnKeys, PTL DEF ProviderCallsSpec, ProviderCallsSound
=============================================================================
