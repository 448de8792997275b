-------------------------- MODULE WorkerSupervisor --------------------------
(***************************************************************************)
(* The supervisor of kernel workers (kernel/supervisor.rs) and the         *)
(* lifecycle machine of each (kernel/lifecycle.rs).  The supervisor runs   *)
(* nothing: it is told to start or stop a worker and what an adapter       *)
(* observed, and answers with the action the adapter should take.  Every   *)
(* operation runs under the supervisor lock, so it is one action.          *)
(*                                                                         *)
(* An adapter reports when it likes: an observation may be late, repeated, *)
(* or about a process that is long gone.                                   *)
(***************************************************************************)
EXTENDS Naturals

CONSTANTS Workers,
          MaxRestarts, InitialTicks, MaxTicks,   \* RestartPolicy
          Triggers,            \* failure reasons the policy restarts after
          StableTicks,         \* reset_after_stable_ticks
          OnExhausted,         \* "Failed" or "Quarantined"
          Width,               \* bits of a tick count (64 in the code)
          HealthyTicks         \* ticks one health observation reports

Reasons == {"Crash", "StartupTimeout", "HeartbeatTimeout", "ProtocolViolation",
            "ResourceExhausted", "ShutdownTimeout", "Requested"}

ASSUME SupervisorAssumption ==
    /\ {MaxRestarts, InitialTicks, MaxTicks} \subseteq Nat
    /\ {StableTicks, Width} \subseteq Nat \ {0}
    /\ HealthyTicks \subseteq Nat
    /\ Triggers \subseteq Reasons \ {"ShutdownTimeout", "Requested"}
    /\ OnExhausted \in {"Failed", "Quarantined"}

\* Arithmetic that the provers do not know; it constrains no constant.
ASSUME PowersAreNumbers == \A k \in 0 .. Width : 2^k \in Nat \ {0} /\ 2^(k + 1) = 2 * 2^k

States == {"Unregistered", "Declared", "Starting", "Ready", "Draining", "Stopped",
           "Restarting", "Failed", "Quarantined"}

VARIABLES state,       \* lifecycle state of each worker
          attempts,    \* restart_attempts
          stable,      \* stable_ticks
          wanted,      \* history: the last accepted request was a start
          restarts,    \* history: Restart actions since the budget was reset
          delay        \* history: delay of the last of them, 0 if none

machine == <<state, attempts, stable>>
observed == <<wanted, restarts, delay>>
supervisorVars == <<machine, observed>>

SupervisorTypeOK ==
    /\ state \in [Workers -> States]
    /\ stable \in [Workers -> 0 .. StableTicks - 1]
    /\ wanted \in [Workers -> BOOLEAN]
    /\ {attempts, restarts, delay} \subseteq [Workers -> Nat]

SupervisorInit ==
    /\ state = [w \in Workers |-> "Unregistered"]
    /\ wanted = [w \in Workers |-> FALSE]
    /\ attempts = [w \in Workers |-> 0]
    /\ stable = [w \in Workers |-> 0]
    /\ restarts = [w \in Workers |-> 0]
    /\ delay = [w \in Workers |-> 0]
-----------------------------------------------------------------------------
\* LifecycleMachine::apply for the events that change nothing but the state.
Edges ==
    {<<"Declared", "StartRequested", "Starting">>,
     <<"Stopped", "StartRequested", "Starting">>,
     <<"Starting", "StartSucceeded", "Ready">>,
     <<"Declared", "StopRequested", "Stopped">>,
     <<"Starting", "StopRequested", "Draining">>,
     <<"Ready", "StopRequested", "Draining">>,
     <<"Restarting", "StopRequested", "Draining">>,
     <<"Failed", "StopRequested", "Draining">>,
     <<"Draining", "StopSucceeded", "Stopped">>,
     <<"Restarting", "RetryTimerElapsed", "Starting">>}

\* Mutant: a retry timer that fires after a stop request is accepted.
TakesRetry(w, event) ==
    \/ \E edge \in Edges : /\ edge[1] = state[w] /\ edge[2] = event
                           /\ state' = [state EXCEPT ![w] = edge[3]]
    \/ /\ state[w] = "Draining" /\ event = "RetryTimerElapsed"
       /\ state' = [state EXCEPT ![w] = "Starting"]

\* The event is valid in the worker's state (else InvalidTransition).
Takes(w, event) ==
    \E edge \in Edges : /\ edge[1] = state[w]
                        /\ edge[2] = event
                        /\ state' = [state EXCEPT ![w] = edge[3]]

\* Mutant: the exponential delay is shifted without a limit.
DelayUnlimited(attempt) ==
    LET shifted == (InitialTicks * 2^(attempt - 1)) % 2^Width
    IN  IF shifted < MaxTicks THEN shifted ELSE MaxTicks

\* BackoffPolicy::delay_for: the shift is at most Width - 1, but the bits that
\* leave the word are lost.
DelayFor(attempt) ==
    LET shift   == IF attempt - 1 < Width - 1 THEN attempt - 1 ELSE Width - 1
        shifted == (InitialTicks * 2^shift) % 2^Width
    IN  IF shifted < MaxTicks THEN shifted ELSE MaxTicks

\* Supervisor::register; the lifecycle of every registered worker wants it running.
Register(w) ==
    /\ state[w] = "Unregistered"
    /\ state' = [state EXCEPT ![w] = "Declared"]
    /\ UNCHANGED <<attempts, stable, observed>>

\* Supervisor::start.
Start(w) ==
    /\ Takes(w, "StartRequested")
    /\ wanted' = [wanted EXCEPT ![w] = TRUE]
    /\ UNCHANGED <<attempts, stable, restarts, delay>>

\* worker.spawn: register and start under one lock.
Spawn(w) ==
    /\ state[w] = "Unregistered"
    /\ state' = [state EXCEPT ![w] = "Starting"]
    /\ wanted' = [wanted EXCEPT ![w] = TRUE]
    /\ UNCHANGED <<attempts, stable, restarts, delay>>

\* Supervisor::request_stop (worker.stop).
RequestStop(w) ==
    /\ Takes(w, "StopRequested")
    /\ wanted' = [wanted EXCEPT ![w] = FALSE]
    /\ UNCHANGED <<attempts, stable, restarts, delay>>

\* observe(Started), of whichever incarnation of the process came up.
ObserveStarted(w) ==
    /\ Takes(w, "StartSucceeded")
    /\ UNCHANGED <<attempts, stable, observed>>

\* observe(Stopped).
ObserveStopped(w) ==
    /\ Takes(w, "StopSucceeded")
    /\ UNCHANGED <<attempts, stable, observed>>

\* observe(RetryTimerElapsed): the adapter is told to start again.
ObserveRetryTimer(w) ==
    /\ Takes(w, "RetryTimerElapsed")
    /\ UNCHANGED <<attempts, stable, observed>>

\* Mutant: the budget is given back one tick late.
LongEnoughLate(total) == total > StableTicks

LongEnough(total) == total >= StableTicks

\* observe(Healthy): ignored unless the worker is Ready; enough stable ticks
\* give the restart budget back.
ObserveHealthy(w, ticks) ==
    /\ state[w] = "Ready"
    /\ LET total == stable[w] + ticks  reset == LongEnough(total) IN
       /\ stable' = [stable EXCEPT ![w] = IF reset THEN 0 ELSE total]
       /\ attempts' = [attempts EXCEPT ![w] = IF reset THEN 0 ELSE @]
       /\ restarts' = [restarts EXCEPT ![w] = IF reset THEN 0 ELSE @]
       /\ delay' = [delay EXCEPT ![w] = IF reset THEN 0 ELSE @]
    /\ UNCHANGED <<state, wanted>>

\* Mutant: one restart more than the policy allows.
BudgetLeftOneMore(w) == attempts[w] <= MaxRestarts

BudgetLeft(w) == attempts[w] < MaxRestarts

\* observe(Failed) while the worker should run: restart, give up or report.
RestartAfter(w, reason) ==
    /\ state[w] \in {"Starting", "Ready"}
    /\ reason \in Triggers
    /\ BudgetLeft(w)
    /\ attempts' = [attempts EXCEPT ![w] = @ + 1]
    /\ stable' = [stable EXCEPT ![w] = 0]
    /\ state' = [state EXCEPT ![w] = "Restarting"]
    /\ restarts' = [restarts EXCEPT ![w] = @ + 1]
    /\ delay' = [delay EXCEPT ![w] = DelayFor(attempts[w] + 1)]
    /\ UNCHANGED wanted

GiveUp(w, reason) ==
    /\ state[w] \in {"Starting", "Ready"}
    /\ reason \in Triggers => ~ BudgetLeft(w)
    /\ stable' = [stable EXCEPT ![w] = 0]
    /\ state' = [state EXCEPT ![w] = IF reason \in Triggers THEN OnExhausted ELSE "Failed"]
    /\ UNCHANGED <<attempts, observed>>

\* observe(Failed) while the worker drains.
FailDraining(w, reason) ==
    /\ state[w] = "Draining"
    /\ state' = [state EXCEPT ![w] = "Failed"]
    /\ UNCHANGED <<attempts, stable, observed>>

ObserveFailed(w, reason) ==
    RestartAfter(w, reason) \/ GiveUp(w, reason) \/ FailDraining(w, reason)

SupervisorNext == \E w \in Workers :
    \/ Register(w) \/ Start(w) \/ Spawn(w) \/ RequestStop(w)
    \/ ObserveStarted(w) \/ ObserveStopped(w) \/ ObserveRetryTimer(w)
    \/ \E ticks \in HealthyTicks : ObserveHealthy(w, ticks)
    \/ \E reason \in Reasons : ObserveFailed(w, reason)

SupervisorSpec == SupervisorInit /\ [][SupervisorNext]_supervisorVars
-----------------------------------------------------------------------------
\* A worker is starting, ready or about to restart only while the last request
\* for it was a start: after a stop request no late observation (a retry timer,
\* a start that succeeds, a failure) brings the worker back.
StopIsObeyed ==
    \A w \in Workers : state[w] \in {"Starting", "Ready", "Restarting"} => wanted[w]

\* The Restart actions given since the budget was last reset are the attempts
\* counted, and never more than the policy allows, across stops and starts.
RestartBudgetKept ==
    \A w \in Workers : restarts[w] = attempts[w] /\ restarts[w] <= MaxRestarts

\* The supervisor obeys the last request and its policy, whatever it observes when.
SupervisionSound == StopIsObeyed /\ RestartBudgetKept

\* Within one budget every restart waits at least as long as the one before,
\* also where the doubling reaches the width of the tick counter.
BackoffNeverShrinks ==
    [][\A w \in Workers : restarts'[w] > restarts[w] => delay'[w] >= delay[w]]_supervisorVars
=============================================================================
