----------------------------- MODULE MCLiveness -----------------------------
(* What must eventually happen: the pool's operations return, and document
   batches settle.  With them what is left on disk when calls end halfway: a
   project file and its history, and the calls of a language model.  They share no lock; `focus` says which of them
   this behaviour moves, and each keeps the fairness of its own specification. *)
EXTENDS WorkerSessions, AgentJobs, ProjectHistory, ProviderCalls, TLC

CONSTANTS b1, b2, j1, j3

VARIABLE focus

OneEach == b1 :> <<j1>> @@ b2 :> <<j3>>

\* Two versions that add, remove, change and keep nodes and edges.
MCContents ==
    LET Compared(n) == [compared |-> n, other |-> 1]
    IN {[nodes |-> 1 :> "x" @@ 2 :> "x", edges |-> 11 :> Compared(1) @@ 12 :> Compared(1)],
        [nodes |-> 1 :> "y" @@ 3 :> "x", edges |-> 11 :> Compared(2) @@ 13 :> Compared(1)]}

\* Answers of a language model: two numbers, one a prefix of the other, and a text.
MCDocuments == {<<"{", "1", "}">>, <<"{", "1", "1", "}">>, <<"{", "w1", "w2", "}">>}

livenessVars == <<vars, jobsVars, HistoryVars, llmVars, providerVars, focus>>

FirstConfiguration == CHOOSE f \in Fingerprints : TRUE
FirstKey == CHOOSE k \in Keys : TRUE

\* Threads and plugins differ in name only too, so the first operation may be taken to be
\* that of the first thread, on the first plugin.
FirstComesFirst ==
    operations = 0 =>
       \A t \in Threads : pc'[t] # "idle" => t = (CHOOSE u \in Threads : TRUE) /\ key'[t] = FirstKey

LivenessInit ==
    /\ focus \in {"pool", "jobs", "history", "llm", "providers"}
    /\ SessionsInit
    \* Configurations differ in name only, and what an idle thread did before is forgotten.
    /\ config = [k \in Keys |-> FirstConfiguration]
    /\ launch = [t \in Threads |-> FirstConfiguration]
    /\ key = [t \in Threads |-> FirstKey]
    /\ JobsInit
    /\ HistoryInit
    /\ LlmInit
    /\ ProvidersInit

LivenessNext ==
    /\ focus' = focus
    /\ \/ focus = "pool" /\ SessionsNext /\ FirstComesFirst
       \/ focus # "pool" /\ UNCHANGED vars
    /\ \/ focus = "jobs" /\ JobsNext
       \/ focus # "jobs" /\ UNCHANGED jobsVars
    /\ \/ focus = "history" /\ HistoryNext
       \/ focus # "history" /\ UNCHANGED HistoryVars
    /\ \/ focus = "llm" /\ LlmNext
       \/ focus # "llm" /\ UNCHANGED llmVars
    /\ \/ focus = "providers" /\ ProvidersNext
       \/ focus # "providers" /\ UNCHANGED providerVars

\* FairSessionsSpec and FairJobsSpec, each where it moves.
PoolStep(t) == focus = "pool" /\ HostStep(t) /\ UNCHANGED <<jobsVars, HistoryVars, llmVars, providerVars, focus>>
JobsStep(b) == focus = "jobs" /\ BatchStep(b) /\ UNCHANGED <<vars, HistoryVars, llmVars, providerVars, focus>>

LivenessSpec ==
    /\ LivenessInit /\ [][LivenessNext]_livenessVars
    /\ \A t \in Threads : WF_livenessVars(PoolStep(t))
    /\ \A b \in Batches : WF_livenessVars(JobsStep(b))
=============================================================================
