------------------------------ MODULE AgentJobs ------------------------------
(***************************************************************************)
(* The document import: jobs and their state machine (agent_host.rs), the  *)
(* background task that runs a batch of them, the gate that bounds how     *)
(* many batches run at once (agent_commands.rs over kernel/scheduler.rs)   *)
(* and the report each batch makes to the supervisor, whose module this    *)
(* one extends.                                                            *)
(*                                                                         *)
(* A batch task holds the host lock only while it reads or advances a job, *)
(* so a user's cancel or review falls between any two of its steps.  Jobs  *)
(* live in memory: a restart of the program starts from Init.              *)
(***************************************************************************)
EXTENDS WorkerSupervisor, Sequences, FiniteSets

CONSTANTS Batches,        \* import requests
          Jobs,           \* documents of all of them
          DocumentsOf,    \* the jobs of each batch, in order
          Quota,          \* DEFAULT_PER_PRINCIPAL_QUOTA
          AgentWorker     \* worker.agent-host

ASSUME JobsAssumption ==
    /\ DocumentsOf \in [Batches -> Seq(Jobs)]
    /\ \A b \in Batches : \A n, m \in DOMAIN DocumentsOf[b] :
          DocumentsOf[b][n] = DocumentsOf[b][m] => n = m
    /\ \A b, c \in Batches : \A n \in DOMAIN DocumentsOf[b], m \in DOMAIN DocumentsOf[c] :
          DocumentsOf[b][n] = DocumentsOf[c][m] => b = c
    /\ Quota \in Nat \ {0}
    /\ AgentWorker \in Workers

\* What the pipeline does to a job, in order: the stages it enters, and the
\* effects between them (the file hash recorded, the canvas stored, the event
\* of the finished canvas published).
Effects == {"hash", "store", "publish"}
Pipeline == <<"ValidatingFile", "hash", "ExtractingText", "OcrOptional",
              "BuildingDocumentMap", "ExtractingSemantics", "CompilingGraphIr",
              "PersistingCanvas", "store", "publish", "GeneratingPatch",
              "AwaitingReview">>

Terminal == {"Accepted", "Rejected", "Cancelled", "Failed"}
Settled  == Terminal \union {"AwaitingReview"}
JobStates == {"Queued", "ValidatingFile", "ExtractingText", "OcrOptional",
              "BuildingDocumentMap", "ExtractingSemantics", "CompilingGraphIr",
              "PersistingCanvas", "GeneratingPatch"} \union Settled

Phases == {"none", "refused", "spawned", "waiting", "permitted", "next", "config",
           "stages", "error", "report", "releasing", "released", "done"}

VARIABLES job,         \* state of each job, "None" before it is created
          checkpoints, \* of each job: stage, and whether it is completed
          effects,     \* what the pipeline did for each job
          phase,       \* where each batch's task is
          cur,         \* the document it is at
          pos,         \* its place in the pipeline
          unhealthy,   \* the task saw an error
          permits,     \* free permits of the gate's semaphore
          line,        \* batches waiting for a permit, in order
          admitted     \* the scheduler's count for the agent host

documents == <<job, checkpoints, effects>>
gate == <<permits, line, admitted>>
task == <<cur, pos, unhealthy>>
jobsVars == <<documents, phase, task, gate, supervisorVars>>

JobsTypeOK ==
    /\ job \in [Jobs -> JobStates \union {"None"}]
    /\ checkpoints \in [Jobs -> Seq([stage : JobStates, closed : BOOLEAN])]
    /\ effects \in [Jobs -> SUBSET Effects]
    /\ phase \in [Batches -> Phases]
    /\ {cur, pos} \subseteq [Batches -> Nat]
    /\ \A b \in Batches : /\ cur[b] \in 1 .. Len(DocumentsOf[b]) + 1
                          /\ pos[b] \in 1 .. Len(Pipeline)
    /\ unhealthy \in [Batches -> BOOLEAN]
    /\ permits \in 0 .. Quota
    /\ admitted \in 0 .. Quota
    /\ line \in Seq(Batches)
    /\ SupervisorTypeOK

\* The agent host is registered, started and reported started at startup.
JobsInit ==
    /\ job = [j \in Jobs |-> "None"]
    /\ checkpoints = [j \in Jobs |-> <<>>]
    /\ effects = [j \in Jobs |-> {}]
    /\ phase = [b \in Batches |-> "none"]
    /\ cur = [b \in Batches |-> 1]
    /\ pos = [b \in Batches |-> 1]
    /\ unhealthy = [b \in Batches |-> FALSE]
    /\ permits = Quota
    /\ line = <<>>
    /\ admitted = 0
    /\ state = [w \in Workers |-> "Ready"]
    /\ wanted = [w \in Workers |-> TRUE]
    /\ attempts = [w \in Workers |-> 0]
    /\ stable = [w \in Workers |-> 0]
    /\ restarts = [w \in Workers |-> 0]
    /\ delay = [w \in Workers |-> 0]
-----------------------------------------------------------------------------
\* The host's operations on one job.

\* Mutant: a job may enter any stage from any other.
AnyTransition(from, next) == TRUE

\* JobState::can_transition_to, for the states jobs of a batch reach.
CanTransition(from, next) ==
    LET order == <<"Queued", "ValidatingFile", "ExtractingText", "OcrOptional",
                   "BuildingDocumentMap", "ExtractingSemantics", "CompilingGraphIr",
                   "PersistingCanvas", "GeneratingPatch", "AwaitingReview">>
    IN  \/ \E n \in 1 .. 9 : from = order[n] /\ next = order[n + 1]
        \/ from = "OcrOptional" /\ next = "ExtractingText"
        \/ from \in {order[n] : n \in 2 .. 9} /\ next = "Failed"
        \/ from = "AwaitingReview" /\ next \in {"Accepted", "Rejected"}

\* Mutant: entering a stage leaves the one before open.
LeaveLast(history) == history

CloseLast(history) ==
    IF history = <<>> THEN history ELSE [history EXCEPT ![Len(history)].closed = TRUE]

\* The last checkpoint is completed and one for the new stage is added, which is
\* completed at once when the stage is terminal.
Enter(j, next) ==
    /\ job' = [job EXCEPT ![j] = next]
    /\ checkpoints' = [checkpoints EXCEPT
          ![j] = Append(CloseLast(@), [stage |-> next, closed |-> next \in Terminal])]

\* create_batch: every job is queued; then the task is spawned.
QueueBatch(b) ==
    /\ phase[b] = "none"
    /\ DocumentsOf[b] # <<>>
    /\ job' = [j \in Jobs |-> IF \E n \in DOMAIN DocumentsOf[b] : DocumentsOf[b][n] = j
                              THEN "Queued" ELSE job[j]]
    /\ phase' = [phase EXCEPT ![b] = "spawned"]
    /\ UNCHANGED <<checkpoints, effects, task, gate, supervisorVars>>

\* create_batch meets a blank path after n others: those jobs stay in the host.
RefuseBatch(b, n) ==
    /\ phase[b] = "none"
    /\ job' = [j \in Jobs |-> IF \E m \in 1 .. n : DocumentsOf[b][m] = j
                              THEN "Queued" ELSE job[j]]
    /\ phase' = [phase EXCEPT ![b] = "refused"]
    /\ UNCHANGED <<checkpoints, effects, task, gate, supervisorVars>>

\* cancel_job, from any state that is not terminal.
CancelJob(j) ==
    /\ job[j] \notin Terminal \union {"None"}
    /\ Enter(j, "Cancelled")
    /\ UNCHANGED <<effects, phase, task, gate, supervisorVars>>

\* Mutant: a rejected patch is generated again.
VerdictAgain(accept) == IF accept THEN "Accepted" ELSE "GeneratingPatch"

Verdict(accept) == IF accept THEN "Accepted" ELSE "Rejected"

\* review_patch.
ReviewPatch(j, accept) ==
    /\ job[j] = "AwaitingReview"
    /\ Enter(j, Verdict(accept))
    /\ UNCHANGED <<effects, phase, task, gate, supervisorVars>>

\* worker.stop names the agent host: its worker drains, its tasks run on.
StopWorker ==
    /\ RequestStop(AgentWorker)
    /\ UNCHANGED <<documents, phase, task, gate>>
-----------------------------------------------------------------------------
\* The gate: AgentJobGate::acquire and the drop of the JobPermit.

\* The task's first poll queues it for a permit.
AskPermit(b) ==
    /\ phase[b] = "spawned"
    /\ phase' = [phase EXCEPT ![b] = "waiting"]
    /\ line' = Append(line, b)
    /\ UNCHANGED <<documents, task, permits, admitted, supervisorVars>>

\* Mutant: the permit is taken without waiting for one.
TakePermitAtOnce(b) ==
    /\ phase[b] = "waiting"
    /\ line # <<>> /\ Head(line) = b
    /\ phase' = [phase EXCEPT ![b] = "permitted"]
    /\ line' = Tail(line)
    /\ permits' = permits - 1
    /\ UNCHANGED <<documents, task, admitted, supervisorVars>>

\* The semaphore serves its waiters in order.
TakePermit(b) ==
    /\ phase[b] = "waiting"
    /\ line # <<>> /\ Head(line) = b
    /\ permits > 0
    /\ phase' = [phase EXCEPT ![b] = "permitted"]
    /\ line' = Tail(line)
    /\ permits' = permits - 1
    /\ UNCHANGED <<documents, task, admitted, supervisorVars>>

\* Scheduler::acquire, whose refusal would panic the task.
ReserveSlot(b) ==
    /\ phase[b] = "permitted"
    /\ admitted < Quota
    /\ admitted' = admitted + 1
    /\ phase' = [phase EXCEPT ![b] = "next"]
    /\ UNCHANGED <<documents, task, permits, line, supervisorVars>>

\* Mutant: the permit goes back before the slot.
PermitFirst == <<"permit", "slot">>

\* JobPermit::drop releases the scheduler's slot, and then its field, the permit,
\* is dropped.
DropOrder == <<"slot", "permit">>

GiveBack(what) ==
    /\ admitted' = IF what = "slot" /\ admitted > 0 THEN admitted - 1 ELSE admitted
    /\ permits' = IF what = "permit" THEN permits + 1 ELSE permits

DropPermit(b) ==
    /\ \/ /\ phase[b] = "releasing"
          /\ GiveBack(DropOrder[1])
          /\ phase' = [phase EXCEPT ![b] = "released"]
       \/ /\ phase[b] = "released"
          /\ GiveBack(DropOrder[2])
          /\ phase' = [phase EXCEPT ![b] = "done"]
    /\ UNCHANGED <<documents, task, line, supervisorVars>>
-----------------------------------------------------------------------------
\* The task of a batch: run_document_batch and run_document_stages.

Current(b) == DocumentsOf[b][cur[b]]

\* The next document of the batch, skipped when it was cancelled meanwhile.
NextDocument(b) ==
    /\ phase[b] = "next"
    /\ cur[b] <= Len(DocumentsOf[b])
    /\ IF job[Current(b)] \in Terminal
       THEN cur' = [cur EXCEPT ![b] = @ + 1] /\ UNCHANGED phase
       ELSE phase' = [phase EXCEPT ![b] = "config"] /\ UNCHANGED cur
    /\ UNCHANGED <<documents, pos, unhealthy, gate, supervisorVars>>

\* resolve_pdf_agent_config.
ResolveConfig(b) ==
    /\ phase[b] = "config"
    /\ phase' = [phase EXCEPT ![b] = "stages"]
    /\ pos' = [pos EXCEPT ![b] = 1]
    /\ UNCHANGED <<documents, cur, unhealthy, gate, supervisorVars>>

\* The configuration is unusable, or the work of a stage fails.
WorkFails(b) ==
    /\ \/ phase[b] = "config"
       \/ /\ phase[b] = "stages"
          /\ Pipeline[pos[b]] \notin {"ValidatingFile", "GeneratingPatch", "AwaitingReview"}
    /\ phase' = [phase EXCEPT ![b] = "error"]
    /\ UNCHANGED <<documents, cur, pos, unhealthy, gate, supervisorVars>>

\* The pipeline's place moves on; after the last one comes the next document.
StageDone(b) ==
    IF pos[b] = Len(Pipeline)
    THEN /\ phase' = [phase EXCEPT ![b] = "next"]
         /\ cur' = [cur EXCEPT ![b] = @ + 1]
         /\ UNCHANGED pos
    ELSE pos' = [pos EXCEPT ![b] = @ + 1] /\ UNCHANGED <<phase, cur>>

\* An effect of the pipeline; nothing looks at the state of the job here.
StageEffect(b) ==
    /\ phase[b] = "stages"
    /\ Pipeline[pos[b]] \in Effects
    /\ effects' = [effects EXCEPT ![Current(b)] = @ \union {Pipeline[pos[b]]}]
    /\ StageDone(b)
    /\ UNCHANGED <<job, checkpoints, unhealthy, gate, supervisorVars>>

\* Mutant: the pipeline goes on when the stage cannot be entered.
AdvanceStageAnyway(b) ==
    /\ phase[b] = "stages"
    /\ Pipeline[pos[b]] \notin Effects
    /\ IF CanTransition(job[Current(b)], Pipeline[pos[b]])
       THEN Enter(Current(b), Pipeline[pos[b]])
       ELSE UNCHANGED <<job, checkpoints>>
    /\ StageDone(b)
    /\ UNCHANGED <<effects, unhealthy, gate, supervisorVars>>

\* advance_stage: under the host lock; refused when the job was cancelled.
AdvanceStage(b) ==
    /\ phase[b] = "stages"
    /\ Pipeline[pos[b]] \notin Effects
    /\ IF CanTransition(job[Current(b)], Pipeline[pos[b]])
       THEN Enter(Current(b), Pipeline[pos[b]]) /\ StageDone(b)
       ELSE /\ phase' = [phase EXCEPT ![b] = "error"]
            /\ UNCHANGED <<job, checkpoints, cur, pos>>
    /\ UNCHANGED <<effects, unhealthy, gate, supervisorVars>>

\* Mutant: a document that failed is tried again.
RecordErrorAndRetry(b) ==
    /\ phase[b] = "error"
    /\ unhealthy' = [unhealthy EXCEPT ![b] = TRUE]
    /\ phase' = [phase EXCEPT ![b] = "next"]
    /\ IF job[Current(b)] \notin Terminal /\ CanTransition(job[Current(b)], "Failed")
       THEN Enter(Current(b), "Failed")
       ELSE UNCHANGED <<job, checkpoints>>
    /\ UNCHANGED <<effects, cur, pos, gate, supervisorVars>>

\* Mutant: the error is reported but the job is left as it is.
RecordErrorOnly(b) ==
    /\ phase[b] = "error"
    /\ unhealthy' = [unhealthy EXCEPT ![b] = TRUE]
    /\ phase' = [phase EXCEPT ![b] = "next"]
    /\ cur' = [cur EXCEPT ![b] = @ + 1]
    /\ UNCHANGED <<job, checkpoints, effects, pos, gate, supervisorVars>>

\* The job fails, if it is not terminal and its state allows it.
RecordError(b) ==
    /\ phase[b] = "error"
    /\ unhealthy' = [unhealthy EXCEPT ![b] = TRUE]
    /\ phase' = [phase EXCEPT ![b] = "next"]
    /\ cur' = [cur EXCEPT ![b] = @ + 1]
    /\ IF job[Current(b)] \notin Terminal /\ CanTransition(job[Current(b)], "Failed")
       THEN Enter(Current(b), "Failed")
       ELSE UNCHANGED <<job, checkpoints>>
    /\ UNCHANGED <<effects, pos, gate, supervisorVars>>

\* The batch's report; the supervisor ignores what its state does not accept.
Report(b) ==
    /\ phase[b] = "next"
    /\ cur[b] > Len(DocumentsOf[b])
    /\ phase' = [phase EXCEPT ![b] = "releasing"]
    /\ \/ /\ ~ unhealthy[b] /\ state[AgentWorker] = "Ready"
          /\ ObserveHealthy(AgentWorker, 1)
       \/ /\ unhealthy[b] /\ state[AgentWorker] \in {"Starting", "Ready", "Draining"}
          /\ ObserveFailed(AgentWorker, "Crash")
       \/ /\ \/ ~ unhealthy[b] /\ state[AgentWorker] # "Ready"
             \/ unhealthy[b] /\ state[AgentWorker] \notin {"Starting", "Ready", "Draining"}
          /\ UNCHANGED supervisorVars
    /\ UNCHANGED <<documents, task, gate>>

BatchStep(b) ==
    \/ AskPermit(b) \/ TakePermit(b) \/ ReserveSlot(b)
    \/ NextDocument(b) \/ ResolveConfig(b) \/ WorkFails(b)
    \/ StageEffect(b) \/ AdvanceStage(b) \/ RecordError(b)
    \/ Report(b) \/ DropPermit(b)

JobsNext ==
    \/ \E b \in Batches :
          \/ QueueBatch(b) \/ BatchStep(b)
          \/ \E n \in 0 .. Len(DocumentsOf[b]) - 1 : RefuseBatch(b, n)
    \/ \E j \in Jobs : CancelJob(j) \/ \E accept \in BOOLEAN : ReviewPatch(j, accept)
    \/ StopWorker

JobsSpec == JobsInit /\ [][JobsNext]_jobsVars

\* The runtime polls every ready task, and every wait inside a stage has a
\* timeout or ends by itself.
FairJobsSpec == JobsSpec /\ \A b \in Batches : WF_jobsVars(BatchStep(b))
-----------------------------------------------------------------------------
\* import_batch_status: what the user is told about a batch.
BatchStatus(b) ==
    LET states == {job[DocumentsOf[b][n]] : n \in DOMAIN DocumentsOf[b]}
    IN  IF states = {"Cancelled"} THEN "cancelled"
        ELSE IF states \subseteq Settled
             THEN IF states \intersect {"Failed", "Cancelled"} # {}
                  THEN "completed_with_errors" ELSE "completed"
        ELSE IF states = {"Queued"} THEN "queued" ELSE "running"

Finished == {"completed", "completed_with_errors", "cancelled"}

\* The scheduler never refuses a task that got a permit, which would panic it:
\* the drop gives the slot back before the permit.
GateNeverPanics ==
    \A b \in Batches : phase[b] = "permitted" => admitted < Quota

\* The checkpoints tell the truth about the job whoever moved it (the task, a
\* cancel, a review, a failure): the last one is its state, all before it are
\* completed, and a job still at work has exactly its last one open.
CheckpointsFollowState ==
    \A j \in Jobs : LET history == checkpoints[j] IN
       /\ history = <<>> <=> job[j] \in {"None", "Queued"}
       /\ \A n \in DOMAIN history : history[n].closed <=> n < Len(history) \/ job[j] \in Terminal
       /\ history # <<>> => history[Len(history)].stage = job[j]

\* The canvas of a job is stored, and its event published, only after the job
\* entered PersistingCanvas: a cancel before that stops both, whatever the task
\* was doing.
CancelStopsEffects ==
    \A j \in Jobs : effects[j] \intersect {"store", "publish"} # {} =>
       \E n \in DOMAIN checkpoints[j] : checkpoints[j][n].stage = "PersistingCanvas"

\* A batch that has ended leaves no job in the middle of its pipeline, whatever
\* failed or was cancelled at whatever stage: each of its jobs is terminal or
\* awaits review, or was never begun (a job that is Queued cannot be failed).
NoJobLeftHalfway ==
    \A b \in Batches : phase[b] \in {"releasing", "released", "done"} =>
       \A n \in DOMAIN DocumentsOf[b] : job[DocumentsOf[b][n]] \in Settled \union {"Queued"}

\* The batches, their jobs and the gate are well formed, the gate never panics, and no job
\* is left halfway.
JobsSound == JobsTypeOK /\ GateNeverPanics /\ NoJobLeftHalfway

\* A terminal job never leaves its state and its history never grows again,
\* although the task may still be at work on it.
SettledForGood ==
    [][\A j \in Jobs : job[j] \in Terminal =>
          job'[j] = job[j] /\ checkpoints'[j] = checkpoints[j]]_jobsVars

\* A batch the user was told is finished is never running or queued again.
FinishedStaysFinished ==
    [][\A b \in Batches : BatchStatus(b) \in Finished => BatchStatus(b)' \in Finished]_jobsVars

\* Every queued batch gets its permit, ends and gives the permit back, however
\* its documents fail or are cancelled.
BatchesSettle ==
    \A b \in Batches : phase[b] = "spawned" ~> phase[b] = "done"

\* docs/architecture/kernel-lifecycle.md, "Crash | Exponential restart": a worker
\* that waits for its restart is started again.  Nothing observes the retry timer.
AgentWorkerComesBack ==
    state[AgentWorker] = "Restarting" ~> state[AgentWorker] # "Restarting"
=============================================================================
