--------------------------- MODULE DocumentPipeline ---------------------------
(* The import of one document (run_document_stages of agent_commands.rs and
   run_v4_pipeline of pdf_agent_v4.rs): the file is checked, read and divided, a
   language model answers one question about its structure, one about each section
   and one about the whole, and what it said is compiled, stored and announced.

   The user may cancel the job between any two steps.  The
   model is external: an answer is what the parser makes of it.
     clean     parses              mended    parses after deterministic repair
     wrong     needs the model to write it again *)
EXTENDS Integers, Sequences, FiniteSets

CONSTANTS
  Chapters,        \* the sections found, in order: TRUE for one that has text
  MaxTries,        \* MAX_RETRIES of a streamed chat
  MaxThoughts,     \* bound: reasoning events of one attempt
  MaxExtra,        \* bound: reasoning events and broken attempts of the import
  MaxAudit         \* MAX_REPAIR_AUDIT_RECORDS

ASSUME PipelineAssumption ==
  /\ Chapters \in Seq(BOOLEAN)
  /\ {MaxTries, MaxThoughts, MaxExtra, MaxAudit} \subseteq Nat \ {0}

VARIABLES
  import,          \* the job: [stage, closed, hash, result]
  run,             \* the task: [at, pass, chapter, broken, try, sent]
  fragments,       \* sections whose fragments are kept, 0 for the whole text
  audit,           \* repair audit of the job: [pass, attempt, status]
  activity,        \* what the user is shown: [chunks, retries]
  cursor,          \* KimiProgressCursor: [attempt, chunks]
  heard,           \* what really happened: [chunks, retries, calls, extra]
  outcomes         \* what was done with the canvas

pipelineVars == <<import, run, fragments, audit, activity, cursor, heard, outcomes>>

JobStages == <<"Queued", "ValidatingFile", "ExtractingText", "OcrOptional", "BuildingDocumentMap",
            "ExtractingSemantics", "CompilingGraphIr", "PersistingCanvas", "GeneratingPatch",
            "AwaitingReview">>
JobEnded == {"Cancelled", "Failed"}
Passes == {"A", "B", "fallback", "E"}
Statuses == {"validated", "repaired", "needs-recovery", "recovered", "recovery-failed"}

PipelineTypeOK ==
  /\ import \in [stage : {JobStages[n] : n \in DOMAIN JobStages} \union JobEnded, closed : Nat,
                 hash : BOOLEAN, result : BOOLEAN]
  /\ run.pass \in Passes /\ run.chapter \in 1 .. Len(Chapters) + 1 /\ run.broken \in BOOLEAN
  /\ run.try \in 0 .. MaxTries /\ run.sent \in 0 .. MaxThoughts
  /\ fragments \in Seq(0 .. Len(Chapters))
  /\ \A n \in DOMAIN audit : audit[n] \in [pass : {"A", "B", "E"}, attempt : 0 .. 1, status : Statuses]
  /\ outcomes \subseteq {"compiled", "stored", "published"}

PipelineInit ==
  /\ import = [stage |-> "Queued", closed |-> 0, hash |-> FALSE, result |-> FALSE]
  /\ run = [at |-> "ValidatingFile", pass |-> "A", chapter |-> 1, broken |-> FALSE, try |-> 0, sent |-> 0]
  /\ fragments = <<>>
  /\ audit = <<>>
  /\ activity = [chunks |-> 0, retries |-> 0]
  /\ cursor = [attempt |-> 0, chunks |-> 0]
  /\ heard = [chunks |-> 0, retries |-> 0, calls |-> 0, extra |-> 0]
  /\ outcomes = {}

-----------------------------------------------------------------------------
(* The job, as its host keeps it *)

Position(stage) == CHOOSE n \in DOMAIN JobStages : JobStages[n] = stage

\* Entering a stage completes the checkpoint of the one before.
EnterStage(stage) ==
  [import EXCEPT !.stage = stage, !.closed = Position(stage) - 2,
                 !.result = @ \/ stage = "AwaitingReview"]

\* advance_stage: refused when the job was cancelled meanwhile; then the task stops.
Proceed(stage, next) ==
  IF import.stage \in JobEnded
  THEN run' = [run EXCEPT !.at = "stopped"] /\ UNCHANGED import
  ELSE run' = [run EXCEPT !.at = next] /\ import' = EnterStage(stage)

\* A cancel closes the open checkpoint and adds one that is closed.
CancelImport ==
  /\ import.stage \notin JobEnded
  /\ import' = [import EXCEPT !.stage = "Cancelled",
                 !.closed = IF import.stage = "Queued" THEN 1 ELSE @ + 2]
  /\ UNCHANGED <<run, fragments, audit, activity, cursor, heard, outcomes>>

\* The task's error: the job fails unless it ended already or was never begun.
FailImport ==
  /\ run.at = "stopped"
  /\ run' = [run EXCEPT !.at = "over"]
  /\ import' = IF import.stage \in JobEnded \union {"Queued"} THEN import
               ELSE [import EXCEPT !.stage = "Failed", !.closed = @ + 2]
  /\ UNCHANGED <<fragments, audit, activity, cursor, heard, outcomes>>

\* PdfJobStatus::from: stages done, of seven.
ReportedProgress ==
  CASE import.stage = "Queued" -> 0
    [] import.stage = "AwaitingReview" -> 7
    [] import.stage \in JobEnded -> IF import.closed > 9 THEN 9 ELSE import.closed
    [] OTHER -> Position(import.stage) - 2

-----------------------------------------------------------------------------
(* The document: checked, read, divided *)

BeginValidation ==
  /\ run.at = "ValidatingFile"
  /\ Proceed("ValidatingFile", "checking")
  /\ UNCHANGED <<fragments, audit, activity, cursor, heard, outcomes>>

\* validate_document_file, on a thread of its own.
CheckFile ==
  /\ run.at = "checking"
  /\ run' \in {[run EXCEPT !.at = "marking"], [run EXCEPT !.at = "stopped"]}
  /\ UNCHANGED <<import, fragments, audit, activity, cursor, heard, outcomes>>

\* mark_document_validated does not look at the state of the job.
MarkValidated ==
  /\ run.at = "marking"
  /\ import' = [import EXCEPT !.hash = TRUE]
  /\ run' = [run EXCEPT !.at = "reading"]
  /\ UNCHANGED <<fragments, audit, activity, cursor, heard, outcomes>>

\* extract_document, or the provider's extraction of the file, opens the path again.
ReadText ==
  /\ run.at = "reading"
  /\ run' \in {[run EXCEPT !.at = "ExtractingText"], [run EXCEPT !.at = "stopped"]}
  /\ UNCHANGED <<import, fragments, audit, activity, cursor, heard, outcomes>>

\* The stages of a text that is there: a text too short for the OCR fallback, which is
\* never available, is kept as it is.
DivideText ==
  /\ \/ run.at = "ExtractingText" /\ Proceed("ExtractingText", "OcrOptional")
     \/ run.at = "OcrOptional" /\ Proceed("OcrOptional", "BuildingDocumentMap")
     \/ run.at = "BuildingDocumentMap" /\ Proceed("BuildingDocumentMap", "ExtractingSemantics")
     \/ run.at = "ExtractingSemantics" /\ Proceed("ExtractingSemantics", "prompts")
  /\ UNCHANGED <<fragments, audit, activity, cursor, heard, outcomes>>

\* load_prompts: the three passes, or the import stops.
LoadPrompts ==
  /\ run.at = "prompts"
  /\ run' \in {[run EXCEPT !.at = "ask"], [run EXCEPT !.at = "stopped"]}
  /\ UNCHANGED <<import, fragments, audit, activity, cursor, heard, outcomes>>

-----------------------------------------------------------------------------
(* Asking the model *)

Audited(pass) == IF pass = "fallback" THEN "B" ELSE pass

Newest(records) ==
  IF Len(records) > MaxAudit THEN SubSeq(records, Len(records) - MaxAudit + 1, Len(records)) ELSE records

RecordRepairAudit(attempt, status) ==
  audit' = Newest(Append(audit, [pass |-> Audited(run.pass), attempt |-> attempt, status |-> status]))

\* A section without text is not asked about; after the last one comes the synthesis.
\* (The document with no section that has text stops there.)
SkipSection ==
  /\ run.at = "ask" /\ run.pass = "B"
  /\ \/ /\ run.chapter \in DOMAIN Chapters /\ ~ Chapters[run.chapter]
        /\ run' = [run EXCEPT !.chapter = @ + 1]
     \/ /\ run.chapter = Len(Chapters) + 1
        /\ run' = IF fragments = <<>> THEN [run EXCEPT !.at = "stopped"] ELSE [run EXCEPT !.pass = "E"]
  /\ UNCHANGED <<import, fragments, audit, activity, cursor, heard, outcomes>>

\* A chat begins: the sink's cursor starts over with every attempt.
BeginChat ==
  /\ run.at \in {"ask", "recover"}
  /\ run.at = "ask" /\ run.pass = "B" => run.chapter \in DOMAIN Chapters /\ Chapters[run.chapter]
  /\ run.try = 0
  /\ run' = [run EXCEPT !.try = 1, !.sent = 0]
  /\ cursor' = [attempt |-> 1, chunks |-> 0]
  /\ heard' = [heard EXCEPT !.calls = @ + 1]
  /\ UNCHANGED <<import, fragments, audit, activity, outcomes>>

\* Mutant: the sink adds the number it is told.
WholeCount(known, told) == told

NewSince(known, told) == IF told > known THEN told - known ELSE 0

\* The model thinks: the stream tells how often it did in this attempt.
HearThought ==
  /\ run.try > 0 /\ run.sent < MaxThoughts /\ heard.extra < MaxExtra
  /\ run' = [run EXCEPT !.sent = @ + 1]
  /\ activity' = [activity EXCEPT !.chunks = @ +
        NewSince(IF cursor.attempt = run.try THEN cursor.chunks ELSE 0, run.sent + 1)]
  /\ cursor' = [attempt |-> run.try, chunks |-> run.sent + 1]
  /\ heard' = [heard EXCEPT !.chunks = @ + 1, !.extra = @ + 1]
  /\ UNCHANGED <<import, fragments, audit, outcomes>>

\* The attempt breaks off and another begins.
RetryChat ==
  /\ run.try \in 1 .. MaxTries - 1 /\ heard.extra < MaxExtra
  /\ run' = [run EXCEPT !.try = @ + 1, !.sent = 0]
  /\ cursor' = [attempt |-> run.try + 1, chunks |-> 0]
  /\ activity' = [activity EXCEPT !.retries = @ + 1]
  /\ heard' = [heard EXCEPT !.retries = @ + 1, !.extra = @ + 1]
  /\ UNCHANGED <<import, fragments, audit, outcomes>>

\* Mutant: what the sections gave so far is kept beside the whole text.
KeepPartial(kept) == kept

DiscardPartial(kept) == <<>>

\* What follows when a pass has no result: a section falls back to the whole text once.
WithoutResult ==
  IF run.pass = "B"
  THEN /\ run' = [run EXCEPT !.at = "ask", !.pass = "fallback", !.broken = TRUE, !.try = 0, !.sent = 0]
       /\ fragments' = DiscardPartial(fragments)
  ELSE run' = [run EXCEPT !.at = "stopped", !.try = 0, !.sent = 0] /\ UNCHANGED fragments

\* What follows when it has one.
WithResult ==
  LET going == [run EXCEPT !.at = "ask", !.try = 0, !.sent = 0]
  IN \/ run.pass = "A" /\ run' = [going EXCEPT !.pass = "B"] /\ UNCHANGED fragments
     \/ run.pass = "B" /\ run' = [going EXCEPT !.chapter = @ + 1] /\ fragments' = Append(fragments, run.chapter)
     \/ run.pass = "fallback" /\ run' = [going EXCEPT !.pass = "E"] /\ fragments' = Append(fragments, 0)
     \/ run.pass = "E" /\ run' = [going EXCEPT !.at = "validate"] /\ UNCHANGED fragments

\* The chat fails for good.
ChatFails ==
  /\ run.try > 0
  /\ IF run.at = "recover" THEN RecordRepairAudit(1, "recovery-failed") ELSE UNCHANGED audit
  /\ WithoutResult
  /\ UNCHANGED <<import, activity, cursor, heard, outcomes>>

\* The answer of a pass is counted and parsed.
ParsePass ==
  /\ run.at = "ask" /\ run.try > 0
  /\ \/ /\ \E status \in {"validated", "repaired"} : RecordRepairAudit(0, status)
        /\ WithResult
        /\ activity' = [activity EXCEPT !.chunks = @ + 1]
        /\ heard' = [heard EXCEPT !.chunks = @ + 1]
     \/ /\ RecordRepairAudit(0, "needs-recovery")
        /\ run' = [run EXCEPT !.at = "recover", !.try = 0, !.sent = 0]
        /\ activity' = [chunks |-> activity.chunks + 1, retries |-> activity.retries + 1]
        /\ heard' = [heard EXCEPT !.chunks = @ + 1, !.retries = @ + 1]
        /\ UNCHANGED fragments
  /\ UNCHANGED <<import, cursor, outcomes>>

\* The one recovery of a pass: its answer parses or the pass has no result.
ParseRecovery ==
  /\ run.at = "recover" /\ run.try > 0
  /\ \/ RecordRepairAudit(1, "recovered") /\ WithResult
     \/ RecordRepairAudit(1, "recovery-failed") /\ WithoutResult
  /\ UNCHANGED <<import, activity, cursor, heard, outcomes>>

-----------------------------------------------------------------------------
(* The canvas *)

\* validate_extraction, and the stage of the compiler.
ValidateExtraction ==
  /\ run.at = "validate"
  /\ \/ Proceed("CompilingGraphIr", "compile")
     \/ run' = [run EXCEPT !.at = "stopped"] /\ UNCHANGED import
  /\ UNCHANGED <<fragments, audit, activity, cursor, heard, outcomes>>

\* A call of the bus does not look at the job; a failure of any stops the import.
BusCall(at, outcome, next) ==
  /\ run.at = at
  /\ \/ outcomes' = outcomes \union {outcome} /\ run' = [run EXCEPT !.at = next]
     \/ run' = [run EXCEPT !.at = "stopped"] /\ UNCHANGED outcomes
  /\ UNCHANGED <<import, fragments, audit, activity, cursor, heard>>

CompileCanvas == BusCall("compile", "compiled", "PersistingCanvas")

PersistCanvas ==
  \/ /\ run.at = "PersistingCanvas"
     /\ Proceed("PersistingCanvas", "put")
     /\ UNCHANGED <<fragments, audit, activity, cursor, heard, outcomes>>
  \/ BusCall("put", "stored", "publish")

PublishCompletion == BusCall("publish", "published", "GeneratingPatch")

\* The patch is generated and waits for review.
OfferPatch ==
  /\ \/ run.at = "GeneratingPatch" /\ Proceed("GeneratingPatch", "AwaitingReview")
     \/ run.at = "AwaitingReview" /\ Proceed("AwaitingReview", "over")
  /\ UNCHANGED <<fragments, audit, activity, cursor, heard, outcomes>>

PipelineStep ==
  \/ BeginValidation \/ CheckFile \/ MarkValidated \/ ReadText \/ DivideText \/ LoadPrompts
  \/ SkipSection \/ BeginChat \/ HearThought \/ RetryChat \/ ChatFails \/ ParsePass \/ ParseRecovery
  \/ ValidateExtraction \/ CompileCanvas \/ PersistCanvas \/ PublishCompletion \/ OfferPatch
  \/ FailImport

PipelineNext == PipelineStep \/ CancelImport

PipelineSpec == PipelineInit /\ [][PipelineNext]_pipelineVars

-----------------------------------------------------------------------------
WithText == {n \in DOMAIN Chapters : Chapters[n]}

\* What is compiled speaks of the whole document once: of each section that has text, in
\* their order, or of the whole text after a section failed, never of both.
FragmentsAreWhole ==
  run.at \notin {"prompts", "stopped", "over"} /\ (run.pass = "E" \/ outcomes # {}) =>
    \/ run.broken /\ fragments = <<0>>
    \/ /\ ~ run.broken
       /\ {fragments[n] : n \in DOMAIN fragments} = WithText
       /\ \A n \in 1 .. Len(fragments) - 1 : fragments[n] < fragments[n + 1]

\* The audit tells of a recovery only after the parse that asked for it, never of a second
\* one, and of every parse that asked for one but the last how it ended.
RecoveriesAreAudited ==
  \A n \in DOMAIN audit :
    /\ n > 1 => (audit[n].attempt = 1 <=> audit[n - 1].status = "needs-recovery")
    /\ audit[n].status = "needs-recovery" /\ n = Len(audit) => run.at = "recover"

\* An announced canvas was stored, and a job offers a patch only for an announced one; a
\* cancelled job may have both all the same.
AnnouncedIsStored ==
  /\ "published" \in outcomes => "stored" \in outcomes
  /\ "stored" \in outcomes => "compiled" \in outcomes
  /\ import.stage \in {"GeneratingPatch", "AwaitingReview"} => "published" \in outcomes
  /\ import.stage = "AwaitingReview" => import.result /\ import.hash

\* What the user is shown of the model's activity is what happened, over all attempts,
\* calls and recoveries.
ActivityExact == activity.chunks = heard.chunks /\ activity.retries = heard.retries

\* However the answers turn out, an import asks the model a bounded number of times: each
\* section, the structure, the fallback and the synthesis, and each once more.
CallsBounded == heard.calls <= 2 * (Cardinality(WithText) + 3)

\* The progress shown is within its range while the job lives, and never less than what
\* the stages say.
ProgressInRange == import.stage \notin JobEnded => ReportedProgress \in 0 .. 7

\* The import of a document.
PipelineSound ==
  /\ PipelineTypeOK /\ FragmentsAreWhole /\ RecoveriesAreAudited /\ AnnouncedIsStored
  /\ ActivityExact /\ CallsBounded /\ ProgressInRange
=============================================================================
