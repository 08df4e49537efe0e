--------------------------- MODULE IntakePipeline ---------------------------
(***************************************************************************)
(* One intake job without the agent graph: the route that accepts the      *)
(* upload, the task that runs BorrowerIntakeService.process and reports    *)
(* each stage into the job's event log, FinDocIQ working on the batch, the *)
(* service's stop, crash and start, and the page that follows the log.     *)
(*                                                                         *)
(* A job has an application of its own: the route draws both ids.  An      *)
(* append and a finish are one statement or one transaction each, so a     *)
(* step here is one of them; a cancellation inside one is a cancellation   *)
(* before or after it.                                                     *)
(***************************************************************************)
EXTENDS Naturals, Sequences

CONSTANTS
  NFiles,        \* the uploaded PDFs
  NFacts,        \* the facts extracted, EXTRACTED_FACTS
  MaxActivity,   \* bound: the activity events FinDocIQ produces for the batch
  MaxStops,      \* bound: how often the service stops or crashes
  MaxFailures,   \* bound: how many statements of the job store or workflow fail
  MaxReloads     \* bound: how often the page is loaded again

ASSUME IntakeAssumption ==
  /\ NFiles \in Nat \ {0} /\ NFacts \in Nat \ {0}
  /\ {MaxActivity, MaxStops, MaxFailures, MaxReloads} \subseteq Nat

VARIABLES
  job,       \* the row of intake_jobs; its last_sequence is Len(log)
  log,       \* the rows of intake_job_events, by sequence
  run,       \* the route's request, then the background task
  batch,     \* FinDocIQ's work on the batch, and the activity it has produced
  folder,    \* the application's folder: staged files and the two markers
  case,      \* how many states of CaseStates the workflow has been through
  page,      \* the browser's followIntakeJob: its poll, its timeline, its cursor
  service,   \* up, stopping or down
  spent      \* how much of each bound is used up

vars == <<job, log, run, batch, folder, case, page, service, spent>>

CaseStates == <<"INTAKE", "EXTRACTED", "RULE_GATED", "AI_SUGGESTED", "AWAITING_HUMAN">>
AwaitingHuman == Len(CaseStates)

Active == job.status \in {"queued", "running"}
At(pc) == run.pc = pc
Goes(pc) == run' = [run EXCEPT !.pc = pc]
GoesTo(pc, n) == run' = [run EXCEPT !.pc = pc, !.n = n]

\* The steps inside process, whose exceptions leave a FAILED marker, and those
\* of the handlers around it.
Pipeline == {"validating", "document", "stage", "staged", "submitting", "ingest",
             "forward", "collect", "rest", "extracting", "extract", "metric", "facts",
             "gating", "retrieve", "assembling", "create", "advance", "manifest",
             "announce"}
Handlers == {"failing", "finish", "succeeded", "complete"}

Event(stage, of) == [stage |-> stage, of |-> of, error |-> "none"]

\* Fault: the event is inserted and the job left as it was.
AppendedOnly(e) == log' = Append(log, e) /\ UNCHANGED job

\* append: the next sequence, and a queued job becomes a running one.
Appended(e) ==
  /\ log' = Append(log, e)
  /\ job' = [job EXCEPT !.status = IF @ = "queued" THEN "running" ELSE @]

Reports(stage, of) == Appended(Event(stage, of))

Spend(what) == spent' = [spent EXCEPT ![what] = @ + 1]

\* The handler of process marks the folder, the one of the task reports the error.
Raises(error) ==
  /\ run' = [run EXCEPT !.pc = "failing", !.error = error]
  /\ folder' = [folder EXCEPT !.failed = TRUE]

\* What the client makes of a call that fails and of an answer outside the
\* contract; a missing or ambiguous figure; a fact of the wrong type.
ClientErrors == {"findociq_unavailable", "internal_processing_error"}
FigureErrors == {"intake_validation_failed"}
FactErrors == {"intake_validation_failed"}

(***************************************************************************)
(* POST /v1/intake-jobs.                                                   *)
(***************************************************************************)
CreateIntakeJob ==
  /\ At("none") /\ service = "up"
  /\ job' = [job EXCEPT !.status = "queued"]
  /\ Goes("received")
  /\ UNCHANGED <<log, batch, folder, case, page, service, spent>>

\* The first event, then the task is spawned and the page gets its answer.
AcceptUpload ==
  /\ At("received")
  /\ Reports("upload_received", 0)
  /\ Goes("validating")
  /\ page' = [page EXCEPT !.pc = "poll"]
  /\ UNCHANGED <<batch, folder, case, service, spent>>

(***************************************************************************)
(* BorrowerIntakeService.process.                                          *)
(***************************************************************************)
ReportValidating ==
  /\ At("validating")
  /\ Reports("validating_upload", 0)
  /\ GoesTo("document", 1)
  /\ UNCHANGED <<batch, folder, case, page, service, spent>>

ReportDocument ==
  /\ At("document")
  /\ Reports("validating_document", run.n)
  /\ Goes("stage")
  /\ UNCHANGED <<batch, folder, case, page, service, spent>>

\* Name, magic bytes and size; then the file is written.
StageDocument ==
  /\ At("stage")
  /\ \/ folder' = [folder EXCEPT !.staged = run.n] /\ Goes("staged")
     \/ Raises("intake_validation_failed")
  /\ UNCHANGED <<job, log, batch, case, page, service, spent>>

ReportStaged ==
  /\ At("staged")
  /\ Reports("staged_document", run.n)
  /\ IF run.n < NFiles THEN GoesTo("document", run.n + 1) ELSE Goes("submitting")
  /\ UNCHANGED <<batch, folder, case, page, service, spent>>

SubmitBatch ==
  /\ At("submitting")
  /\ Reports("submitting_batch", 0)
  /\ batch' = [batch EXCEPT !.status = "working"]
  /\ Goes("ingest")
  /\ UNCHANGED <<folder, case, page, service, spent>>

\* What FinDocIQ answers the client: the events after last_sequence that it has by now.
ActivityAfter(last) ==
  IF last < batch.produced THEN [i \in 1..(batch.produced - last) |-> last + i] ELSE <<>>

\* Between two looks at the batch.  (A fetch that fails changes nothing.)
FetchActivity ==
  /\ At("ingest")
  /\ batch.status = "working"
  /\ run' = [run EXCEPT !.pc = "forward", !.pending = ActivityAfter(run.last)]
  /\ UNCHANGED <<job, log, batch, folder, case, page, service, spent>>

\* Fault: last_sequence is forgotten, and the next fetch has the same events.
ForwardKeepingLast(pc, after) ==
  /\ At(pc)
  /\ IF run.pending = <<>> THEN Goes(after) /\ UNCHANGED <<job, log>>
     ELSE /\ Reports("activity", Head(run.pending))
          /\ run' = [run EXCEPT !.pending = Tail(@)]
  /\ UNCHANGED <<batch, folder, case, page, service, spent>>

\* One event of FinDocIQ goes into the job's log.  (The loop after the batch does
\* not move last_sequence, which nothing reads any more.)
Forward(pc, after) ==
  /\ At(pc)
  /\ IF run.pending = <<>> THEN Goes(after) /\ UNCHANGED <<job, log>>
     ELSE /\ Reports("activity", Head(run.pending))
          /\ run' = [run EXCEPT !.last = Head(run.pending), !.pending = Tail(@)]
  /\ UNCHANGED <<batch, folder, case, page, service, spent>>

ForwardActivity == Forward("forward", "ingest")
ForwardRest == Forward("rest", "extracting")

\* The batch's response, or its error, is taken up when the task next looks.
BatchAnswered ==
  /\ At("ingest")
  /\ \/ batch.status = "done" /\ GoesTo("collect", 1) /\ UNCHANGED folder
     \/ batch.status = "failed"
        /\ \E e \in ClientErrors : Raises(e)
  /\ UNCHANGED <<job, log, batch, case, page, service, spent>>

\* The last fetch is advisory too.
CollectRest ==
  /\ At("collect")
  /\ \/ run' = [run EXCEPT !.pc = "rest", !.pending = ActivityAfter(run.last)]
     \/ Goes("extracting")
  /\ UNCHANGED <<job, log, batch, folder, case, page, service, spent>>

ReportExtracting ==
  /\ At("extracting")
  /\ Reports("extracting_metric", run.n)
  /\ Goes("extract")
  /\ UNCHANGED <<batch, folder, case, page, service, spent>>

\* FinDocIQ fails, answers outside its contract, or gives no usable figure.
Extract ==
  /\ At("extract")
  /\ \/ Goes("metric") /\ UNCHANGED folder
     \/ \E e \in ClientErrors \cup FigureErrors : Raises(e)
  /\ UNCHANGED <<job, log, batch, case, page, service, spent>>

ReportMetric ==
  /\ At("metric")
  /\ Reports("metric_completed", run.n)
  /\ IF run.n < NFacts THEN GoesTo("extracting", run.n + 1) ELSE Goes("facts")
  /\ UNCHANGED <<batch, folder, case, page, service, spent>>

BuildApplication ==
  /\ At("facts")
  /\ \/ Goes("gating") /\ UNCHANGED folder
     \/ \E e \in FactErrors : Raises(e)
  /\ UNCHANGED <<job, log, batch, case, page, service, spent>>

ReportGating ==
  /\ At("gating")
  /\ Reports("rule_gating", 0)
  /\ Goes("retrieve")
  /\ UNCHANGED <<batch, folder, case, page, service, spent>>

Retrieve ==
  /\ At("retrieve")
  /\ \/ Goes("assembling") /\ UNCHANGED folder
     \/ Raises("internal_processing_error")
  /\ UNCHANGED <<job, log, batch, case, page, service, spent>>

ReportAssembling ==
  /\ At("assembling")
  /\ Reports("assembling_suggestions", 0)
  /\ Goes("create")
  /\ UNCHANGED <<batch, folder, case, page, service, spent>>

CreateCase ==
  /\ At("create")
  /\ case' = 1
  /\ Goes("advance")
  /\ UNCHANGED <<job, log, batch, folder, page, service, spent>>

\* Fault: the last state of the loop is left out.
AdvanceShort ==
  /\ At("advance")
  /\ case' = case + 1
  /\ Goes(IF case + 2 < AwaitingHuman THEN "advance" ELSE "manifest")
  /\ UNCHANGED <<job, log, batch, folder, page, service, spent>>

\* One advance_pipeline after another, each in its own transaction.
Advance ==
  /\ At("advance")
  /\ case' = case + 1
  /\ Goes(IF case + 1 < AwaitingHuman THEN "advance" ELSE "manifest")
  /\ UNCHANGED <<job, log, batch, folder, page, service, spent>>

WriteManifest ==
  /\ At("manifest")
  /\ folder' = [folder EXCEPT !.manifest = TRUE, !.failed = FALSE]
  /\ Goes("announce")
  /\ UNCHANGED <<job, log, batch, case, page, service, spent>>

Announce ==
  /\ At("announce")
  /\ Reports("awaiting_human", 0)
  /\ Goes("succeeded")
  /\ UNCHANGED <<batch, folder, case, page, service, spent>>

\* A statement fails.  In the pipeline that is an unexpected, retryable error; a
\* transition may have been committed all the same.  In the route or in a handler
\* nothing catches it, and the job stays as it is.
StatementFails ==
  /\ spent.failures < MaxFailures
  /\ Spend("failures")
  /\ \/ /\ run.pc \in Pipeline \ {"stage", "ingest", "collect", "extract", "facts",
                                  "retrieve", "create", "advance", "manifest"}
        /\ Raises("internal_processing_error")
        /\ UNCHANGED case
     \/ /\ run.pc \in {"create", "advance"}
        /\ Raises("internal_processing_error")
        /\ case' \in {case, case + 1}
     \/ /\ run.pc \in Handlers \cup {"received"}
        /\ Goes("lost")
        /\ UNCHANGED <<folder, case>>
  /\ UNCHANGED <<job, log, batch, page, service>>

(***************************************************************************)
(* _run_intake_job around process.                                         *)
(***************************************************************************)
ReportFailed ==
  /\ At("failing")
  /\ Appended([stage |-> "failed", of |-> 0, error |-> run.error])
  /\ Goes("finish")
  /\ UNCHANGED <<batch, folder, case, page, service, spent>>

\* Fault: the error code is not passed on.
FinishFailedBlank ==
  /\ At("finish")
  /\ job' = [status |-> "failed", error |-> "none"]
  /\ Goes("ended")
  /\ UNCHANGED <<log, batch, folder, case, page, service, spent>>

FinishFailed ==
  /\ At("finish")
  /\ job' = [status |-> "failed", error |-> run.error]
  /\ Goes("ended")
  /\ UNCHANGED <<log, batch, folder, case, page, service, spent>>

ReportCompleted ==
  /\ At("succeeded")
  /\ Reports("completed", 0)
  /\ Goes("complete")
  /\ UNCHANGED <<batch, folder, case, page, service, spent>>

FinishCompleted ==
  /\ At("complete")
  /\ job' = [job EXCEPT !.status = "completed"]
  /\ Goes("ended")
  /\ UNCHANGED <<log, batch, folder, case, page, service, spent>>

(***************************************************************************)
(* FinDocIQ: external.  A batch's activity is complete before its answer.  *)
(***************************************************************************)
Produce ==
  /\ batch.status = "working" /\ batch.produced < MaxActivity
  /\ batch' = [batch EXCEPT !.produced = @ + 1]
  /\ UNCHANGED <<job, log, run, folder, case, page, service, spent>>

\* It answers, or refuses, or the client's timeout passes.
BatchEnds ==
  /\ batch.status = "working"
  /\ \E s \in {"done", "failed"} : batch' = [batch EXCEPT !.status = s]
  /\ UNCHANGED <<job, log, run, folder, case, page, service, spent>>

(***************************************************************************)
(* The page: a poll reads the job, then the events after the cursor.       *)
(***************************************************************************)
\* What the page has when the events after its cursor have arrived.
WithEvents == [page EXCEPT !.seen = @ \o SubSeq(log, page.cursor + 1, Len(log)),
                           !.cursor = Len(log)]

ClosesOn(status) == IF status \in {"queued", "running"} THEN "poll" ELSE "closed"

\* Fault: the events are read before the job.
PollEventsFirst ==
  /\ \/ /\ page.pc = "poll" /\ service = "up"
        /\ page' = [WithEvents EXCEPT !.pc = "answer"]
     \/ /\ page.pc = "answer"
        /\ page' = [page EXCEPT !.pc = ClosesOn(job.status), !.status = job.status]
  /\ UNCHANGED <<job, log, run, batch, folder, case, service, spent>>

Poll ==
  /\ \/ /\ page.pc = "poll" /\ service = "up"
        /\ page' = [page EXCEPT !.pc = "answer", !.status = job.status]
     \/ /\ page.pc = "answer"
        /\ page' = [WithEvents EXCEPT !.pc = ClosesOn(page.status)]
  /\ UNCHANGED <<job, log, run, batch, folder, case, service, spent>>

\* A poll that fails ends the loop.
PollFails ==
  /\ page.pc = "poll" /\ service # "up"
  /\ page' = [page EXCEPT !.pc = "lost"]
  /\ UNCHANGED <<job, log, run, batch, folder, case, service, spent>>

\* resumeActiveIntake: the tab still knows the job unless it saw it complete.
Reload ==
  /\ spent.reloads < MaxReloads
  /\ Spend("reloads")
  /\ page.pc \in {"poll", "closed", "lost"}
  /\ ~(page.pc = "closed" /\ page.status = "completed")
  /\ page' = [pc |-> "poll", status |-> "queued", seen |-> <<>>, cursor |-> 0]
  /\ UNCHANGED <<job, log, run, batch, folder, case, service>>

(***************************************************************************)
(* The service.                                                            *)
(***************************************************************************)
\* Shutdown, when the open requests are answered, cancels the task once: process
\* ends without a marker and the handler reports; in a handler nothing catches
\* it.  The task makes no step between the cancellation and its delivery.
Stop ==
  /\ service = "up" /\ run.pc # "received" /\ page.pc # "answer"
  /\ spent.stops < MaxStops
  /\ Spend("stops")
  /\ service' = "stopping"
  /\ run' = [run EXCEPT !.pc = IF @ \in Pipeline THEN "failing"
                               ELSE IF @ \in Handlers THEN "ended" ELSE @,
                        !.error = IF run.pc \in Pipeline THEN "service_stopped" ELSE @]
  /\ UNCHANGED <<job, log, batch, folder, case, page>>

\* gather waits for the task's last step.
Stopped ==
  /\ service = "stopping" /\ run.pc \in {"none", "ended", "lost"}
  /\ service' = "down"
  /\ UNCHANGED <<job, log, run, batch, folder, case, page, spent>>

Crash ==
  /\ service # "down"
  /\ spent.stops < MaxStops
  /\ Spend("stops")
  /\ service' = "down"
  /\ run' = [run EXCEPT !.pc = IF @ = "none" THEN @ ELSE "ended"]
  /\ page' = [page EXCEPT !.pc = IF @ = "answer" THEN "lost" ELSE @]
  /\ UNCHANGED <<job, log, batch, folder, case>>

\* Fault: a job that no task ever reported on is not looked at.
InterruptedRunning ==
  IF job.status = "running" THEN [status |-> "failed", error |-> "service_restarted"] ELSE job

\* fail_interrupted.
Interrupted ==
  IF Active THEN [status |-> "failed", error |-> "service_restarted"] ELSE job

\* Fault: every job of the table is failed.
StartFailingAll ==
  /\ service = "down"
  /\ service' = "up"
  /\ job' = [status |-> "failed", error |-> "service_restarted"]
  /\ UNCHANGED <<log, run, batch, folder, case, page, spent>>

Start ==
  /\ service = "down"
  /\ service' = "up"
  /\ job' = Interrupted
  /\ UNCHANGED <<log, run, batch, folder, case, page, spent>>

Init ==
  /\ job = [status |-> "none", error |-> "none"]
  /\ log = <<>>
  /\ run = [pc |-> "none", n |-> 1, error |-> "none", pending |-> <<>>, last |-> 0]
  /\ batch = [status |-> "none", produced |-> 0]
  /\ folder = [staged |-> 0, manifest |-> FALSE, failed |-> FALSE]
  /\ case = 0
  /\ page = [pc |-> "none", status |-> "queued", seen |-> <<>>, cursor |-> 0]
  /\ service = "up"
  /\ spent = [stops |-> 0, failures |-> 0, reloads |-> 0]

StageFiles == ReportValidating \/ ReportDocument \/ StageDocument \/ ReportStaged
IngestBatch ==
  SubmitBatch \/ FetchActivity \/ ForwardActivity \/ BatchAnswered \/ CollectRest \/ ForwardRest
ExtractFacts == ReportExtracting \/ Extract \/ ReportMetric \/ BuildApplication
AdvanceCase ==
  \/ ReportGating \/ Retrieve \/ ReportAssembling
  \/ CreateCase \/ Advance \/ WriteManifest \/ Announce
Handle == ReportFailed \/ FinishFailed \/ ReportCompleted \/ FinishCompleted

RunStep ==
  \/ AcceptUpload \/ StageFiles \/ IngestBatch \/ ExtractFacts \/ AdvanceCase
  \/ StatementFails \/ Handle

Next ==
  \/ CreateIntakeJob \/ RunStep
  \/ Produce \/ BatchEnds
  \/ Poll \/ PollFails \/ Reload
  \/ Stop \/ Stopped \/ Crash \/ Start

Spec == Init /\ [][Next]_vars

\* The event loop runs the request and the task, the batch is answered or timed
\* out, and a service that stopped is started again.
FairSpec ==
  /\ Spec
  /\ WF_vars(RunStep) /\ WF_vars(BatchEnds) /\ WF_vars(Stopped) /\ WF_vars(Start)

(***************************************************************************)
(* Properties.                                                             *)
(***************************************************************************)
JobStatuses == {"none", "queued", "running", "completed", "failed"}
Errors == {"none", "findociq_unavailable", "internal_processing_error",
           "intake_validation_failed", "service_stopped", "service_restarted"}

Numbers == 0..(NFiles + NFacts + MaxActivity)
Events == [stage: {"upload_received", "validating_upload", "validating_document",
                   "staged_document", "submitting_batch", "activity",
                   "extracting_metric", "metric_completed", "rule_gating",
                   "assembling_suggestions", "awaiting_human", "completed", "failed"},
           of: Numbers, error: Errors]

Rows == [status: JobStatuses, error: Errors]
Runs == [pc: Pipeline \cup Handlers \cup {"none", "received", "ended", "lost"},
         n: Numbers, error: Errors, pending: Seq(1..MaxActivity), last: 0..MaxActivity]
Folders == [staged: 0..NFiles, manifest: BOOLEAN, failed: BOOLEAN]
Pages == [pc: {"none", "poll", "answer", "closed", "lost"},
          status: JobStatuses \ {"none"}, seen: Seq(Events), cursor: Nat]

\* Every variable has its type; a job with events is not queued, and one that no
\* request created has none.
TypeOK ==
  /\ job \in Rows
  /\ log \in Seq(Events)
  /\ run \in Runs
  /\ batch \in [status: {"none", "working", "done", "failed"}, produced: 0..MaxActivity]
  /\ folder \in Folders
  /\ case \in 0..AwaitingHuman
  /\ page \in Pages
  /\ service \in {"up", "stopping", "down"}
  /\ spent \in [stops: 0..MaxStops, failures: 0..MaxFailures, reloads: 0..MaxReloads]
  /\ job.status \in {"none", "queued"} => log = <<>>

\* FinDocIQ's activity is in the job's log once and in its order, whatever polls,
\* late events and failed fetches there were: a number follows the one before it.
IsActivity(i) == log[i].stage = "activity"
ForwardedOnce ==
  \A i \in 1..Len(log) : IsActivity(i) =>
    /\ \A j \in 1..(i - 1) : IsActivity(j) => log[j].of < log[i].of
    /\ log[i].of > 1 => \E j \in 1..(i - 1) : IsActivity(j) /\ log[j].of = log[i].of - 1

LastEvent == log[Len(log)]

\* A job that says completed has its case in front of a reviewer, its folder
\* written and unmarked, and says so last in its log, through any stop or failure.
CompletedIsReady ==
  job.status = "completed" =>
    /\ case = AwaitingHuman
    /\ folder = [staged |-> NFiles, manifest |-> TRUE, failed |-> FALSE]
    /\ log # <<>> /\ LastEvent.stage = "completed"

\* A failed job's log ends with the failure and the job's own error, unless only
\* the next start of the service could end it; no other job shows an error.
FailureIsReported ==
  /\ job.status = "failed" /\ job.error # "service_restarted" =>
       log # <<>> /\ LastEvent = [stage |-> "failed", of |-> 0, error |-> job.error]
  /\ job.status # "failed" => job.error = "none"

\* A page that has stopped following has the job's last status and every event of
\* its log, none twice, although the two are read one after the other.
LastPageIsWhole ==
  page.pc = "closed" => page.status = job.status /\ page.seen = log

\* A job that has ended is history: no late report, no second start changes it.
EndedForGood ==
  [][job.status \in {"completed", "failed"} => UNCHANGED <<job, log>>]_vars

\* A statement failed in a handler or in the route: the job stays active until the
\* service starts again, which nothing makes it do.
Abandoned == run.pc = "lost"

\* Every job ends, unless it is left to the next start, whatever FinDocIQ does and
\* wherever the service stops.
JobsEnd == [](Active => <>(~Active \/ Abandoned))
=============================================================================
