# FunderMatch: formal models and proofs

FunderMatch takes borrower PDFs in, runs seven fixed workers over an
application (extraction, eligibility, retrieval of precedents, suggestion,
guardrails, handoff), puts the case before a human reviewer, and writes the
reviewer's decision back as a verified precedent.  The program is one FastAPI
process over Postgres (workflow, jobs, memory threads, limits), Qdrant
(precedents), an encrypted file workspace and the external FinDocIQ service.

This directory holds TLA+ models of its core, the TLC runs that check them, and
proofs that TLAPS checks.  Paths below are relative to
`src/fundermatch/` of the repository unless they name another directory.

## 1. Inventory

| Component | State | Operations | Interacts with | Modelled in |
|---|---|---|---|---|
| Workflow case (`workflow/`) | `workflow_cases` row with a version, append-only `workflow_audit`, recorded `workflow_commands` | create, advance_pipeline, decide, mark_precedent_written, reopen_after_send_back | called by the workers, the write-back, the decision route and the legacy intake | `WorkflowCase` |
| Memory graph (`orchestration/graph.py`, `lifecycle.py`) | LangGraph checkpoint of a thread; `memory_threads` row; in-flight asyncio tasks | start, resume, rewind, mark_terminal / attention / retryable, complete_after_writeback, worker steps, flag_stale, cleanup_expired | runs the workers; called by the runtime, the decision route and the maintenance | `ApplicationGraph`, `Retention` |
| Agent runtime and routes (`orchestration/runtime.py`, `api/app.py`) | per-application asyncio locks, background tasks | intake, resume, cancel, decision, finalize, restart | everything | `AgentCase` |
| Fixed workers (`orchestration/workers.py`) | encrypted artifacts | run per worker; `_ensure_workflow`, `_advance` | workflow, FinDocIQ, Qdrant, workspace | `Advice`, `AgentCase` |
| Rules, retrieval, suggestion, guardrails (`rules/`, `matching/`, `suggest/`, `orchestration/guardrails.py`) | none | evaluate, retrieve, assemble, check | workers | `Advice` |
| Workspace, key rotation (`orchestration/workspace.py`, `security/rotate_keys.py`) | files with wrapped keys | stage, save, load, invalidate_from, delete, rewrap_all | workers, retention | `Advice`, `Retention`; rotation not |
| Intake jobs (`intake_jobs.py`) | `intake_jobs`, `intake_job_events` | create, append, events_after, finish, fail_interrupted | runtime, routes, page | `IntakePipeline`, `AgentCase` |
| Legacy intake (`intake.py`) | folder, manifest, FAILED marker | process | workflow, jobs, FinDocIQ | `IntakePipeline` |
| Precedent write-back (`precedent/writeback.py`) | `guardrail_outbox`, write lock | write | workflow, precedent store | `PrecedentWriteback` |
| Precedent store (`precedent/store.py`) | Qdrant points, `precedent_lifecycle` rows | seed, write_one, set_lifecycle | write-back, retriever | `PrecedentWriteback` |
| Supervisor (`orchestration/supervisor.py`) | none | route | decision route | its outcomes in `AgentCase` |
| Retention (`orchestration/maintenance.py`, `app.py`) | `guardrail_outbox`, `retention_tombstones` | run_once, _retention_cleanup | graph, FinDocIQ, workspace | `Retention` |
| API limits (`security/rate_limit.py`) | window counters, leases | allow, acquire_concurrency, release_concurrency | middleware | `ApiLimits` |
| Review page (`api/static/app.js`) | cursor, job id of the tab | followIntakeJob, resumeActiveIntake | jobs | `IntakePipeline` |
| Auth, PII, receipts, observability, CLIs, evaluations | none that the program decides on | | | not |

What is hard here: every await of the process is an interleaving point and
there is one lock, taken by two of the operations only; a run holds a private
copy of the thread's state that it writes back whole, while others merge fields
into the latest checkpoint; the workflow, the thread, the job, the artifacts and
the precedent live in five stores with no common transaction; commands are
retried, duplicated and replayed under ids that are partly fixed and partly
fresh; policy files change between two runs of one thread; the process may stop
anywhere.  `PROJECT.json` lists each such hazard at its line.

What makes the components correct:

* workflow: one effect per command, an audit that is the history, human
  authority, decisions on the record that was seen, finality of a decision;
* graph: no worker skipped before review, attempts within policy, every run
  ends in a status from which something can happen;
* runtime: one runner at a time, completion only after the precedent, a final
  decision is remembered in the end;
* workers: what a reviewer reads was let through by the guardrails, follows from
  the evidence under one policy file, and shows the best precedents in force;
* jobs and legacy intake: an outcome says the truth about case and folder and
  stays, the log is whole, a page that stops has all of it, every job ends;
* write-back and store: one precedent and one receipt per decision, lifecycle
  changes not lost;
* retention: deletes what is expired and nothing else, and a tombstone is true;
* limits: the quota per window and the leases per category, and nobody kept out
  by leases that are over.

## 2. Modules

| Module | Models | Status |
|---|---|---|
| `CaseLifecycle` | what the workflow promises about a case: five phases, an outcome | abstract specification |
| `WorkflowCase` | `WorkflowService` over either repository | complete for the component; implements `CaseLifecycle` |
| `ApplicationGraph` | `ApplicationMemoryGraph` without its callers: any call may be made by any task at any time | complete but for retention |
| `AgentCase` | the API process around one application: requests, jobs, lock, restart, workflow; extends `ApplicationGraph` | implements `ApplicationGraph` and `CaseLifecycle` |
| `Advice` | what the workers compute, check and leave in the workspace and the checkpoint | the production composition |
| `IntakePipeline` | one job of the legacy intake, with its task, log, page and service | complete for the component |
| `VerifiedMemory` | what the write-back promises about the memory of one case | abstract specification |
| `PrecedentWriteback` | `PrecedentWritebackService.write` and the lifecycle route over workflow, outbox and Qdrant point | complete but for seeding a corpus; implements `VerifiedMemory` |
| `Retention` | the maintenance task beside the calls on the threads it deletes | complete for the component |
| `ApiLimits` | the middleware's rate counter and concurrency leases | complete for the component |
| `MC...` | the instances TLC checks | |
| `...Proofs` | theorems about the module they are named after (`AgentCaseProofs` also about `ApplicationGraph`; `HandoffProofs` about `AgentCase`) | |

An operator whose comment begins with *Fault:* is a plausible bug in the
definition whose name it extends.  No action uses it; it stands before that
definition so that each property can be tried against a wrong program.

### 2.1 WorkflowCase

`record`, `audit` and `commands` are the three tables of
`migrations/001_hitl_workflow.sql` for one application (every statement is keyed
by `application_id`).  `session[c]` is a client's request: `sent` to the
service, or `missed` when Postgres' lookup of the command found nothing and the
row lock is next.

* `Compose` is a client that reads the record and sends a command with the
  version it read; `Duplicate` a second delivery of a request in flight;
  `Answer` inside a commit either ends the request or loses its answer, and the
  client sends the same command again.
* `LookupHit` / `LookupMiss` are `_command_result`; `Create`, `AdvancePipeline`,
  `Decide`, `MarkPrecedentWritten`, `ReopenAfterSendBack` are the five service
  operations, each one locked transaction (`Commit`): guard of the transition
  function, new row, audit event, recorded result, unique keys.  `Refuse` is
  every error answer, `Abort` a lost connection before the commit.
* `Repository = "memory"` merges lookup and transaction under one lock, and its
  create does not look commands up, as in `repository.py`.  The runs use
  Postgres; the theorems cover both.

Abstracted: reasons, conditions and timestamps; a suggestion is an opaque value,
except `"empty"`, the JSON object `{}`, which the schema accepts and
`service.py:103` takes for false.  Pipelines offer it in `wc_postgres` too, so
every property holds with it, and a case can reach its reviewer without a
suggestion (section 6).
A command id is not reused with another payload: the ids are clients' UUIDs and
the code compares no payloads.

### 2.2 ApplicationGraph

`checkpoint` is the latest checkpoint, `lifecycle` the `memory_threads` row, and
`task[t]` an asyncio task inside a method: where it is (`pc`), what its next
write is for, and the state it holds.

| Action | Code |
|---|---|
| `StartAgain`, `StartNew`, `CreateThread` | `start` |
| `Resume` | `resume`, with the exhausted worker that ends the thread |
| `Rewind`, `UpdateRewound`, `ResetThread` | `rewind`: check, `aupdate_state`, lifecycle |
| `Invoke`, `Settle` | `_invoke`: input into the latest checkpoint; lifecycle after the run |
| `RefuseAttempt`, `RunFails`, `RunSucceeds`, `SaveCheckpoint` | `_run_worker`, `_success_update`, LangGraph's checkpoint of the step |
| `Mark`, `Reread`, `UpdateStatus` | `mark_terminal`, `mark_retryable`, `mark_needs_attention`, `complete_after_writeback` |
| `MarkFails` | a statement of such a mark raises, before or after its checkpoint |
| `Return`, `Stop` | the caller goes on; the process ends |

LangGraph is external and taken as it is used: the last checkpoint written wins,
`aupdate_state` merges its fields into the latest one, a run carries its state
from step to step and writes it whole.  Two simplifications: the checkpoint of
the input and of the `__start__` step are one, and a step's checkpoint is
written before the next worker starts (LangGraph may overlap the two; a crash
then loses one more step, which is a stop one step earlier).  Of the database
errors inside a graph method those of the marks are modelled, since the code
handles them (`app.py:1247`); a run, a start or a rewind whose statement fails
leaves what a stop at that point leaves, for the one request.

### 2.3 AgentCase

Each task carries at most one API request (`request[t]`).  Only `resume` and
`cancel` take `lock`.  Of the workflow this module keeps the state, the
decisions, and the set of pipeline commands recorded: `_advance` derives a
command's id from application and target, so a target's command is used once
(`Advanced`).

* Intake: `CreateIntakeJob`, `BeginStart`, `EndRun` (`_execute` finishes the job
  for some thread states and not for others).  The route draws a fresh
  application id for every upload, so one application has one intake; a second
  job in `Jobs` is another caller of the runtime's `start`, which the code
  admits by id.
* `ResumeRequest`, `ResumeLocked`, `BeginResume`; `CancelRequest`,
  `CancelLocked`, `BeginCancel`, `EndCancel`.
* Decision: `Decide` or `DecideAgain` (the same command delivered again), then
  `RouteAmbiguous`, `RouteSendBack` and `BeginSendBack`, or `RouteFinal`.
* Finalize: `WriteBack`, or `WriteBackFails` with or without the workflow's
  transition (its answer may be lost), or `WriteBackRefused`; then
  `BeginComplete` / `BeginRetryable`; `EndDecision`.  A final decision carries
  `accepted`: whether its funder is one the write-back lets through, which the
  workflow does not ask (`writeback.py:83-92`, `256-278`).  A reviewer chooses it
  from `Selections`.  `MarkBreaks` fails a mark; if it is the completion's, the
  same `try` catches it and the thread is marked retryable beside a written
  precedent (`CompletionFailed`).  A cancel finishes its job only if its mark
  succeeds.
* `WorkerSucceeds` and `WorkerFails` join the graph's step with the worker's
  effect on the workflow; a worker may fail after its effect has committed.
* `Restart`: tasks, requests and the lock vanish, `fail_interrupted` runs.

Simplified: `_advance` is one step (its retries are `WorkflowCase`'s concern);
the reads of checkpoint and workflow at the head of a resume request are one
step; a stage the supervisor resolves is any stage; queued and running are one
job status, as every guard treats them alike.

### 2.4 Advice

The workers of one thread, one after another, over `disk` (the workspace's
artifacts), `cp` (the checkpoint's evidence, eligibility and receipts) and
`stored` (the precedents in Qdrant).  `run` is the worker under way and what it
holds in memory; a worker that reads, calls out and writes does so in steps, so
the corpus may change between them.

| Action | Code |
|---|---|
| `ProcessDocuments`, `Blocked` | `DocumentProcessingWorker` |
| `LoadDocuments`, `Extract`, `FactMissing`, `FactUnusable`, `FormProfile` | `FinancialMetricExtractionWorker`: one saved figure after another, saved before it is examined |
| `Evaluate` | `DeterministicEligibilityWorker` over `EligibilityEngine` (`Passed`, `EvaluateAll`) |
| `Retrieve`, `NobodyEligible`, `SearchProfile`, `SearchComments`, `Retrieved` | `EligiblePrecedentRetrievalWorker` over the retriever: two queries (`Nearest`), their combination and order (`Matches`), the comparison with the checkpointed eligibility |
| `Suggest` | `AdvisorySuggestionWorker` over the assembler (`Assemble`) |
| `CheckReceipts`, `LoadArtifacts`, `Refuse`, `Pass` | `GuardrailWorker`; `Verdict` has its checks in their order |
| `HandOff`, `Advance` | the handoff; `_advance`, which takes the case to a state once |
| `Commit`, `Stop`, `Fails`, `LimitReached`, `Resume` | `_success_update`, the failure paths of `_run_worker`, `resume` |
| `SendBack`, `SendBackFails` | `invalidate_from`, then `rewind`, refused or cut off |
| `PrecedentChanges`, `Restart` | the corpus changes; another policy file or guardrail policy |

Abstracted: attempts are not counted (`AgentCase` does that) but may run out at
any worker; overlapping runs, cancels, decisions and the supervisor are
`AgentCase`'s; a figure stands for its citation; similarities are constants of
the precedents; the order of funders in a policy file is left out; receipts are
the policy hash they carry.  The case takes `AI_SUGGESTED` once, so after a
send-back it keeps the suggestion of the first pass, and it takes one send-back,
which may be delivered again.  A restart falls between two runs: one that loses
a worker leaves the thread running for good, which is `ac_interrupted`'s finding.

### 2.5 IntakePipeline

`job` is the row of `intake_jobs`, `log` its `intake_job_events`; `run` the
route and the background task at a step of `BorrowerIntakeService.process`;
`batch` FinDocIQ's work; `folder` staged files, manifest and FAILED marker;
`case` the workflow state reached; `page` the tab that polls; `service` the
process.  Each statement or call is a step of its own: `CreateIntakeJob` and
`AcceptUpload` (the route), `StageFiles`, `IngestBatch` with the activity
forwarded while it runs, `ExtractFacts`, `AdvanceCase`, `Handle` (the task's
handlers), `StatementFails`; `Poll` with the job read first and the events
second; `Stop`, `Stopped`, `Crash`, `Start`.

The synchronous `POST /v1/intake` runs the same process without job and log.  A
retry of a failed upload is a new application with a new job, so it is another
instance of the module; the first one's case stays where it was.

### 2.6 PrecedentWriteback

`AgentCase` has the write-back as one step; here it is taken apart, for one case
that is decided and not sent back.  `workflow` is the case with the command that
wrote it and its receipt, `outbox` the rows of `guardrail_outbox`, `point` the
case's Qdrant point, `row` its one row of `precedent_lifecycle`.  `writer[w]` is
a call of `write`, `change[r]` a call of the lifecycle route: each statement or
call to a store is a step, so calls interleave between them.

| Action | Code |
|---|---|
| `Begin`, `OutboxBegin` | `write` to `_outbox_begin`, with its conflict on another payload; a decision that is not `accepted` goes no further |
| `Upsert`, `Confirm` | `write_one` under the write lock; the payload is whole, so its status is `active` |
| `UpsertFails`, `ConfirmFails`, `OutboxFail` | the `except` of `write`; a failed upsert may have changed the point |
| `OutboxComplete`, `Mark` | the completed row, then `mark_precedent_written`: transition, replay or refusal |
| `AskChange`, `ReadStatus`, `SetStatus`, `VerifyStatus`, `AuditChange` | the lifecycle route and `set_lifecycle`, with read, comparison and write apart |
| `DatabaseFails`, `SetStatusFails`, `Restart` | a statement raises; the process stops and starts, perhaps with another policy |

A payload is the decision, which is final, with the policy's hash and validity:
a policy stands for a payload.  `workflow.accepted`, either value of which a case
may begin with, says whether the bundle and the decision pass the checks before
the outbox.  It is fixed with the decision, which cannot be amended.  A call on a
written case, or for a decision that is refused, changes nothing and is left out.
Within one process a
thread that runs `write_one` is taken to end before the process does.

### 2.7 Retention

For each application: its `row` of `memory_threads` (status, whether its time is
over, `is_stale`), the checkpoint's status `cp`, whether it has `files` and
FinDocIQ `docs`, the `outbox` command of each policy and the tombstone `tomb`.
`keeper` is the maintenance task, `call[a]` a call on the thread.

| Action | Code |
|---|---|
| `FlagStale`, `ListExpired`, `NextExpired` | `AgentMaintenance.run_once`, the loop of `cleanup_expired` |
| `Outbox`, `DeleteDocuments`, `DeleteFiles`, `RecordFailed`, `Complete`, `DeleteFolder` | `_retention_cleanup` |
| `DeleteThread`, `DeleteRow` | `adelete_thread`, then the lifecycle row |
| `LoopDies` | an exception that leaves `_agent_maintenance_loop` |
| `Mark`, `Reopen`, `Update`, `WriteStatus`, `Invoke`, `Load`, `Save` | the graph's calls, as far as they touch what the retention deletes |

One call of an application is under way at a time (overlapping calls are
`AgentCase`'s).  `met[a]` remembers that a call overlapped the pass that had
listed its application.  The code has no lock there: such a call can write a
checkpoint, a folder or documents after they were deleted, or have its thread
deleted under it although it is no longer terminal, where the repository's
`README.md:500-501` says that stale non-terminal cases are never deleted.  The
safety properties speak of the other cases, and name `met` where they do not.

### 2.8 ApiLimits

`now` is the database's clock, `hits` the rows of `api_rate_limits`,
`leases` those of `api_concurrency_leases`, `req[r]` a request in the
middleware.  `Allow` is one statement and one step.  `acquire_concurrency` is
taken apart: `Acquire` begins the transaction, whose `now()` stands still from
there; `TakeLock` gets the category's advisory lock, `Count` purges and counts,
`Enter` inserts the lease and commits.  `Release` deletes it; `Lose` is a failed
statement or a lost release, `LoseAnswer` a lease committed for a request that
is told nothing, `Crash` the end of the process.

A lease bounds a request only for `concurrency_lease_seconds`; a request may run
on, so `InsideBounded` counts the requests within their leases.  The rate is
counted before authentication and refused requests count.  Rows of
`api_rate_limits` are never pruned.  `POST /v1/intake` falls under the category
of reads (`app.py:1298`), whose lease is a minute, and runs the whole pipeline.

## 3. Runs

All finish within minutes on two workers.  `CHECK_DEADLOCK FALSE` stands where the
bounded requests of an instance run out, or where a thread or job is over.

| Run | Question | Result |
|---|---|---|
| `wc_postgres` | one pipeline, one reviewer, from no case to a precedent through a send-back: `TypeOK`, `AuditIsHistory`, `HumanAuthority`, `ImplementsLifecycle` | holds |
| `wc_review_race` | two clients with both roles race from a case under review: `CommandsMatchAudit`, `DecidesOnRecordSeen`, `FinalDecisionStands` | holds |
| `ac_serial` | one request at a time, production attempt limits but for a second one of the handoff, failures of workers, write-backs, answers and marks, ambiguous send-backs, refused decisions: `TypeOK`, `AttemptsWithinPolicy`, `RunsEnd`, `DecisionIsRemembered` | holds |
| `ac_overlap` | two overlapping requests through two decisions, a replay, a stop, a cancel, a failed write-back, a handoff that fails before or after its effect: `OneRunner`, `ReviewAfterEveryWorker`, `CompletedOnlyAfterPrecedent`, `WaitingMeansHandedOff` | holds |
| `ac_cancel_race` | `CancelledStays`: "Agent processing was cancelled" | violated: the run's next checkpoint overwrites it |
| `ac_interrupted` | `InterruptedIsResumable`: "the last checkpoint remains resumable" | violated: it says running, and nothing resumes it |
| `ac_send_back` | `RerunReachesReviewer`: the pipeline "stops at `AWAITING_HUMAN`" | violated: the rerun's commands are replays, the case stays behind |
| `af_advice` | a thread through failures, resumes, a repeated send-back, a change of the corpus and a restart under another policy: `TypeOK`, `ReviewedIsValidated`, `AdviceIsGrounded`, `RankingIsBest` | holds |
| `ij_intake` | one job through FinDocIQ's failures, a failing statement, two stops and a reloaded page: `TypeOK`, `ForwardedOnce`, `CompletedIsReady`, `FailureIsReported`, `LastPageIsWhole`, `EndedForGood`, `JobsEnd` | holds |
| `pm_writeback` | two calls of `write` beside a reviewer, a failure anywhere, a restart with another policy: `TypeOK`, `WrittenIsConfirmed`, `RetiredStays`, `ImplementsMemory`, `WrittenUnlessRefused` | holds |
| `rt_retention` | two applications, one of them called again, failures at every step, a restart under another policy: `TypeOK`, `TombstoneTrue`, `OnlyExpiredForgotten`, `ExpiredForgotten` | holds |
| `al_limits` | three uploads for one place, a reveal that purges their leases, passing time, failures: `TypeOK`, `InsideBounded`, `AdmittedWithinQuota`, `RefusedOnlyWhenFull` | holds |

`PROJECT.json` quotes the line each violated property comes from.  The passing
properties are stated so that known behaviours are within them: for example
`WaitingMeansHandedOff` speaks of threads before any send-back and `OneRunner`
of the time before a decision, because after a send-back the code runs without
a lock, and `RetiredStays` of cases with no write under way.  Four more
except a case in which the code does otherwise, and which the runs contain
(section 6 has the details):

* `RunsEnd` speaks of a thread at a worker it has not completed.  `ac_serial`
  takes the other route too: an ambiguous send-back leaves the thread at its
  completed handoff, and a resume that repeats it leaves the thread running.  A
  stop between two workers is left to `ac_interrupted`.
* `DecisionIsRemembered` speaks of decisions the write-back accepts.  Its first
  part says that such a decision ends as a precedent, unless the thread is
  cancelled or the mark of a failure fails as well, after which nothing tells a
  client to resume.  The second says that once the thread is marked, no further
  failure lets the decision down.
* `AttemptsWithinPolicy` lets an ambiguous send-back mark a thread that ended
  over a limit; its next attempt is refused all the same.
* `WrittenUnlessRefused` excepts what the write-back refuses: by the decision,
  or by the payload of the finalization's first attempt.

What the properties of the later modules say beyond the words of their tables:

* `ReviewedIsValidated` joins three stores: the suggestion on the workflow case,
  which the case takes once, says what the guardrails held against the checkpoint
  two workers later, although the worker that recorded it may have run again.  It
  is true because a suggestion is a function of the saved retrieval and nothing
  else that changes, and false the moment the assembler looks at the corpus.
  The two need not be equal: after two restarts, to another guardrail policy and
  back, the one on the case may name the other policy in its claims.
* `AdviceIsGrounded` joins checkpoint and artifacts; it leans on the comparison
  of `workers.py:440`, without which a retrieval under a new policy file passes
  beside the eligibility of the old one.
* `RankingIsBest` names the condition under which two cut queries and a filter
  afterwards are the best precedents: that the eligible pool fits
  `candidate_limit` and does not change between the queries.  Outside it they
  are not: a lapsed precedent takes a place, and a cut hit counts zero.
* `AdmittedWithinQuota` allows twice the quota, which a fixed window does admit.
* `JobsEnd` excepts `Abandoned`: a statement that fails in the route or in a
  handler leaves the job active until the next start.
* `ExpiredForgotten` excepts a dead task: one application's exception ends the
  maintenance (`app.py:1130`).

### Bounds

* `wc_postgres`: 9 command ids and 6 versions hold the whole path (create, four
  advances, decision, and either the precedent or a reopen).  `Targets`
  contains a state a pipeline must never enter.  `wc_review_race` starts at
  `AWAITING_HUMAN`, version 4 (the initial state is one `wc_postgres` reaches)
  and goes to version 7 with 12 ids: decide, reopen, advance again.
  `MaxLag` caps how far a request in flight may fall behind; three versions are
  a full send-back round (decide, reopen, advance), the least after which a
  stale command sees the same state again.
* `MCAgentCase` has the seven workers in `DEFAULT_WORKER_ORDER`; the attempt
  limits are those of `configs/guardrails/production.yaml`, or limits never
  reached where a question is not about them.  In `ac_serial`
  the handoff has a second attempt: with production's one, the handoff that an
  ambiguous send-back makes a resume repeat is refused, and the thread ends.  Two tasks are the least that
  overlap; two jobs the least that compete; two decisions give a send-back and
  a final one.  Stops, cancels, replays and failed write-backs happen once or
  twice, a failing mark (`MaxMarkFailures`) once.  `Selections` has both an
  accepted and a refused funder in `ac_serial`.  `FailingWorkers` are chosen so
  that a failure falls first, in the middle and next to the handoff, and in
  `ac_overlap` at the handoff itself, where the case may have moved already.
* `MCAdvice`: two funders and two policy files give every eligible set, one of
  them empty, and a file that names fewer funders; two extracted facts give a
  figure saved before a failure and one after it; three precedents, two of them
  tied on one vector, with `TopK` 2 and `MinScore` between their scores, give an
  order, a cut and a drop.  One change of the corpus and one restart fall at
  every step in turn.
* `ij_intake`: two files, two facts and two activity events are the least with a
  first and a next of each; two stops are one in the job and one after a start.
* `pm_writeback`: two calls are the least that overlap, two commands the least
  that differ; two lifecycle commands let a reviewer change a case twice, the
  second change being the one whose row cannot be inserted.  One failure and one
  stop fall at every step in turn.  More reviewers are left to the proofs.
* `rt_retention`: two applications, so that one pass lists one and leaves the
  other, or dies between them; two calls end a thread, reopen it and end it
  again.
* `al_limits`: windows and leases of two ticks over four instants of time give a
  window's end, a lease's end and a transaction older than both; one place for
  three requests lets one hold it, one lose it and one wait.
* `TaskSymmetry` and `UploadSymmetry` are sound: tasks and uploads are only
  compared for equality, and no run that uses them checks a liveness property.

### Fairness

`AgentCase`'s `FairSpec` has weak fairness of `Step(t)`: the event loop serves a
task whose await can end, workers have deadlines in production, and a request
that has arrived is carried through.  Which outcome a worker or a write-back has
stays free.  `RetryingSpec` adds that some client resumes a job whose write-back
is marked retryable; the code has no such scheduler, so `DecisionIsRemembered` is
a promise to clients that retry.  `ac_serial` has no stop: after one, `RunsEnd`
is false, which is `ac_interrupted`'s finding.

`PrecedentWriteback`'s `RetryingSpec` has weak fairness of a call under way and
strong fairness of a new finalization: the client of `AgentCase`'s
`RetryingSpec` that resumes the job.  It is strong because `Writers` bounds the
calls under way, so another client's calls could otherwise keep it out for ever.
`WrittenUnlessRefused` excepts the change of policy, and reviewers who retire the
point again and again between an upsert and its verification.

`IntakePipeline`'s `FairSpec` has weak fairness of the request and the task (the
event loop), of the batch's end (the client has a timeout), and of the service's
stopping and starting (a supervisor restarts it; a job is ended by that start).
The page has none.  `Retention`'s has weak fairness of the task's next step: the
loop sleeps for its interval and goes on.  Calls, restarts and time have none.

## 4. Proofs

`tlapm` checks the proof modules to the last leaf, with SMT, Zenon and, for the
temporal steps, LS4.

**WorkflowCaseProofs** (for all clients, roles, ids, suggestions, stages and both
repositories, from `WorkflowAssumption`): `TypeCorrect`, `AuditCorrect`,
`CommandsCorrect`, `AuthorityCorrect`, `SeenCorrect`, `FinalDecisionCorrect`,
`LifecycleImplemented`.  The steps are first reduced to *it stores nothing, or it
is one of five guarded commits*.  Each invariant is then shown over a commit.
`AuditIsHistory` is inductive with the types; `CommandsMatchAudit` needs that a
committed id is unrecorded (the unique key) and that the audit is the history;
`HumanAuthority` needs that a decided row stands on a decision event;
`DecidesOnRecordSeen` that a row seen at a version is the row at that version.
The refinement maps a row's state to a phase and its decision to the outcome.

**AgentCaseProofs** (for any worker order without repetition, any attempt limits,
tasks, jobs, stages and bounds, from `GraphAssumption` and `AgentAssumption`):

* `GraphInvariant`: `GraphInv` says that the checkpoint, and every state a task
  may still write, counts all workers as completed if it waits for review, and
  that no other status write can make it wait.  The strengthening is needed
  because a run writes its private copy over whatever is there.  From it
  `GraphTypeCorrect` and `NoWorkerSkipped`.
* `GraphImplemented`: every step of `AgentCase` is a step of `ApplicationGraph`
  or leaves it alone; `ReviewedAfterEveryWorker` carries the invariant over.
* `CaseInvariant`: `CaseInv` says that at most the last decision is open, that
  while it is the case stands decided as it says, that a finalizing request's
  case is decided for good and stays so, and that a task about to write
  `completed` does so beside a written precedent.  From it `AgentTypeCorrect`
  and `CompletedCorrect`.  The core of the argument is that a decided case never
  moves but to the precedent (`Grows`), which is what keeps the promises of all
  other tasks' requests across a step.

**HandoffProofs** (the same; for `HandoffCorrect`, `human_review` among the workers):
`HandoffCorrect`, `OneRunnerCorrect`, `AttemptsCorrect`, `CaseImplemented`.  A waiting
thread has completed every worker, the handoff too, so it is enough that the case has
reached what each completed worker advances it to.  `HandoffInv` says so of the workers
completed in the checkpoint *or in a copy a task holds and may still write*; of the
targets whose command is recorded, since a replayed command advances nothing; and
that nothing rewinds before a send-back.  It is kept because until then a case only
climbs (`Climbs`).
`RunnerInv` is about who may run workers before a decision.  Resumes and cancels
hold the application's lock, an intake does not; so it says that the lock's holder
is the one request past it, that one job is active and only its intake starts a
thread, when there is none, and that the checkpoint a task runs from cannot be
resumed.  With one runner the attempts in its copy are those of the checkpoint, so
the comparison with the limit is about the number that is then written.
`CaseImplemented` ties `AgentCase`'s case, whose transitions are single steps, to
the `CaseLifecycle` that `WorkflowCase` implements; `CaseInv` supplies that a
send-back is reopened once and that a write-back finds a final decision.  No run
checks `AgentCase`'s `ImplementsLifecycle`: it is proved.

**PrecedentWritebackProofs** (for any calls, commands, reviewers, policies and bounds,
from `WritebackAssumption`): `WritebackInvariant`, `WritebackTypeCorrect`,
`WrittenCorrect`, `RetiredCorrect`, `MemoryImplemented`.  That the point holds what
the receipt says is not inductive: a late call may still upsert.  `WritebackInv`
adds that a call under way has the running policy's payload, and that if the case
is written under it, so is its receipt, since calls do not outlive a process.

**IntakePipelineProofs** (for any number of files, facts, activity events, stops,
failures and reloads, from `IntakeAssumption`): `IntakeTypeCorrect` and one theorem
for each safety property of the run.  None is inductive.  `RunInv` relates the
place of the run to the folder, the case and the job's row; `LogInv` says that
the log has FinDocIQ's events exactly up to the task's cursor and that those
fetched follow it; `PageInv` that the page has the log up to its own cursor, and
that a final status it has read is still the job's, which is why events read
after it are the last ones.

**ApiLimitsProofs** (for any requests, subjects, routes, policies and times, from
`LimitsAssumption`): `LimitsTypeCorrect`, `InsideBoundedCorrect`,
`AdmittedWithinQuotaCorrect`, `RefusedOnlyWhenFullCorrect`.  That the requests
within their leases are bounded needs that all rows of a category are, expired or
not, with a place left for the holder of the lock that has counted (`RowsInv`),
and that there is one such holder (`LockInv`).  `QuotaInv` bounds the requests of
one window by its counter; a span of `window_seconds` meets two windows.

**RetentionProofs** (for any applications, policies, restarts and calls, from
`RetentionAssumption`): `RetentionTypeCorrect`, `TombstoneTrueCorrect`,
`OnlyExpiredForgottenCorrect`.  The invariant adds what the maintenance task has
done by each of its steps, that a listed application which no call met is still
expired with no call under way, and that a worker that has loaded from the folder
works while the folder is there, which is what keeps a tombstone true through a
later reopening.

**AdviceProofs** (for any policy files, guardrail policies, facts, answers, funders,
precedents, similarities, weights and bounds, from `AdviceAssumption`: a policy
file names a funder, a fact is extracted, the weights add up to one):
`AdviceTypeCorrect`, `ReviewedCorrect`, `GroundedCorrect`, `RankingCorrect`.
`AdviceInv` says that an artifact in the workspace, if its worker is done, follows
from the evidence and eligibility *of the checkpoint* (`Settled`, `Drawn`), that a
worker holds what will follow from them once it commits, that what the guardrails
let through does, and, until a send-back, that there is one retrieval all
suggestions are drawn from.  It must be about what is left in the workspace, not
what should be there, since a send-back cut off before the rewind takes artifacts
away and leaves the checkpoint.  Of the policy file it says only that there is one
which explains the results: the process may have moved on to another.
`RankingCorrect` rests on `RankedIsBest`: the places are one-to-one into as many
numbers as there are precedents, hence every place up to `TopK` is somebody's.

**Only model-checked.**  Liveness (`RunsEnd`, `DecisionIsRemembered`,
`WrittenUnlessRefused`, `JobsEnd`, `ExpiredForgotten`) is beyond the prover.
`AttemptsCorrect` speaks of the time before a decision: after one, overlapping runs
may write back each other's older counts.  `ac_serial` checks `AttemptsWithinPolicy`
to the end, one request at a time.

## 5. Plan

1. (done) Workflow case: model, refinement, proofs.
2. (done) Graph and application: models, refinement, types, no worker skipped,
   completion after the precedent.
3. (done) `PrecedentWriteback`: outbox, upsert, receipt and transition as separate
   steps with stops between them, and `set_lifecycle` beside it; refinement, proofs.
4. (done) `IntakePipeline`: the legacy process, its log, its page; proofs.
5. (done) `Retention`: expiry, outbox and deletion, against calls on the same
   thread; proofs.
6. (done) `ApiLimits`: window counters and leases; proofs.
7. (done) `Advice`: rules, retrieval, suggestion and guardrails over the artifacts.
8. (done) Proof of `WaitingMeansHandedOff`.
9. (done) Proofs of `OneRunner` and `AttemptsWithinPolicy` before a decision, and of
   all properties of `Advice`.
10. Left: refinements of `IntakePipeline` and `ApiLimits` to abstract specifications.

Order: what decides about a case first, then what writes to other stores, then
what limits and maintains.

## 6. Not modelled

FinDocIQ, Qdrant, Postgres and LangGraph as such (external, modelled by how the
code uses them); the parsing of figures and the content of documents, narratives
and prompts; the supervisor's keyword rules; tokens, signatures, hashing and
encryption as algorithms; the rotation of keys, an offline command
(the repository's `README.md:470`) whose midway stop leaves files under two keys
that a rerun with the old key cannot open (`workspace.py:165`); observability;
command-line tools, demos and offline evaluations; the browser user interface but
for the page that follows a job.

Behaviours the models contain and no property rules out:

* A decision made between the handoff's commit to the workflow and the handoff's
  own checkpoint is answered, but the checkpoint then overwrites the thread: it
  can say `waiting_for_review` beside a written precedent, or a send-back's
  rewind raises after the case was reopened (`graph.py:564`, `app.py:774`).
  Delivering the decision again repairs the first.
* In the agent runtime a finish of a job overwrites whatever status the job has
  (`intake_jobs.py:285`); in the legacy intake nothing else finishes it.
* Cancelling a thread that waits for review leaves the case at `AWAITING_HUMAN`,
  where it can still be decided; only the thread is cancelled.
* A thread marked `needs_attention` after an ambiguous send-back still stands at
  its completed handoff (`graph.py:615`).  A resume runs the handoff again: with
  one attempt, as in production, it is over its limit and the thread ends as
  failed; with more, or no policy, its second completion is invalid and the
  thread stays `running`, which nothing takes up, where the repository's
  `README.md:519` says that it stops at `needs_attention`.
* A decision for a funder the advisory bundle lacks, or excludes without
  overrides, is recorded by the workflow and refused by the write-back at every
  retry (`writeback.py:83-92`), and it is final; the answer says that the
  write-back "can be retried" (`app.py:1251`).
* If the completion, or the answer of the workflow's transition, fails after the
  precedent is written, the thread is marked retryable (`app.py:1247`), but the
  resume route finalizes only a `HUMAN_DECIDED` case (`app.py:692`): it reruns
  the handoff, whose one attempt is used, and the thread of a written case ends
  as failed.  Delivering the decision again instead completes it.
* The payload `{}` passes the check for a suggestion (`service.py:90`) and is then
  not kept (`service.py:103`): the case is put before a reviewer without one.
* Two deliveries of one send-back rewind the same thread, the second under the
  rerun of the first, and both run its workers (`app.py:774`).
* A send-back's rerun counts against the attempts of the first pass
  (`graph.py:453`), so a worker with one attempt, as eligibility has in
  production, can be sent back to and ends the thread instead of running, where
  the repository's `README.md:518` says that send-back can select an exact
  worker.
* A retry that overlaps its first delivery under Postgres is refused with a
  conflict (`postgres.py:94`), where `README.md:243` says that retries replay
  the original result.  A later retry does replay it.
* After a change of policy the outbox refuses the retry of its own finalization
  (`writeback.py:143`), whose failure is answered as retryable (`app.py:1251`).
* A decision delivered again with Qdrant down, or after its precedent was
  revoked (the receipt's hash no longer matches, `writeback.py:188`), marks the
  completed thread `failed_retryable` (`app.py:1248`).
* A stop between a decision, the reopening and the rewind leaves a decided case
  and a thread that still waits (`app.py:753`); only the client's sending the
  same command again goes on.
* A case whose first write-back failed after its upsert has a point that a
  reviewer can revoke; the retry upserts it as active again (`store.py:70`).
  Two reviewers can both pass `set_lifecycle`'s comparison, and the second one's
  change wins.  A second change of a case reaches the point but not
  `precedent_lifecycle`, whose primary key is the case (`app.py:899`).
* A late failure of another delivery marks a completed outbox row `failed`
  (`writeback.py:170`); its receipt stays.
* A send-back delivered again, or refused, has removed its artifacts before the
  thread's status is asked for (`runtime.py:150`): the thread becomes retryable
  at workers that cannot load what they need, until it is sent back further.
* A figure such as 7.0 for `years_operating` becomes 7 and never equals its own
  evidence as a text (`guardrails.py:144`): every resume needs attention again.
* A precedent revoked or lapsed after the retrieval still reaches the reviewer:
  the resolver asks for existence only (`guardrails.py:45`).
* Any `RuntimeError` of the retrieval, an elapsed deadline of the context
  included, is taken for an ineligible precedent and ends the thread
  (`workers.py:430`); a receipt's latency includes what precedes the deadline's
  start, so a worker within its deadline can be refused afterwards
  (`guardrails.py:85`).
* A legacy intake whose last report fails leaves its case before a reviewer, its
  manifest beside a FAILED marker and its job failed and retryable
  (`intake.py:234`); the retry the answer calls safe (`app.py:596`) makes a
  second application.
