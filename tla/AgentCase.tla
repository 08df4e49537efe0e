----------------------------- MODULE AgentCase -----------------------------
(***************************************************************************)
(* One application in the API process: intake jobs, resume and cancel      *)
(* requests and the reviewer's decision route of app.py, over the memory   *)
(* thread (ApplicationGraph), the workflow case and the intake jobs.       *)
(*                                                                         *)
(* A request runs in a task of the graph.  Only resume and cancel take the *)
(* application's lock.  Of the workflow this module keeps the state, the   *)
(* decision and which pipeline commands are recorded, since a worker's     *)
(* command id is fixed by its target state; WorkflowCase has the versions. *)
(***************************************************************************)
EXTENDS ApplicationGraph

CONSTANTS
  Jobs,              \* intake job ids
  FailingWorkers,    \* bound: the workers whose dependencies fail
  Failures,          \* bound: the statuses a failing worker may end with
  DecisionActions,   \* bound: the actions a reviewer chooses from
  RestartStages,     \* bound: the stages a send-back names, or leaves to the supervisor
  Selections,        \* bound: whether the write-back accepts a final decision's funder
  MaxDecisions,      \* bound: how many decisions are made
  MaxReplays,        \* bound: how many times a decision is delivered again
  MaxStops,          \* bound: how often the process stops
  MaxCancels,        \* bound: how many cancel requests arrive
  MaxWriteFailures,  \* bound: how many precedent write-backs fail
  MaxMarkFailures    \* bound: how many marks of a thread fail

\* The restart stages that are workers; the supervisor resolves to one of them.
Stages == RestartStages \ {"supervisor"}

\* The states of a case in the order of WorkflowState.
Ladder == <<"ABSENT", "INTAKE", "EXTRACTED", "RULE_GATED", "AI_SUGGESTED",
            "AWAITING_HUMAN", "HUMAN_DECIDED", "PRECEDENT_WRITTEN">>
Rank(state) == CHOOSE i \in 1..Len(Ladder) : Ladder[i] = state

\* Fault: the handoff leaves the case where it is.
TargetOfWithoutHandoff ==
  [document_processing |-> "INTAKE", financial_analysis |-> "EXTRACTED",
   eligibility |-> "RULE_GATED", suggestion |-> "AI_SUGGESTED"]

\* The state each worker advances the case to; the other workers leave it alone.
TargetOf ==
  [document_processing |-> "INTAKE", financial_analysis |-> "EXTRACTED",
   eligibility |-> "RULE_GATED", suggestion |-> "AI_SUGGESTED",
   human_review |-> "AWAITING_HUMAN"]

RestartState ==
  [document_processing |-> "INTAKE", financial_analysis |-> "INTAKE",
   eligibility |-> "EXTRACTED", precedent_retrieval |-> "RULE_GATED",
   suggestion |-> "RULE_GATED", guardrails |-> "AI_SUGGESTED"]

ASSUME AgentAssumption ==
  /\ FailingWorkers \subseteq Workers
  /\ Failures \subseteq Resumable \cup {"failed_terminal"}
  /\ RestartStages \subseteq DOMAIN RestartState \cup {"supervisor"}
  /\ Selections \subseteq BOOLEAN
  /\ "free" \notin Tasks

VARIABLES
  workflow,   \* state, decision, whether its funder is accepted, recorded commands
  jobs,       \* each intake job's status and its retryable mark
  request,    \* each task's API request: kind, where it is, its job or decision
  lock,       \* the holder of the application's asyncio lock
  spent       \* how much of each bound is used up

caseVars == <<workflow, jobs, request, lock, spent>>
vars == <<graphVars, caseVars>>

\* of: the job id, or the position of the decision among those recorded;
\* stage: the worker a send-back restarts.
Quiet == [kind |-> "none", pc |-> "none", of |-> 0, stage |-> "none"]

Asks(t, kind, pc) == request[t].kind = kind /\ request[t].pc = pc
Ask(t, kind, pc, of) ==
  request' = [request EXCEPT ![t] = [kind |-> kind, pc |-> pc, of |-> of, stage |-> "none"]]
GoOn(t, pc) == request' = [request EXCEPT ![t].pc = pc]
EndRequest(t) == request' = [request EXCEPT ![t] = Quiet]
Spend(what) == spent' = [spent EXCEPT ![what] = @ + 1]

(***************************************************************************)
(* The workers' effect on the workflow.                                    *)
(***************************************************************************)
\* _ensure_workflow creates a missing case.  A target already reached returns
\* the case; a recorded command is replayed and changes nothing; the rest is
\* one transition, refused unless target is the next state.
CanAdvance(wf, target) ==
  \/ Rank(wf.state) >= Rank(target)
  \/ target \in wf.recorded
  \/ Rank(target) = Rank(wf.state) + 1

Advanced(wf, target) ==
  IF Rank(wf.state) >= Rank(target) \/ target \in wf.recorded THEN wf
  ELSE [wf EXCEPT !.state = target, !.recorded = @ \cup {target}]

Works(t) ==
  LET w == task[t].seen.current IN
  IF w \in DOMAIN TargetOf
  THEN /\ CanAdvance(workflow, TargetOf[w])
       /\ workflow' = Advanced(workflow, TargetOf[w])
  ELSE UNCHANGED workflow

WorkerSucceeds(t) ==
  /\ RunSucceeds(t)
  /\ Works(t)
  /\ UNCHANGED <<jobs, request, lock, spent>>

\* A dependency fails, the deadline passes after the effect, or the workflow
\* refuses the advance, which counts as an unexpected, retryable error.
WorkerFails(t, status) ==
  LET w == task[t].seen.current IN
  /\ RunFails(t, status)
  /\ \/ w \in FailingWorkers /\ status \in Failures /\ UNCHANGED workflow
     \/ w \in FailingWorkers /\ status = "failed_retryable" /\ Works(t)
     \/ /\ w \in DOMAIN TargetOf
        /\ ~CanAdvance(workflow, TargetOf[w])
        /\ status = "failed_retryable"
        /\ UNCHANGED workflow
  /\ UNCHANGED <<jobs, request, lock, spent>>

(***************************************************************************)
(* Intake: POST /v1/intake-jobs and its background task.                   *)
(***************************************************************************)
Active(j) == jobs[j].status = "running"
Finished(j, status, retryable) ==
  jobs' = [jobs EXCEPT ![j] = [status |-> status, retryable |-> retryable]]

\* The partial unique index admits one queued or running job per application.
CreateIntakeJob(t, j) ==
  /\ request[t] = Quiet
  /\ jobs[j].status = "none"
  /\ \A i \in Jobs : ~Active(i)
  /\ Finished(j, "running", FALSE)
  /\ Ask(t, "intake", "start", j)
  /\ UNCHANGED <<graphVars, workflow, lock, spent>>

BeginStart(t) ==
  /\ Asks(t, "intake", "start")
  /\ StartAgain(t) \/ StartNew(t)
  /\ GoOn(t, "graph")
  /\ UNCHANGED <<workflow, jobs, lock, spent>>

\* _execute finishes the job for some states of the thread and not for others.
JobAfter(j, status) ==
  CASE status = "waiting_for_review" -> Finished(j, "completed", FALSE)
    [] status \in Resumable \cup {"failed_terminal"} ->
         Finished(j, "failed", status = "failed_retryable")
    [] OTHER -> UNCHANGED jobs

\* The graph returned to _execute, or raised.  A raise out of an intake fails
\* its job; a resume's raise is only answered to the client.
EndRun(t) ==
  /\ request[t].kind \in {"intake", "resume"}
  /\ request[t].pc = "graph"
  /\ Return(t)
  /\ IF At(t, "returned") THEN JobAfter(request[t].of, task[t].seen.status)
     ELSE IF request[t].kind = "intake" THEN Finished(request[t].of, "failed", TRUE)
     ELSE UNCHANGED jobs
  /\ EndRequest(t)
  /\ lock' = IF lock = t THEN "free" ELSE lock
  /\ UNCHANGED <<workflow, spent>>

(***************************************************************************)
(* POST /v1/intake-jobs/{job_id}/resume and /cancel.                       *)
(***************************************************************************)
AwaitsFinalizing ==
  /\ checkpoint.current = "human_review"
  /\ checkpoint.status = "failed_retryable"
  /\ workflow.state = "HUMAN_DECIDED"
  /\ workflow.decision # "send_back"

ResumeRequest(t, j) ==
  /\ request[t] = Quiet
  /\ jobs[j].status # "none"
  /\ checkpoint # NoState
  /\ IF AwaitsFinalizing THEN Ask(t, "finalize", "write", j) ELSE Ask(t, "resume", "lock", j)
  /\ UNCHANGED <<graphVars, workflow, jobs, lock, spent>>

\* Fault: the application's lock is not taken.
ResumeUnlocked(t) ==
  /\ Asks(t, "resume", "lock")
  /\ IF checkpoint.status \in Resumable THEN GoOn(t, "resume") ELSE EndRequest(t)
  /\ UNCHANGED <<graphVars, workflow, jobs, lock, spent>>

\* Under the lock a state that is not resumable is returned as it is.
ResumeLocked(t) ==
  /\ Asks(t, "resume", "lock")
  /\ lock = "free"
  /\ IF checkpoint.status \in Resumable
     THEN lock' = t /\ GoOn(t, "resume")
     ELSE UNCHANGED lock /\ EndRequest(t)
  /\ UNCHANGED <<graphVars, workflow, jobs, spent>>

BeginResume(t) ==
  /\ Asks(t, "resume", "resume")
  /\ Resume(t)
  /\ GoOn(t, "graph")
  /\ UNCHANGED <<workflow, jobs, lock, spent>>

CancelRequest(t, j) ==
  /\ request[t] = Quiet
  /\ jobs[j].status # "none"
  /\ checkpoint # NoState
  /\ spent.cancels < MaxCancels
  /\ Spend("cancels")
  /\ Ask(t, "cancel", "lock", j)
  /\ UNCHANGED <<graphVars, workflow, jobs, lock>>

CancelLocked(t) ==
  /\ Asks(t, "cancel", "lock")
  /\ lock = "free"
  /\ IF checkpoint.status \in Terminal
     THEN UNCHANGED lock /\ EndRequest(t)
     ELSE lock' = t /\ GoOn(t, "cancel")
  /\ UNCHANGED <<graphVars, workflow, jobs, spent>>

BeginCancel(t) ==
  /\ Asks(t, "cancel", "cancel")
  /\ Mark(t, "cancelled")
  /\ GoOn(t, "graph")
  /\ UNCHANGED <<workflow, jobs, lock, spent>>

\* The job is finished after the mark; a mark that failed is answered to the client.
EndCancel(t) ==
  /\ Asks(t, "cancel", "graph")
  /\ Return(t)
  /\ IF At(t, "returned") THEN Finished(request[t].of, "cancelled", FALSE) ELSE UNCHANGED jobs
  /\ EndRequest(t)
  /\ lock' = "free"
  /\ UNCHANGED <<workflow, spent>>

(***************************************************************************)
(* POST /v1/workflows/{application_id}/decision.                           *)
(***************************************************************************)
Decisions == workflow.decisions
DecisionOf(t) == Decisions[request[t].of]

\* accepted: the funder of a final decision is a candidate of the advisory bundle,
\* or one it excludes whose failed checks the reviewer overrides.  The workflow
\* records a decision whatever its funder.
Decide(t, action, stage, accepted) ==
  /\ request[t] = Quiet
  /\ workflow.state = "AWAITING_HUMAN"
  /\ Len(Decisions) < MaxDecisions
  /\ workflow' = [workflow EXCEPT
       !.state = "HUMAN_DECIDED", !.decision = action, !.accepted = accepted,
       !.decisions = Append(@, [action |-> action, stage |-> stage, reopened |-> FALSE])]
  /\ Ask(t, "decision", "route", Len(Decisions) + 1)
  /\ UNCHANGED <<graphVars, jobs, lock, spent>>

\* The same command again: its recorded result is replayed and the route goes on.
DecideAgain(t, d) ==
  /\ request[t] = Quiet
  /\ d \in 1..Len(Decisions)
  /\ spent.replays < MaxReplays
  /\ Spend("replays")
  /\ Ask(t, "decision", "route", d)
  /\ UNCHANGED <<graphVars, workflow, jobs, lock>>

\* A stage the supervisor cannot resolve stops the thread for an operator.
RouteAmbiguous(t) ==
  /\ Asks(t, "decision", "route")
  /\ DecisionOf(t).action = "send_back"
  /\ DecisionOf(t).stage = "supervisor"
  /\ Mark(t, "needs_attention")
  /\ GoOn(t, "graph")
  /\ UNCHANGED <<workflow, jobs, lock, spent>>

\* reopen_after_send_back, whose command id derives from the decision's: the
\* second delivery of a decision replays its reopening.
RouteSendBack(t, stage) ==
  LET d == DecisionOf(t) IN
  /\ Asks(t, "decision", "route")
  /\ d.action = "send_back"
  /\ stage = d.stage \/ d.stage = "supervisor"
  /\ workflow' = IF d.reopened THEN workflow
                 ELSE [workflow EXCEPT !.state = RestartState[stage], !.decision = "none",
                                       !.decisions[request[t].of].reopened = TRUE]
  /\ request' = [request EXCEPT ![t].pc = "send_back", ![t].stage = stage]
  /\ UNCHANGED <<graphVars, jobs, lock, spent>>

BeginSendBack(t) ==
  /\ Asks(t, "decision", "send_back")
  /\ Rewind(t, request[t].stage)
  /\ GoOn(t, "graph")
  /\ UNCHANGED <<workflow, jobs, lock, spent>>

RouteFinal(t) ==
  /\ Asks(t, "decision", "route")
  /\ DecisionOf(t).action # "send_back"
  /\ Ask(t, "finalize", "write", request[t].of)
  /\ UNCHANGED <<graphVars, workflow, jobs, lock, spent>>

(***************************************************************************)
(* _finalize_human_decision: the verified write-back, then the thread.     *)
(***************************************************************************)
\* The write-back ends with the workflow's transition, or replays it.
WriteBack(t) ==
  /\ Asks(t, "finalize", "write")
  /\ workflow.accepted
  /\ workflow' = [workflow EXCEPT !.state = "PRECEDENT_WRITTEN"]
  /\ GoOn(t, "complete")
  /\ UNCHANGED <<graphVars, jobs, lock, spent>>

\* A decision for a funder the advisory bundle does not bear out is refused.
WriteBackRefused(t) ==
  /\ Asks(t, "finalize", "write")
  /\ ~workflow.accepted
  /\ GoOn(t, "retryable")
  /\ UNCHANGED <<graphVars, workflow, jobs, lock, spent>>

\* Fault: the thread is completed whether or not the write-back succeeded.
WriteBackFailureCompletes(t) ==
  /\ Asks(t, "finalize", "write")
  /\ spent.writeFailures < MaxWriteFailures
  /\ Spend("writeFailures")
  /\ GoOn(t, "complete")
  /\ UNCHANGED <<graphVars, workflow, jobs, lock>>

\* Fault: the failure is answered to the client and marked nowhere.
WriteBackFailsSilently(t) ==
  /\ Asks(t, "finalize", "write")
  /\ spent.writeFailures < MaxWriteFailures
  /\ Spend("writeFailures")
  /\ EndRequest(t)
  /\ UNCHANGED <<graphVars, workflow, jobs, lock>>

\* A store fails, or the answer of the workflow's transition is lost.
WriteBackFails(t) ==
  /\ Asks(t, "finalize", "write")
  /\ spent.writeFailures < MaxWriteFailures
  /\ Spend("writeFailures")
  /\ \/ UNCHANGED workflow
     \/ workflow.accepted /\ workflow' = [workflow EXCEPT !.state = "PRECEDENT_WRITTEN"]
  /\ GoOn(t, "retryable")
  /\ UNCHANGED <<graphVars, jobs, lock>>

BeginComplete(t) ==
  /\ Asks(t, "finalize", "complete")
  /\ Mark(t, "completed")
  /\ GoOn(t, "graph")
  /\ UNCHANGED <<workflow, jobs, lock, spent>>

BeginRetryable(t) ==
  /\ Asks(t, "finalize", "retryable")
  /\ Mark(t, "failed_retryable")
  /\ GoOn(t, "graph")
  /\ UNCHANGED <<workflow, jobs, lock, spent>>

\* complete_after_writeback or another mark of a request fails inside the graph.
MarkBreaks(t) ==
  /\ MarkFails(t)
  /\ spent.markFailures < MaxMarkFailures
  /\ Spend("markFailures")
  /\ UNCHANGED <<workflow, jobs, request, lock>>

\* The try around the write-back is also around the completion: a written
\* precedent whose thread was not completed is marked retryable.
CompletionRaised(t) == At(t, "raised") /\ task[t].arg = "completed"
CompletionFailed(t) ==
  /\ Asks(t, "finalize", "graph")
  /\ CompletionRaised(t)
  /\ Return(t)
  /\ GoOn(t, "retryable")
  /\ UNCHANGED <<workflow, jobs, lock, spent>>

\* A decision's request ends with the graph's answer; no job is finished.
EndDecision(t) ==
  /\ request[t].kind \in {"decision", "finalize"}
  /\ request[t].pc = "graph"
  /\ ~CompletionRaised(t)
  /\ Return(t)
  /\ EndRequest(t)
  /\ UNCHANGED <<workflow, jobs, lock, spent>>

(***************************************************************************)
(* The process stops and comes back: tasks, requests and the lock are      *)
(* gone, and fail_interrupted marks what was queued or running.            *)
(***************************************************************************)
Restart ==
  /\ spent.stops < MaxStops
  /\ Spend("stops")
  /\ Stop
  /\ jobs' = [j \in Jobs |-> IF Active(j) THEN [status |-> "failed", retryable |-> TRUE]
                             ELSE jobs[j]]
  /\ request' = [t \in Tasks |-> Quiet]
  /\ lock' = "free"
  /\ UNCHANGED workflow

Init ==
  /\ GraphInit
  /\ workflow = [state |-> "ABSENT", decision |-> "none", accepted |-> FALSE,
                 recorded |-> {}, decisions |-> <<>>]
  /\ jobs = [j \in Jobs |-> [status |-> "none", retryable |-> FALSE]]
  /\ request = [t \in Tasks |-> Quiet]
  /\ lock = "free"
  /\ spent = [replays |-> 0, stops |-> 0, cancels |-> 0,
              writeFailures |-> 0, markFailures |-> 0]

Arrive(t) ==
  \/ \E j \in Jobs : CreateIntakeJob(t, j) \/ ResumeRequest(t, j) \/ CancelRequest(t, j)
  \/ \E action \in DecisionActions \ {"send_back"}, accepted \in Selections :
       Decide(t, action, "none", accepted)
  \/ /\ "send_back" \in DecisionActions
     /\ \E stage \in RestartStages : Decide(t, "send_back", stage, FALSE)
  \/ \E d \in 1..MaxDecisions : DecideAgain(t, d)

\* What the event loop does for a task once its request has arrived.
Step(t) ==
  \/ Proceed(t) /\ UNCHANGED caseVars
  \/ WorkerSucceeds(t)
  \/ \E status \in Resumable \cup {"failed_terminal"} : WorkerFails(t, status)
  \/ BeginStart(t) \/ EndRun(t)
  \/ ResumeLocked(t) \/ BeginResume(t)
  \/ CancelLocked(t) \/ BeginCancel(t) \/ EndCancel(t)
  \/ RouteAmbiguous(t) \/ (\E stage \in Stages : RouteSendBack(t, stage))
  \/ BeginSendBack(t) \/ RouteFinal(t)
  \/ WriteBack(t) \/ WriteBackRefused(t) \/ WriteBackFails(t)
  \/ BeginComplete(t) \/ BeginRetryable(t) \/ MarkBreaks(t)
  \/ CompletionFailed(t) \/ EndDecision(t)

Next ==
  \/ \E t \in Tasks : Arrive(t) \/ Step(t)
  \/ Restart

Spec == Init /\ [][Next]_vars

\* The event loop serves every ready task: an await that can end, ends.
FairSpec == Spec /\ \A t \in Tasks : WF_vars(Step(t))

\* Besides, a client resumes a job whose write-back may be retried.
Retry(t) == AwaitsFinalizing /\ \E j \in Jobs : ResumeRequest(t, j)
RetryingSpec == FairSpec /\ \A t \in Tasks : WF_vars(Retry(t))

(***************************************************************************)
(* Properties.                                                             *)
(***************************************************************************)
AllQuiet == \A t \in Tasks : request[t] = Quiet

\* Every variable has its type; a task is inside the graph only for a request.
TypeOK ==
  /\ GraphTypeOK
  /\ workflow \in [state: {Ladder[i] : i \in 1..Len(Ladder)},
                   decision: DecisionActions \cup {"none"}, accepted: BOOLEAN,
                   recorded: SUBSET {TargetOf[w] : w \in DOMAIN TargetOf},
                   decisions: Seq([action: DecisionActions, stage: RestartStages \cup {"none"},
                                   reopened: BOOLEAN])]
  /\ \A j \in Jobs : jobs[j].status \in {"none", "running", "completed", "failed", "cancelled"}
  /\ \A t \in Tasks : (~At(t, "idle")) => request[t].pc = "graph"
  /\ lock \in Tasks \cup {"free"}

\* The thread is completed only when the workflow, which is authoritative, holds
\* the written precedent: no replayed, failed or cut-off write-back, resume or
\* cancel completes a thread whose decision is not remembered.
CompletedOnlyAfterPrecedent ==
  checkpoint.status = "completed" => workflow.state = "PRECEDENT_WRITTEN"

\* Before any send-back, a thread waits for review only when the case has been
\* put before a reviewer, whichever attempt or retry did it.
WaitingMeansHandedOff ==
  (checkpoint.status = "waiting_for_review" /\ \A d \in 1..Len(Decisions) : ~Decisions[d].reopened)
    => Rank(workflow.state) >= Rank("AWAITING_HUMAN")

\* Until a reviewer decides, at most one task runs workers for the application at
\* a time: resuming under the lock never overlaps an intake, which takes none,
\* nor another resume, through cancels, failures and restarts.
Runner(t) == task[t].pc \in {"run", "save"}
OneRunner == Decisions = <<>> => \A t, u \in Tasks : Runner(t) /\ Runner(u) => t = u

\* A worker is given no more attempts than its policy allows: a thread that is
\* over a limit has ended, whatever retries and resumes came before.  Only a
\* send-back that the supervisor cannot resolve may mark such a thread again.
AttemptsWithinPolicy ==
  \A w \in Workers :
    checkpoint # NoState /\ checkpoint.attempts[w] > MaxAttempts[w]
      => \/ checkpoint.status \in Terminal
         \/ \E d \in 1..Len(Decisions) : Decisions[d].stage = "supervisor"

\* The graph's own steps are all that the application does to a thread.
ImplementsGraph == GraphSpec

\* Whatever workers, jobs, decisions and write-backs overlap, the case keeps what
\* CaseLifecycle promises a lender: what the workflow service guarantees command by
\* command (WorkflowCase) is not lost between the requests that issue them.
Phase ==
  CASE workflow.state = "ABSENT" -> "absent"
    [] workflow.state \in {"INTAKE", "EXTRACTED", "RULE_GATED", "AI_SUGGESTED"} -> "preparing"
    [] workflow.state = "AWAITING_HUMAN" -> "review"
    [] workflow.state = "HUMAN_DECIDED" -> "decided"
    [] workflow.state = "PRECEDENT_WRITTEN" -> "precedent"

Promised == INSTANCE CaseLifecycle WITH
  Actions <- DecisionActions, phase <- Phase, outcome <- workflow.decision

ImplementsLifecycle == Promised!Spec

\* A run that is at a worker not completed yet comes to an end: whatever fails, is
\* retried, rewound or cancelled, such a thread is not running for ever.  (A thread
\* left at its completed handoff by an ambiguous send-back is, once a resume has
\* repeated the handoff: its second completion is invalid.)
RunsEnd ==
  (checkpoint.status = "running" /\ checkpoint.current \notin Done(checkpoint))
    ~> (checkpoint.status # "running")

\* "Verified precedent write-back can be retried": a final decision for a funder
\* the write-back accepts is written in the end, or its thread cancelled, as long
\* as a client resumes what is marked retryable: whichever store fails, and when
\* the answer of a write is lost.  A decision is let down only when the mark of
\* its failure fails too, and once it is marked no failure lets it down.
FinalDecision == workflow.state = "HUMAN_DECIDED" /\ workflow.decision # "send_back"
WrittenOrCancelled == workflow.state = "PRECEDENT_WRITTEN" \/ checkpoint.status = "cancelled"
DecisionIsRemembered ==
  /\ (FinalDecision /\ workflow.accepted) ~> (WrittenOrCancelled \/ spent.markFailures > 0)
  /\ (AwaitsFinalizing /\ workflow.accepted) ~> WrittenOrCancelled

\* "Agent processing was cancelled": a cancelled thread stays cancelled.
CancelledStays ==
  [][checkpoint.status = "cancelled" => checkpoint'.status = "cancelled"]_checkpoint

\* "The last checkpoint remains resumable": when nothing is under way and a job
\* is marked failed and retryable, its thread, if there is one, is not running.
InterruptedIsResumable ==
  (AllQuiet /\ \E j \in Jobs : jobs[j].retryable) => checkpoint.status # "running"

\* A rerun after a send-back ends before a reviewer again: when the thread waits
\* for review the case is at AWAITING_HUMAN, or decided.
RerunReachesReviewer ==
  (AllQuiet /\ checkpoint.status = "waiting_for_review")
    => Rank(workflow.state) >= Rank("AWAITING_HUMAN")
=============================================================================
