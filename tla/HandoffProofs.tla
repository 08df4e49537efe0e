---------------------------- MODULE HandoffProofs ----------------------------
(***************************************************************************)
(* A thread on its way to the reviewer, for any number of tasks, jobs,     *)
(* decisions, failures, cancels and stops: when it waits for review its    *)
(* case is handed off; until it is decided one task at a time runs its     *)
(* workers, within their attempt limits; and the case lives as             *)
(* CaseLifecycle says.                                                     *)
(*                                                                         *)
(* The first argument: until a case is sent back its state only climbs, so *)
(* what a worker has advanced it to stays reached, in the checkpoint and   *)
(* in the copy any task still holds; and no task rewrites a thread's       *)
(* completed workers, since only a rewind does and only a send-back        *)
(* rewinds.  The second is stated where it begins.                         *)
(***************************************************************************)
EXTENDS AgentCaseProofs

SentBack == \E d \in 1..Len(Decisions) : Decisions[d].reopened

\* The workers completed in the thread, or in a state some task holds of it.
Completions == {w \in Workers : w \in Done(checkpoint) \/ \E t \in Tasks : w \in Done(task[t].seen)}

\* The case has reached state x, or a later one.
Reached(x) == Rank(workflow.state) >= Rank(x)

HandoffInv ==
  /\ \A t \in Tasks : task[t].pc = "rewind" \/ request[t].pc = "send_back" => SentBack
  /\ ~SentBack => \A x \in workflow.recorded : Reached(x)
  /\ ~SentBack => \A w \in Completions \cap DOMAIN TargetOf : Reached(TargetOf[w])

LEMMA RankType ==
  /\ \A state \in States : Rank(state) \in 1..8
  /\ \A w \in DOMAIN TargetOf : TargetOf[w] \in States /\ Rank(TargetOf[w]) \in 1..8
<1>1. ASSUME NEW state \in States PROVE Rank(state) \in 1..8
  <2>1. PICK i \in 1..8 : Ladder[i] = state
    BY LadderIsOneToOne DEF States
  <2> QED BY <2>1, RankOfRung
<1>2. \A w \in DOMAIN TargetOf : TargetOf[w] \in Targets
  BY DEF Targets
<1> QED BY <1>1, <1>2, Ranks

(***************************************************************************)
(* What the steps do to the case.                                          *)
(***************************************************************************)
\* The precedent is written, whether or not the request learns of it.
Writes(t) ==
  /\ Asks(t, "finalize", "write")
  /\ workflow' = [workflow EXCEPT !.state = "PRECEDENT_WRITTEN"]

LEMMA WorkflowSteps ==
  ASSUME [Next]_vars
  PROVE  \/ workflow' = workflow
         \/ \E t \in Tasks : Works(t)
         \/ \E t \in Tasks, action \in DecisionActions, stage \in RestartStages \cup {"none"},
              accepted \in BOOLEAN : Decide(t, action, stage, accepted)
         \/ \E t \in Tasks, stage \in Stages : RouteSendBack(t, stage)
         \/ \E t \in Tasks : Writes(t)
<1>1. ASSUME NEW t \in Tasks, Arrive(t)
      PROVE  \/ workflow' = workflow
             \/ \E action \in DecisionActions, stage \in RestartStages \cup {"none"},
                  accepted \in BOOLEAN : Decide(t, action, stage, accepted)
  <2>1. CASE \E action \in DecisionActions \ {"send_back"}, accepted \in Selections :
               Decide(t, action, "none", accepted)
    BY <2>1, AgentAssumption
  <2>2. CASE /\ "send_back" \in DecisionActions
             /\ \E stage \in RestartStages : Decide(t, "send_back", stage, FALSE)
    BY <2>2
  <2>3. CASE \/ \E j \in Jobs : CreateIntakeJob(t, j) \/ ResumeRequest(t, j) \/ CancelRequest(t, j)
             \/ \E d \in 1..MaxDecisions : DecideAgain(t, d)
    BY <2>3 DEF CreateIntakeJob, ResumeRequest, CancelRequest, DecideAgain
  <2> QED BY <1>1, <2>1, <2>2, <2>3 DEF Arrive
<1>2. ASSUME NEW t \in Tasks, Step(t)
      PROVE  \/ workflow' = workflow \/ Works(t) \/ Writes(t)
             \/ \E stage \in Stages : RouteSendBack(t, stage)
  <2>1. CASE Proceed(t) /\ UNCHANGED caseVars
    BY <2>1 DEF caseVars
  <2>2. CASE WorkerSucceeds(t)
    BY <2>2 DEF WorkerSucceeds
  <2>3. CASE \E status \in Resumable \cup {"failed_terminal"} : WorkerFails(t, status)
    BY <2>3 DEF WorkerFails
  <2>4. CASE BeginStart(t) \/ EndRun(t) \/ ResumeLocked(t) \/ BeginResume(t) \/ CancelLocked(t)
    BY <2>4 DEF BeginStart, EndRun, ResumeLocked, BeginResume, CancelLocked
  <2>5. CASE BeginCancel(t) \/ EndCancel(t) \/ RouteAmbiguous(t) \/ BeginSendBack(t) \/ RouteFinal(t)
    BY <2>5 DEF BeginCancel, EndCancel, RouteAmbiguous, BeginSendBack, RouteFinal
  <2>6. CASE \/ BeginComplete(t) \/ BeginRetryable(t) \/ MarkBreaks(t)
             \/ CompletionFailed(t) \/ EndDecision(t)
    BY <2>6 DEF BeginComplete, BeginRetryable, MarkBreaks, CompletionFailed, EndDecision
  <2>7. CASE WriteBack(t) \/ WriteBackRefused(t) \/ WriteBackFails(t)
    BY <2>7 DEF WriteBack, WriteBackRefused, WriteBackFails, Writes
  <2> QED BY <1>2, <2>1, <2>2, <2>3, <2>4, <2>5, <2>6, <2>7 DEF Step
<1>3. CASE Restart
  BY <1>3 DEF Restart
<1>4. CASE UNCHANGED vars
  BY <1>4 DEF vars, caseVars
<1> QED BY <1>1, <1>2, <1>3, <1>4 DEF Next

\* A decision leaves review and is put on the record.
LEMMA DecideSays ==
  ASSUME CaseInv, NEW t, NEW action, NEW stage, NEW accepted, Decide(t, action, stage, accepted)
  PROVE  /\ workflow.state = "AWAITING_HUMAN"
         /\ workflow'.state = "HUMAN_DECIDED" /\ workflow'.decision = action
         /\ workflow'.recorded = workflow.recorded
         /\ workflow'.decisions = Append(workflow.decisions,
              [action |-> action, stage |-> stage, reopened |-> FALSE])
<1> DEFINE ds == Append(workflow.decisions, [action |-> action, stage |-> stage, reopened |-> FALSE])
<1>1. /\ workflow.state = "AWAITING_HUMAN"
      /\ workflow' = [workflow EXCEPT !.state = "HUMAN_DECIDED", !.decision = action,
                                      !.accepted = accepted, !.decisions = ds]
  BY DEF Decide, Decisions
<1> HIDE DEF ds
<1>2. /\ workflow'.state = "HUMAN_DECIDED" /\ workflow'.decision = action
      /\ workflow'.recorded = workflow.recorded /\ workflow'.decisions = ds
  BY <1>1 DEF CaseInv, WorkflowOK
<1> QED BY <1>1, <1>2 DEF ds

\* A send-back is never taken back; until there is one the case climbs, and what a
\* step records it has reached.
Climbs ==
  /\ SentBack => SentBack'
  /\ ~SentBack' => /\ Rank(workflow'.state) >= Rank(workflow.state)
                   /\ \A x \in workflow'.recorded : x \in workflow.recorded \/ Reached(x)'

LEMMA WorksClimbs ==
  ASSUME CaseInv, NEW t \in Tasks, Works(t)
  PROVE  Climbs
<1> DEFINE w == task[t].seen.current
<1>0. /\ workflow.state \in States /\ Rank(workflow.state) \in 1..8
      /\ workflow \in [state: States, decision: DecisionActions \cup {"none"}, accepted: BOOLEAN,
                       recorded: SUBSET Targets, decisions: Seq(Decision)]
  BY RankType DEF CaseInv, WorkflowOK
<1>1. CASE workflow' = workflow
  BY <1>0, <1>1 DEF Climbs, SentBack, Decisions, Reached
<1>2. CASE workflow' # workflow
  <2>1. /\ w \in DOMAIN TargetOf /\ ~(Rank(workflow.state) >= Rank(TargetOf[w]))
        /\ workflow' = [workflow EXCEPT !.state = TargetOf[w],
                                        !.recorded = @ \cup {TargetOf[w]}]
    BY <1>2 DEF Works, Advanced
  <2> DEFINE x == TargetOf[w]
  <2>2. Rank(x) \in 1..8
    BY <2>1, RankType
  <2> HIDE DEF x
  <2>3. workflow'.state = x /\ workflow'.recorded = workflow.recorded \cup {x}
        /\ workflow'.decisions = workflow.decisions
    BY <1>0, <2>1 DEF x
  <2>4. ~(Rank(workflow.state) >= Rank(x))
    BY <2>1 DEF x
  <2> QED BY <1>0, <2>2, <2>3, <2>4 DEF Climbs, SentBack, Decisions, Reached
<1> QED BY <1>1, <1>2

\* Once its route has taken it, a send-back is on the record.
LEMMA RouteSendsBack ==
  ASSUME CaseInv, NEW t \in Tasks, NEW stage \in Stages, RouteSendBack(t, stage)
  PROVE  SentBack'
<1>0. workflow \in [state: States, decision: DecisionActions \cup {"none"}, accepted: BOOLEAN,
                   recorded: SUBSET Targets, decisions: Seq(Decision)]
  BY DEF CaseInv, WorkflowOK
<1> DEFINE i == request[t].of
<1>1. i \in 1..Len(workflow.decisions)
  BY DEF RouteSendBack, Asks, CaseInv, RequestOK
<1>2. CASE workflow.decisions[i].reopened
  BY <1>1, <1>2 DEF RouteSendBack, DecisionOf, Decisions, SentBack
<1>3. CASE ~workflow.decisions[i].reopened
  <2> DEFINE d == [workflow.decisions[i] EXCEPT !.reopened = TRUE]
             ds == [workflow.decisions EXCEPT ![i] = d]
  <2>1. workflow' = [workflow EXCEPT !.state = RestartState[stage], !.decision = "none",
                                     !.decisions = ds]
    BY <1>3 DEF RouteSendBack, DecisionOf, Decisions
  <2>2. workflow.decisions \in Seq(Decision) /\ workflow.decisions[i] \in Decision
    BY <1>0, <1>1
  <2>3. Len(ds) = Len(workflow.decisions) /\ ds[i] = d /\ d.reopened
    BY <1>1, <2>2 DEF Decision
  <2> HIDE DEF ds, d
  <2>4. workflow'.decisions = ds
    BY <1>0, <2>1
  <2> QED BY <1>1, <2>3, <2>4 DEF SentBack, Decisions
<1> QED BY <1>2, <1>3

LEMMA ClimbsNext ==
  ASSUME CaseInv, [Next]_vars
  PROVE  Climbs
<1>0. /\ workflow.state \in States /\ Rank(workflow.state) \in 1..8
      /\ workflow \in [state: States, decision: DecisionActions \cup {"none"}, accepted: BOOLEAN,
                       recorded: SUBSET Targets, decisions: Seq(Decision)]
  BY RankType DEF CaseInv, WorkflowOK
<1>1. CASE workflow' = workflow
  BY <1>0, <1>1 DEF Climbs, SentBack, Decisions, Reached
<1>2. ASSUME NEW t \in Tasks, NEW action \in DecisionActions,
             NEW stage \in RestartStages \cup {"none"}, NEW accepted \in BOOLEAN,
             Decide(t, action, stage, accepted)
      PROVE  Climbs
  <2> DEFINE d == [action |-> action, stage |-> stage, reopened |-> FALSE]
             ds == Append(workflow.decisions, d)
  <2>1. /\ workflow'.state = "HUMAN_DECIDED" /\ workflow'.decisions = ds
        /\ workflow'.recorded = workflow.recorded
    BY <1>2, DecideSays
  <2>2. workflow.state = "AWAITING_HUMAN" /\ workflow.decisions \in Seq(Decision)
    BY <1>0, <1>2, DecideSays
  <2>3. /\ Len(ds) = Len(workflow.decisions) + 1 /\ Len(workflow.decisions) \in Nat
        /\ \A i \in 1..Len(workflow.decisions) : ds[i] = workflow.decisions[i]
    BY <2>2
  <2> HIDE DEF ds
  <2>5. SentBack => SentBack'
    BY <2>1, <2>3 DEF SentBack, Decisions
  <2>6. Rank("HUMAN_DECIDED") >= Rank("AWAITING_HUMAN")
    <3>1. "HUMAN_DECIDED" \in Decided /\ "AWAITING_HUMAN" \in Targets
      BY DEF Decided, Targets, TargetOf
    <3> QED BY <3>1, Ranks
  <2> QED BY <2>1, <2>2, <2>5, <2>6 DEF Climbs
<1>3. ASSUME NEW t \in Tasks, NEW stage \in Stages, RouteSendBack(t, stage)
      PROVE  SentBack'
  BY <1>3, RouteSendsBack
<1>4. ASSUME NEW t \in Tasks, Writes(t)
      PROVE  Climbs
  <2>1. workflow' = [workflow EXCEPT !.state = "PRECEDENT_WRITTEN"]
    BY <1>4 DEF Writes
  <2>2. workflow.state \in Decided
    BY <1>4 DEF Writes, Asks, CaseInv, RequestOK
  <2>3. workflow'.state = "PRECEDENT_WRITTEN" /\ workflow'.decisions = workflow.decisions
        /\ workflow'.recorded = workflow.recorded
    BY <1>0, <2>1
  <2>4. Rank("PRECEDENT_WRITTEN") = 8
    <3>1. Ladder[8] = "PRECEDENT_WRITTEN"
      BY DEF Ladder
    <3> QED BY <3>1, RankOfRung
  <2> QED BY <1>0, <2>3, <2>4 DEF Climbs, SentBack, Decisions
<1> QED BY <1>1, <1>2, <1>3, <1>4, WorksClimbs, WorkflowSteps DEF Climbs

(***************************************************************************)
(* What the steps do to the thread and the copies of it.                   *)
(***************************************************************************)
\* Task t goes to call k; beyond X, nothing becomes completed that was not.
Carries(t, X) ==
  /\ Done(checkpoint') \subseteq Completions \cup X
  /\ \E k : /\ task' = [task EXCEPT ![t] = k]
            /\ Done(k.seen) \subseteq Completions \cup X
            /\ k.pc = "rewind" => request[t].pc = "send_back"

LEMMA DoneNothing == Done(NoState) = {} /\ Done(InitialState) = {}
<1>1. \A s : s.completed = <<>> => Done(s) = {}
  BY DEF Done
<1> QED BY <1>1 DEF NoState, InitialState

LEMMA DoneSame == \A s, r : s.completed = r.completed => Done(s) = Done(r)
  BY DEF Done

\* The workers completed in a state that is there are workers.
LEMMA DoneWorkers ==
  ASSUME NEW s \in State \cup {NoState}
  PROVE  Done(s) \subseteq Workers
<1>1. CASE s \in State
  <2>1. s.completed \in Seq(Workers)
    BY <1>1 DEF State
  <2> QED BY <2>1 DEF Done
<1>2. CASE s = NoState
  BY <1>2, DoneNothing
<1> QED BY <1>1, <1>2

\* What a task holds, and the checkpoint, are among the completions.
LEMMA Held ==
  ASSUME GraphInv
  PROVE  /\ Done(checkpoint) \subseteq Completions
         /\ \A t \in Tasks : Done(task[t].seen) \subseteq Completions
  BY DoneWorkers DEF Completions, GraphInv, TaskOK, Call

LEMMA BecomeCarries ==
  ASSUME NEW t, NEW X, NEW pc, NEW op, NEW arg, NEW seen, Become(t, pc, op, arg, seen),
         Done(checkpoint') \subseteq Completions \cup X,
         Done(seen) \subseteq Completions \cup X,
         pc = "rewind" => request[t].pc = "send_back"
  PROVE  Carries(t, X)
<1> DEFINE k == [pc |-> pc, op |-> op, arg |-> arg, seen |-> seen]
<1>1. k.pc = pc /\ k.seen = seen /\ task' = [task EXCEPT ![t] = k]
  BY DEF Become
<1> HIDE DEF k
<1> QED BY <1>1 DEF Carries

LEMMA EnterCarries ==
  ASSUME GraphInv, NEW t \in Tasks,
         \/ StartAgain(t) \/ StartNew(t) \/ Resume(t)
         \/ \E status \in Resumable \cup Terminal : Mark(t, status)
         \/ \E w \in Workers : Rewind(t, w) /\ request[t].pc = "send_back"
  PROVE  Carries(t, {})
<1>1. ASSUME NEW pc, NEW op, NEW arg, NEW seen \in {checkpoint, NoState},
             Become(t, pc, op, arg, seen), checkpoint' = checkpoint,
             pc = "rewind" => request[t].pc = "send_back"
      PROVE  Carries(t, {})
  BY <1>1, BecomeCarries, Held, DoneNothing
<1>2. CASE StartAgain(t) \/ StartNew(t)
  BY <1>1, <1>2 DEF StartAgain, StartNew
<1>3. CASE Resume(t)
  BY <1>1, <1>3 DEF Resume, Raise
<1>4. ASSUME NEW status \in Resumable \cup Terminal, Mark(t, status)
      PROVE  Carries(t, {})
  BY <1>1, <1>4 DEF Mark
<1>5. ASSUME NEW w \in Workers, Rewind(t, w), request[t].pc = "send_back"
      PROVE  Carries(t, {})
  BY <1>1, <1>5 DEF Rewind, Raise
<1> QED BY <1>2, <1>3, <1>4, <1>5

\* Changing the status, or counting an attempt, completes nothing.
LEMMA FailedDone ==
  ASSUME NEW s \in State, NEW status
  PROVE  Done(Failed(s, status)) = Done(s)
<1>1. Failed(s, status).completed = s.completed
  BY TriedType DEF Failed, State
<1> QED BY <1>1, DoneSame

LEMMA StatusDone ==
  ASSUME NEW s \in State, NEW status
  PROVE  Done([s EXCEPT !.status = status]) = Done(s)
<1>1. [s EXCEPT !.status = status].completed = s.completed
  BY DEF State
<1> QED BY <1>1, DoneSame

LEMMA SucceededDone ==
  ASSUME NEW s \in State
  PROVE  Done(Succeeded(s)) \subseteq Done(s) \cup {s.current}
<1>1. Succeeded(s).completed = Append(s.completed, s.current)
  BY TriedType DEF Succeeded, State
<1>2. s.completed \in Seq(Workers) /\ s.current \in Workers
  BY DEF State
<1> DEFINE c == s.completed
           a == Append(c, s.current)
<1>3. Len(a) = Len(c) + 1 /\ Len(c) \in Nat /\ a[Len(c) + 1] = s.current
  BY <1>2
<1>4. \A i \in 1..Len(c) : a[i] = c[i]
  BY <1>2
<1>5. \A i \in 1..Len(a) : i \in 1..Len(c) \/ i = Len(c) + 1
  BY <1>3
<1> HIDE DEF a
<1>6. {a[i] : i \in 1..Len(a)} \subseteq {c[i] : i \in 1..Len(c)} \cup {s.current}
  BY <1>3, <1>4, <1>5
<1> QED BY <1>1, <1>6 DEF Done, a

LEMMA MergedDone ==
  ASSUME NEW s, NEW op, NEW arg, op = "start" \/ (op \in {"resume", "rewind"} /\ s \in State)
  PROVE  Done(Merged(s, op, arg)) \subseteq Done(s)
<1>1. CASE op = "start"
  BY <1>1, DoneNothing DEF Merged
<1>2. CASE op \in {"resume", "rewind"} /\ s \in State
  <2>1. Merged(s, op, arg).completed = s.completed
    BY <1>2 DEF Merged, State
  <2> QED BY <2>1, DoneSame
<1> QED BY <1>1, <1>2

LEMMA ProceedCarries ==
  ASSUME GraphInv, NEW t \in Tasks, Proceed(t), task[t].pc # "rewind"
  PROVE  Carries(t, {})
<1> DEFINE a == task[t]
           s == a.seen
<1>0. TaskOK(a, checkpoint) /\ checkpoint \in State \cup {NoState}
  BY DEF GraphInv
<1>1. ASSUME NEW pc, NEW op, NEW arg, NEW seen, Become(t, pc, op, arg, seen),
             pc # "rewind", Done(seen) \subseteq Completions, Done(checkpoint') \subseteq Completions
      PROVE  Carries(t, {})
  BY <1>1, BecomeCarries
<1>2. CASE CreateThread(t) \/ ResetThread(t) \/ Reread(t)
  BY <1>1, <1>2, Held, DoneNothing DEF CreateThread, ResetThread, Reread
<1>3. CASE Settle(t)
  BY <1>1, <1>3, Held DEF Settle
<1>4. CASE SaveCheckpoint(t)
  <2> DEFINE pc == IF s.status = "running" THEN "run" ELSE "settle"
  <2>1. checkpoint' = s /\ Become(t, pc, "none", "none", s) /\ pc # "rewind"
    BY <1>4 DEF SaveCheckpoint
  <2> HIDE DEF pc
  <2> QED BY <1>1, <2>1, Held
<1>5. CASE Invoke(t)
  <2> DEFINE input == Merged(checkpoint, a.op, a.arg)
  <2>1. a.op = "start" \/ (a.op \in {"resume", "rewind"} /\ checkpoint \in State)
    <3>1. a.pc = "invoke"
      BY <1>5 DEF Invoke, At
    <3>2. a.op \in {"start", "resume", "rewind"}
      BY <1>0, <3>1 DEF TaskOK
    <3>3. a.op # "start" => checkpoint \in State
      BY <1>0, <3>1 DEF TaskOK
    <3> QED BY <3>2, <3>3
  <2>2. checkpoint' = input /\ Become(t, "run", "none", "none", input)
    BY <1>5 DEF Invoke
  <2>3. Done(input) \subseteq Completions
    BY <2>1, MergedDone, Held
  <2> HIDE DEF input
  <2> QED BY <1>1, <2>2, <2>3
<1>6. CASE RefuseAttempt(t)
  <2> DEFINE r == Failed(s, "failed_terminal")
  <2>1. s \in State
    BY <1>0, <1>6 DEF RefuseAttempt, At, TaskOK
  <2>2. Become(t, "save", "none", "none", r) /\ checkpoint' = checkpoint
    BY <1>6 DEF RefuseAttempt
  <2>3. Done(r) \subseteq Completions
    BY <2>1, FailedDone, Held
  <2> HIDE DEF r
  <2> QED BY <1>1, <2>2, <2>3, Held
<1>7. CASE UpdateStatus(t)
  <2> DEFINE r == [s EXCEPT !.status = a.arg]
  <2>1. s \in State /\ checkpoint \in State
    BY <1>0, <1>7 DEF UpdateStatus, At, TaskOK
  <2>2. Become(t, "settle", "mark", a.arg, r) /\ checkpoint' = [checkpoint EXCEPT !.status = a.arg]
    BY <1>7 DEF UpdateStatus
  <2>3. Done(r) \subseteq Completions /\ Done(checkpoint') \subseteq Completions
    BY <2>1, <2>2, StatusDone, Held
  <2> HIDE DEF r
  <2> QED BY <1>1, <2>2, <2>3
<1> QED BY <1>2, <1>3, <1>4, <1>5, <1>6, <1>7 DEF Proceed, UpdateRewound, At

LEMMA RunSucceedsCarries ==
  ASSUME GraphInv, NEW t \in Tasks, RunSucceeds(t), NEW s, s = task[t].seen, NEW w, w = s.current
  PROVE  Carries(t, {w})
<1>1. task[t].pc = "run" /\ checkpoint' = checkpoint
  BY DEF RunSucceeds, At
<1>2. Raise(t) \/ Become(t, "save", "none", "none", Succeeded(s))
  BY DEF RunSucceeds
<1>3. s \in State /\ Done(s) \subseteq Completions /\ Done(checkpoint') \subseteq Completions
  BY <1>1, Held DEF GraphInv, TaskOK
<1>4. CASE Raise(t)
  BY <1>3, <1>4, BecomeCarries, DoneNothing DEF Raise
<1>5. CASE Become(t, "save", "none", "none", Succeeded(s))
  <2>1. Done(Succeeded(s)) \subseteq Completions \cup {w}
    BY <1>3, SucceededDone
  <2> QED BY <1>3, <1>5, <2>1, BecomeCarries
<1> QED BY <1>2, <1>4, <1>5

LEMMA RunFailsCarries ==
  ASSUME GraphInv, NEW t \in Tasks, NEW status, RunFails(t, status)
  PROVE  Carries(t, {})
<1> DEFINE s == task[t].seen
<1>1. /\ task[t].pc = "run" /\ checkpoint' = checkpoint
      /\ Become(t, "save", "none", "none", Failed(s, status))
  BY DEF RunFails, At
<1>2. s \in State
  BY <1>1 DEF GraphInv, TaskOK
<1>3. Done(Failed(s, status)) \subseteq Completions
  BY <1>2, FailedDone, Held
<1> QED BY <1>1, <1>3, BecomeCarries, Held

\* Where the steps of a request leave its task and its place.
LEMMA CarriesCompletions ==
  ASSUME GraphInv, NEW t \in Tasks, NEW X, Carries(t, X)
  PROVE  /\ Completions' \subseteq Completions \cup X
         /\ \A u \in Tasks : task'[u].pc = "rewind" =>
              task[u].pc = "rewind" \/ request[u].pc = "send_back"
<1>1. PICK k : /\ task' = [task EXCEPT ![t] = k]
               /\ Done(k.seen) \subseteq Completions \cup X
               /\ k.pc = "rewind" => request[t].pc = "send_back"
  BY DEF Carries
<1>2. \A u \in Tasks : task'[u] = IF u = t THEN k ELSE task[u]
  BY <1>1 DEF GraphInv
<1>3. \A u \in Tasks : Done(task'[u].seen) \subseteq Completions \cup X
  BY <1>1, <1>2, Held
<1>4. Done(checkpoint') \subseteq Completions \cup X
  BY DEF Carries
<1>5. Done(checkpoint)' = Done(checkpoint') /\ \A u \in Tasks : Done(task[u].seen)' = Done(task'[u].seen)
  BY DEF Done
<1>6. Completions' \subseteq Completions \cup X
  BY <1>3, <1>4, <1>5 DEF Completions
<1> QED BY <1>1, <1>2, <1>6

\* A step that leaves the tasks and the checkpoint alone, or frees tasks.
LEMMA QuietCompletions ==
  ASSUME GraphInv, checkpoint' = checkpoint,
         \A u \in Tasks : task'[u] = task[u] \/ task'[u] = Idle
  PROVE  /\ Completions' \subseteq Completions
         /\ \A u \in Tasks : task'[u].pc = "rewind" => task[u].pc = "rewind"
<1>1. Idle.pc # "rewind" /\ Idle.seen = NoState
  BY DEF Idle
<1>2. \A u \in Tasks : Done(task'[u].seen) \subseteq Completions
  BY <1>1, Held, DoneNothing
<1>3. Done(checkpoint)' = Done(checkpoint') /\ \A u \in Tasks : Done(task[u].seen)' = Done(task'[u].seen)
  BY DEF Done
<1>4. Completions' \subseteq Completions
  BY <1>2, <1>3, Held DEF Completions
<1> QED BY <1>1, <1>4

(***************************************************************************)
(* Every step keeps the handoff.                                           *)
(***************************************************************************)
\* A place at which only a send-back puts a task or its request.
Rewinding(t) == task[t].pc = "rewind" \/ request[t].pc = "send_back"

LEMMA HandoffKept ==
  ASSUME CaseInv, HandoffInv, Climbs, WorkflowOK(workflow'),
         \A t \in Tasks : Rewinding(t)' => Rewinding(t) \/ SentBack',
         ~SentBack' => \A w \in (Completions \cap DOMAIN TargetOf)' :
                         w \in Completions \/ Reached(TargetOf[w])'
  PROVE  HandoffInv'
<1>1. /\ Rank(workflow.state) \in Int /\ Rank(workflow'.state) \in Int
      /\ \A x \in workflow.recorded : Rank(x) \in Int
      /\ \A w \in DOMAIN TargetOf : Rank(TargetOf[w]) \in Int
  <2>1. workflow.state \in States /\ workflow'.state \in States /\ workflow.recorded \subseteq Targets
    BY DEF CaseInv, WorkflowOK
  <2> QED BY <2>1, RankType, Ranks
<1>2. (\A t \in Tasks : task[t].pc = "rewind" \/ request[t].pc = "send_back" => SentBack)'
  BY DEF HandoffInv, Climbs, Rewinding
<1>3. ASSUME ~SentBack'
      PROVE  /\ (\A x \in workflow.recorded : Reached(x))'
             /\ (\A w \in Completions \cap DOMAIN TargetOf : Reached(TargetOf[w]))'
  <2>1. ~SentBack /\ Rank(workflow'.state) >= Rank(workflow.state)
    BY <1>3 DEF Climbs
  <2>2. ASSUME NEW x \in workflow'.recorded PROVE Rank(workflow'.state) >= Rank(x)
    BY <1>1, <1>3, <2>1, <2>2 DEF HandoffInv, Climbs, Reached
  <2>3. ASSUME NEW w \in (Completions \cap DOMAIN TargetOf)'
        PROVE  Rank(workflow'.state) >= Rank(TargetOf[w])
    BY <1>1, <1>3, <2>1, <2>3 DEF HandoffInv, Reached
  <2> QED BY <2>2, <2>3 DEF Reached
<1> QED BY <1>2, <1>3 DEF HandoffInv

LEMMA RequestKept ==
  ASSUME CaseInv, NEW t \in Tasks,
         \/ request' = request
         \/ \E pc : pc # "send_back" /\ GoOn(t, pc)
         \/ \E r : r.pc # "send_back" /\ request' = [request EXCEPT ![t] = r]
  PROVE  \A u \in Tasks : request'[u].pc = "send_back" => request[u].pc = "send_back"
<1>1. request = [u \in Tasks |-> request[u]] /\ request[t] \in Request
  BY DEF CaseInv, RequestOK
<1>2. ASSUME NEW pc, pc # "send_back", GoOn(t, pc)
      PROVE  \E r : r.pc # "send_back" /\ request' = [request EXCEPT ![t] = r]
  <2> DEFINE r == [request[t] EXCEPT !.pc = pc]
  <2>1. r.pc = pc
    BY <1>1 DEF Request
  <2>2. request' = [request EXCEPT ![t] = r]
    BY <1>2 DEF GoOn
  <2> HIDE DEF r
  <2> QED BY <1>2, <2>1, <2>2
<1>3. ASSUME NEW r, r.pc # "send_back", request' = [request EXCEPT ![t] = r]
      PROVE  \A u \in Tasks : request'[u].pc = "send_back" => request[u].pc = "send_back"
  BY <1>1, <1>3
<1> QED BY <1>2, <1>3

LEMMA AskKept ==
  ASSUME CaseInv, NEW t \in Tasks, NEW kind, NEW pc, NEW of, pc # "send_back", Ask(t, kind, pc, of)
  PROVE  \A u \in Tasks : request'[u].pc = "send_back" => request[u].pc = "send_back"
<1> DEFINE r == [kind |-> kind, pc |-> pc, of |-> of, stage |-> "none"]
<1>1. r.pc = pc /\ request' = [request EXCEPT ![t] = r]
  BY DEF Ask
<1> HIDE DEF r
<1> QED BY <1>1, RequestKept

LEMMA EndKept ==
  ASSUME CaseInv, NEW t \in Tasks, EndRequest(t)
  PROVE  \A u \in Tasks : request'[u].pc = "send_back" => request[u].pc = "send_back"
<1>1. Quiet.pc # "send_back"
  BY DEF Quiet
<1> QED BY <1>1, RequestKept DEF EndRequest

\* Only the route of a send-back brings a request to the place of one.
LEMMA RequestsNext ==
  ASSUME CaseInv, [Next]_vars, \A t \in Tasks, stage \in Stages : ~RouteSendBack(t, stage)
  PROVE  \A u \in Tasks : request'[u].pc = "send_back" => request[u].pc = "send_back"
<1>1. ASSUME NEW t \in Tasks, Arrive(t)
      PROVE  \A u \in Tasks : request'[u].pc = "send_back" => request[u].pc = "send_back"
  <2>1. \E kind, pc, of : pc # "send_back" /\ Ask(t, kind, pc, of)
    BY <1>1 DEF Arrive, CreateIntakeJob, ResumeRequest, CancelRequest, Decide, DecideAgain
  <2> QED BY <2>1, AskKept
<1>2. ASSUME NEW t \in Tasks, Step(t)
      PROVE  \A u \in Tasks : request'[u].pc = "send_back" => request[u].pc = "send_back"
  <2>1. CASE request' = request
    BY <2>1, RequestKept
  <2>2. CASE \E pc \in {"graph", "resume", "cancel", "complete", "retryable"} : GoOn(t, pc)
    BY <2>2, RequestKept
  <2>3. CASE EndRequest(t)
    BY <2>3, EndKept
  <2>4. CASE RouteFinal(t)
    BY <2>4, AskKept DEF RouteFinal
  <2>5. Proceed(t) /\ UNCHANGED caseVars => request' = request
    BY DEF caseVars
  <2>6. WorkerSucceeds(t) => request' = request
    BY DEF WorkerSucceeds
  <2>7. \A status : WorkerFails(t, status) => request' = request
    BY DEF WorkerFails
  <2>8. \/ BeginStart(t) \/ BeginResume(t) \/ BeginCancel(t) \/ RouteAmbiguous(t)
        \/ BeginSendBack(t) \/ BeginComplete(t) \/ BeginRetryable(t) \/ WriteBack(t)
        \/ WriteBackRefused(t) \/ WriteBackFails(t) \/ CompletionFailed(t)
        => \E pc \in {"graph", "resume", "cancel", "complete", "retryable"} : GoOn(t, pc)
    BY DEF BeginStart, BeginResume, BeginCancel, RouteAmbiguous, BeginSendBack, BeginComplete,
           BeginRetryable, WriteBack, WriteBackRefused, WriteBackFails, CompletionFailed
  <2>9. \/ ResumeLocked(t) \/ CancelLocked(t)
        => \/ \E pc \in {"graph", "resume", "cancel", "complete", "retryable"} : GoOn(t, pc)
           \/ EndRequest(t)
    BY DEF ResumeLocked, CancelLocked
  <2>10. EndRun(t) \/ EndCancel(t) \/ EndDecision(t) => EndRequest(t)
    BY DEF EndRun, EndCancel, EndDecision
  <2>11. MarkBreaks(t) => request' = request
    BY DEF MarkBreaks
  <2> QED
    BY <1>2, <2>1, <2>2, <2>3, <2>4, <2>5, <2>6, <2>7, <2>8, <2>9, <2>10, <2>11 DEF Step
<1>3. CASE Restart
  BY <1>3 DEF Restart, Quiet
<1>4. CASE UNCHANGED vars
  BY <1>4 DEF vars, caseVars
<1> QED BY <1>1, <1>2, <1>3, <1>4 DEF Next

(***************************************************************************)
(* Without a send-back on the record, no step rewinds, and what a step     *)
(* completes the case has reached.                                         *)
(***************************************************************************)
Carried ==
  /\ \A u \in Tasks : task'[u].pc = "rewind" => Rewinding(u)
  /\ \A w \in Completions' \cap DOMAIN TargetOf : w \in Completions \/ Reached(TargetOf[w])'

LEMMA CarriedIf ==
  ASSUME GraphInv, NEW t \in Tasks, NEW X, Carries(t, X),
         \A w \in X \cap DOMAIN TargetOf : Reached(TargetOf[w])'
  PROVE  Carried
  BY CarriesCompletions DEF Carried, Rewinding

LEMMA QuietCarried ==
  ASSUME GraphInv, checkpoint' = checkpoint,
         \A u \in Tasks : task'[u] = task[u] \/ task'[u] = Idle
  PROVE  Carried
  BY QuietCompletions DEF Carried, Rewinding

LEMMA ReturnCarried ==
  ASSUME GraphInv, NEW t \in Tasks, Return(t)
  PROVE  Carried
<1>1. checkpoint' = checkpoint /\ \A u \in Tasks : task'[u] = IF u = t THEN Idle ELSE task[u]
  BY DEF Return, GraphInv
<1> QED BY <1>1, QuietCarried

\* A worker that succeeds has advanced the case to its target.
LEMMA WorksReaches ==
  ASSUME CaseInv, HandoffInv, ~SentBack, NEW t \in Tasks, Works(t),
         NEW w, w = task[t].seen.current, w \in DOMAIN TargetOf
  PROVE  Reached(TargetOf[w])'
<1> DEFINE x == TargetOf[w]
<1>1. CanAdvance(workflow, x) /\ workflow' = Advanced(workflow, x)
  BY DEF Works
<1>2. x \in Targets /\ Rank(x) \in 1..8
  BY RankType DEF Targets
<1>3. \A y \in workflow.recorded : Reached(y)
  BY DEF HandoffInv
<1> HIDE DEF x
<1>4. CASE Rank(workflow.state) >= Rank(x) \/ x \in workflow.recorded
  <2>1. workflow' = workflow
    BY <1>1, <1>4 DEF Advanced
  <2>2. Rank(workflow.state) >= Rank(x)
    BY <1>3, <1>4 DEF Reached
  <2> QED BY <2>1, <2>2 DEF Reached, x
<1>5. CASE ~(Rank(workflow.state) >= Rank(x) \/ x \in workflow.recorded)
  <2>1. workflow' = [workflow EXCEPT !.state = x, !.recorded = @ \cup {x}]
    BY <1>1, <1>5 DEF Advanced
  <2>2. workflow'.state = x
    BY <2>1 DEF CaseInv, WorkflowOK
  <2> QED BY <1>2, <2>2 DEF Reached, x
<1> QED BY <1>4, <1>5

LEMMA StepCarries ==
  ASSUME CaseInv, HandoffInv, ~SentBack, NEW t \in Tasks, Step(t)
  PROVE  Carried
<1>0. GraphInv /\ task[t].pc # "rewind" /\ request[t].pc # "send_back"
  BY DEF CaseInv, HandoffInv
<1>1. ASSUME Carries(t, {}) PROVE Carried
  BY <1>0, <1>1, CarriedIf
<1>2. CASE Proceed(t)
  BY <1>0, <1>1, <1>2, ProceedCarries
<1>3. CASE WorkerSucceeds(t)
  <2>0. PICK w : w = task[t].seen.current
    OBVIOUS
  <2>1. RunSucceeds(t) /\ Works(t)
    BY <1>3 DEF WorkerSucceeds
  <2>2. Carries(t, {w})
    BY <1>0, <2>0, <2>1, RunSucceedsCarries
  <2>3. w \in DOMAIN TargetOf => Reached(TargetOf[w])'
    BY <2>0, <2>1, WorksReaches
  <2> QED BY <1>0, <2>2, <2>3, CarriedIf
<1>4. ASSUME NEW status \in Resumable \cup {"failed_terminal"}, WorkerFails(t, status)
      PROVE  Carried
  BY <1>0, <1>1, <1>4, RunFailsCarries DEF WorkerFails
<1>5. CASE BeginStart(t) \/ BeginResume(t)
  BY <1>0, <1>1, <1>5, EnterCarries DEF BeginStart, BeginResume
<1>6. CASE BeginCancel(t) \/ RouteAmbiguous(t) \/ BeginComplete(t) \/ BeginRetryable(t)
  <2>1. \E status \in Resumable \cup Terminal : Mark(t, status)
    BY <1>6 DEF BeginCancel, RouteAmbiguous, BeginComplete, BeginRetryable, Resumable, Terminal
  <2> QED BY <1>0, <1>1, <2>1, EnterCarries
<1>7. CASE EndRun(t) \/ EndCancel(t) \/ CompletionFailed(t) \/ EndDecision(t)
  BY <1>0, <1>7, ReturnCarried DEF EndRun, EndCancel, CompletionFailed, EndDecision
<1>8. CASE ResumeLocked(t) \/ CancelLocked(t) \/ RouteFinal(t)
             \/ WriteBack(t) \/ WriteBackRefused(t) \/ WriteBackFails(t)
  <2>1. UNCHANGED graphVars
    BY <1>8 DEF ResumeLocked, CancelLocked, RouteFinal, WriteBack, WriteBackRefused, WriteBackFails
  <2> QED BY <1>0, <2>1, QuietCarried DEF graphVars
<1>9. CASE \E stage \in Stages : RouteSendBack(t, stage)
  BY <1>0, <1>9, QuietCarried DEF RouteSendBack, graphVars
<1>10. ~BeginSendBack(t)
  BY <1>0 DEF BeginSendBack, Asks
<1>11. CASE MarkBreaks(t)
  <2>1. checkpoint' = checkpoint /\ \E arg : Become(t, "raised", "mark", arg, NoState)
    BY <1>11 DEF MarkBreaks, MarkFails
  <2> QED BY <1>0, <1>1, <2>1, BecomeCarries, Held, DoneNothing
<1> QED BY <1>2, <1>3, <1>4, <1>5, <1>6, <1>7, <1>8, <1>9, <1>10, <1>11 DEF Step

LEMMA NextCarries ==
  ASSUME CaseInv, HandoffInv, ~SentBack, [Next]_vars
  PROVE  Carried
<1>0. GraphInv
  BY DEF CaseInv
<1>1. ASSUME NEW t \in Tasks, Arrive(t)
      PROVE  Carried
  <2>1. UNCHANGED graphVars
    BY <1>1 DEF Arrive, CreateIntakeJob, ResumeRequest, CancelRequest, Decide, DecideAgain
  <2> QED BY <1>0, <2>1, QuietCarried DEF graphVars
<1>2. CASE Restart
  BY <1>0, <1>2, QuietCarried DEF Restart, Stop
<1>3. CASE UNCHANGED vars
  BY <1>0, <1>3, QuietCarried DEF vars, graphVars
<1> QED BY <1>1, <1>2, <1>3, StepCarries DEF Next

LEMMA HandoffNext ==
  ASSUME CaseInv, HandoffInv, [Next]_vars, WorkflowOK(workflow')
  PROVE  HandoffInv'
<1>1. Climbs
  BY ClimbsNext
<1>2. CASE SentBack'
  BY <1>2 DEF HandoffInv
<1>3. CASE ~SentBack'
  <2>1. ~SentBack
    BY <1>1, <1>3 DEF Climbs
  <2>2. Carried
    BY <2>1, NextCarries
  <2>3. \A t \in Tasks, stage \in Stages : ~RouteSendBack(t, stage)
    BY <1>3, RouteSendsBack
  <2>4. \A u \in Tasks : request'[u].pc = "send_back" => request[u].pc = "send_back"
    BY <2>3, RequestsNext
  <2>5. \A u \in Tasks : Rewinding(u)' => Rewinding(u)
    BY <2>2, <2>4 DEF Carried, Rewinding
  <2>6. \A w \in (Completions \cap DOMAIN TargetOf)' : w \in Completions \/ Reached(TargetOf[w])'
    BY <2>2 DEF Carried
  <2> QED BY <1>1, <2>5, <2>6, HandoffKept
<1> QED BY <1>2, <1>3

LEMMA HandoffInit == Init => HandoffInv
<1> SUFFICES ASSUME Init PROVE HandoffInv
  OBVIOUS
<1>1. /\ checkpoint = NoState /\ task = [t \in Tasks |-> Idle]
      /\ request = [t \in Tasks |-> Quiet] /\ workflow.recorded = {}
  BY DEF Init, GraphInit
<1>2. Completions = {}
  <2>1. Idle.seen = NoState
    BY DEF Idle
  <2> QED BY <1>1, <2>1, DoneNothing DEF Completions
<1>3. Idle.pc # "rewind" /\ Quiet.pc # "send_back"
  BY DEF Idle, Quiet
<1> QED BY <1>1, <1>2, <1>3 DEF HandoffInv

LEMMA HandoffImplies ==
  ASSUME CaseInv, HandoffInv, "human_review" \in Workers
  PROVE  WaitingMeansHandedOff
<1> SUFFICES ASSUME checkpoint.status = "waiting_for_review", ~SentBack
             PROVE  Rank(workflow.state) >= Rank("AWAITING_HUMAN")
  BY DEF WaitingMeansHandedOff, SentBack
<1>1. "human_review" \in Done(checkpoint)
  BY DEF CaseInv, GraphInv, Complete
<1>2. "human_review" \in Completions
  BY <1>1 DEF Completions
<1>3. "human_review" \in DOMAIN TargetOf /\ TargetOf["human_review"] = "AWAITING_HUMAN"
  BY DEF TargetOf
<1> QED BY <1>2, <1>3 DEF HandoffInv, Reached

\* Before any send-back a thread waits for review only when its case is before a
\* reviewer, whichever attempt, retry or restart did it, for every order of the
\* workers that has the handoff among them (workers.py, graph.py, app.py).
THEOREM HandoffCorrect ==
  ASSUME "human_review" \in Workers
  PROVE  Spec => []WaitingMeansHandedOff
<1>1. CaseInv => WorkflowOK(workflow)
  BY DEF CaseInv
<1>2. CaseInv' => WorkflowOK(workflow')
  BY DEF CaseInv
<1>3. CaseInv /\ CaseInv' /\ HandoffInv /\ [Next]_vars => HandoffInv'
  BY <1>2, HandoffNext
<1>4. CaseInv /\ HandoffInv => WaitingMeansHandedOff
  BY HandoffImplies
<1> QED BY <1>3, <1>4, HandoffInit, CaseInvariant, PTL DEF Spec

(***************************************************************************)
(* Until a decision, one task runs workers at a time.  Three things make   *)
(* it so together: the lock, which its holder alone gives back; the one    *)
(* active job, through which the one start goes; and the checkpoint, which *)
(* is not resumable while a task runs from it.                             *)
(***************************************************************************)
\* A request past the application's lock holds it.
LockHeld ==
  \A t \in Tasks :
    request[t].kind \in {"resume", "cancel"} /\ request[t].pc \in {"resume", "cancel", "graph"}
      => lock = t

\* One job is active, and each job has one intake.
OneJob ==
  /\ \A i, j \in Jobs : Active(i) /\ Active(j) => i = j
  /\ \A t \in Tasks : request[t].kind = "intake" =>
       /\ request[t].of \in Jobs /\ jobs[request[t].of].status # "none"
       /\ \A u \in Tasks : request[u].kind = "intake" /\ request[u].of = request[t].of => u = t

Within(s) == \A w \in Workers : s.attempts[w] <= MaxAttempts[w]
Starts(k) == k.pc = "create" \/ (k.pc = "invoke" /\ k.op = "start")
Resumes(k) == k.pc = "invoke" /\ k.op = "resume"
Marks(k) == k.pc \in {"reread", "mark"}
Runs(k) == k.pc \in {"run", "save"}
Open(c) == c # NoState /\ c.status \notin Resumable

\* Where call k of request r may be before any decision, c being the checkpoint.
Placed(k, r, c) ==
  /\ r.kind \in {"none", "intake", "resume", "cancel"}
  /\ r.kind = "none" => k.pc = "idle"
  /\ Starts(k) => c = NoState
  /\ Resumes(k) => r.kind = "resume" /\ c.status \in Resumable
  /\ Marks(k) => r.kind \in {"resume", "cancel"} /\ k.arg \in {"cancelled", "failed_terminal"}
  /\ k.pc \notin {"rewind", "reset"} /\ ~(k.pc = "invoke" /\ k.op = "rewind")

Tries(k) ==
  /\ k.pc = "run" => Within(k.seen)
  /\ k.pc = "save" => Within(k.seen) \/ k.seen.status = "failed_terminal"
Limits(c) == c # NoState => Within(c) \/ c.status \in Terminal

OnePlace ==
  /\ \A t \in Tasks : Placed(task[t], request[t], checkpoint) /\ Tries(task[t])
  /\ \A t \in Tasks : Runs(task[t]) =>
       Open(checkpoint) /\ \A u \in Tasks : Runs(task[u]) => u = t
  /\ Limits(checkpoint)

\* As long as there is no thread, all there can be is the active job's intake.
OneStart ==
  checkpoint = NoState =>
    \A t \in Tasks : request[t].kind # "none" => request[t].kind = "intake" /\ Active(request[t].of)

RunnerInv ==
  /\ LockHeld
  /\ OneJob
  /\ Decisions = <<>> => OnePlace /\ OneStart /\ workflow.state \notin Decided

(***************************************************************************)
(* What a step does to the request of its task, to the jobs and the lock.  *)
(***************************************************************************)
Locked(r) == r.kind \in {"resume", "cancel"} /\ r.pc \in {"resume", "cancel", "graph"}

\* The request of t becomes r: it goes on, it ends, or it arrives.
Turns(t, r) ==
  /\ request' = [request EXCEPT ![t] = r]
  /\ \A u \in Tasks : u # t /\ lock = u => lock' = u
  /\ Locked(r) => lock' = t
  /\ \/ r.kind = request[t].kind /\ r.of = request[t].of /\ jobs' = jobs
     \/ /\ r = Quiet /\ request[t].kind # "none"
        /\ \A j \in Jobs : jobs'[j] # jobs[j] =>
             j = request[t].of /\ jobs'[j].status \in {"completed", "failed", "cancelled"}
     \/ \E j \in Jobs : CreateIntakeJob(t, j) /\ r.kind = "intake" /\ r.of = j
     \/ /\ r.kind \in {"resume", "cancel"} /\ request[t] = Quiet
        /\ checkpoint # NoState /\ jobs' = jobs
     \/ r.kind \in {"decision", "finalize"} /\ request[t].kind # "intake" /\ jobs' = jobs

LEMMA StaysTurns ==
  ASSUME CaseInv, LockHeld, NEW t \in Tasks, UNCHANGED <<request, jobs, lock>>
  PROVE  \E r : Turns(t, r)
<1>1. request' = [request EXCEPT ![t] = request[t]]
  BY DEF CaseInv
<1>2. Locked(request[t]) => lock' = t
  BY DEF LockHeld, Locked
<1> QED BY <1>1, <1>2 DEF Turns

LEMMA GoesOnTurns ==
  ASSUME CaseInv, LockHeld, NEW t \in Tasks, NEW pc, GoOn(t, pc), jobs' = jobs,
         \/ lock' = lock /\ (~Locked(request[t]) => request[t].kind \notin {"resume", "cancel"})
         \/ lock = "free" /\ lock' = t
  PROVE  \E r : Turns(t, r)
<1> DEFINE r == [request[t] EXCEPT !.pc = pc]
<1>1. request' = [request EXCEPT ![t] = r]
  BY DEF GoOn
<1>2. r.kind = request[t].kind /\ r.of = request[t].of
  BY DEF CaseInv, RequestOK, Request
<1> HIDE DEF r
<1>3. \A u \in Tasks : u # t /\ lock = u => lock' = u
  BY AgentAssumption
<1>4. Locked(r) => lock' = t
  BY <1>2 DEF LockHeld, Locked
<1> QED BY <1>1, <1>2, <1>3, <1>4 DEF Turns

LEMMA ArrivesTurns ==
  ASSUME CaseInv, NEW t \in Tasks, Arrive(t)
  PROVE  \E r : Turns(t, r)
<1>1. ASSUME NEW kind, NEW pc, NEW of, Ask(t, kind, pc, of), lock' = lock,
             pc \in {"start", "lock", "write", "route"}
      PROVE  \E r : /\ request' = [request EXCEPT ![t] = r]
                    /\ r.kind = kind /\ r.of = of /\ ~Locked(r)
                    /\ \A u \in Tasks : u # t /\ lock = u => lock' = u
  <2> DEFINE r == [kind |-> kind, pc |-> pc, of |-> of, stage |-> "none"]
  <2>1. r.kind = kind /\ r.pc = pc /\ r.of = of /\ request' = [request EXCEPT ![t] = r]
    BY <1>1 DEF Ask
  <2> HIDE DEF r
  <2> QED BY <1>1, <2>1 DEF Locked
<1>2. ASSUME NEW j \in Jobs, CreateIntakeJob(t, j)
      PROVE  \E r : Turns(t, r)
  <2>1. Ask(t, "intake", "start", j) /\ lock' = lock
    BY <1>2 DEF CreateIntakeJob
  <2>2. PICK r : /\ request' = [request EXCEPT ![t] = r]
                 /\ r.kind = "intake" /\ r.of = j /\ ~Locked(r)
                 /\ \A u \in Tasks : u # t /\ lock = u => lock' = u
    BY <1>1, <2>1
  <2> QED BY <1>2, <2>2 DEF Turns
<1>3. ASSUME NEW j \in Jobs, ResumeRequest(t, j)
      PROVE  \E r : Turns(t, r)
  <2>1. request[t] = Quiet /\ Quiet.kind # "intake" /\ checkpoint # NoState /\ jobs' = jobs /\ lock' = lock
    BY <1>3 DEF ResumeRequest, Quiet
  <2>2. Ask(t, "finalize", "write", j) \/ Ask(t, "resume", "lock", j)
    BY <1>3 DEF ResumeRequest
  <2>3. CASE Ask(t, "finalize", "write", j)
    <3>1. PICK r : /\ request' = [request EXCEPT ![t] = r]
                   /\ r.kind = "finalize" /\ ~Locked(r)
                   /\ \A u \in Tasks : u # t /\ lock = u => lock' = u
      BY <1>1, <2>1, <2>3
    <3> QED BY <2>1, <3>1 DEF Turns
  <2>4. CASE Ask(t, "resume", "lock", j)
    <3>1. PICK r : /\ request' = [request EXCEPT ![t] = r]
                   /\ r.kind = "resume" /\ ~Locked(r)
                   /\ \A u \in Tasks : u # t /\ lock = u => lock' = u
      BY <1>1, <2>1, <2>4
    <3> QED BY <2>1, <3>1 DEF Turns
  <2> QED BY <2>2, <2>3, <2>4
<1>4. ASSUME NEW j \in Jobs, CancelRequest(t, j)
      PROVE  \E r : Turns(t, r)
  <2>1. request[t] = Quiet /\ checkpoint # NoState /\ jobs' = jobs /\ lock' = lock
        /\ Ask(t, "cancel", "lock", j)
    BY <1>4 DEF CancelRequest
  <2>2. PICK r : /\ request' = [request EXCEPT ![t] = r]
                 /\ r.kind = "cancel" /\ ~Locked(r)
                 /\ \A u \in Tasks : u # t /\ lock = u => lock' = u
    BY <1>1, <2>1
  <2> QED BY <2>1, <2>2 DEF Turns
<1>5. ASSUME \/ \E action, stage, accepted : Decide(t, action, stage, accepted)
             \/ \E d : DecideAgain(t, d)
      PROVE  \E r : Turns(t, r)
  <2>1. /\ request[t] = Quiet /\ Quiet.kind # "intake" /\ jobs' = jobs /\ lock' = lock
        /\ \E of : Ask(t, "decision", "route", of)
    BY <1>5 DEF Decide, DecideAgain, Quiet
  <2>2. PICK of : Ask(t, "decision", "route", of)
    BY <2>1
  <2>3. PICK r : /\ request' = [request EXCEPT ![t] = r]
                 /\ r.kind = "decision" /\ ~Locked(r)
                 /\ \A u \in Tasks : u # t /\ lock = u => lock' = u
    BY <1>1, <2>1, <2>2
  <2> QED BY <2>1, <2>3 DEF Turns
<1> QED BY <1>2, <1>3, <1>4, <1>5 DEF Arrive

LEMMA EndTurns ==
  ASSUME CaseInv, LockHeld, NEW t \in Tasks, EndRun(t) \/ EndCancel(t) \/ EndDecision(t)
  PROVE  Turns(t, Quiet) /\ Return(t) /\ EndRequest(t)
<1>0. /\ request' = [request EXCEPT ![t] = Quiet]
      /\ ~Locked(Quiet)
      /\ request[t].kind # "none"
      /\ Return(t) /\ EndRequest(t)
  BY DEF EndRun, EndCancel, EndDecision, EndRequest, Quiet, Locked, Asks
<1>1. \A u \in Tasks : u # t /\ lock = u => lock' = u
  <2>1. CASE EndRun(t) \/ EndDecision(t)
    BY <2>1 DEF EndRun, EndDecision
  <2>2. CASE EndCancel(t)
    <3>1. lock = t
      BY <2>2 DEF EndCancel, Asks, LockHeld
    <3> QED BY <3>1
  <2> QED BY <2>1, <2>2
<1>2. \A j \in Jobs : jobs'[j] # jobs[j] =>
        j = request[t].of /\ jobs'[j].status \in {"completed", "failed", "cancelled"}
  <2> DEFINE o == request[t].of
             Ended == \E status \in {"completed", "failed", "cancelled"} :
                        \E retryable : Finished(o, status, retryable)
  <2>1. jobs' = jobs \/ Ended
    <3>1. ASSUME NEW status, JobAfter(o, status)
          PROVE  jobs' = jobs \/ Ended
      <4>1. \/ jobs' = jobs \/ Finished(o, "completed", FALSE)
            \/ Finished(o, "failed", status = "failed_retryable")
        BY <3>1 DEF JobAfter
      <4> QED BY <4>1
    <3>2. CASE EndRun(t)
      <4>1. \/ \E status : JobAfter(o, status)
            \/ Finished(o, "failed", TRUE)
            \/ jobs' = jobs
        BY <3>2 DEF EndRun
      <4> QED BY <3>1, <4>1
    <3>3. EndCancel(t) => Finished(o, "cancelled", FALSE) \/ jobs' = jobs
      BY DEF EndCancel
    <3>4. EndDecision(t) => jobs' = jobs
      BY DEF EndDecision
    <3> QED BY <3>2, <3>3, <3>4
  <2>2. ASSUME NEW status \in {"completed", "failed", "cancelled"}, NEW retryable,
               Finished(request[t].of, status, retryable), NEW j \in Jobs, jobs'[j] # jobs[j]
        PROVE  j = request[t].of /\ jobs'[j].status = status
    BY <2>2 DEF Finished, CaseInv, JobsOK
  <2> QED BY <2>1, <2>2
<1> QED BY <1>0, <1>1, <1>2 DEF Turns

LEMMA StepTurns ==
  ASSUME CaseInv, LockHeld, NEW t \in Tasks, Step(t)
  PROVE  \E r : Turns(t, r)
<1>1. CASE UNCHANGED <<request, jobs, lock>>
  BY <1>1, StaysTurns
<1>2. \/ Proceed(t) /\ UNCHANGED caseVars
      \/ WorkerSucceeds(t) \/ (\E status : WorkerFails(t, status)) \/ MarkBreaks(t)
      => UNCHANGED <<request, jobs, lock>>
  BY DEF caseVars, WorkerSucceeds, WorkerFails, MarkBreaks
<1>3. CASE \/ BeginStart(t) \/ BeginResume(t) \/ BeginCancel(t) \/ RouteAmbiguous(t)
           \/ BeginSendBack(t) \/ WriteBack(t) \/ WriteBackRefused(t) \/ WriteBackFails(t)
           \/ BeginComplete(t) \/ BeginRetryable(t) \/ CompletionFailed(t)
  <2>1. /\ jobs' = jobs /\ lock' = lock /\ \E pc : GoOn(t, pc)
        /\ ~Locked(request[t]) => request[t].kind \notin {"resume", "cancel"}
    BY <1>3 DEF BeginStart, BeginResume, BeginCancel, RouteAmbiguous, BeginSendBack, WriteBack,
       WriteBackRefused, WriteBackFails, BeginComplete, BeginRetryable, CompletionFailed, Asks, Locked
  <2> QED BY <2>1, GoesOnTurns
<1>4. CASE ResumeLocked(t) \/ CancelLocked(t)
  <2>1. /\ jobs' = jobs /\ lock = "free" /\ request[t].kind # "none"
        /\ \/ lock' = t /\ \E pc : GoOn(t, pc)
           \/ lock' = lock /\ EndRequest(t)
    BY <1>4 DEF ResumeLocked, CancelLocked, Asks
  <2>2. CASE lock' = lock /\ EndRequest(t)
    <3>1. request' = [request EXCEPT ![t] = Quiet] /\ ~Locked(Quiet)
      BY <2>2 DEF EndRequest, Quiet, Locked
    <3> QED BY <2>1, <2>2, <3>1 DEF Turns
  <2> QED BY <2>1, <2>2, GoesOnTurns
<1>5. CASE EndRun(t) \/ EndCancel(t) \/ EndDecision(t)
  BY <1>5, EndTurns
<1>6. ASSUME NEW stage \in Stages, RouteSendBack(t, stage)
      PROVE  \E r : Turns(t, r)
  <2> DEFINE r == [request[t] EXCEPT !.pc = "send_back", !.stage = stage]
  <2>1. request' = [request EXCEPT ![t] = r] /\ jobs' = jobs /\ lock' = lock
    BY <1>6 DEF RouteSendBack
  <2>2. r.kind = request[t].kind /\ r.of = request[t].of /\ ~Locked(r)
    BY <1>6 DEF CaseInv, RequestOK, Request, RouteSendBack, Asks, Locked
  <2> HIDE DEF r
  <2> QED BY <2>1, <2>2 DEF Turns
<1>7. CASE RouteFinal(t)
  <2> DEFINE r == [kind |-> "finalize", pc |-> "write", of |-> request[t].of, stage |-> "none"]
  <2>1. request' = [request EXCEPT ![t] = r] /\ jobs' = jobs /\ lock' = lock
        /\ request[t].kind # "intake"
    BY <1>7 DEF RouteFinal, Ask, Asks
  <2>2. r.kind = "finalize" /\ ~Locked(r)
    BY DEF Locked
  <2> HIDE DEF r
  <2> QED BY <2>1, <2>2 DEF Turns
<1> QED BY <1>1, <1>2, <1>3, <1>4, <1>5, <1>6, <1>7 DEF Step

\* The lock stays with the request that is past it, and each intake has its job.
LEMMA TurnKeeps ==
  ASSUME CaseInv, LockHeld, OneJob, NEW t \in Tasks, NEW r, Turns(t, r)
  PROVE  LockHeld' /\ OneJob'
<1>0. \A u \in Tasks : request'[u] = IF u = t THEN r ELSE request[u]
  BY DEF Turns, CaseInv
<1>1. LockHeld'
  BY <1>0 DEF LockHeld, Turns, Locked
<1>2. CASE \E j \in Jobs : CreateIntakeJob(t, j) /\ r.kind = "intake" /\ r.of = j
  <2>1. PICK j \in Jobs : CreateIntakeJob(t, j) /\ r.kind = "intake" /\ r.of = j
    BY <1>2
  <2>2. /\ jobs[j].status = "none" /\ \A i \in Jobs : ~Active(i)
        /\ \A i \in Jobs : jobs'[i] = IF i = j THEN [status |-> "running", retryable |-> FALSE]
                                      ELSE jobs[i]
    BY <2>1 DEF CreateIntakeJob, Finished, CaseInv, JobsOK
  <2>3. \A i \in Jobs : jobs'[i].status = "running" => i = j
    BY <2>2 DEF Active
  <2>4. \A i \in Jobs : jobs'[i].status = "none" => jobs[i].status = "none"
    BY <2>2
  <2> QED BY <1>0, <1>1, <2>1, <2>2, <2>3, <2>4 DEF OneJob, Active
<1>3. CASE ~\E j \in Jobs : CreateIntakeJob(t, j) /\ r.kind = "intake" /\ r.of = j
  <2>1. /\ \A j \in Jobs : jobs'[j].status = "running" => jobs[j].status = "running"
        /\ \A j \in Jobs : jobs'[j].status = "none" => jobs[j].status = "none"
    BY <1>3 DEF Turns
  <2>2. r.kind = "intake" => request[t].kind = "intake" /\ r.of = request[t].of
    BY <1>3 DEF Turns, Quiet
  <2> QED BY <1>0, <1>1, <2>1, <2>2 DEF OneJob, Active
<1> QED BY <1>1, <1>2, <1>3

LEMMA TurnStart ==
  ASSUME CaseInv, OneJob, OneStart, NEW t \in Tasks, NEW r, Turns(t, r),
         checkpoint' = NoState => checkpoint = NoState,
         r.kind \notin {"decision", "finalize"}
  PROVE  OneStart'
<1> SUFFICES ASSUME checkpoint' = NoState, NEW u \in Tasks, request'[u].kind # "none"
             PROVE  request'[u].kind = "intake" /\ jobs'[request'[u].of].status = "running"
  BY DEF OneStart, Active
<1>0. /\ \A v \in Tasks : request'[v] = IF v = t THEN r ELSE request[v]
      /\ checkpoint = NoState
  BY DEF Turns, CaseInv
<1>1. CASE r.kind = request[t].kind /\ r.of = request[t].of /\ jobs' = jobs
  BY <1>0, <1>1 DEF OneStart, Active
<1>2. CASE /\ r = Quiet /\ request[t].kind # "none"
           /\ \A j \in Jobs : jobs'[j] # jobs[j] =>
                j = request[t].of /\ jobs'[j].status \in {"completed", "failed", "cancelled"}
  <2>1. u # t /\ request'[u] = request[u]
    BY <1>0, <1>2 DEF Quiet
  <2>2. /\ request[u].kind = "intake" /\ Active(request[u].of)
        /\ request[t].kind = "intake" /\ Active(request[t].of)
    BY <1>0, <1>2, <2>1 DEF OneStart
  <2> QED BY <2>1, <2>2 DEF OneJob
<1>3. ASSUME NEW j \in Jobs, CreateIntakeJob(t, j), r.kind = "intake", r.of = j
      PROVE  request'[u].kind = "intake" /\ jobs'[request'[u].of].status = "running"
  <2>1. /\ \A i \in Jobs : ~Active(i)
        /\ jobs'[j].status = "running"
    BY <1>3 DEF CreateIntakeJob, Finished, CaseInv, JobsOK
  <2>2. u = t
    BY <1>0, <2>1 DEF OneStart, OneJob
  <2> QED BY <1>0, <1>3, <2>1, <2>2
<1> QED BY <1>0, <1>1, <1>2, <1>3 DEF Turns

\* A decision stays on the record, and without one the case is not decided.
LEMMA StillUndecided ==
  ASSUME CaseInv, [Next]_vars, Decisions' = <<>>
  PROVE  Decisions = <<>> /\ (workflow.state \notin Decided => workflow'.state \notin Decided)
<1>0. /\ workflow \in [state: States, decision: DecisionActions \cup {"none"}, accepted: BOOLEAN,
                       recorded: SUBSET Targets, decisions: Seq(Decision)]
      /\ workflow'.decisions = <<>>
  BY DEF CaseInv, WorkflowOK, Decisions
<1>1. CASE workflow' = workflow
  BY <1>1 DEF Decisions
<1>2. ASSUME NEW t \in Tasks, Works(t)
      PROVE  Decisions = <<>> /\ (workflow.state \notin Decided => workflow'.state \notin Decided)
  <2>1. Len(workflow'.decisions) >= Len(workflow.decisions)
    BY <1>2, WorksOK DEF Grows
  <2>2. workflow.decisions = <<>>
    BY <1>0, <2>1
  <2> DEFINE x == TargetOf[task[t].seen.current]
  <2>3. \/ workflow' = workflow
        \/ x \in Targets /\ workflow' = [workflow EXCEPT !.state = x, !.recorded = @ \cup {x}]
    BY <1>2 DEF Works, Advanced, Targets
  <2> HIDE DEF x
  <2>4. workflow'.state = workflow.state \/ workflow'.state \in Targets
    BY <1>0, <2>3
  <2> QED BY <2>2, <2>4, Ranks DEF Decisions
<1>3. ASSUME NEW t \in Tasks, NEW action \in DecisionActions,
             NEW stage \in RestartStages \cup {"none"}, NEW accepted \in BOOLEAN,
             Decide(t, action, stage, accepted)
      PROVE  FALSE
  <2> DEFINE d == [action |-> action, stage |-> stage, reopened |-> FALSE]
             ds == Append(workflow.decisions, d)
  <2>1. workflow'.decisions = ds
    BY <1>3, DecideSays
  <2>2. Len(ds) # 0
    BY <1>0
  <2> HIDE DEF ds
  <2> QED BY <1>0, <2>1, <2>2
<1>4. ASSUME NEW t \in Tasks, NEW stage \in Stages, RouteSendBack(t, stage)
      PROVE  FALSE
  <2>1. SentBack'
    BY <1>4, RouteSendsBack
  <2> QED BY <1>0, <2>1 DEF SentBack, Decisions
<1>5. ASSUME NEW t \in Tasks, Writes(t)
      PROVE  Decisions = <<>> /\ workflow.state \in Decided
  <2>1. workflow' = [workflow EXCEPT !.state = "PRECEDENT_WRITTEN"]
    BY <1>5 DEF Writes
  <2>2. workflow'.decisions = workflow.decisions
    BY <1>0, <2>1
  <2>3. workflow.state \in Decided
    BY <1>5 DEF Writes, Asks, CaseInv, RequestOK
  <2> QED BY <1>0, <2>2, <2>3 DEF Decisions
<1> QED BY <1>1, <1>2, <1>3, <1>4, <1>5, WorkflowSteps

\* Of the requests only intakes, resumes and cancels are there without a decision.
LEMMA NoneDecides ==
  ASSUME CaseInv, Decisions = <<>>, workflow.state \notin Decided, NEW t \in Tasks
  PROVE  request[t].kind \in {"none", "intake", "resume", "cancel"}
<1>1. RequestOK(request[t], workflow) /\ Len(workflow.decisions) = 0
  BY DEF CaseInv, Decisions
<1> QED BY <1>1 DEF RequestOK, Request

(***************************************************************************)
(* Where the tasks are, step by step.                                      *)
(***************************************************************************)
LEMMA IdlePlaced ==
  ASSUME NEW k, NEW r, NEW c, k.pc \in {"idle", "run", "save", "settle", "returned", "raised"},
         r.kind \in {"none", "intake", "resume", "cancel"},
         r.kind = "none" => k.pc = "idle"
  PROVE  Placed(k, r, c)
  BY DEF Placed, Starts, Resumes, Marks

LEMMA SamePlace ==
  ASSUME NEW k, NEW r, NEW c, Placed(k, r, c), NEW q, q.kind = r.kind
  PROVE  Placed(k, q, c)
  BY DEF Placed

\* A step of task t that leaves the checkpoint as it is.
LEMMA PlaceMoves ==
  ASSUME CaseInv, OnePlace, NEW t \in Tasks, NEW k, NEW r,
         task' = [task EXCEPT ![t] = k], request' = [request EXCEPT ![t] = r],
         checkpoint' = checkpoint,
         Placed(k, r, checkpoint), Tries(k), Runs(k) => Runs(task[t])
  PROVE  OnePlace'
<1>1. \A u \in Tasks : /\ task'[u] = IF u = t THEN k ELSE task[u]
                       /\ request'[u] = IF u = t THEN r ELSE request[u]
  BY DEF CaseInv, GraphInv
<1>2. \A u \in Tasks : Placed(task'[u], request'[u], checkpoint) /\ Tries(task'[u])
  BY <1>1 DEF OnePlace
<1>3. \A u \in Tasks : Runs(task'[u]) => Runs(task[u])
  BY <1>1
<1>4. \A u \in Tasks : Runs(task'[u]) =>
        Open(checkpoint) /\ \A v \in Tasks : Runs(task'[v]) => v = u
  BY <1>3 DEF OnePlace
<1>5. Limits(checkpoint)
  BY DEF OnePlace
<1> QED BY <1>2, <1>4, <1>5 DEF OnePlace

\* A step of task t that writes the checkpoint.
LEMMA PlaceWrites ==
  ASSUME CaseInv, OnePlace, NEW t \in Tasks, NEW k,
         task' = [task EXCEPT ![t] = k], request' = request,
         Placed(k, request[t], checkpoint'), Tries(k), Limits(checkpoint'),
         Runs(k) => Open(checkpoint'),
         \A u \in Tasks : u # t =>
           /\ ~Starts(task[u]) /\ ~Resumes(task[u])
           /\ Runs(task[u]) => ~Runs(k) /\ Open(checkpoint')
  PROVE  OnePlace'
<1>1. \A u \in Tasks : task'[u] = IF u = t THEN k ELSE task[u]
  BY DEF CaseInv, GraphInv
<1>2. \A u \in Tasks : u # t => Placed(task[u], request[u], checkpoint')
  BY DEF OnePlace, Placed
<1>3. \A u \in Tasks : Placed(task'[u], request'[u], checkpoint') /\ Tries(task'[u])
  BY <1>1, <1>2 DEF OnePlace
<1>4. \A u \in Tasks : Runs(task'[u]) =>
        Open(checkpoint') /\ \A v \in Tasks : Runs(task'[v]) => v = u
  BY <1>1 DEF OnePlace
<1> QED BY <1>3, <1>4 DEF OnePlace

LEMMA AttemptsGrow ==
  ASSUME NEW s \in State, Within(s), ~Exhausted(s)
  PROVE  /\ Within(Tried(s))
         /\ Within(Succeeded(s))
         /\ \A status : Within(Failed(s, status))
<1>1. /\ s.attempts \in [Workers -> Nat] /\ s.current \in Workers
      /\ MaxAttempts \in [Workers -> Nat]
  BY GraphAssumption DEF State
<1> DEFINE a == [s.attempts EXCEPT ![s.current] = s.attempts[s.current] + 1]
<1>2. Tried(s).attempts = a
  BY DEF Tried, State
<1>3. \A w \in Workers : a[w] <= MaxAttempts[w]
  BY <1>1 DEF Within, Exhausted
<1> HIDE DEF a
<1>4. /\ Succeeded(s).attempts = a
      /\ \A status : Failed(s, status).attempts = a
  BY <1>2, TriedType DEF Succeeded, Failed, State
<1> QED BY <1>2, <1>3, <1>4 DEF Within

\* A request that goes on, or is left alone, is of its kind.
LEMMA KindStays ==
  ASSUME CaseInv, NEW t \in Tasks, request' = request \/ \E p : GoOn(t, p)
  PROVE  \E r : request' = [request EXCEPT ![t] = r] /\ r.kind = request[t].kind
<1>1. CASE request' = request
  <2>1. request' = [request EXCEPT ![t] = request[t]]
    BY <1>1 DEF CaseInv
  <2> QED BY <2>1
<1>2. ASSUME NEW p, GoOn(t, p)
      PROVE  \E r : request' = [request EXCEPT ![t] = r] /\ r.kind = request[t].kind
  <2> DEFINE r == [request[t] EXCEPT !.pc = p]
  <2>1. request' = [request EXCEPT ![t] = r]
    BY <1>2 DEF GoOn
  <2>2. r.kind = request[t].kind
    BY DEF CaseInv, RequestOK, Request
  <2> HIDE DEF r
  <2> QED BY <2>1, <2>2
<1> QED BY <1>1, <1>2

LEMMA BecomePlace ==
  ASSUME CaseInv, OnePlace, NEW t \in Tasks, NEW pc, NEW op, NEW arg, NEW seen,
         Become(t, pc, op, arg, seen), checkpoint' = checkpoint,
         request' = request \/ \E p : GoOn(t, p),
         request[t].kind # "none",
         pc = "save" => Runs(task[t]) /\ (Within(seen) \/ seen.status = "failed_terminal"),
         pc = "create" \/ (pc = "invoke" /\ op = "start") => checkpoint = NoState,
         pc = "invoke" /\ op = "resume" =>
           request[t].kind = "resume" /\ checkpoint.status \in Resumable,
         pc \in {"reread", "mark"} =>
           request[t].kind \in {"resume", "cancel"} /\ arg \in {"cancelled", "failed_terminal"},
         pc \notin {"run", "rewind", "reset"}, ~(pc = "invoke" /\ op = "rewind")
  PROVE  OnePlace'
<1> DEFINE k == [pc |-> pc, op |-> op, arg |-> arg, seen |-> seen]
<1>1. k.pc = pc /\ k.op = op /\ k.arg = arg /\ k.seen = seen /\ task' = [task EXCEPT ![t] = k]
  BY DEF Become
<1> HIDE DEF k
<1>2. PICK r : request' = [request EXCEPT ![t] = r] /\ r.kind = request[t].kind
  BY KindStays
<1>3. r.kind \in {"none", "intake", "resume", "cancel"}
  BY <1>2 DEF OnePlace, Placed
<1>4. Placed(k, r, checkpoint)
  BY <1>1, <1>2, <1>3 DEF Placed, Starts, Resumes, Marks
<1>5. Tries(k) /\ (Runs(k) => Runs(task[t]))
  BY <1>1 DEF Tries, Runs
<1> QED BY <1>1, <1>2, <1>4, <1>5, PlaceMoves

LEMMA Inside ==
  ASSUME CaseInv, OnePlace, NEW t \in Tasks, task[t].pc # "idle"
  PROVE  /\ request[t].kind \in {"intake", "resume", "cancel"} /\ request[t].pc = "graph"
         /\ Placed(task[t], request[t], checkpoint) /\ Tries(task[t])
  BY DEF CaseInv, Busy, OnePlace, Placed

\* While a task starts the thread, every other is idle.
LEMMA StartsAlone ==
  ASSUME CaseInv, OneJob, OnePlace, OneStart, NEW t \in Tasks, Starts(task[t])
  PROVE  checkpoint = NoState /\ \A u \in Tasks : u # t => task[u].pc = "idle"
<1>1. task[t].pc # "idle"
  BY DEF Starts
<1>2. checkpoint = NoState /\ request[t].kind = "intake" /\ Active(request[t].of)
  BY <1>1, Inside DEF Placed, OneStart
<1>3. ASSUME NEW u \in Tasks, task[u].pc # "idle"
      PROVE  u = t
  <2>1. request[u].kind = "intake" /\ Active(request[u].of)
    BY <1>2, <1>3, Inside DEF OneStart
  <2> QED BY <1>2, <2>1 DEF OneJob
<1> QED BY <1>2, <1>3

\* A task that resumes or marks the thread has the lock.
LEMMA InsideLocked ==
  ASSUME CaseInv, LockHeld, OnePlace, NEW t \in Tasks, Resumes(task[t]) \/ Marks(task[t])
  PROVE  lock = t
<1>1. task[t].pc # "idle"
  BY DEF Resumes, Marks
<1>2. request[t].kind \in {"resume", "cancel"} /\ request[t].pc = "graph"
  BY <1>1, Inside DEF Placed
<1> QED BY <1>2 DEF LockHeld

\* A run admits neither a start nor a resume beside it.
LEMMA OpenShuts ==
  ASSUME OnePlace, Open(checkpoint), NEW u \in Tasks
  PROVE  ~Starts(task[u]) /\ ~Resumes(task[u])
  BY DEF OnePlace, Placed, Open

LEMMA WithinStays ==
  ASSUME NEW s \in State, Within(s), NEW status
  PROVE  Within([s EXCEPT !.status = status])
<1>1. [s EXCEPT !.status = status].attempts = s.attempts
  BY DEF State
<1> QED BY <1>1 DEF Within

LEMMA InvokePlace ==
  ASSUME CaseInv, LockHeld, OneJob, OnePlace, OneStart, NEW t \in Tasks, Invoke(t),
         request' = request
  PROVE  OnePlace'
<1> DEFINE input == Merged(checkpoint, task[t].op, task[t].arg)
           k == [pc |-> "run", op |-> "none", arg |-> "none", seen |-> input]
<1>1. task[t].pc = "invoke" /\ checkpoint' = input /\ task' = [task EXCEPT ![t] = k]
  BY DEF Invoke, Become, At
<1>2. TaskOK(task[t], checkpoint) /\ checkpoint \in State \cup {NoState}
  BY DEF CaseInv, GraphInv
<1>3. task[t].op \in {"start", "resume"}
  BY <1>1, <1>2, Inside DEF TaskOK, Placed
<1>4. input \in State /\ input.status = "running" /\ Within(input)
  <2>1. CASE task[t].op = "start"
    <3>1. input = InitialState
      BY <2>1 DEF Merged
    <3>2. \A w \in Workers : InitialState.attempts[w] = 0 /\ MaxAttempts[w] \in Nat
      BY GraphAssumption DEF InitialState
    <3> QED BY <3>1, <3>2, InitialStateType DEF Within
  <2>2. CASE task[t].op = "resume"
    <3>1. input = [checkpoint EXCEPT !.status = "running"] /\ checkpoint \in State
      BY <1>1, <1>2, <2>2 DEF Merged, TaskOK
    <3>2. checkpoint.status \in Resumable
      BY <1>1, <2>2, Inside DEF Placed, Resumes
    <3>3. Within(checkpoint)
      BY <3>1, <3>2, StateIsThere DEF OnePlace, Limits, Resumable, Terminal
    <3>4. "running" \in GraphStatus
      BY DEF GraphStatus
    <3> QED BY <3>1, <3>3, <3>4, WithinStays, StatusType
  <2> QED BY <1>3, <2>1, <2>2
<1>5. ASSUME NEW u \in Tasks, u # t
      PROVE  ~Starts(task[u]) /\ ~Resumes(task[u]) /\ ~Runs(task[u])
  <2>1. CASE task[t].op = "start"
    <3>1. task[u].pc = "idle"
      BY <1>1, <1>5, <2>1, StartsAlone DEF Starts
    <3> QED BY <3>1 DEF Starts, Resumes, Runs
  <2>2. CASE task[t].op = "resume"
    <3>1. Resumes(task[t])
      BY <1>1, <2>2 DEF Resumes
    <3>2. checkpoint.status \in Resumable
      BY <1>1, <3>1, Inside DEF Placed
    <3>3. ~Runs(task[u])
      BY <3>2 DEF OnePlace, Open
    <3>4. ~Resumes(task[u])
      BY <1>5, <3>1, InsideLocked
    <3>5. ~Starts(task[u])
      BY <1>5, <3>1, StartsAlone DEF Resumes
    <3> QED BY <3>3, <3>4, <3>5
  <2> QED BY <1>3, <2>1, <2>2
<1>6. k.pc = "run" /\ k.seen = input
  OBVIOUS
<1> HIDE DEF k, input
<1>7. Placed(k, request[t], checkpoint') /\ Tries(k)
  BY <1>1, <1>4, <1>6, Inside, IdlePlaced DEF Tries
<1>8. Open(checkpoint') /\ Limits(checkpoint')
  BY <1>1, <1>4, StateIsThere DEF Open, Limits, Resumable
<1> QED BY <1>1, <1>5, <1>7, <1>8, PlaceWrites

LEMMA SavePlace ==
  ASSUME CaseInv, OnePlace, NEW t \in Tasks, SaveCheckpoint(t), request' = request
  PROVE  OnePlace'
<1> DEFINE s == task[t].seen
           k == [pc |-> IF s.status = "running" THEN "run" ELSE "settle",
                 op |-> "none", arg |-> "none", seen |-> s]
<1>1. task[t].pc = "save" /\ checkpoint' = s /\ task' = [task EXCEPT ![t] = k]
  BY DEF SaveCheckpoint, Become, At
<1>2. s \in State
  BY <1>1 DEF CaseInv, GraphInv, TaskOK
<1>3. Runs(task[t]) /\ (Within(s) \/ s.status = "failed_terminal")
  BY <1>1, Inside DEF Tries, Runs
<1>4. \A u \in Tasks : u # t => ~Starts(task[u]) /\ ~Resumes(task[u]) /\ ~Runs(task[u])
  BY <1>3, OpenShuts DEF OnePlace
<1>5. k.pc = (IF s.status = "running" THEN "run" ELSE "settle") /\ k.seen = s
  OBVIOUS
<1> HIDE DEF k
<1>6. Placed(k, request[t], checkpoint') /\ Tries(k)
  BY <1>1, <1>3, <1>5, Inside, IdlePlaced DEF Tries
<1>7. (Runs(k) => Open(checkpoint')) /\ Limits(checkpoint')
  BY <1>1, <1>2, <1>3, <1>5, StateIsThere DEF Open, Limits, Resumable, Terminal, Runs
<1> HIDE DEF s
<1> QED BY <1>1, <1>4, <1>6, <1>7, PlaceWrites

LEMMA UpdatePlace ==
  ASSUME CaseInv, LockHeld, OnePlace, NEW t \in Tasks, UpdateStatus(t), request' = request
  PROVE  OnePlace'
<1> DEFINE status == task[t].arg
           r == [checkpoint EXCEPT !.status = status]
           seen == [task[t].seen EXCEPT !.status = status]
           k == [pc |-> "settle", op |-> "mark", arg |-> status, seen |-> seen]
<1>1. task[t].pc = "mark" /\ checkpoint' = r /\ task' = [task EXCEPT ![t] = k]
  BY DEF UpdateStatus, Become, At
<1>2. Marks(task[t]) /\ status \in {"cancelled", "failed_terminal"}
  BY <1>1, Inside DEF Placed, Marks
<1>3. checkpoint \in State
  BY <1>1 DEF CaseInv, GraphInv, TaskOK
<1>4. r \in State /\ r.status = status
  <2>1. status \in GraphStatus
    BY <1>2 DEF GraphStatus
  <2> HIDE DEF status
  <2> QED BY <1>3, <2>1, StatusType
<1>5. Open(checkpoint') /\ Limits(checkpoint')
  BY <1>1, <1>2, <1>4, StateIsThere DEF Open, Limits, Resumable, Terminal
<1>6. ASSUME NEW u \in Tasks, u # t
      PROVE  ~Starts(task[u]) /\ ~Resumes(task[u])
  <2>1. ~Resumes(task[u])
    BY <1>2, <1>6, InsideLocked
  <2>2. ~Starts(task[u])
    BY <1>3, StateIsThere DEF OnePlace, Placed
  <2> QED BY <2>1, <2>2
<1>7. k.pc = "settle"
  OBVIOUS
<1> HIDE DEF k, r
<1>8. Placed(k, request[t], checkpoint') /\ Tries(k) /\ ~Runs(k)
  BY <1>1, <1>7, Inside, IdlePlaced DEF Tries, Runs
<1> QED BY <1>1, <1>5, <1>6, <1>8, PlaceWrites

LEMMA ProceedPlace ==
  ASSUME CaseInv, LockHeld, OneJob, OnePlace, OneStart, NEW t \in Tasks, Proceed(t),
         request' = request
  PROVE  OnePlace'
<1>0. task[t].pc # "idle"
  BY DEF Proceed, CreateThread, UpdateRewound, ResetThread, Invoke, RefuseAttempt,
     SaveCheckpoint, Settle, Reread, UpdateStatus, At
<1>1. request[t].kind # "none" /\ Placed(task[t], request[t], checkpoint)
  BY <1>0, Inside
<1>2. CASE CreateThread(t)
  <2>1. Starts(task[t])
    BY <1>2 DEF CreateThread, At, Starts
  <2> QED BY <1>1, <1>2, <2>1, BecomePlace DEF CreateThread, Placed
<1>3. CASE RefuseAttempt(t)
  <2> DEFINE s == Failed(task[t].seen, "failed_terminal")
  <2>1. task[t].seen \in State
    BY <1>3 DEF RefuseAttempt, At, CaseInv, GraphInv, TaskOK
  <2>2. s.status = "failed_terminal"
    BY <2>1, FailedType DEF GraphStatus
  <2>3. Runs(task[t]) /\ Become(t, "save", "none", "none", s) /\ checkpoint' = checkpoint
    BY <1>3 DEF RefuseAttempt, At, Runs
  <2> HIDE DEF s
  <2> QED BY <1>1, <2>2, <2>3, BecomePlace
<1>4. CASE Settle(t)
  BY <1>1, <1>4, BecomePlace DEF Settle
<1>5. CASE Reread(t)
  <2>1. Marks(task[t])
    BY <1>5 DEF Reread, At, Marks
  <2> QED BY <1>1, <1>5, <2>1, BecomePlace DEF Reread, Placed
<1>6. ~UpdateRewound(t) /\ ~ResetThread(t)
  BY <1>1 DEF UpdateRewound, ResetThread, At, Placed
<1> QED
  BY <1>2, <1>3, <1>4, <1>5, <1>6, InvokePlace, SavePlace, UpdatePlace DEF Proceed

LEMMA RunPlace ==
  ASSUME CaseInv, OnePlace, NEW t \in Tasks, request' = request,
         RunSucceeds(t) \/ \E status : RunFails(t, status)
  PROVE  OnePlace'
<1> DEFINE s == task[t].seen
<1>1. task[t].pc = "run" /\ ~Exhausted(s) /\ checkpoint' = checkpoint
  BY DEF RunSucceeds, RunFails, At
<1>2. s \in State
  BY <1>1 DEF CaseInv, GraphInv, TaskOK
<1>3. Within(s) /\ Runs(task[t]) /\ request[t].kind # "none"
  BY <1>1, Inside DEF Tries, Runs
<1>4. Within(Succeeded(s)) /\ \A status : Within(Failed(s, status))
  BY <1>1, <1>2, <1>3, AttemptsGrow
<1>5. \/ Become(t, "raised", "none", "none", NoState)
      \/ \E r : Within(r) /\ Become(t, "save", "none", "none", r)
  BY <1>4 DEF RunSucceeds, RunFails, Raise
<1> QED BY <1>1, <1>3, <1>5, BecomePlace

LEMMA EnterPlace ==
  ASSUME CaseInv, OnePlace, NEW t \in Tasks, BeginStart(t) \/ BeginResume(t) \/ BeginCancel(t)
  PROVE  OnePlace'
<1>1. ASSUME NEW pc, NEW op, NEW arg, NEW seen, Become(t, pc, op, arg, seen),
             checkpoint' = checkpoint, GoOn(t, "graph"), request[t].kind # "none",
             pc \in {"returned", "raised"}
      PROVE  OnePlace'
  BY <1>1, BecomePlace
<1>2. CASE BeginStart(t)
  <2>1. request[t].kind = "intake" /\ GoOn(t, "graph")
    BY <1>2 DEF BeginStart, Asks
  <2>2. CASE StartAgain(t)
    BY <1>1, <2>1, <2>2 DEF StartAgain
  <2>3. CASE StartNew(t)
    BY <2>1, <2>3, BecomePlace DEF StartNew
  <2> QED BY <1>2, <2>2, <2>3 DEF BeginStart
<1>3. CASE BeginResume(t)
  <2>1. request[t].kind = "resume" /\ GoOn(t, "graph") /\ checkpoint' = checkpoint
    BY <1>3 DEF BeginResume, Asks, Resume
  <2>2. \/ Become(t, "raised", "none", "none", NoState)
        \/ Become(t, "reread", "mark", "failed_terminal", NoState)
        \/ checkpoint.status \in Resumable /\ Become(t, "invoke", "resume", "none", NoState)
    BY <1>3 DEF BeginResume, Resume, Raise
  <2>3. CASE Become(t, "raised", "none", "none", NoState)
    BY <1>1, <2>1, <2>3
  <2>4. CASE Become(t, "reread", "mark", "failed_terminal", NoState)
    BY <2>1, <2>4, BecomePlace
  <2>5. CASE checkpoint.status \in Resumable /\ Become(t, "invoke", "resume", "none", NoState)
    BY <2>1, <2>5, BecomePlace
  <2> QED BY <2>2, <2>3, <2>4, <2>5
<1>4. CASE BeginCancel(t)
  <2>1. /\ request[t].kind = "cancel" /\ GoOn(t, "graph") /\ checkpoint' = checkpoint
        /\ Become(t, "mark", "mark", "cancelled", checkpoint)
    BY <1>4 DEF BeginCancel, Asks, Mark
  <2> QED BY <2>1, BecomePlace
<1> QED BY <1>2, <1>3, <1>4

\* A request that ends, or one that arrives, with no task inside the graph for it.
LEMMA OutsidePlace ==
  ASSUME CaseInv, OnePlace, NEW t \in Tasks, NEW r, request' = [request EXCEPT ![t] = r],
         r.kind \in {"none", "intake", "resume", "cancel"}, checkpoint' = checkpoint,
         Return(t) \/ (task' = task /\ (task[t].pc = "idle" \/ r.kind = request[t].kind))
  PROVE  OnePlace'
<1>1. CASE Return(t)
  <2>1. task' = [task EXCEPT ![t] = Idle] /\ Idle.pc = "idle"
    BY <1>1 DEF Return, Idle
  <2>2. Placed(Idle, r, checkpoint) /\ Tries(Idle) /\ ~Runs(Idle)
    BY <2>1, IdlePlaced DEF Tries, Runs
  <2> QED BY <2>1, <2>2, PlaceMoves
<1>2. CASE task' = task /\ (task[t].pc = "idle" \/ r.kind = request[t].kind)
  <2>1. task' = [task EXCEPT ![t] = task[t]]
    BY <1>2 DEF CaseInv, GraphInv
  <2>2. Placed(task[t], request[t], checkpoint) /\ Tries(task[t])
    BY DEF OnePlace
  <2>3. Placed(task[t], r, checkpoint)
    BY <1>2, <2>2, IdlePlaced, SamePlace
  <2> QED BY <2>1, <2>2, <2>3, PlaceMoves
<1> QED BY <1>1, <1>2

\* A thread, once there, stays there.
LEMMA StepWrites ==
  ASSUME CaseInv, NEW t \in Tasks, Arrive(t) \/ Step(t), checkpoint' = NoState
  PROVE  checkpoint = NoState
<1>1. TaskOK(task[t], checkpoint) /\ checkpoint \in State \cup {NoState}
  BY DEF CaseInv, GraphInv
<1>2. CASE UNCHANGED graphVars
  BY <1>2 DEF graphVars
<1>3. Arrive(t) => UNCHANGED graphVars
  BY DEF Arrive, CreateIntakeJob, ResumeRequest, CancelRequest, Decide, DecideAgain
<1>4. ASSUME Proceed(t), checkpoint # NoState
      PROVE  checkpoint' \in State
  <2>1. CASE checkpoint' = checkpoint
    BY <1>1, <1>4, <2>1
  <2>2. CASE UpdateRewound(t)
    BY <1>1, <1>4, <2>2, RewoundType DEF UpdateRewound, At, TaskOK
  <2>3. CASE Invoke(t)
    BY <1>1, <1>4, <2>3, MergedType DEF Invoke, At, TaskOK
  <2>4. CASE SaveCheckpoint(t)
    BY <1>1, <2>4 DEF SaveCheckpoint, At, TaskOK
  <2>5. CASE UpdateStatus(t)
    <3>1. task[t].arg \in GraphStatus /\ checkpoint \in State
      BY <1>1, <1>4, <2>5 DEF UpdateStatus, At, TaskOK, Resumable, Terminal, GraphStatus
    <3> QED BY <2>5, <3>1, StatusType DEF UpdateStatus
  <2> QED
    BY <1>4, <2>1, <2>2, <2>3, <2>4, <2>5
    DEF Proceed, CreateThread, ResetThread, RefuseAttempt, Settle, Reread
<1>5. CASE Proceed(t)
  BY <1>4, <1>5, StateIsThere
<1>6. CASE Step(t) /\ ~Proceed(t)
  <2>1. checkpoint' = checkpoint
    <3>1. WorkerSucceeds(t) \/ (\E status : WorkerFails(t, status)) => checkpoint' = checkpoint
      BY DEF WorkerSucceeds, WorkerFails, RunSucceeds, RunFails
    <3>2. /\ \/ BeginStart(t) \/ BeginResume(t) \/ BeginCancel(t) \/ RouteAmbiguous(t)
             \/ BeginComplete(t) \/ BeginRetryable(t)
             => checkpoint' = checkpoint
          /\ BeginSendBack(t) => checkpoint' = checkpoint
      BY DEF BeginStart, BeginResume, BeginCancel, RouteAmbiguous, BeginSendBack, BeginComplete,
             BeginRetryable, StartAgain, StartNew, Resume, Mark, Rewind
    <3>3. EndRun(t) \/ EndCancel(t) \/ CompletionFailed(t) \/ EndDecision(t) \/ MarkBreaks(t)
          => checkpoint' = checkpoint
      BY DEF EndRun, EndCancel, CompletionFailed, EndDecision, Return, MarkBreaks, MarkFails
    <3>4. \/ ResumeLocked(t) \/ CancelLocked(t) \/ RouteFinal(t)
          \/ WriteBack(t) \/ WriteBackRefused(t) \/ WriteBackFails(t)
          \/ \E stage \in Stages : RouteSendBack(t, stage)
          => checkpoint' = checkpoint
      BY DEF ResumeLocked, CancelLocked, RouteFinal, WriteBack, WriteBackRefused, WriteBackFails,
             RouteSendBack, graphVars
    <3> QED BY <1>6, <3>1, <3>2, <3>3, <3>4 DEF Step
  <2> QED BY <2>1
<1> QED BY <1>2, <1>3, <1>5, <1>6

LEMMA StepPlace ==
  ASSUME CaseInv, LockHeld, OneJob, OnePlace, OneStart, Decisions = <<>>,
         workflow.state \notin Decided, NEW t \in Tasks, Step(t)
  PROVE  /\ OnePlace'
         /\ request'[t].kind \in {"none", "intake", "resume", "cancel"}
<1>0. request[t].kind \in {"none", "intake", "resume", "cancel"}
  BY NoneDecides
<1>1. ASSUME request' = request
      PROVE  request'[t].kind \in {"none", "intake", "resume", "cancel"}
  BY <1>0, <1>1
<1>2. ASSUME NEW pc, GoOn(t, pc)
      PROVE  request'[t].kind = request[t].kind
  <2>1. PICK r : request' = [request EXCEPT ![t] = r] /\ r.kind = request[t].kind
    BY <1>2, KindStays
  <2> QED BY <2>1 DEF CaseInv
<1>3. ASSUME EndRequest(t)
      PROVE  /\ request' = [request EXCEPT ![t] = Quiet] /\ Quiet.kind = "none"
             /\ request'[t].kind = "none"
  BY <1>3 DEF EndRequest, Quiet, CaseInv
<1>4. CASE Proceed(t) /\ UNCHANGED caseVars
  <2>1. request' = request
    BY <1>4 DEF caseVars
  <2> QED BY <1>1, <1>4, <2>1, ProceedPlace
<1>5. CASE WorkerSucceeds(t) \/ \E status : WorkerFails(t, status)
  <2>1. /\ request' = request
        /\ RunSucceeds(t) \/ \E status : RunFails(t, status)
    BY <1>5 DEF WorkerSucceeds, WorkerFails
  <2> QED BY <1>1, <2>1, RunPlace
<1>6. CASE BeginStart(t) \/ BeginResume(t) \/ BeginCancel(t)
  <2>1. GoOn(t, "graph")
    BY <1>6 DEF BeginStart, BeginResume, BeginCancel
  <2> QED BY <1>0, <1>2, <1>6, <2>1, EnterPlace
<1>7. CASE EndRun(t) \/ EndCancel(t) \/ EndDecision(t)
  <2>1. Return(t) /\ EndRequest(t)
    BY <1>7, EndTurns
  <2>2. checkpoint' = checkpoint
    BY <2>1 DEF Return
  <2>3. Quiet.kind \in {"none", "intake", "resume", "cancel"}
    BY DEF Quiet
  <2> QED BY <1>3, <2>1, <2>2, <2>3, OutsidePlace
<1>8. CASE ResumeLocked(t) \/ CancelLocked(t)
  <2>1. /\ checkpoint' = checkpoint /\ task' = task /\ request[t].pc = "lock"
        /\ EndRequest(t) \/ \E pc : GoOn(t, pc)
    BY <1>8 DEF ResumeLocked, CancelLocked, Asks, graphVars
  <2>2. task[t].pc = "idle"
    BY <2>1 DEF CaseInv, Busy
  <2>3. CASE EndRequest(t)
    BY <1>3, <2>1, <2>2, <2>3, OutsidePlace
  <2>4. ASSUME NEW pc, GoOn(t, pc)
        PROVE  OnePlace'
    <3>1. PICK r : request' = [request EXCEPT ![t] = r] /\ r.kind = request[t].kind
      BY <2>4, KindStays
    <3> QED BY <1>0, <2>1, <2>2, <3>1, OutsidePlace
  <2> QED BY <1>0, <1>2, <1>3, <2>1, <2>3, <2>4
<1>9. /\ ~RouteAmbiguous(t) /\ ~(\E stage \in Stages : RouteSendBack(t, stage))
      /\ ~BeginSendBack(t) /\ ~RouteFinal(t)
      /\ ~WriteBack(t) /\ ~WriteBackRefused(t) /\ ~WriteBackFails(t)
      /\ ~BeginComplete(t) /\ ~BeginRetryable(t) /\ ~CompletionFailed(t)
  BY <1>0 DEF RouteAmbiguous, RouteSendBack, BeginSendBack, RouteFinal, WriteBack, WriteBackRefused,
     WriteBackFails, BeginComplete, BeginRetryable, CompletionFailed, Asks
<1>10. CASE MarkBreaks(t)
  <2>1. /\ task[t].pc # "idle" /\ request' = request /\ checkpoint' = checkpoint
        /\ \E arg : Become(t, "raised", "mark", arg, NoState)
    BY <1>10 DEF MarkBreaks, MarkFails
  <2>2. request[t].kind # "none"
    BY <2>1, Inside
  <2> QED BY <1>1, <2>1, <2>2, BecomePlace
<1> QED BY <1>4, <1>5, <1>6, <1>7, <1>8, <1>9, <1>10 DEF Step

LEMMA ArrivePlace ==
  ASSUME CaseInv, OnePlace, Decisions = <<>>, Decisions' = <<>>,
         workflow.state \notin Decided, NEW t \in Tasks, Arrive(t)
  PROVE  /\ OnePlace'
         /\ request'[t].kind \in {"none", "intake", "resume", "cancel"}
<1>1. ASSUME NEW kind \in {"intake", "resume", "cancel"}, NEW pc, NEW of, Ask(t, kind, pc, of),
             request[t] = Quiet, UNCHANGED graphVars
      PROVE  OnePlace' /\ request'[t].kind = kind
  <2> DEFINE r == [kind |-> kind, pc |-> pc, of |-> of, stage |-> "none"]
  <2>1. r.kind = kind /\ request' = [request EXCEPT ![t] = r]
    BY <1>1 DEF Ask
  <2> HIDE DEF r
  <2>2. checkpoint' = checkpoint /\ task' = task /\ task[t].pc = "idle"
    BY <1>1 DEF graphVars, CaseInv, Busy, Quiet
  <2>3. request'[t].kind = kind
    BY <2>1 DEF CaseInv
  <2> QED BY <2>1, <2>2, <2>3, OutsidePlace
<1>2. ASSUME NEW j \in Jobs, CreateIntakeJob(t, j) \/ ResumeRequest(t, j) \/ CancelRequest(t, j)
      PROVE  OnePlace' /\ request'[t].kind \in {"intake", "resume", "cancel"}
  <2>1. ~AwaitsFinalizing
    BY DEF AwaitsFinalizing, Decided
  <2>2. \/ Ask(t, "intake", "start", j) \/ Ask(t, "resume", "lock", j) \/ Ask(t, "cancel", "lock", j)
    BY <1>2, <2>1 DEF CreateIntakeJob, ResumeRequest, CancelRequest
  <2>3. request[t] = Quiet /\ UNCHANGED graphVars
    BY <1>2 DEF CreateIntakeJob, ResumeRequest, CancelRequest
  <2> QED BY <1>1, <2>2, <2>3
<1>3. ASSUME NEW action, NEW stage, NEW accepted, Decide(t, action, stage, accepted)
      PROVE  FALSE
  <2> DEFINE d == [action |-> action, stage |-> stage, reopened |-> FALSE]
             ds == Append(workflow.decisions, d)
  <2>1. workflow'.decisions = ds
    BY <1>3, DecideSays
  <2>2. ds # <<>>
    BY DEF Decisions
  <2> HIDE DEF ds
  <2> QED BY <2>1, <2>2 DEF Decisions
<1>4. ASSUME NEW d, DecideAgain(t, d)
      PROVE  FALSE
  BY <1>4 DEF DecideAgain
<1> QED BY <1>2, <1>3, <1>4 DEF Arrive

LEMMA RunnerNext ==
  ASSUME CaseInv, CaseInv', RunnerInv, [Next]_vars
  PROVE  RunnerInv'
<1>1. ASSUME NEW t \in Tasks, Arrive(t) \/ Step(t)
      PROVE  RunnerInv'
  <2>1. PICK r : Turns(t, r)
    BY <1>1, ArrivesTurns, StepTurns DEF RunnerInv
  <2>2. LockHeld' /\ OneJob'
    BY <2>1, TurnKeeps DEF RunnerInv
  <2>3. ASSUME Decisions' = <<>>
        PROVE  OnePlace' /\ OneStart' /\ workflow'.state \notin Decided
    <3>1. Decisions = <<>> /\ (workflow.state \notin Decided => workflow'.state \notin Decided)
      BY <2>3, StillUndecided
    <3>2. OnePlace /\ OneStart /\ workflow.state \notin Decided
      BY <3>1 DEF RunnerInv
    <3>3. OnePlace' /\ request'[t].kind \in {"none", "intake", "resume", "cancel"}
      BY <1>1, <2>3, <3>1, <3>2, ArrivePlace, StepPlace DEF RunnerInv
    <3>4. r.kind \notin {"decision", "finalize"}
      BY <2>1, <3>3 DEF Turns, CaseInv
    <3>5. checkpoint' = NoState => checkpoint = NoState
      BY <1>1, StepWrites DEF CaseInv, GraphInv
    <3> QED BY <2>1, <3>1, <3>2, <3>3, <3>4, <3>5, TurnStart DEF RunnerInv
  <2> QED BY <2>2, <2>3 DEF RunnerInv
<1>2. CASE Restart
  <2>1. /\ checkpoint' = checkpoint /\ task' = [t \in Tasks |-> Idle] /\ workflow' = workflow
        /\ request' = [t \in Tasks |-> Quiet]
        /\ \A j \in Jobs : jobs'[j].status # "running"
    BY <1>2 DEF Restart, Stop, Active
  <2>2. Quiet.kind = "none" /\ Idle.pc = "idle"
    BY DEF Quiet, Idle
  <2>3. LockHeld' /\ OneJob' /\ OneStart'
    BY <2>1, <2>2 DEF LockHeld, OneJob, OneStart, Active
  <2>4. \A c : Placed(Idle, Quiet, c) /\ Tries(Idle) /\ ~Runs(Idle)
    BY <2>2, IdlePlaced DEF Tries, Runs
  <2>5. Limits(checkpoint) => OnePlace'
    BY <2>1, <2>4 DEF OnePlace
  <2> QED BY <2>1, <2>3, <2>5 DEF RunnerInv, Decisions, OnePlace
<1>3. CASE UNCHANGED vars
  <2>1. UNCHANGED <<checkpoint, task, workflow, jobs, request, lock>>
    BY <1>3 DEF vars, graphVars, caseVars
  <2>2. LockHeld' /\ OneJob' /\ (OneStart => OneStart') /\ (OnePlace => OnePlace')
    BY <2>1 DEF RunnerInv, LockHeld, OneJob, OneStart, OnePlace, Active
  <2> QED BY <2>1, <2>2 DEF RunnerInv, Decisions
<1> QED BY <1>1, <1>2, <1>3 DEF Next

LEMMA RunnerInit == Init => RunnerInv
<1> SUFFICES ASSUME Init PROVE RunnerInv
  OBVIOUS
<1>1. /\ checkpoint = NoState /\ task = [t \in Tasks |-> Idle]
      /\ request = [t \in Tasks |-> Quiet] /\ workflow.state = "ABSENT"
      /\ \A j \in Jobs : jobs[j].status = "none"
  BY DEF Init, GraphInit
<1>2. Quiet.kind = "none" /\ Idle.pc = "idle"
  BY DEF Quiet, Idle
<1>3. LockHeld /\ OneJob /\ OneStart
  BY <1>1, <1>2 DEF LockHeld, OneJob, OneStart, Active
<1>4. \A c : Placed(Idle, Quiet, c) /\ Tries(Idle) /\ ~Runs(Idle)
  BY <1>2, IdlePlaced DEF Tries, Runs
<1>5. OnePlace
  BY <1>1, <1>4 DEF OnePlace, Limits
<1> QED BY <1>1, <1>3, <1>5 DEF RunnerInv, Decided

\* The lock, the one active job and the thread's status place the one task that may run
\* workers, at every step.
THEOREM RunnerInvariant == Spec => []RunnerInv
  BY RunnerInit, RunnerNext, CaseInvariant, PTL DEF Spec

\* Until a reviewer decides, at most one task runs workers for an application,
\* for any number of tasks, jobs, cancels, failures and stops: an intake, which
\* takes no lock, and the resumes under it never overlap (app.py, graph.py).
THEOREM OneRunnerCorrect == Spec => []OneRunner
<1>1. RunnerInv => OneRunner
  BY DEF RunnerInv, OnePlace, OneRunner, Runner, Runs
<1> QED BY <1>1, RunnerInvariant, PTL

\* Until a reviewer decides, no worker is given more attempts than its policy
\* allows, unless in a thread that has ended, for any limits, however many
\* retries, resumes and stops there are (graph.py _worker, resume).
THEOREM AttemptsCorrect == Spec => [](Decisions = <<>> => AttemptsWithinPolicy)
<1>1. CaseInv /\ RunnerInv => (Decisions = <<>> => AttemptsWithinPolicy)
  <2> SUFFICES ASSUME CaseInv, RunnerInv, Decisions = <<>>, NEW w \in Workers,
                      checkpoint # NoState, checkpoint.attempts[w] > MaxAttempts[w]
               PROVE  checkpoint.status \in Terminal
    BY DEF AttemptsWithinPolicy
  <2>1. checkpoint.attempts[w] \in Nat /\ MaxAttempts[w] \in Nat
    BY GraphAssumption DEF CaseInv, GraphInv, State
  <2> QED BY <2>1 DEF RunnerInv, OnePlace, Limits, Within
<1> QED BY <1>1, CaseInvariant, RunnerInvariant, PTL

(***************************************************************************)
(* The case as a lender sees it.                                           *)
(***************************************************************************)
LEMMA WorksLive ==
  ASSUME CaseInv, NEW t \in Tasks, Works(t), workflow' # workflow
  PROVE  Promised!Open \/ Promised!PutBeforeReviewer \/ UNCHANGED <<Phase, workflow.decision>>
<1> DEFINE w == task[t].seen.current
           x == TargetOf[w]
<1>0. workflow \in [state: States, decision: DecisionActions \cup {"none"}, accepted: BOOLEAN,
                   recorded: SUBSET Targets, decisions: Seq(Decision)]
  BY DEF CaseInv, WorkflowOK
<1>1. /\ w \in DOMAIN TargetOf /\ ~(Rank(workflow.state) >= Rank(x)) /\ x \notin workflow.recorded
      /\ CanAdvance(workflow, x)
      /\ workflow' = [workflow EXCEPT !.state = x, !.recorded = @ \cup {x}]
  BY DEF Works, Advanced
<1>2. /\ x \in {"INTAKE", "EXTRACTED", "RULE_GATED", "AI_SUGGESTED", "AWAITING_HUMAN"}
      /\ Rank(x) \in 1..8 /\ Rank(x) = Rank(workflow.state) + 1
  BY <1>1, RankType DEF TargetOf, CanAdvance
<1> HIDE DEF x
<1>3. workflow'.state = x /\ workflow'.decision = workflow.decision
  BY <1>0, <1>1
<1>4. /\ x = "INTAKE" => workflow.state = "ABSENT"
      /\ x # "INTAKE" => workflow.state \in {"INTAKE", "EXTRACTED", "RULE_GATED", "AI_SUGGESTED"}
  <2>1. \A i \in 1..8 : Rank(Ladder[i]) = i
    BY RankOfRung
  <2>2. PICK i \in 1..8 : Ladder[i] = workflow.state
    BY <1>0, LadderIsOneToOne DEF States
  <2>3. PICK j \in 1..8 : Ladder[j] = x
    BY <1>2, LadderIsOneToOne DEF Ladder
  <2>4. j = i + 1
    BY <1>2, <2>1, <2>2, <2>3
  <2> QED BY <1>2, <2>2, <2>3, <2>4 DEF Ladder
<1>5. CASE x = "INTAKE"
  <2>1. Phase = "absent" /\ Phase' = "preparing"
    BY <1>3, <1>4, <1>5 DEF Phase
  <2> QED BY <1>3, <2>1 DEF Promised!Open
<1>6. CASE x = "AWAITING_HUMAN"
  <2>1. Phase = "preparing" /\ Phase' = "review"
    BY <1>3, <1>4, <1>6 DEF Phase
  <2> QED BY <1>3, <2>1 DEF Promised!PutBeforeReviewer
<1>7. CASE x \in {"EXTRACTED", "RULE_GATED", "AI_SUGGESTED"}
  <2>1. Phase = "preparing" /\ Phase' = "preparing"
    BY <1>3, <1>4, <1>7 DEF Phase
  <2> QED BY <1>3, <2>1
<1> QED BY <1>2, <1>5, <1>6, <1>7

LEMMA CaseLives ==
  ASSUME CaseInv, [Next]_vars
  PROVE  [Promised!Next]_(Promised!lifecycleVars)
<1>0. workflow \in [state: States, decision: DecisionActions \cup {"none"}, accepted: BOOLEAN,
                   recorded: SUBSET Targets, decisions: Seq(Decision)]
  BY DEF CaseInv, WorkflowOK
<1>1. CASE workflow' = workflow
  BY <1>1 DEF Promised!lifecycleVars, Phase
<1>2. ASSUME NEW t \in Tasks, Works(t), workflow' # workflow
      PROVE  [Promised!Next]_(Promised!lifecycleVars)
  BY <1>2, WorksLive DEF Promised!Next, Promised!lifecycleVars
<1>3. ASSUME NEW t \in Tasks, NEW action \in DecisionActions,
             NEW stage \in RestartStages \cup {"none"}, NEW accepted \in BOOLEAN,
             Decide(t, action, stage, accepted)
      PROVE  Promised!Decide
  <2>1. /\ workflow.state = "AWAITING_HUMAN"
        /\ workflow'.state = "HUMAN_DECIDED" /\ workflow'.decision = action
    BY <1>3, DecideSays
  <2> QED BY <2>1 DEF Promised!Decide, Phase
<1>4. ASSUME NEW t \in Tasks, NEW stage \in Stages, RouteSendBack(t, stage), workflow' # workflow
      PROVE  Promised!Reopen
  <2> DEFINE i == request[t].of
             ds == [workflow.decisions EXCEPT ![i].reopened = TRUE]
  <2>1. /\ i \in 1..Len(workflow.decisions) /\ workflow.decisions[i].action = "send_back"
        /\ ~workflow.decisions[i].reopened
        /\ workflow' = [workflow EXCEPT !.state = RestartState[stage], !.decision = "none",
                                        !.decisions = ds]
    BY <1>4 DEF RouteSendBack, Asks, CaseInv, RequestOK, DecisionOf, Decisions
  <2> HIDE DEF ds
  <2>2. workflow'.state = RestartState[stage] /\ workflow'.decision = "none"
    BY <1>0, <2>1
  <2>3. workflow.state \in Decided /\ workflow.decision = "send_back"
        /\ workflow.state # "PRECEDENT_WRITTEN"
    BY <2>1 DEF CaseInv, WorkflowOK, Closed
  <2>4. RestartState[stage] \in {"INTAKE", "EXTRACTED", "RULE_GATED", "AI_SUGGESTED"}
    BY AgentAssumption DEF Stages, RestartState
  <2>5. Phase = "decided" /\ Phase' = "preparing"
    BY <2>2, <2>3, <2>4 DEF Phase, Decided
  <2> QED BY <2>2, <2>3, <2>5 DEF Promised!Reopen
<1>5. ASSUME NEW t \in Tasks, Writes(t), workflow' # workflow
      PROVE  Promised!Remember
  <2>1. workflow' = [workflow EXCEPT !.state = "PRECEDENT_WRITTEN"]
    BY <1>5 DEF Writes
  <2>2. workflow.state \in Decided /\ workflow.decision # "send_back"
    BY <1>5 DEF Writes, Asks, CaseInv, RequestOK
  <2>3. workflow'.state = "PRECEDENT_WRITTEN" /\ workflow'.decision = workflow.decision
    BY <1>0, <2>1
  <2>4. workflow.state # "PRECEDENT_WRITTEN"
    BY <1>0, <1>5, <2>1
  <2>5. Phase = "decided" /\ Phase' = "precedent"
    BY <2>2, <2>3, <2>4 DEF Phase, Decided
  <2> QED BY <2>2, <2>3, <2>5 DEF Promised!Remember
<1> QED
  BY <1>1, <1>2, <1>3, <1>4, <1>5, WorkflowSteps DEF Promised!Next

\* However workers, decisions delivered twice, send-backs, write-backs and stops overlap, a
\* case leaves review only by a decision, a send-back only returns it to preparation, and
\* any other decision is final: the application implements the lifecycle that the
\* workflow service does.
THEOREM CaseImplemented == Spec => ImplementsLifecycle
<1>1. Init => Promised!Init
  BY DEF Init, Promised!Init, Phase
<1>2. CaseInv /\ [Next]_vars => [Promised!Next]_(Promised!lifecycleVars)
  BY CaseLives
<1> QED BY <1>1, <1>2, CaseInvariant, PTL DEF Spec, ImplementsLifecycle, Promised!Spec
=============================================================================
