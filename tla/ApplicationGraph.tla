-------------------------- MODULE ApplicationGraph --------------------------
(***************************************************************************)
(* The memory thread of one application: the checkpoint LangGraph keeps    *)
(* under its thread id, the lifecycle record beside it, and the asyncio    *)
(* tasks inside a method of ApplicationMemoryGraph.                        *)
(*                                                                         *)
(* Every await of the code is a step.  A run holds its own copy of the     *)
(* state and checkpoints the whole copy after each worker; aupdate_state   *)
(* merges a few fields into whatever checkpoint is the latest.  The graph  *)
(* has no lock: any number of tasks may be inside it at once.              *)
(***************************************************************************)
EXTENDS Integers, Sequences

CONSTANTS
  Tasks,          \* the asyncio tasks that may be inside the graph
  WorkerOrder,    \* the code-owned order of the workers
  MaxAttempts     \* MaxAttempts[w]: the execution policy's attempt limit for w

Workers == {WorkerOrder[i] : i \in 1..Len(WorkerOrder)}

ASSUME GraphAssumption ==
  /\ WorkerOrder \in Seq(STRING)
  /\ WorkerOrder # <<>>
  /\ \A i, j \in 1..Len(WorkerOrder) : WorkerOrder[i] = WorkerOrder[j] => i = j
  /\ MaxAttempts \in [Workers -> Nat]

GraphStatus == {"running", "failed_retryable", "needs_attention", "waiting_for_review",
                "completed", "cancelled", "failed_terminal"}

Terminal == {"completed", "cancelled", "failed_terminal"}
Resumable == {"failed_retryable", "needs_attention"}

State == [status: GraphStatus, current: Workers, completed: Seq(Workers),
          attempts: [Workers -> Nat]]
NoState == [status |-> "absent", current |-> "none", completed |-> <<>>, attempts |-> <<>>]

Thread == [status: GraphStatus, current: Workers]
NoThread == [status |-> "absent", current |-> "none"]

VARIABLES
  checkpoint,   \* the latest checkpoint of the thread
  lifecycle,    \* the row of memory_threads
  task          \* each task: where it is, its operation, the state it holds

graphVars == <<checkpoint, lifecycle, task>>

\* op: what the next write of the task is for; arg: a worker or a status.
Idle == [pc |-> "idle", op |-> "none", arg |-> "none", seen |-> NoState]

At(t, pc) == task[t].pc = pc

Become(t, pc, op, arg, seen) ==
  task' = [task EXCEPT ![t] = [pc |-> pc, op |-> op, arg |-> arg, seen |-> seen]]

Raise(t) == Become(t, "raised", "none", "none", NoState)

(***************************************************************************)
(* Pure state changes.                                                     *)
(***************************************************************************)
InitialState ==
  [status |-> "running", current |-> WorkerOrder[1], completed |-> <<>>,
   attempts |-> [w \in Workers |-> 0]]

Done(s) == {s.completed[i] : i \in 1..Len(s.completed)}

Tried(s) == [s EXCEPT !.attempts[s.current] = @ + 1]

\* Fault: the attempt that reaches the limit is not the last one.
ExhaustedLate(s) == s.attempts[s.current] > MaxAttempts[s.current]

Exhausted(s) == s.attempts[s.current] >= MaxAttempts[s.current]

Failed(s, status) == [Tried(s) EXCEPT !.status = status]

\* The first worker in order that is not among done.
FirstPending(done) ==
  WorkerOrder[CHOOSE i \in 1..Len(WorkerOrder) :
                /\ WorkerOrder[i] \notin done
                /\ \A j \in 1..(i - 1) : WorkerOrder[j] \in done]

\* Fault: the pending workers are counted one short.
SucceededOneShort(s) ==
  LET done == Done(s) \cup {s.current}
      over == Len(s.completed) + 2 >= Len(WorkerOrder) IN
  [Tried(s) EXCEPT
     !.completed = Append(@, s.current),
     !.status    = IF over THEN "waiting_for_review" ELSE "running",
     !.current   = IF over THEN @ ELSE FirstPending(done)]

\* Fault: past the last worker the position is cleared.
SucceededToNowhere(s) ==
  LET done == Done(s) \cup {s.current} IN
  [Tried(s) EXCEPT
     !.completed = Append(@, s.current),
     !.status    = IF Workers \subseteq done THEN "waiting_for_review" ELSE "running",
     !.current   = IF Workers \subseteq done THEN "none" ELSE FirstPending(done)]

Succeeded(s) ==
  LET done == Done(s) \cup {s.current} IN
  [Tried(s) EXCEPT
     !.completed = Append(@, s.current),
     !.status    = IF Workers \subseteq done THEN "waiting_for_review" ELSE "running",
     !.current   = IF Workers \subseteq done THEN @ ELSE FirstPending(done)]

\* The workers before w, in order.
Before(w) == SubSeq(WorkerOrder, 1, (CHOOSE i \in 1..Len(WorkerOrder) : WorkerOrder[i] = w) - 1)

Rewound(s, w) == [s EXCEPT !.status = "running", !.current = w, !.completed = Before(w)]

\* What an invocation's input does to the latest checkpoint.
Merged(s, op, arg) ==
  CASE op = "start" -> InitialState
    [] op = "resume" -> [s EXCEPT !.status = "running"]
    [] op = "rewind" -> [s EXCEPT !.status = "running", !.current = arg]

(***************************************************************************)
(* start, resume and rewind up to their invocation of the graph.           *)
(***************************************************************************)
StartAgain(t) ==
  /\ At(t, "idle")
  /\ checkpoint # NoState
  /\ Become(t, "returned", "none", "none", checkpoint)
  /\ UNCHANGED <<checkpoint, lifecycle>>

StartNew(t) ==
  /\ At(t, "idle")
  /\ checkpoint = NoState
  /\ Become(t, "create", "start", "none", NoState)
  /\ UNCHANGED <<checkpoint, lifecycle>>

CreateThread(t) ==
  /\ At(t, "create")
  /\ lifecycle' = IF lifecycle # NoThread THEN lifecycle
                  ELSE [status |-> "running", current |-> WorkerOrder[1]]
  /\ Become(t, "invoke", "start", "none", NoState)
  /\ UNCHANGED checkpoint

Resume(t) ==
  /\ At(t, "idle")
  /\ checkpoint # NoState
  /\ IF checkpoint.status \notin Resumable THEN Raise(t)
     ELSE IF checkpoint.status = "failed_retryable" /\ Exhausted(checkpoint)
     THEN Become(t, "reread", "mark", "failed_terminal", NoState)
     ELSE Become(t, "invoke", "resume", "none", NoState)
  /\ UNCHANGED <<checkpoint, lifecycle>>

Rewind(t, w) ==
  /\ At(t, "idle")
  /\ checkpoint # NoState
  /\ w \in Workers \ {"human_review"}
  /\ IF checkpoint.status \in {"waiting_for_review", "needs_attention"}
     THEN Become(t, "rewind", "rewind", w, NoState)
     ELSE Raise(t)
  /\ UNCHANGED <<checkpoint, lifecycle>>

\* aupdate_state: position and status as of this step, whatever was read before.
UpdateRewound(t) ==
  /\ At(t, "rewind")
  /\ checkpoint' = Rewound(checkpoint, task[t].arg)
  /\ Become(t, "reset", "rewind", task[t].arg, NoState)
  /\ UNCHANGED lifecycle

ResetThread(t) ==
  /\ At(t, "reset")
  /\ lifecycle' = [status |-> "running", current |-> task[t].arg]
  /\ Become(t, "invoke", "rewind", task[t].arg, NoState)
  /\ UNCHANGED checkpoint

(***************************************************************************)
(* _invoke: the input, the worker loop and the lifecycle record.           *)
(***************************************************************************)
Invoke(t) ==
  LET input == Merged(checkpoint, task[t].op, task[t].arg) IN
  /\ At(t, "invoke")
  /\ checkpoint' = input
  /\ Become(t, "run", "none", "none", input)
  /\ UNCHANGED lifecycle

\* An attempt over the limit is refused before the worker's operation.
RefuseAttempt(t) ==
  LET s == task[t].seen IN
  /\ At(t, "run")
  /\ Exhausted(s)
  /\ Become(t, "save", "none", "none", Failed(s, "failed_terminal"))
  /\ UNCHANGED <<checkpoint, lifecycle>>

\* Fault: a failure leaves the graph instead of being checkpointed.
RunFailsRaising(t, status) ==
  /\ At(t, "run")
  /\ ~Exhausted(task[t].seen)
  /\ status \in Resumable \cup {"failed_terminal"}
  /\ Raise(t)
  /\ UNCHANGED <<checkpoint, lifecycle>>

RunFails(t, status) ==
  LET s == task[t].seen IN
  /\ At(t, "run")
  /\ ~Exhausted(s)
  /\ status \in Resumable \cup {"failed_terminal"}
  /\ Become(t, "save", "none", "none", Failed(s, status))
  /\ UNCHANGED <<checkpoint, lifecycle>>

\* A worker that is completed already makes the new state invalid: the error
\* leaves the graph and nothing is checkpointed.
RunSucceeds(t) ==
  LET s == task[t].seen IN
  /\ At(t, "run")
  /\ ~Exhausted(s)
  /\ IF s.current \in Done(s) THEN Raise(t)
     ELSE Become(t, "save", "none", "none", Succeeded(s))
  /\ UNCHANGED <<checkpoint, lifecycle>>

SaveCheckpoint(t) ==
  LET s == task[t].seen IN
  /\ At(t, "save")
  /\ checkpoint' = s
  /\ Become(t, IF s.status = "running" THEN "run" ELSE "settle", "none", "none", s)
  /\ UNCHANGED lifecycle

Settle(t) ==
  LET s == task[t].seen IN
  /\ At(t, "settle")
  /\ lifecycle' = [status |-> s.status, current |-> s.current]
  /\ Become(t, "returned", "none", "none", s)
  /\ UNCHANGED checkpoint

(***************************************************************************)
(* mark_terminal, mark_retryable, mark_needs_attention and                 *)
(* complete_after_writeback: read the state, write the status, settle.     *)
(***************************************************************************)
Mark(t, status) ==
  /\ At(t, "idle")
  /\ checkpoint # NoState
  /\ status \in Resumable \cup Terminal
  /\ IF status = "completed" /\ checkpoint.status = "completed"
     THEN Become(t, "returned", "none", "none", checkpoint)
     ELSE Become(t, "mark", "mark", status, checkpoint)
  /\ UNCHANGED <<checkpoint, lifecycle>>

Reread(t) ==
  /\ At(t, "reread")
  /\ Become(t, "mark", "mark", task[t].arg, checkpoint)
  /\ UNCHANGED <<checkpoint, lifecycle>>

UpdateStatus(t) ==
  LET status == task[t].arg IN
  /\ At(t, "mark")
  /\ checkpoint' = [checkpoint EXCEPT !.status = status]
  /\ Become(t, "settle", "mark", status, [task[t].seen EXCEPT !.status = status])
  /\ UNCHANGED lifecycle

\* A statement of a mark fails: the status may be in the checkpoint already, and
\* the lifecycle record is left as it is.
MarkFails(t) ==
  /\ task[t].pc \in {"mark", "settle"}
  /\ task[t].op = "mark"
  /\ Become(t, "raised", "mark", task[t].arg, NoState)
  /\ UNCHANGED <<checkpoint, lifecycle>>

\* The task hands its result or its error to the caller.
Return(t) ==
  /\ task[t].pc \in {"returned", "raised"}
  /\ task' = [task EXCEPT ![t] = Idle]
  /\ UNCHANGED <<checkpoint, lifecycle>>

\* The process ends between two awaits; checkpoint and lifecycle are durable.
Stop ==
  /\ task' = [t \in Tasks |-> Idle]
  /\ UNCHANGED <<checkpoint, lifecycle>>

GraphInit ==
  /\ checkpoint = NoState
  /\ lifecycle = NoThread
  /\ task = [t \in Tasks |-> Idle]

Enter(t) ==
  \/ StartAgain(t)
  \/ StartNew(t)
  \/ Resume(t)
  \/ \E w \in Workers : Rewind(t, w)
  \/ \E status \in Resumable \cup Terminal : Mark(t, status)

\* One await of a task inside the graph, apart from the workers' own.
Proceed(t) ==
  \/ CreateThread(t)
  \/ UpdateRewound(t)
  \/ ResetThread(t)
  \/ Invoke(t)
  \/ RefuseAttempt(t)
  \/ SaveCheckpoint(t)
  \/ Settle(t)
  \/ Reread(t)
  \/ UpdateStatus(t)

GraphNext ==
  \/ \E t \in Tasks :
       \/ Enter(t)
       \/ Proceed(t)
       \/ RunSucceeds(t)
       \/ MarkFails(t)
       \/ \E status \in Resumable \cup {"failed_terminal"} : RunFails(t, status)
       \/ Return(t)
  \/ Stop

GraphSpec == GraphInit /\ [][GraphNext]_graphVars

(***************************************************************************)
(* Properties.                                                             *)
(***************************************************************************)
PC == {"idle", "create", "rewind", "reset", "invoke", "run", "save", "settle",
       "reread", "mark", "returned", "raised"}

\* Every variable has its type; a task past its invocation holds a state.
GraphTypeOK ==
  /\ checkpoint \in State \cup {NoState}
  /\ lifecycle \in Thread \cup {NoThread}
  /\ task \in [Tasks -> [pc: PC, op: {"none", "start", "resume", "rewind", "mark"},
                         arg: Workers \cup GraphStatus \cup {"none"},
                         seen: State \cup {NoState}]]

\* "Eligibility and guardrails can never be skipped": whatever calls overlap,
\* fail, are cancelled or cut off, a thread waits for review only when every
\* worker of the order has completed in it.
ReviewAfterEveryWorker ==
  checkpoint.status = "waiting_for_review" => Workers \subseteq Done(checkpoint)

=============================================================================
