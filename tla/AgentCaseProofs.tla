-------------------------- MODULE AgentCaseProofs --------------------------
(***************************************************************************)
(* Machine-checked theorems about ApplicationGraph and AgentCase, for every *)
(* number of overlapping requests, every order of workers, every attempt   *)
(* limit and every bound on decisions, replays, restarts and failures.     *)
(***************************************************************************)
EXTENDS AgentCase, SequenceTheorems, WellFoundedInduction, TLAPS

(***************************************************************************)
(* The workers' order.                                                     *)
(***************************************************************************)
LEMMA OrderType ==
  /\ WorkerOrder \in Seq(Workers)
  /\ Len(WorkerOrder) \in Nat \ {0}
  /\ \A i \in 1..Len(WorkerOrder) : WorkerOrder[i] \in Workers
<1>1. Len(WorkerOrder) \in Nat \ {0}
  BY GraphAssumption
<1>2. \A i \in 1..Len(WorkerOrder) : WorkerOrder[i] \in Workers
  BY DEF Workers
<1>3. WorkerOrder = [i \in 1..Len(WorkerOrder) |-> WorkerOrder[i]]
  BY GraphAssumption
<1>4. WorkerOrder \in [1..Len(WorkerOrder) -> Workers]
  BY <1>2, <1>3
<1> QED BY <1>1, <1>2, <1>4, SeqDef

\* A worker that is not done is at some first position.
LEMMA FirstPendingType ==
  ASSUME NEW done, ~(Workers \subseteq done)
  PROVE  FirstPending(done) \in Workers \ done
<1> DEFINE Left == {i \in 1..Len(WorkerOrder) : WorkerOrder[i] \notin done}
           Less == OpToRel(<, Nat)
<1>1. Left \subseteq Nat /\ Left # {}
  <2>1. PICK x \in Workers : x \notin done
    OBVIOUS
  <2>2. PICK i \in 1..Len(WorkerOrder) : WorkerOrder[i] = x
    BY <2>1 DEF Workers
  <2>3. i \in Left
    BY <2>1, <2>2
  <2> QED BY <2>3, OrderType
<1>2. IsWellFoundedOn(Less, Nat)
  BY NatLessThanWellFounded
<1>3. PICK i \in Left : \A j \in Left : ~(<<j, i>> \in Less)
  <2> HIDE DEF Left, Less
  <2> QED BY <1>1, <1>2, WFMin
<1>4. \A j \in Left : ~(j < i)
  BY <1>1, <1>3 DEF OpToRel
<1> HIDE DEF Less
<1>5. \A j \in 1..(i - 1) : WorkerOrder[j] \in done
  <2>1. SUFFICES ASSUME NEW j \in 1..(i - 1), WorkerOrder[j] \notin done
                 PROVE  FALSE
    OBVIOUS
  <2>2. j \in Left /\ j < i
    BY <2>1, OrderType, i \in Left
  <2> QED BY <1>4, <2>2
<1> DEFINE P(k) == /\ WorkerOrder[k] \notin done
                   /\ \A j \in 1..(k - 1) : WorkerOrder[j] \in done
<1>6. i \in 1..Len(WorkerOrder) /\ P(i)
  BY <1>3, <1>5
<1>7. \E k \in 1..Len(WorkerOrder) : P(k)
  BY <1>6
<1> DEFINE k == CHOOSE k \in 1..Len(WorkerOrder) : P(k)
<1>8. k \in 1..Len(WorkerOrder) /\ P(k)
  <2> HIDE DEF P
  <2> QED BY <1>7
<1>9. FirstPending(done) = WorkerOrder[k]
  BY DEF FirstPending
<1> QED BY <1>8, <1>9, OrderType

\* The workers before w are a sequence of workers.
LEMMA BeforeType ==
  ASSUME NEW w \in Workers
  PROVE  Before(w) \in Seq(Workers)
<1> DEFINE At1(i) == WorkerOrder[i] = w
           k == CHOOSE i \in 1..Len(WorkerOrder) : At1(i)
<1>1. \E i \in 1..Len(WorkerOrder) : At1(i)
  BY DEF Workers
<1>2. k \in 1..Len(WorkerOrder)
  <2> HIDE DEF At1
  <2> QED BY <1>1
<1>3. Before(w) = SubSeq(WorkerOrder, 1, k - 1)
  BY DEF Before
<1> HIDE DEF k
<1>4. k - 1 \in 0..Len(WorkerOrder) /\ 1 \in 1..(Len(WorkerOrder) + 1)
  BY <1>2, OrderType
<1>5. SubSeq(WorkerOrder, 1, k - 1) \in Seq(Workers)
  BY <1>4, OrderType, SubSeqProperties
<1> QED BY <1>3, <1>5

(***************************************************************************)
(* The state changes of the graph.                                         *)
(***************************************************************************)
\* A state waits for review only when every worker has completed in it.
Complete(s) == s.status = "waiting_for_review" => Workers \subseteq Done(s)

LEMMA InitialStateType == InitialState \in State /\ InitialState.status = "running"
  BY OrderType DEF InitialState, State, GraphStatus

LEMMA TriedType ==
  ASSUME NEW s \in State
  PROVE  /\ Tried(s) \in State
         /\ Tried(s).status = s.status
         /\ Tried(s).current = s.current
         /\ Tried(s).completed = s.completed
<1> DEFINE a == [s.attempts EXCEPT ![s.current] = s.attempts[s.current] + 1]
<1>1. s.attempts \in [Workers -> Nat] /\ s.current \in Workers
  BY DEF State
<1>2. a \in [Workers -> Nat]
  BY <1>1
<1>3. Tried(s) = [s EXCEPT !.attempts = a]
  BY DEF Tried
<1> HIDE DEF a
<1> QED BY <1>2, <1>3 DEF State

LEMMA FailedType ==
  ASSUME NEW s \in State, NEW status \in GraphStatus
  PROVE  Failed(s, status) \in State /\ Failed(s, status).status = status
  BY TriedType DEF Failed, State

\* Appending a worker adds it to the done ones.
LEMMA DoneOfAppend ==
  ASSUME NEW c \in Seq(Workers), NEW w \in Workers, NEW s \in State, NEW r \in State,
         s.completed = c, r.completed = Append(c, w)
  PROVE  Done(s) \cup {w} \subseteq Done(r)
<1>1. Len(Append(c, w)) = Len(c) + 1 /\ Len(c) \in Nat
  OBVIOUS
<1>2. \A i \in 1..Len(c) : Append(c, w)[i] = c[i]
  OBVIOUS
<1>3. Append(c, w)[Len(c) + 1] = w
  OBVIOUS
<1>4. w \in Done(r)
  BY <1>1, <1>3 DEF Done
<1>5. Done(s) \subseteq Done(r)
  BY <1>1, <1>2 DEF Done
<1> QED BY <1>4, <1>5

LEMMA SucceededType ==
  ASSUME NEW s \in State
  PROVE  /\ Succeeded(s) \in State
         /\ Complete(Succeeded(s))
         /\ Succeeded(s).status \in {"running", "waiting_for_review"}
<1> DEFINE done == Done(s) \cup {s.current}
           over == Workers \subseteq done
           next == IF over THEN s.current ELSE FirstPending(done)
           status == IF over THEN "waiting_for_review" ELSE "running"
           r == [Tried(s) EXCEPT !.completed = Append(s.completed, s.current),
                                 !.status = status, !.current = next]
<1>1. next \in Workers /\ status \in GraphStatus
  BY FirstPendingType DEF State, GraphStatus
<1>2. Append(s.completed, s.current) \in Seq(Workers)
  BY DEF State
<1>3. Succeeded(s) = r
  BY TriedType DEF Succeeded, State
<1> HIDE DEF done, over, next, status
<1>4. r \in State /\ r.status = status /\ r.completed = Append(s.completed, s.current)
  BY <1>1, <1>2, TriedType DEF State
<1> HIDE DEF r
<1>5. done \subseteq Done(r)
  <2>1. s.completed \in Seq(Workers) /\ s.current \in Workers
    BY DEF State
  <2> QED BY <1>4, <2>1, DoneOfAppend DEF done
<1>6. Complete(r)
  BY <1>4, <1>5 DEF Complete, status, over
<1>7. r.status \in {"running", "waiting_for_review"}
  BY <1>4 DEF status
<1> QED BY <1>3, <1>4, <1>6, <1>7

LEMMA RewoundType ==
  ASSUME NEW s \in State, NEW w \in Workers
  PROVE  Rewound(s, w) \in State /\ Rewound(s, w).status = "running"
  BY BeforeType DEF Rewound, State, GraphStatus

LEMMA MergedType ==
  ASSUME NEW s, NEW op, NEW arg,
         \/ op = "start"
         \/ op = "resume" /\ s \in State
         \/ op = "rewind" /\ s \in State /\ arg \in Workers
  PROVE  Merged(s, op, arg) \in State /\ Merged(s, op, arg).status = "running"
  BY InitialStateType DEF Merged, State, GraphStatus

LEMMA StatusType ==
  ASSUME NEW s \in State, NEW status \in GraphStatus
  PROVE  /\ [s EXCEPT !.status = status] \in State
         /\ [s EXCEPT !.status = status].status = status
  BY DEF State

(***************************************************************************)
(* The inductive invariant of the graph: besides the types, what a task    *)
(* must hold at each of its awaits.                                        *)
(***************************************************************************)
Call == [pc: PC, op: {"none", "start", "resume", "rewind", "mark"},
         arg: Workers \cup GraphStatus \cup {"none"}, seen: State \cup {NoState}]

\* Task k is well placed when s is the latest checkpoint.
TaskOK(k, s) ==
  /\ k \in Call
  /\ k.pc \in {"run", "save", "settle", "mark"} => k.seen \in State
  /\ k.pc = "save" => Complete(k.seen)
  /\ k.pc = "invoke" => k.op \in {"start", "resume", "rewind"}
  /\ k.pc \in {"rewind", "reset"} => k.arg \in Workers
  /\ k.pc = "invoke" /\ k.op = "rewind" => k.arg \in Workers
  /\ k.pc \in {"mark", "reread"} => k.arg \in Resumable \cup Terminal
  /\ k.pc \in {"rewind", "reset", "reread", "mark"} => s # NoState
  /\ k.pc = "invoke" /\ k.op # "start" => s # NoState

GraphInv ==
  /\ checkpoint \in State \cup {NoState}
  /\ lifecycle \in Thread \cup {NoThread}
  /\ Complete(checkpoint)
  /\ task = [t \in Tasks |-> task[t]]
  /\ \A t \in Tasks : TaskOK(task[t], checkpoint)

LEMMA GraphInvImplies == GraphInv => GraphTypeOK /\ ReviewAfterEveryWorker
  BY DEF GraphInv, TaskOK, Call, GraphTypeOK, ReviewAfterEveryWorker, Complete

LEMMA NoStateComplete == Complete(NoState)
  BY DEF Complete, NoState

LEMMA IdleTaskOK == \A s : TaskOK(Idle, s)
  BY DEF TaskOK, Call, Idle, PC

\* The calls a step leaves its task at, by where they are.
LEMMA PlacedOK ==
  ASSUME NEW s, NEW pc \in PC, NEW op \in {"none", "start", "resume", "rewind", "mark"},
         NEW arg \in Workers \cup GraphStatus \cup {"none"}, NEW seen \in State \cup {NoState},
         pc \in {"run", "save", "settle", "mark"} => seen \in State,
         pc = "save" => Complete(seen),
         pc = "invoke" => op \in {"start", "resume", "rewind"},
         pc \in {"rewind", "reset"} => arg \in Workers,
         pc = "invoke" /\ op = "rewind" => arg \in Workers,
         pc \in {"mark", "reread"} => arg \in Resumable \cup Terminal,
         pc \in {"rewind", "reset", "reread", "mark"} => s # NoState,
         pc = "invoke" /\ op # "start" => s # NoState
  PROVE  TaskOK([pc |-> pc, op |-> op, arg |-> arg, seen |-> seen], s)
  BY DEF TaskOK, Call

\* A step of one task: the others stay well placed, since a thread that exists
\* never ceases to.
LEMMA OneTaskMoves ==
  ASSUME GraphInv, NEW t \in Tasks, NEW k,
         task' = [task EXCEPT ![t] = k],
         TaskOK(k, checkpoint'),
         checkpoint' = checkpoint \/ checkpoint' \in State,
         Complete(checkpoint'),
         lifecycle' \in Thread \cup {NoThread}
  PROVE  GraphInv'
<1>1. checkpoint' \in State \cup {NoState}
  BY DEF GraphInv
<1>2. checkpoint # NoState => checkpoint' # NoState
  <2>1. NoState \notin State
    BY DEF NoState, State, GraphStatus
  <2> QED BY <2>1
<1>3. \A u \in Tasks : TaskOK(task[u], checkpoint')
  BY <1>2 DEF GraphInv, TaskOK
<1>4. \A u \in Tasks : task'[u] = IF u = t THEN k ELSE task[u]
  BY DEF GraphInv
<1>5. \A u \in Tasks : TaskOK(task'[u], checkpoint')
  BY <1>3, <1>4
<1>6. task' = [u \in Tasks |-> task'[u]]
  BY DEF GraphInv
<1> QED BY <1>1, <1>5, <1>6 DEF GraphInv, Complete, Done, TaskOK

\* A step that only moves its task.
LEMMA OnlyTaskMoves ==
  ASSUME GraphInv, NEW t \in Tasks, NEW pc, NEW op, NEW arg, NEW seen,
         Become(t, pc, op, arg, seen), UNCHANGED <<checkpoint, lifecycle>>,
         TaskOK([pc |-> pc, op |-> op, arg |-> arg, seen |-> seen], checkpoint)
  PROVE  GraphInv'
<1>1. /\ checkpoint' = checkpoint
      /\ lifecycle' \in Thread \cup {NoThread}
      /\ Complete(checkpoint')
  BY DEF GraphInv, Complete, Done
<1>2. TaskOK([pc |-> pc, op |-> op, arg |-> arg, seen |-> seen], checkpoint')
  BY <1>1
<1> QED BY <1>1, <1>2, OneTaskMoves DEF Become

LEMMA RaiseKeeps ==
  ASSUME GraphInv, NEW t \in Tasks, Raise(t), UNCHANGED <<checkpoint, lifecycle>>
  PROVE  GraphInv'
<1>1. TaskOK([pc |-> "raised", op |-> "none", arg |-> "none", seen |-> NoState], checkpoint)
  BY PlacedOK DEF PC
<1> QED BY <1>1, OnlyTaskMoves DEF Raise

\* A task that waits for its result.
LEMMA ReturnedOK ==
  ASSUME NEW s, NEW seen \in State
  PROVE  TaskOK([pc |-> "returned", op |-> "none", arg |-> "none", seen |-> seen], s)
  BY PlacedOK DEF PC

LEMMA EnterKeeps ==
  ASSUME GraphInv, NEW t \in Tasks, Enter(t)
  PROVE  GraphInv'
<1> DEFINE s == checkpoint
<1>1. CASE StartAgain(t)
  <2>1. s \in State
    BY <1>1 DEF StartAgain, GraphInv
  <2> QED BY <1>1, <2>1, ReturnedOK, OnlyTaskMoves DEF StartAgain
<1>2. CASE StartNew(t)
  <2>1. TaskOK([pc |-> "create", op |-> "start", arg |-> "none", seen |-> NoState], s)
    BY PlacedOK DEF PC
  <2> QED BY <1>2, <2>1, OnlyTaskMoves DEF StartNew
<1>3. CASE Resume(t)
  <2>1. CASE Raise(t)
    BY <1>3, <2>1, RaiseKeeps DEF Resume
  <2>2. CASE Become(t, "reread", "mark", "failed_terminal", NoState)
    <3>1. s # NoState
      BY <1>3 DEF Resume
    <3>2. TaskOK([pc |-> "reread", op |-> "mark", arg |-> "failed_terminal", seen |-> NoState], s)
      BY <3>1, PlacedOK DEF PC, GraphStatus, Terminal
    <3> QED BY <1>3, <2>2, <3>2, OnlyTaskMoves DEF Resume
  <2>3. CASE Become(t, "invoke", "resume", "none", NoState)
    <3>1. s # NoState
      BY <1>3 DEF Resume
    <3>2. TaskOK([pc |-> "invoke", op |-> "resume", arg |-> "none", seen |-> NoState], s)
      BY <3>1, PlacedOK DEF PC
    <3> QED BY <1>3, <2>3, <3>2, OnlyTaskMoves DEF Resume
  <2> QED BY <1>3, <2>1, <2>2, <2>3 DEF Resume
<1>4. ASSUME NEW w \in Workers, Rewind(t, w)
      PROVE  GraphInv'
  <2>1. CASE Raise(t)
    BY <1>4, <2>1, RaiseKeeps DEF Rewind
  <2>2. CASE Become(t, "rewind", "rewind", w, NoState)
    <3>1. s # NoState
      BY <1>4 DEF Rewind
    <3>2. TaskOK([pc |-> "rewind", op |-> "rewind", arg |-> w, seen |-> NoState], s)
      BY <3>1, PlacedOK DEF PC
    <3> QED BY <1>4, <2>2, <3>2, OnlyTaskMoves DEF Rewind
  <2> QED BY <1>4, <2>1, <2>2 DEF Rewind
<1>5. ASSUME NEW status \in Resumable \cup Terminal, Mark(t, status)
      PROVE  GraphInv'
  <2>1. s \in State /\ s # NoState
    BY <1>5 DEF Mark, GraphInv
  <2>2. CASE Become(t, "returned", "none", "none", checkpoint)
    BY <1>5, <2>1, <2>2, ReturnedOK, OnlyTaskMoves DEF Mark
  <2>3. CASE Become(t, "mark", "mark", status, checkpoint)
    <3>1. TaskOK([pc |-> "mark", op |-> "mark", arg |-> status, seen |-> s], s)
      BY <2>1, PlacedOK DEF PC, GraphStatus, Terminal, Resumable
    <3> QED BY <1>5, <2>3, <3>1, OnlyTaskMoves DEF Mark
  <2> QED BY <1>5, <2>2, <2>3 DEF Mark
<1> QED BY <1>1, <1>2, <1>3, <1>4, <1>5 DEF Enter

\* A write of the checkpoint: the new one is a complete state of the thread.
LEMMA CheckpointMoves ==
  ASSUME GraphInv, NEW t \in Tasks, NEW pc, NEW op, NEW arg, NEW seen,
         Become(t, pc, op, arg, seen), UNCHANGED lifecycle,
         checkpoint' \in State, Complete(checkpoint'),
         TaskOK([pc |-> pc, op |-> op, arg |-> arg, seen |-> seen], checkpoint')
  PROVE  GraphInv'
<1>1. lifecycle' \in Thread \cup {NoThread}
  BY DEF GraphInv
<1> QED BY <1>1, OneTaskMoves DEF Become

\* A write of the lifecycle record.
LEMMA LifecycleMoves ==
  ASSUME GraphInv, NEW t \in Tasks, NEW pc, NEW op, NEW arg, NEW seen,
         Become(t, pc, op, arg, seen), UNCHANGED checkpoint,
         lifecycle' \in Thread \cup {NoThread},
         TaskOK([pc |-> pc, op |-> op, arg |-> arg, seen |-> seen], checkpoint)
  PROVE  GraphInv'
<1>1. checkpoint' = checkpoint /\ Complete(checkpoint')
  BY DEF GraphInv, Complete, Done
<1>2. TaskOK([pc |-> pc, op |-> op, arg |-> arg, seen |-> seen], checkpoint')
  BY <1>1
<1> QED BY <1>1, <1>2, OneTaskMoves DEF Become

LEMMA NotWaitingComplete ==
  ASSUME NEW s, s.status # "waiting_for_review"
  PROVE  Complete(s)
  BY DEF Complete

LEMMA StateIsThere == NoState \notin State
  BY DEF NoState, State, GraphStatus

LEMMA ProceedKeeps ==
  ASSUME GraphInv, NEW t \in Tasks, Proceed(t)
  PROVE  GraphInv'
<1> DEFINE k == task[t]
           s == k.seen
<1>0. TaskOK(k, checkpoint) /\ k \in Call
  BY DEF GraphInv, TaskOK
<1>1. CASE CreateThread(t)
  <2>1. lifecycle' \in Thread \cup {NoThread}
    BY <1>1, OrderType DEF CreateThread, GraphInv, Thread, GraphStatus
  <2>2. TaskOK([pc |-> "invoke", op |-> "start", arg |-> "none", seen |-> NoState], checkpoint)
    BY PlacedOK DEF PC
  <2> QED BY <1>1, <2>1, <2>2, LifecycleMoves DEF CreateThread
<1>2. CASE UpdateRewound(t)
  <2>1. k.arg \in Workers /\ checkpoint \in State
    BY <1>0, <1>2 DEF UpdateRewound, At, TaskOK, GraphInv
  <2>2. checkpoint' \in State /\ Complete(checkpoint') /\ checkpoint' # NoState
    BY <1>2, <2>1, RewoundType, NotWaitingComplete, StateIsThere DEF UpdateRewound
  <2>3. TaskOK([pc |-> "reset", op |-> "rewind", arg |-> k.arg, seen |-> NoState], checkpoint')
    BY <2>1, <2>2, PlacedOK DEF PC
  <2> QED BY <1>2, <2>2, <2>3, CheckpointMoves DEF UpdateRewound
<1>3. CASE ResetThread(t)
  <2>1. k.arg \in Workers /\ checkpoint # NoState
    BY <1>0, <1>3 DEF ResetThread, At, TaskOK
  <2>2. lifecycle' \in Thread
    BY <1>3, <2>1 DEF ResetThread, Thread, GraphStatus
  <2>3. TaskOK([pc |-> "invoke", op |-> "rewind", arg |-> k.arg, seen |-> NoState], checkpoint)
    BY <2>1, PlacedOK DEF PC
  <2> QED BY <1>3, <2>2, <2>3, LifecycleMoves DEF ResetThread
<1>4. CASE Invoke(t)
  <2> DEFINE input == Merged(checkpoint, k.op, k.arg)
  <2>1. \/ k.op = "start"
        \/ k.op = "resume" /\ checkpoint \in State
        \/ k.op = "rewind" /\ checkpoint \in State /\ k.arg \in Workers
    BY <1>0, <1>4 DEF Invoke, At, TaskOK, GraphInv
  <2>2. input \in State /\ input.status = "running"
    BY <2>1, MergedType
  <2>3. checkpoint' = input
    BY <1>4 DEF Invoke
  <2>4. TaskOK([pc |-> "run", op |-> "none", arg |-> "none", seen |-> input], checkpoint')
    <3> HIDE DEF input
    <3> QED BY <2>2, PlacedOK DEF PC
  <2>5. Become(t, "run", "none", "none", input) /\ UNCHANGED lifecycle
    BY <1>4 DEF Invoke
  <2>6. Complete(input)
    BY <2>2, NotWaitingComplete
  <2> HIDE DEF input
  <2> QED BY <2>2, <2>3, <2>4, <2>5, <2>6, CheckpointMoves
<1>5. CASE RefuseAttempt(t)
  <2>1. s \in State
    BY <1>0, <1>5 DEF RefuseAttempt, At, TaskOK
  <2> DEFINE r == Failed(s, "failed_terminal")
  <2>2. r \in State /\ r.status = "failed_terminal"
    BY <2>1, FailedType DEF GraphStatus
  <2>3. TaskOK([pc |-> "save", op |-> "none", arg |-> "none", seen |-> r], checkpoint)
    <3> HIDE DEF r
    <3> QED BY <2>2, NotWaitingComplete, PlacedOK DEF PC
  <2> QED BY <1>5, <2>3, OnlyTaskMoves DEF RefuseAttempt
<1>6. CASE SaveCheckpoint(t)
  <2>1. s \in State /\ Complete(s)
    BY <1>0, <1>6 DEF SaveCheckpoint, At, TaskOK
  <2> DEFINE pc == IF s.status = "running" THEN "run" ELSE "settle"
  <2>2. TaskOK([pc |-> pc, op |-> "none", arg |-> "none", seen |-> s], checkpoint')
    BY <2>1, PlacedOK DEF PC
  <2>3. checkpoint' = s /\ Become(t, pc, "none", "none", s) /\ UNCHANGED lifecycle
    BY <1>6 DEF SaveCheckpoint
  <2> HIDE DEF pc, s
  <2> QED BY <2>1, <2>2, <2>3, CheckpointMoves
<1>7. CASE Settle(t)
  <2>1. s \in State
    BY <1>0, <1>7 DEF Settle, At, TaskOK
  <2>2. lifecycle' \in Thread
    BY <1>7, <2>1 DEF Settle, Thread, State
  <2> QED BY <1>7, <2>1, <2>2, ReturnedOK, LifecycleMoves DEF Settle
<1>8. CASE Reread(t)
  <2>1. k.arg \in Resumable \cup Terminal /\ checkpoint \in State /\ checkpoint # NoState
    BY <1>0, <1>8 DEF Reread, At, TaskOK, GraphInv
  <2>2. TaskOK([pc |-> "mark", op |-> "mark", arg |-> k.arg, seen |-> checkpoint], checkpoint)
    BY <2>1, PlacedOK DEF PC, GraphStatus, Resumable, Terminal
  <2> QED BY <1>8, <2>2, OnlyTaskMoves DEF Reread
<1>9. CASE UpdateStatus(t)
  <2>1. k.arg \in Resumable \cup Terminal /\ checkpoint \in State /\ s \in State
    BY <1>0, <1>9 DEF UpdateStatus, At, TaskOK, GraphInv
  <2>2. k.arg \in GraphStatus /\ k.arg # "waiting_for_review"
    BY <2>1 DEF Resumable, Terminal, GraphStatus
  <2> DEFINE r == [s EXCEPT !.status = k.arg]
  <2>3. checkpoint' \in State /\ checkpoint'.status = k.arg
    BY <1>9, <2>1, <2>2, StatusType DEF UpdateStatus
  <2>4. r \in State
    BY <2>1, <2>2, StatusType
  <2>5. TaskOK([pc |-> "settle", op |-> "mark", arg |-> k.arg, seen |-> r], checkpoint')
    <3> HIDE DEF r
    <3> QED BY <2>2, <2>4, PlacedOK DEF PC
  <2>6. Become(t, "settle", "mark", k.arg, r) /\ UNCHANGED lifecycle
    BY <1>9 DEF UpdateStatus
  <2>7. Complete(checkpoint')
    BY <2>2, <2>3, NotWaitingComplete
  <2> HIDE DEF r
  <2> QED BY <2>3, <2>5, <2>6, <2>7, CheckpointMoves
<1> QED BY <1>1, <1>2, <1>3, <1>4, <1>5, <1>6, <1>7, <1>8, <1>9 DEF Proceed

LEMMA RunKeeps ==
  ASSUME GraphInv, NEW t \in Tasks,
         RunSucceeds(t) \/ \E status \in Resumable \cup {"failed_terminal"} : RunFails(t, status)
  PROVE  GraphInv'
<1> DEFINE s == task[t].seen
<1>1. s \in State
  BY DEF GraphInv, TaskOK, RunSucceeds, RunFails, At
<1>2. ASSUME NEW r \in State, Complete(r), Become(t, "save", "none", "none", r),
             UNCHANGED <<checkpoint, lifecycle>>
      PROVE  GraphInv'
  <2>1. TaskOK([pc |-> "save", op |-> "none", arg |-> "none", seen |-> r], checkpoint)
    BY <1>2, PlacedOK DEF PC
  <2> QED BY <1>2, <2>1, OnlyTaskMoves
<1>3. CASE RunSucceeds(t)
  <2>1. CASE Raise(t)
    BY <1>3, <2>1, RaiseKeeps DEF RunSucceeds
  <2>2. CASE Become(t, "save", "none", "none", Succeeded(s))
    <3>1. Succeeded(s) \in State /\ Complete(Succeeded(s))
      BY <1>1, SucceededType
    <3> QED BY <1>2, <1>3, <2>2, <3>1 DEF RunSucceeds
  <2> QED BY <1>3, <2>1, <2>2 DEF RunSucceeds
<1>4. ASSUME NEW status \in Resumable \cup {"failed_terminal"}, RunFails(t, status)
      PROVE  GraphInv'
  <2>1. status \in GraphStatus /\ status # "waiting_for_review"
    BY <1>4 DEF Resumable, GraphStatus
  <2>2. Failed(s, status) \in State /\ Complete(Failed(s, status))
    BY <1>1, <2>1, FailedType, NotWaitingComplete
  <2> QED BY <1>2, <1>4, <2>2 DEF RunFails
<1> QED BY <1>3, <1>4

LEMMA MarkFailsKeeps ==
  ASSUME GraphInv, NEW t \in Tasks, MarkFails(t)
  PROVE  GraphInv'
<1>1. task[t].arg \in Workers \cup GraphStatus \cup {"none"}
  BY DEF GraphInv, TaskOK, Call
<1>2. TaskOK([pc |-> "raised", op |-> "mark", arg |-> task[t].arg, seen |-> NoState], checkpoint)
  BY <1>1, PlacedOK DEF PC
<1> QED BY <1>2, OnlyTaskMoves DEF MarkFails

LEMMA ReturnKeeps ==
  ASSUME GraphInv, NEW t \in Tasks, Return(t)
  PROVE  GraphInv'
<1>1. task' = [task EXCEPT ![t] = Idle] /\ UNCHANGED <<checkpoint, lifecycle>>
  BY DEF Return
<1>2. Become(t, "idle", "none", "none", NoState)
  BY <1>1 DEF Become, Idle
<1>3. TaskOK([pc |-> "idle", op |-> "none", arg |-> "none", seen |-> NoState], checkpoint)
  BY IdleTaskOK DEF Idle
<1> QED BY <1>1, <1>2, <1>3, OnlyTaskMoves

LEMMA StopKeeps == GraphInv /\ Stop => GraphInv'
  BY IdleTaskOK DEF GraphInv, Stop, Complete, Done

LEMMA StutterKeepsGraph == GraphInv /\ UNCHANGED graphVars => GraphInv'
  BY DEF GraphInv, graphVars, Complete, Done, TaskOK

LEMMA GraphInvInit == GraphInit => GraphInv
  BY NoStateComplete, IdleTaskOK DEF GraphInit, GraphInv

LEMMA GraphInvNext == GraphInv /\ [GraphNext]_graphVars => GraphInv'
  BY EnterKeeps, ProceedKeeps, RunKeeps, MarkFailsKeeps, ReturnKeeps, StopKeeps,
     StutterKeepsGraph
  DEF GraphNext

\* The graph keeps GraphInv whatever calls overlap in it.
THEOREM GraphInvariant == GraphSpec => []GraphInv
  BY GraphInvInit, GraphInvNext, PTL DEF GraphSpec

\* Every variable of the graph keeps its type: no call leaves the thread at a
\* position or status it does not have (graph.py).
THEOREM GraphTypeCorrect == GraphSpec => []GraphTypeOK
  BY GraphInvariant, GraphInvImplies, PTL

\* No worker is ever skipped: whatever starts, resumes, rewinds, marks and
\* failures overlap, the thread waits for review only after every worker of the
\* order, whatever that order is (graph.py, _success_update).
THEOREM NoWorkerSkipped == GraphSpec => []ReviewAfterEveryWorker
  BY GraphInvariant, GraphInvImplies, PTL

(***************************************************************************)
(* The application uses the graph only through its operations.             *)
(***************************************************************************)
LEMMA StepOfGraph ==
  ASSUME NEW t \in Tasks, Step(t)
  PROVE  [GraphNext]_graphVars
<1>1. CASE Proceed(t) /\ UNCHANGED caseVars
  BY <1>1 DEF GraphNext
<1>2. CASE WorkerSucceeds(t)
  BY <1>2 DEF WorkerSucceeds, GraphNext
<1>3. ASSUME NEW status \in Resumable \cup {"failed_terminal"}, WorkerFails(t, status)
      PROVE  [GraphNext]_graphVars
  BY <1>3 DEF WorkerFails, GraphNext
<1>4. CASE BeginStart(t)
  BY <1>4 DEF BeginStart, Enter, GraphNext
<1>5. CASE EndRun(t) \/ EndCancel(t) \/ CompletionFailed(t) \/ EndDecision(t)
  BY <1>5 DEF EndRun, EndCancel, CompletionFailed, EndDecision, GraphNext
<1>6. CASE ResumeLocked(t) \/ CancelLocked(t) \/ RouteFinal(t)
             \/ WriteBack(t) \/ WriteBackRefused(t) \/ WriteBackFails(t)
  BY <1>6 DEF ResumeLocked, CancelLocked, RouteFinal, WriteBack, WriteBackRefused, WriteBackFails
<1>7. CASE \E stage \in Stages : RouteSendBack(t, stage)
  BY <1>7 DEF RouteSendBack
<1>8. CASE BeginResume(t)
  BY <1>8 DEF BeginResume, Enter, GraphNext
<1>9. CASE BeginSendBack(t)
  <2>1. Rewind(t, request[t].stage) /\ request[t].stage \in Workers
    BY <1>9 DEF BeginSendBack, Rewind
  <2> QED BY <2>1 DEF Enter, GraphNext
<1>10. CASE BeginCancel(t) \/ RouteAmbiguous(t) \/ BeginComplete(t) \/ BeginRetryable(t)
  <2>1. \E status \in Resumable \cup Terminal : Mark(t, status)
    BY <1>10 DEF BeginCancel, RouteAmbiguous, BeginComplete, BeginRetryable, Resumable, Terminal
  <2> QED BY <2>1 DEF Enter, GraphNext
<1>11. CASE MarkBreaks(t)
  BY <1>11 DEF MarkBreaks, GraphNext
<1> QED
  BY <1>1, <1>2, <1>3, <1>4, <1>5, <1>6, <1>7, <1>8, <1>9, <1>10, <1>11 DEF Step

LEMMA NextOfGraph == [Next]_vars => [GraphNext]_graphVars
<1>1. ASSUME NEW t \in Tasks, Arrive(t)
      PROVE  UNCHANGED graphVars
  BY <1>1 DEF Arrive, CreateIntakeJob, ResumeRequest, CancelRequest, Decide, DecideAgain
<1>2. CASE Restart
  BY <1>2 DEF Restart, GraphNext
<1>3. CASE UNCHANGED vars
  BY <1>3 DEF vars
<1> QED BY <1>1, <1>2, <1>3, StepOfGraph DEF Next

\* AgentCase implements ApplicationGraph: every step of the application's
\* requests is a step of the graph or leaves it alone.
THEOREM GraphImplemented == Spec => ImplementsGraph
<1>1. Init => GraphInit
  BY DEF Init
<1> QED BY <1>1, NextOfGraph, PTL DEF Spec, ImplementsGraph, GraphSpec

\* "Eligibility and guardrails can never be skipped", for the application and its
\* workflow as a whole.
THEOREM ReviewedAfterEveryWorker == Spec => []ReviewAfterEveryWorker
  BY GraphImplemented, NoWorkerSkipped, PTL DEF ImplementsGraph

(***************************************************************************)
(* The workflow beside the graph.                                          *)
(***************************************************************************)
States == {Ladder[i] : i \in 1..Len(Ladder)}
Targets == {TargetOf[w] : w \in DOMAIN TargetOf}
Decided == {"HUMAN_DECIDED", "PRECEDENT_WRITTEN"}
Decision == [action: DecisionActions, stage: RestartStages \cup {"none"}, reopened: BOOLEAN]

Closed(d) == d.action = "send_back" /\ d.reopened

\* Only the last decision may be open, and while it is the case stands decided
\* as it says.
WorkflowOK(wf) ==
  /\ wf \in [state: States, decision: DecisionActions \cup {"none"}, accepted: BOOLEAN,
             recorded: SUBSET Targets, decisions: Seq(Decision)]
  /\ \A i \in 1..Len(wf.decisions) :
       LET d == wf.decisions[i] IN
       /\ d.reopened => d.action = "send_back"
       /\ ~Closed(d) => i = Len(wf.decisions) /\ wf.state \in Decided /\ wf.decision = d.action
  /\ wf.state = "PRECEDENT_WRITTEN" => wf.decision # "send_back"

\* What no step takes back.
Grows(wf, wg) ==
  /\ Len(wg.decisions) >= Len(wf.decisions)
  /\ wf.state = "PRECEDENT_WRITTEN" => wg.state = "PRECEDENT_WRITTEN"
  /\ wf.state \in Decided /\ wf.decision # "send_back" =>
       wg.state \in Decided /\ wg.decision # "send_back"

LEMMA LadderIsOneToOne ==
  /\ Len(Ladder) = 8
  /\ \A i, j \in 1..8 : Ladder[i] = Ladder[j] => i = j
  BY DEF Ladder

LEMMA RankOfRung ==
  ASSUME NEW i \in 1..8
  PROVE  Rank(Ladder[i]) = i
<1> DEFINE P(j) == Ladder[j] = Ladder[i]
<1>1. P(i) /\ \A j \in 1..8 : P(j) => j = i
  BY LadderIsOneToOne
<1>2. Rank(Ladder[i]) = CHOOSE j \in 1..8 : P(j)
  BY LadderIsOneToOne DEF Rank
<1> HIDE DEF P
<1> QED BY <1>1, <1>2

LEMMA Ranks ==
  /\ \A state \in Decided : Rank(state) \in {7, 8}
  /\ \A target \in Targets : target \in States \ Decided /\ Rank(target) \in 2..6
<1>1. /\ Ladder[7] = "HUMAN_DECIDED" /\ Ladder[8] = "PRECEDENT_WRITTEN"
      /\ Ladder[2] = "INTAKE" /\ Ladder[3] = "EXTRACTED" /\ Ladder[4] = "RULE_GATED"
      /\ Ladder[5] = "AI_SUGGESTED" /\ Ladder[6] = "AWAITING_HUMAN"
  BY DEF Ladder
<1>2. /\ Rank("HUMAN_DECIDED") = 7 /\ Rank("PRECEDENT_WRITTEN") = 8
      /\ Rank("INTAKE") = 2 /\ Rank("EXTRACTED") = 3 /\ Rank("RULE_GATED") = 4
      /\ Rank("AI_SUGGESTED") = 5 /\ Rank("AWAITING_HUMAN") = 6
  BY <1>1, RankOfRung
<1>3. Targets = {"INTAKE", "EXTRACTED", "RULE_GATED", "AI_SUGGESTED", "AWAITING_HUMAN"}
  BY DEF Targets, TargetOf
<1>4. Targets \subseteq States
  BY <1>1, <1>3, LadderIsOneToOne DEF States
<1> QED BY <1>2, <1>3, <1>4 DEF Decided

LEMMA GrowsItself == \A wf : WorkflowOK(wf) => Grows(wf, wf)
  BY DEF Grows, WorkflowOK

\* A worker never moves a case that is decided.
LEMMA AdvancedOK ==
  ASSUME NEW wf, WorkflowOK(wf), NEW target \in Targets
  PROVE  WorkflowOK(Advanced(wf, target)) /\ Grows(wf, Advanced(wf, target))
<1>1. CASE Advanced(wf, target) = wf
  BY <1>1, GrowsItself
<1>2. CASE Advanced(wf, target) # wf
  <2> DEFINE wg == [wf EXCEPT !.state = target, !.recorded = wf.recorded \cup {target}]
  <2>1. Advanced(wf, target) = wg /\ ~(Rank(wf.state) >= Rank(target))
    BY <1>2 DEF Advanced
  <2>2. wf.state \notin Decided
    BY <2>1, Ranks
  <2>3. target \in States \ Decided
    BY Ranks
  <2>4. /\ wg.state = target /\ wg.decision = wf.decision /\ wg.decisions = wf.decisions
        /\ wg \in [state: States, decision: DecisionActions \cup {"none"}, accepted: BOOLEAN,
                   recorded: SUBSET Targets, decisions: Seq(Decision)]
    BY <2>3 DEF WorkflowOK
  <2>5. \A i \in 1..Len(wf.decisions) : Closed(wf.decisions[i])
    BY <2>2 DEF WorkflowOK
  <2> HIDE DEF wg
  <2>6. WorkflowOK(wg)
    BY <2>3, <2>4, <2>5 DEF WorkflowOK, Decided, Closed
  <2>7. Grows(wf, wg)
    BY <2>2, <2>4 DEF Grows, WorkflowOK, Decided
  <2> QED BY <2>1, <2>6, <2>7
<1> QED BY <1>1, <1>2

\* A new decision is the only open one.
LEMMA DecidedOK ==
  ASSUME NEW wf, WorkflowOK(wf), wf.state = "AWAITING_HUMAN",
         NEW action \in DecisionActions, NEW stage \in RestartStages \cup {"none"},
         NEW wg, wg.state = "HUMAN_DECIDED", wg.decision = action,
         wg.decisions = Append(wf.decisions,
                               [action |-> action, stage |-> stage, reopened |-> FALSE]),
         wg \in [state: States, decision: DecisionActions \cup {"none"}, accepted: BOOLEAN,
                 recorded: SUBSET Targets, decisions: Seq(Decision)]
  PROVE  /\ WorkflowOK(wg)
         /\ Grows(wf, wg)
         /\ Len(wg.decisions) = Len(wf.decisions) + 1
<1> DEFINE d == [action |-> action, stage |-> stage, reopened |-> FALSE]
           ds == Append(wf.decisions, d)
           n == Len(wf.decisions)
<1>1. d \in Decision /\ d.action = action /\ d.reopened = FALSE
  BY DEF Decision
<1>2. wf.decisions \in Seq(Decision) /\ n \in Nat
  BY DEF WorkflowOK
<1> HIDE DEF d
<1>3. /\ ds \in Seq(Decision) /\ Len(ds) = n + 1 /\ ds[n + 1] = d
      /\ \A i \in 1..n : ds[i] = wf.decisions[i]
  BY <1>1, <1>2
<1>4. wg.decisions = ds
  BY DEF d
<1> HIDE DEF ds
<1>5. \A i \in 1..n : Closed(wf.decisions[i])
  BY DEF WorkflowOK, Decided
<1>6. \A i \in 1..Len(ds) :
        /\ ds[i].reopened => ds[i].action = "send_back"
        /\ ~Closed(ds[i]) => i = Len(ds) /\ ds[i].action = action
  <2>1. SUFFICES ASSUME NEW i \in 1..Len(ds)
                 PROVE  /\ ds[i].reopened => ds[i].action = "send_back"
                        /\ ~Closed(ds[i]) => i = Len(ds) /\ ds[i].action = action
    OBVIOUS
  <2>2. CASE i \in 1..n
    BY <1>3, <1>5, <2>2 DEF Closed
  <2>3. CASE i = n + 1
    BY <1>1, <1>3, <2>3
  <2> QED BY <1>2, <1>3, <2>2, <2>3
<1>7. WorkflowOK(wg)
  BY <1>4, <1>6 DEF WorkflowOK, Decided
<1> QED BY <1>2, <1>3, <1>4, <1>7 DEF Grows, Decided

\* Reopening closes the open decision.
LEMMA ReopenedOK ==
  ASSUME NEW wf, WorkflowOK(wf), NEW i \in 1..Len(wf.decisions), NEW stage \in Stages,
         wf.decisions[i].action = "send_back", ~wf.decisions[i].reopened,
         NEW wg,
         wg = [wf EXCEPT !.state = RestartState[stage], !.decision = "none",
                         !.decisions[i].reopened = TRUE]
  PROVE  WorkflowOK(wg) /\ Grows(wf, wg)
<1> DEFINE d == [wf.decisions[i] EXCEPT !.reopened = TRUE]
           ds == [wf.decisions EXCEPT ![i] = d]
           n == Len(wf.decisions)
<1>1. wf.decisions \in Seq(Decision) /\ n \in Nat
  BY DEF WorkflowOK
<1>2. wf.decisions[i] \in Decision
  BY <1>1
<1>3. d \in Decision /\ d.action = "send_back" /\ d.reopened
  BY <1>2 DEF Decision
<1> HIDE DEF d
<1>4. /\ ds \in Seq(Decision) /\ Len(ds) = n /\ ds[i] = d
      /\ \A j \in 1..n : j # i => ds[j] = wf.decisions[j]
  BY <1>1, <1>3
<1>5. wg = [wf EXCEPT !.state = RestartState[stage], !.decision = "none", !.decisions = ds]
  BY DEF d
<1> HIDE DEF ds
<1>6. RestartState[stage] \in States \ Decided
  <2>1. stage \in DOMAIN RestartState
    BY AgentAssumption DEF Stages
  <2>2. RestartState[stage] \in {"INTAKE", "EXTRACTED", "RULE_GATED", "AI_SUGGESTED"}
    BY <2>1 DEF RestartState
  <2>3. {"INTAKE", "EXTRACTED", "RULE_GATED", "AI_SUGGESTED"} \subseteq Targets
    BY DEF Targets, TargetOf
  <2> QED BY <2>2, <2>3, Ranks
<1>7. /\ wg.state = RestartState[stage] /\ wg.decisions = ds /\ wg.decision = "none"
      /\ wg \in [state: States, decision: DecisionActions \cup {"none"}, accepted: BOOLEAN,
                 recorded: SUBSET Targets, decisions: Seq(Decision)]
  BY <1>4, <1>5, <1>6 DEF WorkflowOK
<1>8. /\ i = n /\ wf.decision = "send_back"
      /\ \A j \in 1..n : j # i => Closed(wf.decisions[j])
  BY <1>1 DEF WorkflowOK, Closed
<1>9. \A j \in 1..Len(ds) : Closed(ds[j])
  BY <1>3, <1>4, <1>8 DEF Closed
<1>10. WorkflowOK(wg)
  BY <1>6, <1>7, <1>9 DEF WorkflowOK, Closed, Decided
<1>11. Grows(wf, wg)
  BY <1>1, <1>4, <1>7, <1>8 DEF Grows, WorkflowOK
<1> QED BY <1>10, <1>11

\* The written precedent of a decision for good.
LEMMA WrittenOK ==
  ASSUME NEW wf, WorkflowOK(wf), wf.state \in Decided, wf.decision # "send_back",
         NEW wg, wg = [wf EXCEPT !.state = "PRECEDENT_WRITTEN"]
  PROVE  WorkflowOK(wg) /\ Grows(wf, wg)
<1>1. "PRECEDENT_WRITTEN" \in States
  BY LadderIsOneToOne DEF States, Ladder
<1>2. /\ wg.state = "PRECEDENT_WRITTEN" /\ wg.decision = wf.decision
      /\ wg.decisions = wf.decisions
      /\ wg \in [state: States, decision: DecisionActions \cup {"none"}, accepted: BOOLEAN,
                 recorded: SUBSET Targets, decisions: Seq(Decision)]
  BY <1>1 DEF WorkflowOK
<1> QED BY <1>2 DEF WorkflowOK, Grows, Decided, Closed

(***************************************************************************)
(* The inductive invariant of the application.                             *)
(***************************************************************************)
Request ==
  [kind: {"none", "intake", "resume", "cancel", "decision", "finalize"},
   pc: {"none", "start", "lock", "resume", "cancel", "route", "send_back", "write", "complete",
        "retryable", "graph"},
   of: Jobs \cup Nat, stage: Stages \cup {"none"}]
JobStatus == {"none", "running", "completed", "failed", "cancelled"}

RequestOK(r, wf) ==
  /\ r \in Request
  /\ r.kind = "decision" => r.of \in 1..Len(wf.decisions)
  /\ r.kind = "finalize" => wf.state \in Decided /\ wf.decision # "send_back"
  /\ r.kind = "finalize" /\ r.pc = "complete" => wf.state = "PRECEDENT_WRITTEN"

\* A task completes the thread only after the precedent.
Settles(k, wf) ==
  /\ k.pc = "save" => k.seen.status # "completed"
  /\ k.pc \in {"mark", "reread"} /\ k.arg = "completed" => wf.state = "PRECEDENT_WRITTEN"

Remembered(s, wf) == s.status = "completed" => wf.state = "PRECEDENT_WRITTEN"

\* A task is inside the graph only for a request that waits for it.
Busy(k, r) == k.pc # "idle" => r.pc = "graph"

JobsOK(js) == js = [j \in Jobs |-> js[j]] /\ \A j \in Jobs : js[j].status \in JobStatus

CaseInv ==
  /\ GraphInv
  /\ WorkflowOK(workflow)
  /\ request = [t \in Tasks |-> request[t]]
  /\ \A t \in Tasks :
       RequestOK(request[t], workflow) /\ Settles(task[t], workflow) /\ Busy(task[t], request[t])
  /\ Remembered(checkpoint, workflow)
  /\ JobsOK(jobs)
  /\ lock \in Tasks \cup {"free"}

LEMMA CaseInvImplies == CaseInv => TypeOK /\ CompletedOnlyAfterPrecedent
<1>1. CaseInv => GraphTypeOK
  BY GraphInvImplies DEF CaseInv
<1>2. CaseInv => workflow \in [state: {Ladder[i] : i \in 1..Len(Ladder)},
                   decision: DecisionActions \cup {"none"}, accepted: BOOLEAN,
                   recorded: SUBSET {TargetOf[w] : w \in DOMAIN TargetOf},
                   decisions: Seq([action: DecisionActions, stage: RestartStages \cup {"none"},
                                   reopened: BOOLEAN])]
  BY DEF CaseInv, WorkflowOK, States, Targets, Decision
<1> QED
  BY <1>1, <1>2 DEF CaseInv, TypeOK, CompletedOnlyAfterPrecedent, Remembered, JobsOK, JobStatus,
     Busy, At

LEMMA QuietOK == \A wf : RequestOK(Quiet, wf)
<1>1. Quiet.kind = "none" /\ Quiet.pc = "none"
  BY DEF Quiet
<1>2. Quiet \in Request
  BY DEF Quiet, Request
<1> QED BY <1>1, <1>2 DEF RequestOK

\* A growing workflow leaves the other requests and tasks as they should be.
LEMMA GrowsKeeps ==
  ASSUME NEW wf, NEW wg, WorkflowOK(wf), WorkflowOK(wg), Grows(wf, wg)
  PROVE  /\ \A r : RequestOK(r, wf) => RequestOK(r, wg)
         /\ \A k : Settles(k, wf) => Settles(k, wg)
         /\ \A s : Remembered(s, wf) => Remembered(s, wg)
<1>1. Len(wf.decisions) \in Nat /\ Len(wg.decisions) \in Nat
  BY DEF WorkflowOK
<1> QED BY <1>1 DEF Grows, RequestOK, Settles, Remembered

\* A step of one task t and its request.
LEMMA CaseMoves ==
  ASSUME CaseInv, GraphInv', NEW t \in Tasks, NEW k, NEW r,
         task' = [task EXCEPT ![t] = k], request' = [request EXCEPT ![t] = r],
         WorkflowOK(workflow'), Grows(workflow, workflow'),
         RequestOK(r, workflow'), Settles(k, workflow'), Busy(k, r),
         Remembered(checkpoint', workflow'), JobsOK(jobs'), lock' \in Tasks \cup {"free"}
  PROVE  CaseInv'
<1>1. \A u \in Tasks : RequestOK(request[u], workflow') /\ Settles(task[u], workflow')
  BY GrowsKeeps DEF CaseInv
<1>2. \A u \in Tasks : /\ task'[u] = IF u = t THEN k ELSE task[u]
                       /\ request'[u] = IF u = t THEN r ELSE request[u]
  BY DEF CaseInv, GraphInv
<1>3. \A u \in Tasks : /\ RequestOK(request'[u], workflow')
                       /\ Settles(task'[u], workflow')
                       /\ Busy(task'[u], request'[u])
  BY <1>1, <1>2 DEF CaseInv
<1>4. request' = [u \in Tasks |-> request'[u]]
  BY DEF CaseInv
<1> QED BY <1>3, <1>4 DEF CaseInv

\* Where a step leaves its task: k, which completes nothing before its time.
Moves(t, k) ==
  /\ task' = [task EXCEPT ![t] = k]
  /\ Settles(k, workflow)
  /\ Remembered(checkpoint', workflow)

LEMMA StaysRemembered ==
  ASSUME CaseInv, checkpoint' = checkpoint
  PROVE  Remembered(checkpoint', workflow)
  BY DEF CaseInv, Remembered

LEMMA BecomeMoves ==
  ASSUME NEW t, NEW pc, NEW op, NEW arg, NEW seen, Become(t, pc, op, arg, seen),
         Remembered(checkpoint', workflow),
         pc = "save" => seen.status # "completed",
         pc \in {"mark", "reread"} /\ arg = "completed" => workflow.state = "PRECEDENT_WRITTEN"
  PROVE  \E k : Moves(t, k)
<1> DEFINE k == [pc |-> pc, op |-> op, arg |-> arg, seen |-> seen]
<1>1. Settles(k, workflow)
  BY DEF Settles
<1>2. task' = [task EXCEPT ![t] = k]
  BY DEF Become
<1> HIDE DEF k
<1>3. Moves(t, k)
  BY <1>1, <1>2 DEF Moves
<1> QED BY <1>3

LEMMA RaiseMoves ==
  ASSUME CaseInv, NEW t \in Tasks, Raise(t), checkpoint' = checkpoint
  PROVE  \E k : Moves(t, k)
  BY BecomeMoves, StaysRemembered DEF Raise

LEMMA ProceedMoves ==
  ASSUME CaseInv, NEW t \in Tasks, Proceed(t)
  PROVE  \E k : Moves(t, k)
<1> DEFINE a == task[t]
           s == a.seen
<1>0. TaskOK(a, checkpoint) /\ Settles(a, workflow) /\ checkpoint \in State \cup {NoState}
  BY DEF CaseInv, GraphInv
<1>1. CASE CreateThread(t)
  BY <1>1, BecomeMoves, StaysRemembered DEF CreateThread
<1>2. CASE UpdateRewound(t)
  <2>1. checkpoint'.status = "running"
    BY <1>0, <1>2, RewoundType DEF UpdateRewound, At, TaskOK
  <2>2. Remembered(checkpoint', workflow)
    BY <2>1 DEF Remembered
  <2> QED BY <1>2, <2>2, BecomeMoves DEF UpdateRewound
<1>3. CASE ResetThread(t)
  BY <1>3, BecomeMoves, StaysRemembered DEF ResetThread
<1>4. CASE Invoke(t)
  <2> DEFINE input == Merged(checkpoint, a.op, a.arg)
  <2>1. \/ a.op = "start"
        \/ a.op = "resume" /\ checkpoint \in State
        \/ a.op = "rewind" /\ checkpoint \in State /\ a.arg \in Workers
    BY <1>0, <1>4 DEF Invoke, At, TaskOK
  <2>2. checkpoint' = input /\ input.status = "running"
    BY <1>4, <2>1, MergedType DEF Invoke
  <2>3. Become(t, "run", "none", "none", input)
    BY <1>4 DEF Invoke
  <2> HIDE DEF input
  <2>4. Remembered(checkpoint', workflow)
    BY <2>2 DEF Remembered
  <2> QED BY <2>3, <2>4, BecomeMoves
<1>5. CASE RefuseAttempt(t)
  <2> DEFINE r == Failed(s, "failed_terminal")
  <2>1. s \in State
    BY <1>0, <1>5 DEF RefuseAttempt, At, TaskOK
  <2>2. r.status = "failed_terminal"
    BY <2>1, FailedType DEF GraphStatus
  <2>3. Become(t, "save", "none", "none", r) /\ checkpoint' = checkpoint
    BY <1>5 DEF RefuseAttempt
  <2> HIDE DEF r
  <2> QED BY <2>2, <2>3, BecomeMoves, StaysRemembered
<1>6. CASE SaveCheckpoint(t)
  <2> DEFINE pc == IF s.status = "running" THEN "run" ELSE "settle"
  <2>1. s.status # "completed"
    BY <1>0, <1>6 DEF SaveCheckpoint, At, Settles
  <2>2. checkpoint' = s /\ Become(t, pc, "none", "none", s)
    BY <1>6 DEF SaveCheckpoint
  <2>3. pc \notin {"save", "mark", "reread"}
    OBVIOUS
  <2>4. Remembered(checkpoint', workflow)
    BY <2>1, <2>2 DEF Remembered
  <2> HIDE DEF pc
  <2> QED BY <2>2, <2>3, <2>4, BecomeMoves
<1>7. CASE Settle(t)
  BY <1>7, BecomeMoves, StaysRemembered DEF Settle
<1>8. CASE Reread(t)
  <2>1. a.arg = "completed" => workflow.state = "PRECEDENT_WRITTEN"
    BY <1>0, <1>8 DEF Reread, At, Settles
  <2> QED BY <1>8, <2>1, BecomeMoves, StaysRemembered DEF Reread
<1>9. CASE UpdateStatus(t)
  <2>1. a.arg = "completed" => workflow.state = "PRECEDENT_WRITTEN"
    BY <1>0, <1>9 DEF UpdateStatus, At, Settles
  <2>2. checkpoint \in State /\ a.arg \in GraphStatus
    BY <1>0, <1>9 DEF UpdateStatus, At, TaskOK, Resumable, Terminal, GraphStatus
  <2>3. checkpoint'.status = a.arg
    BY <1>9, <2>2, StatusType DEF UpdateStatus
  <2>4. Remembered(checkpoint', workflow)
    BY <2>1, <2>3 DEF Remembered
  <2> QED BY <1>9, <2>4, BecomeMoves DEF UpdateStatus
<1> QED BY <1>1, <1>2, <1>3, <1>4, <1>5, <1>6, <1>7, <1>8, <1>9 DEF Proceed

LEMMA RunMoves ==
  ASSUME CaseInv, NEW t \in Tasks,
         RunSucceeds(t) \/ \E status \in Resumable \cup {"failed_terminal"} : RunFails(t, status)
  PROVE  \E k : Moves(t, k)
<1> DEFINE s == task[t].seen
<1>1. s \in State
  BY DEF CaseInv, GraphInv, TaskOK, RunSucceeds, RunFails, At
<1>2. ASSUME NEW r, r.status # "completed", Become(t, "save", "none", "none", r),
             checkpoint' = checkpoint
      PROVE  \E k : Moves(t, k)
  BY <1>2, BecomeMoves, StaysRemembered
<1>4. CASE RunSucceeds(t)
  <2>1. Succeeded(s).status # "completed"
    BY <1>1, SucceededType
  <2> QED BY <1>2, <1>4, <2>1, RaiseMoves DEF RunSucceeds
<1>5. ASSUME NEW status \in Resumable \cup {"failed_terminal"}, RunFails(t, status)
      PROVE  \E k : Moves(t, k)
  <2>1. status \in GraphStatus /\ status # "completed"
    BY <1>5 DEF Resumable, GraphStatus
  <2>2. Failed(s, status).status # "completed"
    BY <1>1, <2>1, FailedType
  <2> QED BY <1>2, <1>5, <2>2 DEF RunFails
<1> QED BY <1>4, <1>5

\* A request that enters the graph, to complete the thread only if it may.
LEMMA EnterMoves ==
  ASSUME CaseInv, NEW t \in Tasks,
         \/ StartAgain(t) \/ StartNew(t) \/ Resume(t)
         \/ \E w \in Workers : Rewind(t, w)
         \/ \E status \in Resumable \cup Terminal :
              Mark(t, status) /\ (status = "completed" => workflow.state = "PRECEDENT_WRITTEN")
  PROVE  \E k : Moves(t, k)
<1>1. ASSUME NEW pc, NEW op, NEW arg, NEW seen, Become(t, pc, op, arg, seen), checkpoint' = checkpoint,
             pc # "save",
             pc \in {"mark", "reread"} /\ arg = "completed" => workflow.state = "PRECEDENT_WRITTEN"
      PROVE  \E k : Moves(t, k)
  BY <1>1, BecomeMoves, StaysRemembered
<1>2. CASE StartAgain(t) \/ StartNew(t)
  BY <1>1, <1>2 DEF StartAgain, StartNew
<1>3. CASE Resume(t)
  BY <1>1, <1>3, RaiseMoves DEF Resume
<1>4. ASSUME NEW w \in Workers, Rewind(t, w)
      PROVE  \E k : Moves(t, k)
  BY <1>1, <1>4, RaiseMoves DEF Rewind
<1>5. ASSUME NEW status \in Resumable \cup Terminal, Mark(t, status),
             status = "completed" => workflow.state = "PRECEDENT_WRITTEN"
      PROVE  \E k : Moves(t, k)
  BY <1>1, <1>5 DEF Mark
<1> QED BY <1>2, <1>3, <1>4, <1>5

(***************************************************************************)
(* The three ways a step of a request ends: inside the graph, outside it,  *)
(* or back from it.                                                        *)
(***************************************************************************)
LEMMA InsideGraph ==
  ASSUME CaseInv, GraphInv', NEW t \in Tasks, \E k : Moves(t, k),
         NEW r, request' = [request EXCEPT ![t] = r], r.pc = "graph", RequestOK(r, workflow'),
         WorkflowOK(workflow'), Grows(workflow, workflow'), JobsOK(jobs'),
         lock' \in Tasks \cup {"free"}
  PROVE  CaseInv'
<1>1. PICK k : Moves(t, k)
  OBVIOUS
<1>2. Settles(k, workflow') /\ Remembered(checkpoint', workflow')
  BY <1>1, GrowsKeeps DEF Moves, CaseInv
<1>3. Busy(k, r)
  BY DEF Busy
<1> QED BY <1>1, <1>2, <1>3, CaseMoves DEF Moves

LEMMA OutsideGraph ==
  ASSUME CaseInv, GraphInv', NEW t \in Tasks, UNCHANGED graphVars, request[t].pc # "graph",
         NEW r, request' = [request EXCEPT ![t] = r], RequestOK(r, workflow'),
         WorkflowOK(workflow'), Grows(workflow, workflow'), JobsOK(jobs'),
         lock' \in Tasks \cup {"free"}
  PROVE  CaseInv'
<1> DEFINE k == task[t]
<1>1. task' = [task EXCEPT ![t] = k]
  BY DEF CaseInv, GraphInv, graphVars
<1>2. k.pc = "idle"
  BY DEF CaseInv, Busy
<1>3. Busy(k, r)
  BY <1>2 DEF Busy
<1>4. Settles(k, workflow')
  BY <1>2 DEF Settles
<1>5. checkpoint' = checkpoint /\ Remembered(checkpoint, workflow')
  BY GrowsKeeps DEF graphVars, CaseInv
<1> HIDE DEF k
<1> QED BY <1>1, <1>3, <1>4, <1>5, CaseMoves

LEMMA OutOfGraph ==
  ASSUME CaseInv, GraphInv', NEW t \in Tasks, Return(t), NEW r, RequestOK(r, workflow),
         request' = [request EXCEPT ![t] = r], workflow' = workflow, JobsOK(jobs'),
         lock' \in Tasks \cup {"free"}
  PROVE  CaseInv'
<1>1. task' = [task EXCEPT ![t] = Idle] /\ checkpoint' = checkpoint
  BY DEF Return
<1>2. Settles(Idle, workflow') /\ Busy(Idle, r) /\ RequestOK(r, workflow')
  BY DEF Settles, Busy, Idle
<1>3. WorkflowOK(workflow') /\ Grows(workflow, workflow')
  BY GrowsItself DEF CaseInv
<1>4. Remembered(checkpoint', workflow')
  BY <1>1 DEF CaseInv, Remembered
<1> QED BY <1>1, <1>2, <1>3, <1>4, CaseMoves

LEMMA FinishedOK ==
  ASSUME JobsOK(jobs), NEW j, NEW status \in JobStatus, NEW retryable,
         Finished(j, status, retryable)
  PROVE  JobsOK(jobs')
<1> DEFINE r == [status |-> status, retryable |-> retryable]
<1>1. jobs' = [jobs EXCEPT ![j] = r] /\ r.status \in JobStatus
  BY DEF Finished
<1> HIDE DEF r
<1>2. \A i \in Jobs : jobs'[i].status \in JobStatus
  BY <1>1 DEF JobsOK
<1>3. jobs' = [i \in Jobs |-> jobs'[i]]
  BY <1>1 DEF JobsOK
<1> QED BY <1>2, <1>3 DEF JobsOK

\* A request that only goes on keeps what it stands for.
LEMMA GoOnOK ==
  ASSUME CaseInv, NEW t \in Tasks, NEW pc \in {"lock", "resume", "cancel", "retryable", "graph"},
         GoOn(t, pc)
  PROVE  \E r : /\ request' = [request EXCEPT ![t] = r]
               /\ r.pc = pc
               /\ RequestOK(r, workflow)
<1> DEFINE r == [request[t] EXCEPT !.pc = pc]
<1>1. request' = [request EXCEPT ![t] = r]
  BY DEF GoOn
<1>2. RequestOK(request[t], workflow)
  BY DEF CaseInv
<1>3. r \in Request /\ r.kind = request[t].kind /\ r.of = request[t].of /\ r.pc = pc
  BY <1>2 DEF RequestOK, Request
<1> HIDE DEF r
<1>4. RequestOK(r, workflow)
  BY <1>2, <1>3 DEF RequestOK
<1> QED BY <1>1, <1>3, <1>4

(***************************************************************************)
(* Every step of the application.                                          *)
(***************************************************************************)
LEMMA WorkflowStays ==
  ASSUME CaseInv, workflow' = workflow
  PROVE  WorkflowOK(workflow') /\ Grows(workflow, workflow')
  BY GrowsItself DEF CaseInv

\* A step inside the graph that its request waits through.
LEMMA WaitsInGraph ==
  ASSUME CaseInv, GraphInv', NEW t \in Tasks, \E k : Moves(t, k), task[t].pc # "idle",
         WorkflowOK(workflow'), Grows(workflow, workflow'),
         UNCHANGED <<jobs, request, lock>>
  PROVE  CaseInv'
<1> DEFINE r == request[t]
<1>1. request' = [request EXCEPT ![t] = r]
  BY DEF CaseInv
<1>2. r.pc = "graph"
  BY DEF CaseInv, Busy
<1>3. RequestOK(r, workflow')
  BY GrowsKeeps DEF CaseInv
<1>4. JobsOK(jobs') /\ lock' \in Tasks \cup {"free"}
  BY DEF CaseInv
<1> HIDE DEF r
<1> QED BY <1>1, <1>2, <1>3, <1>4, InsideGraph

\* What a worker does to the workflow.
LEMMA WorksOK ==
  ASSUME CaseInv, NEW t \in Tasks, Works(t)
  PROVE  WorkflowOK(workflow') /\ Grows(workflow, workflow')
<1> DEFINE w == task[t].seen.current
<1>1. CASE w \in DOMAIN TargetOf
  <2>1. TargetOf[w] \in Targets
    BY <1>1 DEF Targets
  <2>2. workflow' = Advanced(workflow, TargetOf[w])
    BY <1>1 DEF Works
  <2>3. WorkflowOK(workflow)
    BY DEF CaseInv
  <2> HIDE DEF w
  <2> QED BY <2>1, <2>2, <2>3, AdvancedOK
<1>2. CASE w \notin DOMAIN TargetOf
  BY <1>2, WorkflowStays DEF Works
<1> QED BY <1>1, <1>2

LEMMA WorkerKeeps ==
  ASSUME CaseInv, GraphInv', NEW t \in Tasks,
         \/ Proceed(t) /\ UNCHANGED caseVars
         \/ WorkerSucceeds(t)
         \/ \E status \in Resumable \cup {"failed_terminal"} : WorkerFails(t, status)
         \/ MarkBreaks(t)
  PROVE  CaseInv'
<1>1. CASE Proceed(t) /\ UNCHANGED caseVars
  <2>1. task[t].pc # "idle"
    BY <1>1 DEF Proceed, CreateThread, UpdateRewound, ResetThread, Invoke, RefuseAttempt,
       SaveCheckpoint, Settle, Reread, UpdateStatus, At
  <2> QED BY <1>1, <2>1, ProceedMoves, WorkflowStays, WaitsInGraph DEF caseVars
<1>2. CASE WorkerSucceeds(t)
  <2>1. task[t].pc # "idle"
    BY <1>2 DEF WorkerSucceeds, RunSucceeds, At
  <2> QED BY <1>2, <2>1, RunMoves, WorksOK, WaitsInGraph DEF WorkerSucceeds
<1>3. ASSUME NEW status \in Resumable \cup {"failed_terminal"}, WorkerFails(t, status)
      PROVE  CaseInv'
  <2>1. task[t].pc # "idle" /\ RunFails(t, status) /\ UNCHANGED <<jobs, request, lock>>
    BY <1>3 DEF WorkerFails, RunFails, At
  <2>2. Works(t) \/ workflow' = workflow
    BY <1>3 DEF WorkerFails
  <2>3. WorkflowOK(workflow') /\ Grows(workflow, workflow')
    BY <2>2, WorksOK, WorkflowStays
  <2>4. \E k : Moves(t, k)
    BY <2>1, RunMoves
  <2> QED BY <2>1, <2>3, <2>4, WaitsInGraph
<1>4. CASE MarkBreaks(t)
  <2>1. task[t].pc # "idle" /\ MarkFails(t) /\ UNCHANGED <<workflow, jobs, request, lock>>
    BY <1>4 DEF MarkBreaks, MarkFails
  <2>2. \E k : Moves(t, k)
    BY <2>1, BecomeMoves, StaysRemembered DEF MarkFails
  <2> QED BY <2>1, <2>2, WorkflowStays, WaitsInGraph
<1> QED BY <1>1, <1>2, <1>3, <1>4

\* A request enters the graph, the case left alone.
LEMMA BeginKeeps ==
  ASSUME CaseInv, GraphInv', NEW t \in Tasks,
         BeginStart(t) \/ BeginResume(t) \/ BeginCancel(t) \/ RouteAmbiguous(t)
           \/ BeginSendBack(t) \/ BeginComplete(t) \/ BeginRetryable(t)
  PROVE  CaseInv'
<1>1. UNCHANGED <<workflow, jobs, lock>> /\ GoOn(t, "graph")
  BY DEF BeginStart, BeginResume, BeginCancel, RouteAmbiguous, BeginSendBack, BeginComplete,
     BeginRetryable
<1>2. \E k : Moves(t, k)
  <2>1. CASE BeginStart(t) \/ BeginResume(t)
    BY <2>1, EnterMoves DEF BeginStart, BeginResume
  <2>2. CASE BeginSendBack(t)
    <3>1. Rewind(t, request[t].stage) /\ request[t].stage \in Workers
      BY <2>2 DEF BeginSendBack, Rewind
    <3> QED BY <3>1, EnterMoves
  <2>3. CASE BeginCancel(t) \/ RouteAmbiguous(t) \/ BeginRetryable(t)
    <3>1. \E status \in (Resumable \cup Terminal) \ {"completed"} : Mark(t, status)
      BY <2>3 DEF BeginCancel, RouteAmbiguous, BeginRetryable, Resumable, Terminal
    <3> QED BY <3>1, EnterMoves
  <2>4. CASE BeginComplete(t)
    <3>1. Mark(t, "completed") /\ workflow.state = "PRECEDENT_WRITTEN"
      BY <2>4 DEF BeginComplete, Asks, CaseInv, RequestOK
    <3>2. "completed" \in Resumable \cup Terminal
      BY DEF Terminal
    <3> QED BY <3>1, <3>2, EnterMoves
  <2> QED BY <2>1, <2>2, <2>3, <2>4
<1>3. PICK r : /\ request' = [request EXCEPT ![t] = r]
               /\ r.pc = "graph"
               /\ RequestOK(r, workflow)
  BY <1>1, GoOnOK
<1>4. RequestOK(r, workflow')
  BY <1>1, <1>3
<1>5. JobsOK(jobs') /\ lock' \in Tasks \cup {"free"}
  BY <1>1 DEF CaseInv
<1> QED BY <1>1, <1>2, <1>3, <1>4, <1>5, WorkflowStays, InsideGraph

\* A request's way out of the graph.
LEMMA EndKeeps ==
  ASSUME CaseInv, GraphInv', NEW t \in Tasks,
         EndRun(t) \/ EndCancel(t) \/ CompletionFailed(t) \/ EndDecision(t)
  PROVE  CaseInv'
<1>1. /\ Return(t) /\ workflow' = workflow
      /\ EndRequest(t) \/ GoOn(t, "retryable")
      /\ lock' \in Tasks \cup {"free"}
  BY DEF EndRun, EndCancel, CompletionFailed, EndDecision, CaseInv
<1>2. JobsOK(jobs)
  BY DEF CaseInv
<1>3. \/ jobs' = jobs
      \/ \E j, retryable, status : status \in JobStatus /\ Finished(j, status, retryable)
  <2>1. CASE CompletionFailed(t) \/ EndDecision(t)
    BY <2>1 DEF CompletionFailed, EndDecision
  <2>2. CASE EndCancel(t)
    BY <2>2 DEF EndCancel, JobStatus
  <2>3. CASE EndRun(t)
    BY <2>3 DEF EndRun, JobAfter, JobStatus
  <2> QED BY <2>1, <2>2, <2>3
<1>4. JobsOK(jobs')
  BY <1>2, <1>3, FinishedOK
<1>5. PICK r : request' = [request EXCEPT ![t] = r] /\ RequestOK(r, workflow)
  BY <1>1, QuietOK, GoOnOK DEF EndRequest
<1> QED BY <1>1, <1>4, <1>5, OutOfGraph

\* A request that leaves the graph, the workflow and the jobs alone.
LEMMA QuietlyKeeps ==
  ASSUME CaseInv, GraphInv', NEW t \in Tasks, UNCHANGED <<graphVars, workflow, jobs>>,
         request[t].pc # "graph", lock' \in Tasks \cup {"free"},
         NEW r, request' = [request EXCEPT ![t] = r], RequestOK(r, workflow)
  PROVE  CaseInv'
<1>1. RequestOK(r, workflow')
  OBVIOUS
<1>2. JobsOK(jobs')
  BY DEF CaseInv
<1> QED BY <1>1, <1>2, WorkflowStays, OutsideGraph

LEMMA LockedKeeps ==
  ASSUME CaseInv, GraphInv', NEW t \in Tasks, ResumeLocked(t) \/ CancelLocked(t)
  PROVE  CaseInv'
<1>1. /\ UNCHANGED <<graphVars, workflow, jobs>> /\ request[t].pc # "graph"
      /\ EndRequest(t) \/ GoOn(t, "resume") \/ GoOn(t, "cancel")
  BY DEF ResumeLocked, CancelLocked, Asks
<1>2. lock' \in Tasks \cup {"free"}
  BY DEF ResumeLocked, CancelLocked, CaseInv
<1>3. PICK r : request' = [request EXCEPT ![t] = r] /\ RequestOK(r, workflow)
  BY <1>1, QuietOK, GoOnOK DEF EndRequest
<1> QED BY <1>1, <1>2, <1>3, QuietlyKeeps

LEMMA RouteFinalKeeps ==
  ASSUME CaseInv, GraphInv', NEW t \in Tasks, RouteFinal(t)
  PROVE  CaseInv'
<1> DEFINE i == request[t].of
           r == [kind |-> "finalize", pc |-> "write", of |-> i, stage |-> "none"]
<1>1. request[t].kind = "decision" /\ request[t].pc = "route"
  BY DEF RouteFinal, Asks
<1>2. i \in 1..Len(workflow.decisions) /\ i \in Jobs \cup Nat
  BY <1>1 DEF CaseInv, RequestOK, Request
<1>3. workflow.decisions[i].action # "send_back"
  BY DEF RouteFinal, DecisionOf, Decisions
<1>4. workflow.state \in Decided /\ workflow.decision # "send_back"
  BY <1>2, <1>3 DEF CaseInv, WorkflowOK, Closed
<1>5. request' = [request EXCEPT ![t] = r]
  BY DEF RouteFinal, Ask
<1>6. r \in Request /\ r.kind = "finalize" /\ r.pc = "write"
  BY <1>2 DEF Request
<1> HIDE DEF r, i
<1>7. RequestOK(r, workflow)
  BY <1>4, <1>6 DEF RequestOK
<1>8. lock' \in Tasks \cup {"free"} /\ UNCHANGED <<graphVars, workflow, jobs>>
  BY DEF RouteFinal, CaseInv
<1> QED BY <1>1, <1>5, <1>7, <1>8, QuietlyKeeps

LEMMA RouteSendBackKeeps ==
  ASSUME CaseInv, GraphInv', NEW t \in Tasks, NEW stage \in Stages, RouteSendBack(t, stage)
  PROVE  CaseInv'
<1> DEFINE i == request[t].of
           r == [request[t] EXCEPT !.pc = "send_back", !.stage = stage]
<1>1. request[t].kind = "decision" /\ request[t].pc = "route"
  BY DEF RouteSendBack, Asks
<1>2. i \in 1..Len(workflow.decisions) /\ request[t] \in Request
  BY <1>1 DEF CaseInv, RequestOK
<1>3. WorkflowOK(workflow') /\ Grows(workflow, workflow')
  <2>1. workflow.decisions[i].action = "send_back"
    BY DEF RouteSendBack, DecisionOf, Decisions
  <2>2. CASE workflow.decisions[i].reopened
    BY <2>2, WorkflowStays DEF RouteSendBack, DecisionOf, Decisions
  <2>3. CASE ~workflow.decisions[i].reopened
    <3>1. workflow' = [workflow EXCEPT !.state = RestartState[stage], !.decision = "none",
                                       !.decisions[i].reopened = TRUE]
      BY <2>3 DEF RouteSendBack, DecisionOf, Decisions
    <3>2. WorkflowOK(workflow)
      BY DEF CaseInv
    <3> HIDE DEF i
    <3> QED BY <1>2, <2>1, <2>3, <3>1, <3>2, ReopenedOK
  <2> QED BY <2>2, <2>3
<1>4. request' = [request EXCEPT ![t] = r]
  BY DEF RouteSendBack
<1>5. r \in Request /\ r.kind = "decision" /\ r.of = i
  BY <1>1, <1>2 DEF Request
<1>6. i \in 1..Len(workflow'.decisions)
  BY <1>2, <1>3 DEF Grows, WorkflowOK, CaseInv
<1> HIDE DEF r, i
<1>7. RequestOK(r, workflow')
  BY <1>5, <1>6 DEF RequestOK
<1>8. UNCHANGED graphVars /\ JobsOK(jobs') /\ lock' \in Tasks \cup {"free"}
  BY DEF RouteSendBack, CaseInv
<1> QED BY <1>1, <1>3, <1>4, <1>7, <1>8, OutsideGraph

LEMMA WriteKeeps ==
  ASSUME CaseInv, GraphInv', NEW t \in Tasks,
         WriteBack(t) \/ WriteBackRefused(t) \/ WriteBackFails(t)
  PROVE  CaseInv'
<1>1. request[t].kind = "finalize" /\ request[t].pc = "write"
  BY DEF WriteBack, WriteBackRefused, WriteBackFails, Asks
<1>2. /\ UNCHANGED graphVars /\ JobsOK(jobs') /\ lock' \in Tasks \cup {"free"}
  BY DEF WriteBack, WriteBackRefused, WriteBackFails, CaseInv
<1>3. CASE GoOn(t, "retryable") /\ UNCHANGED workflow
  <2>1. PICK r : request' = [request EXCEPT ![t] = r] /\ RequestOK(r, workflow)
    BY <1>3, GoOnOK
  <2>2. RequestOK(r, workflow')
    BY <1>3, <2>1
  <2>3. WorkflowOK(workflow') /\ Grows(workflow, workflow')
    BY <1>3, WorkflowStays
  <2> QED BY <1>1, <1>2, <2>1, <2>2, <2>3, OutsideGraph
<1>4. ASSUME NEW pc \in {"complete", "retryable"}, GoOn(t, pc),
             workflow' = [workflow EXCEPT !.state = "PRECEDENT_WRITTEN"]
      PROVE  CaseInv'
  <2> DEFINE r == [request[t] EXCEPT !.pc = pc]
  <2>1. workflow.state \in Decided /\ workflow.decision # "send_back" /\ request[t] \in Request
    BY <1>1 DEF CaseInv, RequestOK
  <2>2. WorkflowOK(workflow)
    BY DEF CaseInv
  <2>3. WorkflowOK(workflow') /\ Grows(workflow, workflow')
    BY <1>4, <2>1, <2>2, WrittenOK
  <2>4. workflow'.state = "PRECEDENT_WRITTEN" /\ workflow'.decision # "send_back"
    BY <1>4, <2>1, <2>2 DEF WorkflowOK
  <2>5. request' = [request EXCEPT ![t] = r]
    BY <1>4 DEF GoOn
  <2>6. r \in Request /\ r.kind = "finalize"
    BY <1>1, <2>1 DEF Request
  <2> HIDE DEF r
  <2>7. RequestOK(r, workflow')
    BY <2>4, <2>6 DEF RequestOK, Decided
  <2> QED BY <1>1, <1>2, <2>3, <2>5, <2>7, OutsideGraph
<1> QED BY <1>3, <1>4 DEF WriteBack, WriteBackRefused, WriteBackFails

LEMMA StepKeeps ==
  ASSUME CaseInv, GraphInv', NEW t \in Tasks, Step(t)
  PROVE  CaseInv'
<1>1. CASE \/ Proceed(t) /\ UNCHANGED caseVars
           \/ WorkerSucceeds(t)
           \/ \E status \in Resumable \cup {"failed_terminal"} : WorkerFails(t, status)
           \/ MarkBreaks(t)
  BY <1>1, WorkerKeeps
<1>2. CASE BeginStart(t) \/ BeginResume(t) \/ BeginCancel(t) \/ RouteAmbiguous(t)
             \/ BeginSendBack(t) \/ BeginComplete(t) \/ BeginRetryable(t)
  BY <1>2, BeginKeeps
<1>3. CASE EndRun(t) \/ EndCancel(t) \/ CompletionFailed(t) \/ EndDecision(t)
  BY <1>3, EndKeeps
<1>4. CASE ResumeLocked(t) \/ CancelLocked(t)
  BY <1>4, LockedKeeps
<1>5. CASE RouteFinal(t)
  BY <1>5, RouteFinalKeeps
<1>6. CASE \E stage \in Stages : RouteSendBack(t, stage)
  BY <1>6, RouteSendBackKeeps
<1>7. CASE WriteBack(t) \/ WriteBackRefused(t) \/ WriteBackFails(t)
  BY <1>7, WriteKeeps
<1> QED BY <1>1, <1>2, <1>3, <1>4, <1>5, <1>6, <1>7 DEF Step

\* A request that arrives and changes nothing but itself and its job's status.
LEMMA AskKeeps ==
  ASSUME CaseInv, GraphInv', NEW t \in Tasks, UNCHANGED <<graphVars, workflow, lock>>,
         request[t] = Quiet, JobsOK(jobs'), NEW of \in Jobs \cup Nat, NEW kind, NEW pc,
         Ask(t, kind, pc, of),
         \/ <<kind, pc>> \in {<<"intake", "start">>, <<"resume", "lock">>, <<"cancel", "lock">>}
         \/ <<kind, pc>> = <<"decision", "route">> /\ of \in 1..Len(workflow.decisions)
         \/ /\ <<kind, pc>> = <<"finalize", "write">>
            /\ workflow.state \in Decided
            /\ workflow.decision # "send_back"
  PROVE  CaseInv'
<1> DEFINE r == [kind |-> kind, pc |-> pc, of |-> of, stage |-> "none"]
<1>1. request' = [request EXCEPT ![t] = r]
  BY DEF Ask
<1>2. r \in Request /\ r.kind = kind /\ r.pc = pc /\ r.of = of
  BY DEF Request
<1> HIDE DEF r
<1>3. RequestOK(r, workflow')
  BY <1>2 DEF RequestOK
<1>4. request[t].pc # "graph" /\ lock' \in Tasks \cup {"free"}
  BY DEF Quiet, CaseInv
<1> QED BY <1>1, <1>3, <1>4, WorkflowStays, OutsideGraph

LEMMA DecideKeeps ==
  ASSUME CaseInv, GraphInv', NEW t \in Tasks, NEW action \in DecisionActions,
         NEW stage \in RestartStages \cup {"none"}, NEW accepted \in BOOLEAN,
         Decide(t, action, stage, accepted)
  PROVE  CaseInv'
<1> DEFINE n == Len(workflow.decisions) + 1
           r == [kind |-> "decision", pc |-> "route", of |-> n, stage |-> "none"]
<1>1. WorkflowOK(workflow)
  BY DEF CaseInv
<1>2. /\ workflow.state = "AWAITING_HUMAN"
      /\ workflow' = [workflow EXCEPT !.state = "HUMAN_DECIDED", !.decision = action,
           !.accepted = accepted, !.decisions = Append(workflow.decisions,
                                [action |-> action, stage |-> stage, reopened |-> FALSE])]
  BY DEF Decide
<1>3. WorkflowOK(workflow') /\ Grows(workflow, workflow') /\ Len(workflow'.decisions) = n
  <2> DEFINE d == [action |-> action, stage |-> stage, reopened |-> FALSE]
             ds == Append(workflow.decisions, d)
  <2> HIDE DEF n, r
  <2>1. d \in Decision
    BY DEF Decision
  <2> HIDE DEF d
  <2>2. ds \in Seq(Decision)
    BY <1>1, <2>1 DEF WorkflowOK
  <2> HIDE DEF ds
  <2>3. workflow' = [workflow EXCEPT !.state = "HUMAN_DECIDED", !.decision = action,
                                     !.accepted = accepted, !.decisions = ds]
    BY <1>2 DEF d, ds
  <2>4. /\ workflow'.state = "HUMAN_DECIDED" /\ workflow'.decision = action
        /\ workflow'.decisions = ds
    BY <1>1, <2>3 DEF WorkflowOK
  <2>5. workflow' \in [state: States, decision: DecisionActions \cup {"none"},
                        accepted: BOOLEAN, recorded: SUBSET Targets, decisions: Seq(Decision)]
    <3>1. "HUMAN_DECIDED" \in States
      BY LadderIsOneToOne DEF States, Ladder
    <3> QED BY <1>1, <2>2, <2>3, <3>1 DEF WorkflowOK
  <2>6. workflow'.decisions = Append(workflow.decisions,
                                     [action |-> action, stage |-> stage, reopened |-> FALSE])
    BY <2>4 DEF d, ds
  <2> QED BY <1>1, <1>2, <2>4, <2>5, <2>6, DecidedOK DEF n
<1>4. request' = [request EXCEPT ![t] = r]
  BY DEF Decide, Ask, Decisions
<1>5. n \in Nat /\ n >= 1
  BY <1>1 DEF WorkflowOK
<1> HIDE DEF n
<1>6. r \in Request /\ r.kind = "decision" /\ r.of = n
  BY <1>5 DEF Request
<1> HIDE DEF r
<1>7. RequestOK(r, workflow')
  BY <1>3, <1>5, <1>6 DEF RequestOK
<1>8. /\ UNCHANGED graphVars /\ request[t].pc # "graph"
      /\ JobsOK(jobs') /\ lock' \in Tasks \cup {"free"}
  BY DEF Decide, Quiet, CaseInv
<1> QED BY <1>3, <1>4, <1>7, <1>8, OutsideGraph

LEMMA ArriveKeeps ==
  ASSUME CaseInv, GraphInv', NEW t \in Tasks, Arrive(t)
  PROVE  CaseInv'
<1>1. JobsOK(jobs)
  BY DEF CaseInv
<1>2. ASSUME NEW j \in Jobs, CreateIntakeJob(t, j)
      PROVE  CaseInv'
  <2>1. JobsOK(jobs')
    BY <1>1, <1>2, FinishedOK DEF CreateIntakeJob, JobStatus
  <2> QED BY <1>2, <2>1, AskKeeps DEF CreateIntakeJob
<1>3. ASSUME NEW j \in Jobs, ResumeRequest(t, j) \/ CancelRequest(t, j)
      PROVE  CaseInv'
  <2>1. UNCHANGED <<graphVars, workflow, lock>> /\ request[t] = Quiet /\ JobsOK(jobs')
    BY <1>1, <1>3 DEF ResumeRequest, CancelRequest
  <2>2. \/ Ask(t, "resume", "lock", j) \/ Ask(t, "cancel", "lock", j)
        \/ /\ Ask(t, "finalize", "write", j)
           /\ workflow.state \in Decided /\ workflow.decision # "send_back"
    BY <1>3 DEF ResumeRequest, CancelRequest, AwaitsFinalizing, Decided
  <2> QED BY <2>1, <2>2, AskKeeps
<1>4. ASSUME NEW d \in 1..MaxDecisions, DecideAgain(t, d)
      PROVE  CaseInv'
  <2>1. d \in 1..Len(workflow.decisions) /\ d \in Jobs \cup Nat
    BY <1>4 DEF DecideAgain, Decisions
  <2> QED BY <1>1, <1>4, <2>1, AskKeeps DEF DecideAgain
<1>5. ASSUME NEW action \in DecisionActions, NEW stage \in RestartStages \cup {"none"},
             NEW accepted \in BOOLEAN, Decide(t, action, stage, accepted)
      PROVE  CaseInv'
  BY <1>5, DecideKeeps
<1>6. Selections \subseteq BOOLEAN
  BY AgentAssumption
<1> QED BY <1>2, <1>3, <1>4, <1>5, <1>6 DEF Arrive

LEMMA RestartKeeps ==
  ASSUME CaseInv, GraphInv', Restart
  PROVE  CaseInv'
<1>1. /\ workflow' = workflow /\ checkpoint' = checkpoint
      /\ task' = [t \in Tasks |-> Idle]
      /\ request' = [t \in Tasks |-> Quiet]
      /\ lock' = "free"
  BY DEF Restart, Stop
<1>2. \A t \in Tasks : /\ RequestOK(request'[t], workflow')
                       /\ Settles(task'[t], workflow')
                       /\ Busy(task'[t], request'[t])
  <2>1. Settles(Idle, workflow') /\ Busy(Idle, Quiet)
    BY DEF Settles, Busy, Idle
  <2> QED BY <1>1, <2>1, QuietOK
<1>3. JobsOK(jobs')
  BY DEF Restart, CaseInv, JobsOK, JobStatus
<1> QED BY <1>1, <1>2, <1>3 DEF CaseInv, Remembered

LEMMA CaseInvInit == Init => CaseInv
<1> SUFFICES ASSUME Init PROVE CaseInv
  OBVIOUS
<1>1. GraphInv
  BY GraphInvInit DEF Init
<1>2. WorkflowOK(workflow)
  <2>1. "ABSENT" \in States
    BY LadderIsOneToOne DEF States, Ladder
  <2>2. workflow.state = "ABSENT" /\ workflow.decisions = <<>>
    BY DEF Init
  <2>3. workflow \in [state: States, decision: DecisionActions \cup {"none"}, accepted: BOOLEAN,
                      recorded: SUBSET Targets, decisions: Seq(Decision)]
    BY <2>1 DEF Init
  <2> QED BY <2>2, <2>3 DEF WorkflowOK
<1>3. \A t \in Tasks : RequestOK(request[t], workflow) /\ Settles(task[t], workflow)
                         /\ Busy(task[t], request[t])
  <2>1. \A t \in Tasks : request[t] = Quiet /\ task[t] = Idle
    BY DEF Init, GraphInit
  <2>2. Settles(Idle, workflow) /\ Busy(Idle, Quiet)
    BY DEF Settles, Busy, Idle
  <2> QED BY <2>1, <2>2, QuietOK
<1>4. Remembered(checkpoint, workflow)
  BY DEF Init, GraphInit, NoState, Remembered
<1>5. JobsOK(jobs)
  BY DEF Init, JobsOK, JobStatus
<1>6. request = [t \in Tasks |-> request[t]] /\ lock \in Tasks \cup {"free"}
  BY DEF Init
<1> QED BY <1>1, <1>2, <1>3, <1>4, <1>5, <1>6 DEF CaseInv

LEMMA CaseInvNext == CaseInv /\ [Next]_vars => CaseInv'
<1> SUFFICES ASSUME CaseInv, [Next]_vars PROVE CaseInv'
  OBVIOUS
<1>1. GraphInv'
  BY NextOfGraph, GraphInvNext DEF CaseInv
<1>2. ASSUME NEW t \in Tasks, Arrive(t) \/ Step(t)
      PROVE  CaseInv'
  BY <1>1, <1>2, ArriveKeeps, StepKeeps
<1>3. CASE Restart
  BY <1>1, <1>3, RestartKeeps
<1>4. CASE UNCHANGED vars
  <2>1. UNCHANGED <<checkpoint, task, workflow, jobs, request, lock>>
    BY <1>4 DEF vars, graphVars, caseVars
  <2> QED BY <1>1, <2>1 DEF CaseInv
<1> QED BY <1>2, <1>3, <1>4 DEF Next

\* CaseInv holds in every reachable state.
THEOREM CaseInvariant == Spec => []CaseInv
  BY CaseInvInit, CaseInvNext, PTL DEF Spec

\* Every variable of an application has its type, and a task is inside the graph
\* only for a request that waits for it.
THEOREM AgentTypeCorrect == Spec => []TypeOK
  BY CaseInvariant, CaseInvImplies, PTL

\* A thread is completed only after its decision's precedent is written, for any
\* numbers of tasks, jobs, decisions, restarts, cancels and failures.
THEOREM CompletedCorrect == Spec => []CompletedOnlyAfterPrecedent
  BY CaseInvariant, CaseInvImplies, PTL

=============================================================================
