----------------------------- MODULE Retention -----------------------------
(***************************************************************************)
(* The hourly maintenance of the agent's memory: AgentMaintenance.run_once *)
(* flags stale threads, lists the terminal ones whose retention is over,   *)
(* and takes each through _retention_cleanup (FinDocIQ's documents, the    *)
(* workspace, the outbox row and the tombstone), its checkpoint and its    *)
(* lifecycle row.  Meanwhile calls reopen, run and end threads, statements *)
(* fail, and the process restarts, perhaps under another policy.           *)
(***************************************************************************)
EXTENDS Naturals, FiniteSets

CONSTANTS
  Apps,         \* application_id, which is also the thread's id
  Policies,     \* hashes of the execution policies the process starts under
  FirstPolicy,  \* the one it starts under first
  NoApp,        \* null
  MaxRestarts,  \* bound: restarts of the process
  MaxCalls      \* bound: calls that reopen, run or end each thread

ASSUME RetentionAssumption ==
  /\ NoApp \notin Apps /\ FirstPolicy \in Policies
  /\ MaxRestarts \in Nat /\ MaxCalls \in [Apps -> Nat]

VARIABLES
  row,       \* langgraph.memory_threads: status, age and is_stale
  cp,        \* the checkpoint's status
  files,     \* there is a workspace folder
  docs,      \* FinDocIQ holds documents
  outbox,    \* guardrail_outbox: status by application and policy
  tomb,      \* there is a row of retention_tombstones
  call,      \* the application's call under way, one at a time
  keeper,    \* the maintenance task
  policy,    \* the policy_hash of the running process
  restarts, calls,
  met        \* history: a call overlapped the pass that had listed its application

stores == <<row, cp, files, docs>>
records == <<outbox, tomb>>
vars == <<row, cp, files, docs, outbox, tomb, call, keeper, policy, restarts, calls, met>>

(***************************************************************************)
(* Rows.  "paused" is waiting_for_review, failed_retryable and             *)
(* needs_attention, from which a send-back or a resume runs a thread again.*)
(***************************************************************************)
Status == {"running", "paused", "terminal"}
NoRow == [status |-> "none", old |-> FALSE, stale |-> FALSE]
NoCheckpoint == "none"

HasRow(a) == row[a] # NoRow

NoCall == [pc |-> "none", to |-> "running"]
UnderWay(a) == call[a] # NoCall

\* History: the pass that has listed the application is not over, and a call is under way.
Overlap(a) == (a \in keeper.todo \/ keeper.app = a) /\ UnderWay(a)
Recorded == met' = [a \in Apps |-> met[a] \/ Overlap(a)']

\* Fault: is_stale outlives the change.
StatusKeepingStale(a, s) ==
  row' = [row EXCEPT ![a] = [@ EXCEPT !.status = s, !.old = FALSE]]

\* set_status starts the age anew: 24 hours to is_stale, or 30 days to the end.
SetStatus(a, s) == row' = [row EXCEPT ![a] = [status |-> s, old |-> FALSE, stale |-> FALSE]]

\* Fault: only what flag_stale has flagged.
ExpiredStale == {a \in Apps : row[a].status = "terminal" /\ row[a].old /\ row[a].stale}

Expired == {a \in Apps : row[a].status = "terminal" /\ row[a].old}

\* stale_after or the retention passes.
Age(a) ==
  /\ HasRow(a) /\ ~row[a].old
  /\ row' = [row EXCEPT ![a].old = TRUE]
  /\ UNCHANGED <<cp, files, docs, records, call, keeper, policy, restarts, calls>>
  /\ Recorded

(***************************************************************************)
(* Calls.  state() finds the checkpoint, the checkpoint is updated, and    *)
(* the row is set last, each on its own.                                   *)
(***************************************************************************)
CallGoes(a, pc, to) == call' = [call EXCEPT ![a] = [pc |-> pc, to |-> to]]

Begins(a) ==
  /\ calls[a] < MaxCalls[a] /\ ~UnderWay(a) /\ cp[a] # NoCheckpoint
  /\ calls' = [calls EXCEPT ![a] = @ + 1]
KeepsRest == UNCHANGED <<records, keeper, policy, restarts>> /\ Recorded

\* mark_terminal, complete_after_writeback, mark_retryable, mark_needs_attention,
\* whatever the thread's status; on a completed one the second may do nothing.
Mark(a) ==
  /\ Begins(a)
  /\ \E s \in {"terminal", "paused"} : CallGoes(a, "update", s)
  /\ UNCHANGED stores /\ KeepsRest

\* resume and rewind do.
Reopen(a) ==
  /\ Begins(a) /\ cp[a] = "paused"
  /\ \/ CallGoes(a, "invoke", "running")
     \/ CallGoes(a, "update", "running")
  /\ UNCHANGED stores /\ KeepsRest

\* aupdate_state writes a checkpoint, were there one or not.
Update(a) ==
  /\ call[a].pc = "update"
  /\ cp' = [cp EXCEPT ![a] = call[a].to]
  /\ CallGoes(a, "status", call[a].to)
  /\ UNCHANGED <<row, files, docs, calls>> /\ KeepsRest

\* Without a row, set_status raises.
WriteStatus(a) ==
  /\ call[a].pc = "status"
  /\ IF HasRow(a) THEN SetStatus(a, call[a].to) ELSE UNCHANGED row
  /\ IF HasRow(a) /\ call[a].to = "running"
     THEN CallGoes(a, "invoke", "running") ELSE call' = [call EXCEPT ![a] = NoCall]
  /\ UNCHANGED <<cp, files, docs, calls>> /\ KeepsRest

\* ainvoke writes its input; of a thread that is gone no state comes of it.
Invoke(a) ==
  /\ call[a].pc = "invoke"
  /\ cp' = [cp EXCEPT ![a] = "running"]
  /\ IF cp[a] = NoCheckpoint THEN call' = [call EXCEPT ![a] = NoCall]
     ELSE CallGoes(a, "load", "running")
  /\ UNCHANGED <<row, files, docs, calls>> /\ KeepsRest

\* A worker loads what it works on, and fails where the folder is gone.
Load(a) ==
  /\ call[a].pc = "load"
  /\ IF files[a] THEN CallGoes(a, "work", "running") ELSE CallGoes(a, "update", "paused")
  /\ UNCHANGED <<stores, calls>> /\ KeepsRest

\* It may send the documents to FinDocIQ again, and saves its artifact in a folder
\* made where there is none.
Save(a) ==
  /\ call[a].pc = "work"
  /\ files' = [files EXCEPT ![a] = TRUE]
  /\ \E sent \in BOOLEAN : docs' = [docs EXCEPT ![a] = @ \/ sent]
  /\ \E s \in {"terminal", "paused"} : CallGoes(a, "update", s)
  /\ UNCHANGED <<row, cp, calls>> /\ KeepsRest

Call(a) ==
  Mark(a) \/ Reopen(a) \/ Update(a) \/ WriteStatus(a) \/ Invoke(a) \/ Load(a) \/ Save(a)

(***************************************************************************)
(* The maintenance task: one pass, then asyncio.sleep.                     *)
(***************************************************************************)
Idle == [pc |-> "idle", todo |-> {}, app |-> NoApp]
Dead == [Idle EXCEPT !.pc = "dead"]
KeeperAt(pc) == keeper.pc = pc
KeeperGoes(pc) == keeper' = [keeper EXCEPT !.pc = pc]
App == keeper.app
KeepsCalls == UNCHANGED <<call, policy, restarts, calls>> /\ Recorded

FlagStale ==
  /\ KeeperAt("idle")
  /\ row' = [a \in Apps |->
               IF row[a].status \in {"running", "paused"} /\ row[a].old
               THEN [row[a] EXCEPT !.stale = TRUE] ELSE row[a]]
  /\ KeeperGoes("list")
  /\ UNCHANGED <<cp, files, docs, records>> /\ KeepsCalls

ListExpired ==
  /\ KeeperAt("list")
  /\ keeper' = [pc |-> "next", todo |-> Expired, app |-> NoApp]
  /\ UNCHANGED <<stores, records>> /\ KeepsCalls

NextExpired ==
  /\ KeeperAt("next")
  /\ IF keeper.todo = {} THEN keeper' = Idle
     ELSE \E a \in keeper.todo :
            keeper' = [pc |-> "outbox", todo |-> keeper.todo \ {a}, app |-> a]
  /\ UNCHANGED <<stores, records>> /\ KeepsCalls

\* Fault: a row of any status is taken for a completed one.
AnyRow(status) == status # "none"

Completed(status) == status = "completed"

\* The command's row is inserted, or found: its id and payload are the policy's and
\* the application's, so what is found is the same command.
Outbox ==
  /\ KeeperAt("outbox")
  /\ outbox' = [outbox EXCEPT ![App][policy] = IF @ = "none" THEN "pending" ELSE @]
  /\ KeeperGoes(IF Completed(outbox[App][policy]) THEN "folder" ELSE "documents")
  /\ UNCHANGED <<stores, tomb>> /\ KeepsCalls

\* retention_delete, done once for all of a command's deliveries, or failing: before
\* it does anything, after it, or in its answer.
DeleteDocuments ==
  /\ KeeperAt("documents")
  /\ \/ docs' = [docs EXCEPT ![App] = FALSE] /\ KeeperGoes("files")
     \/ docs' \in {docs, [docs EXCEPT ![App] = FALSE]} /\ KeeperGoes("failed")
  /\ UNCHANGED <<row, cp, files, records>> /\ KeepsCalls

\* Fault: a folder that cannot be removed is passed over.
DeleteFilesOrPass ==
  /\ KeeperAt("files")
  /\ \/ files' = [files EXCEPT ![App] = FALSE] /\ KeeperGoes("complete")
     \/ UNCHANGED files /\ KeeperGoes("complete")
  /\ UNCHANGED <<row, cp, docs, records>> /\ KeepsCalls

DeleteFiles ==
  /\ KeeperAt("files")
  /\ \/ files' = [files EXCEPT ![App] = FALSE] /\ KeeperGoes("complete")
     \/ UNCHANGED files /\ KeeperGoes("failed")
  /\ UNCHANGED <<row, cp, docs, records>> /\ KeepsCalls

\* The failure is recorded and raised again, out of the loop and its task.
RecordFailed ==
  /\ KeeperAt("failed")
  /\ outbox' = [outbox EXCEPT ![App][policy] = "failed"]
  /\ keeper' = Dead
  /\ UNCHANGED <<stores, tomb>> /\ KeepsCalls

\* One transaction: the row is completed, and the tombstone is there.
Complete ==
  /\ KeeperAt("complete")
  /\ outbox' = [outbox EXCEPT ![App][policy] = "completed"]
  /\ tomb' = [tomb EXCEPT ![App] = TRUE]
  /\ KeeperGoes("checkpoint")
  /\ UNCHANGED stores /\ KeepsCalls

\* A completed command found again leaves only the folder to remove.
DeleteFolder ==
  /\ KeeperAt("folder")
  /\ files' = [files EXCEPT ![App] = FALSE]
  /\ KeeperGoes("checkpoint")
  /\ UNCHANGED <<row, cp, docs, records>> /\ KeepsCalls

DeleteThread ==
  /\ KeeperAt("checkpoint")
  /\ cp' = [cp EXCEPT ![App] = NoCheckpoint]
  /\ KeeperGoes("row")
  /\ UNCHANGED <<row, files, docs, records>> /\ KeepsCalls

\* The row goes whatever its status is by now.
DeleteRow ==
  /\ KeeperAt("row")
  /\ row' = [row EXCEPT ![App] = NoRow]
  /\ keeper' = [keeper EXCEPT !.pc = "next", !.app = NoApp]
  /\ UNCHANGED <<cp, files, docs, records>> /\ KeepsCalls

\* A statement or a removal fails where nothing catches it, or is not answered: the
\* task ends, and no one starts it again before the process restarts.
LoopDies ==
  /\ keeper.pc \notin {"idle", "dead"}
  /\ keeper' = Dead
  /\ UNCHANGED <<stores, records>> /\ KeepsCalls

Keeper ==
  \/ FlagStale \/ ListExpired \/ NextExpired \/ Outbox \/ DeleteDocuments \/ DeleteFiles
  \/ RecordFailed \/ Complete \/ DeleteFolder \/ DeleteThread \/ DeleteRow \/ LoopDies

Restart ==
  /\ restarts < MaxRestarts
  /\ restarts' = restarts + 1
  /\ policy' \in Policies
  /\ call' = [a \in Apps |-> NoCall]
  /\ keeper' = Idle
  /\ UNCHANGED <<stores, records, calls>>
  /\ Recorded

(***************************************************************************)
(* The specification.                                                      *)
(***************************************************************************)
Init ==
  /\ row = [a \in Apps |-> [status |-> "running", old |-> FALSE, stale |-> FALSE]]
  /\ cp = [a \in Apps |-> "running"]
  /\ files = [a \in Apps |-> TRUE] /\ docs = [a \in Apps |-> TRUE]
  /\ outbox = [a \in Apps |-> [p \in Policies |-> "none"]]
  /\ tomb = [a \in Apps |-> FALSE]
  /\ call = [a \in Apps |-> [pc |-> "load", to |-> "running"]]
  /\ keeper = Idle
  /\ policy = FirstPolicy
  /\ restarts = 0 /\ calls = [a \in Apps |-> 0]
  /\ met = [a \in Apps |-> FALSE]

Next == (\E a \in Apps : Age(a) \/ Call(a)) \/ Keeper \/ Restart

\* The task runs on; an hour passes.  Calls and restarts come as they come.
Spec == Init /\ [][Next]_vars
FairSpec == Spec /\ WF_vars(Keeper)

(***************************************************************************)
(* Properties.                                                             *)
(***************************************************************************)
Places == {"idle", "list", "next", "outbox", "documents", "files", "failed", "complete",
           "folder", "checkpoint", "row", "dead"}

\* Every variable has its type; is_stale is never true of a terminal thread or of one
\* whose status changed since, and the task has an application in hand in its steps.
RowTypes == [status: Status \cup {"none"}, old: BOOLEAN, stale: BOOLEAN]
TypeOK ==
  /\ row \in [Apps -> RowTypes]
  /\ cp \in [Apps -> Status \cup {NoCheckpoint}]
  /\ files \in [Apps -> BOOLEAN] /\ docs \in [Apps -> BOOLEAN]
  /\ outbox \in [Apps -> [Policies -> {"none", "pending", "failed", "completed"}]]
  /\ tomb \in [Apps -> BOOLEAN] /\ met \in [Apps -> BOOLEAN]
  /\ call \in [Apps -> [pc: {"none", "update", "status", "invoke", "load", "work"}, to: Status]]
  /\ keeper \in [pc: Places, todo: SUBSET Apps, app: Apps \cup {NoApp}]
  /\ policy \in Policies /\ restarts \in 0..MaxRestarts /\ calls \in [Apps -> Nat]
  /\ \A a \in Apps : calls[a] <= MaxCalls[a]
  /\ \A a \in Apps : row[a].stale => row[a].status \in {"running", "paused"} /\ row[a].old
  /\ keeper.pc \in Places \ {"idle", "list", "next", "dead"} => App \in Apps

\* A tombstone tells the truth, now and after any restart, reopening or second
\* deletion: FinDocIQ's documents and the folder are gone, unless a call of the
\* application overlapped the pass that deleted it.
TombstoneTrue == \A a \in Apps : tomb[a] /\ ~met[a] => ~docs[a] /\ ~files[a]

\* A row goes last, under a tombstone, with its retention over and no checkpoint left,
\* unless a call of the application overlapped the pass.
Over(a) == row[a].status = "terminal" /\ row[a].old
OnlyExpiredForgotten ==
  [][\A a \in Apps : HasRow(a) /\ ~HasRow(a)' =>
       /\ tomb[a] /\ keeper.app = a
       /\ met[a] \/ (Over(a) /\ cp[a] = NoCheckpoint)]_vars

\* A thread whose retention is over is forgotten, whatever earlier passes, policies
\* and restarts left of it, unless it is reopened or a failure ends the task.
ExpiredForgotten ==
  \A a \in Apps : Over(a) ~> (~Over(a) \/ KeeperAt("dead"))
=============================================================================
