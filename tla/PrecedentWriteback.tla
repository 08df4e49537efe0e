------------------------- MODULE PrecedentWriteback -------------------------
(***************************************************************************)
(* One decided case on its way into precedent memory: PrecedentWriteback-  *)
(* Service.write over the workflow, guardrail_outbox and the Qdrant point, *)
(* beside the reviewers' lifecycle route, which changes the same point.    *)
(*                                                                         *)
(* The case is decided and not sent back.  Its payload is a function of    *)
(* the decision, which is final, and of the guardrail policy the process   *)
(* was started with (policy_hash, valid_until): a policy names a payload.  *)
(* Whether the case's advisory bundle and the decision's funder pass the   *)
(* checks before the outbox is fixed with the decision, too: "accepted".   *)
(***************************************************************************)
EXTENDS Naturals

CONSTANTS
  Writers,       \* calls of write that may be under way at once
  Commands,      \* ids of write commands
  FinalizeId,    \* the one _finalize_human_decision derives from the case
  Reviewers,     \* calls of the lifecycle route under way at once
  ChangeIds,     \* ids of lifecycle commands
  ChangeOf,      \* what each of them asks: its expected status and its target
  Policies,      \* guardrail policies a process may be started with
  None,          \* no payload, no receipt, no command
  MaxFailures,   \* bound: how many calls to Qdrant or Postgres fail
  MaxStops       \* bound: how often the process stops

LifecycleStatus == {"active", "revoked", "superseded"}
Retired == {"revoked", "superseded"}

ASSUME WritebackAssumption ==
  /\ FinalizeId \in Commands
  /\ None \notin Commands \cup Policies \cup ChangeIds
  /\ ChangeOf \in [ChangeIds -> [expected: LifecycleStatus, target: Retired]]
  /\ MaxFailures \in Nat /\ MaxStops \in Nat

VARIABLES
  policy,     \* the policy of the running process
  workflow,   \* the case's state, whether write accepts its decision, the command
              \* that wrote it and its receipt
  outbox,     \* guardrail_outbox: each command's row
  point,      \* the case's point in Qdrant
  row,        \* precedent_lifecycle: the case's one row
  writer,     \* each call of write: where it is, its command and its payload
  change,     \* each call of the lifecycle route: where it is, its command
  spent       \* how much of each bound is used up

storeVars == <<workflow, outbox, point, row>>
vars == <<policy, storeVars, writer, change, spent>>

NoRow == [status |-> "none", payload |-> None, receipt |-> None]
IdleWriter == [pc |-> "idle", command |-> None, payload |-> None]
IdleChange == [pc |-> "idle", command |-> None]

Written == workflow.state = "PRECEDENT_WRITTEN"
WriterAt(w, pc) == writer[w].pc = pc
WriterGoes(w, pc) == writer' = [writer EXCEPT ![w].pc = pc]
WriterEnds(w) == writer' = [writer EXCEPT ![w] = IdleWriter]
ChangeAt(r, pc) == change[r].pc = pc
ChangeGoes(r, pc) == change' = [change EXCEPT ![r].pc = pc]
ChangeEnds(r) == change' = [change EXCEPT ![r] = IdleChange]
Asked(r) == ChangeOf[change[r].command]
Fails == spent.failures < MaxFailures /\ spent' = [spent EXCEPT !.failures = @ + 1]

(***************************************************************************)
(* PrecedentWritebackService.write.                                        *)
(***************************************************************************)
\* Fault: a case that is already written is written again.
BeginWhateverState(w, c) ==
  /\ WriterAt(w, "idle")
  /\ workflow.accepted
  /\ writer' = [writer EXCEPT ![w] = [pc |-> "outbox", command |-> c, payload |-> policy]]
  /\ UNCHANGED <<policy, storeVars, change, spent>>

\* Fault: only the command that wrote the case is stopped.
BeginUnlessSame(w, c) ==
  /\ WriterAt(w, "idle")
  /\ workflow.accepted
  /\ workflow.command # c
  /\ writer' = [writer EXCEPT ![w] = [pc |-> "outbox", command |-> c, payload |-> policy]]
  /\ UNCHANGED <<policy, storeVars, change, spent>>

\* The case is read and its payload built.  Once it is written, a call only
\* replays or refuses its command and reads the point: it changes nothing.  Nor
\* does a call that refuses the decision: there is no bundle, it is not this
\* application's, or the funder is absent from it, or excluded by it and not
\* overridden by the reviewer.
Begin(w, c) ==
  /\ WriterAt(w, "idle")
  /\ ~Written
  /\ workflow.accepted
  /\ writer' = [writer EXCEPT ![w] = [pc |-> "outbox", command |-> c, payload |-> policy]]
  /\ UNCHANGED <<policy, storeVars, change, spent>>

\* Fault: a command that has a row is refused, its own retry included.
OutboxBeginOnce(w) ==
  LET c == writer[w].command IN
  /\ WriterAt(w, "outbox")
  /\ IF outbox[c] = NoRow
     THEN /\ outbox' = [outbox EXCEPT ![c].status = "pending", ![c].payload = writer[w].payload]
          /\ WriterGoes(w, "upsert")
     ELSE UNCHANGED outbox /\ WriterEnds(w)
  /\ UNCHANGED <<policy, workflow, point, row, change, spent>>

\* Insert the command's row or find it.  A row with another payload is a
\* conflict; one with this payload keeps its status.
OutboxBegin(w) ==
  LET c == writer[w].command IN
  /\ WriterAt(w, "outbox")
  /\ IF outbox[c].payload \in {None, writer[w].payload}
     THEN /\ outbox' = IF outbox[c] # NoRow THEN outbox
                       ELSE [outbox EXCEPT ![c].status = "pending",
                                           ![c].payload = writer[w].payload]
          /\ WriterGoes(w, "upsert")
     ELSE UNCHANGED outbox /\ WriterEnds(w)
  /\ UNCHANGED <<policy, workflow, point, row, change, spent>>

\* Fault: the lock around write_one is forgotten.
UpsertUnlocked(w) ==
  /\ WriterAt(w, "upsert")
  /\ point' = [status |-> "active", payload |-> writer[w].payload]
  /\ WriterGoes(w, "confirm")
  /\ UNCHANGED <<policy, workflow, outbox, row, change, spent>>

\* seed, under the write lock: the whole payload, whose status is active.
LockFree == \A v \in Writers : ~WriterAt(v, "confirm")
Upsert(w) ==
  /\ WriterAt(w, "upsert")
  /\ LockFree
  /\ point' = [status |-> "active", payload |-> writer[w].payload]
  /\ WriterGoes(w, "confirm")
  /\ UNCHANGED <<policy, workflow, outbox, row, change, spent>>

\* Qdrant or the embedder raises, before or after the point has changed.
UpsertFails(w) ==
  /\ WriterAt(w, "upsert")
  /\ LockFree
  /\ Fails
  /\ \/ UNCHANGED point
     \/ point' = [status |-> "active", payload |-> writer[w].payload]
  /\ WriterGoes(w, "fail")
  /\ UNCHANGED <<policy, workflow, outbox, row, change>>

\* write_one reads the point back and compares all of it, its status included.
Confirm(w) ==
  /\ WriterAt(w, "confirm")
  /\ WriterGoes(w, IF point = [status |-> "active", payload |-> writer[w].payload]
                   THEN "complete" ELSE "fail")
  /\ UNCHANGED <<policy, storeVars, change, spent>>

ConfirmFails(w) ==
  /\ WriterAt(w, "confirm")
  /\ Fails
  /\ WriterGoes(w, "fail")
  /\ UNCHANGED <<policy, storeVars, change>>

\* Fault: the failure takes back a receipt another delivery has recorded.
OutboxFailClearing(w) ==
  /\ WriterAt(w, "fail")
  /\ outbox' = [outbox EXCEPT ![writer[w].command].status = "failed",
                              ![writer[w].command].receipt = None]
  /\ WriterEnds(w)
  /\ UNCHANGED <<policy, workflow, point, row, change, spent>>

\* Whatever the row's status: a late failure also marks a completed row failed.
OutboxFail(w) ==
  /\ WriterAt(w, "fail")
  /\ outbox' = [outbox EXCEPT ![writer[w].command].status = "failed"]
  /\ WriterEnds(w)
  /\ UNCHANGED <<policy, workflow, point, row, change, spent>>

OutboxComplete(w) ==
  /\ WriterAt(w, "complete")
  /\ outbox' = [outbox EXCEPT ![writer[w].command].status = "completed",
                              ![writer[w].command].receipt = writer[w].payload]
  /\ WriterGoes(w, "mark")
  /\ UNCHANGED <<policy, workflow, point, row, change, spent>>

\* mark_precedent_written: the transition of a decided case; otherwise the
\* command is replayed or, another command being recorded, refused.
Mark(w) ==
  /\ WriterAt(w, "mark")
  /\ workflow' = IF Written THEN workflow
                 ELSE [workflow EXCEPT !.state = "PRECEDENT_WRITTEN",
                                       !.command = writer[w].command,
                                       !.receipt = writer[w].payload]
  /\ WriterEnds(w)
  /\ UNCHANGED <<policy, outbox, point, row, change, spent>>

\* Postgres raises in one of the statements: the call ends where it is.
DatabaseFails(w) ==
  /\ writer[w].pc \in {"outbox", "fail", "complete", "mark"}
  /\ Fails
  /\ WriterEnds(w)
  /\ UNCHANGED <<policy, storeVars, change>>

(***************************************************************************)
(* POST /v1/precedents/{case_id}/lifecycle.                                *)
(***************************************************************************)
\* A recorded command is answered from its row.
AskChange(r, c) ==
  /\ ChangeAt(r, "idle")
  /\ row.command # c
  /\ change' = [change EXCEPT ![r] = [pc |-> "read", command |-> c]]
  /\ UNCHANGED <<policy, storeVars, writer, spent>>

\* set_lifecycle: not found, the target already, a status the reviewer did not
\* expect, or the change.
ReadStatus(r) ==
  /\ ChangeAt(r, "read")
  /\ CASE point.status = Asked(r).target -> ChangeGoes(r, "audit")
       [] point.status = Asked(r).expected /\ point.status # Asked(r).target ->
            ChangeGoes(r, "set")
       [] OTHER -> ChangeEnds(r)
  /\ UNCHANGED <<policy, storeVars, writer, spent>>

SetStatus(r) ==
  /\ ChangeAt(r, "set")
  /\ point' = [point EXCEPT !.status = Asked(r).target]
  /\ ChangeGoes(r, "verify")
  /\ UNCHANGED <<policy, workflow, outbox, row, writer, spent>>

SetStatusFails(r) ==
  /\ ChangeAt(r, "set")
  /\ Fails
  /\ \/ UNCHANGED point
     \/ point' = [point EXCEPT !.status = Asked(r).target]
  /\ ChangeEnds(r)
  /\ UNCHANGED <<policy, workflow, outbox, row, writer>>

VerifyStatus(r) ==
  /\ ChangeAt(r, "verify")
  /\ IF point.status = Asked(r).target THEN ChangeGoes(r, "audit") ELSE ChangeEnds(r)
  /\ UNCHANGED <<policy, storeVars, writer, spent>>

\* The row's primary key is the case: a second change of it cannot be inserted,
\* and the route fails although the point has changed.
AuditChange(r) ==
  /\ ChangeAt(r, "audit")
  /\ row' = IF row.command = None
            THEN [command |-> change[r].command, status |-> Asked(r).target]
            ELSE row
  /\ ChangeEnds(r)
  /\ UNCHANGED <<policy, workflow, outbox, point, writer, spent>>

(***************************************************************************)
(* The process stops and is started again, perhaps with another policy.    *)
(***************************************************************************)
Restart ==
  /\ spent.stops < MaxStops
  /\ spent' = [spent EXCEPT !.stops = @ + 1]
  /\ policy' \in Policies
  /\ writer' = [w \in Writers |-> IdleWriter]
  /\ change' = [r \in Reviewers |-> IdleChange]
  /\ UNCHANGED storeVars

Init ==
  /\ policy \in Policies
  /\ workflow \in [state: {"HUMAN_DECIDED"}, accepted: BOOLEAN,
                   command: {None}, receipt: {None}]
  /\ outbox = [c \in Commands |-> NoRow]
  /\ point = [status |-> "absent", payload |-> None]
  /\ row = [command |-> None, status |-> "none"]
  /\ writer = [w \in Writers |-> IdleWriter]
  /\ change = [r \in Reviewers |-> IdleChange]
  /\ spent = [failures |-> 0, stops |-> 0]

WriterStep(w) ==
  \/ OutboxBegin(w) \/ Upsert(w) \/ UpsertFails(w) \/ Confirm(w) \/ ConfirmFails(w)
  \/ OutboxFail(w) \/ OutboxComplete(w) \/ Mark(w) \/ DatabaseFails(w)

ChangeStep(r) ==
  ReadStatus(r) \/ SetStatus(r) \/ SetStatusFails(r) \/ VerifyStatus(r) \/ AuditChange(r)

Next ==
  \/ \E w \in Writers : (\E c \in Commands : Begin(w, c)) \/ WriterStep(w)
  \/ \E r \in Reviewers : (\E c \in ChangeIds : AskChange(r, c)) \/ ChangeStep(r)
  \/ Restart

Spec == Init /\ [][Next]_vars

\* A call that is under way goes on, and some client has the decision finalized
\* again as long as it is not written.  (Strong fairness, since other calls may
\* take the places of Writers, which is a bound of the model.)
RetryingSpec ==
  /\ Spec
  /\ \A w \in Writers : WF_vars(WriterStep(w))
  /\ SF_vars(\E w \in Writers : Begin(w, FinalizeId))

(***************************************************************************)
(* Properties.                                                             *)
(***************************************************************************)
Content == Policies \cup {None}

\* Every variable has its type, an outbox row in the status its table admits, and
\* the write lock has one holder.
TypeOK ==
  /\ policy \in Policies
  /\ workflow \in [state: {"HUMAN_DECIDED", "PRECEDENT_WRITTEN"}, accepted: BOOLEAN,
                   command: Commands \cup {None}, receipt: Content]
  /\ outbox \in [Commands -> [status: {"none", "pending", "completed", "failed"},
                              payload: Content, receipt: Content]]
  /\ point \in [status: LifecycleStatus \cup {"absent"}, payload: Content]
  /\ row \in [command: ChangeIds \cup {None}, status: Retired \cup {"none"}]
  /\ writer \in [Writers -> [pc: {"idle", "outbox", "upsert", "confirm", "fail",
                                  "complete", "mark"},
                             command: Commands \cup {None}, payload: Content]]
  /\ change \in [Reviewers -> [pc: {"idle", "read", "set", "verify", "audit"},
                               command: ChangeIds \cup {None}]]
  /\ spent \in [failures: 0..MaxFailures, stops: 0..MaxStops]
  /\ \A v, w \in Writers : WriterAt(v, "confirm") /\ WriterAt(w, "confirm") => v = w

\* A written case can be accounted for: the outbox row of the command that wrote
\* it holds the workflow's receipt, and the point still holds the payload of that
\* receipt, whatever other deliveries, failures and restarts came in between.
WrittenIsConfirmed ==
  Written =>
    /\ workflow.receipt # None
    /\ outbox[workflow.command].receipt = workflow.receipt
    /\ point.status # "absent"
    /\ point.payload = workflow.receipt

\* A written case whose precedent is retired, with no call left from before that
\* could still upsert.
MayUpsert(w) == writer[w].pc \in {"outbox", "upsert"}
Settled == Written /\ point.status \in Retired /\ \A w \in Writers : ~MayUpsert(w)

\* Such a precedent is retired for good: neither a retry, nor a replayed decision,
\* nor another policy, nor a reviewer ever makes it active again.
RetiredStays == [][Settled => Settled']_vars

Memory == INSTANCE VerifiedMemory WITH
  Contents <- Policies, Nothing <- None,
  content <- point.payload, receipt <- workflow.receipt

\* The write-back keeps the promise of VerifiedMemory: one receipt, for what is
\* stored, and never another content under it.
ImplementsMemory == Memory!MemorySpec

\* A finalization that is refused: write does not accept the decision, or the
\* outbox holds the finalization's first attempt with another payload.
Refused == ~workflow.accepted \/ outbox[FinalizeId].payload \notin {None, policy}

\* "Verified precedent write-back can be retried": an accepted decision that is
\* finalized again as long as it is not written becomes a precedent in the end,
\* unless the policy has changed since its first attempt, or reviewers retire the
\* point again and again between the upsert and its verification.
WrittenUnlessRefused == <>(Written \/ Refused) \/ []<>(point.status \in Retired)
=============================================================================
