---------------------- MODULE PrecedentWritebackProofs ----------------------
(***************************************************************************)
(* Theorems about PrecedentWriteback, for any numbers of calls, commands,  *)
(* reviewers, policies, failures and restarts.                             *)
(*                                                                         *)
(* The argument: a call of write lives within one process, so its payload  *)
(* is the running policy's; and it began while the case was not written,   *)
(* so if the case is written under it, it was written in this process, and *)
(* the receipt is the running policy's as well.  What a late call upserts  *)
(* is therefore what the receipt was issued for.                           *)
(***************************************************************************)
EXTENDS PrecedentWriteback, TLAPS

\* A call under way belongs to the running process and to its policy.
UnderWay ==
  \A w \in Writers :
    writer[w].pc # "idle" =>
      /\ writer[w].command \in Commands
      /\ writer[w].payload = policy
      /\ Written => workflow.receipt = policy

\* Past its upsert, the point holds its payload; past the outbox's completion,
\* so does the command's row.
Upserted ==
  \A w \in Writers :
    /\ writer[w].pc \in {"confirm", "complete", "mark"} =>
         point.status # "absent" /\ point.payload = policy
    /\ writer[w].pc = "mark" => outbox[writer[w].command].receipt = policy

\* The receipt and the command that wrote the case are set together, once.
ReceiptOnce ==
  IF Written THEN workflow.command \in Commands ELSE workflow.receipt = None

Asking == \A r \in Reviewers : change[r].pc # "idle" => change[r].command \in ChangeIds

WritebackInv ==
  /\ TypeOK
  /\ UnderWay
  /\ Upserted
  /\ ReceiptOnce
  /\ Asking
  /\ WrittenIsConfirmed

\* The initial states satisfy the invariant.
LEMMA WritebackInvInit == Init => WritebackInv
  BY WritebackAssumption
     DEF Init, WritebackInv, TypeOK, UnderWay, Upserted, ReceiptOnce, Asking,
         WrittenIsConfirmed, Written, Content, NoRow, IdleWriter, IdleChange, WriterAt,
         LifecycleStatus, Retired

\* What the lifecycle route leaves alone keeps the calls of write as they are.
LEMMA WriteSideKept ==
  ASSUME WritebackInv, TypeOK', Asking',
         UNCHANGED <<policy, workflow, outbox, writer>>,
         point'.payload = point.payload,
         point.status # "absent" => point'.status # "absent"
  PROVE  WritebackInv'
  BY DEF WritebackInv, UnderWay, Upserted, ReceiptOnce, WrittenIsConfirmed, Written

Calls == [pc: {"idle", "outbox", "upsert", "confirm", "fail", "complete", "mark"},
          command: Commands \cup {None}, payload: Content]
Outbox == [Commands -> [status: {"none", "pending", "completed", "failed"},
                        payload: Content, receipt: Content]]
Spent == [failures: 0..MaxFailures, stops: 0..MaxStops]

\* A call of write that ends, or goes to a place that promises nothing of the point.
LEMMA CallGoesOn ==
  ASSUME WritebackInv, NEW w \in Writers, NEW x \in Calls, writer' = [writer EXCEPT ![w] = x],
         \/ x.pc = "idle"
         \/ /\ writer[w].pc # "idle"
            /\ x.command = writer[w].command /\ x.payload = writer[w].payload,
         x.pc \notin {"confirm", "complete", "mark"},
         UNCHANGED <<policy, workflow, point, row, change>>,
         outbox' \in Outbox, \A c \in Commands : outbox'[c].receipt = outbox[c].receipt,
         spent' \in Spent
  PROVE  WritebackInv'
<1>1. writer \in [Writers -> Calls]
  BY DEF WritebackInv, TypeOK, Calls
<1>2. writer'[w] = x /\ \A v \in Writers : v # w => writer'[v] = writer[v]
  BY <1>1
<1>3. TypeOK'
  <2>1. writer' \in [Writers -> Calls]
    BY <1>1
  <2>2. TypeOK
    BY DEF WritebackInv
  <2>3. /\ policy' = policy /\ workflow' = workflow /\ point' = point /\ row' = row
        /\ change' = change
    OBVIOUS
  <2>4. \A v, u \in Writers :
          writer'[v].pc = "confirm" /\ writer'[u].pc = "confirm" => v = u
    BY <1>2, <2>2 DEF TypeOK, WriterAt
  <2> HIDE DEF WritebackInv
  <2> QED BY <2>1, <2>2, <2>3, <2>4 DEF TypeOK, Calls, Outbox, Spent, WriterAt
<1>4. UnderWay'
  <2> SUFFICES ASSUME NEW v \in Writers, writer'[v].pc # "idle"
               PROVE  /\ writer'[v].command \in Commands
                      /\ writer'[v].payload = policy'
                      /\ Written' => workflow'.receipt = policy'
    BY DEF UnderWay
  <2>1. writer[v].pc # "idle" /\ writer'[v].command = writer[v].command
        /\ writer'[v].payload = writer[v].payload
    BY <1>2
  <2> QED BY <2>1 DEF WritebackInv, UnderWay, Written
<1>5. Upserted'
  <2> SUFFICES ASSUME NEW v \in Writers, v # w
               PROVE  /\ writer'[v].pc \in {"confirm", "complete", "mark"} =>
                           point'.status # "absent" /\ point'.payload = policy'
                      /\ writer'[v].pc = "mark" => outbox'[writer'[v].command].receipt = policy'
    BY <1>2 DEF Upserted
  <2>1. writer'[v] = writer[v]
    BY <1>2
  <2>2. writer[v].pc = "mark" => writer[v].command \in Commands
    BY DEF WritebackInv, UnderWay
  <2> QED BY <2>1, <2>2 DEF WritebackInv, Upserted
<1>6. ReceiptOnce' /\ Asking'
  BY DEF WritebackInv, ReceiptOnce, Written, Asking
<1>7. WrittenIsConfirmed'
  BY DEF WritebackInv, ReceiptOnce, WrittenIsConfirmed, Written
<1> QED BY <1>3, <1>4, <1>5, <1>6, <1>7 DEF WritebackInv

\* The place a call goes to, and its end, are values of its type.
LEMMA CallPlaces ==
  ASSUME WritebackInv, NEW w \in Writers
  PROVE  /\ IdleWriter \in Calls
         /\ \A pc \in {"upsert", "fail"} :
              WriterGoes(w, pc) =>
                \E x \in Calls : /\ x.pc = pc /\ x.command = writer[w].command
                                 /\ x.payload = writer[w].payload
                                 /\ writer' = [writer EXCEPT ![w] = x]
<1>1. writer[w] \in Calls /\ IdleWriter \in Calls
  BY DEF WritebackInv, TypeOK, Calls, IdleWriter, Content
<1>2. ASSUME NEW pc \in {"upsert", "fail"}, WriterGoes(w, pc)
      PROVE  \E x \in Calls : /\ x.pc = pc /\ x.command = writer[w].command
                              /\ x.payload = writer[w].payload
                              /\ writer' = [writer EXCEPT ![w] = x]
  <2> DEFINE x == [writer[w] EXCEPT !.pc = pc]
  <2>1. x \in Calls /\ x.pc = pc /\ x.command = writer[w].command
        /\ x.payload = writer[w].payload
    BY <1>1 DEF Calls
  <2>2. writer' = [writer EXCEPT ![w] = x]
    BY <1>2 DEF WriterGoes
  <2> QED BY <2>1, <2>2
<1> QED BY <1>1, <1>2

LEMMA FailsSpent == WritebackInv /\ Fails => spent' \in Spent
  BY WritebackAssumption DEF WritebackInv, TypeOK, Fails, Spent

\* The steps of a call that are of this kind.
LEMMA OutboxBeginKeeps ==
  ASSUME WritebackInv, NEW w \in Writers, OutboxBegin(w)
  PROVE  WritebackInv'
<1>1. /\ writer[w].pc # "idle" /\ (WriterGoes(w, "upsert") \/ WriterEnds(w))
      /\ UNCHANGED <<policy, workflow, point, row, change, spent>>
  BY DEF OutboxBegin, WriterAt
<1>2. /\ writer[w].payload \in Content
      /\ outbox \in Outbox
      /\ spent' \in Spent
  BY <1>1 DEF WritebackInv, TypeOK, Outbox, Spent
<1>3. /\ outbox' \in Outbox
      /\ \A c \in Commands : outbox'[c].receipt = outbox[c].receipt
  BY <1>2 DEF OutboxBegin, Outbox
<1>4. CASE WriterGoes(w, "upsert")
  <2>1. PICK x \in Calls : /\ x.pc = "upsert" /\ x.command = writer[w].command
                          /\ x.payload = writer[w].payload
                          /\ writer' = [writer EXCEPT ![w] = x]
    BY <1>4, CallPlaces
  <2> QED BY <1>1, <1>2, <1>3, <2>1, CallGoesOn
<1>5. CASE WriterEnds(w)
  BY <1>1, <1>2, <1>3, <1>5, CallGoesOn, CallPlaces DEF WriterEnds, IdleWriter
<1> QED BY <1>1, <1>4, <1>5

LEMMA ConfirmFailsKeeps ==
  ASSUME WritebackInv, NEW w \in Writers, ConfirmFails(w)
  PROVE  WritebackInv'
<1>1. /\ writer[w].pc # "idle" /\ WriterGoes(w, "fail") /\ Fails
      /\ UNCHANGED <<policy, workflow, outbox, point, row, change>>
  BY DEF ConfirmFails, WriterAt, storeVars
<1>2. outbox' \in Outbox /\ spent' \in Spent
  BY <1>1, FailsSpent DEF WritebackInv, TypeOK, Outbox
<1>3. PICK x \in Calls : /\ x.pc = "fail" /\ x.command = writer[w].command
                        /\ x.payload = writer[w].payload
                        /\ writer' = [writer EXCEPT ![w] = x]
  BY <1>1, CallPlaces
<1> QED BY <1>1, <1>2, <1>3, CallGoesOn

LEMMA OutboxFailKeeps ==
  ASSUME WritebackInv, NEW w \in Writers, OutboxFail(w)
  PROVE  WritebackInv'
<1>1. WriterEnds(w) /\ UNCHANGED <<policy, workflow, point, row, change, spent>>
  BY DEF OutboxFail
<1>2. outbox \in Outbox /\ spent' \in Spent
  BY <1>1 DEF WritebackInv, TypeOK, Outbox, Spent
<1>3. outbox' \in Outbox /\ \A c \in Commands : outbox'[c].receipt = outbox[c].receipt
  BY <1>2 DEF OutboxFail, Outbox
<1> QED BY <1>1, <1>2, <1>3, CallGoesOn, CallPlaces DEF WriterEnds, IdleWriter

LEMMA DatabaseFailsKeeps ==
  ASSUME WritebackInv, NEW w \in Writers, DatabaseFails(w)
  PROVE  WritebackInv'
<1>1. WriterEnds(w) /\ Fails /\ UNCHANGED <<policy, workflow, outbox, point, row, change>>
  BY DEF DatabaseFails, storeVars
<1>2. outbox' \in Outbox /\ spent' \in Spent
  BY <1>1, FailsSpent DEF WritebackInv, TypeOK, Outbox
<1> QED BY <1>1, <1>2, CallGoesOn, CallPlaces DEF WriterEnds, IdleWriter

\* The workflow's transition: the receipt it sets is the payload of the point.
LEMMA MarkKeeps ==
  ASSUME WritebackInv, NEW w \in Writers, Mark(w)
  PROVE  WritebackInv'
<1>1. /\ writer[w].pc = "mark" /\ writer' = [writer EXCEPT ![w] = IdleWriter]
      /\ UNCHANGED <<policy, outbox, point, row, change, spent>>
      /\ TypeOK
  BY DEF Mark, WriterAt, WriterEnds, WritebackInv
<1>2. /\ writer[w].command \in Commands /\ writer[w].payload = policy
      /\ point.status # "absent" /\ point.payload = policy
      /\ outbox[writer[w].command].receipt = policy
      /\ Written => workflow.receipt = policy
  BY <1>1 DEF WritebackInv, UnderWay, Upserted
<1>3. /\ writer' \in [Writers -> Calls] /\ writer'[w] = IdleWriter
      /\ \A v \in Writers : v # w => writer'[v] = writer[v]
  BY <1>1, CallPlaces DEF TypeOK, Calls
<1>4. /\ workflow' \in [state: {"HUMAN_DECIDED", "PRECEDENT_WRITTEN"}, accepted: BOOLEAN,
                        command: Commands \cup {None}, receipt: Content]
      /\ workflow'.state = "PRECEDENT_WRITTEN"
      /\ workflow'.receipt = policy
      /\ workflow'.command \in Commands
      /\ outbox[workflow'.command].receipt = policy
  <2>1. CASE Written
    BY <1>1, <1>2, <2>1 DEF Mark, Written, WritebackInv, TypeOK, ReceiptOnce,
                            WrittenIsConfirmed
  <2>2. CASE ~Written
    BY <1>1, <1>2, <2>2 DEF Mark, TypeOK, Content
  <2> QED BY <2>1, <2>2
<1>5. \A v, u \in Writers : writer'[v].pc = "confirm" /\ writer'[u].pc = "confirm" => v = u
  BY <1>1, <1>3 DEF TypeOK, WriterAt, IdleWriter
<1>6. TypeOK'
  BY <1>1, <1>3, <1>4, <1>5 DEF TypeOK, Calls, WriterAt
<1>7. UnderWay'
  BY <1>1, <1>3, <1>4 DEF WritebackInv, UnderWay, IdleWriter
<1>8. Upserted'
  BY <1>1, <1>3 DEF WritebackInv, Upserted, IdleWriter
<1>9. ReceiptOnce' /\ Asking' /\ WrittenIsConfirmed'
  BY <1>1, <1>2, <1>4, WritebackAssumption
     DEF WritebackInv, TypeOK, ReceiptOnce, Asking, WrittenIsConfirmed, Written
<1> QED BY <1>6, <1>7, <1>8, <1>9 DEF WritebackInv

\* A reviewer's change of the point's status, and the reviewer's next place.
LEMMA SetStatusTypes ==
  ASSUME WritebackInv, NEW r \in Reviewers, SetStatus(r)
  PROVE  TypeOK' /\ Asking'
<1>1. TypeOK /\ change[r].command \in ChangeIds
  BY DEF WritebackInv, Asking, SetStatus, ChangeAt
<1>2. point' \in [status: LifecycleStatus \cup {"absent"}, payload: Content]
  BY <1>1, WritebackAssumption DEF SetStatus, TypeOK, Asked, LifecycleStatus, Retired
<1>3. change' \in [Reviewers -> [pc: {"idle", "read", "set", "verify", "audit"},
                                command: ChangeIds \cup {None}]]
  BY <1>1 DEF SetStatus, TypeOK, ChangeGoes
<1>4. TypeOK'
  BY <1>1, <1>2, <1>3 DEF SetStatus, TypeOK, WriterAt
<1>5. \A q \in Reviewers : change'[q].command = change[q].command
  BY <1>1 DEF SetStatus, TypeOK, ChangeGoes
<1>6. \A q \in Reviewers : change'[q].pc # "idle" => change[q].pc # "idle"
  BY <1>1 DEF SetStatus, TypeOK, ChangeGoes, ChangeAt
<1> QED BY <1>4, <1>5, <1>6 DEF WritebackInv, Asking

\* Every step of the write-back and of the lifecycle route keeps it.
LEMMA WritebackInvNext == WritebackInv /\ [Next]_vars => WritebackInv'
<1> SUFFICES ASSUME WritebackInv, [Next]_vars PROVE WritebackInv'
  OBVIOUS
<1> USE WritebackAssumption
    DEF WritebackInv, TypeOK, UnderWay, Upserted, ReceiptOnce, Asking, WrittenIsConfirmed,
        Written, Content, WriterAt, WriterGoes, WriterEnds, ChangeAt, ChangeGoes, ChangeEnds,
        Asked, Fails, IdleWriter, IdleChange, NoRow, storeVars, LifecycleStatus, Retired
<1>1. ASSUME NEW w \in Writers, NEW c \in Commands, Begin(w, c) PROVE WritebackInv'
  BY <1>1 DEF Begin
<1>2. ASSUME NEW w \in Writers, OutboxBegin(w) PROVE WritebackInv'
  BY <1>2, OutboxBeginKeeps
<1>3. ASSUME NEW w \in Writers, Upsert(w) PROVE WritebackInv'
  BY <1>3 DEF Upsert, LockFree
<1>4. ASSUME NEW w \in Writers, UpsertFails(w) PROVE WritebackInv'
  BY <1>4 DEF UpsertFails
<1>5. ASSUME NEW w \in Writers, Confirm(w) PROVE WritebackInv'
  BY <1>5 DEF Confirm
<1>6. ASSUME NEW w \in Writers, ConfirmFails(w) PROVE WritebackInv'
  BY <1>6, ConfirmFailsKeeps
<1>7. ASSUME NEW w \in Writers, OutboxFail(w) PROVE WritebackInv'
  BY <1>7, OutboxFailKeeps
<1>8. ASSUME NEW w \in Writers, OutboxComplete(w) PROVE WritebackInv'
  BY <1>8 DEF OutboxComplete
<1>9. ASSUME NEW w \in Writers, Mark(w) PROVE WritebackInv'
  BY <1>9, MarkKeeps
<1>10. ASSUME NEW w \in Writers, DatabaseFails(w) PROVE WritebackInv'
  BY <1>10, DatabaseFailsKeeps
<1>11. ASSUME NEW r \in Reviewers, NEW c \in ChangeIds, AskChange(r, c) PROVE WritebackInv'
  <2>1. UNCHANGED <<policy, storeVars, writer>>
    BY <1>11 DEF AskChange
  <2>2. TypeOK' /\ Asking'
    BY <1>11 DEF AskChange
  <2> QED BY <2>1, <2>2, WriteSideKept
<1>12. ASSUME NEW r \in Reviewers, ReadStatus(r) PROVE WritebackInv'
  <2>1. ChangeAt(r, "read") /\ UNCHANGED <<policy, storeVars, writer, spent>>
    BY <1>12 DEF ReadStatus
  <2>2. ChangeGoes(r, "audit") \/ ChangeGoes(r, "set") \/ ChangeEnds(r)
    BY <1>12 DEF ReadStatus
  <2>3. TypeOK' /\ Asking'
    <3>1. CASE ChangeGoes(r, "audit")
      BY <2>1, <3>1
    <3>2. CASE ChangeGoes(r, "set")
      BY <2>1, <3>2
    <3>3. CASE ChangeEnds(r)
      BY <2>1, <3>3
    <3> QED BY <2>2, <3>1, <3>2, <3>3
  <2> QED BY <2>1, <2>3, WriteSideKept
<1>13. ASSUME NEW r \in Reviewers, SetStatus(r) PROVE WritebackInv'
  <2>1. TypeOK' /\ Asking'
    BY <1>13, SetStatusTypes
  <2>2. /\ UNCHANGED <<policy, workflow, outbox, writer>>
        /\ point'.payload = point.payload /\ point'.status # "absent"
    BY <1>13 DEF SetStatus
  <2> QED BY <2>1, <2>2, WriteSideKept
<1>14. ASSUME NEW r \in Reviewers, SetStatusFails(r) PROVE WritebackInv'
  <2>1. TypeOK' /\ Asking'
    BY <1>14 DEF SetStatusFails
  <2>2. /\ UNCHANGED <<policy, workflow, outbox, writer>>
        /\ point'.payload = point.payload
        /\ point.status # "absent" => point'.status # "absent"
    BY <1>14 DEF SetStatusFails
  <2> QED BY <2>1, <2>2, WriteSideKept
<1>15. ASSUME NEW r \in Reviewers, VerifyStatus(r) PROVE WritebackInv'
  <2>1. ChangeAt(r, "verify") /\ UNCHANGED <<policy, storeVars, writer, spent>>
    BY <1>15 DEF VerifyStatus
  <2>2. ChangeGoes(r, "audit") \/ ChangeEnds(r)
    BY <1>15 DEF VerifyStatus
  <2>3. TypeOK' /\ Asking'
    <3>1. CASE ChangeGoes(r, "audit")
      BY <2>1, <3>1
    <3>2. CASE ChangeEnds(r)
      BY <2>1, <3>2
    <3> QED BY <2>2, <3>1, <3>2
  <2> QED BY <2>1, <2>3, WriteSideKept
<1>16. ASSUME NEW r \in Reviewers, AuditChange(r) PROVE WritebackInv'
  <2>1. TypeOK' /\ Asking'
    BY <1>16 DEF AuditChange
  <2>2. UNCHANGED <<policy, workflow, outbox, point, writer>>
    BY <1>16 DEF AuditChange
  <2> QED BY <2>1, <2>2, WriteSideKept
<1>17. CASE Restart
  <2>1. \A w \in Writers : writer'[w] = IdleWriter
    BY <1>17 DEF Restart
  <2>2. \A r \in Reviewers : change'[r] = IdleChange
    BY <1>17 DEF Restart
  <2>3. TypeOK'
    BY <1>17 DEF Restart
  <2>4. UNCHANGED storeVars
    BY <1>17 DEF Restart
  <2>5. UnderWay' /\ Upserted' /\ ReceiptOnce' /\ Asking' /\ WrittenIsConfirmed'
    BY <2>1, <2>2, <2>4
  <2> QED BY <2>3, <2>5
<1>18. CASE UNCHANGED vars
  BY <1>18 DEF vars
<1> QED
  BY <1>1, <1>2, <1>3, <1>4, <1>5, <1>6, <1>7, <1>8, <1>9, <1>10, <1>11, <1>12, <1>13,
     <1>14, <1>15, <1>16, <1>17, <1>18 DEF Next, WriterStep, ChangeStep

\* The inductive invariant holds throughout: every call of write belongs to the
\* running process, its policy and the one receipt.
THEOREM WritebackInvariant == Spec => []WritebackInv
  BY WritebackInvInit, WritebackInvNext, PTL DEF Spec

\* For any calls, commands, reviewers, policies and bounds, every variable keeps its
\* type and the write lock of PrecedentWritebackService one holder.
THEOREM WritebackTypeCorrect == Spec => []TypeOK
  BY WritebackInvariant, PTL DEF WritebackInv

\* A written case is accounted for: its receipt is that of the outbox row of the
\* command that wrote it, and is what the point holds (write, lines 95-118).
THEOREM WrittenCorrect == Spec => []WrittenIsConfirmed
  BY WritebackInvariant, PTL DEF WritebackInv

\* A written case whose precedent is retired stays so, for any number of reviewers:
\* no call of write begins, and the lifecycle route names only retired targets.
THEOREM RetiredCorrect == Spec => RetiredStays
<1>1. WritebackInv /\ [Next]_vars => [Settled => Settled']_vars
  <2> SUFFICES ASSUME WritebackInv, Next, Settled PROVE Settled'
    OBVIOUS
  <2> USE WritebackAssumption
      DEF Settled, MayUpsert, Written, WritebackInv, TypeOK, Asking, Asked, storeVars,
          WriterAt, WriterGoes, WriterEnds, ChangeAt, Retired, IdleWriter
  <2>1. ASSUME NEW w \in Writers, NEW c \in Commands, Begin(w, c) PROVE Settled'
    BY <2>1 DEF Begin
  <2>2. ASSUME NEW w \in Writers, WriterStep(w) PROVE Settled'
    <3>1. CASE Upsert(w) \/ UpsertFails(w) \/ OutboxBegin(w)
      BY <3>1 DEF Upsert, UpsertFails, OutboxBegin
    <3>2. CASE Confirm(w) \/ ConfirmFails(w)
      <4>1. WriterGoes(w, "complete") \/ WriterGoes(w, "fail")
        BY <3>2 DEF Confirm, ConfirmFails
      <4>2. UNCHANGED storeVars
        BY <3>2 DEF Confirm, ConfirmFails
      <4> QED BY <4>1, <4>2
    <3>3. CASE OutboxFail(w) \/ DatabaseFails(w)
      <4>1. WriterEnds(w) /\ UNCHANGED <<workflow, point>>
        BY <3>3 DEF OutboxFail, DatabaseFails
      <4> QED BY <4>1
    <3>5. CASE OutboxComplete(w)
      <4>1. WriterGoes(w, "mark") /\ UNCHANGED <<workflow, point>>
        BY <3>5 DEF OutboxComplete
      <4> QED BY <4>1
    <3>4. CASE Mark(w)
      BY <3>4 DEF Mark
    <3> QED BY <2>2, <3>1, <3>2, <3>3, <3>4, <3>5 DEF WriterStep
  <2>3. ASSUME NEW r \in Reviewers, NEW c \in ChangeIds, AskChange(r, c) PROVE Settled'
    BY <2>3 DEF AskChange
  <2>4. ASSUME NEW r \in Reviewers, ChangeStep(r) PROVE Settled'
    <3>1. CASE SetStatus(r) \/ SetStatusFails(r)
      BY <3>1 DEF SetStatus, SetStatusFails
    <3>2. CASE ReadStatus(r) \/ VerifyStatus(r) \/ AuditChange(r)
      BY <3>2 DEF ReadStatus, VerifyStatus, AuditChange
    <3> QED BY <2>4, <3>1, <3>2 DEF ChangeStep
  <2>5. CASE Restart
    BY <2>5 DEF Restart
  <2> QED BY <2>1, <2>2, <2>3, <2>4, <2>5 DEF Next
<1> QED BY <1>1, WritebackInvariant, PTL DEF Spec, RetiredStays

\* The write-back, its retries, failures, restarts and the reviewers' changes only
\* ever do to the memory what VerifiedMemory allows.
THEOREM MemoryImplemented == Spec => ImplementsMemory
<1>1. Init => Memory!MemoryInit
  BY DEF Init, Memory!MemoryInit
<1>2. WritebackInv /\ [Next]_vars => [Memory!MemoryNext]_(Memory!memoryVars)
  <2> SUFFICES ASSUME WritebackInv, [Next]_vars
               PROVE  Memory!MemoryNext \/ UNCHANGED Memory!memoryVars
    OBVIOUS
  <2> USE WritebackAssumption
      DEF WritebackInv, TypeOK, UnderWay, Upserted, ReceiptOnce, Written, Content,
          WriterAt, ChangeAt, storeVars, Memory!memoryVars, LifecycleStatus
  <2>1. ASSUME NEW w \in Writers, Upsert(w) \/ UpsertFails(w)
        PROVE  Memory!MemoryNext \/ UNCHANGED Memory!memoryVars
    <3>1. policy \in Policies /\ workflow.receipt \in {None, policy}
      BY <2>1 DEF Upsert, UpsertFails
    <3>2. point'.payload \in {point.payload, policy} /\ UNCHANGED workflow
      BY <2>1 DEF Upsert, UpsertFails
    <3> QED BY <3>1, <3>2 DEF Memory!MemoryNext, Memory!Store
  <2>2. ASSUME NEW w \in Writers, Mark(w)
        PROVE  Memory!MemoryNext \/ UNCHANGED Memory!memoryVars
    BY <2>2 DEF Mark, Memory!MemoryNext, Memory!IssueReceipt
  <2>3. ASSUME NEW w \in Writers,
               \/ \E c \in Commands : Begin(w, c)
               \/ OutboxBegin(w) \/ Confirm(w) \/ ConfirmFails(w) \/ OutboxFail(w)
               \/ OutboxComplete(w) \/ DatabaseFails(w)
        PROVE  UNCHANGED Memory!memoryVars
    BY <2>3 DEF Begin, OutboxBegin, Confirm, ConfirmFails, OutboxFail, OutboxComplete,
                DatabaseFails
  <2>4. ASSUME NEW r \in Reviewers,
               (\E c \in ChangeIds : AskChange(r, c)) \/ ChangeStep(r)
        PROVE  UNCHANGED Memory!memoryVars
    BY <2>4 DEF AskChange, ChangeStep, ReadStatus, SetStatus, SetStatusFails,
                VerifyStatus, AuditChange
  <2>5. CASE Restart \/ UNCHANGED vars
    BY <2>5 DEF Restart, vars
  <2> QED BY <2>1, <2>2, <2>3, <2>4, <2>5 DEF Next, WriterStep
<1> QED BY <1>1, <1>2, WritebackInvariant, PTL DEF Spec, ImplementsMemory, Memory!MemorySpec
=============================================================================
