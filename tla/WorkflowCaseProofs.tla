------------------------- MODULE WorkflowCaseProofs -------------------------
(***************************************************************************)
(* Machine-checked theorems about WorkflowCase for every set of clients,   *)
(* command ids, suggestions and restart stages, both repositories, and any *)
(* bound on the version.                                                   *)
(***************************************************************************)
EXTENDS WorkflowCase, TLAPS

(***************************************************************************)
(* Type correctness.                                                       *)
(***************************************************************************)
EventAction == HumanAction \cup {"create", "pipeline_advance",
                                 "precedent_written", "send_back_reopen"}

\* What a session must be, apart from the others.
SessionOK(s, c) ==
  /\ s \in [pc: {"idle", "sent", "missed"}, command: Command \cup {NoCommand}, seen: Record]
  /\ s.pc # "idle" =>
       /\ s.command \in Command
       /\ RequiredRole(s.command.op) \in RolesOf[c]
       /\ Offered(s.command.op, s.command.arg, s.command.suggestion)

\* TypeOK speaks of the sessions one by one.
LEMMA SessionTypes ==
  TypeOK <=> /\ record \in Record
             /\ audit \in Seq(Event)
             /\ commands \in [CommandIds -> Result \cup {NoResult}]
             /\ session = [c \in Clients |-> session[c]]
             /\ \A c \in Clients : SessionOK(session[c], c)
  BY DEF TypeOK, SessionOK

LEMMA AbsentType == Absent \in Record
  BY DEF Record

LEMMA IdleOK == \A c \in Clients : SessionOK(IdleSession, c)
  BY AbsentType DEF SessionOK, IdleSession

\* Answering a request keeps its session well formed, whichever way it ends.
LEMMA AnswerTypes ==
  ASSUME TypeOK, NEW c \in Clients, session[c].pc # "idle", Answer(c)
  PROVE  /\ session' = [d \in Clients |-> session'[d]]
         /\ \A d \in Clients : SessionOK(session'[d], d)
<1>1. \A d \in Clients : SessionOK(session[d], d)
  BY SessionTypes
<1>2. session = [d \in Clients |-> session[d]]
  BY SessionTypes
<1>3. CASE session' = [session EXCEPT ![c] = IdleSession]
  BY <1>1, <1>2, <1>3, IdleOK
<1>4. CASE session' = [session EXCEPT ![c].pc = "sent"]
  <2>1. SessionOK([session[c] EXCEPT !.pc = "sent"], c)
    BY <1>1 DEF SessionOK
  <2>2. session' = [session EXCEPT ![c] = [session[c] EXCEPT !.pc = "sent"]]
    BY <1>4
  <2> QED BY <1>1, <1>2, <2>1, <2>2
<1> QED BY <1>3, <1>4 DEF Answer

\* A transaction that stores a row keeps every variable's type.
LEMMA CommitTypes ==
  ASSUME TypeOK, NEW c \in Clients, NEW updated \in Row, NEW action \in EventAction,
         session[c].pc # "idle", Commit(c, updated, action)
  PROVE  TypeOK'
<1> DEFINE cmd == session[c].command
           event == [command |-> cmd.id, actor |-> c, from |-> record.state,
                     to |-> updated.state, action |-> action]
<1>1. cmd \in Command /\ record \in Record
  BY SessionTypes DEF SessionOK
<1>2. event \in Event
  BY <1>1 DEF Event, EventAction, Command, Record, Row, Absent
<1>3. record' = updated /\ audit' = Append(audit, event)
  BY DEF Commit
<1>4. commands' = [commands EXCEPT ![cmd.id] = [workflow |-> updated, event |-> event]]
  BY DEF Commit
<1>5. [workflow |-> updated, event |-> event] \in Result
  BY <1>2 DEF Result
<1>6. commands' \in [CommandIds -> Result \cup {NoResult}]
  BY <1>4, <1>5 DEF TypeOK
<1>7. audit' \in Seq(Event)
  BY <1>2, <1>3 DEF TypeOK
<1>8. Answer(c)
  BY DEF Commit
<1> QED BY <1>3, <1>6, <1>7, <1>8, AnswerTypes, SessionTypes DEF SessionOK, TypeOK, Record

\* What a transition function returns is a row.
LEMMA CreatedType == Created \in Row
  BY DEF Created, Absent, Row, WorkflowState

LEMMA NextVersion == \A r \in Row : r.version + 1 \in Nat
  BY DEF Row

LEMMA AdvancedType ==
  ASSUME NEW r \in Row, NEW cmd \in Command, AllowsAdvance(r, cmd)
  PROVE  Advanced(r, cmd) \in Row
<1>1. cmd.arg \in WorkflowState
  BY DEF AllowsAdvance, Successor, WorkflowState
<1>2. Advanced(r, cmd).suggestion \in Suggestions \cup {"none"}
  BY DEF Advanced, Row, Command
<1> QED BY <1>1, <1>2, NextVersion DEF Advanced, Row

LEMMA DecidedType ==
  ASSUME NEW r \in Row, NEW cmd, cmd.arg \in HumanAction
  PROVE  Decided(r, cmd) \in Row
  BY NextVersion DEF Decided, Row, WorkflowState

LEMMA PrecedentWrittenType ==
  ASSUME NEW r \in Row
  PROVE  PrecedentWritten(r) \in Row
  BY NextVersion DEF PrecedentWritten, Row, WorkflowState

LEMMA ReopenedType ==
  ASSUME NEW r \in Row, NEW cmd, cmd.arg \in DOMAIN RestartState
  PROVE  Reopened(r, cmd) \in Row
<1>1. RestartState[cmd.arg] \in WorkflowState
  BY DEF RestartState, WorkflowState
<1> QED BY <1>1, NextVersion DEF Reopened, Row

(***************************************************************************)
(* What a step can be: it stores nothing, or it is one of the five         *)
(* transactions, each with the guard its transition function checked.      *)
(***************************************************************************)
Guarded(c, updated, action) ==
  LET cmd == session[c].command IN
  \/ /\ record = Absent
     /\ updated = Created
     /\ action = "create"
  \/ /\ AllowsAdvance(record, cmd)
     /\ updated = Advanced(record, cmd)
     /\ action = "pipeline_advance"
  \/ /\ AllowsDecision(record, cmd)
     /\ updated = Decided(record, cmd)
     /\ action = cmd.arg
     /\ cmd.arg \in Actions
     /\ "human_reviewer" \in RolesOf[c]
  \/ /\ AllowsPrecedentWrite(record, cmd)
     /\ updated = PrecedentWritten(record)
     /\ action = "precedent_written"
  \/ /\ AllowsReopen(record, cmd)
     /\ updated = Reopened(record, cmd)
     /\ cmd.arg \in DOMAIN RestartState
     /\ action = "send_back_reopen"

Transaction(c, updated, action) ==
  /\ session[c].pc # "idle"
  /\ Commit(c, updated, action)
  /\ Guarded(c, updated, action)
  /\ updated \in Row
  /\ action \in EventAction
  /\ updated.version = record.version + 1

Stores == \E c \in Clients, updated \in Row, action \in EventAction :
            Transaction(c, updated, action)

LEMMA HoldsInFlight ==
  \A c \in Clients, op \in Operation :
    Holds(c, op) => session[c].pc # "idle" /\ session[c].command.op = op
  BY DEF Holds

LEMMA CreateStores ==
  ASSUME TypeOK, NEW c \in Clients, Create(c)
  PROVE  Transaction(c, Created, "create")
<1>1. Created.version = record.version + 1
  BY DEF Create, Created, Absent
<1>2. session[c].pc # "idle"
  BY HoldsInFlight DEF Create, Operation
<1> QED BY <1>1, <1>2, CreatedType DEF Create, Transaction, Guarded, EventAction

LEMMA AdvanceStores ==
  ASSUME TypeOK, NEW c \in Clients, AdvancePipeline(c)
  PROVE  Transaction(c, Advanced(record, session[c].command), "pipeline_advance")
<1>1. session[c].pc # "idle"
  BY HoldsInFlight DEF AdvancePipeline, Operation
<1>2. session[c].command \in Command /\ record \in Row
  BY <1>1 DEF TypeOK, AdvancePipeline, AllowsAdvance, Successor, Record, Absent
<1>3. Advanced(record, session[c].command) \in Row
  BY <1>2, AdvancedType DEF AdvancePipeline
<1>4. Advanced(record, session[c].command).version = record.version + 1
  BY <1>2 DEF Advanced, Row
<1> QED BY <1>1, <1>3, <1>4 DEF AdvancePipeline, Transaction, Guarded, EventAction

LEMMA DecideStores ==
  ASSUME TypeOK, NEW c \in Clients, Decide(c)
  PROVE  Transaction(c, Decided(record, session[c].command), session[c].command.arg)
<1>1. session[c].pc # "idle" /\ session[c].command.op = "decide"
  BY HoldsInFlight DEF Decide, Operation
<1>2. session[c].command.arg \in Actions /\ "human_reviewer" \in RolesOf[c]
  BY <1>1 DEF TypeOK, Offered, RequiredRole
<1>3. record \in Row /\ session[c].command.arg \in HumanAction
  BY <1>2, WorkflowAssumption DEF TypeOK, Decide, AllowsDecision, Record, Absent
<1>4. Decided(record, session[c].command) \in Row
  BY <1>3, DecidedType
<1>5. Decided(record, session[c].command).version = record.version + 1
  BY <1>3 DEF Decided, Row
<1> QED BY <1>1, <1>2, <1>3, <1>4, <1>5 DEF Decide, Transaction, Guarded, EventAction

LEMMA WriteStores ==
  ASSUME TypeOK, NEW c \in Clients, MarkPrecedentWritten(c)
  PROVE  Transaction(c, PrecedentWritten(record), "precedent_written")
<1>1. session[c].pc # "idle"
  BY HoldsInFlight DEF MarkPrecedentWritten, Operation
<1>2. record \in Row
  BY DEF TypeOK, MarkPrecedentWritten, AllowsPrecedentWrite, Record, Absent
<1>3. PrecedentWritten(record) \in Row
  BY <1>2, PrecedentWrittenType
<1>4. PrecedentWritten(record).version = record.version + 1
  BY <1>2 DEF PrecedentWritten, Row
<1> QED BY <1>1, <1>3, <1>4 DEF MarkPrecedentWritten, Transaction, Guarded, EventAction

LEMMA ReopenStores ==
  ASSUME TypeOK, NEW c \in Clients, ReopenAfterSendBack(c)
  PROVE  Transaction(c, Reopened(record, session[c].command), "send_back_reopen")
<1>1. session[c].pc # "idle" /\ session[c].command.op = "reopen"
  BY HoldsInFlight DEF ReopenAfterSendBack, Operation
<1>2. session[c].command.arg \in DOMAIN RestartState
  BY <1>1, WorkflowAssumption DEF TypeOK, Offered
<1>3. record \in Row
  BY DEF TypeOK, ReopenAfterSendBack, AllowsReopen, Record, Absent
<1>4. Reopened(record, session[c].command) \in Row
  BY <1>2, <1>3, ReopenedType
<1>5. Reopened(record, session[c].command).version = record.version + 1
  BY <1>3 DEF Reopened, Row
<1> QED BY <1>1, <1>2, <1>4, <1>5 DEF ReopenAfterSendBack, Transaction, Guarded, EventAction

LEMMA TransactionStores ==
  ASSUME TypeOK, NEW c \in Clients,
         \/ Create(c) \/ AdvancePipeline(c) \/ Decide(c)
         \/ MarkPrecedentWritten(c) \/ ReopenAfterSendBack(c)
  PROVE  Stores
<1>1. \E updated, action : Transaction(c, updated, action)
  BY CreateStores, AdvanceStores, DecideStores, WriteStores, ReopenStores
<1> QED BY <1>1 DEF Stores, Transaction

LEMMA StepStoresOrNot ==
  ASSUME TypeOK, [Next]_vars
  PROVE  Stores \/ UNCHANGED <<record, audit, commands>>
<1>1. CASE UNCHANGED vars
  BY <1>1 DEF vars
<1>2. ASSUME NEW c \in Clients,
             \/ Compose(c) \/ (\E d \in Clients : Duplicate(c, d)) \/ LookupHit(c)
             \/ LookupMiss(c) \/ Refuse(c) \/ Abort(c)
      PROVE  UNCHANGED <<record, audit, commands>>
  BY <1>2 DEF Compose, Duplicate, LookupHit, LookupMiss, Refuse, Abort
<1> QED BY <1>1, <1>2, TransactionStores DEF Next

(***************************************************************************)
(* Theorem: every variable keeps its type.                                 *)
(***************************************************************************)
\* Steps that store nothing replace one session by a well-formed one.
LEMMA QuietTypes ==
  ASSUME TypeOK, NEW c \in Clients, NEW s, SessionOK(s, c),
         session' = [session EXCEPT ![c] = s], UNCHANGED <<record, audit, commands>>
  PROVE  TypeOK'
<1>1. \A d \in Clients : SessionOK(session[d], d)
  BY SessionTypes
<1>2. session = [d \in Clients |-> session[d]]
  BY SessionTypes
<1>3. \A d \in Clients : SessionOK(session'[d], d)
  BY <1>1, <1>2
<1>4. session' = [d \in Clients |-> session'[d]]
  BY <1>2
<1> QED BY <1>3, <1>4 DEF TypeOK, SessionOK

LEMMA TypeInductive == TypeOK /\ [Next]_vars => TypeOK'
<1> SUFFICES ASSUME TypeOK, [Next]_vars PROVE TypeOK'
  OBVIOUS
<1>1. CASE UNCHANGED vars
  BY <1>1 DEF TypeOK, vars
<1>2. ASSUME Stores PROVE TypeOK'
  <2>1. PICK c \in Clients, updated \in Row, action \in EventAction :
               Transaction(c, updated, action)
    BY <1>2 DEF Stores
  <2> QED BY <2>1, CommitTypes DEF Transaction
<1>3. ASSUME NEW c \in Clients, Compose(c) PROVE TypeOK'
  <2>1. PICK cmd \in [id: {i \in CommandIds : Nameable(i)}, op: Operation,
                      expected: {IF record = Absent THEN 0 ELSE record.version},
                      arg: Targets \cup Actions \cup Stages \cup {"none"},
                      suggestion: Suggestions \cup {"none"}] :
               /\ Offered(cmd.op, cmd.arg, cmd.suggestion)
               /\ record = Absent => cmd.op = "create"
               /\ RequiredRole(cmd.op) \in RolesOf[c]
               /\ session' = [session EXCEPT ![c] =
                                [pc |-> "sent", command |-> cmd, seen |-> record]]
    BY <1>3 DEF Compose
  <2>2. record \in Record /\ (record # Absent => record.version \in Nat)
    BY DEF TypeOK, Record, Row
  <2>3. cmd \in Command
    BY <2>2, WorkflowAssumption DEF Command
  <2> QED BY <1>3, <2>1, <2>2, <2>3, QuietTypes DEF Compose, SessionOK
<1>4. ASSUME NEW c \in Clients, NEW d \in Clients, Duplicate(c, d) PROVE TypeOK'
  <2>1. SessionOK([session[d] EXCEPT !.pc = "sent"], c)
    BY <1>4, SessionTypes DEF Duplicate, SessionOK
  <2> QED BY <1>4, <2>1, QuietTypes DEF Duplicate
<1>5. ASSUME NEW c \in Clients, LookupHit(c) PROVE TypeOK'
  BY <1>5, AnswerTypes DEF LookupHit, TypeOK, SessionOK
<1>6. ASSUME NEW c \in Clients, LookupMiss(c) PROVE TypeOK'
  <2>1. SessionOK([session[c] EXCEPT !.pc = "missed"], c)
    BY <1>6, SessionTypes DEF LookupMiss, SessionOK
  <2>2. session' = [session EXCEPT ![c] = [session[c] EXCEPT !.pc = "missed"]]
    BY <1>6 DEF LookupMiss
  <2> QED BY <1>6, <2>1, <2>2, QuietTypes DEF LookupMiss
<1>7. ASSUME NEW c \in Clients, Refuse(c) \/ Abort(c) PROVE TypeOK'
  BY <1>7, IdleOK, QuietTypes DEF Refuse, Abort
<1> QED BY <1>1, <1>2, <1>3, <1>4, <1>5, <1>6, <1>7, TransactionStores DEF Next

\* Every variable keeps its type in every behaviour.
THEOREM TypeCorrect == Spec => []TypeOK
<1>1. Init => TypeOK
  BY IdleOK DEF Init, TypeOK, Record, SessionOK, IdleSession
<1> QED BY <1>1, TypeInductive, PTL DEF Spec

(***************************************************************************)
(* Theorem: the audit is the whole history, and each command took effect   *)
(* once, as recorded.  The two are inductive together: a commit appends    *)
(* the event of an id with no result, so no earlier event has that id.     *)
(***************************************************************************)
AuditInv == AuditIsHistory /\ CommandsMatchAudit

LEMMA AuditInductive ==
  TypeOK /\ AuditInv /\ [Next]_vars => AuditInv'
<1> SUFFICES ASSUME TypeOK, AuditInv, [Next]_vars PROVE AuditInv'
  OBVIOUS
<1>1. CASE UNCHANGED <<record, audit, commands>>
  BY <1>1 DEF AuditInv, AuditIsHistory, CommandsMatchAudit
<1>2. CASE Stores
  <2>1. PICK c \in Clients, updated \in Row, action \in EventAction :
               Transaction(c, updated, action)
    BY <1>2 DEF Stores
  <2> DEFINE cmd == session[c].command
             event == [command |-> cmd.id, actor |-> c, from |-> record.state,
                       to |-> updated.state, action |-> action]
             result == [workflow |-> updated, event |-> event]
  <2>2. /\ commands[cmd.id] = NoResult
        /\ record' = updated
        /\ audit' = Append(audit, event)
        /\ commands' = [commands EXCEPT ![cmd.id] = result]
        /\ updated.version = record.version + 1
    BY <2>1 DEF Transaction, Commit
  <2>3. cmd.id \in CommandIds
    BY <2>1 DEF Transaction, TypeOK, Command
  <2>4. audit \in Seq(Event) /\ commands \in [CommandIds -> Result \cup {NoResult}]
    BY DEF TypeOK
  <2>5. Len(audit) \in Nat /\ Len(audit') = Len(audit) + 1
    BY <2>2, <2>4
  <2>6. /\ audit'[Len(audit) + 1] = event
        /\ \A i \in 1..Len(audit) : audit'[i] = audit[i]
    BY <2>2, <2>4
  <2>7. record.version = Len(audit) - 1 /\ updated.version = Len(audit)
    BY <2>2, <2>5 DEF AuditInv, AuditIsHistory, TypeOK, Record, Row, Absent
  <2>8. result # NoResult
    BY DEF NoResult, Row, WorkflowState, Absent
  <2>9. AuditIsHistory'
    <3>1. Len(audit') = record'.version + 1
      BY <2>2, <2>5, <2>7
    <3>2. ASSUME NEW i \in 1..Len(audit')
          PROVE  audit'[i].from = IF i = 1 THEN "ABSENT" ELSE audit'[i - 1].to
      <4> USE <2>5, <2>6
      <4>1. CASE i \in 1..Len(audit) /\ i = 1
        BY <4>1 DEF AuditInv, AuditIsHistory
      <4>2. CASE i \in 1..Len(audit) /\ i # 1
        <5>1. i - 1 \in 1..Len(audit)
          BY <4>2
        <5>2. audit[i].from = audit[i - 1].to
          BY <4>2 DEF AuditInv, AuditIsHistory
        <5> QED BY <4>2, <5>1, <5>2
      <4>3. CASE i = Len(audit) + 1 /\ i = 1
        BY <4>3, <2>4 DEF AuditInv, AuditIsHistory
      <4>4. CASE i = Len(audit) + 1 /\ i # 1
        <5>1. i - 1 = Len(audit) /\ i - 1 \in 1..Len(audit) /\ audit # <<>>
          BY <4>4, <2>4
        <5>2. audit'[i].from = record.state
          BY <4>4
        <5>3. record.state = audit[Len(audit)].to
          BY <5>1 DEF AuditInv, AuditIsHistory
        <5> QED BY <4>4, <5>1, <5>2, <5>3
      <4> QED BY <4>1, <4>2, <4>3, <4>4
    <3>3. audit' # <<>> /\ record'.state = audit'[Len(audit')].to
      BY <2>2, <2>5, <2>6
    <3> QED BY <3>1, <3>2, <3>3 DEF AuditIsHistory
  <2>10. CommandsMatchAudit'
    <3>1. ASSUME NEW i \in 1..Len(audit')
          PROVE  /\ commands'[audit'[i].command] # NoResult
                 /\ commands'[audit'[i].command].event = audit'[i]
                 /\ commands'[audit'[i].command].workflow.version = i - 1
      <4>1. CASE i \in 1..Len(audit)
        <5>1. audit[i].command # cmd.id
          BY <4>1, <2>2 DEF AuditInv, CommandsMatchAudit
        <5>2. commands'[audit[i].command] = commands[audit[i].command]
          BY <5>1, <2>2, <2>4
        <5> QED BY <4>1, <5>2, <2>6 DEF AuditInv, CommandsMatchAudit
      <4>2. CASE i = Len(audit) + 1
        BY <4>2, <2>2, <2>3, <2>4, <2>5, <2>6, <2>7, <2>8
      <4> QED BY <4>1, <4>2, <2>5
    <3>2. ASSUME NEW k \in CommandIds, commands'[k] # NoResult
          PROVE  /\ commands'[k].workflow.version + 1 \in 1..Len(audit')
                 /\ audit'[commands'[k].workflow.version + 1] = commands'[k].event
                 /\ commands'[k].event.command = k
      <4>1. CASE k = cmd.id
        BY <4>1, <2>2, <2>3, <2>4, <2>5, <2>6, <2>7
      <4>2. CASE k # cmd.id
        <5>1. commands'[k] = commands[k]
          BY <4>2, <2>2, <2>4
        <5>2. commands[k].workflow.version + 1 \in 1..Len(audit)
          BY <5>1, <3>2 DEF AuditInv, CommandsMatchAudit
        <5> QED BY <5>1, <5>2, <3>2, <2>5, <2>6 DEF AuditInv, CommandsMatchAudit
      <4> QED BY <4>1, <4>2
    <3> QED BY <3>1, <3>2 DEF CommandsMatchAudit
  <2> QED BY <2>9, <2>10 DEF AuditInv
<1> QED BY <1>1, <1>2, StepStoresOrNot

LEMMA AuditInit == Init => AuditInv
  BY DEF Init, AuditInv, AuditIsHistory, CommandsMatchAudit, Absent

\* The audit of a case is its whole history, gap-free and linked, in every
\* behaviour of any number of clients.
THEOREM AuditCorrect == Spec => []AuditIsHistory
<1>1. AuditInv => AuditIsHistory
  BY DEF AuditInv
<1> QED BY <1>1, AuditInit, AuditInductive, TypeCorrect, PTL DEF Spec

\* A command id takes effect at most once, and its recorded result is the
\* audit's own event.
THEOREM CommandsCorrect == Spec => []CommandsMatchAudit
<1>1. AuditInv => CommandsMatchAudit
  BY DEF AuditInv
<1> QED BY <1>1, AuditInit, AuditInductive, TypeCorrect, PTL DEF Spec

(***************************************************************************)
(* Theorem: the decision is final, and the case implements its lifecycle.  *)
(* Both need to know in which states a decision is on the record.          *)
(***************************************************************************)
\* A decision is on the record from HUMAN_DECIDED on, and only then.
OutcomeInv == (record.decision # "none") <=> (record.state \in {"HUMAN_DECIDED", "PRECEDENT_WRITTEN"})

LEMMA OutcomeInductive == TypeOK /\ OutcomeInv /\ [Next]_vars => OutcomeInv'
<1> SUFFICES ASSUME TypeOK, OutcomeInv, [Next]_vars PROVE OutcomeInv'
  OBVIOUS
<1>1. CASE UNCHANGED <<record, audit, commands>>
  BY <1>1 DEF OutcomeInv
<1>2. CASE Stores
  <2>1. PICK c \in Clients, updated \in Row, action \in EventAction :
               Transaction(c, updated, action)
    BY <1>2 DEF Stores
  <2>2. record' = updated /\ record \in Record /\ Guarded(c, updated, action)
    BY <2>1 DEF Transaction, Commit, TypeOK
  <2> DEFINE cmd == session[c].command
  <2>3. CASE updated = Created
    BY <2>2, <2>3 DEF OutcomeInv, Created, Absent
  <2>4. CASE AllowsAdvance(record, cmd) /\ updated = Advanced(record, cmd)
    <3>1. /\ record.state \in DOMAIN Successor
          /\ updated.state = Successor[record.state]
          /\ updated.decision = record.decision
      BY <2>2, <2>4 DEF AllowsAdvance, Advanced, Record, Row, Absent
    <3> QED BY <3>1, <2>2 DEF OutcomeInv, Successor
  <2>5. CASE updated = Decided(record, cmd) /\ cmd.arg \in Actions /\ AllowsDecision(record, cmd)
    <3>1. cmd.arg # "none"
      BY <2>5, WorkflowAssumption DEF HumanAction
    <3> QED BY <2>2, <2>5, <3>1 DEF OutcomeInv, Decided, AllowsDecision, Record, Row, Absent
  <2>6. CASE AllowsPrecedentWrite(record, cmd) /\ updated = PrecedentWritten(record)
    BY <2>2, <2>6 DEF OutcomeInv, AllowsPrecedentWrite, PrecedentWritten, Record, Row, Absent
  <2>7. CASE /\ AllowsReopen(record, cmd) /\ updated = Reopened(record, cmd)
             /\ cmd.arg \in DOMAIN RestartState
    <3>1. RestartState[cmd.arg] \notin {"HUMAN_DECIDED", "PRECEDENT_WRITTEN"}
      BY <2>7 DEF RestartState
    <3> QED BY <2>2, <2>7, <3>1 DEF OutcomeInv, AllowsReopen, Reopened, Record, Row, Absent
  <2> QED BY <2>2, <2>3, <2>4, <2>5, <2>6, <2>7 DEF Guarded
<1> QED BY <1>1, <1>2, StepStoresOrNot

LEMMA OutcomeInit == Init => OutcomeInv
  BY DEF Init, OutcomeInv, Absent

\* A decision other than send_back is never replaced or taken back, whatever
\* retries and races follow it.
THEOREM FinalDecisionCorrect == Spec => FinalDecisionStands
<1> DEFINE Stands == record.decision \notin {"none", "send_back"} =>
                       /\ record'.decision = record.decision
                       /\ record'.state \in {"HUMAN_DECIDED", "PRECEDENT_WRITTEN"}
<1>1. TypeOK /\ OutcomeInv /\ [Next]_vars => [Stands]_record
  <2> SUFFICES ASSUME TypeOK, OutcomeInv, Stores, record.decision \notin {"none", "send_back"}
               PROVE  /\ record'.decision = record.decision
                      /\ record'.state \in {"HUMAN_DECIDED", "PRECEDENT_WRITTEN"}
    BY StepStoresOrNot
  <2>1. PICK c \in Clients, updated \in Row, action \in EventAction :
               Transaction(c, updated, action)
    BY DEF Stores
  <2>2. record' = updated /\ record \in Record /\ Guarded(c, updated, action)
    BY <2>1 DEF Transaction, Commit, TypeOK
  <2>3. record.state \in {"HUMAN_DECIDED", "PRECEDENT_WRITTEN"} /\ record \in Row
    BY <2>2 DEF OutcomeInv, Record, Absent
  <2>4. AllowsPrecedentWrite(record, session[c].command) /\ updated = PrecedentWritten(record)
    BY <2>2, <2>3 DEF Guarded, Absent, AllowsAdvance, AllowsDecision, AllowsReopen, Successor
  <2> QED BY <2>2, <2>3, <2>4 DEF PrecedentWritten, Row
<1> QED BY <1>1, OutcomeInit, OutcomeInductive, TypeCorrect, PTL DEF Spec, FinalDecisionStands

LEMMA RestartPhase == \A s \in DOMAIN RestartState : PhaseOf(RestartState[s]) = "preparing"
  BY DEF RestartState, PhaseOf, Successor

\* Every step of the case, of any number of clients on either repository, is a
\* step of the abstract lifecycle or leaves it where it is.
THEOREM LifecycleImplemented == Spec => ImplementsLifecycle
<1>1. Init => Lifecycle!Init
  BY DEF Init, Absent, Lifecycle!Init, PhaseOf, Successor
<1>2. TypeOK /\ OutcomeInv /\ [Next]_vars => [Lifecycle!Next]_(Lifecycle!lifecycleVars)
  <2> SUFFICES ASSUME TypeOK, OutcomeInv, [Next]_vars
               PROVE  Lifecycle!Next \/ UNCHANGED Lifecycle!lifecycleVars
    OBVIOUS
  <2>1. CASE UNCHANGED <<record, audit, commands>>
    BY <2>1 DEF Lifecycle!lifecycleVars, PhaseOf
  <2>2. CASE Stores
    <3>1. PICK c \in Clients, updated \in Row, action \in EventAction :
                 Transaction(c, updated, action)
      BY <2>2 DEF Stores
    <3>2. record' = updated /\ record \in Record /\ Guarded(c, updated, action)
      BY <3>1 DEF Transaction, Commit, TypeOK
    <3> DEFINE cmd == session[c].command
    <3>3. CASE record = Absent /\ updated = Created
      <4>1. PhaseOf(record.state) = "absent" /\ PhaseOf(record'.state) = "preparing"
        BY <3>2, <3>3 DEF Created, Absent, PhaseOf, Successor
      <4>2. record'.decision = record.decision
        BY <3>2, <3>3 DEF Created, Absent
      <4> QED BY <4>1, <4>2 DEF Lifecycle!Next, Lifecycle!Open
    <3>4. CASE AllowsAdvance(record, cmd) /\ updated = Advanced(record, cmd)
      <4>1. /\ record.state \in DOMAIN Successor
            /\ record'.state = Successor[record.state]
            /\ record'.decision = record.decision
        BY <3>2, <3>4 DEF AllowsAdvance, Advanced, Record, Row, Absent
      <4>2. PhaseOf(record.state) = "preparing"
        BY <4>1 DEF PhaseOf, Successor
      <4>3. PhaseOf(record'.state) \in {"preparing", "review"}
        BY <4>1 DEF PhaseOf, Successor
      <4> QED BY <4>1, <4>2, <4>3
              DEF Lifecycle!Next, Lifecycle!PutBeforeReviewer, Lifecycle!lifecycleVars
    <3>5. CASE AllowsDecision(record, cmd) /\ updated = Decided(record, cmd) /\ cmd.arg \in Actions
      <4>1. PhaseOf(record.state) = "review" /\ record \in Row
        BY <3>2, <3>5 DEF AllowsDecision, PhaseOf, Successor, Record, Absent
      <4>2. PhaseOf(record'.state) = "decided" /\ record'.decision \in Actions
        BY <3>2, <3>5, <4>1 DEF Decided, PhaseOf, Successor, Row
      <4> QED BY <4>1, <4>2 DEF Lifecycle!Next, Lifecycle!Decide
    <3>6. CASE AllowsPrecedentWrite(record, cmd) /\ updated = PrecedentWritten(record)
      <4>1. /\ PhaseOf(record.state) = "decided" /\ record \in Row
            /\ record.decision # "send_back"
        BY <3>2, <3>6 DEF AllowsPrecedentWrite, PhaseOf, Successor, Record, Absent
      <4>2. PhaseOf(record'.state) = "precedent" /\ record'.decision = record.decision
        BY <3>2, <3>6, <4>1 DEF PrecedentWritten, PhaseOf, Successor, Row
      <4> QED BY <4>1, <4>2 DEF Lifecycle!Next, Lifecycle!Remember
    <3>7. CASE /\ AllowsReopen(record, cmd) /\ updated = Reopened(record, cmd)
               /\ cmd.arg \in DOMAIN RestartState
      <4>1. /\ PhaseOf(record.state) = "decided" /\ record \in Row
            /\ record.decision = "send_back"
        BY <3>2, <3>7 DEF AllowsReopen, PhaseOf, Successor, Record, Absent
      <4>2. record'.state = RestartState[cmd.arg] /\ record'.decision = "none"
        BY <3>2, <3>7, <4>1 DEF Reopened, Row
      <4>3. PhaseOf(record'.state) = "preparing"
        BY <3>7, <4>2, RestartPhase
      <4> QED BY <4>1, <4>2, <4>3 DEF Lifecycle!Next, Lifecycle!Reopen
    <3> QED BY <3>2, <3>3, <3>4, <3>5, <3>6, <3>7 DEF Guarded
  <2> QED BY <2>1, <2>2, StepStoresOrNot
<1> QED BY <1>1, <1>2, OutcomeInit, OutcomeInductive, TypeCorrect, PTL
        DEF Spec, ImplementsLifecycle, Lifecycle!Spec

(***************************************************************************)
(* Theorem: human authority.                                               *)
(***************************************************************************)
\* The decision on the record is the last event, and a reviewer's.
LastDecision ==
  record.state = "HUMAN_DECIDED" =>
    /\ audit # <<>>
    /\ audit[Len(audit)].action = record.decision
    /\ record.decision \in HumanAction
    /\ "human_reviewer" \in RolesOf[audit[Len(audit)].actor]

AuthorityInv == HumanAuthority /\ LastDecision

LEMMA AuthorityInductive ==
  TypeOK /\ AuditIsHistory /\ AuthorityInv /\ [Next]_vars => AuthorityInv'
<1> SUFFICES ASSUME TypeOK, AuditIsHistory, AuthorityInv, [Next]_vars PROVE AuthorityInv'
  OBVIOUS
<1>1. CASE UNCHANGED <<record, audit, commands>>
  BY <1>1 DEF AuthorityInv, HumanAuthority, LastDecision
<1>2. CASE Stores
  <2>1. PICK c \in Clients, updated \in Row, action \in EventAction :
               Transaction(c, updated, action)
    BY <1>2 DEF Stores
  <2> DEFINE cmd == session[c].command
             n == Len(audit)
  <2>2. /\ record' = updated /\ record \in Record /\ Guarded(c, updated, action)
        /\ audit \in Seq(Event)
    BY <2>1 DEF Transaction, Commit, TypeOK
  <2>3. \E event : /\ audit' = Append(audit, event)
                   /\ event.actor = c /\ event.action = action
                   /\ event.from = record.state /\ event.to = updated.state
    BY <2>1 DEF Transaction, Commit
  <2>4. /\ n \in Nat /\ Len(audit') = n + 1 /\ audit' # <<>>
        /\ \A i \in 1..n : audit'[i] = audit[i]
        /\ audit'[n + 1].actor = c /\ audit'[n + 1].action = action
        /\ audit'[n + 1].from = record.state /\ audit'[n + 1].to = updated.state
    BY <2>2, <2>3
  <2>5. record.state = "AWAITING_HUMAN" =>
          action \in HumanAction /\ "human_reviewer" \in RolesOf[c]
    BY <2>2, WorkflowAssumption
       DEF Guarded, Absent, AllowsAdvance, AllowsPrecedentWrite, AllowsReopen, Successor
  <2>6. updated.state = "PRECEDENT_WRITTEN" =>
          /\ record.state = "HUMAN_DECIDED"
          /\ record.decision # "send_back"
    <3>1. CASE updated = Created
      BY <3>1 DEF Created, Absent
    <3>2. CASE AllowsAdvance(record, cmd) /\ updated = Advanced(record, cmd)
      <4>1. /\ record.state \in DOMAIN Successor
            /\ updated.state = Successor[record.state]
        BY <2>2, <3>2 DEF AllowsAdvance, Advanced, Record, Row, Absent
      <4> QED BY <4>1 DEF Successor
    <3>3. CASE AllowsDecision(record, cmd) /\ updated = Decided(record, cmd)
      BY <2>2, <3>3 DEF AllowsDecision, Decided, Record, Row, Absent
    <3>4. CASE AllowsPrecedentWrite(record, cmd)
      BY <3>4 DEF AllowsPrecedentWrite
    <3>5. CASE updated = Reopened(record, cmd) /\ cmd.arg \in DOMAIN RestartState
      <4>1. RestartState[cmd.arg] # "PRECEDENT_WRITTEN"
        BY <3>5 DEF RestartState
      <4> QED BY <2>2, <3>5, <4>1 DEF Reopened, Record, Row, Absent
    <3> QED BY <2>2, <3>1, <3>2, <3>3, <3>4, <3>5 DEF Guarded
  <2>7. HumanAuthority'
    <3> SUFFICES ASSUME NEW i \in 1..Len(audit')
                 PROVE  /\ audit'[i].from = "AWAITING_HUMAN" =>
                             /\ audit'[i].action \in HumanAction
                             /\ "human_reviewer" \in RolesOf[audit'[i].actor]
                        /\ audit'[i].to = "PRECEDENT_WRITTEN" =>
                             /\ i > 1
                             /\ audit'[i - 1].action \in HumanAction \ {"send_back"}
                             /\ "human_reviewer" \in RolesOf[audit'[i - 1].actor]
      BY DEF HumanAuthority
    <3>1. CASE i \in 1..n
      <4>1. audit'[i] = audit[i] /\ (i > 1 => audit'[i - 1] = audit[i - 1])
        BY <3>1, <2>4
      <4> QED BY <3>1, <4>1 DEF AuthorityInv, HumanAuthority
    <3>2. CASE i = n + 1
      <4>1. ASSUME updated.state = "PRECEDENT_WRITTEN"
            PROVE  /\ i > 1
                   /\ audit'[i - 1].action \in HumanAction \ {"send_back"}
                   /\ "human_reviewer" \in RolesOf[audit'[i - 1].actor]
        <5>1. /\ audit # <<>>
              /\ audit[n].action \in HumanAction \ {"send_back"}
              /\ "human_reviewer" \in RolesOf[audit[n].actor]
          BY <4>1, <2>6 DEF AuthorityInv, LastDecision
        <5>2. n \in 1..n
          BY <5>1, <2>2, <2>4
        <5> QED BY <3>2, <5>1, <5>2, <2>4
      <4> QED BY <3>2, <4>1, <2>4, <2>5
    <3> QED BY <3>1, <3>2, <2>4
  <2>8. LastDecision'
    <3> SUFFICES ASSUME updated.state = "HUMAN_DECIDED"
                 PROVE  /\ action = updated.decision
                        /\ updated.decision \in HumanAction
                        /\ "human_reviewer" \in RolesOf[c]
      BY <2>2, <2>4 DEF LastDecision
    <3>1. ~(updated = Created)
      BY DEF Created, Absent
    <3>2. ~(AllowsAdvance(record, cmd) /\ updated = Advanced(record, cmd))
      <4> SUFFICES ASSUME AllowsAdvance(record, cmd), updated = Advanced(record, cmd)
                   PROVE  FALSE
        OBVIOUS
      <4>1. /\ record.state \in DOMAIN Successor
            /\ updated.state = Successor[record.state]
        BY <2>2 DEF AllowsAdvance, Advanced, Record, Row, Absent
      <4> QED BY <4>1 DEF Successor
    <3>3. ~(AllowsPrecedentWrite(record, cmd) /\ updated = PrecedentWritten(record))
      BY <2>2 DEF AllowsPrecedentWrite, PrecedentWritten, Record, Row, Absent
    <3>4. ~(/\ AllowsReopen(record, cmd) /\ updated = Reopened(record, cmd)
            /\ cmd.arg \in DOMAIN RestartState)
      <4>1. cmd.arg \in DOMAIN RestartState => RestartState[cmd.arg] # "HUMAN_DECIDED"
        BY DEF RestartState
      <4> QED BY <2>2, <4>1 DEF AllowsReopen, Reopened, Record, Row, Absent
    <3>5. /\ AllowsDecision(record, cmd) /\ updated = Decided(record, cmd)
          /\ action = cmd.arg /\ cmd.arg \in Actions /\ "human_reviewer" \in RolesOf[c]
      BY <2>2, <3>1, <3>2, <3>3, <3>4 DEF Guarded
    <3>6. updated.decision = cmd.arg
      BY <2>2, <3>5 DEF AllowsDecision, Decided, Record, Row, Absent
    <3> QED BY <3>5, <3>6, WorkflowAssumption
  <2> QED BY <2>7, <2>8 DEF AuthorityInv
<1> QED BY <1>1, <1>2, StepStoresOrNot

LEMMA AuthorityInit == Init => AuthorityInv
  BY DEF Init, AuthorityInv, HumanAuthority, LastDecision, Absent

\* Nothing but a reviewer's decision takes a case out of AWAITING_HUMAN, and a
\* precedent is written only upon a reviewer's decision other than send_back.
THEOREM AuthorityCorrect == Spec => []HumanAuthority
<1>1. AuthorityInv => HumanAuthority
  BY DEF AuthorityInv
<1> QED BY <1>1, AuthorityInit, AuthorityInductive, TypeCorrect, AuditCorrect, PTL DEF Spec

(***************************************************************************)
(* Theorem: the version check is a check of the whole record.              *)
(***************************************************************************)
\* What a request in flight saw is an earlier row or the present one.
SeenOK(s) ==
  s.pc # "idle" =>
    /\ s.seen.version <= record.version
    /\ s.seen.version = record.version => s.seen = record
    /\ s.command.op # "create" => s.command.expected = s.seen.version

SeenInv == \A c \in Clients : SeenOK(session[c])

\* However a request ends, what its session saw and sends stays as it is.
LEMMA AnswerKeeps ==
  ASSUME TypeOK, NEW c \in Clients, NEW d \in Clients, session[c].pc # "idle", Answer(c),
         session'[d].pc # "idle"
  PROVE  /\ session[d].pc # "idle"
         /\ session'[d].seen = session[d].seen
         /\ session'[d].command = session[d].command
<1>1. /\ session = [e \in Clients |-> session[e]]
      /\ session[c] \in [pc: {"idle", "sent", "missed"}, command: Command \cup {NoCommand},
                         seen: Record]
  BY SessionTypes DEF SessionOK
<1>2. CASE session' = [session EXCEPT ![c] = IdleSession]
  BY <1>1, <1>2 DEF IdleSession
<1>3. CASE session' = [session EXCEPT ![c].pc = "sent"]
  <2>1. session' = [session EXCEPT ![c] = [session[c] EXCEPT !.pc = "sent"]]
    BY <1>3
  <2>2. CASE d = c
    <3>1. session'[d] = [session[c] EXCEPT !.pc = "sent"]
      BY <2>1, <2>2, <1>1
    <3> QED BY <2>2, <3>1, <1>1
  <2>3. CASE d # c
    BY <2>1, <2>3, <1>1
  <2> QED BY <2>2, <2>3
<1> QED BY <1>2, <1>3 DEF Answer

LEMMA SeenInductive == TypeOK /\ SeenInv /\ [Next]_vars => SeenInv'
<1> SUFFICES ASSUME TypeOK, SeenInv, [Next]_vars, NEW d \in Clients PROVE SeenOK(session[d])'
  BY DEF SeenInv
<1>0. /\ session = [c \in Clients |-> session[c]]
      /\ SeenOK(session[d]) /\ \A c \in Clients : SeenOK(session[c])
      /\ record.version \in Int /\ \A c \in Clients : session[c].seen.version \in Int
  BY SessionTypes DEF SeenInv, SessionOK, Record, Row, Absent
<1>1. CASE UNCHANGED vars
  BY <1>0, <1>1 DEF SeenOK, vars
<1>2. CASE Stores
  <2>1. PICK c \in Clients, updated \in Row, action \in EventAction :
               Transaction(c, updated, action)
    BY <1>2 DEF Stores
  <2>2. record'.version = record.version + 1 /\ Answer(c)
    BY <2>1 DEF Transaction, Commit
  <2>3. session'[d].pc # "idle" =>
          /\ session[d].pc # "idle" /\ session'[d].seen = session[d].seen
          /\ session'[d].command = session[d].command
    BY <2>1, <2>2, AnswerKeeps DEF Transaction
  <2> QED BY <1>0, <2>2, <2>3 DEF SeenOK
<1>3. ASSUME NEW c \in Clients, Compose(c) PROVE SeenOK(session[d])'
  <2>1. PICK cmd : /\ record = Absent => cmd.op = "create"
                   /\ cmd.expected = IF record = Absent THEN 0 ELSE record.version
                   /\ session' = [session EXCEPT ![c] =
                                    [pc |-> "sent", command |-> cmd, seen |-> record]]
    BY <1>3 DEF Compose
  <2> QED BY <2>1, <1>0, <1>3 DEF Compose, SeenOK
<1>4. ASSUME NEW c \in Clients, NEW e \in Clients, Duplicate(c, e) PROVE SeenOK(session[d])'
  BY <1>4, <1>0 DEF Duplicate, SeenOK
<1>5. ASSUME NEW c \in Clients, LookupHit(c) PROVE SeenOK(session[d])'
  <2>1. session[c].pc # "idle" /\ Answer(c) /\ record' = record
    BY <1>5 DEF LookupHit
  <2>2. session'[d].pc # "idle" =>
          /\ session[d].pc # "idle" /\ session'[d].seen = session[d].seen
          /\ session'[d].command = session[d].command
    BY <2>1, AnswerKeeps
  <2> QED BY <2>1, <2>2, <1>0 DEF SeenOK
<1>6. ASSUME NEW c \in Clients, LookupMiss(c) PROVE SeenOK(session[d])'
  BY <1>6, <1>0 DEF LookupMiss, SeenOK
<1>7. ASSUME NEW c \in Clients, Refuse(c) \/ Abort(c) PROVE SeenOK(session[d])'
  BY <1>7, <1>0 DEF Refuse, Abort, IdleSession, SeenOK
<1> QED BY <1>1, <1>2, <1>3, <1>4, <1>5, <1>6, <1>7, TransactionStores DEF Next

LEMMA SeenInit == Init => SeenInv
  BY DEF Init, SeenInv, SeenOK, IdleSession

\* A command whose expected version matches is applied to the very record its
\* sender had read, for any number of clients, versions and send-backs.
THEOREM SeenCorrect == Spec => []DecidesOnRecordSeen
<1>1. SeenInv => DecidesOnRecordSeen
  BY DEF SeenInv, SeenOK, DecidesOnRecordSeen
<1> QED BY <1>1, SeenInit, SeenInductive, TypeCorrect, PTL DEF Spec
=============================================================================
