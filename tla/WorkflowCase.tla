---------------------------- MODULE WorkflowCase ----------------------------
(***************************************************************************)
(* The durable workflow of one application: the record, the append-only    *)
(* audit and the recorded command results that WorkflowService and its two *)
(* repositories keep, and the clients that read the record and send        *)
(* versioned commands against it.                                          *)
(*                                                                         *)
(* Every statement of the code is keyed by application_id, so one case     *)
(* stands for all of them.  The Postgres repository looks a command up     *)
(* before it waits for the row lock; the in-memory one does both under a   *)
(* single lock.  Everything behind the row lock is one transaction.        *)
(***************************************************************************)
EXTENDS Integers, Sequences

CONSTANTS
  Clients,       \* API callers and pipeline workers
  RolesOf,       \* RolesOf[c]: the roles of c's signed claims
  CommandIds,    \* the command ids that may be sent, an interval from 1
  Suggestions,   \* the suggestion payloads a pipeline may send
  Targets,       \* the target states an advance may name
  Actions,       \* the human actions a reviewer may choose
  Stages,        \* the restart stages a reopen may name
  Repository,    \* "postgres" or "memory"
  MaxVersion,    \* bound: no transition commits beyond this version
  MaxLag         \* bound: how many versions a request in flight may fall behind

Roles == {"pipeline", "human_reviewer"}

WorkflowState == {"INTAKE", "EXTRACTED", "RULE_GATED", "AI_SUGGESTED",
                  "AWAITING_HUMAN", "HUMAN_DECIDED", "PRECEDENT_WRITTEN"}

HumanAction == {"approve", "reject", "approve_with_conditions", "send_back"}

\* PIPELINE_TRANSITIONS: the one state the pipeline may enter from each state.
Successor ==
  [INTAKE |-> "EXTRACTED", EXTRACTED |-> "RULE_GATED",
   RULE_GATED |-> "AI_SUGGESTED", AI_SUGGESTED |-> "AWAITING_HUMAN"]

\* RESTART_STATES: the state a send-back to each stage returns the case to.
RestartState ==
  [document_processing |-> "INTAKE", financial_analysis |-> "INTAKE",
   eligibility |-> "EXTRACTED", precedent_retrieval |-> "RULE_GATED",
   suggestion |-> "RULE_GATED", guardrails |-> "AI_SUGGESTED"]

ASSUME WorkflowAssumption ==
  /\ RolesOf \in [Clients -> SUBSET Roles]
  /\ CommandIds \subseteq Nat
  /\ Targets \subseteq WorkflowState
  /\ Actions \subseteq HumanAction
  /\ Stages \subseteq DOMAIN RestartState
  /\ Repository \in {"postgres", "memory"}
  /\ MaxVersion \in Nat
  /\ MaxLag \in Nat
  /\ {"none", "empty"} \cap Suggestions \in {{}, {"empty"}}

(***************************************************************************)
(* Data.  A suggestion payload is opaque, except that the JSON object {}   *)
(* ("empty") is a payload that Python takes for false.                     *)
(***************************************************************************)
Row == [state: WorkflowState, version: Nat, suggestion: Suggestions \cup {"none"},
        decision: HumanAction \cup {"none"}, receipt: BOOLEAN]

\* No row: version -1 makes "one audit event per version" hold of it as well.
Absent == [state |-> "ABSENT", version |-> -1, suggestion |-> "none",
           decision |-> "none", receipt |-> FALSE]

Record == Row \cup {Absent}

Operation == {"create", "advance", "decide", "write", "reopen"}

Command == [id: CommandIds, op: Operation, expected: Nat,
            arg: WorkflowState \cup HumanAction \cup DOMAIN RestartState \cup {"none"},
            suggestion: Suggestions \cup {"none"}]

Event == [command: CommandIds, actor: Clients,
          from: WorkflowState \cup {"ABSENT"}, to: WorkflowState,
          action: HumanAction \cup {"create", "pipeline_advance",
                                    "precedent_written", "send_back_reopen"}]

Result == [workflow: Row, event: Event]
NoEvent == [command |-> 0, actor |-> "none", from |-> "none", to |-> "none",
            action |-> "none"]
NoResult == [workflow |-> Absent, event |-> NoEvent]

NoCommand == [id |-> 0, op |-> "none", expected |-> 0, arg |-> "none",
              suggestion |-> "none"]
IdleSession == [pc |-> "idle", command |-> NoCommand, seen |-> Absent]

VARIABLES
  record,      \* the row of workflow_cases, Absent before there is one
  audit,       \* the rows of workflow_audit in order of sequence
  commands,    \* the rows of workflow_commands by command id
  session      \* each client's request: where it is, its command, the record read

vars == <<record, audit, commands, session>>

(***************************************************************************)
(* The service: which role an operation needs, what the transition         *)
(* function demands of the locked row, and the row it returns.             *)
(***************************************************************************)
\* Fault: the decision route checks the caller for the pipeline's role.
RequiredRoleDecideByPipeline(op) ==
  IF op = "reopen" THEN "human_reviewer" ELSE "pipeline"

RequiredRole(op) == IF op \in {"decide", "reopen"} THEN "human_reviewer" ELSE "pipeline"

VersionMatches(r, cmd) == r.version = cmd.expected

\* Fault: any later state may be entered, not only the successor.
AllowsAdvanceAnywhere(r, cmd) ==
  /\ VersionMatches(r, cmd)
  /\ r.state \in DOMAIN Successor
  /\ (cmd.arg = "AI_SUGGESTED") <=> (cmd.suggestion # "none")

AllowsAdvance(r, cmd) ==
  /\ VersionMatches(r, cmd)
  /\ r.state \in DOMAIN Successor
  /\ cmd.arg = Successor[r.state]
  /\ (cmd.arg = "AI_SUGGESTED") <=> (cmd.suggestion # "none")

Advanced(r, cmd) ==
  [r EXCEPT !.state = cmd.arg, !.version = @ + 1,
            !.suggestion = IF cmd.suggestion \in {"none", "empty"}
                           THEN @ ELSE cmd.suggestion]

AllowsDecision(r, cmd) ==
  /\ VersionMatches(r, cmd)
  /\ r.state = "AWAITING_HUMAN"

\* Fault: the version is not raised.
DecidedSameVersion(r, cmd) ==
  [r EXCEPT !.state = "HUMAN_DECIDED", !.decision = cmd.arg]

Decided(r, cmd) ==
  [r EXCEPT !.state = "HUMAN_DECIDED", !.version = @ + 1, !.decision = cmd.arg]

AllowsPrecedentWrite(r, cmd) ==
  /\ VersionMatches(r, cmd)
  /\ r.state = "HUMAN_DECIDED"
  /\ r.decision \notin {"none", "send_back"}

PrecedentWritten(r) ==
  [r EXCEPT !.state = "PRECEDENT_WRITTEN", !.version = @ + 1, !.receipt = TRUE]

\* Fault: any decision may be reopened.
AllowsReopenOfAny(r, cmd) ==
  /\ VersionMatches(r, cmd)
  /\ r.state = "HUMAN_DECIDED"

AllowsReopen(r, cmd) ==
  /\ VersionMatches(r, cmd)
  /\ r.state = "HUMAN_DECIDED"
  /\ r.decision = "send_back"

\* Fault: the stage is stored where the state it restarts from belongs.
ReopenedAtStage(r, cmd) ==
  [r EXCEPT !.state = cmd.arg, !.version = @ + 1, !.decision = "none"]

\* Fault: the version goes back with the state.
ReopenedOldVersion(r, cmd) ==
  [r EXCEPT !.state = RestartState[cmd.arg], !.version = @ - 2, !.decision = "none"]

Reopened(r, cmd) ==
  [r EXCEPT !.state = RestartState[cmd.arg], !.version = @ + 1, !.decision = "none"]

Created == [Absent EXCEPT !.state = "INTAKE", !.version = 0]

(***************************************************************************)
(* Clients.  A client reads the record and composes a command against the  *)
(* version it read; a second delivery of a request in flight and a command *)
(* that reuses an id are both possible.                                    *)
(***************************************************************************)
InFlight == {session[c].command.id : c \in {d \in Clients : session[d].pc # "idle"}}
Recorded == {i \in CommandIds : commands[i] # NoResult}

\* Command ids are opaque: the lowest one not in use stands for any fresh one.
\* (A recorded id comes back through Answer and Duplicate.)
Nameable(i) ==
  /\ i \notin Recorded
  /\ \A k \in CommandIds : k < i => k \in InFlight \cup Recorded

Offered(op, arg, suggestion) ==
  \/ /\ op \in {"create", "write"}
     /\ arg = "none" /\ suggestion = "none"
  \/ op = "advance" /\ arg \in Targets
  \/ op = "decide" /\ arg \in Actions /\ suggestion = "none"
  \/ op = "reopen" /\ arg \in Stages /\ suggestion = "none"

Compose(c) ==
  /\ session[c].pc = "idle"
  /\ \E cmd \in [id: {i \in CommandIds : Nameable(i)}, op: Operation,
                 expected: {IF record = Absent THEN 0 ELSE record.version},
                 arg: Targets \cup Actions \cup Stages \cup {"none"},
                 suggestion: Suggestions \cup {"none"}] :
       /\ Offered(cmd.op, cmd.arg, cmd.suggestion)
       /\ record = Absent => cmd.op = "create"
       /\ RequiredRole(cmd.op) \in RolesOf[c]
       /\ session' = [session EXCEPT ![c] =
                        [pc |-> "sent", command |-> cmd, seen |-> record]]
  /\ UNCHANGED <<record, audit, commands>>

\* The same request reaches the service a second time while the first is in flight.
Duplicate(c, d) ==
  /\ session[c].pc = "idle"
  /\ session[d].pc # "idle"
  /\ RolesOf[c] = RolesOf[d]
  /\ session' = [session EXCEPT ![c] = [session[d] EXCEPT !.pc = "sent"]]
  /\ UNCHANGED <<record, audit, commands>>

\* A request ends; if its answer is lost, the client sends the same command again.
Answer(c) ==
  \/ session' = [session EXCEPT ![c] = IdleSession]
  \/ session' = [session EXCEPT ![c].pc = "sent"]

(***************************************************************************)
(* The repository.                                                         *)
(***************************************************************************)
\* The in-memory create consults only the table of workflows.
LooksUp(cmd) == Repository = "postgres" \/ cmd.op # "create"

LookupHit(c) ==
  /\ session[c].pc = "sent"
  /\ LooksUp(session[c].command)
  /\ commands[session[c].command.id] # NoResult
  /\ Answer(c)
  /\ UNCHANGED <<record, audit, commands>>

LookupMiss(c) ==
  /\ Repository = "postgres"
  /\ session[c].pc = "sent"
  /\ commands[session[c].command.id] = NoResult
  /\ session' = [session EXCEPT ![c].pc = "missed"]
  /\ UNCHANGED <<record, audit, commands>>

\* The request holds the lock and its own lookup found nothing.
Holds(c, op) ==
  /\ session[c].command.op = op
  /\ \/ session[c].pc = "missed"
     \/ /\ Repository = "memory"
        /\ session[c].pc = "sent"
        /\ LooksUp(session[c].command) => commands[session[c].command.id] = NoResult

\* The bounds of the model, not of the code.
WithinBounds(updated) ==
  /\ updated.version <= MaxVersion
  /\ \A d \in Clients :
       session[d].pc # "idle" => updated.version - session[d].command.expected <= MaxLag

\* Fault: the recorded result holds the row as it was read, not as it was stored.
CommitResultBeforeUpdate(c, updated, action) ==
  LET cmd == session[c].command
      event == [command |-> cmd.id, actor |-> c, from |-> record.state,
                to |-> updated.state, action |-> action]
  IN /\ commands[cmd.id] = NoResult
     /\ WithinBounds(updated)
     /\ record' = updated
     /\ audit' = Append(audit, event)
     /\ commands' = [commands EXCEPT ![cmd.id] = [workflow |-> record, event |-> event]]
     /\ Answer(c)

\* One transaction: the row, the audit event and the command's result.  The
\* unique keys on command_id abort it when the id was recorded meanwhile.
Commit(c, updated, action) ==
  LET cmd == session[c].command
      event == [command |-> cmd.id, actor |-> c, from |-> record.state,
                to |-> updated.state, action |-> action]
  IN /\ commands[cmd.id] = NoResult
     /\ WithinBounds(updated)
     /\ record' = updated
     /\ audit' = Append(audit, event)
     /\ commands' = [commands EXCEPT ![cmd.id] = [workflow |-> updated, event |-> event]]
     /\ Answer(c)

Create(c) ==
  /\ Holds(c, "create")
  /\ record = Absent
  /\ Commit(c, Created, "create")

AdvancePipeline(c) ==
  /\ Holds(c, "advance")
  /\ AllowsAdvance(record, session[c].command)
  /\ Commit(c, Advanced(record, session[c].command), "pipeline_advance")

Decide(c) ==
  /\ Holds(c, "decide")
  /\ AllowsDecision(record, session[c].command)
  /\ Commit(c, Decided(record, session[c].command), session[c].command.arg)

MarkPrecedentWritten(c) ==
  /\ Holds(c, "write")
  /\ AllowsPrecedentWrite(record, session[c].command)
  /\ Commit(c, PrecedentWritten(record), "precedent_written")

ReopenAfterSendBack(c) ==
  /\ Holds(c, "reopen")
  /\ AllowsReopen(record, session[c].command)
  /\ Commit(c, Reopened(record, session[c].command), "send_back_reopen")

Accepts(r, cmd) ==
  \/ cmd.op = "create" /\ r = Absent
  \/ cmd.op = "advance" /\ AllowsAdvance(r, cmd)
  \/ cmd.op = "decide" /\ AllowsDecision(r, cmd)
  \/ cmd.op = "write" /\ AllowsPrecedentWrite(r, cmd)
  \/ cmd.op = "reopen" /\ AllowsReopen(r, cmd)

\* Not found, conflict, invalid transition, or a unique key taken meanwhile.
Refuse(c) ==
  /\ \E op \in Operation : Holds(c, op)
  /\ \/ ~Accepts(record, session[c].command)
     \/ commands[session[c].command.id] # NoResult
  /\ session' = [session EXCEPT ![c] = IdleSession]
  /\ UNCHANGED <<record, audit, commands>>

\* The process or its connection is lost before the transaction commits.
Abort(c) ==
  /\ session[c].pc # "idle"
  /\ session' = [session EXCEPT ![c] = IdleSession]
  /\ UNCHANGED <<record, audit, commands>>

Init ==
  /\ record = Absent
  /\ audit = <<>>
  /\ commands = [i \in CommandIds |-> NoResult]
  /\ session = [c \in Clients |-> IdleSession]

Next ==
  \E c \in Clients :
    \/ Compose(c)
    \/ \E d \in Clients : Duplicate(c, d)
    \/ LookupHit(c)
    \/ LookupMiss(c)
    \/ Create(c)
    \/ AdvancePipeline(c)
    \/ Decide(c)
    \/ MarkPrecedentWritten(c)
    \/ ReopenAfterSendBack(c)
    \/ Refuse(c)
    \/ Abort(c)

Spec == Init /\ [][Next]_vars

(***************************************************************************)
(* Properties.                                                             *)
(***************************************************************************)

\* Every variable has its type: a session in flight carries a well-formed
\* command its client's role may send.
TypeOK ==
  /\ record \in Record
  /\ audit \in Seq(Event)
  /\ commands \in [CommandIds -> Result \cup {NoResult}]
  /\ session \in [Clients -> [pc: {"idle", "sent", "missed"},
                              command: Command \cup {NoCommand}, seen: Record]]
  /\ \A c \in Clients :
       session[c].pc # "idle" =>
         /\ session[c].command \in Command
         /\ RequiredRole(session[c].command.op) \in RolesOf[c]
         /\ Offered(session[c].command.op, session[c].command.arg,
                    session[c].command.suggestion)

\* The audit of a case is its whole history: one event for each version, each
\* event starting where the one before it ended, the last ending at the row's
\* state.  Concurrent transitions neither lose nor reorder an event.
AuditIsHistory ==
  /\ Len(audit) = record.version + 1
  /\ \A i \in 1..Len(audit) :
       audit[i].from = IF i = 1 THEN "ABSENT" ELSE audit[i - 1].to
  /\ record.state = IF audit = <<>> THEN "ABSENT" ELSE audit[Len(audit)].to

\* A command id takes effect at most once, and what a retry of it would be
\* answered is exactly the event the audit holds and the row as that event left
\* it, for requests racing with the same id as well.
CommandsMatchAudit ==
  /\ \A i \in 1..Len(audit) :
       /\ commands[audit[i].command] # NoResult
       /\ commands[audit[i].command].event = audit[i]
       /\ commands[audit[i].command].workflow.version = i - 1
  /\ \A k \in CommandIds :
       commands[k] # NoResult =>
         /\ commands[k].workflow.version + 1 \in 1..Len(audit)
         /\ audit[commands[k].workflow.version + 1] = commands[k].event
         /\ commands[k].event.command = k

\* Human authority, read off the audit: nothing but a reviewer's decision ever
\* takes a case out of AWAITING_HUMAN, and a precedent is written only upon a
\* reviewer's decision that was not a send-back.
HumanAuthority ==
  \A i \in 1..Len(audit) :
    /\ audit[i].from = "AWAITING_HUMAN" =>
         /\ audit[i].action \in HumanAction
         /\ "human_reviewer" \in RolesOf[audit[i].actor]
    /\ audit[i].to = "PRECEDENT_WRITTEN" =>
         /\ i > 1
         /\ audit[i - 1].action \in HumanAction \ {"send_back"}
         /\ "human_reviewer" \in RolesOf[audit[i - 1].actor]

\* A request whose expected version still matches was composed against the very
\* row it will change, suggestion and decision included: the version check rules
\* out that a reviewer decides on a record other than the one on the screen,
\* even when send-backs have brought the case through the same states again.
DecidesOnRecordSeen ==
  \A c \in Clients :
    LET cmd == session[c].command IN
    (session[c].pc # "idle" /\ cmd.op # "create" /\ cmd.expected = record.version)
      => session[c].seen = record

\* A decision other than send_back is final: no retry, race or stale command
\* replaces it or moves the case anywhere but to PRECEDENT_WRITTEN.
FinalDecisionStands ==
  [][record.decision \notin {"none", "send_back"} =>
       /\ record'.decision = record.decision
       /\ record'.state \in {"HUMAN_DECIDED", "PRECEDENT_WRITTEN"}]_record

(***************************************************************************)
(* The case implements its abstract lifecycle.                             *)
(***************************************************************************)
PhaseOf(state) ==
  CASE state = "ABSENT" -> "absent"
    [] state \in DOMAIN Successor -> "preparing"
    [] state = "AWAITING_HUMAN" -> "review"
    [] state = "HUMAN_DECIDED" -> "decided"
    [] state = "PRECEDENT_WRITTEN" -> "precedent"

Lifecycle == INSTANCE CaseLifecycle WITH
  phase <- PhaseOf(record.state), outcome <- record.decision

\* Whatever the clients, the repository and its retries do, the case only ever
\* takes the steps of CaseLifecycle.
ImplementsLifecycle == Lifecycle!Spec

=============================================================================
