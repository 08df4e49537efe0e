--------------------------- MODULE CaseLifecycle ---------------------------
(***************************************************************************)
(* What the workflow promises a lender about one application, without      *)
(* versions, commands, sessions or storage:                                *)
(*                                                                         *)
(*   - a case is opened once, prepared, and put before a reviewer;         *)
(*   - only a reviewer's decision takes it out of review;                  *)
(*   - a send-back returns it to preparation and to nothing else;          *)
(*   - any other decision is final: the case can only become a precedent.  *)
(*                                                                         *)
(* WorkflowCase implements this module (Lifecycle there), and so does      *)
(* AgentCase, which issues the commands (Promised there).                  *)
(***************************************************************************)

CONSTANT Actions  \* the human actions a reviewer may choose from

VARIABLES
  phase,          \* where the case stands
  outcome         \* the reviewer's decision, "none" before there is one

lifecycleVars == <<phase, outcome>>

Phases == {"absent", "preparing", "review", "decided", "precedent"}

Init ==
  /\ phase = "absent"
  /\ outcome = "none"

Open ==
  /\ phase = "absent"
  /\ phase' = "preparing"
  /\ UNCHANGED outcome

PutBeforeReviewer ==
  /\ phase = "preparing"
  /\ phase' = "review"
  /\ UNCHANGED outcome

Decide ==
  /\ phase = "review"
  /\ phase' = "decided"
  /\ outcome' \in Actions

Reopen ==
  /\ phase = "decided"
  /\ outcome = "send_back"
  /\ phase' = "preparing"
  /\ outcome' = "none"

Remember ==
  /\ phase = "decided"
  /\ outcome # "send_back"
  /\ phase' = "precedent"
  /\ UNCHANGED outcome

Next == Open \/ PutBeforeReviewer \/ Decide \/ Reopen \/ Remember

Spec == Init /\ [][Next]_lifecycleVars

=============================================================================
