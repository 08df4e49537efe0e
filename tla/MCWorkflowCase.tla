--------------------------- MODULE MCWorkflowCase ---------------------------
(***************************************************************************)
(* Small instances of WorkflowCase for TLC.  With one pipeline identity    *)
(* and one reviewer the roles are apart; with two clients that hold both   *)
(* roles, two reviewers and two pipelines race as well.                    *)
(***************************************************************************)
EXTENDS WorkflowCase, TLC

CONSTANTS pipeline, reviewer, dual1, dual2

Apart == {pipeline, reviewer}
Together == {dual1, dual2}

RolesApart ==
  [c \in Apart |-> IF c = pipeline THEN {"pipeline"} ELSE {"human_reviewer"}]
RolesTogether == [c \in Together |-> Roles]

NineCommands == 1..9
TwelveCommands == 1..12

AdvanceTargets == {"EXTRACTED", "RULE_GATED", "AI_SUGGESTED", "AWAITING_HUMAN",
                   "HUMAN_DECIDED"}
ShortTargets == {"EXTRACTED", "RULE_GATED", "AI_SUGGESTED", "AWAITING_HUMAN"}

(***************************************************************************)
(* The case as dual1 alone brings it before the reviewers: commands 1 to 5 *)
(* create it and advance it to AWAITING_HUMAN, and nothing is in flight.   *)
(***************************************************************************)
Path == <<"ABSENT", "INTAKE", "EXTRACTED", "RULE_GATED", "AI_SUGGESTED", "AWAITING_HUMAN">>

RecordAt(v) ==
  [state |-> Path[v + 2], version |-> v,
   suggestion |-> IF v < 3 THEN "none" ELSE "s1", decision |-> "none", receipt |-> FALSE]

EventAt(v) ==
  [command |-> v + 1, actor |-> dual1, from |-> Path[v + 1], to |-> Path[v + 2],
   action |-> IF v = 0 THEN "create" ELSE "pipeline_advance"]

ReviewInit ==
  /\ record = RecordAt(4)
  /\ audit = [i \in 1..5 |-> EventAt(i - 1)]
  /\ commands = [i \in CommandIds |->
                   IF i \in 1..5
                   THEN [workflow |-> RecordAt(i - 1), event |-> EventAt(i - 1)]
                   ELSE NoResult]
  /\ session = [c \in Clients |-> IdleSession]

ReviewSpec == ReviewInit /\ [][Next]_vars

ClientSymmetry == Permutations(Together)
=============================================================================
