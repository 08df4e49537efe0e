---------------------------- MODULE MCAgentCase ----------------------------
(***************************************************************************)
(* Small instances of AgentCase for TLC: the seven workers of the code in  *)
(* their order, the attempt limits of configs/guardrails/production.yaml,  *)
(* and two requests of an application that may overlap.                    *)
(***************************************************************************)
EXTENDS AgentCase, TLC

CONSTANTS t1, t2

DefaultOrder ==
  <<"document_processing", "financial_analysis", "eligibility", "precedent_retrieval",
    "suggestion", "guardrails", "human_review">>

ProductionAttempts ==
  [document_processing |-> 3, financial_analysis |-> 3, eligibility |-> 1,
   precedent_retrieval |-> 3, suggestion |-> 1, guardrails |-> 2, human_review |-> 1]

\* The same limits, but for a second attempt of the handoff: after an ambiguous
\* send-back the handoff may then be repeated, and is not refused.
SecondHandoff == [ProductionAttempts EXCEPT !.human_review = 2]

\* Limits no run of these instances reaches.
AmpleAttempts == [w \in {DefaultOrder[i] : i \in 1..7} |-> 9]

OneTask == {t1}
TwoTasks == {t1, t2}
TaskSymmetry == Permutations(TwoTasks)
=============================================================================
