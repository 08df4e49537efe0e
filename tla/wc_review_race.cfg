SPECIFICATION ReviewSpec
CONSTANTS
  pipeline = pipeline
  reviewer = reviewer
  dual1 = dual1
  dual2 = dual2
  Clients <- Together
  RolesOf <- RolesTogether
  CommandIds <- TwelveCommands
  Suggestions = {"s1"}
  Targets <- ShortTargets
  Actions = {"approve", "send_back"}
  Stages = {"guardrails"}
  Repository = "postgres"
  MaxVersion = 7
  MaxLag = 3
INVARIANTS CommandsMatchAudit DecidesOnRecordSeen
PROPERTY FinalDecisionStands
