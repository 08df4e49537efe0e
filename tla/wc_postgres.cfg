SPECIFICATION Spec
CONSTANTS
  pipeline = pipeline
  reviewer = reviewer
  dual1 = dual1
  dual2 = dual2
  Clients <- Apart
  RolesOf <- RolesApart
  CommandIds <- NineCommands
  Suggestions = {"s1", "empty"}
  Targets <- AdvanceTargets
  Actions = {"approve", "send_back"}
  Stages = {"eligibility", "guardrails"}
  Repository = "postgres"
  MaxVersion = 6
  MaxLag = 6
INVARIANTS TypeOK AuditIsHistory HumanAuthority
PROPERTY ImplementsLifecycle
