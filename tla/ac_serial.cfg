SPECIFICATION RetryingSpec
CONSTANTS
  t1 = t1
  t2 = t2
  Tasks <- OneTask
  WorkerOrder <- DefaultOrder
  MaxAttempts <- SecondHandoff
  Jobs = {1, 2}
  FailingWorkers = {"document_processing", "precedent_retrieval", "guardrails"}
  Failures = {"failed_retryable", "needs_attention", "failed_terminal"}
  DecisionActions = {"approve", "send_back"}
  RestartStages = {"financial_analysis", "guardrails", "supervisor"}
  Selections = {TRUE, FALSE}
  MaxDecisions = 2
  MaxReplays = 1
  MaxStops = 0
  MaxCancels = 1
  MaxWriteFailures = 2
  MaxMarkFailures = 1
INVARIANTS TypeOK AttemptsWithinPolicy
PROPERTIES RunsEnd DecisionIsRemembered
CHECK_DEADLOCK FALSE
