SPECIFICATION Spec
CONSTANTS
  t1 = t1
  t2 = t2
  Tasks <- OneTask
  WorkerOrder <- DefaultOrder
  MaxAttempts <- AmpleAttempts
  Jobs = {1}
  FailingWorkers = {}
  Failures = {}
  DecisionActions = {"send_back"}
  RestartStages = {"financial_analysis", "guardrails"}
  Selections = {TRUE}
  MaxDecisions = 1
  MaxReplays = 0
  MaxStops = 0
  MaxCancels = 0
  MaxWriteFailures = 0
  MaxMarkFailures = 0
INVARIANT RerunReachesReviewer
CHECK_DEADLOCK FALSE
