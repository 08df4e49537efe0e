SPECIFICATION Spec
CONSTANTS
  t1 = t1
  t2 = t2
  Tasks <- TwoTasks
  WorkerOrder <- DefaultOrder
  MaxAttempts <- AmpleAttempts
  Jobs = {1}
  FailingWorkers = {"human_review"}
  Failures = {"failed_retryable"}
  DecisionActions = {"approve", "send_back"}
  RestartStages = {"guardrails", "supervisor"}
  Selections = {TRUE}
  MaxDecisions = 2
  MaxReplays = 1
  MaxStops = 1
  MaxCancels = 1
  MaxWriteFailures = 1
  MaxMarkFailures = 0
INVARIANTS OneRunner ReviewAfterEveryWorker CompletedOnlyAfterPrecedent WaitingMeansHandedOff
SYMMETRY TaskSymmetry
CHECK_DEADLOCK FALSE
