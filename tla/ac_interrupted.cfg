SPECIFICATION Spec
CONSTANTS
  t1 = t1
  t2 = t2
  Tasks <- OneTask
  WorkerOrder <- DefaultOrder
  MaxAttempts <- ProductionAttempts
  Jobs = {1}
  FailingWorkers = {}
  Failures = {}
  DecisionActions = {"approve"}
  RestartStages = {}
  Selections = {TRUE}
  MaxDecisions = 0
  MaxReplays = 0
  MaxStops = 1
  MaxCancels = 0
  MaxWriteFailures = 0
  MaxMarkFailures = 0
INVARIANT InterruptedIsResumable
CHECK_DEADLOCK FALSE
