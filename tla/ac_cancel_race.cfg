SPECIFICATION Spec
CONSTANTS
  t1 = t1
  t2 = t2
  Tasks <- TwoTasks
  WorkerOrder <- DefaultOrder
  MaxAttempts <- ProductionAttempts
  Jobs = {1}
  FailingWorkers = {}
  Failures = {}
  DecisionActions = {"approve"}
  RestartStages = {}
  Selections = {TRUE}
  MaxDecisions = 0
  MaxReplays = 0
  MaxStops = 0
  MaxCancels = 1
  MaxWriteFailures = 0
  MaxMarkFailures = 0
PROPERTY CancelledStays
CHECK_DEADLOCK FALSE
