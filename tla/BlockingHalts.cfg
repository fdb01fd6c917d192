\* What a blocking decision leaves behind.
SPECIFICATION Spec
CONSTANTS
  p1 = p1
  Procs = {p1}
  NumStages = 3
  MaxTaskRuns = 5
  MaxRevisions = 1
  MaxWorkerCost = 3
  TaskCost = 1
  Workers = {"claude", "unknown"}
  ForwardRevisits = FALSE
  MaxTicks = 3
  MaxCommands = 4
  MaxCreates = 0
  MaxCrashes = 0
INVARIANTS
  BlockingDecisionHalts
CHECK_DEADLOCK FALSE
