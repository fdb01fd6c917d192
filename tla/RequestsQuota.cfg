\* Task runs requested over several commands.
SPECIFICATION Spec
CONSTANTS
  p1 = p1
  Procs = {p1}
  NumStages = 3
  MaxTaskRuns = 2
  MaxRevisions = 1
  MaxWorkerCost = 3
  TaskCost = 1
  Workers = {"claude", "unknown"}
  ForwardRevisits = FALSE
  MaxTicks = 3
  MaxCommands = 4
  MaxCreates = 0
  MaxCrashes = 0
INVARIANTS
  RequestsWithinQuota
CHECK_DEADLOCK FALSE
