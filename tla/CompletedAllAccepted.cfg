\* A revisit of a stage the cursor has not reached.
SPECIFICATION Spec
CONSTANTS
  p1 = p1
  Procs = {p1}
  NumStages = 3
  MaxTaskRuns = 5
  MaxRevisions = 1
  MaxWorkerCost = 3
  TaskCost = 1
  Workers = {"fake"}
  ForwardRevisits = TRUE
  MaxTicks = 3
  MaxCommands = 4
  MaxCreates = 0
  MaxCrashes = 0
INVARIANTS
  CompletedMeansAllAccepted
CHECK_DEADLOCK FALSE
