\* Two commands at once, create-btc repeated, revisits of any stage.
SPECIFICATION Spec
CONSTANTS
  p1 = p1
  p2 = p2
  Procs = {p1, p2}
  NumStages = 2
  MaxTaskRuns = 2
  MaxRevisions = 1
  MaxWorkerCost = 1
  TaskCost = 1
  Workers = {"claude"}
  ForwardRevisits = TRUE
  MaxTicks = 2
  MaxCommands = 3
  MaxCreates = 1
  MaxCrashes = 0
SYMMETRY ProcSymmetry
INVARIANTS
  QuotaHonoured
  CompletedIffPastLastStage
  ReferencesSound
  Invariant
PROPERTIES
  OneStoryPerRun
CHECK_DEADLOCK FALSE
