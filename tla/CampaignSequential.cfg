\* One command at a time, any of which may die between two commits, with workers
\* that may fail, never fail, or do not exist.
SPECIFICATION FairSpec
CONSTANTS
  p1 = p1
  Procs = {p1}
  NumStages = 3
  MaxTaskRuns = 5
  MaxRevisions = 1
  MaxWorkerCost = 3
  TaskCost = 1
  Workers = {"claude", "fake", "unknown"}
  ForwardRevisits = FALSE
  MaxTicks = 3
  MaxCommands = 3
  MaxCreates = 0
  MaxCrashes = 1
INVARIANTS
  TypeOK
  OneLivePerStage
  LiveIsReferenced
  Frontier
  MemoryInStep
  ReferencesLive
  BriefIsCurrent
PROPERTIES
  CommandsEnd
  FakeRunDelivers
  ImplementsDelivery
CHECK_DEADLOCK FALSE
