\* One command at a time, any of which may die; two charges exhaust the wallet exactly.
SPECIFICATION FairSpec
CONSTANTS
  p1 = p1
  Procs = {p1}
  Kinds = {"init", "delegate", "patch", "tick"}
  Initial = 4
  HaltThreshold = 0
  Cost = 2
  MaxCommands = 4
  MaxCrashes = 1
INVARIANTS
  OnlyCrashesLoseSpending
  SnapshotsAnnounced
PROPERTIES
  NeverRefunded
  CommandsEnd
  ImplementsAccount
CHECK_DEADLOCK FALSE
