\* Two commands at once; the second charge lands on the threshold and halts the wallet.
SPECIFICATION Spec
CONSTANTS
  p1 = p1
  p2 = p2
  Procs = {p1, p2}
  Kinds = {"init", "delegate", "patch", "tick"}
  Initial = 5
  HaltThreshold = 1
  Cost = 2
  MaxCommands = 3
  MaxCrashes = 1
SYMMETRY ProcSymmetry
INVARIANTS
  FundsSound
  SavedIsBacked
  PatchesVetted
  Invariant
PROPERTIES
  OneStoryPerDelegation
CHECK_DEADLOCK FALSE
