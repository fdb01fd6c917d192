\* Two commands append to one campaign, the clock may be set back.
SPECIFICATION Spec
CONSTANTS
  p1 = p1
  p2 = p2
  Procs = {p1, p2}
  MaxEvents = 4
  MaxSetbacks = 1
SYMMETRY ProcSymmetry
INVARIANTS
  TypeOK
  CausesFirst
  QuietReadsAgree
CHECK_DEADLOCK FALSE
