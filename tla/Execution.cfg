\* Two task runs at once, one of them with a text or a price cache from outside.
SPECIFICATION Spec
CONSTANTS
  p1 = p1
  p2 = p2
  Procs = {p1, p2}
  Slugs <- MCSlugs
  RequiredSections <- MCRequiredSections
  Notes <- MCNotes
  Answers <- MCAnswers
  Caches <- MCCaches
  Labels <- MCLabels
  MaxTasks = 2
  MaxOutside = 1
  MaxCrashes = 1
  MaxLines = 4
  MaxDays = 4
  MaxClose = 3
  ShortWindow = 1
  LongWindow = 2
  MinRecords = 3
  YearDays = 2
  FloatLimit = 8
  SquareLimit = 1
SYMMETRY ProcSymmetry
INVARIANTS
  TypeOK
  AcceptedIntact
  AcceptedHasForm
  BriefFollowedPasses
  InHousePasses
  EvidenceFromSeries
  FiguresMatch
  OnlyDeathAbandons
CHECK_DEADLOCK FALSE
