\* One task run: does every section of an accepted text have its heading?
SPECIFICATION Spec
CONSTANTS
  p1 = p1
  Procs = {p1}
  Slugs <- MCSlugs
  RequiredSections <- MCRequiredSections
  Notes <- MCNotes
  Answers <- MCAnswers
  Caches <- MCCaches
  Labels <- MCLabels
  MaxTasks = 1
  MaxOutside = 1
  MaxCrashes = 0
  MaxLines = 4
  MaxDays = 4
  MaxClose = 3
  ShortWindow = 1
  LongWindow = 2
  MinRecords = 3
  YearDays = 2
  FloatLimit = 8
  SquareLimit = 1
INVARIANT SectionsAreHeadings
CHECK_DEADLOCK FALSE
