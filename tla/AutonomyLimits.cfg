\* Every envelope, usage and tick within the limit; counters grow one by one.
SPECIFICATION Spec
CONSTANTS
  Capabilities <- MCCapabilities
  Floors <- MCFloors
  MaxLimit = 1
INVARIANTS
  TypeOK
  BoundaryBlocks
  SoulBlockerHeard
PROPERTIES
  NeverMilder
