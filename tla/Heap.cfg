SPECIFICATION Spec
CONSTANTS
  SizeMod = 16384
  Requests <- MCRequests
  Counts = {1, 3, 17}
  PhysPages = 5
INVARIANTS
  RegionsApart
PROPERTIES
  ImplementsObjectAllocator
CHECK_DEADLOCK FALSE
