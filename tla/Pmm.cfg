SPECIFICATION Spec
CONSTANTS
  MemMap <- MCMemMap
  Batch = 3
  TopFrame = 270
INVARIANTS
  Conservation
  PanicMeansExhausted
PROPERTY
  ImplementsPageAllocator
CHECK_DEADLOCK FALSE
