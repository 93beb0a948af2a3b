SPECIFICATION Spec
CONSTANTS
  Radix = 2
  FrameCount = 23
  HeapPages = 4
  Units = 2
  Images <- MCImages
  StackTop = 8
  StackPages = 2
  StackGrowth = 2
INVARIANTS
  ElfExact
  TranslationExact
  KernelShared
  FramesUsedOnce
  DestroyExact
  StackSound
PROPERTY
  FaultProgress
CHECK_DEADLOCK FALSE
