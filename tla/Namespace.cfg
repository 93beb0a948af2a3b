SPECIFICATION NamespaceSpec
CONSTANTS
  Archives <- MCArchives
  ChildSlots = 6
  FbSize = 3
  Paths <- MCPathsBelow
INVARIANTS
  LookupExact
  StatExact
