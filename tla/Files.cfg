SPECIFICATION Spec
CONSTANTS
  Procs = {p1, p2}
  Tar = Tar
  Fb = Fb
  Stdin = Stdin
  Stdout = Stdout
  Stderr = Stderr
  Dir = Dir
  Extent <- MCExtent
  TarSize = 2
  FbSize = 1
  Openable = {Tar, Fb}
  Closable = {3, 4}
  Sizes = {2}
  Seeks <- MCSeeks
  BASE_FILE_LIST_SIZE = 3
  BASE_FD_LIST_SIZE = 3
  Failures = {"none", "file", "file table", "fd", "fd table"}
  MaxFiles = 6
INVARIANTS
  NoDangling
  RefcountsExact
  OffsetInRange
PROPERTY
  FdStable
SYMMETRY Processes
CHECK_DEADLOCK FALSE
