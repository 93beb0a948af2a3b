SPECIFICATION Spec
CONSTANTS
  PageUnits = 2
  Base = 2
  Top = 8
  Lengths = {1, 4, 6}
  UnmapAddrs <- PageAligned
  Offsets = {}
  FbSize = 4
  Frames = {1, 2}
PROPERTY
  SplitKeepsUpper
