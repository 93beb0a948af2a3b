SPECIFICATION FairSpec
CONSTANTS
  PageUnits = 2
  Base = 2
  Top = 10
  Lengths = {1, 5}
  UnmapAddrs <- AnyAddress
  Offsets = {2}
  FbSize = 4
  Frames = {1, 2}
INVARIANTS
  FramesExclusive
  PagesListed
  AreasDisjoint
  FindAgrees
  OffsetStable
PROPERTY
  CleanupEnds
