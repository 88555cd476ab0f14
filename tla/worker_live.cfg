\* Two files of one brick; a file is absent or has no extents.
CONSTANTS
  b1 = b1
  Brick = {b1}
  Path = {f, g}
  BrickOf <- OneBrick
  Backup = {}
  Hidden = {}
  Unscanned = {}
  Layout = {}
  Empty = Empty
  NoFile = NoFile
  NoBrick = NoBrick
  MaxQueue = 1
SPECIFICATION FairSpec
PROPERTIES EntriesDrain ChangesSettle
