\* Two files of one brick, one event in flight per brick.
CONSTANTS
  b1 = b1
  Brick = {b1}
  Path = {f, g}
  BrickOf <- OneBrick
  Backup = {}
  Hidden = {}
  Unscanned = {}
  Layout = {L1}
  Empty = Empty
  NoFile = NoFile
  NoBrick = NoBrick
  MaxQueue = 1
SYMMETRY Symmetry
SPECIFICATION Spec
INVARIANTS TypeOK SyncedUnlessDropped CopyIsCurrent
PROPERTY ForgottenOnlyAfterAttempt
