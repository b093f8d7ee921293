SPECIFICATION Spec
CONSTANTS
  long = long
  short = short
  NoInode = NoInode
  Savers = {w1, w2}
  Snapshots <- Texts
  Length <- TextLength
  Inodes = {1, 2, 3}
INVARIANT NeverPartial
