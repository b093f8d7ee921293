SPECIFICATION Spec
CONSTANTS
  long = long
  short = short
  NoInode = NoInode
  Savers = {w1}
  Snapshots <- Texts
  Length <- TextLength
  Inodes = {1, 2, 3}
INVARIANTS TypeOK NeverPartial
PROPERTY PublishedFileIsStable
