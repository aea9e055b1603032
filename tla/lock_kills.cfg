SPECIFICATION Spec
CONSTANTS
  Procs = {p1, p2, p3, p4, p5}
  Inodes = {i1, i2, i3}
  Nobody = Nobody
  NoInode = NoInode
  CleanDeletes = TRUE
SYMMETRY Interchangeable
INVARIANTS TypeOK OwnersRun OneRunUntilRemoval
CHECK_DEADLOCK FALSE
