SPECIFICATION Spec
CONSTANTS
  Procs = {p1, p2, p3}
  Inodes = {i1, i2}
  Nobody = Nobody
  NoInode = NoInode
  CleanDeletes = FALSE
INVARIANTS MutualExclusion
CHECK_DEADLOCK FALSE
