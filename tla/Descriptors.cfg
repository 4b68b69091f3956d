SPECIFICATION Spec
CONSTANTS
  t1 = t1
  t2 = t2
  f1 = f1
  Task <- Tasks2
  FdTableSize = 3
  FirstFd = 0
  PoolSize = 1
  PipeSize = 2
  Wrap = 4
  ReadSizes = {1}
  WriteSizes = {1, 2}
  File <- OneFile
  OpenModes = {1}
  RefLimit = 2
SYMMETRY Symmetry
CHECK_DEADLOCK FALSE
INVARIANTS
  
  NoLostWakeup
  BytesInOrder
