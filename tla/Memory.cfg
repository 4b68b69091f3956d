SPECIFICATION Spec
CONSTANTS
  s1 = s1
  s2 = s2
  s3 = s3
  p1 = p1
  p2 = p2
  tab = tab
  Space <- Spaces
  Page <- Pages
  Table <- Tables
  TableOf <- PageToTable
  Dir = dir
  Frame = {1, 2, 3, 4, 5, 6, 7, 8}
  NoFrame = NoFrame
  Value = {0, 1}
  Zero = 0
  RefMax = 3
  Unmapped = Unmapped
  NoSpace = NoSpace
SYMMETRY Symmetry
VIEW UpToFrameNames
CHECK_DEADLOCK FALSE
INVARIANTS
  MemoryIsSound
PROPERTIES
  ImplementsPrivateMemory
