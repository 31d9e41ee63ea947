CONSTANTS
  f1 = f1
  f2 = f2
  v0 = v0
  v1 = v1
  SegmentCount = 2
  StorageOffset = 0
  Values = {v0, v1}
  Zero = v0
  Files = {f1, f2}
  Reflink = TRUE
SPECIFICATION Spec
CHECK_DEADLOCK FALSE
PROPERTIES CopyIsTheFile
