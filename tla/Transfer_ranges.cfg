CONSTANTS
  v0 = v0
  v1 = v1
  SegmentSize = 2
  Size = 3
  StorageOffset = 1
  StorageSize = 5
  Values = {v0, v1}
  Zero = v0
  Stored <- FullStorage
  Fill = v1
  Lost = Lost
  Kinds = {"fd", "memory", "dummy", "c", "mero"}
  UnitSize = 1
  MaxUnits = 1
SPECIFICATION Spec
CHECK_DEADLOCK FALSE
INVARIANTS TypeOK ContentKept FlushCovers
PROPERTIES NeighboursKept
