SPECIFICATION Fat32Spec
CONSTANTS
  SectorBytes = 2
  FatEntries = 4
  DirEntries = 2
  Units = 3
  StemLength = 2
  ExtLength = 1
  Offset = {0, 1, 2, 3, 4, 5}
  Size = {1, 2, 3, 5, 7}
  Disk <- WideDisk
CHECK_DEADLOCK FALSE
INVARIANT NamesAreStored
