SPECIFICATION AreasSpec
CONSTANTS
  HeapStart = 4
  HeapMax = 4
  MmapStart = 8
  MmapMax = 4
  StackBottom = 14
  StackTop = 16
  KernelStart = 16
  Program <- Programs
  Prot <- AreaRights
  Break <- Breaks
  LeavesHeapAlone = FALSE
  MaxAreas = 5
INVARIANT CoveredIsFound
