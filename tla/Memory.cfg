SPECIFICATION MemorySpec
CONSTANTS
  Task = {root, a, b}
  Root = root
  Page = {p, q}
  Frame = {f, g, h}
  Value = {0, 1}
  Zero = 0
  MaxRef = 3
  MaxSize = 4
  UnmapsShared = FALSE
  NULL = NULL
  HeapStart = 4
  HeapMax = 4
  MmapStart = 8
  MmapMax = 4
  StackBottom = 14
  StackTop = 16
  KernelStart = 16
  Program <- Programs
  Prot <- AreaRights
  Break <- Breaks
  LeavesHeapAlone = TRUE
  MaxAreas = 5
  FrameBytes = 2
  MaxPages = 6
  E820Map <- MCE820
  Holes <- MCHoles
  ArmSize <- MCArmSize
  ArmRanges <- MCArmRanges
  PageBytes = 2
  TablePages = 4
  UserEnd = 16
  StackPages = 1
  StackBytes = 140
  GuardBytes = 20
  Slots = 2
  FrameCount = 8
  Image <- MCImage
  Arguments <- MCArguments
CHECK_DEADLOCK FALSE
SYMMETRY Alike
INVARIANTS
  SharingIsCounted WritableIsPrivate TlbFollowsPageTable
  AreasAreFound EditsAreExact FramesAreSound ProgramArrives EveryFrameIsOwned
PROPERTY Isolation
