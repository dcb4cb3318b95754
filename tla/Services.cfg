SPECIFICATION ServicesSpec
CONSTANTS
  Task = {root, a}
  Root = root
  Fd = {0, 1}
  OpenFile = {f, g}
  Inode = {m, n}
  Tmp = tmp
  Console = console
  Name = {x}
  MaxRefs = 3
  NULL = NULL
  Description = {f, g}
  Byte = {0, 1}
  Junk = Junk
  SmallFile = 4
  MaxFile = 4
  MaxCount = 2
  MaxSeek = 5
  SectorBytes = 2
  FatEntries = 4
  DirEntries = 2
  Units = 3
  StemLength = 2
  ExtLength = 1
  Disk <- MCDisk
  Offset = {0, 1, 2, 3, 4, 5}
  Size = {1, 2, 3, 5, 7}
  PathName = {"dev", "console", "tmp", "mnt", "c", "boot", "a"}
  Asked <- MCAsked
  TarImage <- MCTar
  BlockBytes = 2
  SearchBlocks = 3
  HasFat = TRUE
  MaxHops = 3
  MaxNodes = 17
  MaxOrder = 3
  Thread = {f, g}
  NoBlock = NoBlock
SYMMETRY Alike
CHECK_DEADLOCK FALSE
INVARIANTS
  OpensAreCounted NoUseAfterFree TreeHoldsLiveNodes ConsoleIsExclusive
  SizesAgree ReadsAreExact NamesAreStored NamespaceIsExact HeapIsSound
PROPERTIES ReadsWhatWasWritten AllocatesWhatIsFree
