SPECIFICATION Spec
CONSTANTS
  Task = {root, a}
  Root = root
  Fd = {0, 1}
  OpenFile = {f, g}
  Inode = {m}
  Tmp = tmp
  Console = console
  Name = {x}
  MaxRefs = 3
  NULL = NULL
CHECK_DEADLOCK FALSE
SYMMETRY HeapBlocks
INVARIANT NodeRefsAreOpenFiles
