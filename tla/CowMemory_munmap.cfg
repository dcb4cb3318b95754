SPECIFICATION Spec
CONSTANTS
  Task = {root, a}
  Root = root
  Page = {p}
  Frame = {f}
  Value = {0, 1}
  Zero = 0
  MaxRef = 3
  MaxSize = 4
  UnmapsShared = TRUE
  NULL = NULL
CHECK_DEADLOCK FALSE
SYMMETRY Alike
INVARIANT FreedFramesAreUnmapped
