SPECIFICATION Spec
CONSTANTS
  Base = 2
  Strings <- MCStrings
  Widths = {1, 2}
  kCheapPrepend = 2
  kInitialSize = 2
  Extra = 2
  MaxSize = 7
INVARIANTS
  IndexOrder
PROPERTIES
  FifoSpec
