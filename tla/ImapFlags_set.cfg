\* One script with two flags.
SPECIFICATION Spec
CONSTANTS
  Flag = {deleted, seen}
  Lists <- ShortLists
  MaxNodes = 2
  MaxTrees = 1
INVARIANT
  NothingFreedIsRead
CHECK_DEADLOCK FALSE
