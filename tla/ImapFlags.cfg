\* Three flags, an address more than that, two scripts.
SPECIFICATION Spec
CONSTANTS
  Flag = {deleted, seen, flagged}
  Lists <- ShortLists
  MaxNodes = 4
  MaxTrees = 2
INVARIANTS
  TypeOK
  NodesOwned
  StringsAlive
PROPERTY
  KeepsFlags
\* The program may be past what is defined.
CHECK_DEADLOCK FALSE
