\* One message of up to four headers, some with an empty first line and some
\* of these with a folded line after it.
SPECIFICATION Spec
CONSTANTS
  MaxHeaders = 4
  Texts = {{hello}, {EMPTY}, {EMPTY, today}}
  Name <- Names
  Body = {hello, today}
  Messages <- AllMessages
  Hash <- Collisions
  HashSize = 3
  Room = 2
  MaxParses = 1
  EMPTY = EMPTY
  JUNK = JUNK
  NULL = NULL
INVARIANT
  OwnBodies
CHECK_DEADLOCK FALSE
