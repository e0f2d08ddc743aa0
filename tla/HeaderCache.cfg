\* Two messages of up to two headers, folded or not, none with an empty line.
SPECIFICATION Spec
CONSTANTS
  MaxHeaders = 2
  Texts = {{hello}, {hello, today}}
  Name <- Names
  Body = {hello, today}
  Messages <- AllMessages
  Hash <- Collisions
  HashSize = 3
  Room = 2
  MaxParses = 2
  EMPTY = EMPTY
  JUNK = JUNK
  NULL = NULL
INVARIANTS
  TypeOK
  TerminatorFits
  Reachable
PROPERTY
  KeepsHeaders
\* After the last message a context may be left alone.
CHECK_DEADLOCK FALSE
