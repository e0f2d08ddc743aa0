\* Three slots fill up within one callback; the second callback reuses them.
SPECIFICATION Spec
CONSTANTS
  Code = {getheader, vacation}
  Name = {header, body}
  Value = {v1, v2}
  MAX_VALUES = 3
  NULL = NULL
INVARIANTS
  TypeOK
  NamesAllocated
  NamesReleased
PROPERTY
  WriteOnce
