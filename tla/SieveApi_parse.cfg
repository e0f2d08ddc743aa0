SPECIFICATION Spec
CONSTANTS
  Arrays <- ClientArrays
  Scripts <- ClientScripts
  MaxMessages = 2
  MaxCalls = 5
INVARIANT
  ParseErrorReported
CHECK_DEADLOCK FALSE
