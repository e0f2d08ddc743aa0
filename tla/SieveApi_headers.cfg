SPECIFICATION Spec
CONSTANTS
  Arrays <- ClientArrays
  Scripts <- ClientScripts
  MaxMessages = 2
  MaxCalls = 5
PROPERTY
  HeadersOfMessage
CHECK_DEADLOCK FALSE
