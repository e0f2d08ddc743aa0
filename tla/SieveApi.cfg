\* Every sequence of seven calls by a client with two messages.
SPECIFICATION Spec
CONSTANTS
  Arrays <- ClientArrays
  Scripts <- ClientScripts
  MaxMessages = 2
  MaxCalls = 7
INVARIANTS
  TypeOK
  TreeOwned
  AdmissionIsDue
  RanRequired
  OwnHeaders
PROPERTY
  AcceptedStays
\* The client may stop calling.
CHECK_DEADLOCK FALSE
