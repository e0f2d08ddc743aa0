\* Deep scripts executed once; two short ones after each other; callbacks registered or not.
SPECIFICATION MCSpec
CONSTANTS
  Deep = 4
  DeepTypes = {"fileinto", "reject", "stop"}
  Wide = 2
  Scripts <- AllScripts
  Registrations <- SomeRegistrations
  MaxRuns = 2
INVARIANTS
  TypeOK
  RejectExclusive
  HaltIsFinal
  DocumentOrder
  WholePath
PROPERTIES
  KeepsPromise
  Terminates
\* A context nobody uses any more stays as it is.
CHECK_DEADLOCK FALSE
