SPECIFICATION Spec
CONSTANTS
  Suites <- MCSuites
  NONE = NONE
INVARIANTS TypeOK Verdict Comparisons AskedBound
PROPERTY OnlyWhatIsOpen
\* One test is evaluated, and that is the end.
CHECK_DEADLOCK FALSE
