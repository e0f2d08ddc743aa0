\* Expressions of up to four parts, texts of up to two bytes and three longer ones.
SPECIFICATION Spec
CONSTANTS
  Char <- Chars
  DupMax = 32767
  Pattern <- patterns
  Program <- programs
  Text <- texts
INVARIANTS
  TypeOK
  Answers
  Closures
  SubsetConstruction
  RightContext
  Window
  ProgramDecides
PROPERTY
  Progress
