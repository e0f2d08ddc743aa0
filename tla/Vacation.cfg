SPECIFICATION Spec
CONSTANTS
  MaxDepth = 3
  NULL = NULL
  Word = {"me", "Me", "home", "Home", "friend", "away", "owner", "list-request", "no", "No", "yes", "bulk", "list", "junk", "team"}
  Dotted = {"me.too"}
  SystemName = {"owner"}
  SystemPart = {"list-request"}
  Lower <- MCLower
  Message <- MCMessage
  Request <- MCRequest
INVARIANTS
  TypeOK
  RepliesAreDue
CHECK_DEADLOCK FALSE
