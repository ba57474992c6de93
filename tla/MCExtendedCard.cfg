CONSTANTS
  c1 = c1
  c2 = c2
  c3 = c3
  Fetches = {c1, c2, c3}
  MaxRevision = 3
  Advertising = {1, 3}
  Modifier = TRUE
SPECIFICATION CardSpec
INVARIANTS CardInv CardIsFresh
PROPERTIES HeldFollowsCalls
CHECK_DEADLOCK FALSE
