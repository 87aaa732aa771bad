SPECIFICATION TreeSpec
CONSTANTS
  FirstBytes <- MCFirstBytes
  SizeBytes <- MCSizeBytes
  TagBytes <- MCTagBytes
  MaxSize = 6
  Trees = {t1, t2}
  Ptrs = {p1, p2}
  Locals = {x1}
  MaxNodes = 3
  NULL = NULL
CHECK_DEADLOCK FALSE
INVARIANTS TypeOK GlobalsInEffect LocalsSinceMain TreeMatchesNesting NullOnlyWhenUnbalanced LivesAsAWhole
