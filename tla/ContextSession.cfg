SPECIFICATION Spec
CONSTANTS
  Objects = {c1, c2, c3}
  Sessions = {s1, s2}
  Habits = {"register_copy", "destroy_active", "outlive", "use_moved"}
  Failures = {"register", "spawn"}
  NULL = NULL
SYMMETRY Symmetry
CHECK_DEADLOCK FALSE
INVARIANTS TypeOK ThreadHasSession
PROPERTIES SessionsAreShared
