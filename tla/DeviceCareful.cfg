SPECIFICATION Spec
CONSTANTS
  Objects = {o1, o2, o3}
  UsbDevices = {d1, d2}
  Handles = {h1, h2}
  Maps = {m1, m2, m3}
  Interfaces = {i1, i2}
  NULL = NULL
  MaxCount = 2
  Habits = {"reset_shared"}
SYMMETRY Symmetry
INVARIANTS HeldIsClaimed
PROPERTIES ReleasedByLastClaim
