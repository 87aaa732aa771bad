SPECIFICATION Spec
CONSTANTS
  Objects = {o1, o2, o3}
  UsbDevices = {d1}
  Handles = {h1, h2}
  Maps = {m1, m2}
  Interfaces = {i1}
  NULL = NULL
  MaxCount = 2
  Habits = {"copy_claimed", "close_shared", "claim_twice", "claim_shared", "reset_shared"}
SYMMETRY Symmetry
CHECK_DEADLOCK FALSE
INVARIANTS TypeOK DeviceRefsExact HandleReachable
