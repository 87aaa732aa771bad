SPECIFICATION Spec
CONSTANTS
  Objects = {o1, o2, o3}
  UsbDevices = {d1}
  Handles = {h1, h2}
  Maps = {m1, m2}
  Interfaces = {i1, i2}
  NULL = NULL
  MaxCount = 2
  Habits = {"claim_twice", "claim_shared"}
SYMMETRY Symmetry
INVARIANTS NoFault HandleCountExact
PROPERTIES ClosedByLastShare HandlesAreShared
