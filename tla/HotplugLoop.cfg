SPECIFICATION Spec
CONSTANTS
  Functions = {f1, f2, f3}
  UsbDevices = {d1, d2}
  Failures = {"register"}
  Arrivals = TRUE
  Reentrant = TRUE
  MaxQueue = 2
CHECK_DEADLOCK FALSE
SYMMETRY Symmetry
INVARIANTS TypeOK HandlerRegistered StopIsComplete LoopIsAlive LoopServes
PROPERTIES ReferencesBalance
