SPECIFICATION Spec
CONSTANTS
  Functions = {f1, f2}
  UsbDevices = {d1, d2}
  Failures = {}
  Arrivals = FALSE
  Reentrant = FALSE
  MaxQueue = 2
CHECK_DEADLOCK FALSE
INVARIANT NoRace
