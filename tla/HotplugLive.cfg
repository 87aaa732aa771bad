SPECIFICATION FairSpec
CONSTANTS
  Functions = {f1, f2}
  UsbDevices = {d1}
  Failures = {"register", "spawn"}
  Arrivals = TRUE
  Reentrant = FALSE
  MaxQueue = 2
CHECK_DEADLOCK FALSE
PROPERTIES StopTerminates RemovalsReported
