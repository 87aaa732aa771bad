----------------------------- MODULE MCHotplug -----------------------------
(* Hotplug on small sets.  The safety runs take functions and devices as   *)
(* interchangeable; the liveness run takes no symmetry.                    *)
EXTENDS Hotplug, TLC

Symmetry == Permutations(Functions) \cup Permutations(UsbDevices)
=============================================================================
