----------------------------- MODULE MCDevice -----------------------------
(* Device on small sets of model values.  Objects, addresses and interface *)
(* numbers are interchangeable in every definition of Device.              *)
EXTENDS Device, TLC

Symmetry ==
  Permutations(Objects) \cup Permutations(Handles) \cup Permutations(Maps)
    \cup Permutations(Interfaces)
=============================================================================
