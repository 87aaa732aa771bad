---------------------------- MODULE MCByteBuffer ----------------------------
(* ByteBuffer on small sets; buffers, addresses and byte values are each    *)
(* interchangeable.                                                        *)
EXTENDS ByteBuffer, TLC

Symmetry ==
  Permutations(Buffers) \cup Permutations(Addresses) \cup Permutations(Bytes)
=============================================================================
