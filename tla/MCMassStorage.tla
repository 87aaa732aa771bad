--------------------------- MODULE MCMassStorage ---------------------------
(* MassStorage with the sizes at which its conditions turn, and a transfer *)
(* length whose four bytes differ.                                         *)
EXTENDS MassStorage

Request(length, flags, lun, block) ==
  [length |-> length, flags |-> flags, lun |-> lun, block |-> block]

MCRequests ==
  {Request(0, DATA_OUT, 0, <<0, 0, 0, 0, 0, 0>>),
   Request(16909060, DATA_IN, 15, [i \in 1..16 |-> 129 + i]),
   Request(64, DATA_OUT, 1, <<42, 0, 0, 0, 0, 1, 0, 0, 1, 0>>)}

MCLUNs       == {3}
MCPages      == {NoPage, 128}
MCAdditional == {31, 32, 255}
MCPageSizes  == {20, 64}
MCFifthBytes == {0, 255}
MCShortSizes == {0, 13, 35}
=============================================================================
