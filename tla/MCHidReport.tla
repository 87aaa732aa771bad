---------------------------- MODULE MCHidReport ----------------------------
(* HidReport on the descriptors of up to MaxSize bytes that a few prefix   *)
(* bytes can make.                                                         *)
EXTENDS ReportTree

(* 16rA0 Collection, 16rC0 End Collection, 16r80 Input, 16rA4 Push,        *)
(* 16rB4 Pop, 16r04 and 16r15 Usage Page and Logical Minimum (0 and 1 data *)
(* bytes), 16r08 and 16r1B Usage and Usage Minimum (0 and 4 data bytes),   *)
(* 16rFE a long item, 16rF2 a long item that passes for a main item.       *)
MCFirstBytes == {160, 192, 128, 164, 180, 4, 21, 8, 27, 254, 242}
MCSizeBytes == {1}
MCTagBytes == {12}
=============================================================================
