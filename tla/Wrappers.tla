------------------------------ MODULE Wrappers ------------------------------
(***************************************************************************)
(* The bytes that MSDevice sends and receives: CommandBlockWrapper         *)
(* (src/src/mscbw.cpp), CommandStatusWrapper (src/src/mscsw.cpp), the SCSI *)
(* inquiry command (src/src/msscsiinquiry.cpp) and the response to it      *)
(* (src/src/msscsiinquiryresponse.cpp).                                    *)
(*                                                                         *)
(* The bytes of a buffer are a function on 0..n-1, with the indices of the *)
(* code.  A buffer is its value here, which ByteBuffer is shown to be.     *)
(***************************************************************************)
EXTENDS Integers, Sequences

Byte == 0..255
Uint32 == {x \in Nat : x \div 16777216 \in Byte}

(* The sum of two numbers, of which 32 bits are kept.                      *)
Word(x) == IF x \in Uint32 THEN x ELSE x - 65536 * 65536

CBW_LEN == 31
CSW_LEN == 13

BytesOf(n) == [0..n - 1 -> Byte]

-----------------------------------------------------------------------------
(* Numbers of 32 bits.                                                     *)

(* Shift(x, n) is (x >> 8 * n) & 0xFF.                                     *)
Shift(x, n) ==
  CASE n = 0 -> x % 256
    [] n = 1 -> (x \div 256) % 256
    [] n = 2 -> (x \div 65536) % 256
    [] n = 3 -> (x \div 16777216) % 256

(* The four bytes from index at on, the first one the least significant.   *)
LittleEndian(b, at) ==
  b[at] + 256 * b[at + 1] + 65536 * b[at + 2] + 16777216 * b[at + 3]

(* The same, the first one the most significant.                           *)
BigEndian(b, at) ==
  16777216 * b[at] + 65536 * b[at + 1] + 256 * b[at + 2] + b[at + 3]

-----------------------------------------------------------------------------
(* CommandBlockWrapper.                                                    *)

DATA_OUT == 0
DATA_IN  == 128
INVALID  == 127

CBWSignature == <<85, 83, 66, 67>>

(* What the assertions of the constructor let pass, apart from blocks of   *)
(* 17 to 31 bytes, which it would write past the end of the buffer.        *)
CommandArguments(length, flags, lun, block) ==
  /\ length \in Uint32
  /\ flags \in {DATA_OUT, DATA_IN}
  /\ lun \in 0..15
  /\ block \in Seq(Byte)
  /\ Len(block) <= 16

CommandBlockWrapper(tag, length, flags, lun, block) ==
  [i \in 0..CBW_LEN - 1 |->
     CASE i \in 0..3   -> CBWSignature[i + 1]
       [] i \in 4..7   -> Shift(tag, i - 4)
       [] i \in 8..11  -> Shift(length, i - 8)
       [] i = 12       -> flags
       [] i = 13       -> lun
       [] i = 14       -> Len(block) % 32
       [] i \in 15..30 -> IF i - 14 \in 1..Len(block) THEN block[i - 14] ELSE 0]

(* The wrapper around the bytes of a buffer of at most 31.                 *)
CommandBlockWrapperOf(buffer) ==
  [i \in 0..CBW_LEN - 1 |-> IF i \in DOMAIN buffer THEN buffer[i] ELSE 0]

CommandTag(b)         == LittleEndian(b, 4)
TransferLength(b)     == LittleEndian(b, 8)
Flags(b)              == IF b[12] % 128 # 0 THEN INVALID ELSE b[12]
Lun(b)                == b[13]
CommandBlockLength(b) == b[14]
CommandBlock(b)       == [i \in 1..CommandBlockLength(b) |-> b[14 + i]]

-----------------------------------------------------------------------------
(* CommandStatusWrapper: its tag and its residue have their most           *)
(* significant byte first.                                                 *)

PASSED      == 0
FAILED      == 1
PHASE_ERROR == 2
OBSOLETE    == 3
RESERVED    == 4

CSWSignature == <<85, 83, 66, 83>>

CommandStatusWrapper(tag, residue, status) ==
  [i \in 0..CSW_LEN - 1 |->
     CASE i \in 0..3  -> CSWSignature[i + 1]
       [] i \in 4..7  -> Shift(tag, 7 - i)
       [] i \in 8..11 -> Shift(residue, 11 - i)
       [] i = 12      -> status]

StatusTag(b)   == BigEndian(b, 4)
DataResidue(b) == BigEndian(b, 8)

Status(b) ==
  CASE b[12] > 5       -> RESERVED
    [] b[12] \in 3..5  -> OBSOLETE
    [] b[12] < 3       -> b[12]

-----------------------------------------------------------------------------
(* The inquiry command: its allocation length, of two bytes in the block   *)
(* and of four in the wrapper, and perhaps a page of vital product data.   *)

INQUIRY == 18
NoPage  == 256

(* Mutant of InquiryBlock: one byte of the allocation length is kept.      *)
InquiryBlockNarrow(allocationLength, page) ==
  << INQUIRY,
     IF page = NoPage THEN 0 ELSE 1,
     IF page = NoPage THEN 0 ELSE page,
     0,
     allocationLength % 256,
     0 >>

InquiryBlock(allocationLength, page) ==
  << INQUIRY,
     IF page = NoPage THEN 0 ELSE 1,
     IF page = NoPage THEN 0 ELSE page,
     (allocationLength \div 256) % 256,
     allocationLength % 256,
     0 >>

Inquiry(tag, lun, allocationLength, page) ==
  CommandBlockWrapper(tag, allocationLength, DATA_IN, lun,
                      InquiryBlock(allocationLength, page))

-----------------------------------------------------------------------------
(* The fields of an InquiryResponse in a buffer of some size: where each   *)
(* begins and how many bytes it has.  Fields that the buffer is too short  *)
(* for are empty.                                                          *)

Field(at, length) == [at |-> at, length |-> length]

IfAtLeast(size, least, field) == IF size >= least THEN field ELSE Field(0, 0)

(* In C++ the sum and the offset are unsigned ints.                        *)
VersionDescriptor(size, n) ==
  IfAtLeast(size, Word(60 + 2 * n), Field(Word(58 + 2 * n), 2))

ResponseFields(size) ==
  {Field(at, 1) : at \in 0..7}
    \cup {Field(8, 8), Field(16, 16), Field(32, 4),
          IfAtLeast(size, 44, Field(36, 8)),
          IfAtLeast(size, 56, Field(44, 12)),
          IfAtLeast(size, 57, Field(56, 1)),
          IfAtLeast(size, 97, Field(96, size - 96))}
    \cup {VersionDescriptor(size, n) : n \in 0..7}

(* No getter reads past the end of the response.                           *)
FieldsFit(size) == \A f \in ResponseFields(size) : f.at + f.length <= size

=============================================================================
