--------------------------- MODULE WrappersProofs ---------------------------
(***************************************************************************)
(* Proofs about the bytes of Wrappers, for every number of 32 bits, every  *)
(* command block of up to 16 bytes and every size of a response.           *)
(***************************************************************************)
EXTENDS Wrappers, SequenceTheorems, TLAPS

-----------------------------------------------------------------------------
(* A number is the sum of its four bytes.                                  *)

LEMMA ShiftType ==
  ASSUME NEW x \in Uint32, NEW n \in 0..3
  PROVE  Shift(x, n) \in Byte
<1>1. x \in Nat
  BY DEF Uint32
<1>2. n = 0 \/ n = 1 \/ n = 2 \/ n = 3
  OBVIOUS
<1>3. /\ x % 256 \in Byte /\ (x \div 256) % 256 \in Byte
      /\ (x \div 65536) % 256 \in Byte /\ (x \div 16777216) % 256 \in Byte
  BY <1>1 DEF Byte
<1> QED
  BY <1>2, <1>3 DEF Shift

LEMMA SumOfBytes ==
  ASSUME NEW x \in Uint32
  PROVE  Shift(x, 0) + 256 * Shift(x, 1) + 65536 * Shift(x, 2)
           + 16777216 * Shift(x, 3) = x
<1>1. x \in Nat /\ x \div 16777216 \in 0..255
  BY DEF Uint32, Byte
<1>2. x = 256 * (x \div 256) + (x % 256)
  BY <1>1
<1>3. x \div 256 = 256 * (x \div 65536) + ((x \div 256) % 256)
  BY <1>1
<1>4. x \div 65536 = 256 * (x \div 16777216) + ((x \div 65536) % 256)
  BY <1>1
<1>5. (x \div 16777216) % 256 = x \div 16777216
  BY <1>1
<1>6. /\ Shift(x, 0) = x % 256
      /\ Shift(x, 1) = (x \div 256) % 256
      /\ Shift(x, 2) = (x \div 65536) % 256
      /\ Shift(x, 3) = (x \div 16777216) % 256
  BY DEF Shift
<1>7. /\ x \div 256 \in Int /\ x % 256 \in Int
      /\ x \div 65536 \in Int /\ (x \div 256) % 256 \in Int
      /\ x \div 16777216 \in Int /\ (x \div 65536) % 256 \in Int
  BY <1>1
<1> QED
  BY <1>1, <1>2, <1>3, <1>4, <1>5, <1>6, <1>7

-----------------------------------------------------------------------------
(* The getters of CommandBlockWrapper return what its constructor was      *)
(* given, for every tag, length, unit and block.                           *)
THEOREM CommandReadsBack ==
  ASSUME NEW tag \in Uint32, NEW length, NEW flags, NEW lun, NEW block,
         CommandArguments(length, flags, lun, block)
  PROVE  LET b == CommandBlockWrapper(tag, length, flags, lun, block)
         IN  /\ b \in BytesOf(CBW_LEN)
             /\ CommandTag(b) = tag
             /\ TransferLength(b) = length
             /\ Flags(b) = flags
             /\ Lun(b) = lun
             /\ CommandBlock(b) = block
<1> DEFINE b == CommandBlockWrapper(tag, length, flags, lun, block)
<1>1. /\ length \in Uint32
      /\ flags \in {DATA_OUT, DATA_IN}
      /\ lun \in 0..15
      /\ block \in Seq(Byte)
      /\ Len(block) \in 0..16
  <2>1. block \in Seq(Byte) /\ Len(block) <= 16
    BY DEF CommandArguments
  <2>2. Len(block) \in Nat
    BY <2>1, LenProperties
  <2>3. \A n \in Nat : n <= 16 => n \in 0..16
    OBVIOUS
  <2>4. Len(block) \in 0..16
    BY <2>1, <2>2, <2>3, Zenon
  <2> QED
    BY <2>1, <2>4 DEF CommandArguments
<1>2. /\ b[4] = Shift(tag, 0) /\ b[5] = Shift(tag, 1)
      /\ b[6] = Shift(tag, 2) /\ b[7] = Shift(tag, 3)
  BY DEF CommandBlockWrapper, CBW_LEN
<1>3. /\ b[8] = Shift(length, 0) /\ b[9] = Shift(length, 1)
      /\ b[10] = Shift(length, 2) /\ b[11] = Shift(length, 3)
  BY DEF CommandBlockWrapper, CBW_LEN
<1>4. b[12] = flags /\ b[13] = lun /\ b[14] = Len(block)
  <2>1. b[12] = flags /\ b[13] = lun /\ b[14] = Len(block) % 32
    BY DEF CommandBlockWrapper, CBW_LEN
  <2>2. \A n \in 0..16 : n % 32 = n
    OBVIOUS
  <2> QED
    BY <1>1, <2>1, <2>2
<1>5. \A i \in 15..30 :
        b[i] = IF i - 14 \in 1..Len(block) THEN block[i - 14] ELSE 0
  BY DEF CommandBlockWrapper, CBW_LEN
<1>6. b \in BytesOf(CBW_LEN)
  <2>1. \A i \in 0..3 : b[i] \in Byte
    <3>1. /\ b[0] = CBWSignature[1] /\ b[1] = CBWSignature[2]
          /\ b[2] = CBWSignature[3] /\ b[3] = CBWSignature[4]
      BY DEF CommandBlockWrapper, CBW_LEN
    <3>2. \A n \in 1..4 : CBWSignature[n] \in Byte
      BY DEF CBWSignature, Byte
    <3> QED
      BY <3>1, <3>2
  <2>2. \A i \in 4..7 : b[i] \in Byte
    BY <1>2, ShiftType
  <2>3. \A i \in 8..11 : b[i] \in Byte
    BY <1>1, <1>3, ShiftType
  <2>4. \A i \in 12..14 : b[i] \in Byte
    <3>1. flags \in Byte /\ lun \in Byte /\ Len(block) \in Byte
      BY <1>1 DEF Byte, DATA_OUT, DATA_IN
    <3> QED
      BY <1>4, <3>1
  <2>5. \A i \in 15..30 : b[i] \in Byte
    <3>1. \A n \in 1..Len(block) : block[n] \in Byte
      BY <1>1, ElementOfSeq
    <3>2. 0 \in Byte
      BY DEF Byte
    <3> QED
      BY <1>5, <3>1, <3>2
  <2>6. \A i \in 0..30 : b[i] \in Byte
    BY <2>1, <2>2, <2>3, <2>4, <2>5
  <2>7. b = [i \in 0..30 |-> b[i]]
    BY DEF CommandBlockWrapper, CBW_LEN
  <2> QED
    BY <2>6, <2>7 DEF BytesOf, CBW_LEN
<1>7. CommandTag(b) = tag
  <2>1. CommandTag(b) = b[4] + 256 * b[5] + 65536 * b[6] + 16777216 * b[7]
    BY DEF CommandTag, LittleEndian
  <2> QED
    BY <1>2, <2>1, SumOfBytes
<1>8. TransferLength(b) = length
  <2>1. TransferLength(b) = b[8] + 256 * b[9] + 65536 * b[10] + 16777216 * b[11]
    BY DEF TransferLength, LittleEndian
  <2> QED
    BY <1>1, <1>3, <2>1, SumOfBytes
<1>9. Flags(b) = flags
  BY <1>1, <1>4 DEF Flags, DATA_OUT, DATA_IN
<1>10. Lun(b) = lun
  BY <1>4 DEF Lun
<1>11. CommandBlock(b) = block
  <2>1. CommandBlock(b) = [i \in 1..Len(block) |-> b[14 + i]]
    BY <1>4 DEF CommandBlock, CommandBlockLength
  <2>2. ASSUME NEW i \in 1..Len(block)
        PROVE  b[14 + i] = block[i]
    <3>1. 14 + i \in 15..30 /\ (14 + i) - 14 = i
      <4>1. \A n \in 0..16 : \A k \in 1..n : 14 + k \in 15..30 /\ (14 + k) - 14 = k
        OBVIOUS
      <4> QED
        BY <1>1, <4>1, Zenon
    <3>2. b[14 + i] = IF (14 + i) - 14 \in 1..Len(block)
                      THEN block[(14 + i) - 14] ELSE 0
      BY <1>5, <3>1
    <3> QED
      BY <3>1, <3>2
  <2>3. block = [i \in 1..Len(block) |-> block[i]]
    BY <1>1, LenProperties
  <2> QED
    BY <2>1, <2>2, <2>3
<1> HIDE DEF b
<1> QED
  BY <1>6, <1>7, <1>8, <1>9, <1>10, <1>11 DEF b

(* Wrapping the bytes of a wrapper again changes none of them.             *)
THEOREM RewrappingKeepsBytes ==
  ASSUME NEW b \in BytesOf(CBW_LEN)
  PROVE  CommandBlockWrapperOf(b) = b
BY DEF CommandBlockWrapperOf, BytesOf, CBW_LEN

(* The getters of CommandStatusWrapper return what its constructor was     *)
(* given: the byte orders of the two agree with each other.                *)
THEOREM StatusReadsBack ==
  ASSUME NEW tag \in Uint32, NEW residue \in Uint32,
         NEW status \in {PASSED, FAILED, PHASE_ERROR}
  PROVE  LET b == CommandStatusWrapper(tag, residue, status)
         IN  /\ StatusTag(b) = tag
             /\ DataResidue(b) = residue
             /\ Status(b) = status
<1> DEFINE b == CommandStatusWrapper(tag, residue, status)
<1>1. /\ b[4] = Shift(tag, 3) /\ b[5] = Shift(tag, 2)
      /\ b[6] = Shift(tag, 1) /\ b[7] = Shift(tag, 0)
  BY DEF CommandStatusWrapper, CSW_LEN
<1>2. /\ b[8] = Shift(residue, 3) /\ b[9] = Shift(residue, 2)
      /\ b[10] = Shift(residue, 1) /\ b[11] = Shift(residue, 0)
  BY DEF CommandStatusWrapper, CSW_LEN
<1>3. b[12] = status
  BY DEF CommandStatusWrapper, CSW_LEN
<1>4. \A x \in Uint32 : \A n \in 0..3 : Shift(x, n) \in Int
  BY ShiftType DEF Byte
<1>5. StatusTag(b) = tag
  <2>1. StatusTag(b) = 16777216 * b[4] + 65536 * b[5] + 256 * b[6] + b[7]
    BY DEF StatusTag, BigEndian
  <2> QED
    BY <1>1, <1>4, <2>1, SumOfBytes
<1>6. DataResidue(b) = residue
  <2>1. DataResidue(b) = 16777216 * b[8] + 65536 * b[9] + 256 * b[10] + b[11]
    BY DEF DataResidue, BigEndian
  <2> QED
    BY <1>2, <1>4, <2>1, SumOfBytes
<1>7. Status(b) = status
  BY <1>3 DEF Status, PASSED, FAILED, PHASE_ERROR
<1> HIDE DEF b
<1> QED
  BY <1>5, <1>6, <1>7 DEF b

(* No getter of InquiryResponse reads past the end, whatever the size of   *)
(* the response, from the 36 bytes on that its constructors assert.        *)
THEOREM FieldsAlwaysFit ==
  ASSUME NEW size \in Nat, size >= 36
  PROVE  FieldsFit(size)
<1>1. \A at \in 0..7 : Field(at, 1).at + Field(at, 1).length <= size
  BY DEF Field
<1>2. \A f \in {Field(8, 8), Field(16, 16), Field(32, 4),
                IfAtLeast(size, 44, Field(36, 8)),
                IfAtLeast(size, 56, Field(44, 12)),
                IfAtLeast(size, 57, Field(56, 1)),
                IfAtLeast(size, 97, Field(96, size - 96))} :
        f.at + f.length <= size
  BY DEF Field, IfAtLeast
<1>3. ASSUME NEW n \in 0..7
      PROVE  VersionDescriptor(size, n).at + VersionDescriptor(size, n).length <= size
  <2>1. 60 + 2 * n \in Uint32 /\ 58 + 2 * n \in Uint32
    BY DEF Uint32, Byte
  <2> QED
    BY <2>1 DEF VersionDescriptor, IfAtLeast, Field, Word
<1> QED
  BY <1>1, <1>2, <1>3 DEF FieldsFit, ResponseFields

=============================================================================
