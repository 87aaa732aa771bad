------------------------- MODULE MassStorageProofs -------------------------
(***************************************************************************)
(* Proofs about MassStorage, for all failures, requests, units, pages,     *)
(* additional lengths and sizes of answers, any number of commands the     *)
(* target buffers and any bound of the tags.                               *)
(***************************************************************************)
EXTENDS MassStorage, WrappersProofs

-----------------------------------------------------------------------------
(* The inductive invariant.                                                *)

(* The command under way has the tag before the next one; an inquiry can   *)
(* always be followed by a second one.                                     *)
AskedInTurn ==
  /\ asked.lun \in 0..15
  /\ call # "command" => (IsStandard(cmd) <=> asked.page = NoPage)
  /\ pc # "idle" => tag = CommandTag(cmd) + 1
  /\ pc # "idle" /\ call = "first" => tag < MaxTag /\ asked.length = MIN_LENGTH

(* What may become an InquiryResponse has its 36 bytes.                    *)
HeadersReceived ==
  /\ pc = "status" /\ call = "first" => data.size >= MIN_LENGTH
  /\ pc # "idle" /\ call = "second" => response.size >= MIN_LENGTH
  /\ result.kind = "response" => result.data.size >= MIN_LENGTH

(* The answers to the command made last.                                   *)
AnswersData(m) ==
  /\ m.part = "data"
  /\ m.tag = CommandTag(cmd)
  /\ m.standard <=> IsStandard(cmd)
  /\ ~m.cut => m.size \in FullSizes(cmd)

AnswersStatus(m) ==
  /\ m.part = "status"
  /\ \A i \in 4..7 : m.bytes[i] = cmd[i]

(* What is between host and target, by the phase the host is in.           *)
Silent  == inbox = <<>> /\ outbox = <<>>
Waiting == inbox = <<cmd>> /\ outbox = <<>>

PhasesMeet ==
  /\ pc \in {"idle", "send"} => Silent
  /\ pc = "data" =>
       /\ TransferLength(cmd) # 0
       /\ \/ Waiting
          \/ /\ inbox = <<>>
             /\ outbox = <<outbox[1], outbox[2]>>
             /\ AnswersData(outbox[1])
             /\ AnswersStatus(outbox[2])
  /\ pc = "status" =>
       /\ TransferLength(cmd) # 0 => AnswersData(data)
       /\ \/ Waiting /\ TransferLength(cmd) = 0
          \/ /\ inbox = <<>>
             /\ outbox = <<outbox[1]>>
             /\ AnswersStatus(outbox[1])

(* The second inquiry asks for all standard inquiry data there are; the    *)
(* first response is the answer to the command before.                     *)
ResponsesInOrder ==
  pc # "idle" /\ call = "second" =>
    /\ response.part = "data"
    /\ response.tag + 1 = CommandTag(cmd)
    /\ response.standard <=> asked.page = NoPage
    /\ asked.page = NoPage => TransferLength(cmd) = 5 + additional

InStep ==
  /\ PhasesMeet
  /\ ResponsesInOrder
  /\ StatusAnswersCommand
  /\ InquiryComplete

Inv ==
  /\ TypeOK
  /\ CommandCarriesRequest
  /\ AskedInTurn
  /\ HeadersReceived
  /\ clean => InStep

-----------------------------------------------------------------------------
(* Commands.                                                               *)

LEMMA Uint32IsNat == Uint32 \subseteq Nat
BY DEF Uint32

LEMMA ByteIsNat == Byte \subseteq Nat
BY DEF Byte

(* The numbers read from the bytes of a command.                           *)
LEMMA CommandNumbers ==
  ASSUME NEW c \in Commands
  PROVE  /\ \A i \in 0..30 : c[i] \in Byte
         /\ CommandTag(c) \in Uint32
         /\ TransferLength(c) \in Uint32
<1>1. \A i \in 0..30 : c[i] \in Byte
  BY DEF Commands, BytesOf, CBW_LEN
<1>2. ASSUME NEW at \in {4, 8}
      PROVE  LittleEndian(c, at) \in Uint32
  <2> DEFINE a == c[at]
             b == c[at + 1]
             d == c[at + 2]
             e == c[at + 3]
             r == a + 256 * b + 65536 * d
  <2>1. a \in 0..255 /\ b \in 0..255 /\ d \in 0..255 /\ e \in 0..255
    BY <1>1 DEF Byte
  <2>2. r \in Nat /\ r < 16777216
    <3> HIDE DEF a, b, d
    <3> QED
      BY <2>1, SMT
  <2>3. LittleEndian(c, at) = r + 16777216 * e
    BY <2>1, SMT DEF LittleEndian
  <2> HIDE DEF r, a, b, d, e
  <2>4. r + 16777216 * e \in Nat /\ (r + 16777216 * e) \div 16777216 = e
    BY <2>1, <2>2, SMT
  <2> QED
    BY <2>1, <2>3, <2>4, SMT DEF Uint32, Byte
<1> QED
  BY <1>1, <1>2 DEF CommandTag, TransferLength

(* The lengths that inquiries ask for.                                     *)
Lengths == 0..260

(* The blocks of inquiries are among the blocks that the constructor of    *)
(* CommandBlockWrapper asserts.                                            *)
LEMMA InquiryArguments ==
  ASSUME NEW lun \in 0..15, NEW n \in Lengths, NEW page \in Byte \cup {NoPage}
  PROVE  /\ CommandArguments(n, DATA_IN, lun, InquiryBlock(n, page))
         /\ InquiryBlock(n, page) \in Seq(Byte)
<1> DEFINE block == InquiryBlock(n, page)
<1>0. n \in 0..260
  BY DEF Lengths
<1>1. /\ INQUIRY \in Byte
      /\ (IF page = NoPage THEN 0 ELSE 1) \in Byte
      /\ (IF page = NoPage THEN 0 ELSE page) \in Byte
      /\ (n \div 256) % 256 \in Byte
      /\ n % 256 \in Byte
      /\ 0 \in Byte
  BY <1>0 DEF INQUIRY, NoPage, Byte
<1>2. block \in Seq(Byte) /\ Len(block) = 6
  BY <1>1 DEF InquiryBlock
<1>3. n \in Uint32
  BY <1>0 DEF Uint32, Byte
<1> QED
  BY <1>2, <1>3 DEF CommandArguments

(* The bytes of an inquiry, read by the getters and by the target.         *)
LEMMA InquiryMade ==
  ASSUME NEW tg \in Uint32, NEW lun \in 0..15, NEW n \in Lengths,
         NEW page \in Byte \cup {NoPage}
  PROVE  /\ Inquiry(tg, lun, n, page) \in Commands
         /\ CommandTag(Inquiry(tg, lun, n, page)) = tg
         /\ TransferLength(Inquiry(tg, lun, n, page)) = n
         /\ Flags(Inquiry(tg, lun, n, page)) = DATA_IN
         /\ Lun(Inquiry(tg, lun, n, page)) = lun
         /\ CommandBlock(Inquiry(tg, lun, n, page)) = InquiryBlock(n, page)
         /\ IsInquiry(Inquiry(tg, lun, n, page))
         /\ IsStandard(Inquiry(tg, lun, n, page)) <=> page = NoPage
         /\ 256 * Inquiry(tg, lun, n, page)[18] + Inquiry(tg, lun, n, page)[19] = n
<1> DEFINE block == InquiryBlock(n, page)
           c     == Inquiry(tg, lun, n, page)
<1>1. c = CommandBlockWrapper(tg, n, DATA_IN, lun, block)
  BY DEF Inquiry
<1>2. /\ c \in Commands
      /\ CommandTag(c) = tg
      /\ TransferLength(c) = n
      /\ Flags(c) = DATA_IN
      /\ Lun(c) = lun
      /\ CommandBlock(c) = block
  <2>1. CommandArguments(n, DATA_IN, lun, block)
    BY InquiryArguments
  <2> DEFINE w == CommandBlockWrapper(tg, n, DATA_IN, lun, block)
  <2> HIDE DEF block
  <2>2. /\ w \in BytesOf(CBW_LEN)
        /\ CommandTag(w) = tg
        /\ TransferLength(w) = n
        /\ Flags(w) = DATA_IN
        /\ Lun(w) = lun
        /\ CommandBlock(w) = block
    BY <2>1, CommandReadsBack
  <2> QED
    BY <1>1, <2>2 DEF Commands
<1>3. /\ Len(block) = 6
      /\ block[1] = INQUIRY
      /\ block[2] = IF page = NoPage THEN 0 ELSE 1
      /\ block[4] = (n \div 256) % 256
      /\ block[5] = n % 256
  BY DEF InquiryBlock
<1> HIDE DEF block
<1>4. /\ c[15] = block[1] /\ c[16] = block[2]
      /\ c[18] = block[4] /\ c[19] = block[5]
  <2> HIDE DEF c
  <2>1. /\ c[15] = IF 15 - 14 \in 1..Len(block) THEN block[15 - 14] ELSE 0
        /\ c[16] = IF 16 - 14 \in 1..Len(block) THEN block[16 - 14] ELSE 0
        /\ c[18] = IF 18 - 14 \in 1..Len(block) THEN block[18 - 14] ELSE 0
        /\ c[19] = IF 19 - 14 \in 1..Len(block) THEN block[19 - 14] ELSE 0
    BY <1>1 DEF CommandBlockWrapper, CBW_LEN
  <2> QED
    BY <1>3, <2>1
<1>5. /\ c[15] = INQUIRY /\ c[16] = (IF page = NoPage THEN 0 ELSE 1)
      /\ c[18] = (n \div 256) % 256 /\ c[19] = n % 256
  BY <1>3, <1>4
<1>6. 256 * ((n \div 256) % 256) + (n % 256) = n
  BY DEF Lengths
<1> HIDE DEF c
<1>7. /\ IsInquiry(c) /\ (IsStandard(c) <=> page = NoPage)
      /\ 256 * c[18] + c[19] = n
  BY <1>5, <1>6 DEF IsInquiry, IsStandard
<1> QED
  BY <1>2, <1>7 DEF c, block

-----------------------------------------------------------------------------
(* Answers.                                                                *)

(* The sizes of answers.                                                   *)
LEMMA AnswerSizes ==
  ASSUME NEW c \in Commands, additional \in Additional
  PROVE  /\ FullSizes(c) \subseteq Nat
         /\ \A full \in Nat : \A n \in Sizes(full) : n \in Nat
<1>0. /\ Additional \subseteq 31..255 /\ ShortSizes \subseteq Nat
      /\ PageSizes \subseteq Nat
  BY ConstantsAssumption
<1>1. InquirySizes(c) \subseteq Nat
  BY <1>0 DEF InquirySizes
<1>2. TransferLength(c) \in Nat /\ c[18] \in Nat /\ c[19] \in Nat
  <2>1. TransferLength(c) \in Uint32 /\ \A i \in 0..30 : c[i] \in Byte
    BY CommandNumbers
  <2>2. c[18] \in Byte /\ c[19] \in Byte
    BY <2>1
  <2> QED
    BY <2>1, <2>2, Uint32IsNat, ByteIsNat
<1>3. FullSizes(c) \subseteq Nat
  <2>1. \A n \in Nat :
          Least(Least(n, 256 * c[18] + c[19]), TransferLength(c)) \in Nat
    BY <1>2 DEF Least
  <2> QED
    BY <1>1, <1>2, <2>1 DEF FullSizes
<1>4. \A full \in Nat : \A n \in Sizes(full) : n \in Nat
  BY <1>0 DEF Sizes
<1> QED
  BY <1>3, <1>4

LEMMA MessageMade ==
  ASSUME NEW c \in Commands, NEW part \in {"data", "status"},
         NEW full \in Nat, NEW n \in Nat
  PROVE  /\ Message(c, part, full, n) \in Messages
         /\ Message(c, part, full, n).part = part
         /\ Message(c, part, full, n).tag = CommandTag(c)
         /\ Message(c, part, full, n).size = n
         /\ Message(c, part, full, n).standard <=>
              IsStandard(c) /\ part = "data"
         /\ Message(c, part, full, n).cut <=> n # full
         /\ part = "status" =>
              \A i \in 4..7 : Message(c, part, full, n).bytes[i] = c[i]
<1>1. NoBytes \in BytesOf(CSW_LEN)
  BY DEF NoBytes, BytesOf, Byte, CSW_LEN
<1>2. StatusBytes(c) \in BytesOf(CSW_LEN)
  <2>1. \A i \in 0..3 : CSWSignature[i + 1] \in Byte
    BY DEF CSWSignature, Byte
  <2>2. \A i \in 4..7 : c[i] \in Byte
    BY CommandNumbers
  <2>3. 0 \in Byte
    BY DEF Byte
  <2> QED
    BY <2>1, <2>2, <2>3 DEF StatusBytes, BytesOf, CSW_LEN
<1>3. \A i \in 4..7 : StatusBytes(c)[i] = c[i]
  BY DEF StatusBytes, CSW_LEN
<1>4. CommandTag(c) \in Uint32
  BY CommandNumbers
<1>5. (IF part = "status" THEN StatusBytes(c) ELSE NoBytes) \in BytesOf(CSW_LEN)
  BY <1>1, <1>2
<1>6. (IsStandard(c) /\ part = "data") \in BOOLEAN /\ (n # full) \in BOOLEAN
  OBVIOUS
<1>7. Message(c, part, full, n) \in Messages
  BY <1>4, <1>5, <1>6 DEF Message, Messages
<1> QED
  BY <1>3, <1>7 DEF Message

-----------------------------------------------------------------------------
(* What is asked.                                                          *)

(* The next tag.                                                           *)
LEMMA TagsFollow ==
  ASSUME tag \in Tags, tag < MaxTag
  PROVE  tag \in Uint32 /\ NextTag = tag + 1 /\ NextTag \in Tags
<1>1. MaxTag \in Uint32
  BY ConstantsAssumption
<1>2. \A x \in Nat, y \in Nat :
        x <= y /\ y \div 16777216 \in 0..255 => x \div 16777216 \in 0..255
  BY SMT
<1>3. \A x \in Nat, y \in Uint32 : x <= y => x \in Uint32
  BY <1>2, SMT DEF Uint32, Byte
<1>4. MaxTag \in Nat /\ tag \in Nat /\ tag + 1 \in Nat
      /\ tag <= MaxTag /\ tag + 1 <= MaxTag
  BY <1>1, Uint32IsNat DEF Tags
<1>5. tag \in Uint32 /\ tag + 1 \in Uint32
  BY <1>1, <1>3, <1>4
<1> QED
  BY <1>4, <1>5 DEF NextTag, Word, Tags

(* The command under way, its tag, and what the client asked for.          *)
Asking ==
  /\ cmd \in Commands
  /\ asked \in Requested
  /\ call # "command" => TransferLength(cmd) >= MIN_LENGTH
  /\ tag \in Tags
  /\ CommandCarriesRequest
  /\ AskedInTurn

(* Between the steps that make a command.                                  *)
LEMMA AskingKept ==
  ASSUME Asking, UNCHANGED <<call, asked, cmd, tag>>, pc = "idle" => pc' = "idle"
  PROVE  Asking'
BY DEF Asking, CommandCarriesRequest, AskedInTurn

LEMMA AskingCommand ==
  ASSUME Asking, NEW q \in Requests, NEW w \in BOOLEAN, CallCommand(q, w)
  PROVE  /\ Asking'
         /\ CommandTag(cmd') = tag /\ tag' = tag + 1
<1>1. /\ tag < MaxTag /\ call' = "command" /\ tag' = NextTag
      /\ cmd' = CommandBlockWrapper(tag, q.length, q.flags, q.lun, q.block)
      /\ asked' = [length |-> q.length, flags |-> q.flags, lun |-> q.lun,
                   block |-> q.block, page |-> NoPage]
  BY DEF CallCommand
<1>2. tag \in Uint32 /\ NextTag = tag + 1 /\ NextTag \in Tags
  BY <1>1, TagsFollow DEF Asking
<1>3. CommandArguments(q.length, q.flags, q.lun, q.block)
  BY ConstantsAssumption
<1>4. /\ cmd' \in Commands
      /\ CommandTag(cmd') = tag
      /\ TransferLength(cmd') = q.length
      /\ Flags(cmd') = q.flags
      /\ Lun(cmd') = q.lun
      /\ CommandBlock(cmd') = q.block
  <2> DEFINE c == CommandBlockWrapper(tag, q.length, q.flags, q.lun, q.block)
  <2>1. /\ c \in BytesOf(CBW_LEN)
        /\ CommandTag(c) = tag
        /\ TransferLength(c) = q.length
        /\ Flags(c) = q.flags
        /\ Lun(c) = q.lun
        /\ CommandBlock(c) = q.block
    BY <1>2, <1>3, CommandReadsBack
  <2> QED
    BY <1>1, <2>1 DEF Commands
<1>5. asked' \in Requested /\ asked'.lun \in 0..15
  <2>1. /\ q.length \in Uint32 /\ q.flags \in {0, 128}
        /\ q.lun \in 0..15 /\ q.block \in Seq(Byte)
    BY <1>3, Zenon DEF CommandArguments, DATA_OUT, DATA_IN
  <2>2. q.flags \in Byte /\ q.lun \in Byte
    BY <2>1 DEF Byte
  <2> QED
    BY <1>1, <2>1, <2>2 DEF Requested
<1>6. CommandCarriesRequest'
  <2>1. Word(CommandTag(cmd') + 1) = tag'
    BY <1>1, <1>2, <1>4 DEF NextTag
  <2> QED
    BY <1>1, <1>4, <2>1 DEF CommandCarriesRequest
<1>7. AskedInTurn'
  BY <1>1, <1>2, <1>4, <1>5 DEF AskedInTurn
<1> QED
  BY <1>1, <1>2, <1>4, <1>5, <1>6, <1>7 DEF Asking

LEMMA AskingInquiry ==
  ASSUME tag \in Tags, tag < MaxTag,
         NEW which \in {"first", "second"}, NEW lun \in 0..15,
         NEW page \in Byte \cup {NoPage}, NEW n \in MIN_LENGTH..260,
         which = "first" => tag + 1 < MaxTag /\ n = MIN_LENGTH,
         AskInquiry(which, lun, page, n)
  PROVE  /\ Asking'
         /\ CommandTag(cmd') = tag /\ tag' = tag + 1
         /\ TransferLength(cmd') = n
         /\ asked'.page = page
<1>1. /\ pc' = "send" /\ call' = which
      /\ asked' = [length |-> n, flags |-> DATA_IN, lun |-> lun,
                   block |-> InquiryBlock(n, page), page |-> page]
      /\ cmd' = Inquiry(tag, lun, n, page)
      /\ tag' = NextTag
  BY DEF AskInquiry
<1>2. tag \in Uint32 /\ NextTag = tag + 1 /\ NextTag \in Tags
  BY TagsFollow
<1>3. n \in Lengths
  BY DEF MIN_LENGTH, Lengths
<1>4. /\ cmd' \in Commands
      /\ CommandTag(cmd') = tag
      /\ TransferLength(cmd') = n
      /\ Flags(cmd') = DATA_IN
      /\ Lun(cmd') = lun
      /\ CommandBlock(cmd') = InquiryBlock(n, page)
      /\ IsInquiry(cmd')
      /\ IsStandard(cmd') <=> page = NoPage
      /\ 256 * cmd'[18] + cmd'[19] = n
  <2> DEFINE c == Inquiry(tag, lun, n, page)
  <2>1. /\ c \in Commands
        /\ CommandTag(c) = tag
        /\ TransferLength(c) = n
        /\ Flags(c) = DATA_IN
        /\ Lun(c) = lun
        /\ CommandBlock(c) = InquiryBlock(n, page)
        /\ IsInquiry(c)
        /\ IsStandard(c) <=> page = NoPage
        /\ 256 * c[18] + c[19] = n
    BY <1>2, <1>3, InquiryMade
  <2> QED
    BY <1>1, <2>1
<1>5. asked' \in Requested
  <2>1. n \in Uint32 /\ DATA_IN \in Byte /\ lun \in Byte
    BY <1>3, SMT DEF Uint32, Byte, DATA_IN, Lengths
  <2>2. InquiryBlock(n, page) \in Seq(Byte)
    BY <1>3, InquiryArguments
  <2> QED
    BY <1>1, <2>1, <2>2 DEF Requested
<1>6. CommandCarriesRequest'
  <2>1. Word(CommandTag(cmd') + 1) = tag'
    BY <1>1, <1>2, <1>4 DEF NextTag
  <2> QED
    BY <1>1, <1>4, <2>1 DEF CommandCarriesRequest
<1>7. AskedInTurn'
  BY <1>1, <1>2, <1>4 DEF AskedInTurn
<1>8. TransferLength(cmd') >= MIN_LENGTH
  BY <1>4 DEF MIN_LENGTH
<1> QED
  BY <1>1, <1>2, <1>4, <1>5, <1>6, <1>7, <1>8 DEF Asking

(* Every step that is not one of these three keeps or ends the call.       *)
LEMMA CallGoesOn ==
  ASSUME Next,
         ~\E q \in Requests, w \in BOOLEAN : CallCommand(q, w),
         ~\E lun \in LUNs, page \in Pages : CallInquiry(lun, page),
         ~ReadFirstStatus
  PROVE  UNCHANGED <<call, asked, cmd, tag>> /\ (pc = "idle" => pc' = "idle")
BY DEF Next, HostStep, Mishap, Send, SendFails, SendTimesOut, ReadOverflows,
       ReadTimesOut, ReadFails, OutOfMemory, NoMemory, Lost, ReadData,
       ReadFirst, ReadSecond, ReadStatus, ReadSecondStatus, Execute, GoOn,
       Fail, Throw, Respond, Return, hostVars

(* The second inquiry, after a first response that announces more.         *)
LEMMA AskingMore ==
  ASSUME Asking, additional \in Additional, ReadFirstStatus, pc' # "idle"
  PROVE  /\ Asking'
         /\ CommandTag(cmd') = tag /\ tag' = tag + 1
         /\ data.standard => TransferLength(cmd') = 5 + additional
         /\ asked'.page = asked.page
         /\ pc' = "send" /\ call' = "second"
<1>1. pc = "status" /\ call = "first"
  BY DEF ReadFirstStatus
<1>2. PICK length \in AdditionalLength(data) :
        /\ NeedsMore(length)
        /\ AskInquiry("second", asked.lun, asked.page, AllocationLength(length))
  BY DEF ReadFirstStatus, NoMemory, Throw, Respond, Return
<1>3. Additional \subseteq 31..255 /\ FifthBytes \subseteq 0..255
  BY ConstantsAssumption DEF Byte
<1>4. length \in 0..255 /\ (data.standard => length = additional)
  BY <1>3 DEF AdditionalLength
<1>5. AllocationLength(length) = 5 + length /\ 5 + length \in MIN_LENGTH..260
  BY <1>2, <1>4 DEF AllocationLength, MIN_LENGTH, NeedsMore
<1>6. /\ tag \in Tags /\ tag < MaxTag /\ asked.lun \in 0..15
      /\ asked.page \in Byte \cup {NoPage}
  BY <1>1 DEF Asking, AskedInTurn, Requested
<1>7. /\ Asking'
      /\ CommandTag(cmd') = tag /\ tag' = tag + 1
      /\ TransferLength(cmd') = 5 + length
      /\ asked'.page = asked.page
  <2> DEFINE n == AllocationLength(length)
  <2>1. n \in MIN_LENGTH..260 /\ n = 5 + length
    BY <1>5
  <2>2. AskInquiry("second", asked.lun, asked.page, n)
    BY <1>2
  <2> HIDE DEF n
  <2>3. TransferLength(cmd') = n /\ Asking' /\ CommandTag(cmd') = tag
          /\ tag' = tag + 1 /\ asked'.page = asked.page
    BY <1>6, <2>1, <2>2, AskingInquiry
  <2> QED
    BY <2>1, <2>3
<1>8. pc' = "send" /\ call' = "second"
  BY <1>2 DEF AskInquiry
<1> QED
  BY <1>4, <1>7, <1>8

LEMMA AskingFirst ==
  ASSUME Asking, NEW lun \in LUNs, NEW page \in Pages, CallInquiry(lun, page)
  PROVE  /\ Asking'
         /\ CommandTag(cmd') = tag /\ tag' = tag + 1
<1>1. lun \in 0..15 /\ page \in Byte \cup {NoPage}
  BY ConstantsAssumption
<1>2. /\ tag + 1 < MaxTag /\ AskInquiry("first", lun, page, MIN_LENGTH)
      /\ tag \in Tags
  BY DEF CallInquiry, Asking
<1>3. tag < MaxTag
  <2>1. MaxTag \in Nat /\ tag \in Nat
    BY <1>2, ConstantsAssumption, Uint32IsNat DEF Tags
  <2> QED
    BY <1>2, <2>1
<1>4. MIN_LENGTH \in MIN_LENGTH..260
  BY DEF MIN_LENGTH
<1> QED
  BY <1>1, <1>2, <1>3, <1>4, AskingInquiry

LEMMA NextAsking ==
  ASSUME Asking, additional \in Additional, Next
  PROVE  Asking'
<1>1. CASE ReadFirstStatus /\ pc' = "idle"
  <2>1. UNCHANGED <<call, asked, cmd, tag>>
    BY <1>1 DEF ReadFirstStatus, NoMemory, Throw, Respond, Return, AskInquiry
  <2> QED
    BY <1>1, <2>1, AskingKept
<1>2. CASE ReadFirstStatus /\ pc' # "idle"
  BY <1>2, AskingMore
<1> QED
  BY <1>1, <1>2, CallGoesOn, AskingKept, AskingFirst, AskingCommand

-----------------------------------------------------------------------------
(* The types, and the headers of responses.                                *)

Results == [kind : {"none", "error", "status", "response"},
            data : Messages, status : Messages]

LEMMA NoMessageTyped == NoMessage \in Messages
<1>1. NoBytes \in BytesOf(CSW_LEN)
  BY DEF NoBytes, BytesOf, Byte, CSW_LEN
<1>2. 0 \in Uint32
  BY SMT DEF Uint32, Byte
<1> QED
  BY <1>1, <1>2 DEF NoMessage, Messages

LEMMA RespondTyped ==
  ASSUME NEW m \in Messages, Respond(m)
  PROVE  /\ pc' = "idle" /\ UNCHANGED <<call, wants, asked, cmd, tag>>
         /\ result' \in Results
         /\ result'.kind = "response"
         /\ result'.data = m
BY NoMessageTyped DEF Respond, Return, Results

(* However a call fails, it returns; a response it returns is the first.   *)
LEMMA FailEnds ==
  ASSUME response \in Messages, Fail
  PROVE  /\ pc' = "idle" /\ UNCHANGED <<call, wants, asked, cmd, tag>>
         /\ result' \in Results
         /\ result'.kind \in {"error", "response"}
         /\ result'.kind = "response" <=> call = "second"
         /\ result'.kind = "response" => result'.data = response
<1>1. CASE call = "second"
  BY <1>1, RespondTyped DEF Fail
<1>2. CASE call # "second"
  BY <1>2, NoMessageTyped DEF Fail, Throw, Return, Results
<1> QED
  BY <1>1, <1>2

(* The transfers keep the two buffers of the target within their bounds.   *)
LEMMA BuffersTyped ==
  ASSUME TypeOK, Next
  PROVE  /\ inbox' \in Seq(Commands) /\ Len(inbox') <= InboxSize
         /\ outbox' \in Seq(Messages) /\ Len(outbox') <= 2
<1> USE DEF TypeOK
<1>1. Len(inbox) \in Nat /\ Len(outbox) \in Nat /\ InboxSize \in Nat
  BY ConstantsAssumption, LenProperties
<1>2. CASE Send \/ SendTimesOut
  <2>1. /\ inbox' = Append(inbox, cmd) /\ Len(inbox) < InboxSize
        /\ outbox' = outbox
    BY <1>2 DEF Send, SendTimesOut
  <2>2. inbox' \in Seq(Commands) /\ Len(inbox') = Len(inbox) + 1
    BY <2>1, AppendProperties
  <2> QED
    BY <1>1, <2>1, <2>2
<1>3. CASE outbox # <<>> /\ outbox' = Tail(outbox) /\ inbox' = inbox
  <2>1. outbox # <<>> /\ outbox' = Tail(outbox) /\ inbox' = inbox
    BY <1>3
  <2>2. outbox' \in Seq(Messages) /\ Len(outbox') = Len(outbox) - 1
    BY <2>1, HeadTailProperties, EmptySeq
  <2> QED
    BY <1>1, <2>1, <2>2
<1>4. CASE Execute
  <2>1. inbox # <<>> /\ inbox' = Tail(inbox)
    BY <1>4 DEF Execute
  <2>2. /\ inbox' \in Seq(Commands) /\ Len(inbox') = Len(inbox) - 1
        /\ Head(inbox) \in Commands
    BY <2>1, HeadTailProperties, EmptySeq
  <2> DEFINE c == Head(inbox)
  <2>3. PICK full \in FullSizes(c), s \in Sizes(CSW_LEN) :
          \E n \in Sizes(full) :
            outbox' = (IF TransferLength(c) = 0 THEN <<>>
                       ELSE <<Message(c, "data", full, n)>>)
                      \o <<Message(c, "status", CSW_LEN, s)>>
    BY <1>4 DEF Execute
  <2>0. PICK n \in Sizes(full) :
          outbox' = (IF TransferLength(c) = 0 THEN <<>>
                     ELSE <<Message(c, "data", full, n)>>)
                    \o <<Message(c, "status", CSW_LEN, s)>>
    BY <2>3
  <2>4. CSW_LEN \in Nat /\ full \in Nat /\ n \in Nat /\ s \in Nat
    BY <2>2, AnswerSizes DEF CSW_LEN
  <2>5. /\ Message(c, "data", full, n) \in Messages
        /\ Message(c, "status", CSW_LEN, s) \in Messages
    BY <2>2, <2>4, MessageMade
  <2> HIDE DEF c
  <2>6. outbox' \in Seq(Messages) /\ Len(outbox') <= 2
    BY <2>0, <2>5
  <2> QED
    BY <1>1, <2>2, <2>6
<1>5. CASE UNCHANGED <<inbox, outbox>>
  BY <1>5
<1>6. \/ Send \/ SendTimesOut \/ Execute \/ UNCHANGED <<inbox, outbox>>
      \/ outbox # <<>> /\ outbox' = Tail(outbox) /\ inbox' = inbox
  BY DEF Next, HostStep, Mishap, CallCommand, CallInquiry, SendFails,
         ReadOverflows, ReadTimesOut, ReadFails, Lost, OutOfMemory, ReadData,
         ReadFirst, ReadSecond, ReadStatus, ReadFirstStatus, ReadSecondStatus,
         Receive, targetVars
<1> QED
  BY <1>2, <1>3, <1>4, <1>5, <1>6

LEMMA TypesKept ==
  ASSUME TypeOK, Asking', Next
  PROVE  TypeOK'
<1>1. /\ inbox' \in Seq(Commands) /\ Len(inbox') <= InboxSize
      /\ outbox' \in Seq(Messages) /\ Len(outbox') <= 2
  BY BuffersTyped
<1>2. /\ cmd' \in Commands /\ asked' \in Requested /\ tag' \in Tags
      /\ call' # "command" => TransferLength(cmd') >= MIN_LENGTH
  BY DEF Asking
<1>3. additional' = additional
  BY DEF Next, HostStep, Mishap, CallCommand, CallInquiry, Send, SendFails,
         SendTimesOut, ReadOverflows, ReadTimesOut, ReadFails, OutOfMemory,
         NoMemory, Lost, ReadData, ReadFirst, ReadSecond, ReadStatus,
         ReadFirstStatus, ReadSecondStatus, Execute, Receive, targetVars
<1>4. outbox # <<>> => Answer \in Messages
  BY HeadTailProperties DEF TypeOK, Answer
<1>5. data' \in Messages /\ response' \in Messages
  BY <1>4
     DEF Next, HostStep, Mishap, CallCommand, CallInquiry, Send, SendFails,
         SendTimesOut, ReadOverflows, ReadTimesOut, ReadFails, OutOfMemory,
         NoMemory, Lost, ReadData, ReadFirst, ReadSecond, ReadStatus,
         ReadFirstStatus, ReadSecondStatus, Execute, Receive, hostVars, TypeOK
<1>6. clean' \in BOOLEAN
  BY DEF Next, HostStep, Mishap, CallCommand, CallInquiry, Send, SendFails,
         SendTimesOut, ReadOverflows, ReadTimesOut, ReadFails, OutOfMemory,
         NoMemory, Lost, ReadData, ReadFirst, ReadSecond, ReadStatus,
         ReadFirstStatus, ReadSecondStatus, Execute, TypeOK
<1>7. /\ pc' \in {"idle", "send", "data", "status", "broken"}
      /\ call' \in {"command", "first", "second"}
      /\ wants' \in BOOLEAN
  BY DEF Next, HostStep, Mishap, CallCommand, CallInquiry, Send, SendFails,
         SendTimesOut, ReadOverflows, ReadTimesOut, ReadFails, OutOfMemory,
         NoMemory, Lost, ReadData, ReadFirst, ReadSecond, ReadStatus,
         ReadFirstStatus, ReadSecondStatus, Execute, hostVars, GoOn, Fail,
         Throw, Respond, Return, AskInquiry, PhaseAfterCommand, TypeOK
<1>8. result' \in Results
  <2>1. result \in Results /\ data \in Messages /\ response \in Messages
    BY DEF TypeOK, Results
  <2>2. CASE Fail
    BY <2>1, <2>2, FailEnds
  <2>3. CASE Throw
    BY <2>3, NoMessageTyped DEF Throw, Return, Results
  <2>4. CASE \E m \in Messages : Respond(m)
    BY <2>4, RespondTyped
  <2>5. CASE ReadStatus
    <3>1. outbox # <<>>
      BY <2>5 DEF ReadStatus, Receive
    <3>2. CASE Throw
      BY <3>2, <2>3
    <3>3. CASE Return([kind |-> "status", data |-> data, status |-> Answer])
      BY <1>4, <2>1, <3>1, <3>3 DEF Return, Results
    <3> QED
      BY <2>5, <3>2, <3>3 DEF ReadStatus
  <2>6. \/ Fail \/ Throw \/ (\E m \in Messages : Respond(m)) \/ ReadStatus
        \/ UNCHANGED result
    BY <2>1
       DEF Next, HostStep, Mishap, CallCommand, CallInquiry, Send, SendFails,
           SendTimesOut, ReadOverflows, ReadTimesOut, ReadFails, OutOfMemory,
           NoMemory, Lost, ReadData, ReadFirst, ReadSecond, ReadFirstStatus,
           ReadSecondStatus, Execute, hostVars, GoOn
  <2> QED
    BY <2>1, <2>2, <2>3, <2>4, <2>5, <2>6
<1> QED
  BY <1>1, <1>2, <1>3, <1>5, <1>6, <1>7, <1>8 DEF TypeOK, Results

LEMMA NextHeaders ==
  ASSUME TypeOK, AskedInTurn, HeadersReceived, Next
  PROVE  HeadersReceived'
<1>1. data \in Messages /\ response \in Messages
  BY DEF TypeOK
<1>2. CASE \/ \E q \in Requests, w \in BOOLEAN : CallCommand(q, w)
           \/ \E lun \in LUNs, page \in Pages : CallInquiry(lun, page)
  BY <1>2 DEF CallCommand, CallInquiry, AskInquiry, HeadersReceived
<1>3. CASE \/ SendFails \/ SendTimesOut \/ ReadOverflows \/ ReadTimesOut
           \/ ReadFails
  <2>1. Fail /\ UNCHANGED response /\ pc # "idle"
    BY <1>3 DEF SendFails, SendTimesOut, ReadOverflows, ReadTimesOut, ReadFails
  <2> QED
    BY <1>1, <2>1, FailEnds DEF HeadersReceived
<1>4. CASE Send
  <2>1. call = "first" => TransferLength(cmd) # 0
    BY DEF TypeOK, MIN_LENGTH
  <2> QED
    BY <1>4, <2>1 DEF Send, GoOn, HeadersReceived, PhaseAfterCommand
<1>5. CASE ReadData \/ ReadSecond \/ Execute \/ OutOfMemory
  BY <1>5 DEF ReadData, ReadSecond, Execute, OutOfMemory, NoMemory, Throw,
              Return, GoOn, hostVars, HeadersReceived
<1>6. CASE ReadFirst
  BY <1>6 DEF ReadFirst, GoOn, Throw, Return, HeadersReceived
<1>7. CASE ReadStatus
  BY <1>7 DEF ReadStatus, Throw, Return, HeadersReceived
<1>8. CASE ReadFirstStatus
  <2>1. /\ pc = "status" /\ call = "first" /\ response' = data
        /\ data.size >= MIN_LENGTH
    BY <1>8 DEF ReadFirstStatus, HeadersReceived
  <2>2. CASE Respond(data)
    BY <1>1, <2>1, <2>2, RespondTyped DEF HeadersReceived
  <2>3. CASE pc' = "send" /\ UNCHANGED result
    BY <2>1, <2>3 DEF HeadersReceived
  <2>4. CASE NoMemory
    BY <2>4 DEF NoMemory, Throw, Return, HeadersReceived
  <2> QED
    BY <1>8, <2>2, <2>3, <2>4 DEF ReadFirstStatus, AskInquiry
<1>9. CASE ReadSecondStatus
  <2>1. /\ pc = "status" /\ call = "second" /\ UNCHANGED response
        /\ response.size >= MIN_LENGTH
        /\ \/ data.size < MIN_LENGTH /\ Respond(response)
           \/ data.size >= MIN_LENGTH /\ Respond(data)
           \/ NoMemory
    BY <1>9 DEF ReadSecondStatus, HeadersReceived
  <2>2. CASE NoMemory
    BY <2>2 DEF NoMemory, Throw, Return, HeadersReceived
  <2>3. ASSUME NEW m \in Messages, Respond(m), m.size >= MIN_LENGTH
        PROVE  HeadersReceived'
    BY <2>3, RespondTyped DEF HeadersReceived
  <2> QED
    BY <1>1, <2>1, <2>2, <2>3
<1> QED
  BY <1>2, <1>3, <1>4, <1>5, <1>6, <1>7, <1>8, <1>9 DEF Next, HostStep, Mishap

-----------------------------------------------------------------------------
(* Host and target in step.                                                *)

(* What a standard inquiry can be answered with.                           *)
LEMMA InquirySize ==
  ASSUME Asking, additional \in Additional, pc # "idle", call # "command",
         asked.page = NoPage
  PROVE  /\ additional \in 31..255
         /\ (\/ TransferLength(cmd) = 5 + additional
             \/ TransferLength(cmd) = 36 /\ additional = 31) =>
              FullSizes(cmd) = {5 + additional}
<1>1. IsStandard(cmd) /\ 256 * cmd[18] + cmd[19] = TransferLength(cmd)
  BY DEF Asking, CommandCarriesRequest, AskedInTurn
<1>2. Additional \subseteq 31..255
  BY ConstantsAssumption
<1>3. additional \in 31..255
  BY <1>2
<1>4. TransferLength(cmd) \in Nat
  BY CommandNumbers, Uint32IsNat DEF Asking
<1>5. IsInquiry(cmd) /\ InquirySizes(cmd) = {5 + additional}
  BY <1>1 DEF IsStandard, InquirySizes
<1>6. FullSizes(cmd) =
        {Least(Least(5 + additional, TransferLength(cmd)), TransferLength(cmd))}
  BY <1>1, <1>5, Zenon DEF FullSizes
<1> QED
  BY <1>3, <1>4, <1>6 DEF Least

(* Steps that read the first of one or two answers.                        *)
LEMMA FirstAnswer ==
  ASSUME Receive
  PROVE  /\ \A a, b : outbox = <<a, b>> => Answer = a /\ outbox' = <<b>>
         /\ \A a : outbox = <<a>> => Answer = a /\ outbox' = <<>>
         /\ outbox # <<>>
         /\ inbox' = inbox /\ additional' = additional
<1>1. \A a, b : Head(<<a, b>>) = a /\ Tail(<<a, b>>) = <<b>>
  OBVIOUS
<1>2. \A a : Head(<<a>>) = a /\ Tail(<<a>>) = <<>>
  OBVIOUS
<1> QED
  BY <1>1, <1>2 DEF Receive, Answer

(* The answers to a command stay its answers.                              *)
LEMMA SameAnswers ==
  ASSUME UNCHANGED <<cmd, additional>>, NEW m
  PROVE  /\ AnswersData(m) => AnswersData(m)'
         /\ AnswersStatus(m) => AnswersStatus(m)'
<1>1. FullSizes(cmd)' = FullSizes(cmd)
  BY DEF FullSizes, InquirySizes
<1> QED
  BY <1>1 DEF AnswersData, AnswersStatus

(* The step from the command phase, and those from the data phase.         *)
LEMMA PhasesFromSend ==
  ASSUME PhasesMeet, pc = "send", inbox' = Append(inbox, cmd),
         UNCHANGED <<outbox, cmd>>, pc' = PhaseAfterCommand
  PROVE  PhasesMeet'
<1>1. inbox' = <<cmd'>> /\ outbox' = <<>>
  BY DEF PhasesMeet, Silent
<1> QED
  BY <1>1 DEF PhasesMeet, Waiting, PhaseAfterCommand

LEMMA PhasesFromData ==
  ASSUME PhasesMeet, pc = "data", Receive, data' = Answer, UNCHANGED cmd,
         pc' \in {"status", "broken"}
  PROVE  PhasesMeet' /\ AnswersData(data')
<1>1. PICK a, b :
        /\ outbox = <<a, b>> /\ inbox = <<>>
        /\ AnswersData(a) /\ AnswersStatus(b)
  BY FirstAnswer DEF PhasesMeet, Waiting
<1>2. /\ data' = a /\ outbox' = <<b>> /\ inbox' = <<>>
      /\ UNCHANGED additional
  BY <1>1, FirstAnswer
<1>3. AnswersData(data)' /\ outbox' = <<outbox'[1]>> /\ AnswersStatus(outbox[1])'
  <2>1. AnswersData(a)' /\ AnswersStatus(b)'
    BY <1>1, <1>2, SameAnswers
  <2>2. outbox'[1] = b
    BY <1>2
  <2> QED
    BY <1>2, <2>1, <2>2
<1> QED
  BY <1>1, <1>2, <1>3 DEF PhasesMeet

(* The steps of the status phase leave nothing.                            *)
LEMMA PhasesFromStatus ==
  ASSUME PhasesMeet, pc = "status", Receive
  PROVE  /\ Silent'
         /\ AnswersStatus(Answer)
         /\ TransferLength(cmd) # 0 => AnswersData(data)
<1>1. PICK a : outbox = <<a>> /\ inbox = <<>> /\ AnswersStatus(a)
  BY FirstAnswer DEF PhasesMeet, Waiting
<1>2. Answer = a /\ outbox' = <<>> /\ inbox' = <<>>
  BY <1>1, FirstAnswer
<1> QED
  BY <1>1, <1>2 DEF PhasesMeet, Silent

LEMMA PairOfAnswers ==
  ASSUME NEW a, NEW b
  PROVE  <<a>> \o <<b>> = <<a, b>>
<1> DEFINE s == <<a>>
           t == <<b>>
           p == <<a, b>>
<1>1. /\ s \in Seq({a, b}) /\ Len(s) = 1 /\ s[1] = a
      /\ t \in Seq({a, b}) /\ Len(t) = 1 /\ t[1] = b
      /\ p \in Seq({a, b}) /\ Len(p) = 2 /\ p[1] = a /\ p[2] = b
  OBVIOUS
<1> HIDE DEF s, t, p
<1>2. /\ s \o t \in Seq({a, b})
      /\ Len(s \o t) = 2
      /\ (s \o t)[1] = a /\ (s \o t)[2] = b
  BY <1>1, ConcatProperties
<1>3. \A i \in 1..Len(s \o t) : (s \o t)[i] = p[i]
  BY <1>1, <1>2
<1>4. s \o t = p
  BY <1>1, <1>2, <1>3, SeqEqual
<1> QED
  BY <1>4 DEF s, t, p

(* The target answers the command the host waits for.                      *)
LEMMA PhasesExecute ==
  ASSUME TypeOK, PhasesMeet, Execute
  PROVE  PhasesMeet' /\ pc # "idle" /\ pc # "send"
<1>1. UNCHANGED <<pc, cmd, data, additional>> /\ inbox # <<>>
  BY DEF Execute, hostVars
<1>2. CASE pc = "broken"
  BY <1>1, <1>2 DEF PhasesMeet
<1>3. CASE pc \in {"data", "status"}
  <2>1. inbox = <<cmd>> /\ (pc = "status" => TransferLength(cmd) = 0)
    BY <1>1, <1>3 DEF PhasesMeet, Waiting
  <2>2. inbox' = <<>> /\ Head(inbox) = cmd
    BY <2>1 DEF Execute
  <2>3. PICK full \in FullSizes(cmd), s \in Sizes(CSW_LEN) :
          \E n \in Sizes(full) :
            outbox' = (IF TransferLength(cmd) = 0 THEN <<>>
                       ELSE <<Message(cmd, "data", full, n)>>)
                      \o <<Message(cmd, "status", CSW_LEN, s)>>
    BY <2>2 DEF Execute
  <2>0. PICK n \in Sizes(full) :
          outbox' = (IF TransferLength(cmd) = 0 THEN <<>>
                     ELSE <<Message(cmd, "data", full, n)>>)
                    \o <<Message(cmd, "status", CSW_LEN, s)>>
    BY <2>3
  <2>4. PICK a, b : /\ a = Message(cmd, "data", full, n)
                    /\ b = Message(cmd, "status", CSW_LEN, s)
    OBVIOUS
  <2>5. AnswersData(a) /\ AnswersStatus(b)
    <3>1. cmd \in Commands /\ additional \in Additional /\ CSW_LEN \in Nat
      BY DEF TypeOK, CSW_LEN
    <3>2. full \in Nat /\ n \in Nat /\ s \in Nat
      BY <3>1, AnswerSizes
    <3>3. /\ a.part = "data" /\ a.tag = CommandTag(cmd) /\ a.size = n
          /\ a.standard <=> IsStandard(cmd)
          /\ a.cut <=> n # full
      BY <2>4, <3>1, <3>2, MessageMade
    <3>4. b.part = "status" /\ \A i \in 4..7 : b.bytes[i] = cmd[i]
      BY <2>4, <3>1, <3>2, MessageMade
    <3> QED
      BY <3>3, <3>4 DEF AnswersData, AnswersStatus
  <2>6. AnswersData(a)' /\ AnswersStatus(b)'
    BY <1>1, <2>5, SameAnswers
  <2>7. outbox' = (IF TransferLength(cmd) = 0 THEN <<>> ELSE <<a>>) \o <<b>>
    BY <2>0, <2>4
  <2>8. CASE pc = "status"
    <3>1. outbox' = <<b>>
      BY <2>1, <2>7, <2>8
    <3>2. outbox' = <<outbox'[1]>> /\ AnswersStatus(outbox[1])'
      BY <2>6, <3>1
    <3> QED
      BY <1>1, <2>1, <2>2, <2>8, <3>2 DEF PhasesMeet
  <2>9. CASE pc = "data"
    <3>1. TransferLength(cmd) # 0
      BY <2>9 DEF PhasesMeet
    <3>2. outbox' = <<a>> \o <<b>>
      BY <2>7, <3>1
    <3>3. outbox' = <<a, b>>
      BY <3>2, PairOfAnswers
    <3>4. /\ outbox' = <<outbox'[1], outbox'[2]>>
          /\ AnswersData(outbox[1])' /\ AnswersStatus(outbox[2])'
      BY <2>6, <3>3
    <3> QED
      BY <1>1, <2>2, <2>9, <3>1, <3>4 DEF PhasesMeet
  <2> QED
    BY <1>3, <2>8, <2>9
<1> QED
  BY <1>1, <1>2, <1>3 DEF PhasesMeet, Silent, TypeOK

(* What the proofs of the steps use of the types.                          *)
LEMMA Numbers ==
  ASSUME TypeOK
  PROVE  /\ CommandTag(cmd) \in Nat /\ TransferLength(cmd) \in Nat
         /\ tag \in Nat
         /\ data \in Messages /\ response \in Messages
         /\ response.tag \in Nat
<1>1. cmd \in Commands /\ tag \in Tags
  BY DEF TypeOK
<1>2. CommandTag(cmd) \in Nat /\ TransferLength(cmd) \in Nat
  BY <1>1, CommandNumbers, Uint32IsNat
<1>3. tag \in Nat
  BY <1>1 DEF Tags
<1>4. data \in Messages /\ response \in Messages
  BY DEF TypeOK
<1>5. \A m \in Messages : m.tag \in Uint32
  BY DEF Messages
<1>6. response.tag \in Nat
  BY <1>4, <1>5, Uint32IsNat
<1> QED
  BY <1>2, <1>3, <1>4, <1>6

(* While a call goes on nothing is said of results.                        *)
LEMMA ResultsKept ==
  ASSUME ResponsesInOrder, pc # "idle", pc' # "idle",
         UNCHANGED <<call, asked, cmd, response, additional>>
  PROVE  ResponsesInOrder' /\ InquiryComplete' /\ StatusAnswersCommand'
BY DEF ResponsesInOrder, InquiryComplete, StatusAnswersCommand

(* A new call finds nothing between host and target.                       *)
LEMMA InStepCall ==
  ASSUME InStep, pc = "idle", pc' = "send", call' # "second",
         UNCHANGED <<inbox, outbox>>
  PROVE  InStep'
BY DEF InStep, PhasesMeet, Silent, ResponsesInOrder, InquiryComplete,
       StatusAnswersCommand

(* A call that ends in an error when nothing is left to be read.           *)
LEMMA InStepThrows ==
  ASSUME Throw, Silent'
  PROVE  InStep'
<1>1. pc' = "idle" /\ result'.kind = "error"
  BY DEF Throw, Return
<1> QED
  BY <1>1 DEF InStep, PhasesMeet, ResponsesInOrder, InquiryComplete,
              StatusAnswersCommand

(* A call that falls back on the first response.                           *)
LEMMA InStepRespondsFirst ==
  ASSUME TypeOK, InStep, pc # "idle", call = "second", Respond(response), Silent'
  PROVE  InStep'
<1>1. /\ CommandTag(cmd) \in Nat
      /\ response \in Messages /\ response.tag \in Nat
  BY Numbers
<1>2. /\ pc' = "idle" /\ UNCHANGED <<call, asked, cmd>>
      /\ result'.kind = "response" /\ result'.data = response
  BY <1>1, RespondTyped
<1>3. /\ response.part = "data" /\ response.tag + 1 = CommandTag(cmd)
      /\ response.standard <=> asked.page = NoPage
  BY DEF InStep, ResponsesInOrder
<1>4. InquiryComplete'
  BY <1>1, <1>2, <1>3 DEF InquiryComplete
<1> QED
  BY <1>2, <1>4 DEF InStep, PhasesMeet, ResponsesInOrder, StatusAnswersCommand

(* A call that responds with the data just read.                           *)
LEMMA InStepRespondsLast ==
  ASSUME TypeOK, Asking, pc # "idle", call # "command", Respond(data), Silent',
         AnswersData(data),
         asked.page = NoPage /\ ~data.cut => data.size = 5 + additional,
         UNCHANGED additional
  PROVE  InStep'
<1>1. data \in Messages
  BY Numbers
<1>2. /\ pc' = "idle" /\ UNCHANGED <<call, asked, cmd>>
      /\ result'.kind = "response" /\ result'.data = data
  BY <1>1, RespondTyped
<1>3. /\ data.part = "data" /\ data.tag = CommandTag(cmd)
      /\ data.standard <=> asked.page = NoPage
  BY DEF AnswersData, Asking, AskedInTurn
<1>4. InquiryComplete'
  BY <1>2, <1>3 DEF InquiryComplete
<1> QED
  BY <1>2, <1>4 DEF InStep, PhasesMeet, ResponsesInOrder, StatusAnswersCommand

(* A command that is not sent leaves nothing between host and target.      *)
LEMMA InStepNotSent ==
  ASSUME TypeOK, InStep, pc = "send", UNCHANGED <<inbox, outbox>>,
         Fail \/ NoMemory
  PROVE  InStep'
<1>1. Silent'
  BY DEF InStep, PhasesMeet, Silent
<1>2. CASE Throw
  BY <1>1, <1>2, InStepThrows
<1>3. CASE call = "second" /\ Respond(response)
  BY <1>1, <1>3, InStepRespondsFirst
<1> QED
  BY <1>2, <1>3 DEF Fail, NoMemory

(* The three readings of data.                                             *)
LEMMA InStepReadData ==
  ASSUME InStep, clean, clean', ReadData \/ ReadFirst \/ ReadSecond
  PROVE  InStep'
<1>1. /\ pc = "data" /\ Receive /\ data' = Answer
      /\ UNCHANGED <<call, asked, cmd, response, additional>>
      /\ pc' \in {"status", "broken"}
  BY DEF ReadData, ReadFirst, ReadSecond, GoOn, Receive
<1> QED
  BY <1>1, PhasesFromData, ResultsKept DEF InStep

(* The status of a command ends its call.                                  *)
LEMMA InStepReadStatus ==
  ASSUME InStep, ReadStatus
  PROVE  InStep'
<1>1. /\ pc = "status" /\ call = "command" /\ Receive
      /\ pc' = "idle" /\ UNCHANGED <<call, cmd>>
      /\ \/ result' = [kind |-> "status", data |-> data, status |-> Answer]
         \/ result'.kind = "error"
  BY DEF ReadStatus, Throw, Return
<1>2. /\ Silent'
      /\ AnswersStatus(Answer)
      /\ TransferLength(cmd) # 0 => AnswersData(data)
  BY <1>1, PhasesFromStatus DEF InStep
<1>3. PhasesMeet'
  BY <1>1, <1>2 DEF PhasesMeet, Silent
<1>4. StatusAnswersCommand'
  BY <1>1, <1>2
     DEF StatusAnswersCommand, StatusHasTag, DataHaveTag, AnswersStatus,
         AnswersData
<1> QED
  BY <1>1, <1>3, <1>4 DEF InStep, ResponsesInOrder, InquiryComplete

(* The first response is complete, or the second inquiry asks for all.     *)
LEMMA InStepFirstStatus ==
  ASSUME TypeOK, Asking, InStep, ReadFirstStatus
  PROVE  InStep'
<1>1. /\ pc = "status" /\ call = "first" /\ Receive /\ response' = data
  BY DEF ReadFirstStatus
<1>2. /\ Silent' /\ UNCHANGED additional
      /\ TransferLength(cmd) # 0 => AnswersData(data)
  BY <1>1, PhasesFromStatus, FirstAnswer DEF InStep
<1>3. /\ TransferLength(cmd) = 36
      /\ tag = CommandTag(cmd) + 1
      /\ IsStandard(cmd) <=> asked.page = NoPage
  BY <1>1 DEF Asking, AskedInTurn, CommandCarriesRequest, MIN_LENGTH
<1>4. AnswersData(data)
  BY <1>2, <1>3
<1>5. CASE Throw
  BY <1>2, <1>5, InStepThrows
<1>6. CASE pc' = "idle" /\ ~Throw
  <2>1. PICK length \in AdditionalLength(data) :
          ~NeedsMore(length) /\ Respond(data)
    BY <1>6 DEF ReadFirstStatus, AskInquiry, NoMemory
  <2>2. ASSUME asked.page = NoPage
        PROVE  FullSizes(cmd) = {5 + additional}
    <3>1. data.standard
      BY <1>3, <1>4, <2>2 DEF AnswersData
    <3>2. additional = 31
      <4>1. additional \in 31..255
        BY <1>1, <2>2, InquirySize DEF TypeOK
      <4> QED
        BY <2>1, <3>1, <4>1 DEF AdditionalLength, NeedsMore
    <3> QED
      BY <1>1, <1>3, <2>2, <3>2, InquirySize DEF TypeOK
  <2>3. asked.page = NoPage /\ ~data.cut => data.size = 5 + additional
    BY <1>4, <2>2 DEF AnswersData
  <2> QED
    BY <1>1, <1>2, <1>4, <2>1, <2>3, InStepRespondsLast
<1>7. CASE pc' # "idle"
  <2>1. /\ CommandTag(cmd') = tag
        /\ data.standard => TransferLength(cmd') = 5 + additional
        /\ asked'.page = asked.page
        /\ pc' = "send" /\ call' = "second"
    BY <1>7, AskingMore DEF TypeOK
  <2>2. PhasesMeet'
    BY <1>2, <2>1 DEF PhasesMeet, Silent
  <2>3. ResponsesInOrder'
    BY <1>1, <1>2, <1>3, <1>4, <2>1 DEF ResponsesInOrder, AnswersData
  <2> QED
    BY <2>1, <2>2, <2>3 DEF InStep, StatusAnswersCommand, InquiryComplete
<1> QED
  BY <1>5, <1>6, <1>7

(* The second response, or the first one when the second came short.       *)
LEMMA InStepSecondStatus ==
  ASSUME TypeOK, Asking, InStep, ReadSecondStatus
  PROVE  InStep'
<1>1. /\ pc = "status" /\ call = "second" /\ Receive
      /\ Respond(response) \/ Respond(data) \/ Throw
  BY DEF ReadSecondStatus, NoMemory
<1>2. /\ Silent' /\ UNCHANGED additional
      /\ TransferLength(cmd) # 0 => AnswersData(data)
  BY <1>1, PhasesFromStatus, FirstAnswer DEF InStep
<1>3. AnswersData(data)
  <2>1. TransferLength(cmd) >= 36
    BY <1>1 DEF TypeOK, MIN_LENGTH
  <2> QED
    BY <1>2, <2>1
<1>4. asked.page = NoPage /\ ~data.cut => data.size = 5 + additional
  <2>1. asked.page = NoPage => TransferLength(cmd) = 5 + additional
    BY <1>1 DEF InStep, ResponsesInOrder
  <2>2. asked.page = NoPage => FullSizes(cmd) = {5 + additional}
    BY <1>1, <2>1, InquirySize DEF TypeOK
  <2> QED
    BY <1>3, <2>2 DEF AnswersData
<1>5. CASE Respond(data)
  BY <1>1, <1>2, <1>3, <1>4, <1>5, InStepRespondsLast
<1>6. CASE Respond(response)
  BY <1>1, <1>2, <1>6, InStepRespondsFirst
<1>7. CASE Throw
  BY <1>2, <1>7, InStepThrows
<1> QED
  BY <1>1, <1>5, <1>6, <1>7

(* Every step keeps host and target in step, or marks them out of step.    *)
LEMMA NextInStep ==
  ASSUME Inv, Next, clean'
  PROVE  InStep'
<1>1. clean
  BY DEF Next, HostStep, Mishap, CallCommand, CallInquiry, Send, SendFails,
         SendTimesOut, ReadOverflows, ReadTimesOut, ReadFails, OutOfMemory,
         ReadData, ReadFirst, ReadSecond, ReadStatus, ReadFirstStatus,
         ReadSecondStatus, Execute
<1>2. TypeOK /\ Asking /\ InStep
  BY <1>1 DEF Inv, TypeOK, Asking
<1>3. ASSUME NEW q \in Requests, NEW w \in BOOLEAN, CallCommand(q, w)
      PROVE  InStep'
  BY <1>2, <1>3, InStepCall DEF CallCommand, targetVars
<1>4. ASSUME NEW lun \in LUNs, NEW page \in Pages, CallInquiry(lun, page)
      PROVE  InStep'
  BY <1>2, <1>4, InStepCall DEF CallInquiry, AskInquiry, targetVars
<1>5. CASE Send
  <2>1. /\ pc = "send" /\ inbox' = Append(inbox, cmd) /\ pc' = PhaseAfterCommand
        /\ pc' # "idle"
        /\ UNCHANGED <<outbox, call, asked, cmd, response, additional>>
    BY <1>5 DEF Send, GoOn, PhaseAfterCommand
  <2> QED
    BY <1>2, <2>1, PhasesFromSend, ResultsKept DEF InStep
<1>6. CASE SendFails \/ OutOfMemory
  BY <1>2, <1>6, InStepNotSent DEF SendFails, OutOfMemory, targetVars
<1>7. CASE SendTimesOut \/ ReadTimesOut \/ ReadOverflows \/ ReadFails
  BY <1>7 DEF SendTimesOut, ReadTimesOut, ReadOverflows, ReadFails
<1>9. CASE ReadData \/ ReadFirst \/ ReadSecond
  BY <1>1, <1>2, <1>9, InStepReadData
<1>10. CASE ReadStatus
  BY <1>2, <1>10, InStepReadStatus
<1>11. CASE ReadFirstStatus
  BY <1>2, <1>11, InStepFirstStatus
<1>12. CASE ReadSecondStatus
  BY <1>2, <1>12, InStepSecondStatus
<1>13. CASE Execute
  <2>1. PhasesMeet' /\ pc # "idle"
    BY <1>2, <1>13, PhasesExecute DEF InStep
  <2>2. UNCHANGED <<pc, call, asked, cmd, response, additional>>
    BY <1>13 DEF Execute, hostVars
  <2> QED
    BY <1>2, <2>1, <2>2, ResultsKept DEF InStep
<1> QED
  BY <1>3, <1>4, <1>5, <1>6, <1>7, <1>9, <1>10, <1>11, <1>12, <1>13
     DEF Next, HostStep, Mishap

-----------------------------------------------------------------------------
(* What tags tell, in step or not.                                         *)

(* A status between target and host: its bytes have its tag, which is that *)
(* of no command still to be sent.                                         *)
TellsTag(s) ==
  /\ s.part = "status"
  /\ LittleEndian(s.bytes, 4) = s.tag
  /\ s.tag < tag
  /\ pc = "send" => s.tag # CommandTag(cmd)

(* Answers come as data and status of one command.  A status alone, with   *)
(* the tag of the command under way, is left by the data just read.        *)
AnswersTell ==
  \/ outbox = <<>>
  \/ /\ outbox = <<outbox[1]>>
     /\ TellsTag(outbox[1])
     /\ outbox[1].tag = CommandTag(cmd) =>
          /\ pc # "data"
          /\ (pc = "status" /\ TransferLength(cmd) # 0) =>
               (data.part = "data" /\ data.tag = CommandTag(cmd))
  \/ /\ outbox = <<outbox[1], outbox[2]>>
     /\ outbox[1].part = "data"
     /\ outbox[1].tag = outbox[2].tag
     /\ TellsTag(outbox[2])

(* No command that the target has yet to execute has the tag of another.   *)
CommandTells(c) ==
  /\ CommandTag(c) < tag
  /\ CommandTag(c) = CommandTag(cmd) => pc # "send" /\ c = cmd

TagsTell ==
  /\ \A i \in 1..Len(inbox) : CommandTells(inbox[i])
  /\ AnswersTell
  /\ pc = "data" => TransferLength(cmd) # 0

(* Answers read when no command waits for them.                            *)
LEMMA AnswersShrink ==
  ASSUME TypeOK, AnswersTell, pc' \in {"idle", "send"},
         \A m \in Messages : TellsTag(m) => TellsTag(m)',
         UNCHANGED outbox \/ (outbox # <<>> /\ outbox' = Tail(outbox))
  PROVE  AnswersTell'
<1>1. CASE outbox = <<>>
  BY <1>1 DEF AnswersTell
<1>2. CASE outbox = <<outbox[1]>> /\ TellsTag(outbox[1])
  <2>1. PICK a : outbox = <<a>> /\ TellsTag(a)
    BY <1>2
  <2>2. a \in Messages
    BY <2>1 DEF TypeOK
  <2>3. TellsTag(a)' /\ (pc' = "send" => a.tag # CommandTag(cmd'))
    BY <2>1, <2>2 DEF TellsTag
  <2>4. outbox' = <<a>> \/ outbox' = <<>>
    BY <2>1
  <2>5. CASE outbox' = <<a>>
    <3>1. outbox'[1] = a
      BY <2>5
    <3>2. TellsTag(outbox[1])'
      BY <2>3, <3>1 DEF TellsTag
    <3> QED
      BY <2>3, <2>5, <3>1, <3>2 DEF AnswersTell
  <2> QED
    BY <2>4, <2>5 DEF AnswersTell
<1>3. CASE /\ outbox = <<outbox[1], outbox[2]>>
           /\ outbox[1].part = "data"
           /\ outbox[1].tag = outbox[2].tag
           /\ TellsTag(outbox[2])
  <2>1. PICK a, b : /\ outbox = <<a, b>> /\ a.part = "data"
                    /\ a.tag = b.tag /\ TellsTag(b)
    BY <1>3
  <2>2. b \in Messages
    BY <2>1 DEF TypeOK
  <2>3. TellsTag(b)' /\ (pc' = "send" => b.tag # CommandTag(cmd'))
    BY <2>1, <2>2 DEF TellsTag
  <2>4. outbox' = <<a, b>> \/ outbox' = <<b>>
    BY <2>1
  <2>5. CASE outbox' = <<a, b>>
    <3>1. outbox'[1] = a /\ outbox'[2] = b
      BY <2>5
    <3>2. TellsTag(outbox[2])'
      BY <2>3, <3>1 DEF TellsTag
    <3> QED
      BY <2>1, <2>5, <3>1, <3>2 DEF AnswersTell
  <2>6. CASE outbox' = <<b>>
    <3>1. outbox'[1] = b
      BY <2>6
    <3>2. TellsTag(outbox[1])'
      BY <2>3, <3>1 DEF TellsTag
    <3> QED
      BY <2>3, <2>6, <3>1, <3>2 DEF AnswersTell
  <2> QED
    BY <2>4, <2>5, <2>6
<1> QED
  BY <1>1, <1>2, <1>3 DEF AnswersTell

(* A command is made: its tag is the next one.                             *)
LEMMA TagsCall ==
  ASSUME TypeOK, TagsTell, pc' = "send", CommandTag(cmd') = tag, tag' = tag + 1,
         UNCHANGED inbox,
         UNCHANGED outbox \/ (outbox # <<>> /\ outbox' = Tail(outbox))
  PROVE  TagsTell'
<1>1. tag \in Nat
  BY Numbers
<1>2. \A i \in 1..Len(inbox) : CommandTag(inbox[i]) \in Nat
  <2>1. \A i \in 1..Len(inbox) : inbox[i] \in Commands
    BY DEF TypeOK
  <2> QED
    BY <2>1, CommandNumbers, Uint32IsNat
<1>3. \A i \in 1..Len(inbox') : CommandTells(inbox[i])'
  BY <1>1, <1>2 DEF TagsTell, CommandTells
<1>4. AnswersTell'
  <2>1. \A m \in Messages : m.tag \in Nat
    BY Uint32IsNat DEF Messages
  <2>2. \A m \in Messages : TellsTag(m) => TellsTag(m)'
    BY <1>1, <2>1 DEF TellsTag
  <2> QED
    BY <2>2, AnswersShrink DEF TagsTell
<1> QED
  BY <1>3, <1>4 DEF TagsTell

(* The call ends.                                                          *)
LEMMA TagsEnd ==
  ASSUME TypeOK, TagsTell, pc' = "idle", UNCHANGED <<cmd, tag, inbox>>,
         UNCHANGED outbox \/ (outbox # <<>> /\ outbox' = Tail(outbox))
  PROVE  TagsTell'
<1>1. \A i \in 1..Len(inbox') : CommandTells(inbox[i])'
  BY DEF TagsTell, CommandTells
<1>2. \A m \in Messages : TellsTag(m) => TellsTag(m)'
  BY DEF TellsTag
<1>3. AnswersTell'
  BY <1>2, AnswersShrink DEF TagsTell
<1> QED
  BY <1>1, <1>3 DEF TagsTell

(* A command is sent.                                                      *)
LEMMA TagsSend ==
  ASSUME TypeOK, Asking, TagsTell, pc = "send", inbox' = Append(inbox, cmd),
         pc' \in {"idle", PhaseAfterCommand}, UNCHANGED <<outbox, cmd, tag>>
  PROVE  TagsTell'
<1>1. tag = CommandTag(cmd) + 1 /\ CommandTag(cmd) \in Nat /\ pc' # "send"
  BY Numbers DEF Asking, AskedInTurn, PhaseAfterCommand
<1>2. \A i \in 1..Len(inbox') : CommandTells(inbox[i])'
  <2>1. CommandTells(cmd)'
    BY <1>1 DEF CommandTells
  <2>2. \A i \in 1..Len(inbox) : CommandTells(inbox[i])'
    BY <1>1 DEF TagsTell, CommandTells
  <2>3. /\ Len(inbox') = Len(inbox) + 1 /\ Len(inbox) \in Nat
        /\ \A i \in 1..Len(inbox') :
             inbox'[i] = IF i <= Len(inbox) THEN inbox[i] ELSE cmd
    BY DEF TypeOK
  <2> QED
    BY <1>1, <2>1, <2>2, <2>3 DEF CommandTells
<1>3. AnswersTell'
  BY <1>1 DEF TagsTell, AnswersTell, TellsTag
<1> QED
  BY <1>2, <1>3 DEF TagsTell, PhaseAfterCommand

(* The first of the answers is read as data.                               *)
LEMMA TagsReadData ==
  ASSUME TypeOK, TagsTell, pc = "data", Receive, data' = Answer,
         pc' \in {"status", "broken"}, UNCHANGED <<cmd, tag>>
  PROVE  TagsTell'
<1>1. UNCHANGED inbox
  BY FirstAnswer
<1>2. \A i \in 1..Len(inbox') : CommandTells(inbox[i])'
  BY <1>1 DEF TagsTell, CommandTells
<1>3. AnswersTell'
  <2>1. CASE outbox = <<outbox[1]>>
    <3>1. outbox' = <<>>
      BY <2>1, FirstAnswer
    <3> QED
      BY <3>1 DEF AnswersTell
  <2>2. CASE /\ outbox = <<outbox[1], outbox[2]>>
             /\ outbox[1].part = "data"
             /\ outbox[1].tag = outbox[2].tag
             /\ TellsTag(outbox[2])
    <3>1. PICK a, b : /\ outbox = <<a, b>> /\ a.part = "data"
                      /\ a.tag = b.tag /\ TellsTag(b)
      BY <2>2
    <3>2. data' = a /\ outbox' = <<b>>
      BY <3>1, FirstAnswer
    <3>3. outbox'[1] = b /\ outbox' = <<outbox'[1]>>
      BY <3>2
    <3> QED
      BY <3>1, <3>2, <3>3 DEF AnswersTell, TellsTag
  <2> QED
    BY <2>1, <2>2, FirstAnswer DEF TagsTell, AnswersTell
<1> QED
  BY <1>2, <1>3 DEF TagsTell

(* The target answers the oldest command.                                  *)
LEMMA TagsExecute ==
  ASSUME TypeOK, TagsTell, Execute
  PROVE  TagsTell'
<1>1. UNCHANGED <<pc, cmd, tag, data>> /\ inbox # <<>>
  BY DEF Execute, hostVars
<1> DEFINE c == Head(inbox)
<1>2. /\ c \in Commands /\ CommandTells(c) /\ inbox' = Tail(inbox)
      /\ Len(inbox) \in Nat \ {0}
  <2>1. Len(inbox) \in Nat \ {0} /\ c = inbox[1]
    BY <1>1, HeadTailProperties, EmptySeq DEF TypeOK
  <2>2. c \in Commands /\ CommandTells(c)
    BY <2>1 DEF TypeOK, TagsTell
  <2> QED
    BY <2>1, <2>2 DEF Execute
<1>3. \A i \in 1..Len(inbox') : CommandTells(inbox[i])'
  <2>1. \A i \in 1..Len(inbox') : inbox'[i] = inbox[i + 1] /\ i + 1 \in 1..Len(inbox)
    BY <1>2, HeadTailProperties DEF TypeOK
  <2> QED
    BY <1>1, <2>1 DEF TagsTell, CommandTells
<1>4. PICK full \in FullSizes(c), s \in Sizes(CSW_LEN) :
        \E n \in Sizes(full) :
          outbox' = (IF TransferLength(c) = 0 THEN <<>>
                     ELSE <<Message(c, "data", full, n)>>)
                    \o <<Message(c, "status", CSW_LEN, s)>>
  BY DEF Execute
<1>5. PICK n \in Sizes(full) :
        outbox' = (IF TransferLength(c) = 0 THEN <<>>
                   ELSE <<Message(c, "data", full, n)>>)
                  \o <<Message(c, "status", CSW_LEN, s)>>
  BY <1>4
<1>6. PICK a, b : /\ a = Message(c, "data", full, n)
                  /\ b = Message(c, "status", CSW_LEN, s)
  OBVIOUS
<1>7. outbox' = (IF TransferLength(c) = 0 THEN <<>> ELSE <<a>>) \o <<b>>
  BY <1>5, <1>6
<1>8. /\ a.part = "data" /\ a.tag = CommandTag(c)
      /\ b.part = "status" /\ b.tag = CommandTag(c)
      /\ LittleEndian(b.bytes, 4) = b.tag
  <2>1. additional \in Additional /\ CSW_LEN \in Nat
    BY DEF TypeOK, CSW_LEN
  <2>2. full \in Nat /\ n \in Nat /\ s \in Nat
    BY <1>2, <2>1, AnswerSizes
  <2>3. /\ a.part = "data" /\ a.tag = CommandTag(c)
        /\ b.part = "status" /\ b.tag = CommandTag(c)
        /\ \A i \in 4..7 : b.bytes[i] = c[i]
    BY <1>2, <1>6, <2>1, <2>2, MessageMade
  <2>4. LittleEndian(b.bytes, 4) = CommandTag(c)
    BY <2>3 DEF LittleEndian, CommandTag
  <2> QED
    BY <2>3, <2>4
<1> HIDE DEF c
<1>9. TellsTag(b)'
  BY <1>1, <1>2, <1>8 DEF TellsTag, CommandTells
<1>10. CASE TransferLength(c) = 0
  <2>1. outbox' = <<b>>
    BY <1>7, <1>10
  <2>2. outbox'[1] = b /\ outbox' = <<outbox'[1]>>
    BY <2>1
  <2>3. b.tag = CommandTag(cmd) => TransferLength(cmd) = 0
    BY <1>2, <1>8, <1>10 DEF CommandTells
  <2>4. AnswersTell'
    BY <1>1, <1>9, <2>2, <2>3 DEF AnswersTell, TagsTell
  <2> QED
    BY <1>1, <1>3, <2>4 DEF TagsTell
<1>11. CASE TransferLength(c) # 0
  <2>1. outbox' = <<a>> \o <<b>>
    BY <1>7, <1>11
  <2>2. outbox' = <<a, b>>
    BY <2>1, PairOfAnswers
  <2>3. /\ outbox'[1] = a /\ outbox'[2] = b
        /\ outbox' = <<outbox'[1], outbox'[2]>>
    BY <2>2
  <2>4. AnswersTell'
    BY <1>8, <1>9, <2>3 DEF AnswersTell
  <2> QED
    BY <1>1, <1>3, <2>4 DEF TagsTell
<1> QED
  BY <1>10, <1>11

LEMMA NextTagsTell ==
  ASSUME TypeOK, Asking, TagsTell, Next
  PROVE  TagsTell'
<1>1. ASSUME NEW q \in Requests, NEW w \in BOOLEAN, CallCommand(q, w)
      PROVE  TagsTell'
  BY <1>1, AskingCommand, TagsCall DEF CallCommand, targetVars
<1>2. ASSUME NEW lun \in LUNs, NEW page \in Pages, CallInquiry(lun, page)
      PROVE  TagsTell'
  BY <1>2, AskingFirst, TagsCall DEF CallInquiry, AskInquiry, targetVars
<1>3. CASE ReadFirstStatus /\ pc' # "idle"
  <2>1. Receive /\ additional \in Additional
    BY <1>3 DEF ReadFirstStatus, TypeOK
  <2> QED
    BY <1>3, <2>1, AskingMore, TagsCall DEF Receive
<1>4. CASE Send \/ SendTimesOut
  <2>1. /\ pc = "send" /\ inbox' = Append(inbox, cmd)
        /\ pc' \in {"idle", PhaseAfterCommand} /\ UNCHANGED <<outbox, cmd, tag>>
    BY <1>4 DEF Send, SendTimesOut, GoOn, Fail, Throw, Respond, Return
  <2> QED
    BY <2>1, TagsSend
<1>5. CASE (ReadData \/ ReadFirst \/ ReadSecond) /\ pc' # "idle"
  <2>1. /\ pc = "data" /\ Receive /\ data' = Answer
        /\ pc' \in {"status", "broken"} /\ UNCHANGED <<cmd, tag>>
    BY <1>5 DEF ReadData, ReadFirst, ReadSecond, GoOn, NoMemory, Throw, Return
  <2> QED
    BY <2>1, TagsReadData
<1>6. CASE Execute
  BY <1>6, TagsExecute
<1>7. CASE \/ (ReadData \/ ReadFirst \/ ReadSecond \/ ReadFirstStatus)
              /\ pc' = "idle"
           \/ SendFails \/ ReadOverflows \/ ReadTimesOut \/ ReadFails
           \/ OutOfMemory \/ ReadStatus \/ ReadSecondStatus
  <2>1. pc' = "idle" /\ UNCHANGED <<cmd, tag>>
    BY <1>7
       DEF ReadData, ReadFirst, ReadSecond, ReadFirstStatus, SendFails,
           ReadOverflows, ReadTimesOut, ReadFails, OutOfMemory, ReadStatus,
           ReadSecondStatus, AskInquiry, GoOn, NoMemory, Fail, Throw, Respond,
           Return
  <2>2. /\ UNCHANGED inbox
        /\ UNCHANGED outbox \/ (outbox # <<>> /\ outbox' = Tail(outbox))
    BY <1>7
       DEF ReadData, ReadFirst, ReadSecond, ReadFirstStatus, SendFails,
           ReadOverflows, ReadTimesOut, ReadFails, Lost, OutOfMemory,
           ReadStatus, ReadSecondStatus, Receive, targetVars
  <2> QED
    BY <2>1, <2>2, TagsEnd
<1> QED
  BY <1>1, <1>2, <1>3, <1>4, <1>5, <1>6, <1>7 DEF Next, HostStep, Mishap

(* The status that sendCommand returns, if it has the tag of the command.  *)
LEMMA VouchStatus ==
  ASSUME TypeOK, TagsTell, ReadStatus
  PROVE  TagVouchesForData'
<1>1. /\ pc = "status" /\ Receive /\ UNCHANGED cmd
      /\ \/ result' = [kind |-> "status", data |-> data, status |-> Answer]
         \/ result'.kind = "error"
  BY DEF ReadStatus, Throw, Return
<1>2. ASSUME Answer.part = "status",
             \A i \in 4..7 : Answer.bytes[i] = cmd[i],
             TransferLength(cmd) # 0
      PROVE  data.part = "data" /\ data.tag = CommandTag(cmd)
  <2>1. LittleEndian(Answer.bytes, 4) = CommandTag(cmd)
    BY <1>2 DEF LittleEndian, CommandTag
  <2>2. CASE /\ outbox = <<outbox[1], outbox[2]>>
             /\ outbox[1].part = "data"
    BY <1>1, <1>2, <2>2, FirstAnswer
  <2>3. CASE /\ outbox = <<outbox[1]>>
             /\ TellsTag(outbox[1])
             /\ outbox[1].tag = CommandTag(cmd) =>
                  data.part = "data" /\ data.tag = CommandTag(cmd)
    BY <1>1, <2>1, <2>3, FirstAnswer DEF TellsTag
  <2> QED
    BY <1>1, <1>2, <2>2, <2>3, FirstAnswer DEF TagsTell, AnswersTell
<1> QED
  BY <1>1, <1>2 DEF TagVouchesForData, StatusHasTag, DataHaveTag

LEMMA NextVouches ==
  ASSUME TypeOK, TagsTell, TagVouchesForData, Next
  PROVE  TagVouchesForData'
<1>1. data \in Messages /\ response \in Messages
  BY Numbers
<1>2. CASE ReadStatus
  BY <1>2, VouchStatus
<1>3. CASE pc' = "idle" /\ result'.kind \in {"error", "response"}
  BY <1>3 DEF TagVouchesForData
<1>4. CASE pc' # "idle"
  BY <1>4 DEF TagVouchesForData
<1>5. CASE Execute
  BY <1>5 DEF Execute, hostVars, TagVouchesForData, StatusHasTag, DataHaveTag
<1>6. CASE Fail \/ Throw \/ Respond(data) \/ Respond(response)
  BY <1>3, <1>6 DEF Fail, Throw, Respond, Return
<1>7. \/ ReadStatus \/ Execute \/ pc' # "idle"
      \/ Fail \/ Throw \/ Respond(data) \/ Respond(response)
  BY DEF Next, HostStep, Mishap, CallCommand, CallInquiry, AskInquiry, Send,
         SendFails, SendTimesOut, ReadOverflows, ReadTimesOut, ReadFails,
         OutOfMemory, NoMemory, ReadData, ReadFirst, ReadSecond,
         ReadFirstStatus, ReadSecondStatus, GoOn, PhaseAfterCommand
<1> QED
  BY <1>2, <1>4, <1>5, <1>6, <1>7

-----------------------------------------------------------------------------
(* The theorems.                                                           *)

LEMMA InitInv == Init => Inv
<1> SUFFICES ASSUME Init PROVE Inv
  OBVIOUS
<1>1. TypeOK
  <2>1. cmd \in Commands
    BY DEF Init, Commands, BytesOf, CBW_LEN, Byte
  <2>2. asked \in Requested
    <3>1. 0 \in Uint32 /\ 0 \in Byte /\ <<>> \in Seq(Byte)
      BY SMT DEF Uint32, Byte
    <3> QED
      BY <3>1 DEF Init, Requested, DATA_OUT
  <2>3. tag \in Tags /\ InboxSize \in Nat /\ InboxSize > 0
    <3>1. MaxTag \in Nat /\ InboxSize \in Nat \ {0}
      BY ConstantsAssumption, Uint32IsNat
    <3> QED
      BY <3>1 DEF Init, Tags
  <2>4. /\ inbox \in Seq(Commands) /\ Len(inbox) <= InboxSize
        /\ outbox \in Seq(Messages) /\ Len(outbox) <= 2
    BY <2>3 DEF Init
  <2> QED
    BY <2>1, <2>2, <2>3, <2>4, NoMessageTyped DEF Init, TypeOK
<1>2. CommandCarriesRequest /\ AskedInTurn /\ HeadersReceived
  BY DEF Init, CommandCarriesRequest, AskedInTurn, HeadersReceived
<1>3. InStep
  BY DEF Init, InStep, PhasesMeet, Silent, ResponsesInOrder,
         StatusAnswersCommand, InquiryComplete
<1> QED
  BY <1>1, <1>2, <1>3 DEF Inv

LEMMA NextInv ==
  ASSUME Inv, Next
  PROVE  Inv'
<1>1. Asking /\ additional \in Additional /\ TypeOK /\ HeadersReceived
  BY DEF Inv, Asking, TypeOK
<1>2. Asking'
  BY <1>1, NextAsking
<1>3. TypeOK'
  BY <1>1, <1>2, TypesKept
<1>4. HeadersReceived'
  BY <1>1, NextHeaders DEF Asking
<1>5. clean' => InStep'
  BY NextInStep
<1> QED
  BY <1>2, <1>3, <1>4, <1>5 DEF Inv, Asking

LEMMA StutterInv ==
  ASSUME Inv, UNCHANGED vars
  PROVE  Inv'
<1> USE DEF vars, hostVars, targetVars
<1>1. TypeOK'
  BY DEF Inv, TypeOK
<1>2. CommandCarriesRequest' /\ AskedInTurn' /\ HeadersReceived'
  BY DEF Inv, CommandCarriesRequest, AskedInTurn, HeadersReceived
<1>3. ASSUME clean' PROVE InStep'
  <2>1. InStep
    BY <1>3 DEF Inv
  <2>2. PhasesMeet'
    <3>1. \A m : /\ AnswersData(m) => AnswersData(m)'
                 /\ AnswersStatus(m) => AnswersStatus(m)'
      BY SameAnswers
    <3>2. /\ AnswersData(outbox[1]) => AnswersData(outbox[1])'
          /\ AnswersData(data) => AnswersData(data)'
          /\ AnswersStatus(outbox[1]) => AnswersStatus(outbox[1])'
          /\ AnswersStatus(outbox[2]) => AnswersStatus(outbox[2])'
      BY <3>1
    <3> QED
      BY <2>1, <3>2 DEF InStep, PhasesMeet, Silent, Waiting
  <2> QED
    BY <2>1, <2>2
       DEF InStep, ResponsesInOrder, StatusAnswersCommand, StatusHasTag,
           DataHaveTag, InquiryComplete
<1> QED
  BY <1>1, <1>2, <1>3 DEF Inv

(* Inv is inductive.                                                       *)
THEOREM InductiveInvariant == Spec => []Inv
<1>1. Inv /\ [Next]_vars => Inv'
  BY NextInv, StutterInv
<1> QED
  BY <1>1, InitInv, PTL DEF Spec

(* The types of host and target: wrappers of 31 and 13 bytes, tags within  *)
(* the bound, two buffers that never overflow.                             *)
THEOREM TypeCorrect == Spec => []TypeOK
<1>1. Inv => TypeOK
  BY DEF Inv
<1> QED
  BY <1>1, InductiveInvariant, PTL

(* MSDevice::sendCommand and sendInquiry: as long as every command that    *)
(* was taken also had its status read, host and target stay in step for    *)
(* any sequence of calls: after each, every command has been answered and  *)
(* every answer read, however large, short or incomplete the answers were. *)
THEOREM EveryAnswerIsRead == Spec => []NothingLeftUnread
<1>1. Inv => NothingLeftUnread
  BY DEF Inv, InStep, PhasesMeet, Silent, NothingLeftUnread
<1> QED
  BY <1>1, InductiveInvariant, PTL

(* The status and the data that sendCommand returns are then the target's  *)
(* answers to this very command, although it compares no tag: none of an   *)
(* earlier command can be met.                                             *)
THEOREM StatusesAnswerCommands == Spec => []StatusAnswersCommand
<1>1. Inv => StatusAnswersCommand
  BY DEF Inv, InStep, StatusAnswersCommand
<1> QED
  BY <1>1, InductiveInvariant, PTL

(* MSDevice::sendCommand, after any failures: a status with the tag of the *)
(* command is returned with the data of that command, if it has data.      *)
THEOREM TagsVouchForData == Spec => []TagVouchesForData
<1> DEFINE TInv == Inv /\ TagsTell /\ TagVouchesForData
<1>1. Init => TInv
  <2>1. Init => TagsTell /\ TagVouchesForData
    BY DEF Init, TagsTell, AnswersTell, TagVouchesForData
  <2> QED
    BY <2>1, InitInv
<1>2. TInv /\ [Next]_vars => TInv'
  <2>1. ASSUME TInv, Next PROVE TInv'
    <3>1. TypeOK /\ Asking
      BY <2>1 DEF Inv, TypeOK, Asking
    <3> QED
      BY <2>1, <3>1, NextInv, NextTagsTell, NextVouches
  <2>2. ASSUME TInv, UNCHANGED vars PROVE TInv'
    <3>1. Inv'
      BY <2>2, StutterInv
    <3>2. TagsTell' /\ TagVouchesForData'
      BY <2>2
         DEF vars, hostVars, targetVars, TagsTell, CommandTells, AnswersTell,
             TellsTag, TagVouchesForData, StatusHasTag, DataHaveTag
    <3> QED
      BY <3>1, <3>2
  <2> QED
    BY <2>1, <2>2
<1>3. TInv => TagVouchesForData
  OBVIOUS
<1> HIDE DEF TInv
<1> QED
  BY <1>1, <1>2, <1>3, PTL DEF Spec

(* What the constructor of InquiryResponse asserts, and its getters need,  *)
(* holds whatever the target sends, in step or not.                        *)
THEOREM ResponsesHaveHeaders == Spec => []ResponseHasHeader
<1>1. ASSUME Inv, result.kind = "response"
      PROVE  result.data.size >= MIN_LENGTH /\ FieldsFit(result.data.size)
  <2>1. result.data \in Messages /\ result.data.size >= 36
    BY <1>1 DEF Inv, TypeOK, HeadersReceived, MIN_LENGTH
  <2>2. result.data.size \in Nat
    BY <2>1 DEF Messages
  <2> DEFINE n == result.data.size
  <2> HIDE DEF n
  <2>3. n \in Nat /\ n >= 36 => FieldsFit(n)
    BY FieldsAlwaysFit
  <2> QED
    BY <2>1, <2>2, <2>3 DEF n, MIN_LENGTH
<1>2. Inv => ResponseHasHeader
  BY <1>1 DEF ResponseHasHeader
<1> QED
  BY <1>2, InductiveInvariant, PTL

(* The bytes of a command under way carry what the caller asked for, for   *)
(* every length of 32 bits, block of up to 16 bytes and tag.               *)
THEOREM CommandsCarryRequests == Spec => []CommandCarriesRequest
<1>1. Inv => CommandCarriesRequest
  BY DEF Inv
<1> QED
  BY <1>1, InductiveInvariant, PTL

(* MSDevice::sendInquiry: in step, it returns the data of its last command *)
(* or, when the second failed, of the first; they are standard inquiry     *)
(* data if these were asked for, and then an answer to the last command    *)
(* that was not cut is all that the target has.                            *)
THEOREM InquiriesAreComplete == Spec => []InquiryComplete
<1>1. Inv => InquiryComplete
  BY DEF Inv, InStep, InquiryComplete
<1> QED
  BY <1>1, InductiveInvariant, PTL
=============================================================================
