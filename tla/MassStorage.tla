---------------------------- MODULE MassStorage ----------------------------
(***************************************************************************)
(* MSDevice::sendCommand and sendInquiry (src/src/msdevice.cpp): the host  *)
(* side of the bulk-only transport, one transfer per step, against a mass  *)
(* storage target behind two endpoints that buffer what was sent.          *)
(*                                                                         *)
(* Every transfer of the host has a timeout of two seconds.  A transfer    *)
(* that fails, for whatever reason, throws, and the call ends there, as it *)
(* does when there is no memory: the target keeps what it has been sent    *)
(* and what it has still to send.  Commands and statuses are the bytes of  *)
(* module Wrappers; of data only the number of bytes counts.               *)
(***************************************************************************)
EXTENDS Wrappers

CONSTANTS
  Failures,    (* "refuse": a command is not sent; "timeout": the target is   *)
               (*   slower than the host waits; "error": a read fails         *)
               (*   otherwise (stall, I/O, no device); "short": the target    *)
               (*   sends less than it was asked for; "memory": bad_alloc     *)
  Requests,    (* the commands of the client: length, flags, lun, block       *)
  LUNs, Pages, (* the inquiries of the client; Pages may have NoPage          *)
  ShortSizes,  (* sizes of short answers                                      *)
  Additional,  (* additional lengths in the inquiry data of targets           *)
  PageSizes,   (* sizes of their pages of vital product data                  *)
  FifthBytes,  (* the fifth byte of data that are no standard inquiry data    *)
  InboxSize,   (* commands the target buffers                                 *)
  MaxTag       (* bound of the model: command block wrappers made             *)

ASSUME ConstantsAssumption ==
  /\ Failures \subseteq {"refuse", "timeout", "error", "short", "memory"}
  /\ \A q \in Requests :
       CommandArguments(q.length, q.flags, q.lun, q.block)
  /\ LUNs \subseteq 0..15
  /\ Pages \subseteq Byte \cup {NoPage}
  /\ ShortSizes \subseteq Nat
  /\ Additional \subseteq 31..255
  /\ PageSizes \subseteq Nat
  /\ FifthBytes \subseteq Byte
  /\ InboxSize \in Nat \ {0}
  /\ MaxTag \in Uint32

VARIABLES
  pc,          (* what the host does next: "idle" between calls               *)
  call,        (* "command", or "first" and "second" command of an inquiry    *)
  wants,       (* sendCommand has been given a buffer for the data            *)
  asked,       (* what the client asked for: a request, or an inquiry         *)
  cmd,         (* the command block wrapper made last                         *)
  tag,         (* the next tag of CommandBlockWrapper::generateTag            *)
  data,        (* the answer read in the data phase                           *)
  response,    (* sendInquiry: the response to the first command              *)
  result,      (* how the last call ended                                     *)
  additional,  (* target: its additional length                               *)
  inbox,       (* target: commands taken, not executed                        *)
  outbox,      (* target: answers not read                                    *)
  clean        (* so far no call ended between a command that the target took *)
               (*   and the reading of its status: by a failed transfer, for  *)
               (*   lack of memory, or after a first inquiry that was         *)
               (*   answered with less than 36 bytes                          *)

hostVars   == <<pc, call, wants, asked, cmd, tag, data, response, result>>
targetVars == <<additional, inbox, outbox>>
vars       == <<hostVars, targetVars, clean>>

MIN_LENGTH == 36  (* of inquiry data *)

Tags     == 0..MaxTag
Commands == BytesOf(CBW_LEN)
Requested == [length : Uint32, flags : Byte, lun : Byte, block : Seq(Byte),
              page : Byte \cup {NoPage}]
Messages == [part : {"data", "status"}, tag : Uint32, size : Nat,
             standard : BOOLEAN, cut : BOOLEAN, bytes : BytesOf(CSW_LEN)]
NoBytes   == [i \in 0..CSW_LEN - 1 |-> 0]
NoMessage == [part |-> "data", tag |-> 0, size |-> 0, standard |-> FALSE,
              cut |-> FALSE, bytes |-> NoBytes]

TypeOK ==
  /\ pc \in {"idle", "send", "data", "status", "broken"}
  /\ call \in {"command", "first", "second"}
  /\ wants \in BOOLEAN
  /\ cmd \in Commands
  /\ asked \in Requested
  /\ call # "command" => TransferLength(cmd) >= MIN_LENGTH
  /\ tag \in Tags
  /\ data \in Messages
  /\ response \in Messages
  /\ result \in [kind : {"none", "error", "status", "response"},
                 data : Messages, status : Messages]
  /\ additional \in Additional
  /\ inbox \in Seq(Commands) /\ Len(inbox) <= InboxSize
  /\ outbox \in Seq(Messages) /\ Len(outbox) <= 2
  /\ clean \in BOOLEAN

Init ==
  /\ pc = "idle"
  /\ call = "command"
  /\ wants = FALSE
  /\ asked = [length |-> 0, flags |-> DATA_OUT, lun |-> 0, block |-> <<>>,
              page |-> NoPage]
  /\ cmd = [i \in 0..CBW_LEN - 1 |-> 0]
  /\ tag = 0
  /\ data = NoMessage
  /\ response = NoMessage
  /\ result = [kind |-> "none", data |-> NoMessage, status |-> NoMessage]
  /\ additional \in Additional
  /\ inbox = <<>>
  /\ outbox = <<>>
  /\ clean = TRUE

-----------------------------------------------------------------------------
(* The ends of a call.                                                     *)

Return(r) ==
  /\ pc' = "idle"
  /\ result' = r
  /\ UNCHANGED <<call, wants, asked, cmd, tag>>

Throw == Return([kind |-> "error", data |-> NoMessage, status |-> NoMessage])

Respond(m) ==
  Return([kind |-> "response", data |-> m, status |-> NoMessage])

(* DeviceTransferException: the second command of an inquiry falls back on *)
(* the response to the first one.                                          *)
Fail == IF call = "second" THEN Respond(response) ELSE Throw

(* std::bad_alloc, which nobody catches.                                   *)
NoMemory == "memory" \in Failures /\ Throw

(* The next transfer of the same call.                                     *)
GoOn(step) == pc' = step /\ UNCHANGED <<call, wants, asked, cmd, tag, result>>

-----------------------------------------------------------------------------
(* Calls.  The command block wrapper takes its tag when it is made.        *)

NextTag == Word(tag + 1)

CallCommand(q, w) ==
  /\ pc = "idle"
  /\ tag < MaxTag
  /\ pc' = "send"
  /\ call' = "command"
  /\ wants' = w
  /\ asked' = [length |-> q.length, flags |-> q.flags, lun |-> q.lun,
               block |-> q.block, page |-> NoPage]
  /\ cmd' = CommandBlockWrapper(tag, q.length, q.flags, q.lun, q.block)
  /\ tag' = NextTag
  /\ UNCHANGED <<data, response, result, targetVars, clean>>

AskInquiry(which, lun, page, length) ==
  /\ pc' = "send"
  /\ call' = which
  /\ asked' = [length |-> length, flags |-> DATA_IN, lun |-> lun,
               block |-> InquiryBlock(length, page), page |-> page]
  /\ cmd' = Inquiry(tag, lun, length, page)
  /\ tag' = NextTag

CallInquiry(lun, page) ==
  /\ pc = "idle"
  /\ tag + 1 < MaxTag
  /\ AskInquiry("first", lun, page, MIN_LENGTH)
  /\ UNCHANGED <<wants, data, response, result, targetVars, clean>>

-----------------------------------------------------------------------------
(* Command phase: bulkTransferOut.                                         *)

(* Mutant of PhaseAfterCommand: the data phase is skipped when the client  *)
(* does not want the data.                                                 *)
PhaseIfWanted ==
  IF TransferLength(cmd) # 0 /\ (call = "command" => wants) THEN "data" ELSE "status"

(* The direction in the wrapper is not looked at.                          *)
PhaseAfterCommand == IF TransferLength(cmd) # 0 THEN "data" ELSE "status"

Send ==
  /\ pc = "send"
  /\ Len(inbox) < InboxSize
  /\ inbox' = Append(inbox, cmd)
  /\ GoOn(PhaseAfterCommand)
  /\ UNCHANGED <<data, response, additional, outbox, clean>>

SendFails ==
  /\ pc = "send"
  /\ "refuse" \in Failures \/ Len(inbox) = InboxSize
  /\ Fail
  /\ UNCHANGED <<data, response, targetVars, clean>>

(* The target has taken the command when the transfer fails.               *)
SendTimesOut ==
  /\ "timeout" \in Failures
  /\ pc = "send"
  /\ Len(inbox) < InboxSize
  /\ inbox' = Append(inbox, cmd)
  /\ clean' = FALSE
  /\ Fail
  /\ UNCHANGED <<data, response, additional, outbox>>

-----------------------------------------------------------------------------
(* Data and status phase: bulkTransferIn into a buffer of some room.       *)

Room   == IF pc = "data" THEN TransferLength(cmd) ELSE CSW_LEN
Answer == Head(outbox)

(* libusb takes the length as an int: from 2^31 on it is negative.         *)
Negative == Room \div 16777216 >= 128

Receive ==
  /\ ~Negative
  /\ outbox # <<>>
  /\ Answer.size <= Room
  /\ outbox' = Tail(outbox)
  /\ UNCHANGED <<additional, inbox>>

(* The answer does not fit, or nothing can.                                *)
ReadOverflows ==
  /\ pc \in {"data", "status"}
  /\ \/ Negative /\ UNCHANGED outbox
     \/ outbox # <<>> /\ Answer.size > Room /\ outbox' = Tail(outbox)
  /\ clean' = FALSE
  /\ Fail
  /\ UNCHANGED <<data, response, additional, inbox>>

(* What is read when a transfer fails: nothing, or an answer that is lost. *)
Lost ==
  /\ \/ UNCHANGED outbox
     \/ outbox # <<>> /\ outbox' = Tail(outbox)
  /\ UNCHANGED <<additional, inbox>>

(* Mutant of ReadFails: sendCommand goes on to the status.                 *)
ReadFailsUnnoticed ==
  /\ "error" \in Failures
  /\ pc \in {"data", "status"}
  /\ Lost
  /\ clean' = FALSE
  /\ IF pc = "data" /\ call = "command" THEN GoOn("status") ELSE Fail
  /\ UNCHANGED <<data, response>>

(* Any other error: a stall, for one, instead of the data.                 *)
ReadFails ==
  /\ "error" \in Failures
  /\ pc \in {"data", "status"}
  /\ Lost
  /\ clean' = FALSE
  /\ Fail
  /\ UNCHANGED <<data, response>>

(* No memory for the buffers of sendCommand, after the command was sent;   *)
(* or for those of an inquiry and its command, before.                     *)
OutOfMemory ==
  /\ NoMemory
  /\ \/ pc = "send" /\ call # "command" /\ UNCHANGED clean
     \/ pc \in {"data", "status"} /\ call = "command" /\ clean' = FALSE
  /\ UNCHANGED <<data, response, targetVars>>

(* The target waits for data that sendCommand never sends.                 *)
Stuck ==
  /\ inbox # <<>>
  /\ Flags(Head(inbox)) = DATA_OUT
  /\ TransferLength(Head(inbox)) > 0

(* Mutant of ReadTimesOut: the status is read without a timeout.           *)
DataTimesOut ==
  /\ pc = "data"
  /\ outbox = <<>>
  /\ "timeout" \in Failures \/ Stuck \/ inbox = <<>>
  /\ clean' = FALSE
  /\ Fail
  /\ UNCHANGED <<data, response, targetVars>>

ReadTimesOut ==
  /\ pc \in {"data", "status"}
  /\ outbox = <<>>
  /\ "timeout" \in Failures \/ Stuck \/ inbox = <<>>
  /\ clean' = FALSE
  /\ Fail
  /\ UNCHANGED <<data, response, targetVars>>

(* The buffer is cut to the bytes received when the client wants the data; *)
(* cut to nothing it is freed twice (see HidReport, Fetch).                *)
ReadData ==
  /\ pc = "data"
  /\ call = "command"
  /\ Receive
  /\ data' = Answer
  /\ \/ /\ GoOn(IF wants /\ Answer.size = 0 THEN "broken" ELSE "status")
        /\ UNCHANGED clean
     \/ /\ wants /\ Answer.size \notin {0, TransferLength(cmd)}
        /\ NoMemory
        /\ clean' = FALSE
  /\ UNCHANGED response

(* Mutant of ReadFirst: any answer is taken for a response.                *)
ReadFirstUnchecked ==
  /\ pc = "data"
  /\ call = "first"
  /\ Receive
  /\ data' = Answer
  /\ GoOn("status")
  /\ UNCHANGED <<response, clean>>

(* Less than 36 bytes: the exception leaves the status unread.             *)
ReadFirst ==
  /\ pc = "data"
  /\ call = "first"
  /\ Receive
  /\ data' = Answer
  /\ \/ Answer.size >= MIN_LENGTH /\ GoOn("status") /\ UNCHANGED clean
     \/ Answer.size < MIN_LENGTH /\ Throw /\ clean' = FALSE
  /\ UNCHANGED response

(* Mutant of ReadSecond: a short second answer ends the call at once.      *)
ReadSecondEarly ==
  /\ pc = "data"
  /\ call = "second"
  /\ Receive
  /\ data' = Answer
  /\ IF Answer.size < MIN_LENGTH THEN Respond(response) ELSE GoOn("status")
  /\ UNCHANGED <<response, clean>>

ReadSecond ==
  /\ pc = "data"
  /\ call = "second"
  /\ Receive
  /\ data' = Answer
  /\ GoOn("status")
  /\ UNCHANGED <<response, clean>>

(* sendCommand accepts 13 bytes, whatever their signature and tag.         *)
ReadStatus ==
  /\ pc = "status"
  /\ call = "command"
  /\ Receive
  /\ \/ /\ Answer.size = CSW_LEN
        /\ Return([kind |-> "status", data |-> data, status |-> Answer])
     \/ Answer.size # CSW_LEN /\ Throw
  /\ UNCHANGED <<data, response, clean>>

(* InquiryResponse::getAdditionalLength: the fifth byte of what was read,  *)
(* a page of vital product data or whatever it is.                         *)
AdditionalLength(m) == IF m.standard THEN {additional} ELSE FifthBytes

(* Mutant of NeedsMore: one byte too few is enough.                        *)
NeedsMoreThan(length) == length > 32

NeedsMore(length) == length >= 32

(* 5 bytes for the header up to and including the additional length.       *)
(* Mutant of AllocationLength: the sum is kept in one byte.                *)
AllocationLengthByte(length) == (5 + length) % 256

AllocationLength(length) == 5 + length

(* Response complete, or a second inquiry for the length it announces.     *)
ReadFirstStatus ==
  /\ pc = "status"
  /\ call = "first"
  /\ Receive
  /\ response' = data
  /\ \E length \in AdditionalLength(data) :
       \/ ~NeedsMore(length) /\ Respond(data)
       \/ /\ NeedsMore(length)
          /\ AskInquiry("second", asked.lun, asked.page, AllocationLength(length))
          /\ UNCHANGED <<wants, result>>
       \/ NoMemory
  /\ UNCHANGED <<data, clean>>

ReadSecondStatus ==
  /\ pc = "status"
  /\ call = "second"
  /\ Receive
  /\ \/ data.size < MIN_LENGTH /\ Respond(response)
     \/ data.size >= MIN_LENGTH /\ (Respond(data) \/ NoMemory)
  /\ UNCHANGED <<data, response, clean>>

-----------------------------------------------------------------------------
(* The target executes one command after the other and answers with the    *)
(* data it was asked for, if any, and a status that repeats the bytes of   *)
(* the tag.                                                                *)

IsInquiry(c)  == c[15] = INQUIRY
IsStandard(c) == IsInquiry(c) /\ c[16] = 0

Least(a, b) == IF a < b THEN a ELSE b

(* Standard inquiry data end where their fifth byte says.                  *)
InquirySizes(c) == IF IsStandard(c) THEN {5 + additional} ELSE PageSizes

FullSizes(c) ==
  IF IsInquiry(c)
    THEN {Least(Least(n, 256 * c[18] + c[19]), TransferLength(c)) :
          n \in InquirySizes(c)}
    ELSE {TransferLength(c)}

Sizes(full) ==
  {full} \cup (IF "short" \in Failures THEN {n \in ShortSizes : n < full}
               ELSE {})

StatusBytes(c) ==
  [i \in 0..CSW_LEN - 1 |-> IF i \in 0..3 THEN CSWSignature[i + 1]
                            ELSE IF i \in 4..7 THEN c[i] ELSE 0]

Message(c, part, full, n) ==
  [part |-> part, tag |-> CommandTag(c), size |-> n,
   standard |-> IsStandard(c) /\ part = "data", cut |-> n # full,
   bytes |-> IF part = "status" THEN StatusBytes(c) ELSE NoBytes]

Execute ==
  /\ inbox # <<>>
  /\ outbox = <<>>
  /\ ~Stuck
  /\ inbox' = Tail(inbox)
  /\ \E c \in {Head(inbox)} :
       \E full \in FullSizes(c), s \in Sizes(CSW_LEN) :
         \E n \in Sizes(full) :
           outbox' = (IF TransferLength(c) = 0 THEN <<>>
                      ELSE <<Message(c, "data", full, n)>>)
                     \o <<Message(c, "status", CSW_LEN, s)>>
  /\ UNCHANGED <<hostVars, additional, clean>>

-----------------------------------------------------------------------------
HostStep ==
  \/ Send
  \/ SendFails
  \/ ReadOverflows
  \/ ReadTimesOut
  \/ ReadData
  \/ ReadFirst
  \/ ReadSecond
  \/ ReadStatus
  \/ ReadFirstStatus
  \/ ReadSecondStatus

(* What may go wrong, and need not.                                        *)
Mishap ==
  \/ SendTimesOut
  \/ ReadFails
  \/ OutOfMemory

Next ==
  \/ \E q \in Requests, w \in BOOLEAN : CallCommand(q, w)
  \/ \E lun \in LUNs, page \in Pages : CallInquiry(lun, page)
  \/ HostStep
  \/ Mishap
  \/ Execute

Spec == Init /\ [][Next]_vars

(* The calling thread runs; the target may never answer.                   *)
FairSpec == Spec /\ WF_vars(HostStep)

-----------------------------------------------------------------------------
(* While no call has ended between a command and its status, host and      *)
(* target are in step between calls, however calls and answers followed:   *)
(* every command taken has been answered, and every answer read.           *)
NothingLeftUnread ==
  clean /\ pc = "idle" => inbox = <<>> /\ outbox = <<>>

StatusHasTag ==
  /\ result.status.part = "status"
  /\ \A i \in 4..7 : result.status.bytes[i] = cmd[i]

DataHaveTag ==
  TransferLength(cmd) # 0 =>
    result.data.part = "data" /\ result.data.tag = CommandTag(cmd)

(* As long as they are in step, the status that sendCommand returns is the *)
(* target's answer to this very command, and so is the data.               *)
StatusAnswersCommand ==
  clean /\ pc = "idle" /\ result.kind = "status" => StatusHasTag /\ DataHaveTag

(* In step or not, after any failure: a status that sendCommand returns    *)
(* and that has the tag of the command vouches for the data too.  So the   *)
(* comparison that sendCommand does not make would tell a stale answer.    *)
(* (A status is known by its signature: data with the same four bytes are  *)
(* beyond the model.)                                                      *)
TagVouchesForData ==
  pc = "idle" /\ result.kind = "status" /\ StatusHasTag => DataHaveTag

(* The two wrappers name the tag of a command alike.  (Not so: the getters *)
(* of the status have its most significant byte first.)                    *)
StatusTagMatches ==
  clean /\ pc = "idle" /\ result.kind = "status" =>
    StatusTag(result.status.bytes) = CommandTag(cmd)

(* msscsiinquiryresponse.cpp asserts 36 bytes: whatever the target sent,   *)
(* in step or not, every InquiryResponse has them, and its getters read    *)
(* nothing but what was received.                                          *)
ResponseHasHeader ==
  result.kind = "response" =>
    result.data.size >= MIN_LENGTH /\ FieldsFit(result.data.size)

(* The bytes of a command say what the caller asked for, whatever number   *)
(* of bytes it needs, and nothing of the command before: read by the       *)
(* getters here, and by the target.                                        *)
CommandCarriesRequest ==
  pc # "idle" =>
    /\ TransferLength(cmd) = asked.length
    /\ Flags(cmd) = asked.flags
    /\ Lun(cmd) = asked.lun
    /\ CommandBlock(cmd) = asked.block
    /\ Word(CommandTag(cmd) + 1) = tag
    /\ call # "command" =>
         IsInquiry(cmd) /\ 256 * cmd[18] + cmd[19] = TransferLength(cmd)

(* As long as they are in step, sendInquiry returns the data of its own    *)
(* last command, or of the first one when the second failed; they are what *)
(* was asked for, and standard inquiry data are all the target has, unless *)
(* it cut them.  (Of a page, the fifth byte is no length: it may be cut.)  *)
InquiryComplete ==
  clean /\ pc = "idle" /\ result.kind = "response" =>
    /\ result.data.part = "data"
    /\ result.data.standard <=> asked.page = NoPage
    /\ \/ result.data.tag = CommandTag(cmd)
       \/ call = "second" /\ result.data.tag + 1 = CommandTag(cmd)
    /\ (/\ asked.page = NoPage
        /\ result.data.tag = CommandTag(cmd)
        /\ ~result.data.cut) =>
         result.data.size = 5 + additional

(* Every call ends, even when the target has gone silent; a call that      *)
(* frees its buffer twice (ReadData) ends in that way.                     *)
CallsReturn == pc = "send" ~> pc \in {"idle", "broken"}

=============================================================================
