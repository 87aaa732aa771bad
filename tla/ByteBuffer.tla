----------------------------- MODULE ByteBuffer -----------------------------
(***************************************************************************)
(* Usbpp::ByteBuffer (src/src/buffer.cpp): buffers that own a block of     *)
(* memory each, and the allocator they get it from.                        *)
(*                                                                         *)
(* Addresses are what the allocator has; but malloc and realloc may return *)
(* null at any time, and what the code has done until then is done.        *)
(* malloc(0) returns a block of no bytes, realloc of a block to no bytes   *)
(* frees it and returns null, as the C library of the supported platforms  *)
(* has it.                                                                 *)
(***************************************************************************)
EXTENDS Naturals, Sequences

CONSTANTS
  Buffers,    (* ByteBuffer variables of the client                          *)
  Addresses,  (* of blocks                                                   *)
  Bytes,      (* values of a byte                                            *)
  JUNK,       (* the value of a byte that nobody wrote                       *)
  NULL,       (* the null pointer                                            *)
  Habits,     (* what this client does beyond the careful one, see below     *)
  MaxSize     (* bound of the model: the largest buffer                      *)

(***************************************************************************)
(* Both are legal by the comments of buffer.h:                             *)
(*   to_nothing   resizes a buffer to zero bytes, or appends an empty      *)
(*                buffer to an empty one                                   *)
(*   append_self  appends a buffer to itself                               *)
(***************************************************************************)
ASSUME ConstantsAssumption ==
  /\ NULL \notin Addresses
  /\ Habits \subseteq {"to_nothing", "append_self"}
  /\ MaxSize \in Nat

VARIABLES
  alive,      (* the buffers that are constructed and not destroyed          *)
  m_data,     (* buffer -> address of its block, or NULL                     *)
  m_size,     (* buffer -> its size                                          *)
  allocated,  (* the addresses of blocks that are not free                   *)
  content,    (* address -> the bytes of the block, none when it is free     *)
  fault,      (* a pointer to a freed block was followed                     *)
  thrown      (* the last operation ended with bad_alloc                     *)

heapVars == <<allocated, content>>
vars     == <<alive, m_data, m_size, heapVars, fault, thrown>>

Values == Bytes \cup {JUNK}

TypeOK ==
  /\ alive \in SUBSET Buffers
  /\ m_data \in [Buffers -> Addresses \cup {NULL}]
  /\ m_size \in [Buffers -> Nat]
  /\ allocated \in SUBSET Addresses
  /\ content \in [Addresses -> Seq(Values)]
  /\ fault \in BOOLEAN
  /\ thrown \in BOOLEAN
  /\ \A b \in Buffers : b \notin alive => m_data[b] = NULL /\ m_size[b] = 0

Init ==
  /\ alive = {}
  /\ m_data = [b \in Buffers |-> NULL]
  /\ m_size = [b \in Buffers |-> 0]
  /\ allocated = {}
  /\ content = [a \in Addresses |-> <<>>]
  /\ fault = FALSE
  /\ thrown = FALSE

-----------------------------------------------------------------------------
Data(b) == IF m_data[b] = NULL THEN <<>> ELSE content[m_data[b]]

(* The pointer of b can be followed.                                       *)
Sound(b) ==
  m_data[b] # NULL => m_data[b] \in allocated /\ Len(Data(b)) = m_size[b]

(* After a fault nothing is specified.                                     *)
Missing(b)  == ~fault /\ b \notin alive
Existing(b) == ~fault /\ b \in alive

Unused == Addresses \ allocated

Fresh(n) == [i \in 1..n |-> JUNK]

(* The bytes of string s that fit into n, and what was never written.      *)
(* Mutant of Fitted: the block is a new one.                               *)
FittedFresh(s, n) == Fresh(n)

Fitted(s, n) == [i \in 1..n |-> IF i \in DOMAIN s THEN s[i] ELSE JUNK]

(* Block a takes the place of old, which is null, another block, or a.     *)
Replace(old, a, s) ==
  /\ allocated' = (allocated \ {old}) \cup {a}
  /\ content' = [x \in Addresses |-> IF x = a THEN s
                                     ELSE IF x = old THEN <<>> ELSE content[x]]

Release(old) ==
  /\ allocated' = allocated \ {old}
  /\ content' = [x \in Addresses |-> IF x = old THEN <<>> ELSE content[x]]

Hold(b, a, n) ==
  /\ m_data' = [m_data EXCEPT ![b] = a]
  /\ m_size' = [m_size EXCEPT ![b] = n]

(* The ends of an operation.                                               *)
Return == thrown' = FALSE

Throw == thrown' = TRUE

(* Thrown before anything was changed; of a constructor no object is left. *)
ThrowUnchanged == Throw /\ UNCHANGED <<alive, m_data, m_size, heapVars>>

-----------------------------------------------------------------------------
(* Constructors and the destructor.                                        *)

ConstructEmpty(b) ==
  /\ Missing(b)
  /\ alive' = alive \cup {b}
  /\ Return
  /\ UNCHANGED <<m_data, m_size, heapVars, fault>>

(* A constructor that allocates: from a size, an array or another buffer.  *)
Allocate(b, s) ==
  /\ Missing(b)
  /\ \/ /\ \E a \in Unused : Replace(NULL, a, s) /\ Hold(b, a, Len(s))
        /\ alive' = alive \cup {b}
        /\ Return
     \/ ThrowUnchanged

ConstructSized(b, n) == Allocate(b, Fresh(n)) /\ UNCHANGED fault

ConstructFrom(b, s) == Allocate(b, s) /\ UNCHANGED fault

CopyConstruct(b, c) ==
  /\ Existing(c)
  /\ Allocate(b, Data(c))
  /\ fault' = ~(thrown' \/ Sound(c))

(* m_data and m_size of c go over to b.                                    *)
Take(b, c) ==
  /\ m_data' = [m_data EXCEPT ![b] = m_data[c], ![c] = NULL]
  /\ m_size' = [m_size EXCEPT ![b] = m_size[c], ![c] = 0]

MoveConstruct(b, c) ==
  /\ Missing(b)
  /\ Existing(c)
  /\ alive' = alive \cup {b}
  /\ Take(b, c)
  /\ Return
  /\ UNCHANGED <<heapVars, fault>>

(* Mutant of Destroy: the size is left behind.                             *)
DestroyPointer(b) ==
  /\ Existing(b)
  /\ alive' = alive \ {b}
  /\ Release(m_data[b])
  /\ Hold(b, NULL, m_size[b])
  /\ fault' = ~Sound(b)
  /\ Return

Destroy(b) ==
  /\ Existing(b)
  /\ alive' = alive \ {b}
  /\ Release(m_data[b])
  /\ Hold(b, NULL, 0)
  /\ fault' = ~Sound(b)
  /\ Return

-----------------------------------------------------------------------------
(* Assignments; nothing happens when both sides are the same buffer.       *)

AssignSameSize(b, c) ==
  /\ Existing(b) /\ Existing(c)
  /\ b # c
  /\ m_size[b] = m_size[c]
  /\ content' = [x \in Addresses |-> IF x = m_data[b] THEN Data(c) ELSE content[x]]
  /\ fault' = ~(Sound(b) /\ Sound(c))
  /\ Return
  /\ UNCHANGED <<alive, m_data, m_size, allocated>>

(* Block a with the bytes of c takes the place of the block of b.          *)
Swapped(b, c) ==
  /\ \E a \in Unused : Replace(m_data[b], a, Data(c)) /\ Hold(b, a, m_size[c])
  /\ Return
  /\ UNCHANGED alive

(* Mutant of AssignBySwap: the old block is freed before there is another. *)
AssignInPlace(b, c) ==
  /\ Existing(b) /\ Existing(c)
  /\ m_size[b] # m_size[c]
  /\ \/ Swapped(b, c)
     \/ Release(m_data[b]) /\ Throw /\ UNCHANGED <<alive, m_data, m_size>>
  /\ fault' = ~(Sound(b) /\ Sound(c))

(* The old block goes with the temporary that b was swapped with; if that  *)
(* finds no memory, the assignment has not begun.                          *)
AssignBySwap(b, c) ==
  /\ Existing(b) /\ Existing(c)
  /\ m_size[b] # m_size[c]
  /\ Swapped(b, c) \/ ThrowUnchanged
  /\ fault' = ~(thrown' \/ (Sound(b) /\ Sound(c)))

MoveAssign(b, c) ==
  /\ Existing(b) /\ Existing(c)
  /\ b # c
  /\ Release(m_data[b])
  /\ Take(b, c)
  /\ fault' = ~Sound(b)
  /\ Return
  /\ UNCHANGED alive

-----------------------------------------------------------------------------
(* operator[] with an index inside the buffer.                             *)
Write(b, i, v) ==
  /\ Existing(b)
  /\ i \in DOMAIN Data(b)
  /\ content' = [content EXCEPT ![m_data[b]][i] = v]
  /\ fault' = ~Sound(b)
  /\ Return
  /\ UNCHANGED <<alive, m_data, m_size, allocated>>

(* realloc to no bytes frees the block of b and returns null; the          *)
(* exception leaves m_data pointing to it.                                 *)
LoseBlock(b) ==
  /\ "to_nothing" \in Habits
  /\ Release(m_data[b])
  /\ Throw
  /\ UNCHANGED <<alive, m_data, m_size>>

(* The pointer of b can be followed after its block has moved to a.        *)
SoundAfter(b, c, a) ==
  Sound(c) /\ (b = c => a = m_data[b] \/ m_size[c] = 0)

(* A block for s in the place of that of b; it may move.  The buffers read *)
(* are read when it has moved.  A realloc that fails leaves the block.     *)
Reallocate(b, s, read) ==
  \/ \E a \in Unused \cup ({m_data[b]} \ {NULL}) :
       /\ Replace(m_data[b], a, s)
       /\ Hold(b, a, Len(s))
       /\ fault' = ~(Sound(b) /\ \A c \in read : SoundAfter(b, c, a))
       /\ Return
       /\ UNCHANGED alive
  \/ ThrowUnchanged /\ fault' = ~Sound(b)

Nothing(b, n) == n = 0 /\ m_data[b] # NULL

AppendBuffer(b, c) ==
  /\ Existing(b) /\ Existing(c)
  /\ b = c => "append_self" \in Habits
  /\ m_size[b] + m_size[c] <= MaxSize
  /\ IF Nothing(b, m_size[b] + m_size[c])
       THEN LoseBlock(b) /\ fault' = ~Sound(b)
       ELSE Reallocate(b, Data(b) \o Data(c), {c})

Resize(b, n) ==
  /\ Existing(b)
  /\ n # m_size[b]
  /\ IF Nothing(b, n)
       THEN LoseBlock(b) /\ fault' = ~Sound(b)
       ELSE Reallocate(b, Fitted(Data(b), n), {})

-----------------------------------------------------------------------------
Sizes == 0..MaxSize

Step(b) ==
  \/ ConstructEmpty(b)
  \/ \E n \in Sizes : ConstructSized(b, n)
  \/ \E n \in Sizes : \E s \in [1..n -> Bytes] : ConstructFrom(b, s)
  \/ Destroy(b)
  \/ \E n \in Sizes, v \in Bytes : Write(b, n, v)
  \/ \E n \in Sizes : Resize(b, n)
  \/ \E c \in Buffers :
       \/ CopyConstruct(b, c)
       \/ MoveConstruct(b, c)
       \/ AssignSameSize(b, c)
       \/ AssignBySwap(b, c)
       \/ MoveAssign(b, c)
       \/ AppendBuffer(b, c)

Next == \E b \in Buffers : Step(b)

Spec == Init /\ [][Next]_vars

-----------------------------------------------------------------------------
(* The client that keeps clear of both.                                    *)
Careful == Habits = {}

(* Nothing leaks, and nothing is freed twice.                              *)
OneOwner ==
  \A a \in allocated :
    \E b \in alive : \A c \in Buffers : m_data[c] = a <=> c = b

NullIsEmpty == \A b \in Buffers : m_data[b] = NULL => m_size[b] = 0

(* For the careful client: every block belongs to one buffer and has its   *)
(* size, every buffer that points somewhere points to a block, and no      *)
(* freed block is touched, also after an allocation has failed in any of   *)
(* the operations.                                                         *)
StorageExact ==
  /\ ~fault
  /\ OneOwner
  /\ NullIsEmpty
  /\ \A b \in Buffers : Sound(b)
  /\ \A a \in Unused : content[a] = <<>>

(* buffer.h, for the careful client: every buffer is a string of bytes of  *)
(* its own, with copies, moves, append and resize as ByteStrings has them; *)
(* an operation that throws has not happened.                              *)
Strings == INSTANCE ByteStrings
             WITH Names <- Buffers, live <- alive,
                  value <- [b \in Buffers |-> Data(b)]

ValueSemantics == Strings!Spec

=============================================================================
