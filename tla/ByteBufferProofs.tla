-------------------------- MODULE ByteBufferProofs --------------------------
(***************************************************************************)
(* Proofs about ByteBuffer, for every number of buffers and blocks and     *)
(* every size.                                                             *)
(***************************************************************************)
EXTENDS ByteBuffer, SequenceTheorems, TLAPS

-----------------------------------------------------------------------------
(* Strings.                                                                *)

LEMMA FreshType ==
  ASSUME NEW n \in Nat
  PROVE  Fresh(n) \in Seq(Values) /\ Len(Fresh(n)) = n
BY IsASeq, LenProperties DEF Fresh, Values

LEMMA FittedType ==
  ASSUME NEW n \in Nat, NEW s \in Seq(Values)
  PROVE  Fitted(s, n) \in Seq(Values) /\ Len(Fitted(s, n)) = n
<1>1. \A i \in 1..n : (IF i \in DOMAIN s THEN s[i] ELSE JUNK) \in Values
  BY ElementOfSeq, LenProperties DEF Values
<1> QED
  BY <1>1, IsASeq DEF Fitted

LEMMA ArrayType ==
  ASSUME NEW n \in Nat, NEW s \in [1..n -> Bytes]
  PROVE  s \in Seq(Values)
BY IsASeq DEF Values

LEMMA DataType ==
  ASSUME TypeOK, NEW b \in Buffers
  PROVE  Data(b) \in Seq(Values)
<1>1. CASE m_data[b] = NULL
  BY <1>1, EmptySeq DEF Data
<1>2. CASE m_data[b] # NULL
  BY <1>2 DEF TypeOK, Data
<1> QED
  BY <1>1, <1>2

-----------------------------------------------------------------------------
(* The inductive invariant: pointers lead to blocks of their size, no two  *)
(* to the same, and one to each; null pointers have no size.               *)

Pointed == \A b \in Buffers : Sound(b)

Apart ==
  \A b, c \in Buffers : m_data[b] = m_data[c] /\ m_data[b] # NULL => b = c

Covered == \A a \in allocated : \E b \in Buffers : m_data[b] = a

FreeIsEmpty == \A a \in Unused : content[a] = <<>>

Storage == Pointed /\ Apart /\ Covered /\ NullIsEmpty /\ FreeIsEmpty

LEMMA StorageImpliesExact ==
  ASSUME TypeOK, Storage, ~fault
  PROVE  StorageExact
<1>1. OneOwner
  <2> SUFFICES ASSUME NEW a \in allocated
               PROVE  \E b \in alive : \A c \in Buffers : m_data[c] = a <=> c = b
    BY DEF OneOwner
  <2>1. PICK b \in Buffers : m_data[b] = a
    BY DEF Storage, Covered
  <2>2. a # NULL
    BY ConstantsAssumption DEF TypeOK
  <2>3. b \in alive
    BY <2>1, <2>2 DEF TypeOK
  <2> QED
    BY <2>1, <2>2, <2>3 DEF Storage, Apart
<1> QED
  BY <1>1 DEF Storage, StorageExact, Pointed, FreeIsEmpty

-----------------------------------------------------------------------------
(* What the allocator does to the blocks and to the strings of the buffers.*)

Value == [b \in Buffers |-> Data(b)]

(* Buffer b gets a new block, or its own again, with string s in it.       *)
LEMMA Regain ==
  ASSUME TypeOK, Storage,
         NEW b \in Buffers, NEW s \in Seq(Values),
         NEW a \in Unused \cup ({m_data[b]} \ {NULL}),
         Replace(m_data[b], a, s), Hold(b, a, Len(s))
  PROVE  /\ m_data' \in [Buffers -> Addresses \cup {NULL}]
         /\ m_size' \in [Buffers -> Nat]
         /\ allocated' \in SUBSET Addresses
         /\ content' \in [Addresses -> Seq(Values)]
         /\ Storage'
         /\ Value' = [Value EXCEPT ![b] = s]
<1>1. a \in Addresses /\ a # NULL
  BY ConstantsAssumption DEF TypeOK, Unused
<1>2. Len(s) \in Nat
  BY LenProperties
<1>3. \A x \in Addresses : content'[x] = IF x = a THEN s
                                         ELSE IF x = m_data[b] THEN <<>>
                                         ELSE content[x]
  BY DEF Replace
<1>4. m_data' \in [Buffers -> Addresses \cup {NULL}]
  BY <1>1 DEF Hold, TypeOK
<1>5. m_size' \in [Buffers -> Nat]
  BY <1>2 DEF Hold, TypeOK
<1>6. allocated' \in SUBSET Addresses
  BY <1>1 DEF Replace, TypeOK
<1>7. content' \in [Addresses -> Seq(Values)]
  BY EmptySeq DEF Replace, TypeOK
<1>8. m_data'[b] = a /\ m_size'[b] = Len(s)
  BY DEF Hold, TypeOK
<1>9. \A c \in Buffers \ {b} : m_data'[c] = m_data[c] /\ m_size'[c] = m_size[c]
  BY DEF Hold, TypeOK
<1>10. \A c \in Buffers \ {b} : m_data[c] # a
  <2> SUFFICES ASSUME NEW c \in Buffers \ {b}, m_data[c] = a
               PROVE  FALSE
    OBVIOUS
  <2>1. m_data[c] \in allocated
    BY <1>1 DEF Storage, Pointed, Sound
  <2>2. m_data[b] = a
    BY <2>1 DEF Unused
  <2> QED
    BY <1>1, <2>2 DEF Storage, Apart
<1>11. \A c \in Buffers \ {b} : m_data[c] # NULL => m_data[c] # m_data[b]
  BY DEF Storage, Apart
<1>12. \A c \in Buffers \ {b} : Data(c)' = Data(c)
  BY <1>3, <1>9, <1>10, <1>11 DEF Data, TypeOK
<1>13. Data(b)' = s
  BY <1>1, <1>3, <1>8 DEF Data
<1>14. Pointed'
  <2> SUFFICES ASSUME NEW c \in Buffers, m_data'[c] # NULL
               PROVE  m_data'[c] \in allocated' /\ Len(Data(c)') = m_size'[c]
    BY DEF Pointed, Sound
  <2>1. CASE c = b
    BY <1>8, <1>13, <2>1 DEF Replace
  <2>2. CASE c # b
    BY <1>9, <1>11, <1>12, <2>2 DEF Replace, Storage, Pointed, Sound
  <2> QED
    BY <2>1, <2>2
<1>15. Apart'
  BY <1>8, <1>9, <1>10 DEF Apart, Storage
<1>16. Covered'
  <2> SUFFICES ASSUME NEW x \in allocated'
               PROVE  \E c \in Buffers : m_data'[c] = x
    BY DEF Covered
  <2>1. CASE x = a
    BY <1>8, <2>1
  <2>2. CASE x # a
    <3>1. x \in allocated /\ x # m_data[b]
      BY <2>2 DEF Replace
    <3>2. PICK c \in Buffers : m_data[c] = x
      BY <3>1 DEF Storage, Covered
    <3> QED
      BY <1>9, <3>1, <3>2
  <2> QED
    BY <2>1, <2>2
<1>17. NullIsEmpty'
  BY <1>1, <1>8, <1>9 DEF NullIsEmpty, Storage
<1>18. FreeIsEmpty'
  <2> SUFFICES ASSUME NEW x \in Addresses, x \notin allocated'
               PROVE  content'[x] = <<>>
    BY DEF FreeIsEmpty, Unused
  <2>1. x # a /\ (x \notin allocated \/ x = m_data[b])
    BY DEF Replace
  <2> QED
    BY <1>3, <2>1 DEF Storage, FreeIsEmpty, Unused
<1>19. Value' = [Value EXCEPT ![b] = s]
  BY <1>12, <1>13 DEF Value
<1> QED
  BY <1>4, <1>5, <1>6, <1>7, <1>14, <1>15, <1>16, <1>17, <1>18, <1>19 DEF Storage

(* Buffer b gives its block back.                                          *)
LEMMA Forgo ==
  ASSUME TypeOK, Storage, NEW b \in Buffers,
         Release(m_data[b]), Hold(b, NULL, 0)
  PROVE  /\ m_data' \in [Buffers -> Addresses \cup {NULL}]
         /\ m_size' \in [Buffers -> Nat]
         /\ allocated' \in SUBSET Addresses
         /\ content' \in [Addresses -> Seq(Values)]
         /\ Storage'
         /\ Value' = [Value EXCEPT ![b] = <<>>]
<1>1. \A x \in Addresses :
        content'[x] = IF x = m_data[b] THEN <<>> ELSE content[x]
  BY DEF Release
<1>2. /\ m_data' \in [Buffers -> Addresses \cup {NULL}]
      /\ m_size' \in [Buffers -> Nat]
      /\ allocated' \in SUBSET Addresses
  BY DEF Hold, Release, TypeOK
<1>3. content' \in [Addresses -> Seq(Values)]
  BY EmptySeq DEF Release, TypeOK
<1>4. m_data'[b] = NULL /\ m_size'[b] = 0
  BY DEF Hold, TypeOK
<1>5. \A c \in Buffers \ {b} : m_data'[c] = m_data[c] /\ m_size'[c] = m_size[c]
  BY DEF Hold, TypeOK
<1>6. \A c \in Buffers \ {b} : m_data[c] # NULL => m_data[c] # m_data[b]
  BY DEF Storage, Apart
<1>7. \A c \in Buffers \ {b} : Data(c)' = Data(c)
  BY <1>1, <1>5, <1>6 DEF Data, TypeOK
<1>8. Data(b)' = <<>>
  BY <1>4 DEF Data
<1>9. Pointed'
  BY <1>4, <1>5, <1>6, <1>7 DEF Pointed, Sound, Storage, Release
<1>10. Apart'
  BY <1>4, <1>5 DEF Apart, Storage
<1>11. Covered'
  BY <1>5 DEF Covered, Storage, Release
<1>12. NullIsEmpty'
  BY <1>4, <1>5 DEF NullIsEmpty, Storage
<1>13. FreeIsEmpty'
  BY <1>1 DEF FreeIsEmpty, Storage, Unused, Release
<1>14. Value' = [Value EXCEPT ![b] = <<>>]
  BY <1>7, <1>8 DEF Value
<1> QED
  BY <1>2, <1>3, <1>9, <1>10, <1>11, <1>12, <1>13, <1>14 DEF Storage

(* Buffer b gives its block back and takes that of c.                      *)
LEMMA TakeOver ==
  ASSUME TypeOK, Storage, NEW b \in Buffers, NEW c \in Buffers, b # c,
         Release(m_data[b]), Take(b, c)
  PROVE  /\ m_data' \in [Buffers -> Addresses \cup {NULL}]
         /\ m_size' \in [Buffers -> Nat]
         /\ allocated' \in SUBSET Addresses
         /\ content' \in [Addresses -> Seq(Values)]
         /\ Storage'
         /\ Value' = [Value EXCEPT ![b] = Value[c], ![c] = <<>>]
<1>1. \A x \in Addresses :
        content'[x] = IF x = m_data[b] THEN <<>> ELSE content[x]
  BY DEF Release
<1>2. /\ m_data' \in [Buffers -> Addresses \cup {NULL}]
      /\ m_size' \in [Buffers -> Nat]
      /\ allocated' \in SUBSET Addresses
  BY DEF Take, Release, TypeOK
<1>3. content' \in [Addresses -> Seq(Values)]
  BY EmptySeq DEF Release, TypeOK
<1>4. /\ m_data'[b] = m_data[c] /\ m_size'[b] = m_size[c]
      /\ m_data'[c] = NULL /\ m_size'[c] = 0
  BY DEF Take, TypeOK
<1>5. \A d \in Buffers \ {b, c} :
        m_data'[d] = m_data[d] /\ m_size'[d] = m_size[d]
  BY DEF Take, TypeOK
<1>6. \A d \in Buffers \ {b} : m_data[d] # NULL => m_data[d] # m_data[b]
  BY DEF Storage, Apart
<1>7. \A d \in Buffers \ {b, c} : Data(d)' = Data(d)
  BY <1>1, <1>5, <1>6 DEF Data, TypeOK
<1>8. Data(c)' = <<>>
  BY <1>4 DEF Data
<1>9. Data(b)' = Data(c)
  BY <1>1, <1>4, <1>6 DEF Data, TypeOK
<1>10. Pointed'
  <2> SUFFICES ASSUME NEW d \in Buffers, m_data'[d] # NULL
               PROVE  m_data'[d] \in allocated' /\ Len(Data(d)') = m_size'[d]
    BY DEF Pointed, Sound
  <2>1. CASE d = b
    BY <1>4, <1>6, <1>9, <2>1 DEF Release, Storage, Pointed, Sound
  <2>2. CASE d # b
    BY <1>4, <1>5, <1>6, <1>7, <2>2 DEF Release, Storage, Pointed, Sound
  <2> QED
    BY <2>1, <2>2
<1>11. Apart'
  BY <1>4, <1>5 DEF Apart, Storage
<1>12. Covered'
  <2> SUFFICES ASSUME NEW x \in allocated'
               PROVE  \E d \in Buffers : m_data'[d] = x
    BY DEF Covered
  <2>1. x \in allocated /\ x # m_data[b]
    BY DEF Release
  <2>2. PICK d \in Buffers : m_data[d] = x
    BY <2>1 DEF Storage, Covered
  <2> QED
    BY <1>4, <1>5, <2>1, <2>2
<1>13. NullIsEmpty'
  BY <1>4, <1>5 DEF NullIsEmpty, Storage
<1>14. FreeIsEmpty'
  BY <1>1 DEF FreeIsEmpty, Storage, Unused, Release
<1>15. Value' = [Value EXCEPT ![b] = Value[c], ![c] = <<>>]
  BY <1>7, <1>8, <1>9 DEF Value
<1> QED
  BY <1>2, <1>3, <1>10, <1>11, <1>12, <1>13, <1>14, <1>15 DEF Storage

(* The block of b, if it has one, gets another string of the same size.    *)
LEMMA Overwrite ==
  ASSUME TypeOK, Storage, NEW b \in Buffers, NEW s \in Seq(Values),
         Len(s) = m_size[b],
         content' = [x \in Addresses |-> IF x = m_data[b] THEN s
                                         ELSE content[x]],
         UNCHANGED <<m_data, m_size, allocated>>
  PROVE  /\ content' \in [Addresses -> Seq(Values)]
         /\ Storage'
         /\ Value' = [Value EXCEPT ![b] = s]
<1>1. content' \in [Addresses -> Seq(Values)]
  BY DEF TypeOK
<1>2. \A c \in Buffers \ {b} : Data(c)' = Data(c)
  BY DEF Data, TypeOK, Storage, Apart
<1>3. Data(b)' = s
  <2>1. CASE m_data[b] = NULL
    <3>1. Len(s) = 0
      BY <2>1 DEF Storage, NullIsEmpty
    <3>2. s = <<>>
      BY <3>1, EmptySeq
    <3> QED
      BY <2>1, <3>2 DEF Data
  <2>2. CASE m_data[b] # NULL
    BY <2>2 DEF Data, TypeOK
  <2> QED
    BY <2>1, <2>2
<1>4. Pointed'
  BY <1>2, <1>3 DEF Pointed, Sound, Storage
<1>5. Apart' /\ Covered' /\ NullIsEmpty'
  BY DEF Storage, Apart, Covered, NullIsEmpty
<1>6. FreeIsEmpty'
  <2> SUFFICES ASSUME NEW x \in Unused
               PROVE  content'[x] = <<>>
    BY DEF FreeIsEmpty, Unused
  <2>1. x \in Addresses /\ x # NULL /\ x \notin allocated
    BY ConstantsAssumption DEF Unused
  <2>2. x # m_data[b]
    BY <2>1 DEF Storage, Pointed, Sound
  <2> QED
    BY <2>1, <2>2 DEF Storage, FreeIsEmpty
<1>7. Value' = [Value EXCEPT ![b] = s]
  BY <1>2, <1>3 DEF Value
<1> QED
  BY <1>1, <1>4, <1>5, <1>6, <1>7 DEF Storage

-----------------------------------------------------------------------------
(* Type correctness, for every client.                                     *)

(* What Replace, Release and Hold do keeps the types, wherever the pointer *)
(* of the buffer leads.                                                    *)
LEMMA ReplaceType ==
  ASSUME TypeOK, NEW old, NEW a \in Addresses, NEW s \in Seq(Values),
         Replace(old, a, s)
  PROVE  /\ allocated' \in SUBSET Addresses
         /\ content' \in [Addresses -> Seq(Values)]
BY EmptySeq DEF TypeOK, Replace

LEMMA ReleaseType ==
  ASSUME TypeOK, NEW old, Release(old)
  PROVE  /\ allocated' \in SUBSET Addresses
         /\ content' \in [Addresses -> Seq(Values)]
BY EmptySeq DEF TypeOK, Release

LEMMA HoldType ==
  ASSUME TypeOK, NEW b \in Buffers, NEW a \in Addresses \cup {NULL},
         NEW n \in Nat, Hold(b, a, n)
  PROVE  /\ m_data' \in [Buffers -> Addresses \cup {NULL}]
         /\ m_size' \in [Buffers -> Nat]
         /\ \A c \in Buffers \ {b} : m_data'[c] = m_data[c] /\ m_size'[c] = m_size[c]
         /\ m_data'[b] = a /\ m_size'[b] = n
BY DEF TypeOK, Hold

LEMMA TakeType ==
  ASSUME TypeOK, NEW b \in Buffers, NEW c \in Buffers, b # c, Take(b, c)
  PROVE  /\ m_data' \in [Buffers -> Addresses \cup {NULL}]
         /\ m_size' \in [Buffers -> Nat]
         /\ \A d \in Buffers \ {b, c} : m_data'[d] = m_data[d] /\ m_size'[d] = m_size[d]
         /\ m_data'[c] = NULL /\ m_size'[c] = 0
BY DEF TypeOK, Take

LEMMA ThrowType ==
  ASSUME TypeOK, ThrowUnchanged, fault' \in BOOLEAN
  PROVE  TypeOK'
BY DEF TypeOK, ThrowUnchanged, Throw, heapVars

LEMMA AllocateType ==
  ASSUME TypeOK, NEW b \in Buffers, NEW s \in Seq(Values), Allocate(b, s),
         fault' \in BOOLEAN
  PROVE  TypeOK'
<1>1. CASE ThrowUnchanged
  BY <1>1, ThrowType
<1>2. ASSUME NEW a \in Unused, Replace(NULL, a, s), Hold(b, a, Len(s)),
             alive' = alive \cup {b}, Return
      PROVE  TypeOK'
  <2>1. a \in Addresses /\ Len(s) \in Nat
    BY LenProperties DEF Unused
  <2> QED
    BY <1>2, <2>1, ReplaceType, HoldType DEF TypeOK, Return
<1> QED
  BY <1>1, <1>2 DEF Allocate

LEMMA ReallocateType ==
  ASSUME TypeOK, NEW b \in Buffers, b \in alive, NEW s \in Seq(Values),
         NEW read, Reallocate(b, s, read)
  PROVE  TypeOK'
<1>1. CASE ThrowUnchanged /\ fault' = ~Sound(b)
  BY <1>1, ThrowType
<1>2. ASSUME NEW a \in Unused \cup ({m_data[b]} \ {NULL}),
             Replace(m_data[b], a, s), Hold(b, a, Len(s)),
             fault' = ~(Sound(b) /\ \A c \in read : SoundAfter(b, c, a)),
             Return, UNCHANGED alive
      PROVE  TypeOK'
  <2>1. a \in Addresses /\ Len(s) \in Nat
    BY LenProperties DEF Unused, TypeOK
  <2>2. fault' \in BOOLEAN
    BY <1>2
  <2> QED
    BY <1>2, <2>1, <2>2, ReplaceType, HoldType DEF TypeOK, Return
<1> QED
  BY <1>1, <1>2 DEF Reallocate

LEMMA LoseBlockType ==
  ASSUME TypeOK, NEW b \in Buffers, LoseBlock(b), fault' \in BOOLEAN
  PROVE  TypeOK'
BY ReleaseType DEF LoseBlock, Throw, TypeOK

LEMMA StepType ==
  ASSUME TypeOK, NEW b \in Buffers, Step(b)
  PROVE  TypeOK'
<1>1. CASE ConstructEmpty(b)
  BY <1>1 DEF ConstructEmpty, Return, heapVars, TypeOK
<1>2. ASSUME NEW n \in Sizes, ConstructSized(b, n)
      PROVE  TypeOK'
  BY <1>2, FreshType, AllocateType DEF ConstructSized, Sizes, TypeOK
<1>3. ASSUME NEW n \in Sizes, NEW s \in [1..n -> Bytes], ConstructFrom(b, s)
      PROVE  TypeOK'
  BY <1>3, ArrayType, AllocateType DEF ConstructFrom, Sizes, TypeOK
<1>4. CASE Destroy(b)
  <2>1. Release(m_data[b]) /\ Hold(b, NULL, 0) /\ alive' = alive \ {b}
    BY <1>4 DEF Destroy
  <2>2. fault' \in BOOLEAN /\ thrown' \in BOOLEAN
    BY <1>4 DEF Destroy, Return
  <2>3. /\ m_data' \in [Buffers -> Addresses \cup {NULL}]
        /\ m_size' \in [Buffers -> Nat]
        /\ \A c \in Buffers : c \notin alive' => m_data'[c] = NULL /\ m_size'[c] = 0
    BY <2>1 DEF Hold, TypeOK
  <2> QED
    BY <2>1, <2>2, <2>3, ReleaseType DEF TypeOK
<1>5. ASSUME NEW i \in Sizes, NEW v \in Bytes, Write(b, i, v)
      PROVE  TypeOK'
  <2>1. i \in DOMAIN Data(b) /\ m_data[b] # NULL
    BY <1>5 DEF Write, Data
  <2>2. m_data[b] \in Addresses /\ i \in 1..Len(content[m_data[b]])
    BY <2>1, LenProperties DEF Data, TypeOK
  <2>3. [content[m_data[b]] EXCEPT ![i] = v] \in Seq(Values)
    BY <2>2, ExceptSeq DEF TypeOK, Values
  <2>4. content' \in [Addresses -> Seq(Values)]
    BY <1>5, <2>2, <2>3 DEF Write, TypeOK
  <2> QED
    BY <1>5, <2>4 DEF Write, Return, TypeOK
<1>6. ASSUME NEW n \in Sizes, Resize(b, n)
      PROVE  TypeOK'
  <2>1. b \in alive /\ n \in Nat
    BY <1>6 DEF Resize, Existing, Sizes
  <2>2. CASE Nothing(b, n)
    BY <1>6, <2>1, <2>2, LoseBlockType DEF Resize
  <2>3. CASE ~Nothing(b, n)
    BY <1>6, <2>1, <2>3, DataType, FittedType, ReallocateType DEF Resize
  <2> QED
    BY <2>2, <2>3
<1>7. ASSUME NEW c \in Buffers, CopyConstruct(b, c)
      PROVE  TypeOK'
  BY <1>7, DataType, AllocateType DEF CopyConstruct
<1>8. ASSUME NEW c \in Buffers, MoveConstruct(b, c)
      PROVE  TypeOK'
  <2>1. b # c /\ Take(b, c) /\ alive' = alive \cup {b}
    BY <1>8 DEF MoveConstruct, Missing, Existing
  <2> QED
    BY <1>8, <2>1, TakeType DEF MoveConstruct, Return, heapVars, TypeOK
<1>9. ASSUME NEW c \in Buffers, AssignSameSize(b, c)
      PROVE  TypeOK'
  <2>1. content' \in [Addresses -> Seq(Values)]
    BY <1>9, DataType DEF AssignSameSize, TypeOK
  <2> QED
    BY <1>9, <2>1 DEF AssignSameSize, Return, TypeOK
<1>10. ASSUME NEW c \in Buffers, AssignBySwap(b, c)
       PROVE  TypeOK'
  <2>1. fault' \in BOOLEAN /\ b \in alive
    BY <1>10 DEF AssignBySwap, Existing
  <2>2. CASE Swapped(b, c)
    <3>1. PICK a \in Unused :
            Replace(m_data[b], a, Data(c)) /\ Hold(b, a, m_size[c])
      BY <2>2 DEF Swapped
    <3>2. a \in Addresses /\ m_size[c] \in Nat
      BY DEF Unused, TypeOK
    <3> QED
      BY <2>1, <2>2, <3>1, <3>2, DataType, ReplaceType, HoldType
         DEF Swapped, Return, TypeOK
  <2>3. CASE ThrowUnchanged
    BY <2>1, <2>3, ThrowType
  <2> QED
    BY <1>10, <2>2, <2>3 DEF AssignBySwap
<1>11. ASSUME NEW c \in Buffers, MoveAssign(b, c)
       PROVE  TypeOK'
  <2>1. b # c /\ b \in alive /\ Take(b, c) /\ Release(m_data[b])
    BY <1>11 DEF MoveAssign, Existing
  <2> QED
    BY <1>11, <2>1, TakeType, ReleaseType DEF MoveAssign, Return, TypeOK
<1>12. ASSUME NEW c \in Buffers, AppendBuffer(b, c)
       PROVE  TypeOK'
  <2>1. b \in alive
    BY <1>12 DEF AppendBuffer, Existing
  <2>2. Data(b) \o Data(c) \in Seq(Values)
    BY DataType, ConcatProperties
  <2>3. CASE Nothing(b, m_size[b] + m_size[c])
    BY <1>12, <2>1, <2>3, LoseBlockType DEF AppendBuffer
  <2>4. CASE ~Nothing(b, m_size[b] + m_size[c])
    BY <1>12, <2>1, <2>2, <2>4, ReallocateType DEF AppendBuffer
  <2> QED
    BY <2>3, <2>4
<1> QED
  BY <1>1, <1>2, <1>3, <1>4, <1>5, <1>6, <1>7, <1>8, <1>9, <1>10, <1>11, <1>12
     DEF Step

(* Sizes, pointers and blocks keep their types, for every client of buffer.cpp. *)
THEOREM TypeCorrect == Spec => []TypeOK
<1>1. Init => TypeOK
  <2> SUFFICES ASSUME Init
               PROVE  TypeOK
    OBVIOUS
  <2>1. content \in [Addresses -> Seq(Values)]
    BY EmptySeq DEF Init
  <2>2. /\ m_data \in [Buffers -> Addresses \cup {NULL}]
        /\ m_size \in [Buffers -> Nat]
    BY DEF Init
  <2> QED
    BY <2>1, <2>2 DEF Init, TypeOK
<1>2. TypeOK /\ [Next]_vars => TypeOK'
  BY StepType DEF Next, vars, heapVars, TypeOK
<1> QED
  BY <1>1, <1>2, PTL DEF Spec

-----------------------------------------------------------------------------
(* The careful client: storage stays exact, and each step is a step of     *)
(* ByteStrings.                                                            *)

LEMMA DataLength ==
  ASSUME TypeOK, Storage, NEW b \in Buffers
  PROVE  Len(Data(b)) = m_size[b]
<1>1. CASE m_data[b] = NULL
  BY <1>1, EmptySeq DEF Data, Storage, NullIsEmpty
<1>2. CASE m_data[b] # NULL
  BY <1>2 DEF Storage, Pointed, Sound
<1> QED
  BY <1>1, <1>2

Good == TypeOK /\ Storage /\ ~fault

LEMMA AllSound ==
  ASSUME Good, NEW b \in Buffers
  PROVE  Sound(b)
BY DEF Good, Storage, Pointed

LEMMA AllocateGood ==
  ASSUME Good, NEW b \in Buffers, NEW s \in Seq(Values), Allocate(b, s),
         ~ThrowUnchanged
  PROVE  /\ Storage'
         /\ Value' = [Value EXCEPT ![b] = s]
         /\ b \notin alive /\ alive' = alive \cup {b} /\ ~thrown'
<1>0. /\ b \notin alive /\ alive' = alive \cup {b} /\ ~thrown'
      /\ \E a \in Unused : Replace(NULL, a, s) /\ Hold(b, a, Len(s))
  BY DEF Allocate, Missing, Return
<1>1. PICK a \in Unused : Replace(NULL, a, s) /\ Hold(b, a, Len(s))
  BY <1>0
<1>2. m_data[b] = NULL
  BY DEF Allocate, Missing, Good, TypeOK
<1> QED
  BY <1>0, <1>1, <1>2, Regain DEF Good

LEMMA ReallocateGood ==
  ASSUME Good, NEW b \in Buffers, NEW s \in Seq(Values), NEW read,
         read \subseteq Buffers \ {b}, Reallocate(b, s, read),
         ~(ThrowUnchanged /\ fault' = ~Sound(b))
  PROVE  /\ Storage' /\ ~fault' /\ UNCHANGED alive
         /\ Value' = [Value EXCEPT ![b] = s]
<1>1. PICK a \in Unused \cup ({m_data[b]} \ {NULL}) :
        /\ Replace(m_data[b], a, s)
        /\ Hold(b, a, Len(s))
        /\ fault' = ~(Sound(b) /\ \A c \in read : SoundAfter(b, c, a))
        /\ UNCHANGED alive
  BY DEF Reallocate
<1>2. ~fault'
  BY <1>1, AllSound DEF SoundAfter
<1> QED
  BY <1>1, <1>2, Regain DEF Good

(* A step of the buffers as a step of strings.                             *)
AbstractStep == Strings!Next \/ UNCHANGED <<alive, Value>>

(* What throws before it has changed anything has not happened.            *)
LEMMA ThrowStep ==
  ASSUME Good, ThrowUnchanged
  PROVE  Storage' /\ AbstractStep
<1>1. UNCHANGED <<alive, m_data, m_size, allocated, content>>
  BY DEF ThrowUnchanged, heapVars
<1> QED
  BY <1>1 DEF Good, Storage, Pointed, Sound, Data, Apart, Covered, NullIsEmpty,
              FreeIsEmpty, Unused, Value, AbstractStep

LEMMA MakeStep ==
  ASSUME Good, NEW b \in Buffers, NEW s \in Seq(Values), b \notin alive,
         alive' = alive \cup {b}, Value' = [Value EXCEPT ![b] = s]
  PROVE  Strings!Next
<1>1. Value'[b] = s
  BY DEF Value
<1>2. Strings!Make(b)
  BY <1>1 DEF Strings!Make, Strings!Become, Value
<1> QED
  BY <1>2 DEF Strings!Next

LEMMA CopyStep ==
  ASSUME Good, NEW b \in Buffers, NEW c \in Buffers, c \in alive,
         alive' = alive \cup {b}, Value' = [Value EXCEPT ![b] = Data(c)]
  PROVE  Strings!Next
<1>1. Strings!Copy(b, c)
  BY DEF Strings!Copy, Strings!Become, Value
<1> QED
  BY <1>1 DEF Strings!Next

LEMMA MoveStep ==
  ASSUME Good, NEW b \in Buffers, NEW c \in Buffers, c \in alive, b # c,
         alive' = alive \cup {b},
         Value' = [Value EXCEPT ![b] = Value[c], ![c] = <<>>]
  PROVE  Strings!Next
<1>1. Strings!Move(b, c)
  BY DEF Strings!Move, Value
<1> QED
  BY <1>1 DEF Strings!Next

LEMMA StepGood ==
  ASSUME Careful, Good, NEW b \in Buffers, Step(b)
  PROVE  Storage' /\ ~fault' /\ AbstractStep
<1> USE DEF Good
<1>1. CASE ConstructEmpty(b)
  <2>1. /\ UNCHANGED <<m_data, m_size, allocated, content, fault>>
        /\ b \notin alive /\ alive' = alive \cup {b}
    BY <1>1 DEF ConstructEmpty, Missing, heapVars
  <2>2. Storage'
    BY <2>1 DEF Storage, Pointed, Sound, Data, Apart, Covered, NullIsEmpty,
                FreeIsEmpty, Unused
  <2>3. Data(b) = <<>> /\ Value' = Value
    BY <2>1 DEF TypeOK, Data, Value
  <2>4. Value' = [Value EXCEPT ![b] = <<>>]
    BY <2>3 DEF Value
  <2> QED
    BY <2>1, <2>2, <2>4, EmptySeq, MakeStep DEF AbstractStep
<1>2. ASSUME NEW n \in Sizes, ConstructSized(b, n)
      PROVE  Storage' /\ ~fault' /\ AbstractStep
  <2>1. Fresh(n) \in Seq(Values)
    BY FreshType DEF Sizes
  <2>2. Allocate(b, Fresh(n)) /\ ~fault'
    BY <1>2 DEF ConstructSized
  <2> QED
    BY <2>1, <2>2, AllocateGood, MakeStep, ThrowStep DEF AbstractStep
<1>3. ASSUME NEW n \in Sizes, NEW s \in [1..n -> Bytes], ConstructFrom(b, s)
      PROVE  Storage' /\ ~fault' /\ AbstractStep
  <2>1. s \in Seq(Values)
    BY ArrayType DEF Sizes
  <2>2. Allocate(b, s) /\ ~fault'
    BY <1>3 DEF ConstructFrom
  <2> QED
    BY <2>1, <2>2, AllocateGood, MakeStep, ThrowStep DEF AbstractStep
<1>4. CASE Destroy(b)
  <2>1. Release(m_data[b]) /\ Hold(b, NULL, 0) /\ ~fault'
    BY <1>4, AllSound DEF Destroy
  <2>2. Storage' /\ Value' = [Value EXCEPT ![b] = <<>>]
    BY <2>1, Forgo
  <2>3. Strings!Drop(b)
    BY <1>4, <2>2 DEF Strings!Drop, Strings!Become, Value, Destroy, Existing
  <2> QED
    BY <2>1, <2>2, <2>3 DEF AbstractStep, Strings!Next
<1>5. ASSUME NEW i \in Sizes, NEW v \in Bytes, Write(b, i, v)
      PROVE  Storage' /\ ~fault' /\ AbstractStep
  <2> DEFINE s == [Data(b) EXCEPT ![i] = v]
  <2>1. m_data[b] # NULL /\ i \in DOMAIN Data(b) /\ i \in 1..Len(Data(b))
    BY <1>5, DataType, LenProperties DEF Write, Data
  <2>2. s \in Seq(Values) /\ Len(s) = Len(Data(b))
    BY <2>1, DataType, ExceptSeq DEF Values
  <2>3. content' = [x \in Addresses |-> IF x = m_data[b] THEN s ELSE content[x]]
    BY <1>5, <2>1 DEF Write, TypeOK, Data
  <2>4. UNCHANGED <<m_data, m_size, allocated>> /\ UNCHANGED alive /\ b \in alive
    BY <1>5 DEF Write, Existing
  <2>5. ~fault'
    BY <1>5, AllSound DEF Write
  <2>6. Storage' /\ Value' = [Value EXCEPT ![b] = s]
    <3> HIDE DEF s
    <3> QED
      BY <2>2, <2>3, <2>4, DataLength, Overwrite
  <2>7. Strings!Write(b)
    BY <2>1, <2>4, <2>6 DEF Strings!Write, Strings!Become, Value, Values
  <2> QED
    BY <2>5, <2>6, <2>7 DEF AbstractStep, Strings!Next
<1>6. ASSUME NEW n \in Sizes, Resize(b, n)
      PROVE  Storage' /\ ~fault' /\ AbstractStep
  <2> DEFINE s == Fitted(Data(b), n)
  <2>1. s \in Seq(Values)
    BY DataType, FittedType DEF Sizes
  <2>2. Reallocate(b, s, {}) /\ b \in alive
    BY <1>6 DEF Resize, LoseBlock, Careful, Existing
  <2> SUFFICES ASSUME ~(ThrowUnchanged /\ fault' = ~Sound(b))
               PROVE  Storage' /\ ~fault' /\ AbstractStep
    BY AllSound, ThrowStep
  <2>3. /\ Storage' /\ ~fault' /\ UNCHANGED alive
        /\ Value' = [Value EXCEPT ![b] = s]
    <3> HIDE DEF s
    <3> QED
      BY <2>1, <2>2, ReallocateGood
  <2>4. Value'[b] = s /\ Value[b] = Data(b)
    BY <2>3 DEF Value
  <2>5. \A i \in DOMAIN s \cap DOMAIN Data(b) : s[i] = Data(b)[i]
    BY DEF Fitted
  <2>6. Strings!Fit(b)
    <3> HIDE DEF s
    <3>1. /\ Value'[b] \in Seq(Values)
          /\ \A i \in DOMAIN Value'[b] \cap DOMAIN Value[b] :
               Value'[b][i] = Value[b][i]
          /\ Value' = [Value EXCEPT ![b] = Value'[b]]
      BY <2>1, <2>3, <2>4, <2>5
    <3> QED
      BY <2>2, <2>3, <3>1 DEF Strings!Fit, Strings!Become, Value
  <2> QED
    BY <2>3, <2>6 DEF AbstractStep, Strings!Next
<1>7. ASSUME NEW c \in Buffers, CopyConstruct(b, c)
      PROVE  Storage' /\ ~fault' /\ AbstractStep
  <2>1. Allocate(b, Data(c)) /\ ~fault' /\ c \in alive
    BY <1>7, AllSound DEF CopyConstruct, Existing
  <2> QED
    BY <2>1, DataType, AllocateGood, CopyStep, ThrowStep DEF AbstractStep
<1>8. ASSUME NEW c \in Buffers, MoveConstruct(b, c)
      PROVE  Storage' /\ ~fault' /\ AbstractStep
  <2>1. /\ b # c /\ c \in alive /\ alive' = alive \cup {b} /\ ~fault'
        /\ Take(b, c) /\ m_data[b] = NULL
        /\ UNCHANGED <<allocated, content>>
    BY <1>8 DEF MoveConstruct, Missing, Existing, heapVars, TypeOK
  <2>2. Release(m_data[b])
    BY <2>1, ConstantsAssumption DEF Release, TypeOK
  <2> QED
    BY <2>1, <2>2, TakeOver, MoveStep DEF AbstractStep
<1>9. ASSUME NEW c \in Buffers, AssignSameSize(b, c)
      PROVE  Storage' /\ ~fault' /\ AbstractStep
  <2>1. /\ content' = [x \in Addresses |-> IF x = m_data[b] THEN Data(c)
                                           ELSE content[x]]
        /\ UNCHANGED <<m_data, m_size, allocated>>
        /\ c \in alive /\ alive' = alive \cup {b}
        /\ m_size[c] = m_size[b]
    BY <1>9 DEF AssignSameSize, Existing
  <2>2. ~fault'
    BY <1>9, AllSound DEF AssignSameSize
  <2>3. Storage' /\ Value' = [Value EXCEPT ![b] = Data(c)]
    BY <2>1, DataType, DataLength, Overwrite
  <2> QED
    BY <2>1, <2>2, <2>3, CopyStep DEF AbstractStep
<1>10. ASSUME NEW c \in Buffers, AssignBySwap(b, c)
       PROVE  Storage' /\ ~fault' /\ AbstractStep
  <2>0. ~fault' /\ b \in alive /\ c \in alive
    BY <1>10, AllSound DEF AssignBySwap, Existing
  <2> SUFFICES ASSUME Swapped(b, c)
               PROVE  Storage' /\ ~fault' /\ AbstractStep
    BY <1>10, <2>0, ThrowStep DEF AssignBySwap
  <2>1. PICK a \in Unused : Replace(m_data[b], a, Data(c)) /\ Hold(b, a, m_size[c])
    BY DEF Swapped
  <2>2. ~fault' /\ c \in alive /\ alive' = alive \cup {b}
    BY <2>0 DEF Swapped
  <2>3. Storage' /\ Value' = [Value EXCEPT ![b] = Data(c)]
    BY <2>1, DataType, DataLength, Regain
  <2> QED
    BY <2>2, <2>3, CopyStep DEF AbstractStep
<1>11. ASSUME NEW c \in Buffers, MoveAssign(b, c)
       PROVE  Storage' /\ ~fault' /\ AbstractStep
  <2>1. /\ b # c /\ c \in alive /\ alive' = alive \cup {b}
        /\ Release(m_data[b]) /\ Take(b, c)
    BY <1>11 DEF MoveAssign, Existing
  <2>2. ~fault'
    BY <1>11, AllSound DEF MoveAssign
  <2> QED
    BY <2>1, <2>2, TakeOver, MoveStep DEF AbstractStep
<1>12. ASSUME NEW c \in Buffers, AppendBuffer(b, c)
       PROVE  Storage' /\ ~fault' /\ AbstractStep
  <2>1. b # c /\ {b, c} \subseteq alive
    BY <1>12 DEF AppendBuffer, Careful, Existing
  <2>2. Reallocate(b, Data(b) \o Data(c), {c})
    BY <1>12 DEF AppendBuffer, LoseBlock, Careful
  <2> SUFFICES ASSUME ~(ThrowUnchanged /\ fault' = ~Sound(b))
               PROVE  Storage' /\ ~fault' /\ AbstractStep
    BY AllSound, ThrowStep
  <2>3. Data(b) \o Data(c) \in Seq(Values)
    BY DataType, ConcatProperties
  <2>4. /\ Storage' /\ ~fault' /\ UNCHANGED alive
        /\ Value' = [Value EXCEPT ![b] = Data(b) \o Data(c)]
    <3> DEFINE s == Data(b) \o Data(c)
    <3>1. {c} \subseteq Buffers \ {b}
      BY <2>1
    <3>2. s \in Seq(Values) /\ Reallocate(b, s, {c})
      BY <2>2, <2>3
    <3> HIDE DEF s
    <3>3. /\ Storage' /\ ~fault' /\ UNCHANGED alive
          /\ Value' = [Value EXCEPT ![b] = s]
      BY <3>1, <3>2, ReallocateGood
    <3> QED
      BY <3>3 DEF s
  <2>5. Value[b] = Data(b) /\ Value[c] = Data(c)
    BY DEF Value
  <2>6. Strings!Concat(b, c)
    <3>1. Value' = [Value EXCEPT ![b] = Value[b] \o Value[c]]
      BY <2>4, <2>5
    <3> QED
      BY <2>1, <2>4, <3>1 DEF Strings!Concat, Strings!Become, Value
  <2> QED
    BY <2>4, <2>6 DEF AbstractStep, Strings!Next
<1> QED
  BY <1>1, <1>2, <1>3, <1>4, <1>5, <1>6, <1>7, <1>8, <1>9, <1>10, <1>11, <1>12
     DEF Step

LEMMA InitGood == Init => Good
<1> SUFFICES ASSUME Init
             PROVE  Good
  OBVIOUS
<1>1. TypeOK
  <2>1. content \in [Addresses -> Seq(Values)]
    BY EmptySeq DEF Init
  <2>2. /\ m_data \in [Buffers -> Addresses \cup {NULL}]
        /\ m_size \in [Buffers -> Nat]
    BY DEF Init
  <2> QED
    BY <2>1, <2>2 DEF Init, TypeOK
<1>2. Storage
  BY DEF Init, Storage, Pointed, Sound, Apart, Covered, NullIsEmpty,
         FreeIsEmpty, Unused
<1> QED
  BY <1>1, <1>2 DEF Good, Init

LEMMA NextGood ==
  ASSUME Careful, Good, [Next]_vars
  PROVE  Good' /\ [Strings!Next]_<<alive, Value>>
<1>1. ASSUME NEW b \in Buffers, Step(b)
      PROVE  Good' /\ [Strings!Next]_<<alive, Value>>
  BY <1>1, StepGood, StepType DEF Good, AbstractStep
<1>2. CASE UNCHANGED vars
  BY <1>2 DEF vars, heapVars, Good, TypeOK, Storage, Pointed, Sound, Data, Apart, Covered,
              NullIsEmpty, FreeIsEmpty, Unused, Value
<1> QED
  BY <1>1, <1>2 DEF Next

(* Blocks and buffers of a careful client always match one to one, and no  *)
(* freed block is used: the allocations and frees of buffer.cpp balance.   *)
THEOREM CarefulStorageExact ==
  ASSUME Careful
  PROVE  Spec => []StorageExact
<1>1. Good => StorageExact
  BY StorageImpliesExact DEF Good
<1>2. Good /\ [Next]_vars => Good'
  BY NextGood
<1> QED
  BY <1>1, <1>2, InitGood, PTL DEF Spec

(* The buffers of a careful client are the strings that buffer.h promises: *)
(* sharing, moving and reallocating blocks cannot be told from values.     *)
THEOREM CarefulImplementsStrings ==
  ASSUME Careful
  PROVE  Spec => ValueSemantics
<1>1. Init => Strings!Init
  BY DEF Init, Strings!Init, Data
<1>2. Good /\ [Next]_vars
        => [Strings!Next]_<<alive, [b \in Buffers |-> Data(b)]>>
  BY NextGood DEF Value
<1>3. Good /\ [Next]_vars => Good'
  BY NextGood
<1> QED
  BY <1>1, <1>2, <1>3, InitGood, PTL DEF Spec, ValueSemantics, Strings!Spec

=============================================================================
