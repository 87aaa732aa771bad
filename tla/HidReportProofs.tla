-------------------------- MODULE HidReportProofs --------------------------
(***************************************************************************)
(* Proofs about HidReport, for every descriptor of any length: the items   *)
(* tile the buffer, the tree nests as the collections do, and the tables   *)
(* of a node are those in effect at its item; and about ReportTree, for    *)
(* every tree and client: the nodes of a tree live and die together.       *)
(***************************************************************************)
EXTENDS ReportTree, FiniteSetTheorems, WellFoundedInduction, TLAPS

-----------------------------------------------------------------------------
(* Balances of opening and closing items, at positions A and C.            *)

Bal(A, C, k) == Cardinality(A \cap (1..k)) - Cardinality(C \cap (1..k))

(* The last opening position before k that nothing closes.                 *)
Pending(A, C, k) ==
  {j \in 1..(k - 1) : j \in A /\ Bal(A, C, j) = Bal(A, C, k - 1)}

Innermost(A, C, k) ==
  IF Pending(A, C, k) = {} THEN 0 ELSE Max(Pending(A, C, k))

LEMMA UpToFinite ==
  ASSUME NEW A, NEW k \in Nat
  PROVE  /\ IsFiniteSet(A \cap (1..k))
         /\ Cardinality(A \cap (1..k)) \in Nat
<1>1. IsFiniteSet(1..k)
  BY FS_Interval
<1>2. A \cap (1..k) \subseteq 1..k
  OBVIOUS
<1> QED
  BY <1>1, <1>2, FS_Subset, FS_CardinalityType

LEMMA UpToNext ==
  ASSUME NEW A, NEW k \in Nat
  PROVE  Cardinality(A \cap (1..(k + 1)))
           = IF k + 1 \in A THEN Cardinality(A \cap (1..k)) + 1
                            ELSE Cardinality(A \cap (1..k))
<1>1. CASE k + 1 \in A
  <2>1. A \cap (1..(k + 1)) = (A \cap (1..k)) \cup {k + 1}
    BY <1>1
  <2>2. k + 1 \notin A \cap (1..k)
    OBVIOUS
  <2> QED
    BY <1>1, <2>1, <2>2, UpToFinite, FS_AddElement
<1>2. CASE k + 1 \notin A
  <2>1. A \cap (1..(k + 1)) = A \cap (1..k)
    BY <1>2
  <2> QED
    BY <1>2, <2>1
<1> QED
  BY <1>1, <1>2

LEMMA BalType ==
  ASSUME NEW A, NEW C, NEW k \in Nat
  PROVE  Bal(A, C, k) \in Int
BY UpToFinite DEF Bal

LEMMA BalZero ==
  ASSUME NEW A, NEW C
  PROVE  Bal(A, C, 0) = 0
<1>1. A \cap (1..0) = {} /\ C \cap (1..0) = {}
  OBVIOUS
<1> QED
  BY <1>1, FS_EmptySet DEF Bal

(* An opening raises the balance by one, a closing lowers it by one.       *)
LEMMA BalNext ==
  ASSUME NEW A, NEW C, NEW k \in Nat
  PROVE  /\ k + 1 \in A /\ k + 1 \notin C => Bal(A, C, k + 1) = Bal(A, C, k) + 1
         /\ k + 1 \notin A /\ k + 1 \in C => Bal(A, C, k + 1) = Bal(A, C, k) - 1
         /\ k + 1 \notin A /\ k + 1 \notin C => Bal(A, C, k + 1) = Bal(A, C, k)
<1>1. /\ Cardinality(A \cap (1..k)) \in Nat
      /\ Cardinality(C \cap (1..k)) \in Nat
  BY UpToFinite
<1>2. Cardinality(A \cap (1..(k + 1)))
        = IF k + 1 \in A THEN Cardinality(A \cap (1..k)) + 1
                         ELSE Cardinality(A \cap (1..k))
  BY UpToNext
<1>3. Cardinality(C \cap (1..(k + 1)))
        = IF k + 1 \in C THEN Cardinality(C \cap (1..k)) + 1
                         ELSE Cardinality(C \cap (1..k))
  BY UpToNext
<1> QED
  BY <1>1, <1>2, <1>3 DEF Bal

(* What lies between two positions is what lies before the later one and   *)
(* not before the earlier.                                                 *)
LEMMA BetweenCount ==
  ASSUME NEW A, NEW j \in Nat, NEW k \in Nat, j < k
  PROVE  Cardinality(A \cap ((j + 1)..(k - 1)))
           = Cardinality(A \cap (1..(k - 1))) - Cardinality(A \cap (1..j))
<1> DEFINE L == A \cap (1..j)
           R == A \cap ((j + 1)..(k - 1))
<1>1. IsFiniteSet(L) /\ Cardinality(L) \in Nat
  BY UpToFinite
<1>2. IsFiniteSet(R) /\ Cardinality(R) \in Nat
  <2>1. R \subseteq A \cap (1..(k - 1))
    OBVIOUS
  <2>2. IsFiniteSet(A \cap (1..(k - 1)))
    <3>1. k - 1 \in Nat
      OBVIOUS
    <3> QED
      BY <3>1, UpToFinite
  <2> QED
    BY <2>1, <2>2, FS_Subset, FS_CardinalityType
<1>3. A \cap (1..(k - 1)) = L \cup R /\ L \cap R = {}
  OBVIOUS
<1>4. Cardinality(L \cup R) = Cardinality(L) + Cardinality(R)
  <2> HIDE DEF L, R
  <2>1. Cardinality(L \cap R) = 0
    BY <1>3, FS_EmptySet
  <2>2. Cardinality(L \cup R)
          = Cardinality(L) + Cardinality(R) - Cardinality(L \cap R)
    BY <1>1, <1>2, FS_Union
  <2> QED
    BY <1>1, <1>2, <2>1, <2>2
<1>5. Cardinality(A \cap (1..(k - 1))) = Cardinality(L \cup R)
  BY <1>3
<1>6. Cardinality(R)
        = Cardinality(A \cap (1..(k - 1))) - Cardinality(L)
  <2> HIDE DEF L, R
  <2> QED
    BY <1>1, <1>2, <1>4, <1>5
<1> QED
  BY <1>6

(* Opening position a is the innermost before k when the balance has come  *)
(* back to what it was at a, and not been below since; there is none when  *)
(* it has never been as low before.                                        *)
LEMMA InnermostIs ==
  ASSUME NEW A, NEW C, A \cap C = {}, NEW k \in Nat, NEW a \in 0..(k - 1),
         Bal(A, C, a) = Bal(A, C, k - 1),
         \A j \in a..(k - 1) : Bal(A, C, j) >= Bal(A, C, a),
         a = 0 \/ a \in A
  PROVE  Innermost(A, C, k) = a
<1>1. ASSUME NEW j \in Pending(A, C, k)
      PROVE  j <= a
  <2>1. j \in 1..(k - 1) /\ j \in A /\ Bal(A, C, j) = Bal(A, C, a)
    BY DEF Pending
  <2>2. SUFFICES ASSUME j > a PROVE FALSE
    BY <2>1
  <2>3. j - 1 \in Nat /\ j - 1 \in a..(k - 1) /\ j = (j - 1) + 1
    BY <2>1, <2>2
  <2>4. Bal(A, C, j) = Bal(A, C, j - 1) + 1
    BY <2>1, <2>3, BalNext
  <2>5. Bal(A, C, j - 1) \in Int /\ Bal(A, C, a) \in Int
    BY <2>3, BalType
  <2> QED
    BY <2>1, <2>3, <2>4, <2>5
<1>2. CASE a = 0
  <2>1. Pending(A, C, k) = {}
    BY <1>1, <1>2 DEF Pending
  <2> QED
    BY <1>2, <2>1 DEF Innermost
<1>3. CASE a # 0
  <2>1. a \in Pending(A, C, k)
    BY <1>3 DEF Pending
  <2>2. Pending(A, C, k) \subseteq Int
    BY DEF Pending
  <2>3. Max(Pending(A, C, k)) = a
    BY <1>1, <2>1, <2>2 DEF Max
  <2> QED
    BY <2>1, <2>3 DEF Innermost
<1> QED
  BY <1>2, <1>3

LEMMA InnermostNone ==
  ASSUME NEW A, NEW C, A \cap C = {}, NEW k \in Nat,
         \A j \in 0..(k - 1) : Bal(A, C, j) >= Bal(A, C, k - 1)
  PROVE  Innermost(A, C, k) = 0
<1>1. ASSUME NEW j \in Pending(A, C, k)
      PROVE  FALSE
  <2>1. j \in 1..(k - 1) /\ j \in A /\ Bal(A, C, j) = Bal(A, C, k - 1)
    BY DEF Pending
  <2>2. j - 1 \in Nat /\ j - 1 \in 0..(k - 1) /\ j = (j - 1) + 1
    BY <2>1
  <2>3. Bal(A, C, j) = Bal(A, C, j - 1) + 1
    BY <2>1, <2>2, BalNext
  <2>4. Bal(A, C, j - 1) \in Int
    BY <2>2, BalType
  <2> QED
    BY <2>1, <2>2, <2>3, <2>4
<1> QED
  BY <1>1 DEF Innermost

-----------------------------------------------------------------------------
(* The shape of the state: TypeOK, and that what it indexes are sequences. *)

Items == [start : Nat, length : 1..258, type : 0..3, tag : 0..255]

Table == UNION {[S -> Nat] : S \in SUBSET Nat}

Nodes == [item : Nat, parent : Nat, globals : Table, locals : Table,
          children : Seq(Nat)]

Shape ==
  /\ phase \in {"fetch", "parse", "failed", "crashed"}
  /\ size \in 0..MaxSize
  /\ i \in Nat
  /\ items \in Seq(Items)
  /\ nodes \in Seq(Nodes)
  /\ Len(nodes) >= 1
  /\ lastroot \in NoNode..Len(nodes)
  /\ \A n \in DOMAIN nodes :
       /\ nodes[n].item \in 0..Len(items)
       /\ nodes[n].parent \in NoNode..(n - 1)
       /\ \A m \in DOMAIN nodes[n].children :
            nodes[n].children[m] \in (n + 1)..Len(nodes)
  /\ globalState \in Tables
  /\ localState \in Tables
  /\ globalItemTableStack \in Seq(Tables)
  /\ phase = "fetch" => items = <<>> /\ i = 0

(* The items follow each other without gap or overlap; only the last one   *)
(* may reach beyond the buffer, and the next begins where it ends.         *)
ItemsTileTheBuffer ==
  /\ \A k \in DOMAIN items :
       items[k].start = (IF k = 1 THEN 0
                         ELSE items[k - 1].start + items[k - 1].length)
  /\ \A k \in 1..(Len(items) - 1) : items[k].start + items[k].length <= size
  /\ \A k \in DOMAIN items : items[k].start < size

Tiles ==
  /\ ItemsTileTheBuffer
  /\ i = IF items = <<>> THEN 0
         ELSE items[Len(items)].start + items[Len(items)].length

LEMMA ItemTyped ==
  ASSUME i \in Nat, NEW p \in FirstBytes, NEW s \in SizeBytes,
         NEW t \in TagBytes
  PROVE  Item(p, s, t) \in Items /\ Item(p, s, t).start = i
<1>1. p \in 0..255 /\ s \in 0..255 /\ t \in 0..255
  BY ConstantsAssumption
<1>2. ItemType(p) \in 0..3
  BY <1>1 DEF ItemType
<1>3. ItemTag(p, t) \in 0..255
  BY <1>1 DEF ItemTag
<1>4. DataSize(p, s) \in 0..255
  BY <1>1 DEF DataSize
<1>5. ByteLength(p, s) \in 1..258
  BY <1>4 DEF ByteLength
<1> QED
  BY <1>2, <1>3, <1>5 DEF Item, Items

(* Every step is the transfer, its failure, or the parsing of an item at   *)
(* the offset the parser has reached.                                      *)
LEMMA NextCases ==
  ASSUME Shape, Next
  PROVE  \/ \E res \in 0..MaxSize : Fetch(res)
         \/ FetchFails
         \/ \E item \in Items : item.start = i /\ ParseItem(item)
BY ItemTyped DEF Next, Shape

LEMMA ParseLoads ==
  ASSUME NEW item, ParseItem(item)
  PROVE  Load(item) /\ phase = "parse"
BY DEF ParseItem, EnterCollection, LeaveCollection, AddData, AddToNothing,
       Push, Pop, SetGlobal, SetLocal, SkipReserved, Load

LEMMA LoadFacts ==
  ASSUME Shape, NEW item \in Items, Load(item)
  PROVE  /\ items' \in Seq(Items)
         /\ Len(items') = Len(items) + 1
         /\ items'[Len(items) + 1] = item
         /\ \A k \in 1..Len(items) : items'[k] = items[k]
         /\ i' = i + item.length /\ size' = size /\ i < size
BY DEF Shape, Load, More

LEMMA TilesInit == Init => Tiles
BY DEF Init, Tiles, ItemsTileTheBuffer

LEMMA TilesStep ==
  ASSUME Shape, Tiles, [Next]_vars
  PROVE  Tiles'
<1>1. CASE UNCHANGED vars
  BY <1>1 DEF vars, Tiles, ItemsTileTheBuffer
<1>2. CASE \E res \in 0..MaxSize : Fetch(res)
  BY <1>2 DEF Fetch, Shape, Tiles, ItemsTileTheBuffer
<1>3. CASE FetchFails
  BY <1>3 DEF FetchFails, Tiles, ItemsTileTheBuffer
<1>4. ASSUME NEW item \in Items, item.start = i, ParseItem(item)
      PROVE  Tiles'
  <2> DEFINE K == Len(items)
  <2>1. K \in Nat /\ items \in Seq(Items) /\ i \in Nat /\ size \in Nat
    BY DEF Shape
  <2>2. /\ items' \in Seq(Items) /\ Len(items') = K + 1
        /\ items'[K + 1] = item
        /\ \A k \in 1..K : items'[k] = items[k]
        /\ i' = i + item.length /\ size' = size /\ i < size
    BY <1>4, ParseLoads, LoadFacts
  <2>3. i = IF K = 0 THEN 0 ELSE items[K].start + items[K].length
    BY <2>1 DEF Tiles
  <2>4. \A k \in 1..K : items[k] \in Items
    BY <2>1
  <2>10. ASSUME NEW k \in 1..K
         PROVE  items[k].start = (IF k = 1 THEN 0
                            ELSE items[k - 1].start + items[k - 1].length)
    <3>1. k \in DOMAIN items
      BY <2>1
    <3> QED
      BY <3>1 DEF Tiles, ItemsTileTheBuffer
  <2> HIDE DEF K
  <2>5. \A k \in 1..(K + 1) :
          items'[k].start = (IF k = 1 THEN 0
                             ELSE items'[k - 1].start + items'[k - 1].length)
    <3> SUFFICES ASSUME NEW k \in 1..(K + 1)
                 PROVE  items'[k].start
                          = (IF k = 1 THEN 0
                             ELSE items'[k - 1].start + items'[k - 1].length)
      OBVIOUS
    <3>1. CASE k = K + 1
      BY <1>4, <2>1, <2>2, <2>3, <3>1
    <3>2. CASE k # K + 1
      <4>1. k \in 1..K /\ (k # 1 => k - 1 \in 1..K)
        BY <2>1, <3>2
      <4>2. items[k].start = (IF k = 1 THEN 0
                              ELSE items[k - 1].start + items[k - 1].length)
        BY <2>10, <4>1
      <4>3. items'[k] = items[k] /\ (k # 1 => items'[k - 1] = items[k - 1])
        BY <2>2, <4>1
      <4> QED
        BY <4>2, <4>3
    <3> QED
      BY <3>1, <3>2
  <2>6. \A k \in 1..K : items'[k].start + items'[k].length <= size'
    <3> SUFFICES ASSUME NEW k \in 1..K
                 PROVE  items[k].start + items[k].length <= size
      BY <2>2
    <3>1. CASE k = K
      BY <2>1, <2>2, <2>3, <3>1
    <3>2. CASE k # K
      BY <2>1, <3>2 DEF Tiles, ItemsTileTheBuffer, K
    <3> QED
      BY <3>1, <3>2
  <2>7. \A k \in 1..(K + 1) : items'[k].start < size'
    <3> SUFFICES ASSUME NEW k \in 1..(K + 1)
                 PROVE  items'[k].start < size'
      OBVIOUS
    <3>1. CASE k = K + 1
      BY <1>4, <2>2, <3>1
    <3>2. CASE k # K + 1
      <4>1. k \in 1..K
        BY <2>1, <3>2
      <4> QED
        BY <2>1, <2>2, <4>1 DEF Tiles, ItemsTileTheBuffer, K
    <3> QED
      BY <3>1, <3>2
  <2>8. i' = items'[Len(items')].start + items'[Len(items')].length
          /\ items' # <<>>
    BY <1>4, <2>1, <2>2
  <2>9. DOMAIN items' = 1..(K + 1) /\ Len(items') - 1 = K
    BY <2>1, <2>2
  <2> QED
    BY <2>5, <2>6, <2>7, <2>8, <2>9 DEF Tiles, ItemsTileTheBuffer
<1> QED
  BY <1>1, <1>2, <1>3, <1>4, NextCases

(* The tables only grow, and putting an item into one keeps it a table.    *)
LEMMA TablesGrow ==
  ASSUME Shape, NEW item \in Items, Load(item)
  PROVE  Tables \subseteq Tables'
<1> DEFINE T == {items[k].tag : k \in DOMAIN items}
           U == {items'[k].tag : k \in DOMAIN items'}
           K == Len(items)
<1>1. /\ K \in Nat /\ Len(items') = K + 1 /\ items \in Seq(Items)
      /\ items' \in Seq(Items) /\ \A k \in 1..K : items'[k] = items[k]
  BY LoadFacts DEF Shape
<1>2. T \subseteq U
  BY <1>1
<1> HIDE DEF T, U, K
<1>3. ASSUME NEW S \in SUBSET T, NEW f \in [S -> 1..K]
      PROVE  f \in [S -> 1..(K + 1)] /\ S \in SUBSET U
  BY <1>1, <1>2
<1>4. \A f \in UNION {[S -> 1..K] : S \in SUBSET T} :
        f \in UNION {[S -> 1..(K + 1)] : S \in SUBSET U}
  BY <1>3
<1> QED
  BY <1>1, <1>4 DEF Tables, T, U, K

LEMMA PutTable ==
  ASSUME Shape, NEW item \in Items, Load(item), NEW f \in Tables
  PROVE  Put(f, item.tag, Len(items')) \in Tables'
<1> DEFINE U == {items'[k].tag : k \in DOMAIN items'}
           K == Len(items)
           g == Put(f, item.tag, Len(items'))
<1>1. /\ K \in Nat /\ Len(items') = K + 1 /\ items' \in Seq(Items)
      /\ items'[K + 1] = item
  BY LoadFacts DEF Shape
<1>2. f \in Tables'
  BY TablesGrow
<1>3. PICK S \in SUBSET U : f \in [S -> 1..(K + 1)]
  <2>1. CASE f = <<>>
    <3>1. f \in [{} -> 1..(K + 1)]
      BY <2>1
    <3> QED
      BY <3>1
  <2>2. CASE f # <<>>
    BY <1>1, <1>2, <2>2 DEF Tables
  <2> QED
    BY <2>1, <2>2
<1>4. item.tag \in U
  BY <1>1
<1> HIDE DEF U
<1>5. g \in [S \cup {item.tag} -> 1..(K + 1)]
  BY <1>1, <1>3 DEF Put
<1>6. S \cup {item.tag} \in SUBSET U
  BY <1>3, <1>4
<1> HIDE DEF g
<1>7. g \in UNION {[R -> 1..(K + 1)] : R \in SUBSET U}
  BY <1>5, <1>6
<1> QED
  BY <1>1, <1>7 DEF Tables, U, K, g

LEMMA TablesAreTable ==
  ASSUME Shape, NEW f \in Tables
  PROVE  f \in Table
<1>1. CASE f = <<>>
  <2>1. f \in [{} -> Nat]
    BY <1>1
  <2> QED
    BY <2>1 DEF Table
<1>2. CASE f # <<>>
  <2> DEFINE T == {items[k].tag : k \in DOMAIN items}
  <2>1. PICK S \in SUBSET T : f \in [S -> 1..Len(items)]
    BY <1>2 DEF Tables
  <2>2. T \subseteq Nat
    <3>1. \A k \in DOMAIN items : items[k] \in Items
      BY DEF Shape
    <3>2. \A k \in DOMAIN items : items[k].tag \in Nat
      BY <3>1 DEF Items
    <3> QED
      BY <3>2
  <2> HIDE DEF T
  <2>3. f \in [S -> Nat] /\ S \in SUBSET Nat
    BY <2>1, <2>2
  <2> QED
    BY <2>3 DEF Table
<1> QED
  BY <1>1, <1>2

(* The table that holds nothing.                                           *)
LEMMA EmptyTable == <<>> \in Tables
BY DEF Tables

-----------------------------------------------------------------------------
(* What adding a node does to the nodes.                                   *)

LEMMA AddNodeFacts ==
  ASSUME Shape, NEW item \in Items, Load(item), lastroot # NoNode, AddNode
  PROVE  /\ nodes' \in Seq(Nodes)
         /\ Len(nodes') = Len(nodes) + 1
         /\ nodes'[Len(nodes) + 1] =
              [item |-> Len(items) + 1, parent |-> lastroot,
               globals |-> globalState, locals |-> localState,
               children |-> <<>>]
         /\ \A n \in 1..Len(nodes) :
              /\ nodes'[n].item = nodes[n].item
              /\ nodes'[n].parent = nodes[n].parent
              /\ nodes'[n].globals = nodes[n].globals
              /\ nodes'[n].locals = nodes[n].locals
              /\ nodes'[n].children =
                   IF n = lastroot
                   THEN Append(nodes[n].children, Len(nodes) + 1)
                   ELSE nodes[n].children
<1> DEFINE N == Len(nodes)
           c == Append(nodes[lastroot].children, N + 1)
           up == [nodes EXCEPT ![lastroot].children = c]
           node == [item |-> Len(items) + 1, parent |-> lastroot,
                    globals |-> globalState, locals |-> localState,
                    children |-> <<>>]
<1>1. /\ nodes \in Seq(Nodes) /\ N \in Nat /\ lastroot \in 1..N
      /\ Len(items') = Len(items) + 1 /\ Len(items) \in Nat
  BY LoadFacts DEF Shape, NoNode
<1>2. nodes' = Append(up, node)
  BY <1>1 DEF AddNode
<1>3. node \in Nodes
  <2>1. globalState \in Table /\ localState \in Table
    BY TablesAreTable DEF Shape
  <2>2. <<>> \in Seq(Nat)
    OBVIOUS
  <2> QED
    BY <1>1, <2>1, <2>2 DEF Nodes
<1>4. c \in Seq(Nat)
  <2>1. nodes[lastroot] \in Nodes
    BY <1>1
  <2>2. nodes[lastroot].children \in Seq(Nat)
    BY <2>1 DEF Nodes
  <2> QED
    BY <1>1, <2>2
<1>5. /\ up \in Seq(Nodes) /\ Len(up) = N
      /\ \A n \in 1..N :
           up[n] = IF n = lastroot THEN [nodes[n] EXCEPT !.children = c]
                                   ELSE nodes[n]
  <2> HIDE DEF c
  <2>1. nodes[lastroot] \in Nodes
    BY <1>1
  <2>2. [nodes[lastroot] EXCEPT !.children = c] \in Nodes
    BY <1>4, <2>1 DEF Nodes
  <2> QED
    BY <1>1, <2>2
<1> HIDE DEF node, up
<1>6. /\ nodes' \in Seq(Nodes) /\ Len(nodes') = N + 1
      /\ nodes'[N + 1] = node
      /\ \A n \in 1..N : nodes'[n] = up[n]
  BY <1>1, <1>2, <1>3, <1>5
<1>7. ASSUME NEW n \in 1..N
      PROVE  /\ nodes'[n].item = nodes[n].item
             /\ nodes'[n].parent = nodes[n].parent
             /\ nodes'[n].globals = nodes[n].globals
             /\ nodes'[n].locals = nodes[n].locals
             /\ nodes'[n].children =
                  IF n = lastroot THEN Append(nodes[n].children, N + 1)
                                  ELSE nodes[n].children
  <2>1. nodes[n] \in Nodes
    BY <1>1
  <2>2. nodes'[n] = IF n = lastroot THEN [nodes[n] EXCEPT !.children = c]
                                    ELSE nodes[n]
    BY <1>5, <1>6
  <2> HIDE DEF N, c
  <2>3. n = lastroot => nodes'[n].children = c
    BY <2>1, <2>2 DEF Nodes
  <2>4. n # lastroot => nodes'[n] = nodes[n]
    BY <2>2
  <2>5. /\ nodes'[n].item = nodes[n].item
        /\ nodes'[n].parent = nodes[n].parent
        /\ nodes'[n].globals = nodes[n].globals
        /\ nodes'[n].locals = nodes[n].locals
    BY <2>1, <2>2 DEF Nodes
  <2> QED
    BY <2>3, <2>4, <2>5 DEF c
<1> QED
  BY <1>6, <1>7 DEF node

(* Items and nodes keep pointing at items and nodes that exist.            *)
NodesFit ==
  \A n \in DOMAIN nodes :
    /\ nodes[n].item \in 0..Len(items)
    /\ nodes[n].parent \in NoNode..(n - 1)
    /\ \A m \in DOMAIN nodes[n].children :
         nodes[n].children[m] \in (n + 1)..Len(nodes)

LEMMA AddNodeFits ==
  ASSUME Shape, NEW item \in Items, Load(item), lastroot # NoNode, AddNode
  PROVE  NodesFit'
<1> DEFINE N == Len(nodes)
           K == Len(items)
<1>1. /\ N \in Nat /\ K \in Nat /\ lastroot \in 1..N
      /\ nodes \in Seq(Nodes) /\ Len(items') = K + 1
  BY LoadFacts DEF Shape, NoNode
<1>2. /\ nodes' \in Seq(Nodes)
      /\ Len(nodes') = N + 1
      /\ nodes'[N + 1] =
           [item |-> K + 1, parent |-> lastroot, globals |-> globalState,
            locals |-> localState, children |-> <<>>]
      /\ \A n \in 1..N :
           /\ nodes'[n].item = nodes[n].item
           /\ nodes'[n].parent = nodes[n].parent
           /\ nodes'[n].children =
                IF n = lastroot THEN Append(nodes[n].children, N + 1)
                                ELSE nodes[n].children
  BY AddNodeFacts
<1>3. \A n \in 1..N :
        /\ nodes[n].item \in 0..K
        /\ nodes[n].parent \in NoNode..(n - 1)
        /\ nodes[n].children \in Seq(Nat)
        /\ \A m \in DOMAIN nodes[n].children :
             nodes[n].children[m] \in (n + 1)..N
  <2>1. \A n \in 1..N : nodes[n] \in Nodes
    BY <1>1
  <2>2. \A n \in 1..N : nodes[n].children \in Seq(Nat)
    BY <2>1 DEF Nodes
  <2> QED
    BY <1>1, <2>2 DEF Shape
<1> HIDE DEF N, K
<1> SUFFICES ASSUME NEW n \in 1..(N + 1)
             PROVE  /\ nodes'[n].item \in 0..(K + 1)
                    /\ nodes'[n].parent \in NoNode..(n - 1)
                    /\ \A m \in DOMAIN nodes'[n].children :
                         nodes'[n].children[m] \in (n + 1)..(N + 1)
  BY <1>1, <1>2 DEF NodesFit
<1>4. CASE n = N + 1
  BY <1>1, <1>2, <1>4 DEF NoNode
<1>5. CASE n # N + 1
  <2>1. n \in 1..N
    BY <1>1, <1>5
  <2>5. /\ nodes'[n].item = nodes[n].item
        /\ nodes'[n].parent = nodes[n].parent
        /\ n # lastroot => nodes'[n].children = nodes[n].children
    BY <1>2, <2>1
  <2>6. /\ nodes[n].item \in 0..K /\ nodes[n].parent \in NoNode..(n - 1)
        /\ \A m \in DOMAIN nodes[n].children :
             nodes[n].children[m] \in (n + 1)..N
    BY <1>3, <2>1
  <2>2. nodes'[n].item \in 0..(K + 1) /\ nodes'[n].parent \in NoNode..(n - 1)
    <3>1. 0..K \subseteq 0..(K + 1)
      BY <1>1
    <3> QED
      BY <2>5, <2>6, <3>1
  <2>3. CASE n = lastroot
    <3> DEFINE c == nodes[n].children
    <3>1. /\ c \in Seq(Nat) /\ nodes'[n].children = Append(c, N + 1)
          /\ \A m \in DOMAIN c : c[m] \in (n + 1)..N
      BY <1>2, <1>3, <2>1, <2>3
    <3> HIDE DEF c
    <3>2. \A m \in DOMAIN Append(c, N + 1) :
            Append(c, N + 1)[m] \in (n + 1)..(N + 1)
      BY <1>1, <2>1, <3>1
    <3> QED
      BY <2>2, <3>1, <3>2
  <2>4. CASE n # lastroot
    <3>1. (n + 1)..N \subseteq (n + 1)..(N + 1)
      BY <1>1, <2>1
    <3> QED
      BY <2>2, <2>4, <2>5, <2>6, <3>1
  <2> QED
    BY <2>3, <2>4
<1> QED
  BY <1>4, <1>5

LEMMA NodesFitStill ==
  ASSUME Shape, NEW item \in Items, Load(item), nodes' = nodes
  PROVE  NodesFit'
<1>1. Len(items') = Len(items) + 1 /\ Len(items) \in Nat
  BY LoadFacts DEF Shape
<1> QED
  BY <1>1 DEF Shape, NodesFit

(* A step that adds a node to the node it stands on.                       *)
AddsNode(item) ==
  /\ lastroot # NoNode
  /\ Load(item)
  /\ AddNode
  /\ localState' = <<>>
  /\ UNCHANGED <<phase, globalState, globalItemTableStack>>

LEMMA Adding ==
  ASSUME NEW item,
         EnterCollection(item) \/ LeaveCollection(item) \/ AddData(item)
  PROVE  AddsNode(item) /\ item.type = TypeMain
BY DEF EnterCollection, LeaveCollection, AddData, AddsNode, IsCollection,
       IsEndCollection

LEMMA ShapeInit == Init => Shape
<1> SUFFICES ASSUME Init
             PROVE  Shape
  OBVIOUS
<1>1. RootNode \in Nodes
  <2>1. <<>> \in Table
    <3>1. <<>> \in [{} -> Nat]
      OBVIOUS
    <3> QED
      BY <3>1 DEF Table
  <2> QED
    BY <2>1 DEF RootNode, Nodes, NoNode
<1>2. nodes \in Seq(Nodes) /\ Len(nodes) = 1 /\ nodes[1] = RootNode
  BY <1>1 DEF Init
<1>3. items \in Seq(Items) /\ Len(items) = 0
  BY DEF Init
<1>4. \A n \in DOMAIN nodes :
        /\ nodes[n].item \in 0..Len(items)
        /\ nodes[n].parent \in NoNode..(n - 1)
        /\ nodes[n].children = <<>>
  BY <1>2, <1>3 DEF RootNode, NoNode
<1>5. globalItemTableStack \in Seq(Tables)
  BY DEF Init
<1> QED
  BY <1>2, <1>3, <1>4, <1>5, EmptyTable, ConstantsAssumption
  DEF Init, Shape, Root, NoNode

LEMMA StackGrows ==
  ASSUME Shape, NEW item \in Items, Load(item)
  PROVE  /\ globalItemTableStack \in Seq(Tables')
         /\ globalState \in Tables' /\ localState \in Tables'
         /\ <<>> \in Tables'
<1>1. Tables \subseteq Tables'
  BY TablesGrow
<1>2. /\ globalItemTableStack \in Seq(Tables)
      /\ globalState \in Tables /\ localState \in Tables /\ <<>> \in Tables
  BY EmptyTable DEF Shape
<1> QED
  BY <1>1, <1>2

(* POP takes the last table from the stack.                                *)
LEMMA PopFacts ==
  ASSUME NEW T, NEW s \in Seq(T), s # <<>>
  PROVE  /\ Front(s) \in Seq(T) /\ Last(s) \in T
         /\ Last(s) = s[Len(s)] /\ Len(s) >= 1
         /\ Len(Front(s)) = Len(s) - 1
         /\ \A e \in 1..(Len(s) - 1) : Front(s)[e] = s[e]
BY DEF Front, Last

LEMMA ShapeParse ==
  ASSUME Shape, NEW item \in Items, ParseItem(item)
  PROVE  Shape'
<1>1. Load(item) /\ phase = "parse"
  BY ParseLoads
<1>2. /\ items' \in Seq(Items) /\ Len(items') = Len(items) + 1
      /\ i' = i + item.length /\ size' = size
  BY <1>1, LoadFacts
<1>3. /\ i' \in Nat /\ size' \in 0..MaxSize
      /\ phase' \in {"parse", "crashed"}
  <2>1. item.length \in Nat
    BY DEF Items
  <2>2. phase' \in {"parse", "crashed"}
    BY <1>1 DEF ParseItem, EnterCollection, LeaveCollection, AddData,
       AddToNothing, Push, Pop, SetGlobal, SetLocal, SkipReserved
  <2> QED
    BY <1>2, <2>1, <2>2 DEF Shape
<1>4. /\ globalItemTableStack \in Seq(Tables')
      /\ globalState \in Tables' /\ localState \in Tables'
      /\ <<>> \in Tables'
  BY <1>1, StackGrows
<1>5. /\ nodes' \in Seq(Nodes) /\ Len(nodes') >= 1 /\ NodesFit'
      /\ lastroot' \in NoNode..Len(nodes')
  <2>1. CASE EnterCollection(item) \/ LeaveCollection(item) \/ AddData(item)
    <3>1. AddsNode(item)
      BY <2>1, Adding
    <3>2. nodes' \in Seq(Nodes) /\ Len(nodes') = Len(nodes) + 1
      BY <3>1, AddNodeFacts DEF AddsNode
    <3>3. NodesFit'
      BY <3>1, AddNodeFits DEF AddsNode
    <3>4. /\ Len(nodes) \in Nat /\ lastroot \in 1..Len(nodes)
          /\ nodes[lastroot].parent \in NoNode..(lastroot - 1)
      BY <3>1 DEF Shape, AddsNode, NoNode
    <3>5. lastroot' \in {Len(nodes'), nodes[lastroot].parent, lastroot}
      BY <2>1 DEF EnterCollection, LeaveCollection, AddData
    <3> QED
      BY <3>2, <3>3, <3>4, <3>5 DEF NoNode
  <2>2. CASE AddToNothing(item) \/ Push(item) \/ Pop(item) \/ SetGlobal(item)
             \/ SetLocal(item) \/ SkipReserved(item)
    <3>1. nodes' = nodes /\ lastroot' = lastroot
      BY <2>2 DEF AddToNothing, Push, Pop, SetGlobal, SetLocal, SkipReserved
    <3>2. NodesFit'
      BY <1>1, <3>1, NodesFitStill
    <3> QED
      BY <3>1, <3>2 DEF Shape
  <2> QED
    BY <2>1, <2>2 DEF ParseItem
<1>6. /\ globalState' \in Tables' /\ localState' \in Tables'
      /\ globalItemTableStack' \in Seq(Tables')
  <2>1. CASE EnterCollection(item) \/ LeaveCollection(item) \/ AddData(item)
    BY <1>4, <2>1, Adding DEF AddsNode
  <2>2. CASE AddToNothing(item) \/ SkipReserved(item)
    BY <1>4, <2>2 DEF AddToNothing, SkipReserved
  <2>3. CASE Push(item)
    BY <1>4, <2>3 DEF Push
  <2>4. CASE Pop(item)
    BY <1>4, <2>4, PopFacts DEF Pop
  <2>5. CASE SetGlobal(item)
    <3>1. Put(globalState, item.tag, Len(items')) \in Tables'
      BY <1>1, PutTable DEF Shape
    <3> QED
      BY <1>4, <2>5, <3>1 DEF SetGlobal
  <2>6. CASE SetLocal(item)
    <3>1. Put(localState, item.tag, Len(items')) \in Tables'
      BY <1>1, PutTable DEF Shape
    <3> QED
      BY <1>4, <2>6, <3>1 DEF SetLocal
  <2> QED
    BY <2>1, <2>2, <2>3, <2>4, <2>5, <2>6 DEF ParseItem
<1> QED
  BY <1>2, <1>3, <1>5, <1>6 DEF Shape, NodesFit

LEMMA ShapeStep ==
  ASSUME Shape, [Next]_vars
  PROVE  Shape'
<1>1. CASE UNCHANGED vars
  BY <1>1 DEF vars, Shape, Tables
<1>2. CASE \E res \in 0..MaxSize : Fetch(res)
  BY <1>2 DEF Fetch, Shape, Tables
<1>3. CASE FetchFails
  BY <1>3 DEF FetchFails, Shape, Tables
<1>4. CASE \E item \in Items : item.start = i /\ ParseItem(item)
  BY <1>4, ShapeParse
<1> QED
  BY <1>1, <1>2, <1>3, <1>4, NextCases

-----------------------------------------------------------------------------
(* Tables of the last item of each tag.                                    *)

(* LastByTag and the sets it is applied to, of the items it.               *)
Latest(it, S) ==
  [g \in {it[j].tag : j \in S} |-> Max({j \in S : it[j].tag = g})]

LEMMA LatestIs ==
  ASSUME NEW S
  PROVE  LastByTag(S) = Latest(items, S)
BY DEF LastByTag, Latest

LEMMA LatestSame ==
  ASSUME NEW it, NEW jt, NEW S, \A j \in S : it[j] = jt[j]
  PROVE  Latest(it, S) = Latest(jt, S)
<1>1. {it[j].tag : j \in S} = {jt[j].tag : j \in S}
  OBVIOUS
<1>2. \A g : {j \in S : it[j].tag = g} = {j \in S : jt[j].tag = g}
  OBVIOUS
<1> QED
  BY <1>1, <1>2 DEF Latest

LEMMA LatestOfNone ==
  ASSUME NEW it
  PROVE  Latest(it, {}) = <<>>
BY DEF Latest

LEMMA MaxIs ==
  ASSUME NEW S \in SUBSET Int, NEW k \in S, \A j \in S : k >= j
  PROVE  Max(S) = k
<1>1. \E x \in S : \A y \in S : x >= y
  OBVIOUS
<1>2. Max(S) \in S /\ \A y \in S : Max(S) >= y
  BY <1>1 DEF Max
<1>3. Max(S) \in Int /\ k \in Int /\ Max(S) >= k /\ k >= Max(S)
  BY <1>2
<1> QED
  BY <1>3

(* The last item is the latest of its tag, and changes no other.           *)
LEMMA LatestAdd ==
  ASSUME NEW it, NEW k \in Nat, NEW S \in SUBSET (1..(k - 1))
  PROVE  Latest(it, S \cup {k}) = Put(Latest(it, S), it[k].tag, k)
<1> DEFINE R == S \cup {k}
           D == {it[j].tag : j \in S}
<1>1. {it[j].tag : j \in R} = D \cup {it[k].tag}
  OBVIOUS
<1>2. ASSUME NEW g, g # it[k].tag
      PROVE  {j \in R : it[j].tag = g} = {j \in S : it[j].tag = g}
  BY <1>2
<1>3. Max({j \in R : it[j].tag = it[k].tag}) = k
  <2> DEFINE M == {j \in R : it[j].tag = it[k].tag}
  <2>1. k \in M /\ \A j \in M : j \in Int /\ k >= j
    OBVIOUS
  <2>2. M \subseteq Int
    BY <2>1
  <2> HIDE DEF M
  <2>3. Max(M) = k
    BY <2>1, <2>2, MaxIs
  <2> QED
    BY <2>3 DEF M
<1>4. Latest(it, S) = [g \in D |-> Max({j \in S : it[j].tag = g})]
  BY DEF Latest
<1>5. Latest(it, R) = [g \in D \cup {it[k].tag} |->
                         Max({j \in R : it[j].tag = g})]
  BY <1>1 DEF Latest
<1>6. Put(Latest(it, S), it[k].tag, k)
        = [g \in D \cup {it[k].tag} |->
             IF g = it[k].tag THEN k ELSE Max({j \in S : it[j].tag = g})]
  <2> HIDE DEF D
  <2> QED
    BY <1>4 DEF Put
<1> HIDE DEF R, D
<1>7. \A g \in D \cup {it[k].tag} :
        Max({j \in R : it[j].tag = g})
          = IF g = it[k].tag THEN k ELSE Max({j \in S : it[j].tag = g})
  BY <1>2, <1>3
<1>8. Latest(it, R) = Put(Latest(it, S), it[k].tag, k)
  BY <1>5, <1>6, <1>7
<1> QED
  BY <1>8 DEF R

-----------------------------------------------------------------------------
(* The local items.                                                        *)

SinceMain(it, k) ==
  {j \in 1..(k - 1) :
     /\ it[j].type = TypeLocal
     /\ \A m \in (j + 1)..(k - 1) : it[m].type # TypeMain}

LEMMA SinceMainSame ==
  ASSUME NEW it, NEW jt, NEW k \in Nat, \A j \in 1..(k - 1) : it[j] = jt[j]
  PROVE  /\ SinceMain(it, k) = SinceMain(jt, k)
         /\ Latest(it, SinceMain(it, k)) = Latest(jt, SinceMain(jt, k))
<1>1. SinceMain(it, k) = SinceMain(jt, k)
  BY DEF SinceMain
<1>2. \A j \in SinceMain(it, k) : it[j] = jt[j]
  BY DEF SinceMain
<1> QED
  BY <1>1, <1>2, LatestSame

LEMMA SinceMainNext ==
  ASSUME NEW it, NEW k \in Nat, k >= 1
  PROVE  /\ it[k].type = TypeMain => SinceMain(it, k + 1) = {}
         /\ it[k].type = TypeLocal =>
              SinceMain(it, k + 1) = SinceMain(it, k) \cup {k}
         /\ it[k].type \notin {TypeMain, TypeLocal} =>
              SinceMain(it, k + 1) = SinceMain(it, k)
<1>1. /\ (k + 1) - 1 = k /\ k \in 1..k /\ 1..(k - 1) \subseteq 1..k
      /\ \A j \in 1..k : j = k \/ j \in 1..(k - 1)
  OBVIOUS
<1>2. CASE it[k].type = TypeMain
  <2>1. \A j \in SinceMain(it, k + 1) : FALSE
    <3> SUFFICES ASSUME NEW j \in SinceMain(it, k + 1)
                 PROVE  FALSE
      OBVIOUS
    <3>1. /\ j \in 1..k /\ it[j].type = TypeLocal
          /\ \A m \in (j + 1)..k : it[m].type # TypeMain
      BY <1>1 DEF SinceMain
    <3>2. CASE j = k
      BY <1>2, <3>1, <3>2 DEF TypeMain, TypeLocal
    <3>3. CASE j # k
      <4>1. k \in (j + 1)..k
        BY <3>1, <3>3
      <4> QED
        BY <1>2, <3>1, <4>1
    <3> QED
      BY <3>2, <3>3
  <2> QED
    BY <1>2, <2>1 DEF TypeMain, TypeLocal
<1>3. CASE it[k].type # TypeMain
  <2>1. ASSUME NEW j \in 1..(k - 1)
        PROVE  (\A m \in (j + 1)..k : it[m].type # TypeMain)
                 <=> (\A m \in (j + 1)..(k - 1) : it[m].type # TypeMain)
    <3>1. \A m \in (j + 1)..k : m = k \/ m \in (j + 1)..(k - 1)
      OBVIOUS
    <3>2. \A m \in (j + 1)..(k - 1) : m \in (j + 1)..k
      OBVIOUS
    <3> QED
      BY <1>3, <3>1, <3>2
  <2>2. \A m \in (k + 1)..k : FALSE
    OBVIOUS
  <2>3. k \notin SinceMain(it, k) /\ SinceMain(it, k) \subseteq 1..k
    BY DEF SinceMain
  <2>4. ASSUME NEW j \in 1..(k - 1)
        PROVE  j \in SinceMain(it, k + 1) <=> j \in SinceMain(it, k)
    <3>1. j \in 1..k
      OBVIOUS
    <3> QED
      BY <1>1, <2>1, <3>1 DEF SinceMain
  <2>5. k \in SinceMain(it, k + 1) <=> it[k].type = TypeLocal
    BY <1>1, <2>2 DEF SinceMain
  <2>6. SinceMain(it, k + 1) \subseteq 1..k
    BY <1>1 DEF SinceMain
  <2> QED
    BY <1>1, <1>3, <2>3, <2>4, <2>5, <2>6
<1> QED
  BY <1>2, <1>3

(* The local table holds the local items since the last main item; the     *)
(* tables in the nodes are those of their moment.                          *)
LocalsOf(n) ==
  nodes[n].locals = Latest(items, SinceMain(items, nodes[n].item))

LocalsNow ==
  /\ \A n \in 2..Len(nodes) : LocalsOf(n)
  /\ phase \in {"fetch", "parse"} =>
       localState = Latest(items, SinceMain(items, Len(items) + 1))

LEMMA LocalsNowMeaning == LocalsNow => LocalsSinceMain
BY LatestIs DEF LocalsNow, LocalsSinceMain, LocalsOf, SinceMain

LEMMA LocalsInit == Init => LocalsNow
<1> SUFFICES ASSUME Init
             PROVE  LocalsNow
  OBVIOUS
<1>1. Len(nodes) = 1 /\ Len(items) = 0 /\ localState = <<>>
  BY DEF Init
<1>2. SinceMain(items, 0 + 1) = {}
  BY DEF SinceMain
<1>3. localState = Latest(items, SinceMain(items, Len(items) + 1))
  BY <1>1, <1>2, LatestOfNone
<1>4. 2..Len(nodes) = {}
  BY <1>1
<1> QED
  BY <1>3, <1>4 DEF LocalsNow

(* The tables of the nodes there are stay as they are.                     *)
LEMMA LocalsOfKept ==
  ASSUME Shape, NEW item \in Items, Load(item),
         NEW n \in 2..Len(nodes), LocalsOf(n),
         nodes'[n].item = nodes[n].item, nodes'[n].locals = nodes[n].locals
  PROVE  LocalsOf(n)'
<1>1. /\ Len(items) \in Nat
      /\ \A k \in 1..Len(items) : items'[k] = items[k]
  BY LoadFacts DEF Shape
<1>2. nodes[n].item \in 0..Len(items)
  BY DEF Shape
<1>3. \A j \in 1..(nodes[n].item - 1) : items[j] = items'[j]
  BY <1>1, <1>2
<1>4. nodes[n].item \in Nat
  BY <1>1, <1>2
<1>5. Latest(items, SinceMain(items, nodes[n].item))
        = Latest(items', SinceMain(items', nodes[n].item))
  BY <1>3, <1>4, SinceMainSame
<1> QED
  BY <1>5 DEF LocalsOf

LEMMA LocalsParse ==
  ASSUME Shape, LocalsNow, NEW item \in Items, ParseItem(item)
  PROVE  LocalsNow'
<1> DEFINE K == Len(items)
           N == Len(nodes)
<1>1. Load(item) /\ phase = "parse"
  BY ParseLoads
<1>2. /\ K \in Nat /\ N \in Nat /\ N >= 1 /\ Len(items') = K + 1
      /\ items'[K + 1] = item
      /\ \A k \in 1..K : items'[k] = items[k]
  BY <1>1, LoadFacts DEF Shape
<1>3. localState = Latest(items', SinceMain(items', K + 1))
  <2>1. localState = Latest(items, SinceMain(items, K + 1))
    BY <1>1 DEF LocalsNow
  <2>2. K + 1 \in Nat /\ \A j \in 1..((K + 1) - 1) : items[j] = items'[j]
    BY <1>2
  <2> QED
    BY <2>1, <2>2, SinceMainSame
<1>4. /\ item.type = TypeMain => SinceMain(items', K + 1 + 1) = {}
      /\ item.type = TypeLocal =>
           SinceMain(items', K + 1 + 1) = SinceMain(items', K + 1) \cup {K + 1}
      /\ item.type \notin {TypeMain, TypeLocal} =>
           SinceMain(items', K + 1 + 1) = SinceMain(items', K + 1)
  <2>1. K + 1 \in Nat /\ K + 1 >= 1
    BY <1>2
  <2> QED
    BY <1>2, <2>1, SinceMainNext
<1>5. CASE EnterCollection(item) \/ LeaveCollection(item) \/ AddData(item)
  <2>1. AddsNode(item) /\ item.type = TypeMain
    BY <1>5, Adding
  <2>2. /\ Len(nodes') = N + 1
        /\ nodes'[N + 1].item = K + 1
        /\ nodes'[N + 1].locals = localState
        /\ \A n \in 1..N : /\ nodes'[n].item = nodes[n].item
                           /\ nodes'[n].locals = nodes[n].locals
    BY <2>1, AddNodeFacts DEF AddsNode
  <2>3. localState' = Latest(items', SinceMain(items', Len(items') + 1))
    BY <1>2, <1>4, <2>1, LatestOfNone DEF AddsNode
  <2>4. ASSUME NEW n \in 2..(N + 1)
        PROVE  LocalsOf(n)'
    <3>1. CASE n = N + 1
      BY <1>3, <2>2, <3>1 DEF LocalsOf
    <3>2. CASE n # N + 1
      <4>1. n \in 2..N /\ n \in 1..N
        BY <1>2, <3>2
      <4>2. LocalsOf(n)
        BY <4>1 DEF LocalsNow
      <4> QED
        BY <1>1, <2>2, <4>1, <4>2, LocalsOfKept
    <3> QED
      BY <3>1, <3>2
  <2> QED
    BY <2>2, <2>3, <2>4 DEF LocalsNow
<1>6. CASE AddToNothing(item) \/ Push(item) \/ Pop(item) \/ SetGlobal(item)
           \/ SetLocal(item) \/ SkipReserved(item)
  <2>1. nodes' = nodes
    BY <1>6 DEF AddToNothing, Push, Pop, SetGlobal, SetLocal, SkipReserved
  <2>2. \A n \in 2..N : LocalsOf(n)'
    BY <1>1, <2>1, LocalsOfKept DEF LocalsNow
  <2>3. CASE AddToNothing(item)
    BY <2>1, <2>2, <2>3 DEF LocalsNow, AddToNothing
  <2>4. CASE SetLocal(item)
    <3>1. localState' = Put(localState, item.tag, K + 1)
      BY <1>2, <2>4 DEF SetLocal
    <3>2. SinceMain(items', K + 1) \in SUBSET (1..((K + 1) - 1))
      BY DEF SinceMain
    <3>3. Latest(items', SinceMain(items', K + 1) \cup {K + 1})
            = Put(localState, item.tag, K + 1)
      <4>1. K + 1 \in Nat
        BY <1>2
      <4> QED
        BY <1>2, <1>3, <3>2, <4>1, LatestAdd
    <3>4. localState' = Latest(items', SinceMain(items', Len(items') + 1))
      BY <1>2, <1>4, <2>4, <3>1, <3>3 DEF SetLocal
    <3> QED
      BY <2>1, <2>2, <3>4 DEF LocalsNow
  <2>5. CASE Push(item) \/ Pop(item) \/ SetGlobal(item) \/ SkipReserved(item)
    <3>1. localState' = localState /\ item.type \notin {TypeMain, TypeLocal}
      BY <2>5 DEF Push, Pop, SetGlobal, SkipReserved, IsPush, IsPop,
         TypeMain, TypeLocal, TypeGlobal
    <3>2. localState' = Latest(items', SinceMain(items', Len(items') + 1))
      BY <1>2, <1>3, <1>4, <3>1
    <3> QED
      BY <2>1, <2>2, <3>2 DEF LocalsNow
  <2> QED
    BY <1>6, <2>3, <2>4, <2>5
<1> QED
  BY <1>5, <1>6 DEF ParseItem

LEMMA LocalsStep ==
  ASSUME Shape, LocalsNow, [Next]_vars
  PROVE  LocalsNow'
<1>1. CASE UNCHANGED vars
  BY <1>1 DEF vars, LocalsNow, LocalsOf
<1>2. CASE \E res \in 0..MaxSize : Fetch(res)
  BY <1>2 DEF Fetch, LocalsNow, LocalsOf
<1>3. CASE FetchFails
  BY <1>3 DEF FetchFails, LocalsNow, LocalsOf
<1>4. CASE \E item \in Items : item.start = i /\ ParseItem(item)
  BY <1>4, LocalsParse
<1> QED
  BY <1>1, <1>2, <1>3, <1>4, NextCases

LEMMA ShapeMeaning ==
  ASSUME Shape, Tiles
  PROVE  TypeOK
<1>1. \A k \in DOMAIN items :
        items[k] \in [start : 0..MaxSize, length : 1..258, type : 0..3,
                      tag : 0..255]
  <2> SUFFICES ASSUME NEW k \in DOMAIN items
               PROVE  items[k] \in [start : 0..MaxSize, length : 1..258,
                                    type : 0..3, tag : 0..255]
    OBVIOUS
  <2>1. items[k] \in Items
    BY DEF Shape
  <2>2. items[k].start < size /\ size \in 0..MaxSize
    BY DEF Shape, Tiles, ItemsTileTheBuffer
  <2>3. items[k].start \in 0..MaxSize
    BY <2>1, <2>2, ConstantsAssumption DEF Items
  <2> QED
    BY <2>1, <2>3 DEF Items
<1> QED
  BY <1>1 DEF Shape, TypeOK

-----------------------------------------------------------------------------
(* Collections and pushes, and how deep in them an item is.                *)

Colls(it)  == {j \in 1..Len(it) : IsCollection(it[j])}
Ends(it)   == {j \in 1..Len(it) : IsEndCollection(it[j])}
Pushes(it) == {j \in 1..Len(it) : IsPush(it[j])}
Pops(it)   == {j \in 1..Len(it) : IsPop(it[j])}

Depth(it, k)  == Bal(Colls(it), Ends(it), k)
Height(it, k) == Bal(Pushes(it), Pops(it), k)

LEMMA PlacesApart ==
  ASSUME NEW it
  PROVE  Colls(it) \cap Ends(it) = {} /\ Pushes(it) \cap Pops(it) = {}
BY DEF Colls, Ends, Pushes, Pops, IsCollection, IsEndCollection, IsPush,
       IsPop, COLLECTION, END_COLLECTION, PUSH, POP

LEMMA BalSame ==
  ASSUME NEW A, NEW B, NEW C, NEW D, NEW k,
         A \cap (1..k) = B \cap (1..k), C \cap (1..k) = D \cap (1..k)
  PROVE  Bal(A, C, k) = Bal(B, D, k)
BY DEF Bal

LEMMA PlacesKept ==
  ASSUME Shape, NEW item \in Items, Load(item), NEW k \in 0..Len(items)
  PROVE  /\ Colls(items') \cap (1..k) = Colls(items) \cap (1..k)
         /\ Ends(items') \cap (1..k) = Ends(items) \cap (1..k)
         /\ Pushes(items') \cap (1..k) = Pushes(items) \cap (1..k)
         /\ Pops(items') \cap (1..k) = Pops(items) \cap (1..k)
<1>1. /\ Len(items) \in Nat /\ Len(items') = Len(items) + 1
      /\ \A j \in 1..Len(items) : items'[j] = items[j]
  BY LoadFacts DEF Shape
<1>2. \A j \in 1..k : /\ j \in 1..Len(items) /\ j \in 1..Len(items')
                      /\ items'[j] = items[j]
  BY <1>1
<1> QED
  BY <1>2 DEF Colls, Ends, Pushes, Pops

LEMMA DepthType ==
  ASSUME NEW it, NEW k \in Nat
  PROVE  /\ Depth(it, k) \in Int /\ Height(it, k) \in Int
         /\ Depth(it, 0) = 0 /\ Height(it, 0) = 0
BY BalType, BalZero DEF Depth, Height

LEMMA DepthsKept ==
  ASSUME Shape, NEW item \in Items, Load(item)
  PROVE  \A k \in 0..Len(items) :
           /\ Depth(items', k) = Depth(items, k)
           /\ Height(items', k) = Height(items, k)
<1> SUFFICES ASSUME NEW k \in 0..Len(items)
             PROVE  /\ Depth(items', k) = Depth(items, k)
                    /\ Height(items', k) = Height(items, k)
  OBVIOUS
<1>1. /\ Colls(items') \cap (1..k) = Colls(items) \cap (1..k)
      /\ Ends(items') \cap (1..k) = Ends(items) \cap (1..k)
      /\ Pushes(items') \cap (1..k) = Pushes(items) \cap (1..k)
      /\ Pops(items') \cap (1..k) = Pops(items) \cap (1..k)
  BY PlacesKept
<1>2. Bal(Colls(items'), Ends(items'), k) = Bal(Colls(items), Ends(items), k)
  BY <1>1, BalSame
<1>3. Bal(Pushes(items'), Pops(items'), k) = Bal(Pushes(items), Pops(items), k)
  BY <1>1, BalSame
<1> QED
  BY <1>2, <1>3 DEF Depth, Height

LEMMA DepthNext ==
  ASSUME Shape, NEW item \in Items, Load(item)
  PROVE  /\ IsCollection(item) =>
              Depth(items', Len(items) + 1) = Depth(items, Len(items)) + 1
         /\ IsEndCollection(item) =>
              Depth(items', Len(items) + 1) = Depth(items, Len(items)) - 1
         /\ ~IsCollection(item) /\ ~IsEndCollection(item) =>
              Depth(items', Len(items) + 1) = Depth(items, Len(items))
         /\ IsPush(item) =>
              Height(items', Len(items) + 1) = Height(items, Len(items)) + 1
         /\ IsPop(item) =>
              Height(items', Len(items) + 1) = Height(items, Len(items)) - 1
         /\ ~IsPush(item) /\ ~IsPop(item) =>
              Height(items', Len(items) + 1) = Height(items, Len(items))
<1> DEFINE K == Len(items)
<1>1. K \in Nat /\ Len(items') = K + 1 /\ items'[K + 1] = item
  BY LoadFacts DEF Shape
<1>2. /\ K + 1 \in Colls(items') <=> IsCollection(item)
      /\ K + 1 \in Ends(items') <=> IsEndCollection(item)
      /\ K + 1 \in Pushes(items') <=> IsPush(item)
      /\ K + 1 \in Pops(items') <=> IsPop(item)
  BY <1>1 DEF Colls, Ends, Pushes, Pops
<1>3. /\ ~(IsCollection(item) /\ IsEndCollection(item))
      /\ ~(IsPush(item) /\ IsPop(item))
  BY DEF IsCollection, IsEndCollection, IsPush, IsPop, COLLECTION,
         END_COLLECTION, PUSH, POP
<1>4. Depth(items', K) = Depth(items, K) /\ Height(items', K) = Height(items, K)
  BY <1>1, DepthsKept
<1> HIDE DEF K
<1>5. /\ IsCollection(item) => Depth(items', K + 1) = Depth(items, K) + 1
      /\ IsEndCollection(item) => Depth(items', K + 1) = Depth(items, K) - 1
      /\ ~IsCollection(item) /\ ~IsEndCollection(item) =>
           Depth(items', K + 1) = Depth(items, K)
  <2>1. Bal(Colls(items'), Ends(items'), K) = Depth(items, K)
    BY <1>4 DEF Depth
  <2> QED
    BY <1>1, <1>2, <1>3, <2>1, BalNext DEF Depth
<1>6. /\ IsPush(item) => Height(items', K + 1) = Height(items, K) + 1
      /\ IsPop(item) => Height(items', K + 1) = Height(items, K) - 1
      /\ ~IsPush(item) /\ ~IsPop(item) =>
           Height(items', K + 1) = Height(items, K)
  <2>1. Bal(Pushes(items'), Pops(items'), K) = Height(items, K)
    BY <1>4 DEF Height
  <2> QED
    BY <1>1, <1>2, <1>3, <2>1, BalNext DEF Height
<1> QED
  BY <1>5, <1>6 DEF K

(* The counts of HidReport, by the places.                                 *)
LEMMA CountIs ==
  ASSUME Shape, NEW j \in Nat, NEW k \in 1..(Len(items) + 1), j < k
  PROVE  /\ Count(IsCollection, j, k)
              = Cardinality(Colls(items) \cap ((j + 1)..(k - 1)))
         /\ Count(IsEndCollection, j, k)
              = Cardinality(Ends(items) \cap ((j + 1)..(k - 1)))
         /\ Count(IsPush, j, k)
              = Cardinality(Pushes(items) \cap ((j + 1)..(k - 1)))
         /\ Count(IsPop, j, k)
              = Cardinality(Pops(items) \cap ((j + 1)..(k - 1)))
<1>1. (j + 1)..(k - 1) \subseteq 1..Len(items)
  BY DEF Shape
<1>2. /\ Colls(items) \cap ((j + 1)..(k - 1))
           = {s \in (j + 1)..(k - 1) : IsCollection(items[s])}
      /\ Ends(items) \cap ((j + 1)..(k - 1))
           = {s \in (j + 1)..(k - 1) : IsEndCollection(items[s])}
      /\ Pushes(items) \cap ((j + 1)..(k - 1))
           = {s \in (j + 1)..(k - 1) : IsPush(items[s])}
      /\ Pops(items) \cap ((j + 1)..(k - 1))
           = {s \in (j + 1)..(k - 1) : IsPop(items[s])}
  BY <1>1 DEF Colls, Ends, Pushes, Pops
<1> QED
  BY <1>2 DEF Count, Quantify

LEMMA CountsEqual ==
  ASSUME Shape, NEW j \in Nat, NEW k \in 1..(Len(items) + 1), j < k
  PROVE  /\ Count(IsCollection, j, k) = Count(IsEndCollection, j, k)
              <=> Depth(items, j) = Depth(items, k - 1)
         /\ Count(IsPush, j, k) = Count(IsPop, j, k)
              <=> Height(items, j) = Height(items, k - 1)
<1> DEFINE Up(A, n) == Cardinality(A \cap (1..n))
<1>1. k \in Nat /\ k - 1 \in Nat
  BY DEF Shape
<1>2. \A A : /\ Up(A, j) \in Nat /\ Up(A, k - 1) \in Nat
             /\ Cardinality(A \cap ((j + 1)..(k - 1))) = Up(A, k - 1) - Up(A, j)
  <2> SUFFICES ASSUME NEW A
               PROVE  /\ Up(A, j) \in Nat /\ Up(A, k - 1) \in Nat
                      /\ Cardinality(A \cap ((j + 1)..(k - 1)))
                           = Up(A, k - 1) - Up(A, j)
    OBVIOUS
  <2>1. Cardinality(A \cap ((j + 1)..(k - 1))) = Up(A, k - 1) - Up(A, j)
    BY <1>1, BetweenCount
  <2>2. Up(A, j) \in Nat /\ Up(A, k - 1) \in Nat
    BY <1>1, UpToFinite
  <2> QED
    BY <2>1, <2>2
<1>3. /\ Depth(items, j) = Up(Colls(items), j) - Up(Ends(items), j)
      /\ Depth(items, k - 1) = Up(Colls(items), k - 1) - Up(Ends(items), k - 1)
      /\ Height(items, j) = Up(Pushes(items), j) - Up(Pops(items), j)
      /\ Height(items, k - 1)
           = Up(Pushes(items), k - 1) - Up(Pops(items), k - 1)
  BY DEF Depth, Height, Bal
<1>4. /\ Count(IsCollection, j, k)
           = Up(Colls(items), k - 1) - Up(Colls(items), j)
      /\ Count(IsEndCollection, j, k)
           = Up(Ends(items), k - 1) - Up(Ends(items), j)
      /\ Count(IsPush, j, k) = Up(Pushes(items), k - 1) - Up(Pushes(items), j)
      /\ Count(IsPop, j, k) = Up(Pops(items), k - 1) - Up(Pops(items), j)
  BY <1>2, CountIs
<1>5. /\ Up(Colls(items), j) \in Nat /\ Up(Colls(items), k - 1) \in Nat
      /\ Up(Ends(items), j) \in Nat /\ Up(Ends(items), k - 1) \in Nat
      /\ Up(Pushes(items), j) \in Nat /\ Up(Pushes(items), k - 1) \in Nat
      /\ Up(Pops(items), j) \in Nat /\ Up(Pops(items), k - 1) \in Nat
  BY <1>2
<1> HIDE DEF Up
<1>6. ASSUME NEW a \in Nat, NEW b \in Nat, NEW c \in Nat, NEW d \in Nat
      PROVE  b - a = d - c <=> a - c = b - d
  OBVIOUS
<1>7. /\ Up(Colls(items), k - 1) - Up(Colls(items), j)
           = Up(Ends(items), k - 1) - Up(Ends(items), j)
           <=> Up(Colls(items), j) - Up(Ends(items), j)
                 = Up(Colls(items), k - 1) - Up(Ends(items), k - 1)
      /\ Up(Pushes(items), k - 1) - Up(Pushes(items), j)
           = Up(Pops(items), k - 1) - Up(Pops(items), j)
           <=> Up(Pushes(items), j) - Up(Pops(items), j)
                 = Up(Pushes(items), k - 1) - Up(Pops(items), k - 1)
  <2> DEFINE a == Up(Colls(items), j)
             b == Up(Colls(items), k - 1)
             c == Up(Ends(items), j)
             d == Up(Ends(items), k - 1)
             e == Up(Pushes(items), j)
             f == Up(Pushes(items), k - 1)
             g == Up(Pops(items), j)
             h == Up(Pops(items), k - 1)
  <2>1. /\ a \in Nat /\ b \in Nat /\ c \in Nat /\ d \in Nat
        /\ e \in Nat /\ f \in Nat /\ g \in Nat /\ h \in Nat
    BY <1>5
  <2> HIDE DEF a, b, c, d, e, f, g, h
  <2>2. b - a = d - c <=> a - c = b - d
    BY <2>1, <1>6
  <2>3. f - e = h - g <=> e - g = f - h
    BY <2>1, <1>6
  <2> QED
    BY <2>2, <2>3 DEF a, b, c, d, e, f, g, h
<1>8. Count(IsCollection, j, k) = Count(IsEndCollection, j, k)
        <=> Depth(items, j) = Depth(items, k - 1)
  BY <1>3, <1>4, <1>7
<1>9. Count(IsPush, j, k) = Count(IsPop, j, k)
        <=> Height(items, j) = Height(items, k - 1)
  BY <1>3, <1>4, <1>7
<1> QED
  BY <1>8, <1>9

LEMMA EnclosingIs ==
  ASSUME Shape, NEW k \in 1..(Len(items) + 1)
  PROVE  /\ Enclosing(IsCollection, IsEndCollection, k)
              = Innermost(Colls(items), Ends(items), k)
         /\ Enclosing(IsPush, IsPop, k)
              = Innermost(Pushes(items), Pops(items), k)
<1>1. /\ k \in Nat
      /\ \A j \in 1..(k - 1) : j \in 1..Len(items) /\ j \in Nat /\ j < k
  BY DEF Shape
<1>2. Unanswered(IsCollection, IsEndCollection, k)
        = Pending(Colls(items), Ends(items), k)
  <2>1. ASSUME NEW j \in 1..(k - 1)
        PROVE  /\ Count(IsCollection, j, k) = Count(IsEndCollection, j, k)
                    <=> Bal(Colls(items), Ends(items), j)
                          = Bal(Colls(items), Ends(items), k - 1)
               /\ IsCollection(items[j]) <=> j \in Colls(items)
    BY <1>1, CountsEqual DEF Depth, Colls
  <2> QED
    BY <2>1 DEF Unanswered, Pending
<1>3. Unanswered(IsPush, IsPop, k)
        = Pending(Pushes(items), Pops(items), k)
  <2>1. ASSUME NEW j \in 1..(k - 1)
        PROVE  /\ Count(IsPush, j, k) = Count(IsPop, j, k)
                    <=> Bal(Pushes(items), Pops(items), j)
                          = Bal(Pushes(items), Pops(items), k - 1)
               /\ IsPush(items[j]) <=> j \in Pushes(items)
    BY <1>1, CountsEqual DEF Height, Pushes
  <2> QED
    BY <2>1 DEF Unanswered, Pending
<1> QED
  BY <1>2, <1>3 DEF Enclosing, Innermost

-----------------------------------------------------------------------------
(* Nesting.                                                                *)

(* Node n is the root or begins a collection.                              *)
Opens(n) == n = Root \/ nodes[n].item \in Colls(items)

(* Everything begun after item a has ended at k, and a itself has not.     *)
JustIn(it, a, k) ==
  /\ Depth(it, k) = Depth(it, a)
  /\ \A j \in a..k : Depth(it, j) >= Depth(it, a)

NodeNests(n) ==
  LET p == nodes[n].parent
  IN /\ p \in 1..(n - 1)
     /\ nodes[p].item < nodes[n].item
     /\ Opens(p)
     /\ JustIn(items, nodes[p].item, nodes[n].item - 1)

(* The node the parser stands on begins what is open, and what is open is  *)
(* never less than nothing while there is such a node.                     *)
StandsOpen ==
  lastroot # NoNode =>
    /\ Opens(lastroot)
    /\ JustIn(items, nodes[lastroot].item, Len(items))
    /\ \A j \in 0..Len(items) : Depth(items, j) >= 0

Nest ==
  /\ nodes[Root].item = 0 /\ nodes[Root].parent = NoNode
  /\ \A n \in 2..Len(nodes) : NodeNests(n)
  /\ StandsOpen
  /\ phase # "crashed" /\ lastroot = NoNode => Depth(items, Len(items)) < 0

LEMMA JustInKept ==
  ASSUME Shape, NEW item \in Items, Load(item),
         NEW k \in 0..Len(items), NEW a \in 0..k, JustIn(items, a, k)
  PROVE  JustIn(items', a, k)
<1>1. Len(items) \in Nat
  BY DEF Shape
<1>2. \A j \in a..k : Depth(items', j) = Depth(items, j)
  BY <1>1, DepthsKept
<1>3. Depth(items', k) = Depth(items, k) /\ Depth(items', a) = Depth(items, a)
  BY <1>1, DepthsKept
<1> QED
  BY <1>2, <1>3 DEF JustIn

LEMMA JustInNext ==
  ASSUME Shape, NEW item \in Items, Load(item),
         ~IsCollection(item), ~IsEndCollection(item),
         NEW a \in 0..Len(items), JustIn(items, a, Len(items))
  PROVE  JustIn(items', a, Len(items) + 1)
<1> DEFINE K == Len(items)
<1>1. K \in Nat
  BY DEF Shape
<1>2. JustIn(items', a, K)
  BY <1>1, JustInKept
<1>3. /\ Depth(items', K + 1) = Depth(items, K)
      /\ Depth(items', K) = Depth(items, K)
  BY <1>1, DepthsKept, DepthNext
<1>4. Depth(items', a) \in Int
  BY DepthType
<1> HIDE DEF K
<1>5. \A j \in a..(K + 1) : j = K + 1 \/ j \in a..K
  BY <1>1
<1> QED
  BY <1>2, <1>3, <1>4, <1>5 DEF JustIn, K

LEMMA OpensKept ==
  ASSUME Shape, NEW item \in Items, Load(item),
         NEW n \in 1..Len(nodes), nodes'[n].item = nodes[n].item, Opens(n)
  PROVE  Opens(n)'
<1>1. /\ Len(items) \in Nat /\ Len(items') = Len(items) + 1
      /\ \A k \in 1..Len(items) : items'[k] = items[k]
  BY LoadFacts DEF Shape
<1> QED
  BY <1>1 DEF Opens, Colls

LEMMA NodeNestsKept ==
  ASSUME Shape, NEW item \in Items, Load(item),
         \A m \in 1..Len(nodes) : /\ nodes'[m].item = nodes[m].item
                                  /\ nodes'[m].parent = nodes[m].parent,
         NEW n \in 2..Len(nodes), NodeNests(n)
  PROVE  NodeNests(n)'
<1> DEFINE p == nodes[n].parent
<1>1. /\ p \in 1..(n - 1) /\ nodes[p].item < nodes[n].item /\ Opens(p)
      /\ JustIn(items, nodes[p].item, nodes[n].item - 1)
  BY DEF NodeNests
<1>2. /\ p \in 1..Len(nodes) /\ n \in 1..Len(nodes)
      /\ nodes[n].item \in 0..Len(items) /\ nodes[p].item \in 0..Len(items)
      /\ Len(items) \in Nat
  BY <1>1 DEF Shape
<1>3. /\ nodes'[p].item = nodes[p].item /\ nodes'[n].item = nodes[n].item
      /\ nodes'[n].parent = p
  BY <1>2
<1>4. JustIn(items', nodes[p].item, nodes[n].item - 1)
  <2>1. /\ nodes[n].item - 1 \in 0..Len(items)
        /\ nodes[p].item \in 0..(nodes[n].item - 1)
    BY <1>1, <1>2
  <2> QED
    BY <1>1, <2>1, JustInKept
<1>5. p = Root \/ nodes'[p].item \in Colls(items')
  <2>1. \A m \in 1..Len(nodes) : m = p => Opens(m)'
    BY <1>1, <1>2, <1>3, OpensKept
  <2> HIDE DEF p
  <2>2. PICK m \in 1..Len(nodes) : m = p
    BY <1>2
  <2>3. m = Root \/ nodes'[m].item \in Colls(items')
    BY <2>1, <2>2 DEF Opens
  <2> QED
    BY <2>2, <2>3
<1> QED
  BY <1>1, <1>3, <1>4, <1>5 DEF NodeNests, Opens

LEMMA NestInit == Init => Nest
<1> SUFFICES ASSUME Init
             PROVE  Nest
  OBVIOUS
<1>1. /\ Len(nodes) = 1 /\ Len(items) = 0 /\ lastroot = Root
      /\ nodes[Root].item = 0 /\ nodes[Root].parent = NoNode
  BY DEF Init, RootNode, Root
<1>2. Depth(items, 0) = 0
  BY DepthType
<1>3. Root # NoNode
  BY DEF Root, NoNode
<1>4. 2..Len(nodes) = {} /\ \A j \in 0..0 : j = 0
  BY <1>1
<1> QED
  BY <1>1, <1>2, <1>3, <1>4 DEF Nest, StandsOpen, Opens, JustIn

(* A new node hangs under the node the parser stands on.                   *)
LEMMA NewNodeNests ==
  ASSUME Shape, Nest, NEW item \in Items, AddsNode(item)
  PROVE  /\ nodes'[Root].item = 0 /\ nodes'[Root].parent = NoNode
         /\ \A n \in 2..Len(nodes') : NodeNests(n)'
<1> DEFINE K == Len(items)
           N == Len(nodes)
<1>1. Load(item) /\ lastroot # NoNode /\ AddNode
  BY DEF AddsNode
<1>2. /\ K \in Nat /\ N \in Nat /\ N >= 1
      /\ lastroot \in 1..N /\ nodes[lastroot].item \in 0..K
  BY <1>1 DEF Shape, NoNode
<1>3. /\ Len(nodes') = N + 1
      /\ nodes'[N + 1].item = K + 1 /\ nodes'[N + 1].parent = lastroot
      /\ \A m \in 1..N : /\ nodes'[m].item = nodes[m].item
                         /\ nodes'[m].parent = nodes[m].parent
  BY <1>1, AddNodeFacts
<1>4. ASSUME NEW n \in 2..(N + 1), n = N + 1
      PROVE  NodeNests(n)'
  <2>1. lastroot \in 1..N /\ nodes'[lastroot].item = nodes[lastroot].item
    BY <1>2, <1>3
  <2>2. JustIn(items', nodes[lastroot].item, K)
    <3>1. JustIn(items, nodes[lastroot].item, K)
      BY <1>1 DEF Nest, StandsOpen
    <3> QED
      BY <1>1, <1>2, <3>1, JustInKept
  <2>3. lastroot = Root \/ nodes'[lastroot].item \in Colls(items')
    <3>1. \A m \in 1..N : m = lastroot => Opens(m)'
      BY <1>1, <2>1, OpensKept DEF Nest, StandsOpen
    <3>2. PICK m \in 1..N : m = lastroot
      BY <2>1
    <3> QED
      BY <3>1, <3>2 DEF Opens
  <2>4. nodes'[lastroot].item < K + 1 /\ (K + 1) - 1 = K
    BY <1>2, <2>1
  <2> QED
    <3>1. /\ nodes'[n].item = K + 1 /\ nodes'[n].parent = lastroot
          /\ lastroot \in 1..(n - 1)
      BY <1>2, <1>3, <1>4
    <3> HIDE DEF K, N
    <3> QED
      BY <2>1, <2>2, <2>3, <2>4, <3>1 DEF NodeNests, Opens
<1>5. ASSUME NEW n \in 2..(N + 1)
      PROVE  NodeNests(n)'
  <2>1. CASE n = N + 1
    BY <1>4, <2>1
  <2>2. CASE n # N + 1
    <3>1. n \in 2..N
      BY <1>2, <2>2
    <3>2. NodeNests(n)
      BY <3>1 DEF Nest
    <3> QED
      BY <1>1, <1>3, <3>1, <3>2, NodeNestsKept
  <2> QED
    BY <2>1, <2>2
<1>6. Root \in 1..N
  BY <1>2 DEF Root
<1>7. nodes'[Root].item = 0 /\ nodes'[Root].parent = NoNode
  BY <1>3, <1>6 DEF Nest
<1> QED
  BY <1>3, <1>5, <1>7

LEMMA NestEnter ==
  ASSUME Shape, Nest, NEW item \in Items, EnterCollection(item)
  PROVE  Nest'
<1> DEFINE K == Len(items)
           N == Len(nodes)
<1>1. AddsNode(item) /\ Load(item) /\ lastroot # NoNode /\ AddNode
  BY Adding DEF AddsNode
<1>2. /\ K \in Nat /\ N \in Nat /\ Len(items') = K + 1 /\ items'[K + 1] = item
  BY <1>1, LoadFacts DEF Shape
<1>3. /\ Len(nodes') = N + 1 /\ nodes'[N + 1].item = K + 1
      /\ lastroot' = N + 1
  BY <1>1, AddNodeFacts DEF EnterCollection
<1>4. K + 1 \in Colls(items')
  BY <1>2 DEF EnterCollection, Colls
<1>5. /\ Depth(items', K + 1) = Depth(items, K) + 1
      /\ \A j \in 0..K : Depth(items', j) = Depth(items, j)
  BY <1>1, DepthNext, DepthsKept DEF EnterCollection
<1>6. /\ \A j \in 0..K : Depth(items, j) >= 0
      /\ Depth(items, K) \in Int
  BY <1>1, <1>2, DepthType DEF Nest, StandsOpen
<1>7. Depth(items', K + 1) \in Int
  BY <1>2, DepthType
<1> HIDE DEF K, N
<1>8. JustIn(items', K + 1, K + 1)
  <2>1. \A j \in (K + 1)..(K + 1) : j = K + 1
    BY <1>2
  <2> QED
    BY <1>7, <2>1 DEF JustIn
<1>9. \A j \in 0..(K + 1) : Depth(items', j) >= 0
  <2>1. \A j \in 0..(K + 1) : j = K + 1 \/ j \in 0..K
    BY <1>2
  <2>2. K \in 0..K
    BY <1>2
  <2>3. Depth(items', K + 1) >= 0
    BY <1>5, <1>6, <2>2
  <2> QED
    BY <1>5, <1>6, <2>1, <2>3
<1>10. StandsOpen'
  BY <1>2, <1>3, <1>4, <1>8, <1>9 DEF StandsOpen, Opens
<1>11. lastroot' # NoNode
  BY <1>2, <1>3 DEF NoNode
<1> QED
  BY <1>1, <1>10, <1>11, NewNodeNests DEF Nest

(* Leaving a collection goes back to where it was entered.                 *)
LEMMA NestLeave ==
  ASSUME Shape, Nest, NEW item \in Items, LeaveCollection(item)
  PROVE  Nest'
<1> DEFINE K == Len(items)
           N == Len(nodes)
           a == nodes[lastroot].item
           p == nodes[lastroot].parent
<1>1. AddsNode(item) /\ Load(item) /\ lastroot # NoNode /\ AddNode
  BY Adding DEF AddsNode
<1>2. /\ K \in Nat /\ N \in Nat /\ Len(items') = K + 1
      /\ lastroot \in 1..N /\ a \in 0..K
  BY <1>1, LoadFacts DEF Shape, NoNode
<1>3. /\ \A m \in 1..N : nodes'[m].item = nodes[m].item
      /\ lastroot' = p
  BY <1>1, AddNodeFacts DEF LeaveCollection
<1>4. /\ Depth(items', K + 1) = Depth(items, K) - 1
      /\ \A j \in 0..K : Depth(items', j) = Depth(items, j)
  BY <1>1, DepthNext, DepthsKept DEF LeaveCollection
<1>5. /\ \A j \in 0..K : Depth(items, j) >= 0
      /\ Opens(lastroot) /\ JustIn(items, a, K)
  BY <1>1 DEF Nest, StandsOpen
<1>6. \A j \in 0..(K + 1) : /\ Depth(items, j) \in Int
                            /\ Depth(items', j) \in Int
  BY <1>2, DepthType
<1>7. /\ Depth(items, K) = Depth(items, a)
      /\ \A j \in a..K : Depth(items, j) >= Depth(items, a)
  BY <1>5 DEF JustIn
<1>8. CASE lastroot = Root
  <2>1. p = NoNode /\ a = 0
    BY <1>8 DEF Nest
  <2>2. Depth(items, K) = 0
    BY <1>7, <2>1, DepthType
  <2>3. Depth(items', Len(items')) < 0
    BY <1>2, <1>4, <2>2
  <2>4. StandsOpen'
    BY <1>3, <2>1 DEF StandsOpen
  <2> QED
    BY <1>1, <2>3, <2>4, NewNodeNests DEF Nest
<1>9. CASE lastroot # Root
  <2> DEFINE b == nodes[p].item
  <2>1. NodeNests(lastroot)
    BY <1>2, <1>9 DEF Nest, Root
  <2>2. /\ p \in 1..(lastroot - 1) /\ b < a /\ Opens(p)
        /\ JustIn(items, b, a - 1)
    BY <2>1 DEF NodeNests
  <2>3. p \in 1..N /\ b \in 0..K /\ a \in 1..K /\ a - 1 \in 0..K
    <3>1. p \in 1..N
      BY <1>2, <2>2
    <3>2. b \in 0..K
      BY <3>1 DEF Shape
    <3> QED
      BY <1>2, <2>2, <3>1, <3>2
  <2>4. a \in Colls(items)
    BY <1>5, <1>9 DEF Opens
  <2>5. Depth(items, a) = Depth(items, a - 1) + 1
    <3>1. a - 1 \in Nat /\ (a - 1) + 1 = a
      BY <2>3
    <3>2. a \notin Ends(items)
      BY <2>4, PlacesApart
    <3> HIDE DEF a
    <3>3. Bal(Colls(items), Ends(items), (a - 1) + 1)
            = Bal(Colls(items), Ends(items), a - 1) + 1
      BY <2>4, <3>1, <3>2, BalNext
    <3> QED
      BY <3>1, <3>3 DEF Depth
  <2>6. /\ Depth(items, a - 1) = Depth(items, b)
        /\ \A j \in b..(a - 1) : Depth(items, j) >= Depth(items, b)
    BY <2>2 DEF JustIn
  <2> HIDE DEF K, N, a, b, p
  <2>7. Depth(items', K + 1) = Depth(items, b)
    <3>1. /\ Depth(items, a) \in Int /\ Depth(items, b) \in Int
          /\ Depth(items, K) \in Int
      BY <1>2, <1>6, <2>3
    <3> QED
      BY <1>4, <1>7, <2>5, <2>6, <3>1
  <2>8. JustIn(items', b, K + 1)
    <3>1. Depth(items', b) = Depth(items, b)
      BY <1>4, <2>3
    <3>2. \A j \in b..(K + 1) : Depth(items', j) >= Depth(items, b)
      <4> SUFFICES ASSUME NEW j \in b..(K + 1)
                   PROVE  Depth(items', j) >= Depth(items, b)
        OBVIOUS
      <4>1. CASE j = K + 1
        BY <1>2, <1>6, <2>3, <2>7, <4>1
      <4>2. CASE j \in a..K
        <5>1. Depth(items', j) = Depth(items, j) /\ Depth(items, j) \in Int
          BY <1>2, <1>4, <1>6, <2>3, <4>2
        <5>2. Depth(items, j) >= Depth(items, a)
          BY <1>7, <4>2
        <5>3. Depth(items, a) \in Int /\ Depth(items, b) \in Int
          BY <1>2, <1>6, <2>3
        <5> QED
          BY <2>5, <2>6, <5>1, <5>2, <5>3
      <4>3. CASE j \in b..(a - 1)
        <5>1. j \in 0..K
          BY <1>2, <2>3, <4>3
        <5> QED
          BY <1>4, <2>6, <4>3, <5>1
      <4> QED
        BY <1>2, <2>3, <4>1, <4>2, <4>3
    <3> QED
      BY <2>7, <3>1, <3>2 DEF JustIn
  <2>9. \A j \in 0..(K + 1) : Depth(items', j) >= 0
    <3>1. \A j \in 0..(K + 1) : j = K + 1 \/ j \in 0..K
      BY <1>2
    <3>2. Depth(items', K + 1) >= 0
      BY <1>5, <2>3, <2>7
    <3> QED
      BY <1>4, <1>5, <3>1, <3>2
  <2>10. p = Root \/ nodes'[p].item \in Colls(items')
    <3>1. \A m \in 1..Len(nodes) : m = p => Opens(m)'
      BY <1>1, <1>3, <2>2, <2>3, OpensKept DEF N
    <3>2. PICK m \in 1..Len(nodes) : m = p
      BY <2>3 DEF N
    <3> QED
      BY <3>1, <3>2 DEF Opens
  <2>11. StandsOpen'
    <3>1. nodes'[p].item = b
      BY <1>3, <2>3 DEF b
    <3> QED
      BY <1>2, <1>3, <2>8, <2>9, <2>10, <3>1 DEF StandsOpen, Opens
  <2>12. lastroot' # NoNode
    BY <1>3, <2>3 DEF NoNode
  <2> QED
    BY <1>1, <2>11, <2>12, NewNodeNests DEF Nest
<1> QED
  BY <1>8, <1>9

(* An item that neither begins nor ends a collection.                      *)
LEMMA StaysOpen ==
  ASSUME Shape, StandsOpen, NEW item \in Items, Load(item),
         ~IsCollection(item), ~IsEndCollection(item), lastroot' = lastroot,
         \A m \in 1..Len(nodes) : nodes'[m].item = nodes[m].item
  PROVE  /\ StandsOpen'
         /\ Depth(items', Len(items')) = Depth(items, Len(items))
<1> DEFINE K == Len(items)
<1>1. K \in Nat /\ Len(items') = K + 1
  BY LoadFacts DEF Shape
<1>2. /\ Depth(items', K + 1) = Depth(items, K)
      /\ \A j \in 0..K : Depth(items', j) = Depth(items, j)
  BY DepthNext, DepthsKept
<1>3. ASSUME lastroot # NoNode
      PROVE  /\ lastroot = Root \/ nodes'[lastroot].item \in Colls(items')
             /\ JustIn(items', nodes'[lastroot].item, K + 1)
             /\ \A j \in 0..(K + 1) : Depth(items', j) >= 0
  <2>1. /\ lastroot \in 1..Len(nodes) /\ nodes[lastroot].item \in 0..K
        /\ nodes'[lastroot].item = nodes[lastroot].item
    BY <1>3 DEF Shape, NoNode
  <2>2. /\ Opens(lastroot) /\ JustIn(items, nodes[lastroot].item, K)
        /\ \A j \in 0..K : Depth(items, j) >= 0
    BY <1>3 DEF StandsOpen
  <2>3. JustIn(items', nodes[lastroot].item, K + 1)
    BY <2>1, <2>2, JustInNext
  <2>4. lastroot = Root \/ nodes'[lastroot].item \in Colls(items')
    <3>1. \A m \in 1..Len(nodes) : m = lastroot => Opens(m)'
      BY <2>1, <2>2, OpensKept
    <3>2. PICK m \in 1..Len(nodes) : m = lastroot
      BY <2>1
    <3> QED
      BY <3>1, <3>2 DEF Opens
  <2> HIDE DEF K
  <2>5. \A j \in 0..(K + 1) : j = K + 1 \/ j \in 0..K
    BY <1>1
  <2>6. K \in 0..K
    BY <1>1
  <2>7. \A j \in 0..(K + 1) : Depth(items', j) >= 0
    BY <1>2, <2>2, <2>5, <2>6
  <2> QED
    BY <2>1, <2>3, <2>4, <2>7
<1> QED
  BY <1>1, <1>2, <1>3 DEF StandsOpen, Opens

LEMMA NestParse ==
  ASSUME Shape, Nest, NEW item \in Items, ParseItem(item)
  PROVE  Nest'
<1>1. Load(item) /\ phase = "parse"
  BY ParseLoads
<1>2. CASE EnterCollection(item)
  BY <1>2, NestEnter
<1>3. CASE LeaveCollection(item)
  BY <1>3, NestLeave
<1>4. CASE AddData(item)
  <2>1. /\ AddsNode(item) /\ lastroot # NoNode /\ lastroot' = lastroot
        /\ ~IsCollection(item) /\ ~IsEndCollection(item)
    BY <1>4, Adding DEF AddsNode, AddData
  <2>2. \A m \in 1..Len(nodes) : nodes'[m].item = nodes[m].item
    BY <2>1, AddNodeFacts DEF AddsNode
  <2>3. StandsOpen'
    BY <1>1, <2>1, <2>2, StaysOpen DEF Nest
  <2> QED
    BY <2>1, <2>3, NewNodeNests DEF Nest
<1>5. CASE AddToNothing(item) \/ Push(item) \/ Pop(item) \/ SetGlobal(item)
           \/ SetLocal(item) \/ SkipReserved(item)
  <2>1. nodes' = nodes /\ lastroot' = lastroot
    BY <1>5 DEF AddToNothing, Push, Pop, SetGlobal, SetLocal, SkipReserved
  <2>2. \A n \in 2..Len(nodes) : NodeNests(n)'
    BY <1>1, <2>1, NodeNestsKept DEF Nest
  <2>3. CASE AddToNothing(item)
    BY <2>1, <2>2, <2>3 DEF Nest, StandsOpen, AddToNothing
  <2>4. CASE Push(item) \/ Pop(item) \/ SetGlobal(item)
             \/ SetLocal(item) \/ SkipReserved(item)
    <3>1. ~IsCollection(item) /\ ~IsEndCollection(item) /\ phase' = phase
      BY <2>4 DEF Push, Pop, SetGlobal, SetLocal, SkipReserved, IsPush, IsPop,
         IsCollection, IsEndCollection, TypeMain, TypeGlobal, TypeLocal
    <3>2. StandsOpen' /\ Depth(items', Len(items')) = Depth(items, Len(items))
      BY <1>1, <2>1, <3>1, StaysOpen DEF Nest
    <3> QED
      BY <2>1, <2>2, <3>1, <3>2 DEF Nest
  <2> QED
    BY <1>5, <2>3, <2>4
<1> QED
  BY <1>2, <1>3, <1>4, <1>5 DEF ParseItem

LEMMA NestStep ==
  ASSUME Shape, Nest, [Next]_vars
  PROVE  Nest'
<1>1. CASE UNCHANGED vars
  BY <1>1 DEF vars, Nest, NodeNests, StandsOpen, Opens
<1>2. CASE \E res \in 0..MaxSize : Fetch(res)
  BY <1>2 DEF Fetch, Nest, NodeNests, StandsOpen, Opens
<1>3. CASE FetchFails
  BY <1>3 DEF FetchFails, Nest, NodeNests, StandsOpen, Opens
<1>4. CASE \E item \in Items : item.start = i /\ ParseItem(item)
  BY <1>4, NestParse
<1> QED
  BY <1>1, <1>2, <1>3, <1>4, NextCases

(* Every node but the root is, once, among the children of its parent.     *)
Kin ==
  \A n \in DOMAIN nodes :
    /\ Range(nodes[n].children) = {m \in 2..Len(nodes) : nodes[m].parent = n}
    /\ \A a, b \in DOMAIN nodes[n].children :
         a < b => nodes[n].children[a] < nodes[n].children[b]

LEMMA KinInit == Init => Kin
<1> SUFFICES ASSUME Init
             PROVE  Kin
  OBVIOUS
<1>1. /\ Len(nodes) = 1 /\ DOMAIN nodes = {1}
      /\ nodes[1].children = <<>>
  BY DEF Init, RootNode
<1>2. 2..Len(nodes) = {} /\ DOMAIN <<>> = {}
  BY <1>1
<1> QED
  BY <1>1, <1>2 DEF Kin, Range

(* A number greater than all in an ordered sequence may follow them.       *)
LEMMA AppendGreater ==
  ASSUME NEW s \in Seq(Nat), NEW x \in Nat,
         \A a \in DOMAIN s : s[a] < x,
         \A a, b \in DOMAIN s : a < b => s[a] < s[b]
  PROVE  /\ Range(Append(s, x)) = Range(s) \cup {x}
         /\ \A a, b \in DOMAIN Append(s, x) :
              a < b => Append(s, x)[a] < Append(s, x)[b]
<1> DEFINE t == Append(s, x)
<1>1. /\ DOMAIN t = (DOMAIN s) \cup {Len(s) + 1} /\ t[Len(s) + 1] = x
      /\ \A a \in DOMAIN s : t[a] = s[a] /\ a \in Nat /\ a <= Len(s)
      /\ Len(s) \in Nat
  OBVIOUS
<1> HIDE DEF t
<1>2. Range(t) = Range(s) \cup {x}
  BY <1>1 DEF Range
<1>3. ASSUME NEW a \in DOMAIN t, NEW b \in DOMAIN t, a < b
      PROVE  t[a] < t[b]
  <2>1. a \in DOMAIN s
    BY <1>1, <1>3
  <2> QED
    BY <1>1, <1>3, <2>1
<1> QED
  BY <1>2, <1>3 DEF t

LEMMA KinAdds ==
  ASSUME Shape, Kin, NEW item \in Items, AddsNode(item)
  PROVE  Kin'
<1> DEFINE N == Len(nodes)
<1>1. Load(item) /\ lastroot # NoNode /\ AddNode
  BY DEF AddsNode
<1>2. N \in Nat /\ N >= 1 /\ lastroot \in 1..N /\ nodes \in Seq(Nodes)
  BY <1>1 DEF Shape, NoNode
<1>3. /\ nodes' \in Seq(Nodes) /\ Len(nodes') = N + 1
      /\ nodes'[N + 1].parent = lastroot /\ nodes'[N + 1].children = <<>>
      /\ \A n \in 1..N :
           /\ nodes'[n].parent = nodes[n].parent
           /\ nodes'[n].children =
                IF n = lastroot THEN Append(nodes[n].children, N + 1)
                                ELSE nodes[n].children
  BY <1>1, AddNodeFacts
<1>4. \A m \in 1..N : nodes[m].parent \in 0..(m - 1)
  BY <1>2 DEF Shape, NoNode
<1> SUFFICES ASSUME NEW n \in 1..(N + 1)
             PROVE  /\ Range(nodes'[n].children)
                         = {m \in 2..(N + 1) : nodes'[m].parent = n}
                    /\ \A a, b \in DOMAIN nodes'[n].children :
                         a < b => nodes'[n].children[a] < nodes'[n].children[b]
  BY <1>2, <1>3 DEF Kin
<1>5. {m \in 2..(N + 1) : nodes'[m].parent = n}
        = {m \in 2..N : nodes[m].parent = n}
            \cup (IF n = lastroot THEN {N + 1} ELSE {})
  <2>1. /\ \A m \in 2..(N + 1) : m = N + 1 \/ (m \in 2..N /\ m \in 1..N)
        /\ N + 1 \in 2..(N + 1) /\ 2..N \subseteq 2..(N + 1)
        /\ N + 1 \notin 2..N /\ \A m \in 2..N : m \in 1..N
    BY <1>2
  <2> HIDE DEF N
  <2>2. \A m \in 2..N : nodes'[m].parent = nodes[m].parent
    BY <1>3, <2>1
  <2> QED
    BY <1>3, <2>1, <2>2
<1>6. CASE n = N + 1
  <2>1. {m \in 2..N : nodes[m].parent = n} = {}
    BY <1>2, <1>4, <1>6
  <2>2. n # lastroot
    BY <1>2, <1>6
  <2>3. nodes'[n].children = <<>> /\ Range(<<>>) = {} /\ DOMAIN <<>> = {}
    BY <1>3, <1>6 DEF Range
  <2> QED
    BY <1>5, <2>1, <2>2, <2>3
<1>7. CASE n \in 1..N
  <2> DEFINE c == nodes[n].children
  <2>1. n \in DOMAIN nodes
    BY <1>2, <1>7
  <2>2. /\ Range(c) = {m \in 2..N : nodes[m].parent = n}
        /\ \A a, b \in DOMAIN c : a < b => c[a] < c[b]
    BY <2>1 DEF Kin
  <2>3. c \in Seq(Nat)
    <3>1. nodes[n] \in Nodes
      BY <1>2, <2>1
    <3> QED
      BY <3>1 DEF Nodes
  <2>4. CASE n = lastroot
    <3>1. nodes'[n].children = Append(c, N + 1)
      BY <1>3, <1>7, <2>4
    <3>2. \A a \in DOMAIN c : c[a] < N + 1
      <4>1. \A a \in DOMAIN c : c[a] \in (n + 1)..N
        BY <2>1 DEF Shape
      <4> QED
        BY <1>2, <1>7, <4>1
    <3> HIDE DEF c
    <3>3. N + 1 \in Nat
      BY <1>2
    <3>4. /\ Range(Append(c, N + 1)) = Range(c) \cup {N + 1}
          /\ \A a, b \in DOMAIN Append(c, N + 1) :
               a < b => Append(c, N + 1)[a] < Append(c, N + 1)[b]
      BY <2>2, <2>3, <3>2, <3>3, AppendGreater
    <3> QED
      BY <1>5, <2>2, <2>4, <3>1, <3>4
  <2>5. CASE n # lastroot
    <3>1. nodes'[n].children = c
      BY <1>3, <1>7, <2>5
    <3> QED
      BY <1>5, <2>2, <2>5, <3>1
  <2> QED
    BY <2>4, <2>5
<1> QED
  BY <1>2, <1>6, <1>7

LEMMA KinStep ==
  ASSUME Shape, Kin, [Next]_vars
  PROVE  Kin'
<1>1. ASSUME nodes' = nodes
      PROVE  Kin'
  BY <1>1 DEF Kin
<1>2. CASE UNCHANGED vars
  BY <1>1, <1>2 DEF vars
<1>3. CASE \E res \in 0..MaxSize : Fetch(res)
  BY <1>1, <1>3 DEF Fetch
<1>4. CASE FetchFails
  BY <1>1, <1>4 DEF FetchFails
<1>5. ASSUME NEW item \in Items, ParseItem(item)
      PROVE  Kin'
  <2>1. CASE EnterCollection(item) \/ LeaveCollection(item) \/ AddData(item)
    BY <2>1, Adding, KinAdds
  <2>2. CASE AddToNothing(item) \/ Push(item) \/ Pop(item) \/ SetGlobal(item)
             \/ SetLocal(item) \/ SkipReserved(item)
    BY <1>1, <2>2 DEF AddToNothing, Push, Pop, SetGlobal, SetLocal,
       SkipReserved
  <2> QED
    BY <1>5, <2>1, <2>2 DEF ParseItem
<1> QED
  BY <1>2, <1>3, <1>4, <1>5, NextCases

LEMMA NestMeaning ==
  ASSUME Shape, Nest, Kin
  PROVE  TreeMatchesNesting
<1> SUFFICES ASSUME NEW n \in DOMAIN nodes
             PROVE  /\ n # Root =>
                         ItemOf(nodes[n].parent)
                           = Enclosing(IsCollection, IsEndCollection,
                                       nodes[n].item)
                    /\ Range(nodes[n].children)
                         = {m \in DOMAIN nodes : nodes[m].parent = n}
                    /\ \A a, b \in DOMAIN nodes[n].children :
                         a < b => nodes[n].children[a] < nodes[n].children[b]
  BY DEF TreeMatchesNesting
<1>1. nodes \in Seq(Nodes) /\ DOMAIN nodes = 1..Len(nodes) /\ Len(nodes) \in Nat
  BY DEF Shape
<1>2. /\ Range(nodes[n].children) = {m \in DOMAIN nodes : nodes[m].parent = n}
      /\ \A a, b \in DOMAIN nodes[n].children :
           a < b => nodes[n].children[a] < nodes[n].children[b]
  <2>1. nodes[1].parent = 0
    BY DEF Nest, Root, NoNode
  <2>2. {m \in DOMAIN nodes : nodes[m].parent = n}
          = {m \in 2..Len(nodes) : nodes[m].parent = n}
    <3>1. \A m \in DOMAIN nodes : m = 1 \/ m \in 2..Len(nodes)
      BY <1>1
    <3>2. n # 0 /\ 2..Len(nodes) \subseteq DOMAIN nodes
      BY <1>1
    <3> QED
      BY <2>1, <3>1, <3>2
  <2> QED
    BY <2>2 DEF Kin
<1>3. ASSUME n # Root
      PROVE  ItemOf(nodes[n].parent)
               = Enclosing(IsCollection, IsEndCollection, nodes[n].item)
  <2> DEFINE p == nodes[n].parent
             a == nodes[p].item
             k == nodes[n].item
  <2>1. NodeNests(n)
    BY <1>1, <1>3 DEF Nest, Root
  <2>2. /\ p \in 1..(n - 1) /\ a < k /\ Opens(p) /\ JustIn(items, a, k - 1)
    BY <2>1 DEF NodeNests
  <2>3. p \in DOMAIN nodes
    BY <1>1, <2>2
  <2>4. /\ a \in 0..Len(items) /\ k \in 0..Len(items) /\ Len(items) \in Nat
    BY <2>3 DEF Shape
  <2>5. a = 0 \/ a \in Colls(items)
    BY <2>2 DEF Opens, Nest
  <2>6. ItemOf(p) = a
    BY <2>2 DEF ItemOf, NoNode
  <2> HIDE DEF a, k, p
  <2>7. k \in 1..(Len(items) + 1) /\ k \in Nat /\ a \in 0..(k - 1)
    BY <2>2, <2>4
  <2>8. Innermost(Colls(items), Ends(items), k) = a
    <3>1. Colls(items) \cap Ends(items) = {}
      BY PlacesApart
    <3>2. /\ Bal(Colls(items), Ends(items), a)
               = Bal(Colls(items), Ends(items), k - 1)
          /\ \A j \in a..(k - 1) :
               Bal(Colls(items), Ends(items), j)
                 >= Bal(Colls(items), Ends(items), a)
      BY <2>2 DEF JustIn, Depth
    <3> QED
      BY <2>5, <2>7, <3>1, <3>2, InnermostIs
  <2>9. Enclosing(IsCollection, IsEndCollection, k) = a
    BY <2>7, <2>8, EnclosingIs
  <2> QED
    BY <2>6, <2>9 DEF p, k
<1> QED
  BY <1>2, <1>3

LEMMA NullMeaning ==
  ASSUME Shape, Nest
  PROVE  NullOnlyWhenUnbalanced
<1> DEFINE K == Len(items)
           A == Cardinality(Colls(items) \cap (1..K))
           C == Cardinality(Ends(items) \cap (1..K))
<1>1. K \in Nat /\ A \in Nat /\ C \in Nat
  <2>1. K \in Nat
    BY DEF Shape
  <2> QED
    BY <2>1, UpToFinite
<1>2. Count(IsCollection, 0, K + 1) = A /\ Count(IsEndCollection, 0, K + 1) = C
  <2>1. 0 \in Nat /\ K + 1 \in 1..(K + 1) /\ 0 < K + 1
    BY <1>1
  <2>2. /\ Count(IsCollection, 0, K + 1)
             = Cardinality(Colls(items) \cap ((0 + 1)..((K + 1) - 1)))
        /\ Count(IsEndCollection, 0, K + 1)
             = Cardinality(Ends(items) \cap ((0 + 1)..((K + 1) - 1)))
    BY <2>1, CountIs
  <2>3. 0 + 1 = 1 /\ (K + 1) - 1 = K
    BY <1>1
  <2> QED
    BY <2>2, <2>3
<1>3. Depth(items, K) = A - C
  BY DEF Depth, Bal
<1>4. /\ lastroot # NoNode => Depth(items, K) >= 0
      /\ phase = "parse" /\ lastroot = NoNode => Depth(items, K) < 0
  BY <1>1 DEF Nest, StandsOpen
<1>5. Depth(items, K) < 0 <=> C > A
  <2> HIDE DEF A, C
  <2> QED
    BY <1>1, <1>3
<1>6. Depth(items, K) >= 0 <=> ~(Depth(items, K) < 0)
  <2> HIDE DEF A, C
  <2> QED
    BY <1>1, <1>3
<1>7. phase = "parse" => (lastroot = NoNode <=> C > A)
  <2> HIDE DEF A, C
  <2> QED
    BY <1>4, <1>5, <1>6
<1>8. phase = "parse" =>
        (lastroot = NoNode <=>
           Count(IsEndCollection, 0, K + 1) > Count(IsCollection, 0, K + 1))
  <2> HIDE DEF A, C
  <2> QED
    BY <1>2, <1>7
<1> QED
  BY <1>8 DEF NullOnlyWhenUnbalanced

-----------------------------------------------------------------------------
(* The global items.                                                       *)

Settable(item) == item.type = TypeGlobal /\ ~IsPush(item) /\ ~IsPop(item)

(* The PUSH whose table the POP q restores.                                *)
Restores(it, q) == Innermost(Pushes(it), Pops(it), q)

(* The items in effect at k, of the items it.                              *)
Effective(it, k) ==
  {j \in 1..(k - 1) :
     /\ Settable(it[j])
     /\ \A q \in (j + 1)..(k - 1) : IsPop(it[q]) => Restores(it, q) > j}

(* Item a has pushed the table, and so many tables are now above it: what  *)
(* was pushed after a has been popped, and a has not.                      *)
PushedAt(it, a, above, table) ==
  /\ a \in Pushes(it)
  /\ Height(it, a) = Height(it, Len(it)) - above
  /\ \A j \in a..Len(it) : Height(it, j) >= Height(it, a)
  /\ table = Latest(it, Effective(it, a))
  /\ \A q \in (a + 1)..Len(it) :
       IsPop(it[q]) => Restores(it, q) \in (a + 1)..(q - 1)

GlobalsOf(n) ==
  nodes[n].globals = Latest(items, Effective(items, nodes[n].item))

Stacked(it, stack) ==
  /\ \A e \in 1..Len(stack) :
       \E a \in 1..Len(it) : PushedAt(it, a, Len(stack) - e, stack[e])
  /\ \A j \in 0..Len(it) : Height(it, j) >= Height(it, Len(it)) - Len(stack)

GlobalsNow ==
  /\ \A n \in 2..Len(nodes) : GlobalsOf(n)
  /\ globalState = Latest(items, Effective(items, Len(items) + 1))
  /\ Stacked(items, globalItemTableStack)

LEMMA RestoresKept ==
  ASSUME Shape, NEW item \in Items, Load(item), NEW q \in 1..(Len(items) + 1)
  PROVE  Restores(items', q) = Restores(items, q)
<1>1. Len(items) \in Nat /\ q - 1 \in 0..Len(items)
  BY DEF Shape
<1>2. \A k \in 0..(q - 1) :
        /\ Pushes(items') \cap (1..k) = Pushes(items) \cap (1..k)
        /\ Pops(items') \cap (1..k) = Pops(items) \cap (1..k)
  BY <1>1, PlacesKept
<1>3. \A k \in 0..(q - 1) : Bal(Pushes(items'), Pops(items'), k)
                              = Bal(Pushes(items), Pops(items), k)
  BY <1>2, BalSame
<1>4. \A j \in 1..(q - 1) : j \in Pushes(items') <=> j \in Pushes(items)
  <2>1. q - 1 \in 0..(q - 1)
    BY <1>1
  <2> QED
    BY <1>2, <2>1
<1>5. Pending(Pushes(items'), Pops(items'), q)
        = Pending(Pushes(items), Pops(items), q)
  <2>1. q - 1 \in 0..(q - 1) /\ \A j \in 1..(q - 1) : j \in 0..(q - 1)
    BY <1>1
  <2> QED
    BY <1>3, <1>4, <2>1 DEF Pending
<1> QED
  BY <1>5 DEF Restores, Innermost

LEMMA EffectiveKept ==
  ASSUME Shape, NEW item \in Items, Load(item), NEW k \in 0..(Len(items) + 1)
  PROVE  /\ Effective(items', k) = Effective(items, k)
         /\ Latest(items', Effective(items', k))
              = Latest(items, Effective(items, k))
<1>1. /\ Len(items) \in Nat
      /\ \A j \in 1..Len(items) : items'[j] = items[j]
  BY LoadFacts DEF Shape
<1>2. \A j \in 1..(k - 1) : j \in 1..Len(items) /\ items'[j] = items[j]
  BY <1>1
<1>3. \A q \in 1..(k - 1) : Restores(items', q) = Restores(items, q)
  <2>1. \A q \in 1..(k - 1) : q \in 1..(Len(items) + 1)
    BY <1>1
  <2> QED
    BY <2>1, RestoresKept
<1>4. \A j \in 1..(k - 1) : \A q \in (j + 1)..(k - 1) : q \in 1..(k - 1)
  OBVIOUS
<1>5. Effective(items', k) = Effective(items, k)
  BY <1>2, <1>3, <1>4 DEF Effective
<1>6. \A j \in Effective(items, k) : items'[j] = items[j]
  BY <1>2 DEF Effective
<1> QED
  BY <1>5, <1>6, LatestSame

LEMMA EffectiveNext ==
  ASSUME NEW it, NEW k \in Nat, k >= 1
  PROVE  /\ Settable(it[k]) =>
              Effective(it, k + 1) = Effective(it, k) \cup {k}
         /\ ~Settable(it[k]) /\ ~IsPop(it[k]) =>
              Effective(it, k + 1) = Effective(it, k)
         /\ IsPop(it[k]) =>
              Effective(it, k + 1)
                = {j \in Effective(it, k) : Restores(it, k) > j}
<1>1. (k + 1) - 1 = k
  OBVIOUS
<1>2. Effective(it, k + 1) \subseteq 1..k
  BY <1>1 DEF Effective
<1>3. Effective(it, k) \subseteq 1..(k - 1)
  BY DEF Effective
<1>4. k \in Effective(it, k + 1) <=> Settable(it[k])
  <2>1. k \in 1..k /\ \A q \in (k + 1)..k : FALSE
    OBVIOUS
  <2> QED
    BY <1>1, <2>1 DEF Effective
<1>5. ASSUME NEW j \in 1..(k - 1)
      PROVE  j \in Effective(it, k + 1)
               <=> j \in Effective(it, k)
                     /\ (IsPop(it[k]) => Restores(it, k) > j)
  <2>1. /\ j \in 1..k /\ k \in (j + 1)..k
        /\ \A q \in (j + 1)..k : q = k \/ q \in (j + 1)..(k - 1)
        /\ \A q \in (j + 1)..(k - 1) : q \in (j + 1)..k
    OBVIOUS
  <2>2. (\A q \in (j + 1)..k : IsPop(it[q]) => Restores(it, q) > j)
          <=> /\ \A q \in (j + 1)..(k - 1) : IsPop(it[q]) => Restores(it, q) > j
              /\ IsPop(it[k]) => Restores(it, k) > j
    BY <2>1
  <2>3. j \in Effective(it, k + 1)
          <=> /\ Settable(it[j])
              /\ \A q \in (j + 1)..k : IsPop(it[q]) => Restores(it, q) > j
    BY <1>1, <2>1 DEF Effective
  <2>4. j \in Effective(it, k)
          <=> /\ Settable(it[j])
              /\ \A q \in (j + 1)..(k - 1) :
                   IsPop(it[q]) => Restores(it, q) > j
    BY DEF Effective
  <2> QED
    BY <2>2, <2>3, <2>4
<1>6. /\ \A j \in 1..k : j = k \/ j \in 1..(k - 1)
      /\ k \notin 1..(k - 1)
  OBVIOUS
<1>7. Settable(it[k]) => ~IsPop(it[k])
  BY DEF Settable
<1> QED
  BY <1>2, <1>3, <1>4, <1>5, <1>6, <1>7

(* What is in effect before a POP and was there before the PUSH it answers *)
(* is what was in effect at that PUSH.                                     *)
LEMMA EffectiveBefore ==
  ASSUME NEW it, NEW k \in Nat, NEW a \in 1..(k - 1), IsPush(it[a]),
         \A q \in (a + 1)..(k - 1) :
           IsPop(it[q]) => Restores(it, q) \in (a + 1)..(q - 1)
  PROVE  {j \in Effective(it, k) : a > j} = Effective(it, a)
<1>1. ~IsPop(it[a])
  BY DEF IsPush, IsPop, PUSH, POP
<1>2. ASSUME NEW j \in 1..(a - 1)
      PROVE  j \in Effective(it, k) <=> j \in Effective(it, a)
  <2>1. /\ j \in 1..(k - 1)
        /\ \A q \in (j + 1)..(k - 1) :
             q \in (j + 1)..(a - 1) \/ q = a \/ q \in (a + 1)..(k - 1)
        /\ \A q \in (j + 1)..(a - 1) : q \in (j + 1)..(k - 1)
    OBVIOUS
  <2>2. \A q \in (a + 1)..(k - 1) : IsPop(it[q]) => Restores(it, q) > j
    <3>1. \A q \in Int : \A r \in (a + 1)..(q - 1) : r > j
      OBVIOUS
    <3> QED
      BY <3>1
  <2>3. (\A q \in (j + 1)..(k - 1) : IsPop(it[q]) => Restores(it, q) > j)
          <=> (\A q \in (j + 1)..(a - 1) : IsPop(it[q]) => Restores(it, q) > j)
    BY <1>1, <2>1, <2>2
  <2> QED
    BY <2>1, <2>3 DEF Effective
<1>3. \A j \in Effective(it, k) : a > j => j \in 1..(a - 1)
  BY DEF Effective
<1>4. \A j \in Effective(it, a) : j \in 1..(a - 1) /\ a > j
  BY DEF Effective
<1> QED
  BY <1>2, <1>3, <1>4

(* A table on the stack, after an item that leaves it there.               *)
LEMMA PushedKept ==
  ASSUME Shape, NEW item \in Items, Load(item),
         NEW a \in 1..Len(items), NEW above, NEW table,
         PushedAt(items, a, above, table), NEW up \in Nat,
         Height(items', Len(items) + 1) - up = Height(items, a),
         IsPop(item) =>
           Restores(items, Len(items) + 1) \in (a + 1)..Len(items)
  PROVE  PushedAt(items', a, up, table)
<1> DEFINE K == Len(items)
<1>1. /\ K \in Nat /\ Len(items') = K + 1 /\ items'[K + 1] = item
      /\ \A j \in 1..K : items'[j] = items[j]
  BY LoadFacts DEF Shape
<1>2. /\ a \in Pushes(items)
      /\ \A j \in a..K : Height(items, j) >= Height(items, a)
      /\ table = Latest(items, Effective(items, a))
      /\ \A q \in (a + 1)..K :
           IsPop(items[q]) => Restores(items, q) \in (a + 1)..(q - 1)
  BY DEF PushedAt
<1>3. \A j \in 0..K : Height(items', j) = Height(items, j)
  BY DepthsKept
<1>4. Height(items', a) \in Int /\ Height(items', K + 1) \in Int
  BY <1>1, DepthType
<1>5. a \in Pushes(items')
  BY <1>1, <1>2 DEF Pushes
<1>6. table = Latest(items', Effective(items', a))
  BY <1>1, <1>2, EffectiveKept
<1>7. \A q \in (a + 1)..(K + 1) :
        IsPop(items'[q]) => Restores(items', q) \in (a + 1)..(q - 1)
  <2> SUFFICES ASSUME NEW q \in (a + 1)..(K + 1), IsPop(items'[q])
               PROVE  Restores(items', q) \in (a + 1)..(q - 1)
    OBVIOUS
  <2>1. Restores(items', q) = Restores(items, q)
    BY <1>1, RestoresKept
  <2>2. CASE q = K + 1
    BY <1>1, <2>1, <2>2
  <2>3. CASE q # K + 1
    <3>1. q \in (a + 1)..K /\ q \in 1..K
      BY <1>1, <2>3
    <3> QED
      BY <1>1, <1>2, <2>1, <3>1
  <2> QED
    BY <2>2, <2>3
<1> HIDE DEF K
<1>8. /\ a \in 0..K
      /\ \A j \in a..(K + 1) : j = K + 1 \/ (j \in a..K /\ j \in 0..K)
  BY <1>1 DEF K
<1>9. /\ Height(items', a) = Height(items, a)
      /\ Height(items', a) = Height(items', K + 1) - up
  BY <1>3, <1>4, <1>8 DEF K
<1>10. Height(items', K + 1) >= Height(items', a)
  BY <1>4, <1>9
<1>11. \A j \in a..(K + 1) : Height(items', j) >= Height(items', a)
  BY <1>2, <1>3, <1>8, <1>9, <1>10
<1> QED
  BY <1>1, <1>5, <1>6, <1>7, <1>9, <1>11 DEF PushedAt

(* The heights stay above what the stack can give back.                    *)
LEMMA HeightsBounded ==
  ASSUME Shape, NEW item \in Items, Load(item), NEW l \in Nat, NEW m \in Nat,
         \A j \in 0..Len(items) :
           Height(items, j) >= Height(items, Len(items)) - l,
         Height(items', Len(items) + 1) - m <= Height(items, Len(items)) - l
  PROVE  \A j \in 0..(Len(items) + 1) :
           Height(items', j) >= Height(items', Len(items) + 1) - m
<1> DEFINE K == Len(items)
<1>1. K \in Nat
  BY DEF Shape
<1>2. \A j \in 0..K : Height(items', j) = Height(items, j)
  BY DepthsKept
<1>3. \A j \in 0..(K + 1) : /\ Height(items', j) \in Int
                            /\ Height(items, j) \in Int
  BY <1>1, DepthType
<1> HIDE DEF K
<1>4. \A j \in 0..(K + 1) : j = K + 1 \/ j \in 0..K
  BY <1>1
<1>5. K \in 0..K /\ K \in 0..(K + 1) /\ K + 1 \in 0..(K + 1)
  BY <1>1
<1> SUFFICES ASSUME NEW j \in 0..(K + 1)
             PROVE  Height(items', j) >= Height(items', K + 1) - m
  BY DEF K
<1>6. CASE j = K + 1
  BY <1>3, <1>5, <1>6
<1>7. CASE j \in 0..K
  <2>1. Height(items, j) >= Height(items, K) - l
    BY <1>7 DEF K
  <2>2. Height(items', K + 1) - m <= Height(items, K) - l
    BY DEF K
  <2>3. Height(items', j) = Height(items, j)
    BY <1>2, <1>7
  <2>4. /\ Height(items, j) \in Int /\ Height(items, K) \in Int
        /\ Height(items', K + 1) \in Int
    BY <1>3, <1>5
  <2> QED
    BY <2>1, <2>2, <2>3, <2>4
<1> QED
  BY <1>4, <1>6, <1>7

LEMMA StackedStays ==
  ASSUME Shape, GlobalsNow, NEW item \in Items, Load(item),
         ~IsPush(item), ~IsPop(item)
  PROVE  Stacked(items', globalItemTableStack)
<1> DEFINE K == Len(items)
           s == globalItemTableStack
           L == Len(s)
<1>1. K \in Nat /\ Len(items') = K + 1 /\ L \in Nat
  BY LoadFacts DEF Shape
<1>2. Height(items', K + 1) = Height(items, K)
  BY DepthNext
<1>3. \A j \in 0..(K + 1) : Height(items', j) >= Height(items', K + 1) - L
  <2>1. \A j \in 0..K : Height(items, j) >= Height(items, K) - L
    BY DEF GlobalsNow, Stacked
  <2>2. Height(items, K) \in Int
    BY <1>1, DepthType
  <2>3. Height(items', K + 1) - L <= Height(items, K) - L
    BY <1>1, <1>2, <2>2
  <2> QED
    BY <1>1, <2>1, <2>3, HeightsBounded
<1>4. ASSUME NEW e \in 1..L
      PROVE  \E a \in 1..(K + 1) : PushedAt(items', a, L - e, s[e])
  <2>1. PICK a \in 1..K : PushedAt(items, a, L - e, s[e])
    BY DEF GlobalsNow, Stacked
  <2>2. Height(items', K + 1) - (L - e) = Height(items, a)
    BY <1>2, <2>1 DEF PushedAt
  <2>3. L - e \in Nat /\ a \in 1..(K + 1)
    BY <1>1
  <2>4. PushedAt(items', a, L - e, s[e])
    BY <2>1, <2>2, <2>3, PushedKept
  <2> QED
    BY <2>3, <2>4
<1> QED
  BY <1>1, <1>3, <1>4 DEF Stacked

LEMMA StackedPush ==
  ASSUME Shape, GlobalsNow, NEW item \in Items, Load(item), IsPush(item)
  PROVE  Stacked(items', Append(globalItemTableStack, globalState))
<1> DEFINE K == Len(items)
           s == globalItemTableStack
           L == Len(s)
           t == Append(s, globalState)
<1>1. /\ K \in Nat /\ Len(items') = K + 1 /\ items'[K + 1] = item
      /\ L \in Nat /\ s \in Seq(Tables)
  BY LoadFacts DEF Shape
<1>2. Height(items', K + 1) = Height(items, K) + 1 /\ Height(items, K) \in Int
  BY <1>1, DepthNext, DepthType
<1>3. ~IsPop(item)
  BY DEF IsPush, IsPop, PUSH, POP
<1>4. /\ Len(t) = L + 1 /\ t[L + 1] = globalState
      /\ \A e \in 1..L : t[e] = s[e]
  BY <1>1
<1>5. \A j \in 0..(K + 1) : Height(items', j) >= Height(items', K + 1) - (L + 1)
  <2>1. \A j \in 0..K : Height(items, j) >= Height(items, K) - L
    BY DEF GlobalsNow, Stacked
  <2>2. Height(items', K + 1) - (L + 1) <= Height(items, K) - L /\ L + 1 \in Nat
    BY <1>1, <1>2
  <2> QED
    BY <1>1, <2>1, <2>2, HeightsBounded
<1>6. ASSUME NEW e \in 1..L
      PROVE  \E a \in 1..(K + 1) : PushedAt(items', a, (L + 1) - e, s[e])
  <2>1. PICK a \in 1..K : PushedAt(items, a, L - e, s[e])
    BY DEF GlobalsNow, Stacked
  <2>2. Height(items', K + 1) - ((L + 1) - e) = Height(items, a)
    <3>1. Height(items, a) = Height(items, K) - (L - e)
      BY <2>1 DEF PushedAt
    <3> HIDE DEF K, L
    <3> QED
      BY <1>1, <1>2, <3>1
  <2>3. (L + 1) - e \in Nat /\ a \in 1..(K + 1)
    BY <1>1
  <2>4. PushedAt(items', a, (L + 1) - e, s[e])
    BY <1>3, <2>1, <2>2, <2>3, PushedKept
  <2> QED
    BY <2>3, <2>4
<1>7. PushedAt(items', K + 1, 0, globalState)
  <2>1. K + 1 \in Pushes(items')
    BY <1>1 DEF Pushes
  <2>2. globalState = Latest(items', Effective(items', K + 1))
    <3>1. K + 1 \in 0..(K + 1)
      BY <1>1
    <3> QED
      BY <3>1, EffectiveKept DEF GlobalsNow
  <2>3. Height(items', K + 1) \in Int
    BY <1>1, DepthType
  <2> HIDE DEF K
  <2>4. /\ \A j \in (K + 1)..(K + 1) : j = K + 1
        /\ \A q \in (K + 1 + 1)..(K + 1) : FALSE
    BY <1>1
  <2>5. Height(items', K + 1) = Height(items', K + 1) - 0
    BY <2>3
  <2>6. \A j \in (K + 1)..(K + 1) : Height(items', j) >= Height(items', K + 1)
    BY <2>3, <2>4
  <2> QED
    BY <1>1, <2>1, <2>2, <2>4, <2>5, <2>6 DEF PushedAt
<1>8. ASSUME NEW e \in 1..(L + 1)
      PROVE  \E a \in 1..(K + 1) : PushedAt(items', a, (L + 1) - e, t[e])
  <2>1. CASE e = L + 1
    <3>1. (L + 1) - e = 0 /\ K + 1 \in 1..(K + 1)
      BY <1>1, <2>1
    <3> QED
      BY <1>4, <1>7, <2>1, <3>1
  <2>2. CASE e # L + 1
    <3>1. e \in 1..L
      BY <1>1, <2>2
    <3> QED
      BY <1>4, <1>6, <3>1
  <2> QED
    BY <2>1, <2>2
<1> QED
  BY <1>1, <1>4, <1>5, <1>8 DEF Stacked

(* A POP with nothing on the stack answers no PUSH.                        *)
LEMMA PopOfNothing ==
  ASSUME Shape, GlobalsNow, NEW item \in Items, Load(item), IsPop(item),
         globalItemTableStack = <<>>
  PROVE  /\ Stacked(items', <<>>)
         /\ Latest(items', Effective(items', Len(items) + 1 + 1)) = <<>>
<1> DEFINE K == Len(items)
<1>1. K \in Nat /\ Len(items') = K + 1 /\ items'[K + 1] = item
  BY LoadFacts DEF Shape
<1>2. Height(items', K + 1) = Height(items, K) - 1 /\ Height(items, K) \in Int
  BY <1>1, DepthNext, DepthType
<1>3. \A j \in 0..K : Height(items, j) >= Height(items, K) - 0
  BY DEF GlobalsNow, Stacked
<1>4. \A j \in 0..(K + 1) : Height(items', j) >= Height(items', K + 1) - 0
  <2>1. Height(items', K + 1) - 0 <= Height(items, K) - 0 /\ 0 \in Nat
    BY <1>2
  <2> QED
    BY <1>3, <2>1, HeightsBounded
<1>5. Stacked(items', <<>>)
  BY <1>1, <1>4 DEF Stacked
<1>6. Restores(items', K + 1) = 0
  <2>1. Restores(items', K + 1) = Restores(items, K + 1)
    <3>1. K + 1 \in 1..(K + 1)
      BY <1>1
    <3> QED
      BY <3>1, RestoresKept
  <2>2. \A j \in 0..((K + 1) - 1) :
          Bal(Pushes(items), Pops(items), j)
            >= Bal(Pushes(items), Pops(items), (K + 1) - 1)
    <3>1. (K + 1) - 1 = K
      BY <1>1
    <3>2. \A j \in 0..K : Height(items, j) >= Height(items, K)
      BY <1>2, <1>3
    <3> QED
      BY <3>1, <3>2 DEF Height
  <2>3. K + 1 \in Nat /\ Pushes(items) \cap Pops(items) = {}
    BY <1>1, PlacesApart
  <2>4. Innermost(Pushes(items), Pops(items), K + 1) = 0
    BY <2>2, <2>3, InnermostNone
  <2> QED
    BY <2>1, <2>4 DEF Restores
<1>7. Effective(items', K + 1 + 1) = {}
  <2>1. K + 1 \in Nat /\ K + 1 >= 1
    BY <1>1
  <2>2. Effective(items', K + 1 + 1)
          = {j \in Effective(items', K + 1) : Restores(items', K + 1) > j}
    BY <1>1, <2>1, EffectiveNext
  <2>3. \A j \in Effective(items', K + 1) : ~(0 > j)
    BY DEF Effective
  <2> QED
    BY <1>6, <2>2, <2>3
<1> QED
  BY <1>5, <1>7, LatestOfNone

(* A POP restores the table of the PUSH it answers.                        *)
LEMMA PopOfPush ==
  ASSUME Shape, GlobalsNow, NEW item \in Items, Load(item), IsPop(item),
         globalItemTableStack # <<>>
  PROVE  /\ Stacked(items', Front(globalItemTableStack))
         /\ Latest(items', Effective(items', Len(items) + 1 + 1))
              = Last(globalItemTableStack)
<1> DEFINE K == Len(items)
           s == globalItemTableStack
           L == Len(s)
<1>1. /\ K \in Nat /\ Len(items') = K + 1 /\ items'[K + 1] = item
      /\ \A j \in 1..K : items'[j] = items[j]
  BY LoadFacts DEF Shape
<1>2. /\ L \in Nat /\ L >= 1 /\ Last(s) = s[L] /\ Len(Front(s)) = L - 1
      /\ \A e \in 1..(L - 1) : Front(s)[e] = s[e]
  <2>1. s \in Seq(Tables)
    BY DEF Shape
  <2> QED
    BY <2>1, PopFacts
<1>3. Height(items', K + 1) = Height(items, K) - 1 /\ Height(items, K) \in Int
  BY <1>1, DepthNext, DepthType
<1>4. \A j \in 0..(K + 1) : Height(items', j) >= Height(items', K + 1) - (L - 1)
  <2>1. \A j \in 0..K : Height(items, j) >= Height(items, K) - L
    BY DEF GlobalsNow, Stacked
  <2>2. /\ Height(items', K + 1) - (L - 1) <= Height(items, K) - L
        /\ L - 1 \in Nat
    BY <1>2, <1>3
  <2> QED
    BY <1>2, <2>1, <2>2, HeightsBounded
<1>5. PICK a \in 1..K : PushedAt(items, a, L - L, s[L])
  BY <1>2 DEF GlobalsNow, Stacked
<1>6. /\ a \in Pushes(items) /\ Height(items, a) = Height(items, K)
      /\ \A j \in a..K : Height(items, j) >= Height(items, a)
      /\ s[L] = Latest(items, Effective(items, a))
      /\ \A q \in (a + 1)..K :
           IsPop(items[q]) => Restores(items, q) \in (a + 1)..(q - 1)
  <2>1. Height(items, K) - (L - L) = Height(items, K)
    BY <1>2, <1>3
  <2> QED
    BY <1>5, <2>1 DEF PushedAt
<1>7. Restores(items, K + 1) = a /\ Restores(items', K + 1) = a
  <2>1. K + 1 \in Nat /\ (K + 1) - 1 = K /\ a \in 0..((K + 1) - 1)
    BY <1>1
  <2>2. Pushes(items) \cap Pops(items) = {}
    BY PlacesApart
  <2>3. /\ Bal(Pushes(items), Pops(items), a)
             = Bal(Pushes(items), Pops(items), (K + 1) - 1)
        /\ \A j \in a..((K + 1) - 1) :
             Bal(Pushes(items), Pops(items), j)
               >= Bal(Pushes(items), Pops(items), a)
    BY <1>6, <2>1 DEF Height
  <2>4. Innermost(Pushes(items), Pops(items), K + 1) = a
    BY <1>6, <2>1, <2>2, <2>3, InnermostIs
  <2>5. K + 1 \in 1..(K + 1)
    BY <1>1
  <2> QED
    BY <2>4, <2>5, RestoresKept DEF Restores
<1>8. ASSUME NEW e \in 1..(L - 1)
      PROVE  \E b \in 1..(K + 1) : PushedAt(items', b, (L - 1) - e, s[e])
  <2>1. e \in 1..L
    BY <1>2
  <2>2. PICK b \in 1..K : PushedAt(items, b, L - e, s[e])
    BY <2>1 DEF GlobalsNow, Stacked
  <2>3. /\ Height(items, b) = Height(items, K) - (L - e)
        /\ \A j \in b..K : Height(items, j) >= Height(items, b)
    BY <2>2 DEF PushedAt
  <2>4. Height(items', K + 1) - ((L - 1) - e) = Height(items, b)
    <3> HIDE DEF K, L
    <3> QED
      BY <1>2, <1>3, <2>3
  <2>5. b < a
    <3>1. Height(items, b) < Height(items, a)
      <4> HIDE DEF K, L
      <4> QED
        BY <1>2, <1>3, <1>6, <2>3
    <3>2. Height(items, b) \in Int /\ Height(items, a) \in Int
      BY <1>1, DepthType
    <3>3. ~(b \in a..K)
      BY <1>6, <3>1, <3>2
    <3> QED
      BY <1>1, <3>3
  <2>6. (L - 1) - e \in Nat /\ b \in 1..(K + 1) /\ a \in (b + 1)..K
    BY <1>1, <1>2, <2>5
  <2>7. PushedAt(items', b, (L - 1) - e, s[e])
    BY <1>7, <2>2, <2>4, <2>6, PushedKept
  <2> QED
    BY <2>6, <2>7
<1>9. Stacked(items', Front(s))
  BY <1>1, <1>2, <1>4, <1>8 DEF Stacked
<1>10. Effective(items', K + 1 + 1) = Effective(items, a)
  <2>1. K + 1 \in Nat /\ K + 1 >= 1 /\ K + 1 \in 0..(K + 1) /\ (K + 1) - 1 = K
    BY <1>1
  <2>2. Effective(items', K + 1 + 1)
          = {j \in Effective(items', K + 1) : Restores(items', K + 1) > j}
    BY <1>1, <2>1, EffectiveNext
  <2>3. Effective(items', K + 1) = Effective(items, K + 1)
    BY <2>1, EffectiveKept
  <2>4. {j \in Effective(items, K + 1) : a > j} = Effective(items, a)
    <3>1. a \in 1..((K + 1) - 1) /\ IsPush(items[a])
      BY <1>6, <2>1 DEF Pushes
    <3>2. \A q \in (a + 1)..((K + 1) - 1) :
            IsPop(items[q]) => Restores(items, q) \in (a + 1)..(q - 1)
      BY <1>6, <2>1
    <3> QED
      BY <2>1, <3>1, <3>2, EffectiveBefore
  <2> QED
    BY <1>7, <2>2, <2>3, <2>4
<1>11. Latest(items', Effective(items, a)) = Latest(items, Effective(items, a))
  <2>1. \A j \in Effective(items, a) : items'[j] = items[j]
    BY <1>1 DEF Effective
  <2> QED
    BY <2>1, LatestSame
<1> QED
  BY <1>2, <1>6, <1>9, <1>10, <1>11

LEMMA GlobalsInit == Init => GlobalsNow
<1> SUFFICES ASSUME Init
             PROVE  GlobalsNow
  OBVIOUS
<1>1. /\ Len(nodes) = 1 /\ Len(items) = 0 /\ globalState = <<>>
      /\ Len(globalItemTableStack) = 0
  BY DEF Init
<1>2. Effective(items, 0 + 1) = {}
  BY DEF Effective
<1>3. globalState = Latest(items, Effective(items, Len(items) + 1))
  BY <1>1, <1>2, LatestOfNone
<1>4. 2..Len(nodes) = {} /\ 1..Len(globalItemTableStack) = {}
  BY <1>1
<1>5. \A j \in 0..Len(items) :
        Height(items, j)
          >= Height(items, Len(items)) - Len(globalItemTableStack)
  <2>1. Height(items, 0) = 0 /\ \A j \in 0..0 : j = 0
    BY DepthType
  <2> QED
    BY <1>1, <2>1
<1> QED
  BY <1>3, <1>4, <1>5 DEF GlobalsNow, Stacked

LEMMA GlobalsOfKept ==
  ASSUME Shape, NEW item \in Items, Load(item),
         NEW n \in 2..Len(nodes), GlobalsOf(n),
         nodes'[n].item = nodes[n].item, nodes'[n].globals = nodes[n].globals
  PROVE  GlobalsOf(n)'
<1>1. nodes[n].item \in 0..(Len(items) + 1)
  BY DEF Shape
<1>2. Latest(items', Effective(items', nodes[n].item))
        = Latest(items, Effective(items, nodes[n].item))
  BY <1>1, EffectiveKept
<1> QED
  BY <1>2 DEF GlobalsOf

LEMMA GlobalsOfNodes ==
  ASSUME Shape, GlobalsNow, NEW item \in Items, ParseItem(item)
  PROVE  \A n \in 2..Len(nodes') : GlobalsOf(n)'
<1> DEFINE K == Len(items)
           N == Len(nodes)
<1>1. Load(item) /\ K \in Nat /\ N \in Nat
  BY ParseLoads DEF Shape
<1>2. CASE EnterCollection(item) \/ LeaveCollection(item) \/ AddData(item)
  <2>1. AddsNode(item)
    BY <1>2, Adding
  <2>2. /\ Len(nodes') = N + 1
        /\ nodes'[N + 1].item = K + 1
        /\ nodes'[N + 1].globals = globalState
        /\ \A n \in 1..N : /\ nodes'[n].item = nodes[n].item
                           /\ nodes'[n].globals = nodes[n].globals
    BY <2>1, AddNodeFacts DEF AddsNode
  <2>3. globalState = Latest(items', Effective(items', K + 1))
    <3>1. K + 1 \in 0..(K + 1)
      BY <1>1
    <3> QED
      BY <1>1, <3>1, EffectiveKept DEF GlobalsNow
  <2>4. ASSUME NEW n \in 2..(N + 1)
        PROVE  GlobalsOf(n)'
    <3>1. CASE n = N + 1
      BY <2>2, <2>3, <3>1 DEF GlobalsOf
    <3>2. CASE n # N + 1
      <4>1. n \in 2..N /\ n \in 1..N
        BY <1>1, <3>2
      <4>2. GlobalsOf(n)
        BY <4>1 DEF GlobalsNow
      <4> QED
        BY <1>1, <2>2, <4>1, <4>2, GlobalsOfKept
    <3> QED
      BY <3>1, <3>2
  <2> QED
    BY <2>2, <2>4
<1>3. CASE AddToNothing(item) \/ Push(item) \/ Pop(item) \/ SetGlobal(item)
           \/ SetLocal(item) \/ SkipReserved(item)
  <2>1. nodes' = nodes
    BY <1>3 DEF AddToNothing, Push, Pop, SetGlobal, SetLocal, SkipReserved
  <2> QED
    BY <1>1, <2>1, GlobalsOfKept DEF GlobalsNow
<1> QED
  BY <1>2, <1>3 DEF ParseItem

LEMMA GlobalsParse ==
  ASSUME Shape, GlobalsNow, NEW item \in Items, ParseItem(item)
  PROVE  GlobalsNow'
<1> DEFINE K == Len(items)
<1>1. Load(item)
  BY ParseLoads
<1>2. K \in Nat /\ Len(items') = K + 1 /\ items'[K + 1] = item
  BY <1>1, LoadFacts DEF Shape
<1>3. \A n \in 2..Len(nodes') : GlobalsOf(n)'
  BY GlobalsOfNodes
<1>4. globalState = Latest(items', Effective(items', K + 1))
  <2>1. K + 1 \in 0..(K + 1)
    BY <1>2
  <2> QED
    BY <1>1, <2>1, EffectiveKept DEF GlobalsNow
<1>5. /\ Settable(item) =>
           Effective(items', K + 1 + 1) = Effective(items', K + 1) \cup {K + 1}
      /\ ~Settable(item) /\ ~IsPop(item) =>
           Effective(items', K + 1 + 1) = Effective(items', K + 1)
  <2>1. K + 1 \in Nat /\ K + 1 >= 1
    BY <1>2
  <2> QED
    BY <1>2, <2>1, EffectiveNext
<1> SUFFICES /\ globalState' = Latest(items', Effective(items', K + 1 + 1))
             /\ Stacked(items', globalItemTableStack')
  BY <1>2, <1>3 DEF GlobalsNow
<1>6. CASE \/ EnterCollection(item) \/ LeaveCollection(item) \/ AddData(item)
           \/ AddToNothing(item) \/ SetLocal(item) \/ SkipReserved(item)
  <2>1. /\ globalState' = globalState
        /\ globalItemTableStack' = globalItemTableStack
        /\ ~IsPush(item) /\ ~IsPop(item) /\ ~Settable(item)
    BY <1>6 DEF EnterCollection, LeaveCollection, AddData, AddToNothing,
       SetLocal, SkipReserved, IsCollection, IsEndCollection, IsPush, IsPop,
       Settable, TypeMain, TypeGlobal, TypeLocal
  <2> QED
    BY <1>1, <1>4, <1>5, <2>1, StackedStays
<1>7. CASE Push(item)
  <2>1. /\ globalState' = globalState /\ IsPush(item)
        /\ globalItemTableStack' = Append(globalItemTableStack, globalState)
    BY <1>7 DEF Push
  <2>2. ~Settable(item) /\ ~IsPop(item)
    BY <2>1 DEF Settable, IsPush, IsPop, PUSH, POP
  <2> QED
    BY <1>1, <1>4, <1>5, <2>1, <2>2, StackedPush
<1>8. CASE Pop(item)
  <2>1. CASE globalItemTableStack = <<>>
    <3>1. IsPop(item) /\ globalState' = <<>> /\ globalItemTableStack' = <<>>
      BY <1>8, <2>1 DEF Pop
    <3> QED
      BY <1>1, <2>1, <3>1, PopOfNothing
  <2>2. CASE globalItemTableStack # <<>>
    <3>1. /\ IsPop(item) /\ globalState' = Last(globalItemTableStack)
          /\ globalItemTableStack' = Front(globalItemTableStack)
      BY <1>8, <2>2 DEF Pop
    <3> QED
      BY <1>1, <2>2, <3>1, PopOfPush
  <2> QED
    BY <2>1, <2>2
<1>9. CASE SetGlobal(item)
  <2>1. /\ globalState' = Put(globalState, item.tag, K + 1)
        /\ globalItemTableStack' = globalItemTableStack
        /\ ~IsPush(item) /\ ~IsPop(item) /\ Settable(item)
    BY <1>2, <1>9 DEF SetGlobal, Settable
  <2>2. /\ Effective(items', K + 1) \in SUBSET (1..((K + 1) - 1))
        /\ K + 1 \in Nat
    BY <1>2 DEF Effective
  <2>3. Latest(items', Effective(items', K + 1) \cup {K + 1})
          = Put(globalState, item.tag, K + 1)
    BY <1>2, <1>4, <2>2, LatestAdd
  <2> QED
    BY <1>1, <1>5, <2>1, <2>3, StackedStays
<1> QED
  BY <1>6, <1>7, <1>8, <1>9 DEF ParseItem

LEMMA GlobalsStep ==
  ASSUME Shape, GlobalsNow, [Next]_vars
  PROVE  GlobalsNow'
<1>1. ASSUME UNCHANGED <<items, nodes, globalState, globalItemTableStack>>
      PROVE  GlobalsNow'
  BY <1>1 DEF GlobalsNow, GlobalsOf
<1>2. CASE UNCHANGED vars
  BY <1>1, <1>2 DEF vars
<1>3. CASE \E res \in 0..MaxSize : Fetch(res)
  BY <1>1, <1>3 DEF Fetch
<1>4. CASE FetchFails
  BY <1>1, <1>4 DEF FetchFails
<1>5. CASE \E item \in Items : item.start = i /\ ParseItem(item)
  BY <1>5, GlobalsParse
<1> QED
  BY <1>2, <1>3, <1>4, <1>5, NextCases

LEMMA GlobalsMeaning ==
  ASSUME Shape, GlobalsNow
  PROVE  GlobalsInEffect
<1> SUFFICES ASSUME NEW n \in 2..Len(nodes)
             PROVE  nodes[n].globals
                      = LastByTag({j \in 1..(nodes[n].item - 1) :
                                     InEffect(j, nodes[n].item)})
  BY DEF GlobalsInEffect
<1> DEFINE k == nodes[n].item
<1>1. k \in 0..Len(items) /\ Len(items) \in Nat
  BY DEF Shape
<1>2. \A q \in 1..(k - 1) : Enclosing(IsPush, IsPop, q) = Restores(items, q)
  <2>1. \A q \in 1..(k - 1) : q \in 1..(Len(items) + 1)
    BY <1>1
  <2> QED
    BY <2>1, EnclosingIs DEF Restores
<1>3. {j \in 1..(k - 1) : InEffect(j, k)} = Effective(items, k)
  <2>1. ASSUME NEW j \in 1..(k - 1)
        PROVE  InEffect(j, k)
                 <=> /\ Settable(items[j])
                     /\ \A q \in (j + 1)..(k - 1) :
                          IsPop(items[q]) => Restores(items, q) > j
    <3>1. \A q \in (j + 1)..(k - 1) : q \in 1..(k - 1)
      BY <1>1
    <3>2. \A q \in (j + 1)..(k - 1) :
            Enclosing(IsPush, IsPop, q) = Restores(items, q)
      BY <1>2, <3>1
    <3> QED
      BY <3>2 DEF InEffect, Settable
  <2> QED
    BY <2>1 DEF Effective
<1>4. nodes[n].globals = Latest(items, Effective(items, k))
  BY DEF GlobalsNow, GlobalsOf
<1> QED
  BY <1>3, <1>4, LatestIs

-----------------------------------------------------------------------------
(* The inductive invariant: the shape of the state, the layout of the      *)
(* items, the tables, which are those in effect after the last item, and   *)
(* the nesting, which holds of the node the parser stands on as well.      *)
Inv == Shape /\ Tiles /\ LocalsNow /\ Nest /\ Kin /\ GlobalsNow

(* Inv holds throughout the parsing of any descriptor.                     *)
THEOREM InductiveInvariant == Spec => []Inv
<1>1. Init => Inv
  BY ShapeInit, TilesInit, LocalsInit, NestInit, KinInit, GlobalsInit DEF Inv
<1>2. Inv /\ [Next]_vars => Inv'
  BY ShapeStep, TilesStep, LocalsStep, NestStep, KinStep, GlobalsStep DEF Inv
<1> QED
  BY <1>1, <1>2, PTL DEF Spec

(* Every variable keeps its type: the tables name items that have been     *)
(* read, and the nodes point to nodes that exist, parents to the earlier   *)
(* and children to the later (ReportTree::Impl, hidreport.cpp).            *)
THEOREM TypeCorrect == Spec => []TypeOK
<1>1. Inv => TypeOK
  BY ShapeMeaning DEF Inv
<1> QED
  BY <1>1, InductiveInvariant, PTL

(* A node has the local items since the main item before it and no others, *)
(* the last one of each tag (getLocalItems, hidreport.h).                  *)
THEOREM NodesHaveTheirLocals == Spec => []LocalsSinceMain
<1>1. Inv => LocalsSinceMain
  BY LocalsNowMeaning DEF Inv
<1> QED
  BY <1>1, InductiveInvariant, PTL

(* A node has the global items in effect at its item, whatever PUSH and    *)
(* POP did before, balanced or not (getGlobalItems, hidreport.h).          *)
THEOREM NodesHaveTheirGlobals == Spec => []GlobalsInEffect
<1>1. Inv => GlobalsInEffect
  BY GlobalsMeaning DEF Inv
<1> QED
  BY <1>1, InductiveInvariant, PTL

(* The tree is the nesting of the collections: the parent of a node is the *)
(* innermost collection open at its item, and its children are, in order,  *)
(* the nodes of which it is the parent (getParent and getChildren).        *)
THEOREM TreeIsTheNesting == Spec => []TreeMatchesNesting
<1>1. Inv => TreeMatchesNesting
  BY NestMeaning DEF Inv
<1> QED
  BY <1>1, InductiveInvariant, PTL

(* The parser loses its node, and dereferences a null pointer at the next  *)
(* main item, only by a descriptor that ends more collections than it has  *)
(* begun, and then always (lastroot, hidreport.cpp).                       *)
THEOREM NullIsUnbalance == Spec => []NullOnlyWhenUnbalanced
<1>1. Inv => NullOnlyWhenUnbalanced
  BY NullMeaning DEF Inv
<1> QED
  BY <1>1, InductiveInvariant, PTL

-----------------------------------------------------------------------------
(* What a client does with the tree (ReportTree).                          *)

LEMMA TreeStepParses ==
  ASSUME [TreeNext]_treeVars
  PROVE  [Next]_vars
BY DEF TreeNext, treeVars, ClientNext, ReturnTree, DestroyTree, MoveTree,
       GetRoot, GetParent, GetChild, Forget, Point, CopyNode, MoveNode,
       DestroyNode, Settle

(* What the client does leaves the parser alone: the theorems above hold   *)
(* of every behaviour with a client in it.                                 *)
THEOREM ClientsLeaveTheParser == TreeSpec => Spec
<1>1. TreeInit => Init
  BY DEF TreeInit
<1>2. [TreeNext]_treeVars => [Next]_vars
  BY TreeStepParses
<1> QED
  BY <1>1, <1>2, PTL DEF Spec, TreeSpec

(* The nodes of the tree that objects, or the client, may point to.        *)
Alive(f) == DOMAIN f \cap DOMAIN nodes

(* No object of f points to a node that is gone.                           *)
Sound(f) ==
  \A x \in DOMAIN f : PointersOf(f[x]) \ {NoNode} \subseteq Alive(f)

Held(t, p, f) == (Range(t) \cup Range(p)) \ {NoNode} \subseteq Alive(f)

Heap ==
  /\ DOMAIN tree = Trees
  /\ Sound(impl)
  /\ Held(tree, ptr, impl)
  /\ parsed => phase = "parse" /\ ~More
  /\ ~parsed => DOMAIN impl = {}

(* Destruction takes nothing that is still pointed to.                     *)
LEMMA SettleSound ==
  ASSUME NEW t, NEW p, NEW f, Sound(f), Held(t, p, f)
  PROVE  LET g == Restrict(f, Survivors(f, Range(t) \cup Range(p)))
         IN Sound(g) /\ Held(t, p, g)
<1> DEFINE W == Range(t) \cup Range(p)
           V == Survivors(f, W)
           g == Restrict(f, V)
           Kept(S) == \A x \in S : \/ x \in Locals \cup W
                                   \/ \E y \in S : x \in PointersOf(f[y])
<1>1. V = UNION {S \in SUBSET DOMAIN f : Kept(S)}
  BY DEF Survivors
<1> HIDE DEF V, W
<1>2. V \subseteq DOMAIN f
  <2> HIDE DEF Kept
  <2> QED
    BY <1>1
<1>3. DOMAIN g = V /\ \A x \in V : g[x] = f[x]
  BY DEF Restrict
<1>4. ASSUME NEW z \in DOMAIN f, z \in W
      PROVE  z \in V
  <2>1. Kept({z})
    BY <1>4
  <2> HIDE DEF Kept
  <2>2. {z} \in {S \in SUBSET DOMAIN f : Kept(S)}
    BY <2>1
  <2> QED
    BY <1>1, <2>2
<1>5. ASSUME NEW x \in V, NEW z \in DOMAIN f, z \in PointersOf(f[x])
      PROVE  z \in V
  <2>1. PICK S \in SUBSET DOMAIN f : Kept(S) /\ x \in S
    <3> HIDE DEF Kept
    <3> QED
      BY <1>1
  <2>2. Kept(S \cup {z})
    BY <1>5, <2>1
  <2> HIDE DEF Kept
  <2>3. S \cup {z} \in {R \in SUBSET DOMAIN f : Kept(R)}
    BY <2>1, <2>2
  <2> QED
    BY <1>1, <2>3
<1> HIDE DEF g, Kept
<1>6. Sound(g)
  <2> SUFFICES ASSUME NEW x \in V, NEW z \in PointersOf(f[x]), z # NoNode
               PROVE  z \in V /\ z \in DOMAIN nodes
    BY <1>3 DEF Sound, Alive
  <2>1. z \in DOMAIN f /\ z \in DOMAIN nodes
    BY <1>2 DEF Sound, Alive
  <2> QED
    BY <1>5, <2>1
<1>7. Held(t, p, g)
  BY <1>3, <1>4 DEF Held, Alive, W
<1> QED
  BY <1>6, <1>7 DEF g, V, W

LEMMA SettleHeap ==
  ASSUME NEW t, NEW p, NEW f, Sound(f), Held(t, p, f), DOMAIN t = Trees,
         Heap, Settle(t, p, f)
  PROVE  Heap'
<1>1. /\ tree' = t /\ ptr' = p /\ nodes' = nodes /\ phase' = phase
      /\ i' = i /\ size' = size /\ parsed /\ parsed' = parsed
      /\ impl' = Restrict(f, Survivors(f, Range(t) \cup Range(p)))
  BY DEF Settle, vars
<1>2. Sound(impl') /\ Held(t, p, impl')
  BY <1>1, SettleSound
<1> QED
  BY <1>1, <1>2 DEF Heap, Sound, Held, Alive, More

(* The client names only what exists.                                      *)
LEMMA NamedExist ==
  ASSUME Heap, NEW y \in Named
  PROVE  y \in DOMAIN impl
BY DEF Heap, Held, Alive, Named

LEMMA PutSound ==
  ASSUME NEW f, Sound(f), NEW x, NEW body,
         PointersOf(body) \ {NoNode} \subseteq Alive(f)
  PROVE  Sound(Put(f, x, body)) /\ Alive(f) \subseteq Alive(Put(f, x, body))
<1> DEFINE g == Put(f, x, body)
<1>1. /\ DOMAIN g = DOMAIN f \cup {x} /\ g[x] = body
      /\ \A y \in DOMAIN f : y # x => g[y] = f[y]
  BY DEF Put
<1> HIDE DEF g
<1>2. Alive(f) \subseteq Alive(g)
  BY <1>1 DEF Alive
<1>3. Sound(g)
  BY <1>1, <1>2 DEF Sound
<1> QED
  BY <1>2, <1>3 DEF g

LEMMA PointHeap ==
  ASSUME Heap, NEW p, NEW n, n = NoNode \/ n \in Alive(impl), Point(p, n)
  PROVE  Heap'
<1>1. Range([ptr EXCEPT ![p] = n]) \subseteq Range(ptr) \cup {n}
  BY DEF Range
<1>2. Held(tree, [ptr EXCEPT ![p] = n], impl)
  BY <1>1 DEF Heap, Held
<1> QED
  BY <1>2, SettleHeap DEF Heap, Point

LEMMA HeapInit == TreeInit => Heap
BY DEF TreeInit, Heap, Sound, Held, Alive, Range

LEMMA ReturnHeap ==
  ASSUME Inv, Heap, NEW t \in Trees, ReturnTree(t)
  PROVE  Heap'
<1>1. /\ parsed' /\ tree' = [tree EXCEPT ![t] = Root] /\ ptr' = ptr
      /\ impl' = [n \in DOMAIN nodes |-> Body(n)]
      /\ UNCHANGED vars /\ ~parsed /\ phase = "parse" /\ ~More
  BY DEF ReturnTree
<1>2. DOMAIN nodes = 1..Len(nodes) /\ Len(nodes) \in Nat /\ Len(nodes) >= 1
  BY DEF Inv, Shape
<1>3. nodes' = nodes /\ Alive(impl') = DOMAIN nodes
  BY <1>1 DEF Alive, vars
<1>4. ASSUME NEW n \in DOMAIN nodes
      PROVE  PointersOf(Body(n)) \ {NoNode} \subseteq DOMAIN nodes
  <2>1. nodes[n].parent \in NoNode..(n - 1)
    BY <1>4 DEF Inv, Shape
  <2>2. Range(nodes[n].children) \subseteq DOMAIN nodes
    BY <1>2, <1>4 DEF Inv, Kin
  <2>3. PointersOf(Body(n))
          \subseteq Range(nodes[n].children) \cup {nodes[n].parent}
    BY DEF PointersOf, Body
  <2>4. nodes[n].parent = NoNode \/ nodes[n].parent \in DOMAIN nodes
    BY <1>2, <1>4, <2>1 DEF NoNode
  <2> QED
    BY <2>2, <2>3, <2>4
<1>5. Sound(impl)'
  BY <1>1, <1>3, <1>4 DEF Sound, Alive
<1>6. Held(tree, ptr, impl)'
  <2>1. Alive(impl) = {}
    BY <1>1 DEF Heap, Alive
  <2>2. /\ Range(tree) \subseteq {NoNode} /\ Range(ptr) \subseteq {NoNode}
    BY <2>1 DEF Heap, Held
  <2>3. Range(tree') \subseteq Range(tree) \cup {Root}
    BY <1>1 DEF Range
  <2>4. Root \in DOMAIN nodes
    BY <1>2 DEF Root
  <2> QED
    BY <1>1, <1>3, <2>2, <2>3, <2>4 DEF Held, Alive
<1>7. DOMAIN tree' = Trees /\ phase' = "parse" /\ ~More'
  BY <1>1 DEF Heap, More, vars
<1> QED
  BY <1>1, <1>5, <1>6, <1>7 DEF Heap

LEMMA ClientHeap ==
  ASSUME Inv, Heap, ClientNext
  PROVE  Heap'
<1>1. ASSUME NEW t \in Trees, ReturnTree(t)
      PROVE  Heap'
  BY <1>1, ReturnHeap
<1>2. ASSUME NEW t \in Trees, DestroyTree(t)
      PROVE  Heap'
  <2> DEFINE u == [tree EXCEPT ![t] = NoNode]
  <2>1. Range(u) \subseteq Range(tree) \cup {NoNode} /\ DOMAIN u = Trees
    BY DEF Range, Heap
  <2>2. Held(u, ptr, impl)
    BY <2>1 DEF Heap, Held
  <2> QED
    BY <1>2, <2>1, <2>2, SettleHeap DEF Heap, DestroyTree
<1>3. ASSUME NEW t \in Trees, NEW u \in Trees, MoveTree(t, u)
      PROVE  Heap'
  <2> DEFINE w == [tree EXCEPT ![t] = tree[u], ![u] = NoNode]
  <2>1. Range(w) \subseteq Range(tree) \cup {NoNode} /\ DOMAIN w = Trees
    BY DEF Range, Heap
  <2>2. Held(w, ptr, impl)
    BY <2>1 DEF Heap, Held
  <2> QED
    BY <1>3, <2>1, <2>2, SettleHeap DEF Heap, MoveTree
<1>4. ASSUME NEW p \in Ptrs, NEW t \in Trees, GetRoot(p, t)
      PROVE  Heap'
  <2>1. tree[t] \in Range(tree)
    BY DEF Heap, Range
  <2>2. tree[t] = NoNode \/ tree[t] \in Alive(impl)
    BY <2>1 DEF Heap, Held
  <2> QED
    BY <1>4, <2>2, PointHeap DEF GetRoot
<1>5. ASSUME NEW p \in Ptrs, NEW x \in Named,
             GetParent(p, x) \/ GetChild(p, x)
      PROVE  Heap'
  <2>1. x \in Readable /\ x \in DOMAIN impl /\ impl[x] # NULL
    BY <1>5, NamedExist DEF GetParent, GetChild, Readable
  <2>2. PointersOf(impl[x]) = impl[x].children \cup {impl[x].parent}
    BY <2>1 DEF PointersOf
  <2>3. \A n \in impl[x].children \cup {impl[x].parent} :
          n = NoNode \/ n \in Alive(impl)
    BY <2>1, <2>2 DEF Heap, Sound
  <2> QED
    BY <1>5, <2>3, PointHeap DEF GetParent, GetChild
<1>6. ASSUME NEW p \in Ptrs, Forget(p)
      PROVE  Heap'
  BY <1>6, PointHeap DEF Forget
<1>7. ASSUME NEW x \in Locals \cup Named, NEW y \in Named, CopyNode(x, y)
      PROVE  Heap'
  <2>1. PointersOf(impl[y]) \ {NoNode} \subseteq Alive(impl)
    BY NamedExist DEF Heap, Sound
  <2>2. /\ Sound(Put(impl, x, impl[y]))
        /\ Alive(impl) \subseteq Alive(Put(impl, x, impl[y]))
    BY <2>1, PutSound DEF Heap
  <2>3. Held(tree, ptr, Put(impl, x, impl[y]))
    BY <2>2 DEF Heap, Held
  <2> QED
    BY <1>7, <2>2, <2>3, SettleHeap DEF Heap, CopyNode
<1>8. ASSUME NEW x \in Locals \cup Named, NEW y \in Named, MoveNode(x, y)
      PROVE  Heap'
  <2> DEFINE f == Put(impl, y, NULL)
  <2>1. PointersOf(impl[y]) \ {NoNode} \subseteq Alive(impl)
    BY NamedExist DEF Heap, Sound
  <2>2. PointersOf(NULL) \ {NoNode} \subseteq Alive(impl)
    BY DEF PointersOf
  <2>3. Sound(f) /\ Alive(impl) \subseteq Alive(f)
    BY <2>2, PutSound DEF Heap
  <2> HIDE DEF f
  <2>4. /\ Sound(Put(f, x, impl[y]))
        /\ Alive(f) \subseteq Alive(Put(f, x, impl[y]))
    BY <2>1, <2>3, PutSound
  <2>5. Held(tree, ptr, Put(f, x, impl[y]))
    BY <2>3, <2>4 DEF Heap, Held
  <2> QED
    BY <1>8, <2>4, <2>5, SettleHeap DEF Heap, MoveNode, f
<1>9. ASSUME NEW x \in Locals, DestroyNode(x)
      PROVE  Heap'
  <2> DEFINE f == Restrict(impl, DOMAIN impl \ {x})
  <2>1. x \notin DOMAIN nodes
    <3>1. \A n \in DOMAIN nodes : n \in Nat
      BY DEF Inv, Shape
    <3> QED
      BY <3>1, ClientAssumption
  <2>2. DOMAIN f = DOMAIN impl \ {x} /\ \A y \in DOMAIN f : f[y] = impl[y]
    BY DEF Restrict
  <2> HIDE DEF f
  <2>3. Alive(f) = Alive(impl)
    BY <2>1, <2>2 DEF Alive
  <2>4. Sound(f) /\ Held(tree, ptr, f)
    BY <2>2, <2>3 DEF Heap, Sound, Held
  <2> QED
    BY <1>9, <2>4, SettleHeap DEF Heap, DestroyNode, f
<1> QED
  BY <1>1, <1>2, <1>3, <1>4, <1>5, <1>6, <1>7, <1>8, <1>9 DEF ClientNext

(* The parser has nothing left to do once the tree has been returned.      *)
LEMMA ParserHeap ==
  ASSUME Heap, Next, UNCHANGED clientVars
  PROVE  Heap'
<1>1. ~parsed
  BY DEF Heap, Next, Fetch, FetchFails, ParseItem, EnterCollection,
     LeaveCollection, AddData, AddToNothing, Push, Pop, SetGlobal, SetLocal,
     SkipReserved, Load
<1> QED
  BY <1>1 DEF Heap, clientVars, Sound, Held, Alive

LEMMA HeapStep ==
  ASSUME Inv, Heap, [TreeNext]_treeVars
  PROVE  Heap'
<1>1. CASE UNCHANGED treeVars
  BY <1>1 DEF treeVars, clientVars, vars, Heap, Sound, Held, Alive, More
<1>2. CASE TreeNext
  BY <1>2, ClientHeap, ParserHeap DEF TreeNext
<1> QED
  BY <1>1, <1>2

LEMMA LeastNode ==
  ASSUME NEW S \in SUBSET Nat, S # {}
  PROVE  \E x \in S : \A y \in S : ~(y < x)
<1>1. PICK x \in S : \A y \in S : ~(<<y, x>> \in OpToRel(<, Nat))
  BY NatLessThanWellFounded, WFMin
<1>2. \A y \in S : <<y, x>> \in OpToRel(<, Nat) <=> y < x
  BY DEF OpToRel
<1> QED
  BY <1>1, <1>2

(* From any node the pointers to the parents lead to the root, and from    *)
(* there those to the children lead everywhere.                            *)
LEMMA HeapMeaning ==
  ASSUME Inv, Heap
  PROVE  LivesAsAWhole
<1> DEFINE D == Alive(impl)
<1> SUFFICES ASSUME Untouched, D # {}
             PROVE  D = DOMAIN nodes
  BY DEF LivesAsAWhole, Alive
<1>1. DOMAIN nodes = 1..Len(nodes) /\ Len(nodes) \in Nat
  BY DEF Inv, Shape
<1>2. ASSUME NEW n \in D
      PROVE  /\ nodes[n].parent # NoNode => nodes[n].parent \in D
             /\ Range(nodes[n].children) \ {NoNode} \subseteq D
  <2>1. n \in DOMAIN nodes /\ n \in DOMAIN impl /\ impl[n] = Body(n)
    BY DEF Untouched, Alive
  <2>2. Body(n) \in [parent : Nat, children : SUBSET Nat]
    <3>1. nodes[n] \in Nodes
      BY <2>1 DEF Inv, Shape
    <3>2. nodes[n].parent \in Nat /\ nodes[n].children \in Seq(Nat)
      BY <3>1 DEF Nodes
    <3>3. Range(nodes[n].children) \subseteq Nat
      BY <3>2 DEF Range
    <3> QED
      BY <3>2, <3>3 DEF Body
  <2>3. Body(n) # NULL
    BY <2>2, ClientAssumption
  <2>4. PointersOf(impl[n])
          = Range(nodes[n].children) \cup {nodes[n].parent}
    BY <2>1, <2>3 DEF PointersOf, Body
  <2> QED
    BY <2>1, <2>4 DEF Heap, Sound
<1>3. ASSUME NEW n \in 2..Len(nodes)
      PROVE  /\ nodes[n].parent \in 1..(n - 1)
             /\ n \in Range(nodes[nodes[n].parent].children)
  <2>1. nodes[n].parent \in 1..(n - 1)
    BY DEF Inv, Nest, NodeNests
  <2>2. nodes[n].parent \in DOMAIN nodes
    BY <1>1, <2>1
  <2> QED
    BY <2>1, <2>2 DEF Inv, Kin
<1>4. D \subseteq DOMAIN nodes
  BY DEF Alive
<1> HIDE DEF D
<1>5. Root \in D
  <2>1. D \in SUBSET Nat
    BY <1>1, <1>4
  <2>2. PICK x \in D : \A y \in D : ~(y < x)
    BY <2>1, LeastNode
  <2>3. CASE x = Root
    BY <2>3
  <2>4. CASE x # Root
    <3>1. x \in 2..Len(nodes)
      BY <1>1, <1>4, <2>4 DEF Root
    <3>2. nodes[x].parent \in 1..(x - 1)
      BY <1>3, <3>1
    <3>3. nodes[x].parent \in D /\ nodes[x].parent < x
      BY <1>2, <3>1, <3>2 DEF NoNode
    <3> QED
      BY <2>2, <3>3
  <2> QED
    BY <2>3, <2>4
<1>6. ASSUME DOMAIN nodes \ D # {}
      PROVE  FALSE
  <2>1. DOMAIN nodes \ D \in SUBSET Nat
    BY <1>1
  <2>2. PICK m \in DOMAIN nodes \ D : \A y \in DOMAIN nodes \ D : ~(y < m)
    BY <1>6, <2>1, LeastNode
  <2>3. m \in 2..Len(nodes)
    BY <1>1, <1>5, <2>2 DEF Root
  <2> DEFINE p == nodes[m].parent
  <2>4. p \in 1..(m - 1) /\ m \in Range(nodes[p].children)
    BY <1>3, <2>3
  <2> HIDE DEF p
  <2>5. p \in D
    <3>1. p \in DOMAIN nodes /\ p < m
      BY <1>1, <2>3, <2>4
    <3> QED
      BY <2>2, <3>1
  <2>6. m \in D
    BY <1>2, <2>3, <2>4, <2>5 DEF NoNode
  <2> QED
    BY <2>2, <2>6
<1> QED
  BY <1>4, <1>6

(* A tree lives and dies as a whole: while no node of it is overwritten, a *)
(* client that holds any node can walk to every other, whatever trees and  *)
(* nodes it has moved, copied and destroyed meanwhile.                     *)
THEOREM TreesLiveAsAWhole == TreeSpec => []LivesAsAWhole
<1>1. TreeInit => Heap
  BY HeapInit
<1>2. Inv /\ Heap /\ [TreeNext]_treeVars => Heap'
  BY HeapStep
<1>3. Inv /\ Heap => LivesAsAWhole
  BY HeapMeaning
<1> QED
  BY <1>1, <1>2, <1>3, InductiveInvariant, ClientsLeaveTheParser, PTL
  DEF TreeSpec
=============================================================================
