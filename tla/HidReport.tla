----------------------------- MODULE HidReport -----------------------------
(***************************************************************************)
(* HIDDevice::getHidReport (src/src/hiddevice.cpp) and the parser of HID   *)
(* report descriptors behind it (src/src/hidreport.cpp).                   *)
(*                                                                         *)
(* The bytes of the descriptor are chosen as the parser reads them.  An    *)
(* item is named by its position among the items read; a table of global   *)
(* or local items maps a tag to such a position, and the nodes of the tree *)
(* are numbered in the order of their creation, the root being node 1.     *)
(***************************************************************************)
EXTENDS Integers, SequencesExt

CONSTANTS
  FirstBytes, (* first bytes of items                                        *)
  SizeBytes,  (* second bytes of long items                                  *)
  TagBytes,   (* third bytes of long items                                   *)
  MaxSize     (* bound of the model: bytes in a descriptor (4096 in the code) *)

ASSUME ConstantsAssumption ==
  /\ FirstBytes \subseteq 0..255
  /\ SizeBytes  \subseteq 0..255
  /\ TagBytes  \subseteq 0..255
  /\ MaxSize \in Nat

VARIABLES
  phase,        (* "fetch", "parse", "failed" (exception) or "crashed"       *)
  size,         (* buffer.size()                                             *)
  i,            (* offset of the next item                                   *)
  items,        (* the items read so far                                     *)
  nodes,        (* the nodes created so far                                  *)
  lastroot,     (* the node new nodes are added to, NoNode for a null pointer *)
  globalState,  (* tag -> position of the item                               *)
  localState,   (* tag -> position of the item                               *)
  globalItemTableStack

vars == <<phase, size, i, items, nodes, lastroot, globalState, localState,
          globalItemTableStack>>

TypeMain   == 0
TypeGlobal == 1
TypeLocal  == 2
COLLECTION     == 10
END_COLLECTION == 12
PUSH == 10
POP  == 11

NoNode == 0
Root   == 1
RootNode == [item |-> 0, parent |-> NoNode, globals |-> <<>>, locals |-> <<>>,
             children |-> <<>>]

Tables == {<<>>} \cup
  UNION {[S -> 1..Len(items)] : S \in SUBSET {items[k].tag : k \in DOMAIN items}}

TypeOK ==
  /\ phase \in {"fetch", "parse", "failed", "crashed"}
  /\ size \in 0..MaxSize
  /\ i \in Nat
  /\ \A k \in DOMAIN items :
       items[k] \in [start : 0..MaxSize, length : 1..258, type : 0..3,
                     tag : 0..255]
  /\ \A n \in DOMAIN nodes :
       /\ nodes[n].item \in 0..Len(items)
       /\ nodes[n].parent \in NoNode..(n - 1)
       /\ \A m \in DOMAIN nodes[n].children :
            nodes[n].children[m] \in (n + 1)..Len(nodes)
  /\ lastroot \in NoNode..Len(nodes)
  /\ globalState \in Tables
  /\ localState \in Tables
  /\ globalItemTableStack \in Seq(Tables)

Init ==
  /\ phase = "fetch"
  /\ size = 0
  /\ i = 0
  /\ items = <<>>
  /\ nodes = <<RootNode>>
  /\ lastroot = Root
  /\ globalState = <<>>
  /\ localState = <<>>
  /\ globalItemTableStack = <<>>

-----------------------------------------------------------------------------
(* ReportItem::Impl(const uint8_t* ): p, s and t are the bytes data_[0],   *)
(* data_[1] and data_[2].                                                  *)
IsLong(p)      == p \div 16 = 15
ItemType(p)    == (p \div 4) % 4
ItemTag(p, t)  == IF IsLong(p) THEN t ELSE p \div 16

DataSize(p, s) ==
  IF IsLong(p) THEN s ELSE IF p % 4 = 3 THEN 4 ELSE p % 4

ByteLength(p, s) == DataSize(p, s) + (IF IsLong(p) THEN 3 ELSE 1)

Item(p, s, t) ==
  [start |-> i, length |-> ByteLength(p, s), type |-> ItemType(p),
   tag |-> ItemTag(p, t)]

(* std::map::operator[] followed by an assignment.                         *)
Put(table, tag, k) ==
  [g \in DOMAIN table \cup {tag} |-> IF g = tag THEN k ELSE table[g]]

-----------------------------------------------------------------------------
(* getHidReport: a control transfer into a buffer, which is then cut to    *)
(* the bytes received.  realloc() to no bytes at all frees the buffer and  *)
(* returns null; resize() throws, and the destructor frees it again.       *)
Fetch(res) ==
  /\ phase = "fetch"
  /\ size' = res
  /\ phase' = IF res = 0 THEN "crashed" ELSE "parse"
  /\ UNCHANGED <<i, items, nodes, lastroot, globalState, localState,
                 globalItemTableStack>>

FetchFails ==
  /\ phase = "fetch"
  /\ phase' = "failed"
  /\ UNCHANGED <<size, i, items, nodes, lastroot, globalState, localState,
                 globalItemTableStack>>

More == i < size

Load(item) ==
  /\ phase = "parse"
  /\ More
  /\ i' = i + item.length
  /\ items' = Append(items, item)
  /\ UNCHANGED size

-----------------------------------------------------------------------------
(* Mutant of AddNode: lastroot has moved on before the node is made.       *)
AddNodeLate ==
  LET node == [item |-> Len(items'), parent |-> Len(nodes) + 1,
               globals |-> globalState, locals |-> localState,
               children |-> <<>>]
  IN nodes' = Append([nodes EXCEPT ![lastroot].children =
                        Append(@, Len(nodes) + 1)], node)

(* Main items: a node under lastroot, which takes the tables as they are;  *)
(* the local table is then emptied.                                        *)
AddNode ==
  LET node == [item |-> Len(items'), parent |-> lastroot,
               globals |-> globalState, locals |-> localState,
               children |-> <<>>]
  IN nodes' = Append([nodes EXCEPT ![lastroot].children =
                        Append(@, Len(nodes) + 1)], node)

IsCollection(item)    == item.type = TypeMain /\ item.tag = COLLECTION
IsEndCollection(item) == item.type = TypeMain /\ item.tag = END_COLLECTION
IsPush(item)          == item.type = TypeGlobal /\ item.tag = PUSH
IsPop(item)           == item.type = TypeGlobal /\ item.tag = POP

(* Mutant of EnterCollection: only the items of a collection start with an *)
(* empty local table.                                                      *)
EnterKeepingLocals(item) ==
  /\ IsCollection(item)
  /\ lastroot # NoNode
  /\ Load(item)
  /\ AddNode
  /\ lastroot' = Len(nodes')
  /\ UNCHANGED <<phase, localState, globalState, globalItemTableStack>>

EnterCollection(item) ==
  /\ IsCollection(item)
  /\ lastroot # NoNode
  /\ Load(item)
  /\ AddNode
  /\ lastroot' = Len(nodes')
  /\ localState' = <<>>
  /\ UNCHANGED <<phase, globalState, globalItemTableStack>>

(* Mutants of LeaveCollection: the collection is left for the root, not    *)
(* for the one around it; at the root nothing is left.                     *)
LeaveForRoot(item) ==
  /\ IsEndCollection(item)
  /\ lastroot # NoNode
  /\ Load(item)
  /\ AddNode
  /\ lastroot' = IF lastroot = Root THEN NoNode ELSE Root
  /\ localState' = <<>>
  /\ UNCHANGED <<phase, globalState, globalItemTableStack>>

LeaveUnlessRoot(item) ==
  /\ IsEndCollection(item)
  /\ lastroot # NoNode
  /\ Load(item)
  /\ AddNode
  /\ lastroot' = IF lastroot = Root THEN Root ELSE nodes[lastroot].parent
  /\ localState' = <<>>
  /\ UNCHANGED <<phase, globalState, globalItemTableStack>>

(* The end of a collection is a child of the collection.                   *)
LeaveCollection(item) ==
  /\ IsEndCollection(item)
  /\ lastroot # NoNode
  /\ Load(item)
  /\ AddNode
  /\ lastroot' = nodes[lastroot].parent
  /\ localState' = <<>>
  /\ UNCHANGED <<phase, globalState, globalItemTableStack>>

AddData(item) ==
  /\ item.type = TypeMain
  /\ ~IsCollection(item) /\ ~IsEndCollection(item)
  /\ lastroot # NoNode
  /\ Load(item)
  /\ AddNode
  /\ localState' = <<>>
  /\ UNCHANGED <<phase, lastroot, globalState, globalItemTableStack>>

(* A main item after the root has been left: lastroot is a null pointer.   *)
AddToNothing(item) ==
  /\ item.type = TypeMain
  /\ lastroot = NoNode
  /\ Load(item)
  /\ phase' = "crashed"
  /\ UNCHANGED <<nodes, lastroot, globalState, localState,
                 globalItemTableStack>>

-----------------------------------------------------------------------------
(* Global, local and reserved items.                                       *)
Push(item) ==
  /\ IsPush(item)
  /\ Load(item)
  /\ globalItemTableStack' = Append(globalItemTableStack, globalState)
  /\ UNCHANGED <<phase, nodes, lastroot, globalState, localState>>

(* Mutant of Pop: the table is restored and stays on the stack.            *)
Peek(item) ==
  /\ IsPop(item)
  /\ Load(item)
  /\ globalState' = IF globalItemTableStack = <<>> THEN <<>>
                    ELSE Last(globalItemTableStack)
  /\ UNCHANGED <<phase, nodes, lastroot, localState, globalItemTableStack>>

(* POP on an empty stack empties the table.                                *)
Pop(item) ==
  /\ IsPop(item)
  /\ Load(item)
  /\ \/ /\ globalItemTableStack = <<>>
        /\ globalState' = <<>>
        /\ UNCHANGED globalItemTableStack
     \/ /\ globalItemTableStack # <<>>
        /\ globalState' = Last(globalItemTableStack)
        /\ globalItemTableStack' = Front(globalItemTableStack)
  /\ UNCHANGED <<phase, nodes, lastroot, localState>>

SetGlobal(item) ==
  /\ item.type = TypeGlobal
  /\ ~IsPush(item) /\ ~IsPop(item)
  /\ Load(item)
  /\ globalState' = Put(globalState, item.tag, Len(items'))
  /\ UNCHANGED <<phase, nodes, lastroot, localState, globalItemTableStack>>

SetLocal(item) ==
  /\ item.type = TypeLocal
  /\ Load(item)
  /\ localState' = Put(localState, item.tag, Len(items'))
  /\ UNCHANGED <<phase, nodes, lastroot, globalState, globalItemTableStack>>

SkipReserved(item) ==
  /\ item.type \notin {TypeMain, TypeGlobal, TypeLocal}
  /\ Load(item)
  /\ UNCHANGED <<phase, nodes, lastroot, globalState, localState,
                 globalItemTableStack>>

ParseItem(item) ==
  \/ EnterCollection(item)
  \/ LeaveCollection(item)
  \/ AddData(item)
  \/ AddToNothing(item)
  \/ Push(item)
  \/ Pop(item)
  \/ SetGlobal(item)
  \/ SetLocal(item)
  \/ SkipReserved(item)

Next ==
  \/ \E res \in 0..MaxSize : Fetch(res)
  \/ FetchFails
  \/ \E p \in FirstBytes, s \in SizeBytes, t \in TagBytes :
       ParseItem(Item(p, s, t))

Spec == Init /\ [][Next]_vars

-----------------------------------------------------------------------------
(* What the tree should be, said of the items as a whole.                  *)

Count(Kind(_), from, to) ==
  Quantify((from + 1)..(to - 1), LAMBDA k : Kind(items[k]))

(* The last item before k of kind Open that no item of kind Close answers. *)
Unanswered(Open(_), Close(_), k) ==
  {j \in 1..(k - 1) :
     Open(items[j]) /\ Count(Open, j, k) = Count(Close, j, k)}

Enclosing(Open(_), Close(_), k) ==
  LET S == Unanswered(Open, Close, k) IN IF S = {} THEN 0 ELSE Max(S)

(* Item j sets the state of k unless a POP between them restores a state   *)
(* from before j.                                                          *)
InEffect(j, k) ==
  /\ items[j].type = TypeGlobal
  /\ ~IsPush(items[j]) /\ ~IsPop(items[j])
  /\ \A q \in (j + 1)..(k - 1) :
       IsPop(items[q]) => Enclosing(IsPush, IsPop, q) > j

LastByTag(S) ==
  [g \in {items[j].tag : j \in S} |-> Max({j \in S : items[j].tag = g})]

(* hidreport.h: the map of the global items valid for the main item.  It   *)
(* holds, for each tag, the last item set since the state was pushed or    *)
(* cleared, through any nesting of PUSH and POP.                           *)
GlobalsInEffect ==
  \A n \in 2..Len(nodes) :
    nodes[n].globals = LastByTag({j \in 1..(nodes[n].item - 1) :
                                    InEffect(j, nodes[n].item)})

(* hidreport.h: the map of the local items valid for the main item, which  *)
(* are those since the main item before it.                                *)
LocalsSinceMain ==
  \A n \in 2..Len(nodes) :
    nodes[n].locals = LastByTag(
      {j \in 1..(nodes[n].item - 1) :
         /\ items[j].type = TypeLocal
         /\ \A m \in (j + 1)..(nodes[n].item - 1) : items[m].type # TypeMain})

(* The parent of a node is the innermost collection open at its item, or   *)
(* the root; and the children of a node are the nodes of which it is the   *)
(* parent, in the order of the descriptor.                                 *)
ItemOf(n) == IF n = NoNode THEN NoNode ELSE nodes[n].item

TreeMatchesNesting ==
  \A n \in DOMAIN nodes :
    /\ n # Root => ItemOf(nodes[n].parent) =
                     Enclosing(IsCollection, IsEndCollection, nodes[n].item)
    /\ Range(nodes[n].children) = {m \in DOMAIN nodes : nodes[m].parent = n}
    /\ \A a, b \in DOMAIN nodes[n].children :
         a < b => nodes[n].children[a] < nodes[n].children[b]

(* The parser is left with a null pointer exactly by a descriptor that has *)
(* ended more collections than it began.                                   *)
NullOnlyWhenUnbalanced ==
  phase = "parse" =>
    (lastroot = NoNode <=>
       Count(IsEndCollection, 0, Len(items) + 1) >
       Count(IsCollection, 0, Len(items) + 1))

=============================================================================
