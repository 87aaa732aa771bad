----------------------------- MODULE ReportTree -----------------------------
(***************************************************************************)
(* What a client does with the tree of a HID report once getHidReport has  *)
(* returned it (src/src/hidreport.cpp): it moves the tree, walks its nodes *)
(* through shared pointers, and copies, moves and overwrites nodes.        *)
(*                                                                         *)
(* A node of the tree is named by its number in HidReport; it is destroyed *)
(* with the last shared_ptr to it, wherever that is kept.                  *)
(***************************************************************************)
EXTENDS HidReport

CONSTANTS
  Trees,    (* ReportTree variables of the client                            *)
  Ptrs,     (* ReportNode::Ptr variables of the client                       *)
  Locals,   (* ReportNode variables of the client                            *)
  MaxNodes, (* bound of the model: nodes in a tree that a client works on    *)
  NULL

ASSUME ClientAssumption ==
  /\ MaxNodes \in Nat
  /\ NULL \notin Locals \cup [parent : Nat, children : SUBSET Nat]
  /\ Locals \cap Nat = {}

VARIABLES
  parsed,   (* getHidReport has returned                                     *)
  tree,     (* tree -> m_root                                                *)
  ptr,      (* pointer -> the node it points to                              *)
  impl      (* the ReportNode objects that exist -> *pimpl, NULL for none    *)

clientVars == <<parsed, tree, ptr, impl>>
treeVars   == <<vars, clientVars>>

TreeInit ==
  /\ Init
  /\ parsed = FALSE
  /\ tree = [t \in Trees |-> NoNode]
  /\ ptr = [p \in Ptrs |-> NoNode]
  /\ impl = <<>>

-----------------------------------------------------------------------------
(* Ownership.                                                              *)

(* Mutant of PointersOf: the pointer to the parent does not own it.        *)
PointersDown(body) == IF body = NULL THEN {} ELSE body.children

(* The shared pointers in an Impl.                                         *)
PointersOf(body) == IF body = NULL THEN {} ELSE body.children \cup {body.parent}

(* What is left of the objects f when only the given pointers and what     *)
(* hangs on them keep nodes alive.                                         *)
Survivors(f, pointers) ==
  UNION {S \in SUBSET DOMAIN f :
           \A x \in S : \/ x \in Locals \cup pointers
                        \/ \E y \in S : x \in PointersOf(f[y])}

(* The client's pointers become t and p and its objects f, and what nobody *)
(* points to any more is destroyed.                                        *)
Settle(t, p, f) ==
  /\ parsed
  /\ tree' = t
  /\ ptr' = p
  /\ impl' = Restrict(f, Survivors(f, Range(t) \cup Range(p)))
  /\ UNCHANGED <<vars, parsed>>

(* The nodes the client can name, and those of them it can look into.      *)
Named    == (Range(ptr) \ {NoNode}) \cup (Locals \cap DOMAIN impl)
Readable == {x \in Named : impl[x] # NULL}

-----------------------------------------------------------------------------
(* The parser returns.  (A bound of the model: a client works on trees of  *)
(* few nodes, from reports of main items; their other data does not matter *)
(* to it.)                                                                 *)
Body(n) == [parent |-> nodes[n].parent, children |-> Range(nodes[n].children)]

ReturnTree(t) ==
  /\ ~parsed
  /\ phase = "parse" /\ ~More
  /\ Len(nodes) <= MaxNodes
  /\ \A k \in DOMAIN items : items[k].type = TypeMain
  /\ parsed' = TRUE
  /\ tree' = [tree EXCEPT ![t] = Root]
  /\ impl' = [n \in DOMAIN nodes |-> Body(n)]
  /\ UNCHANGED <<vars, ptr>>

(* Moving a tree leaves nothing behind.                                    *)
MoveTree(t, u) ==
  /\ t # u
  /\ Settle([tree EXCEPT ![t] = tree[u], ![u] = NoNode], ptr, impl)

DestroyTree(t) ==
  Settle([tree EXCEPT ![t] = NoNode], ptr, impl)

Point(p, n) == Settle(tree, [ptr EXCEPT ![p] = n], impl)

GetRoot(p, t)   == Point(p, tree[t])
GetParent(p, x) == x \in Readable /\ Point(p, impl[x].parent)
GetChild(p, x)  == x \in Readable /\ \E n \in impl[x].children : Point(p, n)
Forget(p)       == Point(p, NoNode)

(* Construction of a variable, or assignment to any node: a copy has the   *)
(* same parent and the same children as the original.                      *)
CopyNode(x, y) ==
  /\ x # y
  /\ y \in Readable
  /\ Settle(tree, ptr, Put(impl, x, impl[y]))

(* The node moved from stays where it is, without an Impl.                 *)
MoveNode(x, y) ==
  /\ x # y
  /\ y \in Named
  /\ Settle(tree, ptr, Put(Put(impl, y, NULL), x, impl[y]))

DestroyNode(x) ==
  /\ x \in Locals \cap DOMAIN impl
  /\ Settle(tree, ptr, Restrict(impl, DOMAIN impl \ {x}))

ClientNext ==
  \/ \E t \in Trees : ReturnTree(t) \/ DestroyTree(t)
  \/ \E t, u \in Trees : MoveTree(t, u)
  \/ \E p \in Ptrs : \/ \E t \in Trees : GetRoot(p, t)
                     \/ \E x \in Named : GetParent(p, x) \/ GetChild(p, x)
                     \/ Forget(p)
  \/ \E x \in Locals \cup Named, y \in Named : CopyNode(x, y) \/ MoveNode(x, y)
  \/ \E x \in Locals : DestroyNode(x)

TreeNext == ClientNext \/ (Next /\ UNCHANGED clientVars)

TreeSpec == TreeInit /\ [][TreeNext]_treeVars

-----------------------------------------------------------------------------
(* hidreport.h, getParent and getChildren: a parent or an empty pointer,   *)
(* and a list of nodes.  A tree to whose nodes nobody writes lives and     *)
(* dies as a whole: a client that keeps one node, wherever it stands and   *)
(* whatever became of the tree, can still walk from it to all the others.  *)
Untouched == \A n \in DOMAIN impl \cap DOMAIN nodes : impl[n] = Body(n)

LivesAsAWhole ==
  Untouched => DOMAIN impl \cap DOMAIN nodes \in {{}, DOMAIN nodes}

(* Every object that exists can be reached from the client's variables.    *)
(* (Not so: parent and child own each other.)                              *)
Reaches(S) == \A x \in S : PointersOf(impl[x]) \cap DOMAIN impl \subseteq S

NoLeaks ==
  \A S \in SUBSET DOMAIN impl :
    Reaches(S) /\ (Named \cup Range(tree)) \cap DOMAIN impl \subseteq S => S = DOMAIN impl
=============================================================================
