---------------------------- MODULE DeviceProofs ----------------------------
(***************************************************************************)
(* Proofs about Device, for every number of objects, handles, maps and     *)
(* interfaces.                                                             *)
(***************************************************************************)
EXTENDS Device, FiniteSetTheorems, TLAPS

-----------------------------------------------------------------------------
(* Counting the objects that hold a pointer.                               *)

(* 1 when a is the pointer x, the weight of a in the count of its holders.  *)
Hit(a, x) == IF a = x THEN 1 ELSE 0

(* The objects that hold a given pointer are finitely many.                *)
LEMMA HoldersFinite ==
  ASSUME NEW f, NEW x
  PROVE  /\ IsFiniteSet(Holders(f, x))
         /\ Cardinality(Holders(f, x)) \in Nat
<1>1. Holders(f, x) \subseteq Objects
  BY DEF Holders
<1> QED
  BY <1>1, FS_Subset, FS_CardinalityType, ConstantsAssumption

LEMMA NoHolder ==
  ASSUME NEW f, NEW x, Cardinality(Holders(f, x)) = 0
  PROVE  \A q \in Objects : f[q] # x
<1>1. Holders(f, x) = {}
  BY HoldersFinite, FS_EmptySet
<1> QED
  BY <1>1 DEF Holders

(* Pointing one object elsewhere moves one holder from the old pointer to  *)
(* the new one.                                                            *)
LEMMA HoldersUpdate ==
  ASSUME NEW S, NEW f \in [Objects -> S], NEW g \in [Objects -> S],
         NEW o \in Objects, NEW x,
         \A q \in Objects \ {o} : g[q] = f[q]
  PROVE  Cardinality(Holders(g, x))
           = Cardinality(Holders(f, x)) - Hit(f[o], x) + Hit(g[o], x)
<1>1. Holders(f, x) \ {o} = Holders(g, x) \ {o}
  BY DEF Holders
<1>2. o \in Holders(f, x) <=> f[o] = x
  BY DEF Holders
<1>3. o \in Holders(g, x) <=> g[o] = x
  BY DEF Holders
<1>4. /\ IsFiniteSet(Holders(f, x)) /\ Cardinality(Holders(f, x)) \in Nat
      /\ IsFiniteSet(Holders(g, x)) /\ Cardinality(Holders(g, x)) \in Nat
  BY HoldersFinite
<1>5. Cardinality(Holders(f, x) \ {o})
        = Cardinality(Holders(f, x)) - Hit(f[o], x)
  <2>1. CASE f[o] = x
    BY <1>2, <1>4, <2>1, FS_RemoveElement DEF Hit
  <2>2. CASE f[o] # x
    <3>1. Holders(f, x) \ {o} = Holders(f, x)
      BY <1>2, <2>2
    <3> QED
      BY <1>4, <2>2, <3>1 DEF Hit
  <2> QED
    BY <2>1, <2>2
<1>6. Cardinality(Holders(g, x) \ {o})
        = Cardinality(Holders(g, x)) - Hit(g[o], x)
  <2>1. CASE g[o] = x
    BY <1>3, <1>4, <2>1, FS_RemoveElement DEF Hit
  <2>2. CASE g[o] # x
    <3>1. Holders(g, x) \ {o} = Holders(g, x)
      BY <1>3, <2>2
    <3> QED
      BY <1>4, <2>2, <3>1 DEF Hit
  <2> QED
    BY <2>1, <2>2
<1>7. Cardinality(Holders(f, x) \ {o}) \in Int
  BY <1>4, <1>5 DEF Hit
<1> QED
  BY <1>1, <1>4, <1>5, <1>6, <1>7 DEF Hit

(* Giving the pointer of p to o, and none to p, takes away the pointer o   *)
(* had: the moves.                                                         *)
LEMMA HoldersMove ==
  ASSUME NEW S, NEW f \in [Objects -> S], NEW g \in [Objects -> S],
         NEW o \in Objects, NEW p \in Objects, o # p,
         NEW x, x # NULL,
         g[o] = f[p], g[p] = NULL,
         \A q \in Objects : q = o \/ q = p \/ g[q] = f[q]
  PROVE  Cardinality(Holders(g, x))
           = Cardinality(Holders(f, x)) - Hit(f[o], x)
<1> DEFINE m == [q \in Objects |-> IF q = o THEN f[p] ELSE f[q]]
<1>1. /\ m \in [Objects -> S]
      /\ m[o] = f[p] /\ m[p] = f[p]
      /\ \A q \in Objects \ {o} : m[q] = f[q]
      /\ \A q \in Objects \ {p} : g[q] = m[q]
  OBVIOUS
<1> HIDE DEF m
<1>2. Cardinality(Holders(m, x))
        = Cardinality(Holders(f, x)) - Hit(f[o], x) + Hit(m[o], x)
  BY <1>1, HoldersUpdate
<1>3. Cardinality(Holders(g, x))
        = Cardinality(Holders(m, x)) - Hit(m[p], x) + Hit(g[p], x)
  BY <1>1, HoldersUpdate
<1>4. Cardinality(Holders(f, x)) \in Nat
  BY HoldersFinite
<1> QED
  BY <1>1, <1>2, <1>3, <1>4 DEF Hit

(* What Retain and Drop do to a counter.                                   *)
LEMMA RetainCounter ==
  ASSUME NEW H, NULL \notin H, NEW c \in [H -> Int], NEW x \in H,
         NEW y \in H \cup {NULL}
  PROVE  Retain(c, y) \in [H -> Int] /\ Retain(c, y)[x] = c[x] + Hit(y, x)
BY DEF Retain, Hit

LEMMA DropCounter ==
  ASSUME NEW H, NULL \notin H, NEW c \in [H -> Int], NEW x \in H,
         NEW y \in H \cup {NULL}
  PROVE  Drop(c, y) \in [H -> Int] /\ Drop(c, y)[x] = c[x] - Hit(y, x)
BY DEF Drop, Hit

-----------------------------------------------------------------------------
(* What Impl::close does to the counters.                                  *)

(* Releasing claims keeps the interface counters natural numbers.          *)
LEMMA LoweredType ==
  ASSUME TypeOK, NEW o \in Objects, NEW S \in SUBSET Interfaces,
         CanRelease(o, S)
  PROVE  Lowered(o, S) \in [Maps -> [Interfaces -> Nat]]
<1>1. CASE S = {}
  BY <1>1 DEF Lowered, TypeOK
<1>2. CASE S # {}
  <2>1. ifmap[o] \in Maps /\ \A i \in S : count[ifmap[o]][i] > 0
    BY <1>2 DEF CanRelease, TypeOK
  <2> DEFINE c == [i \in Interfaces |->
                     IF i \in S THEN count[ifmap[o]][i] - 1
                     ELSE count[ifmap[o]][i]]
  <2>2. c \in [Interfaces -> Nat]
    <3>1. \A i \in Interfaces : count[ifmap[o]][i] \in Nat
      BY <2>1 DEF TypeOK
    <3> QED
      BY <2>1, <3>1
  <2>3. Lowered(o, S) = [count EXCEPT ![ifmap[o]] = c]
    BY <1>2 DEF Lowered
  <2> HIDE DEF c
  <2> QED
    BY <2>1, <2>2, <2>3 DEF TypeOK
<1> QED
  BY <1>1, <1>2

(* Closing gives back one share of the handle, closes the handle with the  *)
(* last one, and keeps every variable it touches in its type.              *)
LEMMA CloseImplCounts ==
  ASSUME TypeOK, NEW o \in Objects, NEW rc \in [Handles -> Nat],
         CanRelease(o, mine[o]),
         handle[o] # NULL => rc[handle[o]] > 0,
         CloseImpl(o, rc)
  PROVE  /\ count'    \in [Maps -> [Interfaces -> Nat]]
         /\ refcount' \in [Handles -> Nat]
         /\ opened'   \in SUBSET Handles
         /\ held'     \in [Handles -> SUBSET Interfaces]
         /\ \A h \in Handles : refcount'[h] = rc[h] - Hit(handle[o], h)
         /\ \A h \in Handles :
              h \in opened' <=> h \in opened /\ (h = handle[o] => rc[h] # 1)
<1>1. handle[o] \in Handles \cup {NULL} /\ mine[o] \in SUBSET Interfaces
  BY DEF TypeOK
<1>2. count' \in [Maps -> [Interfaces -> Nat]]
  BY <1>1, LoweredType DEF CloseImpl
<1>3. CASE handle[o] = NULL
  <2>1. refcount' = rc /\ opened' = opened /\ held' = held
    BY <1>3 DEF CloseImpl, LastShare, Drop
  <2>2. \A h \in Handles : h # NULL
    BY ConstantsAssumption
  <2> QED
    BY <1>2, <1>3, <2>1, <2>2 DEF Hit, TypeOK
<1>4. CASE handle[o] # NULL
  <2>1. handle[o] \in Handles /\ rc[handle[o]] > 0
    BY <1>1, <1>4
  <2>2. refcount' = [rc EXCEPT ![handle[o]] = @ - 1]
    BY <1>4 DEF CloseImpl, Drop
  <2>3. refcount' \in [Handles -> Nat]
    BY <2>1, <2>2
  <2>4. \A h \in Handles : refcount'[h] = rc[h] - Hit(handle[o], h)
    BY <2>1, <2>2 DEF Hit
  <2>5. LastShare(o, rc) <=> rc[handle[o]] = 1
    BY <1>4, <2>1 DEF LastShare, Drop
  <2>6. opened' = IF rc[handle[o]] = 1 THEN opened \ {handle[o]} ELSE opened
    BY <2>5 DEF CloseImpl
  <2>7. held' \in [Handles -> SUBSET Interfaces]
    BY <1>4, <2>1 DEF CloseImpl, TypeOK
  <2> QED
    BY <1>2, <2>1, <2>3, <2>4, <2>6, <2>7 DEF TypeOK
<1> QED
  BY <1>3, <1>4

-----------------------------------------------------------------------------
(* Whatever the client does.                                               *)

(* An object that is not there, or whose Impl has been moved away, has no  *)
(* pointers and no claims.                                                 *)
NoneEmpty ==
  \A o \in Objects : ~Live(o) =>
    /\ device[o] = NULL
    /\ handle[o] = NULL
    /\ mine[o] = {}
    /\ ifmap[o] = NULL

AnyInv == TypeOK /\ NoneEmpty /\ DeviceRefsExact /\ HandleReachable

(* The counters of the libusb devices, for the shapes of change the        *)
(* actions make.                                                           *)
LEMMA DevicesAdded ==
  ASSUME TypeOK, TypeOK', DeviceRefsExact, NEW o \in Objects,
         \A q \in Objects \ {o} : device'[q] = device[q],
         \A d \in UsbDevices :
           devrefs'[d] = devrefs[d] - Hit(device[o], d) + Hit(device'[o], d)
  PROVE  DeviceRefsExact'
<1> SUFFICES ASSUME NEW d \in UsbDevices
             PROVE  devrefs'[d] = Cardinality(Holders(device', d))
  BY DEF DeviceRefsExact, Holders
<1> DEFINE S == UsbDevices \cup {NULL}
<1>1. device \in [Objects -> S] /\ device' \in [Objects -> S]
  BY DEF TypeOK
<1> HIDE DEF S
<1>2. Cardinality(Holders(device', d))
        = Cardinality(Holders(device, d)) - Hit(device[o], d)
            + Hit(device'[o], d)
  BY <1>1, HoldersUpdate
<1> QED
  BY <1>2 DEF DeviceRefsExact

LEMMA DevicesMoved ==
  ASSUME TypeOK, TypeOK', DeviceRefsExact,
         NEW o \in Objects, NEW p \in Objects, o # p,
         device'[o] = device[p], device'[p] = NULL,
         \A q \in Objects : q = o \/ q = p \/ device'[q] = device[q],
         \A d \in UsbDevices : devrefs'[d] = devrefs[d] - Hit(device[o], d)
  PROVE  DeviceRefsExact'
<1> SUFFICES ASSUME NEW d \in UsbDevices
             PROVE  devrefs'[d] = Cardinality(Holders(device', d))
  BY DEF DeviceRefsExact, Holders
<1> DEFINE S == UsbDevices \cup {NULL}
<1>1. device \in [Objects -> S] /\ device' \in [Objects -> S]
  BY DEF TypeOK
<1>3. d # NULL
  BY ConstantsAssumption
<1> HIDE DEF S
<1>4. Cardinality(Holders(device', d))
        = Cardinality(Holders(device, d)) - Hit(device[o], d)
  BY <1>1, <1>3, HoldersMove
<1> QED
  BY <1>4 DEF DeviceRefsExact

(* The same for the sharers of a handle.                                   *)
LEMMA SharersAdded ==
  ASSUME TypeOK, TypeOK', NEW o \in Objects, NEW h \in Handles,
         \A q \in Objects \ {o} : handle'[q] = handle[q]
  PROVE  Cardinality(Sharers(h)')
           = Cardinality(Sharers(h)) - Hit(handle[o], h) + Hit(handle'[o], h)
<1> DEFINE S == Handles \cup {NULL}
<1>1. handle \in [Objects -> S] /\ handle' \in [Objects -> S]
  BY DEF TypeOK
<1>2. Sharers(h) = Holders(handle, h) /\ Sharers(h)' = Holders(handle', h)
  BY DEF Sharers, Holders
<1> HIDE DEF S
<1>3. Cardinality(Holders(handle', h))
        = Cardinality(Holders(handle, h)) - Hit(handle[o], h)
            + Hit(handle'[o], h)
  BY <1>1, HoldersUpdate
<1> QED
  BY <1>2, <1>3

LEMMA SharersMoved ==
  ASSUME TypeOK, TypeOK', NEW o \in Objects, NEW p \in Objects, o # p,
         NEW h \in Handles,
         handle'[o] = handle[p], handle'[p] = NULL,
         \A q \in Objects : q = o \/ q = p \/ handle'[q] = handle[q]
  PROVE  Cardinality(Sharers(h)')
           = Cardinality(Sharers(h)) - Hit(handle[o], h)
<1> DEFINE S == Handles \cup {NULL}
<1>1. handle \in [Objects -> S] /\ handle' \in [Objects -> S]
  BY DEF TypeOK
<1>2. Sharers(h) = Holders(handle, h) /\ Sharers(h)' = Holders(handle', h)
  BY DEF Sharers, Holders
<1>3. h # NULL
  BY ConstantsAssumption
<1> HIDE DEF S
<1>4. Cardinality(Holders(handle', h))
        = Cardinality(Holders(handle, h)) - Hit(handle[o], h)
  BY <1>1, <1>3, HoldersMove
<1> QED
  BY <1>2, <1>4

LEMMA SharersNat ==
  ASSUME NEW h
  PROVE  Cardinality(Sharers(h)) \in Nat
BY HoldersFinite DEF Sharers

(* The handles stay reachable when the counters fall at least as much as   *)
(* the sharers do.                                                         *)
LEMMA ReachableAdded ==
  ASSUME TypeOK, TypeOK', HandleReachable, NEW o \in Objects,
         \A q \in Objects \ {o} : handle'[q] = handle[q],
         \A h \in Handles :
           /\ refcount'[h]
                <= refcount[h] - Hit(handle[o], h) + Hit(handle'[o], h)
           /\ h \in opened' <=> refcount'[h] > 0
  PROVE  HandleReachable'
<1> SUFFICES ASSUME NEW h \in Handles
             PROVE  refcount'[h] <= Cardinality(Sharers(h)')
  BY DEF HandleReachable
<1>1. Cardinality(Sharers(h)')
        = Cardinality(Sharers(h)) - Hit(handle[o], h) + Hit(handle'[o], h)
  BY SharersAdded
<1>2. refcount[h] \in Nat /\ refcount'[h] \in Nat
        /\ Cardinality(Sharers(h)) \in Nat
  BY SharersNat DEF TypeOK
<1>3. refcount[h] <= Cardinality(Sharers(h))
  BY DEF HandleReachable
<1> QED
  BY <1>1, <1>2, <1>3 DEF Hit

LEMMA ReachableMoved ==
  ASSUME TypeOK, TypeOK', HandleReachable,
         NEW o \in Objects, NEW p \in Objects, o # p,
         handle'[o] = handle[p], handle'[p] = NULL,
         \A q \in Objects : q = o \/ q = p \/ handle'[q] = handle[q],
         \A h \in Handles :
           /\ refcount'[h] = refcount[h] - Hit(handle[o], h)
           /\ h \in opened' <=> refcount'[h] > 0
  PROVE  HandleReachable'
<1> SUFFICES ASSUME NEW h \in Handles
             PROVE  refcount'[h] <= Cardinality(Sharers(h)')
  BY DEF HandleReachable
<1>1. Cardinality(Sharers(h)') = Cardinality(Sharers(h)) - Hit(handle[o], h)
  BY SharersMoved
<1>2. refcount[h] \in Nat /\ refcount'[h] \in Nat
        /\ Cardinality(Sharers(h)) \in Nat
  BY SharersNat DEF TypeOK
<1>3. refcount[h] <= Cardinality(Sharers(h))
  BY DEF HandleReachable
<1> QED
  BY <1>1, <1>2, <1>3 DEF Hit

(* The invariant is inductive: one lemma for each action.                  *)
LEMMA AnyConstructDefault ==
  ASSUME AnyInv, NEW o \in Objects, ConstructDefault(o)
  PROVE  AnyInv'
<1> USE DEF AnyInv, ConstructDefault, heapVars, libusbVars
<1>1. TypeOK'
  BY DEF TypeOK
<1>2. NoneEmpty'
  BY DEF NoneEmpty, Live, TypeOK
<1>3. DeviceRefsExact' /\ HandleReachable'
  BY DEF DeviceRefsExact, HandleReachable, Sharers, Holders
<1> QED
  BY <1>1, <1>2, <1>3

LEMMA AnyConstructFromUsb ==
  ASSUME AnyInv, NEW o \in Objects, NEW d \in UsbDevices,
         ConstructFromUsb(o, d)
  PROVE  AnyInv'
<1> USE DEF AnyInv, ConstructFromUsb, heapVars
<1>1. TypeOK'
  BY DEF TypeOK
<1>2. NoneEmpty'
  BY DEF NoneEmpty, Live, TypeOK
<1>3. DeviceRefsExact'
  <2>1. device[o] = NULL /\ NULL \notin UsbDevices
    BY ConstantsAssumption DEF NoneEmpty, Live
  <2>2. \A e \in UsbDevices :
          devrefs'[e] = devrefs[e] - Hit(device[o], e) + Hit(device'[o], e)
    BY <2>1 DEF Hit, TypeOK
  <2>3. \A q \in Objects \ {o} : device'[q] = device[q]
    BY DEF TypeOK
  <2> QED
    BY <1>1, <2>2, <2>3, DevicesAdded
<1>4. HandleReachable'
  BY DEF HandleReachable, Sharers, Holders
<1> QED
  BY <1>1, <1>2, <1>3, <1>4

LEMMA AnyCopyConstruct ==
  ASSUME AnyInv, NEW o \in Objects, NEW p \in Objects, CopyConstruct(o, p)
  PROVE  AnyInv'
<1> USE DEF AnyInv
<1>1. /\ NULL \notin UsbDevices /\ NULL \notin Handles
      /\ device[o] = NULL /\ handle[o] = NULL
      /\ device[p] \in UsbDevices \cup {NULL}
      /\ handle[p] \in Handles \cup {NULL}
  BY ConstantsAssumption DEF NoneEmpty, Live, CopyConstruct, TypeOK
<1>2. \A e \in UsbDevices :
        devrefs'[e] = devrefs[e] - Hit(device[o], e) + Hit(device'[o], e)
  BY <1>1 DEF CopyConstruct, Retain, Hit, TypeOK
<1>3. \A h \in Handles :
        refcount'[h] = refcount[h] - Hit(handle[o], h) + Hit(handle'[o], h)
  BY <1>1 DEF CopyConstruct, Retain, Hit, TypeOK
<1>4. TypeOK'
  <2>1. devrefs' \in [UsbDevices -> Nat]
    BY <1>1 DEF CopyConstruct, Retain, TypeOK
  <2>2. refcount' \in [Handles -> Nat]
    BY <1>1 DEF CopyConstruct, Retain, TypeOK
  <2> QED
    BY <2>1, <2>2 DEF CopyConstruct, TypeOK
<1>5. NoneEmpty'
  BY DEF NoneEmpty, Live, CopyConstruct, TypeOK
<1>6. /\ \A q \in Objects \ {o} : device'[q] = device[q]
      /\ \A q \in Objects \ {o} : handle'[q] = handle[q]
  BY DEF CopyConstruct, TypeOK
<1>7. DeviceRefsExact'
  BY <1>2, <1>4, <1>6, DevicesAdded
<1>8. \A h \in Handles : h \in opened' <=> refcount'[h] > 0
  BY <1>1 DEF CopyConstruct, MayCopy, StaleHandle, Retain, HandleReachable,
              TypeOK
<1>9. \A h \in Handles :
        refcount'[h] <= refcount[h] - Hit(handle[o], h) + Hit(handle'[o], h)
  BY <1>3, <1>4 DEF TypeOK
<1>10. HandleReachable'
  BY <1>4, <1>6, <1>8, <1>9, ReachableAdded
<1> QED
  BY <1>4, <1>5, <1>7, <1>10

LEMMA AnyMoveConstruct ==
  ASSUME AnyInv, NEW o \in Objects, NEW p \in Objects, MoveConstruct(o, p)
  PROVE  AnyInv'
<1> USE DEF AnyInv
<1>1. /\ device[o] = NULL /\ handle[o] = NULL /\ o # p
      /\ NULL \notin UsbDevices /\ NULL \notin Handles
  BY ConstantsAssumption DEF NoneEmpty, Live, Exists, MoveConstruct
<1>2. TypeOK'
  BY DEF MoveConstruct, TakeImpl, heapVars, libusbVars, TypeOK
<1>3. NoneEmpty'
  BY <1>1 DEF MoveConstruct, TakeImpl, NoneEmpty, Live, TypeOK
<1>4. /\ device'[o] = device[p] /\ device'[p] = NULL
      /\ \A q \in Objects : q = o \/ q = p \/ device'[q] = device[q]
      /\ handle'[o] = handle[p] /\ handle'[p] = NULL
      /\ \A q \in Objects : q = o \/ q = p \/ handle'[q] = handle[q]
  BY <1>1 DEF MoveConstruct, TakeImpl, TypeOK
<1>5. \A d \in UsbDevices : devrefs'[d] = devrefs[d] - Hit(device[o], d)
  BY <1>1 DEF MoveConstruct, libusbVars, Hit, TypeOK
<1>6. \A h \in Handles :
        /\ refcount'[h] = refcount[h] - Hit(handle[o], h)
        /\ h \in opened' <=> refcount'[h] > 0
  BY <1>1 DEF MoveConstruct, heapVars, libusbVars, Hit, HandleReachable, TypeOK
<1>7. DeviceRefsExact'
  BY <1>1, <1>2, <1>4, <1>5, DevicesMoved
<1>8. HandleReachable'
  BY <1>1, <1>2, <1>4, <1>6, ReachableMoved
<1> QED
  BY <1>2, <1>3, <1>7, <1>8

(* What the destruction of the Impl of o does to the counters when the     *)
(* counter of its handle is as HandleReachable says.                       *)
LEMMA CloseImplReachable ==
  ASSUME TypeOK, HandleReachable, NEW o \in Objects, CanClose(o),
         CloseImpl(o, refcount)
  PROVE  \A h \in Handles :
           /\ refcount'[h] = refcount[h] - Hit(handle[o], h)
           /\ h \in opened' <=> refcount'[h] > 0
<1>1. /\ refcount \in [Handles -> Nat] /\ CanRelease(o, mine[o])
      /\ handle[o] \in Handles \cup {NULL}
      /\ handle[o] # NULL => refcount[handle[o]] > 0
  BY DEF TypeOK, CanClose, StaleHandle
<1>2. \A h \in Handles :
        /\ refcount'[h] = refcount[h] - Hit(handle[o], h)
        /\ h \in opened' <=> h \in opened /\ (h = handle[o] => refcount[h] # 1)
  BY <1>1, CloseImplCounts
<1> QED
  BY <1>1, <1>2 DEF HandleReachable, Hit

LEMMA CloseImplType ==
  ASSUME TypeOK, NEW o \in Objects, CanClose(o), CloseImpl(o, refcount)
  PROVE  /\ count'    \in [Maps -> [Interfaces -> Nat]]
         /\ refcount' \in [Handles -> Nat]
         /\ opened'   \in SUBSET Handles
         /\ held'     \in [Handles -> SUBSET Interfaces]
<1>1. /\ refcount \in [Handles -> Nat] /\ CanRelease(o, mine[o])
      /\ handle[o] \in Handles \cup {NULL}
      /\ handle[o] # NULL => refcount[handle[o]] > 0
  BY DEF TypeOK, CanClose, StaleHandle
<1> QED
  BY <1>1, CloseImplCounts

(* The reference the Impl of o gives back is one of those counted.         *)
LEMMA DeviceDropped ==
  ASSUME TypeOK, DeviceRefsExact, NEW o \in Objects
  PROVE  /\ Drop(devrefs, device[o]) \in [UsbDevices -> Nat]
         /\ \A d \in UsbDevices :
              Drop(devrefs, device[o])[d] = devrefs[d] - Hit(device[o], d)
<1>1. device[o] \in UsbDevices \cup {NULL} /\ NULL \notin UsbDevices
  BY ConstantsAssumption DEF TypeOK
<1>2. ASSUME NEW d \in UsbDevices, device[o] = d
      PROVE  devrefs[d] > 0
  <2>1. o \in Holders(device, d)
    BY <1>2 DEF Holders
  <2>2. Cardinality(Holders(device, d)) # 0
    BY <2>1, HoldersFinite, FS_EmptySet
  <2> QED
    BY <2>2, HoldersFinite DEF DeviceRefsExact
<1> QED
  BY <1>1, <1>2 DEF Drop, Hit, TypeOK

LEMMA AnyDestroy ==
  ASSUME AnyInv, NEW o \in Objects, Destroy(o)
  PROVE  AnyInv'
<1> USE DEF AnyInv
<1>1. CanClose(o) /\ CloseImpl(o, refcount) /\ NULL \notin UsbDevices
        /\ NULL \notin Handles
  BY ConstantsAssumption DEF Destroy
<1>2. TypeOK'
  BY <1>1, CloseImplType, DeviceDropped DEF Destroy, TypeOK
<1>3. NoneEmpty'
  BY DEF Destroy, NoneEmpty, Live, TypeOK
<1>4. /\ device'[o] = NULL /\ \A q \in Objects \ {o} : device'[q] = device[q]
      /\ handle'[o] = NULL /\ \A q \in Objects \ {o} : handle'[q] = handle[q]
  BY DEF Destroy, TypeOK
<1>5. DeviceRefsExact'
  <2>1. \A d \in UsbDevices :
          devrefs'[d] = devrefs[d] - Hit(device[o], d) + Hit(device'[o], d)
    BY <1>1, <1>4, DeviceDropped DEF Destroy, Hit, TypeOK
  <2> QED
    BY <1>2, <1>4, <2>1, DevicesAdded
<1>6. HandleReachable'
  <2>1. \A h \in Handles :
          /\ refcount'[h]
               <= refcount[h] - Hit(handle[o], h) + Hit(handle'[o], h)
          /\ h \in opened' <=> refcount'[h] > 0
    BY <1>1, <1>2, <1>4, CloseImplReachable DEF Hit, TypeOK
  <2> QED
    BY <1>2, <1>4, <2>1, ReachableAdded
<1> QED
  BY <1>2, <1>3, <1>5, <1>6

LEMMA AnyMoveAssign ==
  ASSUME AnyInv, NEW o \in Objects, NEW p \in Objects, MoveAssign(o, p)
  PROVE  AnyInv'
<1> USE DEF AnyInv
<1>1. CanClose(o) /\ CloseImpl(o, refcount) /\ TakeImpl(o, p) /\ o # p
        /\ NULL \notin UsbDevices /\ NULL \notin Handles
  BY ConstantsAssumption DEF MoveAssign
<1>2. TypeOK'
  <2>1. /\ life'   \in [Objects -> {"none", "live", "moved"}]
        /\ device' \in [Objects -> UsbDevices \cup {NULL}]
        /\ handle' \in [Objects -> Handles \cup {NULL}]
        /\ mine'   \in [Objects -> SUBSET Interfaces]
        /\ ifmap'  \in [Objects -> Maps \cup {NULL}]
    BY <1>1 DEF TakeImpl, TypeOK
  <2>2. devrefs' \in [UsbDevices -> Nat] /\ fault' \in BOOLEAN
    BY DeviceDropped DEF MoveAssign, TypeOK
  <2> QED
    BY <1>1, <2>1, <2>2, CloseImplType DEF TypeOK
<1>3. NoneEmpty'
  BY <1>1 DEF TakeImpl, NoneEmpty, Live, TypeOK
<1>4. /\ device'[o] = device[p] /\ device'[p] = NULL
      /\ \A q \in Objects : q = o \/ q = p \/ device'[q] = device[q]
      /\ handle'[o] = handle[p] /\ handle'[p] = NULL
      /\ \A q \in Objects : q = o \/ q = p \/ handle'[q] = handle[q]
  BY <1>1 DEF TakeImpl, TypeOK
<1>5. \A d \in UsbDevices : devrefs'[d] = devrefs[d] - Hit(device[o], d)
  BY DeviceDropped DEF MoveAssign
<1>6. \A h \in Handles :
        /\ refcount'[h] = refcount[h] - Hit(handle[o], h)
        /\ h \in opened' <=> refcount'[h] > 0
  BY <1>1, CloseImplReachable
<1>7. DeviceRefsExact'
  BY <1>1, <1>2, <1>4, <1>5, DevicesMoved
<1>8. HandleReachable'
  BY <1>1, <1>2, <1>4, <1>6, ReachableMoved
<1> QED
  BY <1>2, <1>3, <1>7, <1>8

LEMMA AnyOpen ==
  ASSUME AnyInv, NEW o \in Objects, Open(o)
  PROVE  AnyInv'
<1> USE DEF AnyInv
<1>1. PICK h \in Handles \ opened :
        /\ handle'   = [handle EXCEPT ![o] = h]
        /\ refcount' = [refcount EXCEPT ![h] = 1]
        /\ opened'   = opened \cup {h}
  BY DEF Open
<1>2. /\ handle[o] = NULL /\ NULL \notin Handles
      /\ refcount[h] = 0
  BY ConstantsAssumption DEF Open, HandleReachable, TypeOK
<1>3. TypeOK'
  <2>1. /\ handle' \in [Objects -> Handles \cup {NULL}]
        /\ refcount' \in [Handles -> Nat]
        /\ opened' \in SUBSET Handles
    BY <1>1 DEF TypeOK
  <2>2. UNCHANGED <<life, device, mine, ifmap, count, held, devrefs, fault>>
    BY DEF Open
  <2> QED
    BY <2>1, <2>2 DEF TypeOK
<1>4. NoneEmpty'
  BY <1>1 DEF Open, NoneEmpty, Live, TypeOK
<1>5. DeviceRefsExact'
  BY DEF Open, DeviceRefsExact, Holders
<1>6. HandleReachable'
  <2>1. handle'[o] = h /\ \A q \in Objects \ {o} : handle'[q] = handle[q]
    BY <1>1 DEF TypeOK
  <2>2. \A k \in Handles :
          /\ refcount'[k]
               <= refcount[k] - Hit(handle[o], k) + Hit(handle'[o], k)
          /\ k \in opened' <=> refcount'[k] > 0
    BY <1>1, <1>2, <2>1 DEF Hit, HandleReachable, TypeOK
  <2> QED
    BY <1>3, <2>1, <2>2, ReachableAdded
<1> QED
  BY <1>3, <1>4, <1>5, <1>6

LEMMA AnyCopyAssign ==
  ASSUME AnyInv, NEW o \in Objects, NEW p \in Objects, CopyAssign(o, p)
  PROVE  AnyInv'
<1> USE DEF AnyInv
<1> DEFINE rc == Retain(refcount, handle[p])
           rd == Retain(devrefs, device[p])
<1>1. /\ CanRelease(o, mine[o]) /\ CloseImpl(o, rc)
      /\ NULL \notin UsbDevices /\ NULL \notin Handles
      /\ device[o] \in UsbDevices \cup {NULL}
      /\ device[p] \in UsbDevices \cup {NULL}
      /\ handle[o] \in Handles \cup {NULL}
      /\ handle[p] \in Handles \cup {NULL}
      /\ handle[o] # NULL => refcount[handle[o]] > 0
      /\ handle[p] # NULL => refcount[handle[p]] > 0
  BY ConstantsAssumption
     DEF CopyAssign, CanClose, StaleHandle, MayCopy, TypeOK
<1>2. /\ rc \in [Handles -> Nat]
      /\ \A h \in Handles : rc[h] = refcount[h] + Hit(handle[p], h)
  BY <1>1 DEF Retain, Hit, TypeOK
<1>3. handle[o] # NULL => rc[handle[o]] > 0
  BY <1>1, <1>2 DEF Hit, TypeOK
<1>4. /\ rd \in [UsbDevices -> Nat]
      /\ \A d \in UsbDevices : rd[d] = devrefs[d] + Hit(device[p], d)
  BY <1>1 DEF Retain, Hit, TypeOK
<1>5. devrefs' = Drop(rd, device[o])
  BY DEF CopyAssign
<1> HIDE DEF rc, rd
<1>6. /\ count'    \in [Maps -> [Interfaces -> Nat]]
      /\ refcount' \in [Handles -> Nat]
      /\ opened'   \in SUBSET Handles
      /\ held'     \in [Handles -> SUBSET Interfaces]
      /\ \A h \in Handles : refcount'[h] = rc[h] - Hit(handle[o], h)
      /\ \A h \in Handles :
           h \in opened' <=> h \in opened /\ (h = handle[o] => rc[h] # 1)
  BY <1>1, <1>2, <1>3, CloseImplCounts
<1>7. \A d \in UsbDevices : Hit(device[o], d) <= devrefs[d]
  BY DeviceDropped DEF Drop, Hit, TypeOK
<1>8. /\ devrefs' \in [UsbDevices -> Nat]
      /\ \A d \in UsbDevices : devrefs'[d] = rd[d] - Hit(device[o], d)
  BY <1>1, <1>4, <1>5, <1>7 DEF Drop, Hit, TypeOK
<1>9. /\ device'[o] = device[p]
      /\ \A q \in Objects \ {o} : device'[q] = device[q]
      /\ handle'[o] = handle[p]
      /\ \A q \in Objects \ {o} : handle'[q] = handle[q]
  BY DEF CopyAssign, TypeOK
<1>10. TypeOK'
  BY <1>6, <1>8 DEF CopyAssign, TypeOK
<1>11. NoneEmpty'
  BY DEF CopyAssign, NoneEmpty, Live, TypeOK
<1>12. DeviceRefsExact'
  <2>1. \A d \in UsbDevices :
          devrefs'[d] = devrefs[d] - Hit(device[o], d) + Hit(device'[o], d)
    BY <1>4, <1>8, <1>9 DEF Hit, TypeOK
  <2> QED
    BY <1>9, <1>10, <2>1, DevicesAdded
<1>13. HandleReachable'
  <2>1. \A h \in Handles :
          refcount'[h] <= refcount[h] - Hit(handle[o], h) + Hit(handle'[o], h)
    BY <1>2, <1>6, <1>9 DEF Hit, TypeOK
  <2>2. \A h \in Handles : h \in opened' <=> refcount'[h] > 0
    BY <1>1, <1>2, <1>6 DEF Hit, HandleReachable, TypeOK
  <2> QED
    BY <1>9, <1>10, <2>1, <2>2, ReachableAdded
<1> QED
  BY <1>10, <1>11, <1>12, <1>13

LEMMA AnyClose ==
  ASSUME AnyInv, NEW o \in Objects, Close(o)
  PROVE  AnyInv'
<1> USE DEF AnyInv
<1>1. CanClose(o) /\ CloseImpl(o, refcount) /\ Live(o)
      /\ handle[o] \in Handles \cup {NULL} /\ NULL \notin Handles
  BY ConstantsAssumption DEF Close, TypeOK
<1>2. /\ handle' \in [Objects -> Handles \cup {NULL}]
      /\ handle'[o] \in {handle[o], NULL}
      /\ \A q \in Objects \ {o} : handle'[q] = handle[q]
  BY DEF Close, TypeOK
<1>3. ifmap' \in [Objects -> Maps \cup {NULL}]
  BY DEF Close, MapAfter, TypeOK
<1>4. TypeOK'
  BY <1>1, <1>2, <1>3, CloseImplType DEF Close, TypeOK
<1>5. NoneEmpty'
  BY <1>1, <1>2 DEF Close, NoneEmpty, Live, TypeOK
<1>6. DeviceRefsExact'
  BY DEF Close, DeviceRefsExact, Holders
<1>7. \A h \in Handles :
        refcount'[h] <= refcount[h] - Hit(handle[o], h) + Hit(handle'[o], h)
  BY <1>1, <1>4, CloseImplReachable DEF Hit, TypeOK
<1>8. \A h \in Handles : h \in opened' <=> refcount'[h] > 0
  BY <1>1, CloseImplReachable
<1>9. HandleReachable'
  BY <1>2, <1>4, <1>7, <1>8, ReachableAdded
<1> QED
  BY <1>4, <1>5, <1>6, <1>9

LEMMA AnyClaim ==
  ASSUME AnyInv, NEW o \in Objects, NEW i \in Interfaces, Claim(o, i)
  PROVE  AnyInv'
<1> USE DEF AnyInv
<1>1. PICK m \in Maps : /\ ifmap' = [ifmap EXCEPT ![o] = m]
                        /\ count' = [count EXCEPT ![m][i] = @ + 1]
  BY DEF Claim, TypeOK
<1>2. /\ mine' = [mine EXCEPT ![o] = @ \cup {i}]
      /\ held' = [held EXCEPT ![handle[o]] = @ \cup {i}] \/ held' = held
      /\ UNCHANGED <<life, device, handle, refcount, opened, devrefs, fault>>
      /\ handle[o] \in Handles /\ Live(o)
  BY DEF Claim, TypeOK
<1>3. TypeOK'
  <2>1. count' \in [Maps -> [Interfaces -> Nat]]
    BY <1>1 DEF TypeOK
  <2>2. ifmap' \in [Objects -> Maps \cup {NULL}]
    BY <1>1 DEF TypeOK
  <2>3. mine' \in [Objects -> SUBSET Interfaces]
    BY <1>2 DEF TypeOK
  <2>4. held' \in [Handles -> SUBSET Interfaces]
    BY <1>2 DEF TypeOK
  <2> QED
    BY <1>2, <2>1, <2>2, <2>3, <2>4 DEF TypeOK
<1>4. NoneEmpty'
  BY <1>1, <1>2 DEF NoneEmpty, Live, TypeOK
<1>5. DeviceRefsExact' /\ HandleReachable'
  BY <1>2 DEF DeviceRefsExact, HandleReachable, Sharers, Holders
<1> QED
  BY <1>3, <1>4, <1>5

LEMMA AnyRelease ==
  ASSUME AnyInv, NEW o \in Objects, NEW i \in Interfaces, Release(o, i)
  PROVE  AnyInv'
<1> USE DEF AnyInv
<1>1. CanRelease(o, {i}) /\ Live(o)
      /\ UNCHANGED <<life, device, handle, refcount, opened, devrefs, fault>>
  BY DEF Release
<1>2. TypeOK'
  <2>1. count' \in [Maps -> [Interfaces -> Nat]]
    BY <1>1, LoweredType DEF Release
  <2>2. ifmap' \in [Objects -> Maps \cup {NULL}]
    BY DEF Release, MapAfter, TypeOK
  <2>3. mine' \in [Objects -> SUBSET Interfaces]
    BY DEF Release, TypeOK
  <2>4. held' \in [Handles -> SUBSET Interfaces]
    BY DEF Release, TypeOK
  <2> QED
    BY <1>1, <2>1, <2>2, <2>3, <2>4 DEF TypeOK
<1>3. NoneEmpty'
  BY <1>1 DEF Release, NoneEmpty, Live, TypeOK
<1>4. DeviceRefsExact' /\ HandleReachable'
  BY <1>1 DEF DeviceRefsExact, HandleReachable, Sharers, Holders
<1> QED
  BY <1>2, <1>3, <1>4

(* Whatever the client does, every step keeps the invariant.               *)
(* A transfer, a request for the configuration and a reset change no more  *)
(* than fault.                                                             *)
LEMMA HandleUsed ==
  ASSUME NEW o \in Objects, Transfer(o) \/ Configure(o) \/ Reset(o)
  PROVE  UseHandle(o)
BY DEF Transfer, Configure, Reset

LEMMA AnyStep ==
  ASSUME AnyInv, [Next]_vars
  PROVE  AnyInv'
<1>1. CASE UNCHANGED vars
  BY <1>1 DEF vars, objectVars, heapVars, libusbVars, AnyInv, TypeOK, NoneEmpty,
              Live, DeviceRefsExact, HandleReachable, Sharers, Holders
<1>2. CASE Next
  <2>1. ASSUME NEW o \in Objects, Undefined(o)
        PROVE  AnyInv'
    BY <2>1 DEF Undefined, objectVars, heapVars, libusbVars, AnyInv, TypeOK,
                NoneEmpty, Live, DeviceRefsExact, HandleReachable, Sharers,
                Holders
  <2>2. ASSUME NEW o \in Objects, UseHandle(o)
        PROVE  AnyInv'
    BY <2>2 DEF UseHandle, StaleHandle, objectVars, heapVars, libusbVars,
                AnyInv, TypeOK, NoneEmpty, Live, DeviceRefsExact,
                HandleReachable, Sharers, Holders
  <2> QED
    BY <1>2, <2>1, <2>2, HandleUsed, AnyConstructDefault,
       AnyConstructFromUsb, AnyCopyConstruct, AnyCopyAssign, AnyMoveConstruct, AnyMoveAssign, AnyDestroy, AnyOpen,
       AnyClose, AnyClaim, AnyRelease DEF Next
<1> QED
  BY <1>1, <1>2

LEMMA AnyInit == Init => AnyInv
<1> SUFFICES ASSUME Init PROVE AnyInv
  OBVIOUS
<1>1. TypeOK
  BY DEF Init, TypeOK
<1>2. NoneEmpty
  BY DEF Init, NoneEmpty
<1>3. /\ \A d \in UsbDevices : Holders(device, d) = {}
      /\ \A h \in Handles : Sharers(h) = {}
  BY ConstantsAssumption DEF Init, Sharers, Holders
<1>4. Cardinality({}) = 0
  BY FS_EmptySet
<1>5. DeviceRefsExact
  BY <1>3, <1>4 DEF Init, DeviceRefsExact
<1>6. HandleReachable
  BY <1>3, <1>4 DEF Init, HandleReachable
<1> QED
  BY <1>1, <1>2, <1>5, <1>6 DEF AnyInv

LEMMA AnyInvariant == Spec => []AnyInv
BY AnyInit, AnyStep, PTL DEF Spec

(* Every variable of Device keeps its type, whatever the client does: no   *)
(* counter of src/device.cpp ever falls below zero.                        *)
THEOREM TypeCorrect == Spec => []TypeOK
BY AnyInvariant, PTL DEF AnyInv

(* Copies, moves, assignments and destructors give back every libusb       *)
(* device reference exactly once, whatever the client does.                *)
THEOREM DeviceRefsAlwaysExact == Spec => []DeviceRefsExact
BY AnyInvariant, PTL DEF AnyInv

(* No open handle leaks, whatever the client does.                         *)
THEOREM HandleAlwaysReachable == Spec => []HandleReachable
BY AnyInvariant, PTL DEF AnyInv

-----------------------------------------------------------------------------
(* A client that closes only unshared Devices, copies only Devices without *)
(* claims, and claims no interface twice through one Device.  It may claim *)
(* an interface another Device with the same handle has claimed.           *)
Orderly == Habits \subseteq {"claim_shared", "reset_shared"}

(* No two objects share an interface map.                                  *)
MapsOwned ==
  \A o, p \in Objects : ifmap[o] # NULL /\ ifmap[o] = ifmap[p] => o = p

(* The map of an object counts once each interface the object claimed, and *)
(* an object without claims has no map.                                    *)
MapsExact ==
  \A o \in Objects :
    /\ ifmap[o] = NULL <=> mine[o] = {}
    /\ ifmap[o] # NULL =>
         \A i \in Interfaces :
           count[ifmap[o]][i] = IF i \in mine[o] THEN 1 ELSE 0

(* Only an object with a handle has claims.                                *)
ClaimsOpen == \A o \in Objects : mine[o] # {} => handle[o] # NULL

OwnInv ==
  /\ HandleCountExact
  /\ MapsOwned
  /\ MapsExact
  /\ ClaimsOpen
  /\ HeldIsClaimed
  /\ NoFault

(* An object's handle and map are never stale, so it can always be closed. *)
LEMMA NeverStale ==
  ASSUME TypeOK, OwnInv, NEW o \in Objects
  PROVE  /\ ~StaleHandle(o)
         /\ ~StaleMap(o)
         /\ \A S \in SUBSET mine[o] : CanRelease(o, S) /\ Released(o, S) = S
         /\ CanClose(o)
<1> USE DEF OwnInv
<1>1. ~StaleHandle(o)
  <2> SUFFICES ASSUME handle[o] # NULL
               PROVE  refcount[handle[o]] # 0
    BY DEF StaleHandle
  <2>1. handle[o] \in Handles /\ o \in Sharers(handle[o])
    BY DEF TypeOK, Sharers, Holders
  <2>2. Cardinality(Sharers(handle[o])) # 0
    BY <2>1, HoldersFinite, FS_EmptySet DEF Sharers
  <2> QED
    BY <2>1, <2>2 DEF HandleCountExact
<1>2. ifmap[o] # NULL => \E i \in Interfaces : count[ifmap[o]][i] # 0
  BY DEF MapsExact, TypeOK
<1>3. ~StaleMap(o)
  BY <1>2 DEF StaleMap, FreeMap
<1>4. ASSUME NEW S \in SUBSET mine[o]
      PROVE  CanRelease(o, S) /\ Released(o, S) = S
  <2>1. \A i \in S : ifmap[o] # NULL /\ count[ifmap[o]][i] = 1
    BY <1>4 DEF MapsExact, TypeOK
  <2> QED
    BY <1>1, <2>1 DEF CanRelease, Released
<1> QED
  BY <1>1, <1>3, <1>4 DEF CanClose

(* Closing empties the map of the object and leaves the maps of the others *)
(* alone; what stays claimed in libusb was claimed by another object.      *)
LEMMA CloseImplOwn ==
  ASSUME TypeOK, OwnInv, NEW o \in Objects, NEW rc, CloseImpl(o, rc)
  PROVE  /\ \A q \in Objects \ {o} : ifmap[q] # NULL =>
              count'[ifmap[q]] = count[ifmap[q]]
         /\ \A h \in Handles : \A i \in held'[h] :
              \E q \in Objects \ {o} : handle[q] = h /\ i \in mine[q]
<1> USE DEF OwnInv
<1>1. /\ ifmap \in [Objects -> Maps \cup {NULL}]
      /\ count \in [Maps -> [Interfaces -> Nat]]
      /\ count' = Lowered(o, mine[o])
  BY DEF TypeOK, CloseImpl
<1>2. ASSUME NEW q \in Objects \ {o}, ifmap[q] # NULL
      PROVE  count'[ifmap[q]] = count[ifmap[q]]
  <2>1. ifmap[q] # ifmap[o]
    BY <1>2 DEF MapsOwned
  <2> QED
    BY <1>1, <1>2, <2>1 DEF Lowered
<1>3. ASSUME NEW h \in Handles, NEW i \in held'[h]
      PROVE  \E q \in Objects \ {o} : handle[q] = h /\ i \in mine[q]
  <2>1. i \in held[h] /\ (handle[o] = h => i \notin mine[o])
    <3>1. Released(o, mine[o]) = mine[o]
      BY NeverStale
    <3>2. /\ held \in [Handles -> SUBSET Interfaces]
          /\ handle[o] \in Handles \cup {NULL}
          /\ NULL \notin Handles
      BY ConstantsAssumption DEF TypeOK
    <3>3. CASE handle[o] # h
      <4>1. held'[h] = held[h]
        BY <3>2, <3>3 DEF CloseImpl
      <4> QED
        BY <1>3, <3>3, <4>1
    <3>4. CASE handle[o] = h
      <4>1. held'[h] = IF LastShare(o, rc) THEN {} ELSE held[h] \ mine[o]
        BY <3>1, <3>2, <3>4 DEF CloseImpl
      <4> QED
        BY <1>3, <4>1
    <3> QED
      BY <3>3, <3>4
  <2>2. PICK q \in Objects : handle[q] = h /\ i \in mine[q]
    BY <2>1 DEF HeldIsClaimed, Sharers, Holders
  <2> QED
    BY <2>1, <2>2
<1> QED
  BY <1>2, <1>3

(* The invariant after an object o has been emptied or replaced by an      *)
(* object without claims, and the others left alone.                       *)
LEMMA OwnKept ==
  ASSUME TypeOK, OwnInv, NEW o \in Objects,
         mine'[o] = {}, ifmap'[o] = NULL,
         \A q \in Objects \ {o} :
           mine'[q] = mine[q] /\ ifmap'[q] = ifmap[q] /\ handle'[q] = handle[q],
         \A q \in Objects \ {o} : ifmap[q] # NULL =>
           count'[ifmap[q]] = count[ifmap[q]],
         \A h \in Handles : \A i \in held'[h] :
           \E q \in Objects \ {o} : handle[q] = h /\ i \in mine[q]
  PROVE  MapsOwned' /\ MapsExact' /\ ClaimsOpen' /\ HeldIsClaimed'
<1> USE DEF OwnInv
<1>1. MapsOwned'
  BY DEF MapsOwned
<1>2. MapsExact'
  BY DEF MapsExact
<1>3. ClaimsOpen'
  BY DEF ClaimsOpen
<1>4. HeldIsClaimed'
  BY DEF HeldIsClaimed, Sharers, Holders
<1> QED
  BY <1>1, <1>2, <1>3, <1>4

(* The invariant after the Impl of p became that of o.                     *)
LEMMA OwnMoved ==
  ASSUME TypeOK, OwnInv, NEW o \in Objects, NEW p \in Objects, o # p,
         TakeImpl(o, p),
         \A q \in Objects \ {o} : ifmap[q] # NULL =>
           count'[ifmap[q]] = count[ifmap[q]],
         \A h \in Handles : \A i \in held'[h] :
           \E q \in Objects \ {o} : handle[q] = h /\ i \in mine[q]
  PROVE  MapsOwned' /\ MapsExact' /\ ClaimsOpen' /\ HeldIsClaimed'
<1> USE DEF OwnInv
<1>1. /\ mine'[o] = mine[p] /\ ifmap'[o] = ifmap[p] /\ handle'[o] = handle[p]
      /\ mine'[p] = {} /\ ifmap'[p] = NULL
      /\ \A q \in Objects :
           \/ q = o
           \/ q = p
           \/ mine'[q] = mine[q] /\ ifmap'[q] = ifmap[q]
                /\ handle'[q] = handle[q]
  <2>1. /\ mine' = [mine EXCEPT ![o] = mine[p], ![p] = {}]
        /\ ifmap' = [ifmap EXCEPT ![o] = ifmap[p], ![p] = NULL]
        /\ handle' = [handle EXCEPT ![o] = handle[p], ![p] = NULL]
    BY DEF TakeImpl
  <2>2. mine'[o] = mine[p] /\ mine'[p] = {}
          /\ \A q \in Objects : q = o \/ q = p \/ mine'[q] = mine[q]
    BY <2>1 DEF TypeOK
  <2>3. ifmap'[o] = ifmap[p] /\ ifmap'[p] = NULL
          /\ \A q \in Objects : q = o \/ q = p \/ ifmap'[q] = ifmap[q]
    BY <2>1 DEF TypeOK
  <2>4. handle'[o] = handle[p]
          /\ \A q \in Objects : q = o \/ q = p \/ handle'[q] = handle[q]
    BY <2>1 DEF TypeOK
  <2> QED
    BY <2>2, <2>3, <2>4
<1>2. MapsOwned'
  BY <1>1 DEF MapsOwned
<1>3. MapsExact'
  <2>1. \A q \in Objects : ifmap'[q] # NULL =>
          \E r \in Objects \ {o} : ifmap'[q] = ifmap[r] /\ mine'[q] = mine[r]
    BY <1>1
  <2>2. \A q \in Objects : ifmap'[q] = NULL <=> mine'[q] = {}
    BY <1>1 DEF MapsExact
  <2> QED
    BY <2>1, <2>2 DEF MapsExact
<1>4. ClaimsOpen'
  BY <1>1 DEF ClaimsOpen
<1>5. HeldIsClaimed'
  <2> SUFFICES ASSUME NEW h \in Handles, NEW i \in held'[h]
               PROVE  \E r \in Objects : handle'[r] = h /\ i \in mine'[r]
    BY DEF HeldIsClaimed, Sharers, Holders
  <2>1. PICK q \in Objects \ {o} : handle[q] = h /\ i \in mine[q]
    OBVIOUS
  <2> QED
    BY <1>1, <2>1
<1> QED
  BY <1>2, <1>3, <1>4, <1>5

LEMMA OwnCountAdded ==
  ASSUME TypeOK, TypeOK', HandleCountExact, NEW o \in Objects,
         \A q \in Objects \ {o} : handle'[q] = handle[q],
         \A h \in Handles :
           refcount'[h] = refcount[h] - Hit(handle[o], h) + Hit(handle'[o], h)
  PROVE  HandleCountExact'
<1> SUFFICES ASSUME NEW h \in Handles
             PROVE  refcount'[h] = Cardinality(Sharers(h)')
  BY DEF HandleCountExact
<1>1. Cardinality(Sharers(h)')
        = Cardinality(Sharers(h)) - Hit(handle[o], h) + Hit(handle'[o], h)
  BY SharersAdded
<1> QED
  BY <1>1 DEF HandleCountExact

LEMMA OwnCountMoved ==
  ASSUME TypeOK, TypeOK', HandleCountExact,
         NEW o \in Objects, NEW p \in Objects, o # p,
         handle'[o] = handle[p], handle'[p] = NULL,
         \A q \in Objects : q = o \/ q = p \/ handle'[q] = handle[q],
         \A h \in Handles : refcount'[h] = refcount[h] - Hit(handle[o], h)
  PROVE  HandleCountExact'
<1> SUFFICES ASSUME NEW h \in Handles
             PROVE  refcount'[h] = Cardinality(Sharers(h)')
  BY DEF HandleCountExact
<1>1. Cardinality(Sharers(h)') = Cardinality(Sharers(h)) - Hit(handle[o], h)
  BY SharersMoved
<1> QED
  BY <1>1 DEF HandleCountExact

(* The invariant of the orderly client: one lemma for each action.         *)
LEMMA OwnCopyConstruct ==
  ASSUME Orderly, AnyInv, AnyInv', OwnInv,
         NEW o \in Objects, NEW p \in Objects, CopyConstruct(o, p)
  PROVE  OwnInv'
<1> USE DEF AnyInv
<1>1. /\ NULL \notin Handles /\ handle[o] = NULL /\ o # p
      /\ mine[o] = {} /\ mine[p] = {} /\ ifmap[p] = NULL
      /\ handle[p] \in Handles \cup {NULL}
  BY ConstantsAssumption
     DEF Orderly, CopyConstruct, MayCopy, NoneEmpty, Live, OwnInv, MapsExact,
         TypeOK
<1>2. /\ handle'[o] = handle[p]
      /\ \A q \in Objects \ {o} : handle'[q] = handle[q]
      /\ mine'[o] = {} /\ ifmap'[o] = NULL
      /\ \A q \in Objects \ {o} : mine'[q] = mine[q] /\ ifmap'[q] = ifmap[q]
  BY <1>1 DEF CopyConstruct, TypeOK
<1>3. \A h \in Handles :
        refcount'[h] = refcount[h] - Hit(handle[o], h) + Hit(handle'[o], h)
  BY <1>1, <1>2 DEF CopyConstruct, Retain, Hit, TypeOK
<1>4. HandleCountExact'
  BY <1>2, <1>3, OwnCountAdded DEF OwnInv
<1>5. count' = count /\ held' = held /\ fault' = fault
  BY DEF CopyConstruct
<1>6. \A h \in Handles : \A i \in held'[h] :
        \E q \in Objects \ {o} : handle[q] = h /\ i \in mine[q]
  BY <1>1, <1>5 DEF OwnInv, HeldIsClaimed, Sharers, Holders
<1>7. MapsOwned' /\ MapsExact' /\ ClaimsOpen' /\ HeldIsClaimed'
  BY <1>2, <1>5, <1>6, OwnKept
<1> QED
  BY <1>4, <1>5, <1>7 DEF OwnInv, NoFault

LEMMA OwnCopyAssign ==
  ASSUME Orderly, AnyInv, AnyInv', OwnInv,
         NEW o \in Objects, NEW p \in Objects, CopyAssign(o, p)
  PROVE  OwnInv'
<1> USE DEF AnyInv
<1> DEFINE rc == Retain(refcount, handle[p])
<1>1. /\ CanRelease(o, mine[o]) /\ CloseImpl(o, rc)
      /\ NULL \notin Handles /\ mine[p] = {} /\ ifmap[p] = NULL
      /\ handle[o] \in Handles \cup {NULL}
      /\ handle[p] \in Handles \cup {NULL}
      /\ handle[o] # NULL => refcount[handle[o]] > 0
  BY ConstantsAssumption
     DEF Orderly, CopyAssign, CanClose, StaleHandle, MayCopy, OwnInv, MapsExact,
         TypeOK
<1>2. /\ rc \in [Handles -> Nat]
      /\ \A h \in Handles : rc[h] = refcount[h] + Hit(handle[p], h)
  BY <1>1 DEF Retain, Hit, TypeOK
<1>3. handle[o] # NULL => rc[handle[o]] > 0
  BY <1>1, <1>2 DEF Hit, TypeOK
<1> HIDE DEF rc
<1>4. \A h \in Handles : refcount'[h] = rc[h] - Hit(handle[o], h)
  BY <1>1, <1>2, <1>3, CloseImplCounts
<1>5. /\ handle'[o] = handle[p]
      /\ \A q \in Objects \ {o} : handle'[q] = handle[q]
      /\ mine'[o] = {} /\ ifmap'[o] = NULL
      /\ \A q \in Objects \ {o} : mine'[q] = mine[q] /\ ifmap'[q] = ifmap[q]
  BY <1>1 DEF CopyAssign, TypeOK
<1>6. HandleCountExact'
  <2>1. \A h \in Handles :
          refcount'[h] = refcount[h] - Hit(handle[o], h) + Hit(handle'[o], h)
    BY <1>2, <1>4, <1>5 DEF Hit, TypeOK
  <2> QED
    BY <1>5, <2>1, OwnCountAdded DEF OwnInv
<1>7. MapsOwned' /\ MapsExact' /\ ClaimsOpen' /\ HeldIsClaimed'
  BY <1>1, <1>5, CloseImplOwn, OwnKept
<1>8. fault' = fault
  BY DEF CopyAssign
<1> QED
  BY <1>6, <1>7, <1>8 DEF OwnInv, NoFault

LEMMA OwnMoveConstruct ==
  ASSUME AnyInv, AnyInv', OwnInv,
         NEW o \in Objects, NEW p \in Objects, MoveConstruct(o, p)
  PROVE  OwnInv'
<1> USE DEF AnyInv
<1>1. /\ TakeImpl(o, p) /\ o # p /\ handle[o] = NULL /\ mine[o] = {}
      /\ UNCHANGED <<refcount, count, held, fault>> /\ NULL \notin Handles
  BY ConstantsAssumption
     DEF MoveConstruct, Exists, Live, NoneEmpty, heapVars, libusbVars
<1>2. /\ handle'[o] = handle[p] /\ handle'[p] = NULL
      /\ \A q \in Objects : q = o \/ q = p \/ handle'[q] = handle[q]
  BY <1>1 DEF TakeImpl, TypeOK
<1>3. \A h \in Handles : refcount'[h] = refcount[h] - Hit(handle[o], h)
  BY <1>1 DEF Hit, TypeOK
<1>4. HandleCountExact'
  BY <1>1, <1>2, <1>3, OwnCountMoved DEF OwnInv
<1>5. \A h \in Handles : \A i \in held'[h] :
        \E q \in Objects \ {o} : handle[q] = h /\ i \in mine[q]
  BY <1>1 DEF OwnInv, HeldIsClaimed, Sharers, Holders
<1>6. MapsOwned' /\ MapsExact' /\ ClaimsOpen' /\ HeldIsClaimed'
  BY <1>1, <1>5, OwnMoved
<1> QED
  BY <1>1, <1>4, <1>6 DEF OwnInv, NoFault

LEMMA OwnMoveAssign ==
  ASSUME AnyInv, AnyInv', OwnInv,
         NEW o \in Objects, NEW p \in Objects, MoveAssign(o, p)
  PROVE  OwnInv'
<1> USE DEF AnyInv
<1>1. TakeImpl(o, p) /\ o # p /\ CanClose(o) /\ CloseImpl(o, refcount)
        /\ fault' = fault
  BY DEF MoveAssign
<1>2. /\ handle'[o] = handle[p] /\ handle'[p] = NULL
      /\ \A q \in Objects : q = o \/ q = p \/ handle'[q] = handle[q]
  BY <1>1 DEF TakeImpl, TypeOK
<1>3. \A h \in Handles : refcount'[h] = refcount[h] - Hit(handle[o], h)
  BY <1>1, CloseImplReachable
<1>4. HandleCountExact'
  BY <1>1, <1>2, <1>3, OwnCountMoved DEF OwnInv
<1>5. MapsOwned' /\ MapsExact' /\ ClaimsOpen' /\ HeldIsClaimed'
  BY <1>1, CloseImplOwn, OwnMoved
<1> QED
  BY <1>1, <1>4, <1>5 DEF OwnInv, NoFault

LEMMA OwnDestroy ==
  ASSUME AnyInv, AnyInv', OwnInv, NEW o \in Objects, Destroy(o)
  PROVE  OwnInv'
<1> USE DEF AnyInv
<1>1. CanClose(o) /\ CloseImpl(o, refcount) /\ fault' = fault
        /\ NULL \notin Handles
  BY ConstantsAssumption DEF Destroy
<1>2. /\ handle'[o] = NULL /\ mine'[o] = {} /\ ifmap'[o] = NULL
      /\ \A q \in Objects \ {o} : handle'[q] = handle[q]
      /\ \A q \in Objects \ {o} : mine'[q] = mine[q] /\ ifmap'[q] = ifmap[q]
  BY DEF Destroy, TypeOK
<1>3. \A h \in Handles :
        refcount'[h] = refcount[h] - Hit(handle[o], h) + Hit(handle'[o], h)
  BY <1>1, <1>2, CloseImplReachable DEF Hit, TypeOK
<1>4. HandleCountExact'
  BY <1>2, <1>3, OwnCountAdded DEF OwnInv
<1>5. MapsOwned' /\ MapsExact' /\ ClaimsOpen' /\ HeldIsClaimed'
  BY <1>1, <1>2, CloseImplOwn, OwnKept
<1> QED
  BY <1>1, <1>4, <1>5 DEF OwnInv, NoFault

LEMMA OwnOpen ==
  ASSUME AnyInv, AnyInv', OwnInv, NEW o \in Objects, Open(o)
  PROVE  OwnInv'
<1> USE DEF AnyInv
<1>1. PICK h \in Handles \ opened :
        /\ handle'   = [handle EXCEPT ![o] = h]
        /\ refcount' = [refcount EXCEPT ![h] = 1]
  BY DEF Open
<1>2. /\ handle[o] = NULL /\ NULL \notin Handles /\ refcount[h] = 0
      /\ UNCHANGED <<mine, ifmap, count, held, fault>>
  BY ConstantsAssumption DEF Open, HandleReachable, TypeOK
<1>3. /\ mine[o] = {} /\ ifmap[o] = NULL
  BY <1>2 DEF OwnInv, ClaimsOpen, MapsExact
<1>4. /\ handle'[o] = h
      /\ \A q \in Objects \ {o} : handle'[q] = handle[q]
      /\ mine'[o] = {} /\ ifmap'[o] = NULL
      /\ \A q \in Objects \ {o} : mine'[q] = mine[q] /\ ifmap'[q] = ifmap[q]
  BY <1>1, <1>2, <1>3 DEF TypeOK
<1>5. \A k \in Handles :
        refcount'[k] = refcount[k] - Hit(handle[o], k) + Hit(handle'[o], k)
  BY <1>1, <1>2, <1>4 DEF Hit, TypeOK
<1>6. HandleCountExact'
  BY <1>4, <1>5, OwnCountAdded DEF OwnInv
<1>7. \A k \in Handles : \A i \in held'[k] :
        \E q \in Objects \ {o} : handle[q] = k /\ i \in mine[q]
  BY <1>2, <1>3 DEF OwnInv, HeldIsClaimed, Sharers, Holders
<1>8. MapsOwned' /\ MapsExact' /\ ClaimsOpen' /\ HeldIsClaimed'
  BY <1>2, <1>4, <1>7, OwnKept
<1> QED
  BY <1>2, <1>6, <1>8 DEF OwnInv, NoFault

LEMMA OwnClose ==
  ASSUME Orderly, AnyInv, AnyInv', OwnInv, NEW o \in Objects, Close(o)
  PROVE  OwnInv'
<1> USE DEF AnyInv
<1>1. CanClose(o) /\ CloseImpl(o, refcount) /\ fault' = fault
        /\ NULL \notin Handles /\ handle[o] \in Handles \cup {NULL}
  BY ConstantsAssumption DEF Close, TypeOK
<1>2. handle[o] # NULL => refcount[handle[o]] = 1
  <2>1. handle[o] # NULL => Sharers(handle[o]) = {o}
    BY DEF Orderly, Close, Shared
  <2> QED
    BY <1>1, <2>1, FS_Singleton DEF OwnInv, HandleCountExact
<1>3. handle' = [handle EXCEPT ![o] = NULL]
  <2>1. handle[o] # NULL => LastShare(o, refcount)
    BY <1>1, <1>2 DEF LastShare, Drop, TypeOK
  <2> QED
    BY <2>1 DEF Close, TypeOK
<1>4. ifmap' = [ifmap EXCEPT ![o] = NULL]
  <2>1. ifmap[o] # NULL => MapEmptied(o, mine[o])
    BY DEF OwnInv, MapsExact, MapEmptied, Lowered, TypeOK
  <2>2. MapAfter(o, mine[o]) = NULL
    BY <2>1 DEF MapAfter
  <2> QED
    BY <2>2 DEF Close
<1>5. /\ handle'[o] = NULL /\ mine'[o] = {} /\ ifmap'[o] = NULL
      /\ \A q \in Objects \ {o} : handle'[q] = handle[q]
      /\ \A q \in Objects \ {o} : mine'[q] = mine[q] /\ ifmap'[q] = ifmap[q]
  BY <1>3, <1>4 DEF Close, TypeOK
<1>6. \A h \in Handles :
        refcount'[h] = refcount[h] - Hit(handle[o], h) + Hit(handle'[o], h)
  BY <1>1, <1>5, CloseImplReachable DEF Hit, TypeOK
<1>7. HandleCountExact'
  BY <1>5, <1>6, OwnCountAdded DEF OwnInv
<1>8. MapsOwned' /\ MapsExact' /\ ClaimsOpen' /\ HeldIsClaimed'
  BY <1>1, <1>5, CloseImplOwn, OwnKept
<1> QED
  BY <1>1, <1>7, <1>8 DEF OwnInv, NoFault

LEMMA OwnClaim ==
  ASSUME Orderly, AnyInv, AnyInv', OwnInv,
         NEW o \in Objects, NEW i \in Interfaces, Claim(o, i)
  PROVE  OwnInv'
<1> USE DEF AnyInv
<1>1. PICK m \in IF ifmap[o] = NULL THEN {n \in Maps : FreeMap(n)}
                 ELSE {ifmap[o]} :
        /\ ifmap' = [ifmap EXCEPT ![o] = m]
        /\ count' = [count EXCEPT ![m][i] = @ + 1]
  BY DEF Claim
<1>2. /\ mine' = [mine EXCEPT ![o] = @ \cup {i}]
      /\ held' = [held EXCEPT ![handle[o]] = @ \cup {i}] \/ held' = held
      /\ UNCHANGED <<handle, refcount, fault>>
      /\ handle[o] \in Handles /\ i \notin mine[o]
      /\ ConstantsAssumption
  BY ConstantsAssumption DEF Claim, Orderly, TypeOK
<1>3. m \in Maps /\ m # NULL /\ \A q \in Objects \ {o} : ifmap[q] # m
  <2>1. \A q \in Objects : ifmap[q] # NULL => ~FreeMap(ifmap[q])
    BY DEF OwnInv, MapsExact, FreeMap, TypeOK
  <2>2. m \in Maps
    BY <1>1 DEF TypeOK
  <2>3. m # NULL
    BY <2>2, ConstantsAssumption
  <2>4. CASE ifmap[o] = NULL
    BY <1>1, <2>1, <2>2, <2>3, <2>4
  <2>5. CASE ifmap[o] # NULL
    BY <1>1, <2>2, <2>3, <2>5 DEF OwnInv, MapsOwned
  <2> QED
    BY <2>4, <2>5
<1>4. /\ ifmap'[o] = m /\ mine'[o] = mine[o] \cup {i}
      /\ \A q \in Objects \ {o} : ifmap'[q] = ifmap[q] /\ mine'[q] = mine[q]
      /\ \A n \in Maps : n # m => count'[n] = count[n]
      /\ \A j \in Interfaces :
           count'[m][j] = IF j = i THEN count[m][j] + 1 ELSE count[m][j]
  BY <1>1, <1>2, <1>3 DEF TypeOK
<1>5. \A j \in Interfaces : count[m][j] = IF j \in mine[o] THEN 1 ELSE 0
  <2>1. CASE ifmap[o] = NULL
    BY <1>1, <2>1 DEF FreeMap, OwnInv, MapsExact
  <2>2. CASE ifmap[o] # NULL
    BY <1>1, <2>2 DEF OwnInv, MapsExact
  <2> QED
    BY <2>1, <2>2
<1>6. MapsOwned'
  BY <1>3, <1>4 DEF OwnInv, MapsOwned
<1>7. MapsExact'
  <2> SUFFICES ASSUME NEW q \in Objects
               PROVE  /\ ifmap'[q] = NULL <=> mine'[q] = {}
                      /\ ifmap'[q] # NULL => \A j \in Interfaces :
                           count'[ifmap'[q]][j] = IF j \in mine'[q] THEN 1 ELSE 0
    BY DEF MapsExact
  <2>1. CASE q = o
    BY <1>2, <1>3, <1>4, <1>5, <2>1
  <2>2. CASE q # o
    BY <1>3, <1>4, <2>2 DEF OwnInv, MapsExact, TypeOK
  <2> QED
    BY <2>1, <2>2
<1>8. ClaimsOpen'
  BY <1>2, <1>4, ConstantsAssumption DEF OwnInv, ClaimsOpen
<1>9. HeldIsClaimed'
  <2> SUFFICES ASSUME NEW h \in Handles, NEW j \in held'[h]
               PROVE  \E q \in Objects : handle[q] = h /\ j \in mine'[q]
    BY <1>2 DEF HeldIsClaimed, Sharers, Holders
  <2>1. j \in held[h] \/ (h = handle[o] /\ j = i)
    BY <1>2 DEF TypeOK
  <2>2. \A k \in held[h] : \E q \in Objects : handle[q] = h /\ k \in mine[q]
    BY DEF OwnInv, HeldIsClaimed, Sharers, Holders
  <2> QED
    BY <1>4, <2>1, <2>2
<1>10. HandleCountExact'
  BY <1>2 DEF OwnInv, HandleCountExact, Sharers, Holders
<1> QED
  BY <1>2, <1>6, <1>7, <1>8, <1>9, <1>10 DEF OwnInv, NoFault

LEMMA OwnRelease ==
  ASSUME AnyInv, AnyInv', OwnInv,
         NEW o \in Objects, NEW i \in Interfaces, Release(o, i)
  PROVE  OwnInv'
<1> USE DEF AnyInv
<1>1. /\ i \in mine[o] /\ ifmap[o] \in Maps /\ handle[o] \in Handles
      /\ NULL \notin Maps
      /\ UNCHANGED <<handle, refcount, fault>>
  BY ConstantsAssumption
     DEF Release, OwnInv, MapsExact, ClaimsOpen, TypeOK
<1>2. \A j \in Interfaces :
        count[ifmap[o]][j] = IF j \in mine[o] THEN 1 ELSE 0
  BY <1>1 DEF OwnInv, MapsExact
<1>3. /\ \A n \in Maps : n # ifmap[o] => count'[n] = count[n]
      /\ \A j \in Interfaces :
           count'[ifmap[o]][j] = IF j \in mine[o] \ {i} THEN 1 ELSE 0
      /\ count' = Lowered(o, {i})
  BY <1>1, <1>2 DEF Release, Lowered, TypeOK
<1>4. /\ mine'[o] = mine[o] \ {i}
      /\ \A q \in Objects \ {o} : ifmap'[q] = ifmap[q] /\ mine'[q] = mine[q]
      /\ ifmap'[o] = MapAfter(o, {i})
  BY DEF Release, TypeOK
<1>5. ifmap'[o] = IF mine[o] = {i} THEN NULL ELSE ifmap[o]
  <2>1. MapEmptied(o, {i}) <=> mine[o] = {i}
    <3>1. mine[o] \subseteq Interfaces
      BY DEF TypeOK
    <3>2. MapEmptied(o, {i}) <=>
            \A j \in Interfaces : count'[ifmap[o]][j] = 0
      BY <1>3 DEF MapEmptied
    <3> QED
      BY <1>1, <1>3, <3>1, <3>2
  <2> QED
    BY <1>4, <2>1 DEF MapAfter
<1>6. \A q \in Objects \ {o} : ifmap[q] # ifmap[o]
  BY <1>1 DEF OwnInv, MapsOwned
<1>7. MapsOwned'
  BY <1>4, <1>5, <1>6 DEF OwnInv, MapsOwned
<1>8. MapsExact'
  <2> SUFFICES ASSUME NEW q \in Objects
               PROVE  /\ ifmap'[q] = NULL <=> mine'[q] = {}
                      /\ ifmap'[q] # NULL => \A j \in Interfaces :
                           count'[ifmap'[q]][j] = IF j \in mine'[q] THEN 1 ELSE 0
    BY DEF MapsExact
  <2>1. CASE q = o
    BY <1>1, <1>3, <1>4, <1>5, <2>1
  <2>2. CASE q # o
    <3>1. ifmap'[q] = ifmap[q] /\ mine'[q] = mine[q] /\ ifmap[q] # ifmap[o]
            /\ ifmap[q] \in Maps \cup {NULL}
      BY <1>4, <1>6, <2>2 DEF TypeOK
    <3>2. ifmap[q] # NULL => count'[ifmap[q]] = count[ifmap[q]]
      BY <1>3, <3>1
    <3> QED
      BY <3>1, <3>2 DEF OwnInv, MapsExact
  <2> QED
    BY <2>1, <2>2
<1>9. ClaimsOpen'
  BY <1>1, <1>4 DEF OwnInv, ClaimsOpen
<1>10. HeldIsClaimed'
  <2> SUFFICES ASSUME NEW h \in Handles, NEW j \in held'[h]
               PROVE  \E q \in Objects : handle[q] = h /\ j \in mine'[q]
    BY <1>1 DEF HeldIsClaimed, Sharers, Holders
  <2>1. Released(o, {i}) = {i}
    BY <1>1, <1>2 DEF Released, TypeOK
  <2>2. j \in held[h] /\ (h = handle[o] => j # i)
    BY <1>1, <2>1 DEF Release, TypeOK
  <2>3. PICK q \in Objects : handle[q] = h /\ j \in mine[q]
    BY <2>2 DEF OwnInv, HeldIsClaimed, Sharers, Holders
  <2>4. j \in mine'[q]
    BY <1>4, <2>2, <2>3
  <2> QED
    BY <2>3, <2>4
<1>11. HandleCountExact'
  BY <1>1 DEF OwnInv, HandleCountExact, Sharers, Holders
<1> QED
  BY <1>1, <1>7, <1>8, <1>9, <1>10, <1>11 DEF OwnInv, NoFault

LEMMA OwnStep ==
  ASSUME Orderly, AnyInv, AnyInv', OwnInv, [Next]_vars
  PROVE  OwnInv'
<1>1. ASSUME UNCHANGED <<device, handle, mine, ifmap, refcount, count, held,
                         fault>>
      PROVE  OwnInv'
  BY <1>1 DEF OwnInv, HandleCountExact, MapsOwned, MapsExact, ClaimsOpen,
              HeldIsClaimed, NoFault, Sharers, Holders
<1>2. CASE UNCHANGED vars
  BY <1>1, <1>2 DEF vars, objectVars, heapVars, libusbVars
<1>3. ASSUME NEW o \in Objects, ConstructDefault(o)
      PROVE  OwnInv'
  BY <1>1, <1>3 DEF ConstructDefault, heapVars, libusbVars
<1>4. ASSUME NEW o \in Objects, NEW d \in UsbDevices, ConstructFromUsb(o, d)
      PROVE  OwnInv'
  BY <1>4 DEF ConstructFromUsb, heapVars, OwnInv, HandleCountExact, MapsOwned,
              MapsExact, ClaimsOpen, HeldIsClaimed, NoFault, Sharers, Holders
<1>5. ASSUME NEW o \in Objects, Undefined(o)
      PROVE  OwnInv'
  <2>1. ~StaleHandle(o) /\ ~StaleMap(o) /\ CanRelease(o, mine[o])
    BY <1>5, NeverStale DEF AnyInv
  <2> QED
    BY <1>5, <2>1 DEF Undefined
<1>6. ASSUME NEW o \in Objects, UseHandle(o)
      PROVE  OwnInv'
  <2>1. ~StaleHandle(o)
    BY <1>6, NeverStale DEF AnyInv, UseHandle
  <2>2. fault \in BOOLEAN /\ ~fault
    BY <1>6 DEF AnyInv, TypeOK, UseHandle, Running
  <2>3. fault' = FALSE
    BY <1>6, <2>1 DEF UseHandle, StaleHandle
  <2>4. fault' = fault
    BY <2>2, <2>3
  <2> QED
    BY <1>1, <1>6, <2>4 DEF UseHandle, objectVars, heapVars, libusbVars
<1> QED
  BY <1>2, <1>3, <1>4, <1>5, <1>6, HandleUsed, OwnCopyConstruct, OwnCopyAssign, OwnMoveConstruct,
     OwnMoveAssign, OwnDestroy, OwnOpen, OwnClose, OwnClaim, OwnRelease
     DEF Next

LEMMA OwnInit == Init => OwnInv
<1> SUFFICES ASSUME Init PROVE OwnInv
  OBVIOUS
<1>1. \A h \in Handles : Sharers(h) = {}
  BY ConstantsAssumption DEF Init, Sharers, Holders
<1>2. Cardinality({}) = 0
  BY FS_EmptySet
<1>3. HandleCountExact
  BY <1>1, <1>2 DEF Init, HandleCountExact
<1> QED
  BY <1>3 DEF Init, OwnInv, MapsOwned, MapsExact, ClaimsOpen, HeldIsClaimed,
              NoFault

LEMMA OwnInvariant ==
  ASSUME Orderly
  PROVE  Spec => []OwnInv
<1>1. OwnInv /\ AnyInv /\ AnyInv' /\ [Next]_vars => OwnInv'
  BY OwnStep
<1> QED
  BY <1>1, OwnInit, AnyInvariant, PTL DEF Spec

(* Nothing stays claimed in libusb that no object claims.                  *)
THEOREM OrderlyLeavesNoClaim ==
  ASSUME Orderly
  PROVE  Spec => []HeldIsClaimed
BY OwnInvariant, PTL DEF OwnInv

-----------------------------------------------------------------------------
(* The careful client: no two Devices with the same handle claim the same  *)
(* interface.                                                              *)

Careful == Habits \subseteq {"reset_shared"}

ClaimsDisjoint ==
  \A o, p \in Objects :
    o # p /\ handle[o] = handle[p] => mine[o] \cap mine[p] = {}

(* An object that takes no claims, or those of p when p loses its own,     *)
(* keeps the claims disjoint.                                              *)
LEMMA DisjointKept ==
  ASSUME ClaimsDisjoint, NEW o \in Objects, mine'[o] = {},
         \A q \in Objects \ {o} : mine'[q] = mine[q] /\ handle'[q] = handle[q]
  PROVE  ClaimsDisjoint'
BY DEF ClaimsDisjoint

LEMMA DisjointMoved ==
  ASSUME TypeOK, ClaimsDisjoint, NEW o \in Objects, NEW p \in Objects, o # p,
         TakeImpl(o, p)
  PROVE  ClaimsDisjoint'
<1>1. /\ mine'[o] = mine[p] /\ mine'[p] = {}
      /\ \A q \in Objects : q = o \/ q = p \/ mine'[q] = mine[q]
  BY DEF TakeImpl, TypeOK
<1>2. /\ handle'[o] = handle[p]
      /\ \A q \in Objects : q = o \/ q = p \/ handle'[q] = handle[q]
  BY DEF TakeImpl, TypeOK
<1> QED
  BY <1>1, <1>2 DEF ClaimsDisjoint

LEMMA DisjointStep ==
  ASSUME Careful, AnyInv, OwnInv, ClaimsDisjoint, [Next]_vars
  PROVE  ClaimsDisjoint'
<1> USE DEF AnyInv
<1>1. ASSUME UNCHANGED <<handle, mine>>
      PROVE  ClaimsDisjoint'
  BY <1>1 DEF ClaimsDisjoint
<1>2. CASE UNCHANGED vars
  BY <1>1, <1>2 DEF vars, objectVars
<1>3. ASSUME NEW o \in Objects,
             \/ ConstructDefault(o)
             \/ \E d \in UsbDevices : ConstructFromUsb(o, d)
             \/ Undefined(o)
             \/ UseHandle(o)
      PROVE  ClaimsDisjoint'
  BY <1>1, <1>3 DEF ConstructDefault, ConstructFromUsb, Undefined, UseHandle,
                    objectVars
<1>4. ASSUME NEW o \in Objects, NEW p \in Objects, CopyConstruct(o, p)
      PROVE  ClaimsDisjoint'
  <2>1. mine'[o] = {} /\ \A q \in Objects \ {o} :
          mine'[q] = mine[q] /\ handle'[q] = handle[q]
    BY <1>4 DEF Careful, CopyConstruct, MayCopy, TypeOK
  <2> QED
    BY <2>1, DisjointKept
<1>5. ASSUME NEW o \in Objects, NEW p \in Objects, CopyAssign(o, p)
      PROVE  ClaimsDisjoint'
  <2>1. mine'[o] = {} /\ \A q \in Objects \ {o} :
          mine'[q] = mine[q] /\ handle'[q] = handle[q]
    BY <1>5 DEF Careful, CopyAssign, MayCopy, TypeOK
  <2> QED
    BY <2>1, DisjointKept
<1>6. ASSUME NEW o \in Objects, NEW p \in Objects,
             MoveConstruct(o, p) \/ MoveAssign(o, p)
      PROVE  ClaimsDisjoint'
  <2>1. o # p /\ TakeImpl(o, p)
    BY <1>6 DEF MoveConstruct, MoveAssign, Exists
  <2> QED
    BY <2>1, DisjointMoved
<1>7. ASSUME NEW o \in Objects, Destroy(o)
      PROVE  ClaimsDisjoint'
  <2>1. mine'[o] = {} /\ \A q \in Objects \ {o} :
          mine'[q] = mine[q] /\ handle'[q] = handle[q]
    BY <1>7 DEF Destroy, TypeOK
  <2> QED
    BY <2>1, DisjointKept
<1>8. ASSUME NEW o \in Objects, Open(o)
      PROVE  ClaimsDisjoint'
  <2>1. PICK h \in Handles : handle' = [handle EXCEPT ![o] = h]
    BY <1>8 DEF Open
  <2>2. handle[o] = NULL /\ mine' = mine
    BY <1>8 DEF Open
  <2>3. mine[o] = {}
    BY <2>2 DEF OwnInv, ClaimsOpen
  <2>4. mine'[o] = {} /\ \A q \in Objects \ {o} :
          mine'[q] = mine[q] /\ handle'[q] = handle[q]
    BY <2>1, <2>2, <2>3 DEF TypeOK
  <2> QED
    BY <2>4, DisjointKept
<1>9. ASSUME NEW o \in Objects, Close(o)
      PROVE  ClaimsDisjoint'
  <2>1. mine'[o] = {} /\ \A q \in Objects \ {o} :
          mine'[q] = mine[q] /\ handle'[q] = handle[q]
    BY <1>9 DEF Close, TypeOK
  <2> QED
    BY <2>1, DisjointKept
<1>10. ASSUME NEW o \in Objects, NEW i \in Interfaces, Claim(o, i)
       PROVE  ClaimsDisjoint'
  <2>1. /\ \A p \in Objects \ {o} : handle[p] = handle[o] => i \notin mine[p]
        /\ handle' = handle /\ mine' = [mine EXCEPT ![o] = @ \cup {i}]
    BY <1>10 DEF Careful, Claim, Sharers, Holders
  <2>2. mine'[o] = mine[o] \cup {i}
          /\ \A q \in Objects \ {o} : mine'[q] = mine[q]
    BY <2>1 DEF TypeOK
  <2> QED
    BY <2>1, <2>2 DEF ClaimsDisjoint
<1>11. ASSUME NEW o \in Objects, NEW i \in Interfaces, Release(o, i)
       PROVE  ClaimsDisjoint'
  BY <1>11 DEF Release, ClaimsDisjoint, TypeOK
<1> QED
  BY <1>2, <1>3, <1>4, <1>5, <1>6, <1>7, <1>8, <1>9, <1>10, <1>11, HandleUsed DEF Next

(* What closing an Impl releases in libusb, no remaining object claims.    *)
LEMMA CloseImplReleases ==
  ASSUME TypeOK, OwnInv, ClaimsDisjoint, NEW o \in Objects, NEW rc,
         CloseImpl(o, rc), NEW h \in Handles, NEW i \in held[h] \ held'[h]
  PROVE  /\ handle[o] = h
         /\ \/ LastShare(o, rc)
            \/ \A q \in Objects \ {o} : handle[q] = h => i \notin mine[q]
<1>1. Released(o, mine[o]) = mine[o]
  BY NeverStale
<1>2. handle[o] \in Handles \cup {NULL} /\ held \in [Handles -> SUBSET Interfaces]
  BY DEF TypeOK
<1>3. handle[o] = h
  BY <1>2 DEF CloseImpl
<1>4. held'[h] = IF LastShare(o, rc) THEN {} ELSE held[h] \ mine[o]
  BY <1>1, <1>2, <1>3, ConstantsAssumption DEF CloseImpl
<1> QED
  BY <1>3, <1>4 DEF ClaimsDisjoint

(* The action of ReleasedByLastClaim.                                      *)
ReleasedByLast ==
  \A h \in Handles : \A i \in held[h] \ held'[h] :
    \A q \in Sharers(h)' : i \notin mine'[q]

(* Closing an Impl satisfies it when every object ends up with no claims,  *)
(* or with those another object had, on the same handle.                   *)
LEMMA CloseReleasedByLast ==
  ASSUME TypeOK, OwnInv, OwnInv', ClaimsDisjoint, NEW o \in Objects, NEW rc,
         CloseImpl(o, rc),
         \A q \in Objects :
           \/ mine'[q] = {}
           \/ \E r \in Objects \ {o} :
                mine'[q] = mine[r] /\ handle'[q] = handle[r]
  PROVE  ReleasedByLast
<1> SUFFICES ASSUME NEW h \in Handles, NEW i \in held[h] \ held'[h],
                    NEW q \in Objects, handle'[q] = h
             PROVE  i \notin mine'[q]
  BY DEF ReleasedByLast, Sharers, Holders
<1>1. handle[o] = h
  BY CloseImplReleases
<1>2. CASE LastShare(o, rc)
  <2>1. refcount'[h] = 0
    BY <1>1, <1>2 DEF LastShare, CloseImpl
  <2>2. Cardinality(Sharers(h)') = 0
    BY <2>1 DEF OwnInv, HandleCountExact
  <2>3. Cardinality(Holders(handle', h)) = 0
    BY <2>2 DEF Sharers, Holders
  <2> QED
    BY <2>3, NoHolder
<1>3. CASE \A r \in Objects \ {o} : handle[r] = h => i \notin mine[r]
  BY <1>3
<1> QED
  BY <1>2, <1>3, CloseImplReleases

LEMMA ReleasedStep ==
  ASSUME Careful, AnyInv, OwnInv, OwnInv', ClaimsDisjoint, [Next]_vars
  PROVE  ReleasedByLast
<1> USE DEF AnyInv
<1>1. ASSUME held' = held
      PROVE  ReleasedByLast
  BY <1>1 DEF ReleasedByLast
<1>2. CASE UNCHANGED vars
  BY <1>1, <1>2 DEF vars, libusbVars
<1>3. ASSUME NEW o \in Objects,
             \/ ConstructDefault(o)
             \/ \E d \in UsbDevices : ConstructFromUsb(o, d)
             \/ \E p \in Objects : CopyConstruct(o, p) \/ MoveConstruct(o, p)
             \/ Open(o)
             \/ Undefined(o)
             \/ UseHandle(o)
      PROVE  ReleasedByLast
  BY <1>1, <1>3 DEF ConstructDefault, ConstructFromUsb, CopyConstruct,
                    MoveConstruct, Open, Undefined, UseHandle, libusbVars
<1>4. ASSUME NEW o \in Objects, NEW p \in Objects, CopyAssign(o, p)
      PROVE  ReleasedByLast
  <2>1. mine'[o] = {} /\ \A q \in Objects \ {o} :
          mine'[q] = mine[q] /\ handle'[q] = handle[q]
    BY <1>4 DEF Careful, CopyAssign, MayCopy, TypeOK
  <2> QED
    BY <1>4, <2>1, CloseReleasedByLast DEF CopyAssign
<1>5. ASSUME NEW o \in Objects, NEW p \in Objects, MoveAssign(o, p)
      PROVE  ReleasedByLast
  <2>1. o # p /\ CloseImpl(o, refcount) /\ TakeImpl(o, p)
    BY <1>5 DEF MoveAssign
  <2>2. /\ mine'[o] = mine[p] /\ mine'[p] = {}
        /\ \A q \in Objects : q = o \/ q = p \/ mine'[q] = mine[q]
    BY <2>1 DEF TakeImpl, TypeOK
  <2>3. /\ handle'[o] = handle[p]
        /\ \A q \in Objects : q = o \/ q = p \/ handle'[q] = handle[q]
    BY <2>1 DEF TakeImpl, TypeOK
  <2>4. \A q \in Objects :
          \/ mine'[q] = {}
          \/ \E r \in Objects \ {o} :
               mine'[q] = mine[r] /\ handle'[q] = handle[r]
    BY <2>1, <2>2, <2>3
  <2> QED
    BY <2>1, <2>4, CloseReleasedByLast
<1>6. ASSUME NEW o \in Objects, Destroy(o)
      PROVE  ReleasedByLast
  <2>1. mine'[o] = {} /\ \A q \in Objects \ {o} :
          mine'[q] = mine[q] /\ handle'[q] = handle[q]
    BY <1>6 DEF Destroy, TypeOK
  <2> QED
    BY <1>6, <2>1, CloseReleasedByLast DEF Destroy
<1>7. ASSUME NEW o \in Objects, Close(o)
      PROVE  ReleasedByLast
  <2>1. mine'[o] = {} /\ \A q \in Objects \ {o} :
          mine'[q] = mine[q] /\ handle'[q] = handle[q]
    BY <1>7 DEF Close, TypeOK
  <2> QED
    BY <1>7, <2>1, CloseReleasedByLast DEF Close
<1>8. ASSUME NEW o \in Objects, NEW i \in Interfaces, Claim(o, i)
      PROVE  ReleasedByLast
  <2>1. \/ held' = held
        \/ held' = [held EXCEPT ![handle[o]] = @ \cup {i}]
    BY <1>8 DEF Claim
  <2> QED
    BY <2>1 DEF ReleasedByLast, TypeOK
<1>9. ASSUME NEW o \in Objects, NEW i \in Interfaces, Release(o, i)
      PROVE  ReleasedByLast
  <2> SUFFICES ASSUME NEW h \in Handles, NEW j \in held[h] \ held'[h],
                      NEW q \in Objects, handle'[q] = h
               PROVE  j \notin mine'[q]
    BY DEF ReleasedByLast, Sharers, Holders
  <2>1. /\ held' = [held EXCEPT ![handle[o]] = @ \ Released(o, {i})]
        /\ handle' = handle /\ mine' = [mine EXCEPT ![o] = @ \ {i}]
        /\ i \in mine[o]
    BY <1>9 DEF Release
  <2>2. handle[o] = h /\ j = i
    BY <2>1 DEF Released, TypeOK
  <2>3. q # o => i \notin mine[q]
    BY <2>1, <2>2 DEF ClaimsDisjoint
  <2> QED
    BY <2>1, <2>2, <2>3 DEF TypeOK
<1> QED
  BY <1>2, <1>3, <1>4, <1>5, <1>6, <1>7, <1>8, <1>9, HandleUsed DEF Next

(* An interface of a careful client is released in libusb only when none   *)
(* of the objects with the handle claims it any more.                      *)
THEOREM CarefulReleasedByLastClaim ==
  ASSUME Careful
  PROVE  Spec => ReleasedByLastClaim
<1>1. Orderly
  BY DEF Careful, Orderly
<1>2. Spec => []OwnInv
  BY <1>1, OwnInvariant
<1>3. Init => ClaimsDisjoint
  BY DEF Init, ClaimsDisjoint
<1>4. AnyInv /\ OwnInv /\ ClaimsDisjoint /\ [Next]_vars => ClaimsDisjoint'
  BY DisjointStep
<1>5. Spec => []ClaimsDisjoint
  BY <1>2, <1>3, <1>4, AnyInvariant, PTL DEF Spec
<1>6. ASSUME AnyInv, OwnInv, OwnInv', ClaimsDisjoint, [Next]_vars
      PROVE  \A h \in Handles : \A i \in held[h] \ held'[h] :
               \A o \in Sharers(h)' : i \notin mine'[o]
  BY <1>6, ReleasedStep DEF ReleasedByLast
<1> QED
  BY <1>2, <1>5, <1>6, AnyInvariant, PTL DEF Spec, ReleasedByLastClaim

=============================================================================
