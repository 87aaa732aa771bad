------------------------ MODULE DeviceSharingProofs ------------------------
(***************************************************************************)
(* Proofs about what Devices share, for a client that calls close() only  *)
(* on a Device that shares its handle with no other: the counter of a      *)
(* handle is the number of its sharers, and the Devices implement          *)
(* SharedResource; and, if it copies no Device that has claims, no pointer *)
(* to a handle or a map is followed after its target was freed.            *)
(***************************************************************************)
EXTENDS DeviceProofs

(* close() of a Device that shares its handle would lower the counter and  *)
(* leave the pointer, so that the destructor lowers it again.              *)
ClosesUnshared == "close_shared" \notin Habits

-----------------------------------------------------------------------------
(* The counter is exact: a lemma for each operation that changes the       *)
(* counter or the pointer to it.                                           *)

LEMMA CountInit == Init => HandleCountExact
<1> SUFFICES ASSUME Init
             PROVE  HandleCountExact
  OBVIOUS
<1>1. \A h \in Handles : Sharers(h) = {}
  BY ConstantsAssumption DEF Init, Sharers, Holders
<1> QED
  BY <1>1, FS_EmptySet DEF Init, HandleCountExact

LEMMA CountUnchanged ==
  ASSUME HandleCountExact, UNCHANGED <<handle, refcount>>
  PROVE  HandleCountExact'
BY DEF HandleCountExact, Sharers, Holders

LEMMA CountCopyConstruct ==
  ASSUME AnyInv, AnyInv', HandleCountExact, NEW o \in Objects,
         NEW p \in Objects, CopyConstruct(o, p)
  PROVE  HandleCountExact'
<1> USE DEF AnyInv
<1>1. /\ NULL \notin Handles /\ handle[o] = NULL
      /\ handle[p] \in Handles \cup {NULL}
      /\ handle' = [handle EXCEPT ![o] = handle[p]]
      /\ refcount' = Retain(refcount, handle[p])
  BY ConstantsAssumption DEF NoneEmpty, Live, CopyConstruct, TypeOK
<1>2. /\ handle'[o] = handle[p]
      /\ \A q \in Objects \ {o} : handle'[q] = handle[q]
  BY <1>1 DEF TypeOK
<1>3. \A h \in Handles :
        refcount'[h] = refcount[h] - Hit(handle[o], h) + Hit(handle'[o], h)
  BY <1>1, <1>2 DEF Retain, Hit, TypeOK
<1> QED
  BY <1>2, <1>3, OwnCountAdded

(* The counter of the new handle is raised before that of the old one is   *)
(* lowered, so that an assignment within one handle does not close it.     *)
LEMMA CountCopyAssign ==
  ASSUME AnyInv, AnyInv', HandleCountExact, NEW o \in Objects,
         NEW p \in Objects, CopyAssign(o, p)
  PROVE  HandleCountExact'
<1> USE DEF AnyInv
<1> DEFINE rc == Retain(refcount, handle[p])
<1>1. /\ NULL \notin Handles
      /\ handle[o] \in Handles \cup {NULL} /\ handle[p] \in Handles \cup {NULL}
      /\ handle[o] # NULL => refcount[handle[o]] > 0
      /\ CanRelease(o, mine[o])
  BY ConstantsAssumption DEF CopyAssign, CanClose, StaleHandle, TypeOK
<1>2. /\ rc \in [Handles -> Nat]
      /\ \A h \in Handles : rc[h] = refcount[h] + Hit(handle[p], h)
  BY <1>1 DEF Retain, Hit, TypeOK
<1>3. CloseImpl(o, rc)
  BY DEF CopyAssign
<1> HIDE DEF rc
<1>4. handle[o] # NULL => rc[handle[o]] > 0
  BY <1>1, <1>2 DEF Hit, TypeOK
<1>5. /\ count'    \in [Maps -> [Interfaces -> Nat]]
      /\ refcount' \in [Handles -> Nat]
      /\ opened'   \in SUBSET Handles
      /\ held'     \in [Handles -> SUBSET Interfaces]
      /\ \A h \in Handles : refcount'[h] = rc[h] - Hit(handle[o], h)
      /\ \A h \in Handles :
           h \in opened' <=> h \in opened /\ (h = handle[o] => rc[h] # 1)
  BY <1>1, <1>2, <1>3, <1>4, CloseImplCounts
<1>6. /\ handle'[o] = handle[p]
      /\ \A q \in Objects \ {o} : handle'[q] = handle[q]
  BY DEF CopyAssign, TypeOK
<1>7. \A h \in Handles :
        refcount'[h] = refcount[h] - Hit(handle[o], h) + Hit(handle'[o], h)
  BY <1>2, <1>5, <1>6 DEF Hit, TypeOK
<1> QED
  BY <1>6, <1>7, OwnCountAdded

LEMMA CountMoveConstruct ==
  ASSUME AnyInv, AnyInv', HandleCountExact, NEW o \in Objects,
         NEW p \in Objects, MoveConstruct(o, p)
  PROVE  HandleCountExact'
<1> USE DEF AnyInv
<1>1. /\ NULL \notin Handles /\ handle[o] = NULL /\ o # p
      /\ refcount' = refcount
  BY ConstantsAssumption DEF NoneEmpty, Live, Exists, MoveConstruct, heapVars
<1>2. /\ handle'[o] = handle[p] /\ handle'[p] = NULL
      /\ \A q \in Objects : q = o \/ q = p \/ handle'[q] = handle[q]
  BY <1>1 DEF MoveConstruct, TakeImpl, TypeOK
<1>3. \A h \in Handles : refcount'[h] = refcount[h] - Hit(handle[o], h)
  BY <1>1 DEF Hit, TypeOK
<1> QED
  BY <1>1, <1>2, <1>3, OwnCountMoved

LEMMA CountMoveAssign ==
  ASSUME AnyInv, AnyInv', HandleCountExact, NEW o \in Objects,
         NEW p \in Objects, MoveAssign(o, p)
  PROVE  HandleCountExact'
<1> USE DEF AnyInv
<1>1. o # p /\ CanClose(o) /\ CloseImpl(o, refcount)
  BY DEF MoveAssign
<1>2. /\ handle'[o] = handle[p] /\ handle'[p] = NULL
      /\ \A q \in Objects : q = o \/ q = p \/ handle'[q] = handle[q]
  BY <1>1 DEF MoveAssign, TakeImpl, TypeOK
<1>3. \A h \in Handles : refcount'[h] = refcount[h] - Hit(handle[o], h)
  BY <1>1, CloseImplReachable
<1> QED
  BY <1>1, <1>2, <1>3, OwnCountMoved

LEMMA CountDestroy ==
  ASSUME AnyInv, AnyInv', HandleCountExact, NEW o \in Objects, Destroy(o)
  PROVE  HandleCountExact'
<1> USE DEF AnyInv
<1>1. CanClose(o) /\ CloseImpl(o, refcount) /\ NULL \notin Handles
  BY ConstantsAssumption DEF Destroy
<1>2. handle'[o] = NULL /\ \A q \in Objects \ {o} : handle'[q] = handle[q]
  BY DEF Destroy, TypeOK
<1>3. \A h \in Handles :
        refcount'[h] = refcount[h] - Hit(handle[o], h) + Hit(handle'[o], h)
  BY <1>1, <1>2, CloseImplReachable DEF Hit, TypeOK
<1> QED
  BY <1>2, <1>3, OwnCountAdded

LEMMA CountOpen ==
  ASSUME AnyInv, AnyInv', HandleCountExact, NEW o \in Objects, Open(o)
  PROVE  HandleCountExact'
<1> USE DEF AnyInv
<1>1. PICK h \in Handles \ opened :
        /\ handle'   = [handle EXCEPT ![o] = h]
        /\ refcount' = [refcount EXCEPT ![h] = 1]
  BY DEF Open
<1>2. handle[o] = NULL /\ NULL \notin Handles /\ refcount[h] = 0
  BY ConstantsAssumption DEF Open, HandleReachable, TypeOK
<1>3. handle'[o] = h /\ \A q \in Objects \ {o} : handle'[q] = handle[q]
  BY <1>1 DEF TypeOK
<1>4. \A k \in Handles :
        refcount'[k] = refcount[k] - Hit(handle[o], k) + Hit(handle'[o], k)
  BY <1>1, <1>2, <1>3 DEF Hit, TypeOK
<1> QED
  BY <1>3, <1>4, OwnCountAdded

(* The only share is the last one, so the pointer is reset.                *)
LEMMA CountClose ==
  ASSUME ClosesUnshared, AnyInv, AnyInv', HandleCountExact,
         NEW o \in Objects, Close(o)
  PROVE  HandleCountExact'
<1> USE DEF AnyInv
<1>1. CanClose(o) /\ CloseImpl(o, refcount) /\ NULL \notin Handles
        /\ handle[o] \in Handles \cup {NULL}
  BY ConstantsAssumption DEF Close, TypeOK
<1>2. handle[o] # NULL => refcount[handle[o]] = 1
  <2>1. handle[o] # NULL => Sharers(handle[o]) = {o}
    BY DEF ClosesUnshared, Close, Shared
  <2> QED
    BY <1>1, <2>1, FS_Singleton DEF HandleCountExact
<1>3. handle' = [handle EXCEPT ![o] = NULL]
  <2>1. handle[o] # NULL => LastShare(o, refcount)
    BY <1>1, <1>2 DEF LastShare, Drop, TypeOK
  <2> QED
    BY <2>1 DEF Close, TypeOK
<1>4. handle'[o] = NULL /\ \A q \in Objects \ {o} : handle'[q] = handle[q]
  BY <1>3 DEF TypeOK
<1>5. \A h \in Handles :
        refcount'[h] = refcount[h] - Hit(handle[o], h) + Hit(handle'[o], h)
  BY <1>1, <1>4, CloseImplReachable DEF Hit, TypeOK
<1> QED
  BY <1>4, <1>5, OwnCountAdded

LEMMA CountStep ==
  ASSUME ClosesUnshared, AnyInv, AnyInv', HandleCountExact, [Next]_vars
  PROVE  HandleCountExact'
<1>1. CASE UNCHANGED vars
  BY <1>1, CountUnchanged DEF vars, objectVars, heapVars
<1>2. ASSUME NEW o \in Objects,
             ConstructDefault(o) \/ UseHandle(o) \/ Undefined(o)
      PROVE  HandleCountExact'
  BY <1>2, CountUnchanged DEF ConstructDefault, UseHandle, Undefined,
     objectVars, heapVars
<1>3. ASSUME NEW o \in Objects, NEW d \in UsbDevices, ConstructFromUsb(o, d)
      PROVE  HandleCountExact'
  BY <1>3, CountUnchanged DEF ConstructFromUsb, heapVars
<1>4. ASSUME NEW o \in Objects, NEW i \in Interfaces,
             Claim(o, i) \/ Release(o, i)
      PROVE  HandleCountExact'
  BY <1>4, CountUnchanged DEF Claim, Release
<1> QED
  BY <1>1, <1>2, <1>3, <1>4, HandleUsed, CountCopyConstruct, CountCopyAssign,
     CountMoveConstruct, CountMoveAssign, CountDestroy, CountOpen, CountClose
  DEF Next

(* The handle counter is the number of the objects that share the handle,  *)
(* whatever the client claims, copies or resets, as long as it closes no   *)
(* Device that shares its handle.                                          *)
THEOREM CountsExact ==
  ASSUME ClosesUnshared
  PROVE  Spec => []HandleCountExact
<1>1. HandleCountExact /\ AnyInv /\ AnyInv' /\ [Next]_vars => HandleCountExact'
  BY CountStep
<1> QED
  BY <1>1, CountInit, AnyInvariant, PTL DEF Spec

-----------------------------------------------------------------------------
(* An open handle has sharers, and a closed one has none.                  *)

LEMMA OpenWhileShared ==
  ASSUME AnyInv, HandleCountExact
  PROVE  Sharing!OpenWhileUsed
<1> SUFFICES ASSUME NEW h \in Handles
             PROVE  h \in opened <=> Sharers(h) # {}
  BY DEF Sharing!OpenWhileUsed
<1>1. IsFiniteSet(Sharers(h)) /\ refcount[h] = Cardinality(Sharers(h))
  BY HoldersFinite DEF Sharers, HandleCountExact
<1>2. refcount[h] = 0 <=> Sharers(h) = {}
  BY <1>1, FS_EmptySet
<1> QED
  BY <1>2 DEF AnyInv, HandleReachable, TypeOK

(* A handle is closed by the last object that shares it, and no object is  *)
(* left with a pointer to it.                                              *)
THEOREM HandlesClosedByLastShare ==
  ASSUME ClosesUnshared
  PROVE  Spec => ClosedByLastShare
<1>1. AnyInv /\ HandleCountExact => Sharing!OpenWhileUsed
  BY OpenWhileShared
<1>2. ASSUME AnyInv, Sharing!OpenWhileUsed'
      PROVE  \A h \in opened \ opened' : Sharers(h)' = {}
  BY <1>2 DEF AnyInv, TypeOK, Sharing!OpenWhileUsed
<1> QED
  BY <1>1, <1>2, AnyInvariant, CountsExact, PTL DEF ClosedByLastShare

-----------------------------------------------------------------------------
(* The objects implement the shared resource.                              *)

(* What a step does to the pointers: it changes that of one object, or     *)
(* hands that of one object to another.                                    *)
OneRedirected ==
  \E o \in Objects : \A q \in Objects \ {o} : handle'[q] = handle[q]

OneHandedOver ==
  \E o, p \in Objects :
    /\ o # p
    /\ handle'[o] = handle[p] /\ handle'[p] = NULL
    /\ \A q \in Objects \ {o, p} : handle'[q] = handle[q]

LEMMA PointersShift ==
  ASSUME AnyInv, Next
  PROVE  OneRedirected \/ OneHandedOver
<1>1. ASSUME NEW o \in Objects, handle' = handle
      PROVE  OneRedirected
  BY <1>1 DEF OneRedirected
<1>2. ASSUME NEW o \in Objects, NEW h, handle' = [handle EXCEPT ![o] = h]
      PROVE  OneRedirected
  BY <1>2 DEF OneRedirected, AnyInv, TypeOK
<1>3. ASSUME NEW o \in Objects, NEW p \in Objects,
             MoveConstruct(o, p) \/ MoveAssign(o, p)
      PROVE  OneHandedOver
  <2>1. o # p /\ TakeImpl(o, p)
    BY <1>3 DEF MoveConstruct, MoveAssign, Exists
  <2> QED
    BY <2>1 DEF TakeImpl, OneHandedOver, AnyInv, TypeOK
<1>4. ASSUME NEW o \in Objects, NEW p \in Objects,
             CopyConstruct(o, p) \/ CopyAssign(o, p)
      PROVE  OneRedirected
  BY <1>2, <1>4 DEF CopyConstruct, CopyAssign
<1>5. ASSUME NEW o \in Objects, Destroy(o) \/ Open(o)
      PROVE  OneRedirected
  BY <1>2, <1>5 DEF Destroy, Open
<1>6. ASSUME NEW o \in Objects, Close(o)
      PROVE  OneRedirected
  BY <1>1, <1>2, <1>6 DEF Close
<1>7. ASSUME NEW o \in Objects,
             \/ ConstructDefault(o) \/ UseHandle(o) \/ Undefined(o)
             \/ \E d \in UsbDevices : ConstructFromUsb(o, d)
             \/ \E i \in Interfaces : Claim(o, i) \/ Release(o, i)
      PROVE  OneRedirected
  BY <1>1, <1>7 DEF ConstructDefault, ConstructFromUsb, Claim, Release,
     UseHandle, Undefined, objectVars
<1> QED
  BY <1>3, <1>4, <1>5, <1>6, <1>7, HandleUsed DEF Next

(* Each handle gains a sharer, loses one, passes from one to another, or   *)
(* keeps the sharers it has.                                               *)
LEMMA SharersShift ==
  ASSUME OneRedirected \/ OneHandedOver, NEW h \in Handles
  PROVE  \/ \E o \in Objects : Sharers(h)' = Sharers(h) \cup {o}
         \/ \E o \in Sharers(h) : Sharers(h)' = Sharers(h) \ {o}
         \/ \E p \in Sharers(h), o \in Objects :
              o # p /\ Sharers(h)' = (Sharers(h) \ {p}) \cup {o}
         \/ Sharers(h)' = Sharers(h)
<1> USE DEF Sharers, Holders
<1>1. CASE OneRedirected
  <2>1. PICK o \in Objects : \A q \in Objects \ {o} : handle'[q] = handle[q]
    BY <1>1 DEF OneRedirected
  <2>2. Sharers(h)' = IF handle'[o] = h THEN Sharers(h) \cup {o}
                                        ELSE Sharers(h) \ {o}
    BY <2>1
  <2>3. o \notin Sharers(h) => Sharers(h) \ {o} = Sharers(h)
    OBVIOUS
  <2> HIDE DEF Sharers, Holders
  <2> QED
    BY <2>2, <2>3
<1>2. CASE OneHandedOver
  <2>1. PICK o \in Objects, p \in Objects :
          /\ o # p
          /\ handle'[o] = handle[p] /\ handle'[p] = NULL
          /\ \A q \in Objects \ {o, p} : handle'[q] = handle[q]
    BY <1>2 DEF OneHandedOver
  <2>2. h # NULL
    BY ConstantsAssumption
  <2>3. Sharers(h)' = IF handle[p] = h THEN (Sharers(h) \ {p}) \cup {o}
                                       ELSE Sharers(h) \ {o}
    BY <2>1, <2>2
  <2>4. handle[p] = h => p \in Sharers(h)
    OBVIOUS
  <2>5. o \notin Sharers(h) => Sharers(h) \ {o} = Sharers(h)
    OBVIOUS
  <2> HIDE DEF Sharers, Holders
  <2> QED
    BY <2>1, <2>3, <2>4, <2>5
<1> QED
  BY <1>1, <1>2

LEMMA ShiftIsShared ==
  ASSUME OneRedirected \/ OneHandedOver, NEW h \in Handles,
         h \in opened <=> Sharers(h) # {},
         h \in opened' <=> Sharers(h)' # {}
  PROVE  \/ Sharing!Open(h) \/ Sharing!Share(h)
         \/ Sharing!Close(h) \/ Sharing!Rest(h)
<1>1. CASE \E o \in Objects : Sharers(h)' = Sharers(h) \cup {o}
  <2>1. PICK o \in Objects : Sharers(h)' = Sharers(h) \cup {o}
    BY <1>1
  <2>2. CASE Sharers(h) = {}
    BY <2>1, <2>2 DEF Sharing!Open
  <2>3. CASE Sharers(h) # {}
    BY <2>1, <2>3 DEF Sharing!Share, Sharing!Join
  <2> QED
    BY <2>2, <2>3
<1>2. CASE \E o \in Sharers(h) : Sharers(h)' = Sharers(h) \ {o}
  <2>1. PICK o \in Sharers(h) : Sharers(h)' = Sharers(h) \ {o}
    BY <1>2
  <2>2. o \in Objects
    BY DEF Sharers, Holders
  <2>3. CASE Sharers(h)' = {}
    <3>1. Sharers(h) = {o}
      BY <2>1, <2>3
    <3> QED
      BY <2>2, <2>3, <3>1 DEF Sharing!Close
  <2>4. CASE Sharers(h)' # {}
    BY <2>1, <2>4 DEF Sharing!Share, Sharing!Leave
  <2> QED
    BY <2>3, <2>4
<1>3. CASE \E p \in Sharers(h), o \in Objects :
             o # p /\ Sharers(h)' = (Sharers(h) \ {p}) \cup {o}
  BY <1>3 DEF Sharing!Share, Sharing!Hand
<1>4. CASE Sharers(h)' = Sharers(h)
  BY <1>4 DEF Sharing!Rest
<1> QED
  BY <1>1, <1>2, <1>3, <1>4, SharersShift

LEMMA NextIsShared ==
  ASSUME AnyInv, AnyInv', Sharing!OpenWhileUsed, Sharing!OpenWhileUsed', Next
  PROVE  Sharing!Next
<1>1. [h \in Handles |-> Sharers(h)]' \in [Handles -> SUBSET Objects]
  BY DEF Sharers, Holders
<1>2. opened' \in SUBSET Handles
  BY DEF AnyInv, TypeOK
<1>3. ASSUME NEW h \in Handles
      PROVE  \/ Sharing!Open(h) \/ Sharing!Share(h)
             \/ Sharing!Close(h) \/ Sharing!Rest(h)
  <2>1. /\ h \in opened <=> Sharers(h) # {}
        /\ h \in opened' <=> Sharers(h)' # {}
    BY DEF Sharing!OpenWhileUsed
  <2> QED
    BY <2>1, PointersShift, ShiftIsShared
<1> QED
  BY <1>1, <1>2, <1>3 DEF Sharing!Next

(* libusb_open is called by the first Device of a handle and libusb_close  *)
(* by the last, with copies, moves, assignments and destructors in any     *)
(* order in between.                                                       *)
THEOREM DevicesShareHandles ==
  ASSUME ClosesUnshared
  PROVE  Spec => HandlesAreShared
<1>1. Init => Sharing!Init
  <2>1. Init => \A h \in Handles : Sharers(h) = {}
    BY ConstantsAssumption DEF Init, Sharers, Holders
  <2> QED
    BY <2>1 DEF Init, Sharing!Init
<1>2. AnyInv /\ HandleCountExact => Sharing!OpenWhileUsed
  BY OpenWhileShared
<1>3. /\ AnyInv /\ AnyInv' /\ Sharing!OpenWhileUsed
      /\ Sharing!OpenWhileUsed' /\ Next
      => Sharing!Next
  BY NextIsShared
<1>4. UNCHANGED vars => UNCHANGED <<[h \in Handles |-> Sharers(h)], opened>>
  BY DEF vars, objectVars, libusbVars, Sharers, Holders
<1> QED
  BY <1>1, <1>2, <1>3, <1>4, AnyInvariant, CountsExact, PTL
  DEF Spec, HandlesAreShared, Sharing!Spec

-----------------------------------------------------------------------------
(* No fault: a client that copies no Device with claims may claim an       *)
(* interface any number of times, through copies made before or after.     *)

CopiesUnclaimed == "copy_claimed" \notin Habits

(* Where o has its claim on interface i, if it has one.                    *)
ClaimedIn(i) == [o \in Objects |-> IF i \in mine[o] THEN ifmap[o] ELSE NULL]

(* What a counter has beyond the claims that the objects know of: claims   *)
(* made twice, which nobody will release.                                  *)
Spare(m, i) == count[m][i] - Cardinality(Holders(ClaimedIn(i), m))

(* Claims are made through a handle and counted in a map, which is not     *)
(* empty while a pointer leads to it.  A map with two users has a counter  *)
(* that does not come back to zero: the claim that its first user made     *)
(* twice before it was copied.                                             *)
ClaimsFounded ==
  \A o \in Objects : mine[o] # {} => handle[o] # NULL /\ ifmap[o] # NULL

ClaimsCounted == \A m \in Maps, i \in Interfaces : Spare(m, i) >= 0

SharedMapsStay ==
  \A o, p \in Objects :
    o # p /\ ifmap[o] = ifmap[p] /\ ifmap[o] # NULL =>
      \E i \in Interfaces : Spare(ifmap[o], i) > 0

MapsLive == \A o \in Objects : ~StaleMap(o)

MapInv ==
  /\ ClaimsFounded
  /\ ClaimsCounted
  /\ SharedMapsStay
  /\ MapsLive

-----------------------------------------------------------------------------
(* Counting the claims.                                                    *)

LEMMA ClaimedInType ==
  ASSUME TypeOK, NEW i \in Interfaces
  PROVE  ClaimedIn(i) \in [Objects -> Maps \cup {NULL}]
BY DEF TypeOK, ClaimedIn

LEMMA SpareType ==
  ASSUME TypeOK, NEW m \in Maps, NEW i \in Interfaces
  PROVE  /\ count[m][i] \in Nat
         /\ Cardinality(Holders(ClaimedIn(i), m)) \in Nat
         /\ Spare(m, i) \in Int
         /\ count[m][i] = Spare(m, i) + Cardinality(Holders(ClaimedIn(i), m))
<1>1. count[m][i] \in Nat
  BY DEF TypeOK
<1>2. Cardinality(Holders(ClaimedIn(i), m)) \in Nat
  BY HoldersFinite
<1> QED
  BY <1>1, <1>2 DEF Spare

(* A claim that an object knows of is counted above what is spare.         *)
LEMMA ClaimCounts ==
  ASSUME TypeOK, MapInv, NEW o \in Objects, NEW i \in mine[o]
  PROVE  /\ ifmap[o] \in Maps
         /\ count[ifmap[o]][i] > Spare(ifmap[o], i)
         /\ count[ifmap[o]][i] > 0
<1>1. i \in Interfaces /\ ifmap[o] \in Maps
  BY DEF TypeOK, MapInv, ClaimsFounded
<1>2. o \in Holders(ClaimedIn(i), ifmap[o])
  BY DEF Holders, ClaimedIn
<1>3. Cardinality(Holders(ClaimedIn(i), ifmap[o])) # 0
  BY <1>2, HoldersFinite, FS_EmptySet
<1>4. Spare(ifmap[o], i) >= 0
  BY <1>1 DEF MapInv, ClaimsCounted
<1> QED
  BY <1>1, <1>3, <1>4, SpareType

(* What releasing the interfaces of S takes from a counter.                *)
LEMMA LoweredCount ==
  ASSUME TypeOK, MapInv, NEW o \in Objects, NEW S \in SUBSET mine[o],
         NEW m \in Maps, NEW i \in Interfaces
  PROVE  Lowered(o, S)[m][i]
           = count[m][i] - (IF ifmap[o] = m /\ i \in S THEN 1 ELSE 0)
<1>1. count[m][i] \in Nat /\ count \in [Maps -> [Interfaces -> Nat]]
  BY DEF TypeOK
<1>2. S # {} => ifmap[o] \in Maps
  BY ClaimCounts
<1> QED
  BY <1>1, <1>2 DEF Lowered

(* An object can always be closed, and released of what it claimed.        *)
LEMMA NothingStale ==
  ASSUME TypeOK, HandleCountExact, MapInv, NEW o \in Objects
  PROVE  /\ ~StaleHandle(o)
         /\ ~StaleMap(o)
         /\ \A S \in SUBSET mine[o] : CanRelease(o, S)
         /\ CanClose(o)
<1>1. ~StaleHandle(o)
  <2> SUFFICES ASSUME handle[o] # NULL
               PROVE  refcount[handle[o]] # 0
    BY DEF StaleHandle
  <2>1. handle[o] \in Handles /\ o \in Sharers(handle[o])
    BY DEF TypeOK, Sharers, Holders
  <2>2. Cardinality(Sharers(handle[o])) # 0
    BY <2>1, HoldersFinite, FS_EmptySet DEF Sharers
  <2> QED
    BY <2>1, <2>2 DEF HandleCountExact
<1>2. ASSUME NEW S \in SUBSET mine[o]
      PROVE  CanRelease(o, S)
  <2>1. \A i \in S : ifmap[o] # NULL /\ count[ifmap[o]][i] > 0
    BY ClaimCounts, ConstantsAssumption
  <2> QED
    BY <1>1, <2>1 DEF CanRelease
<1> QED
  BY <1>1, <1>2 DEF MapInv, MapsLive, CanClose

(* A release leaves no other user of the map with a map that is empty.     *)
LEMMA OthersKeepMaps ==
  ASSUME TypeOK, MapInv, NEW o \in Objects, NEW S \in SUBSET mine[o],
         count' = Lowered(o, S), NEW q \in Objects \ {o}, ifmap[q] # NULL
  PROVE  \E i \in Interfaces : count'[ifmap[q]][i] # 0
<1> DEFINE m == ifmap[q]
<1>1. m \in Maps
  BY DEF TypeOK
<1>2. CASE ifmap[o] # m
  <2>1. PICK i \in Interfaces : count[m][i] # 0
    BY DEF MapInv, MapsLive, StaleMap, FreeMap
  <2>2. count'[m][i] = count[m][i]
    BY <1>1, <1>2, <2>1, LoweredCount, SpareType
  <2> QED
    BY <2>1, <2>2
<1>3. CASE ifmap[o] = m
  <2>1. PICK i \in Interfaces : Spare(m, i) > 0
    BY <1>3 DEF MapInv, SharedMapsStay
  <2>2. count[m][i] > 0 /\ (i \in S => count[m][i] > 1)
    <3>1. i \in S => count[m][i] > Spare(m, i)
      BY <1>3, ClaimCounts
    <3> QED
      BY <1>1, <2>1, <3>1, SpareType
  <2>3. count'[m][i] # 0
    BY <1>1, <2>2, LoweredCount, SpareType
  <2> QED
    BY <2>3
<1> QED
  BY <1>2, <1>3

(* A Device without claims that has a map has one with something spare:    *)
(* so it may be copied.                                                    *)
LEMMA UnclaimedSpare ==
  ASSUME TypeOK, MapInv, NEW p \in Objects, mine[p] = {}, ifmap[p] # NULL
  PROVE  \E i \in Interfaces : Spare(ifmap[p], i) > 0
<1> DEFINE m == ifmap[p]
<1>1. m \in Maps
  BY DEF TypeOK
<1>2. PICK i \in Interfaces : count[m][i] # 0
  BY DEF MapInv, MapsLive, StaleMap, FreeMap
<1>3. CASE Holders(ClaimedIn(i), m) = {}
  <2>1. Cardinality(Holders(ClaimedIn(i), m)) = 0
    BY <1>3, FS_EmptySet
  <2>2. count[m][i] \in Nat /\ Spare(m, i) = count[m][i]
    <3> HIDE DEF m
    <3> QED
      BY <1>1, <2>1, SpareType
  <2> QED
    BY <1>2, <2>2
<1>4. CASE Holders(ClaimedIn(i), m) # {}
  <2>1. PICK q \in Objects : ClaimedIn(i)[q] = m
    BY <1>4 DEF Holders
  <2>2. ifmap[q] = m /\ i \in mine[q]
    BY <1>1, <2>1, ConstantsAssumption DEF ClaimedIn
  <2> QED
    BY <2>2 DEF MapInv, SharedMapsStay
<1> QED
  BY <1>3, <1>4

-----------------------------------------------------------------------------
(* No step takes away what is spare.                                       *)

SpareKept ==
  \A m \in Maps, i \in Interfaces : Spare(m, i)' >= Spare(m, i)

(* One object o comes by, or loses, claims.                                *)
LEMMA SpareOfOne ==
  ASSUME TypeOK, TypeOK', NEW o \in Objects,
         \A q \in Objects \ {o} : mine'[q] = mine[q] /\ ifmap'[q] = ifmap[q],
         \A m \in Maps, i \in Interfaces :
           count'[m][i] >= count[m][i]
             - Hit(ClaimedIn(i)[o], m) + Hit(ClaimedIn(i)'[o], m)
  PROVE  SpareKept
<1> SUFFICES ASSUME NEW m \in Maps, NEW i \in Interfaces
             PROVE  Spare(m, i)' >= Spare(m, i)
  BY DEF SpareKept
<1> DEFINE f == ClaimedIn(i)
           g == ClaimedIn(i)'
           T == Maps \cup {NULL}
<1>1. f \in [Objects -> T] /\ g \in [Objects -> T]
  BY ClaimedInType DEF TypeOK, ClaimedIn
<1>2. \A q \in Objects \ {o} : g[q] = f[q]
  BY DEF ClaimedIn
<1>3. count'[m][i] >= count[m][i] - Hit(f[o], m) + Hit(g[o], m)
  OBVIOUS
<1>4. /\ count[m][i] \in Nat /\ count'[m][i] \in Nat
      /\ Cardinality(Holders(f, m)) \in Nat
      /\ Cardinality(Holders(g, m)) \in Nat
  BY HoldersFinite DEF TypeOK
<1>5. /\ Spare(m, i) = count[m][i] - Cardinality(Holders(f, m))
      /\ Spare(m, i)' = count'[m][i] - Cardinality(Holders(g, m))
  BY DEF Spare, Holders
<1> HIDE DEF f, g, T
<1>6. Cardinality(Holders(g, m))
        = Cardinality(Holders(f, m)) - Hit(f[o], m) + Hit(g[o], m)
  BY <1>1, <1>2, HoldersUpdate
<1> QED
  BY <1>3, <1>4, <1>5, <1>6 DEF Hit

(* The Impl of p becomes that of o, whose old one is released.             *)
LEMMA SpareOfMoved ==
  ASSUME TypeOK, TypeOK', NEW o \in Objects, NEW p \in Objects, o # p,
         TakeImpl(o, p),
         \A m \in Maps, i \in Interfaces :
           count'[m][i] = count[m][i] - Hit(ClaimedIn(i)[o], m)
  PROVE  SpareKept
<1> SUFFICES ASSUME NEW m \in Maps, NEW i \in Interfaces
             PROVE  Spare(m, i)' >= Spare(m, i)
  BY DEF SpareKept
<1> DEFINE f == ClaimedIn(i)
           g == ClaimedIn(i)'
           T == Maps \cup {NULL}
<1>1. f \in [Objects -> T] /\ g \in [Objects -> T]
  BY ClaimedInType DEF TypeOK, ClaimedIn
<1>2. /\ g[o] = f[p] /\ g[p] = NULL
      /\ \A q \in Objects : q = o \/ q = p \/ g[q] = f[q]
  BY DEF ClaimedIn, TakeImpl, TypeOK
<1>3. count'[m][i] = count[m][i] - Hit(f[o], m)
  OBVIOUS
<1>4. /\ count[m][i] \in Nat /\ count'[m][i] \in Nat
      /\ Cardinality(Holders(f, m)) \in Nat
      /\ Cardinality(Holders(g, m)) \in Nat
  BY HoldersFinite DEF TypeOK
<1>5. /\ Spare(m, i) = count[m][i] - Cardinality(Holders(f, m))
      /\ Spare(m, i)' = count'[m][i] - Cardinality(Holders(g, m))
  BY DEF Spare, Holders
<1>6. m # NULL
  BY ConstantsAssumption
<1> HIDE DEF f, g, T
<1>7. Cardinality(Holders(g, m))
        = Cardinality(Holders(f, m)) - Hit(f[o], m)
  BY <1>1, <1>2, <1>6, HoldersMove
<1> QED
  BY <1>3, <1>4, <1>5, <1>7 DEF Hit

(* What is spare, once kept, keeps the claims counted and the shared maps  *)
(* from being emptied.                                                     *)
LEMMA SpareStays ==
  ASSUME TypeOK, TypeOK', MapInv, SpareKept,
         \A x, y \in Objects :
           x # y /\ ifmap'[x] = ifmap'[y] /\ ifmap'[x] # NULL =>
             \E i \in Interfaces : Spare(ifmap'[x], i) > 0
  PROVE  ClaimsCounted' /\ SharedMapsStay'
<1>1. \A m \in Maps, i \in Interfaces :
        /\ Spare(m, i) \in Int
        /\ Spare(m, i)' \in Int
        /\ Spare(m, i)' >= Spare(m, i)
  <2>1. ASSUME NEW m \in Maps, NEW i \in Interfaces
        PROVE  Spare(m, i)' \in Int
    <3>1. Cardinality(Holders(ClaimedIn(i)', m)) \in Nat
      BY HoldersFinite
    <3>2. count'[m][i] \in Nat
      BY DEF TypeOK
    <3>3. Spare(m, i)' = count'[m][i] - Cardinality(Holders(ClaimedIn(i)', m))
      BY DEF Spare, Holders
    <3> QED
      BY <3>1, <3>2, <3>3
  <2> QED
    BY <2>1, SpareType DEF SpareKept
<1>2. ClaimsCounted'
  BY <1>1 DEF MapInv, ClaimsCounted
<1>3. SharedMapsStay'
  <2>1. ASSUME NEW x \in Objects, NEW y \in Objects,
               x # y, ifmap'[x] = ifmap'[y], ifmap'[x] # NULL
        PROVE  \E i \in Interfaces : Spare(ifmap[x], i)'  > 0
    <3>1. PICK i \in Interfaces : Spare(ifmap'[x], i) > 0
      BY <2>1
    <3>2. PICK m \in Maps : m = ifmap'[x]
      BY <2>1 DEF TypeOK
    <3>3. Spare(m, i)' > 0
      BY <1>1, <3>1, <3>2
    <3>4. Spare(m, i)' = Spare(ifmap[x], i)'
      BY <3>2 DEF Spare
    <3> QED
      BY <3>3, <3>4
  <2> QED
    BY <2>1 DEF SharedMapsStay
<1> QED
  BY <1>2, <1>3

-----------------------------------------------------------------------------
(* The operations, one by one.                                             *)

MapSafe == TypeOK /\ HandleCountExact /\ MapInv

(* Operations that touch neither claims nor maps, nor take a handle from   *)
(* an object that has claims.                                              *)
LEMMA MapUntouched ==
  ASSUME MapInv, UNCHANGED <<mine, ifmap, count>>,
         \A o \in Objects : mine[o] # {} => handle'[o] # NULL
  PROVE  MapInv'
<1>1. ClaimsFounded'
  BY DEF MapInv, ClaimsFounded
<1>2. \A m, i : Spare(m, i)' = Spare(m, i)
  BY DEF Spare, Holders, ClaimedIn
<1>3. ClaimsCounted' /\ SharedMapsStay'
  BY <1>2 DEF MapInv, ClaimsCounted, SharedMapsStay
<1>4. MapsLive'
  BY DEF MapInv, MapsLive, StaleMap, FreeMap
<1> QED
  BY <1>1, <1>3, <1>4 DEF MapInv

(* A copy has no claims; the map it comes to share has something spare.    *)
LEMMA MapCopyConstruct ==
  ASSUME CopiesUnclaimed, AnyInv, TypeOK', MapSafe, NEW o \in Objects,
         NEW p \in Objects, CopyConstruct(o, p)
  PROVE  MapInv'
<1> USE DEF MapSafe
<1>1. /\ mine[p] = {} /\ mine[o] = {}
      /\ ifmap[p] \in Maps \cup {NULL} /\ NULL \notin Maps
      /\ count' = count
  BY ConstantsAssumption DEF CopiesUnclaimed, CopyConstruct, MayCopy, AnyInv,
     NoneEmpty, Live, TypeOK
<1>2. /\ mine'[o] = {} /\ ifmap'[o] = ifmap[p]
      /\ \A q \in Objects \ {o} :
           /\ mine'[q] = mine[q] /\ ifmap'[q] = ifmap[q]
           /\ handle'[q] = handle[q]
  BY <1>1 DEF CopyConstruct, TypeOK
<1>3. ClaimsFounded'
  BY <1>2 DEF MapInv, ClaimsFounded
<1>4. SpareKept
  <2>1. \A m \in Maps, i \in Interfaces :
          count'[m][i] >= count[m][i]
            - Hit(ClaimedIn(i)[o], m) + Hit(ClaimedIn(i)'[o], m)
    BY <1>1, <1>2 DEF ClaimedIn, Hit, TypeOK
  <2> QED
    BY <1>2, <2>1, SpareOfOne
<1>5. ClaimsCounted' /\ SharedMapsStay'
  <2>1. ASSUME NEW x \in Objects, NEW y \in Objects,
               x # y, ifmap'[x] = ifmap'[y], ifmap'[x] # NULL
        PROVE  \E i \in Interfaces : Spare(ifmap'[x], i) > 0
    <3>1. CASE x # o /\ y # o
      BY <1>2, <2>1, <3>1 DEF MapInv, SharedMapsStay
    <3>2. CASE x = o \/ y = o
      <4>1. ifmap'[x] = ifmap[p]
        BY <1>2, <2>1, <3>2
      <4> QED
        BY <1>1, <2>1, <4>1, UnclaimedSpare
    <3> QED
      BY <3>1, <3>2
  <2> QED
    BY <1>4, <2>1, SpareStays
<1>6. MapsLive'
  BY <1>1, <1>2 DEF MapInv, MapsLive, StaleMap, FreeMap
<1> QED
  BY <1>3, <1>5, <1>6 DEF MapInv

(* What the destruction of the Impl of o takes from the counters is what   *)
(* o has claimed, and the maps of the others live on.                      *)
LEMMA CloseTakes ==
  ASSUME MapSafe, NEW o \in Objects, NEW rc, CloseImpl(o, rc)
  PROVE  /\ \A m \in Maps, i \in Interfaces :
              count'[m][i] = count[m][i] - Hit(ClaimedIn(i)[o], m)
         /\ \A q \in Objects \ {o} : ifmap[q] # NULL =>
              \E i \in Interfaces : count'[ifmap[q]][i] # 0
<1> USE DEF MapSafe
<1>1. count' = Lowered(o, mine[o])
  BY DEF CloseImpl
<1>2. ASSUME NEW m \in Maps, NEW i \in Interfaces
      PROVE  count'[m][i] = count[m][i] - Hit(ClaimedIn(i)[o], m)
  <2>1. Hit(ClaimedIn(i)[o], m)
          = IF ifmap[o] = m /\ i \in mine[o] THEN 1 ELSE 0
    BY ConstantsAssumption DEF Hit, ClaimedIn
  <2> QED
    BY <1>1, <2>1, LoweredCount
<1> QED
  BY <1>1, <1>2, OthersKeepMaps

LEMMA MapCopyAssign ==
  ASSUME CopiesUnclaimed, TypeOK', MapSafe, NEW o \in Objects,
         NEW p \in Objects, CopyAssign(o, p)
  PROVE  MapInv'
<1> USE DEF MapSafe
<1>1. /\ mine[p] = {} /\ o # p
      /\ ifmap[p] \in Maps \cup {NULL} /\ NULL \notin Maps
  BY ConstantsAssumption DEF CopiesUnclaimed, CopyAssign, MayCopy, TypeOK
<1>2. /\ mine'[o] = {} /\ ifmap'[o] = ifmap[p]
      /\ \A q \in Objects \ {o} :
           /\ mine'[q] = mine[q] /\ ifmap'[q] = ifmap[q]
           /\ handle'[q] = handle[q]
  BY <1>1 DEF CopyAssign, TypeOK
<1>3. /\ \A m \in Maps, i \in Interfaces :
           count'[m][i] = count[m][i] - Hit(ClaimedIn(i)[o], m)
      /\ \A q \in Objects \ {o} : ifmap[q] # NULL =>
           \E i \in Interfaces : count'[ifmap[q]][i] # 0
  BY CloseTakes DEF CopyAssign
<1>4. ClaimsFounded'
  BY <1>2 DEF MapInv, ClaimsFounded
<1>5. SpareKept
  <2>1. \A m \in Maps, i \in Interfaces :
          count'[m][i] >= count[m][i]
            - Hit(ClaimedIn(i)[o], m) + Hit(ClaimedIn(i)'[o], m)
    BY <1>1, <1>2, <1>3 DEF ClaimedIn, Hit, TypeOK
  <2> QED
    BY <1>2, <2>1, SpareOfOne
<1>6. ClaimsCounted' /\ SharedMapsStay'
  <2>1. ASSUME NEW x \in Objects, NEW y \in Objects,
               x # y, ifmap'[x] = ifmap'[y], ifmap'[x] # NULL
        PROVE  \E i \in Interfaces : Spare(ifmap'[x], i) > 0
    <3>1. CASE x # o /\ y # o
      BY <1>2, <2>1, <3>1 DEF MapInv, SharedMapsStay
    <3>2. CASE x = o \/ y = o
      <4>1. ifmap'[x] = ifmap[p]
        BY <1>2, <2>1, <3>2
      <4> QED
        BY <1>1, <2>1, <4>1, UnclaimedSpare
    <3> QED
      BY <3>1, <3>2
  <2> QED
    BY <1>5, <2>1, SpareStays
<1>7. MapsLive'
  BY <1>1, <1>2, <1>3 DEF MapsLive, StaleMap, FreeMap
<1> QED
  BY <1>4, <1>6, <1>7 DEF MapInv

(* The Impl of p becomes that of o; with an assignment, what o claimed is  *)
(* released.                                                               *)
LEMMA MapMoved ==
  ASSUME TypeOK', MapSafe, NEW o \in Objects, NEW p \in Objects, o # p,
         TakeImpl(o, p),
         \A m \in Maps, i \in Interfaces :
           count'[m][i] = count[m][i] - Hit(ClaimedIn(i)[o], m),
         \A q \in Objects \ {o} : ifmap[q] # NULL =>
           \E i \in Interfaces : count'[ifmap[q]][i] # 0
  PROVE  MapInv'
<1> USE DEF MapSafe
<1>1. /\ mine'[o] = mine[p] /\ ifmap'[o] = ifmap[p] /\ handle'[o] = handle[p]
      /\ mine'[p] = {} /\ ifmap'[p] = NULL
      /\ \A q \in Objects \ {o, p} :
           /\ mine'[q] = mine[q] /\ ifmap'[q] = ifmap[q]
           /\ handle'[q] = handle[q]
  BY DEF TakeImpl, TypeOK
<1>2. ClaimsFounded'
  BY <1>1 DEF MapInv, ClaimsFounded
<1>3. SpareKept
  BY SpareOfMoved
<1>4. ClaimsCounted' /\ SharedMapsStay'
  <2>1. ASSUME NEW x \in Objects, NEW y \in Objects,
               x # y, ifmap'[x] = ifmap'[y], ifmap'[x] # NULL
        PROVE  \E i \in Interfaces : Spare(ifmap'[x], i) > 0
    <3> DEFINE Was(q) == IF q = o THEN p ELSE q
    <3>1. /\ Was(x) \in Objects /\ Was(y) \in Objects /\ Was(x) # Was(y)
          /\ ifmap'[x] = ifmap[Was(x)] /\ ifmap'[y] = ifmap[Was(y)]
      BY <1>1, <2>1
    <3> HIDE DEF Was
    <3> QED
      BY <2>1, <3>1 DEF MapInv, SharedMapsStay
  <2> QED
    BY <1>3, <2>1, SpareStays
<1>5. MapsLive'
  BY <1>1 DEF MapsLive, StaleMap, FreeMap
<1> QED
  BY <1>2, <1>4, <1>5 DEF MapInv

LEMMA MapMoveConstruct ==
  ASSUME AnyInv, TypeOK', MapSafe, NEW o \in Objects, NEW p \in Objects,
         MoveConstruct(o, p)
  PROVE  MapInv'
<1> USE DEF MapSafe
<1>1. o # p /\ TakeImpl(o, p) /\ count' = count /\ mine[o] = {}
  BY DEF MoveConstruct, Exists, heapVars, AnyInv, NoneEmpty, Live
<1>2. \A m \in Maps, i \in Interfaces :
        count'[m][i] = count[m][i] - Hit(ClaimedIn(i)[o], m)
  BY <1>1, ConstantsAssumption DEF ClaimedIn, Hit, TypeOK
<1>3. \A q \in Objects \ {o} : ifmap[q] # NULL =>
        \E i \in Interfaces : count'[ifmap[q]][i] # 0
  BY <1>1 DEF MapInv, MapsLive, StaleMap, FreeMap
<1> QED
  BY <1>1, <1>2, <1>3, MapMoved

LEMMA MapMoveAssign ==
  ASSUME TypeOK', MapSafe, NEW o \in Objects, NEW p \in Objects,
         MoveAssign(o, p)
  PROVE  MapInv'
<1>1. o # p /\ TakeImpl(o, p) /\ CloseImpl(o, refcount)
  BY DEF MoveAssign
<1> QED
  BY <1>1, CloseTakes, MapMoved

LEMMA MapDestroy ==
  ASSUME TypeOK', MapSafe, NEW o \in Objects, Destroy(o)
  PROVE  MapInv'
<1> USE DEF MapSafe
<1>1. /\ mine'[o] = {} /\ ifmap'[o] = NULL
      /\ \A q \in Objects \ {o} :
           /\ mine'[q] = mine[q] /\ ifmap'[q] = ifmap[q]
           /\ handle'[q] = handle[q]
  BY DEF Destroy, TypeOK
<1>2. /\ \A m \in Maps, i \in Interfaces :
           count'[m][i] = count[m][i] - Hit(ClaimedIn(i)[o], m)
      /\ \A q \in Objects \ {o} : ifmap[q] # NULL =>
           \E i \in Interfaces : count'[ifmap[q]][i] # 0
  BY CloseTakes DEF Destroy
<1>3. ClaimsFounded'
  BY <1>1 DEF MapInv, ClaimsFounded
<1>4. SpareKept
  <2>1. \A m \in Maps, i \in Interfaces :
          count'[m][i] >= count[m][i]
            - Hit(ClaimedIn(i)[o], m) + Hit(ClaimedIn(i)'[o], m)
    BY <1>1, <1>2, ConstantsAssumption DEF ClaimedIn, Hit, TypeOK
  <2> QED
    BY <1>1, <2>1, SpareOfOne
<1>5. ClaimsCounted' /\ SharedMapsStay'
  <2>1. \A x, y \in Objects :
          x # y /\ ifmap'[x] = ifmap'[y] /\ ifmap'[x] # NULL =>
            \E i \in Interfaces : Spare(ifmap'[x], i) > 0
    BY <1>1 DEF MapInv, SharedMapsStay
  <2> QED
    BY <1>4, <2>1, SpareStays
<1>6. MapsLive'
  BY <1>1, <1>2 DEF MapsLive, StaleMap, FreeMap
<1> QED
  BY <1>3, <1>5, <1>6 DEF MapInv

(* Releasing some claims keeps the map while anything is left in it.       *)
LEMMA MapReleased ==
  ASSUME TypeOK', MapSafe, NEW o \in Objects, NEW S \in SUBSET mine[o],
         count' = Lowered(o, S),
         mine'[o] = mine[o] \ S, ifmap'[o] = MapAfter(o, S),
         mine'[o] # {} => handle'[o] = handle[o],
         \A q \in Objects \ {o} :
           /\ mine'[q] = mine[q] /\ ifmap'[q] = ifmap[q]
           /\ handle'[q] = handle[q]
  PROVE  MapInv'
<1> USE DEF MapSafe
<1>1. \A m \in Maps, i \in Interfaces :
        count'[m][i]
          = count[m][i] - (IF ifmap[o] = m /\ i \in S THEN 1 ELSE 0)
  BY LoweredCount
<1>2. /\ ifmap[o] \in Maps \cup {NULL} /\ NULL \notin Maps
      /\ mine[o] \in SUBSET Interfaces
  BY ConstantsAssumption DEF TypeOK
<1>3. ASSUME NEW j \in mine[o] \ S
      PROVE  ifmap'[o] = ifmap[o] /\ ifmap[o] # NULL /\ handle[o] # NULL
  <2>1. ifmap[o] \in Maps /\ count[ifmap[o]][j] > 0
    BY ClaimCounts
  <2>2. count'[ifmap[o]][j] = count[ifmap[o]][j]
    BY <1>1, <1>2, <2>1, SpareType
  <2>3. ~MapEmptied(o, S)
    BY <1>2, <2>1, <2>2 DEF MapEmptied
  <2> QED
    BY <1>2, <2>1, <2>3 DEF MapAfter, MapInv, ClaimsFounded
<1>4. ClaimsFounded'
  BY <1>3 DEF MapInv, ClaimsFounded
<1>5. SpareKept
  <2>1. ASSUME NEW m \in Maps, NEW i \in Interfaces
        PROVE  count'[m][i] >= count[m][i]
                 - Hit(ClaimedIn(i)[o], m) + Hit(ClaimedIn(i)'[o], m)
    <3>1. ClaimedIn(i)[o] = IF i \in mine[o] THEN ifmap[o] ELSE NULL
      BY DEF ClaimedIn
    <3>2. ClaimedIn(i)'[o] = IF i \in mine[o] \ S THEN ifmap[o] ELSE NULL
      BY <1>3 DEF ClaimedIn
    <3> QED
      BY <1>1, <1>2, <3>1, <3>2, SpareType DEF Hit
  <2> QED
    BY <2>1, SpareOfOne, <1>2, <1>3
<1>6. ifmap'[o] \in {NULL, ifmap[o]}
  BY DEF MapAfter
<1>7. ClaimsCounted' /\ SharedMapsStay'
  <2>1. \A x, y \in Objects :
          x # y /\ ifmap'[x] = ifmap'[y] /\ ifmap'[x] # NULL =>
            \E i \in Interfaces : Spare(ifmap'[x], i) > 0
    BY <1>6 DEF MapInv, SharedMapsStay
  <2> QED
    BY <1>5, <2>1, SpareStays
<1>8. MapsLive'
  <2>1. \A q \in Objects \ {o} : ifmap[q] # NULL =>
          \E i \in Interfaces : count'[ifmap[q]][i] # 0
    BY OthersKeepMaps
  <2>2. ASSUME ifmap'[o] # NULL
        PROVE  \E i \in Interfaces : count'[ifmap'[o]][i] # 0
    <3>1. ifmap'[o] = ifmap[o] /\ ~MapEmptied(o, S)
      BY <2>2 DEF MapAfter
    <3>2. CASE S = {}
      <4>1. count' = count
        BY <3>2 DEF Lowered
      <4> QED
        BY <2>2, <3>1, <4>1 DEF MapInv, MapsLive, StaleMap, FreeMap
    <3>3. CASE S # {}
      BY <3>1, <3>3 DEF MapEmptied
    <3> QED
      BY <3>2, <3>3
  <2> QED
    BY <2>1, <2>2 DEF MapsLive, StaleMap, FreeMap
<1> QED
  BY <1>4, <1>7, <1>8 DEF MapInv

LEMMA MapClose ==
  ASSUME TypeOK', MapSafe, NEW o \in Objects, Close(o)
  PROVE  MapInv'
<1>1. /\ count' = Lowered(o, mine[o])
      /\ mine'[o] = {} /\ ifmap'[o] = MapAfter(o, mine[o])
      /\ \A q \in Objects \ {o} :
           /\ mine'[q] = mine[q] /\ ifmap'[q] = ifmap[q]
           /\ handle'[q] = handle[q]
  BY DEF Close, CloseImpl, MapSafe, TypeOK
<1> QED
  BY <1>1, MapReleased

LEMMA MapRelease ==
  ASSUME TypeOK', MapSafe, NEW o \in Objects, NEW i \in Interfaces,
         Release(o, i)
  PROVE  MapInv'
<1>1. /\ {i} \in SUBSET mine[o]
      /\ count' = Lowered(o, {i}) /\ handle' = handle
      /\ mine'[o] = mine[o] \ {i} /\ ifmap'[o] = MapAfter(o, {i})
      /\ \A q \in Objects \ {o} : mine'[q] = mine[q] /\ ifmap'[q] = ifmap[q]
  BY DEF Release, MapSafe, TypeOK
<1> QED
  BY <1>1, MapReleased

(* A first claim of an object is counted in a map that nobody uses.        *)
LEMMA MapClaim ==
  ASSUME TypeOK', MapSafe, NEW o \in Objects, NEW i \in Interfaces,
         Claim(o, i)
  PROVE  MapInv'
<1> USE DEF MapSafe
<1>1. PICK m \in Maps :
        /\ ifmap[o] = NULL => FreeMap(m)
        /\ ifmap[o] # NULL => ifmap[o] = m
        /\ ifmap' = [ifmap EXCEPT ![o] = m]
        /\ count' = [count EXCEPT ![m][i] = @ + 1]
  <2>1. PICK m \in IF ifmap[o] = NULL THEN {n \in Maps : FreeMap(n)}
                   ELSE {ifmap[o]} :
          /\ ifmap' = [ifmap EXCEPT ![o] = m]
          /\ count' = [count EXCEPT ![m][i] = @ + 1]
    BY DEF Claim
  <2> QED
    BY <2>1 DEF TypeOK
<1>2. m # NULL
  BY ConstantsAssumption
<1>3. /\ ifmap'[o] = m /\ mine'[o] = mine[o] \cup {i}
      /\ handle' = handle /\ handle[o] # NULL
      /\ \A q \in Objects \ {o} : mine'[q] = mine[q] /\ ifmap'[q] = ifmap[q]
  BY <1>1 DEF Claim, TypeOK
<1>4. \A n \in Maps, j \in Interfaces :
        count'[n][j] = count[n][j] + (IF n = m /\ j = i THEN 1 ELSE 0)
  BY <1>1 DEF TypeOK
<1>5. ClaimsFounded'
  BY <1>2, <1>3 DEF MapInv, ClaimsFounded
<1>6. SpareKept
  <2>1. ASSUME NEW n \in Maps, NEW j \in Interfaces
        PROVE  count'[n][j] >= count[n][j]
                 - Hit(ClaimedIn(j)[o], n) + Hit(ClaimedIn(j)'[o], n)
    <3>1. ClaimedIn(j)[o] = IF j \in mine[o] THEN ifmap[o] ELSE NULL
      BY DEF ClaimedIn
    <3>2. ClaimedIn(j)'[o] = IF j \in mine[o] \cup {i} THEN m ELSE NULL
      BY <1>3 DEF ClaimedIn
    <3>3. j \in mine[o] => ifmap[o] = m
      BY <1>1 DEF MapInv, ClaimsFounded
    <3>4. n # NULL
      BY ConstantsAssumption
    <3> QED
      BY <1>4, <3>1, <3>2, <3>3, <3>4, SpareType DEF Hit
  <2> QED
    BY <1>3, <2>1, SpareOfOne
<1>7. ClaimsCounted' /\ SharedMapsStay'
  <2>1. ASSUME ifmap[o] = NULL, NEW q \in Objects \ {o}
        PROVE  ifmap'[q] # m
    BY <1>1, <1>2, <1>3, <2>1 DEF MapInv, MapsLive, StaleMap
  <2>2. ASSUME NEW x \in Objects, NEW y \in Objects,
               x # y, ifmap'[x] = ifmap'[y], ifmap'[x] # NULL
        PROVE  \E j \in Interfaces : Spare(ifmap'[x], j) > 0
    <3>1. ifmap'[x] = ifmap[x] /\ ifmap'[y] = ifmap[y]
      BY <1>1, <1>3, <2>1, <2>2
    <3> QED
      BY <2>2, <3>1 DEF MapInv, SharedMapsStay
  <2> QED
    BY <1>6, <2>2, SpareStays
<1>8. MapsLive'
  <2>1. count'[m][i] # 0
    BY <1>4, SpareType
  <2>2. ASSUME NEW q \in Objects \ {o}, ifmap[q] # NULL
        PROVE  \E j \in Interfaces : count'[ifmap[q]][j] # 0
    <3>1. ifmap[q] \in Maps
      BY <2>2 DEF TypeOK
    <3>2. PICK j \in Interfaces : count[ifmap[q]][j] # 0
      BY <2>2 DEF MapInv, MapsLive, StaleMap, FreeMap
    <3> QED
      BY <1>4, <3>1, <3>2, SpareType
  <2> QED
    BY <1>3, <2>1, <2>2 DEF MapsLive, StaleMap, FreeMap
<1> QED
  BY <1>5, <1>7, <1>8 DEF MapInv

LEMMA MapStep ==
  ASSUME CopiesUnclaimed, AnyInv, TypeOK', MapSafe, [Next]_vars
  PROVE  MapInv'
<1> USE DEF MapSafe
<1>1. CASE UNCHANGED vars
  BY <1>1, MapUntouched
  DEF vars, objectVars, heapVars, MapInv, ClaimsFounded
<1>2. ASSUME NEW o \in Objects,
             ConstructDefault(o) \/ UseHandle(o) \/ Undefined(o)
      PROVE  MapInv'
  BY <1>2, MapUntouched DEF ConstructDefault, UseHandle, Undefined,
     objectVars, heapVars, MapInv, ClaimsFounded
<1>3. ASSUME NEW o \in Objects, NEW d \in UsbDevices, ConstructFromUsb(o, d)
      PROVE  MapInv'
  BY <1>3, MapUntouched DEF ConstructFromUsb, heapVars, MapInv, ClaimsFounded
<1>4. ASSUME NEW o \in Objects, Open(o)
      PROVE  MapInv'
  <2>1. PICK h \in Handles : handle' = [handle EXCEPT ![o] = h]
    BY <1>4 DEF Open
  <2>2. \A q \in Objects : handle[q] # NULL => handle'[q] # NULL
    BY <2>1, ConstantsAssumption DEF TypeOK
  <2> QED
    BY <1>4, <2>2, MapUntouched DEF Open, MapInv, ClaimsFounded
<1> QED
  BY <1>1, <1>2, <1>3, <1>4, HandleUsed, MapCopyConstruct, MapCopyAssign,
     MapMoveConstruct, MapMoveAssign, MapDestroy, MapClose, MapClaim,
     MapRelease
  DEF Next

(* No member function of Device follows a dangling pointer to a handle or  *)
(* a map, or misses its entry in the map: for a client that closes         *)
(* unshared Devices and copies unclaimed ones, however often it claims.    *)
THEOREM ClaimsNeverFault ==
  ASSUME ClosesUnshared, CopiesUnclaimed
  PROVE  Spec => []NoFault
<1> DEFINE Safe == MapInv /\ NoFault
<1>1. Init => Safe
  <2> SUFFICES ASSUME Init
               PROVE  Safe
    OBVIOUS
  <2>1. \A m \in Maps, i \in Interfaces :
          Cardinality(Holders(ClaimedIn(i), m)) = 0
    <3>1. \A m \in Maps, i \in Interfaces : Holders(ClaimedIn(i), m) = {}
      BY ConstantsAssumption DEF Init, Holders, ClaimedIn
    <3> QED
      BY <3>1, FS_EmptySet
  <2>2. ClaimsCounted
    BY <2>1 DEF Init, ClaimsCounted, Spare
  <2> QED
    BY <2>2 DEF Init, MapInv, ClaimsFounded, SharedMapsStay, MapsLive,
       StaleMap, NoFault
<1>2. ASSUME AnyInv, AnyInv', HandleCountExact, Safe, [Next]_vars
      PROVE  Safe'
  <2>1. TypeOK /\ TypeOK'
    BY <1>2 DEF AnyInv
  <2>2. MapInv'
    BY <1>2, <2>1, MapStep DEF MapSafe
  <2>3. \A o \in Objects :
          ~StaleHandle(o) /\ ~StaleMap(o) /\ CanRelease(o, mine[o])
    BY <1>2, <2>1, NothingStale
  <2>4. ASSUME NEW o \in Objects, UseHandle(o)
        PROVE  fault' = FALSE
    BY <2>3, <2>4 DEF UseHandle, StaleHandle
  <2>5. ASSUME NEW o \in Objects, Undefined(o)
        PROVE  FALSE
    BY <2>3, <2>5 DEF Undefined
  <2>6. fault' = fault \/ fault' = FALSE
    <3>1. CASE UNCHANGED vars
      BY <3>1 DEF vars
    <3>2. ASSUME NEW o \in Objects, NEW p \in Objects,
                 \/ CopyConstruct(o, p) \/ CopyAssign(o, p)
                 \/ MoveConstruct(o, p) \/ MoveAssign(o, p)
          PROVE  fault' = fault
      BY <3>2 DEF CopyConstruct, CopyAssign, MoveConstruct, MoveAssign
    <3>3. ASSUME NEW o \in Objects,
                 \/ ConstructDefault(o) \/ Destroy(o) \/ Open(o) \/ Close(o)
                 \/ \E d \in UsbDevices : ConstructFromUsb(o, d)
                 \/ \E i \in Interfaces : Claim(o, i) \/ Release(o, i)
          PROVE  fault' = fault
      BY <3>3 DEF ConstructDefault, Destroy, Open, Close, ConstructFromUsb,
         Claim, Release
    <3> QED
      BY <1>2, <2>4, <2>5, <3>1, <3>2, <3>3, HandleUsed DEF Next
  <2>7. NoFault'
    BY <1>2, <2>6, Zenon DEF NoFault
  <2> QED
    BY <2>2, <2>7
<1>3. Safe => NoFault
  OBVIOUS
<1> HIDE DEF Safe
<1>4. AnyInv /\ AnyInv' /\ HandleCountExact /\ Safe /\ [Next]_vars => Safe'
  BY <1>2
<1> QED
  BY <1>1, <1>3, <1>4, AnyInvariant, CountsExact, PTL DEF Spec
=============================================================================
