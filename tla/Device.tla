------------------------------- MODULE Device -------------------------------
(***************************************************************************)
(* Usbpp::Device: the handle-sharing objects of src/src/device.cpp.        *)
(*                                                                         *)
(* Every Device owns one Device::Impl.  Copies of a Device share the       *)
(* libusb handle through a counter on the heap (m_handleRefCount) and the  *)
(* interface claims through a map of counters on the heap                  *)
(* (m_interfaceRefCount); each copy keeps the set of the interfaces it     *)
(* claimed itself (m_interfaceMyClaimed).                                  *)
(*                                                                         *)
(* Heap cells are named by addresses.  An address that is free may be      *)
(* handed out again by the allocator, so a pointer that outlived its cell  *)
(* either hits freed memory (action Undefined) or a stranger's cell.       *)
(***************************************************************************)
EXTENDS Naturals, FiniteSets

CONSTANTS
  Objects,     (* Device variables of the client                             *)
  UsbDevices,  (* libusb_device pointers                                     *)
  Handles,     (* addresses of a libusb handle and of its counter            *)
  Maps,        (* addresses of an interface counter map                      *)
  Interfaces,  (* bInterfaceNumber values                                    *)
  Habits,      (* what this client does beyond the careful one, see below    *)
  MaxCount,    (* bound of the model: the largest interface counter          *)
  NULL

(***************************************************************************)
(* A careful client does none of these (examples/testhid.cpp does none):   *)
(*   copy_claimed   copies a Device that has claimed an interface          *)
(*   close_shared   calls close() on a Device whose handle is shared       *)
(*   claim_twice    claims an interface this Device has claimed already    *)
(*   claim_shared   claims an interface another Device with the same       *)
(*                  handle has claimed                                     *)
(*   reset_shared   resets a device whose handle is shared                  *)
(* Each of them is legal by the comments of device.h.                      *)
(***************************************************************************)
AllHabits == {"copy_claimed", "close_shared", "claim_twice", "claim_shared",
              "reset_shared"}

ASSUME ConstantsAssumption ==
  /\ IsFiniteSet(Objects)
  /\ NULL \notin UsbDevices \cup Handles \cup Maps
  /\ Habits \subseteq AllHabits
  /\ MaxCount \in Nat

VARIABLES
  life,      (* object -> "none", "live" or "moved" (its pimpl is null)      *)
  device,    (* object -> m_device                                           *)
  handle,    (* object -> m_handle, which m_handleRefCount goes along with   *)
  mine,      (* object -> m_interfaceMyClaimed                               *)
  ifmap,     (* object -> m_interfaceRefCount, the pointer                   *)
  refcount,  (* address -> *m_handleRefCount, 0 when the cell is free        *)
  count,     (* address -> interface -> its counter, 0 for no entry; a map   *)
             (*   with no entry at all is free                               *)
  opened,    (* libusb: the open handles                                     *)
  held,      (* libusb: handle -> the interfaces claimed through it          *)
  devrefs,   (* libusb: device -> the references this library holds          *)
  fault      (* an operation followed a pointer to freed memory              *)

objectVars == <<life, device, handle, mine, ifmap>>
heapVars   == <<refcount, count>>
libusbVars == <<opened, held, devrefs>>
vars       == <<objectVars, heapVars, libusbVars, fault>>

TypeOK ==
  /\ life     \in [Objects -> {"none", "live", "moved"}]
  /\ device   \in [Objects -> UsbDevices \cup {NULL}]
  /\ handle   \in [Objects -> Handles \cup {NULL}]
  /\ mine     \in [Objects -> SUBSET Interfaces]
  /\ ifmap    \in [Objects -> Maps \cup {NULL}]
  /\ refcount \in [Handles -> Nat]
  /\ count    \in [Maps -> [Interfaces -> Nat]]
  /\ opened   \in SUBSET Handles
  /\ held     \in [Handles -> SUBSET Interfaces]
  /\ devrefs  \in [UsbDevices -> Nat]
  /\ fault    \in BOOLEAN

Init ==
  /\ life     = [o \in Objects |-> "none"]
  /\ device   = [o \in Objects |-> NULL]
  /\ handle   = [o \in Objects |-> NULL]
  /\ mine     = [o \in Objects |-> {}]
  /\ ifmap    = [o \in Objects |-> NULL]
  /\ refcount = [h \in Handles |-> 0]
  /\ count    = [m \in Maps |-> [i \in Interfaces |-> 0]]
  /\ opened   = {}
  /\ held     = [h \in Handles |-> {}]
  /\ devrefs  = [d \in UsbDevices |-> 0]
  /\ fault    = FALSE

-----------------------------------------------------------------------------
(* Pointers and counters.                                                  *)

Running   == ~fault
Live(o)   == life[o] = "live"
Exists(o) == life[o] # "none"

Holders(f, x) == {o \in Objects : f[o] = x}
Sharers(h)    == Holders(handle, h)
Shared(o)     == handle[o] # NULL /\ Sharers(handle[o]) # {o}

FreeMap(m)    == \A i \in Interfaces : count[m][i] = 0
StaleMap(o)   == ifmap[o] # NULL /\ FreeMap(ifmap[o])
StaleHandle(o) == handle[o] # NULL /\ refcount[handle[o]] = 0

(* Mutant of Retain: copying a Device does not raise the counters.         *)
RetainForgotten(f, x) == f

(* ++ and -- of the counter behind a pointer that may be null.             *)
Retain(f, x) == IF x = NULL THEN f ELSE [f EXCEPT ![x] = @ + 1]
Drop(f, x)   == IF x = NULL THEN f ELSE [f EXCEPT ![x] = @ - 1]

(***************************************************************************)
(* Impl::releaseInterface for every interface of S, a subset of mine[o].   *)
(* The lookup in the map must find an entry; the last release of an entry  *)
(* calls libusb on m_handle, which must not have been freed.               *)
(***************************************************************************)
(* Mutant of Released: the counter is tested before it is decreased.       *)
ReleasedTooLate(o, S) == {i \in S : count[ifmap[o]][i] = 0}

Released(o, S) == {i \in S : count[ifmap[o]][i] = 1}

CanRelease(o, S) ==
  /\ \A i \in S : ifmap[o] # NULL /\ count[ifmap[o]][i] > 0
  /\ StaleHandle(o) => Released(o, S) = {}

Lowered(o, S) ==
  IF S = {} THEN count
  ELSE [count EXCEPT ![ifmap[o]] =
          [i \in Interfaces |-> IF i \in S THEN @[i] - 1 ELSE @[i]]]

(* The map is deleted, and the pointer of this object reset, when a release *)
(* leaves it empty.                                                         *)
MapEmptied(o, S) ==
  S # {} /\ \A i \in Interfaces : Lowered(o, S)[ifmap[o]][i] = 0

(* Mutant of MapAfter: the map is deleted and the pointer to it kept.      *)
MapDangling(o, S) == ifmap[o]

MapAfter(o, S) == IF MapEmptied(o, S) THEN NULL ELSE ifmap[o]

(***************************************************************************)
(* Impl::close: releases what this object claimed, then drops its share of *)
(* the handle; the last share closes the handle, and libusb forgets the    *)
(* claims made through it.  rc is the counter cell as the caller left it.  *)
(***************************************************************************)
CanClose(o) == CanRelease(o, mine[o]) /\ ~StaleHandle(o)

(* Mutants of LastShare: the counter is tested before it is decreased; the *)
(* handle is closed whatever the counter says.                             *)
LastShareTooLate(o, rc) == handle[o] # NULL /\ rc[handle[o]] = 0
EveryShareLast(o, rc)   == handle[o] # NULL

LastShare(o, rc) == handle[o] # NULL /\ Drop(rc, handle[o])[handle[o]] = 0

CloseImpl(o, rc) ==
  /\ count'    = Lowered(o, mine[o])
  /\ refcount' = Drop(rc, handle[o])
  /\ opened'   = IF LastShare(o, rc) THEN opened \ {handle[o]} ELSE opened
  /\ held'     = IF handle[o] = NULL THEN held
                 ELSE [held EXCEPT ![handle[o]] =
                         IF LastShare(o, rc) THEN {}
                         ELSE @ \ Released(o, mine[o])]

-----------------------------------------------------------------------------
(* Construction, copying, moving and destruction.                          *)

(* Device(): not valid until a valid device is assigned to it.             *)
ConstructDefault(o) ==
  /\ Running
  /\ life[o] = "none"
  /\ life' = [life EXCEPT ![o] = "live"]
  /\ UNCHANGED <<device, handle, mine, ifmap, heapVars, libusbVars, fault>>

(* Device(libusb_device* ): takes over the reference the caller obtained   *)
(* from libusb, as Context::getDevices does.                               *)
ConstructFromUsb(o, d) ==
  /\ Running
  /\ life[o] = "none"
  /\ life'    = [life EXCEPT ![o] = "live"]
  /\ device'  = [device EXCEPT ![o] = d]
  /\ devrefs' = [devrefs EXCEPT ![d] = @ + 1]
  /\ UNCHANGED <<handle, mine, ifmap, heapVars, opened, held, fault>>

(* Impl(const Impl&): the pointers and the set of claims are copied, the   *)
(* device and the handle counter are raised.                               *)
MayCopy(p) ==
  /\ Live(p)
  /\ ~StaleHandle(p)
  /\ "copy_claimed" \notin Habits => mine[p] = {}

CopyConstruct(o, p) ==
  /\ Running
  /\ life[o] = "none"
  /\ MayCopy(p)
  /\ life'     = [life EXCEPT ![o] = "live"]
  /\ device'   = [device EXCEPT ![o] = device[p]]
  /\ handle'   = [handle EXCEPT ![o] = handle[p]]
  /\ mine'     = [mine EXCEPT ![o] = mine[p]]
  /\ ifmap'    = [ifmap EXCEPT ![o] = ifmap[p]]
  /\ refcount' = Retain(refcount, handle[p])
  /\ devrefs'  = Retain(devrefs, device[p])
  /\ UNCHANGED <<count, opened, held, fault>>

(* Device& operator=(const Device&): copy first, then destroy the old Impl *)
(* of the target, if it still has one.                                     *)
CopyAssign(o, p) ==
  /\ Running
  /\ o # p
  /\ Exists(o)
  /\ CanClose(o)
  /\ MayCopy(p)
  /\ life'    = [life EXCEPT ![o] = "live"]
  /\ device'  = [device EXCEPT ![o] = device[p]]
  /\ handle'  = [handle EXCEPT ![o] = handle[p]]
  /\ mine'    = [mine EXCEPT ![o] = mine[p]]
  /\ ifmap'   = [ifmap EXCEPT ![o] = ifmap[p]]
  /\ devrefs' = Drop(Retain(devrefs, device[p]), device[o])
  /\ CloseImpl(o, Retain(refcount, handle[p]))
  /\ UNCHANGED fault

(* The Impl of p becomes that of o; p is left without one.                 *)
(* Mutant of TakeImpl: p keeps its Impl.                                   *)
ShareImpl(o, p) ==
  /\ life'   = [life   EXCEPT ![o] = life[p]]
  /\ device' = [device EXCEPT ![o] = device[p]]
  /\ handle' = [handle EXCEPT ![o] = handle[p]]
  /\ mine'   = [mine   EXCEPT ![o] = mine[p]]
  /\ ifmap'  = [ifmap  EXCEPT ![o] = ifmap[p]]

TakeImpl(o, p) ==
  /\ life'   = [life   EXCEPT ![o] = life[p],   ![p] = "moved"]
  /\ device' = [device EXCEPT ![o] = device[p], ![p] = NULL]
  /\ handle' = [handle EXCEPT ![o] = handle[p], ![p] = NULL]
  /\ mine'   = [mine   EXCEPT ![o] = mine[p],   ![p] = {}]
  /\ ifmap'  = [ifmap  EXCEPT ![o] = ifmap[p],  ![p] = NULL]

MoveConstruct(o, p) ==
  /\ Running
  /\ life[o] = "none"
  /\ Exists(p)
  /\ TakeImpl(o, p)
  /\ UNCHANGED <<heapVars, libusbVars, fault>>

(* Device& operator=(Device&&): the old Impl of the target is destroyed.   *)
MoveAssign(o, p) ==
  /\ Running
  /\ o # p
  /\ Exists(o)
  /\ Exists(p)
  /\ CanClose(o)
  /\ TakeImpl(o, p)
  /\ devrefs' = Drop(devrefs, device[o])
  /\ CloseImpl(o, refcount)
  /\ UNCHANGED fault

(* ~Impl: close, then drop the libusb reference on the device.             *)
Destroy(o) ==
  /\ Running
  /\ Exists(o)
  /\ CanClose(o)
  /\ life'    = [life EXCEPT ![o] = "none"]
  /\ device'  = [device EXCEPT ![o] = NULL]
  /\ handle'  = [handle EXCEPT ![o] = NULL]
  /\ mine'    = [mine EXCEPT ![o] = {}]
  /\ ifmap'   = [ifmap EXCEPT ![o] = NULL]
  /\ devrefs' = Drop(devrefs, device[o])
  /\ CloseImpl(o, refcount)
  /\ UNCHANGED fault

-----------------------------------------------------------------------------
(* Opening, closing, claiming and releasing.                               *)

(* open() of an object without a handle; when libusb_open fails the        *)
(* exception leaves everything as it was.  On an object with a handle it   *)
(* only sets the auto-detach flag.                                         *)
Open(o) ==
  /\ Running
  /\ Live(o)
  /\ device[o] # NULL
  /\ handle[o] = NULL
  /\ \E h \in Handles \ opened :
       /\ handle'   = [handle EXCEPT ![o] = h]
       /\ refcount' = [refcount EXCEPT ![h] = 1]
       /\ opened'   = opened \cup {h}
  /\ UNCHANGED <<life, device, mine, ifmap, count, held, devrefs, fault>>

(* close(): the pointer to the handle is reset only by the last share.     *)
Close(o) ==
  /\ Running
  /\ Live(o)
  /\ CanClose(o)
  /\ "close_shared" \notin Habits => ~Shared(o)
  /\ mine'   = [mine EXCEPT ![o] = {}]
  /\ ifmap'  = [ifmap EXCEPT ![o] = MapAfter(o, mine[o])]
  /\ handle' = IF LastShare(o, refcount) THEN [handle EXCEPT ![o] = NULL]
               ELSE handle
  /\ CloseImpl(o, refcount)
  /\ UNCHANGED <<life, device, devrefs, fault>>

(* claimInterface(): the map is allocated on the first claim of an object  *)
(* that has none.  The result of libusb_claim_interface is ignored.        *)
Claim(o, i) ==
  /\ Running
  /\ Live(o)
  /\ handle[o] # NULL
  /\ ~StaleHandle(o)
  /\ ~StaleMap(o)
  /\ "claim_twice" \notin Habits => i \notin mine[o]
  /\ "claim_shared" \notin Habits =>
       \A p \in Sharers(handle[o]) \ {o} : i \notin mine[p]
  /\ mine' = [mine EXCEPT ![o] = @ \cup {i}]
  /\ \E m \in IF ifmap[o] = NULL THEN {n \in Maps : FreeMap(n)}
              ELSE {ifmap[o]} :
       /\ count[m][i] < MaxCount
       /\ ifmap' = [ifmap EXCEPT ![o] = m]
       /\ count' = [count EXCEPT ![m][i] = @ + 1]
  /\ \/ held' = [held EXCEPT ![handle[o]] = @ \cup {i}]
     \/ held' = held
  /\ UNCHANGED <<life, device, handle, refcount, opened, devrefs, fault>>

(* releaseInterface() of an interface this object claimed; of any other it *)
(* does nothing.                                                           *)
Release(o, i) ==
  /\ Running
  /\ Live(o)
  /\ i \in mine[o]
  /\ CanRelease(o, {i})
  /\ mine'  = [mine EXCEPT ![o] = @ \ {i}]
  /\ count' = Lowered(o, {i})
  /\ ifmap' = [ifmap EXCEPT ![o] = MapAfter(o, {i})]
  /\ held'  = [held EXCEPT ![handle[o]] = @ \ Released(o, {i})]
  /\ UNCHANGED <<life, device, handle, refcount, opened, devrefs, fault>>

(* The six transfers, and the calls that ask for or set the state of the   *)
(* device: they pass m_handle to libusb and change nothing in the object;  *)
(* an error leaves as an exception.                                        *)
UseHandle(o) ==
  /\ Running
  /\ Live(o)
  /\ handle[o] # NULL
  /\ fault' = StaleHandle(o)
  /\ UNCHANGED <<objectVars, heapVars, libusbVars>>

Transfer(o)  == UseHandle(o)
Configure(o) == UseHandle(o)

(* reset(): the assertions see the claims and the map of this object only. *)
CanReset(o) ==
  /\ handle[o] # NULL
  /\ mine[o] = {}
  /\ ifmap[o] # NULL => FreeMap(ifmap[o])

MayReset(o) ==
  /\ Live(o)
  /\ CanReset(o)
  /\ "reset_shared" \notin Habits => ~Shared(o)

Reset(o) == MayReset(o) /\ UseHandle(o)

(* An operation on an object that has been left with a pointer to freed    *)
(* memory: another open() through a freed handle, a claim into a freed     *)
(* map, a release or a destructor that finds no counter.                   *)
(* What the process does from here on is undefined.                        *)
Undefined(o) ==
  /\ Running
  /\ Live(o)
  /\ StaleHandle(o) \/ StaleMap(o) \/ ~CanRelease(o, mine[o])
  /\ fault' = TRUE
  /\ UNCHANGED <<objectVars, heapVars, libusbVars>>

Next ==
  \E o \in Objects :
    \/ ConstructDefault(o)
    \/ \E d \in UsbDevices : ConstructFromUsb(o, d)
    \/ \E p \in Objects :
         \/ CopyConstruct(o, p)
         \/ CopyAssign(o, p)
         \/ MoveConstruct(o, p)
         \/ MoveAssign(o, p)
    \/ Destroy(o)
    \/ Open(o)
    \/ Close(o)
    \/ \E i \in Interfaces : Claim(o, i) \/ Release(o, i)
    \/ Transfer(o)
    \/ Configure(o)
    \/ Reset(o)
    \/ Undefined(o)

Spec == Init /\ [][Next]_vars

-----------------------------------------------------------------------------
(* Properties that hold whatever the client does.                          *)

(* Each Impl with a device accounts for exactly one libusb reference:      *)
(* adopted by Device(libusb_device* ), taken by the copy constructor,      *)
(* passed on by a move, given back by the destructor and by assignments.   *)
DeviceRefsExact ==
  \A d \in UsbDevices : devrefs[d] = Cardinality(Holders(device, d))

(* No handle leaks.  The counter of an open handle is positive and never   *)
(* exceeds the number of objects that will still decrease it, so the last  *)
(* of them closes it at the latest; the counter cell lives as long as the  *)
(* handle is open.                                                         *)
HandleReachable ==
  \A h \in Handles :
    /\ h \in opened <=> refcount[h] > 0
    /\ refcount[h] <= Cardinality(Sharers(h))

-----------------------------------------------------------------------------
(* Properties of the careful client.                                       *)

(* No operation ever follows a pointer to a freed handle, counter or map,  *)
(* and no release misses its entry in the map.                             *)
NoFault == ~fault

(* The handle counter is the number of the objects that share the handle.  *)
HandleCountExact ==
  \A h \in Handles : refcount[h] = Cardinality(Sharers(h))

(* An interface stays claimed in libusb only while one of the objects      *)
(* sharing the handle has it in its set: nothing is left behind by         *)
(* releaseInterface(), close() or a destructor.                            *)
HeldIsClaimed ==
  \A h \in Handles : \A i \in held[h] :
    \E o \in Sharers(h) : i \in mine[o]

(* device.h, close(): the device is closed only after all the Device       *)
(* instances that share the same device are closed.                        *)
ClosedByLastShare ==
  [][\A h \in opened \ opened' : Sharers(h)' = {}]_vars

(* device.h, releaseInterface() and close(): the interface is released     *)
(* only after all Devices that claimed it release it, and closing one      *)
(* Device does not release an interface another one has claimed.           *)
ReleasedByLastClaim ==
  [][\A h \in Handles : \A i \in held[h] \ held'[h] :
        \A o \in Sharers(h)' : i \notin mine'[o]]_vars

(* device.h, reset(): it can only be performed if the device has not been  *)
(* claimed.  (Not so: what reset() sees is the claims of its own object;   *)
(* libusb resets the device under every claim made through the handle.)    *)
ResetOnlyUnclaimed ==
  \A o \in Objects : MayReset(o) => held[handle[o]] = {}

(* The Device objects implement SharedResource: libusb_open is called once *)
(* for all copies, and libusb_close when the last of them lets go.         *)
Sharing == INSTANCE SharedResource WITH
  Resources <- Handles,
  Users     <- Objects,
  users     <- [h \in Handles |-> Sharers(h)],
  open      <- opened

HandlesAreShared == Sharing!Spec

=============================================================================
