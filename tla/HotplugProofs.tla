---------------------------- MODULE HotplugProofs ----------------------------
(***************************************************************************)
(* Proofs about Hotplug, for every number of functions, devices and        *)
(* pending events.                                                         *)
(***************************************************************************)
EXTENDS Hotplug, SequenceTheorems, TLAPS

-----------------------------------------------------------------------------
(* The inductive invariant.                                                *)

(* What the type invariant says of the tables of functions and leaves out: *)
(* the argument of the call that has begun.                                *)
CallsFit ==
  /\ client = "insert" => \A k \in Kinds : func \notin funcs[k]
  /\ client \in {"start", "register", "spawn"} => func \in funcs[kind]
  /\ client = "erase" => func \notin orphans[kind]
  /\ client \in {"stop", "join", "deregister"} => NoFunction

(* A registered function whose thread could not be started.                *)
NeverStarted ==
  /\ "spawn" \in Failures
  /\ loop = "none"
  /\ \E k \in Kinds : orphans[k] # {}

(* Where the event thread may be, by where the client thread is.           *)
Unwatched == client \in {"idle", "insert", "start", "erase", "stop", "enumerate"}

ThreadsFit ==
  /\ loop = "done" => ~enabled
  /\ loop = "forget" => event.kind = "disconnected"
  /\ client = "register"   => enabled /\ ~registered /\ loop = "none"
  /\ client = "spawn"      => enabled /\ registered /\ loop = "none"
  /\ client = "join"       => ~enabled /\ registered /\ loop # "none"
  /\ client = "deregister" => ~enabled /\ registered /\ loop = "none"
  /\ Unwatched /\ ~enabled => ~registered /\ loop = "none"
  /\ Unwatched /\ enabled =>
       /\ registered
       /\ loop # "none" \/ NeverStarted
       /\ client # "stop" => ~NoFunction

(* While the loop does not run, no function is left that the client could  *)
(* unregister, but the one it is about to register or to unregister.       *)
OnlyOrphans ==
  /\ ~enabled /\ client \in {"idle", "insert", "erase", "enumerate"} =>
       \A k \in Kinds : funcs[k] = orphans[k]
  /\ (~enabled /\ client = "start") \/ client \in {"register", "spawn"} =>
       \A k \in Kinds : funcs[k] \subseteq
         orphans[k] \cup (IF k = kind THEN {func} ELSE {})

(* A device is in one place of the life of an attached device at a time,   *)
(* and its removal is queued once.                                         *)
Removal(d) == [kind |-> "disconnected", device |-> d]

Once(q, d) ==
  \A m, n \in DOMAIN q : q[m] = Removal(d) /\ q[n] = Removal(d) => m = n

OnePlace ==
  \A d \in UsbDevices :
    /\ d \in present => ~LeftPending(d) /\ ~HandlingLeft(d)
    /\ LeftPending(d) => ~HandlingLeft(d)
    /\ Once(queue, d)

(* No device has more references than owners.                              *)
Counted ==
  /\ client = "enumerate" => kept = {}
  /\ \A d \in UsbDevices : 0 <= refs[d] /\ refs[d] <= Owners(d)

Sound == CallsFit /\ ThreadsFit /\ OnlyOrphans /\ OnePlace /\ Counted

Inv == TypeOK /\ (broken \/ Sound)

(* Inv holds before any call.                                              *)
LEMMA InitInv == Init => Inv
<1> SUFFICES ASSUME Init PROVE TypeOK /\ Sound
  BY DEF Inv
<1>1. TypeOK
  <2>1. queue \in Seq(Events)
    BY EmptySeq DEF Init
  <2>2. refs \in [UsbDevices -> -2..4]
    <3>1. \A d \in UsbDevices : (IF d \in present THEN 1 ELSE 0) \in -2..4
      OBVIOUS
    <3> QED
      BY <3>1 DEF Init
  <2> QED
    BY <2>1, <2>2 DEF Init, TypeOK, Kinds
<1>2. CallsFit /\ ThreadsFit /\ OnlyOrphans
  BY DEF Init, CallsFit, ThreadsFit, OnlyOrphans, Kinds, NoFunction, Unwatched
<1>3. OnePlace
  BY DEF Init, OnePlace, Once, LeftPending, HandlingLeft, Handling
<1>4. Counted
  BY DEF Init, Counted, Owners, One, LeftPending, HandlingLeft, Handling
<1> QED
  BY <1>1, <1>2, <1>3, <1>4 DEF Sound

-----------------------------------------------------------------------------
(* The two threads and the tables of functions.                            *)

(* What the proofs about the threads use of the types.                     *)
TablesTyped ==
  /\ kind \in Kinds
  /\ func \in Functions
  /\ funcs \in [Kinds -> SUBSET Functions]
  /\ orphans \in [Kinds -> SUBSET Functions]
  /\ \A k \in Kinds : orphans[k] \subseteq funcs[k]
  /\ enabled \in BOOLEAN
  /\ registered \in BOOLEAN

Control == CallsFit /\ ThreadsFit /\ OnlyOrphans

(* Steps that touch neither thread, nor the tables, nor the flags.         *)
LEMMA ControlUntouched ==
  ASSUME Control,
         UNCHANGED <<callerVars, loop, event>>
  PROVE  Control'
BY DEF Control, CallsFit, ThreadsFit, OnlyOrphans, NeverStarted, Unwatched,
       NoFunction, callerVars, clientVars, tableVars, flagVars

(* The client's steps.                                                     *)
LEMMA ControlClient ==
  ASSUME TablesTyped, Control,
         \/ CallRegister \/ CallUnregister \/ CallGetDevices \/ DropDevice
         \/ ClientStep
  PROVE  Control'
<1> USE DEF Control, CallsFit, ThreadsFit, OnlyOrphans, NeverStarted,
            Unwatched, NoFunction, TablesTyped, Kinds,
            ClientAt, ClientTo, LoopTo,
            clientVars, tableVars, flagVars, loopVars
<1>1. CASE CallRegister
  BY <1>1 DEF CallRegister
<1>2. CASE CallUnregister
  BY <1>2 DEF CallUnregister
<1>3. CASE CallGetDevices
  BY <1>3 DEF CallGetDevices
<1>4. CASE DropDevice
  BY <1>4, ControlUntouched DEF DropDevice, callerVars
<1>5. CASE InsertFunction
  BY <1>5 DEF InsertFunction
<1>6. CASE StartEventLoop
  BY <1>6 DEF StartEventLoop
<1>7. CASE RegisterCallback
  BY <1>7 DEF RegisterCallback
<1>8. CASE RegisterCallbackFails
  BY <1>8 DEF RegisterCallbackFails
<1>9. CASE SpawnThread
  BY <1>9 DEF SpawnThread
<1>10. CASE SpawnThreadFails
  BY <1>10 DEF SpawnThreadFails
<1>11. CASE EraseFunction
  BY <1>11 DEF EraseFunction
<1>12. CASE StopEventLoop
  BY <1>12 DEF StopEventLoop
<1>13. CASE JoinThread
  BY <1>13 DEF JoinThread
<1>14. CASE DeregisterCallback
  BY <1>14 DEF DeregisterCallback
<1>15. CASE EnterDevices
  BY <1>15 DEF EnterDevices
<1> QED
  BY <1>1, <1>2, <1>3, <1>4, <1>5, <1>6, <1>7, <1>8, <1>9, <1>10, <1>11,
     <1>12, <1>13, <1>14, <1>15 DEF ClientStep

(* The steps of the event thread that do not end the program.              *)
LEMMA ControlLoop ==
  ASSUME TablesTyped, Control, LoopStep, ~broken'
  PROVE  Control'
<1> USE DEF Control, CallsFit, ThreadsFit, OnlyOrphans, NeverStarted,
            Unwatched, NoFunction, TablesTyped, LoopAt, LoopTo,
            callerVars, clientVars, tableVars, flagVars
<1>1. CASE TestEnabled
  BY <1>1 DEF TestEnabled
<1>2. CASE DeliverEvent
  BY <1>2 DEF DeliverEvent
<1>3. CASE EventsTimeout
  BY <1>3 DEF EventsTimeout
<1>4. CASE Sleep
  BY <1>4 DEF Sleep
<1>5. CASE LookupArrived
  BY <1>5 DEF LookupArrived
<1>6. CASE LookupLeft
  BY <1>6 DEF LookupLeft
<1>7. CASE CallFunction
  BY <1>7 DEF CallFunction
<1>8. CASE CallReentrant
  BY <1>8 DEF CallReentrant
<1>9. CASE CallsDone
  BY <1>9 DEF CallsDone
<1>10. CASE ForgetDevice
  BY <1>10 DEF ForgetDevice
<1> QED
  BY <1>1, <1>2, <1>3, <1>4, <1>5, <1>6, <1>7, <1>8, <1>9, <1>10
     DEF LoopStep

-----------------------------------------------------------------------------
(* The queue of events.                                                    *)

Pending(q, d) == \E n \in DOMAIN q : q[n] = Removal(d)

LEMMA PendingAppend ==
  ASSUME NEW q \in Seq(Events), NEW e \in Events, NEW d \in UsbDevices
  PROVE  /\ Append(q, e) \in Seq(Events)
         /\ Pending(Append(q, e), d) <=> Pending(q, d) \/ e = Removal(d)
         /\ Once(q, d) /\ (e = Removal(d) => ~Pending(q, d)) =>
              Once(Append(q, e), d)
<1> DEFINE r == Append(q, e)
<1>1. /\ r \in Seq(Events)
      /\ Len(q) \in Nat
      /\ DOMAIN q = 1..Len(q)
      /\ DOMAIN r = 1..(Len(q) + 1)
      /\ r[Len(q) + 1] = e
      /\ \A n \in 1..Len(q) : r[n] = q[n]
  BY AppendProperties, LenProperties
<1> HIDE DEF r
<1>2. \A n \in 1..(Len(q) + 1) : n \in 1..Len(q) \/ n = Len(q) + 1
  BY <1>1
<1>3. Len(q) + 1 \in DOMAIN r /\ \A n \in DOMAIN q : n \in DOMAIN r
  BY <1>1
<1>4. Pending(r, d) <=> Pending(q, d) \/ e = Removal(d)
  BY <1>1, <1>2, <1>3 DEF Pending
<1>5. Once(q, d) /\ (e = Removal(d) => ~Pending(q, d)) => Once(r, d)
  BY <1>1, <1>2 DEF Pending, Once
<1> QED
  BY <1>1, <1>4, <1>5 DEF r

LEMMA PendingTail ==
  ASSUME NEW q \in Seq(Events), q # <<>>, NEW d \in UsbDevices, Once(q, d)
  PROVE  /\ Head(q) \in Events
         /\ Tail(q) \in Seq(Events)
         /\ Pending(Tail(q), d) <=> Pending(q, d) /\ Head(q) # Removal(d)
         /\ Head(q) = Removal(d) => Pending(q, d)
         /\ Once(Tail(q), d)
<1> DEFINE r == Tail(q)
<1>1. /\ r \in Seq(Events)
      /\ Head(q) \in Events
      /\ Head(q) = q[1]
      /\ Len(q) \in Nat /\ Len(q) > 0
      /\ DOMAIN q = 1..Len(q)
      /\ DOMAIN r = 1..(Len(q) - 1)
      /\ \A n \in 1..(Len(q) - 1) : r[n] = q[n + 1]
  BY HeadTailProperties, LenProperties, EmptySeq
<1> HIDE DEF r
<1>2. 1 \in DOMAIN q /\ \A n \in DOMAIN r : n + 1 \in DOMAIN q /\ n + 1 # 1
  BY <1>1
<1>3. \A n \in DOMAIN q : n # 1 => n - 1 \in DOMAIN r /\ r[n - 1] = q[n]
  BY <1>1
<1>4. Pending(r, d) => Pending(q, d) /\ Head(q) # Removal(d)
  BY <1>1, <1>2 DEF Pending, Once
<1>5. Pending(q, d) /\ Head(q) # Removal(d) => Pending(r, d)
  BY <1>1, <1>3 DEF Pending
<1>6. Head(q) = Removal(d) => Pending(q, d)
  BY <1>1, <1>2 DEF Pending
<1>7. Once(r, d)
  <2> SUFFICES ASSUME NEW m \in DOMAIN r, NEW n \in DOMAIN r,
                      r[m] = Removal(d), r[n] = Removal(d)
               PROVE  m = n
    BY DEF Once
  <2>1. m + 1 \in DOMAIN q /\ n + 1 \in DOMAIN q
    BY <1>2
  <2>2. m + 1 = n + 1
    BY <1>1, <2>1 DEF Once
  <2> QED
    BY <1>1, <2>2
<1> QED
  BY <1>1, <1>4, <1>5, <1>6, <1>7 DEF r

-----------------------------------------------------------------------------
(* Devices, their events and their references.                             *)

(* What the proofs about the devices use of the types.                     *)
DevicesTyped ==
  /\ event \in Events
  /\ devices \in SUBSET UsbDevices
  /\ kept \in SUBSET UsbDevices
  /\ refs \in [UsbDevices -> Int]
  /\ present \in SUBSET UsbDevices
  /\ queue \in Seq(Events)

Bookkeeping == DevicesTyped /\ OnePlace /\ Counted

Balance ==
  \A d \in UsbDevices :
    Missing(d)' = Missing(d) + One(loop' # loop /\ AdoptsUnowned(d))

(* Who relies on a device has not lost it.                                 *)
LEMMA OwnedExists ==
  ASSUME Bookkeeping, Running, NEW d \in UsbDevices
  PROVE  /\ Owners(d) \in 0..4
         /\ refs[d] \in Int /\ 0 <= refs[d] /\ refs[d] <= Owners(d)
         /\ Owners(d) > 0 => refs[d] > 0
<1>1. Owners(d) \in 0..4
  BY DEF Owners, One
<1>2. refs[d] \in Int /\ 0 <= refs[d] /\ refs[d] <= Owners(d)
  BY DEF Bookkeeping, DevicesTyped, Counted
<1>3. ~(refs[d] = 0 /\ Owners(d) > 0)
  BY DEF Running, Dangling
<1> QED
  BY <1>1, <1>2, <1>3

(* Nothing happens to the places when the bus, the queue and the handler   *)
(* stay as they are.                                                       *)
LEMMA PlacesKept ==
  ASSUME OnePlace, UNCHANGED usbVars,
         \A d \in UsbDevices : HandlingLeft(d)' <=> HandlingLeft(d)
  PROVE  /\ OnePlace'
         /\ \A d \in UsbDevices : LeftPending(d)' <=> LeftPending(d)
<1>1. \A d \in UsbDevices : LeftPending(d)' <=> LeftPending(d)
  BY DEF usbVars, LeftPending
<1> QED
  BY <1>1 DEF usbVars, OnePlace, Once

(* Counted again, from the balance.                                        *)
LEMMA StillCounted ==
  ASSUME Bookkeeping, DevicesTyped', Balance,
         \A d \in UsbDevices : 0 <= refs'[d],
         client' = "enumerate" => kept' = {}
  PROVE  Counted'
<1> SUFFICES ASSUME NEW d \in UsbDevices PROVE refs'[d] <= Owners(d)'
  BY DEF Counted
<1>1. /\ Owners(d) \in Int /\ Owners(d)' \in Int
      /\ refs[d] \in Int /\ refs'[d] \in Int
      /\ refs[d] <= Owners(d)
  BY DEF Owners, One, Bookkeeping, DevicesTyped, Counted
<1>2. Owners(d)' - refs'[d]
        = Owners(d) - refs[d] + One(loop' # loop /\ AdoptsUnowned(d))
  BY DEF Balance, Missing
<1>3. One(loop' # loop /\ AdoptsUnowned(d)) \in {0, 1}
  BY DEF One
<1> QED
  BY <1>1, <1>2, <1>3

(* The four owners of a device, and its balance.                           *)
OnBus(d)      == One(d \in present \/ LeftPending(d) \/ HandlingLeft(d))
InMap(d)      == One(d \in devices)
WithClient(d) == One(d \in kept)
OnStack(d)    == One(HandlingLeft(d) /\ loop # "lookup")

LEMMA BalanceOf ==
  ASSUME Bookkeeping, NEW d \in UsbDevices, refs'[d] \in Int
  PROVE  /\ OnBus(d) \in {0, 1} /\ OnBus(d)' \in {0, 1}
         /\ InMap(d) \in {0, 1} /\ InMap(d)' \in {0, 1}
         /\ WithClient(d) \in {0, 1} /\ WithClient(d)' \in {0, 1}
         /\ OnStack(d) \in {0, 1} /\ OnStack(d)' \in {0, 1}
         /\ refs[d] \in Int /\ 0 <= refs[d]
         /\ Missing(d) = OnBus(d) + InMap(d) + WithClient(d) + OnStack(d) - refs[d]
         /\ Missing(d)' = OnBus(d)' + InMap(d)' + WithClient(d)' + OnStack(d)'
                            - refs'[d]
<1>1. refs[d] \in Int /\ 0 <= refs[d]
  BY DEF Bookkeeping, DevicesTyped, Counted
<1>2. /\ OnBus(d) \in {0, 1} /\ InMap(d) \in {0, 1}
      /\ WithClient(d) \in {0, 1} /\ OnStack(d) \in {0, 1}
  BY DEF OnBus, InMap, WithClient, OnStack, One
<1>3. /\ OnBus(d)' \in {0, 1} /\ InMap(d)' \in {0, 1}
      /\ WithClient(d)' \in {0, 1} /\ OnStack(d)' \in {0, 1}
  BY DEF OnBus, InMap, WithClient, OnStack, One
<1>4. Owners(d) = OnBus(d) + InMap(d) + WithClient(d) + OnStack(d)
  BY Zenon DEF Owners, OnBus, InMap, WithClient, OnStack
<1>5. Owners(d)' = OnBus(d)' + InMap(d)' + WithClient(d)' + OnStack(d)'
  BY Zenon DEF Owners, OnBus, InMap, WithClient, OnStack
<1>6. Missing(d) = Owners(d) - refs[d] /\ Missing(d)' = Owners(d)' - refs'[d]
  BY DEF Missing
<1> QED
  BY <1>1, <1>2, <1>3, <1>4, <1>5, <1>6

(* What is left to show of a step: types, places, and the balance.         *)
LEMMA BooksClose ==
  ASSUME Bookkeeping, DevicesTyped', OnePlace',
         \A d \in UsbDevices :
           /\ 0 <= refs'[d]
           /\ Missing(d)' = Missing(d) + One(loop' # loop /\ AdoptsUnowned(d)),
         client' = "enumerate" => kept' = {}
  PROVE  Bookkeeping' /\ Balance
<1>1. Balance
  BY DEF Balance
<1> QED
  BY <1>1, StillCounted DEF Bookkeeping

(* No reference is missing that was not, when a step leaves the devices    *)
(* and what is known of them alone.                                        *)
LEMMA DevicesUntouched ==
  ASSUME Bookkeeping,
         UNCHANGED <<event, deviceVars, usbVars>>,
         \A d \in UsbDevices : HandlingLeft(d)' <=> HandlingLeft(d),
         loop = "lookup" <=> loop' = "lookup",
         client' = "enumerate" => kept = {}
  PROVE  Bookkeeping' /\ Balance
<1> USE DEF Bookkeeping, deviceVars, usbVars
<1>1. DevicesTyped'
  BY DEF DevicesTyped
<1>2. OnePlace' /\ \A d \in UsbDevices : LeftPending(d)' <=> LeftPending(d)
  BY PlacesKept
<1>3. \A d \in UsbDevices : Owners(d)' = Owners(d) /\ refs'[d] = refs[d]
  BY <1>2 DEF Owners
<1>4. Counted'
  BY <1>3 DEF Counted
<1>5. Balance
  BY <1>3 DEF Balance, Missing, One, AdoptsUnowned, DevicesTyped, Owners
<1> QED
  BY <1>1, <1>2, <1>4, <1>5

(* The client takes a list of the devices.                                 *)
LEMMA EnterDevicesBooks ==
  ASSUME Bookkeeping, EnterDevices
  PROVE  Bookkeeping' /\ Balance
<1>1. /\ UNCHANGED <<loop, event, usbVars>>
      /\ kept = {} /\ kept' = present
      /\ devices' = devices \cup present
      /\ client' # "enumerate"
      /\ refs' = [d \in UsbDevices |->
                   refs[d] + One(d \in present) + One(d \in present \ devices)]
  BY DEF EnterDevices, ClientAt, ClientTo, loopVars, Bookkeeping, Counted
<1>2. \A d \in UsbDevices : HandlingLeft(d)' <=> HandlingLeft(d)
  BY <1>1 DEF HandlingLeft, Handling
<1>3. OnePlace' /\ \A d \in UsbDevices : LeftPending(d)' <=> LeftPending(d)
  BY <1>1, <1>2, PlacesKept DEF Bookkeeping
<1>4. ASSUME NEW d \in UsbDevices
      PROVE  /\ refs'[d] \in Int /\ 0 <= refs'[d]
             /\ Missing(d)' = Missing(d)
  <2>1. refs[d] \in Int /\ 0 <= refs[d] /\ Missing(d) \in Int
    BY DEF Bookkeeping, DevicesTyped, Counted, Missing, Owners, One
  <2>2. refs'[d] = refs[d] + One(d \in present) + One(d \in present \ devices)
    BY <1>1
  <2>3. refs'[d] \in Int /\ 0 <= refs'[d]
    BY <2>1, <2>2 DEF One
  <2>4. /\ OnBus(d)' = OnBus(d)
        /\ InMap(d)' = InMap(d) + One(d \in present \ devices)
        /\ WithClient(d)' = WithClient(d) + One(d \in present)
        /\ OnStack(d)' = OnStack(d)
    <3>1. OnBus(d)' = OnBus(d)
      BY <1>1, <1>2, <1>3 DEF OnBus, usbVars
    <3>2. InMap(d)' = InMap(d) + One(d \in present \ devices)
      BY <1>1 DEF One, InMap
    <3>3. WithClient(d)' = WithClient(d) + One(d \in present)
      BY <1>1 DEF One, WithClient
    <3>4. OnStack(d)' = OnStack(d)
      BY <1>1, <1>2 DEF OnStack
    <3> QED
      BY <3>1, <3>2, <3>3, <3>4
  <2>5. One(d \in present) \in {0, 1} /\ One(d \in present \ devices) \in {0, 1}
    BY DEF One
  <2> QED
    BY <2>2, <2>3, <2>4, <2>5, BalanceOf
<1>5. DevicesTyped'
  BY <1>1, <1>4 DEF Bookkeeping, DevicesTyped, usbVars
<1>6. \A d \in UsbDevices : One(loop' # loop /\ AdoptsUnowned(d)) = 0 /\ Missing(d) \in Int
  BY <1>1 DEF One, Missing, Owners, Bookkeeping, DevicesTyped
<1> QED
  BY <1>1, <1>3, <1>4, <1>5, <1>6, BooksClose

(* The client drops a Device.                                              *)
LEMMA DropDeviceBooks ==
  ASSUME Bookkeeping, DropDevice
  PROVE  Bookkeeping' /\ Balance
<1>1. PICK x \in kept : kept' = kept \ {x} /\ refs' = [refs EXCEPT ![x] = @ - 1]
  BY DEF DropDevice
<1>2. UNCHANGED <<loop, event, client, devices, usbVars>> /\ client = "idle" /\ Running
  BY DEF DropDevice, callerVars, clientVars, loopVars, ClientAt
<1>3. \A d \in UsbDevices : HandlingLeft(d)' <=> HandlingLeft(d)
  BY <1>2 DEF HandlingLeft, Handling
<1>4. OnePlace' /\ \A d \in UsbDevices : LeftPending(d)' <=> LeftPending(d)
  BY <1>2, <1>3, PlacesKept DEF Bookkeeping
<1>5. DevicesTyped'
  BY <1>1, <1>2 DEF Bookkeeping, DevicesTyped, usbVars
<1>6. ASSUME NEW d \in UsbDevices
      PROVE  0 <= refs'[d] /\ Missing(d)' = Missing(d)
  <2>1. refs'[d] = refs[d] - One(d = x) /\ refs'[d] \in Int
    BY <1>1 DEF Bookkeeping, DevicesTyped, One
  <2>2. OnBus(d)' = OnBus(d)
    BY <1>2, <1>3, <1>4 DEF OnBus, usbVars
  <2>3. InMap(d)' = InMap(d)
    BY <1>2 DEF InMap
  <2>4. WithClient(d)' = WithClient(d) - One(d = x) /\ (d = x => WithClient(d) = 1)
    BY <1>1 DEF WithClient, One
  <2>5. OnStack(d)' = OnStack(d)
    BY <1>2, <1>3 DEF OnStack
  <2>6. d = x => refs[d] > 0
    BY <1>1, <1>2, OwnedExists DEF Owners, One
  <2> QED
    BY <2>1, <2>2, <2>3, <2>4, <2>5, <2>6, BalanceOf DEF One
<1>7. \A d \in UsbDevices : One(loop' # loop /\ AdoptsUnowned(d)) = 0 /\ Missing(d) \in Int
  BY <1>2 DEF One, Missing, Owners, Bookkeeping, DevicesTyped
<1> QED
  BY <1>2, <1>4, <1>5, <1>6, <1>7, BooksClose

(* libusb hands an event over, or gives its reference back itself.         *)
LEMMA DeliverEventBooks ==
  ASSUME Bookkeeping, DeliverEvent
  PROVE  Bookkeeping' /\ Balance
<1> DEFINE h == Head(queue)
<1>1. /\ UNCHANGED <<client, devices, kept, present>>
      /\ Running /\ loop = "events" /\ loop' = IF registered THEN "lookup" ELSE "sleep"
      /\ queue # <<>> /\ queue' = Tail(queue) /\ event' = h
      /\ refs' = [refs EXCEPT ![h.device] =
                    @ - One(~registered /\ h.kind = "disconnected")]
  BY DEF DeliverEvent, LoopAt, callerVars, clientVars
<1>2. /\ h \in Events
      /\ h \in Events => h.device \in UsbDevices /\ h.kind \in Kinds
      /\ \A d \in UsbDevices : h = Removal(d) <=> h.device = d /\ h.kind = "disconnected"
  <2>1. h \in Events
    BY <1>1, HeadTailProperties DEF Bookkeeping, DevicesTyped
  <2> QED
    BY <2>1 DEF Events, Removal, Kinds
<1>3. \A d \in UsbDevices :
        /\ LeftPending(d)' <=> LeftPending(d) /\ h # Removal(d)
        /\ h = Removal(d) => LeftPending(d)
        /\ Once(queue, d)'
  <2> TAKE d \in UsbDevices
  <2>1. LeftPending(d) <=> Pending(queue, d)
    BY DEF LeftPending, Pending, Removal
  <2>2. LeftPending(d)' <=> Pending(Tail(queue), d)
    BY <1>1 DEF LeftPending, Pending, Removal
  <2>3. Once(queue, d) /\ queue \in Seq(Events)
    BY DEF Bookkeeping, OnePlace, DevicesTyped
  <2>4. Once(Tail(queue), d)
    BY <1>1, <2>3, PendingTail
  <2>5. Once(queue, d)'
    BY <1>1, <2>4 DEF Once
  <2> QED
    BY <1>1, <2>1, <2>2, <2>3, <2>5, PendingTail
<1> HIDE DEF h
<1>4. \A d \in UsbDevices :
        /\ ~HandlingLeft(d)
        /\ HandlingLeft(d)' <=> registered /\ h = Removal(d)
  BY <1>1 DEF HandlingLeft, Handling, Removal
<1>5. OnePlace'
  <2>1. \A d \in UsbDevices :
          /\ d \in present => ~LeftPending(d) /\ ~HandlingLeft(d)
          /\ LeftPending(d) => ~HandlingLeft(d)
    BY DEF Bookkeeping, OnePlace
  <2> QED
    BY <1>1, <1>3, <1>4, <2>1 DEF OnePlace
<1>6. DevicesTyped'
  <2>1. queue' \in Seq(Events)
    BY <1>1, HeadTailProperties DEF Bookkeeping, DevicesTyped
  <2>2. refs' \in [UsbDevices -> Int]
    BY <1>1, <1>2 DEF Bookkeeping, DevicesTyped, One
  <2> QED
    BY <1>1, <1>2, <2>1, <2>2 DEF Bookkeeping, DevicesTyped
<1>7. ASSUME NEW d \in UsbDevices
      PROVE  0 <= refs'[d] /\ Missing(d)' = Missing(d)
  <2>1. /\ refs'[d] = refs[d] - One(~registered /\ h = Removal(d))
        /\ refs'[d] \in Int
    BY <1>1, <1>2 DEF Bookkeeping, DevicesTyped, One
  <2>2. OnBus(d)' = OnBus(d) - One(~registered /\ h = Removal(d))
    <3>1. LeftPending(d) => d \notin present
      BY DEF Bookkeeping, OnePlace
    <3> QED
      BY <1>1, <1>3, <1>4, <3>1 DEF OnBus, One
  <2>3. InMap(d)' = InMap(d) /\ WithClient(d)' = WithClient(d)
    BY <1>1 DEF InMap, WithClient
  <2>4. OnStack(d)' = OnStack(d)
    BY <1>1, <1>4 DEF OnStack, One
  <2>5. h = Removal(d) => refs[d] > 0
    BY <1>1, <1>3, OwnedExists DEF Owners, One
  <2> QED
    BY <2>1, <2>2, <2>3, <2>4, <2>5, BalanceOf DEF One
<1>8. \A d \in UsbDevices : One(loop' # loop /\ AdoptsUnowned(d)) = 0 /\ Missing(d) \in Int
  BY <1>1 DEF One, AdoptsUnowned, Missing, Owners, Bookkeeping, DevicesTyped
<1>9. client' = "enumerate" => kept' = {}
  BY <1>1 DEF Bookkeeping, Counted
<1> QED
  BY <1>5, <1>6, <1>7, <1>8, <1>9, BooksClose

(* The handler of an arrival finds the device, or ends the program.        *)
LEMMA LookupArrivedBooks ==
  ASSUME Bookkeeping, LookupArrived, ~broken'
  PROVE  Bookkeeping' /\ Balance
<1> DEFINE x == event.device
<1>1. /\ UNCHANGED <<client, event, devices, kept, usbVars>>
      /\ Running /\ loop = "lookup" /\ loop' = "call"
      /\ event.kind = "connected" /\ x \in devices
      /\ refs' = [refs EXCEPT ![x] = @ - One(x \in devices)]
  BY DEF LookupArrived, LoopAt, callerVars, clientVars
<1> HIDE DEF x
<1>2. \A d \in UsbDevices : ~HandlingLeft(d) /\ ~HandlingLeft(d)'
  BY <1>1 DEF HandlingLeft
<1>3. OnePlace' /\ \A d \in UsbDevices : LeftPending(d)' <=> LeftPending(d)
  BY <1>1, <1>2, PlacesKept DEF Bookkeeping
<1>4. DevicesTyped'
  BY <1>1 DEF Bookkeeping, DevicesTyped, usbVars, One
<1>5. ASSUME NEW d \in UsbDevices
      PROVE  0 <= refs'[d] /\ Missing(d)' = Missing(d) + One(d = x)
  <2>1. refs'[d] = refs[d] - One(d = x) /\ refs'[d] \in Int
    BY <1>1 DEF Bookkeeping, DevicesTyped, One
  <2>2. OnBus(d)' = OnBus(d)
    BY <1>1, <1>2, <1>3 DEF OnBus, usbVars
  <2>3. InMap(d)' = InMap(d) /\ WithClient(d)' = WithClient(d)
    BY <1>1 DEF InMap, WithClient
  <2>4. OnStack(d)' = OnStack(d)
    BY <1>2 DEF OnStack, One
  <2>5. d = x => refs[d] > 0
    BY <1>1, OwnedExists DEF Owners, One
  <2> QED
    BY <2>1, <2>2, <2>3, <2>4, <2>5, BalanceOf DEF One
<1>6. \A d \in UsbDevices : One(loop' # loop /\ AdoptsUnowned(d)) = One(d = x)
  BY <1>1 DEF One, AdoptsUnowned, x
<1>7. client' = "enumerate" => kept' = {}
  BY <1>1 DEF Bookkeeping, Counted
<1> QED
  BY <1>3, <1>4, <1>5, <1>6, <1>7, BooksClose

(* The handler of a removal makes a Device of its own.                     *)
LEMMA LookupLeftBooks ==
  ASSUME Bookkeeping, LookupLeft
  PROVE  Bookkeeping' /\ Balance
<1> DEFINE x == event.device
<1>1. /\ UNCHANGED <<client, event, devices, kept, usbVars>>
      /\ loop = "lookup" /\ loop' = "call"
      /\ event.kind = "disconnected"
      /\ refs' = [refs EXCEPT ![x] = @ + One(x \in devices)]
  BY DEF LookupLeft, LoopAt, callerVars, clientVars
<1>2. /\ x \in UsbDevices
      /\ \A d \in UsbDevices :
           (HandlingLeft(d) <=> d = x) /\ (HandlingLeft(d)' <=> d = x)
  BY <1>1 DEF HandlingLeft, Handling, Bookkeeping, DevicesTyped, Events
<1> HIDE DEF x
<1>3. OnePlace' /\ \A d \in UsbDevices : LeftPending(d)' <=> LeftPending(d)
  BY <1>1, <1>2, PlacesKept DEF Bookkeeping
<1>4. DevicesTyped'
  BY <1>1, <1>2 DEF Bookkeeping, DevicesTyped, usbVars, One
<1>5. ASSUME NEW d \in UsbDevices
      PROVE  /\ 0 <= refs'[d]
             /\ Missing(d)' = Missing(d) + One(d = x /\ d \notin devices)
  <2>1. /\ refs'[d] = refs[d] + One(d = x /\ d \in devices)
        /\ refs'[d] \in Int
    BY <1>1 DEF Bookkeeping, DevicesTyped, One
  <2>2. OnBus(d)' = OnBus(d)
    BY <1>1, <1>2, <1>3 DEF OnBus, usbVars
  <2>3. InMap(d)' = InMap(d) /\ WithClient(d)' = WithClient(d)
    BY <1>1 DEF InMap, WithClient
  <2>4. OnStack(d)' = OnStack(d) + One(d = x)
    BY <1>1, <1>2 DEF OnStack, One
  <2> QED
    BY <2>1, <2>2, <2>3, <2>4, BalanceOf DEF One
<1>6. \A d \in UsbDevices :
        One(loop' # loop /\ AdoptsUnowned(d)) = One(d = x /\ d \notin devices)
  BY <1>1 DEF One, AdoptsUnowned, x
<1>7. client' = "enumerate" => kept' = {}
  BY <1>1 DEF Bookkeeping, Counted
<1> QED
  BY <1>3, <1>4, <1>5, <1>6, <1>7, BooksClose

(* The handler of a removal is done with the device.                       *)
LEMMA ForgetDeviceBooks ==
  ASSUME Bookkeeping, ForgetDevice, event.kind = "disconnected", ~broken'
  PROVE  Bookkeeping' /\ Balance
<1> DEFINE x == event.device
<1>1. /\ UNCHANGED <<client, event, kept, usbVars>>
      /\ loop = "forget" /\ loop' = "sleep"
      /\ devices' = devices \ {x}
      /\ refs' = [refs EXCEPT ![x] = @ - One(x \in devices) - 2]
      /\ ~(refs'[x] < 0)
  BY DEF ForgetDevice, LoopAt, LoopTo, callerVars, clientVars
<1>2. /\ x \in UsbDevices
      /\ \A d \in UsbDevices : (HandlingLeft(d) <=> d = x) /\ ~HandlingLeft(d)'
  BY <1>1 DEF HandlingLeft, Handling, Bookkeeping, DevicesTyped, Events
<1> HIDE DEF x
<1>3. \A d \in UsbDevices : LeftPending(d)' <=> LeftPending(d)
  BY <1>1 DEF LeftPending, usbVars
<1>4. OnePlace'
  BY <1>1, <1>2, <1>3 DEF Bookkeeping, OnePlace, Once, usbVars
<1>5. DevicesTyped'
  BY <1>1, <1>2 DEF Bookkeeping, DevicesTyped, usbVars, One
<1>6. ASSUME NEW d \in UsbDevices
      PROVE  0 <= refs'[d] /\ Missing(d)' = Missing(d)
  <2>1. /\ refs'[d] = refs[d] - One(d = x /\ d \in devices) - 2 * One(d = x)
        /\ refs'[d] \in Int
        /\ 0 <= refs'[d]
    BY <1>1 DEF Bookkeeping, DevicesTyped, Counted, One
  <2>2. OnBus(d)' = OnBus(d) - One(d = x)
    <3>1. d = x => ~LeftPending(d) /\ d \notin present
      BY <1>2 DEF Bookkeeping, OnePlace
    <3> QED
      BY <1>1, <1>2, <1>3, <3>1 DEF OnBus, One, usbVars
  <2>3. InMap(d)' = InMap(d) - One(d = x /\ d \in devices)
    BY <1>1 DEF InMap, One
  <2>4. WithClient(d)' = WithClient(d)
    BY <1>1 DEF WithClient
  <2>5. OnStack(d)' = OnStack(d) - One(d = x)
    BY <1>1, <1>2 DEF OnStack, One
  <2> QED
    BY <2>1, <2>2, <2>3, <2>4, <2>5, BalanceOf DEF One
<1>7. \A d \in UsbDevices : One(loop' # loop /\ AdoptsUnowned(d)) = 0 /\ Missing(d) \in Int
  BY <1>1 DEF One, AdoptsUnowned, Missing, Owners, Bookkeeping, DevicesTyped
<1>8. client' = "enumerate" => kept' = {}
  BY <1>1 DEF Bookkeeping, Counted
<1> QED
  BY <1>4, <1>5, <1>6, <1>7, <1>8, BooksClose

(* A device that nobody knows is plugged in.                               *)
LEMMA PlugBooks ==
  ASSUME Bookkeeping, Plug
  PROVE  Bookkeeping' /\ Balance
<1> DEFINE e(x) == [kind |-> "connected", device |-> x]
<1>1. /\ UNCHANGED <<client, loop, event, devices, kept>>
      /\ Running
  BY DEF Plug, callerVars, clientVars, loopVars
<1>2. PICK x \in UsbDevices :
        /\ refs[x] = 0
        /\ present' = present \cup {x}
        /\ refs' = [refs EXCEPT ![x] = 1]
        /\ queue' = Append(queue, e(x))
  BY DEF Plug
<1>3. e(x) \in Events /\ \A d \in UsbDevices : e(x) # Removal(d)
  BY DEF Events, Kinds, Removal
<1> HIDE DEF e
<1>4. \A d \in UsbDevices : HandlingLeft(d)' <=> HandlingLeft(d)
  BY <1>1 DEF HandlingLeft, Handling
<1>5. \A d \in UsbDevices : (LeftPending(d)' <=> LeftPending(d)) /\ Once(queue, d)'
  <2> TAKE d \in UsbDevices
  <2>1. LeftPending(d) <=> Pending(queue, d)
    BY DEF LeftPending, Pending, Removal
  <2>2. LeftPending(d)' <=> Pending(Append(queue, e(x)), d)
    BY <1>2 DEF LeftPending, Pending, Removal
  <2>3. Once(queue, d) /\ queue \in Seq(Events)
    BY DEF Bookkeeping, OnePlace, DevicesTyped
  <2>4. Once(Append(queue, e(x)), d)
    BY <1>3, <2>3, PendingAppend
  <2>5. Once(queue, d)'
    BY <1>2, <2>4 DEF Once
  <2> QED
    BY <1>3, <2>1, <2>2, <2>3, <2>5, PendingAppend
<1>6. x \notin present /\ ~LeftPending(x) /\ ~HandlingLeft(x)
  BY <1>1, <1>2, OwnedExists DEF Owners, One
<1>7. OnePlace'
  <2>1. \A d \in UsbDevices :
          /\ d \in present => ~LeftPending(d) /\ ~HandlingLeft(d)
          /\ LeftPending(d) => ~HandlingLeft(d)
    BY DEF Bookkeeping, OnePlace
  <2> QED
    BY <1>2, <1>4, <1>5, <1>6, <2>1 DEF OnePlace
<1>8. DevicesTyped'
  <2>1. queue' \in Seq(Events)
    BY <1>2, <1>3, AppendProperties DEF Bookkeeping, DevicesTyped
  <2> QED
    BY <1>1, <1>2, <2>1 DEF Bookkeeping, DevicesTyped
<1>9. ASSUME NEW d \in UsbDevices
      PROVE  0 <= refs'[d] /\ Missing(d)' = Missing(d)
  <2>1. refs'[d] = refs[d] + One(d = x) /\ refs'[d] \in Int
    BY <1>2 DEF Bookkeeping, DevicesTyped, One
  <2>2. OnBus(d)' = OnBus(d) + One(d = x)
    BY <1>2, <1>4, <1>5, <1>6 DEF OnBus, One
  <2>3. InMap(d)' = InMap(d) /\ WithClient(d)' = WithClient(d)
    BY <1>1 DEF InMap, WithClient
  <2>4. OnStack(d)' = OnStack(d)
    BY <1>1, <1>4 DEF OnStack
  <2> QED
    BY <2>1, <2>2, <2>3, <2>4, BalanceOf DEF One
<1>10. \A d \in UsbDevices : One(loop' # loop /\ AdoptsUnowned(d)) = 0 /\ Missing(d) \in Int
  BY <1>1 DEF One, Missing, Owners, Bookkeeping, DevicesTyped
<1>11. client' = "enumerate" => kept' = {}
  BY <1>1 DEF Bookkeeping, Counted
<1> QED
  BY <1>7, <1>8, <1>9, <1>10, <1>11, BooksClose

(* A device is removed, and its event queued.                              *)
LEMMA UnplugBooks ==
  ASSUME Bookkeeping, Unplug
  PROVE  Bookkeeping' /\ Balance
<1>1. UNCHANGED <<client, loop, event, devices, kept, refs>>
  BY DEF Unplug, callerVars, clientVars, loopVars, deviceVars
<1>2. PICK x \in present : /\ present' = present \ {x}
                           /\ queue' = Append(queue, Removal(x))
  BY DEF Unplug, Removal
<1>3. /\ x \in UsbDevices /\ Removal(x) \in Events
      /\ \A d \in UsbDevices : Removal(x) = Removal(d) <=> d = x
  BY DEF Events, Kinds, Removal, Bookkeeping, DevicesTyped
<1>4. \A d \in UsbDevices : HandlingLeft(d)' <=> HandlingLeft(d)
  BY <1>1 DEF HandlingLeft, Handling
<1>5. \A d \in UsbDevices : d \in present => ~LeftPending(d) /\ ~HandlingLeft(d)
  BY DEF Bookkeeping, OnePlace
<1>6. \A d \in UsbDevices :
        (LeftPending(d)' <=> LeftPending(d) \/ d = x) /\ Once(queue, d)'
  <2> TAKE d \in UsbDevices
  <2>1. LeftPending(d) <=> Pending(queue, d)
    BY DEF LeftPending, Pending, Removal
  <2>2. LeftPending(d)' <=> Pending(Append(queue, Removal(x)), d)
    BY <1>2 DEF LeftPending, Pending, Removal
  <2>3. Once(queue, d) /\ queue \in Seq(Events)
    BY DEF Bookkeeping, OnePlace, DevicesTyped
  <2>4. Once(Append(queue, Removal(x)), d)
    BY <1>3, <1>5, <2>1, <2>3, PendingAppend
  <2>5. Once(queue, d)'
    BY <1>2, <2>4 DEF Once
  <2> QED
    BY <1>3, <2>1, <2>2, <2>3, <2>5, PendingAppend
<1>7. OnePlace'
  <2>1. \A d \in UsbDevices : LeftPending(d) => ~HandlingLeft(d)
    BY DEF Bookkeeping, OnePlace
  <2> QED
    BY <1>2, <1>4, <1>5, <1>6, <2>1 DEF OnePlace
<1>8. DevicesTyped'
  <2>1. queue' \in Seq(Events)
    BY <1>2, <1>3, AppendProperties DEF Bookkeeping, DevicesTyped
  <2> QED
    BY <1>1, <1>2, <2>1 DEF Bookkeeping, DevicesTyped
<1>9. ASSUME NEW d \in UsbDevices
      PROVE  0 <= refs'[d] /\ Missing(d)' = Missing(d)
  <2>1. refs'[d] = refs[d] /\ refs[d] \in Int
    BY <1>1 DEF Bookkeeping, DevicesTyped
  <2>2. OnBus(d)' = OnBus(d)
    BY <1>2, <1>4, <1>6 DEF OnBus, One
  <2>3. InMap(d)' = InMap(d) /\ WithClient(d)' = WithClient(d)
    BY <1>1 DEF InMap, WithClient
  <2>4. OnStack(d)' = OnStack(d)
    BY <1>1, <1>4 DEF OnStack
  <2> QED
    BY <2>1, <2>2, <2>3, <2>4, BalanceOf
<1>10. \A d \in UsbDevices : One(loop' # loop /\ AdoptsUnowned(d)) = 0 /\ Missing(d) \in Int
  BY <1>1 DEF One, Missing, Owners, Bookkeeping, DevicesTyped
<1>11. client' = "enumerate" => kept' = {}
  BY <1>1 DEF Bookkeeping, Counted
<1> QED
  BY <1>7, <1>8, <1>9, <1>10, <1>11, BooksClose

(* The steps that neither take nor give back references, nor touch the     *)
(* events.                                                                 *)
LEMMA QuietBooks ==
  ASSUME Bookkeeping, ThreadsFit,
         \/ CallRegister \/ CallUnregister \/ CallGetDevices
         \/ InsertFunction \/ StartEventLoop \/ RegisterCallback
         \/ RegisterCallbackFails \/ SpawnThread \/ SpawnThreadFails
         \/ EraseFunction \/ StopEventLoop \/ JoinThread \/ DeregisterCallback
         \/ TestEnabled \/ EventsTimeout \/ Sleep \/ CallFunction \/ CallsDone
  PROVE  Bookkeeping' /\ Balance
<1>1. UNCHANGED <<event, deviceVars, usbVars>>
  BY DEF CallRegister, CallUnregister, CallGetDevices, InsertFunction,
         StartEventLoop, RegisterCallback, RegisterCallbackFails, SpawnThread,
         SpawnThreadFails, EraseFunction, StopEventLoop, JoinThread,
         DeregisterCallback, TestEnabled, EventsTimeout, Sleep, CallFunction,
         CallsDone, LoopTo, loopVars, worldVars
<1>2. /\ Handling' /\ event.kind = "disconnected" <=>
           Handling /\ event.kind = "disconnected"
      /\ loop = "lookup" <=> loop' = "lookup"
  BY DEF CallRegister, CallUnregister, CallGetDevices, InsertFunction,
         StartEventLoop, RegisterCallback, RegisterCallbackFails, SpawnThread,
         SpawnThreadFails, EraseFunction, StopEventLoop, JoinThread,
         DeregisterCallback, TestEnabled, EventsTimeout, Sleep, CallFunction,
         CallsDone, LoopTo, LoopAt, ClientAt, loopVars, worldVars, Handling,
         ThreadsFit
<1>3. \A d \in UsbDevices : HandlingLeft(d)' <=> HandlingLeft(d)
  BY <1>1, <1>2 DEF HandlingLeft
<1>4. client' = "enumerate" => kept = {}
  BY DEF CallRegister, CallUnregister, CallGetDevices, InsertFunction,
         StartEventLoop, RegisterCallback, RegisterCallbackFails, SpawnThread,
         SpawnThreadFails, EraseFunction, StopEventLoop, JoinThread,
         DeregisterCallback, TestEnabled, EventsTimeout, Sleep, CallFunction,
         CallsDone, ClientTo, LoopTo, callerVars, clientVars, Bookkeeping,
         Counted
<1> QED
  BY <1>1, <1>2, <1>3, <1>4, DevicesUntouched

(* Every step that does not end the program keeps the books.               *)
LEMMA StepBooks ==
  ASSUME Bookkeeping, ThreadsFit, Next, ~broken'
  PROVE  Bookkeeping' /\ Balance
<1>1. CASE CallReentrant
  BY <1>1 DEF CallReentrant
<1>2. CASE ForgetDevice
  BY <1>2, ForgetDeviceBooks DEF ForgetDevice, LoopAt, ThreadsFit
<1> QED
  BY <1>1, <1>2, QuietBooks, EnterDevicesBooks, DropDeviceBooks,
     DeliverEventBooks, LookupArrivedBooks, LookupLeftBooks, PlugBooks,
     UnplugBooks
     DEF Next, ClientStep, LoopStep

-----------------------------------------------------------------------------
(* The types.                                                              *)

LEMMA TypesOfParts ==
  ASSUME TypeOK
  PROVE  TablesTyped /\ DevicesTyped
<1>1. refs \in [UsbDevices -> Int]
  BY DEF TypeOK
<1> QED
  BY <1>1 DEF TypeOK, TablesTyped, DevicesTyped

(* A device that is handled has a reference left when the handler gives    *)
(* three back; in no other step can a count fall below zero.               *)
LEMMA RefsTyped ==
  ASSUME TypeOK, Sound, Next
  PROVE  refs' \in [UsbDevices -> -2..4]
<1>0. Bookkeeping /\ ThreadsFit /\ TablesTyped
  BY TypesOfParts DEF Sound, Bookkeeping
<1>1. CASE ~broken'
  <2>1. Bookkeeping'
    BY <1>0, <1>1, StepBooks
  <2>2. refs' \in [UsbDevices -> Int]
    BY <2>1 DEF Bookkeeping, DevicesTyped
  <2>3. ASSUME NEW d \in UsbDevices PROVE refs'[d] \in -2..4
    <3>1. 0 <= refs'[d] /\ refs'[d] <= Owners(d)'
      BY <2>1 DEF Bookkeeping, Counted
    <3>2. Owners(d)' \in 0..4
      BY DEF Owners, One
    <3> QED
      BY <2>2, <3>1, <3>2
  <2> QED
    BY <2>2, <2>3
<1>2. CASE broken' /\ ForgetDevice
  <2>1. /\ Running /\ loop = "forget" /\ event.device \in UsbDevices
        /\ refs' = [refs EXCEPT ![event.device] =
                      @ - One(event.device \in devices) - 2]
    BY <1>2 DEF ForgetDevice, LoopAt, TypeOK, Events
  <2>2. Owners(event.device) > 0
    <3>1. HandlingLeft(event.device)
      BY <1>0, <2>1
         DEF HandlingLeft, Handling, ThreadsFit, TypeOK, Events
    <3> QED
      BY <2>1, <3>1 DEF Owners, One
  <2>3. refs[event.device] > 0
    BY <1>0, <2>1, <2>2, OwnedExists
  <2>4. refs \in [UsbDevices -> -2..4]
    BY DEF TypeOK
  <2> QED
    BY <2>1, <2>3, <2>4 DEF One
<1>3. CASE broken' /\ ~ForgetDevice
  <2>1. LookupArrived \/ CallReentrant
    BY <1>3
       DEF Next, ClientStep, LoopStep, CallRegister, CallUnregister,
           CallGetDevices, DropDevice, InsertFunction, StartEventLoop,
           RegisterCallback, RegisterCallbackFails, SpawnThread,
           SpawnThreadFails, EraseFunction, StopEventLoop, JoinThread,
           DeregisterCallback, EnterDevices, TestEnabled, DeliverEvent,
           EventsTimeout, Sleep, LookupLeft, CallFunction, CallsDone, Plug,
           Unplug, ClientAt, LoopAt, Running, worldVars
  <2>2. refs' = refs
    <3>1. CASE CallReentrant
      BY <3>1 DEF CallReentrant, deviceVars
    <3>2. CASE LookupArrived
      <4>1. event.device \notin devices
        BY <1>3, <3>2 DEF LookupArrived
      <4>2. One(event.device \in devices) = 0
        BY <4>1 DEF One
      <4>3. event.device \in UsbDevices /\ refs \in [UsbDevices -> Int]
        BY DEF TypeOK, Events
      <4>4. refs' = [refs EXCEPT ![event.device] = @ - One(event.device \in devices)]
        BY <3>2 DEF LookupArrived
      <4> QED
        BY <4>2, <4>3, <4>4
    <3> QED
      BY <2>1, <3>1, <3>2
  <2> QED
    BY <2>2 DEF TypeOK
<1> QED
  BY <1>1, <1>2, <1>3

(* The queue and the event handled keep their types in every step.         *)
LEMMA QueueTyped ==
  ASSUME TypeOK, Sound, Next
  PROVE  event' \in Events /\ queue' \in Seq(Events)
<1>1. Bookkeeping
  BY TypesOfParts DEF Sound, Bookkeeping
<1>2. CASE DeliverEvent \/ Plug \/ Unplug
  BY <1>1, <1>2, DeliverEventBooks, PlugBooks, UnplugBooks
     DEF Bookkeeping, DevicesTyped
<1>3. CASE ~(DeliverEvent \/ Plug \/ Unplug)
  <2>1. UNCHANGED <<event, queue>>
    BY <1>3
       DEF Next, ClientStep, LoopStep, CallRegister, CallUnregister,
           CallGetDevices, DropDevice, InsertFunction, StartEventLoop,
           RegisterCallback, RegisterCallbackFails, SpawnThread,
           SpawnThreadFails, EraseFunction, StopEventLoop, JoinThread,
           DeregisterCallback, EnterDevices, TestEnabled, EventsTimeout, Sleep,
           LookupArrived, LookupLeft, CallFunction, CallReentrant, CallsDone,
           ForgetDevice, LoopTo, loopVars, worldVars, usbVars
  <2> QED
    BY <2>1 DEF TypeOK
<1> QED
  BY <1>2, <1>3

(* The remaining types, action by action.                                  *)
LEMMA TypesKept ==
  ASSUME TypeOK, Sound, Next
  PROVE  TypeOK'
<1>1. refs' \in [UsbDevices -> -2..4] /\ event' \in Events /\ queue' \in Seq(Events)
  BY RefsTyped, QueueTyped
<1>2. /\ client = "insert" => \A k \in Kinds : func \notin funcs[k]
      /\ client \in {"start", "register", "spawn"} => func \in funcs[kind]
      /\ client = "erase" => func \notin orphans[kind]
  BY DEF Sound, CallsFit
<1> USE <1>1 DEF TypeOK, Kinds, ClientAt, ClientTo, LoopAt, LoopTo, clientVars,
            tableVars, flagVars, loopVars, deviceVars, usbVars, worldVars,
            callerVars
<1>3. CASE CallRegister
  BY <1>3 DEF CallRegister
<1>4. CASE CallUnregister
  BY <1>4 DEF CallUnregister
<1>5. CASE CallGetDevices
  BY <1>5 DEF CallGetDevices
<1>6. CASE DropDevice
  BY <1>6 DEF DropDevice
<1>7. CASE InsertFunction
  BY <1>2, <1>7 DEF InsertFunction
<1>8. CASE StartEventLoop
  BY <1>8 DEF StartEventLoop
<1>9. CASE RegisterCallback
  BY <1>9 DEF RegisterCallback
<1>10. CASE RegisterCallbackFails
  BY <1>2, <1>10 DEF RegisterCallbackFails
<1>11. CASE SpawnThread
  BY <1>11 DEF SpawnThread
<1>12. CASE SpawnThreadFails
  BY <1>2, <1>12 DEF SpawnThreadFails
<1>13. CASE EraseFunction
  BY <1>2, <1>13 DEF EraseFunction
<1>14. CASE StopEventLoop
  BY <1>14 DEF StopEventLoop
<1>15. CASE JoinThread
  BY <1>15 DEF JoinThread
<1>16. CASE DeregisterCallback
  BY <1>16 DEF DeregisterCallback
<1>17. CASE EnterDevices
  BY <1>17 DEF EnterDevices
<1>18. CASE TestEnabled \/ EventsTimeout \/ Sleep
  BY <1>18 DEF TestEnabled, EventsTimeout, Sleep
<1>19. CASE DeliverEvent
  BY <1>19 DEF DeliverEvent
<1>20. CASE LookupArrived
  BY <1>20 DEF LookupArrived
<1>21. CASE LookupLeft
  BY <1>21 DEF LookupLeft
<1>22. CASE CallFunction
  BY <1>22 DEF CallFunction
<1>23. CASE CallReentrant
  BY <1>23 DEF CallReentrant, Events
<1>24. CASE CallsDone
  BY <1>24 DEF CallsDone
<1>25. CASE ForgetDevice
  BY <1>25 DEF ForgetDevice
<1>26. CASE Plug
  BY <1>26 DEF Plug
<1>27. CASE Unplug
  BY <1>27 DEF Unplug
<1> QED
  BY <1>3, <1>4, <1>5, <1>6, <1>7, <1>8, <1>9, <1>10, <1>11, <1>12, <1>13,
     <1>14, <1>15, <1>16, <1>17, <1>18, <1>19, <1>20, <1>21, <1>22, <1>23,
     <1>24, <1>25, <1>26, <1>27 DEF Next, ClientStep, LoopStep

-----------------------------------------------------------------------------
(* The theorems.                                                           *)

(* Nothing happens any more once the program is broken.                    *)
LEMMA StepsRun ==
  ASSUME Next
  PROVE  ~broken
BY DEF Next, ClientStep, LoopStep, CallRegister, CallUnregister,
       CallGetDevices, DropDevice, InsertFunction, StartEventLoop,
       RegisterCallback, RegisterCallbackFails, SpawnThread, SpawnThreadFails,
       EraseFunction, StopEventLoop, JoinThread, DeregisterCallback,
       EnterDevices, TestEnabled, DeliverEvent, EventsTimeout, Sleep,
       LookupArrived, LookupLeft, CallFunction, CallReentrant, CallsDone,
       ForgetDevice, Plug, Unplug, ClientAt, LoopAt, Running

LEMMA NextInv ==
  ASSUME Inv, Next
  PROVE  Inv'
<1>1. TypeOK /\ Sound
  BY StepsRun DEF Inv
<1>2. Bookkeeping /\ Control /\ TablesTyped
  BY <1>1, TypesOfParts DEF Sound, Bookkeeping, Control
<1>3. ASSUME ~broken' PROVE Sound'
  <2>1. Bookkeeping'
    BY <1>2, <1>3, StepBooks DEF Control
  <2>2. Control'
    <3>1. CASE Plug \/ Unplug
      BY <1>2, <3>1, ControlUntouched DEF Plug, Unplug, loopVars
    <3> QED
      BY <1>2, <1>3, <3>1, ControlClient, ControlLoop DEF Next
  <2> QED
    BY <2>1, <2>2 DEF Sound, Bookkeeping, Control
<1> QED
  BY <1>1, <1>3, TypesKept DEF Inv

LEMMA StutterInv ==
  ASSUME Inv, UNCHANGED vars
  PROVE  Inv'
<1> USE DEF vars, callerVars, clientVars, tableVars, flagVars, loopVars,
            worldVars, deviceVars, usbVars
<1>1. TypeOK'
  BY DEF Inv, TypeOK
<1>2. Control => Control'
  BY ControlUntouched
<1>3. \A d \in UsbDevices :
        /\ LeftPending(d)' <=> LeftPending(d)
        /\ HandlingLeft(d)' <=> HandlingLeft(d)
        /\ Once(queue, d) => Once(queue, d)'
        /\ Owners(d)' = Owners(d)
  BY DEF LeftPending, HandlingLeft, Handling, Once, Owners
<1>4. OnePlace => OnePlace'
  BY <1>3 DEF OnePlace
<1>5. Counted => Counted'
  BY <1>3 DEF Counted
<1> QED
  BY <1>1, <1>2, <1>4, <1>5 DEF Inv, Sound, Control

(* Inv is inductive.                                                       *)
THEOREM InductiveInvariant == Spec => []Inv
<1>1. Inv /\ [Next]_vars => Inv'
  BY NextInv, StutterInv
<1> QED
  BY <1>1, InitInv, PTL DEF Spec

(* The types of both threads and of the tables; a handle names one         *)
(* function of one kind; a reference count stays between -2 and 4.         *)
THEOREM TypeCorrect == Spec => []TypeOK
<1>1. Inv => TypeOK
  BY DEF Inv
<1> QED
  BY <1>1, InductiveInvariant, PTL

(* handleEvent (context.cpp) runs only while the callback is registered    *)
(* with libusb: stopEventLoop joins the thread before it deregisters.      *)
THEOREM HandlerIsRegistered == Spec => []HandlerRegistered
<1>1. ASSUME Inv, ~broken PROVE HandlerRegistered
  BY <1>1
     DEF Inv, Sound, ThreadsFit, TypeOK, Unwatched, HandlerRegistered, Handling
<1>2. ASSUME HandlerRegistered, Next, broken' PROVE HandlerRegistered'
  <2>1. LookupArrived \/ CallReentrant \/ ForgetDevice
    BY <1>2, StepsRun
       DEF Next, ClientStep, LoopStep, CallRegister, CallUnregister,
           CallGetDevices, DropDevice, InsertFunction, StartEventLoop,
           RegisterCallback, RegisterCallbackFails, SpawnThread,
           SpawnThreadFails, EraseFunction, StopEventLoop, JoinThread,
           DeregisterCallback, EnterDevices, TestEnabled, DeliverEvent,
           EventsTimeout, Sleep, LookupLeft, CallFunction, CallsDone, Plug,
           Unplug, worldVars
  <2> QED
    BY <1>2, <2>1
       DEF LookupArrived, CallReentrant, ForgetDevice, LoopAt, LoopTo,
           callerVars, flagVars, loopVars, HandlerRegistered, Handling
<1>3. Inv /\ ~broken => HandlerRegistered
  BY <1>1
<1>4. Inv /\ HandlerRegistered /\ Inv' /\ [Next]_vars => HandlerRegistered'
  <2> SUFFICES ASSUME Inv, HandlerRegistered, Inv', [Next]_vars
               PROVE  HandlerRegistered'
    OBVIOUS
  <2>1. CASE Next
    <3>1. CASE ~broken'
      BY <3>1 DEF Inv, Sound, ThreadsFit, TypeOK, Unwatched,
                  HandlerRegistered, Handling
    <3> QED
      BY <1>2, <2>1, <3>1
  <2>2. CASE UNCHANGED vars
    BY <2>2 DEF vars, callerVars, flagVars, loopVars, HandlerRegistered, Handling
  <2> QED
    BY <2>1, <2>2
<1>5. Init => HandlerRegistered
  BY DEF Init, HandlerRegistered, Handling
<1> QED
  BY <1>4, <1>5, InductiveInvariant, PTL DEF Spec

(* unregisterDevice... that stops the loop returns only when the event     *)
(* thread is gone and the callback is deregistered, and a registration     *)
(* that fails to register the callback leaves neither.                     *)
THEOREM StopsCompletely == Spec => []StopIsComplete
<1>1. Inv => StopIsComplete
  BY DEF Inv, Sound, ThreadsFit, TypeOK, Unwatched, StopIsComplete, Between
<1> QED
  BY <1>1, InductiveInvariant, PTL

(* As long as std::thread's constructor does not throw, an enabled loop    *)
(* has a thread, a registration and a function to call (startEventLoop and *)
(* stopEventLoop, context.cpp).                                            *)
THEOREM LoopStaysAlive ==
  ASSUME "spawn" \notin Failures
  PROVE  Spec => []LoopIsAlive
<1>1. ASSUME TypeOK, Sound, Between, enabled
      PROVE  loop \notin {"none", "done"} /\ registered /\ ~NoFunction
  BY <1>1 DEF Sound, ThreadsFit, NeverStarted, TypeOK, Unwatched, Between
<1>2. Inv => LoopIsAlive
  BY <1>1 DEF Inv, LoopIsAlive, Between
<1> QED
  BY <1>2, InductiveInvariant, PTL

(* Under the same condition, no function that the client holds a handle    *)
(* for is left without a running loop.                                     *)
THEOREM LoopServesHandles ==
  ASSUME "spawn" \notin Failures
  PROVE  Spec => []LoopServes
<1>1. ASSUME TypeOK, Sound, Between, Served
      PROVE  enabled
  BY <1>1 DEF Sound, OnlyOrphans, TypeOK, Between, Served
<1>2. Inv /\ LoopIsAlive => LoopServes
  BY <1>1 DEF Inv, LoopIsAlive, LoopServes, Between
<1> QED
  BY <1>2, InductiveInvariant, LoopStaysAlive, PTL

(* The references to a device that are taken and those that are given      *)
(* back balance in every step, but the two in which handleEvent makes a    *)
(* Device of a pointer that came without a reference.                      *)
THEOREM ReferencesAreBalanced == Spec => ReferencesBalance
<1>1. Inv /\ [Next]_vars =>
        [broken' \/ \A d \in UsbDevices :
           Missing(d)' = Missing(d) + One(loop' # loop /\ AdoptsUnowned(d))]_vars
  <2> SUFFICES ASSUME Inv, Next, ~broken'
               PROVE  \A d \in UsbDevices :
                        Missing(d)' = Missing(d)
                                        + One(loop' # loop /\ AdoptsUnowned(d))
    OBVIOUS
  <2>1. TypeOK /\ Sound
    BY StepsRun DEF Inv
  <2>2. Bookkeeping /\ ThreadsFit
    BY <2>1, TypesOfParts DEF Sound, Bookkeeping
  <2> QED
    BY <2>2, StepBooks DEF Balance
<1> QED
  BY <1>1, InductiveInvariant, PTL DEF Spec, ReferencesBalance

(* A device that somebody relies on never has more references than owners, *)
(* and no device is in two places at once: it is attached, or its removal  *)
(* is queued once, or its removal is being handled.                        *)
THEOREM NothingLeaks == Spec => [](broken \/ (OnePlace /\ Counted))
<1>1. Inv => broken \/ (OnePlace /\ Counted)
  BY DEF Inv, Sound
<1> QED
  BY <1>1, InductiveInvariant, PTL
=============================================================================
