------------------------------- MODULE Hotplug -------------------------------
(***************************************************************************)
(* The hotplug callbacks of Usbpp::Context (src/src/context.cpp): the      *)
(* client thread that registers and unregisters functions, the event       *)
(* thread of one Context::Impl, and the queue of hotplug events of libusb. *)
(*                                                                         *)
(* Each call of the client is cut where the other thread may come between: *)
(* at every access to a map, to m_hotplugEnabled, and at every libusb call.*)
(* The containers have no lock; two accesses that overlap, one of them a   *)
(* write, are a data race, after which nothing is specified (Race).        *)
(***************************************************************************)
EXTENDS Integers, Sequences

CONSTANTS
  Functions,   (* callback functions, named by the handle of the registration *)
  UsbDevices,  (* libusb_device pointers                                      *)
  Failures,    (* what may fail: "register", "spawn"                          *)
  Arrivals,    (* TRUE when devices may be plugged in, not only removed       *)
  Reentrant,   (* TRUE when a callback may unregister itself                  *)
  MaxQueue     (* bound of the model: pending hotplug events                  *)

Kinds == {"connected", "disconnected"}

ASSUME ConstantsAssumption ==
  /\ Failures \subseteq {"register", "spawn"}
  /\ Arrivals \in BOOLEAN
  /\ Reentrant \in BOOLEAN
  /\ MaxQueue \in Nat

VARIABLES
  client,      (* where the client thread is                                  *)
  kind, func,  (* the arguments of its call                                   *)
  funcs,       (* kind -> functions in m_funcConnected / m_funcDisconnected   *)
  orphans,     (* kind -> functions left in the map by a registration that    *)
               (*   threw, for which the client has no handle                 *)
  enabled,     (* m_hotplugEnabled                                            *)
  registered,  (* libusb: eventHandler is registered                          *)
  loop,        (* where the event thread is, "none" when there is none        *)
  event,       (* the event being handled                                     *)
  todo,        (* the functions the handler has still to call                 *)
  devices,     (* the keys of m_devices                                       *)
  kept,        (* the devices of the list the client got from getDevices and  *)
               (*   still has a Device for                                    *)
  refs,        (* libusb: the reference count of each device; 0: it is freed  *)
  present,     (* environment: the devices attached                           *)
  queue,       (* libusb: hotplug events not handled yet                      *)
  broken       (* std::terminate was called, an iterator followed to an       *)
               (*   erased element, or a freed device given back once more    *)

clientVars == <<client, kind, func>>
tableVars  == <<funcs, orphans>>
flagVars   == <<enabled, registered>>
loopVars   == <<loop, event, todo>>
deviceVars == <<devices, kept, refs>>
usbVars    == <<present, queue>>

(* What a registration leaves alone, and what the event thread does.       *)
worldVars  == <<deviceVars, usbVars, broken>>
callerVars == <<clientVars, tableVars, flagVars>>

vars == <<callerVars, loopVars, worldVars>>

Events == [kind : Kinds, device : UsbDevices]

(* The types; a handle names one function, of one kind; a function whose    *)
(* registration threw is still in its map.                                 *)
TypeOK ==
  /\ client \in {"idle", "insert", "start", "register", "spawn", "erase",
                 "stop", "join", "deregister", "enumerate"}
  /\ kind \in Kinds
  /\ func \in Functions
  /\ funcs \in [Kinds -> SUBSET Functions]
  /\ funcs["connected"] \cap funcs["disconnected"] = {}
  /\ orphans \in [Kinds -> SUBSET Functions]
  /\ \A k \in Kinds : orphans[k] \subseteq funcs[k]
  /\ enabled \in BOOLEAN
  /\ registered \in BOOLEAN
  /\ loop \in {"none", "test", "events", "lookup", "call", "forget", "sleep",
               "done"}
  /\ event \in Events
  /\ todo \in SUBSET Functions
  /\ devices \in SUBSET UsbDevices
  /\ kept \in SUBSET UsbDevices
  /\ refs \in [UsbDevices -> -2..4]
  /\ present \in SUBSET UsbDevices
  /\ queue \in Seq(Events)
  /\ broken \in BOOLEAN

Init ==
  /\ client = "idle"
  /\ kind \in Kinds
  /\ func \in Functions
  /\ funcs = [k \in Kinds |-> {}]
  /\ orphans = [k \in Kinds |-> {}]
  /\ enabled = FALSE
  /\ registered = FALSE
  /\ loop = "none"
  /\ event \in Events
  /\ todo = {}
  /\ devices = {}
  /\ kept = {}
  /\ present \in SUBSET UsbDevices
  /\ refs = [d \in UsbDevices |-> IF d \in present THEN 1 ELSE 0]
  /\ queue = <<>>
  /\ broken = FALSE

-----------------------------------------------------------------------------
NoFunction  == \A k \in Kinds : funcs[k] = {}
Handling    == loop \in {"lookup", "call", "forget"}

(* The client changes a container while the event thread uses it.          *)
FunctionsRace == client \in {"insert", "erase"} /\ loop = "call"
                   /\ kind = event.kind
DevicesRace   == client = "enumerate" /\ loop \in {"lookup", "forget"}
Race          == FunctionsRace \/ DevicesRace

(***************************************************************************)
(* Who relies on the reference count of d: libusb, from the arrival until  *)
(* the removal has been handled; m_devices; a Device of the client; and    *)
(* the Device on the stack of the handler of a removal.                    *)
(***************************************************************************)
LeftPending(d) ==
  \E n \in DOMAIN queue : queue[n] = [kind |-> "disconnected", device |-> d]

HandlingLeft(d) ==
  Handling /\ event = [kind |-> "disconnected", device |-> d]

One(condition) == IF condition THEN 1 ELSE 0

Owners(d) ==
  One(d \in present \/ LeftPending(d) \/ HandlingLeft(d))
    + One(d \in devices) + One(d \in kept)
    + One(HandlingLeft(d) /\ loop # "lookup")

(* A device is freed under somebody who relies on it.                      *)
Dangling == \E d \in UsbDevices : refs[d] = 0 /\ Owners(d) > 0

Running == ~broken /\ ~Race /\ ~Dangling

ClientAt(pc) == Running /\ client = pc
LoopAt(pc)   == Running /\ loop = pc
ClientTo(pc) == client' = pc /\ UNCHANGED <<kind, func>>
LoopTo(pc)   == loop' = pc /\ UNCHANGED <<event, todo>>

-----------------------------------------------------------------------------
(* registerDeviceConnected and registerDeviceDisconnected.                 *)

(* Mutant of CallRegister: a generator of handles for each kind.           *)
CallRegisterPerKind ==
  /\ ClientAt("idle")
  /\ client' = "insert"
  /\ \E k \in Kinds : \E f \in Functions \ funcs[k] :
       /\ kind' = k
       /\ func' = f
  /\ UNCHANGED <<tableVars, flagVars, loopVars, worldVars>>

(* m_handleGenerator gives the function a handle no other one has.         *)
CallRegister ==
  /\ ClientAt("idle")
  /\ client' = "insert"
  /\ \E k \in Kinds, f \in Functions :
       /\ \A j \in Kinds : f \notin funcs[j]
       /\ kind' = k
       /\ func' = f
  /\ UNCHANGED <<tableVars, flagVars, loopVars, worldVars>>

InsertFunction ==
  /\ ClientAt("insert")
  /\ funcs' = [funcs EXCEPT ![kind] = @ \cup {func}]
  /\ ClientTo("start")
  /\ UNCHANGED <<orphans, flagVars, loopVars, worldVars>>

(* startEventLoop does nothing when the loop is running.                   *)
StartEventLoop ==
  /\ ClientAt("start")
  /\ ClientTo(IF enabled THEN "idle" ELSE "register")
  /\ enabled' = TRUE
  /\ UNCHANGED <<tableVars, registered, loopVars, worldVars>>

RegisterCallback ==
  /\ ClientAt("register")
  /\ registered' = TRUE
  /\ ClientTo("spawn")
  /\ UNCHANGED <<tableVars, enabled, loopVars, worldVars>>

(* Mutant of RegisterCallbackFails: m_hotplugEnabled is not reset.         *)
RegisterCallbackFailsEnabled ==
  /\ "register" \in Failures
  /\ ClientAt("register")
  /\ orphans' = [orphans EXCEPT ![kind] = @ \cup {func}]
  /\ ClientTo("idle")
  /\ UNCHANGED <<funcs, flagVars, loopVars, worldVars>>

(* The exception leaves the function in its map; the client does not learn *)
(* the handle.                                                             *)
RegisterCallbackFails ==
  /\ "register" \in Failures
  /\ ClientAt("register")
  /\ enabled' = FALSE
  /\ orphans' = [orphans EXCEPT ![kind] = @ \cup {func}]
  /\ ClientTo("idle")
  /\ UNCHANGED <<funcs, registered, loopVars, worldVars>>

SpawnThread ==
  /\ ClientAt("spawn")
  /\ LoopTo("test")
  /\ ClientTo("idle")
  /\ UNCHANGED <<tableVars, flagVars, worldVars>>

(* std::thread throws; m_hotplugEnabled and the registration stay.         *)
SpawnThreadFails ==
  /\ "spawn" \in Failures
  /\ ClientAt("spawn")
  /\ orphans' = [orphans EXCEPT ![kind] = @ \cup {func}]
  /\ ClientTo("idle")
  /\ UNCHANGED <<funcs, flagVars, loopVars, worldVars>>

-----------------------------------------------------------------------------
(* unregisterDeviceConnected and unregisterDeviceDisconnected.             *)

(* The handle may be one that has been unregistered before.                *)
CallUnregister ==
  /\ ClientAt("idle")
  /\ client' = "erase"
  /\ \E k \in Kinds : \E f \in Functions \ orphans[k] :
       /\ kind' = k
       /\ func' = f
  /\ UNCHANGED <<tableVars, flagVars, loopVars, worldVars>>

(* Mutant of EraseFunction: only the map of the same kind is tested.       *)
EraseFunctionHasty ==
  /\ ClientAt("erase")
  /\ funcs' = [funcs EXCEPT ![kind] = @ \ {func}]
  /\ ClientTo(IF funcs'[kind] = {} THEN "stop" ELSE "idle")
  /\ UNCHANGED <<orphans, flagVars, loopVars, worldVars>>

EraseFunction ==
  /\ ClientAt("erase")
  /\ funcs' = [funcs EXCEPT ![kind] = @ \ {func}]
  /\ ClientTo(IF NoFunction' THEN "stop" ELSE "idle")
  /\ UNCHANGED <<orphans, flagVars, loopVars, worldVars>>

(* Mutants of StopEventLoop: the callback is deregistered before the join; *)
(* the flag is not cleared before the join.                                *)
StopDeregistering ==
  /\ ClientAt("stop")
  /\ ClientTo(IF enabled THEN "join" ELSE "idle")
  /\ enabled' = FALSE
  /\ registered' = FALSE
  /\ UNCHANGED <<tableVars, loopVars, worldVars>>

StopWithoutFlag ==
  /\ ClientAt("stop")
  /\ ClientTo(IF enabled THEN "join" ELSE "idle")
  /\ UNCHANGED <<tableVars, flagVars, loopVars, worldVars>>

(* stopEventLoop does nothing when the loop is not running.                *)
StopEventLoop ==
  /\ ClientAt("stop")
  /\ ClientTo(IF enabled THEN "join" ELSE "idle")
  /\ enabled' = FALSE
  /\ UNCHANGED <<tableVars, registered, loopVars, worldVars>>

(* Mutant of JoinThread: the thread is left to itself.                     *)
DetachThread ==
  /\ ClientAt("join")
  /\ loop # "none"
  /\ ClientTo("deregister")
  /\ UNCHANGED <<tableVars, flagVars, loopVars, worldVars>>

(* A thread that was never started is not joined: the function whose       *)
(* registration failed to start it stays in its map, so that the maps are  *)
(* never empty again.                                                      *)
JoinThread ==
  /\ ClientAt("join")
  /\ loop = "done"
  /\ LoopTo("none")
  /\ ClientTo("deregister")
  /\ UNCHANGED <<tableVars, flagVars, worldVars>>

DeregisterCallback ==
  /\ ClientAt("deregister")
  /\ registered' = FALSE
  /\ ClientTo("idle")
  /\ UNCHANGED <<tableVars, enabled, loopVars, worldVars>>

-----------------------------------------------------------------------------
(* getDevices: the Devices take over the references of the list; a copy is *)
(* entered in m_devices unless the device is there already.  The client    *)
(* of the model keeps the Devices of one list at a time.                   *)
CallGetDevices ==
  /\ ClientAt("idle")
  /\ kept = {}
  /\ ClientTo("enumerate")
  /\ UNCHANGED <<tableVars, flagVars, loopVars, worldVars>>

(* Mutant of EnterDevices: the copy that is not entered is not given back. *)
EnterDevicesAgain ==
  /\ ClientAt("enumerate")
  /\ devices' = devices \cup present
  /\ kept' = present
  /\ refs' = [d \in UsbDevices |-> refs[d] + 2 * One(d \in present)]
  /\ ClientTo("idle")
  /\ UNCHANGED <<tableVars, flagVars, loopVars, usbVars, broken>>

EnterDevices ==
  /\ ClientAt("enumerate")
  /\ devices' = devices \cup present
  /\ kept' = present
  /\ refs' = [d \in UsbDevices |->
               refs[d] + One(d \in present) + One(d \in present \ devices)]
  /\ ClientTo("idle")
  /\ UNCHANGED <<tableVars, flagVars, loopVars, usbVars, broken>>

(* The client lets go of one of its Devices.                               *)
DropDevice ==
  /\ ClientAt("idle")
  /\ \E d \in kept :
       /\ kept' = kept \ {d}
       /\ refs' = [refs EXCEPT ![d] = @ - 1]
  /\ UNCHANGED <<callerVars, loopVars, devices, usbVars, broken>>

-----------------------------------------------------------------------------
(* The event thread.                                                       *)

TestEnabled ==
  /\ LoopAt("test")
  /\ LoopTo(IF enabled THEN "events" ELSE "done")
  /\ UNCHANGED <<callerVars, worldVars>>

(* libusb_handle_events_completed calls the handler for a pending event,   *)
(* or returns after its own timeout when there is none.  A removal that    *)
(* nobody handles only gives the reference of libusb back.                 *)
DeliverEvent ==
  /\ LoopAt("events")
  /\ queue # <<>>
  /\ queue' = Tail(queue)
  /\ event' = Head(queue)
  /\ todo' = {}
  /\ loop' = IF registered THEN "lookup" ELSE "sleep"
  /\ refs' = [refs EXCEPT ![event'.device] =
               @ - One(~registered /\ event'.kind = "disconnected")]
  /\ UNCHANGED <<callerVars, devices, kept, present, broken>>

EventsTimeout ==
  /\ LoopAt("events")
  /\ queue = <<>>
  /\ LoopTo("sleep")
  /\ UNCHANGED <<callerVars, worldVars>>

Sleep ==
  /\ LoopAt("sleep")
  /\ LoopTo("test")
  /\ UNCHANGED <<callerVars, worldVars>>

(* DEVICE_ARRIVED: m_devices.at() throws for a device that is not in the   *)
(* map, and nothing catches the exception on the event thread.  The        *)
(* insertion above it is skipped for exactly these devices; for any other  *)
(* it makes a Device that takes over a reference nobody gave it, finds the *)
(* key taken, and gives that reference back.                               *)
LookupArrived ==
  /\ LoopAt("lookup")
  /\ event.kind = "connected"
  /\ broken' = (event.device \notin devices)
  /\ refs' = [refs EXCEPT ![event.device] = @ - One(event.device \in devices)]
  /\ todo' = funcs["connected"]
  /\ loop' = "call"
  /\ UNCHANGED <<callerVars, event, devices, kept, usbVars>>

(* Mutant of LookupLeft: a device that is not in the map is ignored.       *)
LookupLeftKnown ==
  /\ LoopAt("lookup")
  /\ event.kind = "disconnected"
  /\ todo' = funcs["disconnected"]
  /\ refs' = [refs EXCEPT ![event.device] =
               @ + 2 * One(event.device \in devices) - 1]
  /\ loop' = IF event.device \in devices THEN "call" ELSE "sleep"
  /\ UNCHANGED <<callerVars, event, devices, kept, usbVars, broken>>

(* DEVICE_LEFT: a device that is not in the map is reported all the same,  *)
(* by a Device that takes over a reference nobody gave it.                 *)
LookupLeft ==
  /\ LoopAt("lookup")
  /\ event.kind = "disconnected"
  /\ refs' = [refs EXCEPT ![event.device] = @ + One(event.device \in devices)]
  /\ todo' = funcs["disconnected"]
  /\ loop' = "call"
  /\ UNCHANGED <<callerVars, event, devices, kept, usbVars, broken>>

CallFunction ==
  /\ LoopAt("call")
  /\ \E f \in todo : todo' = todo \ {f}
  /\ UNCHANGED <<callerVars, loop, event, worldVars>>

(* A function that unregisters itself: the last one clears the flag and    *)
(* makes the event thread join itself, which throws in the handler; after  *)
(* any other the iteration goes on from the erased element.                *)
CallReentrant ==
  /\ Reentrant
  /\ LoopAt("call")
  /\ \E f \in todo \ orphans[event.kind] :
       funcs' = [funcs EXCEPT ![event.kind] = @ \ {f}]
  /\ enabled' = (enabled /\ ~NoFunction')
  /\ broken' = TRUE
  /\ UNCHANGED <<clientVars, orphans, registered, loopVars, deviceVars, usbVars>>

CallsDone ==
  /\ LoopAt("call")
  /\ todo = {}
  /\ LoopTo(IF event.kind = "disconnected" THEN "forget" ELSE "sleep")
  /\ UNCHANGED <<callerVars, worldVars>>

(* The map entry and the Device of the handler give their references back, *)
(* and so does libusb when the handler has returned.                       *)
ForgetDevice ==
  /\ LoopAt("forget")
  /\ devices' = devices \ {event.device}
  /\ refs' = [refs EXCEPT ![event.device] =
               @ - One(event.device \in devices) - 2]
  /\ broken' = (refs'[event.device] < 0)
  /\ LoopTo("sleep")
  /\ UNCHANGED <<callerVars, kept, usbVars>>

-----------------------------------------------------------------------------
(* Devices come and go; libusb queues an event for each.                   *)
(* The address of a device that is not freed is not used for another one.  *)
Plug ==
  /\ Arrivals
  /\ Running
  /\ Len(queue) < MaxQueue
  /\ \E d \in UsbDevices :
       /\ refs[d] = 0
       /\ present' = present \cup {d}
       /\ refs' = [refs EXCEPT ![d] = 1]
       /\ queue' = Append(queue, [kind |-> "connected", device |-> d])
  /\ UNCHANGED <<callerVars, loopVars, devices, kept, broken>>

Unplug ==
  /\ Running
  /\ Len(queue) < MaxQueue
  /\ \E d \in present :
       /\ present' = present \ {d}
       /\ queue' = Append(queue, [kind |-> "disconnected", device |-> d])
  /\ UNCHANGED <<callerVars, loopVars, deviceVars, broken>>

-----------------------------------------------------------------------------
(* The steps of a call that has begun.                                     *)
ClientStep ==
  \/ InsertFunction
  \/ StartEventLoop
  \/ RegisterCallback
  \/ RegisterCallbackFails
  \/ SpawnThread
  \/ SpawnThreadFails
  \/ EraseFunction
  \/ StopEventLoop
  \/ JoinThread
  \/ DeregisterCallback
  \/ EnterDevices

LoopStep ==
  \/ TestEnabled
  \/ DeliverEvent
  \/ EventsTimeout
  \/ Sleep
  \/ LookupArrived
  \/ LookupLeft
  \/ CallFunction
  \/ CallReentrant
  \/ CallsDone
  \/ ForgetDevice

Next ==
  \/ CallRegister
  \/ CallUnregister
  \/ CallGetDevices
  \/ DropDevice
  \/ ClientStep
  \/ LoopStep
  \/ Plug
  \/ Unplug

Spec == Init /\ [][Next]_vars

(* The operating system runs both threads.  Nobody is obliged to call, to  *)
(* plug in or to remove anything.                                          *)
FairSpec == Spec /\ WF_vars(ClientStep) /\ WF_vars(LoopStep)

-----------------------------------------------------------------------------
(* The handler runs only between registration and deregistration: libusb   *)
(* never calls into an Impl that has given up its callbacks.               *)
HandlerRegistered == Handling => registered

(* No call of the client is under way.                                     *)
Between == client = "idle" /\ ~broken

(* Between calls, a stopped loop has left nothing behind: no thread that   *)
(* could still call a function, and no registration.                       *)
StopIsComplete ==
  Between /\ ~enabled => loop = "none" /\ ~registered

(* Between calls, an enabled loop has a thread, a registration and a       *)
(* function to call.                                                       *)
LoopIsAlive ==
  Between /\ enabled =>
    loop \notin {"none", "done"} /\ registered /\ ~NoFunction

(* context.h: the event loop is started when a function is registered.     *)
(* Between calls it runs whenever a function is registered that the client *)
(* holds a handle for.                                                     *)
Served == \E k \in Kinds : funcs[k] \ orphans[k] # {}

LoopServes == Between /\ Served => enabled /\ loop \notin {"none", "done"}

(* context.h: the thread exists as long as there are any callback          *)
(* functions registered.                                                   *)
LoopOnlyWhileServing == Between /\ enabled => Served

(* The references taken on a libusb_device and those given back balance in *)
(* every step of both threads, except where handleEvent makes a Device of  *)
(* a pointer that came without a reference: for an arrival that is in      *)
(* m_devices already and for a removal that is not.  There one too few is  *)
(* left; none ever leaks.                                                  *)
Missing(d) == Owners(d) - refs[d]

AdoptsUnowned(d) ==
  /\ loop = "lookup"
  /\ event.device = d
  /\ event.kind = "connected" <=> d \in devices

ReferencesBalance ==
  [][broken' \/ \A d \in UsbDevices :
       Missing(d)' = Missing(d) + One(loop' # loop /\ AdoptsUnowned(d))]_vars

(* context.h: a function registered with registerDeviceConnected is called *)
(* when a new device is connected; no event or callback ends the program,  *)
(* nor frees a device under somebody who relies on it.                     *)
NeverBreaks == ~broken /\ ~Dangling

(* context.h: the functions are called asynchronously, from the event      *)
(* thread, while the client may register and unregister.                   *)
NoRace == ~Race

(* unregisterDevice... returns: the event thread sees the cleared flag and *)
(* the join ends.                                                          *)
StopTerminates == client = "join" ~> client # "join" \/ ~Running

(* A removal that is pending while the loop runs is reported to the        *)
(* registered functions, unless the loop is stopped before.                *)
LeftReported(d) == HandlingLeft(d) /\ loop = "call"

LoopRuns == enabled /\ loop \notin {"none", "done"}

RemovalsReported ==
  \A d \in UsbDevices :
    LoopRuns /\ LeftPending(d) ~> LeftReported(d) \/ ~enabled \/ ~Running

=============================================================================
