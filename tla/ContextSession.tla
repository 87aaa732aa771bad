--------------------------- MODULE ContextSession ---------------------------
(***************************************************************************)
(* Usbpp::Context as an object (src/src/context.cpp): construction,        *)
(* copying, moving, assignment and destruction of contexts that share a    *)
(* libusb session through a counter on the heap (m_refcount), while each   *)
(* Context::Impl has its own hotplug state and its own map of devices.     *)
(*                                                                         *)
(* A session is named by the address of its counter, which may be handed   *)
(* out again once it is free.  What happens between the threads of one     *)
(* Impl is in module Hotplug; here a call of register or unregister is one *)
(* step.                                                                   *)
(***************************************************************************)
EXTENDS Naturals, FiniteSets

CONSTANTS
  Objects,   (* Context variables of the client                              *)
  Sessions,  (* addresses of a session and of its counter                    *)
  Habits,    (* what this client does beyond the careful one, see below      *)
  Failures,  (* what may fail: "register", "spawn" (see Hotplug)             *)
  NULL

(***************************************************************************)
(* A careful client does none of these:                                    *)
(*   register_copy   registers a function with a Context made by copying   *)
(*   destroy_active  destroys or overwrites a Context with functions       *)
(*                   registered, or with a running event thread            *)
(*   outlive         destroys the last Context of a session that has been  *)
(*                   asked for its devices                                 *)
(*   use_moved       assigns to a Context that has been moved from         *)
(***************************************************************************)
AllHabits == {"register_copy", "destroy_active", "outlive", "use_moved"}

ASSUME ConstantsAssumption ==
  /\ IsFiniteSet(Objects)
  /\ NULL \notin Sessions
  /\ Habits \subseteq AllHabits
  /\ Failures \subseteq {"register", "spawn"}

VARIABLES
  life,      (* object -> "none", "live" or "moved" (its pimpl is null)      *)
  session,   (* object -> m_refcount, which m_ctx goes along with            *)
  copied,    (* object -> made by the copy constructor of Impl               *)
  funcs,     (* object -> the functions in its two maps: "none", "known" to  *)
             (*   the client, or "stranded" when a registration threw that   *)
             (*   left its function there: the client has no handle for it   *)
  enabled,   (* object -> m_hotplugEnabled                                   *)
  thread,    (* object -> m_hotplugThread is joinable                        *)
  devices,   (* object -> m_devices is not empty                             *)
  refcount,  (* session -> *m_refcount, 0 when the cell is free              *)
  opened,    (* libusb: sessions between libusb_init and libusb_exit         *)
  fault      (* "none", or what ended the program or its guarantees          *)

FunctionStates == {"none", "known", "stranded"}

implVars == <<session, copied, funcs, enabled, thread, devices>>
vars == <<life, implVars, refcount, opened, fault>>

TypeOK ==
  /\ life \in [Objects -> {"none", "live", "moved"}]
  /\ session \in [Objects -> Sessions \cup {NULL}]
  /\ copied \in [Objects -> BOOLEAN]
  /\ funcs \in [Objects -> FunctionStates]
  /\ enabled \in [Objects -> BOOLEAN]
  /\ thread \in [Objects -> BOOLEAN]
  /\ devices \in [Objects -> BOOLEAN]
  /\ refcount \in [Sessions -> Nat]
  /\ opened \in SUBSET Sessions
  /\ fault \in {"none", "terminate", "late_unref", "null"}

Nothing == [o \in Objects |-> FALSE]

Init ==
  /\ life = [o \in Objects |-> "none"]
  /\ session = [o \in Objects |-> NULL]
  /\ copied = Nothing
  /\ funcs = [o \in Objects |-> "none"]
  /\ enabled = Nothing
  /\ thread = Nothing
  /\ devices = Nothing
  /\ refcount = [s \in Sessions |-> 0]
  /\ opened = {}
  /\ fault = "none"

-----------------------------------------------------------------------------
Running == fault = "none"
Live(o) == life[o] = "live"

Holders(s) == {o \in Objects : session[o] = s}

(* ~Impl drops the share of the session; the last one calls libusb_exit.   *)
(* Mutant of Dropped: the counter of a copy is left alone.                 *)
DroppedUnlessCopied(o) ==
  IF copied[o] THEN refcount ELSE [refcount EXCEPT ![session[o]] = @ - 1]

Dropped(o) == [refcount EXCEPT ![session[o]] = @ - 1]

(* Mutant of LastOne: the counter is tested before it is decreased.        *)
LastOneEarly(o, rc) == rc[session[o]] <= 1

LastOne(o, rc) == rc[session[o]] = 0

(* What becomes of the members after the body of ~Impl: m_devices gives    *)
(* its references back to a session that is closed, and a joinable thread  *)
(* ends the program.                                                       *)
Aftermath(o, rc) ==
  IF LastOne(o, rc) /\ devices[o] THEN "late_unref"
  ELSE IF thread[o] THEN "terminate" ELSE "none"

MayDestroy(o) ==
  /\ "destroy_active" \notin Habits => ~thread[o] /\ funcs[o] # "known"
  /\ "outlive" \notin Habits =>
       (devices[o] => ~LastOne(o, Dropped(o)))

Destroyed(o, rc) ==
  /\ fault' = Aftermath(o, rc)
  /\ refcount' = rc
  /\ opened' = IF LastOne(o, rc) THEN opened \ {session[o]} ELSE opened

(* Of object o, an Impl with the given session and flags.                  *)
Become(o, s, c, f, e, t, d) ==
  /\ session' = [session EXCEPT ![o] = s]
  /\ copied'  = [copied  EXCEPT ![o] = c]
  /\ funcs'   = [funcs   EXCEPT ![o] = f]
  /\ enabled' = [enabled EXCEPT ![o] = e]
  /\ thread'  = [thread  EXCEPT ![o] = t]
  /\ devices' = [devices EXCEPT ![o] = d]

(* Impl(const Impl& ): the counter is raised; m_hotplugEnabled and         *)
(* m_hotplugHandle are left uninitialised, the containers empty.           *)
BecomeCopy(o, p) ==
  \E e \in BOOLEAN : Become(o, session[p], TRUE, "none", e, FALSE, FALSE)

(* The Impl of p becomes that of o.                                        *)
Take(o, p) ==
  /\ life'    = [life EXCEPT ![o] = life[p], ![p] = "moved"]
  /\ session' = [session EXCEPT ![o] = session[p], ![p] = NULL]
  /\ copied'  = [copied  EXCEPT ![o] = copied[p],  ![p] = FALSE]
  /\ funcs'   = [funcs   EXCEPT ![o] = funcs[p],   ![p] = "none"]
  /\ enabled' = [enabled EXCEPT ![o] = enabled[p], ![p] = FALSE]
  /\ thread'  = [thread  EXCEPT ![o] = thread[p],  ![p] = FALSE]
  /\ devices' = [devices EXCEPT ![o] = devices[p], ![p] = FALSE]

-----------------------------------------------------------------------------
(* libusb_init succeeds; when it fails the counter is freed again and no   *)
(* object comes to life.                                                   *)
Construct(o) ==
  /\ Running
  /\ life[o] = "none"
  /\ \E s \in Sessions \ opened :
       /\ refcount' = [refcount EXCEPT ![s] = 1]
       /\ opened' = opened \cup {s}
       /\ Become(o, s, FALSE, "none", FALSE, FALSE, FALSE)
  /\ life' = [life EXCEPT ![o] = "live"]
  /\ UNCHANGED fault

CopyConstruct(o, p) ==
  /\ Running
  /\ life[o] = "none"
  /\ Live(p)
  /\ life' = [life EXCEPT ![o] = "live"]
  /\ refcount' = [refcount EXCEPT ![session[p]] = @ + 1]
  /\ BecomeCopy(o, p)
  /\ UNCHANGED <<opened, fault>>

MoveConstruct(o, p) ==
  /\ Running
  /\ life[o] = "none"
  /\ life[p] # "none"
  /\ Take(o, p)
  /\ UNCHANGED <<refcount, opened, fault>>

Destroy(o) ==
  /\ Running
  /\ Live(o)
  /\ MayDestroy(o)
  /\ life' = [life EXCEPT ![o] = "none"]
  /\ Become(o, NULL, FALSE, "none", FALSE, FALSE, FALSE)
  /\ Destroyed(o, Dropped(o))

DestroyMoved(o) ==
  /\ Running
  /\ life[o] = "moved"
  /\ life' = [life EXCEPT ![o] = "none"]
  /\ UNCHANGED <<implVars, refcount, opened, fault>>

(* Context& operator=(const Context&): nothing happens between contexts of *)
(* the same session; else copy first, then destroy the old Impl.           *)
(* Mutant of CopyAssign: the copy does not raise the counter.              *)
CopyAssignUncounted(o, p) ==
  /\ Running
  /\ o # p
  /\ Live(o) /\ Live(p)
  /\ session[o] # session[p]
  /\ MayDestroy(o)
  /\ BecomeCopy(o, p)
  /\ Destroyed(o, Dropped(o))
  /\ UNCHANGED life

CopyAssign(o, p) ==
  /\ Running
  /\ o # p
  /\ Live(o) /\ Live(p)
  /\ session[o] # session[p]
  /\ MayDestroy(o)
  /\ BecomeCopy(o, p)
  /\ Destroyed(o, [Dropped(o) EXCEPT ![session[p]] = @ + 1])
  /\ UNCHANGED life

MoveAssign(o, p) ==
  /\ Running
  /\ o # p
  /\ life[o] # "none" /\ life[p] # "none"
  /\ Take(o, p)
  /\ \/ /\ Live(o)
        /\ MayDestroy(o)
        /\ Destroyed(o, Dropped(o))
     \/ /\ ~Live(o)
        /\ UNCHANGED <<refcount, opened, fault>>

(* operator= looks at the session of both sides before anything else; a    *)
(* Context that has been moved from has none to look at.                   *)
AssignThroughNull(o, p) ==
  /\ Running
  /\ "use_moved" \in Habits
  /\ o # p
  /\ life[o] = "moved" /\ life[p] # "none"
  /\ fault' = "null"
  /\ UNCHANGED <<life, implVars, refcount, opened>>

-----------------------------------------------------------------------------
MayRegister(o) == "register_copy" \notin Habits => ~copied[o]

(* The function is entered in its map, and the loop is started if the flag *)
(* says that there is none.                                                *)
Register(o) ==
  /\ Running
  /\ Live(o)
  /\ MayRegister(o)
  /\ funcs'   = [funcs EXCEPT ![o] = IF @ = "none" THEN "known" ELSE @]
  /\ enabled' = [enabled EXCEPT ![o] = TRUE]
  /\ thread'  = [thread EXCEPT ![o] = thread[o] \/ ~enabled[o]]
  /\ UNCHANGED <<life, session, copied, devices, refcount, opened, fault>>

(* The loop does not start, because libusb refuses the callback, which     *)
(* clears the flag again, or because std::thread throws, which does not:   *)
(* the exception leaves the function in its map.                           *)
RegisterFails(o) ==
  /\ Running
  /\ Live(o)
  /\ MayRegister(o)
  /\ ~enabled[o]
  /\ funcs' = [funcs EXCEPT ![o] = "stranded"]
  /\ \/ "register" \in Failures /\ UNCHANGED enabled
     \/ "spawn" \in Failures /\ enabled' = [enabled EXCEPT ![o] = TRUE]
  /\ UNCHANGED <<life, session, copied, thread, devices, refcount, opened,
                 fault>>

(* Unregistering the last one stops the loop, if the flag says that there  *)
(* is one; a function left behind is never the last one.  join() of a      *)
(* thread that was never started throws, the flag being cleared already.   *)
Unregister(o) ==
  /\ Running
  /\ Live(o)
  /\ MayRegister(o)
  /\ funcs[o] # "stranded"
  /\ funcs'   = [funcs EXCEPT ![o] = "none"]
  /\ enabled' = [enabled EXCEPT ![o] = FALSE]
  /\ thread'  = [thread EXCEPT ![o] = thread[o] /\ ~enabled[o]]
  /\ UNCHANGED <<life, session, copied, devices, refcount, opened, fault>>

(* The devices are entered in m_devices of this Impl.                      *)
GetDevices(o) ==
  /\ Running
  /\ Live(o)
  /\ devices' = [devices EXCEPT ![o] = TRUE]
  /\ UNCHANGED <<life, session, copied, funcs, enabled, thread, refcount,
                 opened, fault>>

Next ==
  \E o \in Objects :
    \/ Construct(o)
    \/ \E p \in Objects :
         \/ CopyConstruct(o, p)
         \/ MoveConstruct(o, p)
         \/ CopyAssign(o, p)
         \/ MoveAssign(o, p)
         \/ AssignThroughNull(o, p)
    \/ Destroy(o)
    \/ DestroyMoved(o)
    \/ Register(o)
    \/ RegisterFails(o)
    \/ Unregister(o)
    \/ GetDevices(o)

Spec == Init /\ [][Next]_vars

-----------------------------------------------------------------------------
(* The Context objects implement SharedResource: libusb_init is called     *)
(* once for all copies, and libusb_exit when the last of them lets go.     *)
Sharing == INSTANCE SharedResource WITH
  Resources <- Sessions,
  Users     <- Objects,
  users     <- [s \in Sessions |-> Holders(s)],
  open      <- opened

SessionsAreShared == Sharing!Spec

(* An event thread never outlives the Impl or the session it works for.    *)
ThreadHasSession ==
  \A o \in Objects :
    thread[o] /\ fault = "none" => Live(o) /\ session[o] \in opened

(* A context with functions has its loop.  (Not so: with a copy, whose     *)
(* m_hotplugEnabled may say anything, and after a registration that fails.)*)
ServedByThread ==
  \A o \in Objects : fault = "none" => (thread[o] <=> funcs[o] # "none")
=============================================================================
