------------------------ MODULE ContextSessionProofs ------------------------
(***************************************************************************)
(* Proofs about ContextSession, for every number of contexts and sessions: *)
(* the counter on the heap counts the contexts of a session, so that       *)
(* libusb_exit is called by the last of them and the contexts implement    *)
(* SharedResource.                                                         *)
(***************************************************************************)
EXTENDS ContextSession, FiniteSetTheorems, TLAPS

-----------------------------------------------------------------------------
(* The inductive invariant.                                                *)

(* *m_refcount is the number of Context objects that hold the session.     *)
Counted == \A s \in Sessions : refcount[s] = Cardinality(Holders(s))

(* An object that is not live has no Impl to hold anything with.           *)
Blank(o) ==
  /\ session[o] = NULL
  /\ funcs[o] = "none"
  /\ ~copied[o] /\ ~enabled[o] /\ ~thread[o] /\ ~devices[o]

LiveOrBlank ==
  \A o \in Objects : IF Live(o) THEN session[o] \in Sessions ELSE Blank(o)

Inv ==
  /\ TypeOK
  /\ Counted
  /\ Sharing!OpenWhileUsed
  /\ LiveOrBlank

-----------------------------------------------------------------------------
(* The holders of a session, and what a step may do to them.               *)

LEMMA HoldersFinite ==
  ASSUME NEW s
  PROVE  IsFiniteSet(Holders(s)) /\ Cardinality(Holders(s)) \in Nat
<1>1. Holders(s) \subseteq Objects
  BY DEF Holders
<1> QED
  BY <1>1, FS_Subset, FS_CardinalityType, ConstantsAssumption

LEMMA HoldersType ==
  [s \in Sessions |-> Holders(s)] \in [Sessions -> SUBSET Objects]
BY DEF Holders

LEMMA NoSessionIsNull == NULL \notin Sessions
BY ConstantsAssumption

(* One object comes to hold the session and is counted; one gives it up    *)
(* and the session closes at zero; one takes the place of another; or the  *)
(* session is left alone.                                                  *)
Joined(s, o) ==
  /\ o \notin Holders(s)
  /\ Holders(s)' = Holders(s) \cup {o}
  /\ refcount'[s] = refcount[s] + 1
  /\ s \in opened'

Left(s, o) ==
  /\ o \in Holders(s)
  /\ Holders(s)' = Holders(s) \ {o}
  /\ refcount'[s] = refcount[s] - 1
  /\ s \in opened' <=> refcount'[s] # 0

Handed(s, p, o) ==
  /\ p \in Holders(s) /\ o \notin Holders(s)
  /\ Holders(s)' = (Holders(s) \ {p}) \cup {o}
  /\ refcount'[s] = refcount[s]
  /\ s \in opened' <=> s \in opened

Rested(s) ==
  /\ Holders(s)' = Holders(s)
  /\ refcount'[s] = refcount[s]
  /\ s \in opened' <=> s \in opened

Moved(s) ==
  \/ \E o \in Objects : Joined(s, o)
  \/ \E o \in Objects : Left(s, o)
  \/ \E o, p \in Objects : Handed(s, p, o)
  \/ Rested(s)

(* Each of them keeps the count exact.                                     *)
LEMMA CountKept ==
  ASSUME TypeOK, NEW s \in Sessions, Moved(s),
         refcount[s] = Cardinality(Holders(s))
  PROVE  refcount'[s] = Cardinality(Holders(s)')
<1>1. IsFiniteSet(Holders(s)) /\ Cardinality(Holders(s)) \in Nat
  BY HoldersFinite
<1>2. CASE \E o \in Objects : Joined(s, o)
  <2>1. PICK o \in Objects : Joined(s, o)
    BY <1>2
  <2>2. Cardinality(Holders(s) \cup {o}) = Cardinality(Holders(s)) + 1
    BY <1>1, <2>1, FS_AddElement DEF Joined
  <2> QED
    BY <2>1, <2>2 DEF Joined
<1>3. CASE \E o \in Objects : Left(s, o)
  <2>1. PICK o \in Objects : Left(s, o)
    BY <1>3
  <2>2. Cardinality(Holders(s) \ {o}) = Cardinality(Holders(s)) - 1
    BY <1>1, <2>1, FS_RemoveElement DEF Left
  <2> QED
    BY <2>1, <2>2 DEF Left
<1>4. CASE \E o, p \in Objects : Handed(s, p, o)
  <2>1. PICK o \in Objects, p \in Objects : Handed(s, p, o)
    BY <1>4
  <2> DEFINE R == Holders(s) \ {p}
  <2>2. IsFiniteSet(R) /\ Cardinality(R) = Cardinality(Holders(s)) - 1
    BY <1>1, <2>1, FS_RemoveElement DEF Handed
  <2>3. o \notin R /\ Holders(s)' = R \cup {o}
    BY <2>1 DEF Handed
  <2> HIDE DEF R
  <2>4. Cardinality(R \cup {o}) = Cardinality(R) + 1
    BY <2>2, <2>3, FS_AddElement
  <2> QED
    BY <1>1, <2>1, <2>2, <2>3, <2>4 DEF Handed
<1>5. CASE Rested(s)
  BY <1>5 DEF Rested
<1> QED
  BY <1>2, <1>3, <1>4, <1>5 DEF Moved

(* Each of them keeps a session open exactly while it is held.             *)
LEMMA OpenKept ==
  ASSUME TypeOK, NEW s \in Sessions, Moved(s),
         refcount'[s] = Cardinality(Holders(s)'),
         s \in opened <=> Holders(s) # {}
  PROVE  s \in opened' <=> Holders(s)' # {}
<1>1. CASE \E o \in Objects : Joined(s, o)
  BY <1>1 DEF Joined
<1>2. CASE \E o \in Objects : Left(s, o)
  <2>1. PICK o \in Objects : Left(s, o)
    BY <1>2
  <2>2. IsFiniteSet(Holders(s)')
    BY <2>1, HoldersFinite, FS_RemoveElement DEF Left
  <2>3. refcount'[s] = 0 <=> Holders(s)' = {}
    BY <2>2, FS_EmptySet
  <2> QED
    BY <2>1, <2>3 DEF Left
<1>3. CASE \E o, p \in Objects : Handed(s, p, o)
  BY <1>3 DEF Handed
<1>4. CASE Rested(s)
  BY <1>4 DEF Rested
<1> QED
  BY <1>1, <1>2, <1>3, <1>4 DEF Moved

(* Each of them is a step of the shared resource.                          *)
LEMMA MovedIsShared ==
  ASSUME NEW s \in Sessions, Moved(s),
         s \in opened <=> Holders(s) # {},
         s \in opened' <=> Holders(s)' # {}
  PROVE  \/ Sharing!Open(s) \/ Sharing!Share(s)
         \/ Sharing!Close(s) \/ Sharing!Rest(s)
<1> DEFINE U == [r \in Sessions |-> Holders(r)]
<1>0. U[s] = Holders(s) /\ U'[s] = Holders(s)'
  OBVIOUS
<1>1. CASE \E o \in Objects : Joined(s, o)
  <2>1. PICK o \in Objects : Joined(s, o)
    BY <1>1
  <2>2. CASE s \in opened
    BY <2>1, <2>2 DEF Joined, Sharing!Share, Sharing!Join
  <2>3. CASE s \notin opened
    BY <2>1, <2>3 DEF Joined, Sharing!Open
  <2> QED
    BY <2>2, <2>3
<1>2. CASE \E o \in Objects : Left(s, o)
  <2>1. PICK o \in Objects : Left(s, o)
    BY <1>2
  <2>2. s \in opened
    BY <2>1 DEF Left
  <2>3. CASE Holders(s)' = {}
    <3>1. Holders(s) = {o}
      BY <2>1, <2>3 DEF Left
    <3> QED
      BY <2>2, <2>3, <3>1 DEF Sharing!Close
  <2>4. CASE Holders(s)' # {}
    BY <2>1, <2>2, <2>4 DEF Left, Sharing!Share, Sharing!Leave
  <2> QED
    BY <2>3, <2>4
<1>3. CASE \E o, p \in Objects : Handed(s, p, o)
  <2>1. PICK o \in Objects, p \in Objects : Handed(s, p, o)
    BY <1>3
  <2>2. s \in opened /\ s \in opened'
    BY <2>1 DEF Handed
  <2> QED
    BY <2>1, <2>2 DEF Handed, Sharing!Share, Sharing!Hand
<1>4. CASE Rested(s)
  BY <1>4 DEF Rested, Sharing!Rest
<1> QED
  BY <1>1, <1>2, <1>3, <1>4 DEF Moved

-----------------------------------------------------------------------------
(* What each operation does to the holders of a session.                   *)

(* Only one object is given another session.                               *)
LEMMA HoldersAfterBecome ==
  ASSUME NEW o \in Objects, NEW s,
         \A q \in Objects \ {o} : session'[q] = session[q]
  PROVE  Holders(s)' = IF session'[o] = s THEN Holders(s) \cup {o}
                                          ELSE Holders(s) \ {o}
BY DEF Holders

(* One object takes the session of another, which is left without.         *)
LEMMA HoldersAfterTake ==
  ASSUME TypeOK, NEW o \in Objects, NEW p \in Objects, o # p, Take(o, p),
         NEW s \in Sessions
  PROVE  Holders(s)' = IF session[p] = s THEN (Holders(s) \ {p}) \cup {o}
                                         ELSE Holders(s) \ {o}
<1>1. /\ session'[o] = session[p] /\ session'[p] = NULL
      /\ \A q \in Objects : q = o \/ q = p \/ session'[q] = session[q]
  BY DEF Take, TypeOK
<1> QED
  BY <1>1, NoSessionIsNull DEF Holders

LEMMA ConstructMoves ==
  ASSUME Inv, NEW o \in Objects, Construct(o), NEW s \in Sessions
  PROVE  Moved(s)
<1>1. PICK t \in Sessions \ opened :
        /\ refcount' = [refcount EXCEPT ![t] = 1]
        /\ opened' = opened \cup {t}
        /\ session' = [session EXCEPT ![o] = t]
  BY DEF Construct, Become
<1>2. session[o] = NULL
  BY DEF Construct, Inv, LiveOrBlank, Live, Blank
<1>3. /\ session'[o] = t
      /\ \A q \in Objects \ {o} : session'[q] = session[q]
  BY <1>1 DEF Inv, TypeOK
<1>4. o \notin Holders(s)
  BY <1>2, NoSessionIsNull DEF Holders
<1>5. Holders(s)' = IF t = s THEN Holders(s) \cup {o} ELSE Holders(s) \ {o}
  BY <1>3, HoldersAfterBecome
<1>6. CASE s = t
  <2>1. Holders(s) = {}
    BY <1>1, <1>6 DEF Inv, Sharing!OpenWhileUsed
  <2>2. refcount[s] = 0
    BY <2>1, FS_EmptySet DEF Inv, Counted
  <2>3. refcount'[s] = 1
    BY <1>1, <1>6 DEF Inv, TypeOK
  <2> QED
    BY <1>1, <1>4, <1>5, <1>6, <2>2, <2>3 DEF Moved, Joined
<1>7. CASE s # t
  BY <1>1, <1>4, <1>5, <1>7 DEF Moved, Rested, Inv, TypeOK
<1> QED
  BY <1>6, <1>7

LEMMA CopyConstructMoves ==
  ASSUME Inv, NEW o \in Objects, NEW p \in Objects, CopyConstruct(o, p),
         NEW s \in Sessions
  PROVE  Moved(s)
<1>1. /\ refcount' = [refcount EXCEPT ![session[p]] = @ + 1]
      /\ session' = [session EXCEPT ![o] = session[p]]
      /\ opened' = opened
  BY DEF CopyConstruct, BecomeCopy, Become
<1>2. session[o] = NULL /\ session[p] \in Sessions
  BY DEF CopyConstruct, Inv, LiveOrBlank, Live, Blank
<1>3. /\ session'[o] = session[p]
      /\ \A q \in Objects \ {o} : session'[q] = session[q]
  BY <1>1 DEF Inv, TypeOK
<1>4. o \notin Holders(s)
  BY <1>2, NoSessionIsNull DEF Holders
<1>5. Holders(s)' = IF session[p] = s THEN Holders(s) \cup {o}
                                      ELSE Holders(s) \ {o}
  BY <1>3, HoldersAfterBecome
<1>6. CASE s = session[p]
  <2>1. p \in Holders(s)
    BY <1>6 DEF Holders
  <2>2. s \in opened
    BY <2>1 DEF Inv, Sharing!OpenWhileUsed
  <2>3. refcount'[s] = refcount[s] + 1
    BY <1>1, <1>6 DEF Inv, TypeOK
  <2> QED
    BY <1>1, <1>4, <1>5, <1>6, <2>2, <2>3 DEF Moved, Joined
<1>7. CASE s # session[p]
  BY <1>1, <1>4, <1>5, <1>7 DEF Moved, Rested, Inv, TypeOK
<1> QED
  BY <1>6, <1>7

(* Taking the Impl of another into an object without one.                  *)
LEMMA TakeMoves ==
  ASSUME Inv, NEW o \in Objects, NEW p \in Objects, o # p, Take(o, p),
         ~Live(o), refcount' = refcount, opened' = opened,
         NEW s \in Sessions
  PROVE  Moved(s)
<1>1. session[o] = NULL
  BY DEF Inv, LiveOrBlank, Blank
<1>2. o \notin Holders(s)
  BY <1>1, NoSessionIsNull DEF Holders
<1>3. Holders(s)' = IF session[p] = s THEN (Holders(s) \ {p}) \cup {o}
                                      ELSE Holders(s) \ {o}
  BY HoldersAfterTake DEF Inv
<1>4. CASE session[p] = s
  <2>1. p \in Holders(s)
    BY <1>4 DEF Holders
  <2> QED
    BY <1>2, <1>3, <1>4, <2>1 DEF Moved, Handed
<1>5. CASE session[p] # s
  BY <1>2, <1>3, <1>5 DEF Moved, Rested
<1> QED
  BY <1>4, <1>5

LEMMA DestroyMoves ==
  ASSUME Inv, NEW o \in Objects, Destroy(o), NEW s \in Sessions
  PROVE  Moved(s)
<1>1. /\ refcount' = [refcount EXCEPT ![session[o]] = @ - 1]
      /\ session' = [session EXCEPT ![o] = NULL]
      /\ opened' = IF refcount'[session[o]] = 0 THEN opened \ {session[o]}
                                                ELSE opened
  BY DEF Destroy, Become, Destroyed, Dropped, LastOne
<1>2. session[o] \in Sessions
  BY DEF Destroy, Inv, LiveOrBlank
<1>3. /\ session'[o] = NULL
      /\ \A q \in Objects \ {o} : session'[q] = session[q]
  BY <1>1 DEF Inv, TypeOK
<1>4. Holders(s)' = Holders(s) \ {o}
  BY <1>3, HoldersAfterBecome, NoSessionIsNull
<1>5. CASE s = session[o]
  <2>1. o \in Holders(s)
    BY <1>5 DEF Holders
  <2>2. s \in opened
    BY <2>1 DEF Inv, Sharing!OpenWhileUsed
  <2>3. refcount'[s] = refcount[s] - 1
    BY <1>1, <1>5 DEF Inv, TypeOK
  <2> QED
    BY <1>1, <1>4, <1>5, <2>1, <2>2, <2>3 DEF Moved, Left
<1>6. CASE s # session[o]
  <2>1. o \notin Holders(s)
    BY <1>6 DEF Holders
  <2> QED
    BY <1>1, <1>2, <1>4, <1>6, <2>1 DEF Moved, Rested, Inv, TypeOK
<1> QED
  BY <1>5, <1>6

LEMMA CopyAssignMoves ==
  ASSUME Inv, NEW o \in Objects, NEW p \in Objects, CopyAssign(o, p),
         NEW s \in Sessions
  PROVE  Moved(s)
<1> DEFINE rc == [Dropped(o) EXCEPT ![session[p]] = @ + 1]
<1>1. /\ refcount' = rc
      /\ session' = [session EXCEPT ![o] = session[p]]
      /\ opened' = IF rc[session[o]] = 0 THEN opened \ {session[o]}
                                         ELSE opened
  BY DEF CopyAssign, BecomeCopy, Become, Destroyed, LastOne
<1>2. /\ session[o] \in Sessions /\ session[p] \in Sessions
      /\ session[o] # session[p]
  BY DEF CopyAssign, Inv, LiveOrBlank
<1>3. /\ session'[o] = session[p]
      /\ \A q \in Objects \ {o} : session'[q] = session[q]
  BY <1>1 DEF Inv, TypeOK
<1>4. /\ refcount'[session[o]] = refcount[session[o]] - 1
      /\ refcount'[session[p]] = refcount[session[p]] + 1
      /\ \A t \in Sessions \ {session[o], session[p]} :
           refcount'[t] = refcount[t]
  BY <1>1, <1>2 DEF Dropped, Inv, TypeOK
<1>5. opened' = IF refcount'[session[o]] = 0 THEN opened \ {session[o]}
                                             ELSE opened
  BY <1>1
<1> HIDE DEF rc
<1>6. Holders(s)' = IF session[p] = s THEN Holders(s) \cup {o}
                                      ELSE Holders(s) \ {o}
  BY <1>3, HoldersAfterBecome
<1>7. CASE s = session[o]
  <2>1. o \in Holders(s)
    BY <1>7 DEF Holders
  <2>2. s \in opened
    BY <2>1 DEF Inv, Sharing!OpenWhileUsed
  <2> QED
    BY <1>2, <1>4, <1>5, <1>6, <1>7, <2>1, <2>2 DEF Moved, Left
<1>8. CASE s = session[p]
  <2>1. o \notin Holders(s) /\ p \in Holders(s)
    BY <1>2, <1>8 DEF Holders
  <2>2. s \in opened
    BY <2>1 DEF Inv, Sharing!OpenWhileUsed
  <2> QED
    BY <1>2, <1>4, <1>5, <1>6, <1>8, <2>1, <2>2 DEF Moved, Joined
<1>9. CASE s # session[o] /\ s # session[p]
  <2>1. o \notin Holders(s)
    BY <1>9 DEF Holders
  <2> QED
    BY <1>4, <1>5, <1>6, <1>9, <2>1 DEF Moved, Rested
<1> QED
  BY <1>7, <1>8, <1>9

(* The session o had is given up, and that of p changes hands; when it is  *)
(* the same one, o stays and p leaves.                                     *)
LEMMA ReplaceMoves ==
  ASSUME Inv, NEW o \in Objects, NEW p \in Objects, o # p, Take(o, p),
         Live(o), Destroyed(o, Dropped(o)), NEW s \in Sessions
  PROVE  Moved(s)
<1>1. /\ refcount' = [refcount EXCEPT ![session[o]] = @ - 1]
      /\ opened' = IF refcount'[session[o]] = 0 THEN opened \ {session[o]}
                                                ELSE opened
  BY DEF Destroyed, Dropped, LastOne
<1>2. session[o] \in Sessions
  BY DEF Inv, LiveOrBlank
<1>3. Holders(s)' = IF session[p] = s THEN (Holders(s) \ {p}) \cup {o}
                                      ELSE Holders(s) \ {o}
  BY HoldersAfterTake DEF Inv
<1>4. CASE s = session[o]
  <2>1. o \in Holders(s)
    BY <1>4 DEF Holders
  <2>2. s \in opened
    BY <2>1 DEF Inv, Sharing!OpenWhileUsed
  <2>3. refcount'[s] = refcount[s] - 1
    BY <1>1, <1>4 DEF Inv, TypeOK
  <2>4. s \in opened' <=> refcount'[s] # 0
    BY <1>1, <1>4, <2>2
  <2>5. CASE session[p] = s
    <3>1. p \in Holders(s)
      BY <2>5 DEF Holders
    <3>2. Holders(s)' = Holders(s) \ {p}
      BY <1>3, <2>1, <2>5
    <3> QED
      BY <2>3, <2>4, <3>1, <3>2 DEF Moved, Left
  <2>6. CASE session[p] # s
    BY <1>3, <2>1, <2>3, <2>4, <2>6 DEF Moved, Left
  <2> QED
    BY <2>5, <2>6
<1>5. CASE s # session[o]
  <2>1. o \notin Holders(s)
    BY <1>5 DEF Holders
  <2>2. refcount'[s] = refcount[s] /\ (s \in opened' <=> s \in opened)
    BY <1>1, <1>2, <1>5 DEF Inv, TypeOK
  <2>3. CASE session[p] = s
    <3>1. p \in Holders(s)
      BY <2>3 DEF Holders
    <3> QED
      BY <1>3, <2>1, <2>2, <2>3, <3>1 DEF Moved, Handed
  <2>4. CASE session[p] # s
    BY <1>3, <2>1, <2>2, <2>4 DEF Moved, Rested
  <2> QED
    BY <2>3, <2>4
<1> QED
  BY <1>4, <1>5

(* A step that leaves the sessions of all objects alone.                   *)
LEMMA StillRested ==
  ASSUME NEW s \in Sessions, UNCHANGED <<session, refcount, opened>>
  PROVE  Moved(s)
BY DEF Moved, Rested, Holders

LEMMA NextMoves ==
  ASSUME Inv, [Next]_vars, NEW s \in Sessions
  PROVE  Moved(s)
<1>1. ASSUME NEW o \in Objects, Construct(o)
      PROVE  Moved(s)
  BY <1>1, ConstructMoves
<1>2. ASSUME NEW o \in Objects, NEW p \in Objects, CopyConstruct(o, p)
      PROVE  Moved(s)
  BY <1>2, CopyConstructMoves
<1>3. ASSUME NEW o \in Objects, NEW p \in Objects, MoveConstruct(o, p)
      PROVE  Moved(s)
  BY <1>3, TakeMoves DEF MoveConstruct, Live
<1>4. ASSUME NEW o \in Objects, NEW p \in Objects, CopyAssign(o, p)
      PROVE  Moved(s)
  BY <1>4, CopyAssignMoves
<1>5. ASSUME NEW o \in Objects, NEW p \in Objects, MoveAssign(o, p)
      PROVE  Moved(s)
  BY <1>5, TakeMoves, ReplaceMoves DEF MoveAssign
<1>6. ASSUME NEW o \in Objects, Destroy(o)
      PROVE  Moved(s)
  BY <1>6, DestroyMoves
<1>7. ASSUME NEW o \in Objects,
             \/ \E p \in Objects : AssignThroughNull(o, p)
             \/ DestroyMoved(o) \/ Register(o) \/ RegisterFails(o)
             \/ Unregister(o) \/ GetDevices(o)
      PROVE  Moved(s)
  BY <1>7, StillRested DEF AssignThroughNull, DestroyMoved, Register,
     RegisterFails, Unregister, GetDevices, implVars
<1>8. CASE UNCHANGED vars
  BY <1>8, StillRested DEF vars, implVars
<1> QED
  BY <1>1, <1>2, <1>3, <1>4, <1>5, <1>6, <1>7, <1>8 DEF Next

-----------------------------------------------------------------------------
(* The inductive invariant is one.                                         *)

LEMMA InitInv == Init => Inv
<1> SUFFICES ASSUME Init
             PROVE  Inv
  OBVIOUS
<1>1. TypeOK
  BY DEF Init, TypeOK, Nothing, FunctionStates
<1>2. \A s \in Sessions : Holders(s) = {}
  BY NoSessionIsNull DEF Init, Holders
<1>3. Counted
  BY <1>2, FS_EmptySet DEF Init, Counted
<1>4. Sharing!OpenWhileUsed
  BY <1>2 DEF Init, Sharing!OpenWhileUsed
<1>5. LiveOrBlank
  BY DEF Init, LiveOrBlank, Live, Blank, Nothing
<1> QED
  BY <1>1, <1>3, <1>4, <1>5 DEF Inv

(* The types of all variables but the range of the counters, which follows *)
(* from their being exact.                                                 *)
Shape ==
  /\ life \in [Objects -> {"none", "live", "moved"}]
  /\ session \in [Objects -> Sessions \cup {NULL}]
  /\ copied \in [Objects -> BOOLEAN]
  /\ funcs \in [Objects -> FunctionStates]
  /\ enabled \in [Objects -> BOOLEAN]
  /\ thread \in [Objects -> BOOLEAN]
  /\ devices \in [Objects -> BOOLEAN]
  /\ refcount \in [Sessions -> Int]
  /\ opened \in SUBSET Sessions
  /\ fault \in {"none", "terminate", "late_unref", "null"}

LEMMA BecomeShape ==
  ASSUME TypeOK, NEW o \in Objects, NEW s \in Sessions \cup {NULL},
         NEW c \in BOOLEAN, NEW f \in FunctionStates, NEW e \in BOOLEAN,
         NEW t \in BOOLEAN, NEW d \in BOOLEAN, Become(o, s, c, f, e, t, d)
  PROVE  /\ session' \in [Objects -> Sessions \cup {NULL}]
         /\ copied' \in [Objects -> BOOLEAN]
         /\ funcs' \in [Objects -> FunctionStates]
         /\ enabled' \in [Objects -> BOOLEAN]
         /\ thread' \in [Objects -> BOOLEAN]
         /\ devices' \in [Objects -> BOOLEAN]
BY DEF TypeOK, Become

LEMMA TakeShape ==
  ASSUME TypeOK, NEW o \in Objects, NEW p \in Objects, Take(o, p)
  PROVE  /\ life' \in [Objects -> {"none", "live", "moved"}]
         /\ session' \in [Objects -> Sessions \cup {NULL}]
         /\ copied' \in [Objects -> BOOLEAN]
         /\ funcs' \in [Objects -> FunctionStates]
         /\ enabled' \in [Objects -> BOOLEAN]
         /\ thread' \in [Objects -> BOOLEAN]
         /\ devices' \in [Objects -> BOOLEAN]
BY DEF TypeOK, FunctionStates, Take

LEMMA DestroyedShape ==
  ASSUME TypeOK, NEW o \in Objects, NEW rc \in [Sessions -> Int],
         Destroyed(o, rc)
  PROVE  /\ refcount' \in [Sessions -> Int]
         /\ opened' \in SUBSET Sessions
         /\ fault' \in {"none", "terminate", "late_unref", "null"}
BY DEF TypeOK, Destroyed, Aftermath

LEMMA DroppedShape ==
  ASSUME Inv, NEW o \in Objects, Live(o)
  PROVE  Dropped(o) \in [Sessions -> Int]
<1>1. session[o] \in Sessions /\ refcount \in [Sessions -> Nat]
  BY DEF Inv, TypeOK, LiveOrBlank
<1>2. refcount[session[o]] - 1 \in Int
  BY <1>1
<1> QED
  BY <1>1, <1>2 DEF Dropped

LEMMA NextShape ==
  ASSUME Inv, [Next]_vars
  PROVE  Shape'
<1> USE DEF Inv
<1>1. ASSUME NEW o \in Objects, Construct(o)
      PROVE  Shape'
  <2>1. PICK s \in Sessions :
          /\ refcount' = [refcount EXCEPT ![s] = 1]
          /\ opened' = opened \cup {s}
          /\ Become(o, s, FALSE, "none", FALSE, FALSE, FALSE)
    BY <1>1 DEF Construct
  <2>2. /\ refcount' \in [Sessions -> Int] /\ opened' \in SUBSET Sessions
        /\ life' \in [Objects -> {"none", "live", "moved"}]
        /\ fault' \in {"none", "terminate", "late_unref", "null"}
    BY <1>1, <2>1 DEF Construct, TypeOK
  <2> QED
    BY <2>1, <2>2, BecomeShape DEF FunctionStates, Shape
<1>2. ASSUME NEW o \in Objects, NEW p \in Objects, CopyConstruct(o, p)
      PROVE  Shape'
  <2>1. PICK e \in BOOLEAN : Become(o, session[p], TRUE, "none", e, FALSE, FALSE)
    BY <1>2 DEF CopyConstruct, BecomeCopy
  <2>2. session[p] \in Sessions
    BY <1>2 DEF CopyConstruct, LiveOrBlank
  <2>3. refcount' \in [Sessions -> Int]
    BY <1>2, <2>2 DEF CopyConstruct, TypeOK
  <2>4. /\ opened' \in SUBSET Sessions
        /\ life' \in [Objects -> {"none", "live", "moved"}]
        /\ fault' \in {"none", "terminate", "late_unref", "null"}
    BY <1>2 DEF CopyConstruct, TypeOK
  <2> QED
    BY <2>1, <2>2, <2>3, <2>4, BecomeShape DEF FunctionStates, Shape
<1>3. ASSUME NEW o \in Objects, NEW p \in Objects, MoveConstruct(o, p)
      PROVE  Shape'
  <2>1. /\ refcount' \in [Sessions -> Int] /\ opened' \in SUBSET Sessions
        /\ fault' \in {"none", "terminate", "late_unref", "null"}
    BY <1>3 DEF MoveConstruct, TypeOK
  <2> QED
    BY <1>3, <2>1, TakeShape DEF MoveConstruct, Shape
<1>4. ASSUME NEW o \in Objects, NEW p \in Objects, CopyAssign(o, p)
      PROVE  Shape'
  <2>1. PICK e \in BOOLEAN : Become(o, session[p], TRUE, "none", e, FALSE, FALSE)
    BY <1>4 DEF CopyAssign, BecomeCopy
  <2> DEFINE rc == [Dropped(o) EXCEPT ![session[p]] = @ + 1]
  <2>2. /\ life' \in [Objects -> {"none", "live", "moved"}]
        /\ session[p] \in Sessions /\ Dropped(o) \in [Sessions -> Int]
    BY <1>4, DroppedShape DEF CopyAssign, TypeOK, LiveOrBlank
  <2>3. rc \in [Sessions -> Int]
    <3>1. Dropped(o)[session[p]] + 1 \in Int
      BY <2>2
    <3> QED
      BY <2>2, <3>1
  <2>4. Destroyed(o, rc)
    BY <1>4 DEF CopyAssign
  <2> HIDE DEF rc
  <2>5. /\ refcount' \in [Sessions -> Int] /\ opened' \in SUBSET Sessions
        /\ fault' \in {"none", "terminate", "late_unref", "null"}
    BY <2>3, <2>4, DestroyedShape
  <2> QED
    BY <2>1, <2>2, <2>5, BecomeShape DEF FunctionStates, Shape
<1>5. ASSUME NEW o \in Objects, NEW p \in Objects, MoveAssign(o, p)
      PROVE  Shape'
  <2>1. Live(o) => Dropped(o) \in [Sessions -> Int]
    BY DroppedShape
  <2>2. \/ Live(o) /\ Destroyed(o, Dropped(o))
        \/ UNCHANGED <<refcount, opened, fault>>
    BY <1>5 DEF MoveAssign
  <2>3. /\ refcount' \in [Sessions -> Int] /\ opened' \in SUBSET Sessions
        /\ fault' \in {"none", "terminate", "late_unref", "null"}
    <3>1. CASE Live(o) /\ Destroyed(o, Dropped(o))
      BY <2>1, <3>1, DestroyedShape
    <3>2. CASE UNCHANGED <<refcount, opened, fault>>
      BY <3>2 DEF TypeOK
    <3> QED
      BY <2>2, <3>1, <3>2
  <2> QED
    BY <1>5, <2>3, TakeShape DEF MoveAssign, Shape
<1>6. ASSUME NEW o \in Objects, Destroy(o)
      PROVE  Shape'
  <2>1. Dropped(o) \in [Sessions -> Int]
    BY <1>6, DroppedShape DEF Destroy
  <2>2. /\ refcount' \in [Sessions -> Int] /\ opened' \in SUBSET Sessions
        /\ fault' \in {"none", "terminate", "late_unref", "null"}
    BY <1>6, <2>1, DestroyedShape DEF Destroy
  <2>3. life' \in [Objects -> {"none", "live", "moved"}]
    BY <1>6 DEF Destroy, TypeOK
  <2> QED
    BY <1>6, <2>2, <2>3, BecomeShape DEF FunctionStates, Destroy, Shape
<1>7. ASSUME NEW o \in Objects, NEW p \in Objects, AssignThroughNull(o, p)
      PROVE  Shape'
  BY <1>7 DEF AssignThroughNull, implVars, TypeOK, Shape
<1>8. ASSUME NEW o \in Objects, DestroyMoved(o)
      PROVE  Shape'
  BY <1>8 DEF DestroyMoved, implVars, TypeOK, Shape
<1>9. ASSUME NEW o \in Objects, Register(o) \/ RegisterFails(o) \/ Unregister(o)
      PROVE  Shape'
  <2>1. PICK f \in FunctionStates, e \in BOOLEAN, t \in BOOLEAN :
          /\ funcs' = [funcs EXCEPT ![o] = f]
          /\ enabled' = [enabled EXCEPT ![o] = e]
          /\ thread' = [thread EXCEPT ![o] = t]
    <3>1. CASE Register(o)
      <4>1. (IF funcs[o] = "none" THEN "known" ELSE funcs[o]) \in FunctionStates
        BY DEF TypeOK, FunctionStates
      <4>2. (thread[o] \/ ~enabled[o]) \in BOOLEAN
        OBVIOUS
      <4> QED
        BY <3>1, <4>1, <4>2 DEF Register
    <3>2. CASE RegisterFails(o)
      <4>1. \A h \in [Objects -> BOOLEAN] : h = [h EXCEPT ![o] = h[o]]
        OBVIOUS
      <4>2. /\ thread \in [Objects -> BOOLEAN] /\ enabled \in [Objects -> BOOLEAN]
            /\ thread[o] \in BOOLEAN /\ enabled[o] \in BOOLEAN
            /\ "stranded" \in FunctionStates
        BY DEF TypeOK, FunctionStates
      <4> QED
        BY <3>2, <4>1, <4>2 DEF RegisterFails
    <3>3. CASE Unregister(o)
      <4>1. "none" \in FunctionStates /\ (thread[o] /\ ~enabled[o]) \in BOOLEAN
        BY DEF FunctionStates
      <4> QED
        BY <3>3, <4>1 DEF Unregister
    <3> QED
      BY <1>9, <3>1, <3>2, <3>3
  <2>2. /\ funcs' \in [Objects -> FunctionStates]
        /\ enabled' \in [Objects -> BOOLEAN]
        /\ thread' \in [Objects -> BOOLEAN]
    BY <2>1 DEF TypeOK
  <2> QED
    BY <1>9, <2>2 DEF Register, RegisterFails, Unregister, TypeOK, Shape
<1>10. ASSUME NEW o \in Objects, GetDevices(o)
       PROVE  Shape'
  BY <1>10 DEF GetDevices, TypeOK, Shape
<1>11. CASE UNCHANGED vars
  BY <1>11 DEF vars, implVars, TypeOK, Shape
<1> QED
  BY <1>1, <1>2, <1>3, <1>4, <1>5, <1>6, <1>7, <1>8, <1>9, <1>10, <1>11
  DEF Next

(* An object whose Impl is not touched; one that is not touched at all.    *)
SameImpl(q) ==
  /\ session'[q] = session[q] /\ copied'[q] = copied[q]
  /\ funcs'[q] = funcs[q] /\ enabled'[q] = enabled[q]
  /\ thread'[q] = thread[q]   /\ devices'[q] = devices[q]

Same(q) == life'[q] = life[q] /\ SameImpl(q)

(* What Become makes of the object, and that it leaves the others alone.   *)
LEMMA BecomeFacts ==
  ASSUME TypeOK, NEW o \in Objects, NEW s, NEW c, NEW f, NEW e, NEW t, NEW d,
         Become(o, s, c, f, e, t, d)
  PROVE  /\ session'[o] = s /\ copied'[o] = c /\ funcs'[o] = f
         /\ enabled'[o] = e /\ thread'[o] = t /\ devices'[o] = d
         /\ \A q \in Objects \ {o} : SameImpl(q)
BY DEF TypeOK, Become, SameImpl

(* The Impl of p is now that of o, and p is left blank.                    *)
LEMMA TakeFacts ==
  ASSUME TypeOK, NEW o \in Objects, NEW p \in Objects, o # p, Take(o, p)
  PROVE  /\ life'[o] = life[p] /\ session'[o] = session[p]
         /\ copied'[o] = copied[p] /\ funcs'[o] = funcs[p]
         /\ enabled'[o] = enabled[p] /\ thread'[o] = thread[p]
         /\ devices'[o] = devices[p]
         /\ ~Live(p)' /\ Blank(p)'
         /\ \A q \in Objects \ {o, p} : Same(q)
<1>1. /\ life'[o] = life[p] /\ session'[o] = session[p]
      /\ copied'[o] = copied[p] /\ funcs'[o] = funcs[p]
      /\ enabled'[o] = enabled[p] /\ thread'[o] = thread[p]
      /\ devices'[o] = devices[p]
  BY DEF TypeOK, Take
<1>2. ~Live(p)' /\ Blank(p)'
  BY DEF TypeOK, Take, Live, Blank
<1>3. ASSUME NEW q \in Objects \ {o, p}
      PROVE  Same(q)
  BY DEF TypeOK, Take, Same, SameImpl
<1> QED
  BY <1>1, <1>2, <1>3

LEMMA SameKept ==
  ASSUME LiveOrBlank, NEW o \in Objects,
         \A q \in Objects \ {o} : Same(q),
         IF Live(o)' THEN session'[o] \in Sessions ELSE Blank(o)'
  PROVE  LiveOrBlank'
BY DEF LiveOrBlank, Live, Blank, Same,
     SameImpl

LEMMA TakeKept ==
  ASSUME TypeOK, LiveOrBlank, NEW o \in Objects, NEW p \in Objects, o # p,
         Take(o, p)
  PROVE  LiveOrBlank'
<1>1. /\ life'[o] = life[p] /\ session'[o] = session[p]
      /\ copied'[o] = copied[p] /\ funcs'[o] = funcs[p]
      /\ enabled'[o] = enabled[p] /\ thread'[o] = thread[p]
      /\ devices'[o] = devices[p]
  BY TakeFacts
<1>2. ~Live(p)' /\ Blank(p)'
  BY TakeFacts
<1>3. \A q \in Objects \ {o, p} : Same(q)
  BY TakeFacts
<1>4. IF Live(o)' THEN session'[o] \in Sessions ELSE Blank(o)'
  BY <1>1 DEF LiveOrBlank, Live, Blank
<1> QED
  BY <1>2, <1>3, <1>4 DEF LiveOrBlank, Live, Blank, Same, SameImpl

LEMMA NextLiveOrBlank ==
  ASSUME Inv, [Next]_vars
  PROVE  LiveOrBlank'
<1> USE DEF Inv
<1>1. ASSUME NEW o \in Objects, Construct(o)
      PROVE  LiveOrBlank'
  <2>1. PICK s \in Sessions : Become(o, s, FALSE, "none", FALSE, FALSE, FALSE)
    BY <1>1 DEF Construct
  <2>2. life'[o] = "live" /\ \A q \in Objects \ {o} : life'[q] = life[q]
    BY <1>1 DEF Construct, TypeOK
  <2>3. /\ Live(o)' /\ session'[o] \in Sessions
        /\ \A q \in Objects \ {o} : Same(q)
    BY <2>1, <2>2, BecomeFacts DEF Live, Same
  <2> QED
    BY <2>3, SameKept
<1>2. ASSUME NEW o \in Objects, NEW p \in Objects,
             CopyConstruct(o, p) \/ CopyAssign(o, p)
      PROVE  LiveOrBlank'
  <2>1. PICK e \in BOOLEAN : Become(o, session[p], TRUE, "none", e, FALSE, FALSE)
    BY <1>2 DEF CopyConstruct, CopyAssign, BecomeCopy
  <2>2. life'[o] = "live" /\ \A q \in Objects \ {o} : life'[q] = life[q]
    BY <1>2 DEF CopyConstruct, CopyAssign, Live, TypeOK
  <2>3. session[p] \in Sessions
    BY <1>2 DEF CopyConstruct, CopyAssign, LiveOrBlank
  <2>4. /\ Live(o)' /\ session'[o] \in Sessions
        /\ \A q \in Objects \ {o} : Same(q)
    BY <2>1, <2>2, <2>3, BecomeFacts DEF Live, Same
  <2> QED
    BY <2>4, SameKept
<1>3. ASSUME NEW o \in Objects, NEW p \in Objects,
             MoveConstruct(o, p) \/ MoveAssign(o, p)
      PROVE  LiveOrBlank'
  <2>1. o # p /\ Take(o, p)
    BY <1>3 DEF MoveConstruct, MoveAssign
  <2> QED
    BY <2>1, TakeKept
<1>4. ASSUME NEW o \in Objects, Destroy(o)
      PROVE  LiveOrBlank'
  <2>1. Become(o, NULL, FALSE, "none", FALSE, FALSE, FALSE)
    BY <1>4 DEF Destroy
  <2>2. life'[o] = "none" /\ \A q \in Objects \ {o} : life'[q] = life[q]
    BY <1>4 DEF Destroy, TypeOK
  <2>3. /\ session'[o] = NULL /\ funcs'[o] = "none"
        /\ copied'[o] = FALSE /\ enabled'[o] = FALSE
        /\ thread'[o] = FALSE /\ devices'[o] = FALSE
        /\ \A q \in Objects \ {o} : SameImpl(q)
    BY <2>1, BecomeFacts
  <2>4. ~Live(o)' /\ Blank(o)'
    BY <2>2, <2>3 DEF Live, Blank
  <2>5. \A q \in Objects \ {o} : Same(q)
    BY <2>2, <2>3 DEF Same
  <2> QED
    BY <2>4, <2>5, SameKept
<1>5. ASSUME NEW o \in Objects, DestroyMoved(o)
      PROVE  LiveOrBlank'
  <2>1. /\ life[o] = "moved" /\ life'[o] = "none"
        /\ \A q \in Objects \ {o} : life'[q] = life[q]
    BY <1>5 DEF DestroyMoved, TypeOK
  <2>2. /\ ~Live(o)' /\ Blank(o)'
        /\ \A q \in Objects \ {o} : Same(q)
    BY <1>5, <2>1 DEF DestroyMoved, implVars, LiveOrBlank, Live, Blank, Same,
     SameImpl
  <2> QED
    BY <2>2, SameKept
<1>6. ASSUME NEW o \in Objects,
             \/ Register(o) \/ RegisterFails(o) \/ Unregister(o)
             \/ GetDevices(o)
      PROVE  LiveOrBlank'
  <2>1. Live(o) /\ life' = life /\ session' = session
    BY <1>6 DEF Register, RegisterFails, Unregister, GetDevices
  <2>2. \A q \in Objects \ {o} : Same(q)
    BY <1>6 DEF Register, RegisterFails, Unregister, GetDevices, Same,
       SameImpl, TypeOK
  <2>3. Live(o)' /\ session'[o] \in Sessions
    BY <2>1 DEF Live, LiveOrBlank
  <2> QED
    BY <2>2, <2>3, SameKept
<1>7. ASSUME NEW o \in Objects, NEW p \in Objects, AssignThroughNull(o, p)
      PROVE  LiveOrBlank'
  BY <1>7 DEF AssignThroughNull, implVars, LiveOrBlank, Live, Blank
<1>8. CASE UNCHANGED vars
  BY <1>8 DEF vars, implVars, LiveOrBlank, Live, Blank
<1> QED
  BY <1>1, <1>2, <1>3, <1>4, <1>5, <1>6, <1>7, <1>8 DEF Next

LEMMA NextInv ==
  ASSUME Inv, [Next]_vars
  PROVE  Inv'
<1>1. \A s \in Sessions : Moved(s)
  BY NextMoves
<1>2. Counted'
  <2>1. ASSUME NEW s \in Sessions
        PROVE  refcount'[s] = Cardinality(Holders(s)')
    BY <1>1, CountKept DEF Inv, Counted
  <2> QED
    BY <2>1 DEF Counted
<1>3. Sharing!OpenWhileUsed'
  <2>1. ASSUME NEW s \in Sessions
        PROVE  s \in opened' <=> Holders(s)' # {}
    BY <1>1, <1>2, OpenKept DEF Inv, Counted, Sharing!OpenWhileUsed
  <2> QED
    BY <2>1 DEF Sharing!OpenWhileUsed
<1>4. TypeOK'
  <2>1. Shape'
    BY NextShape
  <2>2. \A s \in Sessions : Cardinality(Holders(s)') \in Nat
    <3>1. ASSUME NEW s \in Sessions
          PROVE  Cardinality(Holders(s)') \in Nat
      <4>1. Holders(s)' \subseteq Objects
        BY DEF Holders
      <4> QED
        BY <4>1, FS_Subset, FS_CardinalityType, ConstantsAssumption
    <3> QED
      BY <3>1
  <2>3. refcount' \in [Sessions -> Nat]
    BY <1>2, <2>1, <2>2 DEF Counted, Shape
  <2> QED
    BY <2>1, <2>3 DEF Shape, TypeOK
<1>5. LiveOrBlank'
  BY NextLiveOrBlank
<1> QED
  BY <1>2, <1>3, <1>4, <1>5 DEF Inv

(* The counter is the number of contexts of the session, the session is    *)
(* open exactly while there are any, and only live objects have one; all   *)
(* of it whatever the client does, and also after a fault.                 *)
THEOREM InductiveInvariant == Spec => []Inv
<1>1. Init => Inv
  BY InitInv
<1>2. Inv /\ [Next]_vars => Inv'
  BY NextInv
<1> QED
  BY <1>1, <1>2, PTL DEF Spec

(* Every variable of Context::Impl keeps its type; the counter never falls *)
(* below zero.                                                             *)
THEOREM TypeCorrect == Spec => []TypeOK
<1>1. Inv => TypeOK
  BY DEF Inv
<1> QED
  BY <1>1, InductiveInvariant, PTL

(* The event thread works for an Impl that exists, on a session that is    *)
(* open: ~Impl of a Context with a running thread ends the program, and    *)
(* the session cannot be closed by another Context before.                 *)
THEOREM ThreadsHaveSessions == Spec => []ThreadHasSession
<1>1. Inv => ThreadHasSession
  <2> SUFFICES ASSUME Inv, NEW o \in Objects, thread[o]
               PROVE  Live(o) /\ session[o] \in opened
    BY DEF ThreadHasSession
  <2>1. Live(o) /\ session[o] \in Sessions
    BY DEF Inv, LiveOrBlank, Blank
  <2>2. o \in Holders(session[o])
    BY DEF Holders
  <2> QED
    BY <2>1, <2>2 DEF Inv, Sharing!OpenWhileUsed
<1> QED
  BY <1>1, InductiveInvariant, PTL

-----------------------------------------------------------------------------
(* The contexts implement the shared resource.                             *)

LEMMA NextIsShared ==
  ASSUME Inv, Inv', [Next]_vars
  PROVE  Sharing!Next
<1>1. [s \in Sessions |-> Holders(s)]' \in [Sessions -> SUBSET Objects]
  BY DEF Holders
<1>2. opened' \in SUBSET Sessions
  BY DEF Inv, TypeOK
<1>3. ASSUME NEW s \in Sessions
      PROVE  \/ Sharing!Open(s) \/ Sharing!Share(s)
             \/ Sharing!Close(s) \/ Sharing!Rest(s)
  <2>1. Moved(s)
    BY NextMoves
  <2>2. /\ s \in opened <=> Holders(s) # {}
        /\ s \in opened' <=> Holders(s)' # {}
    BY DEF Inv, Sharing!OpenWhileUsed
  <2> QED
    BY <2>1, <2>2, MovedIsShared
<1> QED
  BY <1>1, <1>2, <1>3 DEF Sharing!Next

(* libusb_init is called by the first Context of a session, the session is *)
(* shared, handed over and given up by copies, moves, assignments and      *)
(* destructors, and libusb_exit is called by the last one, neither before  *)
(* nor after.                                                              *)
THEOREM ContextsShareSessions == Spec => SessionsAreShared
<1>1. Init => Sharing!Init
  <2>1. Init => \A s \in Sessions : Holders(s) = {}
    BY NoSessionIsNull DEF Init, Holders
  <2> QED
    BY <2>1 DEF Init, Sharing!Init
<1>2. Inv /\ Inv' /\ [Next]_vars => Sharing!Next
  BY NextIsShared
<1> QED
  BY <1>1, <1>2, InductiveInvariant, PTL
  DEF Spec, SessionsAreShared, Sharing!Spec

=============================================================================
