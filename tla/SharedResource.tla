--------------------------- MODULE SharedResource ---------------------------
(***************************************************************************)
(* What the copies of a Device promise about the libusb handle, and the    *)
(* copies of a Context about the libusb session: each resource is opened   *)
(* by its first user, passed on and shared at will, and closed when the    *)
(* last user gives it up, neither before nor after.                        *)
(*                                                                         *)
(* One operation may concern two resources, as an assignment does that     *)
(* gives one up for another.                                               *)
(***************************************************************************)
CONSTANTS Resources, Users

VARIABLES
  users,  (* resource -> its users        *)
  open    (* the resources that are open  *)

TypeOK ==
  /\ users \in [Resources -> SUBSET Users]
  /\ open \in SUBSET Resources

Init ==
  /\ users = [r \in Resources |-> {}]
  /\ open = {}

(* The first user opens.                                                   *)
Open(r) ==
  /\ r \notin open /\ r \in open'
  /\ \E u \in Users : users'[r] = {u}

(* A user shares with another, hands its share to another, or gives it up  *)
(* with others left.                                                       *)
Join(r)  == \E v \in Users : users'[r] = users[r] \cup {v}
Hand(r)  == \E u \in users[r], v \in Users :
              users'[r] = (users[r] \ {u}) \cup {v}
Leave(r) == \E u \in users[r] : users'[r] = users[r] \ {u} /\ users'[r] # {}

Share(r) ==
  /\ r \in open /\ r \in open'
  /\ Join(r) \/ Hand(r) \/ Leave(r)

(* The last user closes.                                                   *)
Close(r) ==
  /\ r \in open /\ r \notin open'
  /\ \E u \in Users : users[r] = {u}
  /\ users'[r] = {}

Rest(r) == users'[r] = users[r] /\ (r \in open' <=> r \in open)

Next ==
  /\ users' \in [Resources -> SUBSET Users]
  /\ open' \in SUBSET Resources
  /\ \A r \in Resources : Open(r) \/ Share(r) \/ Close(r) \/ Rest(r)

Spec == Init /\ [][Next]_<<users, open>>

(* Every open resource has a user, and every user's resource is open.      *)
OpenWhileUsed == \A r \in Resources : r \in open <=> users[r] # {}
=============================================================================
