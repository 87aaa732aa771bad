---------------------------- MODULE ByteStrings ----------------------------
(***************************************************************************)
(* What buffer.h promises of ByteBuffers: each is a string of bytes of its *)
(* own.  Copying copies the string, moving leaves an empty one behind,     *)
(* append concatenates, resize keeps what fits.                            *)
(***************************************************************************)
EXTENDS Naturals, Sequences

CONSTANTS Names, Values

VARIABLES
  live,  (* the strings that exist              *)
  value  (* name -> string, empty for no string *)

TypeOK ==
  /\ live \in SUBSET Names
  /\ value \in [Names -> Seq(Values)]

Init ==
  /\ live = {}
  /\ value = [s \in Names |-> <<>>]

Become(s, v) == value' = [value EXCEPT ![s] = v]

Make(s) ==
  /\ s \notin live
  /\ live' = live \cup {s}
  /\ value'[s] \in Seq(Values)
  /\ Become(s, value'[s])

Drop(s) ==
  /\ s \in live
  /\ live' = live \ {s}
  /\ Become(s, <<>>)

Copy(s, t) ==
  /\ t \in live
  /\ live' = live \cup {s}
  /\ Become(s, value[t])

Move(s, t) ==
  /\ t \in live
  /\ s # t
  /\ live' = live \cup {s}
  /\ value' = [value EXCEPT ![s] = value[t], ![t] = <<>>]

Write(s) ==
  /\ s \in live
  /\ \E i \in DOMAIN value[s] : \E b \in Values : Become(s, [value[s] EXCEPT ![i] = b])
  /\ UNCHANGED live

Concat(s, t) ==
  /\ {s, t} \subseteq live
  /\ Become(s, value[s] \o value[t])
  /\ UNCHANGED live

(* The bytes that are new have any value.                                  *)
Fit(s) ==
  /\ s \in live
  /\ value'[s] \in Seq(Values)
  /\ \A i \in DOMAIN value'[s] \cap DOMAIN value[s] : value'[s][i] = value[s][i]
  /\ Become(s, value'[s])
  /\ UNCHANGED live

Next ==
  \E s \in Names :
    \/ Make(s)
    \/ Drop(s)
    \/ \E t \in Names : Copy(s, t) \/ Move(s, t) \/ Concat(s, t)
    \/ Write(s)
    \/ Fit(s)

Spec == Init /\ [][Next]_<<live, value>>
=============================================================================
