------------------------------ MODULE ValueMap ------------------------------
(***************************************************************************)
(* What the library and a callback function share while a callback is      *)
(* open: a map from the kind and the name of a value to the value.  A      *)
(* value once given stays; each callback starts with an empty map; at most *)
(* Capacity values can be given.                                           *)
(***************************************************************************)
EXTENDS Naturals

CONSTANTS Kind, Name, Value, Capacity

VARIABLES open, map, given

vars == <<open, map, given>>
Empty == [k \in {} |-> 0]

Init == ~open /\ map = Empty /\ given = 0

Open  == ~open /\ open' = TRUE /\ map' = Empty /\ given' = 0
Close == open /\ open' = FALSE /\ map' = Empty /\ given' = 0

Give(k, v) ==
  /\ open /\ given < Capacity
  /\ given' = given + 1
  /\ map' = [x \in DOMAIN map \cup {k} |-> IF x \in DOMAIN map THEN map[x] ELSE v]
  /\ UNCHANGED open

Next == Open \/ Close \/ \E k \in Kind \X Name, v \in Value : Give(k, v)

Spec == Init /\ [][Next]_vars
=============================================================================
