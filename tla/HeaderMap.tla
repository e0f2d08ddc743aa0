------------------------------ MODULE HeaderMap ------------------------------
(***************************************************************************)
(* What sieve2_execute needs of the header cache: from the name of a       *)
(* header to the bodies of the headers of that name, of one message after  *)
(* the other, the latest header of a message first.                        *)
(***************************************************************************)
EXTENDS Headers, SequencesExt

CONSTANTS Name, Messages

VARIABLES map, answer, received

vars == <<map, answer, received>>

Init == map = [n \in Name |-> <<>>] /\ answer = <<>> /\ received = <<>>

Receive(msg) ==
  LET before == map
  IN  /\ map' = [n \in Name |-> before[n] \o Bodies(Reverse(msg), n)]
      /\ received' = Append(received, msg)
      /\ UNCHANGED answer

Lookup(n) == answer' = map[n] /\ UNCHANGED <<map, received>>

Next == (\E n \in Name : Lookup(n)) \/ (\E msg \in Messages : Receive(msg))

Spec == Init /\ [][Next]_vars
=============================================================================
