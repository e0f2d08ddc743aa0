--------------------------- MODULE MCHeaderCache ---------------------------
(***************************************************************************)
(* HeaderCache on a table of three places and four names, one of which no  *)
(* message has.  Two names collide at the last place, so that the probe    *)
(* goes around the end and into the place of a third.                      *)
(***************************************************************************)
EXTENDS HeaderCache

CONSTANTS MaxHeaders, Texts

Collisions == [subject |-> 2, to |-> 2, cc |-> 0, date |-> 2]
Names == DOMAIN Collisions

AllMessages ==
  UNION {[1..k -> [name : Names \ {"date"}, body : Texts]] : k \in 1..MaxHeaders}
=============================================================================
