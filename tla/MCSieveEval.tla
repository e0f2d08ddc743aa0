---------------------------- MODULE MCSieveEval ----------------------------
(***************************************************************************)
(* SieveEval on every script of up to Deep commands whose types are in     *)
(* DeepTypes and of up to Wide commands of any type, numbered in the order *)
(* in which the script lists them, which is how the parser nests them.     *)
(* Only contexts with scripts of up to Wide commands execute another one.  *)
(***************************************************************************)
EXTENDS SieveEval

CONSTANTS Deep, DeepTypes, Wide

Plain(t, n) == [type |-> t, then |-> 0, else |-> 0, next |-> n]
Cond(t, e, n) == [type |-> "if", then |-> t, else |-> e, next |-> n]
Link(from, to) == IF from < to THEN from ELSE 0

\* The lists of commands that use exactly the numbers from..to-1.
RECURSIVE Lists(_, _, _)
Lists(Types, from, to) ==
  IF from = to THEN {<<>>}
  ELSE {<<Plain(t, Link(from + 1, to))>> \o rest :
          t \in Types, rest \in Lists(Types, from + 1, to)}
       \cup
       UNION {{<<Cond(Link(from + 1, b[1]), Link(b[1], b[2]), Link(b[2], to))>>
                \o then \o else \o rest :
                  then \in Lists(Types, from + 1, b[1]), else \in Lists(Types, b[1], b[2]),
                  rest \in Lists(Types, b[2], to)} :
              b \in {p \in ((from + 1)..to) \X ((from + 1)..to) : p[1] <= p[2]}}

AllScripts ==
  UNION {Lists(DeepTypes, 1, 1 + k) : k \in 0..Deep} \cup
  UNION {Lists(Action \cup Flagging \cup {"stop"}, 1, 1 + k) : k \in 0..Wide}

\* Every action has a callback, only the two a client must have, none.
SomeRegistrations == {Action, {"redirect", "keep"}, Action \ {"reject"}}

MCNext ==
  /\ Idle /\ runs > 0 => Len(script) <= Wide
  /\ Next
  /\ runs' > 1 => Len(script') <= Wide
MCSpec == Init /\ [][MCNext]_vars /\ WF_vars(Evaluate)
=============================================================================
