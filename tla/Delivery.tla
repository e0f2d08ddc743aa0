------------------------------ MODULE Delivery ------------------------------
(***************************************************************************)
(* What libSieve promises its client about the execution of a script.  A   *)
(* script is run by one loop, without calls and results: the commands that *)
(* remain are a set, the first of them in the text is the next, and a stop *)
(* or a refusal leaves nothing to do.  An action is refused if it and one  *)
(* carried out before, in this execution or an earlier one, exclude each   *)
(* other; whoever comes first.                                             *)
(***************************************************************************)
EXTENDS Naturals, Sequences

VARIABLES
  script,      \* the script under execution
  registered,  \* the actions that the client has a callback for
  todo,        \* the commands to come: the first of each list that remains
  done,        \* the actions carried out
  delivered    \* the action callbacks made so far, oldest first

vars == <<script, registered, todo, done, delivered>>

\* sieve2_values_t: the callbacks that act on the message.
Disposing == {"fileinto", "redirect", "keep", "vacation"}
Action    == Disposing \cup {"reject", "discard", "notify"}
Flagging  == {"setflag", "addflag", "removeflag"}

\* Reject excludes every disposing action and a second reject, and they it.
Exclude(a, b) ==
  \/ a = "reject" /\ b \in Disposing \cup {"reject"}
  \/ b = "reject" /\ a \in Disposing \cup {"reject"}
Excluded(a) == \E b \in done : Exclude(a, b)

First == CHOOSE n \in todo : \A m \in todo : n <= m
At(t) == todo # {} /\ script[First].type = t

\* Go on with what follows the first command, and with more before that.
GoOn(more) == todo' = ((todo \ {First}) \cup more \cup {script[First].next}) \ {0}

Init ==
  /\ script = <<>> /\ registered = {}
  /\ todo = {} /\ done = {} /\ delivered = <<>>

\* The script and what is registered are the client's.
Start ==
  /\ todo = {}
  /\ todo' = {1} \cap DOMAIN script'
  /\ UNCHANGED <<done, delivered>>

CarryOut(a) ==
  /\ At(a) /\ ~Excluded(a)
  /\ done' = done \cup {a}
  /\ delivered' = IF a \in registered THEN Append(delivered, a) ELSE delivered
  /\ GoOn({})
  /\ UNCHANGED <<script, registered>>

\* A refused action and a stop end the execution.
End ==
  /\ At("stop") \/ \E a \in Action : At(a) /\ Excluded(a)
  /\ todo' = {}
  /\ UNCHANGED <<script, registered, done, delivered>>

\* A vacation may stay silent, and flags are nobody's business here.
PassOver ==
  /\ \E t \in Flagging \cup {"vacation"} : At(t)
  /\ GoOn({})
  /\ UNCHANGED <<script, registered, done, delivered>>

Branch ==
  /\ At("if")
  /\ \E b \in {script[First].then, script[First].else} : GoOn({b})
  /\ UNCHANGED <<script, registered, done, delivered>>

Next == Start \/ (\E a \in Action : CarryOut(a)) \/ End \/ PassOver \/ Branch

Spec == Init /\ [][Next]_vars
=============================================================================
