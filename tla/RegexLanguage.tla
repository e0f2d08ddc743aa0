----------------------------- MODULE RegexLanguage -----------------------------
(***************************************************************************)
(* What a regular expression means: which texts have a part that matches   *)
(* it.  An expression is                                                   *)
(*   [op |-> "set", raw, set]        a byte of a set, written as raw       *)
(*   [op |-> "anchor", raw, name]    an empty part at certain places       *)
(*   [op |-> "empty"]                an empty part                         *)
(*   [op |-> "cat" or "alt", l, r]   one behind the other; either          *)
(*   [op |-> "rep", l, raw, min, max]  repeated, written as raw; a max of  *)
(*                                   -1 is no limit                        *)
(* Written is the sequence of its bytes, as the parser gets it.            *)
(***************************************************************************)
EXTENDS Integers, Characters

RECURSIVE Written(_)
Written(e) ==
  CASE e.op \in {"set", "anchor"} -> e.raw
    [] e.op = "empty" -> <<"(", ")">>
    [] e.op = "cat"   -> Written(e.l) \o Written(e.r)
    [] e.op = "alt"   -> <<"(">> \o Written(e.l) \o <<"|">> \o Written(e.r) \o <<")">>
    [] e.op = "rep"   -> IF e.l.op \in {"set", "alt", "empty"} THEN Written(e.l) \o e.raw
                         ELSE <<"(">> \o Written(e.l) \o <<")">> \o e.raw

\* Places are numbered from 0, before the first byte.
WordBefore(text, i) == i > 0 /\ text[i] \in Word
WordBehind(text, i) == i < Len(text) /\ text[i + 1] \in Word
Holds(name, text, i) ==
  CASE name = "begin" -> i = 0
    [] name = "end"   -> i = Len(text)
    [] name = "word_first" -> ~WordBefore(text, i) /\ WordBehind(text, i)
    [] name = "word_last"  -> WordBefore(text, i) /\ ~WordBehind(text, i)
    [] name = "word_edge"  -> WordBefore(text, i) # WordBehind(text, i)
    [] name = "in_word"    -> WordBefore(text, i) /\ WordBehind(text, i)

Taken(e, c, icase) ==
  IF icase THEN {ToUpper[c], ToLower[c]} \cap e.set # {} ELSE c \in e.set

\* Where the parts of the text end that begin at i and match.
RECURSIVE EndsAt(_, _, _, _), EndsFrom(_, _, _, _), Repeated(_, _, _, _, _), Onward(_, _, _, _)
EndsAt(e, icase, text, i) ==
  CASE e.op = "set"    -> IF i < Len(text) /\ Taken(e, text[i + 1], icase) THEN {i + 1} ELSE {}
    [] e.op = "anchor" -> IF Holds(e.name, text, i) THEN {i} ELSE {}
    [] e.op = "empty"  -> {i}
    [] e.op = "alt"    -> EndsAt(e.l, icase, text, i) \cup EndsAt(e.r, icase, text, i)
    [] e.op = "cat"    -> EndsFrom(e.r, icase, text, EndsAt(e.l, icase, text, i))
    [] e.op = "rep"    -> LET least == Repeated(e.l, icase, text, {i}, e.min)
                          IN  IF e.max = -1 THEN Onward(e.l, icase, text, least)
                              ELSE UNION {Repeated(e.l, icase, text, least, n) : n \in 0..(e.max - e.min)}

\* Where the parts end that begin at one of the places, where n of them do that
\* follow one another, and where any number of them do.
EndsFrom(e, icase, text, places) == UNION {EndsAt(e, icase, text, i) : i \in places}
Repeated(e, icase, text, places, n) ==
  IF n = 0 THEN places ELSE Repeated(e, icase, text, EndsFrom(e, icase, text, places), n - 1)
Onward(e, icase, text, places) ==
  LET more == EndsFrom(e, icase, text, places) \ places
  IN  IF more = {} THEN places ELSE Onward(e, icase, text, places \cup more)

Matches(e, icase, text) == \E i \in 0..Len(text) : EndsAt(e, icase, text, i) # {}
===============================================================================
