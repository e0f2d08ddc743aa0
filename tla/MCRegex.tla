-------------------------------- MODULE MCRegex --------------------------------
(***************************************************************************)
(* RegexExec with the programs RegexCompile makes of small expressions, and *)
(* what it answers compared with RegexLanguage.                            *)
(***************************************************************************)
EXTENDS RegexExec, RegexCompile, RegexLanguage

Chars == {NUL, "\n", " ", "a", "b", "A", "B"}

Letter(c)     == [op |-> "set", raw |-> <<c>>, set |-> {c}]
Dot           == [op |-> "set", raw |-> <<".">>, set |-> Chars \ {NUL}]
NotA          == [op |-> "set", raw |-> <<"[", "^", "a", "]">>, set |-> Chars \ {"a"}]
Mark(raw, name) == [op |-> "anchor", raw |-> raw, name |-> name]
LineFirst     == Mark(<<"^">>, "begin")
LineLast      == Mark(<<"$">>, "end")
WordFirst     == Mark(<<"\\", "<">>, "word_first")
WordEdge      == Mark(<<"\\", "b">>, "word_edge")
Nothing       == [op |-> "empty"]
Then(l, r)    == [op |-> "cat", l |-> l, r |-> r]
Either(l, r)  == [op |-> "alt", l |-> l, r |-> r]
Times(l, raw, min, max) == [op |-> "rep", l |-> l, raw |-> raw, min |-> min, max |-> max]
Star(l)       == Times(l, <<"*">>, 0, -1)
Plus(l)       == Times(l, <<"+">>, 1, -1)
Maybe(l)      == Times(l, <<"?">>, 0, 1)
Twice(l)      == Times(l, <<"{", "1", ",", "2", "}">>, 1, 2)

A == Letter("a")
B == Letter("b")
Units  == {A, Dot, Star(A), Twice(A), LineFirst, LineLast, WordFirst}
Pairs  == {Then(x, y) : x \in Units, y \in Units} \cup {Either(x, y) : x \in Units, y \in Units}
Loops  == {Then(Star(p), B) : p \in Pairs}
Others == {Twice(A), Then(Twice(Then(A, B)), Dot), Star(Twice(Either(A, B))), Star(Star(A)),
           Then(Either(NotA, Then(A, NotA)), B), Then(WordEdge, Either(Plus(NotA), B)),
           Star(Maybe(Then(LineFirst, Either(A, Nothing))))}
Folded == {Then(A, Then(Star(Dot), B)), Star(Then(A, B)), Then(WordFirst, Then(Twice(B), LineLast)),
           Then(Plus(A), WordEdge)}

\* A repetition of nothing and an open parenthesis, which are refused.
Refused == {Mark(<<"*">>, "none"), Mark(<<"(">>, "none")}

patterns == [expr : Units \cup Pairs \cup Loops \cup Others \cup Refused, icase : {FALSE}]
              \cup [expr : Folded, icase : {TRUE}]
programs ==
  LET compiled(p) == Compile([raw |-> Written(p.expr), icase |-> p.icase])
  IN  [p \in patterns |-> compiled(p)]
texts    == UNION {[1..k -> {"a", "b", " "}] : k \in 0..2}
              \cup {<<"A", "b", "B", " ", "a", "b">>, <<"b", "a", "a", " ", "b">>,
                   <<" ", "a", " ", "A", " ", "A", "A", "B">>}

-------------------------------------------------------------------------------
\* A search answers whether a part of the text matches the expression:
\* libsieve_regcomp and libsieve_regexec, whatever was searched before.
Answers ==
  pc = "ready" /\ answer # "none" =>
    (answer = "match") = Matches(re.expr, re.icase, input.raw)

\* The closure of a node has the nodes that are reached from it without a byte,
\* and no others, loops or not: calc_eclosure, which goes over the nodes until
\* no closure is incomplete.
Closures ==
  LET reached[ns \in SUBSET DOMAIN prog.nodes] ==
        LET more == UNION {Range(prog.edests[n]) : n \in ns} \ ns
        IN  IF more = {} THEN ns ELSE reached[ns \cup more]
  IN  \A n \in DOMAIN prog.nodes : Range(prog.eclosures[n]) = reached[{n}]
=============================================================================
