----------------------------- MODULE MCSieveTest -----------------------------
(* Instance for TLC: every small tree, and every comparison of short strings. *)
EXTENDS SieveTest

\* a, A, b, _, 0, 1, and the wildcards.
Letters == {97, 65, 98}
Signs   == {95}
Digits  == {48, 49}

Strings(chars, n) == UNION {[1..k -> chars] : k \in 0..n}

Empty == [headers |-> <<>>, addresses |-> <<>>, flags |-> {}, size |-> 1]
Named(name, x) == [y \in {name} |-> x]
-----------------------------------------------------------------------------
\* Trees of up to TreeSize nodes, numbered row by row: above is the operator
\* that a node is an operand of.
TreeSize == 6
Trees ==
  LET shapes(size) == {f \in [2..size -> 1..size] :
        \A n \in 2..size : f[n] < n /\ (n > 2 => f[n - 1] <= f[n])}
      kids(f, n) == SelectSeq([i \in 1..(Cardinality(DOMAIN f) + 1) |-> i],
                              LAMBDA k : k > 1 /\ f[k] = n)
      inner(f) == {f[n] : n \in DOMAIN f}
      leaves(f) == (DOMAIN f \cup {1}) \ inner(f)
      typings(f) ==
        {op @@ constant :
           op \in {g \in [inner(f) -> Composite] :
                     \A n \in inner(f) : g[n] = "not" => Len(kids(f, n)) = 1},
           constant \in [leaves(f) -> {"true", "false"}]}
  IN  UNION {UNION {{[n \in 1..k |-> [type |-> type[n], kids |-> kids(f, n)]] :
               type \in typings(f)} : f \in shapes(k)} : k \in 1..TreeSize}

\* A leaf of every kind, under a not and beside the others.
Kinds ==
  LET mail == [headers |-> Named("h", <<<<97>>>>), addresses |-> Named("h", <<<<<<97>>>>>>),
               flags |-> {"seen"}, size |-> 1]
      leaves == {[type |-> "null"]}
        \cup [type : {"exists"}, names : {{"h"}, {"g"}, {"g", "h"}}]
        \cup [type : {"hasflag"}, names : {{"seen"}, {"gone"}, {"gone", "seen"}}]
        \cup [type : {"size"}, over : BOOLEAN, limit : 0..2]
  IN  {[tests    |-> {<<[type |-> "anyof", kids |-> <<2, 3>>], [type |-> "not", kids |-> <<4>>],
                        l, k>> : k \in leaves, l \in leaves},
        messages |-> {mail}]}
-----------------------------------------------------------------------------
Tests(type, comparators, matches, rels, names, patterns) ==
  {<<[type |-> type, comparator |-> c, match |-> match, rel |-> rel, names |-> n, patterns |-> p]>> :
     c \in comparators, match \in matches, rel \in rels, n \in names, p \in patterns}

\* One header with one text, one pattern.
Single(comparators, matches, rels, patterns, texts) ==
  [tests    |-> Tests("header", comparators, matches, rels, {{"h"}}, {<<p>> : p \in patterns}),
   messages |-> {[Empty EXCEPT !.headers = Named("h", <<t>>)] : t \in texts}]

Compared ==
  LET plain  == Strings(Letters \cup Signs, 2)
      number == Strings(Digits, 2) \cup {<<97>>}
  IN  {Single({"octet", "casemap"}, {"is"}, {"none"}, plain, plain),
       Single({"octet", "casemap"}, {"contains"}, {"none"},
              Strings(Letters, 2), Strings(Letters, 3)),
       Single({"octet", "casemap"}, {"matches"}, {"none"},
              Strings({97, 98, Star, Question}, 3) \cup {<<Escape, Star, 97>>},
              Strings(Letters, 3)),
       Single({"casemap"}, {"value"}, Relation \cup {"none"}, plain, plain),
       Single({"numeric"}, {"value", "is", "contains"}, Relation \cup {"none"}, number, number)}

\* Headers with several texts and patterns, and counts of them.
Several ==
  {[tests    |-> Tests("header", {"casemap", "numeric"}, {"value", "count"}, {"ge", "eq"},
                       (SUBSET {"g", "h"}) \ {{}}, {<<<<49>>>>, <<<<50>>>>, <<<<48>>, <<50>>>>}),
    messages |-> {[Empty EXCEPT !.headers = [n \in {"g", "h"} |-> IF n = "g" THEN g ELSE h]] :
                    g \in {<<>>, <<<<49>>>>}, h \in {<<<<48>>>>, <<<<49>>, <<97>>>>}}]}

\* A header with lists of addresses, some of them without the part.
Listed ==
  LET a == <<97>>
      lists == Strings({a, <<98>>, NONE}, 2)
  IN  {[tests    |-> Tests("address", {"casemap"}, {"is", "count"}, {"eq"}, {{"h"}},
                           {<<a>>, <<<<49>>>>, <<<<50>>, <<50>>>>}),
        messages |-> {[Empty EXCEPT !.addresses = Named("h", bodies)] :
                        bodies \in UNION {[1..k -> lists] : k \in 0..2}}]}

MCSuites ==
  {[tests |-> Trees, messages |-> {Empty}]} \cup Kinds \cup Compared \cup Several \cup Listed
=============================================================================
