----------------------------- MODULE RegexCompile -----------------------------
(***************************************************************************)
(* From the tree of a pattern to the automaton (re_compile_internal of     *)
(* regcomp.c): where each node leads, the closure of each node over those  *)
(* that take nothing, with copies of the nodes behind an anchor that carry *)
(* its constraint, the initial states, and the map of the bytes a match    *)
(* can begin with.                                                         *)
(*                                                                         *)
(* The automaton under construction is a record of                         *)
(*   nodes, nexts, edests, org   the arrays of re_dfa_t of these names,    *)
(*                 org being org_indices                                   *)
(*   eclosures     <<>> for one that is not known, BUSY for one that is    *)
(*                 being computed                                          *)
(***************************************************************************)
EXTENDS RegexParse

BUSY == <<0>>

\* calc_first
RECURSIVE First(_, _)
First(nodes, t) ==
  IF t.op = "cat" \/ nodes[t.idx].type = "plus" THEN First(nodes, t.left) ELSE t.idx

Dups == {"star", "plus", "question"}

\* calc_epsdest: where a node leads without a byte.
Edests(nodes, t, next) ==
  LET to(child) == IF child = NIL THEN next ELSE First(nodes, child)
      type == nodes[t.idx].type
  IN  CASE type \in Dups  -> SetOfTwo(First(nodes, t.left), next)
        [] type = "alt"   -> SetOfTwo(to(t.left), to(t.right))
        [] type \in {"anchor", "open", "close"} -> <<next>>
        [] OTHER          -> <<>>

\* analyze_tree with calc_next: for each node of the tree what follows it.  The
\* last node of a repeated expression leads back to the repetition.
RECURSIVE Analyze(_, _, _)
Analyze(nodes, t, next) ==
  LET left == IF t.op = "cat" THEN First(nodes, t.right)
              ELSE IF nodes[t.idx].type \in {"star", "plus"} THEN t.idx
              ELSE next
  IN  IF t = NIL THEN <<>>
      ELSE (IF t.op = "cat" THEN <<>> ELSE t.idx :> [next |-> next, edests |-> Edests(nodes, t, next)])
             @@ Analyze(nodes, t.left, left) @@ Analyze(nodes, t.right, next)

\* A repetition of nothing, whose missing child the analysis would look at.
RECURSIVE Empty(_, _)
Empty(nodes, t) ==
  /\ t # NIL
  /\ \/ t.op # "cat" /\ nodes[t.idx].type \in Dups /\ t.left = NIL
     \/ Empty(nodes, t.left) \/ Empty(nodes, t.right)
-------------------------------------------------------------------------------
Lead(d, n, to)    == [d EXCEPT !.edests = [@ EXCEPT ![n] = to]]
Close(d, n, set)  == [d EXCEPT !.eclosures = [@ EXCEPT ![n] = set]]

\* duplicate_node: the copy has the constraint, and an anchor its own as well.
DuplicateNode(d, org, constraint) ==
  LET node == d.nodes[org]
  IN  [nodes |-> Append(d.nodes, [node EXCEPT !.duplicated = TRUE,
                                     !.constraint = constraint \cup node.anchor]),
       nexts |-> Append(d.nexts, 0), edests |-> Append(d.edests, <<>>),
       eclosures |-> Append(d.eclosures, <<>>), org |-> Append(d.org, org)]

\* Mutant of DuplicatesOf: the constraint is not compared.
DuplicatesOfAny(d, org, constraint) ==
  {k \in 2..Len(d.nodes) : /\ \A j \in k..Len(d.nodes) : d.nodes[j].duplicated
                           /\ d.org[k] = org}

\* search_duplicated_node, among the copies at the end of the nodes.
DuplicatesOf(d, org, constraint) ==
  {k \in 2..Len(d.nodes) : /\ \A j \in k..Len(d.nodes) : d.nodes[j].duplicated
                           /\ d.org[k] = org /\ d.nodes[k].constraint = constraint}

\* duplicate_node_closure: copies of all that is reached from org without a
\* byte, for the node clone; an anchor on the way adds its constraint.  Where
\* the way comes back to the anchor it began at, it ends.
RECURSIVE DuplicateClosure(_, _, _, _, _)
DuplicateClosure(d, org, clone, root, constraint) ==
  LET es    == d.edests[org]
      both  == constraint \cup d.nodes[org].anchor
      one   == DuplicateNode(d, es[1], both)
      new   == Len(d.nodes) + 1
      known == DuplicatesOf(d, es[1], constraint)
      left  == IF known # {}
               THEN Lead(d, clone, <<CHOOSE k \in known : \A j \in known : j <= k>>)
               ELSE DuplicateClosure(Lead(DuplicateNode(d, es[1], constraint), clone, <<new>>),
                                     es[1], new, root, constraint)
      right == DuplicateNode(left, left.edests[org][2], constraint)
      last  == Len(right.nodes)
  IN  CASE Len(es) = 0 -> [d EXCEPT !.nexts = [@ EXCEPT ![clone] = d.nexts[org]]]
        [] Len(es) = 1 /\ d.nodes[org].type = "anchor" /\ org = root /\ clone # org ->
             Lead(d, clone, es)
        [] Len(es) = 1 /\ ~(d.nodes[org].type = "anchor" /\ org = root /\ clone # org) ->
             DuplicateClosure(Lead(one, clone, <<new>>), es[1], new, root, both)
        [] Len(es) = 2 ->
             DuplicateClosure(Lead(right, clone, SetInsert(right.edests[clone], last)),
                              left.edests[org][2], last, root, constraint)

Epsilon == {"alt", "star", "plus", "question", "anchor", "open", "close"}

RECURSIVE EclosureIter(_, _, _), EclosureEdges(_, _, _)

\* Mutant of EclosureIter: an incomplete closure is kept.
EclosureIterKept(d, n, root) ==
  LET busy == Close(d, n, BUSY)
      node == d.nodes[n]
      copy == node.type = "anchor" /\ ~d.nodes[d.edests[n][1]].duplicated
      e    == IF copy THEN DuplicateClosure(busy, n, n, n, node.anchor) ELSE busy
      r    == IF node.type \in Epsilon THEN EclosureEdges(e, n, 1)
              ELSE [d |-> e, set |-> <<>>, incomplete |-> FALSE]
      set  == SetInsert(r.set, n)
  IN  [d |-> Close(r.d, n, set), set |-> set]

\* calc_eclosure_iter: the automaton and the closure of a node.  A closure that
\* meets one being computed is incomplete, and kept only for the root.
EclosureIter(d, n, root) ==
  LET busy == Close(d, n, BUSY)
      node == d.nodes[n]
      copy == node.type = "anchor" /\ ~d.nodes[d.edests[n][1]].duplicated
      e    == IF copy THEN DuplicateClosure(busy, n, n, n, node.anchor) ELSE busy
      r    == IF node.type \in Epsilon THEN EclosureEdges(e, n, 1)
              ELSE [d |-> e, set |-> <<>>, incomplete |-> FALSE]
      set  == SetInsert(r.set, n)
  IN  [d |-> Close(r.d, n, IF r.incomplete /\ ~root THEN <<>> ELSE set),
       set |-> set]

\* The loop over the edges of a node, from the i-th on.
EclosureEdges(d, n, i) ==
  LET to   == d.edests[n][i]
      r    == IF d.eclosures[to] = <<>> THEN EclosureIter(d, to, FALSE)
              ELSE [d |-> d, set |-> d.eclosures[to]]
      rest == EclosureEdges(IF d.eclosures[to] = BUSY THEN d ELSE r.d, n, i + 1)
  IN  IF i > Len(d.edests[n]) THEN [d |-> d, set |-> <<>>, incomplete |-> FALSE]
      ELSE IF d.eclosures[to] = BUSY THEN [rest EXCEPT !.incomplete = TRUE]
      ELSE [rest EXCEPT !.set = SetMerge(r.set, @), !.incomplete = @ \/ r.d.eclosures[to] = <<>>]

\* calc_eclosure, from the k-th node on and again while one is incomplete.
RECURSIVE CalcEclosure(_, _, _)
CalcEclosure(d, k, incomplete) ==
  LET r == EclosureIter(d, k, TRUE)
  IN  IF k > Len(d.nodes) THEN IF incomplete THEN CalcEclosure(d, 1, FALSE) ELSE d
      ELSE IF d.eclosures[k] # <<>> THEN CalcEclosure(d, k + 1, incomplete)
      ELSE CalcEclosure(r.d, k + 1, incomplete \/ r.d.eclosures[k] = <<>>)
-------------------------------------------------------------------------------
\* analyze: a node that is in no tree, its expression having been repeated no
\* times, leads nowhere.
Automaton(p) ==
  LET found == Analyze(p.nodes, p.tree, 0)
      at(k) == IF k \in DOMAIN found THEN found[k] ELSE [next |-> 0, edests |-> <<>>]
      add(d, node) ==
        LET lead == at(Len(d.nodes) + 1)
        IN  [nodes |-> Append(d.nodes, node), nexts |-> Append(d.nexts, lead.next),
             edests |-> Append(d.edests, lead.edests), eclosures |-> Append(d.eclosures, <<>>),
             org |-> Append(d.org, 0)]
      none  == [nodes |-> <<>>, nexts |-> <<>>, edests |-> <<>>, eclosures |-> <<>>, org |-> <<>>]
  IN  CalcEclosure(FoldLeft(add, none, p.nodes), 1, FALSE)

\* Where the analysis follows a null pointer: a repetition of nothing, and an
\* anchor in an expression that is repeated no times.
RECURSIVE InTree(_)
InTree(t) == IF t = NIL THEN {} ELSE {t.idx} \cup InTree(t.left) \cup InTree(t.right)
Crashes(p) == \/ Empty(p.nodes, p.tree)
              \/ \E k \in DOMAIN p.nodes \ InTree(p.tree) : p.nodes[k].type = "anchor"

\* create_initial_state: the states for an ordinary place, the place behind a
\* word, behind a newline, and at the beginning, or one for all of them.
InitialStates(d, set) ==
  LET at(table, context) == Acquire(d.nodes, table, set, context)
      plain == at({}, 0)
      word  == at({plain}, CONTEXT_WORD)
      nl    == at({plain, word}, CONTEXT_NEWLINE)
      buf   == at({plain, word, nl}, CONTEXT_NEWLINE + CONTEXT_BEGBUF)
  IN  IF plain.constrained THEN <<plain, word, nl, buf>> ELSE <<plain, plain, plain, plain>>

\* re_compile_fastmap_iter: the bytes that the nodes of an initial state take,
\* all if one of them ends the expression or takes any byte.
FastmapOf(re, nodes, state) ==
  LET any  == {i \in DOMAIN state.nodes : nodes[state.nodes[i]].type \in {"end", "period"}}
      took == UNION {nodes[state.nodes[i]].set : i \in DOMAIN state.nodes}
  IN  IF any # {} THEN Char ELSE took \cup (IF re.icase THEN {ToLower[c] : c \in took} ELSE {})

\* It stops at the first such node, and notes that it is the end.
NullOf(nodes, state) ==
  \E i \in DOMAIN state.nodes :
    /\ nodes[state.nodes[i]].type = "end"
    /\ \A j \in 1..(i - 1) : nodes[state.nodes[j]].type # "period"

\* libsieve_re_compile_fastmap
Fastmap(re, nodes, inits) == UNION {FastmapOf(re, nodes, inits[k]) : k \in 1..4}

\* libsieve_regcomp, re_compile_internal.
Compile(re) ==
  LET p     == Parse(re)
      d     == Automaton(p)
      inits == InitialStates(d, d.eclosures[First(p.nodes, p.tree)])
  IN  IF Failed(p) THEN [err |-> p.err]
      ELSE IF Crashes(p) THEN [err |-> "crash"]
      ELSE [err |-> "REG_NOERROR", icase |-> re.icase,
            nodes |-> d.nodes, nexts |-> d.nexts, edests |-> d.edests,
            eclosures |-> d.eclosures, inits |-> inits,
            fastmap |-> Fastmap(re, d.nodes, inits),
            can_be_null |-> \E k \in 1..4 : NullOf(d.nodes, inits[k])]
===============================================================================
