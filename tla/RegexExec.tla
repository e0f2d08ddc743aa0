------------------------------- MODULE RegexExec -------------------------------
(***************************************************************************)
(* A regex_t of a script from the compilation to the end: libsieve_regcomp *)
(* as static_verify_regex calls it, libsieve_regexec as octet_regex calls  *)
(* it for one text after the other, and libsieve_regfree.  A search tries  *)
(* the places of the text in turn, and at each follows the states of the   *)
(* automaton, which it makes when they are needed and which stay for the   *)
(* searches to come.                                                       *)
(***************************************************************************)
EXTENDS RegexString

CONSTANTS
  Pattern,   \* the patterns
  Program,   \* what a pattern is compiled to, see RegexCompile
  Text       \* the texts, sequences of bytes other than NUL

\* The nodes that take a byte.
Taking == {"char", "set", "period"}

\* A byte of the text as the matcher sees it.
Shown(prog, c) == IF prog.icase THEN ToUpper[c] ELSE c

\* What comes before the places that the initial states are for.
InitContexts == <<0, CONTEXT_WORD, CONTEXT_NEWLINE, CONTEXT_NEWLINE + CONTEXT_BEGBUF>>

\* The initial states: of one set of nodes, each for its context if that makes
\* a difference.
Begins(prog) ==
  LET set == prog.inits[1].entrance
  IN  /\ set \in Seq(DOMAIN prog.nodes)
      /\ DOMAIN prog.inits = 1..4
      /\ \A k \in 1..4 :
           prog.inits[k] = IF set = <<>> THEN NoState
                           ELSE NewState(prog.nodes, set, IF prog.inits[1].constrained THEN InitContexts[k] ELSE 0)

\* The map: the bytes that a node of an initial state takes, and all if one is
\* the end.
Mapped(prog) ==
  \A k \in 1..4 : \A n \in Range(prog.inits[k].nodes) :
    /\ prog.nodes[n].type = "end" => Char \subseteq prog.fastmap
    /\ prog.nodes[n].type \in Taking =>
         \A c \in Char : Shown(prog, c) \in prog.nodes[n].set => c \in prog.fastmap

\* A compiled program: its nodes know the bytes they take, where they lead from
\* there is known by number, and it begins in states made of them, see RegexCompile.
Compiled(prog) ==
  /\ prog.icase \in BOOLEAN
  /\ Len(prog.nodes) \in Nat /\ DOMAIN prog.nodes = 1..Len(prog.nodes)
  /\ \A n \in DOMAIN prog.nodes : prog.nodes[n].type \in Taking => prog.nodes[n].set \subseteq Char
  /\ \A n \in DOMAIN prog.nodes :
       prog.nexts[n] # 0 => prog.eclosures[prog.nexts[n]] \in Seq(DOMAIN prog.nodes)
  /\ Begins(prog)
  /\ Mapped(prog)
ASSUME ProgramAssumption ==
  \A p \in Pattern : Program[p].err = "REG_NOERROR" => Compiled(Program[p])
ASSUME TextAssumption == Text \subseteq Seq(Char \ {NUL})

VARIABLES
  pc,           \* "free": not compiled; "ready": compiled; "search": at the
                \* loop over the places; "match": in check_matching
  re,           \* the pattern that is compiled
  prog,         \* what it was compiled to, preg->buffer
  err,          \* what the last compilation returned
  table,        \* dfa->state_table, the states made so far
  trtable,      \* the transition tables of those that have one
  input,        \* the text
  match_first,  \* the place that is tried
  cur_state,    \* the state of the automaton there
  answer        \* what the last search returned, "none" if there was none

vars == <<pc, re, prog, err, table, trtable, input, match_first, cur_state, answer>>

NoPattern == CHOOSE p \in Pattern : TRUE   \* of no consequence while pc is "free"
NoInput == Allocate(<<>>, 1, FALSE)

Init ==
  /\ pc = "free"
  /\ re = NoPattern
  /\ prog = Program[NoPattern]
  /\ err = "REG_NOERROR"
  /\ table = {}
  /\ trtable = <<>>
  /\ input = NoInput
  /\ match_first = 0
  /\ cur_state = NoState
  /\ answer = "none"
-------------------------------------------------------------------------------
\* Which bytes lead from a node of a state on.  A byte that the constraint of
\* a copied node rules out is no such byte.
Accepts(p, n) ==
  LET node == p.nodes[n]
      word == IF "next_word" \in node.constraint THEN node.set \cap Word ELSE node.set
      both == IF "next_notword" \in node.constraint THEN word \ Word ELSE word
  IN  IF "next_newline" \in node.constraint THEN both \cap {"\n"} ELSE both

\* The nodes that take a byte; one that has to stand before a newline and takes
\* none is passed over.
Takers(p, state) ==
  Kept(state.nodes, {n \in Range(state.nodes) :
    /\ p.nodes[n].type \in Taking
    /\ "next_newline" \in p.nodes[n].constraint => Accepts(p, n) # {}})

\* Mutant of Divide: a group of which the node takes a part is not split.
DivideWhole(acc, n, j) ==
  LET d == acc.groups[j]
  IN  IF d.chars \cap acc.left = {} THEN acc
      ELSE [groups |-> [acc.groups EXCEPT ![j].nodes = SetInsert(@, n)], left |-> acc.left \ d.chars]

\* What node n, with the bytes that are left of it, does to the j-th group: if
\* the group has other bytes as well they go to a group of their own.
Divide(acc, n, j) ==
  LET d    == acc.groups[j]
      rest == d.chars \ acc.left
      with == [chars |-> d.chars \cap acc.left, nodes |-> SetInsert(d.nodes, n)]
  IN  IF with.chars = {} THEN acc
      ELSE [groups |-> [acc.groups EXCEPT ![j] = with]
                         \o (IF rest = {} THEN <<>> ELSE <<[d EXCEPT !.chars = rest]>>),
            left |-> acc.left \ d.chars]

\* group_nodes_into_DFAstates: groups of bytes, each with the nodes that take
\* them.  A node that takes no byte at all gets a group too.
Divided(groups, n, all) ==
  LET D[j \in 0..Len(groups)] ==
        IF j = 0 THEN [groups |-> groups, left |-> all] ELSE Divide(D[j - 1], n, j)
  IN  D[Len(groups)]
Joined(p, groups, n) ==
  LET acc == Divided(groups, n, Accepts(p, n))
  IN  IF Accepts(p, n) # {} /\ acc.left = {} THEN acc.groups
      ELSE Append(acc.groups, [chars |-> acc.left, nodes |-> <<n>>])
Groups(p, state) ==
  LET takers == Takers(p, state)
      G[i \in 0..Len(takers)] == IF i = 0 THEN <<>> ELSE Joined(p, G[i - 1], takers[i])
  IN  G[Len(takers)]

\* Where the nodes of a group lead.
Follows(p, group) ==
  LET F[i \in 0..Len(group.nodes)] ==
        IF i = 0 THEN <<>>
        ELSE IF p.nexts[group.nodes[i]] = 0 THEN F[i - 1]
        ELSE SetMerge(F[i - 1], p.eclosures[p.nexts[group.nodes[i]]])
  IN  F[Len(group.nodes)]

\* The context behind a byte, newlines being lines' ends whatever the flags.
Behind(c) == IF c \in Word THEN CONTEXT_WORD ELSE IF c = "\n" THEN CONTEXT_NEWLINE ELSE 0

\* Mutant of Destinations: the state for an ordinary place is that for all.
DestinationsPlain(p, group) ==
  [context \in {0, CONTEXT_WORD, CONTEXT_NEWLINE} |-> Acquire(p.nodes, table, Follows(p, group), 0)]

\* build_trtable: the states a group of nodes leads to, one for each context if
\* it is in need of one.
Destinations(p, group) ==
  LET state(context) == Acquire(p.nodes, table, Follows(p, group), context)
      needed         == state(0).constrained
  IN  [context \in {0, CONTEXT_WORD, CONTEXT_NEWLINE} |-> IF needed THEN state(context) ELSE state(0)]

\* And for each byte the state of its group, no two having a byte in common,
\* that is for the context behind it.
BuildTrtable(groups, dests) ==
  [c \in Char |->
     LET takes == {j \in DOMAIN groups : c \in groups[j].chars}
     IN  IF takes = {} THEN NoState ELSE dests[CHOOSE j \in takes : TRUE][Behind(c)]]
-------------------------------------------------------------------------------
\* acquire_init_state_context
InitialState(p, in) ==
  LET context == ContextAt(in, in.cur_idx - 1)
  IN  p.inits[IF Is(context, CONTEXT_WORD) THEN 2
              ELSE IF context = 0 THEN 1
              ELSE IF Is(context, CONTEXT_BEGBUF) THEN 4 ELSE 3]

\* check_halt_state_context
Halts(p, state, in) ==
  /\ state.halt
  /\ state.constrained =>
       \E i \in DOMAIN state.nodes :
         LET node == p.nodes[state.nodes[i]]
         IN  /\ node.type = "end"
             /\ ~NotSatisfyNext(node.constraint, ContextAt(in, in.cur_idx))

\* Mutants of Missed: one place too many is tried; the place stays the same.
MissedLate(in) ==
  /\ match_first' = in.raw_mbs_idx + 1
  /\ IF match_first' > Len(in.raw) + 1 THEN pc' = "ready" /\ answer' = "nomatch"
                                       ELSE pc' = "search" /\ UNCHANGED answer
MissedHere(in) ==
  /\ match_first' = in.raw_mbs_idx
  /\ IF match_first' >= Len(in.raw) THEN pc' = "ready" /\ answer' = "nomatch"
                                    ELSE pc' = "search" /\ UNCHANGED answer

\* The search is over, or goes on to the place behind the one it tried.
Found == pc' = "ready" /\ answer' = "match" /\ UNCHANGED match_first
Missed(in) ==
  /\ match_first' = in.raw_mbs_idx + 1
  /\ IF match_first' > Len(in.raw) THEN pc' = "ready" /\ answer' = "nomatch"
                                   ELSE pc' = "search" /\ UNCHANGED answer

\* check_matching with the next state: it has a match, none from this place on,
\* or has to read on.
Arrive(state, in) ==
  LET over == Halts(prog, state, in) \/ state = NoState \/ in.cur_idx = in.len
  IN  /\ input' = in
      /\ cur_state' = IF over THEN NoState ELSE state
      /\ IF Halts(prog, state, in) THEN Found
         ELSE IF over THEN Missed(in)
         ELSE pc' = "match" /\ UNCHANGED <<match_first, answer>>
-------------------------------------------------------------------------------
\* libsieve_regcomp.  What it refuses is freed at once.
Regcomp(p) ==
  /\ pc = "free"
  /\ err' = Program[p].err
  /\ IF err' = "REG_NOERROR"
     THEN /\ pc' = "ready" /\ re' = p /\ prog' = Program[p] /\ table' = Range(prog'.inits)
     ELSE UNCHANGED <<pc, re, prog, table>>
  /\ UNCHANGED <<trtable, input, match_first, cur_state, answer>>

\* libsieve_regexec, re_search_internal up to its loop.
Regexec(text) ==
  /\ pc = "ready"
  /\ pc' = "search"
  /\ input' = Allocate(text, Len(prog.nodes) + 1, prog.icase)
  /\ match_first' = 0
  /\ answer' = "none"
  /\ UNCHANGED <<re, prog, err, table, trtable, cur_state>>

\* The map is no use where a match may be empty.  It is asked for the bytes from
\* match_first on, and at the end for a NUL.
HasFastmap == Len(input.raw) # 0 /\ ~prog.can_be_null
NextInMap ==
  CHOOSE k \in match_first..Len(input.raw) :
    /\ k < Len(input.raw) => input.raw[k + 1] \in prog.fastmap
    /\ \A i \in match_first..(k - 1) : input.raw[i + 1] \notin prog.fastmap
Place == IF HasFastmap THEN NextInMap ELSE match_first

\* The loop over the places: no match can begin any more.
GiveUp ==
  /\ pc = "search"
  /\ HasFastmap /\ Place = Len(input.raw) /\ NUL \notin prog.fastmap
  /\ pc' = "ready" /\ answer' = "nomatch"
  /\ match_first' = Place
  /\ UNCHANGED <<re, prog, err, table, trtable, input, cur_state>>

\* Or one is tried, up to the initial state.
Try ==
  LET in == Reconstruct(input, Place)
  IN  /\ pc = "search"
      /\ ~(HasFastmap /\ Place = Len(input.raw) /\ NUL \notin prog.fastmap)
      /\ Arrive(InitialState(prog, in), in)
      /\ UNCHANGED <<re, prog, err, table, trtable>>

\* transit_state with the transition table of the state: the byte is read.
Transit(in, tr) ==
  /\ trtable' = [s \in DOMAIN trtable \cup {cur_state} |-> IF s = cur_state THEN tr ELSE trtable[s]]
  /\ Arrive(tr[ByteAt(in, in.cur_idx)], [in EXCEPT !.cur_idx = @ + 1])

\* The table is made first, and with it the states that are not there.
Build(in, groups, dests) ==
  /\ table' = table \cup UNION {Range(dests[j]) : j \in DOMAIN groups}
  /\ Transit(in, BuildTrtable(groups, dests))
Make(in, groups) == Build(in, groups, [j \in DOMAIN groups |-> Destinations(prog, groups[j])])

Step ==
  /\ pc = "match"
  /\ IF cur_state \in DOMAIN trtable
     THEN Transit(Ahead(input), trtable[cur_state]) /\ UNCHANGED table
     ELSE Make(Ahead(input), Groups(prog, cur_state))
  /\ UNCHANGED <<re, prog, err>>

\* libsieve_regfree: the states go with the expression.
Regfree ==
  /\ pc = "ready"
  /\ pc' = "free" /\ re' = NoPattern /\ prog' = Program[NoPattern] /\ table' = {} /\ trtable' = <<>> /\ input' = NoInput /\ match_first' = 0
  /\ answer' = "none"
  /\ UNCHANGED <<err, cur_state>>

Search == GiveUp \/ Try \/ Step
Next ==
  \/ \E p \in Pattern : Regcomp(p)
  \/ \E t \in Text : Regexec(t)
  \/ Search
  \/ Regfree

Spec == Init /\ [][Next]_vars
-------------------------------------------------------------------------------
\* The types of the variables that the search counts with; the place it tries
\* is one of the text's, or the one behind the last.
TypeOK ==
  /\ pc \in {"free", "ready", "search", "match"}
  /\ answer \in {"none", "match", "nomatch"}
  /\ input.raw \in Seq(Char \ {NUL}) /\ input.icase \in BOOLEAN
  /\ input.raw_mbs_idx \in Nat /\ input.len \in Nat /\ input.cur_idx \in Nat
  /\ input.bufs_len \in Nat \ {0} /\ input.valid_len \in Nat
  /\ input.raw_mbs_idx + input.len = Len(input.raw)
  /\ input.cur_idx <= input.len
  /\ match_first \in 0..(Len(input.raw) + 1)
  /\ pc = "search" => match_first \in input.raw_mbs_idx..Len(input.raw)

\* The byte that is read next, which is also the one that the context is taken
\* from, is in the buffer and is the one of the text, however often the buffer
\* was moved and extended: re_string_reconstruct, build_upper_buffer, and the
\* look ahead at the beginning of transit_state.
Window ==
  pc = "match" =>
    /\ input.cur_idx < input.len
    /\ ByteAt(input, input.cur_idx) =
         LET c == RawAt(input, input.cur_idx) IN IF input.icase THEN ToUpper[c] ELSE c

\* The context before the buffer, which re_string_reconstruct takes from what
\* was in the buffer or from the text, is that of the byte before it.
TipContext ==
  input.tip_context =
    IF input.raw_mbs_idx = 0 THEN CONTEXT_NEWLINE + CONTEXT_BEGBUF
    ELSE IF input.raw[input.raw_mbs_idx] \in Word THEN CONTEXT_WORD ELSE 0

\* A transition that was kept from an earlier search leads to the state for the
\* context behind its byte, if that makes a difference: build_trtable and
\* re_acquire_state_context, which takes states from the table.
RightContext ==
  \A s \in DOMAIN trtable, c \in Char :
    trtable[s][c].constrained => trtable[s][c].context = Behind(c)

\* And to all the nodes, and only those, that a node of the state leads to with
\* the byte, whatever groups the nodes were put into on the way:
\* group_nodes_into_DFAstates, build_trtable.
SubsetConstruction ==
  \A s \in DOMAIN trtable, c \in Char :
    LET t == trtable[s][c]
        takers == {n \in Range(Takers(prog, s)) : c \in Accepts(prog, n)}
        leads  == {n \in takers : prog.nexts[n] # 0}
    IN  /\ Range(t.entrance) = UNION {Range(prog.eclosures[prog.nexts[n]]) : n \in leads}
        /\ Range(t.nodes) = {n \in Range(t.entrance) :
                               ~NotSatisfyPrev(ConstraintOf(prog.nodes[n]), Behind(c))}

\* What a program does with a text, followed over the text itself: no buffer, no
\* map, and no states but sets of nodes.  The contexts before and behind the
\* i-th place of a text:
PrevContext(text, i) ==
  IF i = 0 THEN CONTEXT_NEWLINE + CONTEXT_BEGBUF ELSE IF text[i] \in Word THEN CONTEXT_WORD ELSE 0
NextContext(text, i) ==
  IF i = Len(text) THEN CONTEXT_NEWLINE + CONTEXT_ENDBUF ELSE IF text[i + 1] \in Word THEN CONTEXT_WORD ELSE 0

\* The nodes that may stand in a context, and those that a byte leads to.
Standing(nodes, ns, context) == {n \in ns : ~NotSatisfyPrev(ConstraintOf(nodes[n]), context)}
After(p, ns, c) ==
  LET leads == {n \in ns : p.nodes[n].type \in Taking /\ c \in Accepts(p, n) /\ p.nexts[n] # 0}
  IN  Standing(p.nodes, UNION {Range(p.eclosures[p.nexts[n]]) : n \in leads}, Behind(c))

\* The nodes that are reached from the i-th place, at each place behind it.
Reached(p, text, i) ==
  LET R[k \in i..Len(text)] ==
        IF k = i THEN Standing(p.nodes, Range(p.inits[1].entrance), PrevContext(text, i))
                 ELSE After(p, R[k - 1], Shown(p, text[k]))
  IN  R
EndReached(p, text, i, k) ==
  \E n \in Reached(p, text, i)[k] :
    /\ p.nodes[n].type = "end"
    /\ ~NotSatisfyNext(p.nodes[n].constraint, NextContext(text, k))

\* The answer of a search is what the program says of the text: there is a match
\* if and only if from some place of it the end is reached.  The map skips no
\* place where a match begins, the buffer shows the text, and the states and
\* tables kept from earlier searches stand for the nodes they were made of.
ProgramDecides ==
  pc = "ready" /\ answer # "none" =>
    (answer = "match") <=>
      \E i \in 0..Len(input.raw) : \E k \in i..Len(input.raw) : EndReached(prog, input.raw, i, k)

\* A step of a search is to a place further on, or further on from the same
\* place, or to the end of the search.
Trying == pc \in {"search", "match"}
Further ==
  \/ pc' = "ready"
  \/ match_first' > match_first
  \/ match_first' = match_first /\ pc = "search" /\ pc' = "match"
  \/ match_first' = match_first /\ pc' = "match" /\ input'.cur_idx > input.cur_idx

\* Every step is such a step, so that each search ends, its places and those in
\* the text being bounded (the loops of re_search_internal and check_matching).
Progress == [][Trying => Further]_vars
===============================================================================
