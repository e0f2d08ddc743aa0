------------------------------ MODULE RegexState ------------------------------
(***************************************************************************)
(* The nodes of a compiled regular expression, the contexts in which a     *)
(* text is read, and the states of the automaton (regex_internal.h, and    *)
(* re_acquire_state_context with its helpers in regex_internal.c).  A node *)
(* is a record of                                                          *)
(*   type        its kind: "char", "set" and "period" take a byte, "end"   *)
(*               is the end of the expression, the others take nothing     *)
(*   set         the bytes it takes                                        *)
(*   anchor      of an anchor, the constraints it stands for               *)
(*   constraint  those a copy has from the anchors before it               *)
(*   duplicated  whether it is a copy                                      *)
(* Nodes are numbered from 1, so that 0 is the code's -1.                  *)
(***************************************************************************)
EXTENDS NodeSets, FiniteSets, SequencesExt

\* The contexts of a place in a text, bits of a number.
CONTEXT_WORD    == 1
CONTEXT_NEWLINE == 2
CONTEXT_BEGBUF  == 4
CONTEXT_ENDBUF  == 8
Is(context, bit) == (context \div bit) % 2 = 1

\* The constraints, and the anchors that are made of them.
INSIDE_WORD == {"prev_word", "next_word"}
WORD_FIRST  == {"prev_notword", "next_word"}
WORD_LAST   == {"prev_word", "next_notword"}
LINE_FIRST  == {"prev_newline"}
LINE_LAST   == {"next_newline"}
BUF_FIRST   == {"prev_begbuf"}
BUF_LAST    == {"next_endbuf"}
WORD_DELIM  == {"dummy"}

NotSatisfyPrev(constraint, context) ==
  \/ "prev_word" \in constraint /\ ~Is(context, CONTEXT_WORD)
  \/ "prev_notword" \in constraint /\ Is(context, CONTEXT_WORD)
  \/ "prev_newline" \in constraint /\ ~Is(context, CONTEXT_NEWLINE)
  \/ "prev_begbuf" \in constraint /\ ~Is(context, CONTEXT_BEGBUF)

NotSatisfyNext(constraint, context) ==
  \/ "next_word" \in constraint /\ ~Is(context, CONTEXT_WORD)
  \/ "next_notword" \in constraint /\ Is(context, CONTEXT_WORD)
  \/ "next_newline" \in constraint /\ ~Is(context, CONTEXT_NEWLINE)
  \/ "next_endbuf" \in constraint /\ ~Is(context, CONTEXT_ENDBUF)
-------------------------------------------------------------------------------
\* calc_state_hash.  The numbers from 1 make up for the count of the nodes.
StateHash(set, context) ==
  LET H[i \in 0..Len(set)] == IF i = 0 THEN context ELSE H[i - 1] + set[i]
  IN  H[Len(set)]

ConstraintOf(node) == IF node.type = "anchor" THEN node.anchor ELSE node.constraint

\* create_cd_newstate: a state knows the set it was asked for and keeps those
\* nodes whose constraints the context before it satisfies.  Its member for the
\* context has two bits.
NewState(nodes, set, context) ==
  [entrance    |-> set,
   nodes       |-> Kept(set, {n \in Range(set) : ~NotSatisfyPrev(ConstraintOf(nodes[n]), context)}),
   context     |-> context % 4,
   hash        |-> StateHash(set, context),
   halt        |-> \E i \in DOMAIN set : nodes[set[i]].type = "end",
   constrained |-> \E i \in DOMAIN set : ConstraintOf(nodes[set[i]]) # {}]

\* No state, the code's NULL.
NoState ==
  [entrance |-> <<>>, nodes |-> <<>>, context |-> 0, hash |-> 0, halt |-> FALSE, constrained |-> FALSE]

\* The states in the table that a search for the set and the context finds.
Lookup(table, set, context) ==
  {s \in table : /\ s.hash = StateHash(set, context)
                 /\ s.entrance = set
                 /\ s.context = context}

\* re_acquire_state_context: the state in the table, or a new one.
Acquire(nodes, table, set, context) ==
  LET found == Lookup(table, set, context)
  IN  IF set = <<>> THEN NoState
      ELSE IF found # {} THEN CHOOSE s \in found : TRUE
      ELSE NewState(nodes, set, context)
===============================================================================
