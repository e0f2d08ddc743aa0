------------------------------ MODULE RegexParse ------------------------------
(***************************************************************************)
(* The parser of regcomp.c for the syntax libsieve asks for, POSIX         *)
(* extended: from a pattern to nodes and a tree.  A pattern is             *)
(* [raw |-> its bytes, icase |-> REG_ICASE].  Left out are the back        *)
(* references; memory never runs out.                                      *)
(*                                                                         *)
(* The parser hands on what it has so far, a record of                     *)
(*   pos    the index of the next byte                                     *)
(*   tok    the token before it, re_token_t                                *)
(*   nodes  dfa->nodes                                                     *)
(*   tree   what the function returned, a tree or NIL                      *)
(*   err    the error, "REG_NOERROR" for none, "crash" where the code      *)
(*          follows a null pointer                                         *)
(***************************************************************************)
EXTENDS Integers, RegexState, Characters

CONSTANT DupMax   \* RE_DUP_MAX

ASSUME DupMaxAssumption == DupMax \in Nat

Node(type, set) ==
  [type |-> type, set |-> set, anchor |-> {}, constraint |-> {}, duplicated |-> FALSE]
NIL == [op |-> "nil"]
Tree(op, idx, left, right) == [op |-> op, idx |-> idx, left |-> left, right |-> right]

\* The pattern as the parser sees it, in upper case for REG_ICASE.
Byte(re, i) ==
  IF i \notin DOMAIN re.raw THEN NUL ELSE IF re.icase THEN ToUpper[re.raw[i]] ELSE re.raw[i]

Token(type, c, anchor, len) == [type |-> type, c |-> c, anchor |-> anchor, len |-> len]

Operators ==
  ("|" :> "alt") @@ ("*" :> "star") @@ ("+" :> "plus") @@ ("?" :> "question")
  @@ ("{" :> "open_num") @@ ("}" :> "close_num") @@ ("(" :> "open") @@ (")" :> "close")
  @@ ("[" :> "bracket") @@ ("." :> "period")
EscapedOperators == ("w" :> "word") @@ ("W" :> "notword")
Anchors == ("^" :> LINE_FIRST) @@ ("$" :> LINE_LAST)
EscapedAnchors ==
  ("<" :> WORD_FIRST) @@ (">" :> WORD_LAST) @@ ("b" :> WORD_DELIM) @@ ("B" :> INSIDE_WORD)
  @@ ("BACKQUOTE" :> BUF_FIRST) @@ ("'" :> BUF_LAST)

\* peek_token, for patterns without back references.  What stands behind a
\* backslash is not taken in upper case.
Peek(re, i) ==
  LET c == Byte(re, i)
      e == re.raw[i + 1]
  IN  CASE i > Len(re.raw)        -> Token("end", c, {}, 0)
        [] c = "\\" /\ i = Len(re.raw) -> Token("backslash", c, {}, 1)
        [] c = "\\" /\ i < Len(re.raw) ->
             (IF e \in DOMAIN EscapedAnchors THEN Token("anchor", e, EscapedAnchors[e], 2)
              ELSE IF e \in DOMAIN EscapedOperators THEN Token(EscapedOperators[e], e, {}, 2)
              ELSE Token("char", e, {}, 2))
        [] c \in DOMAIN Operators -> Token(Operators[c], c, {}, 1)
        [] c \in DOMAIN Anchors   -> Token("anchor", c, Anchors[c], 1)
        [] OTHER                  -> Token("char", c, {}, 1)

Fetch(re, p) ==
  LET t == Peek(re, p.pos) IN [p EXCEPT !.tok = t, !.pos = @ + t.len]

Fail(p, err) == [p EXCEPT !.err = err, !.tree = NIL]
Failed(p) == p.err # "REG_NOERROR"

\* re_dfa_add_node and create_tree: a node becomes the root of what was parsed.
AddNode(p, node) == [p EXCEPT !.nodes = Append(@, node)]
Root(p, left, right) == [p EXCEPT !.tree = Tree("node", Len(p.nodes), left, right)]
Leaf(p, node) == Root(AddNode(p, node), NIL, NIL)
Above(p, type) == Root(AddNode(p, Node(type, {})), p.tree, NIL)
Concat(left, right) ==
  IF left = NIL THEN right ELSE IF right = NIL THEN left ELSE Tree("cat", 0, left, right)
-------------------------------------------------------------------------------
\* peek_token_bracket.  `[.', `[=' and `[:' open a symbol.
Symbols == ("." :> "coll") @@ ("=" :> "equiv") @@ (":" :> "class")
Marks == ("-" :> "range") @@ ("]" :> "close") @@ ("^" :> "not")
PeekBracket(re, i) ==
  LET c == Byte(re, i)
      d == Byte(re, i + 1)
  IN  CASE i > Len(re.raw) -> Token("end", c, {}, 0)
        [] c = "[" /\ d \in DOMAIN Symbols -> Token(Symbols[d], d, {}, 2)
        [] c \in DOMAIN Marks /\ i <= Len(re.raw) -> Token(Marks[c], c, {}, 1)
        [] OTHER -> Token("char", c, {}, 1)

\* parse_bracket_element, parse_bracket_symbol: a byte, or the name up to the
\* delimiter and bracket that close the symbol, which is at most 32 long.
BracketElement(re, i, tok) ==
  LET at   == i + tok.len
      ends == {k \in at..Len(re.raw) : Byte(re, k) = tok.c /\ Byte(re, k + 1) = "]"}
      last == CHOOSE k \in ends : \A j \in ends : k <= j
      case == IF tok.type = "class" THEN [re EXCEPT !.icase = FALSE] ELSE re
  IN  IF tok.type \notin {"coll", "equiv", "class"}
        THEN [type |-> "char", name |-> <<tok.c>>, pos |-> at, err |-> "REG_NOERROR"]
      ELSE IF ends = {} \/ last - at >= 32
        THEN [type |-> tok.type, name |-> <<>>, pos |-> at, err |-> "REG_EBRACK"]
      ELSE [type |-> tok.type, name |-> [k \in 1..(last - at) |-> Byte(case, at + k - 1)],
            pos |-> last + 2, err |-> "REG_NOERROR"]

\* The bytes an element stands for (build_collating_symbol, build_equiv_class,
\* build_charclass), and those of a range (build_range_exp).
ElementSet(re, elem) ==
  LET called == FoldLeft(LAMBDA s, c : s \o c, "", elem.name)
      name   == IF re.icase /\ called \in {"upper", "lower"} THEN "alpha" ELSE called
  IN  IF elem.type = "class"
        THEN IF name \in DOMAIN Class THEN [set |-> Class[name], err |-> "REG_NOERROR"]
             ELSE [set |-> {}, err |-> "REG_ECTYPE"]
      ELSE IF Len(elem.name) # 1 THEN [set |-> {}, err |-> "REG_ECOLLATE"]
      ELSE [set |-> {elem.name[1]}, err |-> "REG_NOERROR"]

RangeSet(start, end) ==
  IF {"equiv", "class"} \cap {start.type, end.type} # {} THEN [set |-> {}, err |-> "REG_ERANGE"]
  ELSE IF Len(start.name) > 1 \/ Len(end.name) > 1 THEN [set |-> {}, err |-> "REG_ECOLLATE"]
  ELSE LET first == IF start.name = <<>> THEN NUL ELSE start.name[1]
           last  == IF end.name = <<>> THEN NUL ELSE end.name[1]
       IN  [set |-> Char \cap Between(first, last),
            err |-> IF Code[first] > Code[last] THEN "REG_ERANGE" ELSE "REG_NOERROR"]

\* The loop of parse_bracket_exp, at the token tok; set is what was found so
\* far.  A dash before the closing bracket is a byte like any other.
RECURSIVE BracketItems(_, _, _, _)
BracketItems(re, i, tok, set) ==
  LET start == BracketElement(re, i, tok)
      next  == PeekBracket(re, start.pos)
      after == PeekBracket(re, start.pos + 1)
      range == next.type = "range" /\ after.type # "close"
      end   == BracketElement(re, start.pos + 1, after)
      item  == IF range THEN RangeSet(start, end) ELSE ElementSet(re, start)
      pos   == IF range THEN end.pos ELSE start.pos
      then  == IF range THEN PeekBracket(re, pos)
               ELSE IF next.type = "range" THEN [next EXCEPT !.type = "char"] ELSE next
      done(err) == [set |-> set \cup item.set, pos |-> pos + 1, err |-> err]
  IN  CASE start.err # "REG_NOERROR" -> [set |-> {}, pos |-> i, err |-> start.err]
        [] start.err = "REG_NOERROR" /\ next.type = "end" -> [set |-> {}, pos |-> i, err |-> "REG_BADPAT"]
        [] OTHER ->
             (IF range /\ end.err # "REG_NOERROR" THEN [set |-> {}, pos |-> i, err |-> end.err]
              ELSE IF then.type = "end" THEN [set |-> {}, pos |-> i, err |-> "REG_BADPAT"]
              ELSE IF item.err # "REG_NOERROR" THEN done(item.err)
              ELSE IF then.type = "close" THEN done("REG_NOERROR")
              ELSE BracketItems(re, pos, then, set \cup item.set))

\* parse_bracket_exp.  A closing bracket that comes first is a byte.
ParseBracket(re, p) ==
  LET first == PeekBracket(re, p.pos)
      not   == first.type = "not"
      pos   == IF not THEN p.pos + 1 ELSE p.pos
      tok   == PeekBracket(re, pos)
      items == BracketItems(re, pos, IF tok.type = "close" THEN [tok EXCEPT !.type = "char"] ELSE tok, {})
  IN  IF tok.type = "end" THEN Fail(p, "REG_BADPAT")
      ELSE IF items.err # "REG_NOERROR" THEN Fail(p, items.err)
      ELSE Leaf([p EXCEPT !.pos = items.pos],
                Node("set", IF not THEN Char \ items.set ELSE items.set))

\* build_word_op: letters and the underscore, not the digits.
WordSet == Class.alpha \cup (Char \cap {"_"})
-------------------------------------------------------------------------------
\* fetch_number: reads to a closing brace or a comma; NONE if there is nothing
\* before it, BAD if it is no number up to DupMax.
NONE == -1
BAD  == -2
RECURSIVE FetchNumber(_, _, _)
FetchNumber(re, p, num) ==
  LET q     == Fetch(re, p)
      digit == q.tok.type = "char" /\ q.tok.c \in Digits /\ num # BAD
      value == (IF num = NONE THEN 0 ELSE 10 * num) + Code[q.tok.c] - Code["0"]
  IN  IF q.tok.type = "end" THEN [p |-> q, num |-> BAD]
      ELSE IF q.tok.type = "close_num" \/ q.tok.c = "," THEN [p |-> q, num |-> num]
      ELSE FetchNumber(re, q, IF digit THEN IF value > DupMax THEN BAD ELSE value ELSE BAD)

\* duplicate_tree: children first; the copies are marked as such.
RECURSIVE DuplicateTree(_, _)
DuplicateTree(p, t) ==
  IF t = NIL THEN [p EXCEPT !.tree = NIL]
  ELSE LET l == DuplicateTree(p, t.left)
           r == DuplicateTree(l, t.right)
           q == IF t.op = "cat" THEN r
                ELSE AddNode(r, [r.nodes[t.idx] EXCEPT !.constraint = {}, !.duplicated = TRUE])
       IN  [q EXCEPT !.tree = Tree(t.op, IF t.op = "cat" THEN 0 ELSE Len(q.nodes), l.tree, r.tree)]

\* n more copies of elem behind what was parsed.
RECURSIVE Repeat(_, _, _)
Repeat(p, elem, n) ==
  IF n <= 0 \/ Failed(p) THEN p
  ELSE IF elem = NIL THEN Fail(p, "crash")
  ELSE LET q == DuplicateTree(p, elem)
       IN  Repeat([q EXCEPT !.tree = Tree("cat", 0, p.tree, q.tree)], elem, n - 1)

\* Behind what was parsed, the element under a node of the type: itself, or a
\* copy when it has been used.
UnderCopy(p, elem, type, start) ==
  LET q == Above(DuplicateTree(p, elem), type)
  IN  IF start = 0 THEN Above([p EXCEPT !.tree = elem], type)
      ELSE IF elem = NIL THEN Fail(p, "crash")
      ELSE [q EXCEPT !.tree = Tree("cat", 0, p.tree, q.tree)]

\* parse_dup_op for {n,m}: n copies, then a star, or copies of an optional one
\* up to m.
ParseInterval(re, p) ==
  LET first == FetchNumber(re, p, NONE)
      comma == first.p.tok.type = "char" /\ first.p.tok.c = ","
      start == IF first.num = NONE /\ comma THEN 0 ELSE first.num
      second == IF comma /\ start # BAD THEN FetchNumber(re, first.p, NONE)
                ELSE [p |-> first.p,
                      num |-> IF start # BAD /\ first.p.tok.type = "close_num" THEN start ELSE BAD]
      end   == second.num
      invalid == IF second.p.tok.type = "close_num" THEN "REG_BADBR" ELSE "REG_EBRACE"
      copies == Repeat([second.p EXCEPT !.tree = p.tree], p.tree, start - 1)
      option == UnderCopy(copies, p.tree, "question", start)
      last  == IF start = 0 THEN option.tree ELSE option.tree.right
  IN  CASE start = NONE -> Fail(second.p, "REG_BADBR")
        [] start # NONE /\ BAD \in {start, end} -> Fail(second.p, invalid)
        [] start = 0 /\ end = 0 -> Fetch(re, [second.p EXCEPT !.tree = NIL])
        [] OTHER -> Fetch(re,
             IF Failed(copies) THEN copies
             ELSE IF end = NONE THEN UnderCopy(copies, p.tree, "star", start)
             ELSE IF end <= start THEN copies
             ELSE IF Failed(option) THEN option
             ELSE Repeat(option, last, end - start - 1))

\* The loop at the end of parse_expression over what repeats the expression.
RECURSIVE ParseDups(_, _)
ParseDups(re, p) ==
  IF Failed(p) THEN p
  ELSE IF p.tok.type = "open_num" THEN ParseDups(re, ParseInterval(re, p))
  ELSE IF p.tok.type \in {"star", "plus", "question"}
    THEN ParseDups(re, Fetch(re, Above(p, p.tok.type)))
  ELSE p

\* The tokens at which a branch ends.
Ends(tok, nest) == tok.type \in {"alt", "end"} \/ (nest > 0 /\ tok.type = "close")

RECURSIVE ParseRegExp(_, _, _), ParseAlternatives(_, _, _), ParseConcat(_, _, _)
RECURSIVE ParseExpression(_, _, _), ParseSubExp(_, _, _)

\* parse_sub_exp
ParseSubExp(re, p, nest) ==
  LET open  == Fetch(re, Leaf(p, Node("open", {})))
      body  == IF open.tok.type = "close" THEN [open EXCEPT !.tree = NIL]
               ELSE ParseRegExp(re, open, nest)
      close == Leaf(body, Node("close", {}))
  IN  IF Failed(body) THEN body
      ELSE IF body.tok.type # "close" THEN Fail(body, "REG_BADPAT")
      ELSE [close EXCEPT !.tree = Tree("cat", 0, open.tree, Concat(body.tree, close.tree))]

\* parse_expression.  An anchor is not repeated; a repetition without an
\* expression is an error.
ParseExpression(re, p, nest) ==
  LET type == p.tok.type
      more(q) == IF Failed(q) THEN q ELSE ParseDups(re, Fetch(re, q))
      anchor(which) == [Node("anchor", {}) EXCEPT !.anchor = which]
      first == Leaf(p, anchor(WORD_FIRST))
      both  == Leaf(first, anchor(WORD_LAST))
  IN  CASE type \in {"char", "close", "close_num"} -> more(Leaf(p, Node("char", {p.tok.c})))
        [] type = "period"    -> more(Leaf(p, Node("period", Char \ {NUL})))
        [] type = "word"      -> more(Leaf(p, Node("set", WordSet)))
        [] type = "notword"   -> more(Leaf(p, Node("set", Char \ WordSet)))
        [] type = "open"      -> more(ParseSubExp(re, p, nest + 1))
        [] type = "bracket"   -> more(ParseBracket(re, p))
        [] type = "anchor"    ->
             Fetch(re, IF p.tok.anchor # WORD_DELIM THEN Leaf(p, anchor(p.tok.anchor))
                       ELSE Root(AddNode(both, Node("alt", {})), first.tree, both.tree))
        [] type \in {"star", "plus", "question", "open_num"} -> Fail(p, "REG_BADRPT")
        [] type = "backslash" -> Fail(p, "REG_EESCAPE")
        [] type \in {"alt", "end"} -> [p EXCEPT !.tree = NIL]

\* parse_branch
ParseConcat(re, p, nest) ==
  LET q == ParseExpression(re, p, nest)
  IN  IF Failed(p) \/ Ends(p.tok, nest) THEN p
      ELSE ParseConcat(re, [q EXCEPT !.tree = Concat(p.tree, q.tree)], nest)
ParseBranch(re, p, nest) == ParseConcat(re, ParseExpression(re, p, nest), nest)

\* parse_reg_exp
ParseAlternatives(re, p, nest) ==
  LET q   == Fetch(re, AddNode(p, Node("alt", {})))
      alt == Len(q.nodes)
      b   == IF Ends(q.tok, nest) THEN [q EXCEPT !.tree = NIL] ELSE ParseBranch(re, q, nest)
  IN  IF Failed(p) \/ p.tok.type # "alt" THEN p
      ELSE IF Failed(b) THEN b
      ELSE ParseAlternatives(re, [b EXCEPT !.tree = Tree("node", alt, p.tree, b.tree)], nest)
ParseRegExp(re, p, nest) == ParseAlternatives(re, ParseBranch(re, p, nest), nest)

\* parse: the expression and behind it the node where a match ends.
Parse(re) ==
  LET start == Fetch(re, [pos |-> 1, tok |-> Token("end", NUL, {}, 0), nodes |-> <<>>,
                          tree |-> NIL, err |-> "REG_NOERROR"])
      p     == ParseRegExp(re, start, 0)
      end   == Leaf(p, Node("end", {}))
  IN  IF Failed(p) THEN p ELSE [end EXCEPT !.tree = Concat(p.tree, end.tree)]
===============================================================================
