------------------------------ MODULE Addresses ------------------------------
(***************************************************************************)
(* The addresses of a text: the lexer addr-lex.l and the grammar addr.y,    *)
(* which share one lexer for all the texts of a context, and the list that  *)
(* libsieve_get_address (message.c) hands out.  A text is a sequence of     *)
(* words, of words with a dot inside, of blanks and of special characters.  *)
(*                                                                         *)
(* The grammar nests nothing, so that the parser is a finite automaton;     *)
(* Edges are its transitions.  It asks the lexer for one token after the    *)
(* other and for none behind the first that does not fit, which is why the  *)
(* two are one recursion over the text.                                     *)
(***************************************************************************)
EXTENDS Naturals, Sequences, FiniteSets, SequencesExt

CONSTANTS
  Word,      \* what the lexer returns as ATOM
  Dotted,    \* and as DOTATOM
  Lower,     \* the lower case of every word
  NULL

Special == {"\"", "(", ")", "<", ">", "@", ",", ":", ";", "[", "]"}
Text    == Seq(Word \cup Dotted \cup Special \cup {" "})
BLANK   == [mailbox |-> NULL, domain |-> NULL]   \* libsieve_addrappend

ASSUME LexemesAssumption ==
  /\ Word \cap Dotted = {} /\ (Word \cup Dotted) \cap (Special \cup {" ", NULL}) = {}
  /\ NULL \notin Text
  /\ Lower \in [Word \cup Dotted -> Word \cup Dotted]

\* Where the parser is, the token that it gets, and where it is then: in the
\* rules start, group, mailbox_list, mailbox, angle_addr, addr_spec and route.
Words == {"atom", "dotatom", "qstring"}
Names == {"atom", "dotatom", "domainlit"}
Edges ==
  ({"start"} \X {"atom", "qstring"} \X {"first"}) \cup
  ({"mailbox", "group"} \X {"atom", "qstring"} \X {"word"}) \cup
  ({"start", "mailbox", "group"} \X {"dotatom"} \X {"local"}) \cup
  ({"start", "mailbox", "group", "first", "word", "phrases", "phrase"} \X {"<"} \X {"angle"}) \cup
  ({"first", "phrases"} \X Words \X {"phrases"}) \cup
  ({"first", "phrases"} \X {":"} \X {"group"}) \cup
  ({"word", "phrase"} \X Words \X {"phrase"}) \cup
  ({"first", "word", "local"} \X {"@"} \X {"domain"}) \cup
  ({"domain"} \X Names \X {"done"}) \cup
  ({"angle", "last"} \X Words \X {"spec"}) \cup
  ({"spec"} \X {"@"} \X {"specdomain"}) \cup
  ({"specdomain"} \X Names \X {"close"}) \cup
  ({"angle", "close"} \X {">"} \X {"done"}) \cup
  ({"angle", "next"} \X {"@"} \X {"route"}) \cup
  ({"route"} \X Names \X {"routed"}) \cup
  {<<"routed", ",", "next">>, <<"routed", ":", "last">>, <<"group", ";", "closed">>,
   <<"done", ",", "mailbox">>, <<"done", ";", "closed">>}

Fits(s, token) ==
  /\ \E e \in Edges : e[1] = s.at /\ e[2] = token
  /\ token = ";" => s.group
Refuse(s) == [s EXCEPT !.over = "error"]

\* A token is read, and the semantic actions that come with it are taken: the
\* list is built from the back, and each mailbox goes into its head.  A DTEXT
\* leaves yylval alone, so that the value of a domain literal is that of the
\* word or the quoted text before it.
Shift(s, token) ==
  IF ~Fits(s, token) THEN Refuse(s)
  ELSE LET to == CHOOSE a \in {e[3] : e \in Edges} : <<s.at, token, a>> \in Edges
       IN  [s EXCEPT
             !.at = to,
             !.local = IF to \in {"first", "word", "local", "spec"} THEN s.lval ELSE @,
             !.head = CASE s.at \in {"domain", "specdomain"} -> [mailbox |-> s.local, domain |-> s.lval]
                        [] s.at = "angle" /\ to = "done" -> [mailbox |-> <<>>, domain |-> NULL]
                        [] s.at = "done" -> BLANK
                        [] OTHER -> @,
             !.list = IF s.at = "done" THEN <<s.head>> \o @ ELSE @,
             !.group = @ \/ to = "group"]

\* The end of the text, or what yyterminate makes of an error.
Finish(s) ==
  IF s.over # "no" \/ s.inside # "none" THEN Refuse(s)
  ELSE CASE s.at \in {"start", "first"} -> [s EXCEPT !.list = <<BLANK>>, !.over = "end"]
         [] s.at = "done" /\ ~s.group   -> [s EXCEPT !.list = <<s.head>> \o @, !.over = "end"]
         [] s.at = "closed"             -> [s EXCEPT !.over = "end"]
         [] OTHER -> Refuse(s)

\* What is between quotes or brackets is one token.
Quote(s) ==
  CASE s.inside = "none" /\ Fits(s, "qstring") -> [s EXCEPT !.inside = "quote"]
    [] s.inside = "qtext" -> Shift([s EXCEPT !.inside = "none"], "qstring")
    [] OTHER -> Refuse(s)
Quoted(s, l) ==
  CASE s.inside = "quote" -> [s EXCEPT !.inside = "qtext", !.lval = <<l>>]
    [] s.inside = "qtext" -> [s EXCEPT !.lval = Append(@, l)]
    [] OTHER -> Refuse(s)
Opening(s) ==
  IF s.inside = "none" /\ Fits(s, "domainlit") THEN [s EXCEPT !.inside = "bracket"] ELSE Refuse(s)
Bracketed(s) ==
  IF s.inside \in {"bracket", "dtext"} THEN [s EXCEPT !.inside = "dtext"] ELSE Refuse(s)
Closing(s) ==
  IF s.inside = "dtext" THEN Shift([s EXCEPT !.inside = "none"], "domainlit") ELSE Refuse(s)
Plain(s, l) ==
  IF s.inside # "none" THEN Refuse(s)
  ELSE IF l \in Special THEN Shift(s, l)
  ELSE Shift([s EXCEPT !.lval = <<l>>], IF l \in Word THEN "atom" ELSE "dotatom")

\* The rules of each start condition.
Initial(s, l) ==
  CASE l = "\"" -> Quote([s EXCEPT !.start = "QSTRING"])
    [] l = "["  -> Opening([s EXCEPT !.start = "DOMAINLIT"])
    [] l = "("  -> [s EXCEPT !.start = "COMMENT", !.depth = 1]
    [] l = ")"  -> Finish(s)
    [] l = " "  -> s
    [] OTHER    -> Plain(s, l)
QString(s, l) ==
  IF l = "\"" THEN Quote([s EXCEPT !.start = "INITIAL"]) ELSE Quoted(s, l)
DomainLit(s, l) ==
  CASE l = "]" -> Closing([s EXCEPT !.start = "INITIAL"])
    [] l = "[" -> Finish(s)
    [] OTHER   -> Bracketed(s)
\* Mutant: a comment ends with the first closing parenthesis.
CommentOnce(s, l) ==
  CASE l = "(" -> [s EXCEPT !.depth = @ + 1]
    [] l = ")" -> [s EXCEPT !.depth = @ - 1, !.start = "INITIAL"]
    [] OTHER   -> s
Comment(s, l) ==
  CASE l = "(" -> [s EXCEPT !.depth = @ + 1]
    [] l = ")" -> [s EXCEPT !.depth = @ - 1, !.start = IF s.depth = 1 THEN "INITIAL" ELSE @]
    [] OTHER   -> s
Scan(s, l) ==
  IF s.over # "no" THEN s
  ELSE CASE s.start = "INITIAL"   -> Initial(s, l)
         [] s.start = "QSTRING"   -> QString(s, l)
         [] s.start = "DOMAINLIT" -> DomainLit(s, l)
         [] s.start = "COMMENT"   -> Comment(s, l)

Lexer == [start : {"INITIAL", "QSTRING", "DOMAINLIT", "COMMENT"}, depth : Nat]
FreshLexer == [start |-> "INITIAL", depth |-> 0]

\* libsieve_addr_parse_buffer: the lexer goes on in the start condition it was
\* left in, whatever text that was.  A list that was begun is freed after an
\* error.
Begun(lexer) ==
  [start |-> lexer.start, depth |-> lexer.depth, over |-> "no", inside |-> "none",
   at |-> "start", group |-> FALSE, lval |-> NULL, local |-> NULL, head |-> BLANK, list |-> <<>>]
Ended(s) == IF s.over = "no" THEN Finish(s) ELSE s
Told(s)  == [lexer |-> [start |-> s.start, depth |-> s.depth],
             list  |-> IF s.over = "end" THEN s.list ELSE <<>>]
Read(lexer, text) ==
  LET S[i \in 0..Len(text)] == IF i = 0 THEN Begun(lexer) ELSE Scan(S[i - 1], text[i])
  IN  Told(Ended(S[Len(text)]))

\* libsieve_get_address for ADDRESS_ALL with canon_domain, call after call: an
\* address without mailbox and domain gives NULL, which is the end.
Lowered(words) == [i \in DOMAIN words |-> IF words[i] \in DOMAIN Lower THEN Lower[words[i]] ELSE words[i]]
Address(a) == IF a.domain = NULL THEN a.mailbox ELSE a.mailbox \o <<"@">> \o Lowered(a.domain)
Given(list) ==
  LET n == Cardinality({i \in DOMAIN list : list[i] # BLANK})
  IN  [i \in 1..n |-> Address(list[i])]
FirstGiven(list) == IF list \in {<<>>, <<BLANK>>} THEN NULL ELSE Address(list[1])
=============================================================================
