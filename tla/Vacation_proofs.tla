--------------------------- MODULE Vacation_proofs ---------------------------
(***************************************************************************)
(* Proofs about Vacation for all messages, commands and texts: first what  *)
(* the lexer leaves behind, and that it hands out nothing of a text that   *)
(* it begins inside a comment, a quotation or a domain literal; then what  *)
(* becomes of the headers; then the search for an own address.             *)
(***************************************************************************)
EXTENDS Vacation, SequenceTheorems, FiniteSetTheorems, WellFoundedInduction, TLAPS

-----------------------------------------------------------------------------
(* The least-number principle for sets, which stands in for induction. *)

\* A set of numbers that is not empty has a least element.
LEMMA Least ==
  ASSUME NEW T, T \subseteq Nat, T # {}
  PROVE  \E x \in T : \A y \in T : x <= y
<1> DEFINE less == OpToRel(<, Nat)
<1>1. IsWellFoundedOn(less, Nat)
  BY NatLessThanWellFounded DEF OpToRel
<1>2. less = {p \in Nat \X Nat : p[1] < p[2]}
  BY DEF OpToRel
<1> HIDE DEF less
<1>3. PICK x \in T : \A y \in T : ~(<<y, x>> \in less)
  BY <1>1, WFMin
<1>4. \A y \in T : ~(y < x)
  BY <1>2, <1>3
<1> QED BY <1>4

\* Induction over the numbers up to N, as membership in a set.
LEMMA Induction ==
  ASSUME NEW N \in Nat, NEW S, 0 \in S, \A d \in 0..(N - 1) : d \in S => d + 1 \in S
  PROVE  \A d \in 0..N : d \in S
<1> DEFINE Bad == {d \in 0..N : d \notin S}
<1> SUFFICES ASSUME Bad # {} PROVE FALSE
  OBVIOUS
<1>1. PICK d \in Bad : \A e \in Bad : d <= e
  <2>1. Bad \subseteq Nat
    OBVIOUS
  <2> HIDE DEF Bad
  <2> QED BY <2>1, Least
<1>2. d \in 0..N /\ d \notin S /\ d # 0
  BY <1>1
<1>3. d - 1 \in 0..(N - 1) /\ (d - 1) + 1 = d /\ ~(d <= d - 1)
  BY <1>2
<1>4. d - 1 \notin S
  BY <1>2, <1>3
<1>5. d - 1 \in 0..N
  BY <1>3
<1> QED BY <1>1, <1>3, <1>4, <1>5

\* The function that starts with init and goes on with step.
Moves(N, D) == [(1..N) \X D -> D]
Goes(f, N, D, init, step) ==
  f \in [0..N -> D] /\ f[0] = init /\ \A i \in 1..N : f[i] = step[<<i, f[i - 1]>>]
LEMMA Recursion ==
  ASSUME NEW N \in Nat, NEW D, NEW init \in D, NEW step \in Moves(N, D)
  PROVE  \E f : Goes(f, N, D, init, step)
<1> DEFINE Upto(f, d) == /\ f \in [0..d -> D] /\ f[0] = init
                         /\ \A i \in 1..d : f[i] = step[<<i, f[i - 1]>>]
           Bad == {d \in 0..N : ~\E f : Upto(f, d)}
<1>1. \E f : Upto(f, 0)
  <2> DEFINE f == [i \in 0..0 |-> init]
  <2>1. Upto(f, 0)
    OBVIOUS
  <2> QED BY <2>1
<1>2. ASSUME NEW d \in 0..(N - 1), NEW f, Upto(f, d) PROVE \E g : Upto(g, d + 1)
  <2> DEFINE g == [i \in 0..(d + 1) |-> IF i <= d THEN f[i] ELSE step[<<d + 1, f[d]>>]]
  <2>1. f[d] \in D /\ d + 1 \in 1..N
    BY <1>2
  <2>2. step[<<d + 1, f[d]>>] \in D
    BY <2>1 DEF Moves
  <2>3. (\A i \in 0..d : g[i] = f[i]) /\ g[d + 1] = step[<<d + 1, f[d]>>]
    BY <2>1
  <2>4. g \in [0..(d + 1) -> D]
    BY <1>2, <2>2
  <2> HIDE DEF g
  <2>5. ASSUME NEW i \in 1..(d + 1) PROVE g[i] = step[<<i, g[i - 1]>>]
    <3>1. CASE i = d + 1
      BY <2>3, <3>1
    <3>2. CASE i \in 1..d
      <4>1. i - 1 \in 0..d /\ i \in 0..d
        BY <3>2
      <4> QED BY <1>2, <2>3, <3>2, <4>1
    <3> QED BY <3>1, <3>2
  <2>6. g[0] = init
    BY <1>2, <2>3
  <2> QED BY <2>4, <2>5, <2>6
<1>3. Bad = {}
  <2> SUFFICES ASSUME Bad # {} PROVE FALSE
    OBVIOUS
  <2>1. PICK d \in Bad : \A e \in Bad : d <= e
    <3>1. Bad \subseteq Nat
      OBVIOUS
    <3> HIDE DEF Bad
    <3> QED BY <3>1, Least
  <2>2. d # 0 /\ d \in 0..N
    BY <1>1, <2>1
  <2> HIDE DEF Bad
  <2>3. d - 1 \in 0..(N - 1) /\ d - 1 \in 0..N /\ ~(d <= d - 1)
    BY <2>2
  <2>4. PICK f : Upto(f, d - 1)
    BY <2>1, <2>3 DEF Bad
  <2>5. \E g : Upto(g, (d - 1) + 1)
    <3> HIDE DEF Upto
    <3> QED BY <1>2, <2>3, <2>4
  <2>6. (d - 1) + 1 = d
    BY <2>2
  <2> QED BY <2>1, <2>5, <2>6 DEF Bad
<1>4. PICK f : Upto(f, N)
  BY <1>3
<1> QED BY <1>4 DEF Goes

-----------------------------------------------------------------------------
(* Loops.  A loop over 1..N is the function of what it has made of its start *)
(* after each turn; D is what it may make of it.                             *)

Turns(f, N, init, step) == f = [i \in 0..N |-> IF i = 0 THEN init ELSE step[<<i, f[i - 1]>>]]

LEMMA TurnsExist ==
  ASSUME NEW N \in Nat, NEW D, NEW init \in D, NEW step \in Moves(N, D)
  PROVE  \E f : f \in [0..N -> D] /\ Turns(f, N, init, step)
<1>1. PICK f : Goes(f, N, D, init, step)
  BY Recursion
<1>2. f \in [0..N -> D] /\ f[0] = init /\ \A i \in 1..N : f[i] = step[<<i, f[i - 1]>>]
  BY <1>1 DEF Goes
<1>3. \A i \in 0..N : f[i] = IF i = 0 THEN init ELSE step[<<i, f[i - 1]>>]
  BY <1>2
<1>4. f = [i \in 0..N |-> f[i]]
  BY <1>2
<1>5. f = [i \in 0..N |-> IF i = 0 THEN init ELSE step[<<i, f[i - 1]>>]]
  BY <1>3, <1>4
<1> QED BY <1>2, <1>5 DEF Turns

\* What every turn keeps holds at the end.
LEMMA KeptToTheEnd ==
  ASSUME NEW N \in Nat, NEW f, NEW K, f[0] \in K,
         \A i \in 1..N : f[i - 1] \in K => f[i] \in K
  PROVE  \A i \in 0..N : f[i] \in K
<1> DEFINE S == {i \in 0..N : f[i] \in K}
<1>1. 0 \in S
  OBVIOUS
<1>2. ASSUME NEW d \in 0..(N - 1), d \in S PROVE d + 1 \in S
  <2>1. d + 1 \in 1..N /\ d + 1 \in 0..N /\ (d + 1) - 1 = d
    OBVIOUS
  <2>2. f[(d + 1) - 1] \in K
    BY <1>2, <2>1
  <2> QED BY <2>1, <2>2
<1>3. \A d \in 0..N : d \in S
  <2> HIDE DEF S
  <2> QED BY <1>1, <1>2, Induction
<1> QED BY <1>3

-----------------------------------------------------------------------------
(* The lexer and the parser keep their states. *)

Lexeme == Word \cup Dotted \cup Special \cup {" "}
Value  == Text \cup {NULL}
Entry  == [mailbox : Value, domain : Value]
Place  == {e[3] : e \in Edges} \cup {"start"}
Start  == {"INITIAL", "QSTRING", "DOMAINLIT", "COMMENT"}
Inside == {"none", "quote", "qtext", "bracket", "dtext"}
State  == [start : Start, depth : Nat, over : {"no", "error", "end"}, inside : Inside,
           at : Place, group : BOOLEAN, lval : Value, local : Value, head : Entry, list : Seq(Entry)]

\* Comments are counted only inside one, and there is text once there was some.
Sane(s)    == (s.start = "COMMENT" <=> s.depth > 0) /\ (s.inside = "qtext" => s.lval \in Text)
GoodState  == {s \in State : Sane(s)}
GoodLexer  == {l \in Lexer : l.start = "COMMENT" <=> l.depth > 0}

LEMMA Triples ==
  ASSUME NEW A, NEW B, NEW C, NEW e \in A \X B \X C PROVE e = <<e[1], e[2], e[3]>>
OBVIOUS

LEMMA EdgesAre == ASSUME NEW e \in Edges PROVE e = <<e[1], e[2], e[3]>>
<1>1. PICK A, B, C : e \in A \X B \X C
  BY DEF Edges
<1> QED BY <1>1, Triples

LEMMA SingletonSeqIs == ASSUME NEW S, NEW x \in S PROVE <<x>> \in Seq(S)
<1>1. <<>> \in Seq(S) /\ Append(<<>>, x) = <<x>>
  BY EmptySeq
<1> QED BY <1>1, AppendProperties

LEMMA TextIs ==
  ASSUME NEW t \in Text
  PROVE  /\ Len(t) \in Nat /\ DOMAIN t = 1..Len(t) /\ (\A i \in 1..Len(t) : t[i] \in Lexeme)
         /\ \A l \in Lexeme : Append(t, l) \in Text
<1>1. t \in Seq(Lexeme)
  BY DEF Text, Lexeme
<1>2. Len(t) \in Nat /\ DOMAIN t = 1..Len(t)
  BY <1>1, LenProperties
<1>3. \A i \in 1..Len(t) : t[i] \in Lexeme
  BY <1>1, ElementOfSeq
<1>4. \A l \in Lexeme : Append(t, l) \in Seq(Lexeme)
  BY <1>1, AppendProperties
<1> QED BY <1>2, <1>3, <1>4 DEF Text, Lexeme

LEMMA ShiftKeeps ==
  ASSUME NEW s \in GoodState, NEW token, s.inside = "none"
  PROVE  Shift(s, token) \in GoodState
<1>1. Refuse(s) \in GoodState
  BY DEF Refuse, GoodState, State, Sane
<1>2. CASE Fits(s, token)
  <2> DEFINE to == CHOOSE a \in {e[3] : e \in Edges} : <<s.at, token, a>> \in Edges
  <2>1. to \in Place
    <3>1. PICK e \in Edges : e[1] = s.at /\ e[2] = token
      BY <1>2 DEF Fits
    <3>2. e = <<s.at, token, e[3]>>
      BY <3>1, EdgesAre
    <3>3. \E a \in {d[3] : d \in Edges} : <<s.at, token, a>> \in Edges
      BY <3>2
    <3> QED BY <3>3 DEF Place
  <2> HIDE DEF to
  <2> DEFINE local == IF to \in {"first", "word", "local", "spec"} THEN s.lval ELSE s.local
             head  == CASE s.at \in {"domain", "specdomain"} -> [mailbox |-> s.local, domain |-> s.lval]
                        [] s.at = "angle" /\ to = "done" -> [mailbox |-> <<>>, domain |-> NULL]
                        [] s.at = "done" -> BLANK
                        [] OTHER -> s.head
             list  == IF s.at = "done" THEN <<s.head>> \o s.list ELSE s.list
             group == s.group \/ to = "group"
  <2>2. Shift(s, token) = [s EXCEPT !.at = to, !.local = local, !.head = head, !.list = list, !.group = group]
    BY <1>2 DEF Shift, to
  <2>3. local \in Value
    BY DEF GoodState, State
  <2>4. head \in Entry
    <3>1. <<>> \in Text
      BY EmptySeq DEF Text
    <3> QED BY <3>1 DEF GoodState, State, Entry, Value, BLANK
  <2>5. list \in Seq(Entry)
    <3>1. s.head \in Entry /\ s.list \in Seq(Entry)
      BY DEF GoodState, State
    <3>2. <<s.head>> \in Seq(Entry)
      BY <3>1, SingletonSeqIs
    <3> QED BY <3>1, <3>2, ConcatProperties
  <2>6. group \in BOOLEAN
    BY DEF GoodState, State
  <2> HIDE DEF local, head, list, group
  <2>7. [s EXCEPT !.at = to, !.local = local, !.head = head, !.list = list, !.group = group] \in State
    BY <2>1, <2>3, <2>4, <2>5, <2>6 DEF GoodState, State
  <2> QED BY <2>2, <2>7 DEF GoodState, State, Sane
<1> QED BY <1>1, <1>2 DEF Shift

LEMMA RefuseKeeps == ASSUME NEW s \in GoodState PROVE Refuse(s) \in GoodState
BY DEF Refuse, GoodState, State, Sane

LEMMA FinishKeeps == ASSUME NEW s \in GoodState PROVE Finish(s) \in GoodState
<1>1. <<BLANK>> \in Seq(Entry) /\ <<s.head>> \o s.list \in Seq(Entry)
  <2>1. BLANK \in Entry /\ s.head \in Entry /\ s.list \in Seq(Entry)
    BY DEF BLANK, Entry, Value, GoodState, State
  <2>2. <<BLANK>> \in Seq(Entry) /\ <<s.head>> \in Seq(Entry)
    BY <2>1, SingletonSeqIs
  <2> QED BY <2>1, <2>2, ConcatProperties
<1>2. [s EXCEPT !.list = <<BLANK>>, !.over = "end"] \in GoodState
  BY <1>1 DEF GoodState, State, Sane
<1>3. [s EXCEPT !.list = <<s.head>> \o @, !.over = "end"] \in GoodState
  <2> DEFINE l == <<s.head>> \o s.list
  <2>1. l \in Seq(Entry)
    BY <1>1
  <2> HIDE DEF l
  <2>2. [s EXCEPT !.list = l, !.over = "end"] \in GoodState
    BY <2>1 DEF GoodState, State, Sane
  <2> QED BY <2>2 DEF l
<1>4. [s EXCEPT !.over = "end"] \in GoodState
  BY DEF GoodState, State, Sane
<1> QED BY <1>2, <1>3, <1>4, RefuseKeeps DEF Finish

\* A new start condition outside comments, and what is between quotes or brackets.
LEMMA StartKeeps ==
  ASSUME NEW s \in GoodState, NEW c \in {"INITIAL", "QSTRING", "DOMAINLIT"}, s.start # "COMMENT"
  PROVE  [s EXCEPT !.start = c] \in GoodState
BY DEF GoodState, State, Sane, Start

LEMMA InsideKeeps ==
  ASSUME NEW s \in GoodState, NEW c \in {"none", "quote", "bracket", "dtext"}
  PROVE  [s EXCEPT !.inside = c] \in GoodState
BY DEF GoodState, State, Sane, Inside

LEMMA WordKeeps ==
  ASSUME NEW s \in GoodState, NEW l \in Lexeme
  PROVE  [s EXCEPT !.lval = <<l>>] \in GoodState
<1>1. <<l>> \in Text
  BY SingletonSeqIs DEF Text, Lexeme
<1> QED BY <1>1 DEF GoodState, State, Sane, Value

LEMMA QuoteKeeps == ASSUME NEW s \in GoodState PROVE Quote(s) \in GoodState
<1>1. CASE s.inside = "none" /\ Fits(s, "qstring")
  BY <1>1, InsideKeeps DEF Quote
<1>2. CASE s.inside = "qtext"
  <2>1. [s EXCEPT !.inside = "none"] \in GoodState /\ [s EXCEPT !.inside = "none"].inside = "none"
    BY InsideKeeps DEF GoodState, State
  <2>2. Shift([s EXCEPT !.inside = "none"], "qstring") \in GoodState
    BY <2>1, ShiftKeeps
  <2> QED BY <1>2, <2>2 DEF Quote
<1> QED BY <1>1, <1>2, RefuseKeeps DEF Quote

LEMMA QuotedKeeps == ASSUME NEW s \in GoodState, NEW l \in Lexeme PROVE Quoted(s, l) \in GoodState
<1>1. <<l>> \in Text
  BY SingletonSeqIs DEF Text, Lexeme
<1>2. CASE s.inside = "quote"
  BY <1>1, <1>2 DEF Quoted, GoodState, State, Sane, Inside, Value
<1>3. CASE s.inside = "qtext"
  <2> DEFINE t == Append(s.lval, l)
  <2>1. t \in Text
    BY <1>3, TextIs DEF GoodState, Sane
  <2> HIDE DEF t
  <2>2. [s EXCEPT !.lval = t] \in GoodState
    BY <2>1 DEF GoodState, State, Sane, Value
  <2> QED BY <1>3, <2>2 DEF Quoted, t
<1> QED BY <1>2, <1>3, RefuseKeeps DEF Quoted

LEMMA ClosingKeeps == ASSUME NEW s \in GoodState PROVE Closing(s) \in GoodState
<1>1. [s EXCEPT !.inside = "none"] \in GoodState /\ [s EXCEPT !.inside = "none"].inside = "none"
  BY InsideKeeps DEF GoodState, State
<1>2. Shift([s EXCEPT !.inside = "none"], "domainlit") \in GoodState
  BY <1>1, ShiftKeeps
<1> QED BY <1>2, RefuseKeeps DEF Closing

LEMMA PlainKeeps == ASSUME NEW s \in GoodState, NEW l \in Lexeme PROVE Plain(s, l) \in GoodState
<1>1. CASE s.inside # "none"
  BY <1>1, RefuseKeeps DEF Plain
<1>2. CASE s.inside = "none"
  <2> DEFINE t == [s EXCEPT !.lval = <<l>>]
  <2>1. t \in GoodState /\ t.inside = "none"
    BY <1>2, WordKeeps DEF GoodState, State
  <2> HIDE DEF t
  <2>2. Shift(s, l) \in GoodState /\ Shift(t, "atom") \in GoodState /\ Shift(t, "dotatom") \in GoodState
    BY <1>2, <2>1, ShiftKeeps
  <2> QED BY <1>2, <2>2 DEF Plain, t
<1> QED BY <1>1, <1>2

LEMMA ScanKeeps == ASSUME NEW s \in GoodState, NEW l \in Lexeme PROVE Scan(s, l) \in GoodState
<1>1. CASE s.over # "no"
  BY <1>1 DEF Scan
<1>2. CASE s.over = "no" /\ s.start = "INITIAL"
  <2>1. [s EXCEPT !.start = "QSTRING"] \in GoodState /\ [s EXCEPT !.start = "DOMAINLIT"] \in GoodState
    BY <1>2, StartKeeps
  <2>2. Quote([s EXCEPT !.start = "QSTRING"]) \in GoodState
    BY <2>1, QuoteKeeps
  <2>3. Opening([s EXCEPT !.start = "DOMAINLIT"]) \in GoodState
    BY <2>1, InsideKeeps, RefuseKeeps DEF Opening
  <2>4. [s EXCEPT !.start = "COMMENT", !.depth = 1] \in GoodState
    <3>1. s \in State /\ (s.inside = "qtext" => s.lval \in Text) /\ "COMMENT" \in Start /\ 1 \in Nat /\ 1 > 0
      BY DEF GoodState, Sane, Start
    <3> DEFINE t == [s EXCEPT !.start = "COMMENT", !.depth = 1]
    <3>2. t \in State /\ t.start = "COMMENT" /\ t.depth = 1 /\ t.inside = s.inside /\ t.lval = s.lval
      BY <3>1 DEF State
    <3> HIDE DEF t
    <3>3. t \in GoodState
      BY <3>1, <3>2 DEF GoodState, Sane
    <3> QED BY <3>3 DEF t
  <2>5. Initial(s, l) \in GoodState
    BY <2>2, <2>3, <2>4, FinishKeeps, PlainKeeps DEF Initial
  <2> QED BY <1>2, <2>5 DEF Scan
<1>3. CASE s.over = "no" /\ s.start = "QSTRING"
  <2>1. [s EXCEPT !.start = "INITIAL"] \in GoodState
    BY <1>3, StartKeeps
  <2>2. QString(s, l) \in GoodState
    BY <2>1, QuoteKeeps, QuotedKeeps DEF QString
  <2> QED BY <1>3, <2>2 DEF Scan
<1>4. CASE s.over = "no" /\ s.start = "DOMAINLIT"
  <2>1. [s EXCEPT !.start = "INITIAL"] \in GoodState
    BY <1>4, StartKeeps
  <2>2. Bracketed(s) \in GoodState
    BY InsideKeeps, RefuseKeeps DEF Bracketed
  <2>3. DomainLit(s, l) \in GoodState
    BY <2>1, <2>2, ClosingKeeps, FinishKeeps DEF DomainLit
  <2> QED BY <1>4, <2>3 DEF Scan
<1>5. CASE s.over = "no" /\ s.start = "COMMENT"
  <2>1. s.depth \in Nat /\ s.depth > 0 /\ s \in State /\ (s.inside = "qtext" => s.lval \in Text)
    BY <1>5 DEF GoodState, State, Sane
  <2>2. [s EXCEPT !.depth = @ + 1] \in GoodState
    BY <1>5, <2>1 DEF GoodState, State, Sane
  <2>3. [s EXCEPT !.depth = @ - 1, !.start = IF s.depth = 1 THEN "INITIAL" ELSE @] \in GoodState
    <3> DEFINE d == s.depth - 1
               c == IF s.depth = 1 THEN "INITIAL" ELSE s.start
    <3>1. d \in Nat /\ c \in Start /\ (c = "COMMENT" <=> d > 0)
      BY <1>5, <2>1 DEF Start
    <3> HIDE DEF d, c
    <3>2. [s EXCEPT !.depth = d, !.start = c] \in GoodState
      BY <2>1, <3>1 DEF GoodState, State, Sane
    <3> QED BY <3>2 DEF d, c
  <2>4. Comment(s, l) \in GoodState
    BY <2>2, <2>3 DEF Comment
  <2> QED BY <1>5, <2>4 DEF Scan
<1>6. s.start \in Start
  BY DEF GoodState, State
<1> QED BY <1>1, <1>2, <1>3, <1>4, <1>5, <1>6 DEF Start

LEMMA BegunIsGood == ASSUME NEW lexer_ \in GoodLexer PROVE Begun(lexer_) \in GoodState
<1>1. <<>> \in Seq(Entry) /\ BLANK \in Entry /\ "start" \in Place
  BY EmptySeq DEF BLANK, Entry, Value, Place
<1> QED BY <1>1 DEF Begun, GoodLexer, Lexer, GoodState, State, Sane, Start, Inside, Value

LEMMA ToldIsGood ==
  ASSUME NEW s \in GoodState
  PROVE  Told(Ended(s)).lexer \in GoodLexer /\ Told(Ended(s)).list \in Seq(Entry)
<1> DEFINE e == Ended(s)
<1>1. e \in GoodState
  BY FinishKeeps DEF Ended
<1> HIDE DEF e
<1>2. Told(e).lexer \in GoodLexer
  BY <1>1 DEF Told, GoodLexer, Lexer, GoodState, State, Sane, Start
<1>3. Told(e).list \in Seq(Entry)
  BY <1>1, EmptySeq DEF Told, GoodState, State
<1> QED BY <1>2, <1>3 DEF e

\* The states that a text is read through.
Scans(lexer_, text, f) ==
  f = [i \in 0..Len(text) |-> IF i = 0 THEN Begun(lexer_) ELSE Scan(f[i - 1], text[i])]
States(lexer_, text) == CHOOSE f : Scans(lexer_, text, f)

LEMMA StatesAre ==
  ASSUME NEW lexer_ \in GoodLexer, NEW text \in Text
  PROVE  LET f == States(lexer_, text)
         IN  /\ f[0] = Begun(lexer_)
             /\ \A i \in 1..Len(text) : f[i] = Scan(f[i - 1], text[i])
             /\ \A i \in 0..Len(text) : f[i] \in GoodState
             /\ Read(lexer_, text) = Told(Ended(f[Len(text)]))
<1> DEFINE N == Len(text)
           init == Begun(lexer_)
           step == [p \in (1..N) \X GoodState |-> Scan(p[2], text[p[1]])]
           f == States(lexer_, text)
<1>1. N \in Nat /\ \A i \in 1..N : text[i] \in Lexeme
  BY TextIs
<1>2. init \in GoodState
  BY BegunIsGood
<1> HIDE DEF N, init
<1>3. step \in Moves(N, GoodState) /\ \A i \in 1..N, s \in GoodState : step[<<i, s>>] = Scan(s, text[i])
  <2>1. \A p \in (1..N) \X GoodState : Scan(p[2], text[p[1]]) \in GoodState
    BY <1>1, ScanKeeps
  <2> QED BY <2>1 DEF Moves
<1> HIDE DEF step
<1>4. PICK g : g \in [0..N -> GoodState] /\ Turns(g, N, init, step)
  BY <1>1, <1>2, <1>3, TurnsExist
<1>5. Scans(lexer_, text, g)
  <2>1. g = [i \in 0..N |-> IF i = 0 THEN init ELSE step[<<i, g[i - 1]>>]]
    BY <1>4 DEF Turns
  <2>2. \A i \in 1..N : step[<<i, g[i - 1]>>] = Scan(g[i - 1], text[i])
    BY <1>1, <1>3, <1>4
  <2>3. \A i \in 0..N : (IF i = 0 THEN init ELSE step[<<i, g[i - 1]>>])
                        = IF i = 0 THEN init ELSE Scan(g[i - 1], text[i])
    BY <1>1, <2>2
  <2>4. g = [i \in 0..N |-> IF i = 0 THEN init ELSE Scan(g[i - 1], text[i])]
    BY <2>1, <2>3
  <2> QED BY <2>4 DEF Scans, N, init
<1>6. Scans(lexer_, text, f)
  BY <1>5 DEF States
<1> HIDE DEF f
<1>7. f = [i \in 0..N |-> IF i = 0 THEN init ELSE Scan(f[i - 1], text[i])]
  BY <1>6 DEF Scans, N, init
<1>8. f[0] = init /\ \A i \in 1..N : f[i] = Scan(f[i - 1], text[i])
  BY <1>1, <1>7
<1>9. \A i \in 0..N : f[i] \in GoodState
  <2>1. \A i \in 1..N : f[i - 1] \in GoodState => f[i] \in GoodState
    BY <1>1, <1>8, ScanKeeps
  <2> QED BY <1>1, <1>2, <1>8, <2>1, KeptToTheEnd
<1>10. Read(lexer_, text) = Told(Ended(f[N]))
  BY DEF Read, States, Scans, f, N
<1> QED BY <1>8, <1>9, <1>10 DEF f, N, init

LEMMA ReadIs ==
  ASSUME NEW lexer_ \in GoodLexer, NEW text \in Text
  PROVE  Read(lexer_, text).lexer \in GoodLexer /\ Read(lexer_, text).list \in Seq(Entry)
<1> DEFINE s == States(lexer_, text)[Len(text)]
<1>1. s \in GoodState /\ Read(lexer_, text) = Told(Ended(s))
  <2>1. Len(text) \in 0..Len(text)
    BY TextIs
  <2> QED BY <2>1, StatesAre
<1> HIDE DEF s
<1> QED BY <1>1, ToldIsGood

-----------------------------------------------------------------------------
(* A text that a lexer reads that is not fresh. *)

Silent == {<<>>, <<BLANK>>}

Count(text, c, n) == Cardinality({i \in 1..n : text[i] = c})

LEMMA CountIs ==
  ASSUME NEW text, NEW c, NEW n \in Nat
  PROVE  /\ Count(text, c, n) \in Nat /\ Count(text, c, 0) = 0
         /\ Count(text, c, n + 1) = Count(text, c, n) + (IF text[n + 1] = c THEN 1 ELSE 0)
<1> DEFINE A(m) == {i \in 1..m : text[i] = c}
<1>1. \A m \in Nat : IsFiniteSet(A(m)) /\ Cardinality(A(m)) \in Nat
  <2> SUFFICES ASSUME NEW m \in Nat PROVE IsFiniteSet(A(m)) /\ Cardinality(A(m)) \in Nat
    OBVIOUS
  <2>1. IsFiniteSet(1..m) /\ A(m) \subseteq 1..m
    BY FS_Interval
  <2> QED BY <2>1, FS_Subset, FS_CardinalityType
<1>2. A(0) = {} /\ Cardinality({}) = 0
  <2>1. A(0) = {}
    OBVIOUS
  <2> QED BY <2>1, FS_EmptySet
<1>3. Cardinality(A(n + 1)) = Cardinality(A(n)) + (IF text[n + 1] = c THEN 1 ELSE 0)
  <2>1. CASE text[n + 1] = c
    <3>1. A(n + 1) = A(n) \cup {n + 1} /\ n + 1 \notin A(n)
      BY <2>1
    <3> HIDE DEF A
    <3> QED BY <1>1, <2>1, <3>1, FS_AddElement
  <2>2. CASE text[n + 1] # c
    <3>1. A(n + 1) = A(n)
      BY <2>2
    <3>2. Cardinality(A(n)) \in Nat
      BY <1>1
    <3> HIDE DEF A
    <3> QED BY <2>2, <3>1, <3>2
  <2> QED BY <2>1, <2>2
<1> QED BY <1>1, <1>2, <1>3 DEF Count

\* What the parser says of a state at the end of the text.
LEMMA SilentAtStart ==
  ASSUME NEW s \in GoodState, s.over = "no", s.inside = "none", s.at = "start"
  PROVE  Told(Ended(s)).list \in Silent
<1>1. Ended(s) = [s EXCEPT !.list = <<BLANK>>, !.over = "end"]
  BY DEF Ended, Finish
<1>2. [s EXCEPT !.list = <<BLANK>>, !.over = "end"].list = <<BLANK>>
  BY DEF GoodState, State
<1> QED BY <1>1, <1>2 DEF Told, Silent

\* Inside a comment, a text that ends no comment of others stays there.
LEMMA SilentComment ==
  ASSUME NEW lexer_ \in GoodLexer, lexer_.start = "COMMENT", NEW text \in Text, Opened(text)
  PROVE  Read(lexer_, text).list \in Silent
<1> DEFINE N == Len(text)
           f == States(lexer_, text)
           d == lexer_.depth
           In(c, i) == Count(text, c, i)
           Fine(i) == /\ f[i].over = "no" /\ f[i].inside = "none" /\ f[i].at = "start"
                      /\ f[i].start = "COMMENT" /\ f[i].depth = d + In("(", i) - In(")", i)
           S == {i \in 0..N : Fine(i)}
<1>1. /\ f[0] = Begun(lexer_)
      /\ \A i \in 1..N : f[i] = Scan(f[i - 1], text[i])
      /\ \A i \in 0..N : f[i] \in GoodState
      /\ Read(lexer_, text) = Told(Ended(f[N]))
  BY StatesAre
<1>2. N \in Nat /\ DOMAIN text = 1..N
  BY TextIs
<1>3. \A c, i : i \in Nat => /\ In(c, i) \in Nat /\ In(c, 0) = 0
                             /\ In(c, i + 1) = In(c, i) + (IF text[i + 1] = c THEN 1 ELSE 0)
  BY CountIs
<1>4. \A i \in 1..N : In(")", i) <= In("(", i)
  BY <1>2 DEF Opened, Count
<1>5. d \in Nat /\ d > 0
  BY DEF GoodLexer, Lexer
<1> HIDE DEF f, d, In, N
<1>6. 0 \in S
  <2>1. In("(", 0) = 0 /\ In(")", 0) = 0
    BY <1>3
  <2>2. f[0] = [start |-> lexer_.start, depth |-> d, over |-> "no", inside |-> "none",
                at |-> "start", group |-> FALSE, lval |-> NULL, local |-> NULL, head |-> BLANK, list |-> <<>>]
    BY <1>1 DEF Begun, d
  <2> QED BY <1>2, <1>5, <2>1, <2>2
<1>7. ASSUME NEW i \in 0..(N - 1), i \in S PROVE i + 1 \in S
  <2> DEFINE s == f[i]
             l == text[i + 1]
             a == In("(", i)
             b == In(")", i)
  <2>1. i + 1 \in 1..N /\ i + 1 \in 0..N /\ (i + 1) - 1 = i /\ i \in Nat /\ i \in 0..N
    BY <1>2
  <2>2. f[i + 1] = Scan(s, l)
    <3>1. f[i + 1] = Scan(f[(i + 1) - 1], text[i + 1])
      BY <1>1, <2>1
    <3> QED BY <2>1, <3>1
  <2>3. /\ s \in GoodState /\ s.over = "no" /\ s.inside = "none" /\ s.at = "start"
        /\ s.start = "COMMENT" /\ s.depth = d + a - b
    BY <1>1, <1>7, <2>1
  <2>4. /\ a \in Nat /\ b \in Nat
        /\ In("(", i + 1) = a + (IF l = "(" THEN 1 ELSE 0)
        /\ In(")", i + 1) = b + (IF l = ")" THEN 1 ELSE 0)
    BY <1>3, <2>1
  <2>5. In(")", i + 1) <= In("(", i + 1)
    BY <1>4, <2>1
  <2> HIDE DEF s, l, a, b
  <2>6. f[i + 1] = Comment(s, l)
    BY <2>2, <2>3 DEF Scan
  <2>7. s \in State
    BY <2>3 DEF GoodState
  <2>8. CASE l = "("
    <3>1. f[i + 1] = [s EXCEPT !.depth = s.depth + 1]
      BY <2>6, <2>8 DEF Comment
    <3>2. f[i + 1].depth = s.depth + 1
      BY <2>7, <3>1 DEF State
    <3>3. s.depth + 1 = d + In("(", i + 1) - In(")", i + 1)
      BY <1>5, <2>3, <2>4, <2>8
    <3>4. Fine(i + 1)
      BY <2>3, <2>7, <3>1, <3>2, <3>3 DEF State
    <3> QED BY <2>1, <3>4
  <2>9. CASE l = ")"
    <3>1. s.depth # 1 /\ s.depth - 1 = d + In("(", i + 1) - In(")", i + 1)
      BY <1>5, <2>3, <2>4, <2>5, <2>9
    <3>2. f[i + 1] = [s EXCEPT !.depth = s.depth - 1, !.start = s.start]
      BY <2>6, <2>9, <3>1 DEF Comment
    <3>3. f[i + 1].depth = s.depth - 1
      BY <2>7, <3>2 DEF State
    <3>4. Fine(i + 1)
      BY <2>3, <2>7, <3>1, <3>2, <3>3 DEF State
    <3> QED BY <2>1, <3>4
  <2>10. CASE l \notin {"(", ")"}
    <3>1. f[i + 1] = s /\ In("(", i + 1) = a /\ In(")", i + 1) = b
      BY <2>4, <2>6, <2>10 DEF Comment
    <3> QED BY <2>1, <2>3, <3>1
  <2> QED BY <2>8, <2>9, <2>10
<1>8. N \in S
  <2> HIDE DEF S
  <2>1. \A i \in 0..N : i \in S
    BY <1>2, <1>6, <1>7, Induction
  <2> QED BY <1>2, <2>1
<1> QED BY <1>1, <1>2, <1>8, SilentAtStart

\* Inside a quotation or a domain literal, the first character that does not
\* make the parser refuse or end leaves it waiting for the rest of a string, which
\* the lexer, now between strings, does not have.
Deaf(s) ==
  \/ s.over = "error"
  \/ s.over = "end" /\ s.list = <<BLANK>>
  \/ s.over = "no" /\ s.inside = "quote" /\ s.start \in {"INITIAL", "COMMENT"}
  \/ /\ s.over = "no" /\ s.inside = "none" /\ s.at = "start"
     /\ s.start \in {"QSTRING", "DOMAINLIT"}
DeafStates == {s \in GoodState : Deaf(s)}

LEMMA RefusedIsDeaf == ASSUME NEW s \in GoodState PROVE Deaf(Refuse(s))
BY DEF Deaf, Refuse, GoodState, State

LEMMA StaysDeaf ==
  ASSUME NEW s \in DeafStates, NEW l \in Lexeme
  PROVE  Scan(s, l) \in DeafStates
<1>1. s \in GoodState /\ s \in State /\ Deaf(s) /\ Scan(s, l) \in GoodState
  BY ScanKeeps DEF DeafStates, GoodState
<1>2. CASE s.over # "no"
  BY <1>1, <1>2 DEF Scan, DeafStates
<1>3. CASE s.over = "no" /\ s.inside = "quote" /\ s.start = "INITIAL"
  <2>1. Scan(s, l) = Initial(s, l)
    BY <1>3 DEF Scan
  <2>2. CASE l = "\""
    <3> DEFINE t == [s EXCEPT !.start = "QSTRING"]
    <3>1. t \in GoodState /\ t.inside = "quote"
      BY <1>1, <1>3, StartKeeps DEF State
    <3> HIDE DEF t
    <3>2. Quote(t) = Refuse(t)
      BY <3>1 DEF Quote
    <3>3. Initial(s, l) = Quote(t)
      BY <2>2 DEF Initial, t
    <3> QED BY <1>1, <2>1, <3>1, <3>2, <3>3, RefusedIsDeaf DEF DeafStates
  <2>3. CASE l = "["
    <3> DEFINE t == [s EXCEPT !.start = "DOMAINLIT"]
    <3>1. t \in GoodState /\ t.inside = "quote"
      BY <1>1, <1>3, StartKeeps DEF State
    <3> HIDE DEF t
    <3>2. Opening(t) = Refuse(t)
      BY <3>1 DEF Opening
    <3>3. Initial(s, l) = Opening(t)
      BY <2>3 DEF Initial, t
    <3> QED BY <1>1, <2>1, <3>1, <3>2, <3>3, RefusedIsDeaf DEF DeafStates
  <2>4. CASE l = "("
    <3>1. Initial(s, l) = [s EXCEPT !.start = "COMMENT", !.depth = 1]
      BY <2>4 DEF Initial
    <3>2. Deaf(Initial(s, l))
      BY <1>1, <1>3, <3>1 DEF Deaf, State
    <3> QED BY <1>1, <2>1, <3>2 DEF DeafStates
  <2>5. CASE l = ")"
    <3>1. Initial(s, l) = Refuse(s)
      BY <1>3, <2>5 DEF Initial, Finish
    <3> QED BY <1>1, <2>1, <3>1, RefusedIsDeaf DEF DeafStates
  <2>6. CASE l = " "
    <3>1. Initial(s, l) = s
      BY <2>6 DEF Initial
    <3> QED BY <1>1, <2>1, <3>1 DEF DeafStates
  <2>7. CASE l \notin {"\"", "[", "(", ")", " "}
    <3>1. Initial(s, l) = Refuse(s)
      BY <1>3, <2>7 DEF Initial, Plain
    <3> QED BY <1>1, <2>1, <3>1, RefusedIsDeaf DEF DeafStates
  <2> QED BY <2>2, <2>3, <2>4, <2>5, <2>6, <2>7
<1>4. CASE s.over = "no" /\ s.inside = "quote" /\ s.start = "COMMENT"
  <2>1. Scan(s, l) = Comment(s, l)
    BY <1>4 DEF Scan
  <2>2. Deaf(Comment(s, l))
    BY <1>1, <1>4 DEF Comment, Deaf, State
  <2> QED BY <1>1, <2>1, <2>2 DEF DeafStates
<1>5. CASE s.over = "no" /\ s.inside = "none" /\ s.at = "start" /\ s.start = "QSTRING"
  <2>1. Scan(s, l) = QString(s, l)
    BY <1>5 DEF Scan
  <2>2. CASE l = "\""
    <3> DEFINE t == [s EXCEPT !.start = "INITIAL"]
    <3>1. t \in GoodState /\ t \in State /\ t.inside = "none" /\ t.start = "INITIAL" /\ t.over = "no"
      BY <1>1, <1>5, StartKeeps DEF GoodState, State
    <3> HIDE DEF t
    <3>2. QString(s, l) = Quote(t)
      BY <2>2 DEF QString, t
    <3>3. CASE Fits(t, "qstring")
      <4>1. Quote(t) = [t EXCEPT !.inside = "quote"]
        BY <3>1, <3>3 DEF Quote
      <4>2. Deaf(Quote(t))
        BY <3>1, <4>1 DEF Deaf, State
      <4> QED BY <1>1, <2>1, <3>2, <4>2 DEF DeafStates
    <3>4. CASE ~Fits(t, "qstring")
      <4>1. Quote(t) = Refuse(t)
        BY <3>1, <3>4 DEF Quote
      <4> QED BY <1>1, <2>1, <3>1, <3>2, <4>1, RefusedIsDeaf DEF DeafStates
    <3> QED BY <3>3, <3>4
  <2>3. CASE l # "\""
    <3>1. QString(s, l) = Refuse(s)
      BY <1>5, <2>3 DEF QString, Quoted
    <3> QED BY <1>1, <2>1, <3>1, RefusedIsDeaf DEF DeafStates
  <2> QED BY <2>2, <2>3
<1>6. CASE s.over = "no" /\ s.inside = "none" /\ s.at = "start" /\ s.start = "DOMAINLIT"
  <2>1. Scan(s, l) = DomainLit(s, l)
    BY <1>6 DEF Scan
  <2>2. CASE l = "]"
    <3> DEFINE t == [s EXCEPT !.start = "INITIAL"]
    <3>1. t \in GoodState /\ t.inside = "none"
      BY <1>1, <1>6, StartKeeps DEF State
    <3> HIDE DEF t
    <3>2. DomainLit(s, l) = Refuse(t)
      BY <2>2, <3>1 DEF DomainLit, Closing, t
    <3> QED BY <1>1, <2>1, <3>1, <3>2, RefusedIsDeaf DEF DeafStates
  <2>3. CASE l = "["
    <3>1. DomainLit(s, l) = [s EXCEPT !.list = <<BLANK>>, !.over = "end"]
      BY <1>6, <2>3 DEF DomainLit, Finish
    <3>2. Deaf(DomainLit(s, l))
      BY <1>1, <3>1 DEF Deaf, State
    <3> QED BY <1>1, <2>1, <3>2 DEF DeafStates
  <2>4. CASE l \notin {"[", "]"}
    <3>1. DomainLit(s, l) = Refuse(s)
      BY <1>6, <2>4 DEF DomainLit, Bracketed
    <3> QED BY <1>1, <2>1, <3>1, RefusedIsDeaf DEF DeafStates
  <2> QED BY <2>2, <2>3, <2>4
<1> QED BY <1>1, <1>2, <1>3, <1>4, <1>5, <1>6 DEF Deaf

LEMMA SilentString ==
  ASSUME NEW lexer_ \in GoodLexer, lexer_.start \in {"QSTRING", "DOMAINLIT"}, NEW text \in Text
  PROVE  Read(lexer_, text).list \in Silent
<1> DEFINE N == Len(text)
           f == States(lexer_, text)
<1>1. /\ f[0] = Begun(lexer_)
      /\ \A i \in 1..N : f[i] = Scan(f[i - 1], text[i])
      /\ \A i \in 0..N : f[i] \in GoodState
      /\ Read(lexer_, text) = Told(Ended(f[N]))
  BY StatesAre
<1>2. N \in Nat /\ \A i \in 1..N : text[i] \in Lexeme
  BY TextIs
<1>3. f[0] \in DeafStates
  BY <1>1, BegunIsGood DEF Begun, DeafStates, Deaf
<1> HIDE DEF f, N
<1>4. \A i \in 1..N : f[i - 1] \in DeafStates => f[i] \in DeafStates
  BY <1>1, <1>2, StaysDeaf
<1>5. f[N] \in DeafStates
  <2>1. \A i \in 0..N : f[i] \in DeafStates
    BY <1>2, <1>3, <1>4, KeptToTheEnd
  <2> QED BY <1>2, <2>1
<1> DEFINE s == f[N]
<1>6. s \in GoodState /\ Deaf(s)
  BY <1>5 DEF DeafStates
<1> HIDE DEF s
<1>7. Told(Ended(s)).list \in Silent
  <2>1. CASE s.over = "error"
    BY <2>1 DEF Ended, Told, Silent
  <2>2. CASE s.over = "end" /\ s.list = <<BLANK>>
    BY <2>2 DEF Ended, Told, Silent
  <2>3. CASE s.over = "no" /\ s.inside = "quote"
    <3>1. Ended(s) = Refuse(s)
      BY <2>3 DEF Ended, Finish
    <3>2. Refuse(s).over = "error"
      BY <1>6 DEF Refuse, GoodState, State
    <3> QED BY <3>1, <3>2 DEF Told, Silent
  <2>4. CASE s.over = "no" /\ s.inside = "none" /\ s.at = "start"
    BY <1>6, <2>4, SilentAtStart
  <2> QED BY <1>6, <2>1, <2>2, <2>3, <2>4 DEF Deaf
<1> QED BY <1>1, <1>7 DEF s

\* A text is read as a fresh lexer reads it, or nothing of it is heard.
LEMMA FreshOrSilent ==
  ASSUME NEW lexer_ \in GoodLexer, NEW text \in Text, Opened(text)
  PROVE  lexer_ = FreshLexer \/ Read(lexer_, text).list \in Silent
<1>1. CASE lexer_.start = "COMMENT"
  BY <1>1, SilentComment
<1>2. CASE lexer_.start \in {"QSTRING", "DOMAINLIT"}
  BY <1>2, SilentString
<1>3. CASE lexer_.start = "INITIAL"
  BY <1>3 DEF GoodLexer, Lexer, FreshLexer
<1> QED BY <1>1, <1>2, <1>3 DEF GoodLexer, Lexer

-----------------------------------------------------------------------------
(* What is heard of a text. *)

LEMMA GivenIs ==
  ASSUME NEW list \in Seq(Entry)
  PROVE  /\ Len(Given(list)) \in Nat /\ DOMAIN Given(list) = 1..Len(Given(list))
         /\ list \in Silent => Len(Given(list)) = 0
<1> DEFINE B == {i \in DOMAIN list : list[i] # BLANK}
           n == Cardinality(B)
<1>1. n \in Nat
  <2>1. DOMAIN list = 1..Len(list) /\ Len(list) \in Nat
    BY LenProperties
  <2>2. IsFiniteSet(1..Len(list)) /\ B \subseteq 1..Len(list)
    BY <2>1, FS_Interval
  <2> HIDE DEF B
  <2> QED BY <2>2, FS_Subset, FS_CardinalityType
<1>2. list \in Silent => n = 0
  <2>1. list \in Silent => B = {}
    BY DEF Silent
  <2> QED BY <2>1, FS_EmptySet
<1> HIDE DEF n
<1>3. Given(list) = [i \in 1..n |-> Address(list[i])]
  BY DEF Given, n
<1>4. DOMAIN Given(list) = 1..n /\ Len(Given(list)) = n
  BY <1>1, <1>3
<1> QED BY <1>1, <1>2, <1>4

LEMMA FreshIsGood == FreshLexer \in GoodLexer
BY DEF FreshLexer, GoodLexer, Lexer

\* The addresses of a body, as a fresh lexer reads it.
Addresses(text) == Range(Given(Read(FreshLexer, text).list))

LEMMA HeardIs ==
  ASSUME NEW lexer_ \in GoodLexer, NEW text \in Text
  PROVE  /\ Heard(Read(lexer_, text)).lexer \in GoodLexer
         /\ Opened(text) => /\ Heard(Read(lexer_, text)).address \in {NULL, Named(text)}
                            /\ Range(Given(Read(lexer_, text).list)) \subseteq Addresses(text)
         /\ lexer_ = FreshLexer => /\ Heard(Read(lexer_, text)).address = Named(text)
                                   /\ Range(Given(Read(lexer_, text).list)) = Addresses(text)
                                   /\ Closed(text) => Heard(Read(lexer_, text)).lexer = FreshLexer
<1> DEFINE r == Read(lexer_, text)
<1>1. r.lexer \in GoodLexer /\ r.list \in Seq(Entry)
  BY ReadIs
<1>2. text # NULL
  BY LexemesAssumption
<1>3. lexer_ = FreshLexer => r = Read(FreshLexer, text)
  OBVIOUS
<1>4. Opened(text) => lexer_ = FreshLexer \/ r.list \in Silent
  BY FreshOrSilent
<1> HIDE DEF r
<1>5. r.list \in Silent => FirstGiven(r.list) = NULL /\ Range(Given(r.list)) = {}
  <2>1. ASSUME r.list \in Silent PROVE Range(Given(r.list)) = {}
    <3>1. DOMAIN Given(r.list) = 1..0
      BY <1>1, <2>1, GivenIs
    <3> QED BY <3>1 DEF Range
  <2>2. r.list \in Silent => FirstGiven(r.list) = NULL
    BY DEF FirstGiven, Silent
  <2> QED BY <2>1, <2>2
<1>6. Heard(r) = [lexer |-> r.lexer, address |-> FirstGiven(r.list)]
  BY DEF Heard
<1>7. Named(text) = FirstGiven(Read(FreshLexer, text).list)
  BY <1>2 DEF Named
<1>8. lexer_ = FreshLexer => /\ Heard(r).address = Named(text)
                             /\ Range(Given(r.list)) = Addresses(text)
                             /\ Closed(text) => Heard(r).lexer = FreshLexer
  BY <1>3, <1>6, <1>7 DEF Addresses, Closed
<1>9. Opened(text) => /\ Heard(r).address \in {NULL, Named(text)}
                      /\ Range(Given(r.list)) \subseteq Addresses(text)
  BY <1>4, <1>5, <1>6, <1>8
<1> QED BY <1>1, <1>6, <1>8, <1>9 DEF r

LEMMA ParsedIs ==
  ASSUME NEW lexer_ \in GoodLexer, NEW text \in Text \cup {NULL}
  PROVE  /\ Parsed(lexer_, text).lexer \in GoodLexer
         /\ (text # NULL => Opened(text)) => Parsed(lexer_, text).address \in {NULL, Named(text)}
         /\ lexer_ = FreshLexer => /\ Parsed(lexer_, text).address = Named(text)
                                   /\ (text # NULL => Closed(text)) => Parsed(lexer_, text).lexer = FreshLexer
<1>1. CASE text = NULL
  BY <1>1 DEF Parsed, Named
<1>2. CASE text # NULL
  <2>1. text \in Text /\ Parsed(lexer_, text) = Heard(Read(lexer_, text))
    BY <1>2 DEF Parsed
  <2> QED BY <1>2, <2>1, HeardIs
<1> QED BY <1>1, <1>2
-----------------------------------------------------------------------------
(* The headers, which skipping blanks and storing the sender change. *)

Bodies == Text \cup {NULL}
Sent == "auto-submitted"
Prec == "precedence"

\* The sender, who was stored, or whose blanks were skipped afterwards.
Sender(m, b) == b = m.from \/ (m.from # NULL /\ b = Skip(m.from))

\* The bodies behind the first are the same.
Rest(bodies, others) == \A i \in 2..Len(bodies) : bodies[i] = others[i]

\* What is still true of the arrays: only the first bodies of two headers change,
\* and the sender stands only where no robot's precedence stood.
Kin(m, hs) ==
  /\ DOMAIN hs = DOMAIN m.headers
  /\ \A h \in DOMAIN hs : hs[h] \in Seq(Bodies) /\ Len(hs[h]) = Len(m.headers[h])
  /\ \A h \in DOMAIN hs : Rest(hs[h], m.headers[h])
  /\ \A h \in DOMAIN hs \ {Sent, Prec} : hs[h] = m.headers[h]
  /\ Sent \in DOMAIN hs /\ hs[Sent] # <<>> =>
       hs[Sent][1] \in {m.headers[Sent][1], Skip(m.headers[Sent][1])}
  /\ Prec \in DOMAIN hs /\ hs[Prec] # <<>> =>
       \/ hs[Prec][1] \in {m.headers[Prec][1], Skip(m.headers[Prec][1])}
       \/ /\ Lowered(Skip(m.headers[Prec][1])) \notin Robots
          /\ Sender(m, hs[Prec][1])

LEMMA HeadersApart ==
  /\ \A h \in Lists \cup Range(Recipients) : h \notin {Sent, Prec}
  /\ Sent # Prec
  /\ \A i \in 1..6 : Recipients[i] \in Range(Recipients)
  /\ \A h \in Range(Recipients) : \E i \in 1..6 : h = Recipients[i]
  /\ DOMAIN Recipients = 1..6 /\ Len(Recipients) = 6
<1>1. DOMAIN Recipients = 1..6 /\ Len(Recipients) = 6
  BY DEF Recipients
<1>2. Range(Recipients) = {Recipients[i] : i \in 1..6}
  BY <1>1 DEF Range
<1>3. \A i \in 1..6 : Recipients[i] \notin {Sent, Prec}
  BY DEF Recipients, Sent, Prec
<1>4. \A h \in Lists : h \notin {Sent, Prec}
  BY DEF Lists, Sent, Prec
<1>5. \A h \in Range(Recipients) : \E i \in 1..6 : h = Recipients[i]
  BY <1>2
<1>6. Sent # Prec
  BY DEF Sent, Prec
<1> QED BY <1>1, <1>2, <1>3, <1>4, <1>5, <1>6

\* Blanks are skipped once.
NoBlank(text) == {i \in DOMAIN text : text[i] # " "}
FirstAt(text) == CHOOSE i \in NoBlank(text) : \A j \in NoBlank(text) : i <= j

LEMMA FirstWord ==
  ASSUME NEW text \in Text, NoBlank(text) # {}
  PROVE  /\ FirstAt(text) \in 1..Len(text) /\ text[FirstAt(text)] # " "
         /\ \A j \in NoBlank(text) : FirstAt(text) <= j
         /\ Skip(text) = SubSeq(text, FirstAt(text), Len(text))
<1>1. Len(text) \in Nat /\ NoBlank(text) \subseteq 1..Len(text) /\ \A i \in NoBlank(text) : text[i] # " "
  BY TextIs DEF NoBlank
<1>2. \E i \in NoBlank(text) : \A j \in NoBlank(text) : i <= j
  <2> DEFINE N == Len(text)
             B == NoBlank(text)
  <2>1. N \in Nat /\ B \subseteq 1..N
    BY <1>1
  <2> HIDE DEF N, B
  <2>2. B \subseteq Nat
    BY <2>1
  <2>3. \E i \in B : \A j \in B : i <= j
    <3>1. B # {}
      BY DEF B
    <3> QED BY <2>2, <3>1, Least
  <2> QED BY <2>3 DEF B
<1>3. FirstAt(text) \in NoBlank(text) /\ \A j \in NoBlank(text) : FirstAt(text) <= j
  BY <1>2 DEF FirstAt
<1>4. Skip(text) = SubSeq(text, FirstAt(text), Len(text))
  BY DEF Skip, FirstAt, NoBlank
<1> QED BY <1>1, <1>3, <1>4

LEMMA SkipIs ==
  ASSUME NEW text \in Text
  PROVE  Skip(text) \in Text /\ Skip(Skip(text)) = Skip(text)
<1>1. CASE NoBlank(text) = {}
  <2>1. Skip(text) = <<>>
    BY <1>1 DEF Skip, NoBlank
  <2>2. NoBlank(<<>>) = {}
    BY DEF NoBlank
  <2>3. Skip(<<>>) = <<>> /\ <<>> \in Text
    BY <2>2, EmptySeq DEF Skip, Text, NoBlank
  <2> QED BY <2>1, <2>3
<1>2. CASE NoBlank(text) # {}
  <2> DEFINE N == Len(text)
             k == FirstAt(text)
             n == N - k + 1
             u == SubSeq(text, k, N)
  <2>1. Skip(text) = u /\ k \in 1..N /\ N \in Nat /\ text[k] # " "
    BY <1>2, FirstWord, TextIs
  <2>2. \A i \in 1..N : text[i] \in Lexeme
    BY TextIs
  <2> HIDE DEF N, k
  <2>3. /\ n \in Nat /\ 1 \in 1..n /\ k + 1 - 1 = k /\ k \in Int /\ N \in Int /\ k <= N
        /\ \A i \in k..N : i \in 1..N
    <3>1. k \in 1..N /\ N \in Nat
      BY <2>1
    <3> QED BY <3>1
  <2>4. \A i \in k..N : text[i] \in Lexeme
    BY <2>2, <2>3
  <2>5. u \in Seq(Lexeme) /\ Len(u) = n /\ \A i \in 1..n : u[i] = text[k + i - 1]
    BY <2>3, <2>4, SubSeqProperties
  <2> HIDE DEF u, n
  <2>6. u \in Text /\ Len(u) = n /\ DOMAIN u = 1..n /\ u[1] # " "
    BY <2>1, <2>3, <2>5, TextIs DEF Text, Lexeme
  <2>7. NoBlank(u) # {} /\ 1 \in NoBlank(u)
    BY <2>3, <2>6 DEF NoBlank
  <2>8. FirstAt(u) = 1
    <3>1. FirstAt(u) \in 1..n /\ FirstAt(u) <= 1
      BY <2>6, <2>7, FirstWord
    <3> QED BY <2>3, <3>1
  <2>9. Skip(u) = SubSeq(u, 1, Len(u))
    BY <2>6, <2>7, <2>8, FirstWord
  <2>10. SubSeq(u, 1, Len(u)) = u
    BY <2>5, SubSeqFull
  <2> QED BY <2>1, <2>6, <2>9, <2>10
<1> QED BY <1>1, <1>2

LEMMA MessageIs ==
  ASSUME NEW m \in Message
  PROVE  /\ m.from \in Bodies /\ m.to \in Bodies /\ NULL \notin Text
         /\ \A h \in DOMAIN m.headers :
              /\ m.headers[h] \in Seq(Text) /\ Len(m.headers[h]) \in Nat
              /\ m.headers[h] \in Seq(Bodies)
              /\ \A i \in 1..Len(m.headers[h]) : m.headers[h][i] \in Text
              /\ m.headers[h] # <<>> => m.headers[h][1] \in Text /\ Len(m.headers[h]) > 0
<1>1. m.from \in Bodies /\ m.to \in Bodies
  BY MessagesAssumption DEF Bodies
<1>2. ASSUME NEW t \in Seq(Text)
      PROVE  /\ Len(t) \in Nat /\ t \in Seq(Bodies) /\ (\A i \in 1..Len(t) : t[i] \in Text)
             /\ t # <<>> => t[1] \in Text /\ Len(t) > 0
  <2>1. Len(t) \in Nat /\ \A i \in 1..Len(t) : t[i] \in Text
    BY LenProperties, ElementOfSeq
  <2>2. t # <<>> => Len(t) > 0
    BY <2>1, EmptySeq
  <2>3. t \in Seq(Bodies)
    BY SeqMonotonic DEF Bodies
  <2>4. t # <<>> => t[1] \in Text
    <3>1. t # <<>> => 1 \in 1..Len(t)
      BY <2>1, <2>2
    <3> QED BY <2>1, <3>1
  <2> QED BY <2>1, <2>2, <2>3, <2>4
<1>3. \A h \in DOMAIN m.headers : m.headers[h] \in Seq(Text)
  BY MessagesAssumption
<1> QED BY <1>1, <1>2, <1>3, LexemesAssumption

\* A first body is replaced.
ButFirst(g, hs, h, t) ==
  /\ DOMAIN g = DOMAIN hs /\ \A x \in DOMAIN hs \ {h} : g[x] = hs[x]
  /\ g[h] \in Seq(Bodies) /\ Len(g[h]) = Len(hs[h]) /\ g[h] # <<>> /\ g[h][1] = t
  /\ Rest(g[h], hs[h])

LEMMA FirstReplaced ==
  ASSUME NEW hs, NEW h \in DOMAIN hs, hs[h] \in Seq(Bodies), hs[h] # <<>>, NEW t \in Bodies
  PROVE  ButFirst([hs EXCEPT ![h][1] = t], hs, h, t)
<1> DEFINE s == hs[h]
           u == [s EXCEPT ![1] = t]
           g == [hs EXCEPT ![h][1] = t]
<1>1. s \in Seq(Bodies) /\ Len(s) \in Nat /\ Len(s) > 0 /\ DOMAIN s = 1..Len(s)
  BY LenProperties, EmptySeq
<1>2. g = [hs EXCEPT ![h] = u]
  OBVIOUS
<1> HIDE DEF s
<1>3. 1 \in 1..Len(s) /\ s \in [1..Len(s) -> Bodies]
  BY <1>1, LenProperties
<1>4. u \in [1..Len(s) -> Bodies] /\ u[1] = t /\ \A i \in 2..Len(s) : u[i] = s[i]
  BY <1>1, <1>3
<1>5. u \in Seq(Bodies) /\ Len(u) = Len(s)
  <2> DEFINE n == Len(s)
  <2> HIDE DEF u, n
  <2>1. n \in Nat /\ u \in [1..n -> Bodies]
    BY <1>1, <1>4 DEF n
  <2>2. u \in Seq(Bodies)
    BY <2>1, SeqDef
  <2>3. DOMAIN u = 1..n
    BY <2>1
  <2>4. Len(u) = n
    BY <2>1, <2>2, <2>3, LenProperties
  <2> QED BY <2>2, <2>4 DEF n
<1>6. u # <<>>
  BY <1>1, <1>5
<1> HIDE DEF u
<1>7. DOMAIN g = DOMAIN hs /\ g[h] = u /\ \A x \in DOMAIN hs \ {h} : g[x] = hs[x]
  BY <1>2
<1> HIDE DEF g
<1>8. Rest(u, s)
  BY <1>4, <1>5 DEF Rest
<1>9. ButFirst(g, hs, h, t)
  BY <1>4, <1>5, <1>6, <1>7, <1>8 DEF ButFirst, s
<1> QED BY <1>9 DEF g

LEMMA FoundIs ==
  ASSUME NEW m, NEW hs, Kin(m, hs), NEW h
  PROVE  Found(hs, h) <=> h \in DOMAIN hs /\ hs[h] # <<>> /\ hs[h][1] # NULL
BY DEF Found, Body

LEMMA KinBody ==
  ASSUME NEW m, NEW hs, Kin(m, hs), NEW h, h \in DOMAIN hs, hs[h] # <<>>
  PROVE  hs[h] \in Seq(Bodies) /\ hs[h][1] \in Bodies /\ m.headers[h] # <<>>
<1>1. hs[h] \in Seq(Bodies) /\ Len(hs[h]) = Len(m.headers[h])
  BY DEF Kin
<1>2. Len(hs[h]) \in Nat /\ Len(hs[h]) > 0
  BY <1>1, LenProperties, EmptySeq
<1>3. 1 \in 1..Len(hs[h])
  BY <1>2
<1>4. hs[h][1] \in Bodies
  BY <1>1, <1>3, ElementOfSeq
<1>5. m.headers[h] # <<>>
  <2>1. Len(<<>>) = 0
    BY EmptySeq
  <2> QED BY <1>1, <1>2, <2>1
<1> QED BY <1>1, <1>4, <1>5

LEMMA SkippedIs ==
  ASSUME NEW m \in Message, NEW hs, Kin(m, hs), NEW h \in {Sent, Prec}
  PROVE  LET g == Skipped(hs, h)
         IN  /\ Kin(m, g) /\ \A x \in DOMAIN hs \ {h} : g[x] = hs[x]
             /\ \A x : Found(g, x) <=> Found(hs, x)
             /\ Found(hs, h) => g[h][1] = Skip(hs[h][1])
<1> DEFINE g == Skipped(hs, h)
<1>1. CASE ~Found(hs, h)
  BY <1>1 DEF Skipped
<1>2. CASE Found(hs, h)
  <2> DEFINE t == Skip(hs[h][1])
  <2>1. h \in DOMAIN hs /\ hs[h] # <<>> /\ hs[h][1] # NULL
    BY <1>2, FoundIs
  <2>2. hs[h] \in Seq(Bodies) /\ hs[h][1] \in Text /\ m.headers[h] # <<>> /\ h \in DOMAIN m.headers
    BY <2>1, KinBody DEF Bodies, Kin
  <2>3. t \in Text /\ Skip(t) = t /\ NULL \notin Text /\ t \in Bodies
    BY <2>2, SkipIs, MessageIs DEF Bodies
  <2>4. g = [hs EXCEPT ![h][1] = t]
    BY <1>2 DEF Skipped
  <2>5. m.headers[h][1] \in Text /\ (m.from # NULL => m.from \in Text)
    BY <2>2, MessageIs DEF Bodies
  <2>6. Skip(Skip(m.headers[h][1])) = Skip(m.headers[h][1]) /\ (m.from # NULL => Skip(Skip(m.from)) = Skip(m.from))
    BY <2>5, SkipIs
  <2> HIDE DEF g
  <2>7. /\ DOMAIN g = DOMAIN hs /\ \A x \in DOMAIN hs \ {h} : g[x] = hs[x]
        /\ g[h] \in Seq(Bodies) /\ Len(g[h]) = Len(hs[h]) /\ g[h] # <<>> /\ g[h][1] = t
        /\ Rest(g[h], hs[h])
    <3> HIDE DEF t
    <3>1. ButFirst([hs EXCEPT ![h][1] = t], hs, h, t)
      BY <2>1, <2>2, <2>3, FirstReplaced
    <3>2. ButFirst(g, hs, h, t)
      BY <2>4, <3>1
    <3> QED BY <3>2 DEF ButFirst
  <2>8. \A x : Found(g, x) <=> Found(hs, x)
    <3> SUFFICES ASSUME NEW x PROVE Found(g, x) <=> Found(hs, x)
      OBVIOUS
    <3>1. CASE x = h
      <4>1. Found(g, h)
        BY <2>1, <2>3, <2>7 DEF Found, Body
      <4> QED BY <1>2, <3>1, <4>1
    <3>2. CASE x # h
      BY <2>7, <3>2 DEF Found, Body
    <3> QED BY <3>1, <3>2
  <2>9. Kin(m, g)
    <3>1. DOMAIN g = DOMAIN m.headers /\ \A x \in DOMAIN g : g[x] \in Seq(Bodies) /\ Len(g[x]) = Len(m.headers[x])
      BY <2>1, <2>7 DEF Kin
    <3>2. \A x \in DOMAIN g \ {Sent, Prec} : g[x] = m.headers[x]
      BY <2>7 DEF Kin
    <3>3. Sent # Prec
      BY HeadersApart
    <3>4. Sent \in DOMAIN g /\ g[Sent] # <<>> => g[Sent][1] \in {m.headers[Sent][1], Skip(m.headers[Sent][1])}
      <4>1. CASE h = Sent
        <5>1. hs[h][1] \in {m.headers[h][1], Skip(m.headers[h][1])}
          BY <2>1, <4>1 DEF Kin
        <5> QED BY <2>6, <2>7, <4>1, <5>1
      <4>2. CASE h = Prec
        BY <2>7, <3>3, <4>2 DEF Kin
      <4> QED BY <4>1, <4>2
    <3>5. Prec \in DOMAIN g /\ g[Prec] # <<>> =>
            \/ g[Prec][1] \in {m.headers[Prec][1], Skip(m.headers[Prec][1])}
            \/ /\ Lowered(Skip(m.headers[Prec][1])) \notin Robots
               /\ Sender(m, g[Prec][1])
      <4>1. CASE h = Prec
        <5>1. \/ hs[h][1] \in {m.headers[h][1], Skip(m.headers[h][1])}
              \/ /\ Lowered(Skip(m.headers[h][1])) \notin Robots
                 /\ Sender(m, hs[h][1])
          BY <2>1, <4>1 DEF Kin
        <5>2. CASE hs[h][1] \in {m.headers[h][1], Skip(m.headers[h][1])}
          BY <2>6, <2>7, <4>1, <5>2
        <5>3. CASE /\ Lowered(Skip(m.headers[h][1])) \notin Robots
                   /\ Sender(m, hs[h][1])
          <6>1. m.from # NULL
            BY <2>1, <5>3 DEF Sender
          <6>2. g[h][1] = Skip(m.from)
            BY <2>6, <2>7, <5>3, <6>1 DEF Sender
          <6> QED BY <4>1, <5>3, <6>1, <6>2 DEF Sender
        <5> QED BY <5>1, <5>2, <5>3
      <4>2. CASE h = Sent
        BY <2>7, <3>3, <4>2 DEF Kin
      <4> QED BY <4>1, <4>2
    <3>6. \A x \in DOMAIN g : Rest(g[x], m.headers[x])
      <4>1. Rest(g[h], m.headers[h])
        BY <2>1, <2>7 DEF Kin, Rest
      <4>2. \A x \in DOMAIN g \ {h} : Rest(g[x], m.headers[x])
        BY <2>7 DEF Kin
      <4> QED BY <4>1, <4>2
    <3> QED BY <3>1, <3>2, <3>4, <3>5, <3>6 DEF Kin
  <2> QED BY <2>7, <2>8, <2>9 DEF g
<1> QED BY <1>1, <1>2

\* The first bodies that a command sees, once the blanks are skipped.
Skipping(hs) == Skipped(Skipped(hs, Sent), Prec)

LEMMA SkippingIs ==
  ASSUME NEW m \in Message, NEW hs, Kin(m, hs)
  PROVE  LET g == Skipping(hs)
         IN  /\ Kin(m, g)
             /\ Found(g, Sent) <=> Sent \in DOMAIN m.headers /\ m.headers[Sent] # <<>>
             /\ Found(g, Sent) => g[Sent][1] = Skip(m.headers[Sent][1])
             /\ Found(g, Prec) =>
                  /\ Prec \in DOMAIN m.headers /\ m.headers[Prec] # <<>>
                  /\ \/ g[Prec][1] = Skip(m.headers[Prec][1])
                     \/ /\ Lowered(Skip(m.headers[Prec][1])) \notin Robots
                        /\ m.from # NULL /\ g[Prec][1] = Skip(m.from)
             /\ ~Found(g, Prec) /\ Prec \in DOMAIN m.headers /\ m.headers[Prec] # <<>> =>
                  Lowered(Skip(m.headers[Prec][1])) \notin Robots
<1> DEFINE f == Skipped(hs, Sent)
           g == Skipping(hs)
<1>1. Sent # Prec
  BY HeadersApart
<1>2. /\ Kin(m, f) /\ \A x \in DOMAIN hs \ {Sent} : f[x] = hs[x]
      /\ \A x : Found(f, x) <=> Found(hs, x)
      /\ Found(hs, Sent) => f[Sent][1] = Skip(hs[Sent][1])
  BY SkippedIs
<1> HIDE DEF f
<1>3. /\ Kin(m, g) /\ \A x \in DOMAIN f \ {Prec} : g[x] = f[x]
      /\ \A x : Found(g, x) <=> Found(f, x)
      /\ Found(f, Prec) => g[Prec][1] = Skip(f[Prec][1])
  BY <1>2, SkippedIs DEF Skipping, f
<1> HIDE DEF g
<1>4. Found(g, Sent) <=> Found(hs, Sent)
  BY <1>2, <1>3
<1>5. ASSUME Sent \in DOMAIN m.headers, m.headers[Sent] # <<>>
      PROVE  Found(hs, Sent) /\ Skip(hs[Sent][1]) = Skip(m.headers[Sent][1])
  <2>1. Sent \in DOMAIN hs /\ hs[Sent] \in Seq(Bodies) /\ Len(hs[Sent]) = Len(m.headers[Sent])
    BY <1>5 DEF Kin
  <2>2. m.headers[Sent][1] \in Text /\ Len(m.headers[Sent]) > 0 /\ NULL \notin Text
    BY <1>5, MessageIs
  <2>3. hs[Sent] # <<>>
    <3>1. Len(<<>>) = 0
      BY EmptySeq
    <3> QED BY <2>1, <2>2, <3>1
  <2>4. hs[Sent][1] \in {m.headers[Sent][1], Skip(m.headers[Sent][1])}
    BY <2>1, <2>3 DEF Kin
  <2>5. Skip(m.headers[Sent][1]) \in Text /\ Skip(Skip(m.headers[Sent][1])) = Skip(m.headers[Sent][1])
    BY <2>2, SkipIs
  <2> QED BY <2>1, <2>2, <2>3, <2>4, <2>5, FoundIs
<1>6. Found(hs, Sent) => Sent \in DOMAIN m.headers /\ m.headers[Sent] # <<>>
  <2>1. ASSUME Found(hs, Sent) PROVE Sent \in DOMAIN m.headers /\ m.headers[Sent] # <<>>
    <3>1. Sent \in DOMAIN hs /\ hs[Sent] # <<>>
      BY <2>1, FoundIs
    <3>2. m.headers[Sent] # <<>>
      BY <3>1, KinBody
    <3> QED BY <3>1, <3>2 DEF Kin
  <2> QED BY <2>1
<1>7. Found(g, Sent) => g[Sent][1] = Skip(m.headers[Sent][1])
  <2>1. ASSUME Found(g, Sent) PROVE g[Sent][1] = Skip(m.headers[Sent][1])
    <3>1. Sent \in DOMAIN m.headers /\ m.headers[Sent] # <<>> /\ Found(hs, Sent)
      BY <1>4, <1>6, <2>1
    <3>2. Sent \in DOMAIN f
      BY <1>2, <3>1 DEF Kin
    <3>3. g[Sent] = f[Sent]
      BY <1>1, <1>3, <3>2
    <3> QED BY <1>2, <1>5, <3>1, <3>3
  <2> QED BY <2>1
\* The precedence.
<1>8. Found(g, Prec) <=> Found(hs, Prec)
  BY <1>2, <1>3
<1>9. Found(hs, Prec) => g[Prec][1] = Skip(hs[Prec][1])
  <2>1. ASSUME Found(hs, Prec) PROVE g[Prec][1] = Skip(hs[Prec][1])
    <3>1. Prec \in DOMAIN hs /\ Found(f, Prec)
      BY <1>2, <2>1, FoundIs
    <3>2. f[Prec] = hs[Prec]
      BY <1>1, <1>2, <3>1
    <3> QED BY <1>3, <3>1, <3>2
  <2> QED BY <2>1
<1>10. ASSUME Found(hs, Prec)
       PROVE  /\ Prec \in DOMAIN m.headers /\ m.headers[Prec] # <<>>
              /\ \/ g[Prec][1] = Skip(m.headers[Prec][1])
                 \/ /\ Lowered(Skip(m.headers[Prec][1])) \notin Robots
                    /\ m.from # NULL /\ g[Prec][1] = Skip(m.from)
  <2>1. Prec \in DOMAIN hs /\ hs[Prec] # <<>> /\ hs[Prec][1] # NULL
    BY <1>10, FoundIs
  <2>2. Prec \in DOMAIN m.headers /\ m.headers[Prec] # <<>>
    BY <2>1, KinBody DEF Kin
  <2>3. m.headers[Prec][1] \in Text /\ (m.from # NULL => m.from \in Text)
    BY <2>2, MessageIs DEF Bodies
  <2>4. Skip(Skip(m.headers[Prec][1])) = Skip(m.headers[Prec][1]) /\ (m.from # NULL => Skip(Skip(m.from)) = Skip(m.from))
    BY <2>3, SkipIs
  <2>5. \/ hs[Prec][1] \in {m.headers[Prec][1], Skip(m.headers[Prec][1])}
        \/ /\ Lowered(Skip(m.headers[Prec][1])) \notin Robots
           /\ Sender(m, hs[Prec][1])
    BY <2>1 DEF Kin
  <2>6. CASE hs[Prec][1] \in {m.headers[Prec][1], Skip(m.headers[Prec][1])}
    BY <1>9, <1>10, <2>2, <2>4, <2>6
  <2>7. CASE Lowered(Skip(m.headers[Prec][1])) \notin Robots /\ Sender(m, hs[Prec][1])
    BY <1>9, <1>10, <2>1, <2>2, <2>4, <2>7 DEF Sender
  <2> QED BY <2>5, <2>6, <2>7
<1>11. ASSUME ~Found(hs, Prec), Prec \in DOMAIN m.headers, m.headers[Prec] # <<>>
       PROVE  Lowered(Skip(m.headers[Prec][1])) \notin Robots
  <2>1. m.headers[Prec][1] \in Text /\ NULL \notin Text /\ Len(m.headers[Prec]) > 0
    BY <1>11, MessageIs
  <2>2. Skip(m.headers[Prec][1]) \in Text
    BY <2>1, SkipIs
  <2>3. Prec \in DOMAIN hs /\ hs[Prec] # <<>>
    <3>1. Len(<<>>) = 0
      BY EmptySeq
    <3> QED BY <1>11, <2>1, <3>1 DEF Kin
  <2>4. hs[Prec][1] = NULL
    BY <1>11, <2>3, FoundIs
  <2> QED BY <2>1, <2>2, <2>3, <2>4 DEF Kin
<1> QED BY <1>3, <1>4, <1>5, <1>6, <1>7, <1>8, <1>10, <1>11 DEF g

LEMMA ListsAreLeft ==
  ASSUME NEW m \in Message, NEW hs, Kin(m, hs), NEW h, h \notin {Sent, Prec}
  PROVE  Body(hs, h) = Body(m.headers, h) /\ (Found(hs, h) <=> Body(m.headers, h) # <<>>)
<1>1. CASE h \in DOMAIN hs
  <2>1. hs[h] = m.headers[h] /\ h \in DOMAIN m.headers
    BY <1>1 DEF Kin
  <2>2. m.headers[h] # <<>> => m.headers[h][1] # NULL
    BY <2>1, MessageIs
  <2> QED BY <1>1, <2>1, <2>2 DEF Found, Body
<1>2. CASE h \notin DOMAIN hs
  BY <1>2 DEF Found, Body, Kin
<1> QED BY <1>1, <1>2

LEMMA FirstOfIs ==
  ASSUME NEW m \in Message, NEW h
  PROVE  FirstOf(m, h) = IF h \in DOMAIN m.headers /\ m.headers[h] # <<>> THEN {m.headers[h][1]} ELSE {}
<1> DEFINE b == Body(m.headers, h)
<1>1. CASE h \in DOMAIN m.headers /\ m.headers[h] # <<>>
  <2>1. b = m.headers[h] /\ Len(b) \in Nat /\ Len(b) > 0 /\ b \in Seq(Text)
    BY <1>1, MessageIs DEF Body
  <2> HIDE DEF b
  <2>2. DOMAIN b = 1..Len(b)
    BY <2>1, LenProperties
  <2>3. DOMAIN b \cap {1} = {1}
    BY <2>1, <2>2
  <2>4. FirstOf(m, h) = {b[i] : i \in DOMAIN b \cap {1}}
    BY DEF FirstOf, b
  <2>5. FirstOf(m, h) = {b[1]}
    BY <2>3, <2>4
  <2> QED BY <1>1, <2>1, <2>5
<1>2. CASE ~(h \in DOMAIN m.headers /\ m.headers[h] # <<>>)
  <2>1. b = <<>>
    BY <1>2 DEF Body
  <2> QED BY <1>2, <2>1 DEF FirstOf
<1> QED BY <1>1, <1>2

\* A message that is not handled as one of a program or a list was none when it
\* arrived, whatever was stored since.
LEMMA AutomaticIs ==
  ASSUME NEW m \in Message, NEW hs, Kin(m, hs)
  PROVE  LET g == Skipping(hs)
         IN  /\ ~Automatic(g) => ~Forwarded(m)
             /\ ~Forwarded(m) /\ (m.from # NULL => Lowered(Skip(m.from)) \notin Robots) => ~Automatic(g)
<1> DEFINE g == Skipping(hs)
           o(h) == m.headers[h][1]
           Has(h) == h \in DOMAIN m.headers /\ m.headers[h] # <<>>
<1>1. /\ Kin(m, g)
      /\ Found(g, Sent) <=> Has(Sent)
      /\ Found(g, Sent) => g[Sent][1] = Skip(o(Sent))
      /\ Found(g, Prec) =>
           /\ Has(Prec)
           /\ \/ g[Prec][1] = Skip(o(Prec))
              \/ Lowered(Skip(o(Prec))) \notin Robots /\ m.from # NULL /\ g[Prec][1] = Skip(m.from)
      /\ ~Found(g, Prec) /\ Has(Prec) => Lowered(Skip(o(Prec))) \notin Robots
  BY SkippingIs
<1> HIDE DEF g
<1>2. \A h \in Lists : Found(g, h) <=> Body(m.headers, h) # <<>>
  BY <1>1, HeadersApart, ListsAreLeft
<1>3. /\ FirstOf(m, Sent) = IF Has(Sent) THEN {o(Sent)} ELSE {}
      /\ FirstOf(m, Prec) = IF Has(Prec) THEN {o(Prec)} ELSE {}
  BY FirstOfIs
<1> HIDE DEF o, Has
<1>4. Forwarded(m) <=> \/ \E h \in Lists : Body(m.headers, h) # <<>>
                       \/ Has(Prec) /\ Lowered(Skip(o(Prec))) \in Robots
                       \/ Has(Sent) /\ Lowered(Skip(o(Sent))) # <<"no">>
  BY <1>3 DEF Forwarded, Sent, Prec
<1>5. Automatic(g) <=> \/ Found(g, Sent) /\ Lowered(g[Sent][1]) # <<"no">>
                       \/ \E h \in Lists : Found(g, h)
                       \/ Found(g, Prec) /\ Lowered(g[Prec][1]) \in Robots
  BY DEF Automatic, Sent, Prec
<1>6. ~Automatic(g) => ~Forwarded(m)
  BY <1>1, <1>2, <1>4, <1>5
<1>7. ~Forwarded(m) /\ (m.from # NULL => Lowered(Skip(m.from)) \notin Robots) => ~Automatic(g)
  BY <1>1, <1>2, <1>4, <1>5
<1> QED BY <1>6, <1>7 DEF g

LEMMA StoredIs ==
  ASSUME NEW m \in Message, NEW hs, Kin(m, hs), ~Automatic(Skipping(hs))
  PROVE  Kin(m, Stored(Skipping(hs), m.from))
<1> DEFINE g == Skipping(hs)
           f == Stored(g, m.from)
<1>1. Kin(m, g) /\ ~Forwarded(m)
  BY SkippingIs, AutomaticIs
<1> HIDE DEF g
<1>2. CASE ~Found(g, Prec)
  BY <1>1, <1>2 DEF Stored, Prec, g
<1>3. CASE Found(g, Prec)
  <2>1. Prec \in DOMAIN g /\ g[Prec] # <<>> /\ g[Prec] \in Seq(Bodies)
    BY <1>1, <1>3, FoundIs, KinBody
  <2>2. Prec \in DOMAIN m.headers /\ m.headers[Prec] # <<>>
    BY <1>1, <2>1, KinBody DEF Kin
  <2>3. Lowered(Skip(m.headers[Prec][1])) \notin Robots
    <3>1. FirstOf(m, Prec) = {m.headers[Prec][1]}
      BY <2>2, FirstOfIs
    <3> QED BY <1>1, <3>1 DEF Forwarded, Prec
  <2>4. f = [g EXCEPT ![Prec][1] = m.from] /\ m.from \in Bodies
    BY <1>3, MessageIs DEF Stored, Prec
  <2> HIDE DEF f
  <2>5. /\ DOMAIN f = DOMAIN g /\ \A x \in DOMAIN g \ {Prec} : f[x] = g[x]
        /\ f[Prec] \in Seq(Bodies) /\ Len(f[Prec]) = Len(g[Prec]) /\ f[Prec] # <<>> /\ f[Prec][1] = m.from
        /\ Rest(f[Prec], g[Prec])
    <3>1. ButFirst([g EXCEPT ![Prec][1] = m.from], g, Prec, m.from)
      BY <2>1, <2>4, FirstReplaced
    <3>2. ButFirst(f, g, Prec, m.from)
      BY <2>4, <3>1
    <3> QED BY <3>2 DEF ButFirst
  <2>6. DOMAIN f = DOMAIN m.headers /\ \A x \in DOMAIN f : f[x] \in Seq(Bodies) /\ Len(f[x]) = Len(m.headers[x])
    BY <1>1, <2>1, <2>5 DEF Kin
  <2>7. \A x \in DOMAIN f \ {Sent, Prec} : f[x] = m.headers[x]
    BY <1>1, <2>5 DEF Kin
  <2>8. Sent # Prec
    BY HeadersApart
  <2>9. Sent \in DOMAIN f /\ f[Sent] # <<>> => f[Sent][1] \in {m.headers[Sent][1], Skip(m.headers[Sent][1])}
    BY <1>1, <2>5, <2>8 DEF Kin
  <2>10. \A x \in DOMAIN f : Rest(f[x], m.headers[x])
    <3>1. Rest(f[Prec], m.headers[Prec])
      BY <1>1, <2>1, <2>5 DEF Kin, Rest
    <3>2. \A x \in DOMAIN f \ {Prec} : Rest(f[x], m.headers[x])
      BY <1>1, <2>5 DEF Kin
    <3> QED BY <3>1, <3>2
  <2>11. Kin(m, f)
    BY <2>3, <2>5, <2>6, <2>7, <2>9, <2>10 DEF Kin, Sender
  <2> QED BY <2>11 DEF f, g
<1> QED BY <1>2, <1>3

-----------------------------------------------------------------------------
(* The search for an own address.  One part of it leads from a result r to   *)
(* q, where Ok are the own addresses that are named in what the part reads.  *)
(* If op, that texts end no comments of others, what is found is one of them, *)
(* or was found before.  If pl, that the texts are plain, it is found if      *)
(* there is one.                                                             *)

Result(v, me) == [lexer : GoodLexer, found : {NULL, v.from, me} \cup Range(v.addresses), stopped : BOOLEAN]
Sure(r) == r.lexer = FreshLexer /\ ~r.stopped
Leads(v, me, op, pl, r, q, Ok) ==
  /\ q \in Result(v, me)
  /\ op => q.found = r.found \/ q.found \in Ok
  /\ pl /\ Sure(r) => /\ Sure(q)
                      /\ r.found # NULL \/ Ok # {} => q.found # NULL

LEMMA LeadsOn ==
  ASSUME NEW v, NEW me, NEW op, NEW pl, NEW r, NEW q, NEW p, NEW Ok, NEW More,
         Leads(v, me, op, pl, r, q, Ok), Leads(v, me, op, pl, q, p, More)
  PROVE  Leads(v, me, op, pl, r, p, Ok \cup More)
BY DEF Leads

LEMMA LeadsNowhere ==
  ASSUME NEW v, NEW me, NEW op, NEW pl, NEW r \in Result(v, me)
  PROVE  /\ Leads(v, me, op, pl, r, r, {})
         /\ \A Ok : Over(r) \/ ~pl => Leads(v, me, op, pl, r, r, Ok)
BY DEF Leads, Over, Sure

\* A loop of N such parts.
Loop(v, me, op, pl, N, f, Ok) ==
  /\ N \in Nat /\ f[0] \in Result(v, me)
  /\ \A i \in 1..N : f[i - 1] \in Result(v, me) => Leads(v, me, op, pl, f[i - 1], f[i], Ok[i])
Gathered(Ok, n) == UNION {Ok[i] : i \in 1..n}

LEMMA LoopLeads ==
  ASSUME NEW v, NEW me, NEW op, NEW pl, NEW N, NEW f, NEW Ok, Loop(v, me, op, pl, N, f, Ok)
  PROVE  Leads(v, me, op, pl, f[0], f[N], Gathered(Ok, N))
<1> DEFINE U(n) == Gathered(Ok, n)
           L(n) == Leads(v, me, op, pl, f[0], f[n], U(n))
           S == {n \in 0..N : L(n)}
<1> USE DEF Loop
<1>1. U(0) = {}
  BY DEF Gathered
<1>2. 0 \in S
  <2>1. Leads(v, me, op, pl, f[0], f[0], {})
    BY LeadsNowhere
  <2> HIDE DEF U
  <2> QED BY <1>1, <2>1
<1>3. ASSUME NEW n \in 0..(N - 1), n \in S PROVE n + 1 \in S
  <2>1. n + 1 \in 1..N /\ n + 1 \in 0..N /\ (n + 1) - 1 = n /\ n \in Nat
    OBVIOUS
  <2>2. U(n + 1) = U(n) \cup Ok[n + 1]
    <3>1. 1..(n + 1) = 1..n \cup {n + 1}
      BY <2>1
    <3> QED BY <3>1 DEF Gathered
  <2>3. L(n)
    BY <1>3
  <2> HIDE DEF U
  <2>4. Leads(v, me, op, pl, f[n], f[n + 1], Ok[n + 1])
    <3>1. f[n] \in Result(v, me)
      BY <2>3 DEF Leads
    <3>2. f[(n + 1) - 1] \in Result(v, me) => Leads(v, me, op, pl, f[(n + 1) - 1], f[n + 1], Ok[n + 1])
      BY <2>1
    <3> QED BY <2>1, <3>1, <3>2
  <2>5. Leads(v, me, op, pl, f[0], f[n + 1], U(n) \cup Ok[n + 1])
    BY <2>3, <2>4, LeadsOn
  <2>6. L(n + 1)
    BY <2>2, <2>5
  <2> QED BY <2>1, <2>6
<1>4. N \in S
  <2> HIDE DEF S
  <2>1. \A n \in 0..N : n \in S
    BY <1>2, <1>3, Induction
  <2> QED BY <2>1
<1> QED BY <1>4

LEMMA RequestIs ==
  ASSUME NEW v \in Request
  PROVE  /\ Len(v.addresses) \in Nat /\ DOMAIN v.addresses = 1..Len(v.addresses)
         /\ \A i \in 1..Len(v.addresses) : v.addresses[i] \in Text /\ v.addresses[i] \in Range(v.addresses)
         /\ Range(v.addresses) = {v.addresses[i] : i \in 1..Len(v.addresses)}
         /\ Range(v.addresses) \subseteq Text /\ v.from \in Bodies
<1>1. v.addresses \in Seq(Text) /\ v.from \in Bodies
  BY MessagesAssumption DEF Bodies
<1>2. Len(v.addresses) \in Nat /\ DOMAIN v.addresses = 1..Len(v.addresses)
  BY <1>1, LenProperties
<1>3. \A i \in 1..Len(v.addresses) : v.addresses[i] \in Text
  BY <1>1, ElementOfSeq
<1>4. Range(v.addresses) = {v.addresses[i] : i \in 1..Len(v.addresses)}
  BY <1>2 DEF Range
<1> QED BY <1>1, <1>2, <1>3, <1>4

\* What an address is the own address by: the recipient's, or one of the script.
Alike(own, address) == Named(own) # NULL /\ Lowered(Named(own)) = Lowered(address)
Suit(v, me, address) ==
  {f \in {me} : Lowered(address) = Lowered(me)} \cup {f \in Range(v.addresses) : Alike(f, address)}

\* The texts of the script that op and pl speak of.
OwnOpened(v) == \A text \in Range(v.addresses) : Opened(text)
OwnPlain(v)  == \A text \in Range(v.addresses) : Closed(text) /\ Named(text) # NULL

LEMMA CompareLeads ==
  ASSUME NEW v \in Request, NEW me, NEW r \in Result(v, me), NEW own \in Range(v.addresses), NEW address,
         NEW op, NEW pl, op => OwnOpened(v), pl => OwnPlain(v)
  PROVE  Leads(v, me, op, pl, r, Compare(r, address, own), {f \in {own} : Alike(f, address)})
<1> DEFINE read == Heard(Read(r.lexer, own))
           q == Compare(r, address, own)
           Ok == {f \in {own} : Alike(f, address)}
<1>1. CASE Over(r)
  <2>1. q = r
    BY <1>1 DEF Compare
  <2> QED BY <1>1, <2>1, LeadsNowhere
<1>2. CASE ~Over(r)
  <2>1. r.found = NULL /\ ~r.stopped
    BY <1>2 DEF Over
  <2>2. own \in Text /\ NULL \notin Text /\ r.lexer \in GoodLexer /\ own # NULL
    BY RequestIs, LexemesAssumption DEF Result
  <2>3. /\ read.lexer \in GoodLexer
        /\ Opened(own) => read.address \in {NULL, Named(own)}
        /\ r.lexer = FreshLexer => read.address = Named(own) /\ (Closed(own) => read.lexer = FreshLexer)
    BY <2>2, HeardIs
  <2> HIDE DEF read
  <2>4. q = [lexer |-> read.lexer, stopped |-> read.address = NULL,
             found |-> IF read.address # NULL /\ Lowered(read.address) = Lowered(address) THEN own ELSE NULL]
    BY <1>2 DEF Compare, read
  <2> HIDE DEF q
  <2>5. q \in Result(v, me)
    BY <2>3, <2>4 DEF Result
  <2>6. /\ q.lexer = read.lexer /\ q.stopped = (read.address = NULL)
        /\ q.found = IF read.address # NULL /\ Lowered(read.address) = Lowered(address) THEN own ELSE NULL
    BY <2>4
  <2>7. op => q.found = r.found \/ q.found \in Ok
    BY <2>1, <2>3, <2>6 DEF OwnOpened, Alike
  <2>8. ASSUME pl, Sure(r) PROVE Sure(q) /\ (Ok # {} => q.found # NULL)
    <3>1. Closed(own) /\ Named(own) # NULL /\ r.lexer = FreshLexer
      BY <2>8 DEF OwnPlain, Sure
    <3>2. read.address = Named(own) /\ read.lexer = FreshLexer
      BY <2>3, <3>1
    <3>3. Ok # {} => Alike(own, address)
      OBVIOUS
    <3> QED BY <2>2, <2>6, <3>1, <3>2, <3>3 DEF Sure, Alike
  <2>9. Leads(v, me, op, pl, r, q, Ok)
    BY <2>1, <2>5, <2>7, <2>8 DEF Leads
  <2> QED BY <2>9 DEF q
<1> QED BY <1>1, <1>2

\* The loop over the addresses of the script.
Compares(r, address, v, f) ==
  f = [i \in 0..Len(v.addresses) |-> IF i = 0 THEN r ELSE Compare(f[i - 1], address, v.addresses[i])]
Comparing(r, address, v) == CHOOSE f : Compares(r, address, v, f)

LEMMA ComparesAre ==
  ASSUME NEW v \in Request, NEW me, NEW r \in Result(v, me), NEW address
  PROVE  LET f == Comparing(r, address, v)
         IN  f[0] = r /\ \A i \in 1..Len(v.addresses) : f[i] = Compare(f[i - 1], address, v.addresses[i])
<1> DEFINE N == Len(v.addresses)
           D == Result(v, me)
           next(i, x) == Compare(x, address, v.addresses[i])
           step == [p \in (1..N) \X D |-> next(p[1], p[2])]
           f == Comparing(r, address, v)
<1>1. N \in Nat
  BY RequestIs
<1>2. ASSUME NEW i \in 1..N, NEW x \in D PROVE next(i, x) \in D
  <2>1. v.addresses[i] \in Range(v.addresses)
    BY RequestIs
  <2> DEFINE no == FALSE
  <2>2. no => OwnOpened(v) /\ OwnPlain(v)
    OBVIOUS
  <2> HIDE DEF no
  <2>3. Leads(v, me, no, no, x, next(i, x), {g \in {v.addresses[i]} : Alike(g, address)})
    BY <2>1, <2>2, CompareLeads
  <2> QED BY <2>3 DEF Leads
<1> HIDE DEF N, D, next
<1>3. step \in Moves(N, D) /\ \A i \in 1..N, x \in D : step[<<i, x>>] = next(i, x)
  <2>1. \A p \in (1..N) \X D : next(p[1], p[2]) \in D
    BY <1>2
  <2> QED BY <2>1 DEF Moves
<1> HIDE DEF step
<1>4. PICK g : g \in [0..N -> D] /\ Turns(g, N, r, step)
  BY <1>1, <1>3, TurnsExist DEF D
<1>5. Compares(r, address, v, g)
  <2>1. g = [i \in 0..N |-> IF i = 0 THEN r ELSE step[<<i, g[i - 1]>>]]
    BY <1>4 DEF Turns
  <2>2. \A i \in 1..N : step[<<i, g[i - 1]>>] = next(i, g[i - 1])
    BY <1>1, <1>3, <1>4
  <2>3. \A i \in 0..N : (IF i = 0 THEN r ELSE step[<<i, g[i - 1]>>]) = IF i = 0 THEN r ELSE next(i, g[i - 1])
    BY <1>1, <2>2
  <2>4. g = [i \in 0..N |-> IF i = 0 THEN r ELSE next(i, g[i - 1])]
    BY <2>1, <2>3
  <2> QED BY <2>4 DEF Compares, N, next
<1>6. Compares(r, address, v, f)
  BY <1>5 DEF Comparing
<1> HIDE DEF f
<1>7. f = [i \in 0..N |-> IF i = 0 THEN r ELSE next(i, f[i - 1])]
  BY <1>6 DEF Compares, N, next
<1>8. f[0] = r /\ \A i \in 1..N : f[i] = next(i, f[i - 1])
  BY <1>1, <1>7
<1> QED BY <1>8 DEF f, N, next

LEMMA MatchLeads ==
  ASSUME NEW v \in Request, NEW me, NEW r \in Result(v, me), NEW address,
         NEW op, NEW pl, op => OwnOpened(v), pl => OwnPlain(v) /\ me # NULL
  PROVE  Leads(v, me, op, pl, r, Match(r, address, me, v), Suit(v, me, address))
<1> DEFINE N == Len(v.addresses)
           f == Comparing(r, address, v)
           q == Match(r, address, me, v)
           own(i) == {g \in {v.addresses[i]} : Alike(g, address)}
           Ok == [i \in 1..N |-> own(i)]
<1>1. CASE Over(r)
  <2>1. q = r
    BY <1>1 DEF Match
  <2> QED BY <1>1, <2>1, LeadsNowhere
<1>2. CASE ~Over(r) /\ Lowered(address) = Lowered(me)
  <2>1. r.found = NULL /\ ~r.stopped
    BY <1>2 DEF Over
  <2>2. q = [r EXCEPT !.found = me]
    BY <1>2 DEF Match
  <2>3. q \in Result(v, me) /\ q.found = me /\ q.lexer = r.lexer /\ q.stopped = r.stopped
    BY <2>2 DEF Result
  <2>4. me \in Suit(v, me, address)
    BY <1>2 DEF Suit
  <2> QED BY <2>1, <2>3, <2>4 DEF Leads, Sure
<1>3. CASE ~Over(r) /\ Lowered(address) # Lowered(me)
  <2>1. q = f[N]
    BY <1>3 DEF Match, Compares, Comparing
  <2>2. f[0] = r /\ \A i \in 1..N : f[i] = Compare(f[i - 1], address, v.addresses[i])
    BY ComparesAre
  <2> HIDE DEF f, own
  <2>3. \A i \in 1..N : Ok[i] = own(i)
    OBVIOUS
  <2>4. Gathered(Ok, N) = Suit(v, me, address)
    <3>1. Suit(v, me, address) = {g \in Range(v.addresses) : Alike(g, address)}
      BY <1>3 DEF Suit
    <3>2. Range(v.addresses) = {v.addresses[i] : i \in 1..N}
      BY RequestIs
    <3>3. UNION {own(i) : i \in 1..N} = {g \in Range(v.addresses) : Alike(g, address)}
      BY <3>2 DEF own
    <3>4. {Ok[i] : i \in 1..N} = {own(i) : i \in 1..N}
      BY <2>3
    <3> QED BY <3>1, <3>3, <3>4 DEF Gathered
  <2> HIDE DEF Ok, q
  <2>5. \A i \in 1..N : f[i - 1] \in Result(v, me) => Leads(v, me, op, pl, f[i - 1], f[i], Ok[i])
    <3> SUFFICES ASSUME NEW i \in 1..N, f[i - 1] \in Result(v, me)
                 PROVE  Leads(v, me, op, pl, f[i - 1], f[i], Ok[i])
      OBVIOUS
    <3>1. v.addresses[i] \in Range(v.addresses)
      BY RequestIs
    <3>2. Leads(v, me, op, pl, f[i - 1], Compare(f[i - 1], address, v.addresses[i]), own(i))
      BY <3>1, CompareLeads DEF own
    <3> QED BY <2>2, <2>3, <3>2
  <2>6. N \in Nat
    BY RequestIs
  <2> HIDE DEF N
  <2>7. f[0] \in Result(v, me)
    BY <2>2
  <2>8. Loop(v, me, op, pl, N, f, Ok)
    BY <2>5, <2>6, <2>7 DEF Loop
  <2>9. Leads(v, me, op, pl, f[0], f[N], Gathered(Ok, N))
    BY <2>8, LoopLeads
  <2> QED BY <2>1, <2>2, <2>4, <2>9 DEF q
<1> QED BY <1>1, <1>2, <1>3

\* The loop over the addresses of a body.
Matches(r, given, me, v, f) ==
  f = [i \in 0..Len(given) |-> IF i = 0 THEN r ELSE Match(f[i - 1], given[i], me, v)]
Matching(r, given, me, v) == CHOOSE f : Matches(r, given, me, v, f)

LEMMA MatchesAre ==
  ASSUME NEW v \in Request, NEW me, NEW r \in Result(v, me), NEW given, Len(given) \in Nat
  PROVE  LET f == Matching(r, given, me, v)
         IN  f[0] = r /\ \A i \in 1..Len(given) : f[i] = Match(f[i - 1], given[i], me, v)
<1> DEFINE N == Len(given)
           D == Result(v, me)
           next(i, x) == Match(x, given[i], me, v)
           step == [p \in (1..N) \X D |-> next(p[1], p[2])]
           f == Matching(r, given, me, v)
<1>1. ASSUME NEW i \in 1..N, NEW x \in D PROVE next(i, x) \in D
  <2> DEFINE no == FALSE
  <2>1. no => OwnOpened(v) /\ OwnPlain(v) /\ me # NULL
    OBVIOUS
  <2> HIDE DEF no
  <2>2. Leads(v, me, no, no, x, next(i, x), Suit(v, me, given[i]))
    BY <2>1, MatchLeads
  <2> QED BY <2>2 DEF Leads
<1>2. N \in Nat
  OBVIOUS
<1> HIDE DEF N, D, next
<1>3. step \in Moves(N, D) /\ \A i \in 1..N, x \in D : step[<<i, x>>] = next(i, x)
  <2>1. \A p \in (1..N) \X D : next(p[1], p[2]) \in D
    BY <1>1
  <2> QED BY <2>1 DEF Moves
<1> HIDE DEF step
<1>4. PICK g : g \in [0..N -> D] /\ Turns(g, N, r, step)
  BY <1>2, <1>3, TurnsExist DEF D
<1>5. Matches(r, given, me, v, g)
  <2>1. g = [i \in 0..N |-> IF i = 0 THEN r ELSE step[<<i, g[i - 1]>>]]
    BY <1>4 DEF Turns
  <2>2. \A i \in 1..N : step[<<i, g[i - 1]>>] = next(i, g[i - 1])
    BY <1>2, <1>3, <1>4
  <2>3. \A i \in 0..N : (IF i = 0 THEN r ELSE step[<<i, g[i - 1]>>]) = IF i = 0 THEN r ELSE next(i, g[i - 1])
    BY <1>2, <2>2
  <2>4. g = [i \in 0..N |-> IF i = 0 THEN r ELSE next(i, g[i - 1])]
    BY <2>1, <2>3
  <2> QED BY <2>4 DEF Matches, N, next
<1>6. Matches(r, given, me, v, f)
  BY <1>5 DEF Matching
<1> HIDE DEF f
<1>7. f = [i \in 0..N |-> IF i = 0 THEN r ELSE next(i, f[i - 1])]
  BY <1>6 DEF Matches, N, next
<1>8. f[0] = r /\ \A i \in 1..N : f[i] = next(i, f[i - 1])
  BY <1>2, <1>7
<1> QED BY <1>8 DEF f, N, next

\* The own addresses that a set of addresses names.
Suits(v, me, A) == UNION {Suit(v, me, address) : address \in A}

LEMMA LookInLeads ==
  ASSUME NEW v \in Request, NEW me, NEW r \in Result(v, me), NEW body \in Text,
         NEW op, NEW pl, op => OwnOpened(v) /\ Opened(body),
         pl => OwnPlain(v) /\ me # NULL /\ Closed(body)
  PROVE  Leads(v, me, op, pl, r, LookIn(r, body, me, v), Suits(v, me, Addresses(body)))
<1> DEFINE read == Read(r.lexer, body)
           given == Given(read.list)
           start == [r EXCEPT !.lexer = read.lexer]
           N == Len(given)
           f == Matching(start, given, me, v)
           q == LookIn(r, body, me, v)
           Ok == [i \in 1..N |-> Suit(v, me, given[i])]
           All == Suits(v, me, Addresses(body))
<1>1. CASE Over(r)
  <2>1. q = r
    BY <1>1 DEF LookIn
  <2> QED BY <1>1, <2>1, LeadsNowhere
<1>2. CASE ~Over(r)
  <2>1. r.lexer \in GoodLexer /\ r \in Result(v, me)
    BY DEF Result
  <2>2. /\ read.lexer \in GoodLexer /\ read.list \in Seq(Entry)
        /\ N \in Nat /\ DOMAIN given = 1..N
    BY <2>1, ReadIs, GivenIs
  <2>3. /\ op => Range(given) \subseteq Addresses(body)
        /\ pl /\ Sure(r) => Range(given) = Addresses(body) /\ read.lexer = FreshLexer
    BY <2>1, HeardIs DEF Heard, Sure
  <2>4. q = f[N]
    BY <1>2 DEF LookIn, Matches, Matching
  <2> HIDE DEF read
  <2>5. /\ start \in Result(v, me) /\ start.found = r.found
        /\ start.lexer = read.lexer /\ start.stopped = r.stopped
    BY <2>2 DEF Result
  <2> HIDE DEF given, start
  <2>6. f[0] = start /\ \A i \in 1..N : f[i] = Match(f[i - 1], given[i], me, v)
    BY <2>2, <2>5, MatchesAre
  <2> HIDE DEF f
  <2>7. Gathered(Ok, N) = Suits(v, me, Range(given))
    <3>1. Range(given) = {given[i] : i \in 1..N}
      BY <2>2 DEF Range
    <3>2. {Ok[i] : i \in 1..N} = {Suit(v, me, given[i]) : i \in 1..N}
      OBVIOUS
    <3>3. {Suit(v, me, given[i]) : i \in 1..N} = {Suit(v, me, address) : address \in Range(given)}
      BY <3>1
    <3> QED BY <3>2, <3>3 DEF Gathered, Suits
  <2>8. \A i \in 1..N : f[i - 1] \in Result(v, me) => Leads(v, me, op, pl, f[i - 1], f[i], Ok[i])
    <3> SUFFICES ASSUME NEW i \in 1..N, f[i - 1] \in Result(v, me)
                 PROVE  Leads(v, me, op, pl, f[i - 1], f[i], Ok[i])
      OBVIOUS
    <3>1. Leads(v, me, op, pl, f[i - 1], Match(f[i - 1], given[i], me, v), Suit(v, me, given[i]))
      BY MatchLeads
    <3> QED BY <2>6, <3>1
  <2> HIDE DEF N, Ok, q
  <2>9. Loop(v, me, op, pl, N, f, Ok)
    BY <2>2, <2>5, <2>6, <2>8 DEF Loop
  <2>10. Leads(v, me, op, pl, start, q, Suits(v, me, Range(given)))
    BY <2>4, <2>6, <2>7, <2>9, LoopLeads
  <2>11. op => Suits(v, me, Range(given)) \subseteq All
    BY <2>3 DEF Suits
  <2>12. pl /\ Sure(r) => Suits(v, me, Range(given)) = All /\ Sure(start)
    BY <2>3, <2>5 DEF Sure
  <2> HIDE DEF All
  <2>13. Leads(v, me, op, pl, r, q, All)
    BY <2>5, <2>10, <2>11, <2>12 DEF Leads
  <2> QED BY <2>13 DEF q, All
<1> QED BY <1>1, <1>2

\* The loop over the bodies of a header.
Looks(r, bodies, me, v, f) ==
  f = [i \in 0..Len(bodies) |-> IF i = 0 THEN r ELSE LookIn(f[i - 1], bodies[i], me, v)]
Looking(r, bodies, me, v) == CHOOSE f : Looks(r, bodies, me, v, f)

LEMMA LooksAre ==
  ASSUME NEW v \in Request, NEW me, NEW r \in Result(v, me), NEW bodies \in Seq(Text)
  PROVE  LET f == Looking(r, bodies, me, v)
         IN  f[0] = r /\ \A i \in 1..Len(bodies) : f[i] = LookIn(f[i - 1], bodies[i], me, v)
<1> DEFINE N == Len(bodies)
           D == Result(v, me)
           next(i, x) == LookIn(x, bodies[i], me, v)
           step == [p \in (1..N) \X D |-> next(p[1], p[2])]
           f == Looking(r, bodies, me, v)
<1>1. N \in Nat /\ \A i \in 1..N : bodies[i] \in Text
  BY LenProperties, ElementOfSeq
<1>2. ASSUME NEW i \in 1..N, NEW x \in D PROVE next(i, x) \in D
  <2> DEFINE no == FALSE
  <2>1. no => OwnOpened(v) /\ OwnPlain(v) /\ me # NULL /\ Opened(bodies[i]) /\ Closed(bodies[i])
    OBVIOUS
  <2> HIDE DEF no
  <2>2. bodies[i] \in Text
    BY <1>1
  <2>3. Leads(v, me, no, no, x, next(i, x), Suits(v, me, Addresses(bodies[i])))
    BY <2>1, <2>2, LookInLeads
  <2> QED BY <2>3 DEF Leads
<1> HIDE DEF N, D, next
<1>3. step \in Moves(N, D) /\ \A i \in 1..N, x \in D : step[<<i, x>>] = next(i, x)
  <2>1. \A p \in (1..N) \X D : next(p[1], p[2]) \in D
    BY <1>2
  <2> QED BY <2>1 DEF Moves
<1> HIDE DEF step
<1>4. PICK g : g \in [0..N -> D] /\ Turns(g, N, r, step)
  BY <1>1, <1>3, TurnsExist DEF D
<1>5. Looks(r, bodies, me, v, g)
  <2>1. g = [i \in 0..N |-> IF i = 0 THEN r ELSE step[<<i, g[i - 1]>>]]
    BY <1>4 DEF Turns
  <2>2. \A i \in 1..N : step[<<i, g[i - 1]>>] = next(i, g[i - 1])
    BY <1>1, <1>3, <1>4
  <2>3. \A i \in 0..N : (IF i = 0 THEN r ELSE step[<<i, g[i - 1]>>]) = IF i = 0 THEN r ELSE next(i, g[i - 1])
    BY <1>1, <2>2
  <2>4. g = [i \in 0..N |-> IF i = 0 THEN r ELSE next(i, g[i - 1])]
    BY <2>1, <2>3
  <2> QED BY <2>4 DEF Looks, N, next
<1>6. Looks(r, bodies, me, v, f)
  BY <1>5 DEF Looking
<1> HIDE DEF f
<1>7. f = [i \in 0..N |-> IF i = 0 THEN r ELSE next(i, f[i - 1])]
  BY <1>6 DEF Looks, N, next
<1>8. f[0] = r /\ \A i \in 1..N : f[i] = next(i, f[i - 1])
  BY <1>1, <1>7
<1> QED BY <1>8 DEF f, N, next

\* The own addresses that texts name.
SuitIn(v, me, texts) == UNION {Suits(v, me, Addresses(text)) : text \in texts}

LEMMA LookForMeLeads ==
  ASSUME NEW v \in Request, NEW me, NEW r \in Result(v, me), NEW bodies \in Seq(Text),
         NEW op, NEW pl, op => OwnOpened(v) /\ \A body \in Range(bodies) : Opened(body),
         pl => OwnPlain(v) /\ me # NULL /\ \A body \in Range(bodies) : Closed(body)
  PROVE  Leads(v, me, op, pl, r, LookForMe(r, bodies, me, v), SuitIn(v, me, Range(bodies)))
<1> DEFINE N == Len(bodies)
           f == Looking(r, bodies, me, v)
           Ok == [i \in 1..N |-> Suits(v, me, Addresses(bodies[i]))]
<1>1. /\ N \in Nat /\ Range(bodies) = {bodies[i] : i \in 1..N}
      /\ \A i \in 1..N : bodies[i] \in Text /\ bodies[i] \in Range(bodies)
  <2>1. N \in Nat /\ DOMAIN bodies = 1..N /\ \A i \in 1..N : bodies[i] \in Text
    BY LenProperties, ElementOfSeq
  <2> QED BY <2>1 DEF Range
<1>2. f[0] = r /\ \A i \in 1..N : f[i] = LookIn(f[i - 1], bodies[i], me, v)
  BY LooksAre
<1>3. LookForMe(r, bodies, me, v) = f[N]
  BY DEF LookForMe, Looks, Looking
<1> HIDE DEF f, N
<1>4. Gathered(Ok, N) = SuitIn(v, me, Range(bodies))
  <2>1. {Ok[i] : i \in 1..N} = {Suits(v, me, Addresses(bodies[i])) : i \in 1..N}
    OBVIOUS
  <2>2. {Suits(v, me, Addresses(bodies[i])) : i \in 1..N} = {Suits(v, me, Addresses(text)) : text \in Range(bodies)}
    BY <1>1
  <2> QED BY <2>1, <2>2 DEF Gathered, SuitIn
<1>5. \A i \in 1..N : f[i - 1] \in Result(v, me) => Leads(v, me, op, pl, f[i - 1], f[i], Ok[i])
  <2> SUFFICES ASSUME NEW i \in 1..N, f[i - 1] \in Result(v, me)
               PROVE  Leads(v, me, op, pl, f[i - 1], f[i], Ok[i])
    OBVIOUS
  <2>1. bodies[i] \in Text /\ bodies[i] \in Range(bodies)
    BY <1>1
  <2>2. /\ op => OwnOpened(v) /\ Opened(bodies[i])
        /\ pl => OwnPlain(v) /\ me # NULL /\ Closed(bodies[i])
    BY <2>1
  <2>3. Leads(v, me, op, pl, f[i - 1], LookIn(f[i - 1], bodies[i], me, v), Suits(v, me, Addresses(bodies[i])))
    BY <2>1, <2>2, LookInLeads
  <2> QED BY <1>2, <2>3
<1> HIDE DEF Ok
<1>6. Loop(v, me, op, pl, N, f, Ok)
  BY <1>1, <1>2, <1>5 DEF Loop
<1>7. Leads(v, me, op, pl, f[0], f[N], Gathered(Ok, N))
  BY <1>6, LoopLeads
<1> QED BY <1>2, <1>3, <1>4, <1>7

\* The loop over the headers that recipients stand in.
Seek(r, i, hs, me, v) ==
  IF Over(r) \/ me = NULL \/ ~Found(hs, Recipients[i]) THEN r
  ELSE LookForMe(r, Body(hs, Recipients[i]), me, v)
Seeks(r, hs, me, v, f) ==
  f = [i \in 0..Len(Recipients) |->
         IF i = 0 THEN r
         ELSE IF Over(f[i - 1]) \/ me = NULL \/ ~Found(hs, Recipients[i]) THEN f[i - 1]
         ELSE LookForMe(f[i - 1], Body(hs, Recipients[i]), me, v)]
Seeking(r, hs, me, v) == CHOOSE f : Seeks(r, hs, me, v, f)

RecipientsIn(m)  == UNION {Range(Body(m.headers, h)) : h \in Range(Recipients)}
ReadOpened(m, v) == OwnOpened(v) /\ \A body \in RecipientsIn(m) : Opened(body)
ReadPlain(m, v)  == OwnPlain(v) /\ \A body \in RecipientsIn(m) : Closed(body)
SuitBy(m, v, me, i) == SuitIn(v, me, Range(Body(m.headers, Recipients[i])))

LEMMA SeekLeads ==
  ASSUME NEW v \in Request, NEW me, NEW r \in Result(v, me), NEW m \in Message, NEW hs, Kin(m, hs),
         NEW i \in 1..6, NEW op, NEW pl, op => ReadOpened(m, v), pl => ReadPlain(m, v) /\ me # NULL
  PROVE  Leads(v, me, op, pl, r, Seek(r, i, hs, me, v), SuitBy(m, v, me, i))
<1> DEFINE h == Recipients[i]
           b == Body(m.headers, h)
<1>1. h \in Range(Recipients) /\ h \notin {Sent, Prec}
  BY HeadersApart
<1> HIDE DEF h
<1>2. Body(hs, h) = b /\ (Found(hs, h) <=> b # <<>>)
  BY <1>1, ListsAreLeft
<1>3. b \in Seq(Text)
  BY MessageIs, MessagesAssumption, EmptySeq DEF Body
<1>4. \A body \in Range(b) : body \in RecipientsIn(m)
  BY <1>1 DEF RecipientsIn
<1>5. CASE Over(r) \/ me = NULL
  BY <1>5, LeadsNowhere DEF Seek
<1>6. CASE b = <<>>
  <2>1. SuitIn(v, me, Range(<<>>)) = {}
    BY DEF SuitIn, Range
  <2>2. Seek(r, i, hs, me, v) = r
    BY <1>2, <1>6 DEF Seek, h
  <2> QED BY <1>6, <2>1, <2>2, LeadsNowhere DEF SuitBy, h
<1>7. CASE ~Over(r) /\ me # NULL /\ b # <<>>
  <2>1. Seek(r, i, hs, me, v) = LookForMe(r, b, me, v)
    BY <1>2, <1>7 DEF Seek, h
  <2>2. /\ op => OwnOpened(v) /\ \A body \in Range(b) : Opened(body)
        /\ pl => OwnPlain(v) /\ me # NULL /\ \A body \in Range(b) : Closed(body)
    BY <1>4 DEF ReadOpened, ReadPlain
  <2>3. SuitBy(m, v, me, i) = SuitIn(v, me, Range(b))
    BY DEF SuitBy, h
  <2> HIDE DEF b
  <2>4. Leads(v, me, op, pl, r, LookForMe(r, b, me, v), SuitIn(v, me, Range(b)))
    BY <1>3, <2>2, LookForMeLeads
  <2> QED BY <2>1, <2>3, <2>4
<1> QED BY <1>5, <1>6, <1>7

LEMMA SeeksAre ==
  ASSUME NEW v \in Request, NEW me, NEW r \in Result(v, me), NEW m \in Message, NEW hs, Kin(m, hs)
  PROVE  LET f == Seeking(r, hs, me, v)
         IN  f[0] = r /\ \A i \in 1..6 : f[i] = Seek(f[i - 1], i, hs, me, v)
<1> DEFINE N == 6
           D == Result(v, me)
           next(i, x) == Seek(x, i, hs, me, v)
           step == [p \in (1..N) \X D |-> next(p[1], p[2])]
           f == Seeking(r, hs, me, v)
<1>1. N \in Nat /\ Len(Recipients) = N
  BY HeadersApart
<1>2. ASSUME NEW i \in 1..N, NEW x \in D PROVE next(i, x) \in D
  <2> DEFINE no == FALSE
  <2>1. no => ReadOpened(m, v) /\ ReadPlain(m, v) /\ me # NULL
    OBVIOUS
  <2> HIDE DEF no
  <2>2. Leads(v, me, no, no, x, next(i, x), SuitBy(m, v, me, i))
    BY <2>1, SeekLeads
  <2> QED BY <2>2 DEF Leads
<1> HIDE DEF N, D, next
<1>3. step \in Moves(N, D) /\ \A i \in 1..N, x \in D : step[<<i, x>>] = next(i, x)
  <2>1. \A p \in (1..N) \X D : next(p[1], p[2]) \in D
    BY <1>2
  <2> QED BY <2>1 DEF Moves
<1> HIDE DEF step
<1>4. PICK g : g \in [0..N -> D] /\ Turns(g, N, r, step)
  BY <1>1, <1>3, TurnsExist DEF D
<1>5. Seeks(r, hs, me, v, g)
  <2>1. g = [i \in 0..N |-> IF i = 0 THEN r ELSE step[<<i, g[i - 1]>>]]
    BY <1>4 DEF Turns
  <2>2. \A i \in 1..N : step[<<i, g[i - 1]>>] = next(i, g[i - 1])
    BY <1>1, <1>3, <1>4
  <2>3. \A i \in 0..N : (IF i = 0 THEN r ELSE step[<<i, g[i - 1]>>]) = IF i = 0 THEN r ELSE next(i, g[i - 1])
    BY <1>1, <2>2
  <2>4. g = [i \in 0..N |-> IF i = 0 THEN r ELSE next(i, g[i - 1])]
    BY <2>1, <2>3
  <2> QED BY <1>1, <2>4 DEF Seeks, Seek, next
<1>6. Seeks(r, hs, me, v, f)
  BY <1>5 DEF Seeking
<1> HIDE DEF f
<1>7. f = [i \in 0..N |-> IF i = 0 THEN r ELSE next(i, f[i - 1])]
  BY <1>1, <1>6 DEF Seeks, Seek, next
<1>8. f[0] = r /\ \A i \in 1..N : f[i] = next(i, f[i - 1])
  BY <1>1, <1>7
<1> QED BY <1>8 DEF f, N, next

\* All that the search may find.
Own(m, v, me) == UNION {SuitIn(v, me, Range(Body(m.headers, h))) : h \in Range(Recipients)}
Begin(v, lex) == [lexer |-> lex, found |-> v.from, stopped |-> FALSE]

LEMMA SoughtLeads ==
  ASSUME NEW v \in Request, NEW me, NEW lex \in GoodLexer, NEW m \in Message, NEW hs, Kin(m, hs),
         NEW op, NEW pl, op => ReadOpened(m, v), pl => ReadPlain(m, v) /\ me # NULL
  PROVE  Leads(v, me, op, pl, Begin(v, lex), Sought(lex, hs, me, v), Own(m, v, me))
<1> DEFINE r == Begin(v, lex)
           f == Seeking(r, hs, me, v)
           Ok == [i \in 1..6 |-> SuitBy(m, v, me, i)]
<1>1. r \in Result(v, me)
  BY DEF Begin, Result
<1>2. Sought(lex, hs, me, v) = f[6]
  <2>1. Len(Recipients) = 6
    BY HeadersApart
  <2> QED BY <2>1 DEF Sought, Seeking, Seeks, Begin
<1> HIDE DEF r
<1>3. f[0] = r /\ \A i \in 1..6 : f[i] = Seek(f[i - 1], i, hs, me, v)
  BY <1>1, SeeksAre
<1> HIDE DEF f
<1>4. Gathered(Ok, 6) = Own(m, v, me)
  <2>1. {Ok[i] : i \in 1..6} = {SuitBy(m, v, me, i) : i \in 1..6}
    OBVIOUS
  <2>2. {SuitBy(m, v, me, i) : i \in 1..6}
          = {SuitIn(v, me, Range(Body(m.headers, h))) : h \in Range(Recipients)}
    BY HeadersApart DEF SuitBy
  <2> QED BY <2>1, <2>2 DEF Gathered, Own
<1>5. \A i \in 1..6 : f[i - 1] \in Result(v, me) => Leads(v, me, op, pl, f[i - 1], f[i], Ok[i])
  <2> SUFFICES ASSUME NEW i \in 1..6, f[i - 1] \in Result(v, me)
               PROVE  Leads(v, me, op, pl, f[i - 1], f[i], Ok[i])
    OBVIOUS
  <2>1. Leads(v, me, op, pl, f[i - 1], Seek(f[i - 1], i, hs, me, v), SuitBy(m, v, me, i))
    BY SeekLeads
  <2> QED BY <1>3, <2>1
<1> HIDE DEF Ok
<1>6. Loop(v, me, op, pl, 6, f, Ok)
  BY <1>1, <1>3, <1>5 DEF Loop
<1>7. Leads(v, me, op, pl, f[0], f[6], Gathered(Ok, 6))
  BY <1>6, LoopLeads
<1> QED BY <1>2, <1>3, <1>4, <1>7 DEF r

\* Nothing is sought for a command with an address of its own, nor without a recipient.
LEMMA SoughtNowhere ==
  ASSUME NEW v \in Request, NEW me, NEW lex \in GoodLexer, NEW m \in Message, NEW hs, Kin(m, hs),
         v.from # NULL \/ me = NULL
  PROVE  Sought(lex, hs, me, v) = Begin(v, lex)
<1> DEFINE r == Begin(v, lex)
           f == Seeking(r, hs, me, v)
<1>1. r \in Result(v, me) /\ (Over(r) \/ me = NULL)
  BY DEF Begin, Result, Over
<1>2. Sought(lex, hs, me, v) = f[6]
  <2>1. Len(Recipients) = 6
    BY HeadersApart
  <2> QED BY <2>1 DEF Sought, Seeking, Seeks, Begin
<1> HIDE DEF r
<1>3. f[0] = r /\ \A i \in 1..6 : f[i] = Seek(f[i - 1], i, hs, me, v)
  BY <1>1, SeeksAre
<1> HIDE DEF f
<1>4. \A i \in 1..6 : f[i - 1] \in {r} => f[i] \in {r}
  BY <1>1, <1>3 DEF Seek
<1>5. \A i \in 0..6 : f[i] \in {r}
  BY <1>3, <1>4, KeptToTheEnd
<1> QED BY <1>2, <1>5 DEF r

-----------------------------------------------------------------------------
(* The decision. *)

LEMMA TextsAre ==
  ASSUME NEW v \in Request, NEW m \in Message
  PROVE  /\ (\A text \in TextsRead(m, v) : Opened(text)) =>
              ReadOpened(m, v) /\ \A text \in {m.from, m.to} : text # NULL => Opened(text)
         /\ Plainly(m, v) =>
              ReadPlain(m, v) /\ \A text \in {m.from, m.to} : text # NULL => Closed(text)
<1>1. \A text \in Range(v.addresses) : text \in TextsRead(m, v)
  BY RequestIs, MessageIs DEF TextsRead
<1>2. \A text \in {m.from, m.to} : text # NULL => text \in TextsRead(m, v)
  BY DEF TextsRead
<1>3. \A body \in RecipientsIn(m) : body \in TextsRead(m, v)
  <2>1. ASSUME NEW h \in Range(Recipients), NEW body \in Range(Body(m.headers, h)) PROVE body # NULL
    <3>1. CASE h \in DOMAIN m.headers
      BY <3>1, MessageIs DEF Body, Range
    <3>2. CASE h \notin DOMAIN m.headers
      BY <3>2 DEF Body, Range
    <3> QED BY <3>1, <3>2
  <2> QED BY <2>1 DEF RecipientsIn, TextsRead
<1>4. (\A text \in TextsRead(m, v) : Opened(text)) => ReadOpened(m, v)
  BY <1>1, <1>3 DEF ReadOpened, OwnOpened
<1>5. Plainly(m, v) => ReadPlain(m, v)
  BY <1>1, <1>3 DEF Plainly, ReadPlain, OwnPlain
<1> QED BY <1>2, <1>4, <1>5 DEF Plainly

\* What may be found is an own address that the message is addressed to.
LEMMA OwnIs ==
  ASSUME NEW v \in Request, NEW m \in Message, NEW me, me = Named(m.to), me # NULL
  PROVE  /\ \A f \in Own(m, v, me) : f \in {me} \cup Range(v.addresses)
         /\ Own(m, v, me) # {} <=> Mine(m, v) \cap Addressed(m) # {}
<1> DEFINE Reads(h, text, address) ==
             /\ h \in Range(Recipients) /\ text \in Range(Body(m.headers, h))
             /\ address \in Addresses(text)
<1>1. \A f : f \in Own(m, v, me) <=>
        \E h, text, address : Reads(h, text, address) /\ f \in Suit(v, me, address)
  BY DEF Own, SuitIn, Suits
<1>2. \A l : l \in Addressed(m) <=> \E h, text, address : Reads(h, text, address) /\ l = Lowered(address)
  BY DEF Addressed, Addresses
<1>3. \A l : l \in Mine(m, v) <=>
        \/ l = Lowered(me)
        \/ \E t \in Range(v.addresses) : Named(t) # NULL /\ l = Lowered(Named(t))
  BY DEF Mine
<1> HIDE DEF Reads
<1>4. \A address : Suit(v, me, address) # {} <=> Lowered(address) \in Mine(m, v)
  <2> TAKE address
  <2>1. Suit(v, me, address) # {} <=>
          \/ Lowered(me) = Lowered(address)
          \/ \E t \in Range(v.addresses) : Alike(t, address)
    BY DEF Suit
  <2>2. Lowered(address) \in Mine(m, v) <=>
          \/ Lowered(address) = Lowered(me)
          \/ \E t \in Range(v.addresses) : Named(t) # NULL /\ Lowered(address) = Lowered(Named(t))
    BY <1>3
  <2> QED BY <2>1, <2>2 DEF Alike
<1>5. Own(m, v, me) # {} <=> Mine(m, v) \cap Addressed(m) # {}
  <2>1. Own(m, v, me) # {} <=> \E h, text, address : Reads(h, text, address) /\ Suit(v, me, address) # {}
    BY <1>1
  <2>2. Mine(m, v) \cap Addressed(m) # {} <=>
          \E h, text, address : Reads(h, text, address) /\ Lowered(address) \in Mine(m, v)
    BY <1>2
  <2> QED BY <1>4, <2>1, <2>2
<1> QED BY <1>1, <1>5 DEF Suit

\* The own address is known from the envelope.
LEMMA OnlyRight ==
  ASSUME NEW v \in Request, NEW m \in Message, NEW hs, Kin(m, hs), NEW lex \in GoodLexer,
         \A text \in TextsRead(m, v) : Opened(text),
         NEW to, to = Parsed(lex, m.to), NEW from, from = Parsed(to.lexer, m.from),
         NEW q, q = Sought(from.lexer, hs, to.address, v), q.found # NULL,
         ~Forwarded(m), ~(m.from # NULL /\ Refused(from.address, to.address, v))
  PROVE  /\ Due(m, v) /\ from.address = Named(m.from)
         /\ IF v.from # NULL THEN q.found = v.from
            ELSE q.found \in {Named(m.to)} \cup Range(v.addresses)
<1> DEFINE me == to.address
<1>1. /\ ReadOpened(m, v) /\ m.from \in Bodies /\ m.to \in Bodies
      /\ \A text \in {m.from, m.to} : text # NULL => Opened(text)
  BY TextsAre, MessageIs
<1>2. to.lexer \in GoodLexer /\ me \in {NULL, Named(m.to)}
  BY <1>1, ParsedIs DEF Bodies
<1>3. from.lexer \in GoodLexer /\ from.address \in {NULL, Named(m.from)}
  BY <1>1, <1>2, ParsedIs DEF Bodies
<1>4. m.from # NULL => /\ from.address \notin {NULL, me} \cup Range(v.addresses)
                       /\ me \in Range(v.addresses) /\ ~SysAddr(from.address)
  BY DEF Refused
<1>5. from.address = Named(m.from)
  <2>1. CASE m.from = NULL
    BY <2>1 DEF Parsed, Named
  <2>2. CASE m.from # NULL
    BY <1>3, <1>4, <2>2
  <2> QED BY <2>1, <2>2
<1>6. me # NULL => me = Named(m.to)
  BY <1>2
<1>7. m.from # NULL => me # NULL
  BY <1>4, RequestIs, MessageIs
<1>8. m.from # NULL => /\ Named(m.from) \notin {NULL, Named(m.to)} \cup Range(v.addresses)
                       /\ Named(m.to) \in Range(v.addresses) /\ ~SysAddr(Named(m.from))
  BY <1>4, <1>5, <1>6, <1>7
<1>9. CASE v.from # NULL
  <2>1. q = Begin(v, from.lexer)
    BY <1>3, <1>9, SoughtNowhere
  <2>2. q.found = v.from
    BY <2>1 DEF Begin
  <2>3. Due(m, v)
    BY <1>8, <1>9 DEF Due
  <2> QED BY <1>5, <1>9, <2>2, <2>3
<1>10. CASE v.from = NULL
  <2>1. me # NULL
    <3> SUFFICES ASSUME me = NULL PROVE FALSE
      OBVIOUS
    <3>1. q = Begin(v, from.lexer)
      BY <1>3, SoughtNowhere
    <3> QED BY <1>10, <3>1 DEF Begin
  <2> DEFINE op == TRUE
             pl == FALSE
  <2>2. op /\ (op => ReadOpened(m, v)) /\ (pl => ReadPlain(m, v) /\ me # NULL)
    BY <1>1
  <2> HIDE DEF op, pl
  <2>3. Leads(v, me, op, pl, Begin(v, from.lexer), q, Own(m, v, me))
    BY <1>3, <2>2, SoughtLeads
  <2>4. q.found \in Own(m, v, me)
    BY <1>10, <2>2, <2>3 DEF Leads, Begin
  <2> HIDE DEF me
  <2>5. q.found \in {me} \cup Range(v.addresses) /\ Mine(m, v) \cap Addressed(m) # {}
    BY <1>6, <2>1, <2>4, OwnIs
  <2>6. Due(m, v)
    BY <1>6, <1>8, <2>1, <2>5 DEF Due
  <2> QED BY <1>5, <1>6, <1>10, <2>1, <2>5, <2>6
<1> QED BY <1>9, <1>10

LEMMA AllThatAreDue ==
  ASSUME NEW v \in Request, NEW m \in Message, NEW hs, Kin(m, hs), Plainly(m, v), Due(m, v),
         NEW to, to = Parsed(FreshLexer, m.to), NEW from, from = Parsed(to.lexer, m.from),
         NEW q, q = Sought(from.lexer, hs, to.address, v)
  PROVE  /\ ~(m.from # NULL /\ Refused(from.address, to.address, v))
         /\ q.found # NULL /\ ~q.stopped
<1> DEFINE me == to.address
<1>1. /\ ReadPlain(m, v) /\ m.from \in Bodies /\ m.to \in Bodies
      /\ \A text \in {m.from, m.to} : text # NULL => Closed(text)
  BY TextsAre, MessageIs
<1>2. to.lexer = FreshLexer /\ me = Named(m.to)
  BY <1>1, FreshIsGood, ParsedIs DEF Bodies
<1>3. from.lexer = FreshLexer /\ from.address = Named(m.from)
  BY <1>1, <1>2, FreshIsGood, ParsedIs DEF Bodies
<1>4. ~(m.from # NULL /\ Refused(from.address, to.address, v))
  BY <1>2, <1>3 DEF Due, Refused
<1>5. CASE v.from # NULL
  <2>1. q = Begin(v, from.lexer)
    BY <1>3, <1>5, FreshIsGood, SoughtNowhere
  <2> QED BY <1>4, <1>5, <2>1 DEF Begin
<1>6. CASE v.from = NULL
  <2>1. me # NULL /\ Mine(m, v) \cap Addressed(m) # {}
    BY <1>2, <1>6 DEF Due
  <2> DEFINE op == FALSE
             pl == TRUE
  <2>2. pl /\ (op => ReadOpened(m, v)) /\ (pl => ReadPlain(m, v) /\ me # NULL)
    BY <1>1, <2>1
  <2> HIDE DEF op, pl
  <2>3. Leads(v, me, op, pl, Begin(v, from.lexer), q, Own(m, v, me))
    BY <1>3, <2>2, FreshIsGood, SoughtLeads
  <2>4. Sure(Begin(v, from.lexer))
    BY <1>3 DEF Begin, Sure
  <2> HIDE DEF me
  <2>5. Own(m, v, me) # {}
    BY <1>2, <2>1, OwnIs
  <2>6. Sure(q) /\ q.found # NULL
    BY <2>2, <2>3, <2>4, <2>5 DEF Leads
  <2> QED BY <1>4, <2>6 DEF Sure
<1> QED BY <1>5, <1>6


-----------------------------------------------------------------------------
(* The invariant. *)

Kept ==
  /\ arrived \in Message /\ Kin(arrived, headers)
  /\ lexer \in GoodLexer /\ absent \in Bodies
  /\ decision.request \in Request \cup {NULL}
  /\ RepliesAreDue

LEMMA OwnKin == ASSUME NEW m \in Message PROVE Kin(m, m.headers)
<1>1. \A h \in DOMAIN m.headers : m.headers[h] \in Seq(Bodies)
  BY MessageIs
<1> QED BY <1>1 DEF Kin, Rest

\* What a decision must be for RepliesAreDue to hold of it.
Right(m, v, lex, r) ==
  /\ r.made /\ (\A text \in TextsRead(m, v) : Opened(text)) =>
       /\ Due(m, v) /\ r.to = Named(m.from)
       /\ IF v.from # NULL THEN r.from = v.from ELSE r.from \in {Named(m.to)} \cup Range(v.addresses)
  /\ lex = FreshLexer /\ Plainly(m, v) /\ Due(m, v) => r.made

LEMMA VacateKeeps == ASSUME Kept, NEW v \in Request, Vacate(v) PROVE Kept'
<1> DEFINE m == arrived
           hs == Skipping(headers)
           to == Parsed(lexer, m.to)
           from == Parsed(to.lexer, m.from)
           q == Sought(from.lexer, hs, to.address, v)
           refused == m.from # NULL /\ Refused(from.address, to.address, v)
<1>1. /\ m \in Message /\ Kin(m, headers) /\ lexer \in GoodLexer /\ absent \in Bodies
      /\ arrived' = m /\ Consider(v, hs)
  BY DEF Kept, Vacate, Skipping, Sent, Prec
<1>2. Kin(m, hs) /\ m.from \in Bodies /\ m.to \in Bodies
  BY <1>1, SkippingIs, MessageIs
<1>3. to.lexer \in GoodLexer /\ from.lexer \in GoodLexer
  BY <1>1, <1>2, ParsedIs DEF Bodies
<1> DEFINE r == decision'.reply
<1>4. ASSUME decision'.request = v, Right(m, v, lexer, r), decision'.fresh = (lexer = FreshLexer),
             lexer' \in GoodLexer, absent' \in Bodies, Kin(m, headers')
      PROVE  Kept'
  <2>1. RepliesAreDue'
    BY <1>1, <1>4 DEF RepliesAreDue, Right
  <2> QED BY <1>1, <1>4, <2>1 DEF Kept
<1>5. CASE Automatic(hs)
  <2>1. headers' = hs /\ absent' = absent /\ lexer' = lexer /\ Decide(v, None, FALSE)
    BY <1>1, <1>5 DEF Consider, Decline
  <2>2. ~r.made /\ decision'.request = v /\ decision'.fresh = (lexer = FreshLexer)
    BY <2>1 DEF Decide, None
  <2>3. ~(Plainly(m, v) /\ Due(m, v))
    BY <1>1, <1>5, AutomaticIs DEF Plainly, Due
  <2>4. Right(m, v, lexer, r)
    BY <2>2, <2>3 DEF Right
  <2> QED BY <1>1, <1>2, <1>4, <2>1, <2>2, <2>4
<1>6. CASE ~Automatic(hs)
  <2>1. /\ headers' = Stored(hs, m.from)
        /\ absent' = IF Found(hs, Prec) THEN absent ELSE m.from
        /\ IF refused THEN Decline(v, from.lexer) ELSE Reply(v, from, q)
    BY <1>1, <1>6 DEF Consider, AskSender, Judge, Prec
  <2>2. Kin(m, headers') /\ absent' \in Bodies /\ ~Forwarded(m)
    BY <1>1, <1>2, <1>6, <2>1, StoredIs, AutomaticIs
  <2> HIDE DEF hs
  <2>3. q.lexer \in GoodLexer
    <3> DEFINE no == FALSE
               me == to.address
    <3>1. no => ReadOpened(m, v) /\ ReadPlain(m, v) /\ me # NULL
      OBVIOUS
    <3> HIDE DEF no, me
    <3>2. Leads(v, me, no, no, Begin(v, from.lexer), Sought(from.lexer, hs, me, v), Own(m, v, me))
      BY <1>1, <1>2, <1>3, <3>1, SoughtLeads
    <3> QED BY <3>2 DEF Leads, Result, me
  <2>4. Plainly(m, v) /\ Due(m, v) /\ lexer = FreshLexer => ~refused /\ q.found # NULL /\ ~q.stopped
    <3> SUFFICES ASSUME Plainly(m, v), Due(m, v), lexer = FreshLexer
                 PROVE  ~refused /\ q.found # NULL /\ ~q.stopped
      OBVIOUS
    <3>1. to = Parsed(FreshLexer, m.to)
      OBVIOUS
    <3> QED BY <1>1, <1>2, <3>1, AllThatAreDue
  <2>5. ASSUME \A text \in TextsRead(m, v) : Opened(text), ~refused, q.found # NULL
        PROVE  /\ Due(m, v) /\ from.address = Named(m.from)
               /\ IF v.from # NULL THEN q.found = v.from
                  ELSE q.found \in {Named(m.to)} \cup Range(v.addresses)
    BY <1>1, <1>2, <2>2, <2>5, OnlyRight
  <2> HIDE DEF q, refused, from, to, m
  <2>6. CASE refused
    <3>1. lexer' = from.lexer /\ Decide(v, None, FALSE)
      BY <2>1, <2>6 DEF Decline
    <3>2. ~r.made /\ decision'.request = v /\ decision'.fresh = (lexer = FreshLexer)
      BY <3>1 DEF Decide, None
    <3>3. Right(m, v, lexer, r)
      BY <2>4, <2>6, <3>2 DEF Right
    <3> QED BY <1>3, <1>4, <2>2, <3>1, <3>2, <3>3
  <2>7. CASE ~refused
    <3> DEFINE made == [made |-> TRUE, to |-> from.address, from |-> q.found]
    <3>1. /\ lexer' = q.lexer
          /\ Decide(v, IF q.found = NULL \/ q.stopped THEN None ELSE made, q.stopped)
      BY <2>1, <2>7 DEF Reply
    <3>2. /\ decision'.request = v /\ decision'.fresh = (lexer = FreshLexer)
          /\ r = IF q.found = NULL \/ q.stopped THEN None ELSE made
      BY <3>1 DEF Decide
    <3>3. /\ r.made <=> q.found # NULL /\ ~q.stopped
          /\ r.made => r.to = from.address /\ r.from = q.found
      BY <3>2 DEF None
    <3>4. Right(m, v, lexer, r)
      BY <2>4, <2>5, <2>7, <3>3 DEF Right
    <3> QED BY <1>4, <2>2, <2>3, <3>1, <3>2, <3>4
  <2> QED BY <2>6, <2>7
<1> QED BY <1>5, <1>6

\* The loop of an address test over the first n bodies of a header.
Lexes(lex, bodies, n, f) == f = [i \in 0..n |-> IF i = 0 THEN lex ELSE Read(f[i - 1], bodies[i]).lexer]
Lexing(lex, bodies, n) == CHOOSE f : Lexes(lex, bodies, n, f)

LEMMA LexingIs ==
  ASSUME NEW lex \in GoodLexer, NEW n \in Nat, NEW bodies, \A i \in 1..n : bodies[i] \in Text
  PROVE  Lexing(lex, bodies, n)[n] \in GoodLexer
<1> DEFINE D == GoodLexer
           next(i, x) == Read(x, bodies[i]).lexer
           step == [p \in (1..n) \X D |-> next(p[1], p[2])]
           f == Lexing(lex, bodies, n)
<1>1. ASSUME NEW i \in 1..n, NEW x \in D PROVE next(i, x) \in D
  BY <1>1, ReadIs
<1> HIDE DEF D, next
<1>2. step \in Moves(n, D) /\ \A i \in 1..n, x \in D : step[<<i, x>>] = next(i, x)
  <2>1. \A p \in (1..n) \X D : next(p[1], p[2]) \in D
    BY <1>1
  <2> QED BY <2>1 DEF Moves
<1> HIDE DEF step
<1>3. PICK g : g \in [0..n -> D] /\ Turns(g, n, lex, step)
  BY <1>2, TurnsExist DEF D
<1>4. Lexes(lex, bodies, n, g)
  <2>1. g = [i \in 0..n |-> IF i = 0 THEN lex ELSE step[<<i, g[i - 1]>>]]
    BY <1>3 DEF Turns
  <2>2. \A i \in 1..n : step[<<i, g[i - 1]>>] = next(i, g[i - 1])
    BY <1>2, <1>3
  <2>3. \A i \in 0..n : (IF i = 0 THEN lex ELSE step[<<i, g[i - 1]>>]) = IF i = 0 THEN lex ELSE next(i, g[i - 1])
    BY <2>2
  <2>4. g = [i \in 0..n |-> IF i = 0 THEN lex ELSE next(i, g[i - 1])]
    BY <2>1, <2>3
  <2> QED BY <2>4 DEF Lexes, next
<1>5. Lexes(lex, bodies, n, f)
  BY <1>4 DEF Lexing
<1> HIDE DEF f
<1>6. f = [i \in 0..n |-> IF i = 0 THEN lex ELSE next(i, f[i - 1])]
  BY <1>5 DEF Lexes, next
<1>7. f[0] \in D /\ \A i \in 1..n : f[i - 1] \in D => f[i] \in D
  BY <1>1, <1>6 DEF D
<1>8. f[n] \in D
  BY <1>7, KeptToTheEnd
<1> QED BY <1>8 DEF f, D

LEMMA TestKeeps == ASSUME Kept, Test PROVE Kept'
<1>1. /\ arrived \in Message /\ Kin(arrived, headers) /\ lexer \in GoodLexer
      /\ UNCHANGED <<arrived, headers, absent, decision>>
  BY DEF Kept, Test
<1>2. lexer' \in GoodLexer
  <2>1. ASSUME NEW h \in Header, AddressTest(h) PROVE lexer' \in GoodLexer
    <3>1. h \in DOMAIN headers /\ headers[h] # <<>> /\ headers[h][1] # NULL
      BY <1>1, <2>1, FoundIs DEF AddressTest
    <3>2. PICK n \in 1..Len(headers[h]) : lexer' = Lexing(lexer, headers[h], n)[n]
      BY <2>1 DEF AddressTest, Lexing, Lexes
    <3>3. /\ headers[h][1] \in Text /\ Len(headers[h]) \in Nat
          /\ Len(headers[h]) = Len(arrived.headers[h]) /\ h \in DOMAIN arrived.headers
          /\ Rest(headers[h], arrived.headers[h])
      BY <1>1, <3>1, KinBody, LenProperties DEF Kin, Bodies
    <3>4. \A i \in 1..n : headers[h][i] \in Text
      <4>1. \A i \in 2..Len(headers[h]) : arrived.headers[h][i] \in Text
        BY <1>1, <3>3, MessageIs
      <4>2. \A i \in 2..Len(headers[h]) : headers[h][i] \in Text
        BY <3>3, <4>1 DEF Rest
      <4> QED BY <3>3, <4>2
    <3>5. n \in Nat
      BY <3>3
    <3>6. Lexing(lexer, headers[h], n)[n] \in GoodLexer
      BY <1>1, <3>4, <3>5, LexingIs
    <3> QED BY <3>2, <3>6
  <2>2. ASSUME NEW e \in {"from", "to"}, EnvelopeTest(arrived[e]) PROVE lexer' \in GoodLexer
    <3>1. arrived[e] \in Text
      BY <1>1, <2>2, MessageIs DEF EnvelopeTest, Bodies
    <3> QED BY <1>1, <2>2, <3>1, ReadIs DEF EnvelopeTest
  <2>3. ASSUME NEW v \in Request, Verify(v.addresses) PROVE lexer' \in GoodLexer
    <3>1. PICK n \in 1..Len(v.addresses) : lexer' = Lexing(lexer, v.addresses, n)[n]
      BY <2>3 DEF Verify, Lexing, Lexes
    <3>2. v.addresses \in Seq(Text)
      BY MessagesAssumption
    <3>3. n \in Nat /\ \A i \in 1..n : v.addresses[i] \in Text
      BY <3>2, ElementOfSeq, LenProperties
    <3>4. Lexing(lexer, v.addresses, n)[n] \in GoodLexer
      BY <1>1, <3>3, LexingIs
    <3> QED BY <3>1, <3>4
  <2> QED BY <2>1, <2>2, <2>3 DEF Test
<1>3. RepliesAreDue'
  BY <1>1 DEF Kept, RepliesAreDue
<1> QED BY <1>1, <1>2, <1>3 DEF Kept

LEMMA InitKept == Init => Kept
<1> SUFFICES ASSUME Init PROVE Kept
  OBVIOUS
<1>1. arrived \in Message /\ headers = arrived.headers /\ absent = <<>> /\ lexer = FreshLexer
      /\ decision = Undecided
  BY DEF Init
<1>2. <<>> \in Bodies
  BY EmptySeq DEF Bodies, Text
<1>3. RepliesAreDue
  BY <1>1 DEF RepliesAreDue, Undecided
<1> QED BY <1>1, <1>2, <1>3, OwnKin, FreshIsGood DEF Kept, Undecided

LEMMA NextKeeps == Kept /\ [Next]_vars => Kept'
<1> SUFFICES ASSUME Kept, [Next]_vars PROVE Kept'
  OBVIOUS
<1>1. ASSUME NEW m \in Message, Arrive(m) PROVE Kept'
  <2>1. arrived' = m /\ headers' = m.headers /\ decision' = Undecided /\ UNCHANGED <<absent, lexer>>
    BY <1>1 DEF Arrive
  <2>2. RepliesAreDue'
    BY <2>1 DEF RepliesAreDue, Undecided
  <2> QED BY <2>1, <2>2, OwnKin DEF Kept, Undecided
<1>2. ASSUME NEW v \in Request, Vacate(v) PROVE Kept'
  BY <1>2, VacateKeeps
<1>3. CASE Test
  BY <1>3, TestKeeps
<1>4. CASE UNCHANGED vars
  BY <1>4 DEF Kept, RepliesAreDue, vars
<1> QED BY <1>1, <1>2, <1>3, <1>4 DEF Next

LEMMA AlwaysKept == Spec => []Kept
BY InitKept, NextKeeps, PTL DEF Spec

LEMMA KeptIsTyped == ASSUME Kept PROVE TypeOK
<1>1. DOMAIN headers = DOMAIN arrived.headers
  BY DEF Kept, Kin
<1>2. ASSUME NEW h \in DOMAIN headers
      PROVE  Len(headers[h]) = Len(arrived.headers[h]) /\ Range(headers[h]) \subseteq Text \cup {NULL}
  <2>1. headers[h] \in Seq(Bodies) /\ Len(headers[h]) = Len(arrived.headers[h])
    BY DEF Kept, Kin
  <2>2. DOMAIN headers[h] = 1..Len(headers[h]) /\ \A i \in 1..Len(headers[h]) : headers[h][i] \in Bodies
    BY <2>1, LenProperties, ElementOfSeq
  <2> QED BY <2>1, <2>2 DEF Range, Bodies
<1> QED BY <1>1, <1>2 DEF TypeOK, Kept, GoodLexer, Bodies

\* The arrays keep their lengths and hold texts, whatever the decision stores in
\* them, and the lexer counts comments exactly while it is inside one.
THEOREM TypeIsKept == Spec => []TypeOK
BY AlwaysKept, KeptIsTyped, PTL

\* A vacation command replies only where the message as it arrived calls for it,
\* to its sender and as one of the own addresses, however many commands, tests and
\* messages went before; and it replies where a reply is due.
THEOREM OnlyDueReplies == Spec => []RepliesAreDue
<1>1. Kept => RepliesAreDue
  BY DEF Kept
<1> QED BY <1>1, AlwaysKept, PTL
=============================================================================
