------------------------------ MODULE SieveTest ------------------------------
(***************************************************************************)
(* static_evaltest of script.c: the evaluation of the test of an `if', a   *)
(* tree of anyof, allof and not over leaves that ask the client about the  *)
(* message.  The recursion is an explicit stack, and every leaf is one     *)
(* step, with the loops over headers, patterns and texts inside it.        *)
(***************************************************************************)
EXTENDS Integers, Sequences, FiniteSets, SequencesExt, Comparator

CONSTANTS
  Suites,  \* what is evaluated: sets of tests, each with its messages
  NONE     \* no value

\* A test is an array of nodes, the root first, each before its operands: a tree,
\* in which every other node is the operand of one node, once.  "null" is what
\* the parser makes of a test with an error.
Composite == {"anyof", "allof", "not"}
Constant  == {"true", "false", "null"}
Asking    == {"header", "address", "exists", "size", "hasflag"}

\* A leaf that compares, and what the client has about a message.
Comparing(leaf) ==
  /\ leaf.comparator \in {"octet", "casemap", "numeric"}
  /\ leaf.match \in {"is", "contains", "matches", "value", "count"}
  /\ Lookup(leaf.comparator, leaf.match)
  /\ leaf.patterns \in Seq(CString)
Message(m) ==
  /\ \A name \in DOMAIN m.headers : m.headers[name] \in Seq(CString)
  /\ \A name \in DOMAIN m.addresses : m.addresses[name] \in Seq(Seq({NONE} \cup CString))

Inner(t) == {n \in DOMAIN t : t[n].type \in Composite}
Test(t) ==
  /\ t \in Seq(Range(t)) \ {<<>>}
  /\ \A n \in DOMAIN t :
       LET node == t[n]
       IN  /\ node.type \in Composite \cup Constant \cup Asking
           /\ node.type \in Composite => node.kids \in Seq((n + 1)..Len(t)) \ {<<>>}
           /\ node.type = "not" => Len(node.kids) = 1
           /\ node.type \in {"header", "address"} => Comparing(node)
  /\ \A n \in 2..Len(t) : \E m \in Inner(t) : n \in ToSet(t[m].kids)
  /\ \A m, n \in Inner(t) : \A j \in DOMAIN t[m].kids, k \in DOMAIN t[n].kids :
       t[m].kids[j] = t[n].kids[k] => m = n /\ j = k

ASSUME SuitesAssumption ==
  \A suite \in Suites :
    (\A t \in suite.tests : Test(t)) /\ (\A m \in suite.messages : Message(m))
ASSUME NoneAssumption == NONE \notin BOOLEAN

VARIABLES
  test, message,  \* what is evaluated
  frames,         \* active calls: node, operand, times it was evaluated, res
  value,          \* what the latest call to end returned, until it is used
  asked           \* history: the leaves evaluated, with the answers

vars == <<test, message, frames, value, asked>>

Idle == frames = <<>>
Node == test[frames[1].node]

Frame(t, n) == [node |-> n, kid |-> 1, again |-> FALSE, res |-> t[n].type = "allof"]

Init ==
  /\ test = <<>> /\ message = NONE
  /\ frames = <<>> /\ value = NONE /\ asked = <<>>
-----------------------------------------------------------------------------
\* libsieve_do_getheader: a header without any body is not found.
Bodies(m, name) == IF name \in DOMAIN m.headers THEN m.headers[name] ELSE <<>>

\* The addresses in every body of a header, NONE for one without the part
\* which the test asks for.
Addresses(m, name) == IF name \in DOMAIN m.addresses THEN m.addresses[name] ELSE <<>>

\* snprintf of a count.
Decimal(n) ==
  LET D[k \in 0..n] == IF k < 10 THEN <<48 + k>> ELSE D[k \div 10] \o <<48 + (k % 10)>>
  IN  D[n]

\* HEADER: any of the headers, against any of the patterns.
Header(leaf, m) ==
  \E name \in leaf.names : \E k \in DOMAIN leaf.patterns :
    LET bodies == Bodies(m, name)
        holds(text) == Compare(leaf.comparator, leaf.match, leaf.rel, leaf.patterns[k], text)
    IN  /\ bodies # <<>>
        /\ IF leaf.match = "count" THEN holds(Decimal(Len(bodies)))
           ELSE \E i \in DOMAIN bodies : holds(bodies[i])

\* libsieve_get_address: the addresses of a body up to the first that lacks the
\* part which the test asks for.
Parts(body) ==
  LET lacking == {i \in DOMAIN body : body[i] = NONE}
  IN  IF lacking = {} THEN body
      ELSE SubSeq(body, 1, (CHOOSE i \in lacking : \A j \in lacking : i <= j) - 1)

\* ADDRESS: as HEADER, with the addresses of a body instead of the body; the
\* count starts anew with every header, and goes on with the next pattern.
Address(leaf, m) ==
  \E name \in leaf.names : \E k \in DOMAIN leaf.patterns :
    LET bodies == Addresses(m, name)
        holds(text) == Compare(leaf.comparator, leaf.match, leaf.rel, leaf.patterns[k], text)
        Count[i \in 0..Len(bodies)] ==
          IF i = 0 THEN 0 ELSE Count[i - 1] + Len(Parts(bodies[i]))
    IN  /\ bodies # <<>>
        /\ IF leaf.match = "count" THEN holds(Decimal(k * Count[Len(bodies)]))
           ELSE \E i \in DOMAIN bodies : \E j \in DOMAIN Parts(bodies[i]) :
                  holds(Parts(bodies[i])[j])

\* The result of static_evaltest on a leaf.
Holds(leaf, m) ==
  CASE leaf.type = "header"  -> Header(leaf, m)
    [] leaf.type = "address" -> Address(leaf, m)
    [] leaf.type = "exists"  -> \A name \in leaf.names : Bodies(m, name) # <<>>
    [] leaf.type = "hasflag" -> leaf.names \cap m.flags # {}
    [] leaf.type = "size"    -> IF leaf.over THEN m.size > leaf.limit ELSE m.size < leaf.limit
    [] leaf.type = "true"    -> TRUE
    [] OTHER                 -> FALSE
-----------------------------------------------------------------------------
\* IF calls static_evaltest on its test.
Begin ==
  /\ Idle /\ test = <<>>
  /\ \E suite \in Suites : \E t \in suite.tests, m \in suite.messages :
       /\ test' = t /\ message' = m
       /\ frames' = <<Frame(t, 1)>>
  /\ UNCHANGED <<value, asked>>

\* The innermost call returns v.
Return(v) == frames' = Tail(frames) /\ value' = v

\* The innermost call evaluates its operand, or goes on with another.
Descend ==
  /\ frames' = <<Frame(test, Node.kids[frames[1].kid])>> \o frames
  /\ value' = NONE
Proceed(frame) == frames' = <<frame>> \o Tail(frames) /\ value' = NONE

Leaf ==
  /\ ~Idle /\ Node.type \notin Composite
  /\ Return(Holds(Node, message))
  /\ asked' = Append(asked, [node |-> frames[1].node, answer |-> Holds(Node, message)])
  /\ UNCHANGED <<test, message>>

\* An operand is wanted: the loop of ANYOF or ALLOF, or NOT.
Operand ==
  /\ ~Idle /\ value = NONE
  /\ Node.type \in Composite /\ frames[1].kid \in DOMAIN Node.kids
  /\ Descend
  /\ UNCHANGED <<test, message, asked>>

Not ==
  /\ ~Idle /\ value # NONE /\ Node.type = "not"
  /\ Return(~value)
  /\ UNCHANGED <<test, message, asked>>

\* Mutants: all operands are evaluated; every other one is.
AnyOfAll ==
  /\ ~Idle /\ Node.type = "anyof"
  /\ LET f == frames[1]
     IN  IF value # NONE THEN Proceed([f EXCEPT !.kid = @ + 1, !.res = @ \/ value])
         ELSE f.kid > Len(Node.kids) /\ Return(f.res)
  /\ UNCHANGED <<test, message, asked>>
AnyOfSkip ==
  /\ ~Idle /\ Node.type = "anyof"
  /\ LET f == frames[1]
     IN  IF value = TRUE THEN Return(TRUE)
         ELSE IF value = FALSE THEN Proceed([f EXCEPT !.kid = @ + 2])
         ELSE f.kid > Len(Node.kids) /\ Return(FALSE)
  /\ UNCHANGED <<test, message, asked>>

\* ANYOF: ends with the first operand that holds.
AnyOf ==
  /\ ~Idle /\ Node.type = "anyof"
  /\ LET f == frames[1]
     IN  IF value = TRUE THEN Return(TRUE)
         ELSE IF value = FALSE THEN Proceed([f EXCEPT !.kid = @ + 1])
         ELSE f.kid > Len(Node.kids) /\ Return(FALSE)
  /\ UNCHANGED <<test, message, asked>>

\* Mutants: the loop does not move on; the value of the last operand counts.
AllOfStuck ==
  /\ ~Idle /\ Node.type = "allof"
  /\ LET f == frames[1]
     IN  IF value # NONE /\ ~f.again THEN Proceed([f EXCEPT !.again = TRUE, !.res = @ /\ value])
         ELSE IF value = FALSE THEN Return(FALSE)
         ELSE IF value = TRUE THEN Proceed([f EXCEPT !.again = FALSE])
         ELSE f.kid > Len(Node.kids) /\ Return(f.res)
  /\ UNCHANGED <<test, message, asked>>
AllOfLast ==
  /\ ~Idle /\ Node.type = "allof"
  /\ LET f == frames[1]
     IN  IF value # NONE /\ ~f.again THEN Proceed([f EXCEPT !.again = TRUE, !.res = value])
         ELSE IF value # NONE THEN Proceed([f EXCEPT !.again = FALSE, !.kid = @ + 1])
         ELSE f.kid > Len(Node.kids) /\ Return(f.res)
  /\ UNCHANGED <<test, message, asked>>

\* ALLOF: every operand is evaluated twice, once for res and once to see
\* whether the loop is over.
AllOf ==
  /\ ~Idle /\ Node.type = "allof"
  /\ LET f == frames[1]
     IN  IF value # NONE /\ ~f.again THEN Proceed([f EXCEPT !.again = TRUE, !.res = @ /\ value])
         ELSE IF value = FALSE THEN Return(FALSE)
         ELSE IF value = TRUE THEN
           IF f.res THEN Proceed([f EXCEPT !.again = FALSE, !.kid = @ + 1]) ELSE Return(FALSE)
         ELSE f.kid > Len(Node.kids) /\ Return(f.res)
  /\ UNCHANGED <<test, message, asked>>

Evaluate == Leaf \/ Operand \/ Not \/ AnyOf \/ AllOf

Next == Begin \/ Evaluate

Spec == Init /\ [][Next]_vars
-----------------------------------------------------------------------------
Done == Idle /\ value # NONE

TypeOK ==
  /\ value \in {NONE, TRUE, FALSE}
  /\ \A i \in DOMAIN frames :
       /\ frames[i].node \in DOMAIN test
       /\ frames[i].again \in BOOLEAN /\ frames[i].res \in BOOLEAN
       /\ LET node == test[frames[i].node]
          IN  node.type \in Composite =>
                frames[i].kid \in 1..(Len(node.kids) + 1)
  /\ \A i \in DOMAIN asked :
       asked[i].node \in DOMAIN test /\ test[asked[i].node].type \notin Composite

\* The value of every node of a test under an assignment of truth values to its
\* leaves, and that of the test.
Values(t, leaf) ==
  LET T[n \in DOMAIN t] ==
        CASE t[n].type = "anyof" -> \E k \in DOMAIN t[n].kids : T[t[n].kids[k]]
          [] t[n].type = "allof" -> \A k \in DOMAIN t[n].kids : T[t[n].kids[k]]
          [] t[n].type = "not"   -> ~T[t[n].kids[1]]
          [] OTHER               -> leaf[n]
  IN  T
Truth(t, leaf) == Values(t, leaf)[1]

Leaves == {n \in DOMAIN test : test[n].type \notin Composite}
Answered == [n \in Leaves |-> Holds(test[n], message)]

\* The evaluation of a test ends with its value, however anyof, allof and not
\* are nested (static_evaltest).
Verdict == Done => value = Truth(test, Answered)

\* What has been asked, and the answers to all leaves that agree with it.
AskedNodes == {asked[i].node : i \in DOMAIN asked}
Answers == {f \in [Leaves -> BOOLEAN] :
              \A i \in DOMAIN asked : f[asked[i].node] = asked[i].answer}

\* An allof evaluates an operand for the second time.
Repeating == \E i \in 2..Len(frames) : frames[i].again

\* The client is asked about a leaf once, and only while the answers it has given
\* leave the value of the whole test open, except that an allof which evaluates
\* an operand again asks what it asked for that operand before, and nothing else,
\* be the value certain by then or not.  In this the code departs from "Short-circuit
\* as soon as any test fails" (script.c, case ALLOF; NEWS 2.2.8).
OnlyWhatIsOpen ==
  [][asked' # asked =>
       LET leaf == frames[1].node
       IN  IF Repeating THEN leaf \in AskedNodes
           ELSE leaf \notin AskedNodes /\ {Truth(test, f) : f \in Answers} = BOOLEAN]_vars

\* The texts of a header that a leaf compares with its patterns.
Texts(leaf, m, name) ==
  IF leaf.type = "header" THEN Bodies(m, name) ELSE FlattenSeq(Addresses(m, name))

\* What an answer to a leaf means: some text, or the number of the texts,
\* fulfils the match.
Meaning(leaf, m) ==
  \E name \in leaf.names : \E k \in DOMAIN leaf.patterns :
    LET texts == Texts(leaf, m, name)
        meant(text) == Meant(leaf.comparator, leaf.match, leaf.rel, leaf.patterns[k], text)
    IN  IF leaf.match = "count" THEN meant(Decimal(Len(texts)))
        ELSE \E i \in DOMAIN texts : meant(texts[i])

\* The leaves whose patterns have no backslash, whose texts are there and, if
\* they are compared by number, are numbers, as the patterns are, and which
\* count no more than one header with one pattern.
Plain(leaf, m) ==
  /\ leaf.type \in {"header", "address"}
  /\ \A k \in DOMAIN leaf.patterns :
       /\ \A i \in DOMAIN leaf.patterns[k] : leaf.patterns[k][i] # Escape
       /\ leaf.comparator = "numeric" => Numeric(leaf.patterns[k])
  /\ \A name \in leaf.names : \A i \in DOMAIN Texts(leaf, m, name) :
       LET text == Texts(leaf, m, name)[i]
       IN  text # NONE /\ (leaf.comparator = "numeric" /\ leaf.match # "count" => Numeric(text))
  /\ leaf.match = "count" =>
       /\ Len(leaf.patterns) = 1 /\ Cardinality(leaf.names) = 1
       /\ \A name \in leaf.names : Texts(leaf, m, name) # <<>>

\* Every comparison decides what its comparator and match type stand for, over
\* all the headers, patterns and texts of the test (comparator.c).
Comparisons ==
  \A i \in DOMAIN asked :
    LET leaf == test[asked[i].node]
    IN  Plain(leaf, message) => asked[i].answer = Meaning(leaf, message)

\* How often a node may be evaluated: as often as the node whose operand it is,
\* and twice as often below an allof.
Above(n) == CHOOSE m \in Inner(test) : n \in ToSet(test[m].kids)
Rounds ==
  LET R[n \in DOMAIN test] ==
        IF n = 1 THEN 1
        ELSE IF test[Above(n)].type = "allof" THEN 2 * R[Above(n)] ELSE R[Above(n)]
  IN  R

\* A test is evaluated twice for every allof around it, and twice as often for
\* every further one, but not more (script.c, case ALLOF): the client is asked
\* a bounded number of times.
AskedBound ==
  \A n \in Leaves : Cardinality({i \in DOMAIN asked : asked[i].node = n}) <= Rounds[n]
=============================================================================
