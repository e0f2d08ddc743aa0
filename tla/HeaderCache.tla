----------------------------- MODULE HeaderCache -----------------------------
(***************************************************************************)
(* The headers of a message on their way into a script: the list that      *)
(* header.y builds, the hash table of message2.c that                      *)
(* libsieve_message2_parseheader moves it to, and the lookups of           *)
(* libsieve_message2_getheader.  The table is never emptied: a message     *)
(* that is parsed later adds to it.  Names are lower case on both sides,   *)
(* so they are values here.  A folded header has several lines: a body is  *)
(* the set of its lines, with EMPTY for a first line without a text.  A    *)
(* message that the header parser rejects changes nothing.                 *)
(***************************************************************************)
EXTENDS Headers, SequencesExt

CONSTANTS
  Name,       \* the names of headers and of the tests of a script
  Body,       \* the texts of the lines of headers
  Messages,   \* the messages, sequences of headers
  Hash,       \* hashheader, as a function on Name
  HashSize,   \* HEADERHASHSIZE
  Room,       \* the bodies a bucket gains when it is full, 8
  MaxParses,  \* bound: messages parsed by one context
  EMPTY,      \* the first line of a header that has none before the fold
  JUNK,       \* a text that is in no header
  NULL

Header == [name : Name, body : SUBSET (Body \cup {EMPTY})]

ASSUME MessagesAssumption == Messages \subseteq Seq(Header) \ {<<>>}
ASSUME HashAssumption == HashSize \in Nat \ {0} /\ Hash \in [Name -> 0..(HashSize - 1)]
ASSUME RoomAssumption == Room \in Nat \ {0} /\ MaxParses \in Nat

\* header_t: `space' is the member of that name, `size' the length of the
\* array that is allocated; `count' is Len(contents).
Text   == SUBSET (Body \cup {JUNK})
Bucket == [name : Name, contents : Seq(Text), space : Nat, size : Nat]
ASSUME NullAssumption == NULL \notin Bucket

VARIABLES
  table,     \* m->hash
  list,      \* hl: the headers that are still to be moved to the table
  answer,    \* the latest lookup: the name, and the bodies, none if it failed
  parsed     \* history: the messages parsed

vars == <<table, list, answer, parsed>>

Place == 0..(HashSize - 1)

Init ==
  /\ table = [p \in Place |-> NULL]
  /\ list = <<>> /\ parsed = <<>>
  /\ answer = [name |-> NULL, bodies |-> <<>>]
-----------------------------------------------------------------------------
\* The semantic value of `body' in the k-th header.  The rule for a first line
\* that is empty has no action, so the parser takes what lies above its stack,
\* and the folded lines are added to that.  From the third header on this is
\* the value of the header before, which may have begun the same way; in the
\* first two nothing was written there but, perhaps, a fold of the first header,
\* and junk tells what is found.
BodyOf(msg, k, junk) ==
  LET line   == IF k = 1 THEN {1} ELSE 2..k
      begun  == {j \in line : EMPTY \notin msg[j].body}
      joined == {j \in line : \A b \in begun : b <= j}
  IN  ((UNION {msg[j].body : j \in joined}) \ {EMPTY})
        \cup IF begun = {} THEN {junk[IF k = 1 THEN 1 ELSE 2]} ELSE {}

\* Mutant: the list is in the order of the message.
ParseInOrder(msg) ==
  /\ list = <<>> /\ Len(parsed) < MaxParses /\ parsed' = Append(parsed, msg)
  /\ list' = msg
  /\ UNCHANGED <<table, answer>>

\* libsieve_header_parse_buffer: every header goes to the front of the list.
Parse(msg) ==
  /\ list = <<>> /\ Len(parsed) < MaxParses /\ parsed' = Append(parsed, msg)
  /\ list' \in {Reverse([k \in DOMAIN msg |->
                   [name |-> msg[k].name, body |-> BodyOf(msg, k, junk)]]) :
                 junk \in [1..2 -> Body \cup {JUNK}]}
  /\ UNCHANGED <<table, answer>>

\* Where the search for a name ends: at the first place from its hash on that
\* is empty or has that name; at its hash if there is none.
Probe(n) ==
  LET at(k)  == (Hash[n] + k) % HashSize
      stops  == {k \in Place : table[at(k)] = NULL \/ table[at(k)].name = n}
  IN  IF stops = {} THEN Hash[n]
      ELSE at(CHOOSE k \in stops : \A j \in stops : k <= j)

\* Mutants: the array has no place for the NULL; the new space is not noted.
AddTight(b, text) ==
  LET more == IF Len(b.contents) < b.space THEN 0 ELSE Room
  IN  [b EXCEPT !.contents = Append(@, text), !.space = @ + more,
                !.size = IF more = 0 THEN @ ELSE b.space + more]
AddUnnoted(b, text) ==
  LET more == IF Len(b.contents) < b.space THEN 0 ELSE Room
  IN  [b EXCEPT !.contents = Append(@, text),
                !.size = IF more = 0 THEN @ ELSE b.space + more + 1]

\* A body is appended to a bucket, after a realloc when there is no space.
Add(b, text) ==
  LET more == IF Len(b.contents) < b.space THEN 0 ELSE Room
  IN  [b EXCEPT !.contents = Append(@, text), !.space = @ + more,
                !.size = IF more = 0 THEN @ ELSE b.space + more + 1]

\* Mutant: a header whose place is taken goes to any that is empty.
InsertAnywhere ==
  /\ list # <<>> /\ list' = Tail(list)
  /\ \E p \in Place :
       /\ table[p] = NULL
       /\ table' = [table EXCEPT ![p] =
            [name |-> Head(list).name, contents |-> <<Head(list).body>>, space |-> 1, size |-> 2]]
  /\ UNCHANGED <<answer, parsed>>

\* The body of the loop of libsieve_message2_parseheader: the bucket the probe
\* ends at gains the body, whoever's it is; an empty place takes the header.
Insert ==
  /\ list # <<>> /\ list' = Tail(list)
  /\ LET h == Head(list)
         p == Probe(h.name)
     IN  table' = [table EXCEPT ![p] =
           IF @ # NULL THEN Add(@, h.body)
           ELSE [name |-> h.name, contents |-> <<h.body>>, space |-> 1, size |-> 2]]
  /\ UNCHANGED <<answer, parsed>>

\* getheader of message2.c: fails where the probe finds no bucket of the name.
Held(n) ==
  LET b == table[Probe(n)] IN IF b # NULL /\ b.name = n THEN b.contents ELSE <<>>

\* libsieve_message2_getheader.
Lookup(n) ==
  /\ list = <<>>
  /\ answer' = [name |-> n, bodies |-> Held(n)]
  /\ UNCHANGED <<table, list, parsed>>

Next ==
  \/ \E msg \in Messages : Parse(msg)
  \/ Insert
  \/ \E n \in Name : Lookup(n)

Spec == Init /\ [][Next]_vars
-----------------------------------------------------------------------------
Taken == {p \in Place : table[p] # NULL}

TypeOK ==
  /\ table \in [Place -> Bucket \cup {NULL}]
  /\ list \in Seq([name : Name, body : Text])
  /\ answer.name \in Name \cup {NULL} /\ answer.bodies \in Seq(Text)
  /\ parsed \in Seq(Messages) /\ Len(parsed) <= MaxParses
  /\ \A p \in Taken : Len(table[p].contents) \in 1..table[p].space

\* However often an array was reallocated, the NULL that ends the bodies of a
\* bucket lies inside it (libsieve_message2_parseheader).
TerminatorFits == \A p \in Taken : Len(table[p].contents) < table[p].size

\* Every bucket is found: no place is empty between the hash of its name and
\* where it is, around the end of the table too, and no name has two buckets.
Reachable == \A p \in Taken : Probe(table[p].name) = p

\* As long as the table has a place for every name, the cache answers every
\* lookup with the bodies of the headers of the messages parsed so far.
Found(n) == Held(n) \o Bodies(list, n)
Map == INSTANCE HeaderMap WITH 
  map <- [n \in Name |-> Found(n)], answer <- answer.bodies, received <- parsed
KeepsHeaders == Map!Spec

-----------------------------------------------------------------------------
\* header.y and header-lex.l provide for "an empty header", so that a body that
\* a lookup finds has the lines of a header of that name; it may have another's.
OwnBodies ==
  \A i \in DOMAIN answer.bodies :
    \E msg \in Messages : \E k \in DOMAIN msg :
      msg[k].name = answer.name /\ msg[k].body \ {EMPTY} = answer.bodies[i]
=============================================================================
