------------------------------ MODULE Vacation ------------------------------
(***************************************************************************)
(* Whether a vacation command replies (script.c, libsieve_eval), with what  *)
(* the decision reads and what it leaves behind: the client's arrays of     *)
(* header bodies and the constant for headers that are not found, into      *)
(* which it stores the envelope, and the lexer of addresses, which it       *)
(* shares with the address tests of the context.                            *)
(***************************************************************************)
EXTENDS Addresses

CONSTANTS
  Message,     \* what may arrive: headers, and the envelope with from and to
  Request,     \* a vacation command: its addresses and its from, or NULL
  SystemName,  \* words an address of a list or a daemon begins with
  SystemPart,  \* words with "-request" inside
  MaxDepth     \* bound: how many comments the lexer is left inside

Lists == {"List-Id", "List-Help", "List-Subscribe", "List-Unsubscribe", "List-Post",
          "List-Owner", "List-Archive"}
Recipients == <<"to", "cc", "bcc", "Resent-To", "Resent-Cc", "Resent-Bcc">>
Header == Lists \cup Range(Recipients) \cup {"auto-submitted", "precedence"}
Robots == {<<"junk">>, <<"bulk">>, <<"list">>}

ASSUME MessagesAssumption ==
  /\ MaxDepth \in Nat
  /\ \A m \in Message : /\ DOMAIN m.headers \subseteq Header
                        /\ \A h \in DOMAIN m.headers : m.headers[h] \in Seq(Text)
                        /\ {m.from, m.to} \subseteq Text \cup {NULL}
  /\ \A v \in Request : v.addresses \in Seq(Text) /\ v.from \in Text \cup {NULL}

VARIABLES
  arrived,   \* the message as the client got it
  headers,   \* the client's arrays of bodies
  absent,    \* the constant notfound
  lexer,     \* context->addr_scan
  decision   \* what the last command did: the request, the reply, and whether
             \* the lexer was fresh before it; stopped when it read NULL
vars == <<arrived, headers, absent, lexer, decision>>

None == [made |-> FALSE, to |-> NULL, from |-> NULL]

\* libsieve_do_getheader: the array and whether it counts as found.
Body(hs, h)  == IF h \in DOMAIN hs THEN hs[h] ELSE <<>>
Found(hs, h) == Body(hs, h) # <<>> /\ Body(hs, h)[1] # NULL

\* Leading blanks are skipped in the array itself.
Skip(text) ==
  LET words == {i \in DOMAIN text : text[i] # " "}
  IN  IF words = {} THEN <<>>
      ELSE SubSeq(text, CHOOSE i \in words : \A j \in words : i <= j, Len(text))
\* Mutant: they are skipped in a copy.
SkippedAside(hs, h) == hs
Skipped(hs, h) == IF Found(hs, h) THEN [hs EXCEPT ![h][1] = Skip(@)] ELSE hs

\* Messages of programs and of lists are not replied to.
Automatic(hs) ==
  \/ Found(hs, "auto-submitted") /\ Lowered(hs["auto-submitted"][1]) # <<"no">>
  \/ \E h \in Lists : Found(hs, h)
  \/ Found(hs, "precedence") /\ Lowered(hs["precedence"][1]) \in Robots

SysAddr(a) ==
  /\ a \notin {NULL, <<>>}
  /\ a[1] \in SystemName \/ Range(a) \cap SystemPart # {}

\* The checks of the sender, when the envelope has one; NULL among the
\* addresses is not compared.
Refused(sender, me, v) ==
  \/ sender \in {NULL, me} \cup Range(v.addresses)
  \/ me \notin Range(v.addresses)
  \/ SysAddr(sender)

\* What the parser leaves behind and the first address that it hands out.
Heard(read) == [lexer |-> read.lexer, address |-> FirstGiven(read.list)]

\* look_for_me: the bodies are parsed one after the other, and for every address
\* the addresses of the script again, all by the one lexer.
Over(r) == r.found # NULL \/ r.stopped
Compare(r, address, own) ==
  LET read == Heard(Read(r.lexer, own))
  IN  IF Over(r) THEN r
      ELSE [lexer |-> read.lexer, stopped |-> read.address = NULL,
            found |-> IF read.address # NULL /\ Lowered(read.address) = Lowered(address)
                      THEN own ELSE NULL]
Match(r, address, me, v) ==
  LET C[i \in 0..Len(v.addresses)] ==
        IF i = 0 THEN r ELSE Compare(C[i - 1], address, v.addresses[i])
  IN  IF Over(r) THEN r
      ELSE IF Lowered(address) = Lowered(me) THEN [r EXCEPT !.found = me]
      ELSE C[Len(v.addresses)]
LookIn(r, body, me, v) ==
  LET read  == Read(r.lexer, body)
      given == Given(read.list)
      A[i \in 0..Len(given)] ==
        IF i = 0 THEN [r EXCEPT !.lexer = read.lexer] ELSE Match(A[i - 1], given[i], me, v)
  IN  IF Over(r) THEN r ELSE A[Len(given)]
LookForMe(r, bodies, me, v) ==
  LET B[i \in 0..Len(bodies)] == IF i = 0 THEN r ELSE LookIn(B[i - 1], bodies[i], me, v)
  IN  B[Len(bodies)]
Sought(lex, hs, me, v) ==
  LET S[i \in 0..Len(Recipients)] ==
        IF i = 0 THEN [lexer |-> lex, found |-> v.from, stopped |-> FALSE]
        ELSE IF Over(S[i - 1]) \/ me = NULL \/ ~Found(hs, Recipients[i]) THEN S[i - 1]
        ELSE LookForMe(S[i - 1], Body(hs, Recipients[i]), me, v)
  IN  S[Len(Recipients)]

\* libsieve_do_getenvelope stores a part of the envelope at the place body, and
\* what it stored is parsed: afterwards the first body of a precedence header,
\* or else notfound, is the sender.
Stored(hs, text) == IF Found(hs, "precedence") THEN [hs EXCEPT !["precedence"][1] = text] ELSE hs
Parsed(lex, text) == IF text = NULL THEN [lexer |-> lex, address |-> NULL] ELSE Heard(Read(lex, text))

Decide(v, reply, stopped) ==
  decision' = [request |-> v, reply |-> reply, fresh |-> lexer = FreshLexer, stopped |-> stopped]
Decline(v, lex) == lexer' = lex /\ Decide(v, None, FALSE)
Reply(v, from, sought) ==
  /\ lexer' = sought.lexer
  /\ Decide(v, IF sought.found = NULL \/ sought.stopped THEN None
               ELSE [made |-> TRUE, to |-> from.address, from |-> sought.found], sought.stopped)
Judge(v, hs, to, from) ==
  /\ headers' = Stored(hs, arrived.from)
  /\ absent' = IF Found(hs, "precedence") THEN absent ELSE arrived.from
  /\ IF arrived.from # NULL /\ Refused(from.address, to.address, v) THEN Decline(v, from.lexer)
     ELSE Reply(v, from, Sought(from.lexer, hs, to.address, v))
AskSender(v, hs, to) == Judge(v, hs, to, Parsed(to.lexer, arrived.from))
Consider(v, hs) ==
  IF Automatic(hs) THEN headers' = hs /\ absent' = absent /\ Decline(v, lexer)
  ELSE AskSender(v, hs, Parsed(lexer, arrived.to))
Going == ~decision.stopped /\ lexer'.depth <= MaxDepth
Vacate(v) ==
  /\ Consider(v, Skipped(Skipped(headers, "auto-submitted"), "precedence"))
  /\ UNCHANGED arrived /\ Going

\* An address test parses the bodies of a header up to the one that matches, an
\* envelope test a part of the envelope.
AddressTest(h) ==
  /\ Found(headers, h)
  /\ \E n \in 1..Len(headers[h]) :
        LET L[i \in 0..n] == IF i = 0 THEN lexer ELSE Read(L[i - 1], headers[h][i]).lexer
        IN  lexer' = L[n]
EnvelopeTest(text) == text # NULL /\ lexer' = Read(lexer, text).lexer

\* static_verify_address and static_verify_stringlist: when a script is parsed, so
\* are the addresses of its commands, up to one that yields none.
Verify(texts) ==
  \E n \in 1..Len(texts) :
     LET L[i \in 0..n] == IF i = 0 THEN lexer ELSE Read(L[i - 1], texts[i]).lexer
     IN  /\ lexer' = L[n]
         /\ \A i \in 1..(n - 1) : Read(L[i - 1], texts[i]).list # <<>>
         /\ n < Len(texts) => Read(L[n - 1], texts[n]).list = <<>>

Test ==
  /\ \/ \E h \in Header : AddressTest(h)
     \/ \E e \in {"from", "to"} : EnvelopeTest(arrived[e])
     \/ \E v \in Request : Verify(v.addresses)
  /\ UNCHANGED <<arrived, headers, absent, decision>> /\ Going

Undecided == [request |-> NULL, reply |-> None, fresh |-> TRUE, stopped |-> FALSE]
Arrive(m) ==
  /\ arrived' = m /\ headers' = m.headers /\ decision' = Undecided
  /\ UNCHANGED <<absent, lexer>> /\ Going

Init ==
  /\ \E m \in Message : arrived = m /\ headers = m.headers
  /\ absent = <<>> /\ lexer = FreshLexer /\ decision = Undecided
Next ==
  \/ \E m \in Message : Arrive(m)
  \/ \E v \in Request : Vacate(v)
  \/ Test
Spec == Init /\ [][Next]_vars
-----------------------------------------------------------------------------
\* Whether a reply is due, said of the message as it arrived and of the addresses
\* that its texts name.
Named(text)  == IF text = NULL THEN NULL ELSE FirstGiven(Read(FreshLexer, text).list)
Mine(m, v)   == {Lowered(a) : a \in {Named(t) : t \in Range(v.addresses) \cup {m.to}} \ {NULL}}
Addressed(m) ==
  {Lowered(a) : a \in UNION {UNION {Range(Given(Read(FreshLexer, b).list)) : b \in Range(Body(m.headers, h))}
                              : h \in Range(Recipients)}}
FirstOf(m, h) == {Body(m.headers, h)[i] : i \in DOMAIN Body(m.headers, h) \cap {1}}
Forwarded(m) ==
  \/ \E h \in Lists : Body(m.headers, h) # <<>>
  \/ \E b \in FirstOf(m, "precedence") : Lowered(Skip(b)) \in Robots
  \/ \E b \in FirstOf(m, "auto-submitted") : Lowered(Skip(b)) # <<"no">>
Due(m, v) ==
  /\ ~Forwarded(m)
  /\ m.from # NULL => /\ Named(m.from) \notin {NULL, Named(m.to)} \cup Range(v.addresses)
                      /\ Named(m.to) \in Range(v.addresses)
                      /\ ~SysAddr(Named(m.from))
  /\ v.from = NULL => Named(m.to) # NULL /\ Mine(m, v) \cap Addressed(m) # {}

\* The texts that the decision reads addresses from.  They are plain if each leaves
\* a fresh lexer fresh and each address of the script is one, and if the sender, which
\* the decision writes over the precedence header, does not look like a robot's.
TextsRead(m, v) ==
  ({m.from, m.to} \cup Range(v.addresses)
     \cup UNION {Range(Body(m.headers, h)) : h \in Range(Recipients)}) \ {NULL}
Closed(text) == Read(FreshLexer, text).lexer = FreshLexer
Plainly(m, v) ==
  /\ \A text \in TextsRead(m, v) : Closed(text)
  /\ \A text \in Range(v.addresses) : Named(text) # NULL
  /\ m.from # NULL => Lowered(Skip(m.from)) \notin Robots

\* No text ends a comment that it did not begin.
Opened(text) ==
  \A n \in DOMAIN text :
    Cardinality({i \in 1..n : text[i] = ")"}) <= Cardinality({i \in 1..n : text[i] = "("})

\* A vacation command replies only where the message as it arrived calls for it:
\* to its sender, and as an address of the script or of the envelope.  That the
\* decision writes into the headers, that it is taken more than once, and that
\* an earlier text left the lexer inside a comment or a quotation never make it
\* reply where it should not, unless a text ends comments that others began.
\* From a fresh lexer, and with plain texts, every reply that is due is made.
RepliesAreDue ==
  LET v == decision.request
      r == decision.reply
  IN  v # NULL =>
        /\ r.made /\ (\A text \in TextsRead(arrived, v) : Opened(text)) =>
             /\ Due(arrived, v)
             /\ r.to = Named(arrived.from)
             /\ IF v.from # NULL THEN r.from = v.from
                ELSE r.from \in {Named(arrived.to)} \cup Range(v.addresses)
        /\ decision.fresh /\ Plainly(arrived, v) /\ Due(arrived, v) => r.made

\* Type correctness.  The lexer counts comments only inside one, and the arrays
\* are those of the message, their lengths included.
TypeOK ==
  /\ arrived \in Message
  /\ DOMAIN headers = DOMAIN arrived.headers
  /\ \A h \in DOMAIN headers : /\ Len(headers[h]) = Len(arrived.headers[h])
                               /\ Range(headers[h]) \subseteq Text \cup {NULL}
  /\ absent \in Text \cup {NULL}
  /\ lexer \in Lexer /\ (lexer.start = "COMMENT" <=> lexer.depth > 0)
  /\ decision.request \in Request \cup {NULL}
=============================================================================
