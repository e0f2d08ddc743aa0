------------------------- MODULE HeaderCache_proofs -------------------------
(***************************************************************************)
(* Proofs about HeaderCache for every hash function, size of the table,    *)
(* growth of the buckets, and messages.                                    *)
(***************************************************************************)
EXTENDS HeaderCache, Integers, SequenceTheorems, FiniteSetTheorems, WellFoundedInduction, TLAPS

-----------------------------------------------------------------------------
(* The least-number principle for sets, which stands in for induction. *)

\* A set of numbers that is not empty has a least element.
LEMMA Least ==
  ASSUME NEW T, T \subseteq Nat, T # {}
  PROVE  \E x \in T : \A y \in T : x <= y
<1> DEFINE less == OpToRel(<, Nat)
<1>1. IsWellFoundedOn(less, Nat)
  BY NatLessThanWellFounded DEF OpToRel
<1>2. less = {p \in Nat \X Nat : p[1] < p[2]}
  BY DEF OpToRel
<1> HIDE DEF less
<1>3. PICK x \in T : \A y \in T : ~(<<y, x>> \in less)
  BY <1>1, WFMin
<1>4. \A y \in T : ~(y < x)
  BY <1>2, <1>3
<1> QED BY <1>4

-----------------------------------------------------------------------------
Entry == [name : Name, body : Text]

\* The k-th place that is searched for n, and whether the search ends there.
At(n, k)   == (Hash[n] + k) % HashSize
Stop(n, k) == table[At(n, k)] = NULL \/ table[At(n, k)].name = n
First(n, k) == k \in Place /\ Stop(n, k) /\ \A j \in 0..(k - 1) : ~Stop(n, j)

\* A bucket is where the search for its name ends.
Settled(p) == \E k \in Place : First(table[p].name, k) /\ At(table[p].name, k) = p

\* There is a place for the NULL behind all the bodies a bucket has space for.
Fits(b) == Len(b.contents) \in 1..b.space /\ b.space < b.size

IInv == TypeOK /\ \A p \in Taken : Settled(p) /\ Fits(table[p])

-----------------------------------------------------------------------------
\* Adding to a hash and going around the end reaches every place once.
LEMMA AtPlace ==
  ASSUME NEW n \in Name, NEW k \in Place
  PROVE  /\ At(n, k) \in Place
         /\ \A j \in Place : At(n, j) = At(n, k) => j = k
         /\ At(n, 0) = Hash[n]
<1>1. Hash[n] \in 0..(HashSize - 1) /\ HashSize \in Nat /\ HashSize > 0
  BY HashAssumption
<1>2. ASSUME NEW x \in Nat, x < HashSize PROVE x % HashSize = x
  BY <1>1, <1>2
<1>3. ASSUME NEW x \in Nat, x >= HashSize, x < 2 * HashSize PROVE x % HashSize = x - HashSize
  BY <1>1, <1>3
<1>4. \A j \in Place : At(n, j) = IF Hash[n] + j < HashSize THEN Hash[n] + j
                                                             ELSE Hash[n] + j - HashSize
  <2> SUFFICES ASSUME NEW j \in Place
               PROVE  At(n, j) = IF Hash[n] + j < HashSize THEN Hash[n] + j
                                                            ELSE Hash[n] + j - HashSize
    OBVIOUS
  <2> QED BY <1>1, <1>2, <1>3 DEF At, Place
<1> QED BY <1>1, <1>4 DEF Place

\* The search for a name ends at the first place where it may, and at the hash
\* of the name only in a table that is full of other names.
LEMMA ProbeFirst ==
  ASSUME NEW n \in Name
  PROVE  /\ \A k : First(n, k) => Probe(n) = At(n, k)
         /\ \/ \E k \in Place : First(n, k)
            \/ Probe(n) = Hash[n] /\ table[Hash[n]] # NULL
<1> DEFINE stops == {k \in Place : Stop(n, k)}
<1>1. Probe(n) = IF stops = {} THEN Hash[n]
                 ELSE At(n, CHOOSE k \in stops : \A j \in stops : k <= j)
  BY DEF Probe, Stop, At
<1>2. ASSUME NEW k, First(n, k) PROVE Probe(n) = At(n, k)
  <2>1. k \in stops /\ \A j \in stops : k <= j
    BY <1>2, HashAssumption DEF First, Place
  <2>2. \A j \in stops : (\A x \in stops : j <= x) => j = k
    BY <2>1 DEF Place
  <2>3. (CHOOSE x \in stops : \A j \in stops : x <= j) = k
    BY <2>1, <2>2
  <2> QED BY <1>1, <2>1, <2>3
<1>3. ASSUME NEW k \in stops PROVE \E x \in Place : First(n, x)
  <2>1. PICK x \in stops : \A y \in stops : x <= y
    <3>1. stops \subseteq Nat /\ stops # {}
      BY <1>3 DEF Place
    <3> HIDE DEF stops
    <3> QED BY <3>1, Least
  <2>2. First(n, x)
    BY <2>1, HashAssumption DEF First, Place
  <2> QED BY <2>1, <2>2
<1>4. ASSUME stops = {} PROVE Probe(n) = Hash[n] /\ table[Hash[n]] # NULL
  <2>1. 0 \in Place
    BY HashAssumption DEF Place
  <2>2. ~Stop(n, 0) /\ At(n, 0) = Hash[n]
    BY <1>4, <2>1, AtPlace
  <2> QED BY <1>1, <1>4, <2>2 DEF Stop
<1> QED BY <1>2, <1>3, <1>4

LEMMA ProbePlace == ASSUME NEW n \in Name PROVE Probe(n) \in Place
BY ProbeFirst, AtPlace, HashAssumption DEF Place

-----------------------------------------------------------------------------
LEMMA BodyIsText ==
  ASSUME NEW msg \in Messages, NEW k \in DOMAIN msg, NEW junk \in [1..2 -> Body \cup {JUNK}]
  PROVE  msg[k].name \in Name /\ BodyOf(msg, k, junk) \in Text
<1>1. msg \in Seq(Header) /\ DOMAIN msg = 1..Len(msg)
  BY MessagesAssumption
<1>2. ASSUME NEW j \in DOMAIN msg
      PROVE  msg[j].name \in Name /\ msg[j].body \subseteq Body \cup {EMPTY}
  <2>1. msg[j] \in Header
    BY <1>1, ElementOfSeq
  <2> QED BY <2>1 DEF Header
<1>3. (IF k = 1 THEN {1} ELSE 2..k) \subseteq DOMAIN msg
  BY <1>1
<1>4. junk[IF k = 1 THEN 1 ELSE 2] \in Body \cup {JUNK}
  OBVIOUS
<1> DEFINE line   == IF k = 1 THEN {1} ELSE 2..k
           begun  == {j \in line : EMPTY \notin msg[j].body}
           joined == {j \in line : \A b \in begun : b <= j}
           rest   == IF begun = {} THEN {junk[IF k = 1 THEN 1 ELSE 2]} ELSE {}
<1>5. BodyOf(msg, k, junk) = ((UNION {msg[j].body : j \in joined}) \ {EMPTY}) \cup rest
  BY DEF BodyOf
<1>6. joined \subseteq DOMAIN msg
  BY <1>3
<1>7. rest \subseteq Body \cup {JUNK}
  BY <1>4
<1> HIDE DEF joined, rest
<1>8. ASSUME NEW x \in (UNION {msg[j].body : j \in joined}), x # EMPTY PROVE x \in Body
  <2>1. PICK j \in joined : x \in msg[j].body
    BY <1>8
  <2> QED BY <1>2, <1>6, <1>8, <2>1
<1>9. (UNION {msg[j].body : j \in joined}) \ {EMPTY} \subseteq Body
  <2> DEFINE all == UNION {msg[j].body : j \in joined}
  <2> HIDE DEF all
  <2>1. \A x \in all : x # EMPTY => x \in Body
    BY <1>8 DEF all
  <2> QED BY <2>1 DEF all
<1>10. BodyOf(msg, k, junk) \subseteq Body \cup {JUNK}
  <2> DEFINE own == (UNION {msg[j].body : j \in joined}) \ {EMPTY}
  <2>1. BodyOf(msg, k, junk) = own \cup rest
    BY <1>5
  <2>2. own \subseteq Body
    BY <1>9
  <2> HIDE DEF own
  <2> QED BY <1>7, <2>1, <2>2
<1> QED BY <1>2, <1>10 DEF Text

LEMMA ParseStep ==
  ASSUME IInv, NEW msg \in Messages, Parse(msg)
  PROVE  /\ UNCHANGED <<table, answer>> /\ list' \in Seq(Entry)
         /\ parsed' \in Seq(Messages) /\ Len(parsed') <= MaxParses
<1>1. PICK junk \in [1..2 -> Body \cup {JUNK}] :
        list' = Reverse([k \in DOMAIN msg |->
                  [name |-> msg[k].name, body |-> BodyOf(msg, k, junk)]])
  BY DEF Parse
<1> DEFINE read == [k \in 1..Len(msg) |-> [name |-> msg[k].name, body |-> BodyOf(msg, k, junk)]]
<1>2. msg \in Seq(Header) /\ DOMAIN msg = 1..Len(msg) /\ Len(msg) \in Nat
  BY MessagesAssumption
<1>3. \A k \in 1..Len(msg) :
        [name |-> msg[k].name, body |-> BodyOf(msg, k, junk)] \in Entry
  BY <1>2, BodyIsText DEF Entry
<1>4. read \in Seq(Entry)
  BY <1>2, <1>3, IsASeq
<1>5. list' = Reverse(read)
  BY <1>1, <1>2
<1> HIDE DEF read
<1>6. Reverse(read) = [i \in 1..Len(read) |-> read[(Len(read) - i) + 1]]
  BY DEF Reverse
<1>7. \A i \in 1..Len(read) : read[(Len(read) - i) + 1] \in Entry
  <2> SUFFICES ASSUME NEW i \in 1..Len(read) PROVE read[(Len(read) - i) + 1] \in Entry
    OBVIOUS
  <2>1. (Len(read) - i) + 1 \in 1..Len(read)
    BY <1>4, LenProperties
  <2> QED BY <1>4, <2>1, ElementOfSeq
<1>8. list' \in Seq(Entry)
  BY <1>4, <1>5, <1>6, <1>7, IsASeq, LenProperties
<1>9. parsed' \in Seq(Messages) /\ Len(parsed') <= MaxParses
  BY AppendProperties, RoomAssumption DEF Parse, IInv, TypeOK
<1> QED BY <1>8, <1>9 DEF Parse

\* The bucket that Insert makes or extends.
Fresh(h) == [name |-> h.name, contents |-> <<h.body>>, space |-> 1, size |-> 2]

LEMMA FreshFits ==
  ASSUME NEW h \in Entry
  PROVE  Fresh(h) \in Bucket /\ Fresh(h) # NULL /\ Fresh(h).name = h.name /\ Fits(Fresh(h))
<1>1. <<h.body>> \in Seq(Text) /\ Len(<<h.body>>) = 1
  BY DEF Entry
<1>2. Fresh(h) \in Bucket
  BY <1>1 DEF Fresh, Bucket, Entry
<1> QED BY <1>1, <1>2, NullAssumption DEF Fresh, Fits

LEMMA AddFits ==
  ASSUME NEW b \in Bucket, NEW text \in Text, Fits(b)
  PROVE  Add(b, text) \in Bucket /\ Add(b, text) # NULL /\ Add(b, text).name = b.name
         /\ Fits(Add(b, text))
<1>1. PICK n \in Name, c \in Seq(Text), s \in Nat, z \in Nat :
        b = [name |-> n, contents |-> c, space |-> s, size |-> z]
  BY DEF Bucket
<1> DEFINE more  == IF Len(c) < s THEN 0 ELSE Room
           space == s + more
           size  == IF more = 0 THEN z ELSE s + more + 1
<1>2. /\ Append(c, text) \in Seq(Text) /\ Len(Append(c, text)) = Len(c) + 1
      /\ Len(c) \in Nat /\ Len(c) \in 1..s /\ s < z
  BY <1>1, AppendProperties, LenProperties DEF Fits
<1>3. Add(b, text) = [name |-> n, contents |-> Append(c, text), space |-> space, size |-> size]
  <2>1. b.contents = c /\ b.space = s /\ b.size = z
    BY <1>1
  <2>2. Add(b, text) = [b EXCEPT !.contents = Append(c, text), !.space = space, !.size = size]
    BY <2>1 DEF Add
  <2> HIDE DEF more, space, size
  <2> QED BY <1>1, <2>2
<1>4. space \in Nat /\ size \in Nat
  BY RoomAssumption
<1>5. Len(c) + 1 <= space /\ space < size
  BY <1>2, RoomAssumption
<1> HIDE DEF more, space, size
<1>6. Add(b, text) \in Bucket /\ Add(b, text).name = b.name
  BY <1>1, <1>2, <1>3, <1>4 DEF Bucket
<1>7. Fits(Add(b, text))
  BY <1>2, <1>3, <1>4, <1>5 DEF Fits
<1> QED BY <1>6, <1>7, NullAssumption

-----------------------------------------------------------------------------
LEMMA InsertStep ==
  ASSUME IInv, Insert
  PROVE  IInv'
<1> DEFINE h == Head(list)
           p == Probe(h.name)
           b == IF table[p] # NULL THEN Add(table[p], h.body) ELSE Fresh(h)
<1>1. h \in Entry /\ Tail(list) \in Seq(Entry)
  BY HeadTailProperties DEF Insert, IInv, TypeOK, Entry
<1>2. h.name \in Name /\ h.body \in Text
  BY <1>1 DEF Entry
<1>3. p \in Place
  BY <1>2, ProbePlace
<1>4. list' = Tail(list) /\ UNCHANGED <<answer, parsed>> /\ table' = [table EXCEPT ![p] = b]
  BY DEF Insert, Fresh
<1> HIDE DEF h
<1>5. table \in [Place -> Bucket \cup {NULL}]
  BY DEF IInv, TypeOK
<1>6. ASSUME table[p] # NULL
      PROVE  b \in Bucket /\ b # NULL /\ b.name = table[p].name /\ Fits(b)
  <2>1. table[p] \in Bucket /\ Fits(table[p])
    BY <1>3, <1>5, <1>6 DEF IInv, Taken
  <2> QED BY <2>1, <1>2, <1>6, AddFits
<1>7. ASSUME table[p] = NULL
      PROVE  b \in Bucket /\ b # NULL /\ b.name = h.name /\ Fits(b)
  BY <1>1, <1>7, FreshFits
<1> HIDE DEF b, p
<1>8. \A q \in Place : table'[q] = IF q = p THEN b ELSE table[q]
  BY <1>4, <1>5
<1>9. TypeOK'
  <2>1. table' \in [Place -> Bucket \cup {NULL}]
    BY <1>4, <1>5, <1>6, <1>7
  <2>2. \A q \in Taken' : Len(table'[q].contents) \in 1..table'[q].space
    BY <1>6, <1>7, <1>8 DEF IInv, Taken, Fits
  <2> QED BY <1>1, <1>4, <2>1, <2>2 DEF IInv, TypeOK, Entry, Taken
<1>10. \A q \in Taken' : Fits(table'[q])
  BY <1>6, <1>7, <1>8 DEF IInv, Taken
<1>11. ASSUME NEW n \in Name, NEW j \in Place, ~Stop(n, j) PROVE ~Stop(n, j)'
  <2>1. At(n, j) \in Place
    BY AtPlace
  <2> QED BY <1>6, <1>8, <1>11, <2>1 DEF Stop, At
<1>12. ASSUME NEW n \in Name, NEW k \in Place, First(n, k), table'[At(n, k)].name = n
       PROVE  First(n, k)'
  <2>1. \A j \in 0..(k - 1) : j \in Place
    BY HashAssumption DEF Place
  <2>2. \A j \in 0..(k - 1) : ~Stop(n, j)'
    BY <1>11, <1>12, <2>1 DEF First
  <2>3. Stop(n, k)'
    BY <1>12 DEF Stop, At
  <2> QED BY <2>2, <2>3 DEF First, Place
<1>13. ASSUME NEW q \in Taken' PROVE Settled(q)'
  <2>1. q \in Place /\ (q \in Taken \/ q = p)
    BY <1>8 DEF Taken
  <2>2. CASE q \in Taken
    <3>1. PICK k \in Place : First(table[q].name, k) /\ At(table[q].name, k) = q
      BY <2>2 DEF IInv, Settled
    <3>2. table'[q].name = table[q].name /\ table[q].name \in Name
      BY <2>1, <2>2, <1>5, <1>6, <1>8 DEF Taken, Bucket
    <3>3. First(table[q].name, k)'
      BY <3>1, <3>2, <1>12
    <3> QED BY <3>1, <3>2, <3>3 DEF Settled, First, Stop, At, Place
  <2>3. CASE q \notin Taken
    <3>1. q = p /\ table[p] = NULL /\ table'[q].name = h.name
      BY <2>1, <2>3, <1>3, <1>7, <1>8 DEF Taken
    <3>2. PICK n \in Name : n = h.name
      BY <1>2
    <3>3. PICK k \in Place : First(n, k) /\ At(n, k) = q
      BY <3>1, <3>2, ProbeFirst DEF p
    <3>4. First(n, k)'
      BY <3>1, <3>2, <3>3, <1>12
    <3> QED BY <3>1, <3>2, <3>3, <3>4 DEF Settled, First, Stop, At, Place
  <2> QED BY <2>2, <2>3
<1> QED BY <1>9, <1>10, <1>13 DEF IInv

LEMMA SameTable ==
  ASSUME IInv, UNCHANGED table, TypeOK' PROVE IInv'
<1>1. Taken' = Taken
  BY DEF Taken, Place
<1>2. \A p \in Taken : Settled(p)' /\ Fits(table'[p])
  BY DEF IInv, Settled, First, Stop, At, Place
<1> QED BY <1>1, <1>2 DEF IInv

LEMMA LookupStep ==
  ASSUME IInv, NEW n \in Name, Lookup(n) PROVE TypeOK' /\ UNCHANGED table
<1>1. table[Probe(n)] \in Bucket \cup {NULL}
  BY ProbePlace DEF IInv, TypeOK
<1>2. answer'.name = n /\ answer'.bodies \in Seq(Text)
  <2>1. CASE table[Probe(n)] # NULL /\ table[Probe(n)].name = n
    BY <1>1, <2>1 DEF Lookup, Held, Bucket
  <2>2. CASE ~(table[Probe(n)] # NULL /\ table[Probe(n)].name = n)
    BY <2>2, EmptySeq DEF Lookup, Held
  <2> QED BY <2>1, <2>2
<1>3. UNCHANGED <<table, list, parsed>>
  BY DEF Lookup
<1> QED BY <1>2, <1>3 DEF IInv, TypeOK, Taken

LEMMA IInvStep == IInv /\ [Next]_vars => IInv'
<1> SUFFICES ASSUME IInv, [Next]_vars PROVE IInv'
  OBVIOUS
<1>1. ASSUME NEW msg \in Messages, Parse(msg) PROVE IInv'
  <2>1. TypeOK' /\ UNCHANGED table
    BY <1>1, ParseStep DEF IInv, TypeOK, Entry, Taken
  <2> QED BY <2>1, SameTable
<1>2. CASE Insert
  BY <1>2, InsertStep
<1>3. ASSUME NEW n \in Name, Lookup(n) PROVE IInv'
  BY <1>3, LookupStep, SameTable
<1>4. CASE UNCHANGED vars
  <2>1. TypeOK' /\ UNCHANGED table
    BY <1>4 DEF IInv, TypeOK, Taken, vars
  <2> QED BY <2>1, SameTable
<1> QED BY <1>1, <1>2, <1>3, <1>4 DEF Next

LEMMA InitIInv == Init => IInv
<1> SUFFICES ASSUME Init PROVE IInv
  OBVIOUS
<1>1. Taken = {}
  BY DEF Init, Taken
<1>2. TypeOK
  BY <1>1, EmptySeq, RoomAssumption DEF Init, TypeOK
<1> QED BY <1>1, <1>2 DEF IInv

-----------------------------------------------------------------------------
\* Every bucket is well formed and the NULL behind its bodies is inside its
\* array, however many headers of a name there are and by whatever amount the
\* array grows (libsieve_message2_parseheader).
THEOREM TerminatorsFit == Spec => [](TypeOK /\ TerminatorFits)
<1>1. IInv => TypeOK /\ TerminatorFits
  <2> SUFFICES ASSUME IInv, NEW p \in Taken PROVE Len(table[p].contents) < table[p].size
    BY DEF IInv, TerminatorFits
  <2>1. table[p] \in Bucket /\ Fits(table[p])
    BY DEF IInv, TypeOK, Taken
  <2> QED BY <2>1 DEF Fits, Bucket
<1> QED BY <1>1, InitIInv, IInvStep, PTL DEF Spec

\* The table, its buckets and the answers keep their types, and the bodies of
\* a bucket never exceed the space that is counted for it.
THEOREM CacheTyped == Spec => []TypeOK
<1>1. IInv => TypeOK
  BY DEF IInv
<1> QED BY <1>1, InitIInv, IInvStep, PTL DEF Spec

\* A lookup of the name of a bucket ends at that bucket, whatever the hash
\* function and however full the table is (getheader of message2.c).
THEOREM BucketsAreFound == Spec => []Reachable
<1>1. IInv => Reachable
  <2> SUFFICES ASSUME IInv, NEW p \in Taken PROVE Probe(table[p].name) = p
    BY DEF Reachable
  <2>1. table[p].name \in Name
    BY DEF IInv, TypeOK, Taken, Bucket
  <2> QED BY <2>1, ProbeFirst DEF IInv, Settled
<1> QED BY <1>1, InitIInv, IInvStep, PTL DEF Spec
-----------------------------------------------------------------------------
(* What Bodies collects from a list of headers. *)

\* The equation of the recursion in Bodies, for one place of a list.
Collect(hs, n, from, i) ==
  IF i > Len(hs) THEN <<>>
  ELSE IF hs[i].name = n THEN <<hs[i].body>> \o from[i + 1] ELSE from[i + 1]
Collects(hs, n, from) == from = [i \in 1..(Len(hs) + 1) |-> Collect(hs, n, from, i)]

Lists == Seq(Entry)
Answer == Seq(Text)

LEMMA ListElements ==
  ASSUME NEW hs \in Lists
  PROVE  /\ Len(hs) \in Nat /\ DOMAIN hs = 1..Len(hs)
         /\ \A i \in 1..Len(hs) : hs[i].name \in Name /\ hs[i].body \in Text
<1> DEFINE E == Entry
<1>1. hs \in Seq(E)
  BY DEF Lists
<1>2. \A e \in E : e.name \in Name /\ e.body \in Text
  BY DEF Entry
<1> HIDE DEF E
<1>3. Len(hs) \in Nat /\ DOMAIN hs = 1..Len(hs)
  BY <1>1, LenProperties
<1>4. \A i \in 1..Len(hs) : hs[i] \in E
  BY <1>1, ElementOfSeq
<1> QED BY <1>2, <1>3, <1>4

LEMMA OneMore ==
  ASSUME NEW x \in Text, NEW s \in Answer PROVE <<x>> \o s \in Answer
<1> DEFINE T == Text
<1>1. s \in Seq(T) /\ x \in T
  BY DEF Answer
<1> HIDE DEF T
<1>2. <<x>> \in Seq(T)
  BY <1>1
<1>3. <<x>> \o s \in Seq(T)
  BY <1>1, <1>2, ConcatProperties
<1> QED BY <1>3 DEF T, Answer

LEMMA CollectsExists ==
  ASSUME NEW hs \in Lists, NEW n
  PROVE  \E from : Collects(hs, n, from) /\ \A i \in 1..(Len(hs) + 1) : from[i] \in Answer
<1> DEFINE N == Len(hs)
           Is(f, d) == f = [i \in (N + 1 - d)..(N + 1) |-> Collect(hs, n, f, i)]
                       /\ \A i \in (N + 1 - d)..(N + 1) : f[i] \in Answer
           Bad == {d \in 0..N : ~\E f : Is(f, d)}
<1>1. N \in Nat /\ \A i \in 1..N : hs[i].body \in Text
  BY ListElements
<1>2. \E f : Is(f, 0)
  <2> DEFINE f == [i \in (N + 1)..(N + 1) |-> <<>>]
  <2>1. \A i \in (N + 1)..(N + 1) : i = N + 1 /\ Collect(hs, n, f, i) = <<>>
    BY <1>1 DEF Collect
  <2>2. N + 1 - 0 = N + 1 /\ <<>> \in Answer
    BY <1>1, EmptySeq DEF Answer
  <2>3. f = [i \in (N + 1)..(N + 1) |-> Collect(hs, n, f, i)]
    BY <2>1
  <2>4. \A i \in (N + 1)..(N + 1) : f[i] \in Answer
    BY <2>2
  <2> HIDE DEF f
  <2> QED BY <2>2, <2>3, <2>4
<1>3. ASSUME NEW d \in 0..(N - 1), NEW f, Is(f, d) PROVE \E g : Is(g, d + 1)
  <2> DEFINE m == N - d
             g == [i \in m..(N + 1) |-> IF i = m THEN Collect(hs, n, f, m) ELSE f[i]]
  <2>1. m \in 1..N /\ N + 1 - d = m + 1 /\ N + 1 - (d + 1) = m
    BY <1>1
  <2>2. f = [i \in (m + 1)..(N + 1) |-> Collect(hs, n, f, i)] /\ \A i \in (m + 1)..(N + 1) : f[i] \in Answer
    BY <1>3, <2>1
  <2> HIDE DEF m
  <2>3. \A i \in (m + 1)..(N + 1) : g[i] = f[i]
    BY <1>1, <2>1
  <2>4. g[m] = Collect(hs, n, f, m) /\ g = [i \in m..(N + 1) |-> g[i]]
    BY <1>1, <2>1
  <2> HIDE DEF g
  <2>5. ASSUME NEW i \in m..(N + 1) PROVE Collect(hs, n, g, i) = Collect(hs, n, f, i)
    <3>1. i <= N => i + 1 \in (m + 1)..(N + 1)
      BY <1>1, <2>1
    <3> QED BY <1>1, <2>1, <2>3, <3>1 DEF Collect
  <2>6. ASSUME NEW i \in m..(N + 1) PROVE g[i] = Collect(hs, n, g, i) /\ g[i] \in Answer
    <3>1. CASE i = m
      <4>1. f[m + 1] \in Answer /\ ~(m > N) /\ hs[m].body \in Text
        BY <1>1, <2>1, <2>2
      <4>2. <<hs[m].body>> \o f[m + 1] \in Answer
        BY <4>1, OneMore
      <4>3. Collect(hs, n, f, m) \in Answer
        BY <4>1, <4>2 DEF Collect
      <4> QED BY <2>4, <2>5, <3>1, <4>3
    <3>2. CASE i \in (m + 1)..(N + 1)
      BY <2>2, <2>3, <2>5, <3>2
    <3> QED BY <1>1, <2>1, <3>1, <3>2
  <2>7. g = [i \in m..(N + 1) |-> Collect(hs, n, g, i)]
    BY <2>4, <2>6
  <2> QED BY <2>1, <2>6, <2>7
<1>4. Bad = {}
  <2> SUFFICES ASSUME Bad # {} PROVE FALSE
    OBVIOUS
  <2>1. PICK d \in Bad : \A e \in Bad : d <= e
    <3>1. Bad \subseteq Nat
      OBVIOUS
    <3> HIDE DEF Bad
    <3> QED BY <3>1, Least
  <2>2. d # 0 /\ d \in 0..N
    BY <1>2, <2>1
  <2> HIDE DEF Bad
  <2>3. d - 1 \in 0..(N - 1) /\ d - 1 \in 0..N /\ ~(d <= d - 1)
    BY <1>1, <2>2
  <2>4. PICK f : Is(f, d - 1)
    BY <2>1, <2>3 DEF Bad
  <2>5. \E g : Is(g, (d - 1) + 1)
    <3> HIDE DEF Is
    <3> QED BY <1>3, <2>3, <2>4
  <2>6. (d - 1) + 1 = d
    BY <2>2
  <2> QED BY <2>1, <2>5, <2>6 DEF Bad
<1>5. PICK f : Is(f, N)
  BY <1>1, <1>4
<1>6. N + 1 - N = 1
  BY <1>1
<1> QED BY <1>1, <1>5, <1>6 DEF Collects

\* The recursion has one solution.
LEMMA CollectsOnce ==
  ASSUME NEW hs \in Lists, NEW n, NEW f, NEW g, Collects(hs, n, f), Collects(hs, n, g)
  PROVE  \A i \in 1..(Len(hs) + 1) : f[i] = g[i]
<1> DEFINE N == Len(hs)
           Bad == {d \in 0..N : f[N + 1 - d] # g[N + 1 - d]}
<1>1. N \in Nat
  BY ListElements
<1>2. \A i \in 1..(N + 1) : f[i] = Collect(hs, n, f, i) /\ g[i] = Collect(hs, n, g, i)
  BY DEF Collects
<1>3. Bad = {}
  <2> SUFFICES ASSUME Bad # {} PROVE FALSE
    OBVIOUS
  <2>1. PICK d \in Bad : \A e \in Bad : d <= e
    <3>1. Bad \subseteq Nat
      OBVIOUS
    <3> HIDE DEF Bad
    <3> QED BY <3>1, Least
  <2> DEFINE i == N + 1 - d
  <2>2. d \in 0..N /\ i \in 1..(N + 1) /\ f[i] # g[i]
    BY <1>1, <2>1
  <2>3. d # 0 => d - 1 \in 0..N /\ ~(d <= d - 1) /\ N + 1 - (d - 1) = i + 1
    BY <1>1, <2>2
  <2>4. d # 0 => f[i + 1] = g[i + 1]
    BY <2>1, <2>3
  <2>5. d = 0 => i > N
    BY <1>1
  <2> HIDE DEF Bad, i
  <2> QED BY <1>2, <2>2, <2>4, <2>5 DEF Collect
<1> SUFFICES ASSUME NEW i \in 1..(N + 1) PROVE f[i] = g[i]
  OBVIOUS
<1>4. N + 1 - i \in 0..N /\ N + 1 - (N + 1 - i) = i
  BY <1>1
<1> QED BY <1>3, <1>4

LEMMA BodiesAre ==
  ASSUME NEW hs \in Lists, NEW n
  PROVE  \E from : /\ Collects(hs, n, from) /\ Bodies(hs, n) = from[1]
                   /\ \A i \in 1..(Len(hs) + 1) : from[i] \in Answer
<1> DEFINE c == CHOOSE f : Collects(hs, n, f)
<1>1. Bodies(hs, n) = c[1]
  BY DEF Bodies, Collects, Collect
<1>2. PICK f : Collects(hs, n, f) /\ \A i \in 1..(Len(hs) + 1) : f[i] \in Answer
  BY CollectsExists
<1>3. Collects(hs, n, c)
  BY <1>2
<1> HIDE DEF c
<1>4. \A i \in 1..(Len(hs) + 1) : c[i] = f[i]
  BY <1>2, <1>3, CollectsOnce
<1> QED BY <1>1, <1>2, <1>3, <1>4

LEMMA BodiesOfNone ==
  ASSUME NEW n PROVE Bodies(<<>>, n) = <<>>
<1>1. <<>> \in Lists /\ Len(<<>>) = 0
  BY EmptySeq DEF Lists
<1>2. PICK f : Collects(<<>>, n, f) /\ Bodies(<<>>, n) = f[1]
  BY <1>1, BodiesAre
<1>3. 1 \in 1..(Len(<<>>) + 1) /\ 1 > Len(<<>>)
  BY <1>1
<1>4. f[1] = Collect(<<>>, n, f, 1)
  BY <1>2, <1>3 DEF Collects
<1> QED BY <1>2, <1>3, <1>4 DEF Collect

LEMMA BodiesOfSome ==
  ASSUME NEW hs \in Lists, NEW n, hs # <<>>
  PROVE  /\ Tail(hs) \in Lists /\ Head(hs).name \in Name /\ Head(hs).body \in Text
         /\ Bodies(hs, n) = IF Head(hs).name = n THEN <<Head(hs).body>> \o Bodies(Tail(hs), n)
                                                 ELSE Bodies(Tail(hs), n)
<1> DEFINE E == Entry
<1>0. hs \in Seq(E)
  BY DEF Lists
<1> HIDE DEF E
<1>1. /\ Tail(hs) \in Seq(E) /\ Len(Tail(hs)) = Len(hs) - 1
      /\ \A i \in 1..Len(Tail(hs)) : Tail(hs)[i] = hs[i + 1]
      /\ Len(hs) \in Nat \ {0} /\ Head(hs) = hs[1]
  <2>1. Tail(hs) \in Seq(E) /\ Len(Tail(hs)) = Len(hs) - 1 /\ Head(hs) = hs[1]
        /\ \A i \in 1..Len(Tail(hs)) : Tail(hs)[i] = hs[i + 1]
    BY <1>0, HeadTailProperties
  <2>2. Len(hs) \in Nat /\ Len(hs) # 0
    BY <1>0, LenProperties, EmptySeq
  <2> QED BY <2>1, <2>2
<1>2. Tail(hs) \in Lists
  BY <1>1 DEF Lists, E
<1>3. PICK f : Collects(hs, n, f) /\ Bodies(hs, n) = f[1]
  BY BodiesAre
<1>4. PICK g : Collects(Tail(hs), n, g) /\ Bodies(Tail(hs), n) = g[1]
  BY <1>2, BodiesAre
<1> DEFINE N == Len(hs)
           s == [i \in 1..N |-> f[i + 1]]
<1>5. \A i \in 1..(N + 1) : f[i] = Collect(hs, n, f, i)
  BY <1>3 DEF Collects
<1>6. Collects(Tail(hs), n, s)
  <2>1. Len(Tail(hs)) + 1 = N
    BY <1>1
  <2>2. ASSUME NEW i \in 1..N PROVE s[i] = Collect(Tail(hs), n, s, i)
    <3>1. s[i] = f[i + 1] /\ i + 1 \in 1..(N + 1) /\ f[i + 1] = Collect(hs, n, f, i + 1)
      BY <1>1, <1>5
    <3>2. i + 1 > Len(hs) <=> i > Len(Tail(hs))
      BY <1>1
    <3>3. ~(i > Len(Tail(hs))) => i \in 1..Len(Tail(hs)) /\ i + 1 \in 1..N
      BY <1>1
    <3>4. ~(i > Len(Tail(hs))) => Tail(hs)[i] = hs[i + 1] /\ s[i + 1] = f[(i + 1) + 1]
      BY <1>1, <3>3
    <3> HIDE DEF s
    <3> QED BY <3>1, <3>2, <3>4 DEF Collect
  <2>3. s = [i \in 1..N |-> s[i]]
    OBVIOUS
  <2> HIDE DEF s
  <2>4. s = [i \in 1..N |-> Collect(Tail(hs), n, s, i)]
    BY <2>2, <2>3
  <2> QED BY <2>1, <2>4 DEF Collects
<1>7. g[1] = s[1] /\ s[1] = f[2]
  <2>1. \A i \in 1..(Len(Tail(hs)) + 1) : g[i] = s[i]
    <3> DEFINE t == Tail(hs)
    <3>1. t \in Lists /\ Collects(t, n, g) /\ Collects(t, n, s)
      BY <1>2, <1>4, <1>6
    <3> HIDE DEF s, t
    <3>2. \A i \in 1..(Len(t) + 1) : g[i] = s[i]
      BY <3>1, CollectsOnce
    <3> QED BY <3>2 DEF t
  <2>2. 1 \in 1..(Len(Tail(hs)) + 1) /\ 1 \in 1..N /\ 1 + 1 = 2
    BY <1>1
  <2> QED BY <2>1, <2>2
<1>8. f[1] = IF hs[1].name = n THEN <<hs[1].body>> \o f[2] ELSE f[2]
  <2>1. f[1] = Collect(hs, n, f, 1) /\ ~(1 > Len(hs)) /\ 1 + 1 = 2
    BY <1>1, <1>5
  <2> QED BY <2>1 DEF Collect
<1>9. Head(hs).name \in Name /\ Head(hs).body \in Text
  BY <1>1, ListElements
<1> QED BY <1>1, <1>2, <1>3, <1>4, <1>7, <1>8, <1>9

-----------------------------------------------------------------------------
(* The cache answers as a map, as long as the table has a place for every  *)
(* name that the messages have and no header has an empty first line.      *)
Sent == UNION {{msg[k].name : k \in DOMAIN msg} : msg \in Messages}
NamesFit == IsFiniteSet(Sent) /\ Cardinality(Sent) <= HashSize
NoneIsEmpty == \A msg \in Messages : \A k \in DOMAIN msg : EMPTY \notin msg[k].body

\* The names in the table and on their way to it come from the messages.
FromMessages ==
  /\ \A p \in Taken : table[p].name \in Sent
  /\ \A i \in 1..Len(list) : list[i].name \in Sent

RInv == IInv /\ FromMessages

\* What is held for a name is in its bucket, if it has one.
LEMMA HeldIs ==
  ASSUME IInv, NEW n \in Name
  PROVE  /\ \A q \in Taken : table[q].name = n => Probe(n) = q /\ Held(n) = table[q].contents
         /\ (\A q \in Taken : table[q].name # n) => Held(n) = <<>>
         /\ Held(n) \in Answer
<1>1. ASSUME NEW q \in Taken, table[q].name = n
      PROVE  Probe(n) = q /\ Held(n) = table[q].contents
  <2>1. PICK k \in Place : First(n, k) /\ At(n, k) = q
    BY <1>1 DEF IInv, Settled
  <2>2. Probe(n) = q
    BY <2>1, ProbeFirst
  <2>3. table[q] # NULL
    BY DEF Taken
  <2> QED BY <1>1, <2>2, <2>3 DEF Held
<1>2. ASSUME \A q \in Taken : table[q].name # n PROVE Held(n) = <<>>
  <2>1. Probe(n) \in Place
    BY ProbePlace
  <2> QED BY <1>2, <2>1 DEF Held, Taken
<1>3. \A q \in Taken : table[q].contents \in Answer
  BY DEF IInv, TypeOK, Taken, Bucket, Answer
<1>4. <<>> \in Answer
  BY EmptySeq DEF Answer
<1> QED BY <1>1, <1>2, <1>3, <1>4

HeldState ==
  \A n \in Name : /\ \A q \in Taken : table[q].name = n => Held(n) = table[q].contents
                  /\ (\A q \in Taken : table[q].name # n) => Held(n) = <<>>

LEMMA HeldAlways == IInv => HeldState
BY HeldIs DEF HeldState

\* A name of a message that has no bucket yet finds an empty place: the others
\* have one bucket each, and there are fewer of them than places.
LEMMA PlaceForEach ==
  ASSUME NamesFit, RInv, NEW n \in Name, n \in Sent, \A q \in Taken : table[q].name # n
  PROVE  table[Probe(n)] = NULL
<1> SUFFICES ASSUME table[Probe(n)] # NULL PROVE FALSE
  OBVIOUS
<1>1. HashSize \in Nat /\ HashSize > 0
  BY HashAssumption
<1>2. Probe(n) \in Place
  BY ProbePlace
<1>3. \A k \in Place : table[At(n, k)] # NULL
  <2>1. ASSUME NEW k, First(n, k) PROVE FALSE
    <3>1. Probe(n) = At(n, k) /\ Stop(n, k)
      BY <2>1, ProbeFirst DEF First
    <3>2. Probe(n) \in Taken
      BY <1>2 DEF Taken
    <3> QED BY <3>1, <3>2 DEF Stop
  <2>2. ASSUME NEW k \in Place, table[At(n, k)] = NULL PROVE FALSE
    <3> DEFINE stops == {j \in Place : Stop(n, j)}
    <3>1. stops \subseteq Nat /\ stops # {}
      BY <2>2 DEF Place, Stop
    <3>2. PICK x \in stops : \A y \in stops : x <= y
      <4> HIDE DEF stops
      <4> QED BY <3>1, Least
    <3>3. First(n, x)
      BY <1>1, <3>2 DEF First, Place
    <3> QED BY <2>1, <3>3
  <2> QED BY <2>2
<1> DEFINE others == Sent \ {n}
           f == [k \in Place |-> table[At(n, k)].name]
<1>4. \A k \in Place : At(n, k) \in Taken
  BY <1>3, AtPlace DEF Taken
<1>5. f \in [Place -> others]
  BY <1>4 DEF RInv, FromMessages
<1>6. ASSUME NEW j \in Place, NEW k \in Place, f[j] = f[k] PROVE j = k
  <2>1. table[At(n, j)].name \in Name
    BY <1>4 DEF RInv, IInv, TypeOK, Taken, Bucket
  <2>2. At(n, j) = At(n, k)
    BY <1>4, <1>6, <2>1, HeldIs DEF RInv
  <2> QED BY <2>2, AtPlace
<1>7. f \in Injection(Place, others)
  <2> HIDE DEF f, others
  <2> QED BY <1>5, <1>6 DEF Injection, IsInjective
<1>8. IsFiniteSet(others) /\ Cardinality(others) = Cardinality(Sent) - 1 /\ Cardinality(Sent) \in Nat
  BY FS_RemoveElement, FS_CardinalityType DEF NamesFit
<1> HIDE DEF f, others
<1>9. Cardinality(Place) <= Cardinality(others)
  BY <1>7, <1>8, FS_Injection
<1>10. Cardinality(Place) = HashSize
  <2>1. 0 \in Int /\ HashSize - 1 \in Int /\ ~(0 > HashSize - 1) /\ HashSize - 1 - 0 + 1 = HashSize
    BY <1>1
  <2> QED BY <2>1, FS_Interval DEF Place
<1> QED BY <1>1, <1>8, <1>9, <1>10 DEF NamesFit

\* What a message leaves on the list is the message, the last header first.
LEMMA ParsedList ==
  ASSUME NoneIsEmpty, IInv, NEW msg \in Messages, Parse(msg)
  PROVE  list' = Reverse(msg) /\ list' \in Lists /\ \A i \in 1..Len(list') : list'[i].name \in Sent
<1>1. PICK junk \in [1..2 -> Body \cup {JUNK}] :
        list' = Reverse([k \in DOMAIN msg |->
                  [name |-> msg[k].name, body |-> BodyOf(msg, k, junk)]])
  BY DEF Parse
<1>2. msg \in Seq(Header) /\ DOMAIN msg = 1..Len(msg) /\ Len(msg) \in Nat
  BY MessagesAssumption
<1>3. ASSUME NEW k \in DOMAIN msg
      PROVE  [name |-> msg[k].name, body |-> BodyOf(msg, k, junk)] = msg[k]
  <2>1. msg[k] \in Header
    BY <1>2, ElementOfSeq
  <2>2. BodyOf(msg, k, junk) = msg[k].body
    <3> DEFINE line   == IF k = 1 THEN {1} ELSE 2..k
               begun  == {j \in line : EMPTY \notin msg[j].body}
               joined == {j \in line : \A b \in begun : b <= j}
    <3>1. line \subseteq DOMAIN msg /\ k \in line /\ \A j \in line : j <= k
      BY <1>2
    <3>2. begun = line
      BY <3>1 DEF NoneIsEmpty
    <3>3. joined = {k}
      BY <1>2, <3>1, <3>2
    <3>4. UNION {msg[j].body : j \in {k}} = msg[k].body /\ EMPTY \notin msg[k].body
      BY DEF NoneIsEmpty
    <3>5. ((UNION {msg[j].body : j \in joined}) \ {EMPTY}) \cup {} = msg[k].body
      <4>1. UNION {msg[j].body : j \in joined} = msg[k].body
        <5> HIDE DEF joined
        <5> QED BY <3>3, <3>4
      <4> HIDE DEF joined
      <4> QED BY <3>4, <4>1
    <3>6. begun # {}
      BY <3>1, <3>2
    <3> HIDE DEF joined
    <3> QED BY <3>5, <3>6 DEF BodyOf, joined
  <2> QED BY <2>1, <2>2 DEF Header
<1>4. [k \in DOMAIN msg |-> [name |-> msg[k].name, body |-> BodyOf(msg, k, junk)]] = msg
  <2>1. msg = [k \in DOMAIN msg |-> msg[k]]
    BY <1>2
  <2> QED BY <1>3, <2>1
<1>5. list' = Reverse(msg)
  BY <1>1, <1>4
<1>6. list' \in Lists
  BY ParseStep DEF Lists
<1>7. \A i \in 1..Len(msg) : msg[i].name \in Sent
  BY <1>2 DEF Sent
<1>8. \A i \in 1..Len(list') : list'[i].name \in Sent
  <2> DEFINE r == [i \in 1..Len(msg) |-> msg[(Len(msg) - i) + 1]]
  <2>1. list' = r
    BY <1>5 DEF Reverse
  <2>2. Len(r) = Len(msg)
    BY <1>2
  <2>3. \A i \in 1..Len(msg) : (Len(msg) - i) + 1 \in 1..Len(msg)
    BY <1>2
  <2>4. \A i \in 1..Len(r) : r[i].name \in Sent
    BY <1>7, <2>2, <2>3
  <2> HIDE DEF r
  <2> QED BY <2>1, <2>4
<1> QED BY <1>5, <1>6, <1>8

\* What an insertion does to the bodies held.
LEMMA InsertHolds ==
  ASSUME NamesFit, RInv, Insert, NEW n \in Name
  PROVE  Found(n)' = Found(n) /\ FromMessages'
<1> DEFINE h == Head(list)
           p == Probe(h.name)
           b == IF table[p] # NULL THEN Add(table[p], h.body) ELSE Fresh(h)
<1>0. list \in Lists /\ list # <<>>
  BY DEF RInv, IInv, TypeOK, Insert, Lists, Entry
<1>1. /\ h.name \in Name /\ h.body \in Text /\ Tail(list) \in Lists /\ h.name \in Sent
      /\ \A i \in 1..Len(Tail(list)) : Tail(list)[i].name \in Sent
      /\ Bodies(list, n) = IF h.name = n THEN <<h.body>> \o Bodies(Tail(list), n)
                                         ELSE Bodies(Tail(list), n)
  <2>1. /\ h.name \in Name /\ h.body \in Text /\ Tail(list) \in Lists
        /\ Bodies(list, n) = IF h.name = n THEN <<h.body>> \o Bodies(Tail(list), n)
                                           ELSE Bodies(Tail(list), n)
    BY <1>0, BodiesOfSome
  <2>2. /\ h = list[1] /\ Len(Tail(list)) = Len(list) - 1 /\ Len(list) \in Nat \ {0}
        /\ \A i \in 1..Len(Tail(list)) : Tail(list)[i] = list[i + 1]
    <3> DEFINE E == Entry
    <3>1. list \in Seq(E) /\ list # <<>>
      BY <1>0 DEF Lists
    <3> HIDE DEF E
    <3> QED BY <3>1, HeadTailProperties, LenProperties, EmptySeq
  <2>3. \A i \in 1..Len(list) : list[i].name \in Sent
    BY DEF RInv, FromMessages
  <2>4. 1 \in 1..Len(list) /\ \A i \in 1..Len(Tail(list)) : i + 1 \in 1..Len(list)
    BY <2>2
  <2> QED BY <2>1, <2>2, <2>3, <2>4
<1>2. p \in Place
  BY <1>1, ProbePlace
<1>3. list' = Tail(list) /\ table' = [table EXCEPT ![p] = b]
  BY DEF Insert, Fresh
<1>4. table \in [Place -> Bucket \cup {NULL}]
  BY DEF RInv, IInv, TypeOK
<1>5. IInv'
  BY InsertStep DEF RInv
<1> HIDE DEF h
<1>6. table[p] # NULL => p \in Taken /\ table[p].name = h.name /\ Held(h.name) = table[p].contents
  <2> SUFFICES ASSUME table[p] # NULL
               PROVE  p \in Taken /\ table[p].name = h.name /\ Held(h.name) = table[p].contents
    OBVIOUS
  <2>1. p \in Taken
    BY <1>2 DEF Taken
  <2>2. PICK q \in Taken : table[q].name = h.name
    BY <1>1, PlaceForEach
  <2>3. q = p
    BY <1>1, <2>2, HeldIs DEF RInv
  <2> QED BY <1>1, <2>1, <2>2, <2>3, HeldIs DEF RInv
<1>7. table[p] = NULL => Held(h.name) = <<>>
  BY <1>1 DEF Held
<1>8. /\ b # NULL /\ b.name = h.name /\ b.contents = Held(h.name) \o <<h.body>>
  <2>1. CASE table[p] # NULL
    <3>1. table[p] \in Bucket /\ Fits(table[p])
      BY <1>2, <1>4, <1>6, <2>1 DEF RInv, IInv
    <3>2. Add(table[p], h.body) # NULL /\ Add(table[p], h.body).name = table[p].name
      BY <1>1, <3>1, AddFits
    <3>3. Add(table[p], h.body).contents = Append(table[p].contents, h.body)
      BY <3>1 DEF Add, Bucket
    <3>4. table[p].contents \in Seq(Text)
      BY <3>1 DEF Bucket
    <3>5. Append(table[p].contents, h.body) = table[p].contents \o <<h.body>>
      BY <3>4, <1>1, AppendIsConcat
    <3> QED BY <1>6, <2>1, <3>2, <3>3, <3>5
  <2>2. CASE table[p] = NULL
    <3>1. h \in Entry
      <4> DEFINE E == Entry
      <4>1. list \in Seq(E) /\ list # <<>>
        BY <1>0 DEF Lists
      <4> HIDE DEF E
      <4>2. Head(list) \in E
        BY <4>1, HeadTailProperties
      <4> QED BY <4>2 DEF E, h
    <3>2. Fresh(h) # NULL /\ Fresh(h).name = h.name
      BY <3>1, FreshFits
    <3>3. Fresh(h).contents = <<h.body>>
      BY DEF Fresh
    <3>4. <<>> \o <<h.body>> = <<h.body>>
      OBVIOUS
    <3> QED BY <1>7, <2>2, <3>2, <3>3, <3>4
  <2> QED BY <2>1, <2>2
<1> HIDE DEF b, p
<1>9. \A q \in Place : table'[q] = IF q = p THEN b ELSE table[q]
  BY <1>3, <1>4
<1>10. p \in Taken' /\ \A q \in Taken' : q = p \/ (q \in Taken /\ table'[q] = table[q])
  BY <1>2, <1>8, <1>9 DEF Taken, Place
<1>11. \A q \in Taken : q # p => q \in Taken' /\ table'[q] = table[q]
  BY <1>9 DEF Taken, Place
<1>12. /\ \A q \in Taken' : table'[q].name = n => Held(n)' = table'[q].contents
       /\ (\A q \in Taken' : table'[q].name # n) => Held(n)' = <<>>
  <2>1. HeldState'
    BY <1>5, HeldAlways, PTL
  <2> QED BY <2>1 DEF HeldState
<1>13. Bodies(list, n)' = Bodies(Tail(list), n)
  BY <1>3
<1>14. ASSUME h.name = n PROVE Found(n)' = Found(n)
  <2>1. Held(n)' = Held(n) \o <<h.body>>
    BY <1>2, <1>8, <1>9, <1>10, <1>12, <1>14
  <2>2. Held(n) \in Answer /\ Bodies(Tail(list), n) \in Answer
    BY <1>1, HeldIs, BodiesAre, ListElements DEF RInv
  <2>3. (Held(n) \o <<h.body>>) \o Bodies(Tail(list), n) = Held(n) \o (<<h.body>> \o Bodies(Tail(list), n))
    <3> DEFINE T == Text
               x == h.body
               s == Held(n)
               t == Bodies(Tail(list), n)
    <3>1. s \in Seq(T) /\ t \in Seq(T) /\ <<x>> \in Seq(T)
      BY <1>1, <2>2 DEF Answer
    <3> HIDE DEF T, x, s, t
    <3>2. (s \o <<x>>) \o t = s \o (<<x>> \o t)
      BY <3>1, ConcatAssociative
    <3> QED BY <3>2 DEF s, x, t
  <2> QED BY <1>13, <1>1, <1>14, <2>1, <2>3 DEF Found
<1>15. ASSUME h.name # n PROVE Found(n)' = Found(n)
  <2>1. Held(n)' = Held(n)
    <3>1. CASE \E q \in Taken : table[q].name = n
      <4>1. PICK q \in Taken : table[q].name = n
        BY <3>1
      <4>2. q # p
        BY <1>6, <1>15, <4>1 DEF Taken
      <4> QED BY <1>11, <1>12, <4>1, <4>2, HeldIs DEF RInv
    <3>2. CASE \A q \in Taken : table[q].name # n
      <4>1. \A q \in Taken' : table'[q].name # n
        BY <1>2, <1>8, <1>9, <1>10, <1>15, <3>2
      <4> QED BY <1>12, <3>2, <4>1, HeldIs DEF RInv
    <3> QED BY <3>1, <3>2
  <2> QED BY <1>13, <1>1, <1>15, <2>1 DEF Found
<1>16. FromMessages'
  <2>1. \A q \in Taken' : table'[q].name \in Sent
    BY <1>1, <1>2, <1>8, <1>9, <1>10 DEF RInv, FromMessages
  <2> QED BY <1>1, <1>3, <2>1 DEF FromMessages
<1> QED BY <1>14, <1>15, <1>16

LEMMA InitRefines == Init => RInv /\ Map!Init
<1> SUFFICES ASSUME Init PROVE RInv /\ Map!Init
  OBVIOUS
<1>1. IInv
  BY InitIInv
<1>2. Taken = {} /\ Len(list) = 0
  BY EmptySeq DEF Init, Taken
<1>3. RInv
  BY <1>1, <1>2 DEF RInv, FromMessages
<1>4. ASSUME NEW n \in Name PROVE Found(n) = <<>>
  <2>1. Held(n) = <<>>
    BY <1>1, <1>2, HeldIs
  <2>2. Bodies(list, n) = <<>>
    BY BodiesOfNone DEF Init
  <2>3. <<>> \o <<>> = <<>>
    OBVIOUS
  <2> QED BY <2>1, <2>2, <2>3 DEF Found
<1>5. [n \in Name |-> Found(n)] = [n \in Name |-> <<>>]
  BY <1>4
<1>6. answer.bodies = <<>> /\ parsed = <<>>
  BY DEF Init
<1> QED BY <1>3, <1>5, <1>6 DEF Map!Init

LEMMA SameBodies ==
  ASSUME NEW hs, NEW n
  PROVE  Map!Bodies(hs, n) = Bodies(hs, n) /\ Map!Reverse(hs) = Reverse(hs)
BY DEF Map!Bodies, Bodies, Map!Reverse, Reverse

LEMMA StepRefines ==
  ASSUME NamesFit, NoneIsEmpty, RInv, [Next]_vars
  PROVE  RInv' /\ [Map!Next]_(Map!vars)
<1>1. IInv'
  BY IInvStep DEF RInv
<1>2. ASSUME NEW msg \in Messages, Parse(msg) PROVE FromMessages' /\ Map!Receive(msg)
  <2>1. /\ UNCHANGED <<table, answer>> /\ list = <<>> /\ parsed' = Append(parsed, msg)
        /\ list' = Reverse(msg) /\ list' \in Lists /\ \A i \in 1..Len(list') : list'[i].name \in Sent
    BY <1>2, ParsedList DEF Parse, RInv
  <2>2. FromMessages'
    BY <2>1 DEF RInv, FromMessages, Taken, Place
  <2>3. ASSUME NEW n \in Name PROVE Found(n)' = Found(n) \o Map!Bodies(Reverse(msg), n)
    <3>1. Bodies(list, n) = <<>> /\ Held(n) \in Answer
      BY <2>1, BodiesOfNone, HeldIs DEF RInv
    <3>2. Found(n) = Held(n)
      <4> DEFINE s == Held(n)
                 T == Text
      <4>1. s \in Seq(T)
        BY <3>1 DEF Answer
      <4> HIDE DEF s, T
      <4>2. s \o <<>> = s
        BY <4>1, ConcatEmptySeq
      <4> QED BY <3>1, <4>2 DEF s, Found
    <3>3. Held(n)' = Held(n)
      BY <2>1 DEF Held, Probe, Place
    <3>4. Bodies(list, n)' = Map!Bodies(Reverse(msg), n)
      <4>1. Map!Bodies(Reverse(msg), n) = Bodies(Reverse(msg), n)
        BY SameBodies
      <4> QED BY <2>1, <4>1
    <3> QED BY <3>2, <3>3, <3>4 DEF Found
  <2>4. [n \in Name |-> Found(n)]' = [n \in Name |-> [m \in Name |-> Found(m)][n] \o Map!Bodies(Reverse(msg), n)]
    BY <2>3
  <2>5. answer.bodies' = answer.bodies
    BY <2>1
  <2>6. Map!Receive(msg)
    BY <2>1, <2>4, <2>5, SameBodies DEF Map!Receive
  <2> QED BY <2>2, <2>6
<1>3. ASSUME Insert PROVE FromMessages' /\ UNCHANGED Map!vars
  <2>1. FromMessages' /\ \A n \in Name : Found(n)' = Found(n)
    <3>1. ASSUME NEW n \in Name PROVE Found(n)' = Found(n)
      BY <1>3, InsertHolds
    <3>2. FromMessages'
      <4>1. PICK n : n \in Name
        <5>1. list # <<>> /\ list \in Lists
          BY <1>3 DEF Insert, RInv, IInv, TypeOK, Lists, Entry
        <5>2. Head(list).name \in Name
          BY <5>1, BodiesOfSome
        <5> QED BY <5>2
      <4> QED BY <1>3, <4>1, InsertHolds
    <3> QED BY <3>1, <3>2
  <2>2. [n \in Name |-> Found(n)]' = [n \in Name |-> Found(n)]
    BY <2>1
  <2>3. answer' = answer /\ parsed' = parsed
    BY <1>3 DEF Insert
  <2> QED BY <2>1, <2>2, <2>3 DEF Map!vars
<1>4. ASSUME NEW n \in Name, Lookup(n) PROVE FromMessages' /\ Map!Lookup(n)
  <2>1. UNCHANGED <<table, list, parsed>> /\ list = <<>> /\ answer' = [name |-> n, bodies |-> Held(n)]
    BY <1>4 DEF Lookup
  <2>2. FromMessages'
    BY <2>1 DEF RInv, FromMessages, Taken, Place
  <2>3. \A m \in Name : Found(m)' = Found(m)
    <3> SUFFICES ASSUME NEW m \in Name PROVE Found(m)' = Found(m)
      OBVIOUS
    <3>1. Held(m)' = Held(m)
      <4>1. table' = table
        BY <2>1
      <4> QED BY <4>1 DEF Held, Probe, Place
    <3>2. Bodies(list, m)' = Bodies(list, m)
      BY <2>1
    <3> QED BY <3>1, <3>2 DEF Found
  <2>4. [m \in Name |-> Found(m)]' = [m \in Name |-> Found(m)]
    BY <2>3
  <2>5. Found(n) = Held(n)
    <3> DEFINE s == Held(n)
               T == Text
    <3>1. s \in Seq(T) /\ Bodies(list, n) = <<>>
      BY <2>1, HeldIs, BodiesOfNone DEF Answer, RInv
    <3> HIDE DEF s, T
    <3>2. s \o <<>> = s
      BY <3>1, ConcatEmptySeq
    <3> QED BY <3>1, <3>2 DEF s, Found
  <2>6. answer.bodies' = [m \in Name |-> Found(m)][n]
    BY <2>1, <2>5
  <2> QED BY <2>1, <2>2, <2>4, <2>6 DEF Map!Lookup
<1>5. ASSUME UNCHANGED vars PROVE FromMessages' /\ UNCHANGED Map!vars
  <2>1. FromMessages'
    BY <1>5 DEF RInv, FromMessages, Taken, Place, vars
  <2>2. \A m \in Name : Found(m)' = Found(m)
    BY <1>5 DEF Found, Held, Probe, Place, vars
  <2>3. [m \in Name |-> Found(m)]' = [m \in Name |-> Found(m)]
    BY <2>2
  <2> QED BY <1>5, <2>1, <2>3 DEF Map!vars, vars
<1> QED BY <1>1, <1>2, <1>3, <1>4, <1>5 DEF Next, Map!Next, RInv

\* Whatever the hash function, however the names collide and the arrays grow:
\* every lookup answers with the bodies of the headers of that name of all the
\* messages so far, and no other (libsieve_message2_parseheader, getheader).
THEOREM CacheIsAMap ==
  ASSUME NamesFit, NoneIsEmpty
  PROVE  Spec => KeepsHeaders
<1>1. Init => RInv /\ Map!Init
  BY InitRefines
<1>2. RInv /\ [Next]_vars => RInv' /\ [Map!Next]_(Map!vars)
  BY StepRefines
<1> QED BY <1>1, <1>2, PTL DEF Spec, KeepsHeaders, Map!Spec
=============================================================================
