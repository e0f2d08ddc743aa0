--------------------------- MODULE SieveTest_proofs ---------------------------
(***************************************************************************)
(* Proofs about SieveTest for every set of tests, however deep anyof,      *)
(* allof and not are nested, and every message: first that Compare is      *)
(* Meant, for every pattern and every text, then that a leaf is what its   *)
(* comparison means, then the evaluation of the tree.                      *)
(***************************************************************************)
EXTENDS SieveTest, SequenceTheorems, FiniteSetTheorems, WellFoundedInduction, TLAPS

-----------------------------------------------------------------------------
(* The least-number principle for sets, which stands in for induction. *)

\* A set of numbers that is not empty has a least element.
LEMMA Least ==
  ASSUME NEW T, T \subseteq Nat, T # {}
  PROVE  \E x \in T : \A y \in T : x <= y
<1> DEFINE less == OpToRel(<, Nat)
<1>1. IsWellFoundedOn(less, Nat)
  BY NatLessThanWellFounded DEF OpToRel
<1>2. less = {p \in Nat \X Nat : p[1] < p[2]}
  BY DEF OpToRel
<1> HIDE DEF less
<1>3. PICK x \in T : \A y \in T : ~(<<y, x>> \in less)
  BY <1>1, WFMin
<1>4. \A y \in T : ~(y < x)
  BY <1>2, <1>3
<1> QED BY <1>4

\* Induction over the numbers up to N, as membership in a set.
LEMMA Induction ==
  ASSUME NEW N \in Nat, NEW S, 0 \in S, \A d \in 0..(N - 1) : d \in S => d + 1 \in S
  PROVE  \A d \in 0..N : d \in S
<1> DEFINE Bad == {d \in 0..N : d \notin S}
<1> SUFFICES ASSUME Bad # {} PROVE FALSE
  OBVIOUS
<1>1. PICK d \in Bad : \A e \in Bad : d <= e
  <2>1. Bad \subseteq Nat
    OBVIOUS
  <2> HIDE DEF Bad
  <2> QED BY <2>1, Least
<1>2. d \in 0..N /\ d \notin S /\ d # 0
  BY <1>1
<1>3. d - 1 \in 0..(N - 1) /\ (d - 1) + 1 = d /\ ~(d <= d - 1)
  BY <1>2
<1>4. d - 1 \notin S
  BY <1>2, <1>3
<1>5. d - 1 \in 0..N
  BY <1>3
<1> QED BY <1>1, <1>3, <1>4, <1>5

\* The function that starts with init and goes on with step.
Moves(N, D) == [(1..N) \X D -> D]
Goes(f, N, D, init, step) ==
  f \in [0..N -> D] /\ f[0] = init /\ \A i \in 1..N : f[i] = step[<<i, f[i - 1]>>]
LEMMA Recursion ==
  ASSUME NEW N \in Nat, NEW D, NEW init \in D, NEW step \in Moves(N, D)
  PROVE  \E f : Goes(f, N, D, init, step)
<1> DEFINE Upto(f, d) == /\ f \in [0..d -> D] /\ f[0] = init
                         /\ \A i \in 1..d : f[i] = step[<<i, f[i - 1]>>]
           Bad == {d \in 0..N : ~\E f : Upto(f, d)}
<1>1. \E f : Upto(f, 0)
  <2> DEFINE f == [i \in 0..0 |-> init]
  <2>1. Upto(f, 0)
    OBVIOUS
  <2> QED BY <2>1
<1>2. ASSUME NEW d \in 0..(N - 1), NEW f, Upto(f, d) PROVE \E g : Upto(g, d + 1)
  <2> DEFINE g == [i \in 0..(d + 1) |-> IF i <= d THEN f[i] ELSE step[<<d + 1, f[d]>>]]
  <2>1. f[d] \in D /\ d + 1 \in 1..N
    BY <1>2
  <2>2. step[<<d + 1, f[d]>>] \in D
    BY <2>1 DEF Moves
  <2>3. (\A i \in 0..d : g[i] = f[i]) /\ g[d + 1] = step[<<d + 1, f[d]>>]
    BY <2>1
  <2>4. g \in [0..(d + 1) -> D]
    BY <1>2, <2>2
  <2> HIDE DEF g
  <2>5. ASSUME NEW i \in 1..(d + 1) PROVE g[i] = step[<<i, g[i - 1]>>]
    <3>1. CASE i = d + 1
      BY <2>3, <3>1
    <3>2. CASE i \in 1..d
      <4>1. i - 1 \in 0..d /\ i \in 0..d
        BY <3>2
      <4> QED BY <1>2, <2>3, <3>2, <4>1
    <3> QED BY <3>1, <3>2
  <2>6. g[0] = init
    BY <1>2, <2>3
  <2> QED BY <2>4, <2>5, <2>6
<1>3. Bad = {}
  <2> SUFFICES ASSUME Bad # {} PROVE FALSE
    OBVIOUS
  <2>1. PICK d \in Bad : \A e \in Bad : d <= e
    <3>1. Bad \subseteq Nat
      OBVIOUS
    <3> HIDE DEF Bad
    <3> QED BY <3>1, Least
  <2>2. d # 0 /\ d \in 0..N
    BY <1>1, <2>1
  <2> HIDE DEF Bad
  <2>3. d - 1 \in 0..(N - 1) /\ d - 1 \in 0..N /\ ~(d <= d - 1)
    BY <2>2
  <2>4. PICK f : Upto(f, d - 1)
    BY <2>1, <2>3 DEF Bad
  <2>5. \E g : Upto(g, (d - 1) + 1)
    <3> HIDE DEF Upto
    <3> QED BY <1>2, <2>3, <2>4
  <2>6. (d - 1) + 1 = d
    BY <2>2
  <2> QED BY <2>1, <2>5, <2>6 DEF Bad
<1>4. PICK f : Upto(f, N)
  BY <1>3
<1> QED BY <1>4 DEF Goes

-----------------------------------------------------------------------------
(* Strings and their folding. *)

LEMMA StringIs ==
  ASSUME NEW s \in CString
  PROVE  /\ Len(s) \in Nat /\ DOMAIN s = 1..Len(s) /\ s \in [1..Len(s) -> 1..255]
         /\ \A i \in 1..Len(s) : s[i] \in 1..255
<1> DEFINE C == 1..255
<1>1. s \in Seq(C)
  BY DEF CString
<1> HIDE DEF C
<1>2. Len(s) \in Nat /\ DOMAIN s = 1..Len(s) /\ s \in [1..Len(s) -> C]
  BY <1>1, LenProperties
<1>3. \A i \in 1..Len(s) : s[i] \in C
  BY <1>1, ElementOfSeq
<1> QED BY <1>2, <1>3 DEF C

LEMMA StringEqual ==
  ASSUME NEW s \in CString, NEW t \in CString,
         Len(s) = Len(t), \A i \in 1..Len(s) : s[i] = t[i]
  PROVE  s = t
BY StringIs

\* Both cases of a letter are the same, by whichever case one looks.
LEMMA Cases ==
  ASSUME NEW c \in 1..255
  PROVE  /\ Upper(c) \in 1..255 /\ Lower(c) \in 1..255 /\ Lower(Upper(c)) = Lower(c)
         /\ \A d \in 1..255 : Upper(c) = Upper(d) <=> Lower(c) = Lower(d)
<1>1. \A d \in 1..255 : Upper(d) = (IF d >= 97 /\ d <= 122 THEN d - 32 ELSE d)
                      /\ Lower(d) = (IF d >= 65 /\ d <= 90 THEN d + 32 ELSE d)
  BY DEF Upper, Lower
<1>2. Upper(c) \in 1..255 /\ Lower(c) \in 1..255
  BY <1>1
<1>3. Lower(Upper(c)) = Lower(c)
  BY <1>1, <1>2
<1>4. ASSUME NEW d \in 1..255 PROVE Upper(c) = Upper(d) <=> Lower(c) = Lower(d)
  <2>1. /\ Upper(d) = (IF d >= 97 /\ d <= 122 THEN d - 32 ELSE d)
        /\ Lower(d) = (IF d >= 65 /\ d <= 90 THEN d + 32 ELSE d)
        /\ Upper(c) = (IF c >= 97 /\ c <= 122 THEN c - 32 ELSE c)
        /\ Lower(c) = (IF c >= 65 /\ c <= 90 THEN c + 32 ELSE c)
    BY <1>1
  <2> QED BY <2>1
<1> QED BY <1>2, <1>3, <1>4

LEMMA FoldIs ==
  ASSUME NEW s \in CString, NEW b \in BOOLEAN
  PROVE  /\ Fold(s, b) \in CString /\ Len(Fold(s, b)) = Len(s)
         /\ \A i \in 1..Len(s) : Fold(s, b)[i] = IF b THEN Upper(s[i]) ELSE s[i]
         /\ ~b => Fold(s, b) = s
<1>1. Len(s) \in Nat /\ DOMAIN s = 1..Len(s) /\ \A i \in 1..Len(s) : s[i] \in 1..255
  BY StringIs
<1>2. \A i \in 1..Len(s) : (IF b THEN Upper(s[i]) ELSE s[i]) \in 1..255
  BY <1>1, Cases
<1> DEFINE e(i) == IF b THEN Upper(s[i]) ELSE s[i]
           f == [i \in 1..Len(s) |-> e(i)]
<1>3. Fold(s, b) = f
  BY <1>1 DEF Fold
<1>4. f \in Seq(1..255)
  <2> HIDE DEF e
  <2>1. \A i \in 1..Len(s) : e(i) \in 1..255
    BY <1>2 DEF e
  <2> QED BY <1>1, <2>1, IsASeq
<1>5. Len(f) = Len(s) /\ \A i \in 1..Len(s) : f[i] = e(i)
  BY <1>1
<1> HIDE DEF f
<1>6. ~b => f = s
  <2> SUFFICES ASSUME ~b PROVE f = s
    OBVIOUS
  <2>1. f \in CString /\ \A i \in 1..Len(f) : f[i] = s[i]
    BY <1>4, <1>5 DEF CString
  <2> QED BY <1>5, <2>1, StringEqual
<1> QED BY <1>3, <1>4, <1>5, <1>6 DEF CString

-----------------------------------------------------------------------------
(* Numbers. *)

\* The equation of the recursion in Atoi.
Reads(s, v) ==
  v = [i \in 0..Len(s) |->
         IF i = 0 THEN [n |-> 0, going |-> TRUE]
         ELSE IF v[i - 1].going /\ Digit(s[i])
              THEN [n |-> v[i - 1].n * 10 + (s[i] - 48), going |-> TRUE]
              ELSE [n |-> v[i - 1].n, going |-> FALSE]]
Read == [n : Nat, going : BOOLEAN]

LEMMA ReadsExist == ASSUME NEW s \in CString PROVE \E v : Reads(s, v)
<1> DEFINE N == Len(s)
           next(i, r) == IF r.going /\ Digit(s[i])
                         THEN [n |-> r.n * 10 + (s[i] - 48), going |-> TRUE]
                         ELSE [n |-> r.n, going |-> FALSE]
           step == [p \in (1..N) \X Read |-> next(p[1], p[2])]
           init == [n |-> 0, going |-> TRUE]
<1>1. N \in Nat /\ \A i \in 1..N : s[i] \in 1..255
  BY StringIs
<1>2. init \in Read
  BY DEF Read
<1>3. ASSUME NEW i \in 1..N, NEW r \in Read PROVE next(i, r) \in Read
  <2>1. r.n \in Nat /\ (Digit(s[i]) => s[i] - 48 \in Nat)
    BY <1>1 DEF Read, Digit
  <2>2. Digit(s[i]) => r.n * 10 + (s[i] - 48) \in Nat
    BY <2>1
  <2> QED BY <2>1, <2>2 DEF Read
<1>4. step \in Moves(N, Read)
  <2> HIDE DEF next
  <2> QED BY <1>3 DEF Moves
<1>5. \A i \in 1..N, r \in Read : step[<<i, r>>] = next(i, r)
  <2> HIDE DEF next
  <2> QED OBVIOUS
<1> HIDE DEF step, init
<1>6. PICK f \in [0..N -> Read] : f[0] = init /\ \A i \in 1..N : f[i] = step[<<i, f[i - 1]>>]
  <2>1. PICK g : Goes(g, N, Read, init, step)
    BY <1>1, <1>2, <1>4, Recursion
  <2> QED BY <2>1 DEF Goes
<1>7. \A i \in 1..N : f[i] = next(i, f[i - 1])
  <2> HIDE DEF next
  <2>1. \A i \in 1..N : f[i - 1] \in Read
    BY <1>1
  <2> QED BY <1>5, <1>6, <2>1
<1>8. f = [i \in 0..N |-> f[i]]
  OBVIOUS
<1>9. f = [i \in 0..N |-> IF i = 0 THEN init ELSE next(i, f[i - 1])]
  <2>1. \A i \in 0..N : f[i] = IF i = 0 THEN init ELSE next(i, f[i - 1])
    <3> HIDE DEF next
    <3> QED BY <1>1, <1>6, <1>7
  <2> HIDE DEF next
  <2> QED BY <1>8, <2>1
<1> QED BY <1>9 DEF Reads, init

LEMMA AtoiIsNatural == ASSUME NEW s \in CString PROVE Atoi(s) \in Nat
<1> DEFINE N == Len(s)
           v == CHOOSE f : Reads(s, f)
           Fine == {i \in 0..N : v[i].n \in Nat}
<1>1. N \in Nat /\ \A i \in 1..N : s[i] \in 1..255
  BY StringIs
<1>2. Atoi(s) = v[N].n
  BY DEF Atoi, Reads
<1>3. Reads(s, v)
  BY ReadsExist
<1> HIDE DEF v
<1>4. /\ v[0].n = 0
      /\ \A i \in 1..N : v[i].n = IF v[i - 1].going /\ Digit(s[i])
                                 THEN v[i - 1].n * 10 + (s[i] - 48) ELSE v[i - 1].n
  <2> DEFINE e(i) == IF v[i - 1].going /\ Digit(s[i])
                     THEN [n |-> v[i - 1].n * 10 + (s[i] - 48), going |-> TRUE]
                     ELSE [n |-> v[i - 1].n, going |-> FALSE]
  <2>1. v = [i \in 0..N |-> IF i = 0 THEN [n |-> 0, going |-> TRUE] ELSE e(i)]
    BY <1>3 DEF Reads
  <2>2. \A i \in 1..N : e(i).n = IF v[i - 1].going /\ Digit(s[i])
                                 THEN v[i - 1].n * 10 + (s[i] - 48) ELSE v[i - 1].n
    OBVIOUS
  <2> HIDE DEF e
  <2>3. v[0] = [n |-> 0, going |-> TRUE]
    BY <1>1, <2>1
  <2>4. \A i \in 1..N : v[i] = e(i)
    BY <1>1, <2>1
  <2> QED BY <2>2, <2>3, <2>4
<1>5. 0 \in Fine
  BY <1>1, <1>4
<1>6. ASSUME NEW d \in 0..(N - 1), d \in Fine PROVE d + 1 \in Fine
  <2>1. d + 1 \in 1..N /\ d + 1 \in 0..N /\ (d + 1) - 1 = d
    BY <1>1
  <2>2. v[d].n \in Nat
    BY <1>6
  <2>3. v[d + 1].n = IF v[d].going /\ Digit(s[d + 1])
                     THEN v[d].n * 10 + (s[d + 1] - 48) ELSE v[d].n
    BY <1>4, <2>1
  <2>4. Digit(s[d + 1]) => s[d + 1] - 48 \in Nat
    BY <1>1, <2>1 DEF Digit
  <2>5. v[d + 1].n \in Nat
    BY <2>2, <2>3, <2>4
  <2> QED BY <2>1, <2>5
<1>7. N \in Fine
  <2> HIDE DEF Fine
  <2>1. \A d \in 0..N : d \in Fine
    BY <1>1, <1>5, <1>6, Induction
  <2> QED BY <1>1, <2>1
<1> QED BY <1>2, <1>7

LEMMA RelatedIs ==
  ASSUME NEW before \in BOOLEAN, NEW same \in BOOLEAN
  PROVE  /\ Related("gt", before, same) <=> ~before /\ ~same
         /\ Related("ge", before, same) <=> ~before
         /\ Related("lt", before, same) <=> before
         /\ Related("le", before, same) <=> before \/ same
         /\ Related("eq", before, same) <=> same
         /\ Related("ne", before, same) <=> ~same
         /\ \A rel : rel \notin Relation => ~Related(rel, before, same)
<1>1. \A rel : rel \notin Relation => ~Related(rel, before, same)
  BY DEF Related, Relation
<1> QED BY <1>1 DEF Related

LEMMA NumericDecides ==
  ASSUME NEW rel \in Relation, NEW pat \in CString, NEW text \in CString,
         Numeric(pat), Numeric(text)
  PROVE  AsciiNumeric(rel, pat, text) <=>
           Related(rel, Atoi(text) < Atoi(pat), Atoi(text) = Atoi(pat))
<1> DEFINE p == Atoi(pat)
           t == Atoi(text)
           before == t < p
           same == t = p
<1>1. p \in Nat /\ t \in Nat
  BY AtoiIsNatural
<1>2. AsciiNumeric(rel, pat, text) <=>
        CASE rel = "gt" -> p < t  [] rel = "ge" -> p <= t [] rel = "lt" -> p > t
          [] rel = "le" -> p >= t [] rel = "eq" -> p = t  [] rel = "ne" -> p # t
  BY DEF AsciiNumeric
<1> HIDE DEF p, t
<1>3. /\ before \in BOOLEAN /\ same \in BOOLEAN
      /\ p < t <=> ~before /\ ~same
      /\ p <= t <=> ~before
      /\ p > t <=> before
      /\ p >= t <=> before \/ same
      /\ p = t <=> same
  BY <1>1
<1> HIDE DEF before, same
<1>4. AsciiNumeric(rel, pat, text) <=> Related(rel, before, same)
  <2>1. CASE rel = "gt"
    BY <1>2, <1>3, <2>1, RelatedIs
  <2>2. CASE rel = "ge"
    BY <1>2, <1>3, <2>2, RelatedIs
  <2>3. CASE rel = "lt"
    BY <1>2, <1>3, <2>3, RelatedIs
  <2>4. CASE rel = "le"
    BY <1>2, <1>3, <2>4, RelatedIs
  <2>5. CASE rel = "eq"
    BY <1>2, <1>3, <2>5, RelatedIs
  <2>6. CASE rel = "ne"
    BY <1>2, <1>3, <2>6, RelatedIs
  <2> QED BY <2>1, <2>2, <2>3, <2>4, <2>5, <2>6 DEF Relation
<1> QED BY <1>4 DEF before, same, p, t

-----------------------------------------------------------------------------
(* The collation of strcasecmp. *)

\* What strcasecmp compares at a place.
Low(s, i) == IF i > Len(s) THEN 0 ELSE Lower(s[i])
Order(s)  == Collated(Fold(s, TRUE))

LEMMA LowIs ==
  ASSUME NEW s \in CString
  PROVE  /\ Len(s) \in Nat /\ Len(Order(s)) = Len(s)
         /\ \A i \in Nat \ {0} :
              /\ Low(s, i) \in Int
              /\ i <= Len(s) => Low(s, i) > 0 /\ Order(s)[i] = Low(s, i)
              /\ i > Len(s)  => Low(s, i) = 0
<1> DEFINE f == Fold(s, TRUE)
<1>1. /\ f \in CString /\ Len(f) = Len(s) /\ \A i \in 1..Len(s) : f[i] = Upper(s[i])
      /\ Len(s) \in Nat /\ \A i \in 1..Len(s) : s[i] \in 1..255
  BY FoldIs, StringIs
<1>2. DOMAIN f = 1..Len(s)
  BY <1>1, StringIs
<1> HIDE DEF f
<1>3. Order(s) = [i \in 1..Len(s) |-> Lower(f[i])]
  BY <1>2 DEF Order, Collated, f
<1>4. ASSUME NEW i \in 1..Len(s)
      PROVE  Low(s, i) = Lower(s[i]) /\ Lower(s[i]) \in 1..255 /\ Lower(f[i]) = Lower(s[i])
  <2>1. Lower(s[i]) \in 1..255 /\ Lower(Upper(s[i])) = Lower(s[i])
    BY <1>1, Cases
  <2>2. ~(i > Len(s))
    BY <1>1
  <2> QED BY <1>1, <2>1, <2>2 DEF Low
<1>5. Len(Order(s)) = Len(s)
  BY <1>1, <1>3
<1>6. \A i \in Nat : i > Len(s) => Low(s, i) = 0
  BY DEF Low
<1>7. \A i \in 1..Len(s) : Low(s, i) \in 1..255 /\ Order(s)[i] = Low(s, i)
  BY <1>3, <1>4
<1>8. ASSUME NEW i \in Nat \ {0}
      PROVE  /\ Low(s, i) \in Int
             /\ i <= Len(s) => Low(s, i) > 0 /\ Order(s)[i] = Low(s, i)
             /\ i > Len(s)  => Low(s, i) = 0
  <2>1. CASE i \in 1..Len(s)
    <3>1. Low(s, i) \in 1..255 /\ Order(s)[i] = Low(s, i)
      BY <1>7, <2>1
    <3>2. ~(i > Len(s))
      BY <1>1, <2>1
    <3>3. \A x \in 1..255 : x \in Int /\ x > 0
      OBVIOUS
    <3> QED BY <3>1, <3>2, <3>3
  <2>2. CASE i > Len(s)
    BY <1>1, <1>6, <2>2
  <2> QED BY <1>1, <2>1, <2>2
<1> QED BY <1>1, <1>5, <1>8

Differing(a, b) == {i \in 1..(Len(a) + Len(b)) : Low(a, i) # Low(b, i)}

\* Strings that differ nowhere are the same in upper case.
LEMMA SameOrder ==
  ASSUME NEW a \in CString, NEW b \in CString
  PROVE  Differing(a, b) = {} <=> Fold(b, TRUE) = Fold(a, TRUE)
<1>1. /\ Len(a) \in Nat /\ Len(b) \in Nat
      /\ \A i \in 1..Len(a) : a[i] \in 1..255
      /\ \A i \in 1..Len(b) : b[i] \in 1..255
  BY StringIs
<1>2. ASSUME Differing(a, b) = {} PROVE Fold(b, TRUE) = Fold(a, TRUE)
  <2>1. \A i \in 1..(Len(a) + Len(b)) : Low(a, i) = Low(b, i)
    BY <1>2 DEF Differing
  <2>2. ~(Len(a) < Len(b))
    <3> SUFFICES ASSUME Len(a) < Len(b) PROVE FALSE
      OBVIOUS
    <3> DEFINE i == Len(a) + 1
    <3>1. i \in 1..(Len(a) + Len(b)) /\ i \in Nat \ {0} /\ i > Len(a) /\ i <= Len(b)
      BY <1>1
    <3> HIDE DEF i
    <3>2. Low(a, i) = 0 /\ Low(b, i) > 0
      BY <3>1, LowIs
    <3> QED BY <2>1, <3>1, <3>2
  <2>3. ~(Len(b) < Len(a))
    <3> SUFFICES ASSUME Len(b) < Len(a) PROVE FALSE
      OBVIOUS
    <3> DEFINE i == Len(b) + 1
    <3>1. i \in 1..(Len(a) + Len(b)) /\ i \in Nat \ {0} /\ i > Len(b) /\ i <= Len(a)
      BY <1>1
    <3> HIDE DEF i
    <3>2. Low(b, i) = 0 /\ Low(a, i) > 0
      BY <3>1, LowIs
    <3> QED BY <2>1, <3>1, <3>2
  <2>4. Len(a) = Len(b)
    BY <1>1, <2>2, <2>3
  <2>5. ASSUME NEW i \in 1..Len(a) PROVE Upper(b[i]) = Upper(a[i])
    <3>1. i \in 1..(Len(a) + Len(b)) /\ ~(i > Len(a)) /\ ~(i > Len(b))
      BY <1>1, <2>4
    <3>2. Lower(a[i]) = Lower(b[i])
      BY <2>1, <3>1 DEF Low
    <3> QED BY <1>1, <2>4, <3>2, Cases
  <2>6. /\ Fold(a, TRUE) \in CString /\ Fold(b, TRUE) \in CString
        /\ Len(Fold(a, TRUE)) = Len(a) /\ Len(Fold(b, TRUE)) = Len(b)
        /\ \A i \in 1..Len(a) : Fold(a, TRUE)[i] = Upper(a[i])
        /\ \A i \in 1..Len(b) : Fold(b, TRUE)[i] = Upper(b[i])
    BY FoldIs
  <2>7. /\ Len(Fold(b, TRUE)) = Len(Fold(a, TRUE))
        /\ \A i \in 1..Len(Fold(b, TRUE)) : Fold(b, TRUE)[i] = Fold(a, TRUE)[i]
    BY <2>4, <2>5, <2>6
  <2> QED BY <2>6, <2>7, StringEqual
<1>3. ASSUME Fold(b, TRUE) = Fold(a, TRUE) PROVE Differing(a, b) = {}
  <2>1. Len(a) = Len(b) /\ \A i \in 1..Len(a) : Upper(b[i]) = Upper(a[i])
    <3>1. /\ Len(Fold(a, TRUE)) = Len(a) /\ Len(Fold(b, TRUE)) = Len(b)
          /\ \A i \in 1..Len(a) : Fold(a, TRUE)[i] = Upper(a[i])
          /\ \A i \in 1..Len(b) : Fold(b, TRUE)[i] = Upper(b[i])
      BY FoldIs
    <3> QED BY <1>3, <3>1
  <2>2. ASSUME NEW i \in 1..(Len(a) + Len(b)) PROVE Low(a, i) = Low(b, i)
    <3>1. CASE i \in 1..Len(a)
      <4>1. Lower(a[i]) = Lower(b[i])
        BY <1>1, <2>1, <3>1, Cases
      <4> QED BY <2>1, <4>1 DEF Low
    <3>2. CASE i > Len(a)
      BY <2>1, <3>2 DEF Low
    <3> QED BY <1>1, <3>1, <3>2
  <2> QED BY <2>2 DEF Differing
<1> QED BY <1>2, <1>3

\* The sign of strcasecmp tells the order of the strings.
LEMMA CasecmpIs ==
  ASSUME NEW a \in CString, NEW b \in CString
  PROVE  /\ Fold(b, TRUE) = Fold(a, TRUE) => Casecmp(a, b) = "zero" /\ ~Before(Order(b), Order(a))
         /\ Fold(b, TRUE) # Fold(a, TRUE) =>
              Casecmp(a, b) = IF Before(Order(b), Order(a)) THEN "positive" ELSE "negative"
<1> DEFINE La == Len(a)
           Lb == Len(b)
           ca == Order(a)
           cb == Order(b)
<1>1. /\ La \in Nat /\ Lb \in Nat /\ Len(ca) = La /\ Len(cb) = Lb
      /\ \A i \in Nat \ {0} : /\ Low(a, i) \in Int
                              /\ i <= La => Low(a, i) > 0 /\ ca[i] = Low(a, i)
                              /\ i > La  => Low(a, i) = 0
      /\ \A i \in Nat \ {0} : /\ Low(b, i) \in Int
                              /\ i <= Lb => Low(b, i) > 0 /\ cb[i] = Low(b, i)
                              /\ i > Lb  => Low(b, i) = 0
  BY LowIs
<1>2. Casecmp(a, b) =
        LET first == CHOOSE i \in Differing(a, b) : \A j \in Differing(a, b) : i <= j
        IN  IF Differing(a, b) = {} THEN "zero"
            ELSE IF Low(a, first) < Low(b, first) THEN "negative" ELSE "positive"
  BY DEF Casecmp, Differing, Low
<1>3. Before(cb, ca) <=>
        \E k \in 0..Lb : /\ k < La /\ \A i \in 1..k : cb[i] = ca[i]
                         /\ k = Lb \/ cb[k + 1] < ca[k + 1]
  BY <1>1 DEF Before
<1>0. Differing(a, b) = {i \in 1..(La + Lb) : Low(a, i) # Low(b, i)}
  BY DEF Differing
<1> HIDE DEF La, Lb, ca, cb
<1>4. ASSUME Differing(a, b) = {} PROVE ~Before(cb, ca)
  <2>1. \A i \in 1..(La + Lb) : Low(a, i) = Low(b, i)
    BY <1>0, <1>4
  <2> SUFFICES ASSUME NEW k \in 0..Lb, k < La, k = Lb \/ cb[k + 1] < ca[k + 1] PROVE FALSE
    BY <1>3
  <2>2. k + 1 \in 1..(La + Lb) /\ k + 1 \in Nat \ {0} /\ k + 1 <= La
    BY <1>1
  <2>3. Low(b, k + 1) > 0 /\ ca[k + 1] = Low(b, k + 1) /\ Low(b, k + 1) \in Int
    BY <1>1, <2>1, <2>2
  <2>4. k + 1 <= Lb
    BY <1>1, <2>2, <2>3
  <2>5. cb[k + 1] = Low(b, k + 1) /\ k # Lb
    BY <1>1, <2>2, <2>4
  <2> QED BY <2>3, <2>5
<1>5. ASSUME Differing(a, b) # {}
      PROVE  Casecmp(a, b) = IF Before(cb, ca) THEN "positive" ELSE "negative"
  <2>0. Differing(a, b) \subseteq Nat
    BY <1>0, <1>1
  <2>1. PICK f \in Differing(a, b) : \A j \in Differing(a, b) : f <= j
    BY <1>5, <2>0, Least
  <2>2. \A j \in Differing(a, b) : (\A i \in Differing(a, b) : j <= i) => j = f
    BY <2>0, <2>1
  <2>3. (CHOOSE i \in Differing(a, b) : \A j \in Differing(a, b) : i <= j) = f
    BY <2>1, <2>2
  <2>4. Casecmp(a, b) = IF Low(a, f) < Low(b, f) THEN "negative" ELSE "positive"
    BY <1>2, <1>5, <2>3
  <2>5. f \in Nat \ {0} /\ f <= La + Lb /\ Low(a, f) # Low(b, f)
    BY <1>0, <1>1, <2>1
  <2>6. ASSUME NEW i \in Nat \ {0}, i < f PROVE Low(a, i) = Low(b, i)
    <3>1. i \in 1..(La + Lb) /\ ~(f <= i)
      BY <1>1, <2>5, <2>6
    <3> QED BY <1>0, <2>1, <3>1
  <2>7. Low(a, f) \in Int /\ Low(b, f) \in Int /\ Low(a, f) >= 0 /\ Low(b, f) >= 0
    <3>1. (f <= La \/ f > La) /\ (f <= Lb \/ f > Lb)
      BY <1>1, <2>5
    <3> QED BY <1>1, <2>5, <3>1
  <2>8. ASSUME Low(b, f) < Low(a, f) PROVE Before(cb, ca)
    <3>1. f <= La /\ ca[f] = Low(a, f)
      <4>1. f > La => Low(a, f) = 0
        BY <1>1, <2>5
      <4>2. f <= La
        BY <1>1, <2>5, <2>7, <2>8, <4>1
      <4> QED BY <1>1, <2>5, <4>2
    <3>2. ASSUME NEW i \in Nat \ {0}, i < f PROVE i <= Lb /\ cb[i] = ca[i]
      <4>1. i <= La
        BY <1>1, <2>5, <3>1, <3>2
      <4>2. Low(b, i) > 0 /\ ca[i] = Low(b, i)
        BY <1>1, <2>6, <3>2, <4>1
      <4>3. i <= Lb
        BY <1>1, <4>2
      <4> QED BY <1>1, <4>2, <4>3
    <3>3. f - 1 \in 0..Lb
      <4>1. CASE f = 1
        BY <1>1, <4>1
      <4>2. CASE f # 1
        <5>1. f - 1 \in Nat \ {0} /\ f - 1 < f
          BY <2>5, <4>2
        <5>2. f - 1 <= Lb
          BY <3>2, <5>1
        <5> QED BY <1>1, <5>1, <5>2
      <4> QED BY <4>1, <4>2
    <3>4. f - 1 < La /\ (f - 1) + 1 = f /\ \A i \in 1..(f - 1) : cb[i] = ca[i]
      <4>1. f - 1 < La /\ (f - 1) + 1 = f /\ \A i \in 1..(f - 1) : i \in Nat \ {0} /\ i < f
        BY <1>1, <2>5, <3>1
      <4> QED BY <3>2, <4>1
    <3>5. f - 1 = Lb \/ cb[f] < ca[f]
      <4>1. f - 1 # Lb => f <= Lb
        BY <1>1, <2>5, <3>3
      <4>2. f <= Lb => cb[f] = Low(b, f)
        BY <1>1, <2>5
      <4> QED BY <2>8, <3>1, <4>1, <4>2
    <3> QED BY <1>3, <3>3, <3>4, <3>5
  <2>9. ASSUME Low(a, f) < Low(b, f) PROVE ~Before(cb, ca)
    <3> SUFFICES ASSUME NEW k \in 0..Lb, k < La, \A i \in 1..k : cb[i] = ca[i],
                        k = Lb \/ cb[k + 1] < ca[k + 1]
                 PROVE  FALSE
      BY <1>3
    <3>1. k \in Nat /\ k + 1 \in Nat \ {0} /\ k + 1 <= La
      BY <1>1
    <3>2. CASE k + 1 < f
      <4>1. Low(b, k + 1) > 0 /\ ca[k + 1] = Low(b, k + 1) /\ Low(b, k + 1) \in Int
        BY <1>1, <2>6, <3>1, <3>2
      <4>2. k + 1 <= Lb
        BY <1>1, <3>1, <4>1
      <4>3. cb[k + 1] = Low(b, k + 1) /\ k # Lb
        BY <1>1, <3>1, <4>2
      <4> QED BY <4>1, <4>3
    <3>3. CASE k + 1 = f
      <4>1. ca[f] = Low(a, f)
        BY <1>1, <2>5, <3>1, <3>3
      <4>2. k = Lb => Low(b, f) = 0
        <5>1. k = Lb => f > Lb
          BY <3>1, <3>3
        <5> QED BY <1>1, <2>5, <5>1
      <4>3. k # Lb => cb[f] = Low(b, f) /\ cb[f] < ca[f]
        <5>1. k # Lb => f <= Lb
          BY <1>1, <3>1, <3>3
        <5> QED BY <1>1, <2>5, <3>3, <5>1
      <4> QED BY <2>7, <2>9, <4>1, <4>2, <4>3
    <3>4. CASE f < k + 1
      <4>1. f \in 1..k /\ f <= La /\ f <= Lb
        BY <1>1, <2>5, <3>1, <3>4
      <4>2. cb[f] = ca[f] /\ ca[f] = Low(a, f) /\ cb[f] = Low(b, f)
        BY <1>1, <2>5, <4>1
      <4> QED BY <2>5, <4>2
    <3> QED BY <2>5, <3>1, <3>2, <3>3, <3>4
  <2> QED BY <2>4, <2>5, <2>7, <2>8, <2>9
<1>6. Differing(a, b) = {} => Casecmp(a, b) = "zero"
  BY <1>2
<1> QED BY <1>4, <1>5, <1>6, SameOrder DEF ca, cb

LEMMA CasemapDecides ==
  ASSUME NEW rel \in Relation, NEW pat \in CString, NEW text \in CString
  PROVE  AsciiCasemap(rel, pat, text) <=>
           Related(rel, Before(Order(text), Order(pat)), Fold(text, TRUE) = Fold(pat, TRUE))
<1> DEFINE before == Before(Order(text), Order(pat))
           same   == Fold(text, TRUE) = Fold(pat, TRUE)
           sign   == Casecmp(pat, text)
<1>1. before \in BOOLEAN /\ same \in BOOLEAN
  BY DEF Before
<1>2. sign = IF same THEN "zero" ELSE IF before THEN "positive" ELSE "negative"
  BY CasecmpIs
<1>3. same => ~before
  BY CasecmpIs
<1>4. AsciiCasemap(rel, pat, text) <=>
        sign \in
          CASE rel = "gt" -> {"negative"} [] rel = "ge" -> {"negative", "zero"}
            [] rel = "lt" -> {"positive"} [] rel = "le" -> {"positive", "zero"}
            [] rel = "eq" -> {"zero"}     [] rel = "ne" -> {"negative", "positive"}
  BY DEF AsciiCasemap
<1> HIDE DEF before, same, sign
<1>5. AsciiCasemap(rel, pat, text) <=> Related(rel, before, same)
  <2>1. CASE rel = "gt"
    BY <1>1, <1>2, <1>3, <1>4, <2>1, RelatedIs
  <2>2. CASE rel = "ge"
    BY <1>1, <1>2, <1>3, <1>4, <2>2, RelatedIs
  <2>3. CASE rel = "lt"
    BY <1>1, <1>2, <1>3, <1>4, <2>3, RelatedIs
  <2>4. CASE rel = "le"
    BY <1>1, <1>2, <1>3, <1>4, <2>4, RelatedIs
  <2>5. CASE rel = "eq"
    BY <1>1, <1>2, <1>3, <1>4, <2>5, RelatedIs
  <2>6. CASE rel = "ne"
    BY <1>1, <1>2, <1>3, <1>4, <2>6, RelatedIs
  <2> QED BY <2>1, <2>2, <2>3, <2>4, <2>5, <2>6 DEF Relation
<1> QED BY <1>5 DEF before, same

-----------------------------------------------------------------------------
(* The search for a pattern within a text. *)

\* The equation of the recursion in CasemapContains.
Looks(pat, text, f) ==
  f = [at \in (0..Len(text)) \X (0..Len(pat)) |->
         IF at[2] >= Len(pat) \/ at[1] + at[2] >= Len(text) THEN at[2] = Len(pat)
         ELSE IF Fold(text, TRUE)[at[1] + at[2] + 1] = Fold(pat, TRUE)[at[2] + 1]
              THEN f[<<at[1], at[2] + 1>>] ELSE f[<<at[1] + 1, 0>>]]

\* The pattern from behind its character j on is in the text at d, or all of
\* it is further behind.
Rest(p, t, d, j) == \A k \in Nat : j < k /\ k <= Len(p) => d + k <= Len(t) /\ t[d + k] = p[k]
There(p, t, d, j) == Rest(p, t, d, j) \/ \E e \in Nat : d < e /\ e <= Len(t) /\ Rest(p, t, e, 0)

\* A step of the search.
LEMMA ThereIs ==
  ASSUME NEW p \in CString, NEW t \in CString, NEW d \in 0..Len(t), NEW j \in 0..Len(p)
  PROVE  /\ j = Len(p) => There(p, t, d, j)
         /\ j < Len(p) /\ d + j >= Len(t) => ~There(p, t, d, j)
         /\ j < Len(p) /\ d + j < Len(t) =>
              (There(p, t, d, j) <=>
                 IF t[d + j + 1] = p[j + 1] THEN There(p, t, d, j + 1) ELSE There(p, t, d + 1, 0))
<1>1. Len(p) \in Nat /\ Len(t) \in Nat /\ d \in Nat /\ j \in Nat
  BY StringIs
<1>2. j = Len(p) => There(p, t, d, j)
  BY <1>1 DEF There, Rest
<1>3. ASSUME j < Len(p), d + j >= Len(t) PROVE ~There(p, t, d, j)
  <2>1. ~Rest(p, t, d, j)
    <3>1. j + 1 \in Nat /\ j < j + 1 /\ j + 1 <= Len(p) /\ ~(d + (j + 1) <= Len(t))
      BY <1>1, <1>3
    <3> QED BY <3>1 DEF Rest
  <2>2. ASSUME NEW e \in Nat, d < e PROVE ~Rest(p, t, e, 0)
    <3>1. Len(p) \in Nat /\ 0 < Len(p) /\ Len(p) <= Len(p) /\ ~(e + Len(p) <= Len(t))
      BY <1>1, <1>3, <2>2
    <3> QED BY <3>1 DEF Rest
  <2> QED BY <2>1, <2>2 DEF There
<1>4. ASSUME j < Len(p), d + j < Len(t)
      PROVE  There(p, t, d, j) <=>
               IF t[d + j + 1] = p[j + 1] THEN There(p, t, d, j + 1) ELSE There(p, t, d + 1, 0)
  <2>0. j + 1 \in Nat /\ j < j + 1 /\ j + 1 <= Len(p) /\ d + (j + 1) <= Len(t)
        /\ d + (j + 1) = d + j + 1
    BY <1>1, <1>4
  <2>1. Rest(p, t, d, j) <=> t[d + j + 1] = p[j + 1] /\ Rest(p, t, d, j + 1)
    <3>1. ASSUME Rest(p, t, d, j) PROVE t[d + j + 1] = p[j + 1] /\ Rest(p, t, d, j + 1)
      <4>1. t[d + (j + 1)] = p[j + 1]
        BY <2>0, <3>1 DEF Rest
      <4>2. \A k \in Nat : j + 1 < k => j < k
        BY <1>1
      <4> QED BY <2>0, <3>1, <4>1, <4>2 DEF Rest
    <3>2. ASSUME t[d + j + 1] = p[j + 1], Rest(p, t, d, j + 1) PROVE Rest(p, t, d, j)
      <4>1. \A k \in Nat : j < k => k = j + 1 \/ j + 1 < k
        BY <1>1
      <4> QED BY <2>0, <3>2, <4>1 DEF Rest
    <3> QED BY <3>1, <3>2
  <2>2. (\E e \in Nat : d < e /\ e <= Len(t) /\ Rest(p, t, e, 0)) <=> There(p, t, d + 1, 0)
    <3>1. d + 1 \in Nat /\ d < d + 1 /\ d + 1 <= Len(t)
          /\ \A e \in Nat : d < e <=> e = d + 1 \/ d + 1 < e
      BY <1>1, <1>4
    <3> QED BY <3>1 DEF There
  <2> QED BY <2>1, <2>2 DEF There
<1> QED BY <1>2, <1>3, <1>4

\* The same equation, place by place, for the folded strings.
Searches(p, t, f) ==
  \A d \in 0..Len(t), j \in 0..Len(p) :
    f[<<d, j>>] = IF j >= Len(p) \/ d + j >= Len(t) THEN j = Len(p)
                  ELSE IF t[d + j + 1] = p[j + 1] THEN f[<<d, j + 1>>] ELSE f[<<d + 1, 0>>]

LEMMA LooksIs ==
  ASSUME NEW pat \in CString, NEW text \in CString, NEW f, Looks(pat, text, f)
  PROVE  Searches(Fold(pat, TRUE), Fold(text, TRUE), f)
<1> DEFINE D == 0..Len(text)
           J == 0..Len(pat)
           e(d, j) == IF j >= Len(pat) \/ d + j >= Len(text) THEN j = Len(pat)
                      ELSE IF Fold(text, TRUE)[d + j + 1] = Fold(pat, TRUE)[j + 1]
                           THEN f[<<d, j + 1>>] ELSE f[<<d + 1, 0>>]
<1>1. f = [at \in D \X J |-> e(at[1], at[2])]
  BY DEF Looks
<1> HIDE DEF D, J, e
<1>2. \A d \in D, j \in J : f[<<d, j>>] = e(d, j)
  BY <1>1
<1>3. Len(Fold(pat, TRUE)) = Len(pat) /\ Len(Fold(text, TRUE)) = Len(text)
  BY FoldIs
<1> DEFINE P == Fold(pat, TRUE)
           T == Fold(text, TRUE)
<1>4. \A d \in D, j \in J :
        f[<<d, j>>] = IF j >= Len(pat) \/ d + j >= Len(text) THEN j = Len(pat)
                      ELSE IF T[d + j + 1] = P[j + 1] THEN f[<<d, j + 1>>] ELSE f[<<d + 1, 0>>]
  BY <1>2 DEF e
<1> HIDE DEF P, T
<1>5. Searches(P, T, f)
  BY <1>3, <1>4 DEF Searches, D, J, P, T
<1> QED BY <1>5 DEF P, T

LEMMA LooksExist ==
  ASSUME NEW pat \in CString, NEW text \in CString
  PROVE  \E f : Looks(pat, text, f)
<1> DEFINE P == Fold(pat, TRUE)
           T == Fold(text, TRUE)
           D == 0..Len(text)
           J == 0..Len(pat)
           f == [at \in D \X J |-> There(P, T, at[1], at[2])]
           e(d, j) == IF j >= Len(pat) \/ d + j >= Len(text) THEN j = Len(pat)
                      ELSE IF T[d + j + 1] = P[j + 1] THEN f[<<d, j + 1>>] ELSE f[<<d + 1, 0>>]
<1>1. /\ P \in CString /\ Len(P) = Len(pat) /\ T \in CString /\ Len(T) = Len(text)
      /\ Len(pat) \in Nat /\ Len(text) \in Nat
  BY FoldIs, StringIs
<1>2. \A d \in D, j \in J : f[<<d, j>>] = There(P, T, d, j)
  <2> HIDE DEF D, J, P, T
  <2> QED OBVIOUS
<1>3. ASSUME NEW d \in D, NEW j \in J PROVE There(P, T, d, j) = e(d, j)
  <2>a. Len(pat) \in Nat /\ Len(text) \in Nat /\ j \in 0..Len(pat) /\ d \in 0..Len(text)
    BY <1>1
  <2>b. \/ j = Len(pat)
        \/ j < Len(pat) /\ d + j >= Len(text) /\ j # Len(pat)
        \/ j < Len(pat) /\ d + j < Len(text)
    BY <2>a
  <2>0. There(P, T, d, j) \in BOOLEAN /\ (j = Len(pat)) \in BOOLEAN
    BY DEF There
  <2>1. CASE j = Len(pat)
    <3>1. j >= Len(pat)
      BY <1>1, <2>1
    <3>2. e(d, j) = (j = Len(pat))
      BY <3>1
    <3>3. There(P, T, d, j)
      BY <1>1, <2>1, ThereIs
    <3> HIDE DEF e, P, T
    <3> QED BY <2>0, <2>1, <3>2, <3>3
  <2>2. CASE j < Len(pat) /\ d + j >= Len(text) /\ j # Len(pat)
    <3>1. e(d, j) = (j = Len(pat))
      BY <2>2
    <3>2. ~There(P, T, d, j)
      BY <1>1, <2>2, ThereIs
    <3> HIDE DEF e, P, T
    <3> QED BY <2>0, <2>2, <3>1, <3>2
  <2>3. CASE j < Len(pat) /\ d + j < Len(text)
    <3>1. ~(j >= Len(pat)) /\ ~(d + j >= Len(text)) /\ j + 1 \in J /\ d + 1 \in D /\ 0 \in J
      BY <1>1, <2>3
    <3>2. e(d, j) = IF T[d + j + 1] = P[j + 1] THEN There(P, T, d, j + 1) ELSE There(P, T, d + 1, 0)
      <4>1. e(d, j) = IF T[d + j + 1] = P[j + 1] THEN f[<<d, j + 1>>] ELSE f[<<d + 1, 0>>]
        BY <3>1
      <4>2. f[<<d, j + 1>>] = There(P, T, d, j + 1) /\ f[<<d + 1, 0>>] = There(P, T, d + 1, 0)
        BY <1>2, <3>1
      <4> HIDE DEF e, f
      <4> QED BY <4>1, <4>2
    <3>3. There(P, T, d, j) <=>
            IF T[d + j + 1] = P[j + 1] THEN There(P, T, d, j + 1) ELSE There(P, T, d + 1, 0)
      BY <1>1, <2>3, ThereIs
    <3>4. There(P, T, d, j + 1) \in BOOLEAN /\ There(P, T, d + 1, 0) \in BOOLEAN
      BY DEF There
    <3> HIDE DEF e, P, T
    <3> QED BY <2>0, <3>2, <3>3, <3>4
  <2> QED BY <2>b, <2>1, <2>2, <2>3
<1>4. f = [at \in D \X J |-> e(at[1], at[2])]
  <2> HIDE DEF e, P, T
  <2>1. \A at \in D \X J : at[1] \in D /\ at[2] \in J
    <3> HIDE DEF D, J
    <3> QED OBVIOUS
  <2>2. \A at \in D \X J : There(P, T, at[1], at[2]) = e(at[1], at[2])
    BY <1>3, <2>1
  <2> HIDE DEF D, J
  <2> QED BY <2>2
<1> QED BY <1>4 DEF Looks

LEMMA CasemapContainsIs ==
  ASSUME NEW pat \in CString, NEW text \in CString
  PROVE  CasemapContains(pat, text) <=> Within(Fold(pat, TRUE), Fold(text, TRUE))
<1> DEFINE P == Fold(pat, TRUE)
           T == Fold(text, TRUE)
           Lp == Len(pat)
           Lt == Len(text)
           f == CHOOSE g : Looks(pat, text, g)
           Fine(d, j) == f[<<d, j>>] = There(P, T, d, j)
<1>1. /\ P \in CString /\ Len(P) = Lp /\ T \in CString /\ Len(T) = Lt
      /\ Lp \in Nat /\ Lt \in Nat /\ DOMAIN P = 1..Lp /\ DOMAIN T = 1..Lt
  BY FoldIs, StringIs, ZenonT(30)
<1>2. CasemapContains(pat, text) = f[<<0, 0>>]
  BY DEF CasemapContains, Looks
<1>3. Looks(pat, text, f)
  BY LooksExist
<1> HIDE DEF f
<1>4. \A d \in 0..Lt, j \in 0..Lp :
        f[<<d, j>>] = IF j >= Lp \/ d + j >= Lt THEN j = Lp
                      ELSE IF T[d + j + 1] = P[j + 1] THEN f[<<d, j + 1>>] ELSE f[<<d + 1, 0>>]
  <2>1. Searches(P, T, f)
    BY <1>3, LooksIs
  <2> HIDE DEF P, T
  <2> QED BY <1>1, <2>1 DEF Searches
<1>5. \A d \in 0..Lt : \A j \in 0..Lp :
        /\ j = Lp => There(P, T, d, j)
        /\ j < Lp /\ d + j >= Lt => ~There(P, T, d, j)
        /\ j < Lp /\ d + j < Lt =>
             (There(P, T, d, j) <=>
                IF T[d + j + 1] = P[j + 1] THEN There(P, T, d, j + 1) ELSE There(P, T, d + 1, 0))
  BY <1>1, ThereIs
<1>6. \A d, j : There(P, T, d, j) \in BOOLEAN
  BY DEF There
<1>7. Within(P, T) <=> There(P, T, 0, 0)
  <2>1. ASSUME NEW i \in 0..Lt
        PROVE  (\A j \in DOMAIN P : i + j \in DOMAIN T /\ P[j] = T[i + j]) <=> Rest(P, T, i, 0)
    <3> HIDE DEF P, T
    <3> QED BY <1>1 DEF Rest
  <2>2. Within(P, T) <=> \E i \in 0..Lt : Rest(P, T, i, 0)
    <3> HIDE DEF P, T
    <3> QED BY <1>1, <2>1 DEF Within
  <2>3. 0 \in 0..Lt /\ \A e \in 0..Lt : e = 0 \/ (e \in Nat /\ 0 < e /\ e <= Lt)
    BY <1>1
  <2>4. \A e \in Nat : e <= Lt => e \in 0..Lt
    BY <1>1
  <2> HIDE DEF P, T
  <2> QED BY <1>1, <2>2, <2>3, <2>4 DEF There
<1> HIDE DEF P, T, Lp, Lt
<1>8. ASSUME NEW d \in 0..Lt, d = Lt \/ Fine(d + 1, 0) PROVE \A j \in 0..Lp : Fine(d, j)
  <2> DEFINE S == {m \in 0..Lp : Fine(d, Lp - m)}
  <2>1. 0 \in S
    <3>1. Lp - 0 = Lp /\ Lp \in 0..Lp /\ Lp >= Lp
      BY <1>1
    <3>2. f[<<d, Lp>>] = (Lp = Lp)
      BY <1>4, <3>1
    <3>3. There(P, T, d, Lp)
      BY <1>5, <3>1
    <3>4. Fine(d, Lp)
      BY <1>6, <3>2, <3>3
    <3>5. 0 \in 0..Lp
      BY <1>1
    <3> HIDE DEF Fine
    <3> QED BY <3>1, <3>4, <3>5
  <2>2. ASSUME NEW m \in 0..(Lp - 1), m \in S PROVE m + 1 \in S
    <3> DEFINE j == Lp - (m + 1)
    <3>1. m + 1 \in 0..Lp /\ j \in 0..Lp /\ j < Lp /\ Lp - m = j + 1 /\ ~(j >= Lp) /\ j # Lp /\ d \in Nat
      BY <1>1
    <3>2. Fine(d, j + 1)
      BY <2>2, <3>1
    <3> HIDE DEF j
    <3>3. Fine(d, j)
      <4>1. CASE d + j >= Lt
        <5>1. f[<<d, j>>] = (j = Lp)
          BY <1>4, <3>1, <4>1
        <5>2. ~There(P, T, d, j)
          BY <1>5, <3>1, <4>1
        <5> QED BY <1>6, <3>1, <5>1, <5>2
      <4>2. CASE d + j < Lt
        <5>1. ~(d + j >= Lt) /\ d # Lt
          BY <1>1, <3>1, <4>2
        <5>2. f[<<d, j>>] = IF T[d + j + 1] = P[j + 1] THEN f[<<d, j + 1>>] ELSE f[<<d + 1, 0>>]
          BY <1>4, <3>1, <5>1
        <5>3. There(P, T, d, j) <=>
                IF T[d + j + 1] = P[j + 1] THEN There(P, T, d, j + 1) ELSE There(P, T, d + 1, 0)
          BY <1>5, <3>1, <4>2
        <5>4. f[<<d, j + 1>>] = There(P, T, d, j + 1) /\ f[<<d + 1, 0>>] = There(P, T, d + 1, 0)
          BY <1>8, <3>2, <5>1
        <5> QED BY <1>6, <5>2, <5>3, <5>4
      <4> QED BY <1>1, <3>1, <4>1, <4>2
    <3> QED BY <3>1, <3>3 DEF j
  <2>3. \A m \in 0..Lp : m \in S
    <3> HIDE DEF S
    <3> QED BY <1>1, <2>1, <2>2, Induction
  <2>4. \A j \in 0..Lp : Lp - j \in 0..Lp /\ Lp - (Lp - j) = j
    BY <1>1
  <2> HIDE DEF Fine
  <2> QED BY <2>3, <2>4
<1>9. Fine(0, 0)
  <2> DEFINE S == {n \in 0..Lt : Fine(Lt - n, 0)}
  <2>0. 0 \in 0..Lp
    BY <1>1
  <2>1. 0 \in S
    <3>1. Lt - 0 = Lt /\ Lt \in 0..Lt /\ 0 \in 0..Lt
      BY <1>1
    <3> HIDE DEF Fine
    <3> QED BY <1>8, <2>0, <3>1
  <2>2. ASSUME NEW n \in 0..(Lt - 1), n \in S PROVE n + 1 \in S
    <3>1. n + 1 \in 0..Lt /\ Lt - (n + 1) \in 0..Lt /\ (Lt - (n + 1)) + 1 = Lt - n
      BY <1>1
    <3> HIDE DEF Fine
    <3> QED BY <1>8, <2>0, <2>2, <3>1
  <2>3. \A n \in 0..Lt : n \in S
    <3> HIDE DEF S
    <3> QED BY <1>1, <2>1, <2>2, Induction
  <2>4. Lt \in 0..Lt /\ Lt - Lt = 0
    BY <1>1
  <2> HIDE DEF Fine
  <2> QED BY <2>3, <2>4
<1> QED BY <1>2, <1>7, <1>9 DEF P, T

\* strstr finds what is within the text.
LEMMA OctetContainsIs ==
  ASSUME NEW pat \in CString, NEW text \in CString
  PROVE  OctetContains(pat, text) <=> Within(pat, text)
<1> DEFINE Lp == Len(pat)
           Lt == Len(text)
<1>1. Lp \in Nat /\ Lt \in Nat /\ DOMAIN pat = 1..Lp /\ DOMAIN text = 1..Lt
  BY StringIs
<1>2. ASSUME NEW i \in 0..(Lt - Lp)
      PROVE  SubSeq(text, i + 1, i + Lp) = pat <=> \A j \in 1..Lp : pat[j] = text[i + j]
  <2> DEFINE s == SubSeq(text, i + 1, i + Lp)
  <2>0. i \in Nat /\ i + Lp <= Lt
    BY <1>1
  <2>1. s \in CString /\ Len(s) = Lp /\ \A j \in 1..Lp : s[j] = text[i + j]
    <3> DEFINE C == 1..255
    <3>1. \A k \in (i + 1)..(i + Lp) : text[k] \in C
      <4>1. \A k \in 1..Lt : text[k] \in C
        BY StringIs
      <4>2. \A k \in (i + 1)..(i + Lp) : k \in 1..Lt
        BY <1>1, <2>0
      <4> HIDE DEF C, Lt, Lp
      <4> QED BY <4>1, <4>2
    <3>2. i + 1 \in Int /\ i + Lp \in Int
      BY <1>1, <2>0
    <3> HIDE DEF C
    <3>3. /\ s \in Seq(C)
          /\ Len(s) = IF i + 1 <= i + Lp THEN (i + Lp) - (i + 1) + 1 ELSE 0
          /\ \A j \in 1..((i + Lp) - (i + 1) + 1) : s[j] = text[(i + 1) + j - 1]
      BY <3>1, <3>2, SubSeqProperties
    <3>4. /\ (IF i + 1 <= i + Lp THEN (i + Lp) - (i + 1) + 1 ELSE 0) = Lp
          /\ (i + Lp) - (i + 1) + 1 = Lp /\ \A j \in 1..Lp : (i + 1) + j - 1 = i + j
      BY <1>1, <2>0
    <3> HIDE DEF s
    <3> QED BY <3>3, <3>4 DEF CString, C
  <2> HIDE DEF s
  <2>2. s = pat => \A j \in 1..Lp : pat[j] = text[i + j]
    BY <2>1
  <2>3. (\A j \in 1..Lp : pat[j] = text[i + j]) => s = pat
    BY <2>1, StringEqual
  <2> QED BY <2>2, <2>3 DEF s
<1>3. ASSUME OctetContains(pat, text) PROVE Within(pat, text)
  <2>1. PICK i \in 0..(Lt - Lp) : SubSeq(text, i + 1, i + Lp) = pat
    BY <1>3 DEF OctetContains
  <2>2. \A j \in 1..Lp : pat[j] = text[i + j]
    BY <1>2, <2>1
  <2>3. i \in 0..Lt /\ \A j \in 1..Lp : i + j \in 1..Lt
    BY <1>1, <2>1
  <2> HIDE DEF Lp, Lt
  <2>4. \E k \in 0..Lt : \A j \in 1..Lp : k + j \in 1..Lt /\ pat[j] = text[k + j]
    BY <2>2, <2>3
  <2> QED BY <1>1, <2>4 DEF Within, Lt
<1>4. ASSUME Within(pat, text) PROVE OctetContains(pat, text)
  <2>1. PICK i \in 0..Lt : \A j \in 1..Lp : i + j \in 1..Lt /\ pat[j] = text[i + j]
    BY <1>1, <1>4 DEF Within
  <2>2. i \in 0..(Lt - Lp)
    <3>1. CASE Lp = 0
      BY <1>1, <3>1
    <3>2. CASE Lp # 0
      <4>1. Lp \in 1..Lp
        BY <1>1, <3>2
      <4>2. i + Lp \in 1..Lt
        BY <2>1, <4>1
      <4> QED BY <1>1, <4>2
    <3> QED BY <3>1, <3>2
  <2>3. SubSeq(text, i + 1, i + Lp) = pat
    BY <1>2, <2>1, <2>2
  <2> QED BY <2>2, <2>3 DEF OctetContains
<1> QED BY <1>3, <1>4

-----------------------------------------------------------------------------
(* The match of a pattern with wildcards. *)

\* The character i of the pattern p stands for the text t between a and b.
Piece(p, t, i, a, b) ==
  IF p[i] = Star THEN a <= b ELSE b = a + 1 /\ p[i] \in {Question, t[b]}

\* The text from x on falls into pieces for the pattern from i on.
Cuts(p, t, i, x, cut) ==
  /\ cut \in [(i - 1)..Len(p) -> 0..Len(t)]
  /\ cut[i - 1] = x - 1 /\ cut[Len(p)] = Len(t)
  /\ \A k \in i..Len(p) : Piece(p, t, k, cut[k - 1], cut[k])
From(p, t, i, x) ==
  IF i > Len(p) + 1 THEN x > Len(t) ELSE \E cut : Cuts(p, t, i, x, cut)

LEMMA FromStart ==
  ASSUME NEW p \in CString, NEW t \in CString
  PROVE  From(p, t, 1, 1) <=> Glob(p, t)
<1>1. Len(p) \in Nat /\ Len(t) \in Nat /\ DOMAIN p = 1..Len(p)
  BY StringIs
<1>2. From(p, t, 1, 1) <=> \E cut : Cuts(p, t, 1, 1, cut)
  BY <1>1 DEF From
<1>3. ASSUME NEW cut
      PROVE  Cuts(p, t, 1, 1, cut) <=>
               /\ cut \in [0..Len(p) -> 0..Len(t)] /\ cut[0] = 0 /\ cut[Len(p)] = Len(t)
               /\ \A k \in 1..Len(p) : Piece(p, t, k, cut[k - 1], cut[k])
  <2>1. 1 - 1 = 0
    OBVIOUS
  <2> QED BY <2>1 DEF Cuts
<1>4. Glob(p, t) <=>
        \E cut \in [0..Len(p) -> 0..Len(t)] :
          /\ cut[0] = 0 /\ cut[Len(p)] = Len(t)
          /\ \A k \in 1..Len(p) : Piece(p, t, k, cut[k - 1], cut[k])
  BY <1>1 DEF Glob, Piece
<1> QED BY <1>2, <1>3, <1>4

LEMMA FromEnd ==
  ASSUME NEW p \in CString, NEW t \in CString, NEW x \in 1..(Len(t) + 1)
  PROVE  /\ From(p, t, Len(p) + 1, x) <=> x > Len(t)
         /\ From(p, t, Len(p) + 2, x) <=> x > Len(t)
<1> DEFINE Lp == Len(p)
           Lt == Len(t)
<1>1. Lp \in Nat /\ Lt \in Nat
  BY StringIs
<1>2. (Lp + 1) - 1 = Lp /\ ~(Lp + 1 > Lp + 1) /\ Lp + 2 > Lp + 1 /\ Lp \in Lp..Lp
      /\ \A k : k \notin (Lp + 1)..Lp
  BY <1>1
<1>3. From(p, t, Lp + 2, x) <=> x > Lt
  BY <1>2 DEF From
<1>4. From(p, t, Lp + 1, x) <=> \E cut : Cuts(p, t, Lp + 1, x, cut)
  BY <1>2 DEF From
<1>5. ASSUME NEW cut
      PROVE  Cuts(p, t, Lp + 1, x, cut) <=>
               cut \in [Lp..Lp -> 0..Lt] /\ cut[Lp] = x - 1 /\ cut[Lp] = Lt
  BY <1>2 DEF Cuts
<1> HIDE DEF Lp, Lt
<1>6. ASSUME x > Lt PROVE \E cut : Cuts(p, t, Lp + 1, x, cut)
  <2> DEFINE cut == [k \in Lp..Lp |-> Lt]
  <2>1. cut \in [Lp..Lp -> 0..Lt] /\ cut[Lp] = Lt /\ x - 1 = Lt
    BY <1>1, <1>2, <1>6 DEF Lt
  <2> QED BY <1>5, <2>1
<1>7. (\E cut : Cuts(p, t, Lp + 1, x, cut)) => x > Lt
  <2>1. x \in Nat
    BY <1>1 DEF Lt
  <2>2. x - 1 = Lt => x > Lt
    BY <1>1, <2>1
  <2> QED BY <1>5, <2>2
<1> QED BY <1>3, <1>4, <1>6, <1>7 DEF Lp, Lt

\* One character of the pattern.
LEMMA FromStep ==
  ASSUME NEW p \in CString, NEW t \in CString, NEW i \in 1..Len(p), NEW x \in 1..(Len(t) + 1)
  PROVE  From(p, t, i, x) <=>
           \E y \in 1..(Len(t) + 1) : Piece(p, t, i, x - 1, y - 1) /\ From(p, t, i + 1, y)
<1> DEFINE Lp == Len(p)
           Lt == Len(t)
<1>1. /\ Lp \in Nat /\ Lt \in Nat /\ i \in Nat /\ i <= Lp /\ i >= 1
      /\ x \in Nat /\ x >= 1 /\ x <= Lt + 1
  BY StringIs
<1>2. (i + 1) - 1 = i /\ ~(i > Lp + 1) /\ ~(i + 1 > Lp + 1) /\ i \in i..Lp /\ Lp \in i..Lp
      /\ x - 1 \in 0..Lt
  BY <1>1
<1>3. /\ From(p, t, i, x) <=> \E cut : Cuts(p, t, i, x, cut)
      /\ \A y : From(p, t, i + 1, y) <=> \E cut : Cuts(p, t, i + 1, y, cut)
  BY <1>2 DEF From
<1>4. \A cut : Cuts(p, t, i, x, cut) <=>
               /\ cut \in [(i - 1)..Lp -> 0..Lt]
               /\ cut[i - 1] = x - 1 /\ cut[Lp] = Lt
               /\ \A k \in i..Lp : Piece(p, t, k, cut[k - 1], cut[k])
  BY DEF Cuts
<1>5. \A y, cut : Cuts(p, t, i + 1, y, cut) <=>
                  /\ cut \in [i..Lp -> 0..Lt]
                  /\ cut[i] = y - 1 /\ cut[Lp] = Lt
                  /\ \A k \in (i + 1)..Lp : Piece(p, t, k, cut[k - 1], cut[k])
  BY <1>2 DEF Cuts
<1> HIDE DEF Lp, Lt
<1>6. ASSUME NEW cut, Cuts(p, t, i, x, cut)
      PROVE  \E y \in 1..(Lt + 1) : Piece(p, t, i, x - 1, y - 1) /\ From(p, t, i + 1, y)
  <2> DEFINE c == [k \in i..Lp |-> cut[k]]
             y == cut[i] + 1
  <2>1. i \in (i - 1)..Lp /\ (\A k \in i..Lp : k \in (i - 1)..Lp)
        /\ \A k \in (i + 1)..Lp : k \in i..Lp /\ k - 1 \in i..Lp
    BY <1>1
  <2>2. cut[i] \in 0..Lt
    BY <1>4, <1>6, <2>1
  <2>3. y \in 1..(Lt + 1) /\ y - 1 = cut[i]
    BY <1>1, <2>2
  <2>4. c \in [i..Lp -> 0..Lt]
    BY <1>4, <1>6, <2>1
  <2>5. \A k \in i..Lp : c[k] = cut[k]
    OBVIOUS
  <2>6. Piece(p, t, i, x - 1, y - 1)
    BY <1>2, <1>4, <1>6, <2>3
  <2> HIDE DEF c, y
  <2>7. Cuts(p, t, i + 1, y, c)
    <3>1. c[i] = y - 1 /\ c[Lp] = Lt
      BY <1>2, <1>4, <1>6, <2>3, <2>5
    <3>2. \A k \in (i + 1)..Lp : Piece(p, t, k, c[k - 1], c[k])
      BY <1>4, <1>6, <2>1, <2>5
    <3> QED BY <1>5, <2>4, <3>1, <3>2
  <2> QED BY <1>3, <2>3, <2>6, <2>7
<1>7. ASSUME NEW y \in 1..(Lt + 1), Piece(p, t, i, x - 1, y - 1),
             NEW c, Cuts(p, t, i + 1, y, c)
      PROVE  From(p, t, i, x)
  <2> DEFINE cut == [k \in (i - 1)..Lp |-> IF k = i - 1 THEN x - 1 ELSE c[k]]
  <2>1. /\ i - 1 \in (i - 1)..Lp
        /\ \A k \in (i - 1)..Lp : k = i - 1 \/ k \in i..Lp
        /\ \A k \in i..Lp : k \in (i - 1)..Lp /\ k # i - 1
        /\ \A k \in i..Lp : k = i \/ (k \in (i + 1)..Lp /\ k - 1 \in i..Lp)
    BY <1>1
  <2>2. cut[i - 1] = x - 1
    BY <2>1
  <2>3. \A k \in i..Lp : cut[k] = c[k]
    BY <2>1
  <2>4. cut \in [(i - 1)..Lp -> 0..Lt]
    <3>1. \A k \in i..Lp : c[k] \in 0..Lt
      BY <1>5, <1>7
    <3> QED BY <1>2, <2>1, <3>1
  <2> HIDE DEF cut
  <2>5. ASSUME NEW k \in i..Lp PROVE Piece(p, t, k, cut[k - 1], cut[k])
    <3>1. CASE k = i
      <4>1. cut[i] = y - 1
        BY <1>2, <1>5, <1>7, <2>3
      <4> QED BY <1>7, <2>2, <3>1, <4>1
    <3>2. CASE k \in (i + 1)..Lp /\ k - 1 \in i..Lp
      BY <1>5, <1>7, <2>3, <3>2
    <3> QED BY <2>1, <3>1, <3>2
  <2>6. cut[Lp] = Lt
    BY <1>2, <1>5, <1>7, <2>3
  <2> QED BY <1>3, <1>4, <2>2, <2>4, <2>5, <2>6
<1> QED BY <1>3, <1>6, <1>7 DEF Lt

LEMMA FromCharacter ==
  ASSUME NEW p \in CString, NEW t \in CString, NEW i \in 1..Len(p), NEW x \in 1..(Len(t) + 1)
  PROVE  /\ p[i] = Star =>
              (From(p, t, i, x) <=> \E y \in 1..(Len(t) + 1) : x <= y /\ From(p, t, i + 1, y))
         /\ p[i] # Star =>
              (From(p, t, i, x) <=>
                 x <= Len(t) /\ p[i] \in {Question, t[x]} /\ From(p, t, i + 1, x + 1))
<1>1. Len(t) \in Nat /\ x \in Nat /\ x >= 1
  BY StringIs
<1>2. ASSUME p[i] = Star
      PROVE  From(p, t, i, x) <=> \E y \in 1..(Len(t) + 1) : x <= y /\ From(p, t, i + 1, y)
  <2>1. \A y \in 1..(Len(t) + 1) : Piece(p, t, i, x - 1, y - 1) <=> x <= y
    BY <1>1, <1>2 DEF Piece
  <2> QED BY <2>1, FromStep
<1>3. ASSUME p[i] # Star
      PROVE  From(p, t, i, x) <=>
               x <= Len(t) /\ p[i] \in {Question, t[x]} /\ From(p, t, i + 1, x + 1)
  <2>1. ASSUME NEW y \in 1..(Len(t) + 1)
        PROVE  Piece(p, t, i, x - 1, y - 1) <=> y = x + 1 /\ p[i] \in {Question, t[x]}
    <3>1. Piece(p, t, i, x - 1, y - 1) <=> y - 1 = (x - 1) + 1 /\ p[i] \in {Question, t[y - 1]}
      BY <1>3 DEF Piece
    <3>2. y - 1 = (x - 1) + 1 <=> y = x + 1
      BY <1>1
    <3>3. y = x + 1 => y - 1 = x
      BY <1>1
    <3> QED BY <3>1, <3>2, <3>3
  <2>2. x + 1 \in 1..(Len(t) + 1) <=> x <= Len(t)
    BY <1>1
  <2>3. From(p, t, i, x) <=>
          \E y \in 1..(Len(t) + 1) : Piece(p, t, i, x - 1, y - 1) /\ From(p, t, i + 1, y)
    BY FromStep
  <2> DEFINE Y == 1..(Len(t) + 1)
             z == x + 1
             R == p[i] \in {Question, t[x]}
  <2>4. From(p, t, i, x) <=> \E y \in Y : y = z /\ R /\ From(p, t, i + 1, y)
    BY <2>1, <2>3
  <2> HIDE DEF Y, R, z
  <2>5. From(p, t, i, x) <=> z \in Y /\ R /\ From(p, t, i + 1, z)
    BY <2>4
  <2> QED BY <2>2, <2>5 DEF Y, R, z
<1> QED BY <1>2, <1>3

\* Where a run of wildcards from i on ends, and what it eats before q.
Ends(p, i) == {q \in (i + 1)..(Len(p) + 1) : q > Len(p) \/ p[q] \notin {Star, Question}}
Eaten(p, i, q) == Cardinality({k \in (i + 1)..(q - 1) : p[k] = Question})

LEMMA EatenIs ==
  ASSUME NEW p \in CString, NEW i \in Nat, NEW q \in Nat, i < q
  PROVE  /\ Eaten(p, i, q) \in Nat /\ Eaten(p, i, i + 1) = 0
         /\ Eaten(p, i, q + 1) = Eaten(p, i, q) + (IF p[q] = Question THEN 1 ELSE 0)
<1> DEFINE K(r) == {k \in (i + 1)..(r - 1) : p[k] = Question}
<1>1. IsFiniteSet(K(q))
  <2>1. i + 1 \in Int /\ q - 1 \in Int
    OBVIOUS
  <2>2. IsFiniteSet((i + 1)..(q - 1))
    BY <2>1, FS_Interval
  <2>3. K(q) \subseteq (i + 1)..(q - 1)
    OBVIOUS
  <2> HIDE DEF K
  <2> QED BY <2>2, <2>3, FS_Subset
<1>2. K(i + 1) = {}
  OBVIOUS
<1>3. q \notin K(q)
  OBVIOUS
<1>4. K(q + 1) = IF p[q] = Question THEN K(q) \cup {q} ELSE K(q)
  <2>1. \A k : k \in (i + 1)..((q + 1) - 1) <=> k \in (i + 1)..(q - 1) \/ k = q
    OBVIOUS
  <2>2. \A k : k \in K(q + 1) <=> (k \in K(q) \/ k = q) /\ p[k] = Question
    BY <2>1
  <2>3. \A k \in K(q) : p[k] = Question
    OBVIOUS
  <2> HIDE DEF K
  <2> QED BY <2>2, <2>3
<1>5. /\ Eaten(p, i, q) = Cardinality(K(q)) /\ Eaten(p, i, i + 1) = Cardinality(K(i + 1))
      /\ Eaten(p, i, q + 1) = Cardinality(K(q + 1))
  BY DEF Eaten
<1> HIDE DEF K
<1>6. Cardinality(K(q)) \in Nat /\ Cardinality(K(i + 1)) = 0
  BY <1>1, <1>2, FS_CardinalityType, FS_EmptySet
<1>7. Cardinality(K(q) \cup {q}) = Cardinality(K(q)) + 1
  BY <1>1, <1>3, FS_AddElement
<1> QED BY <1>4, <1>5, <1>6, <1>7

\* A run of wildcards stands for all that is at least as long as what it eats.
LEMMA RunIs ==
  ASSUME NEW p \in CString, NEW t \in CString, NEW i \in 1..Len(p), p[i] = Star,
         NEW r \in Ends(p, i), \A e \in Ends(p, i) : r <= e
  PROVE  /\ Eaten(p, i, r) \in Nat
         /\ \A x \in 1..(Len(t) + 1) :
              From(p, t, i, x) <=>
                \E y \in 1..(Len(t) + 1) : x + Eaten(p, i, r) <= y /\ From(p, t, r, y)
<1> DEFINE X == 1..(Len(t) + 1)
           Run(q) == \A x \in X : From(p, t, i, x) <=>
                                    \E y \in X : x + Eaten(p, i, q) <= y /\ From(p, t, q, y)
           N == r - (i + 1)
           S == {n \in 0..N : Run((i + 1) + n)}
<1>1. Len(p) \in Nat /\ Len(t) \in Nat /\ i \in Nat /\ i >= 1
      /\ r \in Nat /\ i + 1 <= r /\ r <= Len(p) + 1 /\ N \in Nat
  BY StringIs DEF Ends
<1>2. \A q \in Nat : i < q => /\ Eaten(p, i, q) \in Nat /\ Eaten(p, i, i + 1) = 0
                              /\ Eaten(p, i, q + 1) =
                                   Eaten(p, i, q) + (IF p[q] = Question THEN 1 ELSE 0)
  BY <1>1, EatenIs
<1>3. 0 \in S
  <2>1. Eaten(p, i, i + 1) = 0 /\ (i + 1) + 0 = i + 1 /\ 0 \in 0..N
    BY <1>1, <1>2
  <2>2. \A x \in X : From(p, t, i, x) <=> \E y \in X : x <= y /\ From(p, t, i + 1, y)
    BY FromCharacter
  <2>3. \A x \in X : x + 0 = x
    BY <1>1
  <2> HIDE DEF X
  <2>4. Run(i + 1)
    BY <2>1, <2>2, <2>3
  <2> HIDE DEF Run
  <2> QED BY <2>1, <2>4
<1>4. ASSUME NEW n \in 0..(N - 1), n \in S PROVE n + 1 \in S
  <2> DEFINE q == (i + 1) + n
             E == Eaten(p, i, q)
  <2>1. n + 1 \in 0..N /\ (i + 1) + (n + 1) = q + 1 /\ q \in Nat /\ i < q /\ q < r
        /\ q \in 1..Len(p) /\ q \in (i + 1)..(Len(p) + 1) /\ ~(q > Len(p))
    BY <1>1
  <2>2. Run(q)
    BY <1>4
  <2>3. p[q] \in {Star, Question}
    <3>1. q \notin Ends(p, i)
      BY <1>1, <2>1
    <3> QED BY <2>1, <3>1 DEF Ends
  <2> HIDE DEF q, N
  <2>4. E \in Nat /\ Eaten(p, i, q + 1) = E + (IF p[q] = Question THEN 1 ELSE 0)
    BY <1>2, <2>1
  <2>5. \A x \in X : From(p, t, i, x) <=> \E y \in X : x + E <= y /\ From(p, t, q, y)
    BY <2>2
  <2> HIDE DEF E
  <2>6. \A y \in X :
          /\ p[q] = Star => (From(p, t, q, y) <=> \E z \in X : y <= z /\ From(p, t, q + 1, z))
          /\ p[q] # Star =>
               (From(p, t, q, y) <=>
                  y <= Len(t) /\ p[q] \in {Question, t[y]} /\ From(p, t, q + 1, y + 1))
    BY <2>1, FromCharacter
  <2>7. CASE p[q] = Star
    <3>1. p[q] # Question
      BY <2>7 DEF Star, Question
    <3>2. Eaten(p, i, q + 1) = E
      BY <2>4, <3>1
    <3>3. ASSUME NEW x \in X
          PROVE  From(p, t, i, x) <=> \E z \in X : x + E <= z /\ From(p, t, q + 1, z)
      <4>1. ASSUME NEW y \in X, x + E <= y, NEW z \in X, y <= z, From(p, t, q + 1, z)
            PROVE  x + E <= z
        BY <1>1, <2>4, <4>1
      <4>2. \A z \in X : z <= z
        BY <1>1
      <4>3. From(p, t, i, x) <=>
              \E y \in X : x + E <= y /\ \E z \in X : y <= z /\ From(p, t, q + 1, z)
        BY <2>5, <2>6, <2>7
      <4> HIDE DEF X
      <4> QED BY <4>1, <4>2, <4>3
    <3>4. Run(q + 1)
      BY <3>2, <3>3
    <3> HIDE DEF Run
    <3> QED BY <2>1, <3>4
  <2>8. CASE p[q] = Question
    <3>1. p[q] # Star
      BY <2>8 DEF Star, Question
    <3>2. Eaten(p, i, q + 1) = E + 1
      BY <2>4, <2>8
    <3>3. ASSUME NEW x \in X
          PROVE  From(p, t, i, x) <=> \E z \in X : x + (E + 1) <= z /\ From(p, t, q + 1, z)
      <4>1. From(p, t, i, x) <=>
              \E y \in X : x + E <= y /\ y <= Len(t) /\ From(p, t, q + 1, y + 1)
        BY <2>5, <2>6, <2>8, <3>1
      <4>2. \A y \in X : x + E <= y /\ y <= Len(t) => y + 1 \in X /\ x + (E + 1) <= y + 1
        BY <1>1, <2>4
      <4>3. \A z \in X : x + (E + 1) <= z =>
                           /\ z - 1 \in X /\ x + E <= z - 1 /\ z - 1 <= Len(t) /\ (z - 1) + 1 = z
        BY <1>1, <2>4
      <4>4. ASSUME NEW z \in X, x + (E + 1) <= z, From(p, t, q + 1, z) PROVE From(p, t, i, x)
        <5> DEFINE y == z - 1
        <5>1. y \in X /\ x + E <= y /\ y <= Len(t) /\ y + 1 = z
          BY <4>3, <4>4
        <5> HIDE DEF y, X
        <5> QED BY <4>1, <4>4, <5>1
      <4>5. ASSUME From(p, t, i, x)
            PROVE  \E z \in X : x + (E + 1) <= z /\ From(p, t, q + 1, z)
        BY <4>1, <4>2, <4>5
      <4> QED BY <4>4, <4>5
    <3>4. Run(q + 1)
      BY <3>2, <3>3
    <3> HIDE DEF Run
    <3> QED BY <2>1, <3>4
  <2> QED BY <2>3, <2>7, <2>8
<1>5. Run(r)
  <2>1. \A n \in 0..N : n \in S
    <3> HIDE DEF S, N
    <3> QED BY <1>1, <1>3, <1>4, Induction
  <2>2. N \in 0..N /\ (i + 1) + N = r
    BY <1>1
  <2> HIDE DEF Run, N
  <2> QED BY <2>1, <2>2
<1> QED BY <1>1, <1>2, <1>5

\* One step of octet_matches_, with f for the recursion.
Tried(p, t, f, i, x) ==
  IF i > Len(p) THEN x > Len(t)
  ELSE IF p[i] = Question THEN x <= Len(t) /\ f[<<i + 1, x + 1>>]
  ELSE IF p[i] = Star THEN
    LET rest == CHOOSE q \in Ends(p, i) : \A r \in Ends(p, i) : q <= r
    IN  /\ x + Eaten(p, i, rest) <= Len(t) + 1
        /\ rest > Len(p) \/ \E u \in (x + Eaten(p, i, rest))..Len(t) : f[<<rest, u>>]
  ELSE /\ x <= Len(t) /\ t[x] = p[i]
       /\ f[<<IF p[i] = Escape THEN i + 2 ELSE i + 1, x + 1>>]

LEMMA FromIsTruth == \A p, t, i, x : From(p, t, i, x) \in BOOLEAN
<1> TAKE p, t, i, x
<1> DEFINE A == x > Len(t)
           B == \E cut : Cuts(p, t, i, x, cut)
<1>1. A \in BOOLEAN /\ B \in BOOLEAN
  OBVIOUS
<1>2. From(p, t, i, x) = IF i > Len(p) + 1 THEN A ELSE B
  BY DEF From
<1> HIDE DEF A, B
<1> QED BY <1>1, <1>2

LEMMA TriedIsTruth == \A p, t, f, i, x : Tried(p, t, f, i, x) \in BOOLEAN
<1> TAKE p, t, f, i, x
<1> DEFINE A == x > Len(t)
           B == x <= Len(t) /\ f[<<i + 1, x + 1>>]
           rest == CHOOSE q \in Ends(p, i) : \A r \in Ends(p, i) : q <= r
           C == /\ x + Eaten(p, i, rest) <= Len(t) + 1
                /\ rest > Len(p) \/ \E u \in (x + Eaten(p, i, rest))..Len(t) : f[<<rest, u>>]
           D == /\ x <= Len(t) /\ t[x] = p[i]
                /\ f[<<IF p[i] = Escape THEN i + 2 ELSE i + 1, x + 1>>]
<1>1. A \in BOOLEAN /\ B \in BOOLEAN /\ C \in BOOLEAN /\ D \in BOOLEAN
  OBVIOUS
<1>2. Tried(p, t, f, i, x) = IF i > Len(p) THEN A ELSE IF p[i] = Question THEN B
                             ELSE IF p[i] = Star THEN C ELSE D
  BY DEF Tried
<1> HIDE DEF A, B, C, D
<1> QED BY <1>1, <1>2

\* f holds the results behind the character i of the pattern.
HoldsBehind(p, t, f, i) ==
  \A j \in 1..(Len(p) + 2) : \A y \in 1..(Len(t) + 1) :
    i < j => f[<<j, y>>] = From(p, t, j, y)

LEMMA FromSolves ==
  ASSUME NEW p \in CString, NEW t \in CString, NEW f,
         \A k \in 1..Len(p) : p[k] # Escape,
         NEW i \in 1..(Len(p) + 2), NEW x \in 1..(Len(t) + 1), HoldsBehind(p, t, f, i)
  PROVE  Tried(p, t, f, i, x) = From(p, t, i, x)
<1> DEFINE X == 1..(Len(t) + 1)
<1>1. Len(p) \in Nat /\ Len(t) \in Nat /\ i \in Nat /\ i >= 1 /\ x \in Nat /\ x >= 1 /\ x <= Len(t) + 1
  BY StringIs
<1>0. From(p, t, i, x) \in BOOLEAN /\ Tried(p, t, f, i, x) \in BOOLEAN
  BY FromIsTruth, TriedIsTruth
<1>b. \A j \in 1..(Len(p) + 2) : \A y \in X : i < j => f[<<j, y>>] = From(p, t, j, y)
  BY DEF HoldsBehind
<1>2. CASE i > Len(p)
  <2>1. i = Len(p) + 1 \/ i = Len(p) + 2
    BY <1>1, <1>2
  <2>2. From(p, t, i, x) <=> x > Len(t)
    BY <2>1, FromEnd
  <2>3. Tried(p, t, f, i, x) <=> x > Len(t)
    BY <1>2 DEF Tried
  <2> QED BY <1>0, <2>2, <2>3
<1>3. CASE i <= Len(p)
  <2>0. /\ i \in 1..Len(p) /\ ~(i > Len(p)) /\ i + 1 \in 1..(Len(p) + 2) /\ i < i + 1
        /\ x <= Len(t) => x + 1 \in X
    BY <1>1, <1>3
  <2>1. x <= Len(t) => f[<<i + 1, x + 1>>] = From(p, t, i + 1, x + 1)
    BY <1>b, <2>0
  <2>2. /\ p[i] = Star =>
             (From(p, t, i, x) <=> \E y \in X : x <= y /\ From(p, t, i + 1, y))
        /\ p[i] # Star =>
             (From(p, t, i, x) <=>
                x <= Len(t) /\ p[i] \in {Question, t[x]} /\ From(p, t, i + 1, x + 1))
    BY <2>0, FromCharacter
  <2>3. CASE p[i] = Question
    <3>1. p[i] # Star
      BY <2>3 DEF Question, Star
    <3>2. Tried(p, t, f, i, x) <=> x <= Len(t) /\ f[<<i + 1, x + 1>>]
      BY <2>0, <2>3 DEF Tried
    <3>3. From(p, t, i, x) <=> x <= Len(t) /\ From(p, t, i + 1, x + 1)
      BY <2>2, <2>3, <3>1
    <3> HIDE DEF X
    <3> QED BY <1>0, <2>1, <3>2, <3>3
  <2>4. CASE p[i] # Question /\ p[i] # Star
    <3>1. p[i] # Escape
      BY <2>0
    <3>2. Tried(p, t, f, i, x) <=> x <= Len(t) /\ t[x] = p[i] /\ f[<<i + 1, x + 1>>]
      BY <2>0, <2>4, <3>1 DEF Tried
    <3>3. From(p, t, i, x) <=> x <= Len(t) /\ t[x] = p[i] /\ From(p, t, i + 1, x + 1)
      BY <2>2, <2>4
    <3> HIDE DEF X
    <3> QED BY <1>0, <2>1, <3>2, <3>3
  <2>5. CASE p[i] = Star
    <3>1. p[i] # Question
      BY <2>5 DEF Question, Star
    <3>2. Ends(p, i) \subseteq Nat /\ Len(p) + 1 \in Ends(p, i)
      BY <1>1, <2>0 DEF Ends
    <3>3. PICK r \in Ends(p, i) : \A e \in Ends(p, i) : r <= e
      BY <3>2, Least
    <3>4. (CHOOSE q \in Ends(p, i) : \A e \in Ends(p, i) : q <= e) = r
      <4>1. \A q \in Ends(p, i) : (\A e \in Ends(p, i) : q <= e) => q = r
        BY <3>2, <3>3
      <4> QED BY <3>3, <4>1
    <3> DEFINE E == Eaten(p, i, r)
    <3>5. /\ E \in Nat
          /\ From(p, t, i, x) <=> \E y \in X : x + E <= y /\ From(p, t, r, y)
      BY <2>0, <2>5, <3>3, RunIs
    <3>6. Tried(p, t, f, i, x) <=>
            x + E <= Len(t) + 1 /\ (r > Len(p) \/ \E u \in (x + E)..Len(t) : f[<<r, u>>])
      BY <2>0, <2>5, <3>1, <3>4 DEF Tried
    <3>7. r \in Nat /\ i < r /\ r \in 1..(Len(p) + 1) /\ r \in 1..(Len(p) + 2)
          /\ (r > Len(p) \/ p[r] \notin {Star, Question})
      BY <1>1, <2>0, <3>3 DEF Ends
    <3> HIDE DEF E
    <3>8. CASE r > Len(p)
      <4>1. r = Len(p) + 1
        BY <1>1, <3>7, <3>8
      <4>2. \A y \in X : From(p, t, r, y) <=> y > Len(t)
        BY <4>1, FromEnd
      <4>3. From(p, t, i, x) <=> \E y \in X : x + E <= y /\ y > Len(t)
        BY <3>5, <4>2
      <4>4. (\E y \in X : x + E <= y /\ y > Len(t)) <=> x + E <= Len(t) + 1
        <5>1. Len(t) + 1 \in X /\ Len(t) + 1 > Len(t)
          BY <1>1
        <5>2. \A y \in X : x + E <= y /\ y > Len(t) => x + E <= Len(t) + 1
          BY <1>1, <3>5
        <5> HIDE DEF X
        <5> QED BY <5>1, <5>2
      <4> QED BY <1>0, <3>6, <3>8, <4>3, <4>4
    <3>9. CASE r <= Len(p)
      <4>1. r \in 1..Len(p) /\ ~(r > Len(p)) /\ p[r] # Star
        BY <1>1, <3>7, <3>9
      <4>2. \A y \in X : From(p, t, r, y) => y <= Len(t)
        BY <4>1, FromCharacter
      <4>3. \A y \in X : f[<<r, y>>] = From(p, t, r, y)
        BY <1>b, <3>7
      <4>4. \A u : u \in (x + E)..Len(t) <=> u \in X /\ x + E <= u /\ u <= Len(t)
        BY <1>1, <3>5
      <4>5. \A u \in (x + E)..Len(t) : x + E <= Len(t) + 1
        BY <1>1, <3>5
      <4>6. Tried(p, t, f, i, x) <=> \E u \in (x + E)..Len(t) : f[<<r, u>>]
        BY <3>6, <4>1, <4>5
      <4> HIDE DEF X
      <4>7. (\E u \in (x + E)..Len(t) : f[<<r, u>>]) <=> \E y \in X : x + E <= y /\ From(p, t, r, y)
        BY <4>2, <4>3, <4>4
      <4> QED BY <1>0, <3>5, <4>6, <4>7
    <3> QED BY <1>1, <3>7, <3>8, <3>9
  <2> QED BY <2>3, <2>4, <2>5
<1> QED BY <1>1, <1>2, <1>3

\* The equation of the recursion in Matches.
Solves(pat, text, casemap, f) ==
  f = [at \in (1..(Len(pat) + 2)) \X (1..(Len(text) + 1)) |->
         IF at[1] > Len(pat) THEN at[2] > Len(text)
         ELSE IF Fold(pat, casemap)[at[1]] = Question
              THEN at[2] <= Len(text) /\ f[<<at[1] + 1, at[2] + 1>>]
         ELSE IF Fold(pat, casemap)[at[1]] = Star THEN
           LET ends  == {q \in (at[1] + 1)..(Len(pat) + 1) :
                           q > Len(pat) \/ Fold(pat, casemap)[q] \notin {Star, Question}}
               rest  == CHOOSE q \in ends : \A r \in ends : q <= r
               eaten == Cardinality({q \in (at[1] + 1)..(rest - 1) : Fold(pat, casemap)[q] = Question})
           IN  /\ at[2] + eaten <= Len(text) + 1
               /\ rest > Len(pat) \/ \E u \in (at[2] + eaten)..Len(text) : f[<<rest, u>>]
         ELSE /\ at[2] <= Len(text) /\ Fold(text, casemap)[at[2]] = Fold(pat, casemap)[at[1]]
              /\ f[<<IF Fold(pat, casemap)[at[1]] = Escape THEN at[1] + 2 ELSE at[1] + 1, at[2] + 1>>]]

\* The same equation, for the folded strings.
Solution(p, t, f) ==
  f = [at \in (1..(Len(p) + 2)) \X (1..(Len(t) + 1)) |-> Tried(p, t, f, at[1], at[2])]

LEMMA SolvesIs ==
  ASSUME NEW pat \in CString, NEW text \in CString, NEW casemap \in BOOLEAN, NEW f
  PROVE  Solves(pat, text, casemap, f) <=>
           Solution(Fold(pat, casemap), Fold(text, casemap), f)
<1>1. Len(Fold(pat, casemap)) = Len(pat) /\ Len(Fold(text, casemap)) = Len(text)
  BY FoldIs
<1> DEFINE P == Fold(pat, casemap)
           T == Fold(text, casemap)
           Lp == Len(pat)
           Lt == Len(text)
           body(i, x) ==
             IF i > Lp THEN x > Lt
             ELSE IF P[i] = Question THEN x <= Lt /\ f[<<i + 1, x + 1>>]
             ELSE IF P[i] = Star THEN
               LET ends  == {q \in (i + 1)..(Lp + 1) : q > Lp \/ P[q] \notin {Star, Question}}
                   rest  == CHOOSE q \in ends : \A r \in ends : q <= r
                   eaten == Cardinality({q \in (i + 1)..(rest - 1) : P[q] = Question})
               IN  /\ x + eaten <= Lt + 1
                   /\ rest > Lp \/ \E u \in (x + eaten)..Lt : f[<<rest, u>>]
             ELSE /\ x <= Lt /\ T[x] = P[i]
                  /\ f[<<IF P[i] = Escape THEN i + 2 ELSE i + 1, x + 1>>]
           D == (1..(Lp + 2)) \X (1..(Lt + 1))
<1>2. Solves(pat, text, casemap, f) <=> f = [at \in D |-> body(at[1], at[2])]
  BY DEF Solves
<1>3. \A i, x : Tried(P, T, f, i, x) = body(i, x)
  <2>1. Len(P) = Lp /\ Len(T) = Lt
    BY <1>1
  <2> HIDE DEF P, T, Lp, Lt
  <2> QED BY <2>1 DEF Tried, Ends, Eaten
<1>4. Solution(P, T, f) <=> f = [at \in D |-> Tried(P, T, f, at[1], at[2])]
  <2>1. Len(P) = Lp /\ Len(T) = Lt
    BY <1>1
  <2> HIDE DEF P, T, Lp, Lt, body
  <2> QED BY <2>1 DEF Solution
<1> HIDE DEF body, D
<1>5. [at \in D |-> Tried(P, T, f, at[1], at[2])] = [at \in D |-> body(at[1], at[2])]
  BY <1>3
<1> QED BY <1>2, <1>4, <1>5

LEMMA SolutionExists ==
  ASSUME NEW pat \in CString, NEW text \in CString, NEW casemap \in BOOLEAN,
         \A k \in 1..Len(pat) : Fold(pat, casemap)[k] # Escape
  PROVE  \E f : Solves(pat, text, casemap, f)
<1> DEFINE P == Fold(pat, casemap)
           T == Fold(text, casemap)
           I == 1..(Len(pat) + 2)
           X == 1..(Len(text) + 1)
           f == [at \in I \X X |-> From(P, T, at[1], at[2])]
<1>1. /\ P \in CString /\ Len(P) = Len(pat) /\ T \in CString /\ Len(T) = Len(text)
      /\ \A k \in 1..Len(P) : P[k] # Escape
  BY FoldIs
<1>2. \A i \in I, x \in X : f[<<i, x>>] = From(P, T, i, x)
  <2> HIDE DEF I, X, P, T
  <2> QED OBVIOUS
<1>3. \A at \in I \X X : at[1] \in I /\ at[2] \in X
  <2> HIDE DEF I, X
  <2> QED OBVIOUS
<1>4. \A i \in I, x \in X : Tried(P, T, f, i, x) = From(P, T, i, x)
  <2>1. \A i : HoldsBehind(P, T, f, i)
    <3> HIDE DEF f, P, T
    <3> QED BY <1>1, <1>2 DEF HoldsBehind
  <2> HIDE DEF f, P, T
  <2> QED BY <1>1, <2>1, FromSolves
<1>5. f = [at \in I \X X |-> Tried(P, T, f, at[1], at[2])]
  <2> DEFINE Q(at) == Tried(P, T, f, at[1], at[2])
  <2>1. \A at \in I \X X : From(P, T, at[1], at[2]) = Q(at)
    <3> HIDE DEF f, I, X, P, T
    <3> QED BY <1>3, <1>4
  <2> HIDE DEF Q
  <2>2. f = [at \in I \X X |-> Q(at)]
    <3> HIDE DEF I, X, P, T
    <3> QED BY <2>1
  <2> QED BY <2>2 DEF Q
<1> HIDE DEF f
<1>6. Solves(pat, text, casemap, f)
  <2>1. Len(P) = Len(pat) /\ Len(T) = Len(text)
    BY <1>1
  <2>2. Solution(P, T, f)
    <3> HIDE DEF P, T
    <3> QED BY <1>5, <2>1 DEF Solution
  <2> QED BY <2>2, SolvesIs
<1> QED BY <1>6

\* octet_matches_, for patterns without a backslash.
LEMMA MatchesIs ==
  ASSUME NEW pat \in CString, NEW text \in CString, NEW casemap \in BOOLEAN,
         \A k \in 1..Len(pat) : pat[k] # Escape
  PROVE  Matches(pat, text, casemap) <=> Glob(Fold(pat, casemap), Fold(text, casemap))
<1> DEFINE P == Fold(pat, casemap)
           T == Fold(text, casemap)
           Lp == Len(pat)
           X == 1..(Len(text) + 1)
           f == CHOOSE g : Solves(pat, text, casemap, g)
           Fine(i) == \A x \in X : f[<<i, x>>] = From(P, T, i, x)
           N == Lp + 1
           S == {n \in 0..N : \A j \in 1..(Lp + 2) : (Lp + 2) - n <= j => Fine(j)}
<1>1. /\ P \in CString /\ Len(P) = Lp /\ T \in CString /\ Len(T) = Len(text)
      /\ Lp \in Nat /\ Len(text) \in Nat /\ N \in Nat
      /\ \A i \in 1..Lp : P[i] = IF casemap THEN Upper(pat[i]) ELSE pat[i]
      /\ \A i \in 1..Lp : pat[i] \in 1..255
  BY FoldIs, StringIs
<1>2. \A k \in 1..Lp : P[k] # Escape
  <2>1. \A c \in 1..255 : Upper(c) = Escape => c = Escape
    BY DEF Upper, Escape
  <2> HIDE DEF P
  <2> QED BY <1>1, <2>1
<1>3. Matches(pat, text, casemap) = f[<<1, 1>>]
  BY DEF Matches, Solves, Resume
<1>4. Solves(pat, text, casemap, f)
  BY <1>2, SolutionExists
<1> HIDE DEF f
<1>5. \A i \in 1..(Lp + 2), x \in X : f[<<i, x>>] = Tried(P, T, f, i, x)
  <2> DEFINE I == 1..(Lp + 2)
  <2>0. Solution(P, T, f)
    BY <1>4, SolvesIs
  <2>1. f = [at \in I \X X |-> Tried(P, T, f, at[1], at[2])]
    <3> HIDE DEF P, T, Lp
    <3> QED BY <1>1, <2>0 DEF Solution
  <2> HIDE DEF I, X, P, T
  <2>2. \A i \in I, x \in X : f[<<i, x>>] = Tried(P, T, f, i, x)
    BY <2>1
  <2> QED BY <2>2 DEF I
<1> HIDE DEF P, T, Lp
<1>6. ASSUME NEW i \in 1..(Lp + 2), \A j \in 1..(Lp + 2) : i < j => Fine(j) PROVE Fine(i)
  <2>1. HoldsBehind(P, T, f, i)
    BY <1>1, <1>6 DEF HoldsBehind
  <2>2. \A x \in X : Tried(P, T, f, i, x) = From(P, T, i, x)
    BY <1>1, <1>2, <2>1, FromSolves
  <2> QED BY <1>5, <2>2
<1>7. 0 \in S
  <2>1. \A j \in 1..(Lp + 2) : (Lp + 2) - 0 <= j => /\ j = Lp + 2
                                                   /\ ~\E k \in 1..(Lp + 2) : j < k
    BY <1>1
  <2>2. 0 \in 0..N
    BY <1>1
  <2> HIDE DEF Fine
  <2> QED BY <1>6, <2>1, <2>2
<1>8. ASSUME NEW n \in 0..(N - 1), n \in S PROVE n + 1 \in S
  <2>1. n + 1 \in 0..N
    BY <1>1
  <2>2. \A j \in 1..(Lp + 2) : (Lp + 2) - (n + 1) <= j =>
          \A k \in 1..(Lp + 2) : j < k => (Lp + 2) - n <= k
    BY <1>1
  <2> HIDE DEF Fine, N
  <2> QED BY <1>6, <1>8, <2>1, <2>2
<1>9. Fine(1)
  <2>1. \A n \in 0..N : n \in S
    <3> HIDE DEF S, N
    <3> QED BY <1>1, <1>7, <1>8, Induction
  <2>2. N \in 0..N /\ 1 \in 1..(Lp + 2) /\ (Lp + 2) - N <= 1
    BY <1>1
  <2> HIDE DEF Fine, N
  <2> QED BY <2>1, <2>2
<1>10. 1 \in X
  BY <1>1
<1>11. From(P, T, 1, 1) <=> Glob(P, T)
  BY <1>1, FromStart
<1> QED BY <1>3, <1>9, <1>10, <1>11 DEF P, T

-----------------------------------------------------------------------------
(* The comparators. *)

\* Every function that libsieve_comparator_lookup returns decides what its
\* comparator and match type stand for (comparator.c).
LEMMA CompareDecides ==
  ASSUME NEW comparator \in {"octet", "casemap", "numeric"},
         NEW match \in {"is", "contains", "matches", "value", "count"}, NEW rel,
         NEW pat \in CString, NEW text \in CString, Lookup(comparator, match),
         \A k \in 1..Len(pat) : pat[k] # Escape,
         comparator = "numeric" => Numeric(pat) /\ Numeric(text)
  PROVE  Compare(comparator, match, rel, pat, text) <=> Meant(comparator, match, rel, pat, text)
<1> DEFINE p == Fold(pat, comparator = "casemap")
           t == Fold(text, comparator = "casemap")
           r == IF match = "is" THEN "eq" ELSE rel
           before == Before(Collated(t), Collated(p))
           same == t = p
           C == Compare(comparator, match, rel, pat, text)
           M == Meant(comparator, match, rel, pat, text)
<1> SUFFICES C <=> M
  OBVIOUS
<1>1. before \in BOOLEAN /\ same \in BOOLEAN
  BY DEF Before
<1>2. CASE comparator = "numeric"
  <2>1. p = pat /\ t = text
    BY <1>2, FoldIs
  <2>2. M <=> match \in {"is", "value", "count"} /\ Related(r, Atoi(text) < Atoi(pat), Atoi(text) = Atoi(pat))
    <3>1. M <=> match \in {"is", "value", "count"} /\ Related(r, Atoi(t) < Atoi(p), Atoi(t) = Atoi(p))
      BY <1>2 DEF Meant
    <3> HIDE DEF p, t, r, M
    <3> QED BY <2>1, <3>1
  <2>3. CASE match \in {"contains", "matches"}
    <3>1. ~C
      BY <1>2, <2>3 DEF Compare
    <3>2. ~M
      BY <2>2, <2>3
    <3> QED BY <3>1, <3>2
  <2>4. CASE match = "is"
    <3>1. C <=> AsciiNumeric("eq", pat, text)
      BY <1>2, <2>4 DEF Compare
    <3>2. "eq" \in Relation
      BY DEF Relation
    <3>3. C <=> Related("eq", Atoi(text) < Atoi(pat), Atoi(text) = Atoi(pat))
      <4> HIDE DEF C
      <4> QED BY <1>2, <3>1, <3>2, NumericDecides
    <3> HIDE DEF C, M
    <3> QED BY <2>2, <2>4, <3>3
  <2>5. CASE match \in {"value", "count"}
    <3>1. C <=> rel \in Relation /\ AsciiNumeric(rel, pat, text)
      BY <1>2, <2>5 DEF Compare
    <3>2. r = rel
      BY <2>5
    <3> DEFINE b == Atoi(text) < Atoi(pat)
               s == Atoi(text) = Atoi(pat)
    <3>3. b \in BOOLEAN /\ s \in BOOLEAN
      BY AtoiIsNatural
    <3>4. rel \in Relation => (C <=> Related(rel, b, s))
      <4> HIDE DEF C
      <4> QED BY <1>2, <3>1, NumericDecides
    <3>5. M <=> Related(rel, b, s)
      <4> HIDE DEF M
      <4> QED BY <2>2, <2>5, <3>2
    <3>6. rel \notin Relation => ~Related(rel, b, s)
      <4> HIDE DEF b, s
      <4> QED BY <3>3, RelatedIs
    <3> HIDE DEF C, M, b, s
    <3> QED BY <3>1, <3>4, <3>5, <3>6
  <2> QED BY <2>3, <2>4, <2>5
<1>3. CASE comparator = "octet"
  <2>1. p = pat /\ t = text
    BY <1>3, FoldIs
  <2>2. CASE match = "is"
    <3>1. C <=> pat = text
      BY <1>3, <2>2 DEF Compare
    <3>2. M <=> Related("eq", before, same)
      BY <1>3, <2>2 DEF Meant
    <3>3. Related("eq", before, same) <=> same
      <4> HIDE DEF before, same
      <4> QED BY <1>1, RelatedIs
    <3>4. same <=> pat = text
      <4> HIDE DEF p, t
      <4> QED BY <2>1
    <3> HIDE DEF C, M, same, before
    <3> QED BY <3>1, <3>2, <3>3, <3>4
  <2>3. CASE match = "contains"
    <3>1. C <=> OctetContains(pat, text)
      BY <1>3, <2>3 DEF Compare
    <3>2. M <=> Within(p, t)
      BY <1>3, <2>3 DEF Meant
    <3> HIDE DEF C, M, p, t
    <3> QED BY <2>1, <3>1, <3>2, OctetContainsIs
  <2>4. CASE match = "matches"
    <3>1. C <=> Matches(pat, text, FALSE)
      BY <1>3, <2>4 DEF Compare
    <3>2. M <=> Glob(p, t)
      BY <1>3, <2>4 DEF Meant
    <3>3. Matches(pat, text, FALSE) <=> Glob(Fold(pat, FALSE), Fold(text, FALSE))
      BY MatchesIs
    <3>4. p = Fold(pat, FALSE) /\ t = Fold(text, FALSE)
      BY <1>3
    <3> HIDE DEF C, M, p, t
    <3> QED BY <3>1, <3>2, <3>3, <3>4
  <2>5. match \in {"is", "contains", "matches"}
    BY <1>3 DEF Lookup
  <2> QED BY <2>2, <2>3, <2>4, <2>5
<1>4. CASE comparator = "casemap"
  <2>1. p = Fold(pat, TRUE) /\ t = Fold(text, TRUE)
    BY <1>4
  <2>2. before = Before(Order(text), Order(pat)) /\ same = (Fold(text, TRUE) = Fold(pat, TRUE))
    <3> HIDE DEF p, t
    <3> QED BY <2>1 DEF Order
  <2>3. \A x \in Relation : AsciiCasemap(x, pat, text) <=> Related(x, before, same)
    <3>1. \A x \in Relation : AsciiCasemap(x, pat, text) <=>
             Related(x, Before(Order(text), Order(pat)), Fold(text, TRUE) = Fold(pat, TRUE))
      BY CasemapDecides
    <3> HIDE DEF before, same
    <3> QED BY <2>2, <3>1
  <2>4. CASE match = "is"
    <3>1. C <=> AsciiCasemap("eq", pat, text)
      BY <1>4, <2>4 DEF Compare
    <3>2. M <=> Related("eq", before, same)
      BY <1>4, <2>4 DEF Meant
    <3>3. "eq" \in Relation
      BY DEF Relation
    <3> HIDE DEF C, M, before, same
    <3> QED BY <2>3, <3>1, <3>2, <3>3
  <2>5. CASE match = "contains"
    <3>1. C <=> CasemapContains(pat, text)
      BY <1>4, <2>5 DEF Compare
    <3>2. M <=> Within(p, t)
      BY <1>4, <2>5 DEF Meant
    <3> HIDE DEF C, M, p, t
    <3> QED BY <2>1, <3>1, <3>2, CasemapContainsIs
  <2>6. CASE match = "matches"
    <3>1. C <=> Matches(pat, text, TRUE)
      BY <1>4, <2>6 DEF Compare
    <3>2. M <=> Glob(p, t)
      BY <1>4, <2>6 DEF Meant
    <3>3. Matches(pat, text, TRUE) <=> Glob(Fold(pat, TRUE), Fold(text, TRUE))
      BY MatchesIs
    <3> HIDE DEF C, M, p, t
    <3> QED BY <2>1, <3>1, <3>2, <3>3
  <2>7. CASE match \in {"value", "count"}
    <3>1. C <=> rel \in Relation /\ AsciiCasemap(rel, pat, text)
      BY <1>4, <2>7 DEF Compare
    <3>2. M <=> Related(rel, before, same)
      BY <1>4, <2>7 DEF Meant
    <3>3. rel \notin Relation => ~Related(rel, before, same)
      <4> HIDE DEF before, same
      <4> QED BY <1>1, RelatedIs
    <3> HIDE DEF C, M, before, same
    <3> QED BY <2>3, <3>1, <3>2, <3>3
  <2> QED BY <2>4, <2>5, <2>6, <2>7
<1> QED BY <1>2, <1>3, <1>4

-----------------------------------------------------------------------------
(* Counts in decimal. *)

Numeral == {s \in CString : Numeric(s)}

LEMMA DigitIsNumeral == ASSUME NEW c \in 48..57 PROVE <<c>> \in Numeral
<1> DEFINE C == 1..255
<1>1. c \in C
  OBVIOUS
<1> HIDE DEF C
<1>2. <<c>> \in Seq(C) /\ Len(<<c>>) = 1 /\ <<c>>[1] = c
  BY <1>1
<1>3. Numeric(<<c>>)
  <2>1. Len(<<>>) = 0
    BY EmptySeq
  <2>2. <<c>> # <<>>
    BY <1>2, <2>1
  <2> QED BY <1>2, <2>2 DEF Numeric, Digit
<1> QED BY <1>2, <1>3 DEF Numeral, CString, C

LEMMA LongerNumeral ==
  ASSUME NEW s \in Numeral, NEW c \in 48..57
  PROVE  s \o <<c>> \in Numeral
<1> DEFINE C == 1..255
           t == <<c>>
           u == s \o t
<1>1. s \in Seq(C) /\ t \in Seq(C) /\ Len(t) = 1 /\ s # <<>> /\ s[1] \in 48..57
  BY DigitIsNumeral DEF Numeral, CString, Numeric, Digit
<1> HIDE DEF C, t
<1>2. /\ u \in Seq(C) /\ Len(u) = Len(s) + Len(t)
      /\ \A i \in 1..(Len(s) + Len(t)) : u[i] = IF i <= Len(s) THEN s[i] ELSE t[i - Len(s)]
  BY <1>1, ConcatProperties
<1>3. Len(s) \in Nat /\ Len(s) # 0
  BY <1>1, LenProperties, EmptySeq
<1> HIDE DEF u
<1>4. u[1] = s[1]
  <2>1. 1 \in 1..(Len(s) + Len(t)) /\ 1 <= Len(s)
    BY <1>1, <1>3
  <2> QED BY <1>2, <2>1
<1>5. u # <<>>
  <2>1. Len(u) # 0
    BY <1>1, <1>2, <1>3
  <2> QED BY <2>1, EmptySeq
<1>6. u \in Numeral
  BY <1>1, <1>2, <1>4, <1>5 DEF Numeral, CString, C, Numeric, Digit
<1> QED BY <1>6 DEF u, t

\* The equation of the recursion in Decimal.
Writes(n, f) ==
  f = [k \in 0..n |-> IF k < 10 THEN <<48 + k>> ELSE f[k \div 10] \o <<48 + (k % 10)>>]
Written(k, f) == IF k < 10 THEN <<48 + k>> ELSE f[k \div 10] \o <<48 + (k % 10)>>

LEMMA TenthIs ==
  ASSUME NEW k \in Nat, ~(k < 10)
  PROVE  k \div 10 \in 0..(k - 1) /\ 48 + (k % 10) \in 48..57
OBVIOUS

LEMMA WritesExist == ASSUME NEW n \in Nat PROVE \E f : Writes(n, f)
<1> DEFINE Is(f, d) == f \in [0..d -> Numeral] /\ \A k \in 0..d : f[k] = Written(k, f)
           S == {d \in 0..n : \E f : Is(f, d)}
<1>1. 0 \in S
  <2> DEFINE f == [k \in 0..0 |-> <<48>>]
  <2>1. <<48>> \in Numeral
    <3>1. 48 \in 48..57
      OBVIOUS
    <3> QED BY <3>1, DigitIsNumeral
  <2>2. f \in [0..0 -> Numeral]
    BY <2>1
  <2>3. \A k \in 0..0 : f[k] = Written(k, f)
    <3>1. Written(0, f) = <<48>>
      <4>1. 0 < 10 /\ 48 + 0 = 48
        OBVIOUS
      <4> QED BY <4>1 DEF Written
    <3>2. \A k \in 0..0 : k = 0 /\ f[k] = <<48>>
      OBVIOUS
    <3> HIDE DEF f
    <3> QED BY <3>1, <3>2
  <2> QED BY <2>2, <2>3
<1>2. ASSUME NEW d \in 0..(n - 1), d \in S PROVE d + 1 \in S
  <2>1. PICK f : Is(f, d)
    BY <1>2
  <2> DEFINE g == [k \in 0..(d + 1) |-> IF k <= d THEN f[k] ELSE Written(d + 1, f)]
  <2>2. d \in Nat /\ d + 1 \in 0..n /\ d + 1 \in Nat /\ d + 1 \in 0..(d + 1)
        /\ (\A k \in 0..(d + 1) : k \in Nat /\ (k \in 0..d \/ k = d + 1))
        /\ \A k \in 0..d : k <= d /\ k \in 0..(d + 1)
    OBVIOUS
  <2>3. (\A k \in 0..d : g[k] = f[k]) /\ g[d + 1] = Written(d + 1, f)
    <3>1. ~(d + 1 <= d)
      BY <2>2
    <3> QED BY <2>2, <3>1
  <2>4. \A k \in 0..(d + 1) : Written(k, g) = Written(k, f)
    <3>1. \A k \in 0..(d + 1) : ~(k < 10) => k \div 10 \in 0..d
      <4>1. \A k \in 0..(d + 1) : ~(k < 10) => k \div 10 \in 0..(k - 1)
        BY <2>2, TenthIs
      <4>2. \A k \in 0..(d + 1) : \A j \in 0..(k - 1) : j \in 0..d
        BY <2>2
      <4> QED BY <4>1, <4>2
    <3> HIDE DEF g
    <3> QED BY <2>3, <3>1 DEF Written
  <2>5. \A k \in 0..(d + 1) : g[k] = Written(k, g)
    <3> HIDE DEF g
    <3> QED BY <2>1, <2>2, <2>3, <2>4
  <2>6. Written(d + 1, f) \in Numeral
    <3>1. CASE d + 1 < 10
      <4>1. 48 + (d + 1) \in 48..57
        BY <2>2, <3>1
      <4> QED BY <3>1, <4>1, DigitIsNumeral DEF Written
    <3>2. CASE ~(d + 1 < 10)
      <4>1. (d + 1) \div 10 \in 0..((d + 1) - 1) /\ 48 + ((d + 1) % 10) \in 48..57
        BY <2>2, <3>2, TenthIs
      <4>2. (d + 1) - 1 = d
        BY <2>2
      <4>3. f[(d + 1) \div 10] \in Numeral
        BY <2>1, <4>1, <4>2
      <4> QED BY <3>2, <4>1, <4>3, LongerNumeral DEF Written
    <3> QED BY <3>1, <3>2
  <2>7. g \in [0..(d + 1) -> Numeral]
    <3>1. \A k \in 0..(d + 1) : (IF k <= d THEN f[k] ELSE Written(d + 1, f)) \in Numeral
      BY <2>1, <2>2, <2>6
    <3> QED BY <3>1
  <2>8. Is(g, d + 1)
    <3> HIDE DEF g
    <3> QED BY <2>5, <2>7
  <2> HIDE DEF g, Is
  <2> QED BY <2>2, <2>8
<1>3. n \in S
  <2>1. \A d \in 0..n : d \in S
    <3> HIDE DEF S
    <3> QED BY <1>1, <1>2, Induction
  <2> HIDE DEF S
  <2> QED BY <2>1
<1>4. PICK f : Is(f, n)
  BY <1>3
<1>5. f = [k \in 0..n |-> Written(k, f)]
  BY <1>4
<1> QED BY <1>5 DEF Writes, Written

LEMMA DecimalIsNumeral == ASSUME NEW n \in Nat PROVE Decimal(n) \in Numeral
<1> DEFINE f == CHOOSE g : Writes(n, g)
           S == {d \in 0..n : \A k \in 0..d : f[k] \in Numeral}
<1>1. Decimal(n) = f[n]
  BY DEF Decimal, Writes
<1>2. Writes(n, f)
  BY WritesExist
<1> HIDE DEF f
<1>3. \A k \in 0..n : f[k] = Written(k, f)
  <2>1. f = [k \in 0..n |-> Written(k, f)]
    BY <1>2 DEF Writes, Written
  <2> QED BY <2>1
<1>4. ASSUME NEW k \in 0..n, \A j \in 0..(k - 1) : f[j] \in Numeral PROVE f[k] \in Numeral
  <2>1. CASE k < 10
    <3>1. 48 + k \in 48..57
      BY <2>1
    <3> QED BY <1>3, <2>1, <3>1, DigitIsNumeral DEF Written
  <2>2. CASE ~(k < 10)
    <3>1. k \div 10 \in 0..(k - 1) /\ 48 + (k % 10) \in 48..57
      BY <2>2, TenthIs
    <3> QED BY <1>3, <1>4, <2>2, <3>1, LongerNumeral DEF Written
  <2> QED BY <2>1, <2>2
<1>5. 0 \in S
  <2>1. 0 \in 0..n /\ ~\E j : j \in 0..(0 - 1)
    OBVIOUS
  <2>2. f[0] \in Numeral
    BY <1>4, <2>1
  <2>3. \A k \in 0..0 : k = 0
    OBVIOUS
  <2> QED BY <2>1, <2>2, <2>3
<1>6. ASSUME NEW d \in 0..(n - 1), d \in S PROVE d + 1 \in S
  <2>1. d + 1 \in 0..n /\ (d + 1) - 1 = d /\ \A k \in 0..(d + 1) : k \in 0..d \/ k = d + 1
    OBVIOUS
  <2>2. f[d + 1] \in Numeral
    BY <1>4, <1>6, <2>1
  <2> QED BY <1>6, <2>1, <2>2
<1>7. \A d \in 0..n : d \in S
  <2> HIDE DEF S
  <2> QED BY <1>5, <1>6, Induction
<1>8. n \in 0..n
  OBVIOUS
<1> QED BY <1>1, <1>7, <1>8

-----------------------------------------------------------------------------
(* The texts of all the headers of a name. *)

\* The equations of the recursions in FlattenSeq and Address.
Flattens(b, f) == f = [i \in 1..Len(b) |-> IF i = 1 THEN b[i] ELSE f[i - 1] \o b[i]]
Counts(b, f)   == f = [i \in 0..Len(b) |-> IF i = 0 THEN 0 ELSE f[i - 1] + Len(Parts(b[i]))]

\* The length and the elements of the first i sequences, one behind the other.
Joined(b, i, s, n) ==
  /\ Len(s) = n
  /\ \A a : (\E k \in 1..Len(s) : s[k] = a) <=> \E j \in 1..i : \E k \in 1..Len(b[j]) : b[j][k] = a

LEMMA JoinedStep ==
  ASSUME NEW A, NEW b, NEW i \in Nat, NEW s \in Seq(A), NEW n, Joined(b, i, s, n),
         b[i + 1] \in Seq(A)
  PROVE  Joined(b, i + 1, s \o b[i + 1], n + Len(b[i + 1]))
<1> DEFINE t == b[i + 1]
           u == s \o t
<1>1. /\ Len(s) \in Nat /\ Len(t) \in Nat
      /\ Len(u) = Len(s) + Len(t)
      /\ \A k \in 1..(Len(s) + Len(t)) : u[k] = IF k <= Len(s) THEN s[k] ELSE t[k - Len(s)]
  BY ConcatProperties, LenProperties
<1>2. \A j : j \in 1..(i + 1) <=> j \in 1..i \/ j = i + 1
  OBVIOUS
<1> HIDE DEF t, u
<1>3. ASSUME NEW a
      PROVE  (\E k \in 1..Len(u) : u[k] = a) <=>
               (\E k \in 1..Len(s) : s[k] = a) \/ \E k \in 1..Len(t) : t[k] = a
  <2>1. ASSUME NEW k \in 1..Len(u), u[k] = a
        PROVE  (\E l \in 1..Len(s) : s[l] = a) \/ \E l \in 1..Len(t) : t[l] = a
    <3>1. CASE k <= Len(s)
      <4>1. k \in 1..Len(s) /\ s[k] = a
        BY <1>1, <2>1, <3>1
      <4> QED BY <4>1
    <3>2. CASE ~(k <= Len(s))
      <4>1. k - Len(s) \in 1..Len(t) /\ t[k - Len(s)] = a
        BY <1>1, <2>1, <3>2
      <4> QED BY <4>1
    <3> QED BY <3>1, <3>2
  <2>2. ASSUME NEW k \in 1..Len(s), s[k] = a PROVE \E l \in 1..Len(u) : u[l] = a
    <3>1. k \in 1..Len(u) /\ u[k] = a
      BY <1>1, <2>2
    <3> QED BY <3>1
  <2>3. ASSUME NEW k \in 1..Len(t), t[k] = a PROVE \E l \in 1..Len(u) : u[l] = a
    <3>1. k + Len(s) \in 1..Len(u) /\ ~(k + Len(s) <= Len(s)) /\ (k + Len(s)) - Len(s) = k
      BY <1>1
    <3>2. u[k + Len(s)] = a
      BY <1>1, <2>3, <3>1
    <3> QED BY <3>1, <3>2
  <2> QED BY <2>1, <2>2, <2>3
<1>4. \A a : (\E j \in 1..(i + 1) : \E k \in 1..Len(b[j]) : b[j][k] = a) <=>
             (\E j \in 1..i : \E k \in 1..Len(b[j]) : b[j][k] = a) \/ \E k \in 1..Len(t) : t[k] = a
  BY <1>2 DEF t
<1>5. Len(u) = n + Len(t)
  BY <1>1 DEF Joined
<1>6. Joined(b, i + 1, u, n + Len(t))
  BY <1>3, <1>4, <1>5 DEF Joined
<1> QED BY <1>6 DEF t, u

LEMMA FlattensExist ==
  ASSUME NEW A, NEW b \in Seq(Seq(A)) PROVE \E f : Flattens(b, f)
<1> DEFINE N == Len(b)
           B == Seq(A)
           step == [p \in (1..N) \X B |-> p[2] \o b[p[1]]]
<1>1. N \in Nat /\ \A i \in 1..N : b[i] \in B
  <2>1. b \in Seq(B)
    OBVIOUS
  <2> HIDE DEF B
  <2> QED BY <2>1, LenProperties, ElementOfSeq
<1>2. <<>> \in B
  BY EmptySeq
<1>3. \A s \in B : \A i \in 1..N : s \o b[i] \in B
  BY <1>1, ConcatProperties
<1>4. \A s \in B : <<>> \o s = s
  BY ConcatEmptySeq
<1> HIDE DEF B, N
<1>5. step \in Moves(N, B)
  <2>1. \A p \in (1..N) \X B : p[2] \o b[p[1]] \in B
    BY <1>3
  <2> QED BY <2>1 DEF Moves
<1>6. \A i \in 1..N, s \in B : step[<<i, s>>] = s \o b[i]
  OBVIOUS
<1> HIDE DEF step
<1>7. PICK g : Goes(g, N, B, <<>>, step)
  BY <1>1, <1>2, <1>5, Recursion
<1>8. g \in [0..N -> B] /\ g[0] = <<>> /\ \A i \in 1..N : g[i] = g[i - 1] \o b[i]
  <2>1. g \in [0..N -> B] /\ g[0] = <<>> /\ \A i \in 1..N : g[i] = step[<<i, g[i - 1]>>]
    BY <1>7 DEF Goes
  <2>2. \A i \in 1..N : i - 1 \in 0..N
    BY <1>1
  <2> QED BY <1>6, <2>1, <2>2
<1> DEFINE f == [i \in 1..N |-> g[i]]
<1>9. \A i \in 1..N : g[i] = IF i = 1 THEN b[i] ELSE f[i - 1] \o b[i]
  <2>1. \A i \in 1..N : i # 1 => i - 1 \in 1..N
    BY <1>1
  <2>2. \A i \in 1..N : i # 1 => f[i - 1] = g[i - 1]
    BY <2>1
  <2>3. 1 \in 1..N => g[1] = b[1]
    <3>1. 1 - 1 = 0
      OBVIOUS
    <3> QED BY <1>1, <1>4, <1>8, <3>1
  <2> HIDE DEF f
  <2> QED BY <1>8, <2>2, <2>3
<1>10. Flattens(b, f)
  <2> DEFINE e(i) == IF i = 1 THEN b[i] ELSE f[i - 1] \o b[i]
  <2>1. f = [i \in 1..N |-> e(i)]
    <3>1. \A i \in 1..N : g[i] = e(i)
      BY <1>9
    <3> HIDE DEF e
    <3> QED BY <3>1
  <2> QED BY <2>1 DEF Flattens, N
<1> QED BY <1>10

\* FlattenSeq keeps all elements, and adds none.
LEMMA FlattenIs ==
  ASSUME NEW A, NEW b \in Seq(Seq(A)), NEW c \in [0..Len(b) -> Nat],
         c[0] = 0, \A i \in 1..Len(b) : c[i] = c[i - 1] + Len(b[i])
  PROVE  FlattenSeq(b) \in Seq(A) /\ Joined(b, Len(b), FlattenSeq(b), c[Len(b)])
<1> DEFINE N == Len(b)
           B == Seq(A)
           f == CHOOSE g : Flattens(b, g)
<1>1. N \in Nat /\ \A i \in 1..N : b[i] \in B
  <2>1. b \in Seq(B)
    OBVIOUS
  <2> HIDE DEF B
  <2> QED BY <2>1, LenProperties, ElementOfSeq
<1>2. CASE N = 0
  <2>1. FlattenSeq(b) = b
    BY <1>2 DEF FlattenSeq
  <2>2. b = <<>>
    BY <1>2, EmptySeq
  <2>3. Joined(b, N, <<>>, c[N])
    <3>1. Len(<<>>) = 0 /\ c[N] = 0
      BY <1>2, EmptySeq
    <3>2. \A k : k \notin 1..0
      OBVIOUS
    <3> QED BY <1>2, <3>1, <3>2 DEF Joined
  <2> QED BY <2>1, <2>2, <2>3, EmptySeq
<1>3. CASE N # 0
  <2>1. FlattenSeq(b) = f[N]
    BY <1>3 DEF FlattenSeq, Flattens
  <2>2. Flattens(b, f)
    BY FlattensExist
  <2> HIDE DEF f
  <2>3. \A i \in 1..N : f[i] = IF i = 1 THEN b[i] ELSE f[i - 1] \o b[i]
    <3> DEFINE e(i) == IF i = 1 THEN b[i] ELSE f[i - 1] \o b[i]
    <3>1. f = [i \in 1..N |-> e(i)]
      BY <2>2 DEF Flattens
    <3> HIDE DEF e
    <3>2. \A i \in 1..N : f[i] = e(i)
      BY <3>1
    <3> QED BY <3>2 DEF e
  <2> DEFINE S == {d \in 0..(N - 1) : f[d + 1] \in B /\ Joined(b, d + 1, f[d + 1], c[d + 1])}
  <2>4. 0 \in S
    <3>1. 0 \in 0..(N - 1) /\ 0 + 1 = 1 /\ 1 \in 1..N /\ 1 - 1 = 0
      BY <1>1, <1>3
    <3>2. f[1] = b[1] /\ b[1] \in B
      BY <1>1, <2>3, <3>1
    <3>3. Len(b[1]) \in Nat
      BY <3>2, LenProperties
    <3>4. c[1] = Len(b[1])
      BY <3>1, <3>3
    <3>5. Joined(b, 1, b[1], Len(b[1]))
      <4>1. \A j : j \in 1..1 <=> j = 1
        OBVIOUS
      <4> QED BY <4>1 DEF Joined
    <3> HIDE DEF B, N
    <3> QED BY <3>1, <3>2, <3>4, <3>5
  <2>5. ASSUME NEW d \in 0..((N - 1) - 1), d \in S PROVE d + 1 \in S
    <3>1. /\ d + 1 \in 0..(N - 1) /\ (d + 1) + 1 \in 1..N /\ ((d + 1) + 1) - 1 = d + 1
          /\ (d + 1) + 1 # 1 /\ d + 1 \in Nat
      BY <1>1
    <3> DEFINE i == d + 1
    <3>2. f[i + 1] = f[i] \o b[i + 1] /\ c[i + 1] = c[i] + Len(b[i + 1])
      BY <2>3, <3>1
    <3>3. f[i] \in B /\ Joined(b, i, f[i], c[i]) /\ b[i + 1] \in B
      BY <1>1, <2>5, <3>1
    <3>4. i \in Nat
      BY <3>1
    <3> HIDE DEF i
    <3>5. f[i + 1] \in B /\ Joined(b, i + 1, f[i + 1], c[i + 1])
      BY <3>2, <3>3, <3>4, JoinedStep, ConcatProperties
    <3> QED BY <3>1, <3>5 DEF i
  <2>6. N - 1 \in S
    <3>1. N - 1 \in Nat /\ N - 1 \in 0..(N - 1)
      BY <1>1, <1>3
    <3>2. \A d \in 0..(N - 1) : d \in S
      <4> HIDE DEF S, N
      <4> QED BY <2>4, <2>5, <3>1, Induction
    <3> QED BY <3>1, <3>2
  <2>7. (N - 1) + 1 = N
    BY <1>1
  <2> HIDE DEF N, B
  <2>8. f[N] \in B /\ Joined(b, N, f[N], c[N])
    BY <2>6, <2>7
  <2> QED BY <2>1, <2>8 DEF N, B
<1> QED BY <1>2, <1>3

LEMMA LengthsExist ==
  ASSUME NEW A, NEW b \in Seq(Seq(A))
  PROVE  \E c \in [0..Len(b) -> Nat] :
           c[0] = 0 /\ \A i \in 1..Len(b) : c[i] = c[i - 1] + Len(b[i])
<1> DEFINE N == Len(b)
           B == Seq(A)
           step == [p \in (1..N) \X Nat |-> p[2] + Len(b[p[1]])]
<1>1. N \in Nat /\ \A i \in 1..N : b[i] \in B
  <2>1. b \in Seq(B)
    OBVIOUS
  <2> HIDE DEF B
  <2> QED BY <2>1, LenProperties, ElementOfSeq
<1>2. \A i \in 1..N : Len(b[i]) \in Nat
  BY <1>1, LenProperties
<1> HIDE DEF B, N
<1>3. step \in Moves(N, Nat)
  <2>1. \A p \in (1..N) \X Nat : p[2] + Len(b[p[1]]) \in Nat
    BY <1>2
  <2> QED BY <2>1 DEF Moves
<1>4. \A i \in 1..N, s \in Nat : step[<<i, s>>] = s + Len(b[i])
  OBVIOUS
<1> HIDE DEF step
<1>5. PICK c : Goes(c, N, Nat, 0, step)
  BY <1>1, <1>3, Recursion
<1>6. c \in [0..N -> Nat] /\ c[0] = 0 /\ \A i \in 1..N : c[i] = c[i - 1] + Len(b[i])
  <2>1. c \in [0..N -> Nat] /\ c[0] = 0 /\ \A i \in 1..N : c[i] = step[<<i, c[i - 1]>>]
    BY <1>5 DEF Goes
  <2>2. \A i \in 1..N : i - 1 \in 0..N
    BY <1>1
  <2> QED BY <1>4, <2>1, <2>2
<1> QED BY <1>6 DEF N

\* The count that case ADDRESS makes of bodies in which nothing lacks.
LEMMA CountIs ==
  ASSUME NEW A, NEW b \in Seq(Seq(A)), \A i \in 1..Len(b) : Parts(b[i]) = b[i],
         NEW f, f = CHOOSE g : Counts(b, g)
  PROVE  f[Len(b)] = Len(FlattenSeq(b))
<1> DEFINE N == Len(b)
<1>1. N \in Nat
  BY LenProperties
<1>2. PICK c \in [0..N -> Nat] : c[0] = 0 /\ \A i \in 1..N : c[i] = c[i - 1] + Len(b[i])
  BY LengthsExist
<1>3. Counts(b, c)
  <2>1. \A i \in 0..N : c[i] = IF i = 0 THEN 0 ELSE c[i - 1] + Len(Parts(b[i]))
    <3>1. \A i \in 0..N : i = 0 \/ i \in 1..N
      BY <1>1
    <3>2. \A i \in 1..N : i # 0 /\ c[i] = c[i - 1] + Len(Parts(b[i]))
      BY <1>2
    <3> HIDE DEF N
    <3> QED BY <1>2, <3>1, <3>2
  <2>2. c = [i \in 0..N |-> c[i]]
    BY <1>2
  <2> QED BY <2>1, <2>2 DEF Counts
<1>4. Counts(b, f)
  BY <1>3
<1>5. f[0] = 0 /\ \A i \in 1..N : f[i] = f[i - 1] + Len(b[i])
  <2> DEFINE e(i) == IF i = 0 THEN 0 ELSE f[i - 1] + Len(Parts(b[i]))
  <2>1. f = [i \in 0..N |-> e(i)]
    BY <1>4 DEF Counts
  <2>2. 0 \in 0..N /\ \A i \in 1..N : i \in 0..N /\ i # 0
    BY <1>1
  <2>3. \A i \in 0..N : f[i] = e(i)
    <3> HIDE DEF e, N
    <3> QED BY <2>1
  <2> HIDE DEF N
  <2> QED BY <2>2, <2>3 DEF N
<1> DEFINE S == {d \in 0..N : f[d] = c[d]}
<1>6. 0 \in S
  BY <1>1, <1>2, <1>5
<1>7. ASSUME NEW d \in 0..(N - 1), d \in S PROVE d + 1 \in S
  <2>1. d + 1 \in 1..N /\ d + 1 \in 0..N /\ (d + 1) - 1 = d
    BY <1>1
  <2> HIDE DEF N
  <2> QED BY <1>2, <1>5, <1>7, <2>1
<1>8. N \in S
  <2>1. \A d \in 0..N : d \in S
    <3> HIDE DEF S, N
    <3> QED BY <1>1, <1>6, <1>7, Induction
  <2>2. N \in 0..N
    BY <1>1
  <2> QED BY <2>1, <2>2
<1>9. Joined(b, N, FlattenSeq(b), c[N])
  BY <1>2, FlattenIs
<1> QED BY <1>8, <1>9 DEF Joined

-----------------------------------------------------------------------------
(* The tests that compare. *)

LEMMA PatternIs ==
  ASSUME NEW leaf, NEW m, Comparing(leaf), Plain(leaf, m), NEW k \in DOMAIN leaf.patterns
  PROVE  /\ leaf.patterns[k] \in CString
         /\ \A i \in 1..Len(leaf.patterns[k]) : leaf.patterns[k][i] # Escape
         /\ leaf.comparator = "numeric" => Numeric(leaf.patterns[k])
         /\ leaf.match = "count" => k = 1
<1> DEFINE pats == leaf.patterns
           S == CString
<1>1. pats \in Seq(S)
  BY DEF Comparing
<1>2. /\ \A j \in DOMAIN pats :
           /\ \A i \in DOMAIN pats[j] : pats[j][i] # Escape
           /\ leaf.comparator = "numeric" => Numeric(pats[j])
      /\ leaf.match = "count" => Len(pats) = 1
  BY DEF Plain
<1> HIDE DEF pats, S
<1>3. DOMAIN pats = 1..Len(pats) /\ Len(pats) \in Nat /\ \A j \in 1..Len(pats) : pats[j] \in S
  BY <1>1, LenProperties, ElementOfSeq
<1>4. k \in DOMAIN pats
  BY DEF pats
<1>5. pats[k] \in CString
  BY <1>3, <1>4 DEF S
<1>6. DOMAIN pats[k] = 1..Len(pats[k])
  BY <1>5, StringIs
<1>7. leaf.match = "count" => k = 1
  BY <1>2, <1>3, <1>4
<1> QED BY <1>2, <1>4, <1>5, <1>6, <1>7 DEF pats

LEMMA TextDecides ==
  ASSUME NEW leaf, NEW m, Comparing(leaf), Plain(leaf, m), NEW k \in DOMAIN leaf.patterns,
         NEW text \in CString, leaf.comparator = "numeric" => Numeric(text)
  PROVE  Compare(leaf.comparator, leaf.match, leaf.rel, leaf.patterns[k], text) <=>
           Meant(leaf.comparator, leaf.match, leaf.rel, leaf.patterns[k], text)
<1> DEFINE c == leaf.comparator
           t == leaf.match
           p == leaf.patterns[k]
<1>1. /\ c \in {"octet", "casemap", "numeric"}
      /\ t \in {"is", "contains", "matches", "value", "count"} /\ Lookup(c, t)
  BY DEF Comparing
<1>2. p \in CString /\ (\A i \in 1..Len(p) : p[i] # Escape) /\ (c = "numeric" => Numeric(p))
  BY PatternIs
<1>3. c = "numeric" => Numeric(p) /\ Numeric(text)
  BY <1>2
<1> HIDE DEF c, t, p
<1>4. Compare(c, t, leaf.rel, p, text) <=> Meant(c, t, leaf.rel, p, text)
  BY <1>1, <1>2, <1>3, CompareDecides
<1> QED BY <1>4 DEF c, t, p

\* The texts of a header are strings of the message.
LEMMA TextsAre ==
  ASSUME NEW leaf, NEW m, Message(m), Plain(leaf, m), NEW name \in leaf.names,
         NEW texts, texts = Texts(leaf, m, name)
  PROVE  /\ Len(texts) \in Nat /\ DOMAIN texts = 1..Len(texts)
         /\ \A i \in 1..Len(texts) :
              /\ texts[i] \in CString
              /\ leaf.comparator = "numeric" /\ leaf.match # "count" => Numeric(texts[i])
<1>1. leaf.type \in {"header", "address"} /\ \A i \in DOMAIN texts :
        texts[i] # NONE /\ (leaf.comparator = "numeric" /\ leaf.match # "count" => Numeric(texts[i]))
  BY DEF Plain
<1> DEFINE A == {NONE} \cup CString
<1>2. texts \in Seq(A)
  <2>1. CASE leaf.type = "header"
    <3>1. texts = Bodies(m, name)
      BY <2>1 DEF Texts
    <3>2. texts \in Seq(CString)
      <4> DEFINE C == CString
      <4>1. name \in DOMAIN m.headers => m.headers[name] \in Seq(C)
        BY DEF Message
      <4> HIDE DEF C
      <4>2. texts \in Seq(C)
        BY <3>1, <4>1, EmptySeq DEF Bodies
      <4> QED BY <4>2 DEF C
    <3> DEFINE C == CString
    <3>3. texts \in Seq(C) /\ C \subseteq A
      BY <3>2
    <3> HIDE DEF C, A
    <3> QED BY <3>3
  <2>2. CASE leaf.type = "address"
    <3>1. texts = FlattenSeq(Addresses(m, name))
      BY <2>2 DEF Texts
    <3>2. Addresses(m, name) \in Seq(Seq(A))
      <4> DEFINE C == Seq(A)
      <4>1. name \in DOMAIN m.addresses => m.addresses[name] \in Seq(C)
        BY DEF Message
      <4> HIDE DEF C
      <4>2. Addresses(m, name) \in Seq(C)
        BY <4>1, EmptySeq DEF Addresses
      <4> QED BY <4>2 DEF C
    <3> DEFINE b == Addresses(m, name)
    <3> HIDE DEF A, b
    <3>3. b \in Seq(Seq(A)) /\ texts = FlattenSeq(b)
      BY <3>1, <3>2 DEF b
    <3> QED BY <3>3, LengthsExist, FlattenIs
  <2> QED BY <1>1, <2>1, <2>2
<1>3. Len(texts) \in Nat /\ DOMAIN texts = 1..Len(texts) /\ \A i \in 1..Len(texts) : texts[i] \in A
  <2> HIDE DEF A
  <2> QED BY <1>2, LenProperties, ElementOfSeq
<1> QED BY <1>1, <1>3

LEMMA HeaderMeans ==
  ASSUME NEW leaf, NEW m, Comparing(leaf), Message(m), Plain(leaf, m), leaf.type = "header"
  PROVE  Header(leaf, m) <=> Meaning(leaf, m)
<1> DEFINE cmp(k, x) == Compare(leaf.comparator, leaf.match, leaf.rel, leaf.patterns[k], x)
           mnt(k, x) == Meant(leaf.comparator, leaf.match, leaf.rel, leaf.patterns[k], x)
           H(b, k) == /\ b # <<>>
                      /\ IF leaf.match = "count" THEN cmp(k, Decimal(Len(b)))
                         ELSE \E i \in DOMAIN b : cmp(k, b[i])
           M(b, k) == IF leaf.match = "count" THEN mnt(k, Decimal(Len(b)))
                      ELSE \E i \in DOMAIN b : mnt(k, b[i])
<1>1. \A k \in DOMAIN leaf.patterns : \A x \in CString :
        (leaf.comparator = "numeric" => Numeric(x)) => (cmp(k, x) <=> mnt(k, x))
  BY TextDecides
<1>2. Header(leaf, m) <=>
        \E name \in leaf.names : \E k \in DOMAIN leaf.patterns : H(Bodies(m, name), k)
  BY DEF Header
<1>3. Meaning(leaf, m) <=>
        \E name \in leaf.names : \E k \in DOMAIN leaf.patterns : M(Texts(leaf, m, name), k)
  BY DEF Meaning
<1> HIDE DEF cmp, mnt
<1>4. ASSUME NEW name \in leaf.names, NEW k \in DOMAIN leaf.patterns
      PROVE  H(Bodies(m, name), k) <=> M(Texts(leaf, m, name), k)
  <2> DEFINE b == Texts(leaf, m, name)
  <2>1. b = Bodies(m, name)
    BY DEF Texts
  <2>2. /\ Len(b) \in Nat /\ DOMAIN b = 1..Len(b)
        /\ \A i \in 1..Len(b) :
             /\ b[i] \in CString
             /\ leaf.comparator = "numeric" /\ leaf.match # "count" => Numeric(b[i])
    BY TextsAre
  <2>3. leaf.match = "count" => b # <<>>
    BY DEF Plain
  <2> HIDE DEF b
  <2>4. CASE leaf.match = "count"
    <3>1. Decimal(Len(b)) \in CString /\ Numeric(Decimal(Len(b)))
      BY <2>2, DecimalIsNumeral DEF Numeral
    <3>2. cmp(k, Decimal(Len(b))) <=> mnt(k, Decimal(Len(b)))
      BY <1>1, <3>1
    <3>3. H(b, k) <=> M(b, k)
      BY <2>3, <2>4, <3>2
    <3> HIDE DEF H, M
    <3> QED BY <2>1, <3>3 DEF b
  <2>5. CASE leaf.match # "count"
    <3>1. \A i \in DOMAIN b : cmp(k, b[i]) <=> mnt(k, b[i])
      BY <1>1, <2>2, <2>5
    <3>2. (\E i \in DOMAIN b : cmp(k, b[i])) => b # <<>>
      <4>1. b = <<>> => DOMAIN b = 1..0 /\ Len(b) = 0
        BY <2>2, EmptySeq
      <4>2. \A i : i \notin 1..0
        OBVIOUS
      <4> QED BY <4>1, <4>2
    <3>3. H(b, k) <=> M(b, k)
      BY <2>5, <3>1, <3>2
    <3> HIDE DEF H, M
    <3> QED BY <2>1, <3>3 DEF b
  <2> QED BY <2>4, <2>5
<1> HIDE DEF H, M
<1> QED BY <1>2, <1>3, <1>4

LEMMA AddressMeans ==
  ASSUME NEW leaf, NEW m, Comparing(leaf), Message(m), Plain(leaf, m), leaf.type = "address"
  PROVE  Address(leaf, m) <=> Meaning(leaf, m)
<1> DEFINE cmp(k, x) == Compare(leaf.comparator, leaf.match, leaf.rel, leaf.patterns[k], x)
           mnt(k, x) == Meant(leaf.comparator, leaf.match, leaf.rel, leaf.patterns[k], x)
           Count(b) == CHOOSE f : Counts(b, f)
           H(b, k) == /\ b # <<>>
                      /\ IF leaf.match = "count" THEN cmp(k, Decimal(k * Count(b)[Len(b)]))
                         ELSE \E i \in DOMAIN b : \E j \in DOMAIN Parts(b[i]) :
                                cmp(k, Parts(b[i])[j])
           M(t, k) == IF leaf.match = "count" THEN mnt(k, Decimal(Len(t)))
                      ELSE \E i \in DOMAIN t : mnt(k, t[i])
<1>1. \A k \in DOMAIN leaf.patterns : \A x \in CString :
        (leaf.comparator = "numeric" => Numeric(x)) => (cmp(k, x) <=> mnt(k, x))
  BY TextDecides
<1>2. Address(leaf, m) <=>
        \E name \in leaf.names : \E k \in DOMAIN leaf.patterns : H(Addresses(m, name), k)
  BY DEF Address, Counts
<1>3. Meaning(leaf, m) <=>
        \E name \in leaf.names : \E k \in DOMAIN leaf.patterns : M(Texts(leaf, m, name), k)
  BY DEF Meaning
<1> HIDE DEF cmp, mnt
<1>4. ASSUME NEW name \in leaf.names, NEW k \in DOMAIN leaf.patterns
      PROVE  H(Addresses(m, name), k) <=> M(Texts(leaf, m, name), k)
  <2> DEFINE A == {NONE} \cup CString
             B == Seq(A)
             b == Addresses(m, name)
             t == Texts(leaf, m, name)
             f == Count(b)
  <2>1. t = FlattenSeq(b)
    BY DEF Texts
  <2>2. /\ Len(t) \in Nat /\ DOMAIN t = 1..Len(t)
        /\ \A i \in 1..Len(t) :
             /\ t[i] \in CString
             /\ leaf.comparator = "numeric" /\ leaf.match # "count" => Numeric(t[i])
    BY TextsAre
  <2>3. /\ \A i \in DOMAIN t : t[i] # NONE
        /\ leaf.match = "count" => t # <<>>
        /\ leaf.match = "count" => k = 1
    BY PatternIs DEF Plain
  <2>4. b \in Seq(B)
    <3>1. name \in DOMAIN m.addresses => m.addresses[name] \in Seq(B)
      BY DEF Message
    <3> HIDE DEF B
    <3> QED BY <3>1, EmptySeq DEF Addresses
  <2> HIDE DEF b, t, A
  <2>5. Len(b) \in Nat /\ DOMAIN b = 1..Len(b) /\ \A i \in 1..Len(b) : b[i] \in B
    <3> HIDE DEF B
    <3> QED BY <2>4, LenProperties, ElementOfSeq
  <2>6. \A i \in 1..Len(b) : Len(b[i]) \in Nat /\ DOMAIN b[i] = 1..Len(b[i])
    BY <2>5, LenProperties
  <2>7. \A a : (\E i \in 1..Len(t) : t[i] = a) <=>
               \E j \in 1..Len(b) : \E l \in 1..Len(b[j]) : b[j][l] = a
    <3>1. PICK c \in [0..Len(b) -> Nat] : c[0] = 0 /\ \A i \in 1..Len(b) : c[i] = c[i - 1] + Len(b[i])
      BY <2>4, LengthsExist
    <3>2. Joined(b, Len(b), t, c[Len(b)])
      BY <2>1, <2>4, <3>1, FlattenIs
    <3> QED BY <3>2 DEF Joined
  <2>8. \A i \in 1..Len(b) : Parts(b[i]) = b[i]
    <3> SUFFICES ASSUME NEW i \in 1..Len(b) PROVE Parts(b[i]) = b[i]
      OBVIOUS
    <3>1. \A j \in DOMAIN b[i] : b[i][j] # NONE
      BY <2>2, <2>3, <2>6, <2>7
    <3>2. {j \in DOMAIN b[i] : b[i][j] = NONE} = {}
      BY <3>1
    <3> QED BY <3>2 DEF Parts
  <2>9. CASE leaf.match = "count"
    <3>1. f[Len(b)] = Len(t)
      <4>1. f = CHOOSE g : Counts(b, g)
        OBVIOUS
      <4> HIDE DEF f
      <4> QED BY <2>1, <2>4, <2>8, <4>1, CountIs
    <3>2. k * f[Len(b)] = Len(t)
      <4>1. \A n \in Nat : 1 * n = n
        OBVIOUS
      <4> DEFINE n == f[Len(b)]
      <4>2. k = 1 /\ n \in Nat /\ n = Len(t)
        BY <2>2, <2>3, <2>9, <3>1
      <4> HIDE DEF n
      <4>3. k * n = Len(t)
        BY <4>1, <4>2
      <4> QED BY <4>3 DEF n
    <3>3. b # <<>>
      <4>1. b = <<>> => FlattenSeq(b) = <<>>
        <5>1. Len(<<>>) = 0
          BY EmptySeq
        <5> QED BY <5>1 DEF FlattenSeq
      <4> QED BY <2>1, <2>3, <2>9, <4>1
    <3>4. Decimal(Len(t)) \in CString /\ Numeric(Decimal(Len(t)))
      BY <2>2, DecimalIsNumeral DEF Numeral
    <3>5. cmp(k, Decimal(Len(t))) <=> mnt(k, Decimal(Len(t)))
      BY <1>1, <3>4
    <3>6. H(b, k) <=> cmp(k, Decimal(k * f[Len(b)]))
      BY <2>9, <3>3
    <3>7. M(t, k) <=> mnt(k, Decimal(Len(t)))
      BY <2>9
    <3>8. H(b, k) <=> M(t, k)
      <4> HIDE DEF H, M, f
      <4> QED BY <3>2, <3>5, <3>6, <3>7
    <3> HIDE DEF H, M
    <3> QED BY <3>8 DEF b, t
  <2>10. CASE leaf.match # "count"
    <3>1. \A i \in 1..Len(t) : cmp(k, t[i]) <=> mnt(k, t[i])
      BY <1>1, <2>2, <2>10
    <3>2. H(b, k) <=> b # <<>> /\ \E i \in 1..Len(b) : \E j \in 1..Len(b[i]) : cmp(k, b[i][j])
      BY <2>5, <2>6, <2>8, <2>10
    <3>3. M(t, k) <=> \E i \in 1..Len(t) : mnt(k, t[i])
      BY <2>2, <2>10
    <3>4. b = <<>> => ~\E i : i \in 1..Len(b)
      <4>1. b = <<>> => Len(b) = 0
        BY EmptySeq
      <4>2. \A i : i \notin 1..0
        OBVIOUS
      <4> QED BY <4>1, <4>2
    <3>5. (\E i \in 1..Len(b) : \E j \in 1..Len(b[i]) : cmp(k, b[i][j])) <=>
            \E i \in 1..Len(t) : cmp(k, t[i])
      BY <2>7
    <3>6. H(b, k) <=> M(t, k)
      <4> HIDE DEF H, M
      <4> QED BY <3>1, <3>2, <3>3, <3>4, <3>5
    <3> HIDE DEF H, M
    <3> QED BY <3>6 DEF b, t
  <2> QED BY <2>9, <2>10
<1> HIDE DEF H, M
<1> QED BY <1>2, <1>3, <1>4

LEMMA HoldsMeans ==
  ASSUME NEW leaf, NEW m, leaf.type \in {"header", "address"} => Comparing(leaf),
         Message(m), Plain(leaf, m)
  PROVE  Holds(leaf, m) = Meaning(leaf, m)
<1>1. leaf.type \in {"header", "address"}
  BY DEF Plain
<1>2. Comparing(leaf)
  BY <1>1
<1>3. Meaning(leaf, m) \in BOOLEAN /\ Header(leaf, m) \in BOOLEAN /\ Address(leaf, m) \in BOOLEAN
  BY DEF Meaning, Header, Address
<1>4. CASE leaf.type = "header"
  <2>1. Holds(leaf, m) = Header(leaf, m)
    BY <1>4 DEF Holds
  <2>2. Header(leaf, m) <=> Meaning(leaf, m)
    BY <1>2, <1>4, HeaderMeans
  <2> QED BY <1>3, <2>1, <2>2
<1>5. CASE leaf.type = "address"
  <2>1. Holds(leaf, m) = Address(leaf, m)
    BY <1>5 DEF Holds
  <2>2. Address(leaf, m) <=> Meaning(leaf, m)
    BY <1>2, <1>5, AddressMeans
  <2> QED BY <1>3, <2>1, <2>2
<1> QED BY <1>1, <1>4, <1>5

-----------------------------------------------------------------------------
(* The evaluation of a test. *)

\* The value of a node, given the values v of the nodes behind it.
ValueOf(t, leaf, v, n) ==
  CASE t[n].type = "anyof" -> \E k \in DOMAIN t[n].kids : v[t[n].kids[k]]
    [] t[n].type = "allof" -> \A k \in DOMAIN t[n].kids : v[t[n].kids[k]]
    [] t[n].type = "not"   -> ~v[t[n].kids[1]]
    [] OTHER               -> leaf[n]

Kids(n) == test[n].kids
V       == Values(test, Answered)

-----------------------------------------------------------------------------
\* The shape of a test.
LEMMA Shape ==
  ASSUME NEW t, Test(t)
  PROVE  /\ Len(t) \in Nat \ {0} /\ DOMAIN t = 1..Len(t)
         /\ \A n \in 1..Len(t) : t[n].type \in Composite =>
              /\ Len(t[n].kids) \in Nat /\ DOMAIN t[n].kids = 1..Len(t[n].kids)
              /\ \A k \in 1..Len(t[n].kids) : t[n].kids[k] \in (n + 1)..Len(t)
              /\ t[n].type = "not" => Len(t[n].kids) = 1
<1>1. t \in Seq(Range(t)) /\ t # <<>>
  BY DEF Test
<1>2. Len(t) \in Nat \ {0} /\ DOMAIN t = 1..Len(t)
  <2> DEFINE S == Range(t)
  <2> HIDE DEF S
  <2> QED BY <1>1, EmptySeq, LenProperties DEF S
<1>3. ASSUME NEW n \in 1..Len(t), t[n].type \in Composite
      PROVE  /\ Len(t[n].kids) \in Nat /\ DOMAIN t[n].kids = 1..Len(t[n].kids)
             /\ \A k \in 1..Len(t[n].kids) : t[n].kids[k] \in (n + 1)..Len(t)
             /\ t[n].type = "not" => Len(t[n].kids) = 1
  <2> DEFINE kids == t[n].kids
             S    == (n + 1)..Len(t)
  <2>1. kids \in Seq(S) /\ (t[n].type = "not" => Len(kids) = 1)
    BY <1>2, <1>3 DEF Test
  <2> HIDE DEF kids, S
  <2>2. Len(kids) \in Nat /\ DOMAIN kids = 1..Len(kids) /\ \A k \in 1..Len(kids) : kids[k] \in S
    BY <2>1, LenProperties, ElementOfSeq
  <2> QED BY <2>1, <2>2 DEF kids, S
<1> QED BY <1>2, <1>3

\* The recursion over a test is well founded: each node has the value that
\* its operands, which stand behind it, give it.
LEMMA ValuesExist ==
  ASSUME NEW t, Test(t), NEW leaf
  PROVE  \E v : v = [n \in DOMAIN t |-> ValueOf(t, leaf, v, n)]
<1> DEFINE N == Len(t)
           Is(v, d) == v = [n \in (N - d + 1)..N |-> ValueOf(t, leaf, v, n)]
           Bad == {d \in 0..N : ~\E v : Is(v, d)}
<1>1. /\ N \in Nat \ {0} /\ DOMAIN t = 1..N
      /\ \A n \in 1..N : t[n].type \in Composite =>
           /\ Len(t[n].kids) \in Nat /\ DOMAIN t[n].kids = 1..Len(t[n].kids)
           /\ \A k \in 1..Len(t[n].kids) : t[n].kids[k] \in (n + 1)..N
           /\ t[n].type = "not" => Len(t[n].kids) = 1
  BY Shape
<1>2. \E v : Is(v, 0)
  <2> DEFINE v == [n \in {} |-> TRUE]
  <2>1. (N - 0 + 1)..N = {}
    BY <1>1
  <2>2. Is(v, 0)
    BY <2>1
  <2> QED BY <2>2
<1>3. ASSUME NEW d \in 0..(N - 1), NEW v, Is(v, d) PROVE \E w : Is(w, d + 1)
  <2> DEFINE m == N - d
             w == [n \in m..N |-> IF n = m THEN ValueOf(t, leaf, v, m) ELSE v[n]]
  <2>1. m \in 1..N /\ N - d + 1 = m + 1 /\ N - (d + 1) + 1 = m
    BY <1>1
  <2>2. v = [n \in (m + 1)..N |-> ValueOf(t, leaf, v, n)]
    BY <1>3, <2>1
  <2> HIDE DEF m
  <2>3. \A n \in (m + 1)..N : w[n] = v[n]
    BY <1>1, <2>1
  <2> HIDE DEF w
  <2>4. ASSUME NEW n \in m..N PROVE ValueOf(t, leaf, w, n) = ValueOf(t, leaf, v, n)
    <3>1. CASE t[n].type \notin Composite
      BY <3>1 DEF ValueOf, Composite
    <3>2. CASE t[n].type \in Composite
      <4>1. \A k \in DOMAIN t[n].kids : t[n].kids[k] \in (m + 1)..N
        BY <1>1, <2>1, <2>4, <3>2
      <4>2. \A k \in DOMAIN t[n].kids : w[t[n].kids[k]] = v[t[n].kids[k]]
        BY <2>3, <4>1
      <4>3. t[n].type = "not" => 1 \in DOMAIN t[n].kids
        BY <1>1, <2>1, <2>4, <3>2
      <4> QED BY <4>2, <4>3 DEF ValueOf
    <3> QED BY <3>1, <3>2
  <2>5. \A n \in m..N : w[n] = ValueOf(t, leaf, w, n)
    <3>1. \A n \in (m + 1)..N : w[n] = ValueOf(t, leaf, v, n)
      BY <2>2, <2>3
    <3>2. w[m] = ValueOf(t, leaf, v, m)
      BY <1>1, <2>1 DEF w
    <3>3. \A n \in m..N : n = m \/ n \in (m + 1)..N
      BY <1>1, <2>1
    <3> QED BY <2>4, <3>1, <3>2, <3>3
  <2>6. w = [n \in m..N |-> ValueOf(t, leaf, w, n)]
    <3>1. w = [n \in m..N |-> w[n]]
      BY DEF w
    <3> QED BY <2>5, <3>1
  <2> QED BY <2>1, <2>6
<1>4. Bad = {}
  <2> SUFFICES ASSUME Bad # {} PROVE FALSE
    OBVIOUS
  <2>1. PICK d \in Bad : \A e \in Bad : d <= e
    <3>1. Bad \subseteq Nat
      OBVIOUS
    <3> HIDE DEF Bad
    <3> QED BY <3>1, Least
  <2>2. d # 0 /\ d \in 0..N
    BY <1>2, <2>1
  <2> HIDE DEF Bad
  <2>3. d - 1 \in 0..(N - 1) /\ d - 1 \in 0..N /\ ~(d <= d - 1)
    BY <1>1, <2>2
  <2>4. PICK v : Is(v, d - 1)
    BY <2>1, <2>3 DEF Bad
  <2>5. \E w : Is(w, (d - 1) + 1)
    <3> HIDE DEF Is
    <3> QED BY <1>3, <2>3, <2>4
  <2>6. (d - 1) + 1 = d
    BY <2>2
  <2> QED BY <2>1, <2>5, <2>6 DEF Bad
<1>5. PICK v : Is(v, N)
  BY <1>1, <1>4
<1>6. N - N + 1 = 1
  BY <1>1
<1> QED BY <1>1, <1>5, <1>6

LEMMA ValuesEquation ==
  ASSUME NEW t, Test(t), NEW leaf, NEW n \in DOMAIN t
  PROVE  Values(t, leaf)[n] = ValueOf(t, leaf, Values(t, leaf), n)
<1> DEFINE v == Values(t, leaf)
<1>1. v = CHOOSE f : f = [m \in DOMAIN t |-> ValueOf(t, leaf, f, m)]
  BY DEF Values, ValueOf
<1>2. v = [m \in DOMAIN t |-> ValueOf(t, leaf, v, m)]
  BY <1>1, ValuesExist
<1> HIDE DEF v
<1>3. v[n] = ValueOf(t, leaf, v, n)
  BY <1>2
<1> QED BY <1>3 DEF v

-----------------------------------------------------------------------------
(* A test is a tree. *)

\* The operands of a node are its own, and stand behind it.
LEMMA Operands ==
  ASSUME Test(test)
  PROVE  /\ Len(test) \in Nat \ {0} /\ DOMAIN test = 1..Len(test)
         /\ \A m \in Inner(test) :
              /\ m \in 1..Len(test) /\ Len(Kids(m)) \in Nat \ {0} /\ DOMAIN Kids(m) = 1..Len(Kids(m))
              /\ \A k \in 1..Len(Kids(m)) :
                   Kids(m)[k] \in 2..Len(test) /\ m < Kids(m)[k] /\ Above(Kids(m)[k]) = m
              /\ \A j, k \in 1..Len(Kids(m)) : Kids(m)[j] = Kids(m)[k] => j = k
         /\ \A n \in 2..Len(test) :
              /\ Above(n) \in Inner(test) /\ Above(n) \in 1..(n - 1)
              /\ \E k \in 1..Len(Kids(Above(n))) : Kids(Above(n))[k] = n
<1>1. Len(test) \in Nat \ {0} /\ DOMAIN test = 1..Len(test)
  BY Shape
<1>2. ASSUME NEW m \in Inner(test)
      PROVE  /\ m \in 1..Len(test) /\ Len(Kids(m)) \in Nat \ {0} /\ DOMAIN Kids(m) = 1..Len(Kids(m))
             /\ \A k \in 1..Len(Kids(m)) : Kids(m)[k] \in 2..Len(test) /\ m < Kids(m)[k]
  <2>1. m \in 1..Len(test) /\ test[m].type \in Composite
    BY <1>1 DEF Inner
  <2>2. /\ Len(Kids(m)) \in Nat /\ DOMAIN Kids(m) = 1..Len(Kids(m))
        /\ \A k \in 1..Len(Kids(m)) : Kids(m)[k] \in (m + 1)..Len(test)
    BY <2>1, Shape DEF Kids
  <2>3. Kids(m) # <<>> /\ Kids(m) \in Seq((m + 1)..Len(test))
    BY <1>1, <2>1 DEF Test, Kids
  <2>4. Len(Kids(m)) # 0
    <3> DEFINE S == (m + 1)..Len(test)
               kids == Kids(m)
    <3>1. kids \in Seq(S) /\ kids # <<>>
      BY <2>3
    <3> HIDE DEF S, kids
    <3>2. Len(kids) # 0
      BY <3>1, EmptySeq
    <3> QED BY <3>2 DEF kids
  <2> QED BY <2>1, <2>2, <2>4
<1>3. \A m, n \in Inner(test) : \A j \in DOMAIN Kids(m), k \in DOMAIN Kids(n) :
        Kids(m)[j] = Kids(n)[k] => m = n /\ j = k
  BY DEF Test, Kids
<1>4. ASSUME NEW n \in 2..Len(test)
      PROVE  /\ Above(n) \in Inner(test)
             /\ \E k \in 1..Len(Kids(Above(n))) : Kids(Above(n))[k] = n
  <2>1. \E m \in Inner(test) : n \in ToSet(Kids(m))
    BY DEF Test, Kids
  <2>2. Above(n) \in Inner(test) /\ n \in ToSet(Kids(Above(n)))
    BY <2>1 DEF Above, Kids
  <2> QED BY <1>2, <2>2 DEF ToSet
<1>5. ASSUME NEW n \in 2..Len(test) PROVE Above(n) \in 1..(n - 1)
  <2>1. PICK k \in 1..Len(Kids(Above(n))) : Kids(Above(n))[k] = n
    BY <1>4
  <2>2. Above(n) \in 1..Len(test) /\ Above(n) < n
    BY <1>2, <1>4, <2>1
  <2> QED BY <2>2
<1>6. ASSUME NEW m \in Inner(test), NEW k \in 1..Len(Kids(m)) PROVE Above(Kids(m)[k]) = m
  <2> DEFINE n == Kids(m)[k]
  <2>1. n \in 2..Len(test)
    BY <1>2
  <2>2. Above(n) \in Inner(test) /\ \E j \in 1..Len(Kids(Above(n))) : Kids(Above(n))[j] = n
    BY <1>4, <2>1
  <2> HIDE DEF n
  <2>3. n = Kids(m)[k]
    BY DEF n
  <2> QED BY <1>2, <1>3, <2>2, <2>3 DEF n
<1> QED BY <1>1, <1>2, <1>3, <1>4, <1>5, <1>6

\* Recursion from the root downwards.
StepsIn(D) == [(1..Len(test)) \X D -> D]
Follows(r, D, init, step) ==
  /\ r \in [1..Len(test) -> D] /\ r[1] = init
  /\ \A n \in 2..Len(test) : r[n] = step[<<n, r[Above(n)]>>]
LEMMA Upwards ==
  ASSUME Test(test), NEW D, NEW init \in D, NEW step \in StepsIn(D)
  PROVE  \E r : Follows(r, D, init, step)
<1> DEFINE N == Len(test)
           Is(r, d) == /\ r \in [1..d -> D] /\ r[1] = init
                       /\ \A n \in 2..d : r[n] = step[<<n, r[Above(n)]>>]
           Bad == {d \in 1..N : ~\E r : Is(r, d)}
<1>1. N \in Nat \ {0} /\ \A n \in 2..N : Above(n) \in 1..(n - 1)
  BY Operands
<1>0. step \in [(1..N) \X D -> D]
  BY DEF StepsIn
<1>2. \E r : Is(r, 1)
  <2> DEFINE r == [n \in 1..1 |-> init]
  <2>1. Is(r, 1)
    OBVIOUS
  <2> QED BY <2>1
<1>3. ASSUME NEW d \in 1..(N - 1), NEW r, Is(r, d) PROVE \E s : Is(s, d + 1)
  <2> DEFINE s == [n \in 1..(d + 1) |-> IF n <= d THEN r[n] ELSE step[<<n, r[Above(n)]>>]]
  <2>1. Above(d + 1) \in 1..d /\ d + 1 \in 2..N /\ ~(d + 1 <= d)
    <3>1. d + 1 \in 2..N /\ (d + 1) - 1 = d
      BY <1>1
    <3>2. Above(d + 1) \in 1..((d + 1) - 1)
      BY <1>1, <3>1
    <3> QED BY <3>1, <3>2
  <2>2. r \in [1..d -> D]
    BY <1>3
  <2>3. step[<<d + 1, r[Above(d + 1)]>>] \in D
    <3>1. r[Above(d + 1)] \in D
      BY <2>1, <2>2
    <3>2. <<d + 1, r[Above(d + 1)]>> \in (1..N) \X D
      BY <1>1, <2>1, <3>1
    <3> QED BY <1>0, <3>2
  <2>4. \A n \in 1..d : s[n] = r[n]
    OBVIOUS
  <2>5. s[d + 1] = step[<<d + 1, r[Above(d + 1)]>>]
    BY <2>1
  <2>6. s \in [1..(d + 1) -> D]
    <3>1. \A n \in 1..(d + 1) : n \in 1..d \/ n = d + 1
      OBVIOUS
    <3>2. DOMAIN s = 1..(d + 1) /\ s = [n \in DOMAIN s |-> s[n]]
      OBVIOUS
    <3> HIDE DEF s
    <3>3. \A n \in 1..(d + 1) : s[n] \in D
      BY <2>2, <2>3, <2>4, <2>5, <3>1
    <3> QED BY <3>2, <3>3
  <2> HIDE DEF s
  <2>7. ASSUME NEW n \in 2..(d + 1) PROVE s[n] = step[<<n, s[Above(n)]>>]
    <3>1. CASE n = d + 1
      BY <2>1, <2>4, <2>5, <3>1
    <3>2. CASE n \in 2..d
      <4>1. n \in 1..d /\ Above(n) \in 1..d
        <5>1. n \in 2..N
          BY <1>1, <3>2
        <5>2. Above(n) \in 1..(n - 1)
          BY <1>1, <5>1
        <5> QED BY <3>2, <5>2
      <4> QED BY <1>3, <2>4, <3>2, <4>1
    <3> QED BY <3>1, <3>2
  <2>8. s[1] = init
    BY <1>3, <2>4
  <2> QED BY <2>6, <2>7, <2>8
<1>4. Bad = {}
  <2> SUFFICES ASSUME Bad # {} PROVE FALSE
    OBVIOUS
  <2>1. PICK d \in Bad : \A e \in Bad : d <= e
    <3>1. Bad \subseteq Nat
      OBVIOUS
    <3> HIDE DEF Bad
    <3> QED BY <3>1, Least
  <2>2. d # 1 /\ d \in 1..N
    BY <1>2, <2>1
  <2> HIDE DEF Bad
  <2>3. d - 1 \in 1..(N - 1) /\ d - 1 \in 1..N /\ ~(d <= d - 1)
    BY <1>1, <2>2
  <2>4. PICK r : Is(r, d - 1)
    BY <2>1, <2>3 DEF Bad
  <2>5. \E s : Is(s, (d - 1) + 1)
    <3> HIDE DEF Is
    <3> QED BY <1>3, <2>3, <2>4
  <2>6. (d - 1) + 1 = d
    BY <2>2
  <2> QED BY <2>1, <2>5, <2>6 DEF Bad
<1>5. PICK r : Is(r, N)
  <2>1. N \in 1..N
    BY <1>1
  <2> QED BY <1>4, <2>1
<1> QED BY <1>5 DEF Follows

LEMMA RoundsEquation ==
  ASSUME Test(test)
  PROVE  /\ Rounds \in [1..Len(test) -> Nat] /\ Rounds[1] = 1
         /\ \A n \in 2..Len(test) :
              Rounds[n] = IF test[Above(n)].type = "allof" THEN 2 * Rounds[Above(n)]
                                                           ELSE Rounds[Above(n)]
<1> DEFINE N == Len(test)
           twice == [p \in (1..N) \X Nat |->
                       IF test[Above(p[1])].type = "allof" THEN 2 * p[2] ELSE p[2]]
           Is(r) == r = [n \in DOMAIN test |->
                           IF n = 1 THEN 1
                           ELSE IF test[Above(n)].type = "allof" THEN 2 * r[Above(n)] ELSE r[Above(n)]]
<1>1. N \in Nat \ {0} /\ DOMAIN test = 1..N /\ \A n \in 2..N : Above(n) \in 1..(n - 1)
  BY Operands
<1>2. twice \in [(1..N) \X Nat -> Nat]
  OBVIOUS
<1>3. \A n \in 1..N, x \in Nat :
        twice[<<n, x>>] = IF test[Above(n)].type = "allof" THEN 2 * x ELSE x
  OBVIOUS
<1> HIDE DEF twice
<1>4. PICK r \in [1..N -> Nat] : r[1] = 1 /\ \A n \in 2..N : r[n] = twice[<<n, r[Above(n)]>>]
  <2>1. 1 \in Nat /\ twice \in StepsIn(Nat)
    BY <1>2 DEF StepsIn
  <2>2. \E r : Follows(r, Nat, 1, twice)
    BY <2>1, Upwards
  <2> QED BY <2>2 DEF Follows
<1>5. ASSUME NEW n \in 2..N
      PROVE  r[n] = IF test[Above(n)].type = "allof" THEN 2 * r[Above(n)] ELSE r[Above(n)]
  <2>1. n \in 1..N /\ Above(n) \in 1..N
    BY <1>1
  <2>2. r[Above(n)] \in Nat
    BY <2>1
  <2> QED BY <1>3, <1>4, <2>1, <2>2
<1>6. Is(r)
  <2>1. r = [n \in 1..N |-> r[n]]
    OBVIOUS
  <2>2. \A n \in 1..N : n = 1 \/ (n # 1 /\ n \in 2..N)
    BY <1>1
  <2> QED BY <1>1, <1>4, <1>5, <2>1, <2>2
<1>7. Rounds = CHOOSE f : Is(f)
  BY DEF Rounds
<1>8. Is(Rounds)
  <2> HIDE DEF Is
  <2> QED BY <1>6, <1>7
<1> DEFINE R == Rounds
<1>9. Is(R)
  BY <1>8
<1> HIDE DEF R
<1>10. \A n \in 1..N : R[n] = IF n = 1 THEN 1
                     ELSE IF test[Above(n)].type = "allof" THEN 2 * R[Above(n)] ELSE R[Above(n)]
  BY <1>1, <1>9
<1>11. R = r
  <2> DEFINE Bad == {n \in 1..N : R[n] # r[n]}
  <2>1. Bad = {}
    <3> SUFFICES ASSUME Bad # {} PROVE FALSE
      OBVIOUS
    <3>1. PICK n \in Bad : \A m \in Bad : n <= m
      <4>1. Bad \subseteq Nat
        OBVIOUS
      <4> HIDE DEF Bad
      <4> QED BY <4>1, Least
    <3>2. n # 1 /\ n \in 2..N
      BY <1>1, <1>4, <1>10, <3>1
    <3>3. Above(n) \in 1..N /\ ~(n <= Above(n))
      BY <1>1, <3>2
    <3>4. R[Above(n)] = r[Above(n)]
      BY <3>1, <3>3
    <3> QED BY <1>5, <1>10, <3>1, <3>2, <3>4
  <2>2. DOMAIN R = 1..N /\ R = [n \in DOMAIN R |-> R[n]]
    BY <1>1, <1>9
  <2> QED BY <2>1, <2>2
<1>12. R \in [1..N -> Nat] /\ R[1] = 1
  BY <1>4, <1>11
<1> QED BY <1>5, <1>11, <1>12 DEF R

\* The nodes from the root to a node, which is under each of them.
Path ==
  CHOOSE p \in [1..Len(test) -> SUBSET (1..Len(test))] :
    p[1] = {1} /\ \A n \in 2..Len(test) : p[n] = {n} \cup p[Above(n)]

LEMMA PathEquation ==
  ASSUME Test(test)
  PROVE  /\ Path \in [1..Len(test) -> SUBSET (1..Len(test))] /\ Path[1] = {1}
         /\ \A n \in 2..Len(test) : Path[n] = {n} \cup Path[Above(n)]
<1> DEFINE N == Len(test)
           D == SUBSET (1..N)
           join == [p \in (1..N) \X D |-> {p[1]} \cup p[2]]
<1>1. N \in Nat \ {0} /\ \A n \in 2..N : Above(n) \in 1..(n - 1)
  BY Operands
<1>2. join \in StepsIn(D) /\ {1} \in D
  BY <1>1 DEF StepsIn
<1>3. \A n \in 1..N, s \in D : join[<<n, s>>] = {n} \cup s
  OBVIOUS
<1> HIDE DEF join, D
<1>4. PICK r \in [1..N -> D] : r[1] = {1} /\ \A n \in 2..N : r[n] = join[<<n, r[Above(n)]>>]
  <2>1. \E r : Follows(r, D, {1}, join)
    BY <1>2, Upwards
  <2> QED BY <2>1 DEF Follows
<1>5. ASSUME NEW n \in 2..N PROVE r[n] = {n} \cup r[Above(n)]
  <2>1. n \in 1..N /\ Above(n) \in 1..N
    BY <1>1
  <2>2. r[Above(n)] \in D
    BY <2>1
  <2> QED BY <1>3, <1>4, <2>1, <2>2
<1> QED BY <1>4, <1>5 DEF D, Path

\* Under a node are its operands, and what is under these, and nothing else;
\* the nodes above a node are above each other, in their order.
LEMMA Under ==
  ASSUME Test(test), NEW n \in 1..Len(test)
  PROVE  /\ n \in Path[n]
         /\ \A m \in Path[n] : m \in 1..n /\ Path[m] \subseteq Path[n]
         /\ \A x, y \in Path[n] : x \in Path[y] \/ y \in Path[x]
         /\ \A m \in Path[n] \ {n} :
              m \in Inner(test) /\ \E k \in 1..Len(Kids(m)) : Kids(m)[k] \in Path[n]
<1> DEFINE N == Len(test)
           Fits(i) == /\ i \in Path[i]
                      /\ \A m \in Path[i] : m \in 1..i /\ Path[m] \subseteq Path[i]
                      /\ \A x, y \in Path[i] : x \in Path[y] \/ y \in Path[x]
                      /\ \A m \in Path[i] \ {i} :
                           m \in Inner(test) /\ \E k \in 1..Len(Kids(m)) : Kids(m)[k] \in Path[i]
           Bad == {i \in 1..N : ~Fits(i)}
<1>1. N \in Nat \ {0} /\ \A i \in 2..N :
        /\ Above(i) \in Inner(test) /\ Above(i) \in 1..(i - 1)
        /\ \E k \in 1..Len(Kids(Above(i))) : Kids(Above(i))[k] = i
  BY Operands
<1>2. Path[1] = {1} /\ \A i \in 2..N : Path[i] = {i} \cup Path[Above(i)]
  BY PathEquation
<1>3. Fits(1)
  BY <1>2
<1>4. ASSUME NEW i \in 2..N, Fits(Above(i)) PROVE Fits(i)
  <2> DEFINE a == Above(i)
  <2>1. a \in Inner(test) /\ a \in 1..(i - 1) /\ Path[i] = {i} \cup Path[a]
    BY <1>1, <1>2
  <2>2. PICK k \in 1..Len(Kids(a)) : Kids(a)[k] = i
    BY <1>1
  <2> HIDE DEF a
  <2>3. Fits(a)
    BY <1>4 DEF a
  <2>4. \A m \in Path[i] : m = i \/ m \in Path[a]
    BY <2>1
  <2>5. \A m \in Path[i] : m \in 1..i /\ Path[m] \subseteq Path[i]
    BY <2>1, <2>3
  <2>6. \A x, y \in Path[i] : x \in Path[y] \/ y \in Path[x]
    BY <2>1, <2>3
  <2>7. ASSUME NEW m \in Path[i] \ {i}
        PROVE  m \in Inner(test) /\ \E j \in 1..Len(Kids(m)) : Kids(m)[j] \in Path[i]
    <3>1. CASE m = a
      BY <2>1, <2>2, <3>1
    <3>2. CASE m # a
      <4>1. m \in Path[a] \ {a}
        BY <2>4, <2>7, <3>2
      <4> QED BY <2>1, <2>3, <4>1
    <3> QED BY <3>1, <3>2
  <2> QED BY <2>1, <2>5, <2>6, <2>7
<1>5. Bad = {}
  <2> SUFFICES ASSUME Bad # {} PROVE FALSE
    OBVIOUS
  <2>1. PICK i \in Bad : \A j \in Bad : i <= j
    <3>1. Bad \subseteq Nat
      OBVIOUS
    <3> HIDE DEF Bad
    <3> QED BY <3>1, Least
  <2> HIDE DEF Fits
  <2>2. i \in 2..N
    BY <1>1, <1>3, <2>1
  <2>3. Above(i) \in 1..N /\ ~(i <= Above(i))
    BY <1>1, <2>2
  <2>4. Fits(Above(i))
    BY <2>1, <2>3
  <2> QED BY <1>4, <2>1, <2>2, <2>4
<1> QED BY <1>5

\* The operands of a node are not under each other, and have nothing in common.
LEMMA Apart ==
  ASSUME Test(test), NEW m \in Inner(test), NEW n \in 1..Len(test),
         NEW j \in 1..Len(Kids(m)), NEW k \in 1..Len(Kids(m)),
         Kids(m)[j] \in Path[n], Kids(m)[k] \in Path[n]
  PROVE  j = k
<1>1. ASSUME NEW a \in 1..Len(Kids(m)), NEW b \in 1..Len(Kids(m)),
             Kids(m)[a] \in Path[Kids(m)[b]]
      PROVE  a = b
  <2> DEFINE x == Kids(m)[a]
             y == Kids(m)[b]
  <2>1. /\ x \in 2..Len(test) /\ y \in 2..Len(test) /\ m < x /\ Above(y) = m
        /\ m \in 1..Len(test) /\ (x = y => a = b)
    BY Operands
  <2>2. Path[y] = {y} \cup Path[m]
    BY <2>1, PathEquation
  <2>3. \A z \in Path[m] : z <= m
    BY <2>1, Under
  <2> QED BY <1>1, <2>1, <2>2, <2>3
<1>2. Kids(m)[j] \in Path[Kids(m)[k]] \/ Kids(m)[k] \in Path[Kids(m)[j]]
  BY Under
<1> QED BY <1>1, <1>2

\* What is under an operand is under the node.
LEMMA UnderOperand ==
  ASSUME Test(test), NEW m \in Inner(test), NEW k \in 1..Len(Kids(m))
  PROVE  /\ m \in 1..Len(test) /\ Kids(m)[k] \in 1..Len(test) /\ m < Kids(m)[k]
         /\ Path[Kids(m)[k]] = {Kids(m)[k]} \cup Path[m]
         /\ m \in Path[Kids(m)[k]]
         /\ \A n \in 1..Len(test) : Kids(m)[k] \in Path[n] => m \in Path[n]
<1>1. m \in 1..Len(test) /\ Kids(m)[k] \in 2..Len(test) /\ m < Kids(m)[k] /\ Above(Kids(m)[k]) = m
  BY Operands
<1>2. Path[Kids(m)[k]] = {Kids(m)[k]} \cup Path[m]
  BY <1>1, PathEquation
<1>3. m \in Path[Kids(m)[k]]
  BY <1>1, <1>2, Under
<1>4. Kids(m)[k] \in 1..Len(test)
  BY <1>1
<1> QED BY <1>1, <1>2, <1>3, <1>4, Under

-----------------------------------------------------------------------------
\* The calls and the answers as they are kept.
FrameType == [node : Nat, kid : Nat, again : BOOLEAN, res : BOOLEAN]
Typed ==
  /\ test # <<>> => Test(test)
  /\ test = <<>> => frames = <<>> /\ value = NONE /\ asked = <<>>
  /\ value \in {NONE, TRUE, FALSE}
  /\ frames \in Seq(FrameType)
  /\ asked \in Seq([node : Leaves, answer : BOOLEAN])

\* Each call was made by the one below it, for the operand that this one is at,
\* the last by the evaluation of the whole test.
Calls ==
  /\ frames # <<>> => frames[Len(frames)].node = 1
  /\ \A i \in 1..Len(frames) : frames[i].node \in DOMAIN test
  /\ \A i \in 2..Len(frames) :
       LET f == frames[i]
       IN  /\ test[f.node].type \in Composite
           /\ f.kid \in DOMAIN Kids(f.node)
           /\ frames[i - 1].node = Kids(f.node)[f.kid]

\* What a call knows of its operands: those behind which it is did not decide
\* the value, and the one that an allof evaluates again has the value res.
Known(f) ==
  LET type == test[f.node].type
  IN  /\ type \in Composite => f.kid \in 1..(Len(Kids(f.node)) + 1)
      /\ type = "not" => f.kid = 1
      /\ type # "allof" => ~f.again
      /\ type = "anyof" => \A k \in 1..(f.kid - 1) : ~V[Kids(f.node)[k]]
      /\ type = "allof" =>
           /\ \A k \in 1..(f.kid - 1) : V[Kids(f.node)[k]]
           /\ IF f.again THEN f.kid \in DOMAIN Kids(f.node) /\ f.res = V[Kids(f.node)[f.kid]]
                         ELSE f.res

\* The value that is on its way is that of the operand of the innermost call, or
\* that of the test.
Returned ==
  value # NONE =>
    IF frames = <<>> THEN value = V[1]
    ELSE /\ Node.type \in Composite
         /\ frames[1].kid \in DOMAIN Node.kids
         /\ value = V[Node.kids[frames[1].kid]]

IInv == Typed /\ Calls /\ (\A i \in 1..Len(frames) : Known(frames[i])) /\ Returned

LEMMA HoldsBoolean == ASSUME NEW leaf, NEW m PROVE Holds(leaf, m) \in BOOLEAN
<1>1. Header(leaf, m) \in BOOLEAN
  BY DEF Header
<1>2. Address(leaf, m) \in BOOLEAN
  BY DEF Address
<1>3. (\A name \in leaf.names : Bodies(m, name) # <<>>) \in BOOLEAN
  OBVIOUS
<1>4. (leaf.names \cap m.flags # {}) \in BOOLEAN
  OBVIOUS
<1>5. (m.size > leaf.limit) \in BOOLEAN
  OBVIOUS
<1>6. (m.size < leaf.limit) \in BOOLEAN
  OBVIOUS
<1> QED BY <1>1, <1>2, <1>3, <1>4, <1>5, <1>6 DEF Holds

LEMMA NodeValue ==
  ASSUME Test(test), NEW n \in DOMAIN test
  PROVE  V[n] = ValueOf(test, Answered, V, n) /\ V[n] \in BOOLEAN
<1>1. V[n] = ValueOf(test, Answered, V, n)
  BY ValuesEquation DEF V
<1>2. test[n].type \notin Composite => Answered[n] \in BOOLEAN
  BY HoldsBoolean DEF Answered, Leaves
<1>3. ValueOf(test, Answered, V, n) \in BOOLEAN
  BY <1>2 DEF ValueOf, Composite
<1> QED BY <1>1, <1>3

\* The value of a node depends on the test and the message alone.
LEMMA SameValues ==
  ASSUME UNCHANGED <<test, message>>
  PROVE  V' = V /\ Leaves' = Leaves /\ \A f : Known(f)' = Known(f)
<1>1. Leaves' = Leaves
  BY DEF Leaves
<1>2. Answered' = Answered
  BY <1>1 DEF Answered
<1>3. V' = V
  BY <1>2 DEF V, Values
<1> QED BY <1>1, <1>3 DEF Known, Kids

LEMMA Stack ==
  ASSUME IInv, ~Idle
  PROVE  /\ Len(frames) \in Nat \ {0} /\ Test(test)
         /\ frames[1].node \in DOMAIN test /\ Known(frames[1])
         /\ frames[1] \in FrameType
         /\ Tail(frames) \in Seq(FrameType) /\ Len(Tail(frames)) = Len(frames) - 1
         /\ \A i \in 1..(Len(frames) - 1) : Tail(frames)[i] = frames[i + 1]
<1>1. frames \in Seq(FrameType) /\ frames # <<>>
  BY DEF IInv, Typed, Idle
<1>2. /\ Len(frames) \in Nat \ {0} /\ Tail(frames) \in Seq(FrameType)
      /\ Len(Tail(frames)) = Len(frames) - 1
      /\ \A i \in 1..(Len(frames) - 1) : Tail(frames)[i] = frames[i + 1]
      /\ frames[1] \in FrameType
  <2> DEFINE S == FrameType
  <2> HIDE DEF S
  <2>1. frames \in Seq(S)
    BY <1>1 DEF S
  <2> QED BY <1>1, <2>1, EmptySeq, HeadTailProperties, ElementOfSeq DEF S
<1>3. frames[1].node \in DOMAIN test /\ Known(frames[1])
  BY <1>2 DEF IInv, Calls
<1>4. test # <<>>
  BY DEF IInv, Typed, Idle
<1> QED BY <1>2, <1>3, <1>4 DEF IInv, Typed

\* The three ways in which the stack changes.
LEMMA ReturnStep ==
  ASSUME IInv, ~Idle, Return(V[frames[1].node]), UNCHANGED <<test, message>>,
         asked' \in Seq([node : Leaves, answer : BOOLEAN])
  PROVE  IInv'
<1> DEFINE r == Tail(frames)
<1>1. /\ Len(frames) \in Nat \ {0} /\ r \in Seq(FrameType) /\ Len(r) = Len(frames) - 1
      /\ \A i \in 1..Len(r) : r[i] = frames[i + 1]
      /\ Test(test)
  BY Stack
<1>2. frames' = r /\ value' = V[frames[1].node]
  BY DEF Return
<1> HIDE DEF r
<1>3. V' = V /\ Leaves' = Leaves /\ \A f : Known(f)' = Known(f)
  BY SameValues
<1>4. test # <<>>
  BY DEF IInv, Typed, Idle
<1>5. value' \in {NONE, TRUE, FALSE}
  BY <1>1, <1>2, Stack, NodeValue
<1>6. Typed'
  BY <1>1, <1>2, <1>3, <1>4, <1>5 DEF IInv, Typed
<1>7. \A i \in 1..Len(r) : i + 1 \in 2..Len(frames) /\ r[i] = frames[i + 1]
  BY <1>1
<1>8. Calls'
  <2>1. r # <<>> => r[Len(r)].node = 1
    <3> SUFFICES ASSUME r # <<>> PROVE r[Len(r)].node = 1
      OBVIOUS
    <3>1. Len(r) \in 1..Len(r)
      BY <1>1, EmptySeq
    <3> QED BY <1>1, <3>1 DEF IInv, Calls, Idle
  <2>2. ASSUME NEW i \in 1..Len(r) PROVE r[i].node \in DOMAIN test
    <3>1. i + 1 \in 1..Len(frames) /\ r[i] = frames[i + 1]
      BY <1>1
    <3> QED BY <3>1 DEF IInv, Calls
  <2>3. ASSUME NEW i \in 2..Len(r)
        PROVE  /\ test[r[i].node].type \in Composite
               /\ r[i].kid \in DOMAIN Kids(r[i].node)
               /\ r[i - 1].node = Kids(r[i].node)[r[i].kid]
    <3>1. i + 1 \in 2..Len(frames) /\ r[i] = frames[i + 1] /\ r[i - 1] = frames[i] /\ (i + 1) - 1 = i
      BY <1>1
    <3> QED BY <3>1 DEF IInv, Calls
  <2> QED BY <1>2, <2>1, <2>2, <2>3 DEF Calls, Kids
<1>9. \A i \in 1..Len(r) : Known(r[i])
  BY <1>1 DEF IInv
<1>10. Returned'
  <2>1. CASE r = <<>>
    <3>1. Len(frames) = 1
      BY <1>1, <2>1
    <3>2. frames[1].node = 1
      BY <3>1 DEF IInv, Calls, Idle
    <3> QED BY <1>2, <1>3, <2>1, <3>2 DEF Returned
  <2>2. CASE r # <<>>
    <3>1. 2 \in 2..Len(frames) /\ r[1] = frames[2] /\ 2 - 1 = 1
      BY <1>1, <2>2, EmptySeq
    <3>2. /\ test[r[1].node].type \in Composite
          /\ r[1].kid \in DOMAIN Kids(r[1].node)
          /\ frames[1].node = Kids(r[1].node)[r[1].kid]
      BY <3>1 DEF IInv, Calls
    <3> QED BY <1>2, <1>3, <2>2, <3>2 DEF Returned, Node, Kids
  <2> QED BY <2>1, <2>2
<1> QED BY <1>2, <1>3, <1>6, <1>8, <1>9, <1>10 DEF IInv

LEMMA ProceedStep ==
  ASSUME IInv, ~Idle, NEW f \in FrameType, Proceed(f), Known(f), f.node = frames[1].node,
         UNCHANGED <<test, message, asked>>
  PROVE  IInv'
<1> DEFINE r == <<f>> \o Tail(frames)
<1>1. /\ Len(frames) \in Nat \ {0} /\ r \in Seq(FrameType) /\ Len(r) = Len(frames)
      /\ r[1] = f /\ \A i \in 2..Len(r) : r[i] = frames[i]
      /\ Test(test)
  <2>1. /\ Len(frames) \in Nat \ {0} /\ Tail(frames) \in Seq(FrameType)
        /\ Len(Tail(frames)) = Len(frames) - 1
        /\ \A i \in 1..(Len(frames) - 1) : Tail(frames)[i] = frames[i + 1]
        /\ Test(test)
    BY Stack
  <2> DEFINE S == FrameType
             t == Tail(frames)
             b == <<f>>
  <2>2. b \in Seq(S) /\ Len(b) = 1 /\ b[1] = f
    OBVIOUS
  <2>3. t \in Seq(S)
    BY <2>1
  <2> HIDE DEF S, t, b
  <2>4. /\ b \o t \in Seq(S) /\ Len(b \o t) = Len(b) + Len(t)
        /\ \A i \in 1..(Len(b) + Len(t)) :
             (b \o t)[i] = IF i <= Len(b) THEN b[i] ELSE t[i - Len(b)]
    BY <2>2, <2>3, ConcatProperties
  <2>5. \A i \in 2..Len(frames) : t[i - 1] = frames[i]
    BY <2>1 DEF t
  <2> QED BY <2>1, <2>2, <2>4, <2>5 DEF S, t, b
<1>2. frames' = r /\ value' = NONE
  BY DEF Proceed
<1> HIDE DEF r
<1>3. V' = V /\ Leaves' = Leaves /\ \A g : Known(g)' = Known(g)
  BY SameValues
<1>4. Typed'
  BY <1>1, <1>2, <1>3, Stack DEF IInv, Typed, Idle
<1>5. Calls'
  <2>1. r[Len(r)].node = 1
    BY <1>1 DEF IInv, Calls, Idle
  <2>2. \A i \in 1..Len(r) : r[i].node \in DOMAIN test /\ r[i].node = frames[i].node
    BY <1>1 DEF IInv, Calls
  <2>3. ASSUME NEW i \in 2..Len(r)
        PROVE  /\ test[r[i].node].type \in Composite
               /\ r[i].kid \in DOMAIN Kids(r[i].node)
               /\ r[i - 1].node = Kids(r[i].node)[r[i].kid]
    <3>1. i - 1 \in 1..Len(r) /\ r[i] = frames[i] /\ i \in 2..Len(frames)
      BY <1>1
    <3> QED BY <2>2, <3>1 DEF IInv, Calls
  <2> QED BY <1>2, <2>1, <2>2, <2>3 DEF Calls, Kids
<1>6. \A i \in 1..Len(r) : Known(r[i])
  BY <1>1 DEF IInv
<1>7. Returned'
  BY <1>2 DEF Returned
<1> QED BY <1>2, <1>3, <1>4, <1>5, <1>6, <1>7 DEF IInv

LEMMA DescendStep ==
  ASSUME IInv, ~Idle, Node.type \in Composite, frames[1].kid \in DOMAIN Node.kids, Descend,
         UNCHANGED <<test, message, asked>>
  PROVE  IInv'
<1> DEFINE n == Node.kids[frames[1].kid]
           f == Frame(test, n)
           r == <<f>> \o frames
<1>1. Len(frames) \in Nat \ {0} /\ Test(test) /\ frames[1].node \in DOMAIN test
  BY Stack
<1>2. n \in DOMAIN test /\ n \in Nat /\ n = Kids(frames[1].node)[frames[1].kid]
  BY <1>1, Shape DEF Node, Kids
<1> HIDE DEF n
<1>3. f = [node |-> n, kid |-> 1, again |-> FALSE, res |-> test[n].type = "allof"]
  BY DEF Frame
<1>4. f \in FrameType /\ f.node = n
  BY <1>2, <1>3 DEF FrameType
<1>5. Known(f)
  <2>1. f.kid = 1 /\ f.again = FALSE /\ f.res = (test[n].type = "allof")
    BY <1>3
  <2>2. test[n].type \in Composite => Len(Kids(n)) \in Nat
    BY <1>1, <1>2, Shape DEF Kids
  <2>3. test[f.node].type \in Composite => f.kid \in 1..(Len(Kids(f.node)) + 1)
    BY <1>4, <2>1, <2>2
  <2>4. 1..(f.kid - 1) = {}
    BY <2>1
  <2>5. test[f.node].type = "allof" => f.res
    BY <1>4, <2>1
  <2> QED BY <2>1, <2>3, <2>4, <2>5 DEF Known
<1> HIDE DEF f
<1>6. /\ r \in Seq(FrameType) /\ Len(r) = Len(frames) + 1
      /\ r[1] = f /\ \A i \in 2..Len(r) : r[i] = frames[i - 1]
  <2> DEFINE S == FrameType
             b == <<f>>
  <2>1. b \in Seq(S) /\ Len(b) = 1 /\ b[1] = f
    BY <1>4
  <2>2. frames \in Seq(S)
    BY DEF IInv, Typed
  <2> HIDE DEF S, b
  <2>3. /\ b \o frames \in Seq(S) /\ Len(b \o frames) = Len(b) + Len(frames)
        /\ \A i \in 1..(Len(b) + Len(frames)) :
             (b \o frames)[i] = IF i <= Len(b) THEN b[i] ELSE frames[i - Len(b)]
    BY <2>1, <2>2, ConcatProperties
  <2> QED BY <1>1, <2>1, <2>3 DEF S, b
<1>7. frames' = r /\ value' = NONE
  BY DEF Descend, f, n
<1> HIDE DEF r
<1>8. V' = V /\ Leaves' = Leaves /\ \A g : Known(g)' = Known(g)
  BY SameValues
<1>9. Typed'
  BY <1>1, <1>6, <1>7, <1>8 DEF IInv, Typed, Idle
<1>10. Calls'
  <2>1. r[Len(r)].node = 1
    BY <1>1, <1>6 DEF IInv, Calls, Idle
  <2>2. ASSUME NEW i \in 1..Len(r) PROVE r[i].node \in DOMAIN test
    <3>1. CASE i = 1
      BY <1>2, <1>4, <1>6, <3>1
    <3>2. CASE i # 1
      <4>1. i - 1 \in 1..Len(frames) /\ r[i] = frames[i - 1]
        BY <1>1, <1>6, <3>2
      <4> QED BY <4>1 DEF IInv, Calls
    <3> QED BY <3>1, <3>2
  <2>3. ASSUME NEW i \in 2..Len(r)
        PROVE  /\ test[r[i].node].type \in Composite
               /\ r[i].kid \in DOMAIN Kids(r[i].node)
               /\ r[i - 1].node = Kids(r[i].node)[r[i].kid]
    <3>1. CASE i = 2
      <4>1. r[i] = frames[1] /\ r[i - 1] = f
        BY <1>6, <2>3, <3>1
      <4> QED BY <1>2, <1>4, <4>1 DEF Node, Kids
    <3>2. CASE i # 2
      <4>1. /\ i - 1 \in 2..Len(frames) /\ r[i] = frames[i - 1]
            /\ r[i - 1] = frames[(i - 1) - 1]
        BY <1>1, <1>6, <2>3, <3>2
      <4> QED BY <4>1 DEF IInv, Calls
    <3> QED BY <3>1, <3>2
  <2> QED BY <1>7, <2>1, <2>2, <2>3 DEF Calls, Kids
<1>11. \A i \in 1..Len(r) : Known(r[i])
  <2> SUFFICES ASSUME NEW i \in 1..Len(r) PROVE Known(r[i])
    OBVIOUS
  <2>1. CASE i = 1
    BY <1>5, <1>6, <2>1
  <2>2. CASE i # 1
    <3>1. i - 1 \in 1..Len(frames) /\ r[i] = frames[i - 1]
      BY <1>1, <1>6, <2>2
    <3> QED BY <3>1 DEF IInv
  <2> QED BY <2>1, <2>2
<1>12. Returned'
  BY <1>7 DEF Returned
<1> QED BY <1>7, <1>8, <1>9, <1>10, <1>11, <1>12 DEF IInv

-----------------------------------------------------------------------------
LEMMA InitIInv == Init => IInv
<1> SUFFICES ASSUME Init PROVE IInv
  OBVIOUS
<1>1. test = <<>> /\ frames = <<>> /\ value = NONE /\ asked = <<>>
  BY DEF Init
<1>2. frames \in Seq(FrameType) /\ Len(frames) = 0 /\ asked \in Seq([node : Leaves, answer : BOOLEAN])
  BY <1>1, EmptySeq
<1> QED BY <1>1, <1>2 DEF IInv, Typed, Calls, Returned

LEMMA BeginStep == ASSUME IInv, Begin PROVE IInv'
<1>1. PICK suite \in Suites : \E t \in suite.tests, m \in suite.messages :
        /\ test' = t /\ message' = m
        /\ frames' = <<Frame(t, 1)>>
  BY DEF Begin
<1>2. Test(test') /\ frames' = <<Frame(test', 1)>>
  BY <1>1, SuitesAssumption
<1>3. value' = NONE /\ asked' = <<>>
  BY DEF Begin, IInv, Typed
<1> DEFINE t == test'
           f == Frame(t, 1)
<1>4. Len(t) \in Nat \ {0} /\ DOMAIN t = 1..Len(t) /\ t # <<>>
  BY <1>2, Shape DEF Test
<1>5. /\ f.node = 1 /\ f.kid = 1 /\ f.again = FALSE /\ f.res = (t[1].type = "allof")
      /\ f \in FrameType
  BY DEF Frame, FrameType
<1>6. t[1].type \in Composite => Len(t[1].kids) \in Nat
  BY <1>2, <1>4, Shape
<1> HIDE DEF f
<1>7. frames' \in Seq(FrameType) /\ Len(frames') = 1 /\ frames'[1] = f /\ frames' # <<>>
  BY <1>2, <1>5 DEF f
<1>8. Typed'
  <2>1. asked' \in Seq([node : Leaves', answer : BOOLEAN])
    BY <1>3, EmptySeq
  <2> QED BY <1>2, <1>3, <1>4, <1>7, <2>1 DEF Typed
<1>9. Calls'
  BY <1>4, <1>5, <1>7 DEF Calls
<1>10. Known(frames[1])'
  <2>1. frames'[1].node = 1 /\ frames'[1].kid = 1 /\ frames'[1].again = FALSE
        /\ frames'[1].res = (t[1].type = "allof")
    BY <1>5, <1>7
  <2>2. t[1].type \in Composite => 1 \in 1..(Len(t[1].kids) + 1)
    BY <1>6
  <2>3. 1..(1 - 1) = {}
    OBVIOUS
  <2>4. t[1].type = "allof" => frames'[1].res
    BY <2>1
  <2> QED BY <2>1, <2>2, <2>3, <2>4 DEF Known, Kids
<1>11. Returned'
  BY <1>3 DEF Returned
<1> HIDE DEF t
<1> QED BY <1>7, <1>8, <1>9, <1>10, <1>11 DEF IInv

\* What an operand's value says of the value of its node.
LEMMA AnyOfValue ==
  ASSUME Test(test), NEW n \in DOMAIN test, test[n].type = "anyof"
  PROVE  /\ \A k \in 1..Len(Kids(n)) : V[Kids(n)[k]] => V[n] = TRUE
         /\ (\A k \in 1..Len(Kids(n)) : ~V[Kids(n)[k]]) => V[n] = FALSE
<1>1. V[n] = \E k \in DOMAIN Kids(n) : V[Kids(n)[k]]
  BY NodeValue DEF ValueOf, Kids
<1>2. DOMAIN Kids(n) = 1..Len(Kids(n))
  BY Shape DEF Composite, Kids
<1> QED BY <1>1, <1>2

LEMMA AllOfValue ==
  ASSUME Test(test), NEW n \in DOMAIN test, test[n].type = "allof"
  PROVE  /\ \A k \in 1..Len(Kids(n)) : ~V[Kids(n)[k]] => V[n] = FALSE
         /\ (\A k \in 1..Len(Kids(n)) : V[Kids(n)[k]]) => V[n] = TRUE
<1>1. V[n] = \A k \in DOMAIN Kids(n) : V[Kids(n)[k]]
  BY NodeValue DEF ValueOf, Kids
<1>2. DOMAIN Kids(n) = 1..Len(Kids(n))
  BY Shape DEF Composite, Kids
<1> QED BY <1>1, <1>2

\* The innermost call goes on with the next operand.
LEMMA NextOperand ==
  ASSUME NEW f \in FrameType, Known(f), NEW n, n = f.node, Test(test), n \in DOMAIN test,
         f.kid \in 1..Len(Kids(n)), NEW g \in FrameType,
         g.node = n, g.kid = f.kid + 1, g.res = f.res, g.again = FALSE,
         \/ test[n].type = "anyof" /\ ~V[Kids(n)[f.kid]]
         \/ test[n].type = "allof" /\ V[Kids(n)[f.kid]] /\ f.res
  PROVE  Known(g)
<1>1. Len(Kids(n)) \in Nat
  BY Shape DEF Composite, Kids
<1>2. g.kid \in 1..(Len(Kids(n)) + 1)
  BY <1>1
<1>3. \A k \in 1..(g.kid - 1) : k = f.kid \/ k \in 1..(f.kid - 1)
  BY <1>1
<1>4. CASE test[n].type = "anyof" /\ ~V[Kids(n)[f.kid]]
  <2>1. \A k \in 1..(g.kid - 1) : ~V[Kids(n)[k]]
    BY <1>3, <1>4 DEF Known
  <2> QED BY <1>2, <1>4, <2>1 DEF Known
<1>5. CASE test[n].type = "allof" /\ V[Kids(n)[f.kid]] /\ f.res
  <2>1. \A k \in 1..(g.kid - 1) : V[Kids(n)[k]]
    BY <1>3, <1>5 DEF Known
  <2> QED BY <1>2, <1>5, <2>1 DEF Known
<1> QED BY <1>4, <1>5

LEMMA LeafStep == ASSUME IInv, Leaf PROVE IInv'
<1> DEFINE n == frames[1].node
<1>1. Test(test) /\ n \in DOMAIN test /\ ~Idle /\ test[n].type \notin Composite
  BY Stack DEF Leaf, Node
<1>2. V[n] = Holds(test[n], message) /\ n \in Leaves
  <2>1. n \in Leaves
    BY <1>1 DEF Leaves
  <2>2. V[n] = Answered[n]
    BY <1>1, NodeValue DEF ValueOf, Composite
  <2> QED BY <2>1, <2>2 DEF Answered
<1>3. Return(V[n])
  BY <1>2 DEF Leaf, Node, Return
<1> DEFINE e == [node |-> n, answer |-> Holds(test[n], message)]
<1>4. asked' = Append(asked, e) /\ UNCHANGED <<test, message>>
  BY DEF Leaf, Node
<1>5. asked' \in Seq([node : Leaves, answer : BOOLEAN])
  <2> DEFINE S == [node : Leaves, answer : BOOLEAN]
  <2>1. e \in S /\ asked \in Seq(S)
    BY <1>2, HoldsBoolean DEF IInv, Typed
  <2> HIDE DEF S, e
  <2>2. asked' \in Seq(S)
    BY <1>4, <2>1, AppendProperties
  <2> QED BY <2>2 DEF S
<1> QED BY <1>1, <1>3, <1>4, <1>5, ReturnStep

LEMMA OperandStep == ASSUME IInv, Operand PROVE IInv'
BY DescendStep DEF Operand

LEMMA NotStep == ASSUME IInv, Not PROVE IInv'
<1> DEFINE n == frames[1].node
<1>1. Test(test) /\ n \in DOMAIN test /\ ~Idle /\ test[n].type = "not" /\ frames[1].kid = 1
  BY Stack DEF Not, Node, Known
<1>2. value = V[Kids(n)[1]]
  BY <1>1 DEF Not, IInv, Returned, Idle, Node, Kids
<1>3. V[n] = ~value
  BY <1>1, <1>2, NodeValue DEF ValueOf, Kids
<1>4. Return(V[n]) /\ UNCHANGED <<test, message, asked>>
  BY <1>3 DEF Not, Return
<1>5. asked' \in Seq([node : Leaves, answer : BOOLEAN])
  BY <1>4 DEF IInv, Typed
<1> QED BY <1>1, <1>4, <1>5, ReturnStep

\* What is known when a value has come back to a composite node.
LEMMA Back ==
  ASSUME IInv, ~Idle, value # NONE
  PROVE  LET f == frames[1]
         IN  /\ f.kid \in 1..Len(Kids(f.node)) /\ value = V[Kids(f.node)[f.kid]]
             /\ value \in BOOLEAN
<1>1. /\ Node.type \in Composite /\ frames[1].kid \in DOMAIN Node.kids
      /\ value = V[Node.kids[frames[1].kid]] /\ value \in {NONE, TRUE, FALSE}
  BY DEF IInv, Returned, Idle, Typed
<1>2. DOMAIN Node.kids = 1..Len(Node.kids)
  BY <1>1, Stack, Shape DEF Node
<1> QED BY <1>1, <1>2 DEF Node, Kids

LEMMA AnyOfStep == ASSUME IInv, AnyOf PROVE IInv'
<1> DEFINE f == frames[1]
           n == f.node
           g == [f EXCEPT !.kid = @ + 1]
<1>1. /\ Test(test) /\ n \in DOMAIN test /\ ~Idle /\ test[n].type = "anyof"
      /\ f \in FrameType /\ Known(f) /\ UNCHANGED <<test, message, asked>>
  BY Stack DEF AnyOf, Node
<1>2. asked' \in Seq([node : Leaves, answer : BOOLEAN])
  BY <1>1 DEF IInv, Typed
<1>3. CASE value = TRUE
  <2>1. Return(TRUE)
    BY <1>3 DEF AnyOf
  <2>2. f.kid \in 1..Len(Kids(n)) /\ V[Kids(n)[f.kid]]
    BY <1>1, <1>3, Back, NoneAssumption
  <2>3. V[n] = TRUE
    BY <1>1, <2>2, AnyOfValue
  <2> QED BY <1>1, <1>2, <2>1, <2>3, ReturnStep
<1>4. CASE value = FALSE
  <2>1. Proceed(g)
    BY <1>4 DEF AnyOf
  <2>2. f.kid \in 1..Len(Kids(n)) /\ ~V[Kids(n)[f.kid]]
    BY <1>1, <1>4, Back, NoneAssumption
  <2>3. /\ g \in FrameType /\ g.node = n /\ g.kid = f.kid + 1 /\ g.res = f.res /\ g.again = FALSE
    BY <1>1 DEF FrameType, Known
  <2>4. Known(g)
    <3> HIDE DEF g
    <3> QED BY <1>1, <2>2, <2>3, NextOperand
  <2> QED BY <1>1, <2>1, <2>3, <2>4, ProceedStep
<1>5. CASE value = NONE
  <2>1. Return(FALSE) /\ f.kid > Len(Kids(n))
    BY <1>5, NoneAssumption DEF AnyOf, Node, Kids
  <2>2. \A k \in 1..Len(Kids(n)) : ~V[Kids(n)[k]]
    <3>1. f.kid = Len(Kids(n)) + 1
      <4>1. Len(Kids(n)) \in Nat
        BY <1>1, Shape DEF Composite, Kids
      <4>2. f.kid \in 1..(Len(Kids(n)) + 1)
        BY <1>1 DEF Known, Composite
      <4> QED BY <2>1, <4>1, <4>2
    <3>2. f.kid - 1 = Len(Kids(n))
      BY <1>1, <3>1, Shape DEF Composite, Kids
    <3> QED BY <1>1, <3>2 DEF Known
  <2>3. V[n] = FALSE
    BY <1>1, <2>2, AnyOfValue
  <2> QED BY <1>1, <1>2, <2>1, <2>3, ReturnStep
<1> QED BY <1>3, <1>4, <1>5 DEF IInv, Typed

LEMMA AllOfStep == ASSUME IInv, AllOf PROVE IInv'
<1> DEFINE f == frames[1]
           n == f.node
           g == [f EXCEPT !.again = TRUE, !.res = @ /\ value]
           h == [f EXCEPT !.again = FALSE, !.kid = @ + 1]
<1>1. /\ Test(test) /\ n \in DOMAIN test /\ ~Idle /\ test[n].type = "allof"
      /\ f \in FrameType /\ Known(f) /\ UNCHANGED <<test, message, asked>>
  BY Stack DEF AllOf, Node
<1>2. asked' \in Seq([node : Leaves, answer : BOOLEAN])
  BY <1>1 DEF IInv, Typed
<1>3. Len(Kids(n)) \in Nat /\ DOMAIN Kids(n) = 1..Len(Kids(n))
  BY <1>1, Shape DEF Composite, Kids
<1>4. CASE value # NONE /\ ~f.again
  <2>1. Proceed(g)
    BY <1>4 DEF AllOf
  <2>2. f.kid \in 1..Len(Kids(n)) /\ value = V[Kids(n)[f.kid]] /\ value \in BOOLEAN
    BY <1>1, <1>4, Back
  <2>3. f.res = TRUE
    BY <1>1, <1>4 DEF Known, FrameType
  <2>4. /\ g \in FrameType /\ g.node = n /\ g.kid = f.kid /\ g.again = TRUE /\ g.res = value
    BY <1>1, <2>2, <2>3 DEF FrameType
  <2>5. Known(g)
    <3> HIDE DEF g
    <3> QED BY <1>1, <1>3, <2>2, <2>4 DEF Known
  <2> QED BY <1>1, <2>1, <2>4, <2>5, ProceedStep
<1>5. CASE value = FALSE /\ f.again
  <2>1. Return(FALSE)
    BY <1>5, NoneAssumption DEF AllOf
  <2>2. f.kid \in 1..Len(Kids(n)) /\ ~V[Kids(n)[f.kid]]
    BY <1>1, <1>5, Back, NoneAssumption
  <2>3. V[n] = FALSE
    BY <1>1, <2>2, AllOfValue
  <2> QED BY <1>1, <1>2, <2>1, <2>3, ReturnStep
<1>6. CASE value = TRUE /\ f.again
  <2>1. f.kid \in 1..Len(Kids(n)) /\ V[Kids(n)[f.kid]]
    BY <1>1, <1>6, Back, NoneAssumption
  <2>2. f.res
    BY <1>1, <1>6, <2>1 DEF Known
  <2>3. Proceed(h)
    BY <1>6, <2>2, NoneAssumption DEF AllOf
  <2>4. /\ h \in FrameType /\ h.node = n /\ h.kid = f.kid + 1 /\ h.res = f.res /\ h.again = FALSE
    <3>1. f.kid + 1 \in Nat
      BY <1>1 DEF FrameType
    <3> DEFINE e == [f EXCEPT !.again = FALSE]
    <3>2. e \in FrameType /\ e.node = n /\ e.kid = f.kid /\ e.res = f.res /\ e.again = FALSE
      BY <1>1 DEF FrameType
    <3>3. h = [e EXCEPT !.kid = f.kid + 1]
      BY <1>1 DEF FrameType
    <3> HIDE DEF e, h
    <3> QED BY <3>1, <3>2, <3>3 DEF FrameType
  <2>5. Known(h)
    <3> HIDE DEF h
    <3> QED BY <1>1, <2>1, <2>2, <2>4, NextOperand
  <2> QED BY <1>1, <2>3, <2>4, <2>5, ProceedStep
<1>7. CASE value = NONE
  <2>1. Return(f.res) /\ f.kid > Len(Kids(n))
    BY <1>7, NoneAssumption DEF AllOf, Node, Kids
  <2>2. f.kid = Len(Kids(n)) + 1 /\ ~f.again /\ f.res = TRUE
    BY <1>1, <1>3, <2>1 DEF Known, Composite, FrameType
  <2>3. f.kid - 1 = Len(Kids(n))
    BY <1>3, <2>2
  <2>4. \A k \in 1..Len(Kids(n)) : V[Kids(n)[k]]
    BY <1>1, <2>3 DEF Known
  <2>5. V[n] = TRUE
    BY <1>1, <2>4, AllOfValue
  <2> QED BY <1>1, <1>2, <2>1, <2>2, <2>5, ReturnStep
<1> QED BY <1>1, <1>4, <1>5, <1>6, <1>7 DEF IInv, Typed, FrameType

LEMMA IInvStep == IInv /\ [Next]_vars => IInv'
<1> SUFFICES ASSUME IInv, [Next]_vars PROVE IInv'
  OBVIOUS
<1>1. CASE Begin
  BY <1>1, BeginStep
<1>2. CASE Leaf
  BY <1>2, LeafStep
<1>3. CASE Operand
  BY <1>3, OperandStep
<1>4. CASE Not
  BY <1>4, NotStep
<1>5. CASE AnyOf
  BY <1>5, AnyOfStep
<1>6. CASE AllOf
  BY <1>6, AllOfStep
<1>7. CASE UNCHANGED vars
  <2>1. UNCHANGED <<test, message, frames, value, asked>>
    BY <1>7 DEF vars
  <2>2. V' = V /\ Leaves' = Leaves /\ \A f : Known(f)' = Known(f)
    BY <2>1, SameValues
  <2>3. Typed' /\ Calls'
    BY <2>1, <2>2 DEF IInv, Typed, Calls, Kids
  <2>4. Returned'
    BY <2>1, <2>2 DEF IInv, Returned, Node
  <2> QED BY <2>1, <2>2, <2>3, <2>4 DEF IInv
<1> QED BY <1>1, <1>2, <1>3, <1>4, <1>5, <1>6, <1>7 DEF Next, Evaluate

LEMMA Invariant == Spec => []IInv
<1> QED BY InitIInv, IInvStep, PTL DEF Spec

-----------------------------------------------------------------------------
\* Every call is at a node of the test and, if that has operands, at one of them
\* or behind the last; every answer is one to a leaf (static_evaltest).
THEOREM TypesAreKept == Spec => []TypeOK
<1>1. IInv => TypeOK
  <2> SUFFICES ASSUME IInv PROVE TypeOK
    OBVIOUS
  <2>1. value \in {NONE, TRUE, FALSE} /\ DOMAIN frames = 1..Len(frames)
    <3> DEFINE S == FrameType
    <3>1. frames \in Seq(S) /\ value \in {NONE, TRUE, FALSE}
      BY DEF IInv, Typed
    <3> HIDE DEF S
    <3> QED BY <3>1, LenProperties
  <2>2. ASSUME NEW i \in 1..Len(frames)
        PROVE  /\ frames[i].node \in DOMAIN test
               /\ frames[i].again \in BOOLEAN /\ frames[i].res \in BOOLEAN
               /\ test[frames[i].node].type \in Composite =>
                    frames[i].kid \in 1..(Len(test[frames[i].node].kids) + 1)
    <3>1. frames[i] \in FrameType
      BY DEF IInv, Typed
    <3> QED BY <3>1 DEF IInv, Calls, Known, Kids, FrameType
  <2>3. ASSUME NEW i \in DOMAIN asked
        PROVE  asked[i].node \in DOMAIN test /\ test[asked[i].node].type \notin Composite
    <3> DEFINE S == [node : Leaves, answer : BOOLEAN]
    <3>1. asked \in Seq(S)
      BY DEF IInv, Typed
    <3> HIDE DEF S
    <3>2. asked[i] \in S
      BY <3>1, LenProperties, ElementOfSeq
    <3> QED BY <3>2 DEF S, Leaves
  <2> QED BY <2>1, <2>2, <2>3 DEF TypeOK
<1> QED BY <1>1, Invariant, PTL

\* Whatever the test and the message, and however anyof, allof and not are
\* nested, static_evaltest returns the value of the test, which the answers to
\* its leaves determine.
THEOREM EvaluationEndsWithTheValue == Spec => []Verdict
<1>1. IInv => Verdict
  BY DEF IInv, Returned, Verdict, Done, Idle, V, Truth
<1> QED BY <1>1, Invariant, PTL

-----------------------------------------------------------------------------
(* The steps of an evaluation, as what they do to the stack. *)

Popped ==
  /\ Len(frames') = Len(frames) - 1 /\ value' # NONE
  /\ \A i \in 1..Len(frames') : frames'[i] = frames[i + 1]
Pushed ==
  /\ Len(frames') = Len(frames) + 1 /\ value' = NONE
  /\ frames'[1].node = Node.kids[frames[1].kid] /\ frames'[1].kid = 1 /\ ~frames'[1].again
  /\ \A i \in 2..Len(frames') : frames'[i] = frames[i - 1]
Replaced ==
  /\ Len(frames') = Len(frames) /\ value' = NONE
  /\ frames'[1].node = frames[1].node
  /\ \A i \in 2..Len(frames') : frames'[i] = frames[i]

\* An operand with this value ends an anyof or an allof.
Decides(n, v) == (test[n].type = "anyof" /\ v) \/ (test[n].type = "allof" /\ ~v)

LeafEnds ==
  /\ Node.type \notin Composite /\ value = NONE /\ Popped
  /\ asked' = Append(asked, [node |-> frames[1].node, answer |-> Holds(Node, message)])
NodeEnds ==
  /\ Node.type \in Composite /\ Popped /\ UNCHANGED asked
  /\ \/ frames[1].kid > Len(Node.kids)
     \/ /\ value # NONE
        /\ Decides(frames[1].node, value) \/ frames[1].kid = Len(Node.kids)
NodeDescends ==
  /\ Node.type \in Composite /\ value = NONE /\ frames[1].kid \in 1..Len(Node.kids)
  /\ Pushed /\ UNCHANGED asked
NodeGoesOn ==
  /\ Node.type \in Composite /\ value # NONE /\ frames[1].kid \in 1..Len(Node.kids)
  /\ Replaced /\ UNCHANGED asked
  /\ \/ /\ frames'[1].kid = frames[1].kid + 1 /\ ~frames'[1].again
        /\ ~Decides(frames[1].node, value)
        /\ frames[1].again <=> Node.type = "allof"
     \/ /\ frames'[1].kid = frames[1].kid /\ frames'[1].again
        /\ Node.type = "allof" /\ ~frames[1].again

LEMMA ReturnPops ==
  ASSUME IInv, ~Idle, NEW v \in BOOLEAN, Return(v)
  PROVE  Popped
<1>1. frames' = Tail(frames) /\ value' = v
  BY DEF Return
<1>2. Len(Tail(frames)) = Len(frames) - 1 /\ \A i \in 1..(Len(frames) - 1) : Tail(frames)[i] = frames[i + 1]
  BY Stack
<1> QED BY <1>1, <1>2, NoneAssumption DEF Popped

LEMMA ProceedReplaces ==
  ASSUME IInv, ~Idle, NEW f \in FrameType, Proceed(f), f.node = frames[1].node
  PROVE  Replaced /\ frames'[1] = f
<1>1. /\ Len(frames) \in Nat \ {0} /\ Tail(frames) \in Seq(FrameType)
      /\ Len(Tail(frames)) = Len(frames) - 1
      /\ \A i \in 1..(Len(frames) - 1) : Tail(frames)[i] = frames[i + 1]
  BY Stack
<1> DEFINE S == FrameType
           t == Tail(frames)
           b == <<f>>
<1>2. b \in Seq(S) /\ Len(b) = 1 /\ b[1] = f
  OBVIOUS
<1>3. t \in Seq(S)
  BY <1>1
<1>4. frames' = b \o t /\ value' = NONE
  BY DEF Proceed
<1>5. \A i \in 2..Len(frames) : t[i - 1] = frames[i]
  BY <1>1 DEF t
<1>6. Len(t) = Len(frames) - 1
  BY <1>1
<1> HIDE DEF S, t, b
<1>7. /\ Len(b \o t) = Len(b) + Len(t)
      /\ \A i \in 1..(Len(b) + Len(t)) :
           (b \o t)[i] = IF i <= Len(b) THEN b[i] ELSE t[i - Len(b)]
  BY <1>2, <1>3, ConcatProperties
<1>8. Len(frames') = Len(frames) /\ frames'[1] = f
  BY <1>1, <1>2, <1>4, <1>6, <1>7
<1>9. \A i \in 2..Len(frames') : frames'[i] = frames[i]
  BY <1>1, <1>2, <1>4, <1>5, <1>6, <1>7, <1>8
<1> QED BY <1>4, <1>8, <1>9 DEF Replaced

LEMMA DescendPushes ==
  ASSUME IInv, ~Idle, Descend, Node.kids[frames[1].kid] \in Nat
  PROVE  Pushed
<1> DEFINE n == Node.kids[frames[1].kid]
           f == Frame(test, n)
           S == FrameType
           b == <<f>>
<1>1. Len(frames) \in Nat \ {0} /\ frames \in Seq(S)
  BY Stack DEF IInv, Typed
<1>2. f.node = n /\ f.kid = 1 /\ ~f.again /\ f \in S
  BY DEF Frame, FrameType
<1>3. frames' = b \o frames /\ value' = NONE
  BY DEF Descend
<1> HIDE DEF f, S
<1>4. b \in Seq(S) /\ Len(b) = 1 /\ b[1] = f
  BY <1>2
<1> HIDE DEF b, n
<1>5. /\ Len(b \o frames) = Len(b) + Len(frames)
      /\ \A i \in 1..(Len(b) + Len(frames)) :
           (b \o frames)[i] = IF i <= Len(b) THEN b[i] ELSE frames[i - Len(b)]
  BY <1>1, <1>4, ConcatProperties
<1>6. Len(frames') = Len(frames) + 1 /\ frames'[1] = f
  BY <1>1, <1>3, <1>4, <1>5
<1>7. \A i \in 2..Len(frames') : frames'[i] = frames[i - 1]
  BY <1>1, <1>3, <1>4, <1>5, <1>6
<1> QED BY <1>2, <1>3, <1>6, <1>7 DEF Pushed, n

LEMMA Steps ==
  ASSUME IInv, Evaluate
  PROVE  /\ ~Idle /\ UNCHANGED <<test, message>>
         /\ LeafEnds \/ NodeEnds \/ NodeDescends \/ NodeGoesOn
<1> DEFINE f == frames[1]
           n == f.node
<1>1. ~Idle /\ UNCHANGED <<test, message>>
  BY DEF Evaluate, Leaf, Operand, Not, AnyOf, AllOf
<1>2. /\ Test(test) /\ n \in DOMAIN test /\ Known(f) /\ f \in FrameType
      /\ (Node.type \in Composite => DOMAIN Node.kids = 1..Len(Node.kids) /\ Len(Node.kids) \in Nat)
  <2>1. Test(test) /\ n \in DOMAIN test /\ Known(f) /\ f \in FrameType
    BY <1>1, Stack
  <2> QED BY <2>1, Shape DEF Node
<1>3. value # NONE =>
        /\ Node.type \in Composite /\ f.kid \in 1..Len(Node.kids) /\ value \in BOOLEAN
        /\ value = V[Node.kids[f.kid]]
  BY <1>1, <1>2 DEF IInv, Typed, Returned, Idle
<1>4. CASE Leaf
  BY <1>1, <1>3, <1>4, ReturnPops, HoldsBoolean DEF Leaf, LeafEnds
<1>5. CASE Operand
  <2>1. Descend /\ f.kid \in DOMAIN Node.kids /\ Node.type \in Composite /\ value = NONE /\ UNCHANGED asked
    BY <1>5 DEF Operand
  <2>2. Node.kids[f.kid] \in Nat
    BY <1>2, <2>1, Shape, SMTT(30) DEF Node
  <2> QED BY <1>1, <1>2, <2>1, <2>2, DescendPushes DEF NodeDescends
<1>6. CASE Not
  <2>1. Return(~value) /\ value # NONE /\ Node.type = "not" /\ UNCHANGED asked
    BY <1>6 DEF Not
  <2>2. f.kid = 1 /\ Len(Node.kids) = 1
    BY <1>2, <2>1, Shape DEF Node, Known, Composite
  <2>3. Popped
    BY <1>1, <1>3, <2>1, ReturnPops
  <2> QED BY <1>1, <1>3, <2>1, <2>2, <2>3 DEF NodeEnds
<1>7. CASE AnyOf
  <2>1. Node.type = "anyof" /\ Node.type \in Composite /\ UNCHANGED asked /\ ~f.again
    BY <1>2, <1>7 DEF AnyOf, Composite, Node, Known
  <2>2. CASE value = TRUE
    <3>1. Return(TRUE)
      BY <1>7, <2>2 DEF AnyOf
    <3>2. Decides(n, value) /\ value # NONE
      BY <2>1, <2>2, NoneAssumption DEF Decides, Node
    <3> QED BY <1>1, <2>1, <3>1, <3>2, ReturnPops DEF NodeEnds
  <2>3. CASE value = FALSE
    <3> DEFINE g == [f EXCEPT !.kid = @ + 1]
    <3>1. Proceed(g)
      BY <1>7, <2>3 DEF AnyOf
    <3>2. g \in FrameType /\ g.node = n /\ g.kid = f.kid + 1 /\ g.again = f.again
      BY <1>2 DEF FrameType
    <3> HIDE DEF g
    <3>3. Replaced /\ frames'[1] = g
      BY <1>1, <3>1, <3>2, ProceedReplaces
    <3>4. ~Decides(n, value) /\ value # NONE
      BY <2>1, <2>3, NoneAssumption DEF Decides, Node
    <3>5. ~g.again /\ (f.again <=> Node.type = "allof")
      BY <2>1, <3>2
    <3> QED BY <1>1, <1>3, <2>1, <3>2, <3>3, <3>4, <3>5 DEF NodeGoesOn
  <2>4. CASE value = NONE
    BY <1>1, <1>7, <2>1, <2>4, ReturnPops, NoneAssumption DEF AnyOf, NodeEnds
  <2> QED BY <1>3, <2>2, <2>3, <2>4
<1>8. CASE AllOf
  <2>1. Node.type = "allof" /\ Node.type \in Composite /\ UNCHANGED asked
    BY <1>8 DEF AllOf, Composite
  <2>2. CASE value # NONE /\ ~f.again
    <3> DEFINE g == [f EXCEPT !.again = TRUE, !.res = @ /\ value]
    <3>1. Proceed(g)
      BY <1>8, <2>2 DEF AllOf
    <3>2. g \in FrameType /\ g.node = n /\ g.kid = f.kid /\ g.again = TRUE
      <4>1. (f.res /\ value) \in BOOLEAN
        OBVIOUS
      <4> DEFINE e == [f EXCEPT !.again = TRUE]
      <4>2. e \in FrameType /\ e.node = n /\ e.kid = f.kid /\ e.again = TRUE /\ e.res = f.res
        BY <1>2 DEF FrameType
      <4>3. g = [e EXCEPT !.res = f.res /\ value]
        BY <1>2 DEF FrameType
      <4> HIDE DEF e, g
      <4> QED BY <4>1, <4>2, <4>3 DEF FrameType
    <3> HIDE DEF g
    <3>3. Replaced /\ frames'[1] = g
      BY <1>1, <3>1, <3>2, ProceedReplaces
    <3>4. g.again
      BY <3>2
    <3> QED BY <1>1, <1>3, <2>1, <2>2, <3>2, <3>3, <3>4 DEF NodeGoesOn
  <2>3. CASE value = FALSE /\ f.again
    <3>1. Return(FALSE)
      BY <1>8, <2>3, NoneAssumption DEF AllOf
    <3>2. Decides(n, value) /\ value # NONE
      BY <2>1, <2>3, NoneAssumption DEF Decides, Node
    <3> QED BY <1>1, <2>1, <3>1, <3>2, ReturnPops DEF NodeEnds
  <2>4. CASE value = TRUE /\ f.again
    <3> DEFINE g == [f EXCEPT !.again = FALSE, !.kid = @ + 1]
    <3>1. f.res
      BY <1>2, <1>3, <2>1, <2>4, NoneAssumption DEF Known, Node, Kids
    <3>2. Proceed(g)
      BY <1>8, <2>4, <3>1, NoneAssumption DEF AllOf
    <3>3. g \in FrameType /\ g.node = n /\ g.kid = f.kid + 1 /\ g.again = FALSE
      <4>1. f.kid + 1 \in Nat
        BY <1>2 DEF FrameType
      <4> DEFINE e == [f EXCEPT !.again = FALSE]
      <4>2. e \in FrameType /\ e.node = n /\ e.kid = f.kid /\ e.again = FALSE
        BY <1>2 DEF FrameType
      <4>3. g = [e EXCEPT !.kid = f.kid + 1]
        BY <1>2 DEF FrameType
      <4> HIDE DEF e, g
      <4> QED BY <4>1, <4>2, <4>3 DEF FrameType
    <3> HIDE DEF g
    <3>4. Replaced /\ frames'[1] = g
      BY <1>1, <3>2, <3>3, ProceedReplaces
    <3>5. ~Decides(n, value) /\ value # NONE
      BY <2>1, <2>4, NoneAssumption DEF Decides, Node
    <3>6. ~g.again /\ (f.again <=> Node.type = "allof")
      BY <2>1, <2>4, <3>3
    <3> QED BY <1>1, <1>3, <2>1, <3>3, <3>4, <3>5, <3>6 DEF NodeGoesOn
  <2>5. CASE value = NONE
    <3>1. f.kid > Len(Node.kids) /\ Return(f.res) /\ f.res \in BOOLEAN
      BY <1>2, <1>8, <2>5, NoneAssumption DEF AllOf, FrameType
    <3> QED BY <1>1, <2>1, <3>1, ReturnPops DEF NodeEnds
  <2> QED BY <1>2, <1>3, <2>2, <2>3, <2>4, <2>5 DEF FrameType
<1> QED BY <1>1, <1>4, <1>5, <1>6, <1>7, <1>8 DEF Evaluate

-----------------------------------------------------------------------------
(* How often the client is asked. *)

Asks(n)     == Cardinality({i \in DOMAIN asked : asked[i].node = n})
Times(m, x) == IF test[m].type = "allof" THEN 2 * x ELSE x

\* How often the call at place i of the stack has begun to evaluate its operand
\* k, itself and by the calls that it made.
Turns(i, k) ==
  LET f == frames[i]
  IN  IF k < f.kid THEN Times(f.node, 1)
      ELSE IF k > f.kid THEN 0
      ELSE (IF f.again THEN 1 ELSE 0) + (IF i > 1 \/ value # NONE THEN 1 ELSE 0)

\* A count of the calls that each node has had: every call of a node that ended
\* called an operand once, or twice if it is an allof, and those on the stack
\* as often as they say.
Called(e) ==
  /\ e \in [1..Len(test) -> Nat]
  /\ test # <<>> => e[1] <= 1
  /\ \A m \in Inner(test) : \A k \in 1..Len(Kids(m)) : e[Kids(m)[k]] <= Times(m, e[m])
CalledByStack(e) ==
  \A i \in 1..Len(frames) :
    LET m == frames[i].node
    IN  test[m].type \in Composite => \A k \in 1..Len(Kids(m)) :
          e[Kids(m)[k]] <= Times(m, e[m] - 1) + Turns(i, k)
Answering(e) ==
  \A n \in Leaves :
    IF Len(frames) > 0 /\ frames[1].node = n THEN Asks(n) + 1 <= e[n] ELSE Asks(n) <= e[n]
Counted == \E e : Called(e) /\ CalledByStack(e) /\ Answering(e)

\* What depends on the test alone.
LEMMA SameTest ==
  ASSUME UNCHANGED <<test, message>>
  PROVE  /\ Leaves' = Leaves /\ Inner(test)' = Inner(test) /\ Path' = Path
         /\ \A n : Kids(n)' = Kids(n)
         /\ \A m, x : Times(m, x)' = Times(m, x)
<1>1. Leaves' = Leaves
  BY DEF Leaves
<1>2. \A n : Kids(n)' = Kids(n)
  BY DEF Kids
<1>3. \A m, x : Times(m, x)' = Times(m, x)
  BY DEF Times
<1>4. Path' = Path
  BY DEF Path, Above, Inner
<1> QED BY <1>1, <1>2, <1>3, <1>4

LEMMA AsksAreNumbers ==
  ASSUME IInv, NEW n
  PROVE  Asks(n) \in Nat /\ IsFiniteSet({i \in DOMAIN asked : asked[i].node = n})
         /\ Len(asked) \in Nat /\ DOMAIN asked = 1..Len(asked)
<1> DEFINE S == [node : Leaves, answer : BOOLEAN]
<1>1. asked \in Seq(S)
  BY DEF IInv, Typed
<1> HIDE DEF S
<1>2. Len(asked) \in Nat /\ DOMAIN asked = 1..Len(asked)
  BY <1>1, LenProperties
<1>3. IsFiniteSet(1..Len(asked))
  BY <1>2, FS_Interval
<1>4. {i \in DOMAIN asked : asked[i].node = n} \subseteq 1..Len(asked)
  BY <1>2
<1>5. IsFiniteSet({i \in DOMAIN asked : asked[i].node = n})
  BY <1>3, <1>4, FS_Subset
<1> QED BY <1>2, <1>5, FS_CardinalityType DEF Asks

LEMMA Appended ==
  ASSUME IInv, NEW a, asked' = Append(asked, a)
  PROVE  /\ Len(asked) \in Nat /\ DOMAIN asked = 1..Len(asked)
         /\ DOMAIN asked' = 1..(Len(asked) + 1) /\ asked'[Len(asked) + 1] = a
         /\ \A i \in 1..Len(asked) : asked'[i] = asked[i]
<1>1. Len(asked) \in Nat /\ DOMAIN asked = 1..Len(asked)
  BY AsksAreNumbers
<1> DEFINE S == {a} \cup [node : Leaves, answer : BOOLEAN]
<1>2. asked \in Seq(S) /\ a \in S
  <2> DEFINE T == [node : Leaves, answer : BOOLEAN]
  <2>1. asked \in Seq(T) /\ T \subseteq S
    BY DEF IInv, Typed
  <2> HIDE DEF S, T
  <2>2. asked \in Seq(S)
    BY <2>1
  <2> QED BY <2>2 DEF S
<1> HIDE DEF S
<1>3. /\ asked' \in Seq(S) /\ Len(asked') = Len(asked) + 1 /\ asked'[Len(asked) + 1] = a
      /\ \A i \in 1..Len(asked) : asked'[i] = asked[i]
  BY <1>2, AppendProperties
<1> QED BY <1>1, <1>3, LenProperties

LEMMA OneMore ==
  ASSUME IInv, NEW a, asked' = Append(asked, a)
  PROVE  \A n : Asks(n)' = IF n = a.node THEN Asks(n) + 1 ELSE Asks(n)
<1>1. /\ Len(asked) \in Nat /\ DOMAIN asked = 1..Len(asked)
      /\ DOMAIN asked' = 1..(Len(asked) + 1) /\ asked'[Len(asked) + 1] = a
      /\ \A i \in 1..Len(asked) : asked'[i] = asked[i]
  BY Appended
<1> SUFFICES ASSUME NEW n
             PROVE  Asks(n)' = IF n = a.node THEN Asks(n) + 1 ELSE Asks(n)
  OBVIOUS
<1> DEFINE s == {i \in DOMAIN asked : asked[i].node = n}
           t == {i \in DOMAIN asked' : asked'[i].node = n}
           l == Len(asked) + 1
<1>3. IsFiniteSet(s) /\ l \notin s /\ Cardinality(s) = Asks(n)
  <2>1. IsFiniteSet(s)
    BY AsksAreNumbers
  <2>2. l \notin s
    BY <1>1
  <2>3. Cardinality(s) = Asks(n)
    BY DEF Asks
  <2> QED BY <2>1, <2>2, <2>3
<1>4. t = IF n = a.node THEN s \cup {l} ELSE s
  <2>1. \A i \in 1..l : i = l \/ i \in 1..Len(asked)
    BY <1>1
  <2> QED BY <1>1, <2>1
<1>5. Asks(n)' = Cardinality(t)
  BY DEF Asks
<1> HIDE DEF s, t, l
<1> QED BY <1>3, <1>4, <1>5, FS_AddElement

\* Below the innermost call there are others, of the nodes above its own.
LEMMA Below ==
  ASSUME IInv, NEW i \in 1..Len(frames)
  PROVE  /\ Test(test) /\ frames[1].node \in 1..Len(test) /\ frames[i].node \in 1..Len(test)
         /\ frames[i].node \in Path[frames[1].node]
         /\ i > 1 => /\ frames[i].node < frames[1].node /\ frames[i].node \in Inner(test)
                     /\ frames[i].kid \in 1..Len(Kids(frames[i].node))
                     /\ frames[i - 1].node = Kids(frames[i].node)[frames[i].kid]
                     /\ Kids(frames[i].node)[frames[i].kid] \in Path[frames[1].node]
<1> DEFINE N == Len(frames)
           top == frames[1].node
           Fits(j) == /\ frames[j].node \in Path[top]
                      /\ j > 1 => frames[j].node < top
                      /\ j > 1 => Kids(frames[j].node)[frames[j].kid] \in Path[top]
           Bad == {j \in 1..N : ~Fits(j)}
<1>1. /\ frames \in Seq(FrameType) /\ N \in Nat /\ Test(test) /\ DOMAIN test = 1..Len(test)
      /\ Len(test) \in Nat
  <2>1. frames \in Seq(FrameType)
    BY DEF IInv, Typed
  <2>2. N \in Nat
    <3> DEFINE S == FrameType
    <3>1. frames \in Seq(S)
      BY <2>1
    <3> HIDE DEF S
    <3> QED BY <3>1, LenProperties
  <2>3. ~Idle
    BY <2>2, EmptySeq DEF Idle
  <2> QED BY <2>1, <2>2, <2>3, Stack, Operands
<1>2. \A j \in 1..N : frames[j].node \in 1..Len(test)
  BY <1>1 DEF IInv, Calls
<1>3. ASSUME NEW j \in 2..N
      PROVE  /\ frames[j].node \in Inner(test)
             /\ frames[j].kid \in 1..Len(Kids(frames[j].node))
             /\ frames[j - 1].node = Kids(frames[j].node)[frames[j].kid]
  <2>1. /\ test[frames[j].node].type \in Composite
        /\ frames[j].kid \in DOMAIN Kids(frames[j].node)
        /\ frames[j - 1].node = Kids(frames[j].node)[frames[j].kid]
    BY DEF IInv, Calls
  <2>2. frames[j].node \in Inner(test)
    BY <1>1, <1>2, <2>1 DEF Inner
  <2> QED BY <1>1, <2>1, <2>2, Operands
<1>4. Fits(1)
  BY <1>1, <1>2, Under
<1>5. ASSUME NEW j \in 2..N, Fits(j - 1) PROVE Fits(j)
  <2> DEFINE m == frames[j].node
             c == frames[j - 1].node
  <2>1. m \in Inner(test) /\ frames[j].kid \in 1..Len(Kids(m)) /\ c = Kids(m)[frames[j].kid]
    BY <1>3
  <2>2. c \in Path[top] /\ j - 1 \in 1..N /\ top \in 1..Len(test)
    BY <1>1, <1>2, <1>5
  <2>3. c <= top /\ m < c /\ m \in Path[c] /\ m \in 1..Len(test) /\ c \in 1..Len(test)
    <3> HIDE DEF m, c, top
    <3> QED BY <1>1, <2>1, <2>2, Under, UnderOperand
  <2>4. m \in Path[top]
    BY <1>1, <2>2, <2>3, Under
  <2> QED BY <2>1, <2>2, <2>3, <2>4
<1>6. Bad = {}
  <2> SUFFICES ASSUME Bad # {} PROVE FALSE
    OBVIOUS
  <2>1. PICK j \in Bad : \A k \in Bad : j <= k
    <3>1. Bad \subseteq Nat
      OBVIOUS
    <3> HIDE DEF Bad
    <3> QED BY <3>1, Least
  <2> HIDE DEF Fits
  <2>2. j \in 2..N
    BY <1>1, <1>4, <2>1
  <2>3. j - 1 \in 1..N /\ ~(j <= j - 1)
    BY <1>1, <2>2
  <2>4. Fits(j - 1)
    BY <2>1, <2>3
  <2> QED BY <1>5, <2>1, <2>2, <2>4
<1>7. Fits(i)
  BY <1>6
<1>8. i > 1 => i \in 2..N
  BY <1>1
<1> QED BY <1>1, <1>2, <1>3, <1>7, <1>8

LEMMA MoreTimes ==
  ASSUME NEW m, NEW x \in Int, NEW y \in Int, x <= y
  PROVE  Times(m, x) \in Int /\ Times(m, x) <= Times(m, y) /\ Times(m, y) \in Int
BY DEF Times

LEMMA BelowIsInner ==
  ASSUME IInv, NEW i \in 2..Len(frames)
  PROVE  frames[i].node \in Inner(test) /\ frames[i].node \notin Leaves
<1>1. Len(frames) \in Nat
  BY Stack, EmptySeq DEF Idle
<1>2. i \in 1..Len(frames) /\ i > 1
  BY <1>1
<1>3. frames[i].node \in Inner(test)
  BY <1>2, Below
<1> QED BY <1>3 DEF Inner, Leaves

\* A call that ends leaves the counts as they are.
LEMMA CountedPop ==
  ASSUME IInv, ~Idle, NEW e, Called(e), CalledByStack(e), Answering(e),
         Popped, UNCHANGED <<test, message>>,
         \/ Node.type \in Composite /\ UNCHANGED asked
         \/ \E a : asked' = Append(asked, a) /\ a.node = frames[1].node
  PROVE  Counted'
<1>1. Len(frames) \in Nat \ {0} /\ Test(test)
  BY Stack
<1>2. /\ Leaves' = Leaves /\ Inner(test)' = Inner(test)
      /\ (\A n : Kids(n)' = Kids(n)) /\ \A m, x : Times(m, x)' = Times(m, x)
  BY SameTest
<1>3. /\ Len(frames') = Len(frames) - 1 /\ value' # NONE
      /\ \A i \in 1..Len(frames') : frames'[i] = frames[i + 1]
  BY DEF Popped
<1>4. Called(e)'
  BY <1>2 DEF Called
<1>5. CalledByStack(e)'
  <2> SUFFICES ASSUME NEW i \in 1..Len(frames'), NEW m, m = frames'[i].node,
                      test[m].type \in Composite, NEW k \in 1..Len(Kids(m))
               PROVE  e[Kids(m)[k]] <= Times(m, e[m] - 1) + Turns(i, k)'
    BY <1>2 DEF CalledByStack
  <2>1. i + 1 \in 1..Len(frames) /\ i + 1 > 1 /\ frames'[i] = frames[i + 1]
    BY <1>1, <1>3
  <2>2. Turns(i, k)' = Turns(i + 1, k)
    BY <1>2, <1>3, <2>1 DEF Turns
  <2>3. e[Kids(m)[k]] <= Times(m, e[m] - 1) + Turns(i + 1, k)
    BY <2>1 DEF CalledByStack
  <2> QED BY <2>2, <2>3
<1>6. Answering(e)'
  <2> SUFFICES ASSUME NEW n \in Leaves
               PROVE  IF Len(frames') > 0 /\ frames'[1].node = n THEN Asks(n)' + 1 <= e[n]
                                                              ELSE Asks(n)' <= e[n]
    BY <1>2 DEF Answering
  <2>1. ~(Len(frames') > 0 /\ frames'[1].node = n)
    <3> SUFFICES ASSUME Len(frames') > 0 PROVE frames'[1].node # n
      OBVIOUS
    <3>1. 2 \in 2..Len(frames) /\ frames'[1] = frames[2]
      BY <1>1, <1>3
    <3> QED BY <3>1, BelowIsInner
  <2>2. Asks(n)' <= e[n]
    <3>1. CASE Node.type \in Composite /\ UNCHANGED asked
      <4>1. Asks(n)' = Asks(n)
        BY <3>1 DEF Asks
      <4>2. n # frames[1].node
        BY <3>1 DEF Leaves, Node
      <4> QED BY <4>1, <4>2 DEF Answering
    <3>2. CASE \E a : asked' = Append(asked, a) /\ a.node = frames[1].node
      <4>1. Asks(n)' = IF n = frames[1].node THEN Asks(n) + 1 ELSE Asks(n)
        BY <3>2, OneMore
      <4> QED BY <1>1, <4>1 DEF Answering
    <3> QED BY <3>1, <3>2
  <2> QED BY <2>1, <2>2
<1> QED BY <1>4, <1>5, <1>6 DEF Counted

\* A new call of an operand is one more for that node.
LEMMA CountedPush ==
  ASSUME IInv, ~Idle, NEW e, Called(e), CalledByStack(e), Answering(e),
         NodeDescends, UNCHANGED <<test, message>>
  PROVE  Counted'
<1> DEFINE f == frames[1]
<1>1. /\ Len(frames) \in Nat \ {0} /\ Test(test) /\ f \in FrameType /\ Known(f)
      /\ f.node \in Inner(test)
  BY Stack DEF NodeDescends, Inner, Node
<1>2. /\ Leaves' = Leaves /\ Inner(test)' = Inner(test)
      /\ (\A n : Kids(n)' = Kids(n)) /\ \A m, x : Times(m, x)' = Times(m, x)
  BY SameTest
<1>3. PICK p, c, x :
        /\ p \in Inner(test) /\ c \in 1..Len(Kids(p)) /\ x \in 2..Len(test)
        /\ p = f.node /\ c = f.kid /\ x = Kids(p)[c]
  <2>1. f.kid \in 1..Len(Kids(f.node))
    BY DEF NodeDescends, Node, Kids
  <2> QED BY <1>1, <2>1, Operands
<1>4. /\ Len(frames') = Len(frames) + 1 /\ value' = NONE /\ value = NONE /\ UNCHANGED asked
      /\ frames'[1].node = x /\ frames'[1].kid = 1 /\ ~frames'[1].again
      /\ \A i \in 2..Len(frames') : frames'[i] = frames[i - 1]
  BY <1>3 DEF NodeDescends, Pushed, Node, Kids
<1>5. /\ e \in [1..Len(test) -> Nat] /\ Len(test) \in Nat \ {0}
      /\ e[1] <= 1
      /\ \A m \in Inner(test) :
           /\ m \in 1..Len(test)
           /\ \A k \in 1..Len(Kids(m)) : Kids(m)[k] \in 1..Len(test) /\ e[Kids(m)[k]] <= Times(m, e[m])
  <2>1. test # <<>>
    BY <1>1 DEF Test
  <2> QED BY <1>1, <2>1, Operands, UnderOperand DEF Called
<1> DEFINE d == [e EXCEPT ![x] = @ + 1]
<1>6. /\ d \in [1..Len(test) -> Nat] /\ d[x] = e[x] + 1
      /\ \A n \in 1..Len(test) :
           (n # x => d[n] = e[n]) /\ e[n] \in Nat /\ d[n] \in Nat /\ e[n] <= d[n]
  <2> DEFINE N == Len(test)
  <2>1. N \in Nat /\ e \in [1..N -> Nat] /\ x \in 1..N
    BY <1>3, <1>5
  <2> HIDE DEF N
  <2>2. \A n \in 1..N : d[n] = IF n = x THEN e[n] + 1 ELSE e[n]
    BY <2>1
  <2>3. DOMAIN d = 1..N /\ d = [n \in DOMAIN d |-> d[n]]
    BY <2>1
  <2> HIDE DEF d
  <2>4. \A n \in 1..N : e[n] \in Nat /\ d[n] \in Nat /\ e[n] <= d[n]
    BY <2>1, <2>2
  <2>5. d \in [1..N -> Nat]
    BY <2>3, <2>4
  <2> QED BY <2>1, <2>2, <2>4, <2>5 DEF N
<1> HIDE DEF d
<1>7. \A m \in Inner(test) : \A k \in 1..Len(Kids(m)) : Kids(m)[k] = x => m = p /\ k = c
  <2> SUFFICES ASSUME NEW m \in Inner(test), NEW k \in 1..Len(Kids(m)), Kids(m)[k] = x
               PROVE  m = p /\ k = c
    OBVIOUS
  <2>1. Above(x) = m
    BY <1>1, Operands
  <2>2. Above(x) = p
    BY <1>1, <1>3, Operands, SMTT(30)
  <2> QED BY <1>1, <1>3, <2>1, <2>2, Operands
<1>8. e[x] + 1 <= Times(p, e[p] - 1) + (IF f.again THEN 1 ELSE 0) + 1
  <2>1. 1 \in 1..Len(frames) /\ test[p].type \in Composite
    BY <1>1, <1>3 DEF Inner
  <2>2. e[x] <= Times(p, e[p] - 1) + Turns(1, c)
    BY <1>3, <2>1 DEF CalledByStack
  <2>3. Turns(1, c) = IF f.again THEN 1 ELSE 0
    BY <1>1, <1>3, <1>4 DEF Turns
  <2>4. e[x] \in Int /\ Times(p, e[p] - 1) \in Int
    <3>1. e[x] \in Int /\ e[p] - 1 \in Int
      BY <1>3, <1>5, <1>6, SMTT(30)
    <3> QED BY <3>1, MoreTimes
  <2> QED BY <2>2, <2>3, <2>4
<1>9. Called(d)'
  <2>1. x # 1 /\ d[1] <= 1
    BY <1>3, <1>5, <1>6, SMTT(30)
  <2>2. ASSUME NEW m \in Inner(test), NEW k \in 1..Len(Kids(m))
        PROVE  d[Kids(m)[k]] <= Times(m, d[m])
    <3>1. CASE Kids(m)[k] = x
      <4>1. m = p /\ p # x /\ p \in 1..Len(test)
        BY <1>1, <1>3, <1>7, <3>1, UnderOperand
      <4>2. f.again => test[p].type = "allof"
        BY <1>1, <1>3 DEF Known
      <4>3. e[x] + 1 <= Times(p, e[p])
        <5>1. e[x] \in Int /\ e[p] \in Int
          BY <1>3, <1>5, <1>6, <4>1
        <5>2. CASE test[p].type = "allof"
          BY <1>8, <5>1, <5>2 DEF Times
        <5>3. CASE test[p].type # "allof"
          BY <1>8, <4>2, <5>1, <5>3 DEF Times
        <5> QED BY <5>2, <5>3
      <4> QED BY <1>6, <3>1, <4>1, <4>3
    <3>2. CASE Kids(m)[k] # x
      <4>1. d[Kids(m)[k]] = e[Kids(m)[k]] /\ e[m] <= d[m] /\ e[m] \in Nat /\ d[m] \in Nat
            /\ e[Kids(m)[k]] \in Nat
        BY <1>5, <1>6, <3>2
      <4>2. e[Kids(m)[k]] <= Times(m, e[m])
        BY <1>5
      <4>3. Times(m, e[m]) <= Times(m, d[m]) /\ Times(m, e[m]) \in Int /\ Times(m, d[m]) \in Int
        BY <4>1, MoreTimes
      <4> QED BY <4>1, <4>2, <4>3
    <3> QED BY <3>1, <3>2
  <2> QED BY <1>2, <1>6, <2>1, <2>2 DEF Called
<1>10. CalledByStack(d)'
  <2> SUFFICES ASSUME NEW i \in 1..Len(frames'), NEW m, m = frames'[i].node,
                      test[m].type \in Composite, NEW k \in 1..Len(Kids(m))
               PROVE  d[Kids(m)[k]] <= Times(m, d[m] - 1) + Turns(i, k)'
    BY <1>2 DEF CalledByStack
  <2>1. CASE i = 1
    <3>1. m = x /\ m \in Inner(test) /\ Kids(m)[k] # x /\ k >= 1
      <4>1. m = x /\ m \in Inner(test)
        BY <1>3, <1>4, <1>1, <2>1, Operands, SMTT(30) DEF Inner
      <4> QED BY <1>1, <4>1, UnderOperand
    <3>2. d[Kids(m)[k]] <= Times(m, e[m])
      BY <1>5, <1>6, <3>1
    <3>3. d[m] - 1 = e[m]
      <4>1. d[x] = e[x] + 1 /\ e[x] \in Nat
        BY <1>3, <1>6
      <4> QED BY <3>1, <4>1
    <3>4. Turns(i, k)' = 0
      BY <1>4, <2>1, <3>1 DEF Turns
    <3>5. d[Kids(m)[k]] \in Nat /\ e[m] \in Nat
      BY <1>5, <1>6, <3>1
    <3> QED BY <3>2, <3>3, <3>4, <3>5 DEF Times
  <2>2. CASE i # 1
    <3> DEFINE j == i - 1
    <3>1. j \in 1..Len(frames) /\ frames'[i] = frames[j] /\ i > 1
      BY <1>1, <1>4, <2>2
    <3>2. m \in Inner(test) /\ m = frames[j].node
      BY <1>1, <3>1, Below, Operands DEF Inner
    <3>3. e[Kids(m)[k]] <= Times(m, e[m] - 1) + Turns(j, k)
      BY <3>1, <3>2 DEF CalledByStack
    <3> HIDE DEF j
    <3>4. CASE Kids(m)[k] = x
      <4>1. m = p /\ k = c
        BY <1>7, <3>2, <3>4
      <4>2. j = 1
        <5>1. ~(j > 1)
          <6> SUFFICES ASSUME j > 1 PROVE FALSE
            OBVIOUS
          <6>1. frames[j].node < frames[1].node
            BY <3>1, Below
          <6>2. frames[j].node = frames[1].node /\ frames[1].node \in Nat
            BY <1>1, <1>3, <3>2, <4>1 DEF FrameType
          <6> QED BY <6>1, <6>2
        <5> QED BY <3>1, <5>1
      <4>3. Turns(i, k)' = (IF f.again THEN 1 ELSE 0) + 1
        BY <1>1, <1>3, <3>1, <4>1, <4>2 DEF Turns
      <4>4. p # x /\ p \in 1..Len(test)
        BY <1>1, <1>3, UnderOperand
      <4>5. d[x] = e[x] + 1 /\ d[p] = e[p]
        BY <1>6, <4>4
      <4> QED BY <1>3, <1>5, <1>8, <3>4, <4>1, <4>3, <4>4, <4>5, SMTT(30) DEF Times
    <3>5. CASE Kids(m)[k] # x
      <4>1. d[Kids(m)[k]] = e[Kids(m)[k]] /\ e[m] <= d[m] /\ e[m] \in Nat /\ d[m] \in Nat
            /\ e[Kids(m)[k]] \in Nat
        BY <1>5, <1>6, <3>2, <3>5
      <4>2. Turns(i, k)' >= Turns(j, k) /\ Turns(i, k)' \in Int /\ Turns(j, k) \in Int
        <5>1. Times(m, 1) \in Int
          BY MoreTimes
        <5>2. Times(m, 1)' = Times(m, 1)
          BY <1>2
        <5> QED BY <1>4, <3>1, <3>2, <5>1, <5>2 DEF Turns
      <4>3. Times(m, e[m] - 1) <= Times(m, d[m] - 1)
            /\ Times(m, e[m] - 1) \in Int /\ Times(m, d[m] - 1) \in Int
        <5>1. e[m] - 1 \in Int /\ d[m] - 1 \in Int /\ e[m] - 1 <= d[m] - 1
          BY <4>1
        <5> QED BY <5>1, MoreTimes
      <4> QED BY <3>3, <4>1, <4>2, <4>3
    <3> QED BY <3>4, <3>5
  <2> QED BY <2>1, <2>2
<1>11. Answering(d)'
  <2> SUFFICES ASSUME NEW n \in Leaves
               PROVE  IF Len(frames') > 0 /\ frames'[1].node = n THEN Asks(n)' + 1 <= d[n]
                                                              ELSE Asks(n)' <= d[n]
    BY <1>2 DEF Answering
  <2>1. Asks(n)' = Asks(n) /\ Asks(n) \in Nat
    BY <1>4, AsksAreNumbers DEF Asks
  <2>2. n # p /\ n \in 1..Len(test)
    BY <1>1, <1>3, Operands DEF Leaves, Inner
  <2>3. Asks(n) <= e[n]
    BY <1>3, <2>2 DEF Answering
  <2>4. CASE n = x
    BY <1>5, <1>6, <2>1, <2>2, <2>3, <2>4
  <2>5. CASE n # x
    BY <1>4, <1>6, <2>1, <2>2, <2>3, <2>5
  <2> QED BY <2>4, <2>5
<1> QED BY <1>9, <1>10, <1>11 DEF Counted

\* A call that goes on has called its operand as often as it is going to.
LEMMA CountedReplace ==
  ASSUME IInv, ~Idle, NEW e, Called(e), CalledByStack(e), Answering(e),
         NodeGoesOn, UNCHANGED <<test, message>>
  PROVE  Counted'
<1> DEFINE f == frames[1]
           g == frames'[1]
<1>1. /\ Len(frames) \in Nat \ {0} /\ Test(test) /\ f \in FrameType /\ Known(f)
      /\ f.node \in Inner(test)
  BY Stack DEF NodeGoesOn, Inner, Node
<1>2. /\ Leaves' = Leaves /\ Inner(test)' = Inner(test)
      /\ (\A n : Kids(n)' = Kids(n)) /\ \A m, x : Times(m, x)' = Times(m, x)
  BY SameTest
<1>3. /\ Len(frames') = Len(frames) /\ value' = NONE /\ value # NONE /\ UNCHANGED asked
      /\ g.node = f.node /\ f.kid \in 1..Len(Kids(f.node))
      /\ \A i \in 2..Len(frames') : frames'[i] = frames[i]
      /\ \/ g.kid = f.kid + 1 /\ ~g.again /\ (f.again => test[f.node].type = "allof")
         \/ g.kid = f.kid /\ ~f.again
  BY DEF NodeGoesOn, Replaced, Node, Kids
<1>4. Called(e)'
  BY <1>2 DEF Called
<1>5. CalledByStack(e)'
  <2> SUFFICES ASSUME NEW i \in 1..Len(frames'), NEW m, m = frames'[i].node,
                      test[m].type \in Composite, NEW k \in 1..Len(Kids(m))
               PROVE  e[Kids(m)[k]] <= Times(m, e[m] - 1) + Turns(i, k)'
    BY <1>2 DEF CalledByStack
  <2>1. i \in 1..Len(frames) /\ m = frames[i].node /\ m \in Inner(test)
    <3>1. i \in 1..Len(frames) /\ m = frames[i].node
      BY <1>1, <1>3
    <3> QED BY <3>1, Below, Operands DEF Inner
  <2>2. e[Kids(m)[k]] <= Times(m, e[m] - 1) + Turns(i, k)
    BY <2>1 DEF CalledByStack
  <2>3. /\ Times(m, 1) \in Int /\ Times(m, e[m] - 1) \in Int /\ e[Kids(m)[k]] \in Int
        /\ Times(m, 1)' = Times(m, 1) /\ Times(m, 1) >= 1
        /\ test[m].type = "allof" => Times(m, 1) = 2
    <3>1. m \in 1..Len(test) /\ Kids(m)[k] \in 1..Len(test)
      BY <1>1, <2>1, UnderOperand
    <3>2. e[m] - 1 \in Int /\ e[Kids(m)[k]] \in Int
      BY <3>1 DEF Called
    <3> QED BY <1>2, <3>2, MoreTimes DEF Times
  <2>4. Turns(i, k)' \in Int /\ Turns(i, k) \in Int
    BY <1>2, <2>3, <1>1, <1>3, <2>1 DEF Turns
  <2>5. Turns(i, k)' >= Turns(i, k)
    <3>1. CASE i # 1
      <4>1. frames'[i] = frames[i] /\ i > 1
        BY <1>1, <1>3, <3>1
      <4> QED BY <2>3, <2>4, <4>1 DEF Turns
    <3>2. CASE i = 1
      <4>1. /\ Turns(1, k) = IF k < f.kid THEN Times(m, 1) ELSE IF k > f.kid THEN 0
                             ELSE (IF f.again THEN 1 ELSE 0) + 1
        BY <1>3, <2>1, <3>2 DEF Turns
      <4>2. Turns(1, k)' = IF k < g.kid THEN Times(m, 1) ELSE IF k > g.kid THEN 0
                             ELSE (IF g.again THEN 1 ELSE 0)
        BY <1>3, <2>1, <2>3, <3>2 DEF Turns
      <4>3. f.kid \in Nat /\ k \in Nat
        BY <1>1 DEF FrameType
      <4>4. CASE g.kid = f.kid + 1 /\ ~g.again /\ (f.again => test[f.node].type = "allof")
        BY <2>1, <2>3, <3>2, <4>1, <4>2, <4>3, <4>4
      <4>5. CASE g.kid = f.kid /\ ~f.again /\ g.again
        BY <2>3, <3>2, <4>1, <4>2, <4>3, <4>5
      <4> QED BY <1>3, <4>4, <4>5 DEF NodeGoesOn
    <3> QED BY <3>1, <3>2
  <2> QED BY <2>2, <2>3, <2>4, <2>5
<1>6. Answering(e)'
  <2> SUFFICES ASSUME NEW n \in Leaves
               PROVE  IF Len(frames') > 0 /\ frames'[1].node = n THEN Asks(n)' + 1 <= e[n]
                                                              ELSE Asks(n)' <= e[n]
    BY <1>2 DEF Answering
  <2>1. Asks(n)' = Asks(n)
    BY <1>3 DEF Asks
  <2>2. n # f.node
    BY <1>1 DEF Leaves, Inner
  <2> QED BY <1>3, <2>1, <2>2 DEF Answering
<1> QED BY <1>4, <1>5, <1>6 DEF Counted

LEMMA CountedInit == Init => Counted
<1> SUFFICES ASSUME Init PROVE Counted
  OBVIOUS
<1> DEFINE e == [n \in 1..Len(test) |-> 0]
<1>1. test = <<>> /\ Len(test) = 0 /\ DOMAIN test = {} /\ Len(frames) = 0
  BY DEF Init
<1>2. Leaves = {} /\ Inner(test) = {}
  BY <1>1 DEF Leaves, Inner
<1>3. e \in [1..Len(test) -> Nat]
  OBVIOUS
<1>4. 1..Len(frames) = {}
  BY <1>1
<1> HIDE DEF e
<1>5. Called(e)
  BY <1>1, <1>2, <1>3 DEF Called
<1>6. CalledByStack(e)
  BY <1>4 DEF CalledByStack
<1>7. Answering(e)
  BY <1>2 DEF Answering
<1> QED BY <1>5, <1>6, <1>7 DEF Counted

LEMMA CountedBegin == ASSUME IInv, IInv', Begin PROVE Counted'
<1>1. PICK t : test' = t /\ Test(t)
  BY SuitesAssumption DEF Begin
<1>2. frames' = <<Frame(t, 1)>> /\ asked = <<>> /\ asked' = <<>> /\ value = NONE /\ value' = NONE
  BY <1>1 DEF Begin, IInv, Typed
<1>3. /\ Len(frames') = 1 /\ frames'[1].node = 1 /\ frames'[1].kid = 1 /\ ~frames'[1].again
  BY <1>2 DEF Frame
<1>4. /\ Len(t) \in Nat \ {0} /\ DOMAIN t = 1..Len(t)
      /\ \A m \in Inner(t) :
           /\ m \in 1..Len(t) /\ Len(t[m].kids) \in Nat
           /\ \A k \in 1..Len(t[m].kids) : t[m].kids[k] \in 2..Len(t)
  <2>1. /\ Len(t) \in Nat \ {0} /\ DOMAIN t = 1..Len(t)
    BY <1>1, Shape
  <2>2. ASSUME NEW m \in Inner(t)
        PROVE  /\ m \in 1..Len(t) /\ Len(t[m].kids) \in Nat
               /\ \A k \in 1..Len(t[m].kids) : t[m].kids[k] \in 2..Len(t)
    <3>1. m \in 1..Len(t) /\ t[m].type \in Composite
      BY <2>1 DEF Inner
    <3>2. Len(t[m].kids) \in Nat /\ \A k \in 1..Len(t[m].kids) : t[m].kids[k] \in (m + 1)..Len(t)
      BY <1>1, <3>1, Shape
    <3> QED BY <3>1, <3>2
  <2> QED BY <2>1, <2>2
<1> DEFINE e == [n \in 1..Len(t) |-> IF n = 1 THEN 1 ELSE 0]
<1>5. /\ e \in [1..Len(t) -> Nat] /\ e[1] = 1
      /\ \A n \in 1..Len(t) : e[n] \in Nat
      /\ \A n \in 2..Len(t) : e[n] = 0
  <2>1. \A n \in 1..Len(t) : e[n] = IF n = 1 THEN 1 ELSE 0
    OBVIOUS
  <2>2. e \in [1..Len(t) -> Nat]
    OBVIOUS
  <2> HIDE DEF e
  <2>3. 1 \in 1..Len(t) /\ \A n \in 2..Len(t) : n \in 1..Len(t) /\ n # 1
    BY <1>4
  <2> QED BY <2>1, <2>2, <2>3
<1> HIDE DEF e
<1>6. Called(e)'
  <2>1. ASSUME NEW m \in Inner(t), NEW k \in 1..Len(t[m].kids)
        PROVE  e[t[m].kids[k]] <= (IF t[m].type = "allof" THEN 2 * e[m] ELSE e[m])
    BY <1>4, <1>5
  <2>2. e[1] <= 1
    BY <1>5
  <2> QED BY <1>1, <1>5, <2>1, <2>2 DEF Called, Kids, Times
<1>7. CalledByStack(e)'
  <2> SUFFICES ASSUME NEW i \in 1..Len(frames'), NEW m, m = frames'[i].node,
                      t[m].type \in Composite, NEW k \in 1..Len(t[m].kids)
               PROVE  e[t[m].kids[k]] <= Times(m, e[m] - 1)' + Turns(i, k)'
    BY <1>1 DEF CalledByStack, Kids
  <2>1. i = 1 /\ m = 1 /\ m \in Inner(t)
    BY <1>3, <1>4 DEF Inner
  <2>2. e[t[m].kids[k]] = 0 /\ e[m] = 1
    BY <1>4, <1>5, <2>1
  <2>3. Times(m, e[m] - 1)' = 0
    BY <2>2 DEF Times
  <2>4. Turns(i, k)' = 0
    BY <1>2, <1>3, <2>1 DEF Turns
  <2> QED BY <2>2, <2>3, <2>4
<1>8. Answering(e)'
  <2> SUFFICES ASSUME NEW n \in Leaves'
               PROVE  IF Len(frames') > 0 /\ frames'[1].node = n THEN Asks(n)' + 1 <= e[n]
                                                              ELSE Asks(n)' <= e[n]
    BY DEF Answering
  <2>1. Asks(n)' = 0
    <3>1. {i \in DOMAIN asked' : asked'[i].node = n} = {}
      BY <1>2
    <3> QED BY <3>1, FS_EmptySet DEF Asks
  <2>2. n \in 1..Len(t)
    BY <1>1, <1>4 DEF Leaves
  <2> QED BY <1>3, <1>5, <2>1, <2>2
<1> QED BY <1>6, <1>7, <1>8 DEF Counted

LEMMA CountedStep == IInv /\ IInv' /\ Counted /\ [Next]_vars => Counted'
<1> SUFFICES ASSUME IInv, IInv', Counted, [Next]_vars PROVE Counted'
  OBVIOUS
<1>1. CASE Begin
  BY <1>1, CountedBegin
<1>2. CASE Evaluate
  <2>1. ~Idle /\ UNCHANGED <<test, message>> /\ (LeafEnds \/ NodeEnds \/ NodeDescends \/ NodeGoesOn)
    BY <1>2, Steps
  <2>2. PICK e : Called(e) /\ CalledByStack(e) /\ Answering(e)
    BY DEF Counted
  <2>3. CASE LeafEnds
    <3>1. Popped /\ \E a : asked' = Append(asked, a) /\ a.node = frames[1].node
      <4> DEFINE a == [node |-> frames[1].node, answer |-> Holds(Node, message)]
      <4>1. asked' = Append(asked, a) /\ a.node = frames[1].node
        BY <2>3 DEF LeafEnds
      <4> QED BY <2>3, <4>1 DEF LeafEnds
    <3> QED BY <2>1, <2>2, <3>1, CountedPop
  <2>4. CASE NodeEnds
    BY <2>1, <2>2, <2>4, CountedPop DEF NodeEnds
  <2>5. CASE NodeDescends
    BY <2>1, <2>2, <2>5, CountedPush
  <2>6. CASE NodeGoesOn
    BY <2>1, <2>2, <2>6, CountedReplace
  <2> QED BY <2>1, <2>3, <2>4, <2>5, <2>6
<1>3. CASE UNCHANGED vars
  <2>1. UNCHANGED <<test, message>> /\ UNCHANGED <<frames, value, asked>>
    BY <1>3 DEF vars
  <2>2. /\ Leaves' = Leaves /\ Inner(test)' = Inner(test)
        /\ (\A n : Kids(n)' = Kids(n)) /\ \A m, x : Times(m, x)' = Times(m, x)
    BY <2>1, SameTest
  <2>3. \A i, k : Turns(i, k)' = Turns(i, k)
    BY <2>1, <2>2 DEF Turns
  <2>4. \A n : Asks(n)' = Asks(n)
    BY <2>1 DEF Asks
  <2>5. PICK e : Called(e) /\ CalledByStack(e) /\ Answering(e)
    BY DEF Counted
  <2>6. Called(e)'
    BY <2>1, <2>2, <2>5 DEF Called
  <2>7. CalledByStack(e)'
    BY <2>1, <2>2, <2>3, <2>5 DEF CalledByStack
  <2>8. Answering(e)'
    BY <2>1, <2>2, <2>4, <2>5 DEF Answering
  <2> QED BY <2>6, <2>7, <2>8 DEF Counted
<1> QED BY <1>1, <1>2, <1>3 DEF Next

\* The counts are within the rounds that the tree allows.
LEMMA WithinRounds ==
  ASSUME Test(test), NEW e, Called(e), NEW n \in 1..Len(test)
  PROVE  e[n] <= Rounds[n]
<1> DEFINE N == Len(test)
           Bad == {i \in 1..N : ~(e[i] <= Rounds[i])}
<1>1. /\ N \in Nat \ {0} /\ e \in [1..N -> Nat] /\ e[1] <= 1
      /\ \A m \in Inner(test) : \A k \in 1..Len(Kids(m)) : e[Kids(m)[k]] <= Times(m, e[m])
  BY Operands DEF Called, Test
<1>2. /\ Rounds \in [1..N -> Nat] /\ Rounds[1] = 1
      /\ \A i \in 2..N : Rounds[i] = Times(Above(i), Rounds[Above(i)])
  BY RoundsEquation DEF Times
<1>3. \A i \in 2..N : /\ Above(i) \in Inner(test) /\ Above(i) \in 1..(i - 1)
                      /\ \E k \in 1..Len(Kids(Above(i))) : Kids(Above(i))[k] = i
  BY Operands
<1>4. Bad = {}
  <2> SUFFICES ASSUME Bad # {} PROVE FALSE
    OBVIOUS
  <2>1. PICK i \in Bad : \A j \in Bad : i <= j
    <3>1. Bad \subseteq Nat
      OBVIOUS
    <3> HIDE DEF Bad
    <3> QED BY <3>1, Least
  <2>2. i \in 2..N
    BY <1>1, <1>2, <2>1
  <2> DEFINE a == Above(i)
  <2>3. a \in 1..N /\ ~(i <= a) /\ a \in Inner(test)
    BY <1>1, <1>3, <2>2
  <2>4. e[a] <= Rounds[a] /\ e[a] \in Int /\ Rounds[a] \in Int /\ e[i] \in Int
    <3>1. e[a] \in Nat /\ Rounds[a] \in Nat /\ e[i] \in Nat
      BY <1>1, <1>2, <2>2, <2>3
    <3>2. e[a] <= Rounds[a]
      BY <2>1, <2>3
    <3> QED BY <3>1, <3>2
  <2>5. e[i] <= Times(a, e[a])
    <3>1. PICK k \in 1..Len(Kids(a)) : Kids(a)[k] = i
      BY <1>3, <2>2
    <3> QED BY <1>1, <2>3, <3>1
  <2>6. Rounds[i] = Times(a, Rounds[a])
    BY <1>2, <2>2
  <2>7. Times(a, e[a]) <= Times(a, Rounds[a]) /\ Times(a, e[a]) \in Int /\ Times(a, Rounds[a]) \in Int
    BY <2>4, MoreTimes
  <2> HIDE DEF a
  <2>8. e[i] <= Rounds[i]
    BY <2>4, <2>5, <2>6, <2>7
  <2> QED BY <2>1, <2>8
<1> QED BY <1>4

\* However tests are nested, and whatever is answered, the client is asked about
\* a leaf at most as often as the allofs around it double: static_evaltest does
\* not repeat more than it must.
THEOREM QuestionsAreBounded == Spec => []AskedBound
<1>1. IInv /\ Counted => AskedBound
  <2> SUFFICES ASSUME IInv, Counted, NEW n \in Leaves PROVE Asks(n) <= Rounds[n]
    BY DEF AskedBound, Asks
  <2>1. PICK e : Called(e) /\ Answering(e)
    BY DEF Counted
  <2>2. Test(test) /\ DOMAIN test = 1..Len(test)
    <3>1. test # <<>>
      BY DEF Leaves
    <3> QED BY <3>1, Shape DEF IInv, Typed
  <2>3. n \in 1..Len(test) /\ e[n] <= Rounds[n]
    BY <2>1, <2>2, WithinRounds DEF Leaves
  <2>4. Asks(n) \in Nat /\ e[n] \in Nat /\ Rounds[n] \in Nat
    BY <2>1, <2>2, <2>3, RoundsEquation, AsksAreNumbers DEF Called
  <2>5. Asks(n) <= e[n]
    BY <2>1, <2>4 DEF Answering
  <2> QED BY <2>3, <2>4, <2>5
<1> QED BY <1>1, CountedInit, CountedStep, Invariant, PTL DEF Spec

-----------------------------------------------------------------------------
(* Assignments of truth values to the leaves of a test. *)

Assignment == [Leaves -> BOOLEAN]
Val(f)     == Values(test, f)

LEMMA AssignedValue ==
  ASSUME Test(test), NEW f \in Assignment, NEW n \in 1..Len(test)
  PROVE  /\ Val(f)[n] \in BOOLEAN
         /\ n \in Inner(test) \/ n \in Leaves
         /\ n \in Leaves => Val(f)[n] = f[n] /\ n \notin Inner(test)
         /\ test[n].type = "anyof" =>
              (Val(f)[n] <=> \E k \in 1..Len(Kids(n)) : Val(f)[Kids(n)[k]])
         /\ test[n].type = "allof" =>
              (Val(f)[n] <=> \A k \in 1..Len(Kids(n)) : Val(f)[Kids(n)[k]])
         /\ test[n].type = "not" => (Val(f)[n] <=> ~Val(f)[Kids(n)[1]]) /\ Len(Kids(n)) = 1
<1>1. Val(f)[n] = ValueOf(test, f, Val(f), n)
  BY Operands, ValuesEquation DEF Val
<1>2. n \in DOMAIN test /\ (n \in Inner(test) \/ n \in Leaves) /\ (n \in Leaves => n \notin Inner(test))
  BY Operands DEF Inner, Leaves
<1>3. n \in Leaves => Val(f)[n] = f[n]
  BY <1>1 DEF ValueOf, Leaves, Composite
<1>4. n \in Leaves => f[n] \in BOOLEAN
  BY DEF Assignment
<1>5. ValueOf(test, f, Val(f), n) \in BOOLEAN
  BY <1>1, <1>2, <1>3, <1>4 DEF ValueOf, Inner, Composite
<1>6. test[n].type \in Composite => n \in Inner(test) /\ DOMAIN Kids(n) = 1..Len(Kids(n))
  BY <1>2, Operands DEF Inner
<1>7. test[n].type = "not" => Len(Kids(n)) = 1
  BY <1>2, Shape DEF Kids, Composite
<1>8. /\ test[n].type = "anyof" =>
              (Val(f)[n] <=> \E k \in 1..Len(Kids(n)) : Val(f)[Kids(n)[k]])
      /\ test[n].type = "allof" =>
              (Val(f)[n] <=> \A k \in 1..Len(Kids(n)) : Val(f)[Kids(n)[k]])
      /\ test[n].type = "not" => (Val(f)[n] <=> ~Val(f)[Kids(n)[1]])
  BY <1>1, <1>6 DEF ValueOf, Kids, Composite
<1> QED BY <1>1, <1>2, <1>3, <1>5, <1>7, <1>8

LEMMA AnsweredAssigns ==
  Answered \in Assignment /\ \A n \in Leaves : Answered[n] = Holds(test[n], message)
BY HoldsBoolean DEF Answered, Assignment

\* Of a set of nodes, one has no operand in the set.
LEMMA Deepest ==
  ASSUME Test(test), NEW Bad \in SUBSET (1..Len(test)), Bad # {}
  PROVE  \E m \in Bad : m \in Inner(test) =>
           \A k \in 1..Len(Kids(m)) : Kids(m)[k] \in (1..Len(test)) \ Bad
<1> DEFINE N == Len(test)
           Depths == {N - m : m \in Bad}
<1>1. N \in Nat /\ \A m \in Bad : m \in 1..N
  BY Operands
<1>2. PICK d \in Depths : \A c \in Depths : d <= c
  <2>1. Depths \subseteq Nat
    BY <1>1
  <2>2. Depths # {}
    OBVIOUS
  <2> HIDE DEF Depths
  <2> QED BY <2>1, <2>2, Least
<1>3. PICK m \in Bad : d = N - m
  BY <1>2
<1>4. \A c \in Bad : ~(m < c)
  <2> SUFFICES ASSUME NEW c \in Bad, m < c PROVE FALSE
    OBVIOUS
  <2>1. N - c \in Depths
    OBVIOUS
  <2>2. m \in Int /\ c \in Int /\ N \in Int
    BY <1>1
  <2>3. N - m <= N - c
    BY <1>2, <1>3, <2>1
  <2> QED BY <2>2, <2>3
<1>5. m \in Inner(test) => \A k \in 1..Len(Kids(m)) : Kids(m)[k] \in 1..N /\ m < Kids(m)[k]
  BY UnderOperand
<1> QED BY <1>4, <1>5

\* The leaves that an evaluation of m under f comes to: no operand before the
\* one that leads to them decides.
Passed(f, p, n) ==
  \A k \in 1..Len(Kids(p)) : Kids(p)[k] \in Path[n] =>
    \A j \in 1..(k - 1) : ~Decides(p, Val(f)[Kids(p)[j]])
Visited(f, m) ==
  {n \in Leaves : /\ m \in Path[n]
                  /\ \A p \in Path[n] : p \in Inner(test) /\ m \in Path[p] => Passed(f, p, n)}

LEMMA VisitedLeaf ==
  ASSUME Test(test), NEW f, NEW n \in Leaves
  PROVE  Visited(f, n) = {n}
<1>1. DOMAIN test = 1..Len(test) /\ \A l \in Leaves : l \in 1..Len(test) /\ l \notin Inner(test)
  BY Operands DEF Leaves, Inner
<1>2. ASSUME NEW l \in Leaves, n \in Path[l] PROVE l = n
  BY <1>1, <1>2, Under
<1>3. n \in Path[n] /\ \A p \in Path[n] : p \in Inner(test) => n \notin Path[p]
  <2>1. n \in Path[n] /\ n \in Nat
    BY <1>1, Under
  <2>2. ASSUME NEW p \in Path[n], p \in Inner(test), n \in Path[p] PROVE FALSE
    <3>1. p \in 1..n /\ n \in 1..Len(test)
      BY <1>1, Under
    <3>2. p \in 1..Len(test)
      BY <3>1, Operands
    <3>3. n \in 1..p
      BY <2>2, <3>2, Under
    <3>4. n = p
      BY <3>1, <3>3
    <3> QED BY <1>1, <2>2, <3>4
  <2> QED BY <2>1, <2>2
<1> QED BY <1>2, <1>3 DEF Visited

\* An operand that no operand before it keeps from being evaluated.
Reached(f, m, k) == \A j \in 1..(k - 1) : ~Decides(m, Val(f)[Kids(m)[j]])

LEMMA VisitedOperand ==
  ASSUME Test(test), NEW f, NEW m \in Inner(test), NEW k \in 1..Len(Kids(m)), Reached(f, m, k)
  PROVE  Visited(f, Kids(m)[k]) \subseteq Visited(f, m)
<1> DEFINE c == Kids(m)[k]
<1>1. /\ m \in 1..Len(test) /\ c \in 1..Len(test) /\ m < c /\ Path[c] = {c} \cup Path[m]
      /\ \A n \in 1..Len(test) : c \in Path[n] => m \in Path[n]
  BY UnderOperand
<1> SUFFICES ASSUME NEW n \in Visited(f, c) PROVE n \in Visited(f, m)
  OBVIOUS
<1>2. n \in Leaves /\ n \in 1..Len(test) /\ c \in Path[n] /\ m \in Path[n]
  BY <1>1, Operands DEF Visited, Leaves
<1>3. ASSUME NEW p \in Path[n], p \in Inner(test), m \in Path[p] PROVE Passed(f, p, n)
  <2>1. CASE c \in Path[p]
    BY <1>3, <2>1 DEF Visited
  <2>2. CASE c \notin Path[p]
    <3>1. p \in 1..Len(test) /\ p \in Path[c]
      BY <1>2, <1>3, <2>2, Under, Operands
    <3>2. p # c
      BY <2>2, <3>1, Under
    <3>3. p \in Path[m]
      BY <1>1, <3>1, <3>2
    <3>4. p <= m /\ m <= p
      BY <1>1, <1>3, <3>1, <3>3, Under
    <3>5. p = m
      BY <1>1, <3>1, <3>4
    <3>6. \A i \in 1..Len(Kids(m)) : Kids(m)[i] \in Path[n] => i = k
      BY <1>2, Apart
    <3> QED BY <3>5, <3>6 DEF Passed, Reached
  <2> QED BY <2>1, <2>2
<1> QED BY <1>2, <1>3 DEF Visited

LEMMA VisitedNode ==
  ASSUME Test(test), NEW f, NEW m \in Inner(test), NEW n \in Visited(f, m)
  PROVE  \E k \in 1..Len(Kids(m)) : Reached(f, m, k) /\ n \in Visited(f, Kids(m)[k])
<1>1. n \in Leaves /\ n \in 1..Len(test) /\ m \in Path[n] /\ n \notin Inner(test) /\ m \in 1..Len(test)
  BY Operands DEF Visited, Leaves, Inner
<1>2. PICK k \in 1..Len(Kids(m)) : Kids(m)[k] \in Path[n]
  BY <1>1, Under
<1>3. m \in Path[m]
  BY <1>1, Under
<1>4. Reached(f, m, k)
  <2>1. Passed(f, m, n)
    BY <1>1, <1>3 DEF Visited
  <2> QED BY <1>2, <2>1 DEF Passed, Reached
<1>5. ASSUME NEW p \in Path[n], p \in Inner(test), Kids(m)[k] \in Path[p] PROVE Passed(f, p, n)
  <2>1. m \in Path[p]
    BY <1>5, UnderOperand, Operands
  <2> QED BY <1>5, <2>1 DEF Visited
<1> QED BY <1>1, <1>2, <1>4, <1>5 DEF Visited

\* The value depends on the leaves that the evaluation comes to, and on no others.
LEMMA Determined ==
  ASSUME Test(test), NEW f \in Assignment, NEW g \in Assignment, NEW n \in 1..Len(test),
         \A l \in Visited(g, n) : f[l] = g[l]
  PROVE  Val(f)[n] = Val(g)[n]
<1> DEFINE Bad == {m \in 1..Len(test) : (\A l \in Visited(g, m) : f[l] = g[l]) /\ Val(f)[m] # Val(g)[m]}
<1> SUFFICES ASSUME Bad # {} PROVE FALSE
  OBVIOUS
<1>1. PICK m \in Bad : m \in Inner(test) =>
        \A k \in 1..Len(Kids(m)) : Kids(m)[k] \in (1..Len(test)) \ Bad
  <2>1. Bad \in SUBSET (1..Len(test))
    OBVIOUS
  <2> HIDE DEF Bad
  <2> QED BY <2>1, Deepest
<1>2. m \in 1..Len(test) /\ (\A l \in Visited(g, m) : f[l] = g[l]) /\ Val(f)[m] # Val(g)[m]
  BY <1>1
<1>3. CASE m \in Leaves
  BY <1>2, <1>3, AssignedValue, VisitedLeaf
<1>4. CASE m \in Inner(test)
  <2>1. Len(Kids(m)) \in Nat \ {0} /\ \A k \in 1..Len(Kids(m)) : Kids(m)[k] \in 1..Len(test)
    BY <1>4, UnderOperand, Operands
  <2>2. \A k \in 1..Len(Kids(m)) : Reached(g, m, k) => Val(f)[Kids(m)[k]] = Val(g)[Kids(m)[k]]
    BY <1>1, <1>2, <1>4, <2>1, VisitedOperand
  <2> HIDE DEF Bad
  <2>3. \A k \in 1..Len(Kids(m)) :
           Val(f)[Kids(m)[k]] \in BOOLEAN /\ Val(g)[Kids(m)[k]] \in BOOLEAN
    BY <2>1, AssignedValue
  <2> DEFINE Deciding == {k \in 1..Len(Kids(m)) : Decides(m, Val(g)[Kids(m)[k]])}
  <2>4. CASE Deciding # {}
    <3>1. PICK k \in Deciding : \A j \in Deciding : k <= j
      <4>1. Deciding \subseteq Nat
        OBVIOUS
      <4> HIDE DEF Deciding
      <4> QED BY <2>4, <4>1, Least
    <3>2. k \in 1..Len(Kids(m)) /\ Reached(g, m, k)
      BY <2>1, <3>1 DEF Reached
    <3>3. Decides(m, Val(g)[Kids(m)[k]]) /\ Val(f)[Kids(m)[k]] = Val(g)[Kids(m)[k]]
      BY <2>2, <3>1, <3>2
    <3> HIDE DEF Deciding
    <3>4. CASE test[m].type = "anyof"
      <4>1. Val(f)[m] /\ Val(g)[m]
        BY <1>2, <3>2, <3>3, <3>4, AssignedValue DEF Decides
      <4> QED BY <1>2, <4>1, AssignedValue
    <3>5. CASE test[m].type = "allof"
      <4>1. ~Val(f)[m] /\ ~Val(g)[m]
        BY <1>2, <3>2, <3>3, <3>5, AssignedValue DEF Decides
      <4> QED BY <1>2, <4>1, AssignedValue
    <3> QED BY <3>3, <3>4, <3>5 DEF Decides
  <2>5. CASE Deciding = {}
    <3>1. \A k \in 1..Len(Kids(m)) : Val(f)[Kids(m)[k]] = Val(g)[Kids(m)[k]]
      <4> SUFFICES ASSUME NEW k \in 1..Len(Kids(m)) PROVE Reached(g, m, k)
        BY <2>2
      <4>1. \A j \in 1..(k - 1) : j \in 1..Len(Kids(m))
        BY <2>1
      <4> QED BY <2>5, <4>1 DEF Reached
    <3> HIDE DEF Deciding
    <3>2. test[m].type \in Composite
      BY <1>4 DEF Inner
    <3>3. CASE test[m].type = "anyof"
      <4>1. Val(f)[m] <=> Val(g)[m]
        BY <1>2, <3>1, <3>3, AssignedValue
      <4> QED BY <1>2, <4>1, AssignedValue
    <3>4. CASE test[m].type = "allof"
      <4>1. Val(f)[m] <=> Val(g)[m]
        BY <1>2, <3>1, <3>4, AssignedValue, SMTT(30)
      <4> QED BY <1>2, <4>1, AssignedValue
    <3>5. CASE test[m].type = "not"
      <4>1. 1 \in 1..Len(Kids(m))
        BY <2>1
      <4> QED BY <1>2, <3>1, <3>5, <4>1, AssignedValue
    <3> QED BY <3>2, <3>3, <3>4, <3>5 DEF Composite
  <2> QED BY <2>4, <2>5
<1> QED BY <1>2, <1>3, <1>4, AssignedValue

\* In particular on those under the node.
LEMMA Local ==
  ASSUME Test(test), NEW f \in Assignment, NEW g \in Assignment, NEW n \in 1..Len(test),
         \A l \in Leaves : n \in Path[l] => f[l] = g[l]
  PROVE  Val(f)[n] = Val(g)[n]
BY Determined DEF Visited

\* Whether the nots around a node leave its value as it is: where they do, an
\* assignment that gives one value to all such leaves, and the other to the
\* others, gives that value to the node, too.
Even ==
  CHOOSE p \in [1..Len(test) -> BOOLEAN] :
    /\ p[1] = TRUE
    /\ \A n \in 2..Len(test) : p[n] = IF test[Above(n)].type = "not" THEN ~p[Above(n)] ELSE p[Above(n)]
Forcing(b) == [l \in Leaves |-> b = Even[l]]

LEMMA EvenEquation ==
  ASSUME Test(test)
  PROVE  /\ Even \in [1..Len(test) -> BOOLEAN]
         /\ \A m \in Inner(test) : \A k \in 1..Len(Kids(m)) :
              Even[Kids(m)[k]] = IF test[m].type = "not" THEN ~Even[m] ELSE Even[m]
<1> DEFINE N == Len(test)
           D == BOOLEAN
           turn == [p \in (1..N) \X D |-> IF test[Above(p[1])].type = "not" THEN ~p[2] ELSE p[2]]
<1>1. N \in Nat \ {0} /\ \A n \in 2..N : Above(n) \in 1..(n - 1)
  BY Operands
<1>2. turn \in StepsIn(D)
  BY DEF StepsIn
<1>3. \A n \in 1..N, s \in D :
        turn[<<n, s>>] = IF test[Above(n)].type = "not" THEN ~s ELSE s
  OBVIOUS
<1> HIDE DEF turn, D
<1>4. PICK r \in [1..N -> D] : r[1] = TRUE /\ \A n \in 2..N : r[n] = turn[<<n, r[Above(n)]>>]
  <2>1. PICK yes \in D : yes = TRUE
    BY DEF D
  <2>2. \E r : Follows(r, D, yes, turn)
    BY <1>2, Upwards
  <2> QED BY <2>1, <2>2 DEF Follows
<1>5. ASSUME NEW n \in 2..N
      PROVE  r[n] = IF test[Above(n)].type = "not" THEN ~r[Above(n)] ELSE r[Above(n)]
  <2>1. n \in 1..N /\ Above(n) \in 1..N
    BY <1>1
  <2>2. r[Above(n)] \in D
    BY <2>1
  <2> QED BY <1>3, <1>4, <2>1, <2>2
<1>6. /\ Even \in [1..N -> BOOLEAN]
      /\ \A n \in 2..N : Even[n] = IF test[Above(n)].type = "not" THEN ~Even[Above(n)] ELSE Even[Above(n)]
  BY <1>4, <1>5 DEF D, Even
<1> QED BY <1>6, Operands

LEMMA Forced ==
  ASSUME Test(test), NEW b \in BOOLEAN, NEW n \in 1..Len(test)
  PROVE  Forcing(b) \in Assignment /\ (Val(Forcing(b))[n] <=> (b <=> Even[n]))
<1> DEFINE f == Forcing(b)
           Bad == {m \in 1..Len(test) : ~(Val(f)[m] <=> (b <=> Even[m]))}
<1>1. f \in Assignment /\ \A l \in Leaves : f[l] <=> (b <=> Even[l])
  <2>1. Even \in [1..Len(test) -> BOOLEAN] /\ \A l \in Leaves : l \in 1..Len(test)
    BY EvenEquation, Operands DEF Leaves
  <2> QED BY <2>1 DEF Forcing, Assignment
<1> HIDE DEF f
<1>2. Bad = {}
  <2> SUFFICES ASSUME Bad # {} PROVE FALSE
    OBVIOUS
  <2>1. PICK m \in Bad : m \in Inner(test) =>
          \A k \in 1..Len(Kids(m)) : Kids(m)[k] \in (1..Len(test)) \ Bad
    <3>1. Bad \in SUBSET (1..Len(test))
      OBVIOUS
    <3> HIDE DEF Bad
    <3> QED BY <3>1, Deepest
  <2>2. m \in 1..Len(test) /\ ~(Val(f)[m] <=> (b <=> Even[m])) /\ Even[m] \in BOOLEAN
    BY <2>1, EvenEquation
  <2>3. CASE m \in Leaves
    BY <1>1, <2>2, <2>3, AssignedValue
  <2>4. CASE m \in Inner(test)
    <3>1. Len(Kids(m)) \in Nat \ {0} /\ 1 \in 1..Len(Kids(m)) /\ test[m].type \in Composite
      BY <2>4, Operands DEF Inner
    <3>2. \A k \in 1..Len(Kids(m)) :
            (Val(f)[Kids(m)[k]] <=> (b <=> Even[Kids(m)[k]])) /\ Kids(m)[k] \in 1..Len(test)
      BY <2>1, <2>4
    <3> HIDE DEF Bad
    <3>3. \A k \in 1..Len(Kids(m)) :
            Even[Kids(m)[k]] = IF test[m].type = "not" THEN ~Even[m] ELSE Even[m]
      BY <2>4, EvenEquation
    <3>4. CASE test[m].type = "anyof"
      <4>1. Val(f)[m] <=> \E k \in 1..Len(Kids(m)) : Val(f)[Kids(m)[k]]
        BY <1>1, <2>2, <3>4, AssignedValue
      <4> QED BY <2>2, <3>1, <3>2, <3>3, <3>4, <4>1
    <3>5. CASE test[m].type = "allof"
      <4>1. Val(f)[m] <=> \A k \in 1..Len(Kids(m)) : Val(f)[Kids(m)[k]]
        BY <1>1, <2>2, <3>5, AssignedValue
      <4> QED BY <2>2, <3>1, <3>2, <3>3, <3>5, <4>1
    <3>6. CASE test[m].type = "not"
      <4>1. Val(f)[m] <=> ~Val(f)[Kids(m)[1]]
        BY <1>1, <2>2, <3>6, AssignedValue
      <4> QED BY <2>2, <3>1, <3>2, <3>3, <3>6, <4>1
    <3> QED BY <3>1, <3>4, <3>5, <3>6 DEF Composite
  <2> QED BY <1>1, <2>2, <2>3, <2>4, AssignedValue
<1> QED BY <1>1, <1>2 DEF f

\* A node can have any value, whatever the leaves before one of its operands
\* have, if that operand can have any value and no operand before it decides.
LEMMA Composed ==
  ASSUME Test(test), NEW m \in Inner(test), NEW k \in 1..Len(Kids(m)), NEW b \in BOOLEAN,
         NEW g \in Assignment, Reached(g, m, k),
         Val(g)[Kids(m)[k]] = (IF test[m].type = "not" THEN ~b ELSE b)
  PROVE  \E f \in Assignment :
           /\ Val(f)[m] = b
           /\ \A l \in Leaves : (\A j \in (k + 1)..Len(Kids(m)) : Kids(m)[j] \notin Path[l]) => f[l] = g[l]
<1> DEFINE L == Len(Kids(m))
           neutral == test[m].type = "allof"
           c == neutral <=> Even[m]
           h == Forcing(c)
           f == [l \in Leaves |-> IF \E j \in (k + 1)..L : Kids(m)[j] \in Path[l] THEN h[l] ELSE g[l]]
<1>1. /\ L \in Nat \ {0} /\ m \in 1..Len(test) /\ test[m].type \in Composite
      /\ \A j \in 1..L : Kids(m)[j] \in 1..Len(test)
      /\ \A l \in Leaves : l \in 1..Len(test)
  BY Operands, UnderOperand DEF Inner, Leaves
<1>2. Even \in [1..Len(test) -> BOOLEAN] /\ Even[m] \in BOOLEAN
  BY <1>1, EvenEquation
<1>3. h \in Assignment /\ \A n \in 1..Len(test) : Val(h)[n] <=> ((neutral <=> Even[m]) <=> Even[n])
  <2>1. c \in BOOLEAN
    OBVIOUS
  <2> HIDE DEF c
  <2>2. h \in Assignment /\ \A n \in 1..Len(test) : Val(h)[n] <=> (c <=> Even[n])
    BY <1>1, <2>1, Forced
  <2> QED BY <2>2 DEF c
<1> HIDE DEF h
<1>4. f \in Assignment
  BY <1>3 DEF Assignment
<1>5. /\ \A l \in Leaves : (\E j \in (k + 1)..L : Kids(m)[j] \in Path[l]) => f[l] = h[l]
      /\ \A l \in Leaves : (\A j \in (k + 1)..L : Kids(m)[j] \notin Path[l]) => f[l] = g[l]
  OBVIOUS
<1> HIDE DEF f
<1>6. ASSUME NEW j \in (k + 1)..L PROVE Val(f)[Kids(m)[j]] = Val(h)[Kids(m)[j]]
  <2>1. j \in 1..L
    BY <1>1
  <2>2. \A l \in Leaves : Kids(m)[j] \in Path[l] => f[l] = h[l]
    BY <1>5
  <2>3. Kids(m)[j] \in 1..Len(test)
    BY <1>1, <2>1
  <2> QED BY <1>3, <1>4, <2>2, <2>3, Local
<1>7. ASSUME NEW j \in 1..k PROVE Val(f)[Kids(m)[j]] = Val(g)[Kids(m)[j]]
  <2>1. j \in 1..L /\ \A i \in (k + 1)..L : i \in 1..L /\ i # j
    BY <1>1
  <2>2. ASSUME NEW l \in Leaves, Kids(m)[j] \in Path[l] PROVE f[l] = g[l]
    BY <1>1, <1>5, <2>1, <2>2, Apart
  <2> QED BY <1>1, <1>4, <2>1, <2>2, Local
<1>8. \A j \in 1..L : j \in (k + 1)..L \/ j = k \/ j \in 1..(k - 1)
  BY <1>1
<1>9. k \in 1..k /\ \A j \in 1..(k - 1) : j \in 1..k
  OBVIOUS
<1>10. Val(f)[m] = b
  <2>1. CASE test[m].type = "not"
    <3>1. L = 1 /\ k = 1 /\ (Val(f)[m] <=> ~Val(f)[Kids(m)[1]])
      BY <1>1, <1>4, <2>1, AssignedValue
    <3> QED BY <1>1, <1>4, <1>7, <1>9, <2>1, <3>1, AssignedValue
  <2>2. ASSUME NEW j \in (k + 1)..L, test[m].type # "not" PROVE Val(f)[Kids(m)[j]] <=> neutral
    <3>1. j \in 1..L
      BY <1>1
    <3>2. Even[Kids(m)[j]] = Even[m]
      BY <2>2, <3>1, EvenEquation
    <3>3. Val(h)[Kids(m)[j]] <=> neutral
      BY <1>1, <1>2, <1>3, <3>1, <3>2
    <3> QED BY <1>6, <3>3
  <2>3. \A j \in 1..(k - 1) : ~Decides(m, Val(f)[Kids(m)[j]])
    BY <1>7, <1>9 DEF Reached
  <2>4. Val(f)[Kids(m)[k]] = Val(g)[Kids(m)[k]]
    BY <1>7, <1>9
  <2>5. CASE test[m].type = "anyof"
    <3>1. Val(f)[m] <=> \E j \in 1..L : Val(f)[Kids(m)[j]]
      BY <1>1, <1>4, <2>5, AssignedValue
    <3>2. \A j \in 1..L : j # k => ~Val(f)[Kids(m)[j]]
      BY <1>8, <2>2, <2>3, <2>5 DEF Decides
    <3>3. Val(f)[m] <=> b
      BY <2>4, <2>5, <3>1, <3>2
    <3> QED BY <1>1, <1>4, <3>3, AssignedValue
  <2>6. CASE test[m].type = "allof"
    <3>1. Val(f)[m] <=> \A j \in 1..L : Val(f)[Kids(m)[j]]
      BY <1>1, <1>4, <2>6, AssignedValue
    <3>2. \A j \in 1..L : j # k => Val(f)[Kids(m)[j]]
      BY <1>8, <2>2, <2>3, <2>6 DEF Decides
    <3>3. Val(f)[m] <=> b
      BY <2>4, <2>6, <3>1, <3>2
    <3> QED BY <1>1, <1>4, <3>3, AssignedValue
  <2> QED BY <1>1, <2>1, <2>5, <2>6 DEF Composite
<1> QED BY <1>4, <1>5, <1>10

-----------------------------------------------------------------------------
(* What the client has been asked, and what is left open. *)

Recorded   == \A i \in DOMAIN asked : asked[i].answer = Answered[asked[i].node]

\* What an evaluation of an operand comes to has been asked once that operand
\* has been evaluated.
Behind ==
  \A i \in 1..Len(frames) :
    LET f == frames[i]
    IN  f.node \in Inner(test) => \A k \in 1..Len(Kids(f.node)) :
          k < f.kid \/ (k = f.kid /\ (f.again \/ (i = 1 /\ value # NONE)))
            => Visited(Answered, Kids(f.node)[k]) \subseteq AskedNodes

\* Nothing under an operand has been asked before it is evaluated, unless the
\* call is part of a second evaluation.
First(i) == \A j \in (i + 1)..Len(frames) : ~frames[j].again
Ahead ==
  \A i \in 1..Len(frames) :
    LET f == frames[i]
    IN  f.node \in Inner(test) /\ First(i) => \A k \in 1..Len(Kids(f.node)) :
          k > f.kid \/ (k = f.kid /\ i = 1 /\ value = NONE /\ ~f.again)
            => \A l \in AskedNodes : Kids(f.node)[k] \notin Path[l]

LEMMA AskedLeaves ==
  ASSUME IInv
  PROVE  AskedNodes \subseteq Leaves /\ Len(asked) \in Nat /\ DOMAIN asked = 1..Len(asked)
<1> DEFINE S == [node : Leaves, answer : BOOLEAN]
<1>1. asked \in Seq(S)
  BY DEF IInv, Typed
<1> HIDE DEF S
<1>2. Len(asked) \in Nat /\ DOMAIN asked = 1..Len(asked) /\ \A i \in 1..Len(asked) : asked[i] \in S
  BY <1>1, LenProperties, ElementOfSeq
<1> QED BY <1>2 DEF S, AskedNodes

\* The innermost call and those below have got where they are because no operand
\* before decided.
LEMMA KnownReached ==
  ASSUME IInv, NEW i \in 1..Len(frames), frames[i].node \in Inner(test)
  PROVE  Reached(Answered, frames[i].node, frames[i].kid) /\ frames[i].kid \in Nat \ {0}
<1> DEFINE f == frames[i]
<1>1. Known(f) /\ test[f.node].type \in Composite /\ Val(Answered) = V
  BY DEF IInv, Inner, Val, V
<1>2. f.kid \in Nat \ {0} /\ (test[f.node].type = "not" => f.kid = 1)
  BY <1>1, Below, Operands DEF Known
<1>3. test[f.node].type = "anyof" => \A k \in 1..(f.kid - 1) : ~V[Kids(f.node)[k]]
  BY <1>1 DEF Known
<1>4. test[f.node].type = "allof" => \A k \in 1..(f.kid - 1) : V[Kids(f.node)[k]]
  BY <1>1 DEF Known
<1> QED BY <1>1, <1>2, <1>3, <1>4 DEF Reached, Decides

\* The leaf of the innermost call is one that each call below comes to.
LEMMA OnTheWay ==
  ASSUME IInv, frames[1].node \in Leaves, NEW i \in 1..Len(frames)
  PROVE  frames[1].node \in Visited(Answered, frames[i].node)
<1> DEFINE N == Len(frames)
           n == frames[1].node
           Bad == {j \in 1..N : n \notin Visited(Answered, frames[j].node)}
<1> SUFFICES ASSUME Bad # {} PROVE FALSE
  OBVIOUS
<1>1. PICK j \in Bad : \A k \in Bad : j <= k
  <2>1. Bad \subseteq Nat
    OBVIOUS
  <2> HIDE DEF Bad
  <2> QED BY <2>1, Least
<1>2. j \in 1..N /\ n \notin Visited(Answered, frames[j].node) /\ Test(test) /\ N \in Nat
  <2>1. ~Idle
    BY EmptySeq DEF Idle
  <2> QED BY <1>1, <2>1, Stack
<1>3. j # 1
  BY <1>2, VisitedLeaf
<1>4. j - 1 \in 1..N /\ ~(j <= j - 1) /\ j > 1
  BY <1>2, <1>3
<1>5. n \in Visited(Answered, frames[j - 1].node)
  BY <1>1, <1>4
<1>6. /\ frames[j].node \in Inner(test) /\ frames[j].kid \in 1..Len(Kids(frames[j].node))
      /\ frames[j - 1].node = Kids(frames[j].node)[frames[j].kid]
  BY <1>2, <1>4, Below
<1>7. Reached(Answered, frames[j].node, frames[j].kid)
  BY <1>2, <1>6, KnownReached
<1>8. Visited(Answered, Kids(frames[j].node)[frames[j].kid]) \subseteq Visited(Answered, frames[j].node)
  <2> DEFINE m == frames[j].node
             k == frames[j].kid
             a == Answered
  <2>1. m \in Inner(test) /\ k \in 1..Len(Kids(m)) /\ Reached(a, m, k)
    BY <1>6, <1>7
  <2> HIDE DEF m, k, a
  <2>2. Visited(a, Kids(m)[k]) \subseteq Visited(a, m)
    BY <1>2, <2>1, VisitedOperand
  <2> QED BY <2>2 DEF m, k, a
<1> QED BY <1>2, <1>5, <1>6, <1>8

\* A leaf that is asked for the first time leaves the verdict open, whatever
\* has been answered: none of the calls is a second evaluation, and what is
\* ahead of each of them can still be such that the leaf decides.
LEMMA OpenLeaf ==
  ASSUME IInv, Behind, Ahead, ~Idle, frames[1].node \in Leaves,
         frames[1].node \notin AskedNodes, NEW b \in BOOLEAN
  PROVE  \E f \in Assignment : (\A l \in AskedNodes : f[l] = Answered[l]) /\ Val(f)[1] = b
<1> DEFINE N == Len(frames)
           n == frames[1].node
           Agrees(f) == \A l \in AskedNodes : f[l] = Answered[l]
           Free(i) == \A c \in BOOLEAN : \E f \in Assignment : Agrees(f) /\ Val(f)[frames[i].node] = c
           Bad == {i \in 1..N : ~Free(i)}
<1>1. N \in Nat \ {0} /\ Test(test) /\ AskedNodes \subseteq Leaves /\ n \in 1..Len(test)
  BY Stack, AskedLeaves, Operands DEF Leaves
<1>2. Answered \in Assignment
  BY AnsweredAssigns
<1>3. \A i \in 2..N :
        /\ i \in 1..N /\ i - 1 \in 1..N
        /\ frames[i].node \in Inner(test) /\ frames[i].kid \in 1..Len(Kids(frames[i].node))
        /\ frames[i - 1].node = Kids(frames[i].node)[frames[i].kid]
  <2> SUFFICES ASSUME NEW i \in 2..N
               PROVE  /\ i \in 1..N /\ i - 1 \in 1..N
                      /\ frames[i].node \in Inner(test) /\ frames[i].kid \in 1..Len(Kids(frames[i].node))
                      /\ frames[i - 1].node = Kids(frames[i].node)[frames[i].kid]
    OBVIOUS
  <2>1. i \in 1..N /\ i - 1 \in 1..N /\ i > 1
    BY <1>1
  <2> QED BY <2>1, Below
<1>4. \A i \in 2..N : ~frames[i].again
  <2> SUFFICES ASSUME NEW i \in 2..N, frames[i].again PROVE FALSE
    OBVIOUS
  <2>1. Visited(Answered, Kids(frames[i].node)[frames[i].kid]) \subseteq AskedNodes
    BY <1>3 DEF Behind
  <2>2. n \in Visited(Answered, frames[i - 1].node)
    BY <1>3, OnTheWay
  <2> QED BY <1>3, <2>1, <2>2
<1>5. \A i \in 2..N : First(i)
  BY <1>1, <1>4 DEF First
<1>6. Free(1)
  <2> SUFFICES ASSUME NEW c \in BOOLEAN
               PROVE  \E f \in Assignment : Agrees(f) /\ Val(f)[n] = c
    OBVIOUS
  <2> DEFINE f == [Answered EXCEPT ![n] = c]
  <2>1. f \in Assignment /\ f[n] = c /\ \A l \in Leaves : l # n => f[l] = Answered[l]
    BY <1>2 DEF Assignment
  <2> HIDE DEF f
  <2>2. Agrees(f)
    BY <1>1, <2>1
  <2>3. Val(f)[n] = c
    BY <1>1, <2>1, AssignedValue
  <2> QED BY <2>1, <2>2, <2>3
<1>7. ASSUME NEW i \in 2..N, Free(i - 1) PROVE Free(i)
  <2> SUFFICES ASSUME NEW c \in BOOLEAN
               PROVE  \E f \in Assignment : Agrees(f) /\ Val(f)[frames[i].node] = c
    OBVIOUS
  <2>1. PICK m, k : /\ m = frames[i].node /\ k = frames[i].kid
                    /\ m \in Inner(test) /\ k \in 1..Len(Kids(m))
                    /\ frames[i - 1].node = Kids(m)[k]
    BY <1>3
  <2>2. (IF test[m].type = "not" THEN ~c ELSE c) \in BOOLEAN
    OBVIOUS
  <2>3. PICK g \in Assignment :
          Agrees(g) /\ Val(g)[Kids(m)[k]] = (IF test[m].type = "not" THEN ~c ELSE c)
    BY <1>7, <2>1, <2>2
  <2>4. Reached(g, m, k)
    <3> SUFFICES ASSUME NEW j \in 1..(k - 1) PROVE ~Decides(m, Val(g)[Kids(m)[j]])
      BY DEF Reached
    <3>1. j \in 1..Len(Kids(m)) /\ j < k /\ Kids(m)[j] \in 1..Len(test)
      <4>1. Len(Kids(m)) \in Nat /\ k \in 1..Len(Kids(m))
        BY <1>1, <2>1, Operands
      <4>2. j \in 1..Len(Kids(m)) /\ j < k
        BY <4>1
      <4> QED BY <1>1, <2>1, <4>2, UnderOperand
    <3>2. Visited(Answered, Kids(m)[j]) \subseteq AskedNodes
      BY <1>3, <2>1, <3>1 DEF Behind
    <3>3. Val(g)[Kids(m)[j]] = Val(Answered)[Kids(m)[j]]
      <4>1. \A l \in Visited(Answered, Kids(m)[j]) : g[l] = Answered[l]
        BY <2>3, <3>2
      <4> DEFINE a == Answered
                 x == Kids(m)[j]
      <4>2. a \in Assignment /\ x \in 1..Len(test) /\ \A l \in Visited(a, x) : g[l] = a[l]
        BY <1>2, <3>1, <4>1
      <4> HIDE DEF a, x
      <4>3. Val(g)[x] = Val(a)[x]
        BY <1>1, <4>2, Determined
      <4> QED BY <4>3 DEF a, x
    <3>4. Reached(Answered, m, k)
      BY <1>3, <2>1, KnownReached
    <3> QED BY <3>3, <3>4 DEF Reached
  <2>5. PICK f \in Assignment :
          /\ Val(f)[m] = c
          /\ \A l \in Leaves : (\A j \in (k + 1)..Len(Kids(m)) : Kids(m)[j] \notin Path[l]) => f[l] = g[l]
    BY <1>1, <2>1, <2>3, <2>4, Composed
  <2>6. ASSUME NEW l \in AskedNodes PROVE f[l] = Answered[l]
    <3>1. \A j \in (k + 1)..Len(Kids(m)) : j \in 1..Len(Kids(m)) /\ j > k
      BY <1>1, <2>1, Operands
    <3>2. \A j \in (k + 1)..Len(Kids(m)) : Kids(m)[j] \notin Path[l]
      BY <1>3, <1>5, <2>1, <3>1 DEF Ahead
    <3> QED BY <1>1, <2>3, <2>5, <3>2
  <2> QED BY <2>1, <2>5, <2>6
<1> HIDE DEF Free
<1>8. Bad = {}
  <2> SUFFICES ASSUME Bad # {} PROVE FALSE
    OBVIOUS
  <2>1. PICK i \in Bad : \A j \in Bad : i <= j
    <3>1. Bad \subseteq Nat
      OBVIOUS
    <3> HIDE DEF Bad
    <3> QED BY <3>1, Least
  <2>2. i \in 2..N
    BY <1>1, <1>6, <2>1
  <2>3. i - 1 \in 1..N /\ ~(i <= i - 1)
    BY <1>1, <2>2
  <2>4. Free(i - 1)
    BY <2>1, <2>3
  <2> QED BY <1>7, <2>1, <2>2, <2>4
<1>9. Free(N) /\ frames[N].node = 1
  BY <1>1, <1>8 DEF IInv, Calls, Idle
<1> QED BY <1>9 DEF Free

-----------------------------------------------------------------------------
LEMMA SameVisits ==
  ASSUME UNCHANGED <<test, message>>
  PROVE  /\ Answered' = Answered /\ \A m : Visited(Answered, m)' = Visited(Answered, m)
         /\ \A f : Val(f)' = Val(f) /\ Truth(test, f)' = Val(f)[1]
<1>1. /\ Leaves' = Leaves /\ Inner(test)' = Inner(test) /\ Path' = Path
      /\ \A n : Kids(n)' = Kids(n)
  BY SameTest
<1>2. Answered' = Answered
  BY <1>1 DEF Answered
<1>3. \A f : Val(f)' = Val(f) /\ Truth(test, f)' = Val(f)[1]
  BY DEF Val, Truth, Values
<1>4. Val(Answered)' = Val(Answered)
  BY <1>2 DEF Val, Values
<1>5. \A p, n : Passed(Answered, p, n)' = Passed(Answered, p, n)
  BY <1>1, <1>4 DEF Passed, Decides
<1>6. \A m : Visited(Answered, m)' = Visited(Answered, m)
  BY <1>1, <1>5 DEF Visited
<1> QED BY <1>2, <1>3, <1>6

\* When a call has ended, what it came to has been asked.
LEMMA BehindPop ==
  ASSUME IInv, ~Idle, Behind, Popped, UNCHANGED <<test, message>>,
         AskedNodes \subseteq AskedNodes',
         Visited(Answered, frames[1].node) \subseteq AskedNodes'
  PROVE  Behind'
<1>1. Inner(test)' = Inner(test) /\ (\A n : Kids(n)' = Kids(n))
      /\ \A m : Visited(Answered, m)' = Visited(Answered, m)
  BY SameTest, SameVisits
<1> SUFFICES ASSUME NEW i \in 1..Len(frames'), NEW m, m = frames'[i].node, m \in Inner(test),
                    NEW k \in 1..Len(Kids(m)), NEW c, c = frames'[i].kid,
                    k < c \/ (k = c /\ (frames'[i].again \/ i = 1))
             PROVE  Visited(Answered, Kids(m)[k]) \subseteq AskedNodes'
  BY <1>1 DEF Behind
<1>2. Len(frames) \in Nat \ {0} /\ Len(frames') = Len(frames) - 1
  BY Stack DEF Popped
<1>3. i + 1 \in 1..Len(frames) /\ frames'[i] = frames[i + 1] /\ i + 1 > 1
  BY <1>2 DEF Popped
<1>4. CASE k < c \/ (k = c /\ frames'[i].again)
  BY <1>3, <1>4 DEF Behind
<1>5. CASE k = c /\ i = 1
  <2>1. 2 \in 1..Len(frames) /\ frames'[i] = frames[2] /\ 2 > 1 /\ 2 - 1 = 1
    BY <1>3, <1>5
  <2>2. frames[1].node = Kids(m)[k]
    BY <1>5, <2>1, Below
  <2> QED BY <2>2
<1> QED BY <1>4, <1>5

\* What is ahead of the calls below has not been asked by the one that ended.
LEMMA AheadPop ==
  ASSUME IInv, ~Idle, Ahead, Popped, UNCHANGED <<test, message>>,
         \A l \in AskedNodes' : l \in AskedNodes \/ l = frames[1].node
  PROVE  Ahead'
<1>1. Inner(test)' = Inner(test) /\ Path' = Path /\ \A n : Kids(n)' = Kids(n)
  BY SameTest
<1>2. Len(frames) \in Nat \ {0} /\ Len(frames') = Len(frames) - 1 /\ value' # NONE
  BY Stack DEF Popped
<1> SUFFICES ASSUME NEW i \in 1..Len(frames'), NEW m, m = frames'[i].node, m \in Inner(test),
                    First(i)', NEW k \in 1..Len(Kids(m)), k > frames'[i].kid, NEW l \in AskedNodes'
             PROVE  Kids(m)[k] \notin Path[l]
  BY <1>1, <1>2 DEF Ahead
<1>3. i + 1 \in 1..Len(frames) /\ frames'[i] = frames[i + 1] /\ i + 1 > 1
  BY <1>2 DEF Popped
<1>4. First(i + 1)
  <2> SUFFICES ASSUME NEW j \in (i + 2)..Len(frames) PROVE ~frames[j].again
    BY DEF First
  <2>1. j - 1 \in (i + 1)..Len(frames') /\ j - 1 \in 1..Len(frames') /\ (j - 1) + 1 = j
    BY <1>2
  <2> QED BY <2>1 DEF First, Popped
<1>5. CASE l \in AskedNodes
  BY <1>3, <1>4, <1>5 DEF Ahead
<1>6. CASE l = frames[1].node
  <2> DEFINE c == frames[i + 1].kid
             t == frames[1].node
  <2>1. Kids(m)[c] \in Path[t] /\ c \in 1..Len(Kids(m)) /\ t \in 1..Len(test) /\ Test(test)
    BY <1>3, Below
  <2>2. c # k /\ l = t
    <3>1. k > c /\ k \in Nat
      BY <1>3
    <3>2. c \in Nat
      BY <2>1
    <3> QED BY <1>6, <3>1, <3>2
  <2> HIDE DEF c, t
  <2> QED BY <2>1, <2>2, Apart
<1> QED BY <1>5, <1>6

\* The node of a call that ends has come to all that its answers lead it to.
LEMMA NodeVisits ==
  ASSUME IInv, ~Idle, Behind, NodeEnds
  PROVE  Visited(Answered, frames[1].node) \subseteq AskedNodes
<1> DEFINE m == frames[1].node
           c == frames[1].kid
           a == Answered
<1>1. /\ Test(test) /\ m \in Inner(test) /\ Len(Kids(m)) \in Nat /\ c \in Nat
      /\ 1 \in 1..Len(frames)
  <2>1. Test(test) /\ m \in DOMAIN test /\ frames[1] \in FrameType /\ Len(frames) \in Nat \ {0}
    BY Stack
  <2>2. m \in Inner(test)
    BY <2>1 DEF NodeEnds, Node, Inner
  <2> QED BY <2>1, <2>2, Operands DEF FrameType
<1>2. \A k \in 1..Len(Kids(m)) :
        k < c \/ (k = c /\ value # NONE) => Visited(a, Kids(m)[k]) \subseteq AskedNodes
  BY <1>1 DEF Behind
<1>3. \/ c > Len(Kids(m))
      \/ value # NONE /\ (Decides(m, value) \/ c = Len(Kids(m)))
  BY DEF NodeEnds, Node, Kids
<1>4. value # NONE => value = Val(a)[Kids(m)[c]]
  BY DEF IInv, Returned, Idle, Node, Kids, V, Val
<1>5. c \in Nat \ {0}
  BY <1>1, KnownReached
<1> HIDE DEF m, c, a
<1> SUFFICES ASSUME NEW n \in Visited(a, m) PROVE n \in AskedNodes
  BY DEF m, a
<1>6. PICK k \in 1..Len(Kids(m)) : Reached(a, m, k) /\ n \in Visited(a, Kids(m)[k])
  BY <1>1, VisitedNode
<1>7. k < c \/ (k = c /\ value # NONE)
  <2>1. CASE c > Len(Kids(m)) \/ (value # NONE /\ c = Len(Kids(m)))
    BY <1>1, <2>1
  <2>2. CASE value # NONE /\ Decides(m, value)
    <3>1. ~(c < k)
      <4> SUFFICES ASSUME c < k PROVE FALSE
        OBVIOUS
      <4>1. c \in 1..(k - 1)
        BY <1>5
      <4> QED BY <1>4, <1>6, <2>2, <4>1 DEF Reached
    <3> QED BY <1>1, <2>2, <3>1
  <2> QED BY <1>3, <2>1, <2>2
<1> QED BY <1>2, <1>6, <1>7

\* A new call has nothing behind it, and ahead of it only what was ahead of the
\* one that made it.
LEMMA BehindPush ==
  ASSUME IInv, ~Idle, Behind, NodeDescends, UNCHANGED <<test, message>>
  PROVE  Behind'
<1>1. Inner(test)' = Inner(test) /\ (\A n : Kids(n)' = Kids(n))
      /\ \A m : Visited(Answered, m)' = Visited(Answered, m)
  BY SameTest, SameVisits
<1>2. /\ Len(frames) \in Nat \ {0} /\ Len(frames') = Len(frames) + 1 /\ value' = NONE
      /\ AskedNodes' = AskedNodes /\ frames'[1].kid = 1 /\ ~frames'[1].again
      /\ \A i \in 2..Len(frames') : frames'[i] = frames[i - 1]
  BY Stack DEF NodeDescends, Pushed, AskedNodes
<1> SUFFICES ASSUME NEW i \in 1..Len(frames'), NEW m, m = frames'[i].node, m \in Inner(test),
                    NEW k \in 1..Len(Kids(m)), NEW c, c = frames'[i].kid,
                    k < c \/ (k = c /\ frames'[i].again)
             PROVE  Visited(Answered, Kids(m)[k]) \subseteq AskedNodes
  BY <1>1, <1>2 DEF Behind
<1>3. i # 1
  BY <1>2
<1>4. i - 1 \in 1..Len(frames) /\ frames'[i] = frames[i - 1]
  BY <1>2, <1>3
<1> QED BY <1>4 DEF Behind

LEMMA AheadPush ==
  ASSUME IInv, ~Idle, Ahead, NodeDescends, UNCHANGED <<test, message>>
  PROVE  Ahead'
<1>1. Inner(test)' = Inner(test) /\ Path' = Path /\ \A n : Kids(n)' = Kids(n)
  BY SameTest
<1>2. /\ Len(frames) \in Nat \ {0} /\ Len(frames') = Len(frames) + 1
      /\ value' = NONE /\ value = NONE /\ AskedNodes' = AskedNodes
      /\ frames'[1].node = Kids(frames[1].node)[frames[1].kid] /\ frames'[1].kid = 1
      /\ frames[1].kid \in 1..Len(Kids(frames[1].node)) /\ frames[1].node \in Inner(test)
      /\ \A i \in 2..Len(frames') : frames'[i] = frames[i - 1]
      /\ Test(test)
  BY Stack DEF NodeDescends, Pushed, AskedNodes, Inner, Node, Kids
<1> SUFFICES ASSUME NEW i \in 1..Len(frames'), NEW m, m = frames'[i].node, m \in Inner(test),
                    First(i)', NEW k \in 1..Len(Kids(m)), NEW l \in AskedNodes,
                    k > frames'[i].kid \/ i = 1
             PROVE  Kids(m)[k] \notin Path[l]
  BY <1>1, <1>2 DEF Ahead
<1>3. \A j \in i..Len(frames) : ~frames[j].again
  <2> SUFFICES ASSUME NEW j \in i..Len(frames) PROVE ~frames[j].again
    OBVIOUS
  <2>1. /\ j + 1 \in (i + 1)..Len(frames') /\ j + 1 \in 2..Len(frames') /\ (j + 1) - 1 = j
    BY <1>2
  <2> QED BY <1>2, <2>1 DEF First
<1>4. CASE i # 1
  <2>1. i - 1 \in 1..Len(frames) /\ frames'[i] = frames[i - 1] /\ (i - 1) + 1 = i
    BY <1>2, <1>4
  <2>2. First(i - 1)
    BY <1>3, <2>1 DEF First
  <2> QED BY <1>4, <2>1, <2>2 DEF Ahead
<1>5. CASE i = 1
  <2> DEFINE p == frames[1].node
             c == frames[1].kid
  <2>1. First(1) /\ ~frames[1].again /\ 1 \in 1..Len(frames)
    <3>1. \A j \in (1 + 1)..Len(frames) : j \in i..Len(frames)
      BY <1>5
    <3> QED BY <1>2, <1>3, <1>5, <3>1 DEF First
  <2>2. Kids(p)[c] \notin Path[l] /\ m = Kids(p)[c]
    BY <1>2, <1>5, <2>1 DEF Ahead
  <2>3. l \in 1..Len(test)
    BY <1>2, AskedLeaves, Operands DEF Leaves
  <2>4. Kids(m)[k] \in Path[l] => m \in Path[l]
    BY <1>2, <2>3, UnderOperand
  <2> HIDE DEF p, c
  <2> QED BY <2>2, <2>4
<1> QED BY <1>4, <1>5

LEMMA BehindReplace ==
  ASSUME IInv, ~Idle, Behind, NodeGoesOn, UNCHANGED <<test, message>>
  PROVE  Behind'
<1>1. Inner(test)' = Inner(test) /\ (\A n : Kids(n)' = Kids(n))
      /\ \A m : Visited(Answered, m)' = Visited(Answered, m)
  BY SameTest, SameVisits
<1>2. /\ Len(frames) \in Nat \ {0} /\ Len(frames') = Len(frames)
      /\ value' = NONE /\ value # NONE /\ AskedNodes' = AskedNodes
      /\ frames'[1].node = frames[1].node /\ frames[1].kid \in Nat
      /\ \A i \in 2..Len(frames') : frames'[i] = frames[i]
      /\ \/ frames'[1].kid = frames[1].kid + 1 /\ ~frames'[1].again
         \/ frames'[1].kid = frames[1].kid
  BY Stack DEF NodeGoesOn, Replaced, AskedNodes, FrameType
<1> SUFFICES ASSUME NEW i \in 1..Len(frames'), NEW m, m = frames'[i].node, m \in Inner(test),
                    NEW k \in 1..Len(Kids(m)), NEW c, c = frames'[i].kid,
                    k < c \/ (k = c /\ frames'[i].again)
             PROVE  Visited(Answered, Kids(m)[k]) \subseteq AskedNodes
  BY <1>1, <1>2 DEF Behind
<1>3. CASE i # 1
  <2>1. i \in 1..Len(frames) /\ frames'[i] = frames[i]
    BY <1>2, <1>3
  <2> QED BY <2>1 DEF Behind
<1>4. CASE i = 1
  <2>1. k < frames[1].kid \/ k = frames[1].kid
    BY <1>2, <1>4
  <2> QED BY <1>2, <1>4, <2>1 DEF Behind
<1> QED BY <1>3, <1>4

LEMMA AheadReplace ==
  ASSUME IInv, ~Idle, Ahead, NodeGoesOn, UNCHANGED <<test, message>>
  PROVE  Ahead'
<1>1. Inner(test)' = Inner(test) /\ Path' = Path /\ \A n : Kids(n)' = Kids(n)
  BY SameTest
<1>2. /\ Len(frames) \in Nat \ {0} /\ Len(frames') = Len(frames)
      /\ value' = NONE /\ AskedNodes' = AskedNodes
      /\ frames'[1].node = frames[1].node /\ frames[1].kid \in Nat
      /\ \A i \in 2..Len(frames') : frames'[i] = frames[i]
      /\ \/ frames'[1].kid = frames[1].kid + 1
         \/ frames'[1].kid = frames[1].kid /\ frames'[1].again
  BY Stack DEF NodeGoesOn, Replaced, AskedNodes, FrameType
<1> SUFFICES ASSUME NEW i \in 1..Len(frames'), NEW m, m = frames'[i].node, m \in Inner(test),
                    First(i)', NEW k \in 1..Len(Kids(m)), NEW l \in AskedNodes,
                    k > frames'[i].kid \/ (k = frames'[i].kid /\ i = 1 /\ ~frames'[i].again)
             PROVE  Kids(m)[k] \notin Path[l]
  BY <1>1, <1>2 DEF Ahead
<1>3. First(i)
  <2> SUFFICES ASSUME NEW j \in (i + 1)..Len(frames) PROVE ~frames[j].again
    BY DEF First
  <2>1. j \in 2..Len(frames') /\ j \in (i + 1)..Len(frames')
    BY <1>2
  <2> QED BY <1>2, <2>1 DEF First
<1>4. CASE i # 1
  <2>1. i \in 1..Len(frames) /\ frames'[i] = frames[i]
    BY <1>2, <1>4
  <2> QED BY <1>3, <1>4, <2>1 DEF Ahead
<1>5. CASE i = 1
  <2>1. k > frames[1].kid
    BY <1>2, <1>5
  <2> QED BY <1>2, <1>3, <1>5, <2>1 DEF Ahead
<1> QED BY <1>4, <1>5

-----------------------------------------------------------------------------
\* The leaf of the innermost call has not been asked before, unless the call is
\* part of a second evaluation.
Fresh == ~Idle /\ frames[1].node \in Leaves /\ ~Repeating => frames[1].node \notin AskedNodes

\* What the answers have to do with the calls that are active.
SInv == Recorded /\ Behind /\ Ahead /\ Fresh

LEMMA SInvInit == Init => SInv
<1> SUFFICES ASSUME Init PROVE SInv
  OBVIOUS
<1>1. Idle /\ Len(frames) = 0 /\ DOMAIN asked = {} /\ 1..Len(frames) = {}
  BY DEF Init, Idle
<1> QED BY <1>1 DEF SInv, Recorded, Behind, Ahead, Fresh

LEMMA SInvBegin == ASSUME IInv, Begin PROVE SInv'
<1>1. PICK t : frames' = <<Frame(t, 1)>>
  BY DEF Begin
<1>2. asked' = <<>> /\ value' = NONE /\ Len(frames') = 1 /\ frames'[1].kid = 1 /\ ~frames'[1].again
  BY <1>1 DEF Begin, IInv, Typed, Frame
<1>3. DOMAIN asked' = {} /\ AskedNodes' = {}
  BY <1>2 DEF AskedNodes
<1>4. Recorded' /\ Fresh'
  BY <1>3 DEF Recorded, Fresh
<1>5. Ahead'
  BY <1>3 DEF Ahead
<1>6. Behind'
  <2>1. \A i \in 1..Len(frames') : i = 1
    BY <1>2
  <2> QED BY <1>2, <2>1 DEF Behind
<1> QED BY <1>4, <1>5, <1>6 DEF SInv

\* A call that goes on after another has ended is not that of a leaf.
LEMMA FreshPop ==
  ASSUME IInv, IInv', ~Idle, Popped, UNCHANGED <<test, message>>
  PROVE  Fresh'
<1> SUFFICES ASSUME (~Idle)', frames'[1].node \in Leaves' PROVE FALSE
  BY DEF Fresh
<1>1. Len(frames) \in Nat \ {0} /\ Len(frames') = Len(frames) - 1
  BY Stack DEF Popped
<1>2. Len(frames') # 0
  <2>1. frames' \in Seq(FrameType)
    BY DEF IInv, Typed
  <2> QED BY <2>1, EmptySeq DEF Idle
<1>3. 1 \in 1..Len(frames') /\ frames'[1] = frames[2] /\ 2 \in 1..Len(frames) /\ 2 > 1
  BY <1>1, <1>2 DEF Popped
<1>4. frames[2].node \in Inner(test)
  BY <1>3, Below
<1>5. Leaves' = Leaves
  BY SameTest
<1> QED BY <1>3, <1>4, <1>5 DEF Inner, Leaves

\* A new call is ahead of the one that makes it.
LEMMA FreshPush ==
  ASSUME IInv, ~Idle, Ahead, NodeDescends, UNCHANGED <<test, message>>
  PROVE  Fresh'
<1>1. /\ Len(frames) \in Nat \ {0} /\ Len(frames') = Len(frames) + 1
      /\ value = NONE /\ AskedNodes' = AskedNodes
      /\ frames'[1].node = Kids(frames[1].node)[frames[1].kid]
      /\ frames[1].kid \in 1..Len(Kids(frames[1].node)) /\ frames[1].node \in Inner(test)
      /\ \A i \in 2..Len(frames') : frames'[i] = frames[i - 1]
      /\ Test(test)
  BY Stack DEF NodeDescends, Pushed, AskedNodes, Inner, Node, Kids
<1> DEFINE p == frames[1].node
           c == frames[1].kid
           x == Kids(p)[c]
<1> SUFFICES ASSUME ~Repeating', x \in AskedNodes PROVE FALSE
  BY <1>1 DEF Fresh
<1>2. \A j \in 1..Len(frames) : ~frames[j].again
  <2> SUFFICES ASSUME NEW j \in 1..Len(frames) PROVE ~frames[j].again
    OBVIOUS
  <2>1. j + 1 \in 2..Len(frames') /\ (j + 1) - 1 = j
    BY <1>1
  <2> QED BY <1>1, <2>1 DEF Repeating
<1>3. First(1) /\ 1 \in 1..Len(frames) /\ ~frames[1].again
  <2>1. \A j \in (1 + 1)..Len(frames) : j \in 1..Len(frames)
    BY <1>1
  <2>2. 1 \in 1..Len(frames)
    BY <1>1
  <2> QED BY <1>2, <2>1, <2>2 DEF First
<1>4. x \notin Path[x]
  BY <1>1, <1>3 DEF Ahead
<1>5. x \in 1..Len(test)
  BY <1>1, AskedLeaves, Operands DEF Leaves
<1> HIDE DEF x
<1>6. x \in Path[x]
  <2>1. x = 1 \/ x \in 2..Len(test)
    BY <1>5
  <2>2. Path[1] = {1} /\ \A m \in 2..Len(test) : Path[m] = {m} \cup Path[Above(m)]
    BY <1>1, PathEquation
  <2> QED BY <2>1, <2>2
<1> QED BY <1>4, <1>6

LEMMA SInvLeaf ==
  ASSUME IInv, IInv', ~Idle, SInv, LeafEnds, UNCHANGED <<test, message>>
  PROVE  SInv'
<1> DEFINE n == frames[1].node
           a == [node |-> n, answer |-> Holds(test[n], message)]
<1>0. PICK L : L = Len(asked) + 1
  OBVIOUS
<1>1. n \in Leaves /\ Test(test) /\ n \in 1..Len(test) /\ Len(test) \in Nat \ {0}
  BY Stack, Operands DEF LeafEnds, Node, Leaves
<1>2. Answered' = Answered /\ Leaves' = Leaves /\ Answered[n] = Holds(test[n], message)
  BY <1>1, SameVisits, SameTest DEF Answered
<1>3. /\ Len(asked) \in Nat /\ DOMAIN asked = 1..Len(asked)
      /\ DOMAIN asked' = 1..L /\ asked'[L] = a
      /\ \A i \in 1..Len(asked) : asked'[i] = asked[i]
  <2>1. asked' = Append(asked, a)
    BY DEF LeafEnds, Node
  <2> HIDE DEF a
  <2> QED BY <1>0, <2>1, Appended
<1>4. \A i \in 1..L : i = L \/ i \in 1..Len(asked)
  BY <1>0, <1>3
<1>5. a.node = n /\ a.answer = Answered[n] /\ L \in 1..L
  BY <1>0, <1>2, <1>3
<1> HIDE DEF a
<1>6. AskedNodes' = AskedNodes \cup {n}
  <2>1. \A i \in 1..Len(asked) : i \in 1..L
    BY <1>0, <1>3
  <2> QED BY <1>3, <1>4, <1>5, <2>1 DEF AskedNodes
<1>7. Recorded'
  BY <1>2, <1>3, <1>4, <1>5 DEF Recorded, SInv
<1>8. Popped
  BY DEF LeafEnds
<1>9. Behind'
  <2>1. Visited(Answered, frames[1].node) \subseteq AskedNodes'
    BY <1>1, <1>6, VisitedLeaf
  <2> QED BY <1>6, <1>8, <2>1, BehindPop DEF SInv
<1>10. Ahead'
  BY <1>6, <1>8, AheadPop DEF SInv
<1> QED BY <1>7, <1>8, <1>9, <1>10, FreshPop DEF SInv

LEMMA SInvStep == IInv /\ SInv /\ [Next]_vars => SInv'
<1> SUFFICES ASSUME IInv, IInv', SInv, [Next]_vars PROVE SInv'
  BY IInvStep
<1>1. CASE Begin
  BY <1>1, SInvBegin
<1>2. CASE Evaluate
  <2>1. ~Idle /\ UNCHANGED <<test, message>> /\ (LeafEnds \/ NodeEnds \/ NodeDescends \/ NodeGoesOn)
    BY <1>2, Steps
  <2>2. CASE LeafEnds
    BY <2>1, <2>2, SInvLeaf
  <2>3. UNCHANGED asked => Recorded' /\ AskedNodes' = AskedNodes
    BY <2>1, SameVisits DEF SInv, Recorded, AskedNodes
  <2>4. CASE NodeEnds
    <3>1. Popped /\ UNCHANGED asked
      BY <2>4 DEF NodeEnds
    <3>2. Visited(Answered, frames[1].node) \subseteq AskedNodes
      BY <2>1, <2>4, NodeVisits DEF SInv
    <3>3. Behind'
      BY <2>1, <2>3, <3>1, <3>2, BehindPop DEF SInv
    <3>4. Ahead' /\ Fresh'
      BY <2>1, <2>3, <3>1, AheadPop, FreshPop DEF SInv
    <3> QED BY <2>3, <3>1, <3>3, <3>4 DEF SInv
  <2>5. CASE NodeDescends
    <3>1. UNCHANGED asked
      BY <2>5 DEF NodeDescends
    <3> QED BY <2>1, <2>3, <2>5, <3>1, BehindPush, AheadPush, FreshPush DEF SInv
  <2>6. CASE NodeGoesOn
    <3>1. UNCHANGED asked /\ frames'[1].node = frames[1].node /\ frames[1].node \notin Leaves
      BY <2>6 DEF NodeGoesOn, Replaced, Leaves, Node
    <3>2. Fresh'
      BY <2>1, <3>1, SameTest DEF Fresh
    <3> QED BY <2>1, <2>3, <2>6, <3>1, <3>2, BehindReplace, AheadReplace DEF SInv
  <2> QED BY <2>1, <2>2, <2>4, <2>5, <2>6
<1>3. CASE UNCHANGED vars
  <2>1. UNCHANGED <<test, message>> /\ UNCHANGED <<frames, value, asked>>
    BY <1>3 DEF vars
  <2>2. /\ Inner(test)' = Inner(test) /\ Path' = Path /\ (\A n : Kids(n)' = Kids(n))
        /\ \A m : Visited(Answered, m)' = Visited(Answered, m)
    BY <2>1, SameTest, SameVisits
  <2>3. Recorded' /\ AskedNodes' = AskedNodes
    BY <2>1, SameVisits DEF SInv, Recorded, AskedNodes
  <2>4. Behind'
    BY <2>1, <2>2, <2>3 DEF SInv, Behind
  <2>5. Ahead'
    BY <2>1, <2>2, <2>3 DEF SInv, Ahead, First
  <2>6. Fresh'
    BY <2>1, <2>3, SameTest DEF SInv, Fresh, Idle, Repeating
  <2> QED BY <2>3, <2>4, <2>5, <2>6 DEF SInv
<1> QED BY <1>1, <1>2, <1>3 DEF Next

\* What a second evaluation asks was asked in the first.
LEMMA Repeated ==
  ASSUME IInv, ~Idle, Behind, frames[1].node \in Leaves, Repeating
  PROVE  frames[1].node \in AskedNodes
<1>1. PICK i \in 2..Len(frames) : frames[i].again
  BY DEF Repeating
<1>2. Len(frames) \in Nat \ {0}
  BY Stack
<1>3. i \in 1..Len(frames) /\ i - 1 \in 1..Len(frames) /\ i > 1
  BY <1>1, <1>2
<1>4. /\ frames[i].node \in Inner(test) /\ frames[i].kid \in 1..Len(Kids(frames[i].node))
      /\ frames[i - 1].node = Kids(frames[i].node)[frames[i].kid]
  BY <1>3, Below
<1>5. Visited(Answered, frames[i - 1].node) \subseteq AskedNodes
  BY <1>1, <1>3, <1>4 DEF Behind
<1>6. frames[1].node \in Visited(Answered, frames[i - 1].node)
  BY <1>3, OnTheWay
<1> QED BY <1>5, <1>6

\* The answers given so far can be completed to either value of the test.
LEMMA BothOpen ==
  ASSUME IInv, SInv, ~Idle, frames[1].node \in Leaves, frames[1].node \notin AskedNodes
  PROVE  {Truth(test, f) : f \in Answers} = BOOLEAN
<1>1. Test(test) /\ Len(test) \in Nat \ {0} /\ DOMAIN asked = 1..Len(asked)
  BY Stack, Operands, AskedLeaves
<1>2. Answers = {f \in Assignment : \A i \in DOMAIN asked : f[asked[i].node] = asked[i].answer}
  BY DEF Answers, Assignment
<1>3. ASSUME NEW f \in Assignment PROVE Truth(test, f) \in BOOLEAN
  <2>1. 1 \in 1..Len(test)
    BY <1>1
  <2>2. Val(f)[1] \in BOOLEAN
    BY <1>1, <2>1, AssignedValue
  <2> QED BY <2>2 DEF Truth, Val
<1>4. ASSUME NEW b \in BOOLEAN PROVE \E f \in Answers : Truth(test, f) = b
  <2>1. PICK f \in Assignment : (\A l \in AskedNodes : f[l] = Answered[l]) /\ Val(f)[1] = b
    BY OpenLeaf DEF SInv
  <2>2. ASSUME NEW i \in DOMAIN asked PROVE f[asked[i].node] = asked[i].answer
    BY <2>1 DEF SInv, Recorded, AskedNodes
  <2> QED BY <1>2, <2>1, <2>2 DEF Truth, Val
<1> QED BY <1>2, <1>3, <1>4

\* For every test, a question is new and its answer may still decide, or an allof
\* repeats what it asked for the same operand (static_evaltest).
THEOREM QuestionsAreOpen == Spec => OnlyWhatIsOpen
<1> DEFINE n == frames[1].node
           A == asked' # asked =>
                  IF Repeating THEN n \in AskedNodes
                  ELSE n \notin AskedNodes /\ {Truth(test, f) : f \in Answers} = BOOLEAN
<1>1. IInv /\ SInv /\ [Next]_vars => [A]_vars
  <2> SUFFICES ASSUME IInv, SInv, Next, asked' # asked
               PROVE  IF Repeating THEN n \in AskedNodes
                      ELSE n \notin AskedNodes /\ {Truth(test, f) : f \in Answers} = BOOLEAN
    OBVIOUS
  <2>1. Evaluate
    BY DEF Next, Begin
  <2>2. ~Idle /\ LeafEnds
    BY <2>1, Steps DEF NodeEnds, NodeDescends, NodeGoesOn
  <2>3. n \in Leaves
    BY <2>2, Stack, Operands DEF LeafEnds, Node, Leaves
  <2>4. Repeating => n \in AskedNodes
    BY <2>2, <2>3, Repeated DEF SInv
  <2>5. ~Repeating => n \notin AskedNodes
    BY <2>2, <2>3 DEF SInv, Fresh
  <2>6. n \notin AskedNodes => {Truth(test, f) : f \in Answers} = BOOLEAN
    BY <2>2, <2>3, BothOpen
  <2> QED BY <2>4, <2>5, <2>6
<1>2. [A]_vars <=> [asked' # asked =>
       LET leaf == frames[1].node
       IN  IF Repeating THEN leaf \in AskedNodes
           ELSE leaf \notin AskedNodes /\ {Truth(test, f) : f \in Answers} = BOOLEAN]_vars
  OBVIOUS
<1> HIDE DEF A
<1> QED BY <1>1, <1>2, SInvInit, SInvStep, Invariant, PTL DEF Spec, OnlyWhatIsOpen

-----------------------------------------------------------------------------
(* The answers. *)

Told == test # <<>> => Message(message)

LEMMA ToldStep == IInv /\ Told /\ [Next]_vars => Told'
<1> SUFFICES ASSUME IInv, Told, [Next]_vars PROVE Told'
  OBVIOUS
<1>1. CASE Begin
  <2>1. PICK suite \in Suites : \E t \in suite.tests, m \in suite.messages : message' = m
    BY <1>1 DEF Begin
  <2> QED BY <2>1, SuitesAssumption DEF Told
<1>2. CASE Evaluate
  <2>1. UNCHANGED <<test, message>>
    BY <1>2, Steps
  <2> QED BY <2>1 DEF Told
<1>3. CASE UNCHANGED vars
  BY <1>3 DEF vars, Told
<1> QED BY <1>1, <1>2, <1>3 DEF Next

LEMMA AnswersMean ==
  ASSUME IInv, Recorded, Told, NEW i \in DOMAIN asked, Plain(test[asked[i].node], message)
  PROVE  asked[i].answer = Meaning(test[asked[i].node], message)
<1> DEFINE leaf == test[asked[i].node]
<1>1. asked[i].node \in Leaves
  <2> DEFINE S == [node : Leaves, answer : BOOLEAN]
  <2>1. asked \in Seq(S)
    BY DEF IInv, Typed
  <2> HIDE DEF S
  <2>2. asked[i] \in S
    BY <2>1, LenProperties, ElementOfSeq
  <2> QED BY <2>2 DEF S
<1>2. asked[i].node \in DOMAIN test
  BY <1>1 DEF Leaves
<1>3. test # <<>>
  BY <1>2
<1>4. Test(test) /\ Message(message)
  BY <1>3 DEF IInv, Typed, Told
<1>5. leaf.type \in {"header", "address"} => Comparing(leaf)
  BY <1>2, <1>4 DEF Test
<1>6. asked[i].answer = Holds(leaf, message)
  BY <1>1 DEF Recorded, Answered
<1> HIDE DEF leaf
<1>7. Holds(leaf, message) = Meaning(leaf, message)
  <2>1. Plain(leaf, message)
    BY DEF leaf
  <2> QED BY <1>4, <1>5, <2>1, HoldsMeans
<1> QED BY <1>6, <1>7 DEF leaf

\* Every answer to a header or address test is what its comparator and its match
\* type stand for, over all the headers, patterns and texts of the test, for
\* patterns without a backslash and texts which the test can be about
\* (comparator.c, static_evaltest).
THEOREM ComparisonsAreMeant == Spec => []Comparisons
<1>1. Init => Told
  BY DEF Init, Told
<1>2. IInv /\ SInv /\ Told => Comparisons
  BY AnswersMean DEF SInv, Comparisons
<1> QED BY <1>1, <1>2, ToldStep, SInvInit, SInvStep, Invariant, PTL DEF Spec
=============================================================================
