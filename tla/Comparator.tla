----------------------------- MODULE Comparator -----------------------------
(***************************************************************************)
(* The comparators of comparator.c on strings, which are sequences of      *)
(* character codes, and what each of them is meant to decide.  The first   *)
(* argument is the pattern of the script, the second the text of the       *)
(* message.                                                                *)
(***************************************************************************)
EXTENDS Integers, Sequences, FiniteSets

\* What a char * leads to: the bytes before the NUL.
CString == Seq(1..255)

Star == 42
Question  == 63
Escape == 92

Upper(c) == IF c \in 97..122 THEN c - 32 ELSE c
Lower(c) == IF c \in 65..90 THEN c + 32 ELSE c
Digit(c) == c \in 48..57
Fold(s, casemap) == [i \in DOMAIN s |-> IF casemap THEN Upper(s[i]) ELSE s[i]]
-----------------------------------------------------------------------------
\* Mutant: a wildcard that is not at the end eats one character at least.
ResumeLate(t, tlen) == (t + 1)..tlen

\* Where a recursive call tries the rest of the pattern: at every character.
Resume(t, tlen) == t..tlen

\* octet_matches_: M[<<p, t>>] is the result from the characters p and t on.  A run
\* of wildcards eats a character for each `?' in it; then the rest of the
\* pattern is tried wherever a character of the text is left.  After a
\* backslash one character of the pattern is passed over, and the backslash
\* itself is what is compared.
Matches(pat, text, casemap) ==
  LET P == Fold(pat, casemap)
      T == Fold(text, casemap)
      plen == Len(pat)
      tlen == Len(text)
      M[at \in (1..(plen + 2)) \X (1..(tlen + 1))] ==
        LET p == at[1]
            t == at[2]
        IN  IF p > plen THEN t > tlen
            ELSE IF P[p] = Question THEN t <= tlen /\ M[<<p + 1, t + 1>>]
            ELSE IF P[p] = Star THEN
              LET ends  == {q \in (p + 1)..(plen + 1) : q > plen \/ P[q] \notin {Star, Question}}
                  rest  == CHOOSE q \in ends : \A r \in ends : q <= r
                  eaten == Cardinality({q \in (p + 1)..(rest - 1) : P[q] = Question})
              IN  /\ t + eaten <= tlen + 1
                  /\ rest > plen \/ \E u \in Resume(t + eaten, tlen) : M[<<rest, u>>]
            ELSE /\ t <= tlen /\ T[t] = P[p]
                 /\ M[<<IF P[p] = Escape THEN p + 2 ELSE p + 1, t + 1>>]
  IN  M[<<1, 1>>]

\* ascii_casemap_contains: C[<<d, j>>] is the loop from i = d + j and j on.
CasemapContains(pat, text) ==
  LET P == Fold(pat, TRUE)
      T == Fold(text, TRUE)
      C[at \in (0..Len(text)) \X (0..Len(pat))] ==
        LET d == at[1]
            j == at[2]
        IN  IF j >= Len(pat) \/ d + j >= Len(text) THEN j = Len(pat)
            ELSE IF T[d + j + 1] = P[j + 1] THEN C[<<d, j + 1>>]
            ELSE C[<<d + 1, 0>>]
  IN  C[<<0, 0>>]

\* octet_contains, which is strstr.
OctetContains(pat, text) ==
  \E i \in 0..(Len(text) - Len(pat)) : SubSeq(text, i + 1, i + Len(pat)) = pat

\* strcasecmp: the sign of its result.
Casecmp(a, b) ==
  LET at(s, i) == IF i > Len(s) THEN 0 ELSE Lower(s[i])
      apart    == {i \in 1..(Len(a) + Len(b)) : at(a, i) # at(b, i)}
      first    == CHOOSE i \in apart : \A j \in apart : i <= j
  IN  IF apart = {} THEN "zero"
      ELSE IF at(a, first) < at(b, first) THEN "negative" ELSE "positive"

\* atoi, for numbers that an int holds.
Atoi(s) ==
  LET V[i \in 0..Len(s)] ==
        IF i = 0 THEN [n |-> 0, going |-> TRUE]
        ELSE IF V[i - 1].going /\ Digit(s[i])
             THEN [n |-> V[i - 1].n * 10 + (s[i] - 48), going |-> TRUE]
             ELSE [n |-> V[i - 1].n, going |-> FALSE]
  IN  V[Len(s)].n

Numeric(s) == s # <<>> /\ Digit(s[1])

\* ascii_numeric: the inequalities are backwards, the text being on the left.
AsciiNumeric(rel, pat, text) ==
  LET p == Atoi(pat)
      t == Atoi(text)
  IN  IF Numeric(pat) /\ Numeric(text)
      THEN CASE rel = "gt" -> p < t  [] rel = "ge" -> p <= t [] rel = "lt" -> p > t
             [] rel = "le" -> p >= t [] rel = "eq" -> p = t  [] rel = "ne" -> p # t
      ELSE ~Numeric(pat) /\ ~Numeric(text)

\* ascii_casemap.
AsciiCasemap(rel, pat, text) ==
  Casecmp(pat, text) \in
    CASE rel = "gt" -> {"negative"} [] rel = "ge" -> {"negative", "zero"}
      [] rel = "lt" -> {"positive"} [] rel = "le" -> {"positive", "zero"}
      [] rel = "eq" -> {"zero"}     [] rel = "ne" -> {"negative", "positive"}

Relation == {"gt", "ge", "lt", "le", "eq", "ne"}

\* libsieve_comparator_lookup has a function: the parser refuses a test for
\* which there is none, and so values and counts of octets.
Lookup(comparator, match) ==
  comparator # "octet" \/ match \in {"is", "contains", "matches"}

\* The function libsieve_comparator_lookup returns, applied.  A relation that
\* it does not know, and a pattern for numbers, are never fulfilled.
Compare(comparator, match, rel, pat, text) ==
  CASE match = "is" ->
         (CASE comparator = "octet"   -> pat = text
            [] comparator = "casemap" -> AsciiCasemap("eq", pat, text)
            [] comparator = "numeric" -> AsciiNumeric("eq", pat, text))
    [] match = "contains" ->
         (CASE comparator = "octet"   -> OctetContains(pat, text)
            [] comparator = "casemap" -> CasemapContains(pat, text)
            [] comparator = "numeric" -> FALSE)
    [] match = "matches" ->
         comparator # "numeric" /\ Matches(pat, text, comparator = "casemap")
    [] OTHER ->
         /\ rel \in Relation
         /\ IF comparator = "numeric" THEN AsciiNumeric(rel, pat, text)
                                      ELSE AsciiCasemap(rel, pat, text)
-----------------------------------------------------------------------------
\* What the comparators are to decide.

\* The text falls into one piece for each character of the pattern: any piece
\* for a `*', any one character for a `?', the character itself otherwise.
Glob(pat, text) ==
  \E cut \in [0..Len(pat) -> 0..Len(text)] :
    /\ cut[0] = 0 /\ cut[Len(pat)] = Len(text)
    /\ \A i \in DOMAIN pat :
         IF pat[i] = Star THEN cut[i - 1] <= cut[i]
         ELSE cut[i] = cut[i - 1] + 1 /\ pat[i] \in {Question, text[cut[i]]}

Within(pat, text) ==
  \E i \in 0..Len(text) : \A j \in DOMAIN pat : i + j \in DOMAIN text /\ pat[j] = text[i + j]

Before(a, b) ==
  \E k \in 0..Len(a) :
    /\ k < Len(b) /\ \A i \in 1..k : a[i] = b[i]
    /\ k = Len(a) \/ a[k + 1] < b[k + 1]

Related(rel, before, same) ==
  CASE rel = "gt" -> ~before /\ ~same [] rel = "ge" -> ~before
    [] rel = "lt" -> before           [] rel = "le" -> before \/ same
    [] rel = "eq" -> same             [] rel = "ne" -> ~same
    [] OTHER      -> FALSE

\* strcasecmp puts the signs between Z and a before the letters.
Collated(s) == [i \in DOMAIN s |-> Lower(s[i])]

\* Whether the text is, contains, matches or stands in the relation to the
\* pattern, by the collation of the comparator; a number, if both are numbers.
Meant(comparator, match, rel, pat, text) ==
  LET p == Fold(pat, comparator = "casemap")
      t == Fold(text, comparator = "casemap")
      r == IF match = "is" THEN "eq" ELSE rel
  IN  IF comparator = "numeric"
      THEN /\ match \in {"is", "value", "count"}
           /\ Related(r, Atoi(t) < Atoi(p), Atoi(t) = Atoi(p))
      ELSE CASE match = "contains" -> Within(p, t)
             [] match = "matches"  -> Glob(p, t)
             [] OTHER              -> Related(r, Before(Collated(t), Collated(p)), t = p)
=============================================================================
