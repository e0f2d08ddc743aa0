--------------------------- MODULE RegexExec_proofs ---------------------------
(***************************************************************************)
(* Proofs about NodeSets and RegexExec for every program and every text.   *)
(***************************************************************************)
EXTENDS RegexExec, SequenceTheorems, WellFoundedInduction, TLAPS

-----------------------------------------------------------------------------
(* The least-number principle for sets, which stands in for induction. *)

\* A set of numbers that is not empty has a least element.
LEMMA Least ==
  ASSUME NEW T, T \subseteq Nat, T # {}
  PROVE  \E x \in T : \A y \in T : x <= y
<1> DEFINE less == OpToRel(<, Nat)
<1>1. IsWellFoundedOn(less, Nat)
  BY NatLessThanWellFounded DEF OpToRel
<1>2. less = {p \in Nat \X Nat : p[1] < p[2]}
  BY DEF OpToRel
<1> HIDE DEF less
<1>3. PICK x \in T : \A y \in T : ~(<<y, x>> \in less)
  BY <1>1, WFMin
<1>4. \A y \in T : ~(y < x)
  BY <1>2, <1>3
<1> QED BY <1>4

\* Induction over the numbers up to N, as membership in a set.
LEMMA Induction ==
  ASSUME NEW N \in Nat, NEW S, 0 \in S, \A d \in 0..(N - 1) : d \in S => d + 1 \in S
  PROVE  \A d \in 0..N : d \in S
<1> DEFINE Bad == {d \in 0..N : d \notin S}
<1> SUFFICES ASSUME Bad # {} PROVE FALSE
  OBVIOUS
<1>1. PICK d \in Bad : \A e \in Bad : d <= e
  <2>1. Bad \subseteq Nat
    OBVIOUS
  <2> HIDE DEF Bad
  <2> QED BY <2>1, Least
<1>2. d \in 0..N /\ d \notin S /\ d # 0
  BY <1>1
<1>3. d - 1 \in 0..(N - 1) /\ (d - 1) + 1 = d /\ ~(d <= d - 1)
  BY <1>2
<1>4. d - 1 \notin S
  BY <1>2, <1>3
<1>5. d - 1 \in 0..N
  BY <1>3
<1> QED BY <1>1, <1>3, <1>4, <1>5

\* The function that starts with init and goes on with step.
Moves(N, D) == [(1..N) \X D -> D]
Goes(f, N, D, init, step) ==
  f \in [0..N -> D] /\ f[0] = init /\ \A i \in 1..N : f[i] = step[<<i, f[i - 1]>>]
LEMMA Recursion ==
  ASSUME NEW N \in Nat, NEW D, NEW init \in D, NEW step \in Moves(N, D)
  PROVE  \E f : Goes(f, N, D, init, step)
<1> DEFINE Upto(f, d) == /\ f \in [0..d -> D] /\ f[0] = init
                         /\ \A i \in 1..d : f[i] = step[<<i, f[i - 1]>>]
           Bad == {d \in 0..N : ~\E f : Upto(f, d)}
<1>1. \E f : Upto(f, 0)
  <2> DEFINE f == [i \in 0..0 |-> init]
  <2>1. Upto(f, 0)
    OBVIOUS
  <2> QED BY <2>1
<1>2. ASSUME NEW d \in 0..(N - 1), NEW f, Upto(f, d) PROVE \E g : Upto(g, d + 1)
  <2> DEFINE g == [i \in 0..(d + 1) |-> IF i <= d THEN f[i] ELSE step[<<d + 1, f[d]>>]]
  <2>1. f[d] \in D /\ d + 1 \in 1..N
    BY <1>2
  <2>2. step[<<d + 1, f[d]>>] \in D
    BY <2>1 DEF Moves
  <2>3. (\A i \in 0..d : g[i] = f[i]) /\ g[d + 1] = step[<<d + 1, f[d]>>]
    BY <2>1
  <2>4. g \in [0..(d + 1) -> D]
    BY <1>2, <2>2
  <2> HIDE DEF g
  <2>5. ASSUME NEW i \in 1..(d + 1) PROVE g[i] = step[<<i, g[i - 1]>>]
    <3>1. CASE i = d + 1
      BY <2>3, <3>1
    <3>2. CASE i \in 1..d
      <4>1. i - 1 \in 0..d /\ i \in 0..d
        BY <3>2
      <4> QED BY <1>2, <2>3, <3>2, <4>1
    <3> QED BY <3>1, <3>2
  <2>6. g[0] = init
    BY <1>2, <2>3
  <2> QED BY <2>4, <2>5, <2>6
<1>3. Bad = {}
  <2> SUFFICES ASSUME Bad # {} PROVE FALSE
    OBVIOUS
  <2>1. PICK d \in Bad : \A e \in Bad : d <= e
    <3>1. Bad \subseteq Nat
      OBVIOUS
    <3> HIDE DEF Bad
    <3> QED BY <3>1, Least
  <2>2. d # 0 /\ d \in 0..N
    BY <1>1, <2>1
  <2> HIDE DEF Bad
  <2>3. d - 1 \in 0..(N - 1) /\ d - 1 \in 0..N /\ ~(d <= d - 1)
    BY <2>2
  <2>4. PICK f : Upto(f, d - 1)
    BY <2>1, <2>3 DEF Bad
  <2>5. \E g : Upto(g, (d - 1) + 1)
    <3> HIDE DEF Upto
    <3> QED BY <1>2, <2>3, <2>4
  <2>6. (d - 1) + 1 = d
    BY <2>2
  <2> QED BY <2>1, <2>5, <2>6 DEF Bad
<1>4. PICK f : Upto(f, N)
  BY <1>3
<1> QED BY <1>4 DEF Goes

-----------------------------------------------------------------------------
Bytes == Char \cup {UNBUILT}
Strings ==
  [raw : Seq(Char \ {NUL}), icase : BOOLEAN, mbs : UNION {[1..n -> Bytes] : n \in Nat},
   raw_mbs_idx : Nat, len : Nat, bufs_len : Nat \ {0}, valid_len : Nat, cur_idx : Nat,
   tip_context : Nat]

\* The valid part of the buffer is within it and has the text in upper case.
Built(in) ==
  /\ in.mbs \in [1..in.bufs_len -> Bytes]
  /\ in.valid_len <= in.bufs_len /\ in.valid_len <= in.len
  /\ \A k \in 1..in.valid_len : in.mbs[k] = ToUpper[RawAt(in, k - 1)]

Good(in) ==
  /\ in \in Strings
  /\ in.raw_mbs_idx + in.len = Len(in.raw)
  /\ in.cur_idx <= in.len
  /\ IF in.icase THEN Built(in) ELSE in.mbs \in [1..0 -> Bytes]

\* It was built as far as it reaches, or the text does.
Full(in) == in.icase => in.valid_len = in.bufs_len \/ in.valid_len = in.len

Tip(in) ==
  in.tip_context =
    IF in.raw_mbs_idx = 0 THEN CONTEXT_NEWLINE + CONTEXT_BEGBUF
    ELSE IF in.raw[in.raw_mbs_idx] \in Word THEN CONTEXT_WORD ELSE 0

-------------------------------------------------------------------------------
LEMMA RawByte ==
  ASSUME NEW in \in Strings, NEW i \in Nat
  PROVE  RawAt(in, i) \in Char /\ ToUpper[RawAt(in, i)] \in Char
<1>1. in.raw \in Seq(Char \ {NUL}) /\ in.raw_mbs_idx \in Nat
  BY DEF Strings
<1>2. RawAt(in, i) \in Char
  BY <1>1, CharAssumption DEF RawAt
<1> QED BY <1>2, CaseAssumption

\* build_upper_buffer builds the rest of the buffer and leaves the other
\* members alone.
LEMMA Upper ==
  ASSUME NEW in, Good(in), in.icase
  PROVE  LET up == BuildUpper(in)
         IN  /\ Good(up) /\ Full(up)
             /\ up.raw = in.raw /\ up.icase = in.icase /\ up.raw_mbs_idx = in.raw_mbs_idx
             /\ up.len = in.len /\ up.bufs_len = in.bufs_len /\ up.cur_idx = in.cur_idx
             /\ up.tip_context = in.tip_context
<1> DEFINE end == IF in.bufs_len > in.len THEN in.len ELSE in.bufs_len
           mbs == [k \in 1..in.bufs_len |->
                     IF in.valid_len < k /\ k <= end THEN ToUpper[RawAt(in, k - 1)] ELSE in.mbs[k]]
           valid == IF in.valid_len < end THEN end ELSE in.valid_len
           up  == [in EXCEPT !.mbs = mbs, !.valid_len = valid]
<1>1. BuildUpper(in) = up
  BY DEF BuildUpper
<1>2. in \in Strings /\ in.bufs_len \in Nat \ {0} /\ in.len \in Nat /\ in.valid_len \in Nat
  BY DEF Good, Strings
<1>3. valid = end /\ end \in Nat
  BY <1>2 DEF Good, Built
<1>4. mbs \in [1..in.bufs_len -> Bytes]
  <2> SUFFICES ASSUME NEW k \in 1..in.bufs_len
               PROVE  (IF in.valid_len < k /\ k <= end THEN ToUpper[RawAt(in, k - 1)] ELSE in.mbs[k]) \in Bytes
    OBVIOUS
  <2>1. k - 1 \in Nat
    BY <1>2
  <2>2. ToUpper[RawAt(in, k - 1)] \in Bytes
    BY <1>2, <2>1, RawByte DEF Bytes
  <2>3. in.mbs[k] \in Bytes
    BY DEF Good, Built
  <2> QED BY <2>2, <2>3
<1> HIDE DEF mbs, valid, end
<1>5. up \in Strings
  <2>1. mbs \in UNION {[1..n -> Bytes] : n \in Nat}
    BY <1>2, <1>4
  <2> QED BY <1>2, <1>3, <2>1 DEF Strings
<1>6. /\ up.raw = in.raw /\ up.icase = in.icase /\ up.raw_mbs_idx = in.raw_mbs_idx
      /\ up.len = in.len /\ up.bufs_len = in.bufs_len /\ up.cur_idx = in.cur_idx
      /\ up.tip_context = in.tip_context /\ up.mbs = mbs /\ up.valid_len = end
  BY <1>2, <1>3 DEF Strings
<1>7. \A i : RawAt(up, i) = RawAt(in, i)
  BY <1>6 DEF RawAt
<1>8. \A k \in 1..end : mbs[k] = ToUpper[RawAt(in, k - 1)]
  <2> SUFFICES ASSUME NEW k \in 1..end PROVE mbs[k] = ToUpper[RawAt(in, k - 1)]
    OBVIOUS
  <2>1. k \in 1..in.bufs_len
    BY <1>2 DEF end
  <2>2. CASE in.valid_len < k
    BY <1>2, <2>1, <2>2 DEF mbs, end
  <2>3. CASE ~(in.valid_len < k)
    BY <1>2, <2>1, <2>3 DEF mbs, Good, Built, end
  <2> QED BY <2>2, <2>3
<1>9. Built(up)
  BY <1>2, <1>4, <1>6, <1>7, <1>8 DEF Built, end
<1>10. Good(up)
  BY <1>5, <1>6, <1>9 DEF Good
<1>11. Full(up)
  BY <1>2, <1>6 DEF Full, end
<1> QED BY <1>1, <1>6, <1>10, <1>11

\* re_string_allocate: nothing is valid yet with REG_ICASE.
LEMMA Allocated ==
  ASSUME NEW text \in Seq(Char \ {NUL}), NEW n \in Nat \ {0}, NEW icase \in BOOLEAN
  PROVE  LET in == Allocate(text, n, icase)
         IN  /\ Good(in) /\ Tip(in)
             /\ in.raw = text /\ in.raw_mbs_idx = 0 /\ in.cur_idx = 0 /\ in.len = Len(text)
<1> DEFINE size == IF Len(text) + 1 < n THEN Len(text) + 1 ELSE n
           mbs  == [k \in 1..(IF icase THEN size ELSE 0) |-> UNBUILT]
           in   == [raw |-> text, icase |-> icase, mbs |-> mbs,
                    raw_mbs_idx |-> 0, len |-> Len(text), bufs_len |-> size,
                    valid_len |-> IF icase THEN 0 ELSE Len(text),
                    cur_idx |-> 0, tip_context |-> CONTEXT_NEWLINE + CONTEXT_BEGBUF]
<1>1. Allocate(text, n, icase) = in
  BY DEF Allocate
<1>2. Len(text) \in Nat /\ size \in Nat \ {0}
  OBVIOUS
<1>3. mbs \in [1..(IF icase THEN size ELSE 0) -> Bytes]
  BY DEF Bytes
<1>4. (IF icase THEN size ELSE 0) \in Nat
  BY <1>2
<1>5. icase => mbs \in [1..size -> Bytes]
  BY <1>3
<1> HIDE DEF size, mbs
<1>6. mbs \in UNION {[1..m -> Bytes] : m \in Nat}
  BY <1>3, <1>4
<1>7. in \in Strings
  BY <1>2, <1>6 DEF Strings, CONTEXT_NEWLINE, CONTEXT_BEGBUF
<1>8. IF icase THEN Built(in) ELSE in.mbs \in [1..0 -> Bytes]
  BY <1>2, <1>3, <1>5 DEF Built
<1>9. Good(in)
  BY <1>2, <1>7, <1>8 DEF Good
<1>10. Tip(in)
  BY DEF Tip
<1> QED BY <1>1, <1>9, <1>10

\* extend_buffers
LEMMA Extended ==
  ASSUME NEW in, Good(in)
  PROVE  LET ext == Extend(in)
         IN  /\ Good(ext) /\ Full(ext)
             /\ ext.raw = in.raw /\ ext.icase = in.icase /\ ext.raw_mbs_idx = in.raw_mbs_idx
             /\ ext.len = in.len /\ ext.bufs_len = 2 * in.bufs_len /\ ext.cur_idx = in.cur_idx
             /\ ext.tip_context = in.tip_context
<1> DEFINE size == 2 * in.bufs_len
           mbs  == [k \in 1..size |-> IF k <= in.bufs_len THEN in.mbs[k] ELSE UNBUILT]
           bigger == [in EXCEPT !.bufs_len = size, !.mbs = mbs]
           plain  == [in EXCEPT !.bufs_len = size, !.valid_len = size]
<1>1. Extend(in) = IF in.icase THEN BuildUpper(bigger) ELSE plain
  BY DEF Extend
<1>2. in \in Strings /\ in.bufs_len \in Nat \ {0} /\ in.valid_len \in Nat /\ in.icase \in BOOLEAN
  BY DEF Good, Strings
<1>3. size \in Nat \ {0} /\ in.bufs_len <= size
  BY <1>2
<1>4. CASE in.icase
  <2>1. mbs \in [1..size -> Bytes]
    BY <1>2, <1>3, <1>4 DEF Good, Built, Bytes
  <2>2. \A k \in 1..in.valid_len : mbs[k] = in.mbs[k]
    BY <1>2, <1>3, <1>4 DEF Good, Built
  <2> HIDE DEF mbs, size
  <2>3. mbs \in UNION {[1..n -> Bytes] : n \in Nat}
    BY <1>3, <2>1
  <2>4. bigger \in Strings
    BY <1>2, <1>3, <2>3 DEF Strings
  <2>5. /\ bigger.raw = in.raw /\ bigger.icase = in.icase /\ bigger.raw_mbs_idx = in.raw_mbs_idx
        /\ bigger.len = in.len /\ bigger.bufs_len = size /\ bigger.cur_idx = in.cur_idx
        /\ bigger.tip_context = in.tip_context /\ bigger.mbs = mbs
        /\ bigger.valid_len = in.valid_len
    BY <1>2 DEF Strings
  <2>6. \A i : RawAt(bigger, i) = RawAt(in, i)
    BY <2>5 DEF RawAt
  <2>7. Built(bigger)
    BY <1>2, <1>3, <1>4, <2>1, <2>2, <2>5, <2>6 DEF Good, Built
  <2>8. Good(bigger)
    BY <1>2, <1>4, <2>4, <2>5, <2>7 DEF Good, Strings
  <2> HIDE DEF bigger
  <2>9. /\ Good(BuildUpper(bigger)) /\ Full(BuildUpper(bigger))
        /\ BuildUpper(bigger).raw = bigger.raw /\ BuildUpper(bigger).icase = bigger.icase
        /\ BuildUpper(bigger).raw_mbs_idx = bigger.raw_mbs_idx
        /\ BuildUpper(bigger).len = bigger.len /\ BuildUpper(bigger).bufs_len = bigger.bufs_len
        /\ BuildUpper(bigger).cur_idx = bigger.cur_idx
        /\ BuildUpper(bigger).tip_context = bigger.tip_context
    BY <1>4, <2>5, <2>8, Upper
  <2> QED BY <1>1, <1>4, <2>5, <2>9 DEF size
<1>5. CASE ~in.icase
  <2>1. plain \in Strings
    BY <1>2, <1>3 DEF Strings
  <2>2. /\ plain.raw = in.raw /\ plain.icase = in.icase /\ plain.raw_mbs_idx = in.raw_mbs_idx
        /\ plain.len = in.len /\ plain.bufs_len = size /\ plain.cur_idx = in.cur_idx
        /\ plain.tip_context = in.tip_context
    BY <1>2 DEF Strings
  <2>3. Good(plain) /\ Full(plain)
    BY <1>5, <2>1, <2>2 DEF Good, Full
  <2> QED BY <1>1, <1>5, <2>2, <2>3
<1> QED BY <1>4, <1>5

\* The look ahead: the byte that is read and the one behind it are in the
\* buffer.
LEMMA LooksAhead ==
  ASSUME NEW in, Good(in), Full(in), in.cur_idx < in.len, in.icase => in.cur_idx < in.bufs_len
  PROVE  LET a == Ahead(in)
         IN  /\ Good(a) /\ Full(a)
             /\ a.raw = in.raw /\ a.icase = in.icase /\ a.raw_mbs_idx = in.raw_mbs_idx
             /\ a.len = in.len /\ a.cur_idx = in.cur_idx /\ a.tip_context = in.tip_context
             /\ a.icase => a.cur_idx + 1 < a.bufs_len
<1>1. in.cur_idx \in Nat /\ in.bufs_len \in Nat \ {0} /\ in.icase \in BOOLEAN
  BY DEF Good, Strings
<1> DEFINE ext == Extend(in)
<1>2. /\ Good(ext) /\ Full(ext)
      /\ ext.raw = in.raw /\ ext.icase = in.icase /\ ext.raw_mbs_idx = in.raw_mbs_idx
      /\ ext.len = in.len /\ ext.bufs_len = 2 * in.bufs_len /\ ext.cur_idx = in.cur_idx
      /\ ext.tip_context = in.tip_context
  BY Extended
<1> HIDE DEF ext
<1>3. CASE Ahead(in) = ext
  <2>1. ext.icase => ext.cur_idx + 1 < ext.bufs_len
    BY <1>1, <1>2
  <2> QED BY <1>2, <1>3, <2>1
<1>4. CASE Ahead(in) = in /\ in.cur_idx + 1 < in.bufs_len
  BY <1>4
<1>5. Ahead(in) = ext \/ (Ahead(in) = in /\ in.cur_idx + 1 < in.bufs_len)
  BY <1>1 DEF Ahead, ext
<1> QED BY <1>3, <1>4, <1>5

\* The memmove: the valid bytes behind the offset are the first ones.
LEMMA Move ==
  ASSUME NEW n \in Nat, NEW v \in 0..n, NEW o \in Nat, NEW f \in [1..n -> Bytes]
  PROVE  LET valid == IF o = 0 \/ o < v THEN v - o ELSE 0
         IN  /\ Moved(f, v, o) \in [1..n -> Bytes]
             /\ valid \in 0..n
             /\ \A k \in 1..valid : k + o \in 1..v /\ Moved(f, v, o)[k] = f[k + o]
<1>1. \A k \in 1..n : (IF o < v /\ k <= v - o THEN k + o ELSE k) \in 1..n
  OBVIOUS
<1>2. DOMAIN f = 1..n
  OBVIOUS
<1>3. Moved(f, v, o) \in [1..n -> Bytes]
  BY <1>1, <1>2 DEF Moved
<1> DEFINE valid == IF o = 0 \/ o < v THEN v - o ELSE 0
<1>4. valid \in 0..n /\ \A k \in 1..valid : k + o \in 1..v
  OBVIOUS
<1>5. ASSUME NEW k \in 1..valid
      PROVE  Moved(f, v, o)[k] = f[k + o]
  <2>1. k \in 1..n
    BY <1>4
  <2>2. Moved(f, v, o)[k] = f[IF o < v /\ k <= v - o THEN k + o ELSE k]
    BY <1>2, <2>1 DEF Moved
  <2>3. (IF o < v /\ k <= v - o THEN k + o ELSE k) = k + o
    OBVIOUS
  <2> QED BY <2>2, <2>3
<1> QED BY <1>3, <1>4, <1>5

\* The context before the place the buffer is moved to is taken from the byte
\* before it, whether that is in the buffer or not.
LEMMA TipMoved ==
  ASSUME NEW in, Good(in), Tip(in), NEW offset \in 0..in.len,
         NEW idx \in Nat, idx = in.raw_mbs_idx + offset
  PROVE  Before(in, offset) = IF idx = 0 THEN CONTEXT_NEWLINE + CONTEXT_BEGBUF
                              ELSE IF in.raw[idx] \in Word THEN CONTEXT_WORD ELSE 0
<1>2. /\ in.valid_len \in Nat /\ in.raw_mbs_idx \in Nat /\ in.len \in Nat
      /\ in.bufs_len \in Nat /\ Len(in.raw) \in Nat
      /\ in.raw_mbs_idx + in.len = Len(in.raw) /\ in.raw \in Seq(Char \ {NUL})
  BY DEF Good, Strings
<1>3. CASE offset = 0
  BY <1>2, <1>3 DEF Before, Tip
<1>4. CASE offset # 0
  <2>1. idx \in 1..Len(in.raw) /\ in.raw_mbs_idx + (offset - 1) + 1 = idx
    BY <1>2, <1>4
  <2>2. RawAt(in, offset - 1) = in.raw[idx]
    BY <1>2, <2>1 DEF RawAt
  <2>3. in.raw[idx] \in Char
    BY <1>2, <2>1
  <2>4. CASE offset < in.valid_len
    <3>1. ~(offset - 1 < 0) /\ offset - 1 # in.len
      BY <1>2, <1>4
    <3>2. ContextAt(in, offset - 1) = IF ByteAt(in, offset - 1) \in Word THEN CONTEXT_WORD ELSE 0
      BY <3>1 DEF ContextAt
    <3>3. ByteAt(in, offset - 1) = IF in.icase THEN ToUpper[in.raw[idx]] ELSE in.raw[idx]
      <4>1. CASE in.icase
        <5>1. offset \in 1..in.valid_len /\ offset - 1 < in.bufs_len /\ offset - 1 + 1 = offset
          BY <1>2, <1>4, <2>4, <4>1 DEF Good, Built
        <5>2. in.mbs[offset] = ToUpper[RawAt(in, offset - 1)]
          BY <4>1, <5>1 DEF Good, Built
        <5> QED BY <2>2, <4>1, <5>1, <5>2 DEF ByteAt
      <4>2. CASE ~in.icase
        BY <2>2, <4>2 DEF ByteAt
      <4> QED BY <4>1, <4>2
    <3>4. ByteAt(in, offset - 1) \in Word <=> in.raw[idx] \in Word
      BY <2>3, <3>3, CaseAssumption
    <3>5. Before(in, offset) = ContextAt(in, offset - 1)
      BY <1>4, <2>4 DEF Before
    <3>6. idx # 0
      BY <2>1
    <3> QED BY <3>2, <3>4, <3>5, <3>6
  <2>5. CASE ~(offset < in.valid_len)
    <3>1. idx # 0
      BY <2>1
    <3> QED BY <1>4, <2>2, <2>5, <3>1 DEF Before
  <2> QED BY <2>4, <2>5
<1> QED BY <1>3, <1>4

\* re_string_reconstruct
LEMMA Reconstructed ==
  ASSUME NEW in, Good(in), Tip(in), NEW idx \in in.raw_mbs_idx..Len(in.raw)
  PROVE  LET r == Reconstruct(in, idx)
         IN  /\ Good(r) /\ Full(r) /\ Tip(r)
             /\ r.raw = in.raw /\ r.icase = in.icase /\ r.raw_mbs_idx = idx
             /\ r.len = Len(in.raw) - idx /\ r.cur_idx = 0 /\ r.bufs_len = in.bufs_len
<1> DEFINE offset == idx - in.raw_mbs_idx
           tip    == Before(in, offset)
           mbs    == Moved(in.mbs, in.valid_len, offset)
           valid  == IF offset = 0 \/ offset < in.valid_len THEN in.valid_len - offset ELSE 0
           moved  == [in EXCEPT !.tip_context = tip, !.mbs = mbs, !.valid_len = valid,
                                !.raw_mbs_idx = idx, !.len = in.len - offset, !.cur_idx = 0]
<1>1. Reconstruct(in, idx) = IF in.icase THEN BuildUpper(moved) ELSE moved
  BY DEF Reconstruct
<1>2. /\ in \in Strings /\ in.bufs_len \in Nat \ {0} /\ in.valid_len \in Nat
      /\ in.icase \in BOOLEAN /\ in.raw_mbs_idx \in Nat /\ in.len \in Nat
      /\ in.raw_mbs_idx + in.len = Len(in.raw) /\ Len(in.raw) \in Nat
      /\ in.raw \in Seq(Char \ {NUL}) /\ in.tip_context \in Nat
  BY DEF Good, Strings
<1>3. /\ offset \in 0..in.len /\ idx \in Nat /\ valid \in Nat
      /\ in.len - offset = Len(in.raw) - idx /\ in.len - offset \in Nat
      /\ in.raw_mbs_idx + offset = idx
  <2>1. idx \in Nat /\ in.raw_mbs_idx <= idx /\ idx <= in.raw_mbs_idx + in.len
    BY <1>2
  <2> DEFINE first == in.raw_mbs_idx
             len   == in.len
             whole == Len(in.raw)
  <2>5. /\ first \in Nat /\ len \in Nat /\ whole \in Nat /\ first + len = whole
        /\ idx \in Nat /\ first <= idx /\ idx <= first + len /\ offset = idx - first
    BY <1>2, <2>1
  <2> HIDE DEF offset, first, len, whole
  <2>6. /\ offset \in 0..len /\ first + offset = idx
        /\ len - offset = whole - idx /\ len - offset \in Nat
    BY <2>5
  <2>2. offset \in 0..in.len /\ in.raw_mbs_idx + offset = idx
    BY <2>6 DEF first, len
  <2>3. in.len - offset = Len(in.raw) - idx /\ in.len - offset \in Nat
    BY <2>6 DEF len, whole
  <2>4. valid \in Nat
    BY <1>2, <2>2
  <2> QED BY <2>1, <2>2, <2>3, <2>4
<1> HIDE DEF offset
<1>4. tip = IF idx = 0 THEN CONTEXT_NEWLINE + CONTEXT_BEGBUF
            ELSE IF in.raw[idx] \in Word THEN CONTEXT_WORD ELSE 0
  BY <1>3, TipMoved
<1> HIDE DEF tip
<1>5. tip \in Nat
  BY <1>4 DEF CONTEXT_NEWLINE, CONTEXT_BEGBUF, CONTEXT_WORD
<1>6. ASSUME in.icase
      PROVE  /\ mbs \in [1..in.bufs_len -> Bytes]
             /\ valid <= in.bufs_len /\ valid <= in.len - offset
             /\ \A k \in 1..valid : k + offset \in 1..in.valid_len /\ mbs[k] = in.mbs[k + offset]
  <2>1. in.mbs \in [1..in.bufs_len -> Bytes] /\ in.valid_len <= in.bufs_len /\ in.valid_len <= in.len
    BY <1>6 DEF Good, Built
  <2>2. in.bufs_len \in Nat /\ in.valid_len \in 0..in.bufs_len /\ offset \in Nat
    BY <1>2, <1>3, <2>1
  <2>3. valid <= in.len - offset
    BY <1>2, <1>3, <2>1
  <2>4. /\ mbs \in [1..in.bufs_len -> Bytes]
        /\ valid \in 0..in.bufs_len
        /\ \A k \in 1..valid : k + offset \in 1..in.valid_len /\ mbs[k] = in.mbs[k + offset]
    BY <2>1, <2>2, Move
  <2> QED BY <1>2, <2>3, <2>4
<1>7. ASSUME ~in.icase PROVE mbs \in [1..0 -> Bytes]
  <2>1. in.mbs \in [1..0 -> Bytes]
    BY <1>7 DEF Good
  <2> QED BY <2>1 DEF Moved
<1> HIDE DEF mbs, valid
<1>8. mbs \in UNION {[1..n -> Bytes] : n \in Nat}
  <2>1. CASE in.icase
    BY <1>2, <1>6, <2>1
  <2>2. CASE ~in.icase
    BY <1>7, <2>2
  <2> QED BY <2>1, <2>2
<1>9. moved \in Strings
  BY <1>2, <1>3, <1>5, <1>8 DEF Strings
<1>10. /\ moved.raw = in.raw /\ moved.icase = in.icase /\ moved.raw_mbs_idx = idx
       /\ moved.len = in.len - offset /\ moved.bufs_len = in.bufs_len /\ moved.cur_idx = 0
       /\ moved.tip_context = tip /\ moved.mbs = mbs /\ moved.valid_len = valid
  BY <1>2 DEF Strings
<1> HIDE DEF moved
<1>11. ASSUME NEW k \in Int PROVE RawAt(moved, k - 1) = RawAt(in, k + offset - 1)
  <2>1. idx \in Int /\ in.raw_mbs_idx \in Int /\ offset = idx - in.raw_mbs_idx
    BY <1>2, <1>3
  <2>2. \A i, j \in Int : offset = i - j => i + (k - 1) + 1 = j + (k + offset - 1) + 1
    OBVIOUS
  <2>3. idx + (k - 1) + 1 = in.raw_mbs_idx + (k + offset - 1) + 1
    BY <2>1, <2>2
  <2> QED BY <1>10, <2>3 DEF RawAt
<1>12. ASSUME in.icase PROVE Built(moved)
  <2>1. ASSUME NEW k \in 1..valid PROVE mbs[k] = ToUpper[RawAt(moved, k - 1)]
    <3>1. k \in Int
      OBVIOUS
    <3>2. k + offset \in 1..in.valid_len /\ mbs[k] = in.mbs[k + offset]
      BY <1>6, <1>12
    <3>3. in.mbs[k + offset] = ToUpper[RawAt(in, k + offset - 1)]
      BY <1>2, <1>3, <1>12, <3>1, <3>2 DEF Good, Built
    <3> QED BY <1>11, <3>1, <3>2, <3>3
  <2> QED BY <1>6, <1>10, <1>12, <2>1 DEF Built
<1>13. Good(moved)
  <2>1. moved.raw_mbs_idx + moved.len = Len(moved.raw) /\ moved.cur_idx <= moved.len
    BY <1>2, <1>3, <1>10
  <2>2. IF moved.icase THEN Built(moved) ELSE moved.mbs \in [1..0 -> Bytes]
    BY <1>7, <1>10, <1>12
  <2> QED BY <1>9, <2>1, <2>2 DEF Good
<1>14. Tip(moved)
  BY <1>4, <1>10 DEF Tip
<1>15. CASE in.icase
  <2>1. LET up == BuildUpper(moved)
        IN  /\ Good(up) /\ Full(up)
            /\ up.raw = moved.raw /\ up.icase = moved.icase /\ up.raw_mbs_idx = moved.raw_mbs_idx
            /\ up.len = moved.len /\ up.bufs_len = moved.bufs_len /\ up.cur_idx = moved.cur_idx
            /\ up.tip_context = moved.tip_context
    BY <1>10, <1>13, <1>15, Upper
  <2>2. Tip(BuildUpper(moved))
    BY <1>14, <2>1 DEF Tip
  <2> QED BY <1>1, <1>3, <1>10, <1>15, <2>1, <2>2
<1>16. CASE ~in.icase
  BY <1>1, <1>3, <1>10, <1>13, <1>14, <1>16 DEF Full
<1> QED BY <1>15, <1>16
-------------------------------------------------------------------------------
\* The invariant that the search rests on.
SearchInv ==
  /\ pc \in {"free", "ready", "search", "match"}
  /\ answer \in {"none", "match", "nomatch"}
  /\ pc # "free" => prog.icase \in BOOLEAN /\ Len(prog.nodes) \in Nat
  /\ Good(input) /\ Tip(input)
  /\ match_first \in 0..(Len(input.raw) + 1)
  /\ pc = "search" => match_first \in input.raw_mbs_idx..Len(input.raw)
  /\ pc = "match" =>
       /\ Full(input) /\ input.cur_idx < input.len
       /\ input.icase => input.cur_idx < input.bufs_len
       /\ match_first <= input.raw_mbs_idx

LEMMA Numbers ==
  ASSUME NEW in, Good(in)
  PROVE  /\ in.bufs_len \in Nat \ {0} /\ in.valid_len \in Nat /\ in.icase \in BOOLEAN
         /\ in.raw_mbs_idx \in Nat /\ in.len \in Nat /\ in.cur_idx \in Nat
         /\ in.raw_mbs_idx + in.len = Len(in.raw) /\ Len(in.raw) \in Nat
         /\ in.raw \in Seq(Char \ {NUL}) /\ in.cur_idx <= in.len
BY DEF Good, Strings

\* The fastmap finds a place or the end of the text, and passes over places whose
\* bytes are not in it.
LEMMA Places ==
  ASSUME NEW n \in Nat, n = Len(input.raw), match_first \in 0..n
  PROVE  /\ Place \in match_first..n
         /\ \A i \in match_first..(Place - 1) : i < n /\ input.raw[i + 1] \notin prog.fastmap
<1> DEFINE T == {k \in match_first..n : k < n => input.raw[k + 1] \in prog.fastmap}
<1>1. PICK k \in T : \A y \in T : k <= y
  <2>1. n \in T
    OBVIOUS
  <2>2. T \subseteq Nat
    OBVIOUS
  <2> HIDE DEF T
  <2> QED BY <2>1, <2>2, Least
<1>2. k \in match_first..Len(input.raw)
  OBVIOUS
<1>3. k < Len(input.raw) => input.raw[k + 1] \in prog.fastmap
  OBVIOUS
<1>4. \A i \in match_first..(k - 1) : input.raw[i + 1] \notin prog.fastmap
  <2> SUFFICES ASSUME NEW i \in match_first..(k - 1), input.raw[i + 1] \in prog.fastmap
               PROVE  FALSE
    OBVIOUS
  <2>1. i \in match_first..n /\ i < k
    BY <1>2
  <2>2. i \in T
    BY <2>1
  <2> HIDE DEF T
  <2> QED BY <1>1, <1>2, <2>1, <2>2
<1> HIDE DEF T
<1>5. /\ NextInMap \in match_first..n
      /\ \A i \in match_first..(NextInMap - 1) : input.raw[i + 1] \notin prog.fastmap
  BY <1>2, <1>3, <1>4 DEF NextInMap
<1>6. CASE HasFastmap
  <2>1. Place = NextInMap
    BY <1>6 DEF Place
  <2>2. \A i \in match_first..(NextInMap - 1) : i < n
    BY <1>5
  <2> QED BY <1>5, <2>1, <2>2
<1>7. CASE ~HasFastmap
  <2>1. Place = match_first /\ match_first..(match_first - 1) = {}
    BY <1>7 DEF Place
  <2> QED BY <2>1
<1> QED BY <1>6, <1>7

\* Wherever check_matching arrives, the invariant holds and the step was one
\* further on.
LEMMA Arrives ==
  ASSUME NEW state, NEW in, Good(in), Tip(in), Full(in), in.icase => in.cur_idx < in.bufs_len,
         Arrive(state, in), answer \in {"none", "match", "nomatch"},
         match_first \in 0..(Len(in.raw) + 1), match_first <= in.raw_mbs_idx
  PROVE  /\ pc' \in {"free", "ready", "search", "match"}
         /\ answer' \in {"none", "match", "nomatch"}
         /\ Good(input)' /\ Tip(input)'
         /\ match_first' \in 0..(Len(input'.raw) + 1)
         /\ pc' = "search" => match_first' \in input'.raw_mbs_idx..Len(input'.raw)
         /\ pc' = "match" => /\ Full(input)' /\ input'.cur_idx < input'.len
                             /\ input'.icase => input'.cur_idx < input'.bufs_len
                             /\ match_first' <= input'.raw_mbs_idx
         /\ \/ pc' = "ready"
            \/ pc' = "search" /\ match_first' > match_first
            \/ pc' = "match" /\ match_first' = match_first
<1>1. /\ in.raw_mbs_idx \in Nat /\ in.len \in Nat /\ in.cur_idx \in Nat
      /\ in.raw_mbs_idx + in.len = Len(in.raw) /\ Len(in.raw) \in Nat
      /\ in.cur_idx <= in.len
  BY Numbers
<1>2. input' = in
  BY DEF Arrive
<1>3. Good(input)' /\ Tip(input)' /\ Full(input)'
  BY <1>2 DEF Good, Tip, Full, Built, RawAt
<1>4. CASE Found
  BY <1>1, <1>2, <1>3, <1>4 DEF Found
<1>5. CASE Missed(in)
  <2>1. match_first' = in.raw_mbs_idx + 1 /\ match_first' \in 0..(Len(in.raw) + 1) /\ match_first' > match_first
    BY <1>1, <1>5 DEF Missed
  <2>2. CASE match_first' > Len(in.raw)
    BY <1>2, <1>3, <1>5, <2>1, <2>2 DEF Missed
  <2>3. CASE ~(match_first' > Len(in.raw))
    <3>1. pc' = "search" /\ answer' = answer
      BY <1>5, <2>3 DEF Missed
    <3>2. match_first' \in in.raw_mbs_idx..Len(in.raw)
      BY <1>1, <2>1, <2>3
    <3> QED BY <1>2, <1>3, <2>1, <3>1, <3>2
  <2> QED BY <2>2, <2>3
<1>6. CASE pc' = "match" /\ match_first' = match_first /\ answer' = answer /\ in.cur_idx # in.len
  BY <1>1, <1>2, <1>3, <1>6
<1> QED BY <1>4, <1>5, <1>6 DEF Arrive

LEMMA Nothing == Good(NoInput) /\ Tip(NoInput) /\ NoInput.raw = <<>>
<1> DEFINE none == <<>>
<1>1. none \in Seq(Char \ {NUL})
  OBVIOUS
<1>2. NoInput = Allocate(none, 1, FALSE)
  BY DEF NoInput
<1> HIDE DEF none
<1>3. 1 \in Nat \ {0} /\ FALSE \in BOOLEAN
  OBVIOUS
<1>4. Good(Allocate(none, 1, FALSE)) /\ Tip(Allocate(none, 1, FALSE)) /\ Allocate(none, 1, FALSE).raw = none
  BY <1>1, <1>3, Allocated
<1> QED BY <1>2, <1>4 DEF none

LEMMA InitInv == Init => SearchInv
<1> SUFFICES ASSUME Init PROVE SearchInv
  OBVIOUS
<1>1. Len(<<>>) = 0
  OBVIOUS
<1>2. Good(NoInput) /\ Tip(NoInput) /\ NoInput.raw = <<>>
  BY Nothing
<1>3. Good(input) /\ Tip(input) /\ input.raw = <<>>
  BY <1>2 DEF Init
<1>4. match_first \in 0..(Len(input.raw) + 1)
  BY <1>1, <1>3 DEF Init
<1> QED BY <1>3, <1>4 DEF Init, SearchInv

\* A try begins at a place not before the last one.
LEMMA TryInv == SearchInv /\ Try => SearchInv' /\ Further
<1> SUFFICES ASSUME SearchInv, Try PROVE SearchInv' /\ Further
  OBVIOUS
<1> DEFINE in == Reconstruct(input, Place)
<1>1. pc = "search" /\ prog' = prog /\ Arrive(InitialState(prog, in), in)
  BY DEF Try
<1>2. Good(input) /\ Tip(input) /\ match_first \in input.raw_mbs_idx..Len(input.raw)
  BY <1>1 DEF SearchInv
<1>3. input.raw_mbs_idx \in Nat /\ Len(input.raw) \in Nat
  BY <1>2, Numbers
<1>4. match_first \in 0..Len(input.raw)
  BY <1>2, <1>3
<1>5. Place \in match_first..Len(input.raw)
  BY <1>3, <1>4, Places
<1>6. Place \in input.raw_mbs_idx..Len(input.raw) /\ match_first <= Place
  BY <1>2, <1>3, <1>5
<1>7. /\ Good(in) /\ Full(in) /\ Tip(in) /\ in.raw = input.raw
      /\ in.raw_mbs_idx = Place /\ in.cur_idx = 0
  BY <1>2, <1>6, Reconstructed
<1>8. in.cur_idx < in.bufs_len
  BY <1>7, Numbers
<1> HIDE DEF in
<1>9. match_first \in 0..(Len(in.raw) + 1) /\ match_first <= in.raw_mbs_idx
  BY <1>3, <1>4, <1>6, <1>7
<1>10. answer \in {"none", "match", "nomatch"} /\ prog.icase \in BOOLEAN /\ Len(prog.nodes) \in Nat
  BY <1>1 DEF SearchInv
<1>11. /\ pc' \in {"free", "ready", "search", "match"}
       /\ answer' \in {"none", "match", "nomatch"}
       /\ Good(input)' /\ Tip(input)'
       /\ match_first' \in 0..(Len(input'.raw) + 1)
       /\ pc' = "search" => match_first' \in input'.raw_mbs_idx..Len(input'.raw)
       /\ pc' = "match" => /\ Full(input)' /\ input'.cur_idx < input'.len
                           /\ input'.icase => input'.cur_idx < input'.bufs_len
                           /\ match_first' <= input'.raw_mbs_idx
       /\ \/ pc' = "ready"
          \/ pc' = "search" /\ match_first' > match_first
          \/ pc' = "match" /\ match_first' = match_first
  BY <1>1, <1>7, <1>8, <1>9, <1>10, Arrives
<1>12. SearchInv'
  BY <1>1, <1>10, <1>11 DEF SearchInv
<1>13. Further
  BY <1>1, <1>11 DEF Further
<1> QED BY <1>12, <1>13

\* One byte further on, nothing else changes.
LEMMA OneFurther ==
  ASSUME NEW a, Good(a), Full(a), a.cur_idx < a.len
  PROVE  LET in == [a EXCEPT !.cur_idx = @ + 1]
         IN  /\ Good(in) /\ Full(in)
             /\ in.raw = a.raw /\ in.icase = a.icase /\ in.raw_mbs_idx = a.raw_mbs_idx
             /\ in.len = a.len /\ in.cur_idx = a.cur_idx + 1 /\ in.tip_context = a.tip_context
             /\ in.bufs_len = a.bufs_len
<1> DEFINE in == [a EXCEPT !.cur_idx = @ + 1]
<1>1. /\ a \in Strings /\ a.cur_idx \in Nat /\ a.len \in Nat /\ a.cur_idx + 1 <= a.len
      /\ a.raw_mbs_idx + a.len = Len(a.raw)
  BY DEF Good, Strings
<1>2. in \in Strings
  <2>1. a.cur_idx + 1 \in Nat
    BY <1>1
  <2>2. \A n \in Nat : [a EXCEPT !.cur_idx = n] \in Strings
    BY <1>1 DEF Strings
  <2> QED BY <2>1, <2>2
<1>3. /\ in.raw = a.raw /\ in.icase = a.icase /\ in.raw_mbs_idx = a.raw_mbs_idx
      /\ in.len = a.len /\ in.cur_idx = a.cur_idx + 1 /\ in.tip_context = a.tip_context
      /\ in.bufs_len = a.bufs_len /\ in.valid_len = a.valid_len /\ in.mbs = a.mbs
  BY <1>1 DEF Strings
<1> HIDE DEF in
<1>4. \A k : RawAt(in, k) = RawAt(a, k)
  BY <1>3 DEF RawAt
<1>5. Good(in)
  <2>1. in.raw_mbs_idx + in.len = Len(in.raw) /\ in.cur_idx <= in.len
    BY <1>1, <1>3
  <2>2. a.icase => Built(in)
    BY <1>3, <1>4 DEF Good, Built
  <2>3. ~a.icase => in.mbs \in [1..0 -> Bytes]
    BY <1>3 DEF Good
  <2> QED BY <1>2, <1>3, <2>1, <2>2, <2>3 DEF Good
<1>6. Full(in)
  BY <1>3 DEF Full
<1> QED BY <1>3, <1>5, <1>6 DEF in

\* A step reads a byte that is there, and comes to the next.
LEMMA StepInv == SearchInv /\ Step => SearchInv' /\ Further
<1> SUFFICES ASSUME SearchInv, Step PROVE SearchInv' /\ Further
  OBVIOUS
<1> DEFINE a == Ahead(input)
           in == [a EXCEPT !.cur_idx = @ + 1]
<1>1. pc = "match" /\ prog' = prog /\ \E state : Arrive(state, in)
  BY DEF Step, Make, Build, Transit
<1>2. /\ Good(input) /\ Tip(input) /\ Full(input)
      /\ input.cur_idx < input.len
      /\ input.icase => input.cur_idx < input.bufs_len
      /\ match_first <= input.raw_mbs_idx
      /\ match_first \in 0..(Len(input.raw) + 1)
  BY <1>1 DEF SearchInv
<1>3. /\ Good(a) /\ Full(a)
      /\ a.raw = input.raw /\ a.icase = input.icase /\ a.raw_mbs_idx = input.raw_mbs_idx
      /\ a.len = input.len /\ a.cur_idx = input.cur_idx /\ a.tip_context = input.tip_context
      /\ a.icase => a.cur_idx + 1 < a.bufs_len
  BY <1>2, LooksAhead
<1> HIDE DEF a
<1>4. a.cur_idx \in Nat /\ a.len \in Nat /\ a.cur_idx < a.len
  BY <1>2, <1>3, Numbers
<1>5. /\ Good(in) /\ Full(in)
      /\ in.raw = a.raw /\ in.icase = a.icase /\ in.raw_mbs_idx = a.raw_mbs_idx
      /\ in.len = a.len /\ in.cur_idx = a.cur_idx + 1 /\ in.tip_context = a.tip_context
      /\ in.bufs_len = a.bufs_len
  BY <1>3, <1>4, OneFurther
<1> HIDE DEF in
<1>6. Tip(in)
  BY <1>2, <1>3, <1>5 DEF Tip
<1>7. in.icase => in.cur_idx < in.bufs_len
  BY <1>3, <1>5
<1>8. match_first \in 0..(Len(in.raw) + 1) /\ match_first <= in.raw_mbs_idx
  BY <1>2, <1>3, <1>5
<1>9. answer \in {"none", "match", "nomatch"} /\ prog.icase \in BOOLEAN /\ Len(prog.nodes) \in Nat
  BY <1>1 DEF SearchInv
<1>10. PICK state : Arrive(state, in)
  BY <1>1
<1>11. /\ pc' \in {"free", "ready", "search", "match"}
       /\ answer' \in {"none", "match", "nomatch"}
       /\ Good(input)' /\ Tip(input)'
       /\ match_first' \in 0..(Len(input'.raw) + 1)
       /\ pc' = "search" => match_first' \in input'.raw_mbs_idx..Len(input'.raw)
       /\ pc' = "match" => /\ Full(input)' /\ input'.cur_idx < input'.len
                           /\ input'.icase => input'.cur_idx < input'.bufs_len
                           /\ match_first' <= input'.raw_mbs_idx
       /\ \/ pc' = "ready"
          \/ pc' = "search" /\ match_first' > match_first
          \/ pc' = "match" /\ match_first' = match_first
  BY <1>5, <1>6, <1>7, <1>8, <1>9, <1>10, Arrives
<1>12. SearchInv'
  BY <1>1, <1>9, <1>11 DEF SearchInv
<1>13. input'.cur_idx > input.cur_idx
  BY <1>3, <1>4, <1>5, <1>10 DEF Arrive
<1>14. Further
  BY <1>11, <1>13 DEF Further
<1> QED BY <1>12, <1>14

LEMMA NextInv == SearchInv /\ [Next]_vars => SearchInv' /\ (Trying => Further \/ UNCHANGED vars)
<1> SUFFICES ASSUME SearchInv, [Next]_vars
             PROVE  SearchInv' /\ (Trying => Further \/ UNCHANGED vars)
  OBVIOUS
<1>1. ASSUME NEW p \in Pattern, Regcomp(p) PROVE SearchInv' /\ ~Trying
  <2>1. UNCHANGED <<input, match_first, answer>> /\ pc = "free"
    BY <1>1 DEF Regcomp
  <2>2. Good(input)' /\ Tip(input)' /\ match_first' \in 0..(Len(input'.raw) + 1)
    BY <2>1 DEF SearchInv, Good, Tip, Built, RawAt
  <2>3. CASE Program[p].err = "REG_NOERROR"
    <3>1. pc' = "ready" /\ prog' = Program[p]
      BY <1>1, <2>3 DEF Regcomp
    <3>2. prog'.icase \in BOOLEAN /\ Len(prog'.nodes) \in Nat
      BY <2>3, <3>1, ProgramAssumption DEF Compiled
    <3> QED BY <2>1, <2>2, <3>1, <3>2 DEF SearchInv, Trying
  <2>4. CASE Program[p].err # "REG_NOERROR"
    <3>1. pc' = "free"
      BY <1>1, <2>1, <2>4 DEF Regcomp
    <3> QED BY <2>1, <2>2, <3>1 DEF SearchInv, Trying
  <2> QED BY <2>3, <2>4
<1>2. ASSUME NEW text \in Text, Regexec(text) PROVE SearchInv' /\ ~Trying
  <2>1. /\ pc = "ready" /\ pc' = "search" /\ match_first' = 0 /\ answer' = "none" /\ prog' = prog
        /\ input' = Allocate(text, Len(prog.nodes) + 1, prog.icase)
    BY <1>2 DEF Regexec
  <2>2. prog.icase \in BOOLEAN /\ Len(prog.nodes) \in Nat
    BY <2>1 DEF SearchInv
  <2>3. Len(prog.nodes) + 1 \in Nat \ {0} /\ text \in Seq(Char \ {NUL})
    BY <2>2, TextAssumption
  <2> DEFINE in == Allocate(text, Len(prog.nodes) + 1, prog.icase)
  <2>4. Good(in) /\ Tip(in) /\ in.raw = text /\ in.raw_mbs_idx = 0
    BY <2>2, <2>3, Allocated
  <2> HIDE DEF in
  <2>5. input' = in
    BY <2>1 DEF in
  <2>6. Good(input)' /\ Tip(input)'
    BY <2>4, <2>5 DEF Good, Tip, Built, RawAt
  <2>7. match_first' \in 0..(Len(input'.raw) + 1) /\ match_first' \in input'.raw_mbs_idx..Len(input'.raw)
    BY <2>1, <2>3, <2>4, <2>5
  <2> QED BY <2>1, <2>2, <2>6, <2>7 DEF SearchInv, Trying
<1>3. ASSUME GiveUp PROVE SearchInv' /\ Further
  <2>1. /\ pc = "search" /\ pc' = "ready" /\ answer' = "nomatch" /\ prog' = prog /\ input' = input
        /\ match_first' = Place /\ Place = Len(input.raw)
    BY <1>3 DEF GiveUp
  <2>2. Good(input)' /\ Tip(input)'
    BY <2>1 DEF SearchInv, Good, Tip, Built, RawAt
  <2>3. Len(input.raw) \in Nat
    BY Numbers DEF SearchInv
  <2>4. match_first' \in 0..(Len(input'.raw) + 1)
    BY <2>1, <2>3
  <2> QED BY <2>1, <2>2, <2>4 DEF SearchInv, Further
<1>4. ASSUME Try PROVE SearchInv' /\ Further
  BY <1>4, TryInv
<1>5. ASSUME Step PROVE SearchInv' /\ Further
  BY <1>5, StepInv
<1>6. ASSUME Regfree PROVE SearchInv' /\ ~Trying
  <2>1. pc = "ready" /\ pc' = "free" /\ input' = NoInput /\ match_first' = 0 /\ answer' = "none"
    BY <1>6 DEF Regfree
  <2>2. Len(<<>>) = 0
    OBVIOUS
  <2>3. Good(NoInput) /\ Tip(NoInput) /\ NoInput.raw = <<>>
    BY Nothing
  <2>4. Good(input)' /\ Tip(input)'
    BY <2>1, <2>3 DEF Good, Tip, Built, RawAt
  <2>5. match_first' \in 0..(Len(input'.raw) + 1)
    BY <2>1, <2>2, <2>3
  <2> QED BY <2>1, <2>4, <2>5 DEF SearchInv, Trying
<1>7. ASSUME UNCHANGED vars PROVE SearchInv'
  BY <1>7 DEF vars, SearchInv, Good, Tip, Built, Full, RawAt
<1> QED BY <1>1, <1>2, <1>3, <1>4, <1>5, <1>6, <1>7 DEF Next, Search

LEMMA SearchInvariant == Spec => []SearchInv
<1> QED BY InitInv, NextInv, PTL DEF Spec

-------------------------------------------------------------------------------
\* The search never counts beyond what it has: the place it tries, the bytes it
\* has read and those that are left are always those of one text, for texts of
\* every length and programs of every size.
THEOREM SearchTypes == Spec => []TypeOK
<1>1. SearchInv => TypeOK
  BY Numbers DEF SearchInv, TypeOK
<1> QED BY <1>1, SearchInvariant, PTL

\* The byte that check_matching reads, and takes the context from, is that of
\* the text, upper case with REG_ICASE, after any sequence of moves and
\* extensions of the buffer.
THEOREM BufferIsTheText == Spec => []Window
<1>1. SearchInv => Window
  <2> SUFFICES ASSUME SearchInv, pc = "match" PROVE Window
    BY DEF Window
  <2>1. Good(input) /\ Full(input) /\ input.cur_idx < input.len /\ (input.icase => input.cur_idx < input.bufs_len)
    BY DEF SearchInv
  <2>2. input.cur_idx \in Nat /\ input.len \in Nat /\ input.bufs_len \in Nat /\ input.valid_len \in Nat
    BY <2>1, Numbers
  <2>3. CASE input.icase
    <3> DEFINE k == input.cur_idx + 1
    <3>1. k \in 1..input.valid_len /\ k - 1 = input.cur_idx
      BY <2>1, <2>2, <2>3 DEF Full
    <3>2. input.mbs[k] = ToUpper[RawAt(input, input.cur_idx)]
      <4> HIDE DEF k
      <4>1. input.mbs[k] = ToUpper[RawAt(input, k - 1)]
        BY <2>1, <2>3, <3>1 DEF Good, Built
      <4> QED BY <3>1, <4>1
    <3>3. ByteAt(input, input.cur_idx) = input.mbs[input.cur_idx + 1]
      BY <2>1, <2>3 DEF ByteAt
    <3> QED BY <2>1, <2>3, <3>2, <3>3 DEF Window
  <2>4. CASE ~input.icase
    BY <2>1, <2>4 DEF Window, ByteAt
  <2> QED BY <2>3, <2>4
<1> QED BY <1>1, SearchInvariant, PTL

\* The context the buffer remembers of the byte before it is that of the text.
THEOREM ContextBefore == Spec => []TipContext
<1>1. SearchInv => TipContext
  BY DEF SearchInv, Tip, TipContext
<1> QED BY <1>1, SearchInvariant, PTL

\* Every step of a search is one further on: to the end, to a place behind, or
\* from a place into the text.  The places are numbers up to the length of the
\* text, by SearchTypes, so that no search goes on forever.
THEOREM SearchEnds == Spec => Progress
<1>1. SearchInv /\ [Next]_vars => [Trying => Further]_vars
  BY NextInv
<1> QED BY <1>1, SearchInvariant, PTL DEF Spec, Progress
-------------------------------------------------------------------------------
\* A state for one of the contexts a byte leaves, if it depends on the context,
\* is for that one, new or from the table.
LEMMA Acquired ==
  ASSUME NEW nodes, NEW set, NEW context \in {0, CONTEXT_WORD, CONTEXT_NEWLINE}
  PROVE  LET s == Acquire(nodes, table, set, context)
         IN  s.constrained => s.context = context
<1> DEFINE found == Lookup(table, set, context)
<1>1. CASE set = <<>>
  BY <1>1 DEF Acquire, NoState
<1>2. CASE set # <<>> /\ found # {}
  <2>1. (CHOOSE s \in found : TRUE) \in found
    BY <1>2
  <2>2. \A s \in found : s.context = context
    BY DEF Lookup
  <2> HIDE DEF found
  <2>3. Acquire(nodes, table, set, context) = CHOOSE s \in found : TRUE
    BY <1>2 DEF Acquire, found
  <2> QED BY <2>1, <2>2, <2>3
<1>3. CASE set # <<>> /\ found = {}
  <2>1. Acquire(nodes, table, set, context) = NewState(nodes, set, context)
    BY <1>3 DEF Acquire
  <2>2. NewState(nodes, set, context).context = context % 4
    BY DEF NewState
  <2>3. context % 4 = context
    BY DEF CONTEXT_WORD, CONTEXT_NEWLINE
  <2> QED BY <2>1, <2>2, <2>3
<1> QED BY <1>1, <1>2, <1>3

LEMMA Leads ==
  ASSUME NEW p, NEW group, NEW context \in {0, CONTEXT_WORD, CONTEXT_NEWLINE}
  PROVE  LET s == Destinations(p, group)[context]
         IN  s.constrained => s.context = context
<1> DEFINE state(k) == Acquire(p.nodes, table, Follows(p, group), k)
           s == Destinations(p, group)[context]
<1>1. s = IF state(0).constrained THEN state(context) ELSE state(0)
  BY DEF Destinations
<1>2. state(context).constrained => state(context).context = context
  BY Acquired
<1> HIDE DEF state
<1> QED BY <1>1, <1>2

\* Kept transitions lead to states for the context behind their byte, for every
\* program, whatever states the table came to hold.
THEOREM KeptContexts == Spec => []RightContext
<1>1. Init => RightContext
  BY DEF Init, RightContext
<1>2. RightContext /\ [Next]_vars => RightContext'
  <2> SUFFICES ASSUME RightContext, [Next]_vars PROVE RightContext'
    OBVIOUS
  <2>1. CASE UNCHANGED trtable
    BY <2>1 DEF RightContext
  <2>2. CASE trtable' = <<>>
    BY <2>2 DEF RightContext
  <2>3. CASE Step
    <3> DEFINE groups == Groups(prog, cur_state)
               dests  == [j \in DOMAIN groups |-> Destinations(prog, groups[j])]
               tr     == IF cur_state \in DOMAIN trtable THEN trtable[cur_state] ELSE BuildTrtable(groups, dests)
    <3>1. trtable' = [s \in DOMAIN trtable \cup {cur_state} |-> IF s = cur_state THEN tr ELSE trtable[s]]
      BY <2>3 DEF Step, Make, Build, Transit
    <3>2. ASSUME NEW c \in Char
          PROVE  LET t == BuildTrtable(groups, dests)[c] IN t.constrained => t.context = Behind(c)
      <4> DEFINE takes == {j \in DOMAIN groups : c \in groups[j].chars}
                 j     == CHOOSE j \in takes : TRUE
      <4>1. BuildTrtable(groups, dests)[c] = IF takes = {} THEN NoState ELSE dests[j][Behind(c)]
        BY DEF BuildTrtable
      <4>2. Behind(c) \in {0, CONTEXT_WORD, CONTEXT_NEWLINE}
        BY DEF Behind
      <4>3. takes # {} => j \in DOMAIN groups
        OBVIOUS
      <4> HIDE DEF groups, j
      <4>4. takes # {} => dests[j] = Destinations(prog, groups[j])
        BY <4>3
      <4>5. LET s == Destinations(prog, groups[j])[Behind(c)] IN s.constrained => s.context = Behind(c)
        BY <4>2, Leads
      <4> HIDE DEF dests, takes
      <4> QED BY <4>1, <4>4, <4>5 DEF NoState
    <3>3. ASSUME NEW c \in Char PROVE tr[c].constrained => tr[c].context = Behind(c)
      BY <3>2 DEF RightContext
    <3> HIDE DEF tr
    <3> QED BY <3>1, <3>3 DEF RightContext
  <2> QED BY <2>1, <2>2, <2>3 DEF Next, Search, Regcomp, Regexec, GiveUp, Try, Regfree, vars
<1> QED BY <1>1, <1>2, PTL DEF Spec
-------------------------------------------------------------------------------
(* The sets of nodes. *)

LEMMA SequenceIs ==
  ASSUME NEW S, NEW s \in Seq(S)
  PROVE  /\ Len(s) \in Nat /\ DOMAIN s = 1..Len(s) /\ s \in [1..Len(s) -> S]
         /\ \A i \in 1..Len(s) : s[i] \in S
         /\ Range(s) = {s[i] : i \in 1..Len(s)} /\ Range(s) \subseteq S
BY LenProperties, ElementOfSeq DEF Range

LEMMA SpotIs ==
  ASSUME NEW s \in Seq(Nat), NEW e \in Nat
  PROVE  Spot(s, e) \in 1..(Len(s) + 1)
<1> DEFINE T == {k \in 1..(Len(s) + 1) : k \in DOMAIN s => s[k] >= e}
<1>1. Len(s) \in Nat /\ DOMAIN s = 1..Len(s) /\ \A i \in 1..Len(s) : s[i] \in Nat
  BY SequenceIs
<1>2. PICK k \in T : \A y \in T : k <= y
  <2>1. Len(s) + 1 \in T
    BY <1>1
  <2>2. T \subseteq Nat
    BY <1>1
  <2> HIDE DEF T
  <2> QED BY <2>1, <2>2, Least
<1>3. k \in 1..(Len(s) + 1) /\ (k \in DOMAIN s => s[k] >= e)
  OBVIOUS
<1>4. \A i \in 1..(k - 1) : s[i] < e
  <2> SUFFICES ASSUME NEW i \in 1..(k - 1), ~(s[i] < e) PROVE FALSE
    OBVIOUS
  <2>1. i \in 1..Len(s) /\ ~(k <= i)
    BY <1>1, <1>3
  <2>2. s[i] >= e
    BY <1>1, <2>1
  <2>3. i \in T
    BY <1>1, <2>1, <2>2
  <2> HIDE DEF T
  <2> QED BY <1>2, <2>1, <2>3
<1> HIDE DEF T
<1> QED BY <1>3, <1>4 DEF Spot

\* An insertion adds its element, wherever it belongs.
LEMMA InsertIs ==
  ASSUME NEW S, S \subseteq Nat, NEW s \in Seq(S), NEW e \in S
  PROVE  SetInsert(s, e) \in Seq(S) /\ Range(SetInsert(s, e)) = Range(s) \cup {e}
<1> DEFINE n == Len(s)
           k == Spot(s, e)
           t == [i \in 1..(n + 1) |-> IF i < k THEN s[i] ELSE IF i = k THEN e ELSE s[i - 1]]
<1>1. n \in Nat /\ DOMAIN s = 1..n /\ (\A i \in 1..n : s[i] \in S) /\ Range(s) = {s[i] : i \in 1..n}
  BY SequenceIs
<1>2. k \in 1..(n + 1)
  <2>1. s \in Seq(Nat) /\ e \in Nat
    BY SeqMonotonic
  <2> QED BY <2>1, SpotIs
<1>3. SetInsert(s, e) = t
  BY DEF SetInsert
<1> HIDE DEF n, k
<1>4. ASSUME NEW i \in 1..(n + 1)
      PROVE  /\ t[i] = IF i < k THEN s[i] ELSE IF i = k THEN e ELSE s[i - 1]
             /\ i < k => i \in 1..n
             /\ ~(i < k) /\ i # k => i - 1 \in 1..n
  BY <1>1, <1>2
<1>5. \A i \in 1..(n + 1) : t[i] \in S
  BY <1>1, <1>4
<1>6. t \in [1..(n + 1) -> S]
  <2>1. DOMAIN t = 1..(n + 1) /\ t = [i \in 1..(n + 1) |-> t[i]]
    OBVIOUS
  <2> HIDE DEF t
  <2> QED BY <1>5, <2>1
<1>7. t \in Seq(S) /\ Range(t) = {t[i] : i \in 1..(n + 1)}
  <2>1. t \in Seq(S)
    <3>1. n + 1 \in Nat
      BY <1>1
    <3> HIDE DEF t
    <3> QED BY <1>6, <3>1
  <2> QED BY <1>6, <2>1 DEF Range
<1> HIDE DEF t
<1>8. \A i \in 1..(n + 1) : t[i] \in {s[j] : j \in 1..n} \cup {e}
  BY <1>4
<1>9. e \in {t[i] : i \in 1..(n + 1)}
  <2>1. t[k] = e
    BY <1>2, <1>4
  <2> QED BY <1>2, <2>1
<1>10. ASSUME NEW j \in 1..n PROVE s[j] \in {t[i] : i \in 1..(n + 1)}
  <2>1. CASE j < k
    <3>1. j \in 1..(n + 1)
      BY <1>1
    <3>2. t[j] = s[j]
      BY <1>4, <2>1, <3>1
    <3> QED BY <3>1, <3>2
  <2>2. CASE ~(j < k)
    <3>1. j + 1 \in 1..(n + 1) /\ ~(j + 1 < k) /\ j + 1 # k /\ (j + 1) - 1 = j
      BY <1>1, <1>2, <2>2
    <3>2. t[j + 1] = s[j]
      BY <1>4, <3>1
    <3> QED BY <3>1, <3>2
  <2> QED BY <2>1, <2>2
<1>11. Range(t) = Range(s) \cup {e}
  <2>1. \A x \in Range(t) : x \in Range(s) \cup {e}
    BY <1>1, <1>7, <1>8
  <2>2. \A x \in Range(s) : x \in Range(t)
    BY <1>1, <1>7, <1>10
  <2>3. e \in Range(t)
    BY <1>7, <1>9
  <2> QED BY <2>1, <2>2, <2>3
<1> QED BY <1>3, <1>7, <1>11

LEMMA AppendRange ==
  ASSUME NEW S, NEW s \in Seq(S), NEW e \in S
  PROVE  Append(s, e) \in Seq(S) /\ Range(Append(s, e)) = Range(s) \cup {e}
<1> DEFINE n == Len(s)
           t == Append(s, e)
<1>1. n \in Nat /\ Range(s) = {s[i] : i \in 1..n}
  BY SequenceIs
<1>2. t \in Seq(S) /\ Len(t) = n + 1 /\ (\A i \in 1..n : t[i] = s[i]) /\ t[n + 1] = e
  BY AppendProperties
<1>3. Range(t) = {t[i] : i \in 1..(n + 1)}
  BY <1>2, SequenceIs
<1> HIDE DEF n, t
<1>4. \A i : i \in 1..(n + 1) <=> i \in 1..n \/ i = n + 1
  BY <1>1
<1>5. {t[i] : i \in 1..(n + 1)} = {s[i] : i \in 1..n} \cup {e}
  BY <1>2, <1>4
<1> QED BY <1>1, <1>2, <1>3, <1>5 DEF t

Keeps(s, ns, k) ==
  k = [i \in 0..Len(s) |->
         IF i = 0 THEN <<>> ELSE IF s[i] \in ns THEN Append(k[i - 1], s[i]) ELSE k[i - 1]]

LEMMA KeepsExist == ASSUME NEW S, NEW s \in Seq(S), NEW ns PROVE \E k : Keeps(s, ns, k)
<1> DEFINE N == Len(s)
           D == Seq(S)
           next(i, r) == IF s[i] \in ns THEN Append(r, s[i]) ELSE r
           step == [p \in (1..N) \X D |-> next(p[1], p[2])]
<1>1. N \in Nat /\ \A i \in 1..N : s[i] \in S
  BY SequenceIs
<1>2. <<>> \in D
  BY EmptySeq
<1>3. \A i \in 1..N, r \in D : next(i, r) \in D
  BY <1>1, AppendProperties
<1> HIDE DEF N, D, next
<1>4. step \in Moves(N, D) /\ \A i \in 1..N, r \in D : step[<<i, r>>] = next(i, r)
  <2>1. \A p \in (1..N) \X D : next(p[1], p[2]) \in D
    BY <1>3
  <2> QED BY <2>1 DEF Moves
<1> HIDE DEF step
<1>5. PICK f : Goes(f, N, D, <<>>, step)
  BY <1>1, <1>2, <1>4, Recursion
<1>6. f \in [0..N -> D] /\ f[0] = <<>> /\ \A i \in 1..N : f[i] = step[<<i, f[i - 1]>>]
  BY <1>5 DEF Goes
<1>7. \A i \in 1..N : f[i] = next(i, f[i - 1])
  <2>1. \A i \in 1..N : f[i - 1] \in D
    BY <1>1, <1>6
  <2> QED BY <1>4, <1>6, <2>1
<1>8. f = [i \in 0..N |-> IF i = 0 THEN <<>> ELSE next(i, f[i - 1])]
  <2>1. \A i \in 0..N : f[i] = IF i = 0 THEN <<>> ELSE next(i, f[i - 1])
    BY <1>1, <1>6, <1>7
  <2>2. f = [i \in 0..N |-> f[i]]
    BY <1>6
  <2> QED BY <2>1, <2>2
<1> QED BY <1>8 DEF Keeps, N, next

LEMMA KeptIs ==
  ASSUME NEW S, NEW s \in Seq(S), NEW ns
  PROVE  Kept(s, ns) \in Seq(S) /\ Range(Kept(s, ns)) = Range(s) \cap ns
<1> DEFINE N == Len(s)
           k == CHOOSE f : Keeps(s, ns, f)
           Fine(i) == k[i] \in Seq(S) /\ Range(k[i]) = {s[j] : j \in 1..i} \cap ns
           F == {i \in 0..N : Fine(i)}
<1>1. N \in Nat /\ Range(s) = {s[j] : j \in 1..N} /\ \A i \in 1..N : s[i] \in S
  BY SequenceIs
<1>2. Kept(s, ns) = k[N]
  BY DEF Kept, Keeps
<1>3. Keeps(s, ns, k)
  BY KeepsExist
<1> HIDE DEF k, N
<1>4. k[0] = <<>> /\ \A i \in 1..N : k[i] = IF s[i] \in ns THEN Append(k[i - 1], s[i]) ELSE k[i - 1]
  <2> DEFINE e(i) == IF s[i] \in ns THEN Append(k[i - 1], s[i]) ELSE k[i - 1]
  <2>1. k = [i \in 0..N |-> IF i = 0 THEN <<>> ELSE e(i)]
    BY <1>3 DEF Keeps, N
  <2> HIDE DEF e
  <2>2. k[0] = <<>> /\ \A i \in 1..N : k[i] = e(i)
    BY <1>1, <2>1
  <2> QED BY <2>2 DEF e
<1>5. 0 \in F
  <2>1. <<>> \in Seq(S) /\ Range(<<>>) = {}
    BY EmptySeq DEF Range
  <2>2. {s[j] : j \in 1..0} = {} /\ 0 \in 0..N
    BY <1>1
  <2>3. Fine(0)
    BY <1>4, <2>1, <2>2
  <2> QED BY <2>2, <2>3
<1>6. ASSUME NEW d \in 0..(N - 1), d \in F PROVE d + 1 \in F
  <2>1. d + 1 \in 1..N /\ d + 1 \in 0..N /\ (d + 1) - 1 = d
    BY <1>1
  <2>2. k[d + 1] = IF s[d + 1] \in ns THEN Append(k[d], s[d + 1]) ELSE k[d]
    BY <1>4, <2>1
  <2>3. {s[j] : j \in 1..(d + 1)} = {s[j] : j \in 1..d} \cup {s[d + 1]}
    <3>1. \A j : j \in 1..(d + 1) <=> j \in 1..d \/ j = d + 1
      BY <1>1
    <3> QED BY <3>1
  <2>4. CASE s[d + 1] \in ns
    <3>1. k[d] \in Seq(S) /\ s[d + 1] \in S
      BY <1>1, <1>6, <2>1
    <3>2. k[d + 1] \in Seq(S) /\ Range(k[d + 1]) = Range(k[d]) \cup {s[d + 1]}
      BY <2>2, <2>4, <3>1, AppendRange
    <3> QED BY <1>6, <2>1, <2>3, <2>4, <3>2
  <2>5. CASE s[d + 1] \notin ns
    BY <1>6, <2>1, <2>2, <2>3, <2>5
  <2> QED BY <2>4, <2>5
<1>7. N \in F
  <2> HIDE DEF F
  <2>1. \A d \in 0..N : d \in F
    BY <1>1, <1>5, <1>6, Induction
  <2>2. N \in 0..N
    BY <1>1
  <2> QED BY <2>1, <2>2
<1> QED BY <1>1, <1>2, <1>7

LEMMA ConsRange ==
  ASSUME NEW S, NEW e \in S, NEW t \in Seq(S)
  PROVE  <<e>> \o t \in Seq(S) /\ Range(<<e>> \o t) = {e} \cup Range(t)
<1> DEFINE n == Len(t)
           u == <<e>> \o t
<1>1. <<e>> \in Seq(S) /\ Len(<<e>>) = 1 /\ <<e>>[1] = e
  OBVIOUS
<1>2. n \in Nat /\ Range(t) = {t[i] : i \in 1..n}
  BY SequenceIs
<1>3. /\ u \in Seq(S) /\ Len(u) = 1 + n
      /\ \A i \in 1..(1 + n) : u[i] = IF i <= 1 THEN <<e>>[i] ELSE t[i - 1]
  BY <1>1, ConcatProperties
<1>4. Range(u) = {u[i] : i \in 1..(1 + n)}
  BY <1>3, SequenceIs
<1> HIDE DEF u, n
<1>5. u[1] = e /\ \A i \in 1..n : i + 1 \in 1..(1 + n) /\ u[i + 1] = t[i]
  BY <1>1, <1>2, <1>3
<1>6. ASSUME NEW i \in 1..(1 + n), i # 1 PROVE i - 1 \in 1..n /\ u[i] = t[i - 1]
  <2>1. ~(i <= 1) /\ i - 1 \in 1..n
    BY <1>2, <1>6
  <2> QED BY <1>3, <2>1
<1>7. Range(u) = {e} \cup Range(t)
  <2>1. \A x \in Range(u) : x = e \/ x \in Range(t)
    BY <1>2, <1>4, <1>5, <1>6
  <2>2. e \in Range(u)
    <3>1. 1 \in 1..(1 + n)
      BY <1>2
    <3> QED BY <1>4, <1>5, <3>1
  <2>3. \A x \in Range(t) : x \in Range(u)
    BY <1>2, <1>4, <1>5
  <2> QED BY <2>1, <2>2, <2>3
<1> QED BY <1>3, <1>7 DEF u

LEMMA RestRange ==
  ASSUME NEW S, NEW t \in Seq(S), NEW k \in 1..(Len(t) + 1)
  PROVE  SubSeq(t, k, Len(t)) \in Seq(S) /\ Range(SubSeq(t, k, Len(t))) = {t[i] : i \in k..Len(t)}
<1> DEFINE n == Len(t)
           u == SubSeq(t, k, n)
<1>1. n \in Nat /\ k \in 1..(n + 1)
  BY SequenceIs
<1>2. u \in Seq(S) /\ Len(u) = (n - k) + 1 /\ \A i \in 1..((n - k) + 1) : u[i] = t[k + i - 1]
  BY <1>1, SubSeqProperties
<1>3. Range(u) = {u[i] : i \in 1..((n - k) + 1)}
  BY <1>2, SequenceIs
<1> HIDE DEF u, n
<1>4. \A i \in 1..((n - k) + 1) : k + i - 1 \in k..n
  BY <1>1
<1>5. \A i \in k..n : i - k + 1 \in 1..((n - k) + 1) /\ k + (i - k + 1) - 1 = i
  BY <1>1
<1>6. {u[i] : i \in 1..((n - k) + 1)} = {t[i] : i \in k..n}
  <2> DEFINE m == (n - k) + 1
  <2>1. ASSUME NEW i \in k..n PROVE \E j \in 1..m : t[i] = u[j]
    <3>1. i - k + 1 \in 1..m /\ u[i - k + 1] = t[k + (i - k + 1) - 1]
      BY <1>2, <1>5
    <3> QED BY <1>5, <3>1
  <2>2. ASSUME NEW j \in 1..m PROVE \E i \in k..n : u[j] = t[i]
    BY <1>2, <1>4
  <2> HIDE DEF m
  <2>3. {u[i] : i \in 1..m} = {t[i] : i \in k..n}
    <3>1. ASSUME NEW x \in {u[i] : i \in 1..m} PROVE x \in {t[i] : i \in k..n}
      <4>1. PICK j \in 1..m : x = u[j]
        OBVIOUS
      <4> QED BY <4>1, <2>2
    <3>2. ASSUME NEW x \in {t[i] : i \in k..n} PROVE x \in {u[i] : i \in 1..m}
      <4>1. PICK i \in k..n : x = t[i]
        OBVIOUS
      <4> QED BY <4>1, <2>1
    <3> QED BY <3>1, <3>2
  <2> QED BY <2>3 DEF m
<1> QED BY <1>2, <1>3, <1>6 DEF u, n

\* The merge of what is left of two sets.
Grid(dest, src) == (1..(Len(dest) + 1)) \X (1..(Len(src) + 1))
Rest(dest, src, at) == (Len(dest) + 1 - at[1]) + (Len(src) + 1 - at[2])
Merge(dest, src, f, at) ==
  LET d == at[1]
      s == at[2]
  IN  IF s > Len(src) THEN SubSeq(dest, d, Len(dest))
      ELSE IF d > Len(dest) THEN SubSeq(src, s, Len(src))
      ELSE IF dest[d] = src[s] THEN <<dest[d]>> \o f[<<d + 1, s + 1>>]
      ELSE IF dest[d] < src[s] THEN <<dest[d]>> \o f[<<d + 1, s>>]
      ELSE <<src[s]>> \o f[<<d, s + 1>>]
Merges(dest, src, f) == f = [at \in Grid(dest, src) |-> Merge(dest, src, f, at)]

LEMMA GridIs ==
  ASSUME NEW S, NEW dest \in Seq(S), NEW src \in Seq(S), NEW at \in Grid(dest, src)
  PROVE  /\ Len(dest) \in Nat /\ Len(src) \in Nat
         /\ at[1] \in 1..(Len(dest) + 1) /\ at[2] \in 1..(Len(src) + 1)
         /\ Rest(dest, src, at) \in 0..(Len(dest) + Len(src))
         /\ Rest(dest, src, at) = 0 => at[2] > Len(src)
         /\ ~(at[1] > Len(dest)) /\ ~(at[2] > Len(src)) =>
              \A to \in {<<at[1] + 1, at[2] + 1>>, <<at[1] + 1, at[2]>>, <<at[1], at[2] + 1>>} :
                to \in Grid(dest, src) /\ Rest(dest, src, to) < Rest(dest, src, at)
<1>1. Len(dest) \in Nat /\ Len(src) \in Nat
  BY SequenceIs
<1>2. at[1] \in 1..(Len(dest) + 1) /\ at[2] \in 1..(Len(src) + 1)
  BY DEF Grid
<1> DEFINE d == at[1]
           s == at[2]
           a == Len(dest)
           b == Len(src)
           r(x, y) == (a + 1 - x) + (b + 1 - y)
<1>3. \A x, y : <<x, y>>[1] = x /\ <<x, y>>[2] = y
  OBVIOUS
<1>4. Rest(dest, src, at) = r(d, s) /\ \A x, y : Rest(dest, src, <<x, y>>) = r(x, y)
  BY <1>3 DEF Rest
<1> HIDE DEF d, s, a, b
<1>5. a \in Nat /\ b \in Nat /\ d \in 1..(a + 1) /\ s \in 1..(b + 1)
  BY <1>1, <1>2 DEF a, b, d, s
<1>6. r(d, s) \in 0..(a + b) /\ (r(d, s) = 0 => s > b)
  BY <1>5
<1>7. ASSUME ~(d > a), ~(s > b)
      PROVE  /\ d + 1 \in 1..(a + 1) /\ s + 1 \in 1..(b + 1)
             /\ r(d + 1, s + 1) < r(d, s) /\ r(d + 1, s) < r(d, s) /\ r(d, s + 1) < r(d, s)
  BY <1>5, <1>7
<1>8. \A x, y : <<x, y>> \in Grid(dest, src) <=> x \in 1..(a + 1) /\ y \in 1..(b + 1)
  BY DEF Grid, a, b
<1> HIDE DEF r
<1>9. ASSUME ~(d > a), ~(s > b)
      PROVE  \A to \in {<<d + 1, s + 1>>, <<d + 1, s>>, <<d, s + 1>>} :
               to \in Grid(dest, src) /\ Rest(dest, src, to) < Rest(dest, src, at)
  BY <1>4, <1>5, <1>7, <1>8, <1>9
<1> QED BY <1>1, <1>2, <1>4, <1>6, <1>9 DEF a, b, d, s

LEMMA MergesExist ==
  ASSUME NEW S, NEW dest \in Seq(S), NEW src \in Seq(S)
  PROVE  \E f : Merges(dest, src, f)
<1> DEFINE G == Grid(dest, src)
           N == Len(dest) + Len(src)
           r(at) == Rest(dest, src, at)
           m(f, at) == Merge(dest, src, f, at)
           Upto(f, n) == f = [at \in G |-> f[at]] /\ \A at \in G : r(at) <= n => f[at] = m(f, at)
           M == {n \in 0..N : \E f : Upto(f, n)}
<1>1. N \in Nat /\ \A at \in G : r(at) \in 0..N
  <2>1. Len(dest) \in Nat /\ Len(src) \in Nat
    BY SequenceIs
  <2>2. \A at \in Grid(dest, src) : Rest(dest, src, at) \in 0..(Len(dest) + Len(src))
    BY GridIs
  <2>3. N \in Nat
    BY <2>1
  <2> QED BY <2>2, <2>3
<1>2. \A at \in G : r(at) = 0 => at[2] > Len(src)
  BY GridIs
<1>3. ASSUME NEW f, NEW g, NEW at \in G, \A to \in G : r(to) < r(at) => f[to] = g[to]
      PROVE  m(f, at) = m(g, at)
  <2> DEFINE d == at[1]
             s == at[2]
  <2>1. ASSUME ~(d > Len(dest)), ~(s > Len(src))
        PROVE  /\ f[<<d + 1, s + 1>>] = g[<<d + 1, s + 1>>]
               /\ f[<<d + 1, s>>] = g[<<d + 1, s>>]
               /\ f[<<d, s + 1>>] = g[<<d, s + 1>>]
    <3>1. \A to \in {<<d + 1, s + 1>>, <<d + 1, s>>, <<d, s + 1>>} : to \in G /\ r(to) < r(at)
      BY <2>1, GridIs
    <3> HIDE DEF G, r, d, s
    <3> QED BY <1>3, <3>1
  <2> QED BY <2>1 DEF Merge
<1>4. 0 \in M
  <2> DEFINE f == [at \in G |-> SubSeq(dest, at[1], Len(dest))]
  <2>1. ASSUME NEW at \in G, r(at) <= 0 PROVE f[at] = m(f, at)
    <3>1. r(at) = 0
      BY <1>1, <2>1
    <3>2. at[2] > Len(src)
      BY <1>2, <3>1
    <3> QED BY <3>2 DEF Merge
  <2>2. Upto(f, 0)
    <3> HIDE DEF m, r
    <3> QED BY <2>1
  <2> HIDE DEF Upto
  <2> QED BY <1>1, <2>2
<1> HIDE DEF G, m, r, N
<1>5. ASSUME NEW n \in 0..(N - 1), n \in M PROVE n + 1 \in M
  <2>1. PICK f : Upto(f, n)
    BY <1>5
  <2> DEFINE g == [at \in G |-> IF r(at) = n + 1 THEN m(f, at) ELSE f[at]]
  <2>2. ASSUME NEW at \in G, r(at) <= n + 1 PROVE g[at] = m(g, at)
    <3>1. r(at) \in Nat
      BY <1>1
    <3>2. \A to \in G : r(to) < r(at) => f[to] = g[to]
      <4> SUFFICES ASSUME NEW to \in G, r(to) < r(at) PROVE f[to] = g[to]
        OBVIOUS
      <4>1. r(to) \in Nat
        BY <1>1
      <4>2. r(to) # n + 1
        BY <2>2, <3>1, <4>1
      <4> QED BY <4>2
    <3> HIDE DEF g
    <3>3. m(f, at) = m(g, at)
      BY <1>3, <3>2
    <3>4. g[at] = IF r(at) = n + 1 THEN m(f, at) ELSE f[at]
      BY DEF g
    <3>5. r(at) # n + 1 => r(at) <= n
      BY <2>2, <3>1
    <3> QED BY <2>1, <3>3, <3>4, <3>5
  <2>3. Upto(g, n + 1)
    BY <2>2
  <2>4. n + 1 \in 0..N
    BY <1>1
  <2> HIDE DEF Upto
  <2> QED BY <2>3, <2>4
<1>6. N \in M
  <2> HIDE DEF M
  <2>1. \A n \in 0..N : n \in M
    BY <1>1, <1>4, <1>5, Induction
  <2>2. N \in 0..N
    BY <1>1
  <2> QED BY <2>1, <2>2
<1>7. PICK f : Upto(f, N)
  BY <1>6
<1>8. f = [at \in G |-> f[at]] /\ \A at \in G : f[at] = m(f, at)
  <2>1. \A at \in G : r(at) <= N
    BY <1>1
  <2>2. f = [at \in G |-> f[at]]
    BY <1>7
  <2>3. \A at \in G : f[at] = m(f, at)
    BY <1>7, <2>1
  <2> QED BY <2>2, <2>3
<1>9. f = [at \in G |-> m(f, at)]
  BY <1>8
<1> QED BY <1>9 DEF Merges, G, m

\* A merge has the elements of both sets.
LEMMA MergeIs ==
  ASSUME NEW S, NEW dest \in Seq(S), NEW src \in Seq(S)
  PROVE  SetMerge(dest, src) \in Seq(S) /\ Range(SetMerge(dest, src)) = Range(dest) \cup Range(src)
<1> DEFINE a == Len(dest)
           b == Len(src)
           G == Grid(dest, src)
           N == a + b
           r(at) == Rest(dest, src, at)
           f == CHOOSE g : Merges(dest, src, g)
           left(d) == {dest[i] : i \in d..a}
           right(s) == {src[i] : i \in s..b}
           Fine(at) == f[at] \in Seq(S) /\ Range(f[at]) = left(at[1]) \cup right(at[2])
           F == {n \in 0..N : \A at \in G : r(at) <= n => Fine(at)}
<1>1. /\ a \in Nat /\ b \in Nat
      /\ \A i \in 1..a : dest[i] \in S
      /\ \A i \in 1..b : src[i] \in S
      /\ Range(dest) = left(1) /\ Range(src) = right(1)
  BY SequenceIs
<1>2. SetMerge(dest, src) = f[<<1, 1>>]
  BY DEF SetMerge, Merges, Merge, Grid
<1>3. Merges(dest, src, f)
  BY MergesExist
<1> HIDE DEF f
<1>4. \A at \in G : f[at] = Merge(dest, src, f, at)
  BY <1>3 DEF Merges
<1>5. \A e \in S, t \in Seq(S) : <<e>> \o t \in Seq(S) /\ Range(<<e>> \o t) = {e} \cup Range(t)
  BY ConsRange
<1>6. a \in Nat /\ b \in Nat
  BY <1>1
<1>7. \A at \in G : at[1] \in 1..(a + 1) /\ at[2] \in 1..(b + 1)
  BY GridIs
<1>8. \A at \in G : r(at) \in 0..N
  BY GridIs
<1>9. \A at \in G : r(at) = 0 => at[2] > b
  BY GridIs
<1>10. ASSUME NEW at \in G, ~(at[1] > a), ~(at[2] > b)
      PROVE  \A to \in {<<at[1] + 1, at[2] + 1>>, <<at[1] + 1, at[2]>>, <<at[1], at[2] + 1>>} :
               to \in G /\ r(to) < r(at)
  BY <1>10, GridIs
<1>11. \A d \in 1..a : left(d) = {dest[d]} \cup left(d + 1)
  <2> SUFFICES ASSUME NEW d \in 1..a PROVE left(d) = {dest[d]} \cup left(d + 1)
    OBVIOUS
  <2>1. \A i : i \in d..a <=> i = d \/ i \in (d + 1)..a
    BY <1>1
  <2> QED BY <2>1
<1>12. \A s \in 1..b : right(s) = {src[s]} \cup right(s + 1)
  <2> SUFFICES ASSUME NEW s \in 1..b PROVE right(s) = {src[s]} \cup right(s + 1)
    OBVIOUS
  <2>1. \A i : i \in s..b <=> i = s \/ i \in (s + 1)..b
    BY <1>1
  <2> QED BY <2>1
<1>13. left(a + 1) = {} /\ right(b + 1) = {}
  BY <1>1
<1>14. ASSUME NEW at \in G, at[2] > b PROVE Fine(at)
  <2>1. f[at] = SubSeq(dest, at[1], a)
    BY <1>4, <1>14 DEF Merge
  <2>2. at[2] = b + 1 /\ at[1] \in 1..(a + 1)
    <3> HIDE DEF G, a, b
    <3>1. at[1] \in 1..(a + 1) /\ at[2] \in 1..(b + 1)
      BY <1>7
    <3> QED BY <1>14, <1>6, <3>1
  <2>3. f[at] \in Seq(S) /\ Range(f[at]) = left(at[1])
    BY <2>1, <2>2, RestRange
  <2> QED BY <1>13, <2>2, <2>3
<1>15. ASSUME NEW at \in G, ~(at[2] > b), at[1] > a PROVE Fine(at)
  <2>1. f[at] = SubSeq(src, at[2], b)
    BY <1>4, <1>15 DEF Merge
  <2>2. at[1] = a + 1 /\ at[2] \in 1..(b + 1)
    <3> HIDE DEF G, a, b
    <3>1. at[1] \in 1..(a + 1) /\ at[2] \in 1..(b + 1)
      BY <1>7
    <3> QED BY <1>15, <1>6, <3>1
  <2>3. f[at] \in Seq(S) /\ Range(f[at]) = right(at[2])
    BY <2>1, <2>2, RestRange
  <2> QED BY <1>13, <2>2, <2>3
<1>16. ASSUME NEW at \in G, ~(at[2] > b), ~(at[1] > a), \A to \in G : r(to) < r(at) => Fine(to)
       PROVE  Fine(at)
  <2> DEFINE d == at[1]
             s == at[2]
  <2>1. d \in 1..a /\ s \in 1..b /\ dest[d] \in S /\ src[s] \in S
    <3>1. d \in 1..a /\ s \in 1..b
      <4> HIDE DEF G, a, b
      <4>1. at[1] \in 1..(a + 1) /\ at[2] \in 1..(b + 1)
        BY <1>7
      <4> QED BY <1>16, <1>6, <4>1
    <3> QED BY <1>1, <3>1
  <2>2. Fine(<<d + 1, s + 1>>) /\ Fine(<<d + 1, s>>) /\ Fine(<<d, s + 1>>)
    <3>1. \A to \in {<<d + 1, s + 1>>, <<d + 1, s>>, <<d, s + 1>>} : to \in G /\ r(to) < r(at)
      BY <1>10, <1>16
    <3> HIDE DEF Fine, G, r, d, s
    <3> QED BY <1>16, <3>1
  <2>3. \A x, y : <<x, y>>[1] = x /\ <<x, y>>[2] = y
    OBVIOUS
  <2>4. /\ f[<<d + 1, s + 1>>] \in Seq(S) /\ Range(f[<<d + 1, s + 1>>]) = left(d + 1) \cup right(s + 1)
        /\ f[<<d + 1, s>>] \in Seq(S) /\ Range(f[<<d + 1, s>>]) = left(d + 1) \cup right(s)
        /\ f[<<d, s + 1>>] \in Seq(S) /\ Range(f[<<d, s + 1>>]) = left(d) \cup right(s + 1)
    <3> HIDE DEF left, right, d, s
    <3> QED BY <2>2, <2>3
  <2>5. left(d) = {dest[d]} \cup left(d + 1) /\ right(s) = {src[s]} \cup right(s + 1)
    BY <1>11, <1>12, <2>1
  <2>6. f[at] = IF dest[d] = src[s] THEN <<dest[d]>> \o f[<<d + 1, s + 1>>]
                ELSE IF dest[d] < src[s] THEN <<dest[d]>> \o f[<<d + 1, s>>]
                ELSE <<src[s]>> \o f[<<d, s + 1>>]
    BY <1>4, <1>16 DEF Merge
  <2> HIDE DEF left, right, d, s
  <2>7. CASE dest[d] = src[s]
    <3> DEFINE t == f[<<d + 1, s + 1>>]
    <3>1. f[at] = <<dest[d]>> \o t
      BY <2>6, <2>7
    <3>2. t \in Seq(S) /\ Range(t) = left(d + 1) \cup right(s + 1) /\ dest[d] \in S
      BY <2>1, <2>4
    <3> HIDE DEF t
    <3>3. <<dest[d]>> \o t \in Seq(S) /\ Range(<<dest[d]>> \o t) = {dest[d]} \cup Range(t)
      BY <1>5, <3>2
    <3>4. {dest[d]} \cup (left(d + 1) \cup right(s + 1)) = left(d) \cup right(s)
      BY <2>5, <2>7
    <3>5. f[at] \in Seq(S) /\ Range(f[at]) = left(d) \cup right(s)
      BY <3>1, <3>2, <3>3, <3>4
    <3> QED BY <3>5 DEF d, s
  <2>8. CASE dest[d] # src[s] /\ dest[d] < src[s]
    <3> DEFINE t == f[<<d + 1, s>>]
    <3>1. f[at] = <<dest[d]>> \o t
      BY <2>6, <2>8
    <3>2. t \in Seq(S) /\ Range(t) = left(d + 1) \cup right(s) /\ dest[d] \in S
      BY <2>1, <2>4
    <3> HIDE DEF t
    <3>3. <<dest[d]>> \o t \in Seq(S) /\ Range(<<dest[d]>> \o t) = {dest[d]} \cup Range(t)
      BY <1>5, <3>2
    <3>4. {dest[d]} \cup (left(d + 1) \cup right(s)) = left(d) \cup right(s)
      BY <2>5
    <3>5. f[at] \in Seq(S) /\ Range(f[at]) = left(d) \cup right(s)
      BY <3>1, <3>2, <3>3, <3>4
    <3> QED BY <3>5 DEF d, s
  <2>9. CASE dest[d] # src[s] /\ ~(dest[d] < src[s])
    <3> DEFINE t == f[<<d, s + 1>>]
    <3>1. f[at] = <<src[s]>> \o t
      BY <2>6, <2>9
    <3>2. t \in Seq(S) /\ Range(t) = left(d) \cup right(s + 1) /\ src[s] \in S
      BY <2>1, <2>4
    <3> HIDE DEF t
    <3>3. <<src[s]>> \o t \in Seq(S) /\ Range(<<src[s]>> \o t) = {src[s]} \cup Range(t)
      BY <1>5, <3>2
    <3>4. {src[s]} \cup (left(d) \cup right(s + 1)) = left(d) \cup right(s)
      BY <2>5
    <3>5. f[at] \in Seq(S) /\ Range(f[at]) = left(d) \cup right(s)
      BY <3>1, <3>2, <3>3, <3>4
    <3> QED BY <3>5 DEF d, s
  <2> QED BY <2>7, <2>8, <2>9
<1> HIDE DEF Fine, r, G, a, b
<1>17. 0 \in F
  <2>1. ASSUME NEW at \in G, r(at) <= 0 PROVE Fine(at)
    <3>1. r(at) = 0
      BY <1>6, <1>8, <2>1
    <3> QED BY <1>14, <1>9, <3>1
  <2> QED BY <1>6, <2>1
<1>18. ASSUME NEW n \in 0..(N - 1), n \in F PROVE n + 1 \in F
  <2>1. ASSUME NEW at \in G, r(at) <= n + 1 PROVE Fine(at)
    <3>1. \A to \in G : r(to) < r(at) => Fine(to)
      <4> SUFFICES ASSUME NEW to \in G, r(to) < r(at) PROVE Fine(to)
        OBVIOUS
      <4>1. r(to) \in Nat /\ r(at) \in Nat
        BY <1>6, <1>8
      <4>2. r(to) <= n
        BY <2>1, <4>1
      <4> QED BY <1>18, <4>2
    <3> QED BY <1>14, <1>15, <1>16, <3>1
  <2> QED BY <1>6, <2>1
<1>19. N \in F
  <2> HIDE DEF F
  <2>1. N \in Nat
    BY <1>6
  <2> HIDE DEF N
  <2>2. \A n \in 0..N : n \in F
    BY <1>17, <1>18, <2>1, Induction
  <2> QED BY <2>1, <2>2
<1>20. <<1, 1>> \in G /\ <<1, 1>>[1] = 1 /\ <<1, 1>>[2] = 1
  BY <1>6 DEF G, Grid, a, b
<1>21. Fine(<<1, 1>>)
  <2>1. r(<<1, 1>>) <= N
    BY <1>20, <1>6, <1>8
  <2> QED BY <1>19, <1>20, <2>1
<1> QED BY <1>1, <1>2, <1>20, <1>21 DEF Fine, a, b

\* The hash of a set counts the context once.
Sums(set, context, h) ==
  h = [i \in 0..Len(set) |-> IF i = 0 THEN context ELSE h[i - 1] + set[i]]

LEMMA SumsExist ==
  ASSUME NEW set \in Seq(Nat), NEW context \in Nat
  PROVE  \E h : Sums(set, context, h)
<1> DEFINE N == Len(set)
           next(i, r) == r + set[i]
           step == [p \in (1..N) \X Nat |-> next(p[1], p[2])]
<1>1. N \in Nat /\ \A i \in 1..N : set[i] \in Nat
  BY SequenceIs
<1>2. \A i \in 1..N, r \in Nat : next(i, r) \in Nat
  BY <1>1
<1> HIDE DEF N, next
<1>3. step \in Moves(N, Nat) /\ \A i \in 1..N, r \in Nat : step[<<i, r>>] = next(i, r)
  <2>1. \A p \in (1..N) \X Nat : next(p[1], p[2]) \in Nat
    BY <1>2
  <2> QED BY <2>1 DEF Moves
<1> HIDE DEF step
<1>4. PICK f : Goes(f, N, Nat, context, step)
  BY <1>1, <1>3, Recursion
<1>5. f \in [0..N -> Nat] /\ f[0] = context /\ \A i \in 1..N : f[i] = step[<<i, f[i - 1]>>]
  BY <1>4 DEF Goes
<1>6. \A i \in 1..N : f[i] = next(i, f[i - 1])
  <2>1. \A i \in 1..N : f[i - 1] \in Nat
    BY <1>1, <1>5
  <2> QED BY <1>3, <1>5, <2>1
<1>7. f = [i \in 0..N |-> IF i = 0 THEN context ELSE next(i, f[i - 1])]
  <2>1. \A i \in 0..N : f[i] = IF i = 0 THEN context ELSE next(i, f[i - 1])
    BY <1>1, <1>5, <1>6
  <2>2. f = [i \in 0..N |-> f[i]]
    BY <1>5
  <2> QED BY <2>1, <2>2
<1> QED BY <1>7 DEF Sums, N, next

LEMMA HashIs ==
  ASSUME NEW set \in Seq(Nat), NEW a \in Nat, NEW b \in Nat,
         StateHash(set, a) = StateHash(set, b)
  PROVE  a = b
<1> DEFINE N == Len(set)
           f == CHOOSE h : Sums(set, a, h)
           g == CHOOSE h : Sums(set, b, h)
           F == {i \in 0..N : f[i] \in Nat /\ g[i] \in Nat /\ f[i] + b = g[i] + a}
<1>1. N \in Nat /\ \A i \in 1..N : set[i] \in Nat
  BY SequenceIs
<1>2. StateHash(set, a) = f[N] /\ StateHash(set, b) = g[N]
  BY DEF StateHash, Sums
<1>3. Sums(set, a, f) /\ Sums(set, b, g)
  BY SumsExist
<1> HIDE DEF f, g, N
<1>4. f[0] = a /\ \A i \in 1..N : f[i] = f[i - 1] + set[i]
  <2>1. f = [i \in 0..N |-> IF i = 0 THEN a ELSE f[i - 1] + set[i]]
    BY <1>3 DEF Sums, N
  <2> QED BY <1>1, <2>1
<1>5. g[0] = b /\ \A i \in 1..N : g[i] = g[i - 1] + set[i]
  <2>1. g = [i \in 0..N |-> IF i = 0 THEN b ELSE g[i - 1] + set[i]]
    BY <1>3 DEF Sums, N
  <2> QED BY <1>1, <2>1
<1>6. 0 \in F
  BY <1>1, <1>4, <1>5
<1>7. ASSUME NEW d \in 0..(N - 1), d \in F PROVE d + 1 \in F
  <2>1. d + 1 \in 1..N /\ d + 1 \in 0..N /\ (d + 1) - 1 = d
    BY <1>1
  <2> DEFINE x == f[d]
             y == g[d]
             z == set[d + 1]
  <2>2. f[d + 1] = x + z /\ g[d + 1] = y + z
    BY <1>4, <1>5, <2>1
  <2>3. x \in Nat /\ y \in Nat /\ z \in Nat /\ x + b = y + a
    BY <1>1, <1>7, <2>1
  <2> HIDE DEF x, y, z
  <2>4. x + z \in Nat /\ y + z \in Nat /\ (x + z) + b = (y + z) + a
    BY <2>3
  <2>5. f[d + 1] \in Nat /\ g[d + 1] \in Nat /\ f[d + 1] + b = g[d + 1] + a
    BY <2>2, <2>4
  <2> QED BY <2>1, <2>5
<1>8. N \in F
  <2> HIDE DEF F
  <2>1. \A d \in 0..N : d \in F
    BY <1>1, <1>6, <1>7, Induction
  <2> QED BY <1>1, <2>1
<1>9. f[N] + b = g[N] + a /\ f[N] \in Nat /\ f[N] = g[N]
  BY <1>2, <1>8
<1> QED BY <1>9

\* The states that the nodes of a program can be made into.
Made(nodes, s) ==
  /\ s.entrance \in Seq(DOMAIN nodes)
  /\ \E context \in 0..15 : s = NewState(nodes, s.entrance, context)
IsState(nodes, s) == s = NoState \/ Made(nodes, s)

\* A table of states is a cache: whatever it holds, the state for a set and a
\* context is the one that would be made.
LEMMA AcquireIs ==
  ASSUME NEW nodes, DOMAIN nodes \subseteq Nat, NEW states, \A s \in states : IsState(nodes, s),
         NEW set \in Seq(DOMAIN nodes), NEW context \in 0..15
  PROVE  Acquire(nodes, states, set, context) = IF set = <<>> THEN NoState ELSE NewState(nodes, set, context)
<1> DEFINE found == Lookup(states, set, context)
<1>1. ASSUME set # <<>>, NEW s \in found PROVE s = NewState(nodes, set, context)
  <2>1. s \in states /\ s.hash = StateHash(set, context) /\ s.entrance = set
    BY DEF Lookup
  <2>2. s # NoState
    BY <1>1, <2>1 DEF NoState
  <2>3. PICK c \in 0..15 : s = NewState(nodes, s.entrance, c)
    BY <2>1, <2>2 DEF IsState, Made
  <2>4. StateHash(set, c) = StateHash(set, context)
    BY <2>1, <2>3 DEF NewState
  <2>5. set \in Seq(Nat)
    BY SeqMonotonic
  <2>6. c = context
    BY <2>4, <2>5, HashIs
  <2> QED BY <2>1, <2>3, <2>6
<1> HIDE DEF found
<1>2. set # <<>> /\ found # {} => (CHOOSE s \in found : TRUE) = NewState(nodes, set, context)
  BY <1>1
<1>3. Acquire(nodes, states, set, context) =
        IF set = <<>> THEN NoState
        ELSE IF found # {} THEN CHOOSE s \in found : TRUE
        ELSE NewState(nodes, set, context)
  BY DEF Acquire, found
<1> QED BY <1>2, <1>3

\* Where a group leads, step by step.
Leading(p) ==
  \A n \in DOMAIN p.nodes : p.nexts[n] # 0 => p.eclosures[p.nexts[n]] \in Seq(DOMAIN p.nodes)
Behinds(p, ns) == UNION {Range(p.eclosures[p.nexts[n]]) : n \in {m \in ns : p.nexts[m] # 0}}
Following(p, s, f) ==
  f = [i \in 0..Len(s) |->
         IF i = 0 THEN <<>>
         ELSE IF p.nexts[s[i]] = 0 THEN f[i - 1]
         ELSE SetMerge(f[i - 1], p.eclosures[p.nexts[s[i]]])]

LEMMA FollowingExists ==
  ASSUME NEW p, Leading(p), NEW s \in Seq(DOMAIN p.nodes)
  PROVE  \E f : Following(p, s, f)
<1> DEFINE N == Len(s)
           S == DOMAIN p.nodes
           D == Seq(S)
           next(i, r) == IF p.nexts[s[i]] = 0 THEN r ELSE SetMerge(r, p.eclosures[p.nexts[s[i]]])
           step == [q \in (1..N) \X D |-> next(q[1], q[2])]
<1>1. N \in Nat /\ \A i \in 1..N : s[i] \in S
  BY SequenceIs
<1>2. <<>> \in D
  BY EmptySeq
<1>3. ASSUME NEW i \in 1..N, NEW r \in D PROVE next(i, r) \in D
  <2>1. CASE p.nexts[s[i]] # 0
    <3>1. p.eclosures[p.nexts[s[i]]] \in Seq(S)
      BY <1>1, <2>1 DEF Leading
    <3>2. SetMerge(r, p.eclosures[p.nexts[s[i]]]) \in Seq(S)
      BY <3>1, MergeIs
    <3> QED BY <2>1, <3>2
  <2> QED BY <2>1
<1> HIDE DEF N, D, S, next
<1>4. step \in Moves(N, D) /\ \A i \in 1..N, r \in D : step[<<i, r>>] = next(i, r)
  <2>1. \A q \in (1..N) \X D : next(q[1], q[2]) \in D
    BY <1>3
  <2> QED BY <2>1 DEF Moves
<1> HIDE DEF step
<1>5. PICK f : Goes(f, N, D, <<>>, step)
  BY <1>1, <1>2, <1>4, Recursion
<1>6. f \in [0..N -> D] /\ f[0] = <<>> /\ \A i \in 1..N : f[i] = step[<<i, f[i - 1]>>]
  BY <1>5 DEF Goes
<1>7. \A i \in 1..N : f[i] = next(i, f[i - 1])
  <2>1. \A i \in 1..N : f[i - 1] \in D
    BY <1>1, <1>6
  <2> QED BY <1>4, <1>6, <2>1
<1>8. f = [i \in 0..N |-> IF i = 0 THEN <<>> ELSE next(i, f[i - 1])]
  <2>1. \A i \in 0..N : f[i] = IF i = 0 THEN <<>> ELSE next(i, f[i - 1])
    BY <1>1, <1>6, <1>7
  <2>2. f = [i \in 0..N |-> f[i]]
    BY <1>6
  <2> QED BY <2>1, <2>2
<1> QED BY <1>8 DEF Following, N, next

LEMMA FollowsIs ==
  ASSUME NEW p, Leading(p), NEW group, group.nodes \in Seq(DOMAIN p.nodes)
  PROVE  /\ Follows(p, group) \in Seq(DOMAIN p.nodes)
         /\ Range(Follows(p, group)) = Behinds(p, Range(group.nodes))
<1> DEFINE s == group.nodes
           N == Len(s)
           S == DOMAIN p.nodes
           f == CHOOSE g : Following(p, s, g)
           first(i) == {s[j] : j \in 1..i}
           Fine(i) == f[i] \in Seq(S) /\ Range(f[i]) = Behinds(p, first(i))
           F == {i \in 0..N : Fine(i)}
<1>1. N \in Nat /\ Range(s) = first(N) /\ \A i \in 1..N : s[i] \in S
  BY SequenceIs
<1>2. Follows(p, group) = f[N]
  BY DEF Follows, Following
<1>3. Following(p, s, f)
  BY FollowingExists
<1> HIDE DEF f, s, N
<1>4. f[0] = <<>> /\ \A i \in 1..N : f[i] = IF p.nexts[s[i]] = 0 THEN f[i - 1]
                                           ELSE SetMerge(f[i - 1], p.eclosures[p.nexts[s[i]]])
  <2> DEFINE e(i) == IF p.nexts[s[i]] = 0 THEN f[i - 1]
                     ELSE SetMerge(f[i - 1], p.eclosures[p.nexts[s[i]]])
  <2>1. f = [i \in 0..N |-> IF i = 0 THEN <<>> ELSE e(i)]
    BY <1>3 DEF Following, N
  <2> HIDE DEF e
  <2>2. f[0] = <<>> /\ \A i \in 1..N : f[i] = e(i)
    BY <1>1, <2>1
  <2> QED BY <2>2 DEF e
<1>5. 0 \in F
  <2>1. <<>> \in Seq(S) /\ Range(<<>>) = {}
    BY EmptySeq DEF Range
  <2>2. first(0) = {} /\ 0 \in 0..N
    BY <1>1
  <2>3. Behinds(p, first(0)) = {}
    BY <2>2 DEF Behinds
  <2>4. Fine(0)
    BY <1>4, <2>1, <2>3
  <2> QED BY <2>2, <2>4
<1>6. ASSUME NEW d \in 0..(N - 1), d \in F PROVE d + 1 \in F
  <2> DEFINE x == s[d + 1]
  <2>1. d + 1 \in 1..N /\ d + 1 \in 0..N /\ (d + 1) - 1 = d
    BY <1>1
  <2>2. f[d + 1] = IF p.nexts[x] = 0 THEN f[d] ELSE SetMerge(f[d], p.eclosures[p.nexts[x]])
    BY <1>4, <2>1
  <2>3. first(d + 1) = first(d) \cup {x}
    <3>1. \A j : j \in 1..(d + 1) <=> j \in 1..d \/ j = d + 1
      BY <1>1
    <3> QED BY <3>1
  <2>4. f[d] \in Seq(S) /\ Range(f[d]) = Behinds(p, first(d)) /\ x \in S
    BY <1>1, <1>6, <2>1
  <2> HIDE DEF x, first
  <2>5. CASE p.nexts[x] = 0
    <3>1. Behinds(p, first(d + 1)) = Behinds(p, first(d))
      BY <2>3, <2>5 DEF Behinds
    <3> QED BY <2>1, <2>2, <2>4, <2>5, <3>1
  <2>6. CASE p.nexts[x] # 0
    <3> DEFINE c == p.eclosures[p.nexts[x]]
    <3>1. c \in Seq(S)
      BY <2>4, <2>6 DEF Leading
    <3>2. SetMerge(f[d], c) \in Seq(S) /\ Range(SetMerge(f[d], c)) = Range(f[d]) \cup Range(c)
      BY <2>4, <3>1, MergeIs
    <3>3. Behinds(p, first(d + 1)) = Behinds(p, first(d)) \cup Range(c)
      BY <2>3, <2>6 DEF Behinds
    <3> QED BY <2>1, <2>2, <2>4, <2>6, <3>2, <3>3
  <2> QED BY <2>5, <2>6
<1>7. N \in F
  <2> HIDE DEF F
  <2>1. \A d \in 0..N : d \in F
    BY <1>1, <1>5, <1>6, Induction
  <2> QED BY <1>1, <2>1
<1> QED BY <1>1, <1>2, <1>7 DEF s

\* The groups of the bytes that nodes take.
Group(S) == [chars : SUBSET Char, nodes : Seq(S)]
Acc(S)   == [groups : Seq(Group(S)), left : SUBSET Char]
Having(groups, c) == {k \in DOMAIN groups : c \in groups[k].chars}
Dividing(groups, n, all, f) ==
  f = [j \in 0..Len(groups) |->
         IF j = 0 THEN [groups |-> groups, left |-> all] ELSE Divide(f[j - 1], n, j)]

\* What a group becomes that has bytes in common with those of a node: one group
\* for these, and one for the others.
DividesInTwo(S, acc, n, j) ==
  LET d    == acc.groups[j]
      both == d.chars \cap acc.left
      rest == d.chars \ acc.left
      out  == Divide(acc, n, j)
      size == Len(acc.groups)
  IN  /\ out \in Acc(S) /\ Len(out.groups) >= size
      /\ out.left = acc.left \ d.chars
      /\ both = {} => out = acc
      /\ both # {} =>
           /\ Len(out.groups) \in {size} \cup {size + 1}
           /\ \A k \in 1..size : k # j => out.groups[k] = acc.groups[k]
           /\ out.groups[j].chars = both
           /\ Range(out.groups[j].nodes) = Range(d.nodes) \cup {n}
           /\ rest = {} => Len(out.groups) = size
           /\ rest # {} => /\ Len(out.groups) = size + 1
                           /\ out.groups[size + 1].chars = rest
                           /\ out.groups[size + 1].nodes = d.nodes

LEMMA DivideIs ==
  ASSUME NEW S, S \subseteq Nat, NEW acc \in Acc(S), NEW n \in S, NEW j \in 1..Len(acc.groups)
  PROVE  DividesInTwo(S, acc, n, j)
<1> DEFINE d    == acc.groups[j]
           both == d.chars \cap acc.left
           rest == d.chars \ acc.left
           out  == Divide(acc, n, j)
           size == Len(acc.groups)
           with == [chars |-> both, nodes |-> SetInsert(d.nodes, n)]
           other == [d EXCEPT !.chars = rest]
           front == [acc.groups EXCEPT ![j] = with]
           tail == IF rest = {} THEN <<>> ELSE <<other>>
<1>1. acc.groups \in Seq(Group(S)) /\ acc.left \subseteq Char
  BY DEF Acc
<1>2. size \in Nat /\ \A k \in 1..size : acc.groups[k] \in Group(S)
  BY <1>1, SequenceIs
<1>3. d \in Group(S) /\ d.chars \subseteq Char /\ d.nodes \in Seq(S)
  BY <1>2 DEF Group
<1>4. with \in Group(S) /\ Range(with.nodes) = Range(d.nodes) \cup {n}
  <2>1. SetInsert(d.nodes, n) \in Seq(S) /\ Range(SetInsert(d.nodes, n)) = Range(d.nodes) \cup {n}
    <3> HIDE DEF d
    <3>1. \A s \in Seq(S), e \in S :
            SetInsert(s, e) \in Seq(S) /\ Range(SetInsert(s, e)) = Range(s) \cup {e}
      BY InsertIs
    <3> QED BY <1>3, <3>1
  <2> QED BY <1>3, <2>1 DEF Group
<1>5. other \in Group(S) /\ other.chars = rest /\ other.nodes = d.nodes
  BY <1>3 DEF Group
<1>6. out = IF both = {} THEN acc ELSE [groups |-> front \o tail, left |-> acc.left \ d.chars]
  BY DEF Divide
<1> HIDE DEF with, other, out
<1>7. /\ front \in Seq(Group(S)) /\ Len(front) = size
      /\ front[j] = with /\ \A k \in 1..size : k # j => front[k] = acc.groups[k]
  BY <1>1, <1>4, ExceptSeq
<1>8. tail \in Seq(Group(S)) /\ Len(tail) = IF rest = {} THEN 0 ELSE 1
  BY <1>5
<1>9. rest # {} => tail[1] = other
  OBVIOUS
<1> HIDE DEF front, tail
<1>10. /\ front \o tail \in Seq(Group(S)) /\ Len(front \o tail) = size + Len(tail)
       /\ \A k \in 1..(size + Len(tail)) : (front \o tail)[k] = IF k <= size THEN front[k] ELSE tail[k - size]
  <2>1. /\ front \o tail \in Seq(Group(S)) /\ Len(front \o tail) = Len(front) + Len(tail)
        /\ \A k \in 1..(Len(front) + Len(tail)) :
             (front \o tail)[k] = IF k <= Len(front) THEN front[k] ELSE tail[k - Len(front)]
    <3>1. \A s, t \in Seq(Group(S)) :
            /\ s \o t \in Seq(Group(S)) /\ Len(s \o t) = Len(s) + Len(t)
            /\ \A k \in 1..(Len(s) + Len(t)) :
                 (s \o t)[k] = IF k <= Len(s) THEN s[k] ELSE t[k - Len(s)]
      BY ConcatProperties
    <3> HIDE DEF size
    <3> QED BY <1>7, <1>8, <3>1
  <2> QED BY <1>7, <2>1
<1> DEFINE whole == front \o tail
<1> HIDE DEF whole
<1> HIDE DEF size
<1>11. \A k \in 1..size : whole[k] = front[k]
  <2>1. \A k \in 1..size : k \in 1..(size + Len(tail)) /\ k <= size
    BY <1>2, <1>8
  <2> QED BY <1>10, <2>1 DEF whole
<1>12. rest # {} => Len(whole) = size + 1 /\ whole[size + 1] = other
  <2> SUFFICES ASSUME rest # {} PROVE Len(whole) = size + 1 /\ whole[size + 1] = other
    OBVIOUS
  <2>1. size + 1 \in 1..(size + Len(tail)) /\ ~(size + 1 <= size) /\ (size + 1) - size = 1
    BY <1>2, <1>8
  <2> QED BY <1>8, <1>9, <1>10, <2>1 DEF whole
<1>13. rest = {} => Len(whole) = size
  BY <1>2, <1>8, <1>10 DEF whole
<1>14. CASE both = {}
  <2>1. out = acc /\ acc.left = acc.left \ d.chars
    BY <1>6, <1>14
  <2> QED BY <1>2, <1>14, <2>1 DEF out, size, DividesInTwo
<1>15. CASE both # {}
  <2>1. out = [groups |-> whole, left |-> acc.left \ d.chars]
    BY <1>6, <1>15 DEF whole
  <2>2. out.groups = whole /\ out.left = acc.left \ d.chars /\ out \in Acc(S)
    BY <1>1, <1>10, <2>1 DEF Acc, whole
  <2>3. Len(whole) \in {size} \cup {size + 1} /\ Len(whole) >= size
    BY <1>2, <1>12, <1>13
  <2>4. j \in 1..size
    BY DEF size
  <2>5. with.chars = both
    BY DEF with
  <2>6. \A k \in 1..size : k # j => whole[k] = acc.groups[k]
    BY <1>7, <1>11 DEF size
  <2>7. whole[j] = with
    BY <1>7, <1>11, <2>4
  <2> HIDE DEF d, both, rest
  <2>8. /\ out \in Acc(S) /\ Len(out.groups) >= size
        /\ out.left = acc.left \ d.chars
        /\ Len(out.groups) \in {size} \cup {size + 1}
        /\ \A k \in 1..size : k # j => out.groups[k] = acc.groups[k]
        /\ out.groups[j].chars = both
        /\ Range(out.groups[j].nodes) = Range(d.nodes) \cup {n}
        /\ rest = {} => Len(out.groups) = size
        /\ rest # {} => /\ Len(out.groups) = size + 1
                        /\ out.groups[size + 1].chars = rest
                        /\ out.groups[size + 1].nodes = d.nodes
    BY <1>4, <1>5, <1>12, <1>13, <2>2, <2>3, <2>5, <2>6, <2>7
  <2> QED BY <1>15, <2>8 DEF d, both, rest, out, size, DividesInTwo
<1> QED BY <1>14, <1>15

\* How far the groups have been divided by the bytes of a node.
Unique(groups) == \A c \in Char : \A k, l \in Having(groups, c) : k = l
Split(S, groups, n, all, acc, j) ==
  /\ acc \in Acc(S) /\ Len(acc.groups) >= Len(groups) /\ Unique(acc.groups)
  /\ \A k \in (j + 1)..Len(groups) : acc.groups[k] = groups[k]
  /\ \A c \in Char :
       /\ c \in acc.left <=> (c \in all /\ \A k \in 1..j : c \notin groups[k].chars)
       /\ Having(acc.groups, c) = {} <=> Having(groups, c) = {}
       /\ \A k \in Having(acc.groups, c) :
            \E l \in Having(groups, c) :
              Range(acc.groups[k].nodes) = Range(groups[l].nodes)
                                             \cup (IF c \in all /\ l <= j THEN {n} ELSE {})

LEMMA SplitStep ==
  ASSUME NEW S, S \subseteq Nat, NEW groups \in Seq(Group(S)), Unique(groups), NEW n \in S,
         NEW all \in SUBSET Char, NEW acc, NEW j \in 0..(Len(groups) - 1),
         Split(S, groups, n, all, acc, j)
  PROVE  Split(S, groups, n, all, Divide(acc, n, j + 1), j + 1)
<1> DEFINE J == j + 1
           L == Len(groups)
           size == Len(acc.groups)
           d == acc.groups[J]
           both == d.chars \cap acc.left
           rest == d.chars \ acc.left
           out == Divide(acc, n, J)
           old(c) == Having(acc.groups, c)
           new(c) == Having(out.groups, c)
           given(c) == Having(groups, c)
           part(c, i) == IF c \in all /\ i <= J THEN {n} ELSE {}
<1>1. /\ L \in Nat /\ J \in 1..L /\ DOMAIN groups = 1..L
      /\ \A k \in 1..L : groups[k] \in Group(S) /\ groups[k].chars \subseteq Char
  <2>1. L \in Nat /\ DOMAIN groups = 1..L /\ \A k \in 1..L : groups[k] \in Group(S)
    BY SequenceIs
  <2>2. J \in 1..L
    BY <2>1
  <2> QED BY <2>1, <2>2 DEF Group
<1>2. /\ acc \in Acc(S) /\ size >= L /\ size \in Nat /\ DOMAIN acc.groups = 1..size
      /\ acc.groups \in Seq(Group(S)) /\ J \in 1..size
  <2>1. acc \in Acc(S) /\ size >= L
    BY DEF Split
  <2>2. acc.groups \in Seq(Group(S))
    BY <2>1 DEF Acc
  <2>3. size \in Nat /\ DOMAIN acc.groups = 1..size
    BY <2>2, SequenceIs
  <2> HIDE DEF size, L, J
  <2> QED BY <1>1, <2>1, <2>2, <2>3
<1>3. d = groups[J] /\ \A k \in (J + 1)..L : acc.groups[k] = groups[k]
  <2>1. \A k \in J..L : acc.groups[k] = groups[k]
    BY DEF Split
  <2> HIDE DEF L, J
  <2>2. J \in J..L /\ (J + 1)..L \subseteq J..L
    BY <1>1
  <2> QED BY <2>1, <2>2
<1>4. ASSUME NEW c \in Char
      PROVE  /\ c \in acc.left <=> (c \in all /\ \A k \in 1..j : c \notin groups[k].chars)
             /\ old(c) = {} <=> given(c) = {}
             /\ \A k, i \in old(c) : k = i
             /\ \A k, i \in given(c) : k = i
  BY DEF Split, Unique
<1>5. ASSUME NEW c \in Char, NEW k \in old(c)
      PROVE  \E l \in given(c) : Range(acc.groups[k].nodes) = Range(groups[l].nodes)
                                   \cup (IF c \in all /\ l <= j THEN {n} ELSE {})
  BY <1>5 DEF Split
<1>6. ASSUME NEW c \in Char PROVE J \in old(c) <=> c \in d.chars
  BY <1>2 DEF Having
<1>7. ASSUME NEW c \in Char PROVE J \in given(c) <=> c \in d.chars
  BY <1>1, <1>3 DEF Having
<1>8. ASSUME NEW c \in Char, c \in d.chars PROVE c \in acc.left <=> c \in all
  <2>1. ASSUME NEW k \in 1..j, c \in groups[k].chars PROVE FALSE
    <3>1. k \in 1..L /\ k # J
      BY <1>1
    <3>2. k \in given(c)
      BY <1>1, <2>1, <3>1 DEF Having
    <3>3. J \in given(c)
      BY <1>7, <1>8
    <3> HIDE DEF given
    <3> QED BY <1>4, <3>1, <3>2, <3>3
  <2> QED BY <1>4, <2>1
\* The step.
<1>9. /\ out \in Acc(S) /\ Len(out.groups) >= size
      /\ out.left = acc.left \ d.chars
      /\ both = {} => out = acc
      /\ both # {} =>
           /\ Len(out.groups) \in {size} \cup {size + 1}
           /\ \A k \in 1..size : k # J => out.groups[k] = acc.groups[k]
           /\ out.groups[J].chars = both
           /\ Range(out.groups[J].nodes) = Range(d.nodes) \cup {n}
           /\ rest = {} => Len(out.groups) = size
           /\ rest # {} => /\ Len(out.groups) = size + 1
                           /\ out.groups[size + 1].chars = rest
                           /\ out.groups[size + 1].nodes = d.nodes
  <2>1. acc \in Acc(S) /\ J \in 1..Len(acc.groups)
    BY <1>2
  <2> HIDE DEF J
  <2>2. DividesInTwo(S, acc, n, J)
    BY <2>1, DivideIs
  <2> QED BY <2>2 DEF DividesInTwo
<1>10. DOMAIN out.groups = 1..Len(out.groups)
  <2>1. out.groups \in Seq(Group(S))
    BY <1>9 DEF Acc
  <2> QED BY <2>1, SequenceIs
<1> HIDE DEF J, L, size, d, both, rest, out
<1>11. Len(out.groups) >= L
  <2>1. size \in Nat /\ L \in Nat /\ Len(out.groups) \in Nat
    <3>1. out.groups \in Seq(Group(S))
      BY <1>9 DEF Acc
    <3> QED BY <1>1, <1>2, <3>1, SequenceIs
  <2> QED BY <1>2, <1>9, <2>1
<1>12. \A k \in (J + 1)..L : out.groups[k] = groups[k]
  <2> SUFFICES ASSUME NEW k \in (J + 1)..L PROVE out.groups[k] = groups[k]
    OBVIOUS
  <2>1. k \in 1..size /\ k # J
    BY <1>1, <1>2
  <2> QED BY <1>3, <1>9, <2>1
<1>13. ASSUME NEW c \in Char
       PROVE  c \in out.left <=> (c \in all /\ \A k \in 1..J : c \notin groups[k].chars)
  <2>1. \A k : k \in 1..J <=> k \in 1..j \/ k = J
    BY DEF J
  <2> QED BY <1>3, <1>4, <1>9, <2>1
\* Which group has a byte now.
<1>14. ASSUME NEW c \in Char, c \notin d.chars PROVE new(c) = old(c)
  <2>1. CASE both = {}
    BY <1>9, <2>1
  <2>2. CASE both # {}
    <3>1. ASSUME NEW k \in new(c) PROVE k \in old(c)
      <4>1. k \in 1..Len(out.groups) /\ c \in out.groups[k].chars
        BY <1>10, <3>1 DEF Having
      <4>2. k # J
        BY <1>9, <1>14, <2>2, <4>1 DEF both
      <4>3. k \in 1..size
        <5>1. k # size + 1
          <6>1. CASE rest = {}
            BY <1>2, <1>9, <2>2, <4>1, <6>1
          <6>2. CASE rest # {}
            BY <1>9, <1>14, <2>2, <4>1, <6>2 DEF rest
          <6> QED BY <6>1, <6>2
        <5> QED BY <1>2, <1>9, <2>2, <4>1, <5>1
      <4> QED BY <1>2, <1>9, <2>2, <4>1, <4>2, <4>3 DEF Having
    <3>2. ASSUME NEW k \in old(c) PROVE k \in new(c)
      <4>1. k \in 1..size /\ c \in acc.groups[k].chars
        BY <1>2, <3>2 DEF Having
      <4>2. k # J
        BY <1>6, <1>14, <3>2
      <4>3. out.groups[k] = acc.groups[k]
        BY <1>9, <2>2, <4>1, <4>2
      <4>4. k \in 1..Len(out.groups)
        BY <1>2, <1>9, <2>2, <4>1
      <4> QED BY <1>10, <4>1, <4>3, <4>4 DEF Having
    <3> HIDE DEF old, new
    <3> QED BY <3>1, <3>2
  <2> QED BY <2>1, <2>2
<1>15. ASSUME NEW c \in Char, c \in d.chars PROVE old(c) = {J} /\ given(c) = {J}
  <2>1. J \in old(c) /\ J \in given(c)
    BY <1>6, <1>7, <1>15
  <2> HIDE DEF old, given
  <2> QED BY <1>4, <2>1
<1>16. ASSUME NEW c \in both PROVE new(c) = {J} /\ c \in Char /\ c \in d.chars /\ c \in acc.left
  <2>1. c \in d.chars /\ c \in acc.left /\ c \in Char
    BY <1>1, <1>3, <1>16 DEF both
  <2>2. both # {}
    BY <1>16
  <2>3. ASSUME NEW k \in new(c) PROVE k = J
    <3>1. k \in 1..Len(out.groups) /\ c \in out.groups[k].chars
      BY <1>10, <2>3 DEF Having
    <3>2. CASE k \in 1..size /\ k # J
      <4>1. k \in old(c)
        BY <1>2, <1>9, <2>2, <3>1, <3>2 DEF Having
      <4> QED BY <1>15, <2>1, <4>1
    <3>3. CASE k = size + 1
      <4>1. rest # {}
        BY <1>2, <1>9, <2>2, <3>1, <3>3
      <4>2. c \in rest
        BY <1>9, <2>2, <3>1, <3>3, <4>1
      <4> QED BY <2>1, <4>2 DEF rest
    <3> QED BY <1>2, <1>9, <2>2, <3>1, <3>2, <3>3
  <2>4. J \in new(c)
    <3>1. J \in 1..Len(out.groups)
      BY <1>2, <1>9, <2>2
    <3> QED BY <1>9, <1>10, <1>16, <2>2, <3>1 DEF Having
  <2> HIDE DEF new
  <2> QED BY <2>1, <2>3, <2>4
<1>17. ASSUME NEW c \in rest, both # {}
       PROVE  new(c) = {size + 1} /\ c \in Char /\ c \in d.chars /\ c \notin acc.left
  <2>1. c \in d.chars /\ c \notin acc.left /\ c \in Char
    BY <1>1, <1>3, <1>17 DEF rest
  <2>2. rest # {}
    BY <1>17
  <2>3. ASSUME NEW k \in new(c) PROVE k = size + 1
    <3>1. k \in 1..Len(out.groups) /\ c \in out.groups[k].chars
      BY <1>10, <2>3 DEF Having
    <3>2. CASE k \in 1..size /\ k # J
      <4>1. k \in old(c)
        BY <1>2, <1>9, <1>17, <3>1, <3>2 DEF Having
      <4> QED BY <1>15, <2>1, <3>2, <4>1
    <3>3. CASE k = J
      <4>1. c \in both
        BY <1>9, <1>17, <3>1, <3>3
      <4> QED BY <2>1, <4>1 DEF both
    <3> QED BY <1>2, <1>9, <1>17, <2>2, <3>1, <3>2, <3>3
  <2>4. size + 1 \in new(c)
    <3>1. size + 1 \in 1..Len(out.groups)
      BY <1>2, <1>9, <1>17, <2>2
    <3> QED BY <1>9, <1>10, <1>17, <2>2, <3>1 DEF Having
  <2> HIDE DEF new
  <2> QED BY <2>1, <2>3, <2>4
<1>18. ASSUME NEW c \in Char, c \in d.chars, both # {} PROVE c \in both \/ c \in rest
  BY <1>18 DEF both, rest
\* What follows for each byte.
<1>19. ASSUME NEW c \in Char PROVE \A k, i \in new(c) : k = i
  <2>1. CASE both = {} \/ c \notin d.chars
    <3>1. new(c) = old(c)
      BY <1>9, <1>14, <2>1
    <3> HIDE DEF new, old
    <3> QED BY <1>4, <3>1
  <2>2. CASE both # {} /\ c \in d.chars
    <3> HIDE DEF new
    <3> QED BY <1>16, <1>17, <1>18, <2>2
  <2> QED BY <2>1, <2>2
<1>20. ASSUME NEW c \in Char PROVE new(c) = {} <=> given(c) = {}
  <2>1. CASE both = {} \/ c \notin d.chars
    <3>1. new(c) = old(c)
      BY <1>9, <1>14, <2>1
    <3> HIDE DEF new, old, given
    <3> QED BY <1>4, <3>1
  <2>2. CASE both # {} /\ c \in d.chars
    <3> HIDE DEF new, given
    <3> QED BY <1>15, <1>16, <1>17, <1>18, <2>2
  <2> QED BY <2>1, <2>2
<1>21. ASSUME NEW c \in Char, NEW k \in new(c)
       PROVE  \E l \in given(c) : Range(out.groups[k].nodes) = Range(groups[l].nodes) \cup part(c, l)
  <2>1. CASE both = {} \/ c \notin d.chars
    <3>1. new(c) = old(c)
      BY <1>9, <1>14, <2>1
    <3>2. k \in old(c)
      BY <1>21, <3>1
    <3>3. PICK l \in given(c) : Range(acc.groups[k].nodes) = Range(groups[l].nodes)
                                   \cup (IF c \in all /\ l <= j THEN {n} ELSE {})
      BY <1>5, <3>2
    <3>4. out.groups[k] = acc.groups[k]
      <4>1. CASE both = {}
        BY <1>9, <4>1
      <4>2. CASE both # {}
        <5>1. k \in 1..size
          BY <1>2, <3>2 DEF Having
        <5>2. k # J
          BY <1>6, <2>1, <3>2, <4>2
        <5> QED BY <1>9, <4>2, <5>1, <5>2
      <4> QED BY <4>1, <4>2
    <3>5. c \in all /\ l = J => FALSE
      <4> SUFFICES ASSUME c \in all, l = J PROVE FALSE
        OBVIOUS
      <4>1. c \in d.chars
        BY <1>7, <3>3
      <4>2. c \in both
        BY <1>8, <4>1 DEF both
      <4> QED BY <2>1, <4>1, <4>2
    <3>6. l \in Nat
      BY <1>1, <3>3 DEF Having
    <3>7. part(c, l) = IF c \in all /\ l <= j THEN {n} ELSE {}
      <4>1. l # J => (l <= j <=> l <= J)
        BY <3>6 DEF J
      <4> QED BY <3>5, <4>1
    <3> HIDE DEF part, given
    <3> QED BY <3>3, <3>4, <3>7
  <2>2. CASE both # {} /\ c \in both
    <3>1. k = J /\ c \in d.chars /\ c \in acc.left
      <4> HIDE DEF new
      <4> QED BY <1>16, <1>21, <2>2
    <3>2. c \in all /\ J <= J
      BY <1>1, <1>8, <3>1
    <3>3. part(c, J) = {n} /\ J \in given(c)
      BY <1>7, <3>1, <3>2
    <3> HIDE DEF part, given
    <3> QED BY <1>3, <1>9, <2>2, <3>1, <3>3
  <2>3. CASE both # {} /\ c \in rest
    <3>1. k = size + 1 /\ c \in d.chars /\ c \notin acc.left
      <4> HIDE DEF new
      <4> QED BY <1>17, <1>21, <2>3
    <3>2. c \notin all
      BY <1>8, <3>1
    <3>3. part(c, J) = {} /\ J \in given(c)
      BY <1>7, <3>1, <3>2
    <3>4. out.groups[k].nodes = d.nodes
      BY <1>9, <2>3, <3>1
    <3> HIDE DEF part, given
    <3> QED BY <1>3, <3>3, <3>4
  <2> QED BY <1>18, <2>1, <2>2, <2>3
<1>22. Unique(out.groups)
  BY <1>19 DEF Unique
<1>23. Split(S, groups, n, all, out, J)
  BY <1>9, <1>11, <1>12, <1>13, <1>20, <1>21, <1>22 DEF Split, L
<1> QED BY <1>23 DEF out, J

LEMMA DividingExists ==
  ASSUME NEW S, S \subseteq Nat, NEW groups \in Seq(Group(S)), NEW n \in S, NEW all \in SUBSET Char
  PROVE  \E f : Dividing(groups, n, all, f)
<1> DEFINE N == Len(groups)
           D == {r \in Acc(S) : Len(r.groups) \in Nat /\ Len(r.groups) >= N}
           first == [groups |-> groups, left |-> all]
           step == [q \in (1..N) \X D |-> Divide(q[2], n, q[1])]
<1>1. N \in Nat
  BY SequenceIs
<1>2. first \in D
  <2>1. first \in Acc(S) /\ first.groups = groups
    BY DEF Acc
  <2> HIDE DEF first
  <2> QED BY <1>1, <2>1
<1>3. ASSUME NEW i \in 1..N, NEW r \in D PROVE Divide(r, n, i) \in D
  <2>1. r \in Acc(S) /\ Len(r.groups) \in Nat /\ Len(r.groups) >= N
    OBVIOUS
  <2> HIDE DEF D, N
  <2>2. i \in 1..Len(r.groups)
    BY <1>1, <2>1
  <2>3. DividesInTwo(S, r, n, i)
    BY <2>1, <2>2, DivideIs
  <2>4. Divide(r, n, i) \in Acc(S) /\ Len(Divide(r, n, i).groups) >= Len(r.groups)
    BY <2>3 DEF DividesInTwo
  <2>5. Len(Divide(r, n, i).groups) \in Nat
    <3>1. Divide(r, n, i).groups \in Seq(Group(S))
      BY <2>4 DEF Acc
    <3> QED BY <3>1, SequenceIs
  <2>6. Len(Divide(r, n, i).groups) >= N
    BY <1>1, <2>1, <2>4, <2>5
  <2> QED BY <2>4, <2>5, <2>6 DEF D
<1> HIDE DEF N, D, first
<1>4. step \in Moves(N, D) /\ \A i \in 1..N, r \in D : step[<<i, r>>] = Divide(r, n, i)
  <2>1. \A q \in (1..N) \X D : Divide(q[2], n, q[1]) \in D
    BY <1>3
  <2> QED BY <2>1 DEF Moves
<1> HIDE DEF step
<1>5. PICK f : Goes(f, N, D, first, step)
  BY <1>1, <1>2, <1>4, Recursion
<1>6. f \in [0..N -> D] /\ f[0] = first /\ \A i \in 1..N : f[i] = step[<<i, f[i - 1]>>]
  BY <1>5 DEF Goes
<1>7. \A i \in 1..N : f[i] = Divide(f[i - 1], n, i)
  <2>1. \A i \in 1..N : f[i - 1] \in D
    BY <1>1, <1>6
  <2> QED BY <1>4, <1>6, <2>1
<1>8. f = [i \in 0..N |-> IF i = 0 THEN first ELSE Divide(f[i - 1], n, i)]
  <2>1. \A i \in 0..N : f[i] = IF i = 0 THEN first ELSE Divide(f[i - 1], n, i)
    BY <1>1, <1>6, <1>7
  <2>2. f = [i \in 0..N |-> f[i]]
    BY <1>6
  <2> QED BY <2>1, <2>2
<1> QED BY <1>8 DEF Dividing, N, first

LEMMA DividedIs ==
  ASSUME NEW S, S \subseteq Nat, NEW groups \in Seq(Group(S)), Unique(groups), NEW n \in S,
         NEW all \in SUBSET Char
  PROVE  Split(S, groups, n, all, Divided(groups, n, all), Len(groups))
<1> DEFINE N == Len(groups)
           f == CHOOSE g : Dividing(groups, n, all, g)
           first == [groups |-> groups, left |-> all]
           F == {j \in 0..N : Split(S, groups, n, all, f[j], j)}
<1>1. N \in Nat /\ DOMAIN groups = 1..N
  BY SequenceIs
<1>2. Divided(groups, n, all) = f[N]
  BY DEF Divided, Dividing
<1>3. Dividing(groups, n, all, f)
  BY DividingExists
<1> HIDE DEF f
<1>4. f[0] = first /\ \A j \in 1..N : f[j] = Divide(f[j - 1], n, j)
  <2> HIDE DEF first, N
  <2>1. f = [j \in 0..N |-> IF j = 0 THEN first ELSE Divide(f[j - 1], n, j)]
    BY <1>3 DEF Dividing, N, first
  <2> QED BY <1>1, <2>1
<1>5. 0 \in F
  <2>1. first \in Acc(S) /\ first.groups = groups /\ first.left = all
    BY DEF Acc
  <2>2. 1..0 = {} /\ 0 \in 0..N /\ N >= N
    BY <1>1
  <2>3. ASSUME NEW c \in Char, NEW k \in Having(groups, c) PROVE ~(k <= 0)
    BY <1>1, <2>3 DEF Having
  <2> HIDE DEF first
  <2>4. Split(S, groups, n, all, first, 0)
    <3>1. \A k \in (0 + 1)..Len(groups) : first.groups[k] = groups[k]
      BY <2>1
    <3>2. ASSUME NEW c \in Char
          PROVE  /\ c \in first.left <=> (c \in all /\ \A k \in 1..0 : c \notin groups[k].chars)
                 /\ Having(first.groups, c) = {} <=> Having(groups, c) = {}
      BY <2>1, <2>2
    <3>3. ASSUME NEW c \in Char, NEW k \in Having(first.groups, c)
          PROVE  \E l \in Having(groups, c) :
                   Range(first.groups[k].nodes) = Range(groups[l].nodes)
                                                    \cup (IF c \in all /\ l <= 0 THEN {n} ELSE {})
      <4>1. k \in Having(groups, c) /\ ~(k <= 0)
        BY <2>1, <2>3, <3>3
      <4> QED BY <2>1, <4>1
    <3> QED BY <2>1, <2>2, <3>1, <3>2, <3>3 DEF Split
  <2> QED BY <1>4, <2>2, <2>4
<1>6. ASSUME NEW j \in 0..(N - 1), j \in F PROVE j + 1 \in F
  <2>1. j + 1 \in 1..N /\ j + 1 \in 0..N /\ (j + 1) - 1 = j
    BY <1>1
  <2>2. f[j + 1] = Divide(f[j], n, j + 1)
    BY <1>4, <2>1
  <2>3. Split(S, groups, n, all, Divide(f[j], n, j + 1), j + 1)
    BY <1>6, SplitStep
  <2> QED BY <2>1, <2>2, <2>3
<1> HIDE DEF N
<1>7. N \in F
  <2> HIDE DEF F
  <2>1. \A j \in 0..N : j \in F
    BY <1>1, <1>5, <1>6, Induction
  <2> QED BY <1>1, <2>1
<1> QED BY <1>2, <1>7 DEF N

\* The groups of a set of nodes: each byte has at most one, whose nodes are those
\* that take the byte.
Grouped(p, groups, ns) ==
  /\ groups \in Seq(Group(DOMAIN p.nodes)) /\ Unique(groups)
  /\ \A c \in Char :
       /\ \A k \in Having(groups, c) : Range(groups[k].nodes) = {x \in ns : c \in Accepts(p, x)}
       /\ Having(groups, c) = {} => \A x \in ns : c \notin Accepts(p, x)

LEMMA JoinedIs ==
  ASSUME NEW p, DOMAIN p.nodes \subseteq Nat, NEW groups, NEW ns, Grouped(p, groups, ns),
         NEW n \in DOMAIN p.nodes, Accepts(p, n) \subseteq Char
  PROVE  Grouped(p, Joined(p, groups, n), ns \cup {n})
<1> DEFINE S == DOMAIN p.nodes
           all == Accepts(p, n)
           acc == Divided(groups, n, all)
           new == [chars |-> acc.left, nodes |-> <<n>>]
           out == Joined(p, groups, n)
           L == Len(groups)
           of(c, xs) == {x \in xs : c \in Accepts(p, x)}
<1>1. groups \in Seq(Group(S)) /\ Unique(groups)
  BY DEF Grouped
<1>2. Split(S, groups, n, all, acc, L)
  BY <1>1, DividedIs
<1> HIDE DEF acc, all
<1>3. L \in Nat /\ DOMAIN groups = 1..L
  BY <1>1, SequenceIs
<1>4. acc.groups \in Seq(Group(S)) /\ acc.left \subseteq Char /\ Unique(acc.groups)
  BY <1>2 DEF Split, Acc
<1>5. ASSUME NEW c \in Char
      PROVE  /\ c \in acc.left <=> (c \in all /\ Having(groups, c) = {})
             /\ Having(acc.groups, c) = {} <=> Having(groups, c) = {}
  <2>1. Having(groups, c) = {} <=> \A k \in 1..L : c \notin groups[k].chars
    BY <1>3 DEF Having
  <2> QED BY <1>2, <2>1 DEF Split
<1>6. ASSUME NEW c \in Char
      PROVE  /\ \A k \in Having(groups, c) : Range(groups[k].nodes) = of(c, ns)
             /\ Having(groups, c) = {} => of(c, ns) = {}
  BY DEF Grouped
<1>7. \A c : of(c, ns \cup {n}) = of(c, ns) \cup (IF c \in all THEN {n} ELSE {})
  BY DEF all
<1> HIDE DEF of
<1>8. ASSUME NEW c \in Char, NEW k \in Having(acc.groups, c)
      PROVE  Range(acc.groups[k].nodes) = of(c, ns \cup {n})
  <2>1. PICK l \in Having(groups, c) :
          Range(acc.groups[k].nodes) = Range(groups[l].nodes)
                                         \cup (IF c \in all /\ l <= L THEN {n} ELSE {})
    BY <1>2, <1>8 DEF Split
  <2>2. l <= L
    <3>1. l \in 1..L
      BY <1>3 DEF Having
    <3> QED BY <1>3, <3>1
  <2> QED BY <1>6, <1>7, <2>1, <2>2
<1>9. CASE all # {} /\ acc.left = {}
  <2>1. out = acc.groups
    BY <1>9 DEF Joined, acc, all
  <2> HIDE DEF out
  <2>2. ASSUME NEW c \in Char, Having(out, c) = {} PROVE of(c, ns \cup {n}) = {}
    <3>1. Having(groups, c) = {} /\ c \notin all
      BY <1>5, <1>9, <2>1, <2>2
    <3> QED BY <1>6, <1>7, <3>1
  <2> QED BY <1>4, <1>8, <2>1, <2>2 DEF Grouped, out, of
<1>10. CASE ~(all # {} /\ acc.left = {})
  <2> DEFINE size == Len(acc.groups)
  <2>1. out = Append(acc.groups, new)
    BY <1>10 DEF Joined, acc, all
  <2>2. new \in Group(S) /\ new.chars = acc.left /\ Range(new.nodes) = {n}
    <3>1. <<n>> \in Seq(S)
      <4>1. n \in S
        OBVIOUS
      <4> HIDE DEF S
      <4> QED BY <4>1
    <3>2. Range(<<n>>) = {n}
      BY DEF Range
    <3> QED BY <1>4, <3>1, <3>2 DEF Group
  <2> HIDE DEF new, out
  <2>3. size \in Nat /\ DOMAIN acc.groups = 1..size
    BY <1>4, SequenceIs
  <2>4. /\ out \in Seq(Group(S)) /\ Len(out) = size + 1
        /\ \A k \in 1..size : out[k] = acc.groups[k]
        /\ out[size + 1] = new
    <3>1. \A s \in Seq(Group(S)), e \in Group(S) :
            /\ Append(s, e) \in Seq(Group(S)) /\ Len(Append(s, e)) = Len(s) + 1
            /\ \A i \in 1..Len(s) : Append(s, e)[i] = s[i]
            /\ Append(s, e)[Len(s) + 1] = e
      BY AppendProperties
    <3> QED BY <1>4, <2>1, <2>2, <3>1
  <2>5. DOMAIN out = 1..(size + 1)
    BY <2>4, SequenceIs
  <2> HIDE DEF size
  <2>6. ASSUME NEW c \in Char, c \notin acc.left PROVE Having(out, c) = Having(acc.groups, c)
    <3>1. \A k : k \in 1..(size + 1) <=> k \in 1..size \/ k = size + 1
      BY <2>3
    <3> QED BY <2>2, <2>3, <2>4, <2>5, <2>6, <3>1 DEF Having
  <2>7. ASSUME NEW c \in Char, c \in acc.left PROVE Having(out, c) = {size + 1}
    <3>1. \A k : k \in 1..(size + 1) <=> k \in 1..size \/ k = size + 1
      BY <2>3
    <3>2. Having(acc.groups, c) = {}
      BY <1>5, <2>7
    <3>3. \A k \in 1..size : c \notin acc.groups[k].chars
      BY <2>3, <3>2 DEF Having
    <3> QED BY <2>2, <2>4, <2>5, <2>7, <3>1, <3>3 DEF Having
  <2>8. Unique(out)
    <3> SUFFICES ASSUME NEW c \in Char, NEW k \in Having(out, c), NEW l \in Having(out, c) PROVE k = l
      BY DEF Unique
    <3>1. CASE c \in acc.left
      BY <2>7, <3>1
    <3>2. CASE c \notin acc.left
      BY <1>4, <2>6, <3>2 DEF Unique
    <3> QED BY <3>1, <3>2
  <2>9. ASSUME NEW c \in Char, NEW k \in Having(out, c) PROVE Range(out[k].nodes) = of(c, ns \cup {n})
    <3>1. CASE c \in acc.left
      <4>1. out[k] = new
        BY <2>4, <2>7, <2>9, <3>1
      <4>2. c \in all /\ of(c, ns) = {}
        BY <1>5, <1>6, <3>1
      <4> QED BY <1>7, <2>2, <4>1, <4>2
    <3>2. CASE c \notin acc.left
      <4>1. k \in Having(acc.groups, c)
        BY <2>6, <2>9, <3>2
      <4>2. out[k] = acc.groups[k]
        BY <2>3, <2>4, <4>1 DEF Having
      <4> QED BY <1>8, <4>1, <4>2
    <3> QED BY <3>1, <3>2
  <2>10. ASSUME NEW c \in Char, Having(out, c) = {} PROVE of(c, ns \cup {n}) = {}
    <3>1. c \notin acc.left
      BY <2>7, <2>10
    <3>2. Having(groups, c) = {} /\ c \notin all
      BY <1>5, <2>6, <2>10, <3>1
    <3> QED BY <1>6, <1>7, <3>2
  <2> QED BY <2>4, <2>8, <2>9, <2>10 DEF Grouped, out, of
<1> QED BY <1>9, <1>10

Grouping(p, s, f) ==
  f = [i \in 0..Len(s) |-> IF i = 0 THEN <<>> ELSE Joined(p, f[i - 1], s[i])]

\* The bytes that a node takes are known.
Takes(p) ==
  /\ DOMAIN p.nodes \subseteq Nat
  /\ \A n \in DOMAIN p.nodes : p.nodes[n].type \in Taking => Accepts(p, n) \subseteq Char

LEMMA NoGroups == ASSUME NEW p PROVE Grouped(p, <<>>, {})
<1>1. <<>> \in Seq(Group(DOMAIN p.nodes))
  BY EmptySeq
<1>2. \A c \in Char : Having(<<>>, c) = {}
  BY DEF Having
<1> QED BY <1>1, <1>2 DEF Grouped, Unique

LEMMA GroupingExists ==
  ASSUME NEW p, Takes(p), NEW s \in Seq({n \in DOMAIN p.nodes : p.nodes[n].type \in Taking})
  PROVE  \E f : Grouping(p, s, f)
<1> DEFINE N == Len(s)
           T == {n \in DOMAIN p.nodes : p.nodes[n].type \in Taking}
           D == {g \in Seq(Group(DOMAIN p.nodes)) : \E ns \in SUBSET T : Grouped(p, g, ns)}
           step == [q \in (1..N) \X D |-> Joined(p, q[2], s[q[1]])]
<1>1. N \in Nat /\ \A i \in 1..N : s[i] \in T
  BY SequenceIs
<1>2. <<>> \in D
  <2>1. <<>> \in Seq(Group(DOMAIN p.nodes))
    BY EmptySeq
  <2>2. Grouped(p, <<>>, {}) /\ {} \in SUBSET T
    BY NoGroups
  <2> QED BY <2>1, <2>2
<1>3. ASSUME NEW i \in 1..N, NEW r \in D PROVE Joined(p, r, s[i]) \in D
  <2>1. PICK ns \in SUBSET T : Grouped(p, r, ns)
    OBVIOUS
  <2>2. s[i] \in T /\ s[i] \in DOMAIN p.nodes /\ Accepts(p, s[i]) \subseteq Char
    BY <1>1 DEF Takes
  <2> HIDE DEF N, T
  <2>3. Grouped(p, Joined(p, r, s[i]), ns \cup {s[i]})
    BY <2>1, <2>2, JoinedIs DEF Takes
  <2>4. Joined(p, r, s[i]) \in Seq(Group(DOMAIN p.nodes))
    BY <2>3 DEF Grouped
  <2> QED BY <2>2, <2>3, <2>4
<1> HIDE DEF N, D
<1>4. step \in Moves(N, D) /\ \A i \in 1..N, r \in D : step[<<i, r>>] = Joined(p, r, s[i])
  <2>1. \A q \in (1..N) \X D : Joined(p, q[2], s[q[1]]) \in D
    BY <1>3
  <2> QED BY <2>1 DEF Moves
<1> HIDE DEF step
<1>5. PICK f : Goes(f, N, D, <<>>, step)
  BY <1>1, <1>2, <1>4, Recursion
<1>6. f \in [0..N -> D] /\ f[0] = <<>> /\ \A i \in 1..N : f[i] = step[<<i, f[i - 1]>>]
  BY <1>5 DEF Goes
<1>7. \A i \in 1..N : f[i] = Joined(p, f[i - 1], s[i])
  <2>1. \A i \in 1..N : f[i - 1] \in D
    BY <1>1, <1>6
  <2> QED BY <1>4, <1>6, <2>1
<1>8. f = [i \in 0..N |-> IF i = 0 THEN <<>> ELSE Joined(p, f[i - 1], s[i])]
  <2>1. \A i \in 0..N : f[i] = IF i = 0 THEN <<>> ELSE Joined(p, f[i - 1], s[i])
    BY <1>1, <1>6, <1>7
  <2>2. f = [i \in 0..N |-> f[i]]
    BY <1>6
  <2> QED BY <2>1, <2>2
<1> QED BY <1>8 DEF Grouping, N

LEMMA TakersIs ==
  ASSUME NEW p, NEW state, state.nodes \in Seq(DOMAIN p.nodes)
  PROVE  Takers(p, state) \in Seq({n \in DOMAIN p.nodes : p.nodes[n].type \in Taking})
<1> DEFINE T == {n \in DOMAIN p.nodes : p.nodes[n].type \in Taking}
           k == {n \in Range(state.nodes) :
                   /\ p.nodes[n].type \in Taking
                   /\ "next_newline" \in p.nodes[n].constraint => Accepts(p, n) # {}}
           s == Takers(p, state)
<1>1. s = Kept(state.nodes, k)
  BY DEF Takers
<1> HIDE DEF k, s
<1>2. s \in Seq(DOMAIN p.nodes) /\ Range(s) = Range(state.nodes) \cap k
  BY <1>1, KeptIs
<1>3. /\ Len(s) \in Nat /\ DOMAIN s = 1..Len(s) /\ s \in [1..Len(s) -> DOMAIN p.nodes]
      /\ Range(s) = {s[i] : i \in 1..Len(s)}
  BY <1>2, SequenceIs
<1>4. \A i \in 1..Len(s) : s[i] \in T
  BY <1>2, <1>3 DEF k
<1> HIDE DEF T
<1>5. s \in [1..Len(s) -> T]
  BY <1>3, <1>4
<1>6. s \in Seq(T)
  BY <1>3, <1>5
<1> QED BY <1>6 DEF s, T

LEMMA GroupsIs ==
  ASSUME NEW p, Takes(p), NEW state, state.nodes \in Seq(DOMAIN p.nodes)
  PROVE  Grouped(p, Groups(p, state), Range(Takers(p, state)))
<1> DEFINE T == {n \in DOMAIN p.nodes : p.nodes[n].type \in Taking}
           s == Takers(p, state)
           N == Len(s)
           f == CHOOSE g : Grouping(p, s, g)
           first(i) == {s[j] : j \in 1..i}
           F == {i \in 0..N : Grouped(p, f[i], first(i))}
<1>1. s \in Seq(T)
  BY TakersIs
<1>2. Groups(p, state) = f[N]
  BY DEF Groups, Grouping
<1> HIDE DEF s
<1>3. N \in Nat /\ Range(s) = first(N) /\ \A i \in 1..N : s[i] \in T
  BY <1>1, SequenceIs
<1>4. Grouping(p, s, f)
  BY <1>1, GroupingExists
<1> HIDE DEF f, N
<1>5. f[0] = <<>> /\ \A i \in 1..N : f[i] = Joined(p, f[i - 1], s[i])
  <2>1. f = [i \in 0..N |-> IF i = 0 THEN <<>> ELSE Joined(p, f[i - 1], s[i])]
    BY <1>4 DEF Grouping, N
  <2> QED BY <1>3, <2>1
<1>6. 0 \in F
  <2>1. first(0) = {} /\ 0 \in 0..N
    BY <1>3
  <2> QED BY <1>5, <2>1, NoGroups
<1>7. ASSUME NEW d \in 0..(N - 1), d \in F PROVE d + 1 \in F
  <2> DEFINE x == s[d + 1]
  <2>1. d + 1 \in 1..N /\ d + 1 \in 0..N /\ (d + 1) - 1 = d
    BY <1>3
  <2>2. f[d + 1] = Joined(p, f[d], x)
    BY <1>5, <2>1
  <2>3. first(d + 1) = first(d) \cup {x}
    <3>1. \A j : j \in 1..(d + 1) <=> j \in 1..d \/ j = d + 1
      BY <1>3
    <3> QED BY <3>1
  <2>4. x \in DOMAIN p.nodes /\ Accepts(p, x) \subseteq Char
    BY <1>3, <2>1 DEF Takes
  <2>5. Grouped(p, f[d], first(d))
    BY <1>7
  <2> HIDE DEF x, first
  <2>6. Grouped(p, Joined(p, f[d], x), first(d) \cup {x})
    BY <2>4, <2>5, JoinedIs DEF Takes
  <2> QED BY <2>1, <2>2, <2>3, <2>6
<1>8. N \in F
  <2> HIDE DEF F
  <2>1. \A d \in 0..N : d \in F
    BY <1>3, <1>6, <1>7, Induction
  <2> QED BY <1>3, <2>1
<1> QED BY <1>2, <1>3, <1>8 DEF s

-------------------------------------------------------------------------------
LEMMA NodesIs ==
  ASSUME NEW nodes, NEW s, IsState(nodes, s)
  PROVE  s.nodes \in Seq(DOMAIN nodes)
<1>1. CASE s = NoState
  BY <1>1, EmptySeq DEF NoState
<1>2. CASE Made(nodes, s)
  <2>1. PICK context \in 0..15 : s = NewState(nodes, s.entrance, context)
    BY <1>2 DEF Made
  <2> DEFINE set == s.entrance
             k == {n \in Range(set) : ~NotSatisfyPrev(ConstraintOf(nodes[n]), context)}
  <2>2. set \in Seq(DOMAIN nodes)
    BY <1>2 DEF Made
  <2>3. NewState(nodes, set, context).nodes = Kept(set, k)
    BY DEF NewState
  <2> HIDE DEF set, k
  <2>4. Kept(set, k) \in Seq(DOMAIN nodes)
    BY <2>2, KeptIs
  <2> QED BY <2>1, <2>3, <2>4 DEF set
<1> QED BY <1>1, <1>2 DEF IsState

\* Of a new state: those of its nodes that may stand in the context.
LEMMA NewStateIs ==
  ASSUME NEW nodes, NEW set \in Seq(DOMAIN nodes), NEW context \in 0..15
  PROVE  LET s == NewState(nodes, set, context)
         IN  /\ IsState(nodes, s) /\ s.entrance = set
             /\ Range(s.nodes) = Standing(nodes, Range(set), context)
             /\ ~s.constrained => \A n \in Range(set) : ConstraintOf(nodes[n]) = {}
<1> DEFINE s == NewState(nodes, set, context)
           k == {n \in Range(set) : ~NotSatisfyPrev(ConstraintOf(nodes[n]), context)}
<1>1. s.entrance = set /\ s.nodes = Kept(set, k)
  BY DEF NewState
<1>2. Made(nodes, s)
  BY <1>1 DEF Made
<1>3. Range(Kept(set, k)) = Range(set) \cap k
  <2> HIDE DEF k
  <2> QED BY KeptIs
<1>4. Range(set) \cap k = Standing(nodes, Range(set), context)
  BY DEF Standing
<1>5. s.constrained = \E i \in DOMAIN set : ConstraintOf(nodes[set[i]]) # {}
  BY DEF NewState
<1>6. \A n \in Range(set) : \E i \in DOMAIN set : n = set[i]
  BY DEF Range
<1> HIDE DEF s, k
<1>7. ~s.constrained => \A n \in Range(set) : ConstraintOf(nodes[n]) = {}
  BY <1>5, <1>6
<1> QED BY <1>1, <1>2, <1>3, <1>4, <1>7 DEF IsState, s

\* An initial state has the nodes of the set they all begin with, and of these the
\* ones that may stand in its context, also where one state is made for all.
StandsAt(p, k, context) ==
  /\ IsState(p.nodes, p.inits[k])
  /\ Range(p.inits[k].entrance) = Range(p.inits[1].entrance)
  /\ Range(p.inits[k].nodes) = Standing(p.nodes, Range(p.inits[1].entrance), context)
LEMMA BeginsIs ==
  ASSUME NEW p, Begins(p)
  PROVE  DOMAIN p.inits = 1..4 /\ \A k \in 1..4 : StandsAt(p, k, InitContexts[k])
<1> DEFINE set == p.inits[1].entrance
           c   == p.inits[1].constrained
           at(k) == IF c THEN InitContexts[k] ELSE 0
<1>1. set \in Seq(DOMAIN p.nodes) /\ DOMAIN p.inits = 1..4
  BY DEF Begins
<1>2. \A k \in 1..4 : p.inits[k] = IF set = <<>> THEN NoState ELSE NewState(p.nodes, set, at(k))
  BY DEF Begins
<1>3. \A k \in 1..4 : InitContexts[k] \in 0..15
  BY DEF InitContexts, CONTEXT_WORD, CONTEXT_NEWLINE, CONTEXT_BEGBUF
<1> SUFFICES ASSUME NEW k \in 1..4 PROVE StandsAt(p, k, InitContexts[k])
  BY <1>1
<1> DEFINE s == p.inits[k]
<1>4. at(k) \in 0..15
  BY <1>3
<1> HIDE DEF set, c
<1>5. CASE set = <<>>
  <2>1. s = NoState
    BY <1>2, <1>5
  <2> HIDE DEF s
  <2>2. IsState(p.nodes, s) /\ Range(s.entrance) = {} /\ Range(s.nodes) = {} /\ Range(set) = {}
    BY <1>5, <2>1 DEF IsState, NoState, Range
  <2>3. Standing(p.nodes, Range(set), InitContexts[k]) = {}
    BY <2>2 DEF Standing
  <2> QED BY <2>2, <2>3 DEF StandsAt, s, set
<1>6. CASE set # <<>>
  <2>1. s = NewState(p.nodes, set, at(k))
    BY <1>2, <1>6
  <2>2. /\ IsState(p.nodes, s) /\ s.entrance = set
        /\ Range(s.nodes) = Standing(p.nodes, Range(set), at(k))
    <3> HIDE DEF s, at
    <3> QED BY <1>1, <1>4, <2>1, NewStateIs
  <2>3. CASE c
    BY <2>2, <2>3 DEF StandsAt, s, set
  <2>4. CASE ~c
    <3>1. p.inits[1] = NewState(p.nodes, set, 0)
      BY <1>2, <1>6, <2>4
    <3>2. ~NewState(p.nodes, set, 0).constrained
      BY <2>4, <3>1 DEF c
    <3>3. \A n \in Range(set) : ConstraintOf(p.nodes[n]) = {}
      <4>1. 0 \in 0..15
        OBVIOUS
      <4> QED BY <1>1, <3>2, <4>1, NewStateIs
    <3>4. \A m : Standing(p.nodes, Range(set), m) = Range(set)
      BY <3>3 DEF Standing, NotSatisfyPrev
    <3> QED BY <2>2, <3>4 DEF StandsAt, s, set
  <2> QED BY <2>3, <2>4
<1> QED BY <1>5, <1>6

\* What a compiled program has to be for its states to be made.
LEMMA CompiledIs ==
  ASSUME NEW p, Compiled(p)
  PROVE  /\ Takes(p) /\ Leading(p)
         /\ DOMAIN p.inits = 1..4 /\ \A k \in 1..4 : IsState(p.nodes, p.inits[k])
<1>1. DOMAIN p.nodes \subseteq Nat
  BY DEF Compiled
<1>2. ASSUME NEW n \in DOMAIN p.nodes, p.nodes[n].type \in Taking PROVE Accepts(p, n) \subseteq Char
  <2>1. p.nodes[n].set \subseteq Char
    BY <1>2 DEF Compiled
  <2>2. Accepts(p, n) \subseteq p.nodes[n].set
    BY DEF Accepts
  <2> QED BY <2>1, <2>2
<1>3. Leading(p)
  BY DEF Compiled, Leading
<1>4. DOMAIN p.inits = 1..4 /\ \A k \in 1..4 : IsState(p.nodes, p.inits[k])
  BY BeginsIs DEF Compiled, StandsAt
<1> QED BY <1>1, <1>2, <1>3, <1>4 DEF Takes

\* A destination has the nodes that its group leads to, and of these the ones that
\* may stand in the context, also where one state is made for all contexts.
LEMMA DestinationIs ==
  ASSUME NEW p, Compiled(p), NEW group, group.nodes \in Seq(DOMAIN p.nodes),
         NEW context \in {0, CONTEXT_WORD, CONTEXT_NEWLINE},
         \A s \in table : IsState(p.nodes, s)
  PROVE  LET t == Destinations(p, group)[context]
         IN  /\ IsState(p.nodes, t)
             /\ Range(t.entrance) = Behinds(p, Range(group.nodes))
             /\ Range(t.nodes) = Standing(p.nodes, Range(t.entrance), context)
<1> DEFINE set == Follows(p, group)
           state(k) == Acquire(p.nodes, table, set, k)
           t == Destinations(p, group)[context]
<1>1. t = IF state(0).constrained THEN state(context) ELSE state(0)
  BY DEF Destinations
<1>2. set \in Seq(DOMAIN p.nodes) /\ Range(set) = Behinds(p, Range(group.nodes))
  BY CompiledIs, FollowsIs
<1>3. context \in 0..15 /\ 0 \in 0..15
  BY DEF CONTEXT_WORD, CONTEXT_NEWLINE
<1>4. DOMAIN p.nodes \subseteq Nat
  BY DEF Compiled
<1> HIDE DEF set
<1>5. \A k \in 0..15 : state(k) = IF set = <<>> THEN NoState ELSE NewState(p.nodes, set, k)
  BY <1>2, <1>4, AcquireIs
<1> HIDE DEF state, t
<1>6. CASE set = <<>>
  <2>1. t = NoState
    BY <1>1, <1>3, <1>5, <1>6
  <2>2. IsState(p.nodes, t) /\ Range(t.entrance) = {} /\ Range(t.nodes) = {}
    BY <2>1 DEF IsState, NoState, Range
  <2>3. Range(set) = {}
    BY <1>6 DEF Range
  <2> QED BY <1>2, <2>2, <2>3 DEF Standing, t
<1>7. CASE set # <<>>
  <2>1. state(0) = NewState(p.nodes, set, 0) /\ state(context) = NewState(p.nodes, set, context)
    BY <1>3, <1>5, <1>7
  <2>2. CASE state(0).constrained
    <3>1. t = NewState(p.nodes, set, context)
      BY <1>1, <2>1, <2>2
    <3>2. /\ IsState(p.nodes, t) /\ t.entrance = set
          /\ Range(t.nodes) = Standing(p.nodes, Range(set), context)
      BY <1>2, <1>3, <3>1, NewStateIs
    <3> QED BY <1>2, <3>2 DEF t
  <2>3. CASE ~state(0).constrained
    <3>1. t = NewState(p.nodes, set, 0)
      BY <1>1, <2>1, <2>3
    <3>2. /\ IsState(p.nodes, t) /\ t.entrance = set
          /\ Range(t.nodes) = Standing(p.nodes, Range(set), 0)
          /\ \A n \in Range(set) : ConstraintOf(p.nodes[n]) = {}
      <4>1. ~t.constrained
        BY <2>1, <2>3, <3>1
      <4>2. /\ IsState(p.nodes, t) /\ t.entrance = set
            /\ Range(t.nodes) = Standing(p.nodes, Range(set), 0)
            /\ ~t.constrained => \A n \in Range(set) : ConstraintOf(p.nodes[n]) = {}
        BY <1>2, <1>3, <3>1, NewStateIs
      <4> QED BY <4>1, <4>2
    <3>3. \A k : Standing(p.nodes, Range(set), k) = Range(set)
      BY <3>2 DEF Standing, NotSatisfyPrev
    <3> QED BY <1>2, <3>2, <3>3 DEF t
  <2> QED BY <2>2, <2>3
<1> QED BY <1>6, <1>7

\* A transition table has for each byte the state it should.
Right(p, s, c, t) ==
  /\ Range(t.entrance) = Behinds(p, {n \in Range(Takers(p, s)) : c \in Accepts(p, n)})
  /\ Range(t.nodes) = Standing(p.nodes, Range(t.entrance), Behind(c))
TransitionTable(p, s) ==
  LET groups == Groups(p, s)
  IN  BuildTrtable(groups, [j \in DOMAIN groups |-> Destinations(p, groups[j])])

LEMMA GroupNodes ==
  ASSUME NEW p, Compiled(p), NEW s, IsState(p.nodes, s), NEW j \in DOMAIN Groups(p, s)
  PROVE  Groups(p, s)[j].nodes \in Seq(DOMAIN p.nodes)
<1>1. Takes(p) /\ s.nodes \in Seq(DOMAIN p.nodes)
  BY CompiledIs, NodesIs
<1>2. Groups(p, s) \in Seq(Group(DOMAIN p.nodes))
  BY <1>1, GroupsIs DEF Grouped
<1>3. Groups(p, s)[j] \in Group(DOMAIN p.nodes)
  BY <1>2, SequenceIs
<1> QED BY <1>3 DEF Group

LEMMA TransitionTableIs ==
  ASSUME NEW p, Compiled(p), NEW s, IsState(p.nodes, s), \A q \in table : IsState(p.nodes, q),
         NEW c \in Char
  PROVE  LET t == TransitionTable(p, s)[c] IN IsState(p.nodes, t) /\ Right(p, s, c, t)
<1> DEFINE groups == Groups(p, s)
           dests == [j \in DOMAIN groups |-> Destinations(p, groups[j])]
           takes == {j \in DOMAIN groups : c \in groups[j].chars}
           j     == CHOOSE j \in takes : TRUE
           t     == TransitionTable(p, s)[c]
           takers == {n \in Range(Takers(p, s)) : c \in Accepts(p, n)}
<1>1. Takes(p) /\ s.nodes \in Seq(DOMAIN p.nodes)
  BY CompiledIs, NodesIs
<1>2. Grouped(p, groups, Range(Takers(p, s)))
  BY <1>1, GroupsIs
<1>3. \A k \in DOMAIN groups : groups[k].nodes \in Seq(DOMAIN p.nodes)
  BY GroupNodes
<1>4. t = IF takes = {} THEN NoState ELSE dests[j][Behind(c)]
  BY DEF TransitionTable, BuildTrtable
<1>5. takes = Having(groups, c)
  BY DEF Having
<1>6. Behind(c) \in {0, CONTEXT_WORD, CONTEXT_NEWLINE}
  BY DEF Behind
<1>7. CASE takes = {}
  <2>1. takers = {}
    BY <1>2, <1>5, <1>7 DEF Grouped
  <2>2. Behinds(p, takers) = {}
    BY <2>1 DEF Behinds
  <2>3. t = NoState
    BY <1>4, <1>7
  <2> HIDE DEF t, takers
  <2>4. IsState(p.nodes, t) /\ Range(t.entrance) = {} /\ Range(t.nodes) = {}
    BY <2>3 DEF IsState, NoState, Range
  <2> QED BY <2>2, <2>4 DEF Right, Standing, t, takers
<1>8. CASE takes # {}
  <2>1. j \in takes
    BY <1>8
  <2>2. j \in DOMAIN groups /\ j \in Having(groups, c)
    BY <1>5, <2>1
  <2> HIDE DEF groups, j
  <2>3. dests[j] = Destinations(p, groups[j]) /\ groups[j].nodes \in Seq(DOMAIN p.nodes)
    BY <1>3, <2>2
  <2>4. Range(groups[j].nodes) = takers
    BY <1>2, <2>2 DEF Grouped
  <2> HIDE DEF dests, takes, t, takers
  <2>5. t = Destinations(p, groups[j])[Behind(c)]
    BY <1>4, <1>8, <2>3
  <2>6. /\ IsState(p.nodes, t)
        /\ Range(t.entrance) = Behinds(p, takers)
        /\ Range(t.nodes) = Standing(p.nodes, Range(t.entrance), Behind(c))
    <3> DEFINE g == groups[j]
               k == Behind(c)
    <3>1. g.nodes \in Seq(DOMAIN p.nodes) /\ Range(g.nodes) = takers /\ t = Destinations(p, g)[k]
      BY <2>3, <2>4, <2>5
    <3>2. k \in {0, CONTEXT_WORD, CONTEXT_NEWLINE}
      BY <1>6
    <3> HIDE DEF g, k
    <3>3. /\ IsState(p.nodes, t)
          /\ Range(t.entrance) = Behinds(p, Range(g.nodes))
          /\ Range(t.nodes) = Standing(p.nodes, Range(t.entrance), k)
      BY <3>1, <3>2, DestinationIs
    <3> QED BY <3>1, <3>3 DEF k
  <2> QED BY <2>6 DEF Right, t, takers
<1> QED BY <1>7, <1>8

\* What is kept of the searches: the states in the table are states of the program
\* that is compiled, and so are those that the transition tables lead to.
TableInv ==
  /\ pc = "free" => table = {} /\ trtable = <<>>
  /\ pc # "free" => Compiled(prog)
  /\ pc = "match" => IsState(prog.nodes, cur_state)
  /\ \A s \in table : IsState(prog.nodes, s)
  /\ \A s \in DOMAIN trtable, c \in Char : IsState(prog.nodes, trtable[s][c])
  /\ SubsetConstruction

LEMMA AllRight ==
  SubsetConstruction <=> \A s \in DOMAIN trtable, c \in Char : Right(prog, s, c, trtable[s][c])
BY DEF SubsetConstruction, Right, Behinds, Standing

LEMMA TableInit == Init => TableInv
<1> SUFFICES ASSUME Init PROVE TableInv
  OBVIOUS
<1>1. pc = "free" /\ table = {} /\ trtable = <<>>
  BY DEF Init
<1>2. DOMAIN trtable = {}
  BY <1>1
<1> QED BY <1>1, <1>2 DEF TableInv, SubsetConstruction

\* The byte that a step reads is one.
LEMMA ByteIs ==
  ASSUME NEW in, Good(in), Full(in), in.cur_idx < in.len, in.icase => in.cur_idx < in.bufs_len
  PROVE  ByteAt(in, in.cur_idx) \in Char
<1>1. in \in Strings /\ in.cur_idx \in Nat /\ in.len \in Nat /\ in.bufs_len \in Nat /\ in.valid_len \in Nat
  BY Numbers DEF Good
<1>2. CASE ~in.icase
  BY <1>1, <1>2, RawByte DEF ByteAt
<1>3. CASE in.icase
  <2> DEFINE k == in.cur_idx + 1
  <2>1. k \in 1..in.valid_len /\ k - 1 = in.cur_idx
    BY <1>1, <1>3 DEF Full
  <2>2. ByteAt(in, in.cur_idx) = in.mbs[k]
    BY <1>3 DEF ByteAt
  <2> HIDE DEF k
  <2>3. in.mbs[k] = ToUpper[RawAt(in, k - 1)]
    BY <1>3, <2>1 DEF Good, Built
  <2> QED BY <1>1, <2>1, <2>2, <2>3, RawByte
<1> QED BY <1>2, <1>3

\* A step leads into a state of the program, and a table that it makes is right.
LEMMA StepTable ==
  ASSUME SearchInv, TableInv, Step
  PROVE  TableInv'
<1> DEFINE in == Ahead(input)
           tr == IF cur_state \in DOMAIN trtable THEN trtable[cur_state] ELSE TransitionTable(prog, cur_state)
           c  == ByteAt(in, in.cur_idx)
           to == [in EXCEPT !.cur_idx = @ + 1]
<1>1. pc = "match" /\ prog' = prog /\ Compiled(prog) /\ IsState(prog.nodes, cur_state)
  BY DEF Step, TableInv
<1>2. Arrive(tr[c], to)
  BY DEF Step, Make, Build, Transit, TransitionTable
<1>3. trtable' = [s \in DOMAIN trtable \cup {cur_state} |-> IF s = cur_state THEN tr ELSE trtable[s]]
  BY DEF Step, Make, Build, Transit, TransitionTable
<1>4. c \in Char
  <2>1. /\ Good(input) /\ Full(input) /\ input.cur_idx < input.len
        /\ input.icase => input.cur_idx < input.bufs_len
    BY <1>1 DEF SearchInv
  <2>2. /\ Good(in) /\ Full(in) /\ in.len = input.len /\ in.cur_idx = input.cur_idx
        /\ in.icase => in.cur_idx + 1 < in.bufs_len
    BY <2>1, LooksAhead
  <2> HIDE DEF in
  <2>3. in.cur_idx < in.len /\ (in.icase => in.cur_idx < in.bufs_len)
    BY <2>1, <2>2, Numbers
  <2> QED BY <2>2, <2>3, ByteIs
<1> HIDE DEF in, c, to
<1>5. \A b \in Char : IsState(prog.nodes, tr[b]) /\ Right(prog, cur_state, b, tr[b])
  <2>1. CASE cur_state \in DOMAIN trtable
    BY <2>1, AllRight DEF TableInv
  <2>2. CASE cur_state \notin DOMAIN trtable
    <3>1. tr = TransitionTable(prog, cur_state)
      BY <2>2
    <3> HIDE DEF tr
    <3>2. \A s \in table : IsState(prog.nodes, s)
      BY DEF TableInv
    <3> QED BY <1>1, <3>1, <3>2, TransitionTableIs
  <2> QED BY <2>1, <2>2
<1> HIDE DEF tr
<1>6. \A s \in table' : IsState(prog.nodes, s)
  <2>1. \A s \in table : IsState(prog.nodes, s)
    BY DEF TableInv
  <2>2. CASE table' = table
    BY <2>1, <2>2
  <2>3. CASE cur_state \notin DOMAIN trtable
    <3> DEFINE groups == Groups(prog, cur_state)
               dests  == [j \in DOMAIN groups |-> Destinations(prog, groups[j])]
    <3>1. table' = table \cup UNION {Range(dests[j]) : j \in DOMAIN groups}
      BY <2>3 DEF Step, Make, Build
    <3>2. ASSUME NEW j \in DOMAIN groups, NEW s \in Range(dests[j]) PROVE IsState(prog.nodes, s)
      <4>1. groups[j].nodes \in Seq(DOMAIN prog.nodes)
        BY <1>1, GroupNodes
      <4> HIDE DEF groups
      <4>2. dests[j] = Destinations(prog, groups[j])
        OBVIOUS
      <4>3. PICK k \in {0, CONTEXT_WORD, CONTEXT_NEWLINE} : s = Destinations(prog, groups[j])[k]
        <5>1. DOMAIN Destinations(prog, groups[j]) = {0, CONTEXT_WORD, CONTEXT_NEWLINE}
          BY DEF Destinations
        <5> QED BY <3>2, <4>2, <5>1 DEF Range
      <4> QED BY <1>1, <2>1, <4>1, <4>3, DestinationIs
    <3> HIDE DEF groups, dests
    <3> QED BY <2>1, <3>1, <3>2
  <2> QED BY <2>2, <2>3 DEF Step
<1>7. DOMAIN trtable' = DOMAIN trtable \cup {cur_state}
  BY <1>3
<1>8. ASSUME NEW s \in DOMAIN trtable', NEW b \in Char
      PROVE  IsState(prog.nodes, trtable'[s][b]) /\ Right(prog, s, b, trtable'[s][b])
  <2>1. CASE s = cur_state
    BY <1>3, <1>5, <1>7, <2>1
  <2>2. CASE s # cur_state
    <3>1. trtable'[s] = trtable[s] /\ s \in DOMAIN trtable
      BY <1>3, <1>7, <2>2
    <3> QED BY <3>1, AllRight DEF TableInv
  <2> QED BY <2>1, <2>2
<1>9. SubsetConstruction'
  <2>1. \A s \in DOMAIN trtable', b \in Char : Right(prog', s, b, trtable'[s][b])
    BY <1>1, <1>8
  <2> QED BY <2>1 DEF SubsetConstruction, Right, Behinds, Standing
<1>10. IsState(prog.nodes, cur_state') /\ pc' # "free"
  <2>1. cur_state' \in {NoState, tr[c]}
    BY <1>2 DEF Arrive
  <2>2. pc' # "free"
    BY <1>2 DEF Arrive, Found, Missed
  <2> QED BY <1>4, <1>5, <2>1, <2>2 DEF IsState
<1> QED BY <1>1, <1>6, <1>8, <1>9, <1>10 DEF TableInv

LEMMA TableNext == SearchInv /\ TableInv /\ [Next]_vars => TableInv'
<1> SUFFICES ASSUME SearchInv, TableInv, [Next]_vars PROVE TableInv'
  OBVIOUS
<1>1. ASSUME NEW p \in Pattern, Regcomp(p) PROVE TableInv'
  <2>1. pc = "free" /\ trtable' = <<>> /\ table = {}
    BY <1>1 DEF Regcomp, TableInv
  <2>2. DOMAIN trtable' = {}
    BY <2>1
  <2>3. SubsetConstruction'
    BY <2>2 DEF SubsetConstruction
  <2>4. CASE Program[p].err = "REG_NOERROR"
    <3>1. pc' = "ready" /\ prog' = Program[p] /\ table' = Range(prog'.inits)
      BY <1>1, <2>4 DEF Regcomp
    <3>2. Compiled(prog')
      BY <2>4, <3>1, ProgramAssumption
    <3>3. DOMAIN prog'.inits = 1..4 /\ \A k \in 1..4 : IsState(prog'.nodes, prog'.inits[k])
      BY <3>2, CompiledIs
    <3>4. \A s \in table' : IsState(prog'.nodes, s)
      BY <3>1, <3>3 DEF Range
    <3> QED BY <2>2, <2>3, <3>1, <3>2, <3>4 DEF TableInv
  <2>5. CASE Program[p].err # "REG_NOERROR"
    <3>1. pc' = "free" /\ table' = {}
      BY <1>1, <2>1, <2>5 DEF Regcomp
    <3> QED BY <2>1, <2>2, <2>3, <3>1 DEF TableInv
  <2> QED BY <2>4, <2>5
<1>2. ASSUME UNCHANGED <<prog, table, trtable>>, pc # "free", pc' # "free"
      PROVE  /\ SubsetConstruction' /\ Compiled(prog')
             /\ \A s \in table' : IsState(prog'.nodes, s)
             /\ \A s \in DOMAIN trtable', c \in Char : IsState(prog'.nodes, trtable'[s][c])
  <2>1. prog' = prog /\ table' = table /\ trtable' = trtable
    BY <1>2
  <2>2. SubsetConstruction'
    BY <2>1 DEF TableInv, SubsetConstruction
  <2> QED BY <1>2, <2>1, <2>2 DEF TableInv
<1>3. ASSUME UNCHANGED <<prog, table, trtable>>, pc # "free", pc' \in {"ready", "search"} PROVE TableInv'
  <2>1. pc' # "free" /\ pc' # "match"
    BY <1>3
  <2> QED BY <1>3, <1>2, <2>1 DEF TableInv
<1>4. ASSUME Try PROVE TableInv'
  <2> DEFINE in == Reconstruct(input, Place)
             s  == InitialState(prog, in)
  <2>1. pc = "search" /\ Arrive(s, in) /\ UNCHANGED <<prog, table, trtable>>
    BY <1>4 DEF Try
  <2>2. Compiled(prog)
    BY <2>1 DEF TableInv
  <2>3. IsState(prog.nodes, s)
    <3>1. \E k \in 1..4 : s = prog.inits[k]
      BY DEF InitialState
    <3> HIDE DEF s
    <3> QED BY <2>2, <3>1, CompiledIs
  <2> HIDE DEF s, in
  <2>4. cur_state' \in {NoState, s} /\ pc' # "free"
    BY <2>1 DEF Arrive, Found, Missed
  <2>5. IsState(prog'.nodes, cur_state')
    <3>1. prog' = prog
      BY <2>1
    <3> QED BY <2>3, <2>4, <3>1 DEF IsState
  <2>6. pc # "free"
    BY <2>1
  <2> QED BY <1>2, <2>1, <2>4, <2>5, <2>6 DEF TableInv
<1>5. ASSUME Regfree PROVE TableInv'
  <2>1. pc' = "free" /\ table' = {} /\ trtable' = <<>>
    BY <1>5 DEF Regfree
  <2>2. DOMAIN trtable' = {}
    BY <2>1
  <2> QED BY <2>1, <2>2 DEF TableInv, SubsetConstruction
<1>6. ASSUME UNCHANGED vars PROVE TableInv'
  BY <1>6 DEF TableInv, SubsetConstruction, vars
<1>7. ASSUME NEW t \in Text, Regexec(t) PROVE TableInv'
  BY <1>3, <1>7 DEF Regexec
<1>8. ASSUME GiveUp PROVE TableInv'
  BY <1>3, <1>8 DEF GiveUp
<1> QED BY <1>1, <1>4, <1>5, <1>6, <1>7, <1>8, StepTable DEF Next, Search

\* A transition table leads from a state with a byte to all the nodes, and only those,
\* that a node of the state leads to with it, whatever groups the nodes were put
\* into, whatever states the table held already, and however many searches came
\* before: group_nodes_into_DFAstates, build_trtable, re_acquire_state_context.
THEOREM TransitionsAreSubsets == Spec => []SubsetConstruction
<1>1. TableInv => SubsetConstruction
  BY DEF TableInv
<1>2. Spec => []TableInv
  BY TableInit, TableNext, SearchInvariant, PTL DEF Spec
<1> QED BY <1>1, <1>2, PTL
-------------------------------------------------------------------------------
\* What a program reaches in a text, step by step.
Reaching(p, text, i, f) ==
  f = [k \in i..Len(text) |->
         IF k = i THEN Standing(p.nodes, Range(p.inits[1].entrance), PrevContext(text, i))
                  ELSE After(p, f[k - 1], Shown(p, text[k]))]

\* From nodes of the program a byte leads to nodes of the program.
LEMMA AfterIs ==
  ASSUME NEW p, Leading(p), NEW ns \in SUBSET DOMAIN p.nodes, NEW c
  PROVE  After(p, ns, c) \in SUBSET DOMAIN p.nodes
<1> DEFINE leads == {n \in ns : p.nodes[n].type \in Taking /\ c \in Accepts(p, n) /\ p.nexts[n] # 0}
           to == UNION {Range(p.eclosures[p.nexts[n]]) : n \in leads}
<1>1. \A n \in leads : Range(p.eclosures[p.nexts[n]]) \subseteq DOMAIN p.nodes
  <2> SUFFICES ASSUME NEW n \in leads PROVE Range(p.eclosures[p.nexts[n]]) \subseteq DOMAIN p.nodes
    OBVIOUS
  <2>1. p.eclosures[p.nexts[n]] \in Seq(DOMAIN p.nodes)
    BY DEF Leading
  <2> QED BY <2>1, SequenceIs
<1>2. to \subseteq DOMAIN p.nodes
  <2> HIDE DEF leads
  <2> QED BY <1>1
<1>3. After(p, ns, c) = Standing(p.nodes, to, Behind(c))
  BY DEF After
<1> HIDE DEF to
<1> QED BY <1>2, <1>3 DEF Standing

LEMMA BeginningIs ==
  ASSUME NEW p, Compiled(p), NEW context
  PROVE  Standing(p.nodes, Range(p.inits[1].entrance), context) \in SUBSET DOMAIN p.nodes
<1>1. p.inits[1].entrance \in Seq(DOMAIN p.nodes)
  BY DEF Compiled, Begins
<1>2. Range(p.inits[1].entrance) \subseteq DOMAIN p.nodes
  BY <1>1, SequenceIs
<1> QED BY <1>2 DEF Standing

LEMMA ReachingExists ==
  ASSUME NEW p, Compiled(p), NEW text, Len(text) \in Nat, NEW i \in 0..Len(text)
  PROVE  \E f : Reaching(p, text, i, f)
<1> DEFINE N == Len(text) - i
           D == SUBSET DOMAIN p.nodes
           init == Standing(p.nodes, Range(p.inits[1].entrance), PrevContext(text, i))
           step == [q \in (1..N) \X D |-> After(p, q[2], Shown(p, text[i + q[1]]))]
<1>1. N \in Nat /\ init \in D
  <2>1. \A context : Standing(p.nodes, Range(p.inits[1].entrance), context) \in D
    BY BeginningIs
  <2> QED BY <2>1
<1>2. step \in Moves(N, D) /\ \A j \in 1..N, r \in D : step[<<j, r>>] = After(p, r, Shown(p, text[i + j]))
  <2>1. \A q \in (1..N) \X D : After(p, q[2], Shown(p, text[i + q[1]])) \in D
    <3> SUFFICES ASSUME NEW q \in (1..N) \X D PROVE After(p, q[2], Shown(p, text[i + q[1]])) \in D
      OBVIOUS
    <3>1. Leading(p) /\ q[2] \in D
      BY CompiledIs
    <3> QED BY <3>1, AfterIs
  <2> QED BY <2>1 DEF Moves
<1> DEFINE length == Len(text)
<1>3. length \in Nat /\ i \in 0..length /\ N = length - i
  OBVIOUS
<1> HIDE DEF N, D, init, step, length
<1>4. PICK g : Goes(g, N, D, init, step)
  BY <1>1, <1>2, Recursion
<1>5. g \in [0..N -> D] /\ g[0] = init /\ \A j \in 1..N : g[j] = step[<<j, g[j - 1]>>]
  BY <1>4 DEF Goes
<1>6. \A j \in 1..N : g[j] = After(p, g[j - 1], Shown(p, text[i + j]))
  <2>1. \A j \in 1..N : g[j - 1] \in D
    BY <1>1, <1>5
  <2> QED BY <1>2, <1>5, <2>1
<1> DEFINE f == [k \in i..length |-> g[k - i]]
<1>7. ASSUME NEW k \in i..length
      PROVE  f[k] = IF k = i THEN init ELSE After(p, f[k - 1], Shown(p, text[k]))
  <2>1. CASE k = i
    <3>1. k - i = 0
      BY <1>3, <2>1
    <3> QED BY <1>5, <2>1, <3>1
  <2>2. CASE k # i
    <3>1. k - i \in 1..N /\ i + (k - i) = k /\ k - 1 \in i..length /\ (k - 1) - i = (k - i) - 1
      BY <1>3, <2>2
    <3>2. f[k] = g[k - i] /\ f[k - 1] = g[(k - i) - 1]
      BY <3>1
    <3> DEFINE j == k - i
    <3>3. j \in 1..N /\ i + j = k /\ f[k] = g[j] /\ f[k - 1] = g[j - 1]
      BY <3>1, <3>2
    <3> HIDE DEF f, j
    <3> QED BY <1>6, <2>2, <3>3
  <2> QED BY <2>1, <2>2
<1>8. f = [k \in i..length |-> IF k = i THEN init ELSE After(p, f[k - 1], Shown(p, text[k]))]
  <2>1. f = [k \in i..length |-> f[k]]
    OBVIOUS
  <2> HIDE DEF f
  <2> QED BY <1>7, <2>1
<1> HIDE DEF f
<1> QED BY <1>8 DEF Reaching, length, init

LEMMA ReachedIs ==
  ASSUME NEW p, Compiled(p), NEW text, Len(text) \in Nat, NEW i \in 0..Len(text)
  PROVE  /\ Reached(p, text, i)[i] = Standing(p.nodes, Range(p.inits[1].entrance), PrevContext(text, i))
         /\ \A k \in (i + 1)..Len(text) :
              Reached(p, text, i)[k] = After(p, Reached(p, text, i)[k - 1], Shown(p, text[k]))
<1> DEFINE f == CHOOSE g : Reaching(p, text, i, g)
           e(k) == IF k = i THEN Standing(p.nodes, Range(p.inits[1].entrance), PrevContext(text, i))
                   ELSE After(p, f[k - 1], Shown(p, text[k]))
           length == Len(text)
<1>1. Reached(p, text, i) = f
  BY DEF Reached, Reaching
<1>2. Reaching(p, text, i, f)
  BY ReachingExists
<1> HIDE DEF f
<1>3. f = [k \in i..length |-> e(k)]
  BY <1>2 DEF Reaching
<1>4. length \in Nat /\ i \in 0..length
  OBVIOUS
<1> HIDE DEF length
<1>5. \A k \in i..length : f[k] = e(k)
  <2> HIDE DEF e
  <2> QED BY <1>3
<1>6. i \in i..length /\ \A k \in (i + 1)..length : k \in i..length /\ k # i
  BY <1>4
<1> QED BY <1>1, <1>5, <1>6 DEF length

\* Where nothing is reached, nothing is reached further on.
LEMMA Dead ==
  ASSUME NEW p, Compiled(p), NEW text, Len(text) \in Nat, NEW i \in 0..Len(text),
         NEW k \in i..Len(text), Reached(p, text, i)[k] = {}
  PROVE  \A m \in k..Len(text) : Reached(p, text, i)[m] = {}
<1> DEFINE N == Len(text) - k
           length == Len(text)
           R == Reached(p, text, i)
           F == {j \in 0..N : R[k + j] = {}}
<1>1. length \in Nat /\ i \in 0..length /\ k \in i..length /\ N = length - k /\ N \in Nat
  OBVIOUS
<1>2. \A m \in (i + 1)..length : R[m] = After(p, R[m - 1], Shown(p, text[m]))
  BY ReachedIs
<1>3. \A c : After(p, {}, c) = {}
  BY DEF After, Standing
<1>4. 0 \in F
  <2>1. k + 0 = k
    BY <1>1
  <2> QED BY <1>1, <2>1
<1> HIDE DEF N, length, R
<1>5. \A j \in 0..(N - 1) : j \in F => j + 1 \in F
  <2> SUFFICES ASSUME NEW j \in 0..(N - 1), R[k + j] = {} PROVE j + 1 \in F
    OBVIOUS
  <2> DEFINE m == k + (j + 1)
  <2>1. m \in (i + 1)..length /\ m - 1 = k + j /\ j + 1 \in 0..N
    BY <1>1
  <2>2. R[m] = After(p, {}, Shown(p, text[m]))
    BY <1>2, <2>1
  <2> QED BY <1>3, <2>1, <2>2
<1>6. \A j \in 0..N : j \in F
  <2> HIDE DEF F
  <2> QED BY <1>1, <1>4, <1>5, Induction
<1>7. ASSUME NEW m \in k..length PROVE R[m] = {}
  <2>1. m - k \in 0..N /\ k + (m - k) = m
    BY <1>1
  <2>2. R[k + (m - k)] = {}
    BY <1>6, <2>1
  <2> QED BY <2>1, <2>2
<1> QED BY <1>7 DEF length, R

-------------------------------------------------------------------------------
\* The byte that is read is that of the text, and the context behind the place
\* is the one that the text gives.
LEMMA ShownIs ==
  ASSUME NEW in, Good(in), Full(in), in.cur_idx < in.len, in.icase => in.cur_idx < in.bufs_len
  PROVE  LET k == in.raw_mbs_idx + in.cur_idx + 1
         IN  /\ k \in 1..Len(in.raw)
             /\ ByteAt(in, in.cur_idx) = IF in.icase THEN ToUpper[in.raw[k]] ELSE in.raw[k]
<1> DEFINE k == in.raw_mbs_idx + in.cur_idx + 1
<1>1. /\ in.raw_mbs_idx \in Nat /\ in.len \in Nat /\ in.cur_idx \in Nat /\ in.bufs_len \in Nat
      /\ in.valid_len \in Nat /\ Len(in.raw) \in Nat /\ in.raw_mbs_idx + in.len = Len(in.raw)
  BY Numbers
<1>2. k \in 1..Len(in.raw)
  BY <1>1
<1>3. RawAt(in, in.cur_idx) = in.raw[k]
  BY <1>2 DEF RawAt
<1>4. CASE ~in.icase
  BY <1>2, <1>3, <1>4 DEF ByteAt
<1>5. CASE in.icase
  <2> DEFINE j == in.cur_idx + 1
  <2>1. j \in 1..in.valid_len /\ j - 1 = in.cur_idx
    BY <1>1, <1>5 DEF Full
  <2>2. ByteAt(in, in.cur_idx) = in.mbs[j]
    BY <1>5 DEF ByteAt
  <2> HIDE DEF j, k
  <2>3. in.mbs[j] = ToUpper[RawAt(in, j - 1)]
    BY <1>5, <2>1 DEF Good, Built
  <2> QED BY <1>2, <1>3, <1>5, <2>1, <2>2, <2>3 DEF k
<1> QED BY <1>4, <1>5

LEMMA ContextIs ==
  ASSUME NEW in, Good(in), Full(in), in.icase => in.cur_idx < in.bufs_len
  PROVE  ContextAt(in, in.cur_idx) = NextContext(in.raw, in.raw_mbs_idx + in.cur_idx)
<1> DEFINE k == in.raw_mbs_idx + in.cur_idx
<1>1. /\ in.raw_mbs_idx \in Nat /\ in.len \in Nat /\ in.cur_idx \in Nat /\ in.cur_idx <= in.len
      /\ Len(in.raw) \in Nat /\ in.raw_mbs_idx + in.len = Len(in.raw) /\ in.raw \in Seq(Char \ {NUL})
  BY Numbers
<1>2. CASE in.cur_idx = in.len
  <2>1. k = Len(in.raw) /\ ~(in.cur_idx < 0)
    BY <1>1, <1>2
  <2> HIDE DEF k
  <2> QED BY <1>2, <2>1 DEF ContextAt, NextContext, k
<1>3. CASE in.cur_idx # in.len
  <2>1. in.cur_idx < in.len /\ k # Len(in.raw) /\ ~(in.cur_idx < 0)
    BY <1>1, <1>3
  <2>2. k + 1 \in 1..Len(in.raw)
    BY <1>1, <2>1
  <2>3. ByteAt(in, in.cur_idx) = IF in.icase THEN ToUpper[in.raw[k + 1]] ELSE in.raw[k + 1]
    BY <2>1, ShownIs
  <2>4. in.raw[k + 1] \in Char
    <3> HIDE DEF k
    <3> QED BY <1>1, <2>2, ElementOfSeq
  <2> HIDE DEF k
  <2>5. ByteAt(in, in.cur_idx) \in Word <=> in.raw[k + 1] \in Word
    BY <2>3, <2>4, CaseAssumption
  <2>6. ContextAt(in, in.cur_idx) = IF ByteAt(in, in.cur_idx) \in Word THEN CONTEXT_WORD ELSE 0
    BY <1>3, <2>1 DEF ContextAt
  <2>7. NextContext(in.raw, k) = IF in.raw[k + 1] \in Word THEN CONTEXT_WORD ELSE 0
    BY <2>1 DEF NextContext
  <2> QED BY <2>5, <2>6, <2>7 DEF k
<1> QED BY <1>2, <1>3

\* A search begins with the initial state for what is before the place.
WhichState(context) ==
  IF Is(context, CONTEXT_WORD) THEN 2 ELSE IF context = 0 THEN 1 ELSE IF Is(context, CONTEXT_BEGBUF) THEN 4 ELSE 3
LEMMA WhichIs ==
  ASSUME NEW text, NEW i
  PROVE  LET context == PrevContext(text, i)
         IN  WhichState(context) \in 1..4 /\ InitContexts[WhichState(context)] = context
<1> DEFINE context == PrevContext(text, i)
<1>1. context \in {0, 1, 6}
  BY DEF PrevContext, CONTEXT_WORD, CONTEXT_NEWLINE, CONTEXT_BEGBUF
<1> HIDE DEF context
<1>2. /\ WhichState(0) = 1 /\ WhichState(1) = 2 /\ WhichState(6) = 4
  BY DEF WhichState, Is, CONTEXT_WORD, CONTEXT_BEGBUF
<1>3. InitContexts[1] = 0 /\ InitContexts[2] = 1 /\ InitContexts[4] = 6
  BY DEF InitContexts, CONTEXT_WORD, CONTEXT_NEWLINE, CONTEXT_BEGBUF
<1> QED BY <1>1, <1>2, <1>3 DEF context

LEMMA StartIs ==
  ASSUME NEW p, Compiled(p), NEW in, Good(in), Tip(in), in.cur_idx = 0
  PROVE  /\ IsState(p.nodes, InitialState(p, in))
         /\ Range(InitialState(p, in).nodes) = Reached(p, in.raw, in.raw_mbs_idx)[in.raw_mbs_idx]
<1> DEFINE i == in.raw_mbs_idx
           context == PrevContext(in.raw, i)
           k == WhichState(context)
<1>1. i \in Nat /\ Len(in.raw) \in Nat /\ i \in 0..Len(in.raw)
  BY Numbers
<1>2. ContextAt(in, in.cur_idx - 1) = context
  BY DEF ContextAt, Tip, PrevContext
<1>3. InitialState(p, in) = p.inits[k]
  <2> HIDE DEF context
  <2> QED BY <1>2 DEF InitialState, WhichState
<1>4. k \in 1..4 /\ InitContexts[k] = context
  BY WhichIs
<1> HIDE DEF context, k
<1>5. StandsAt(p, k, context)
  BY <1>4, BeginsIs DEF Compiled
<1>6. Reached(p, in.raw, i)[i] = Standing(p.nodes, Range(p.inits[1].entrance), context)
  BY <1>1, ReachedIs DEF context
<1> QED BY <1>3, <1>5, <1>6 DEF StandsAt

\* A transition leads from what was reached to what is reached next.
LEMMA TransitionIs ==
  ASSUME NEW p, NEW s, s.nodes \in Seq(DOMAIN p.nodes), NEW c, NEW t, Right(p, s, c, t)
  PROVE  Range(t.nodes) = After(p, Range(s.nodes), c)
<1> DEFINE ns == Range(s.nodes)
           k == {n \in ns : /\ p.nodes[n].type \in Taking
                            /\ "next_newline" \in p.nodes[n].constraint => Accepts(p, n) # {}}
           takers == {n \in Range(Takers(p, s)) : c \in Accepts(p, n)}
           leads == {n \in ns : p.nodes[n].type \in Taking /\ c \in Accepts(p, n) /\ p.nexts[n] # 0}
           to == UNION {Range(p.eclosures[p.nexts[n]]) : n \in leads}
<1>1. Takers(p, s) = Kept(s.nodes, k)
  BY DEF Takers
<1>2. Range(Takers(p, s)) = ns \cap k
  <2> HIDE DEF k
  <2> QED BY <1>1, KeptIs
<1>3. {m \in takers : p.nexts[m] # 0} = leads
  <2>1. \A n \in ns : (n \in k /\ c \in Accepts(p, n)) <=> (p.nodes[n].type \in Taking /\ c \in Accepts(p, n))
    OBVIOUS
  <2> HIDE DEF k
  <2> QED BY <1>2, <2>1
<1>4. Behinds(p, takers) = to
  <2> HIDE DEF takers, leads
  <2> QED BY <1>3 DEF Behinds
<1>5. After(p, ns, c) = Standing(p.nodes, to, Behind(c))
  BY DEF After
<1>6. Range(t.entrance) = Behinds(p, takers) /\ Range(t.nodes) = Standing(p.nodes, Range(t.entrance), Behind(c))
  BY DEF Right
<1> HIDE DEF to, takers
<1> QED BY <1>4, <1>5, <1>6

-------------------------------------------------------------------------------
\* The end is reached where a state halts, constrained or not.
LEMMA HaltsIs ==
  ASSUME NEW p, NEW s, IsState(p.nodes, s), NEW in, Good(in), Full(in), in.icase => in.cur_idx < in.bufs_len,
         Range(s.nodes) = Reached(p, in.raw, in.raw_mbs_idx)[in.raw_mbs_idx + in.cur_idx]
  PROVE  Halts(p, s, in) <=> EndReached(p, in.raw, in.raw_mbs_idx, in.raw_mbs_idx + in.cur_idx)
<1> DEFINE behind == ContextAt(in, in.cur_idx)
           ended(n) == p.nodes[n].type = "end" /\ ~NotSatisfyNext(p.nodes[n].constraint, behind)
<1>1. EndReached(p, in.raw, in.raw_mbs_idx, in.raw_mbs_idx + in.cur_idx) <=> \E n \in Range(s.nodes) : ended(n)
  BY ContextIs DEF EndReached
<1>2. Halts(p, s, in) <=> s.halt /\ (s.constrained => \E i \in DOMAIN s.nodes : ended(s.nodes[i]))
  BY DEF Halts
<1>3. (\E i \in DOMAIN s.nodes : ended(s.nodes[i])) <=> \E n \in Range(s.nodes) : ended(n)
  <2> HIDE DEF ended
  <2> QED BY DEF Range
<1>4. CASE s = NoState
  <2>1. ~s.halt /\ Range(s.nodes) = {}
    BY <1>4 DEF NoState, Range
  <2> QED BY <1>1, <1>2, <2>1
<1>5. CASE Made(p.nodes, s)
  <2> DEFINE set == s.entrance
             k(context) == {n \in Range(set) : ~NotSatisfyPrev(ConstraintOf(p.nodes[n]), context)}
  <2>1. PICK context \in 0..15 : s = NewState(p.nodes, set, context)
    BY <1>5 DEF Made
  <2>2. set \in Seq(DOMAIN p.nodes)
    BY <1>5 DEF Made
  <2> HIDE DEF set
  <2>3. /\ Range(s.nodes) = Standing(p.nodes, Range(set), context)
        /\ ~s.constrained => \A n \in Range(set) : ConstraintOf(p.nodes[n]) = {}
    BY <2>1, <2>2, NewStateIs
  <2>4. s.halt <=> \E n \in Range(set) : p.nodes[n].type = "end"
    <3>1. s.halt = \E i \in DOMAIN set : p.nodes[set[i]].type = "end"
      BY <2>1 DEF NewState
    <3> QED BY <3>1 DEF Range
  <2>5. \A n \in Range(s.nodes) : n \in Range(set)
    BY <2>3 DEF Standing
  <2>6. CASE s.constrained
    BY <1>1, <1>2, <1>3, <2>4, <2>5, <2>6
  <2>7. CASE ~s.constrained
    <3>1. Range(s.nodes) = Range(set)
      BY <2>3, <2>7 DEF Standing, NotSatisfyPrev
    <3>2. ASSUME NEW n \in Range(set), p.nodes[n].type = "end" PROVE ended(n)
      <4>1. p.nodes[n].constraint = {}
        BY <2>3, <2>7, <3>2 DEF ConstraintOf
      <4> QED BY <3>2, <4>1 DEF NotSatisfyNext
    <3>3. s.halt <=> \E n \in Range(s.nodes) : ended(n)
      BY <2>4, <3>1, <3>2
    <3> QED BY <1>1, <1>2, <2>7, <3>3
  <2> QED BY <2>6, <2>7
<1> QED BY <1>4, <1>5 DEF IsState

\* A place has no match.
NoMatchAt(p, text, i) == \A k \in i..Len(text) : ~EndReached(p, text, i, k)

\* What the map skips is no place where a match begins.
LEMMA SkippedIs ==
  ASSUME NEW p, Compiled(p), NEW text \in Seq(Char \ {NUL}), NEW i \in 0..Len(text),
         IF i < Len(text) THEN text[i + 1] \notin p.fastmap ELSE NUL \notin p.fastmap
  PROVE  NoMatchAt(p, text, i)
<1> DEFINE R == Reached(p, text, i)
           j == WhichState(PrevContext(text, i))
<1>1. Len(text) \in Nat
  OBVIOUS
<1>2. j \in 1..4 /\ InitContexts[j] = PrevContext(text, i)
  BY WhichIs
<1>3. /\ R[i] = Standing(p.nodes, Range(p.inits[1].entrance), PrevContext(text, i))
      /\ \A k \in (i + 1)..Len(text) : R[k] = After(p, R[k - 1], Shown(p, text[k]))
  BY <1>1, ReachedIs
<1> HIDE DEF j
<1>4. R[i] = Range(p.inits[j].nodes)
  BY <1>2, <1>3, BeginsIs DEF Compiled, StandsAt
<1>5. /\ \A n \in R[i] : p.nodes[n].type = "end" => Char \subseteq p.fastmap
      /\ \A n \in R[i] : p.nodes[n].type \in Taking =>
           \A c \in Char : Shown(p, c) \in p.nodes[n].set => c \in p.fastmap
  BY <1>2, <1>4 DEF Compiled, Mapped
<1>6. ~(Char \subseteq p.fastmap)
  <2>1. NUL \in Char
    BY CharAssumption
  <2>2. CASE i < Len(text)
    <3>1. text[i + 1] \in Char
      BY <1>1, <2>2, ElementOfSeq
    <3> QED BY <2>2, <3>1
  <2> QED BY <2>1, <2>2
<1> HIDE DEF R
<1>7. ~EndReached(p, text, i, i)
  BY <1>5, <1>6 DEF EndReached, R
<1>8. ASSUME NEW k \in (i + 1)..Len(text) PROVE R[k] = {}
  <2> DEFINE c == text[i + 1]
             leads == {n \in R[i] : /\ p.nodes[n].type \in Taking
                                    /\ Shown(p, c) \in Accepts(p, n)
                                    /\ p.nexts[n] # 0}
             to == UNION {Range(p.eclosures[p.nexts[n]]) : n \in leads}
  <2>1. i < Len(text) /\ i + 1 \in (i + 1)..Len(text) /\ (i + 1) - 1 = i /\ i + 1 \in i..Len(text)
    BY <1>1
  <2>2. c \in Char /\ c \notin p.fastmap
    <3>1. c \in Char \ {NUL}
      BY <1>1, <2>1, ElementOfSeq
    <3> QED BY <2>1, <3>1
  <2>3. leads = {}
    <3> SUFFICES ASSUME NEW n \in leads PROVE FALSE
      OBVIOUS
    <3>1. Accepts(p, n) \subseteq p.nodes[n].set
      BY DEF Accepts
    <3>2. Shown(p, c) \in p.nodes[n].set
      BY <3>1
    <3> QED BY <1>5, <2>2, <3>2
  <2>4. to = {}
    <3> HIDE DEF leads
    <3> QED BY <2>3
  <2>5. R[i + 1] = After(p, R[i], Shown(p, c))
    BY <1>3, <2>1 DEF R
  <2>6. After(p, R[i], Shown(p, c)) = Standing(p.nodes, to, Behind(Shown(p, c)))
    BY DEF After
  <2> HIDE DEF to
  <2>7. R[i + 1] = {}
    BY <2>4, <2>5, <2>6 DEF Standing
  <2> QED BY <1>1, <2>1, <2>7, Dead DEF R
<1>9. ASSUME NEW k \in (i + 1)..Len(text) PROVE ~EndReached(p, text, i, k)
  BY <1>8 DEF EndReached, R
<1>10. \A k \in i..Len(text) : k = i \/ k \in (i + 1)..Len(text)
  BY <1>1
<1> QED BY <1>7, <1>9, <1>10 DEF NoMatchAt

-------------------------------------------------------------------------------
\* A search at a place has followed the program from there, and come to no end.
Followed(p, in, s) ==
  /\ in.icase = p.icase
  /\ \A i \in 0..(in.raw_mbs_idx - 1) : NoMatchAt(p, in.raw, i)
  /\ Range(s.nodes) = Reached(p, in.raw, in.raw_mbs_idx)[in.raw_mbs_idx + in.cur_idx]
SoFar(p, in) ==
  \A k \in in.raw_mbs_idx..((in.raw_mbs_idx + in.cur_idx) - 1) : ~EndReached(p, in.raw, in.raw_mbs_idx, k)

\* The invariant: nothing matches at the places that the search has left behind.
DecideInv ==
  /\ pc = "free" => answer = "none"
  /\ ProgramDecides
  /\ pc = "search" =>
       /\ input.icase = prog.icase
       /\ \A i \in 0..(match_first - 1) : NoMatchAt(prog, input.raw, i)
  /\ pc = "match" =>
       /\ Followed(prog, input, cur_state) /\ SoFar(prog, input)
       /\ ~EndReached(prog, input.raw, input.raw_mbs_idx, input.raw_mbs_idx + input.cur_idx)

\* Wherever check_matching arrives, it knows what the program says.
LEMMA ArrivesRight ==
  ASSUME NEW state, NEW in, Good(in), Full(in), in.icase => in.cur_idx < in.bufs_len,
         Arrive(state, in), prog' = prog, Compiled(prog), IsState(prog.nodes, state),
         Followed(prog, in, state), SoFar(prog, in)
  PROVE  DecideInv'
<1> DEFINE i == in.raw_mbs_idx
           at == in.raw_mbs_idx + in.cur_idx
           n  == Len(in.raw)
<1>1. /\ i \in Nat /\ in.len \in Nat /\ in.cur_idx \in Nat /\ i + in.len = n /\ n \in Nat
      /\ in.cur_idx <= in.len
  BY Numbers
<1>2. at \in i..n /\ i \in 0..n
  BY <1>1
<1>3. Halts(prog, state, in) <=> EndReached(prog, in.raw, i, at)
  BY HaltsIs DEF Followed
<1>4. input' = in /\ pc' # "free"
  BY DEF Arrive, Found, Missed
<1>5. CASE Halts(prog, state, in)
  <2>1. pc' = "ready" /\ answer' = "match"
    BY <1>5 DEF Arrive, Found
  <2>2. EndReached(prog, in.raw, i, at)
    BY <1>3, <1>5
  <2>3. \E j \in 0..n : \E k \in j..n : EndReached(prog, in.raw, j, k)
    <3> HIDE DEF i, at, n
    <3> QED BY <1>2, <2>2
  <2>4. ProgramDecides'
    BY <1>4, <2>1, <2>3 DEF ProgramDecides
  <2> QED BY <2>1, <2>4 DEF DecideInv
<1>6. CASE ~Halts(prog, state, in) /\ (state = NoState \/ in.cur_idx = in.len)
  <2>1. Missed(in)
    BY <1>6 DEF Arrive
  <2>2. ASSUME NEW k \in i..n PROVE ~EndReached(prog, in.raw, i, k)
    <3>1. CASE k \in i..(at - 1)
      <4>1. \A m \in i..(at - 1) : ~EndReached(prog, in.raw, i, m)
        BY DEF SoFar
      <4> QED BY <3>1, <4>1
    <3>2. CASE k = at
      BY <1>3, <1>6, <3>2
    <3>3. CASE k \in (at + 1)..n
      <4>1. in.cur_idx # in.len
        BY <1>1, <3>3
      <4>2. Range(state.nodes) = {}
        BY <1>6, <4>1 DEF NoState, Range
      <4>3. Reached(prog, in.raw, i)[at] = {}
        BY <4>2 DEF Followed
      <4>4. k \in at..n
        BY <1>1, <3>3
      <4>5. Reached(prog, in.raw, i)[k] = {}
        <5> DEFINE text == in.raw
        <5>1. Len(text) \in Nat /\ i \in 0..Len(text) /\ at \in i..Len(text) /\ Reached(prog, text, i)[at] = {}
          BY <1>1, <1>2, <4>3
        <5>2. k \in at..Len(text)
          BY <4>4
        <5> HIDE DEF i, at, n, text
        <5>3. Reached(prog, text, i)[k] = {}
          BY <5>1, <5>2, Dead
        <5> QED BY <5>3 DEF text
      <4> QED BY <4>5 DEF EndReached
    <3>4. k \in i..(at - 1) \/ k = at \/ k \in (at + 1)..n
      BY <1>1
    <3> QED BY <3>1, <3>2, <3>3, <3>4
  <2>3. NoMatchAt(prog, in.raw, i)
    BY <2>2 DEF NoMatchAt
  <2>4. \A j \in 0..i : NoMatchAt(prog, in.raw, j)
    <3>1. \A j \in 0..(i - 1) : NoMatchAt(prog, in.raw, j)
      BY DEF Followed
    <3>2. \A j \in 0..i : j \in 0..(i - 1) \/ j = i
      BY <1>1
    <3> QED BY <2>3, <3>1, <3>2
  <2>5. match_first' = i + 1
    BY <2>1 DEF Missed
  <2> HIDE DEF i, at, n
  <2>6. CASE i + 1 > n
    <3>1. pc' = "ready" /\ answer' = "nomatch"
      BY <2>1, <2>5, <2>6 DEF Missed, n, i
    <3>2. \A j \in 0..n : j \in 0..i
      BY <1>1, <2>6
    <3>3. ~\E j \in 0..n : \E k \in j..n : EndReached(prog, in.raw, j, k)
      BY <2>4, <3>2 DEF NoMatchAt, n
    <3>4. ProgramDecides'
      BY <1>4, <3>1, <3>3 DEF ProgramDecides, n
    <3> QED BY <3>1, <3>4 DEF DecideInv
  <2>7. CASE ~(i + 1 > n)
    <3>1. pc' = "search"
      BY <2>1, <2>5, <2>7 DEF Missed, n, i
    <3>2. (i + 1) - 1 = i
      BY <1>1
    <3>3. \A j \in 0..(match_first' - 1) : NoMatchAt(prog, in.raw, j)
      BY <2>4, <2>5, <3>2
    <3>4. in.icase = prog.icase
      BY DEF Followed
    <3>5. ProgramDecides'
      BY <3>1 DEF ProgramDecides
    <3> QED BY <1>4, <3>1, <3>3, <3>4, <3>5 DEF DecideInv, NoMatchAt
  <2> QED BY <2>6, <2>7
<1>7. CASE ~Halts(prog, state, in) /\ ~(state = NoState \/ in.cur_idx = in.len)
  <2>1. pc' = "match" /\ cur_state' = state
    BY <1>7 DEF Arrive
  <2>2. ~EndReached(prog, in.raw, i, at)
    BY <1>3, <1>7
  <2>3. ProgramDecides'
    BY <2>1 DEF ProgramDecides
  <2>4. /\ Followed(prog', input', cur_state') /\ SoFar(prog', input')
        /\ ~EndReached(prog', input'.raw, input'.raw_mbs_idx, input'.raw_mbs_idx + input'.cur_idx)
    BY <1>4, <2>1, <2>2
  <2>5. (Followed(prog, input, cur_state) /\ SoFar(prog, input))'
    BY <2>4 DEF Followed, SoFar, NoMatchAt
  <2> QED BY <2>1, <2>3, <2>4, <2>5 DEF DecideInv
<1> QED BY <1>5, <1>6, <1>7

\* A try begins where no place before is left that matches.
LEMMA TryDecides == SearchInv /\ TableInv /\ DecideInv /\ Try => DecideInv'
<1> SUFFICES ASSUME SearchInv, TableInv, DecideInv, Try PROVE DecideInv'
  OBVIOUS
<1> DEFINE in == Reconstruct(input, Place)
           state == InitialState(prog, in)
           n == Len(input.raw)
<1>1. /\ pc = "search" /\ prog' = prog /\ Arrive(state, in) /\ Compiled(prog)
  BY DEF Try, TableInv
<1>2. /\ Good(input) /\ Tip(input) /\ match_first \in input.raw_mbs_idx..n
      /\ input.icase = prog.icase /\ \A i \in 0..(match_first - 1) : NoMatchAt(prog, input.raw, i)
  BY <1>1 DEF SearchInv, DecideInv
<1>3. input.raw_mbs_idx \in Nat /\ n \in Nat /\ input.raw \in Seq(Char \ {NUL})
  BY <1>2, Numbers
<1>4. match_first \in 0..n
  BY <1>2, <1>3
<1>5. /\ Place \in match_first..n
      /\ \A i \in match_first..(Place - 1) : i < n /\ input.raw[i + 1] \notin prog.fastmap
  BY <1>3, <1>4, Places
<1>6. Place \in input.raw_mbs_idx..n
  BY <1>2, <1>3, <1>5
<1>7. /\ Good(in) /\ Full(in) /\ Tip(in) /\ in.raw = input.raw /\ in.icase = input.icase
      /\ in.raw_mbs_idx = Place /\ in.cur_idx = 0
  BY <1>2, <1>6, Reconstructed
<1>8. in.cur_idx < in.bufs_len
  BY <1>7, Numbers
<1> HIDE DEF in
<1>9. IsState(prog.nodes, state) /\ Range(state.nodes) = Reached(prog, in.raw, Place)[Place]
  BY <1>1, <1>7, StartIs
<1> HIDE DEF state
<1>10. ASSUME NEW i \in 0..(Place - 1) PROVE NoMatchAt(prog, in.raw, i)
  <2>1. CASE i \in 0..(match_first - 1)
    BY <1>2, <1>7, <2>1
  <2>2. CASE i \in match_first..(Place - 1)
    <3>1. i < n /\ input.raw[i + 1] \notin prog.fastmap
      BY <1>5, <2>2
    <3>2. i \in 0..n
      BY <1>3, <1>4, <2>2, <3>1
    <3> QED BY <1>1, <1>3, <1>7, <3>1, <3>2, SkippedIs
  <2>3. i \in 0..(match_first - 1) \/ i \in match_first..(Place - 1)
    BY <1>4, <1>5
  <2> QED BY <2>1, <2>2, <2>3
<1>11. Followed(prog, in, state)
  <2>1. Place + 0 = Place
    BY <1>3, <1>6
  <2> QED BY <1>2, <1>7, <1>9, <1>10, <2>1 DEF Followed
<1>12. SoFar(prog, in)
  <2>1. Place \in Int
    BY <1>3, <1>6
  <2>2. Place..((Place + 0) - 1) = {}
    BY <2>1
  <2> QED BY <1>7, <2>2 DEF SoFar
<1> QED BY <1>1, <1>7, <1>8, <1>9, <1>11, <1>12, ArrivesRight

\* The transition that a step takes is the right one.
LEMMA StepLeads ==
  ASSUME SearchInv, TableInv, Step
  PROVE  LET c == ByteAt(Ahead(input), Ahead(input).cur_idx)
         IN  \E t : /\ Arrive(t, [Ahead(input) EXCEPT !.cur_idx = @ + 1])
                    /\ IsState(prog.nodes, t) /\ Right(prog, cur_state, c, t)
<1> DEFINE in == Ahead(input)
           tr == IF cur_state \in DOMAIN trtable THEN trtable[cur_state] ELSE TransitionTable(prog, cur_state)
           c  == ByteAt(in, in.cur_idx)
           to == [in EXCEPT !.cur_idx = @ + 1]
<1>1. pc = "match" /\ prog' = prog /\ Compiled(prog) /\ IsState(prog.nodes, cur_state)
  BY DEF Step, TableInv
<1>2. Arrive(tr[c], to)
  BY DEF Step, Make, Build, Transit, TransitionTable
<1>3. c \in Char
  <2>1. /\ Good(input) /\ Full(input) /\ input.cur_idx < input.len
        /\ input.icase => input.cur_idx < input.bufs_len
    BY <1>1 DEF SearchInv
  <2>2. /\ Good(in) /\ Full(in) /\ in.len = input.len /\ in.cur_idx = input.cur_idx
        /\ in.icase => in.cur_idx + 1 < in.bufs_len
    BY <2>1, LooksAhead
  <2> HIDE DEF in
  <2>3. in.cur_idx < in.len /\ (in.icase => in.cur_idx < in.bufs_len)
    BY <2>1, <2>2, Numbers
  <2> QED BY <2>2, <2>3, ByteIs
<1> HIDE DEF in, c, to
<1>4. IsState(prog.nodes, tr[c]) /\ Right(prog, cur_state, c, tr[c])
  <2>1. CASE cur_state \in DOMAIN trtable
    BY <1>3, <2>1, AllRight DEF TableInv
  <2>2. CASE cur_state \notin DOMAIN trtable
    <3>1. tr = TransitionTable(prog, cur_state)
      BY <2>2
    <3> HIDE DEF tr
    <3>2. \A s \in table : IsState(prog.nodes, s)
      BY DEF TableInv
    <3> QED BY <1>1, <1>3, <3>1, <3>2, TransitionTableIs
  <2> QED BY <2>1, <2>2
<1> HIDE DEF tr
<1> QED BY <1>2, <1>4 DEF in, c, to

LEMMA StepDecides == SearchInv /\ TableInv /\ DecideInv /\ Step => DecideInv'
<1> SUFFICES ASSUME SearchInv, TableInv, DecideInv, Step PROVE DecideInv'
  OBVIOUS
<1> DEFINE a == Ahead(input)
           in == [a EXCEPT !.cur_idx = @ + 1]
           c  == ByteAt(a, a.cur_idx)
           i  == input.raw_mbs_idx
           at == input.raw_mbs_idx + input.cur_idx
           text == input.raw
<1>1. pc = "match" /\ prog' = prog /\ Compiled(prog) /\ IsState(prog.nodes, cur_state)
  BY DEF Step, TableInv
<1>2. /\ Good(input) /\ Full(input) /\ input.cur_idx < input.len
      /\ input.icase => input.cur_idx < input.bufs_len
  BY <1>1 DEF SearchInv
<1>3. /\ Followed(prog, input, cur_state) /\ SoFar(prog, input) /\ ~EndReached(prog, text, i, at)
  BY <1>1 DEF DecideInv
<1>4. PICK t : Arrive(t, in) /\ IsState(prog.nodes, t) /\ Right(prog, cur_state, c, t)
  BY StepLeads
<1>5. /\ Good(a) /\ Full(a)
      /\ a.raw = text /\ a.icase = input.icase /\ a.raw_mbs_idx = i
      /\ a.len = input.len /\ a.cur_idx = input.cur_idx
      /\ a.icase => a.cur_idx + 1 < a.bufs_len
  BY <1>2, LooksAhead
<1> HIDE DEF a
<1>6. /\ a.raw_mbs_idx \in Nat /\ a.cur_idx \in Nat /\ a.len \in Nat /\ a.bufs_len \in Nat /\ Len(text) \in Nat
      /\ a.raw_mbs_idx + a.len = Len(text) /\ text \in Seq(Char \ {NUL}) /\ a.cur_idx < a.len
  BY <1>2, <1>5, Numbers
<1>7. /\ Good(in) /\ Full(in)
      /\ in.raw = a.raw /\ in.icase = a.icase /\ in.raw_mbs_idx = a.raw_mbs_idx
      /\ in.len = a.len /\ in.cur_idx = a.cur_idx + 1 /\ in.tip_context = a.tip_context
      /\ in.bufs_len = a.bufs_len
  BY <1>5, <1>6, OneFurther
<1> HIDE DEF in
<1>8. in.icase => in.cur_idx < in.bufs_len
  BY <1>5, <1>7
<1>9. c = Shown(prog, text[at + 1]) /\ at + 1 \in 1..Len(text)
  <2>1. a.cur_idx < a.len /\ (a.icase => a.cur_idx < a.bufs_len)
    BY <1>2, <1>5, <1>6
  <2>2. a.icase = prog.icase
    BY <1>3, <1>5 DEF Followed
  <2> QED BY <1>5, <2>1, <2>2, ShownIs DEF Shown
<1>10. Range(t.nodes) = After(prog, Range(cur_state.nodes), c)
  BY <1>1, <1>4, NodesIs, TransitionIs
<1> HIDE DEF c
<1>11. i \in Nat /\ at \in Nat /\ i <= at /\ at + 1 <= Len(text)
  BY <1>5, <1>6, <1>9
<1>12. Range(t.nodes) = Reached(prog, text, i)[at + 1]
  <2>1. Range(cur_state.nodes) = Reached(prog, text, i)[at]
    BY <1>3 DEF Followed
  <2>2. i \in 0..Len(text) /\ at + 1 \in (i + 1)..Len(text) /\ (at + 1) - 1 = at
    BY <1>6, <1>11
  <2> HIDE DEF i, at, text
  <2>3. Reached(prog, text, i)[at + 1] = After(prog, Reached(prog, text, i)[(at + 1) - 1], Shown(prog, text[at + 1]))
    BY <1>1, <1>6, <2>2, ReachedIs
  <2> QED BY <1>9, <1>10, <2>1, <2>2, <2>3
<1>13. in.raw_mbs_idx = i /\ in.raw_mbs_idx + in.cur_idx = at + 1 /\ in.raw = text /\ in.icase = prog.icase
  <2>1. i + (input.cur_idx + 1) = at + 1
    BY <1>5, <1>6
  <2> QED BY <1>3, <1>5, <1>7, <2>1 DEF Followed
<1>14. Followed(prog, in, t)
  <2>1. \A j \in 0..(i - 1) : NoMatchAt(prog, text, j)
    BY <1>3 DEF Followed
  <2> HIDE DEF i, at, text
  <2> QED BY <1>12, <1>13, <2>1 DEF Followed
<1>15. SoFar(prog, in)
  <2>1. \A k \in i..(at - 1) : ~EndReached(prog, text, i, k)
    BY <1>3 DEF SoFar
  <2>2. ~EndReached(prog, text, i, at)
    BY <1>3
  <2> HIDE DEF i, at, text
  <2>3. (at + 1) - 1 = at /\ \A k \in i..at : k \in i..(at - 1) \/ k = at
    BY <1>11
  <2>4. \A k \in i..at : ~EndReached(prog, text, i, k)
    BY <2>1, <2>2, <2>3
  <2> QED BY <1>13, <2>3, <2>4 DEF SoFar
<1> QED BY <1>1, <1>4, <1>7, <1>8, <1>14, <1>15, ArrivesRight

LEMMA DecideInit == Init => DecideInv
BY DEF Init, DecideInv, ProgramDecides

LEMMA DecideNext == SearchInv /\ TableInv /\ DecideInv /\ [Next]_vars => DecideInv'
<1> SUFFICES ASSUME SearchInv, TableInv, DecideInv, [Next]_vars PROVE DecideInv'
  OBVIOUS
<1>1. ASSUME NEW p \in Pattern, Regcomp(p) PROVE DecideInv'
  <2>1. answer' = "none" /\ pc' \in {"free", "ready"}
    BY <1>1 DEF Regcomp, DecideInv
  <2> QED BY <2>1 DEF DecideInv, ProgramDecides
<1>2. ASSUME NEW text \in Text, Regexec(text) PROVE DecideInv'
  <2>1. pc' = "search" /\ match_first' = 0 /\ prog' = prog /\ input' = Allocate(text, Len(prog.nodes) + 1, prog.icase)
    BY <1>2 DEF Regexec
  <2>2. input'.icase = prog.icase
    BY <2>1 DEF Allocate
  <2>3. 0..(match_first' - 1) = {}
    BY <2>1
  <2> QED BY <2>1, <2>2, <2>3 DEF DecideInv, ProgramDecides
<1>3. ASSUME GiveUp PROVE DecideInv'
  <2> DEFINE n == Len(input.raw)
  <2>1. /\ pc = "search" /\ pc' = "ready" /\ answer' = "nomatch" /\ prog' = prog /\ input' = input
        /\ Place = n /\ NUL \notin prog.fastmap /\ Compiled(prog)
    BY <1>3 DEF GiveUp, TableInv
  <2>2. input.raw \in Seq(Char \ {NUL}) /\ n \in Nat /\ match_first \in 0..n
    BY <2>1, Numbers DEF SearchInv
  <2>3. \A i \in match_first..(n - 1) : i < n /\ input.raw[i + 1] \notin prog.fastmap
    BY <2>1, <2>2, Places
  <2>4. \A i \in 0..(match_first - 1) : NoMatchAt(prog, input.raw, i)
    BY <2>1 DEF DecideInv
  <2>5. ASSUME NEW i \in 0..n PROVE NoMatchAt(prog, input.raw, i)
    <3>1. CASE i \in 0..(match_first - 1)
      BY <2>4, <3>1
    <3>2. CASE i \in match_first..n
      <4>1. IF i < n THEN input.raw[i + 1] \notin prog.fastmap ELSE NUL \notin prog.fastmap
        BY <2>1, <2>2, <2>3, <3>2
      <4> QED BY <2>1, <2>2, <4>1, SkippedIs
    <3>3. i \in 0..(match_first - 1) \/ i \in match_first..n
      BY <2>2
    <3> QED BY <3>1, <3>2, <3>3
  <2>6. ~\E i \in 0..n : \E k \in i..n : EndReached(prog, input.raw, i, k)
    BY <2>5 DEF NoMatchAt
  <2>7. ProgramDecides'
    BY <2>1, <2>6 DEF ProgramDecides
  <2> QED BY <2>1, <2>7 DEF DecideInv
<1>4. ASSUME Regfree PROVE DecideInv'
  <2>1. pc' = "free" /\ answer' = "none"
    BY <1>4 DEF Regfree
  <2> QED BY <2>1 DEF DecideInv, ProgramDecides
<1>5. ASSUME UNCHANGED vars PROVE DecideInv'
  BY <1>5 DEF vars, DecideInv, ProgramDecides, Followed, SoFar, NoMatchAt
<1> QED BY <1>1, <1>2, <1>3, <1>4, <1>5, TryDecides, StepDecides DEF Next, Search

\* The answer of a search is what the program says of the text, for every program
\* with the initial states and the map that the compiler makes, for every text,
\* and after any searches before: there is a match exactly if from some place of
\* the text the nodes lead to an end that may stand there.  The buffer that shows
\* the text, the contexts kept for it, the map that passes over places, the states
\* taken from the table and the transitions made of groups change nothing in it:
\* re_search_internal, check_matching, transit_state, check_halt_state_context.
THEOREM SearchDecides == Spec => []ProgramDecides
<1>1. DecideInv => ProgramDecides
  BY DEF DecideInv
<1>2. Spec => []TableInv
  BY TableInit, TableNext, SearchInvariant, PTL DEF Spec
<1>3. Spec => []DecideInv
  BY <1>2, DecideInit, DecideNext, SearchInvariant, PTL DEF Spec
<1> QED BY <1>1, <1>3, PTL
===============================================================================
