------------------------------- MODULE NodeSets -------------------------------
(***************************************************************************)
(* re_node_set of regex_internal.c: a set of nodes as an array in          *)
(* ascending order.  An insertion does not look whether the node is there. *)
(***************************************************************************)
EXTENDS Naturals, Sequences

\* Where an element belongs: before the first that is not less.
Spot(s, e) ==
  CHOOSE k \in 1..(Len(s) + 1) :
    /\ \A i \in 1..(k - 1) : s[i] < e
    /\ k \in DOMAIN s => s[k] >= e

SetInsert(s, e) ==
  LET k == Spot(s, e)
  IN  [i \in 1..(Len(s) + 1) |-> IF i < k THEN s[i] ELSE IF i = k THEN e ELSE s[i - 1]]

\* The elements of both in order; one that both have is taken once, and one
\* that an argument has twice stays there twice.
SetMerge(dest, src) ==
  LET from[at \in (1..(Len(dest) + 1)) \X (1..(Len(src) + 1))] ==
        LET d == at[1]
            s == at[2]
        IN  IF s > Len(src) THEN SubSeq(dest, d, Len(dest))
            ELSE IF d > Len(dest) THEN SubSeq(src, s, Len(src))
            ELSE IF dest[d] = src[s] THEN <<dest[d]>> \o from[<<d + 1, s + 1>>]
            ELSE IF dest[d] < src[s] THEN <<dest[d]>> \o from[<<d + 1, s>>]
            ELSE <<src[s]>> \o from[<<d, s + 1>>]
  IN  from[<<1, 1>>]

\* The nodes of a set that are among ns, in the order of the set.
Kept(s, ns) ==
  LET K[i \in 0..Len(s)] ==
        IF i = 0 THEN <<>> ELSE IF s[i] \in ns THEN Append(K[i - 1], s[i]) ELSE K[i - 1]
  IN  K[Len(s)]

\* re_node_set_init_2.
SetOfTwo(e, f) == IF e = f THEN <<e>> ELSE IF e < f THEN <<e, f>> ELSE <<f, e>>
===============================================================================
