-------------------------- MODULE ImapFlags_proofs --------------------------
(***************************************************************************)
(* Proofs about ImapFlags for every set of flags and of lists, however     *)
(* many nodes and trees there are.                                         *)
(***************************************************************************)
EXTENDS ImapFlags, Integers, FiniteSetTheorems, SequenceTheorems, WellFoundedInduction, TLAPS

-----------------------------------------------------------------------------
(* The least-number principle for sets, which stands in for induction. *)

\* A set of numbers that is not empty has a least element.
LEMMA Least ==
  ASSUME NEW T, T \subseteq Nat, T # {}
  PROVE  \E x \in T : \A y \in T : x <= y
<1> DEFINE less == OpToRel(<, Nat)
<1>1. IsWellFoundedOn(less, Nat)
  BY NatLessThanWellFounded DEF OpToRel
<1>2. less = {p \in Nat \X Nat : p[1] < p[2]}
  BY DEF OpToRel
<1> HIDE DEF less
<1>3. PICK x \in T : \A y \in T : ~(<<y, x>> \in less)
  BY <1>1, WFMin
<1>4. \A y \in T : ~(y < x)
  BY <1>2, <1>3
<1> QED BY <1>4

-----------------------------------------------------------------------------
\* Every element of Picked(s, I) is the one at p[k], and every position of I
\* is p[k] for exactly one k.
Picks(s, I, p) ==
  /\ p \in [1..Cardinality(I) -> I] /\ Cardinality(I) \in Nat
  /\ \A k \in 1..Cardinality(I) : Picked(s, I)[k] = s[p[k]]
  /\ \A k, m \in 1..Cardinality(I) : p[k] = p[m] => k = m
  /\ \A i \in I : \E k \in 1..Cardinality(I) : p[k] = i

-----------------------------------------------------------------------------
\* The number of smaller elements is a rank: it grows with the element, and
\* every number below the cardinality is the rank of an element.
LEMMA Ranks ==
  ASSUME NEW n \in Nat, NEW I \in SUBSET (1..n)
  PROVE  LET rank(i) == Cardinality({j \in I : j < i})
         IN  /\ Cardinality(I) \in Nat
             /\ \A i \in I : rank(i) \in 0..(Cardinality(I) - 1)
             /\ \A i, j \in I : rank(i) = rank(j) => i = j
             /\ \A r \in 0..(Cardinality(I) - 1) : \E i \in I : rank(i) = r
<1> DEFINE rank(i) == Cardinality({j \in I : j < i})
           R == 0..(Cardinality(I) - 1)
           f == [i \in I |-> rank(i)]
<1>1. IsFiniteSet(I) /\ Cardinality(I) \in Nat
  <2>1. IsFiniteSet(1..n)
    BY FS_Interval
  <2>2. IsFiniteSet(I)
    BY <2>1, FS_Subset
  <2> QED BY <2>2, FS_CardinalityType
<1>2. ASSUME NEW S \in SUBSET I, NEW T \in SUBSET S, T # S
      PROVE  Cardinality(T) < Cardinality(S) /\ Cardinality(T) \in Nat
  <2>1. IsFiniteSet(S) /\ IsFiniteSet(T)
    BY <1>1, FS_Subset
  <2>2. Cardinality(S) \in Nat /\ Cardinality(T) \in Nat
    BY <2>1, FS_CardinalityType
  <2>3. Cardinality(T) <= Cardinality(S) /\ Cardinality(T) # Cardinality(S)
    BY <2>1, <1>2, FS_Subset
  <2> QED BY <2>2, <2>3
<1>3. \A i \in I : rank(i) \in R
  <2> TAKE i \in I
  <2> DEFINE T == {j \in I : j < i}
  <2>1. T \in SUBSET I /\ T # I
    <3>1. i \notin T
      OBVIOUS
    <3> QED BY <3>1
  <2>2. Cardinality(T) < Cardinality(I) /\ Cardinality(T) \in Nat
    BY <2>1, <1>2
  <2> QED BY <2>2, <1>1
<1>4. ASSUME NEW i \in I, NEW j \in I, i < j PROVE rank(i) < rank(j)
  <2> DEFINE S == {k \in I : k < j}  T == {k \in I : k < i}
  <2>1. \A k \in I : k \in Int
    OBVIOUS
  <2>2. \A k \in I : k < i => k < j
    BY <2>1, <1>4
  <2>3. S \in SUBSET I /\ T \in SUBSET S
    BY <2>2
  <2>4. i \in S /\ i \notin T
    BY <2>1, <1>4
  <2> HIDE DEF S, T
  <2>5. Cardinality(T) < Cardinality(S)
    BY <2>3, <2>4, <1>2
  <2> QED BY <2>5 DEF S, T
<1>5. \A i, j \in I : rank(i) = rank(j) => i = j
  <2> SUFFICES ASSUME NEW i \in I, NEW j \in I, i # j PROVE rank(i) # rank(j)
    OBVIOUS
  <2> HIDE DEF rank
  <2>1. rank(i) \in Int /\ rank(j) \in Int
    BY <1>1, <1>3
  <2>2. i < j \/ j < i
    OBVIOUS
  <2> QED BY <2>1, <2>2, <1>4
<1>6. f \in Injection(I, R)
  <2> HIDE DEF rank, R
  <2> QED BY <1>3, <1>5 DEF Injection, IsInjective
<1>7. IsFiniteSet(R) /\ Cardinality(R) = Cardinality(I)
  BY <1>1, FS_Interval, SMTT(30)
<1>8. f \in Surjection(I, R)
  <2> HIDE DEF f, R
  <2> QED BY <1>6, <1>7, FS_Injection
<1>9. \A r \in R : \E i \in I : rank(i) = r
  <2> HIDE DEF rank, R
  <2> QED BY <1>8 DEF Surjection
<1> QED BY <1>1, <1>3, <1>5, <1>9

LEMMA PicksAll ==
  ASSUME NEW S, NEW s \in Seq(S), NEW I \in SUBSET DOMAIN s
  PROVE  /\ \E p : Picks(s, I, p)
         /\ Picked(s, I) \in Seq(S) /\ Len(Picked(s, I)) = Cardinality(I)
<1> DEFINE rank(i) == Cardinality({j \in I : j < i})
           c == Cardinality(I)
           p == [k \in 1..c |-> CHOOSE i \in I : rank(i) = k - 1]
<1>1. Len(s) \in Nat /\ DOMAIN s = 1..Len(s) /\ \A i \in I : s[i] \in S
  OBVIOUS
<1>2. /\ c \in Nat
      /\ \A i \in I : rank(i) \in 0..(c - 1)
      /\ \A i, j \in I : rank(i) = rank(j) => i = j
      /\ \A r \in 0..(c - 1) : \E i \in I : rank(i) = r
  BY <1>1, Ranks
<1>3. Picked(s, I) = [k \in 1..c |-> s[CHOOSE i \in I : rank(i) = k - 1]]
  BY DEF Picked
<1> HIDE DEF rank, c
<1>4. \A k \in 1..c : p[k] \in I /\ rank(p[k]) = k - 1
  <2> TAKE k \in 1..c
  <2>1. k - 1 \in 0..(c - 1)
    BY <1>2
  <2>2. \E i \in I : rank(i) = k - 1
    BY <2>1, <1>2
  <2> QED BY <2>2
<1>5. \A k \in 1..c : Picked(s, I)[k] = s[p[k]]
  BY <1>3
<1>6. p \in [1..c -> I]
  BY <1>4
<1> HIDE DEF p
<1>7. \A k, m \in 1..c : p[k] = p[m] => k = m
  <2> SUFFICES ASSUME NEW k \in 1..c, NEW m \in 1..c, p[k] = p[m] PROVE k = m
    OBVIOUS
  <2>1. k - 1 = m - 1
    BY <1>4
  <2> QED BY <2>1
<1>8. \A i \in I : \E k \in 1..c : p[k] = i
  <2> TAKE i \in I
  <2>1. rank(i) + 1 \in 1..c /\ (rank(i) + 1) - 1 = rank(i)
    BY <1>2
  <2>2. p[rank(i) + 1] \in I /\ rank(p[rank(i) + 1]) = rank(i)
    BY <2>1, <1>4
  <2>3. p[rank(i) + 1] = i
    BY <2>2, <1>2
  <2> QED BY <2>1, <2>3
<1>9. Picked(s, I) \in Seq(S) /\ Len(Picked(s, I)) = c
  <2>1. Picked(s, I) \in [1..c -> S]
    <3>1. \A k \in 1..c : s[CHOOSE i \in I : rank(i) = k - 1] \in S
      BY <1>1, <1>4 DEF p
    <3> QED BY <1>3, <3>1
  <2> QED BY <2>1, <1>2
<1>10. Picks(s, I, p)
  BY <1>2, <1>5, <1>6, <1>7, <1>8 DEF Picks, c
<1> QED BY <1>9, <1>10 DEF c

\* What addflag makes of the list: new nodes, and behind them the old ones.
LEMMA Prepended ==
  ASSUME NEW old \in Seq(Node), NEW new \in Seq(Flag), cmds \in 1..MaxTrees,
         NEW at \in [DOMAIN new -> Address]
  PROVE  LET m     == Len(new)
             nodes == Made(new, at) \o old
         IN  /\ nodes \in Seq(Node) /\ Len(nodes) = m + Len(old) /\ m \in Nat
             /\ \A i \in 1..m : nodes[i] =
                  [at |-> at[m - i + 1], flag |-> new[m - i + 1], tree |-> cmds]
             /\ \A i \in 1..Len(old) : nodes[m + i] = old[i]
<1> DEFINE m == Len(new)
           made == [k \in DOMAIN new |-> [at |-> at[k], flag |-> new[k], tree |-> cmds]]
           turned == Reverse(made)
<1>1. m \in Nat /\ DOMAIN new = 1..m /\ Len(old) \in Nat /\ \A k \in 1..m : new[k] \in Flag
  OBVIOUS
<1>2. made \in [1..m -> Node]
  <2>1. \A k \in 1..m : [at |-> at[k], flag |-> new[k], tree |-> cmds] \in Node
    BY <1>1 DEF Node
  <2> QED BY <1>1, <2>1
<1>3. Len(made) = m /\ \A k \in 1..m : made[k] = [at |-> at[k], flag |-> new[k], tree |-> cmds]
  <2>1. DOMAIN made = 1..m /\ \A k \in 1..m : made[k] = [at |-> at[k], flag |-> new[k], tree |-> cmds]
    BY <1>1
  <2> HIDE DEF made
  <2>2. made \in Seq(Node)
    BY <1>1, <1>2
  <2> QED BY <1>1, <2>1, <2>2
<1> HIDE DEF made, m
<1>4. turned \in [1..m -> Node] /\ \A i \in 1..m : turned[i] = made[m - i + 1]
  <2>1. \A i \in 1..m : m - i + 1 \in 1..m
    BY <1>1
  <2>2. turned = [i \in 1..m |-> made[(m - i) + 1]]
    BY <1>3 DEF Reverse
  <2> QED BY <2>1, <2>2, <1>2
<1> HIDE DEF turned
<1>5. turned \in Seq(Node) /\ Len(turned) = m
  BY <1>1, <1>4
<1>6. /\ turned \o old \in Seq(Node) /\ Len(turned \o old) = m + Len(old)
      /\ \A i \in 1..(m + Len(old)) : (turned \o old)[i] =
           IF i <= m THEN turned[i] ELSE old[i - m]
  BY <1>5, ConcatProperties
<1>7. \A i \in 1..m : (turned \o old)[i] = [at |-> at[m - i + 1], flag |-> new[m - i + 1], tree |-> cmds]
  <2> TAKE i \in 1..m
  <2>1. i \in 1..(m + Len(old)) /\ i <= m /\ m - i + 1 \in 1..m
    BY <1>1
  <2> QED BY <2>1, <1>3, <1>4, <1>6
<1>8. \A i \in 1..Len(old) : (turned \o old)[m + i] = old[i]
  <2> TAKE i \in 1..Len(old)
  <2>1. m + i \in 1..(m + Len(old)) /\ ~(m + i <= m) /\ (m + i) - m = i
    BY <1>1
  <2> QED BY <2>1, <1>6
<1> QED BY <1>1, <1>6, <1>7, <1>8 DEF turned, made, m, Made

\* The flags that addflag misses are those it is given and does not find.
LEMMA MissingIs ==
  ASSUME list \in Seq(Node), NEW l \in Lists
  PROVE  /\ Missing(l) \in Seq(Flag)
         /\ {Missing(l)[k] : k \in DOMAIN Missing(l)} = ToSet(l) \ Flags(list)
<1> DEFINE I == {i \in DOMAIN l : l[i] \notin Flags(list) /\ \A j \in 1..(i - 1) : l[j] # l[i]}
<1>1. l \in Seq(Flag) /\ DOMAIN l = 1..Len(l) /\ Len(l) \in Nat
  BY ListsAssumption
<1>2. I \in SUBSET DOMAIN l /\ Missing(l) = Picked(l, I)
  BY DEF Missing
<1>3. ASSUME NEW f \in ToSet(l), f \notin Flags(list) PROVE \E i \in I : l[i] = f
  <2> DEFINE T == {i \in 1..Len(l) : l[i] = f}
  <2>1. T \subseteq Nat /\ T # {}
    BY <1>1, <1>3 DEF ToSet
  <2>2. PICK i \in T : \A j \in T : i <= j
    <3> HIDE DEF T
    <3> QED BY <2>1, Least
  <2>3. \A j \in 1..(i - 1) : j \notin T /\ j \in 1..Len(l)
    BY <1>1, <2>2
  <2>4. i \in DOMAIN l /\ l[i] = f /\ \A j \in 1..(i - 1) : l[j] # l[i]
    BY <1>1, <2>3
  <2> QED BY <2>4, <1>3
<1>4. \A i \in I : l[i] \in ToSet(l) \ Flags(list)
  BY DEF ToSet
<1> HIDE DEF I
<1>5. /\ \E p : Picks(l, I, p)
      /\ Picked(l, I) \in Seq(Flag) /\ Len(Picked(l, I)) = Cardinality(I)
  BY <1>1, <1>2, PicksAll
<1>6. PICK p : Picks(l, I, p)
  BY <1>5
<1>7. DOMAIN Picked(l, I) = 1..Cardinality(I)
  BY <1>5
<1>8. \A k \in DOMAIN Picked(l, I) : Picked(l, I)[k] \in ToSet(l) \ Flags(list)
  BY <1>4, <1>6, <1>7 DEF Picks
<1>9. \A f \in ToSet(l) \ Flags(list) : \E k \in DOMAIN Picked(l, I) : Picked(l, I)[k] = f
  BY <1>3, <1>6, <1>7 DEF Picks
<1> QED BY <1>2, <1>5, <1>8, <1>9

\* What removeflag leaves are nodes that were there, each once, with the flags
\* that it was not given.
LEMMA RestIs ==
  ASSUME list \in Seq(Node), NEW l
  PROVE  LET rest == Picked(list, {i \in DOMAIN list : list[i].flag \notin ToSet(l)})
         IN  /\ rest \in Seq(Node)
             /\ \A k \in DOMAIN rest : \E i \in DOMAIN list : rest[k] = list[i]
             /\ Flags(rest) = Flags(list) \ ToSet(l)
             /\ (\A i, j \in DOMAIN list : list[i].at = list[j].at => i = j) =>
                  \A k, m \in DOMAIN rest : rest[k].at = rest[m].at => k = m
<1> DEFINE I == {i \in DOMAIN list : list[i].flag \notin ToSet(l)}
           rest == Picked(list, I)
<1>1. I \in SUBSET DOMAIN list
  OBVIOUS
<1>2. \A i \in DOMAIN list : i \in I <=> list[i].flag \notin ToSet(l)
  OBVIOUS
<1> HIDE DEF I
<1>3. (\E p : Picks(list, I, p)) /\ rest \in Seq(Node) /\ Len(rest) = Cardinality(I)
  BY <1>1, PicksAll
<1>4. PICK p : Picks(list, I, p)
  BY <1>3
<1>5. DOMAIN rest = 1..Cardinality(I)
  BY <1>3
<1>6. /\ \A k \in DOMAIN rest : p[k] \in I /\ rest[k] = list[p[k]]
      /\ \A k, m \in DOMAIN rest : p[k] = p[m] => k = m
      /\ \A i \in I : \E k \in DOMAIN rest : p[k] = i
  BY <1>4, <1>5 DEF Picks
<1> HIDE DEF rest
<1>7. \A k \in DOMAIN rest : \E i \in DOMAIN list : rest[k] = list[i]
  BY <1>1, <1>6
<1>8. Flags(rest) = Flags(list) \ ToSet(l)
  <2>1. ASSUME NEW f \in Flags(rest) PROVE f \in Flags(list) \ ToSet(l)
    BY <1>1, <1>2, <1>6 DEF Flags
  <2>2. ASSUME NEW f \in Flags(list) \ ToSet(l) PROVE f \in Flags(rest)
    <3>1. PICK i \in DOMAIN list : list[i].flag = f
      BY DEF Flags
    <3>2. PICK k \in DOMAIN rest : p[k] = i
      BY <3>1, <1>2, <1>6
    <3> QED BY <3>1, <3>2, <1>6 DEF Flags
  <2> QED BY <2>1, <2>2
<1>9. ASSUME \A i, j \in DOMAIN list : list[i].at = list[j].at => i = j,
             NEW k \in DOMAIN rest, NEW m \in DOMAIN rest, rest[k].at = rest[m].at
      PROVE  k = m
  <2>1. p[k] = p[m]
    BY <1>9, <1>1, <1>6
  <2> QED BY <2>1, <1>6
<1> QED BY <1>3, <1>7, <1>8, <1>9 DEF rest, I

-----------------------------------------------------------------------------
IInv == TypeOK /\ NodesOwned /\ StringsAlive

LEMMA InitIInv == Init => IInv
<1> SUFFICES ASSUME Init PROVE IInv
  OBVIOUS
<1>1. TypeOK
  <2>1. <<>> \in Seq(Node)
    OBVIOUS
  <2>2. live \in BOOLEAN /\ defined \in BOOLEAN /\ exact \in BOOLEAN
    BY DEF Init
  <2>3. parsed \in 0..MaxTrees
    BY BoundsAssumption DEF Init
  <2>4. list \in Seq(Node) /\ tail \in Address \cup {NULL}
    BY <2>1, Zenon DEF Init
  <2>5. trees = {} /\ cmds \in 0..parsed /\ ~live /\ allocated = {} /\ answer \in (SUBSET Flag) \X (SUBSET Flag)
    BY DEF Init, NULL, NoAnswer
  <2> QED BY <2>2, <2>3, <2>4, <2>5 DEF TypeOK
<1> QED BY <1>1 DEF Init, IInv, NodesOwned, StringsAlive

\* A command that evaluates has a tree, which is allocated.
LEMMA TreeOfCommand ==
  ASSUME IInv, Evaluating
  PROVE  cmds \in 1..MaxTrees /\ cmds \in trees /\ live /\ defined
<1> QED BY BoundsAssumption DEF IInv, TypeOK, Evaluating, NULL

LEMMA SetFlagStep ==
  ASSUME IInv, NEW l \in Lists, SetFlag(l), tail = NULL
  PROVE  IInv'
<1>1. PICK at \in Address \ (allocated \ Places(list)) :
        /\ list' = <<[at |-> at, flag |-> Head(l), tree |-> cmds]>>
        /\ allocated' = (allocated \ Places(list)) \cup {at}
        /\ tail' = First
        /\ exact' = (exact /\ list = <<>> /\ Len(l) = 1)
        /\ UNCHANGED <<live, cmds, trees, parsed, defined, answer>>
  BY DEF SetFlag
<1>2. cmds \in 1..MaxTrees /\ cmds \in trees /\ live
  BY TreeOfCommand DEF SetFlag
<1>3. [at |-> at, flag |-> Head(l), tree |-> cmds] \in Node
  <2>1. l \in Seq(Flag) /\ l # <<>>
    BY ListsAssumption
  <2>2. Head(l) \in Flag
    BY <2>1, HeadTailProperties
  <2> QED BY <1>2, <2>2 DEF Node
<1>4. /\ list' \in Seq(Node) /\ DOMAIN list' = {1}
      /\ list'[1].at = at /\ list'[1].tree = cmds
  BY <1>1, <1>3
<1>5. First \in Address \cup {NULL} /\ (First = NULL => list = <<>>)
  <2>1. CASE list = <<>>
    BY <2>1 DEF First
  <2>2. CASE list # <<>>
    <3>1. list \in Seq(Node)
      BY DEF IInv, TypeOK
    <3>2. list[1] \in Node
      BY <2>2, <3>1
    <3> QED BY <2>2, <3>2 DEF First, Node, Address, NULL
  <2> QED BY <2>1, <2>2
<1>6. TypeOK'
  <2>1. exact' \in BOOLEAN
    BY <1>1, Zenon
  <2>2. allocated' \subseteq Address
    BY <1>1 DEF IInv, TypeOK
  <2> QED BY <1>1, <1>4, <1>5, <2>1, <2>2 DEF IInv, TypeOK
<1>7. NodesOwned'
  <2>1. ASSUME tail' = NULL PROVE allocated' = {at}
    <3>1. list = <<>>
      BY <1>1, <1>5, <2>1
    <3>2. allocated = Places(list)
      BY <1>2 DEF IInv, NodesOwned
    <3> QED BY <1>1, <3>2
  <2>2. Places(list') = {at}
    BY <1>4 DEF Places
  <2>3. \A i, j \in DOMAIN list' : i = j
    BY <1>4
  <2>4. live'
    BY <1>1, <1>2
  <2> QED BY <2>1, <2>2, <2>3, <2>4 DEF NodesOwned
<1>8. StringsAlive'
  BY <1>1, <1>2, <1>4 DEF StringsAlive
<1> QED BY <1>6, <1>7, <1>8 DEF IInv

LEMMA AddFlagStep ==
  ASSUME IInv, NEW l \in Lists, AddFlag(l), ~(Missing(l) # <<>> /\ tail # NULL)
  PROVE  IInv' /\ Flags(list') = Flags(list) \cup ToSet(l)
<1> DEFINE new == Missing(l)  m == Len(new)
<1>1. PICK at \in [DOMAIN new -> Address \ allocated] :
        /\ IsInjective(at)
        /\ list' = Made(new, at) \o list
        /\ allocated' = allocated \cup {at[k] : k \in DOMAIN new}
        /\ UNCHANGED <<live, cmds, trees, parsed, tail, defined, answer, exact>>
  BY DEF AddFlag
<1>2. cmds \in 1..MaxTrees /\ cmds \in trees /\ live
  BY TreeOfCommand DEF AddFlag
<1>3. list \in Seq(Node) /\ Len(list) \in Nat /\ DOMAIN list = 1..Len(list)
  BY DEF IInv, TypeOK
<1>4. new \in Seq(Flag) /\ {new[k] : k \in DOMAIN new} = ToSet(l) \ Flags(list)
  BY <1>3, MissingIs
<1> HIDE DEF new
<1>5. DOMAIN new = 1..m /\ m \in Nat
  BY <1>4
<1>6. at \in [DOMAIN new -> Address]
  OBVIOUS
<1>7. /\ list' \in Seq(Node) /\ Len(list') = m + Len(list)
      /\ \A i \in 1..m : list'[i] =
           [at |-> at[m - i + 1], flag |-> new[m - i + 1], tree |-> cmds]
      /\ \A i \in 1..Len(list) : list'[m + i] = list[i]
  BY <1>1, <1>2, <1>3, <1>4, <1>6, Prepended
<1> HIDE DEF m
<1>8. DOMAIN list' = 1..(m + Len(list))
  BY <1>7
<1>9. \A i \in 1..(m + Len(list)) :
        \/ /\ i \in 1..m /\ m - i + 1 \in 1..m
           /\ list'[i].at = at[m - i + 1] /\ list'[i].flag = new[m - i + 1] /\ list'[i].tree = cmds
        \/ i - m \in 1..Len(list) /\ list'[i] = list[i - m]
  <2> TAKE i \in 1..(m + Len(list))
  <2>1. CASE i <= m
    <3>1. i \in 1..m /\ m - i + 1 \in 1..m
      BY <2>1, <1>5
    <3>2. list'[i] = [at |-> at[m - i + 1], flag |-> new[m - i + 1], tree |-> cmds]
      BY <3>1, <1>7
    <3> QED BY <3>1, <3>2
  <2>2. CASE i > m
    <3>1. i - m \in 1..Len(list) /\ m + (i - m) = i
      BY <2>2, <1>3, <1>5
    <3> QED BY <3>1, <1>7
  <2> QED BY <1>5, <2>1, <2>2
<1>10. \A k \in 1..m : LET i == m - k + 1
                      IN  i \in 1..m /\ i \in DOMAIN list' /\ list'[i].at = at[k] /\ list'[i].flag = new[k]
  <2> TAKE k \in 1..m
  <2>1. m - k + 1 \in 1..m /\ m - (m - k + 1) + 1 = k
    BY <1>5
  <2>2. m - k + 1 \in DOMAIN list'
    BY <2>1, <1>3, <1>5, <1>8
  <2>3. list'[m - k + 1] = [at |-> at[k], flag |-> new[k], tree |-> cmds]
    BY <2>1, <1>7
  <2> QED BY <2>1, <2>2, <2>3
<1>11. \A k \in 1..Len(list) : m + k \in DOMAIN list' /\ list'[m + k] = list[k]
  BY <1>3, <1>5, <1>7, <1>8
<1>12. TypeOK'
  <2>1. allocated' \subseteq Address
    BY <1>1 DEF IInv, TypeOK
  <2> QED BY <1>1, <1>7, <2>1 DEF IInv, TypeOK
<1>13. StringsAlive'
  <2>1. \A i \in DOMAIN list : list[i].tree \in trees
    BY <1>2 DEF IInv, StringsAlive
  <2>2. \A i \in DOMAIN list' : list'[i].tree \in trees
    BY <1>2, <1>3, <1>8, <1>9, <2>1
  <2> QED BY <1>1, <2>2 DEF StringsAlive
<1>14. NodesOwned'
  <2> SUFFICES ASSUME tail = NULL
               PROVE  /\ allocated' = Places(list')
                      /\ \A i, j \in DOMAIN list' : list'[i].at = list'[j].at => i = j
    BY <1>1, <1>2 DEF NodesOwned
  <2>1. /\ allocated = Places(list)
        /\ \A i, j \in DOMAIN list : list[i].at = list[j].at => i = j
    BY <1>2 DEF IInv, NodesOwned
  <2>2. ASSUME NEW a \in allocated' PROVE a \in Places(list')
    <3>1. CASE a \in allocated
      BY <3>1, <2>1, <1>3, <1>11 DEF Places
    <3>2. CASE a \notin allocated
      <4>1. PICK k \in 1..m : a = at[k]
        BY <3>2, <2>2, <1>1, <1>5
      <4> QED BY <4>1, <1>10 DEF Places
    <3> QED BY <3>1, <3>2
  <2>3. ASSUME NEW i \in DOMAIN list' PROVE list'[i].at \in allocated'
    <3>1. CASE i \in 1..m /\ m - i + 1 \in 1..m /\ list'[i].at = at[m - i + 1]
      BY <3>1, <1>1, <1>5
    <3>2. CASE i - m \in 1..Len(list) /\ list'[i] = list[i - m]
      BY <3>2, <1>1, <1>3, <2>1 DEF Places
    <3> QED BY <3>1, <3>2, <1>8, <1>9
  <2>4. \A i \in DOMAIN list :  list[i].at \in allocated
    BY <2>1 DEF Places
  <2>5. ASSUME NEW i \in DOMAIN list', NEW j \in DOMAIN list', list'[i].at = list'[j].at
        PROVE  i = j
    <3> DEFINE old(k) == k - m \in DOMAIN list /\ list'[k].at = list[k - m].at
               fresh(k) == m - k + 1 \in DOMAIN new /\ list'[k].at = at[m - k + 1]
    <3>1. i \in Int /\ j \in Int /\ (old(i) \/ fresh(i)) /\ (old(j) \/ fresh(j))
      BY <1>3, <1>5, <1>8, <1>9
    <3>2. \A k \in {i, j} : (old(k) => list'[k].at \in allocated) /\ (fresh(k) => list'[k].at \notin allocated)
      BY <2>4
    <3>3. CASE old(i) /\ old(j)
      <4>1. i - m = j - m
        BY <3>3, <2>1, <2>5
      <4> QED BY <4>1, <3>1, <1>5
    <3>4. CASE fresh(i) /\ fresh(j)
      <4>1. m - i + 1 = m - j + 1
        BY <3>4, <1>1, <2>5 DEF IsInjective
      <4> QED BY <4>1, <3>1, <1>5
    <3> HIDE DEF old, fresh
    <3> QED BY <3>1, <3>2, <3>3, <3>4, <2>5
  <2>6. Places(list') = {list'[i].at : i \in DOMAIN list'}
    BY DEF Places
  <2> QED BY <2>2, <2>3, <2>5, <2>6
<1>15. Flags(list') = Flags(list) \cup ToSet(l)
  <2>1. ASSUME NEW f \in Flags(list') PROVE f \in Flags(list) \cup ToSet(l)
    <3>1. PICK i \in DOMAIN list' : list'[i].flag = f
      BY DEF Flags
    <3>2. CASE m - i + 1 \in 1..m /\ list'[i].flag = new[m - i + 1]
      BY <3>1, <3>2, <1>4, <1>5
    <3>3. CASE i - m \in 1..Len(list) /\ list'[i] = list[i - m]
      BY <3>1, <3>3, <1>3 DEF Flags
    <3> QED BY <3>2, <3>3, <1>8, <1>9
  <2>2. ASSUME NEW f \in Flags(list) PROVE f \in Flags(list')
    BY <1>3, <1>11 DEF Flags
  <2>3. ASSUME NEW f \in ToSet(l) \ Flags(list) PROVE f \in Flags(list')
    <3>1. PICK k \in 1..m : f = new[k]
      BY <1>4, <1>5
    <3> QED BY <3>1, <1>10 DEF Flags
  <2> QED BY <2>1, <2>2, <2>3
<1> QED BY <1>12, <1>13, <1>14, <1>15 DEF IInv

\* removeflag walks past the end: to free all nodes, or for a flag not there.
RemovesPast(l) ==
  /\ tail # NULL
  /\ \/ list # <<>> /\ list[1].flag \in ToSet(l)
     \/ ~(ToSet(l) \subseteq Flags(list) /\ IsInjective(l))

LEMMA RemoveFlagStep ==
  ASSUME IInv, NEW l \in Lists, RemoveFlag(l), ~RemovesPast(l)
  PROVE  IInv' /\ (exact' => Flags(list') = Flags(list) \ ToSet(l))
<1> DEFINE rest  == Picked(list, {i \in DOMAIN list : list[i].flag \notin ToSet(l)})
           empty == list # <<>> /\ list[1].flag \in ToSet(l)
<1>1. /\ list' = IF empty THEN <<>> ELSE rest
      /\ allocated' = allocated \ (Places(list) \ Places(list'))
      /\ exact' = (exact /\ (empty => rest = <<>>))
      /\ UNCHANGED <<live, cmds, trees, parsed, tail, defined, answer>>
  BY DEF RemoveFlag, RemovesPast
<1>2. live
  BY DEF RemoveFlag, Evaluating
<1>3. list \in Seq(Node) /\ DOMAIN list = 1..Len(list)
  BY DEF IInv, TypeOK
<1>4. /\ rest \in Seq(Node)
      /\ \A k \in DOMAIN rest : \E i \in DOMAIN list : rest[k] = list[i]
      /\ Flags(rest) = Flags(list) \ ToSet(l)
      /\ (\A i, j \in DOMAIN list : list[i].at = list[j].at => i = j) =>
           \A k, m \in DOMAIN rest : rest[k].at = rest[m].at => k = m
  BY <1>3, RestIs
<1> HIDE DEF rest, empty
<1>5. /\ list' \in Seq(Node)
      /\ \A k \in DOMAIN list' : \E i \in DOMAIN list : list'[k] = list[i]
      /\ (\A i, j \in DOMAIN list : list[i].at = list[j].at => i = j) =>
           \A k, m \in DOMAIN list' : list'[k].at = list'[m].at => k = m
  <2>1. CASE empty
    <3>1. list' = <<>> /\ <<>> \in Seq(Node) /\ DOMAIN list' = {}
      BY <1>1, <2>1
    <3> QED BY <3>1
  <2>2. CASE ~empty
    BY <1>1, <1>4, <2>2
  <2> QED BY <2>1, <2>2
<1>6. Places(list') \subseteq Places(list)
  BY <1>5 DEF Places
<1>7. TypeOK'
  <2>1. exact' \in BOOLEAN
    BY <1>1, Zenon
  <2>2. allocated' \subseteq Address
    BY <1>1 DEF IInv, TypeOK
  <2> QED BY <1>1, <1>5, <2>1, <2>2 DEF IInv, TypeOK
<1>8. NodesOwned'
  <2> SUFFICES ASSUME tail = NULL
               PROVE  /\ allocated' = Places(list')
                      /\ \A i, j \in DOMAIN list' : list'[i].at = list'[j].at => i = j
    BY <1>1, <1>2 DEF NodesOwned
  <2>1. /\ allocated = Places(list)
        /\ \A i, j \in DOMAIN list : list[i].at = list[j].at => i = j
    BY <1>2 DEF IInv, NodesOwned
  <2> QED BY <2>1, <1>1, <1>5, <1>6
<1>9. StringsAlive'
  BY <1>1, <1>2, <1>5 DEF IInv, StringsAlive
<1>10. ASSUME exact' PROVE Flags(list') = Flags(list) \ ToSet(l)
  BY <1>1, <1>4, <1>10
<1> QED BY <1>7, <1>8, <1>9, <1>10 DEF IInv

\* The steps that leave the list alone.
LEMMA OtherStep ==
  ASSUME IInv, UNCHANGED <<list, tail, allocated, trees, exact>>,
         TypeOK', live' = live
  PROVE  IInv'
<1> QED BY DEF IInv, NodesOwned, StringsAlive, Places

LEMMA PastStep == ASSUME IInv, PastTheEnd PROVE IInv'
<1>1. TypeOK'
  BY DEF IInv, TypeOK, PastTheEnd
<1> QED BY <1>1, OtherStep DEF PastTheEnd

LEMMA CallStep ==
  ASSUME IInv, Alloc \/ Free \/ Execute \/ Validate
  PROVE  IInv'
<1>1. CASE Alloc
  <2>1. <<>> \in Seq(Node) /\ DOMAIN <<>> = {}
    OBVIOUS
  <2>2. list' = <<>> /\ tail' = NULL /\ cmds' = NULL /\ answer' = NoAnswer /\ live' = TRUE /\ exact' = TRUE
    BY <1>1 DEF Alloc
  <2>3. TypeOK'
    BY <1>1, <2>1, <2>2 DEF Alloc, IInv, TypeOK, NULL, NoAnswer
  <2>4. Places(list') = {}
    BY <2>1, <2>2 DEF Places
  <2>5. allocated' = {}
    BY <1>1 DEF Alloc, IInv, NodesOwned
  <2> QED BY <2>1, <2>2, <2>3, <2>4, <2>5 DEF IInv, NodesOwned, StringsAlive
<1>2. CASE Free /\ tail # NULL
  BY <1>2, PastStep DEF Free
<1>3. CASE Free /\ tail = NULL
  <2>1. /\ live /\ live' = FALSE /\ trees' = trees \ {cmds} /\ allocated' = allocated \ Places(list)
        /\ UNCHANGED <<cmds, parsed, list, tail, defined, answer, exact>>
    BY <1>3 DEF Free
  <2>2. allocated' = {}
    BY <2>1, <1>3 DEF IInv, NodesOwned
  <2>3. TypeOK'
    BY <2>1, <2>2 DEF IInv, TypeOK
  <2> QED BY <2>1, <2>2, <2>3 DEF IInv, NodesOwned, StringsAlive
<1>4. CASE Execute
  <2>1. /\ parsed < MaxTrees /\ parsed' = parsed + 1 /\ cmds' = parsed'
        /\ trees' = trees \cup {parsed'} /\ live
        /\ UNCHANGED <<live, list, tail, allocated, defined, answer, exact>>
    BY <1>4 DEF Execute
  <2>2. TypeOK'
    BY <2>1, BoundsAssumption DEF IInv, TypeOK
  <2>3. NodesOwned' /\ StringsAlive'
    BY <2>1 DEF IInv, NodesOwned, StringsAlive, Places
  <2> QED BY <2>2, <2>3 DEF IInv
<1>5. CASE Validate
  <2>1. TypeOK'
    BY <1>5 DEF IInv, TypeOK, Validate, NULL
  <2> QED BY <1>5, <2>1, OtherStep DEF Validate
<1> QED BY <1>1, <1>2, <1>3, <1>4, <1>5

\* What is told of the list are flags.
LEMMA FlagsTyped ==
  ASSUME IInv
  PROVE  Flags(list) \subseteq Flag /\ \A l \in Lists : ToSet(l) \subseteq Flag
<1>1. Flags(list) \subseteq Flag
  <2>1. \A i \in DOMAIN list : list[i] \in Node
    BY DEF IInv, TypeOK
  <2>2. \A i \in DOMAIN list : list[i].flag \in Flag
    BY <2>1 DEF Node
  <2> QED BY <2>2 DEF Flags
<1> QED BY <1>1, ListsAssumption DEF ToSet

LEMMA AskStep ==
  ASSUME IInv, NEW l \in Lists, HasFlag(l) \/ PassOnOwn(l)
  PROVE  IInv'
<1>1. CASE PastTheEnd
  BY <1>1, PastStep
<1>2. CASE /\ answer' \in {ToSet(l), {}} \X {ToSet(l), {}}
           /\ UNCHANGED <<live, cmds, trees, parsed, list, tail, allocated, defined, exact>>
  <2>1. answer' \in (SUBSET Flag) \X (SUBSET Flag)
    BY <1>2, FlagsTyped
  <2>2. TypeOK'
    BY <1>2, <2>1 DEF IInv, TypeOK
  <2> QED BY <1>2, <2>2, OtherStep
<1> QED BY <1>1, <1>2 DEF HasFlag, PassOnOwn

LEMMA IInvStep == IInv /\ [Next]_vars => IInv'
<1> SUFFICES ASSUME IInv, [Next]_vars PROVE IInv'
  OBVIOUS
<1>1. CASE Alloc \/ Free \/ Execute \/ Validate
  BY <1>1, CallStep
<1>2. CASE PassOn
  <2>1. CASE PastTheEnd
    BY <2>1, PastStep
  <2>2. CASE ~PastTheEnd
    <3>1. /\ answer' = <<{}, Flags(list)>>
          /\ UNCHANGED <<live, cmds, trees, parsed, list, tail, allocated, defined, exact>>
      BY <1>2, <2>2 DEF PassOn
    <3>2. TypeOK'
      BY <3>1, FlagsTyped DEF IInv, TypeOK
    <3> QED BY <3>1, <3>2, OtherStep
  <2> QED BY <2>1, <2>2
<1>3. ASSUME NEW l \in Lists, SetFlag(l) PROVE IInv'
  <2>1. CASE tail = NULL
    BY <1>3, <2>1, SetFlagStep
  <2>2. CASE tail # NULL
    BY <1>3, <2>2, PastStep DEF SetFlag
  <2> QED BY <2>1, <2>2
<1>4. ASSUME NEW l \in Lists, AddFlag(l) PROVE IInv'
  <2>1. CASE ~(Missing(l) # <<>> /\ tail # NULL)
    BY <1>4, <2>1, AddFlagStep
  <2>2. CASE Missing(l) # <<>> /\ tail # NULL
    <3>1. PastTheEnd
      BY <1>4, <2>2 DEF AddFlag
    <3> QED BY <3>1, PastStep
  <2> QED BY <2>1, <2>2
<1>5. ASSUME NEW l \in Lists, RemoveFlag(l) PROVE IInv'
  <2>1. CASE ~RemovesPast(l)
    BY <1>5, <2>1, RemoveFlagStep
  <2>2. CASE RemovesPast(l)
    <3>1. PastTheEnd
      BY <1>5, <2>2 DEF RemoveFlag, RemovesPast
    <3> QED BY <3>1, PastStep
  <2> QED BY <2>1, <2>2
<1>6. ASSUME NEW l \in Lists, HasFlag(l) \/ PassOnOwn(l) PROVE IInv'
  BY <1>6, AskStep
<1>7. CASE UNCHANGED vars
  <2>1. TypeOK'
    BY <1>7 DEF vars, IInv, TypeOK
  <2> QED BY <1>7, <2>1, OtherStep DEF vars
<1> QED BY <1>1, <1>2, <1>3, <1>4, <1>5, <1>6, <1>7 DEF Next

\* The list, its addresses and the trees keep their types, and a live context
\* holds a tree that was not freed.
THEOREM FlagListTyped == Spec => []TypeOK
<1>1. IInv => TypeOK
  BY DEF IInv
<1> QED BY <1>1, InitIInv, IInvStep, PTL DEF Spec

\* The nodes of the list are the allocated ones, each at its own place, as long
\* as the list ends in NULL; a context that is freed leaves no node behind
\* (script.c 597-641, sieve2_free).
THEOREM NodesAreOwned == Spec => []NodesOwned
<1>1. IInv => NodesOwned
  BY DEF IInv
<1> QED BY <1>1, InitIInv, IInvStep, PTL DEF Spec

\* No flag of the list is a string of a tree that was freed, for any number of
\* scripts in one context (sieve2_execute, libsieve_new_sl).
THEOREM StringsOutlive == Spec => []StringsAlive
<1>1. IInv => StringsAlive
  BY DEF IInv
<1> QED BY <1>1, InitIInv, IInvStep, PTL DEF Spec

-----------------------------------------------------------------------------
\* A step after which the flags are no longer what the script asked for maps to
\* Blur, and one that ends the context to Renew.
LEMMA MapBlur ==
  ASSUME TypeOK', ~exact' \/ ~live'
  PROVE  Promise!Next
<1>1. CASE exact' = FALSE
  BY <1>1 DEF Promise!Next, Promise!Blur, Promise!None, NoAnswer
<1>2. CASE exact' = TRUE /\ ~live'
  BY <1>2 DEF Promise!Next, Promise!Renew, Promise!None, NoAnswer
<1> QED BY <1>1, <1>2 DEF TypeOK

LEMMA MapInit == Init => Promise!Init
<1> SUFFICES ASSUME Init PROVE Promise!Init
  OBVIOUS
<1>1. ~live /\ exact = TRUE
  BY DEF Init
<1> QED BY <1>1 DEF Promise!Init, Promise!None, NoAnswer

\* What a step means for the set when the flags are and stay exact.
LEMMA MapCommand ==
  ASSUME IInv, TypeOK', exact, exact', live, live',
         \/ Flags(list') = Flags(list) /\ answer' = <<{}, Flags(list)>>
         \/ \E l \in Lists :
              \/ /\ answer' = answer
                 /\ \/ Flags(list') = ToSet(l)
                    \/ Flags(list') = Flags(list) \cup ToSet(l)
                    \/ Flags(list') = Flags(list) \ ToSet(l)
              \/ /\ Flags(list') = Flags(list)
                 /\ \/ answer' = <<{}, ToSet(l)>>
                    \/ answer' = <<ToSet(l), IF ToSet(l) \cap Flags(list) # {} THEN ToSet(l) ELSE {}>>
  PROVE  Promise!Next
<1>1. exact = TRUE /\ exact' = TRUE
  BY DEF IInv, TypeOK
<1>2. (IF exact /\ live THEN Flags(list) ELSE {}) = Flags(list)
  OBVIOUS
<1>3. (IF exact /\ live THEN Flags(list) ELSE {})' = Flags(list')
  BY DEF Flags
<1>4. (IF exact /\ live THEN answer ELSE NoAnswer) = answer
  OBVIOUS
<1>5. (IF exact /\ live THEN answer ELSE NoAnswer)' = answer'
  OBVIOUS
<1>6. CASE Flags(list') = Flags(list) /\ answer' = <<{}, Flags(list)>>
  <2>1. Promise!PassOn
    BY <1>2, <1>3, <1>5, <1>6 DEF Promise!PassOn
  <2> QED BY <1>1, <2>1 DEF Promise!Next, Promise!Command
<1>7. ASSUME NEW l \in Lists, answer' = answer,
             \/ Flags(list') = ToSet(l)
             \/ Flags(list') = Flags(list) \cup ToSet(l)
             \/ Flags(list') = Flags(list) \ ToSet(l)
      PROVE  Promise!Next
  <2>1. Promise!SetFlag(l) \/ Promise!AddFlag(l) \/ Promise!RemoveFlag(l)
    BY <1>2, <1>3, <1>4, <1>5, <1>7
       DEF Promise!SetFlag, Promise!AddFlag, Promise!RemoveFlag, ToSet, Promise!ToSet
  <2> QED BY <1>1, <2>1 DEF Promise!Next, Promise!Command
<1>8. ASSUME NEW l \in Lists, Flags(list') = Flags(list),
             \/ answer' = <<{}, ToSet(l)>>
             \/ answer' = <<ToSet(l), IF ToSet(l) \cap Flags(list) # {} THEN ToSet(l) ELSE {}>>
      PROVE  Promise!Next
  <2>1. Promise!HasFlag(l) \/ Promise!PassOnOwn(l)
    BY <1>2, <1>3, <1>5, <1>8 DEF Promise!HasFlag, Promise!PassOnOwn, ToSet, Promise!ToSet
  <2> QED BY <1>1, <2>1 DEF Promise!Next, Promise!Command
<1> QED BY <1>6, <1>7, <1>8

LEMMA MapSame ==
  ASSUME UNCHANGED <<live, list, answer, exact>>
  PROVE  UNCHANGED Promise!vars
<1> QED BY DEF Promise!vars, Flags

LEMMA MapStep == IInv /\ [Next]_vars => [Promise!Next]_(Promise!vars)
<1> SUFFICES ASSUME IInv, [Next]_vars PROVE [Promise!Next]_(Promise!vars)
  OBVIOUS
<1>1. TypeOK'
  BY IInvStep DEF IInv
<1>2. CASE ~exact' \/ ~live'
  BY <1>1, <1>2, MapBlur
<1> SUFFICES ASSUME exact', live' PROVE [Promise!Next]_(Promise!vars)
  BY <1>2
<1>3. CASE Alloc
  <2>1. list' = <<>> /\ answer' = NoAnswer /\ exact' = TRUE
    BY <1>3 DEF Alloc
  <2>2. Flags(list') = {}
    BY <2>1 DEF Flags
  <2>3. Promise!Renew
    BY <2>1, <2>2 DEF Promise!Renew, Promise!None, NoAnswer, Flags
  <2> QED BY <2>3 DEF Promise!Next
<1>4. CASE PastTheEnd \/ Execute \/ Validate \/ UNCHANGED vars
  BY <1>4, MapSame DEF PastTheEnd, Execute, Validate, vars
<1>5. CASE Free
  BY <1>5, <1>4 DEF Free
<1>6. CASE PassOn
  <2>1. CASE PastTheEnd
    BY <2>1, <1>4
  <2>2. CASE ~PastTheEnd
    <3>1. answer' = <<{}, Flags(list)>> /\ UNCHANGED <<live, list, exact>>
      BY <1>6, <2>2 DEF PassOn
    <3> QED BY <3>1, <1>1, MapCommand
  <2> QED BY <2>1, <2>2
<1>7. ASSUME NEW l \in Lists, SetFlag(l), ~PastTheEnd PROVE Promise!Next
  <2>1. PICK at : /\ list' = <<[at |-> at, flag |-> Head(l), tree |-> cmds]>>
                  /\ exact' = (exact /\ list = <<>> /\ Len(l) = 1)
                  /\ UNCHANGED <<live, answer>>
    BY <1>7 DEF SetFlag
  <2>2. exact /\ live /\ Len(l) = 1
    BY <2>1
  <2>3. Flags(list') = {Head(l)}
    BY <2>1 DEF Flags
  <2>4. ToSet(l) = {Head(l)}
    BY <2>2, ListsAssumption DEF ToSet
  <2> QED BY <1>1, <2>1, <2>2, <2>3, <2>4, MapCommand
<1>8. ASSUME NEW l \in Lists, AddFlag(l), ~PastTheEnd PROVE Promise!Next
  <2>1. ~(Missing(l) # <<>> /\ tail # NULL)
    BY <1>8 DEF AddFlag
  <2>2. Flags(list') = Flags(list) \cup ToSet(l)
    BY <1>8, <2>1, AddFlagStep
  <2>3. UNCHANGED <<live, answer, exact>>
    BY <1>8 DEF AddFlag
  <2> QED BY <1>1, <2>2, <2>3, MapCommand
<1>9. ASSUME NEW l \in Lists, RemoveFlag(l), ~PastTheEnd PROVE Promise!Next
  <2>1. ~RemovesPast(l)
    BY <1>9 DEF RemoveFlag, RemovesPast
  <2>2. Flags(list') = Flags(list) \ ToSet(l)
    BY <1>9, <2>1, RemoveFlagStep
  <2>3. UNCHANGED <<live, answer>> /\ exact
    BY <1>9 DEF RemoveFlag
  <2> QED BY <1>1, <2>2, <2>3, MapCommand
<1>10. ASSUME NEW l \in Lists, HasFlag(l) \/ PassOnOwn(l), ~PastTheEnd PROVE Promise!Next
  <2>1. /\ UNCHANGED <<live, list, exact>>
        /\ \/ answer' = <<{}, ToSet(l)>>
           \/ answer' = <<ToSet(l), IF ToSet(l) \cap Flags(list) # {} THEN ToSet(l) ELSE {}>>
    BY <1>10 DEF HasFlag, PassOnOwn
  <2> QED BY <1>1, <2>1, MapCommand
<1> QED BY <1>3, <1>4, <1>5, <1>6, <1>7, <1>8, <1>9, <1>10 DEF Next

\* The list in memory is the set of flags that the script set, added and
\* removed, and what hasflag answers and keep and fileinto pass on is right,
\* until a setflag meets flags or lists several or a removeflag takes the first
\* of several (script.c 274-290, 597-641).
THEOREM ListIsASet == Spec => KeepsFlags
<1>1. Spec => []IInv
  BY InitIInv, IInvStep, PTL DEF Spec
<1> QED BY <1>1, MapInit, MapStep, PTL DEF Spec, KeepsFlags, Promise!Spec
=============================================================================
