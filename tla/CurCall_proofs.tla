--------------------------- MODULE CurCall_proofs ---------------------------
(***************************************************************************)
(* Proofs about CurCall for any number of slots, of names and of values.   *)
(***************************************************************************)
EXTENDS CurCall, FiniteSetTheorems, WellFoundedInduction, TLAPS

-----------------------------------------------------------------------------
(* The least-number principle for sets, which stands in for induction. *)

\* A set of numbers that is not empty has a least element.
LEMMA Least ==
  ASSUME NEW T, T \subseteq Nat, T # {}
  PROVE  \E x \in T : \A y \in T : x <= y
<1> DEFINE less == OpToRel(<, Nat)
<1>1. IsWellFoundedOn(less, Nat)
  BY NatLessThanWellFounded DEF OpToRel
<1>2. less = {p \in Nat \X Nat : p[1] < p[2]}
  BY DEF OpToRel
<1> HIDE DEF less
<1>3. PICK x \in T : \A y \in T : ~(<<y, x>> \in less)
  BY <1>1, WFMin
<1>4. \A y \in T : ~(y < x)
  BY <1>2, <1>3
<1> QED BY <1>4

-----------------------------------------------------------------------------
Filled == {i \in Slot : ~Free(i)}

\* While a callback is open, the slots with a name are the allocated ones and
\* come first; between callbacks nothing is allocated and begin will succeed.
Exact ==
  /\ Idle  => begin = end /\ allocated = {}
  /\ ~Idle => begin = 1 /\ end = 0 /\ allocated = Filled
Prefix == \A i \in Slot : \A j \in Slot : j < i /\ ~Free(i) => ~Free(j)
IInv == TypeOK /\ Exact /\ (Open => Prefix)

-----------------------------------------------------------------------------
LEMMA InitIInv == Init => IInv
<1> SUFFICES ASSUME Init PROVE IInv
  OBVIOUS
<1>1. TypeOK
  BY DEF Init, TypeOK, Slot, Kind
<1>2. Exact /\ ~Open
  BY DEF Init, Exact, Idle, Open
<1> QED BY <1>1, <1>2 DEF IInv

LEMMA BeginStep ==
  ASSUME IInv, NEW c \in Code, Begin(c)
  PROVE  IInv' /\ begin' = 1 /\ end' = 0 /\ ~Open /\ \A i \in Slot : Free(i)'
<1> USE DEF IInv
<1>1. begin = end /\ allocated = {} /\ Idle
  BY DEF Begin, Exact
<1>2. /\ begin' = 1 /\ end' = 0 /\ code' = c /\ turn' = "setting" /\ allocated' = {}
      /\ values' = [i \in Slot |-> [values[i] EXCEPT !.name = NULL, !.value = NULL]]
  BY <1>1 DEF Begin
<1>3. \A i \in Slot : values'[i] = [name |-> NULL, kind |-> values[i].kind, value |-> NULL]
  BY <1>2 DEF TypeOK
<1>4. \A i \in Slot : Free(i)'
  <2> TAKE i \in Slot
  <2>1. values'[i] = [name |-> NULL, kind |-> values[i].kind, value |-> NULL]
    BY <1>3
  <2>2. [name |-> NULL, kind |-> values[i].kind, value |-> NULL].name = NULL
    OBVIOUS
  <2> QED BY <2>1, <2>2, Zenon DEF Free
<1>5. TypeOK'
  <2>1. values' \in [Slot -> [name : Name \cup {NULL}, kind : Kind, value : Value \cup {NULL}]]
    BY <1>2, <1>3, ZenonT(30) DEF TypeOK
  <2> QED BY <1>2, <2>1 DEF TypeOK
<1>6. Exact' /\ Prefix'
  <2>1. Filled' = {}
    BY <1>4 DEF Filled, Slot
  <2>2. Exact'
    BY <1>2, <2>1 DEF Exact, Idle
  <2>3. Prefix'
    BY <1>4 DEF Prefix, Slot
  <2> QED BY <2>2, <2>3
<1>7. ~Open
  BY <1>1 DEF Open
<1> QED BY <1>2, <1>4, <1>5, <1>6, <1>7

\* SetValue fills one slot, behind all that are filled.
LEMMA SetValueStep ==
  ASSUME IInv, NEW k \in Kind, NEW n \in Name, NEW v \in Value, SetValue(k, n, v)
  PROVE  /\ IInv' /\ Open /\ UNCHANGED <<begin, end>>
         /\ \E i \in Slot :
              /\ Free(i) /\ \A j \in Filled : j < i
              /\ values' = [values EXCEPT ![i] = [name |-> n, kind |-> k, value |-> v]]
              /\ Filled' = Filled \cup {i}
<1> USE DEF IInv
<1>1. PICK i \in Slot :
        /\ Free(i) /\ \A j \in 1..(i - 1) : ~Free(j)
        /\ values' = [values EXCEPT ![i] = [name |-> n, kind |-> k, value |-> v]]
        /\ allocated' = allocated \cup {i}
  BY DEF SetValue
<1>2. UNCHANGED <<begin, end, code, turn>> /\ ~Idle
  BY DEF SetValue, Idle
<1>3. Open /\ allocated = Filled /\ Prefix
  BY <1>2 DEF Exact, Open
<1>4. n # NULL
  BY NullAssumption
<1>5. \A j \in Slot : values'[j] = IF j = i THEN [name |-> n, kind |-> k, value |-> v]
                                             ELSE values[j]
  BY <1>1 DEF TypeOK
<1>6. \A j \in Slot : Free(j)' <=> Free(j) /\ j # i
  BY <1>4, <1>5 DEF Free
<1>7. Filled' = Filled \cup {i}
  BY <1>6 DEF Filled, Slot
<1>8. \A j \in Filled : j < i
  <2> SUFFICES ASSUME NEW j \in Filled, ~(j < i) PROVE FALSE
    OBVIOUS
  <2>1. j \in Slot /\ ~Free(j) /\ i < j
    BY <1>1, SlotsAssumption DEF Filled, Slot
  <2> QED BY <1>1, <1>3, <2>1 DEF Prefix
<1>9. TypeOK'
  <2>1. values' \in [Slot -> [name : Name \cup {NULL}, kind : Kind, value : Value \cup {NULL}]]
    BY <1>1 DEF TypeOK
  <2> QED BY <1>1, <1>2, <2>1 DEF TypeOK
<1>10. Exact'
  BY <1>1, <1>2, <1>3, <1>7 DEF Exact, Idle
<1>11. Prefix'
  <2> SUFFICES ASSUME NEW a \in Slot, NEW b \in Slot, b < a, ~Free(a)', Free(b)' PROVE FALSE
    BY DEF Prefix, Slot
  <2>1. Free(b) /\ b # i
    BY <1>6
  <2>2. a = i
    BY <1>3, <1>6, <2>1 DEF Prefix
  <2>3. b \in 1..(i - 1)
    BY <2>2, SlotsAssumption DEF Slot
  <2> QED BY <1>1, <2>1, <2>3
<1> QED BY <1>1, <1>2, <1>3, <1>7, <1>8, <1>9, <1>10, <1>11

LEMMA EndStep == ASSUME IInv, End PROVE IInv' /\ Open /\ ~Open'
<1> USE DEF IInv
<1>1. begin = 1 /\ end = 0 /\ allocated = Filled
  BY DEF End, Exact, Idle
<1>2. turn' = "idle" /\ end' = 1 /\ code' = NULL /\ begin' = 1 /\ values' = values
  BY <1>1 DEF End
<1>3. allocated' = {}
  BY <1>1 DEF End, Filled
<1>4. TypeOK'
  BY <1>2, <1>3 DEF TypeOK
<1>5. Exact' /\ ~Open'
  BY <1>2, <1>3 DEF Exact, Idle, Open
<1> QED BY <1>1, <1>4, <1>5 DEF Open

\* The client's function starts, or returns, or nothing happens.
Passing == (\E registered \in BOOLEAN : Do(registered)) \/ Answer \/ UNCHANGED vars

LEMMA PassingStep ==
  ASSUME IInv, Passing PROVE IInv' /\ UNCHANGED <<begin, end, values>>
<1>1. UNCHANGED <<begin, end, code, values, allocated>>
  BY DEF Passing, Do, Answer, vars
<1>2. Idle' = Idle /\ turn' \in {"idle", "setting", "client", "reading"}
  BY DEF Passing, Do, Answer, vars, Idle, IInv, TypeOK
<1>3. TypeOK'
  BY <1>1, <1>2 DEF IInv, TypeOK, Slot
<1>4. Exact' /\ (Open' => Prefix')
  BY <1>1, <1>2 DEF IInv, Exact, Open, Prefix, Filled, Free, Slot
<1> QED BY <1>1, <1>3, <1>4 DEF IInv

LEMMA NextCases ==
  ASSUME [Next]_vars
  PROVE  \/ \E c \in Code : Begin(c)
         \/ \E k \in Kind, n \in Name, v \in Value : SetValue(k, n, v)
         \/ End \/ Passing
BY DEF Next, Passing

LEMMA IInvStep == IInv /\ [Next]_vars => IInv'
BY NextCases, BeginStep, SetValueStep, EndStep, PassingStep

-----------------------------------------------------------------------------
\* The names sieve2_getvalue_* compares are allocated and the names of a past
\* callback are released, however many values either side sets (context2.c).
THEOREM NamesLive == Spec => [](TypeOK /\ NamesAllocated /\ NamesReleased)
<1>1. IInv => TypeOK /\ NamesAllocated /\ NamesReleased
  BY DEF IInv, Exact, NamesAllocated, NamesReleased, Open, Idle, Filled
<1> QED BY <1>1, InitIInv, IInvStep, PTL DEF Spec

\* The slots keep their types whatever the client sets and reads.
THEOREM SlotsTyped == Spec => []TypeOK
<1>1. IInv => TypeOK
  BY DEF IInv
<1> QED BY <1>1, InitIInv, IInvStep, PTL DEF Spec

\* Between two callbacks nothing is allocated: libsieve_callback_end has freed
\* every name that a setter copied, for any sequence of callbacks.
THEOREM NamesAreReleased == Spec => []NamesReleased
<1>1. IInv => NamesReleased
  BY DEF IInv, Exact, NamesReleased, Open, Idle, Filled
<1> QED BY <1>1, InitIInv, IInvStep, PTL DEF Spec

-----------------------------------------------------------------------------
Holds(i, k, n) == values[i].name = n /\ values[i].kind = k

\* Get finds a slot if one matches, and the first of them only.
LEMMA GetFirst ==
  ASSUME NEW k, NEW n
  PROVE  /\ \A i \in Get(k, n) : i \in Slot /\ Holds(i, k, n)
         /\ \A i, j \in Get(k, n) : i = j
         /\ \A i \in Slot : Holds(i, k, n) => \E j \in Get(k, n) : j <= i
<1> DEFINE T == {i \in Slot : Holds(i, k, n)}
<1>1. \A i \in Get(k, n) : i \in Slot /\ Holds(i, k, n)
  BY DEF Get, Holds
<1>2. ASSUME NEW i \in Get(k, n), NEW j \in Get(k, n) PROVE i = j
  BY SlotsAssumption DEF Get, Slot
<1>3. ASSUME NEW i \in Slot, Holds(i, k, n) PROVE \E j \in Get(k, n) : j <= i
  <2>1. T \subseteq Nat /\ i \in T
    BY <1>3 DEF Slot
  <2>2. PICK j \in T : \A x \in T : j <= x
    BY <2>1, Least
  <2>3. j \in Get(k, n)
    <3> SUFFICES ASSUME NEW x \in 1..(j - 1), Holds(x, k, n) PROVE FALSE
      BY DEF Get, Holds
    <3>1. x \in T
      BY SlotsAssumption DEF Slot
    <3> QED BY <2>1, <2>2, <3>1
  <2> QED BY <2>1, <2>2, <2>3
<1> QED BY <1>1, <1>2, <1>3

-----------------------------------------------------------------------------
\* The state of ValueMap that the slots stand for.
Found(key) == CHOOSE i \in Get(key[1], key[2]) : TRUE
TheMap   == IF Open THEN [key \in Visible |-> values[Found(key)].value] ELSE [key \in {} |-> 0]
TheGiven == IF Open THEN Cardinality(Filled) ELSE 0

\* Filling the first free slot i changes no value that was found before.
LEMMA FillStep ==
  ASSUME IInv, NEW k \in Kind, NEW n \in Name, NEW v \in Value, NEW i \in Slot,
         Free(i), \A j \in Filled : j < i,
         values' = [values EXCEPT ![i] = [name |-> n, kind |-> k, value |-> v]]
  PROVE  /\ Visible' = Visible \cup {<<k, n>>}
         /\ \A key \in Visible : values'[Found(key)'].value = values[Found(key)].value
         /\ <<k, n>> \notin Visible => values'[Found(<<k, n>>)'].value = v
<1>1. \A j \in Slot : values'[j] = IF j = i THEN [name |-> n, kind |-> k, value |-> v]
                                             ELSE values[j]
  BY DEF IInv, TypeOK
<1>2. ASSUME NEW kk \in Kind, NEW nn \in Name, NEW j \in Slot
      PROVE  /\ Holds(j, kk, nn)' <=> Holds(j, kk, nn) \/ (j = i /\ kk = k /\ nn = n)
             /\ Holds(j, kk, nn) => j \in Filled
  BY <1>1, NullAssumption DEF Holds, Free, Filled
<1>3. ASSUME NEW kk \in Kind, NEW nn \in Name, Get(kk, nn) # {}
      PROVE  Get(kk, nn)' = Get(kk, nn)
  <2>1. PICK a \in Get(kk, nn) : TRUE
    BY <1>3
  <2>2. a \in Slot /\ Holds(a, kk, nn) /\ a < i
    BY <2>1, GetFirst, <1>2
  <2>3. a \in Get(kk, nn)'
    <3>1. Holds(a, kk, nn)'
      BY <2>2, <1>2
    <3>2. ASSUME NEW j \in 1..(a - 1) PROVE ~Holds(j, kk, nn)'
      <4>1. j \in Slot /\ j < i
        BY <2>2, SlotsAssumption DEF Slot
      <4>2. ~Holds(j, kk, nn)
        BY <2>1 DEF Get, Holds
      <4> QED BY <4>1, <4>2, <1>2 DEF Slot
    <3> QED BY <2>2, <3>1, <3>2 DEF Get, Holds
  <2>4. \A b \in Get(kk, nn)' : b = a
    <3> SUFFICES ASSUME NEW b \in Get(kk, nn)' PROVE b = a
      OBVIOUS
    <3> QED BY <2>3, SlotsAssumption DEF Get, Slot
  <2>5. \A b \in Get(kk, nn) : b = a
    BY <2>1, GetFirst
  <2> QED BY <2>1, <2>3, <2>4, <2>5
<1>4. ASSUME NEW kk \in Kind, NEW nn \in Name, Get(kk, nn) = {}
      PROVE  Get(kk, nn)' = IF kk = k /\ nn = n THEN {i} ELSE {}
  <2>1. \A j \in Slot : ~Holds(j, kk, nn)
    BY <1>4, GetFirst
  <2>2. \A j \in Slot : Holds(j, kk, nn)' <=> j = i /\ kk = k /\ nn = n
    BY <2>1, <1>2
  <2>3. \A j : j \in Get(kk, nn)' <=>
          j \in Slot /\ Holds(j, kk, nn)' /\ \A x \in 1..(j - 1) : ~Holds(x, kk, nn)'
    BY DEF Get, Holds
  <2>4. \A j \in Slot : \A x \in 1..(j - 1) : x \in Slot /\ x # j
    BY SlotsAssumption DEF Slot
  <2> QED BY <2>2, <2>3, <2>4
<1>5. Visible' = Visible \cup {<<k, n>>}
  <2> SUFFICES ASSUME NEW kk \in Kind, NEW nn \in Name
               PROVE  Get(kk, nn)' # {} <=> Get(kk, nn) # {} \/ (kk = k /\ nn = n)
    BY DEF Visible
  <2> QED BY <1>3, <1>4
<1>6. ASSUME NEW key \in Visible
      PROVE  values'[Found(key)'].value = values[Found(key)].value
  <2>1. key[1] \in Kind /\ key[2] \in Name /\ Get(key[1], key[2]) # {}
    BY DEF Visible
  <2>2. Found(key) \in Get(key[1], key[2]) /\ Found(key)' = Found(key)
    BY <2>1, <1>3 DEF Found
  <2>3. Found(key) \in Slot /\ Found(key) # i
    BY <2>1, <2>2, <1>2, GetFirst DEF Slot
  <2> QED BY <2>2, <2>3, <1>1
<1>7. ASSUME <<k, n>> \notin Visible PROVE values'[Found(<<k, n>>)'].value = v
  <2>1. Get(k, n)' = {i}
    BY <1>4, <1>7 DEF Visible
  <2>2. Found(<<k, n>>)' = i
    BY <2>1 DEF Found
  <2> QED BY <2>2, <1>1
<1> QED BY <1>5, <1>6, <1>7

-----------------------------------------------------------------------------
LEMMA FilledFinite == IsFiniteSet(Filled) /\ Cardinality(Filled) \in Nat
<1>1. IsFiniteSet(Slot)
  BY FS_Interval, SlotsAssumption DEF Slot
<1>2. Filled \subseteq Slot
  BY DEF Filled
<1> QED BY <1>1, <1>2, FS_Subset, FS_CardinalityType

LEMMA MapInit == Init => Exchange!Init
<1> SUFFICES ASSUME Init PROVE Exchange!Init
  OBVIOUS
<1>1. ~Open
  BY DEF Init, Open
<1> QED BY <1>1 DEF Exchange!Init, Exchange!Empty

LEMMA MapOpen ==
  ASSUME IInv, NEW c \in Code, Begin(c) PROVE Exchange!Open
<1>1. ~Open /\ Open' /\ \A i \in Slot : Free(i)'
  BY BeginStep DEF Open
<1>2. Filled' = {}
  BY <1>1 DEF Filled, Slot
<1>3. Visible' = {}
  <2> SUFFICES ASSUME NEW k \in Kind, NEW n \in Name PROVE Get(k, n)' = {}
    BY DEF Visible
  <2> QED BY <1>1, NullAssumption DEF Get, Free, Slot
<1>4. TheMap' = Exchange!Empty
  BY <1>1, <1>3 DEF TheMap, Exchange!Empty
<1>5. TheGiven' = 0
  BY <1>1, <1>2, FS_EmptySet DEF TheGiven
<1> QED BY <1>1, <1>4, <1>5 DEF Exchange!Open, TheMap, TheGiven, Found, Filled

LEMMA MapGive ==
  ASSUME IInv, NEW k \in Kind, NEW n \in Name, NEW v \in Value, SetValue(k, n, v)
  PROVE  Exchange!Give(<<k, n>>, v)
<1>1. PICK i \in Slot :
        /\ Free(i) /\ \A j \in Filled : j < i
        /\ values' = [values EXCEPT ![i] = [name |-> n, kind |-> k, value |-> v]]
        /\ Filled' = Filled \cup {i}
  BY SetValueStep
<1>2. Open /\ Open'
  BY SetValueStep DEF Open
<1>3. /\ Visible' = Visible \cup {<<k, n>>}
      /\ \A key \in Visible : values'[Found(key)'].value = values[Found(key)].value
      /\ <<k, n>> \notin Visible => values'[Found(<<k, n>>)'].value = v
  BY <1>1, FillStep
<1>4. TheMap = [key \in Visible |-> values[Found(key)].value]
  BY <1>2 DEF TheMap
<1>5. TheMap' = [key \in Visible' |-> values'[Found(key)'].value]
  BY <1>2 DEF TheMap
<1>6. TheMap' = [key \in DOMAIN TheMap \cup {<<k, n>>} |->
                   IF key \in DOMAIN TheMap THEN TheMap[key] ELSE v]
  BY <1>3, <1>4, <1>5
<1>7. TheGiven' = TheGiven + 1
  <2>1. i \notin Filled
    BY <1>1 DEF Slot
  <2>2. Cardinality(Filled \cup {i}) = Cardinality(Filled) + 1
    BY <2>1, FilledFinite, FS_AddElement
  <2> QED BY <1>1, <1>2, <2>2 DEF TheGiven
<1>8. TheGiven < MAX_VALUES
  <2>1. Filled \subseteq Slot \ {i} /\ Slot \ {i} \subseteq Slot
    BY <1>1 DEF Filled
  <2>2. IsFiniteSet(Slot) /\ Cardinality(Slot) = MAX_VALUES
    BY FS_Interval, SlotsAssumption DEF Slot
  <2>3. Cardinality(Filled) <= Cardinality(Slot) /\ (Cardinality(Filled) = Cardinality(Slot) => Filled = Slot)
    BY <2>1, <2>2, FS_Subset
  <2> QED BY <1>2, <2>1, <2>2, <2>3, FilledFinite, SlotsAssumption DEF TheGiven
<1> QED BY <1>2, <1>6, <1>7, <1>8 DEF Exchange!Give, TheMap, TheGiven, Found, Filled

LEMMA MapClose == ASSUME IInv, End PROVE Exchange!Close
<1>1. Open /\ ~Open'
  BY EndStep
<1> QED BY <1>1 DEF Exchange!Close, Exchange!Empty

LEMMA MapPassing == ASSUME IInv, Passing PROVE UNCHANGED Exchange!vars
<1>1. UNCHANGED <<begin, end, values>>
  BY PassingStep
<1> QED BY <1>1 DEF Exchange!vars, Open, Visible, Get, Free

LEMMA MapStep == IInv /\ [Next]_vars => [Exchange!Next]_(Exchange!vars)
<1> SUFFICES ASSUME IInv, [Next]_vars PROVE [Exchange!Next]_(Exchange!vars)
  OBVIOUS
<1>1. CASE \E c \in Code : Begin(c)
  BY <1>1, MapOpen DEF Exchange!Next
<1>2. ASSUME NEW k \in Kind, NEW n \in Name, NEW v \in Value, SetValue(k, n, v)
      PROVE  Exchange!Next
  <2>1. <<k, n>> \in Kind \X Name
    OBVIOUS
  <2> QED BY <1>2, <2>1, MapGive DEF Exchange!Next
<1>3. CASE End
  BY <1>3, MapClose DEF Exchange!Next
<1>4. CASE Passing
  BY <1>4, MapPassing
<1> QED BY <1>1, <1>2, <1>3, <1>4, NextCases

\* The slots of cur_call behave as a write-once map that starts empty with every
\* callback and holds as many values as there are slots: neither side reads a
\* value of an earlier callback or one that was replaced (context2.c).
THEOREM SlotsAreAMap == Spec => WriteOnce
<1>1. Spec => []IInv
  BY InitIInv, IInvStep, PTL DEF Spec
<1> QED BY <1>1, MapInit, MapStep, PTL DEF Spec, WriteOnce, Exchange!Spec
=============================================================================
