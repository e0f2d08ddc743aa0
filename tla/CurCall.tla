------------------------------ MODULE CurCall ------------------------------
(***************************************************************************)
(* context->cur_call and the functions of context2.c: the exchange of      *)
(* values between the library and the client's callback functions.  The    *)
(* libsieve_do_* functions of callbacks2.c all follow one discipline:      *)
(* begin, set the arguments, call the client, read its answers, end; they  *)
(* ignore the results of all but the reads.                                *)
(***************************************************************************)
EXTENDS Naturals, FiniteSets

CONSTANTS
  Code,        \* sieve2_values_t: the callbacks
  Name,        \* the names of values, up to case
  Value,       \* values that are not NULL
  MAX_VALUES,  \* slots of cur_call
  NULL

Kind == {"int", "string", "stringlist"}
Slot == 1..MAX_VALUES

ASSUME NullAssumption == NULL \notin Name \cup Value \cup Code
ASSUME SlotsAssumption == MAX_VALUES \in Nat

VARIABLES
  begin, end, code,  \* the members of cur_call of these names
  values,            \* cur_call.values
  allocated,         \* the slots whose name is allocated memory
  turn               \* what the libsieve_do_* function is doing

vars == <<begin, end, code, values, allocated, turn>>

Idle == turn = "idle"

\* sieve2_alloc clears the context; VAL_INT is the first kind.
Init ==
  /\ begin = 0 /\ end = 0 /\ code = NULL
  /\ values = [i \in Slot |-> [name |-> NULL, kind |-> "int", value |-> NULL]]
  /\ allocated = {} /\ turn = "idle"
-----------------------------------------------------------------------------
\* Mutant: the names of the call before stay in their slots.
BeginDirty(c) ==
  /\ Idle /\ turn' = "setting"
  /\ begin = end
  /\ begin' = 1 /\ end' = 0 /\ code' = c
  /\ UNCHANGED <<values, allocated>>

\* Mutant: begin counts the callbacks.
BeginCounting(c) ==
  /\ Idle /\ turn' = "setting"
  /\ begin = end /\ begin' = begin + 1 /\ end' = 0 /\ code' = c
  /\ values' = [i \in Slot |-> [values[i] EXCEPT !.name = NULL, !.value = NULL]]
  /\ UNCHANGED allocated

\* libsieve_callback_begin: refuses, unnoticed, inside another callback; the
\* kinds are left as they are.
Begin(c) ==
  /\ Idle /\ turn' = "setting"
  /\ IF begin # end THEN UNCHANGED <<begin, end, code, values>>
     ELSE /\ begin' = 1 /\ end' = 0 /\ code' = c
          /\ values' = [i \in Slot |-> [values[i] EXCEPT !.name = NULL, !.value = NULL]]
  /\ UNCHANGED allocated

Free(i) == values[i].name = NULL

\* Mutant: a value of the same name and kind is replaced.
SetValueAgain(k, n, v) ==
  LET hit == {i \in Slot : values[i].name = n /\ values[i].kind = k}
      i   == CHOOSE j \in Slot : IF hit # {} THEN j \in hit ELSE Free(j)
  IN  /\ turn \in {"setting", "client"}
      /\ hit # {} \/ \E j \in Slot : Free(j)
      /\ values' = [values EXCEPT ![i] = [name |-> n, kind |-> k, value |-> v]]
      /\ allocated' = allocated \cup {i}
      /\ UNCHANGED <<begin, end, code, turn>>

\* sieve2_setvalue_string, _stringlist and _int: the first slot without a name
\* is taken, whatever the others hold; without one, or without a name or a
\* value, the call fails and changes nothing.
SetValue(k, n, v) ==
  /\ turn \in {"setting", "client"}
  /\ \E i \in Slot :
       /\ Free(i) /\ \A j \in 1..(i - 1) : ~Free(j)
       /\ values' = [values EXCEPT ![i] = [name |-> n, kind |-> k, value |-> v]]
       /\ allocated' = allocated \cup {i}
  /\ UNCHANGED <<begin, end, code, turn>>

\* libsieve_callback_do: the client's function runs, if there is one.
Do(registered) ==
  /\ turn = "setting" /\ turn' = IF registered THEN "client" ELSE "reading"
  /\ UNCHANGED <<begin, end, code, values, allocated>>

Answer ==
  /\ turn = "client" /\ turn' = "reading"
  /\ UNCHANGED <<begin, end, code, values, allocated>>

\* Mutant: the names are not freed.
EndLeaking ==
  /\ turn = "reading" /\ turn' = "idle"
  /\ end' = 1 /\ code' = NULL
  /\ UNCHANGED <<begin, values, allocated>>

\* libsieve_callback_end: refuses, unnoticed, if it is not this callback's
\* turn; frees the names and leaves the pointers to them.
End ==
  /\ turn = "reading" /\ turn' = "idle"
  /\ IF begin = 1 /\ end = 0
     THEN /\ end' = 1 /\ code' = NULL
          /\ allocated' = {i \in allocated : Free(i)}
     ELSE UNCHANGED <<end, code, allocated>>
  /\ UNCHANGED <<begin, values>>

Next ==
  \/ \E c \in Code : Begin(c)
  \/ \E k \in Kind, n \in Name, v \in Value : SetValue(k, n, v)
  \/ \E registered \in BOOLEAN : Do(registered)
  \/ Answer
  \/ End

Spec == Init /\ [][Next]_vars
-----------------------------------------------------------------------------
Open == begin = 1 /\ end = 0

TypeOK ==
  /\ begin \in {0, 1} /\ end \in {0, 1} /\ code \in Code \cup {NULL}
  /\ values \in [Slot -> [name : Name \cup {NULL}, kind : Kind,
                          value : Value \cup {NULL}]]
  /\ allocated \subseteq Slot
  /\ turn \in {"idle", "setting", "client", "reading"}

\* A name that sieve2_getvalue_* compares during a callback is allocated: no
\* pointer that an earlier callback_end left behind is followed.
NamesAllocated == Open => \A i \in Slot : ~Free(i) => i \in allocated

\* Between callbacks no name is allocated: none is lost to the next begin.
NamesReleased == Idle => allocated = {}

\* Mutants: the kind of a slot is not compared; the last match counts.
GetAnyKind(k, n) == {i \in Slot : values[i].name = n}
GetLast(k, n) ==
  {i \in Slot : /\ values[i].name = n /\ values[i].kind = k
                /\ \A j \in (i + 1)..MAX_VALUES : ~(values[j].name = n /\ values[j].kind = k)}

\* The slot sieve2_getvalue_string, _stringlist or _int finds: the first with
\* the name and of the kind.
Get(k, n) ==
  {i \in Slot : /\ values[i].name = n /\ values[i].kind = k
                /\ \A j \in 1..(i - 1) : ~(values[j].name = n /\ values[j].kind = k)}

\* The slots are a write-once map: the client reads the arguments the library
\* set, the library the first answer the client gave, and nothing of an
\* earlier callback.
Visible == {key \in Kind \X Name : Get(key[1], key[2]) # {}}
Exchange == INSTANCE ValueMap WITH
  Capacity <- MAX_VALUES,
  open  <- Open,
  map   <- IF Open THEN [key \in Visible |->
                           values[CHOOSE i \in Get(key[1], key[2]) : TRUE].value]
                   ELSE [key \in {} |-> 0],
  given <- IF Open THEN Cardinality({i \in Slot : ~Free(i)}) ELSE 0
WriteOnce == Exchange!Spec
=============================================================================
