-------------------------- MODULE SieveApi_proofs --------------------------
(***************************************************************************)
(* Proofs about SieveApi for every callback array, every set of scripts    *)
(* and any number of calls.                                                *)
(***************************************************************************)
EXTENDS SieveApi, FiniteSetTheorems, SequenceTheorems, WellFoundedInduction, TLAPS

-----------------------------------------------------------------------------
(* The least-number principle for sets, which stands in for induction. *)

\* A set of numbers that is not empty has a least element.
LEMMA Least ==
  ASSUME NEW T, T \subseteq Nat, T # {}
  PROVE  \E x \in T : \A y \in T : x <= y
<1> DEFINE less == OpToRel(<, Nat)
<1>1. IsWellFoundedOn(less, Nat)
  BY NatLessThanWellFounded DEF OpToRel
<1>2. less = {p \in Nat \X Nat : p[1] < p[2]}
  BY DEF OpToRel
<1> HIDE DEF less
<1>3. PICK x \in T : \A y \in T : ~(<<y, x>> \in less)
  BY <1>1, WFMin
<1>4. \A y \in T : ~(y < x)
  BY <1>2, <1>3
<1> QED BY <1>4

-----------------------------------------------------------------------------
\* Trees are numbered in the order of their allocation, so that the next one
\* is new.
TreesInv ==
  /\ parsed \in Nat /\ trees \subseteq 1..parsed
  /\ live \in BOOLEAN /\ wild = {}
  /\ TreeOwned

\* What makes a script acceptable is never taken back.
Acceptable(s) ==
  /\ s \in Script
  /\ s.requires \subseteq require /\ ~Malformed(s)
  /\ \A i \in DOMAIN s.commands : s.commands[i] \in require \cup {"none"}

AcceptInv ==
  /\ require \subseteq support
  /\ \A s \in accepted : Acceptable(s)

-----------------------------------------------------------------------------
LEMMA TreesStep == TreesInv /\ [Next]_vars => TreesInv'
<1> SUFFICES ASSUME TreesInv, [Next]_vars PROVE TreesInv'
  OBVIOUS
<1> USE DEF TreesInv, TreeOwned
<1>1. CASE Alloc
  BY <1>1 DEF Alloc
<1>2. CASE Free
  BY <1>2 DEF Free, FreeTree
<1>3. ASSUME NEW a \in Arrays, Register(a) PROVE TreesInv'
  BY <1>3 DEF Register
<1>4. ASSUME NEW s \in Scripts, Validate(s) PROVE TreesInv'
  <2>1. parsed' \in {parsed, parsed + 1} /\ cmds' = 0 /\ live' = live
    BY <1>4 DEF Validate, Parse
  <2>2. trees' = trees /\ wild' = wild
    <3>1. CASE HasTree(s)
      <4>1. parsed' = parsed + 1 /\ FreeTree(parsed', trees \cup {parsed'})
        BY <1>4, <3>1 DEF Validate, Parse
      <4> QED BY <4>1 DEF FreeTree
    <3>2. CASE ~HasTree(s)
      BY <1>4, <3>2 DEF Validate
    <3> QED BY <3>1, <3>2
  <2> QED BY <2>1, <2>2
<1>5. ASSUME NEW s \in Scripts, Execute(s) PROVE TreesInv'
  <2>1. CASE HasTree(s)
    <3>1. parsed' = parsed + 1 /\ cmds' = parsed' /\ trees' = trees \cup {parsed'}
      BY <1>5, <2>1 DEF Execute, Parse
    <3> QED BY <1>5, <3>1 DEF Execute
  <2>2. CASE ~HasTree(s)
    <3>1. parsed' = parsed /\ cmds' = 0 /\ trees' = trees
      BY <1>5, <2>2 DEF Execute, Parse
    <3> QED BY <1>5, <3>1 DEF Execute
  <2> QED BY <2>1, <2>2
<1>6. CASE NoGetscript("validate") \/ NoGetscript("execute")
           \/ ExecuteNotFinalized \/ ExecuteNoHeader \/ NextMessage \/ UNCHANGED vars
  <2>1. UNCHANGED <<live, cmds, trees, parsed, wild>>
    BY <1>6 DEF NoGetscript, ExecuteNotFinalized, ExecuteNoHeader, NextMessage, vars, history
  <2> QED BY <2>1
<1> QED BY <1>1, <1>2, <1>3, <1>4, <1>5, <1>6 DEF Next

\* No sequence of calls makes the library free a parsed script twice or leaves
\* a live context with one that was freed (script.cmds in script2.c).
THEOREM TreesAreOwned == Spec => []TreeOwned
<1>1. ASSUME Init PROVE TreesInv
  <2>1. parsed \in Nat /\ trees \subseteq 1..parsed
    BY <1>1 DEF Init
  <2>2. live = FALSE /\ wild = {}
    BY <1>1 DEF Init
  <2> QED BY <2>1, <2>2, Zenon DEF TreesInv, TreeOwned
<1>2. TreesInv => TreeOwned
  BY DEF TreesInv
<1> QED BY <1>1, <1>2, TreesStep, PTL DEF Spec

-----------------------------------------------------------------------------
\* The parser reports no error only if it found nothing to report.
LEMMA NoErrors ==
  ASSUME NEW s \in Script
  PROVE  ParseErrors(s) = 0 <=>
           s.requires \subseteq Requiring(s) /\ Lacking(s) = {} /\ ~Malformed(s)
<1>1. s.commands \in Seq(Gated \cup {"none"}) /\ Malformed(s) \in BOOLEAN
  BY DEF Script, Malformed
<1>2. Lacking(s) \subseteq 1..Len(s.commands) /\ Len(s.commands) \in Nat
  BY <1>1 DEF Lacking
<1>3. IsFiniteSet(Lacking(s))
  <2>1. IsFiniteSet(1..Len(s.commands))
    BY <1>2, FS_Interval
  <2> QED BY <1>2, <2>1, FS_Subset
<1>4. Cardinality(Lacking(s)) \in Nat /\ (Cardinality(Lacking(s)) = 0 <=> Lacking(s) = {})
  BY <1>3, FS_CardinalityType, FS_EmptySet
<1> QED BY <1>1, <1>4 DEF ParseErrors

\* A parse keeps every acceptable script acceptable and makes so those it
\* accepts.
LEMMA ParseKeeps ==
  ASSUME AcceptInv, NEW s \in Scripts, Parse(s), support' = support
  PROVE  AcceptInv'
<1>1. s \in Script /\ require' = Requiring(s)
  BY ScriptsAssumption DEF Parse
<1>2. require \subseteq require' /\ require' \subseteq support'
  BY <1>1 DEF AcceptInv, Requiring
<1>3. \A t \in accepted : Acceptable(t)'
  BY <1>2 DEF AcceptInv, Acceptable
<1>4. ASSUME ParseErrors(s) = 0 PROVE Acceptable(s)'
  <2>1. s.requires \subseteq require' /\ Lacking(s) = {} /\ ~Malformed(s)
    BY <1>1, <1>4, NoErrors
  <2> QED BY <1>1, <2>1 DEF Acceptable, Lacking
<1> QED BY <1>2, <1>3, <1>4 DEF AcceptInv, Parse

LEMMA AcceptStep == AcceptInv /\ [Next]_vars => AcceptInv'
<1> SUFFICES ASSUME AcceptInv, [Next]_vars PROVE AcceptInv'
  OBVIOUS
<1>1. CASE Alloc
  BY <1>1 DEF Alloc, AcceptInv
<1>2. ASSUME NEW a \in Arrays, Register(a) PROVE AcceptInv'
  <2>1. support \subseteq support' /\ UNCHANGED <<require, accepted>>
    BY <1>2 DEF Register, CheckSupport
  <2> QED BY <2>1 DEF AcceptInv, Acceptable
<1>3. ASSUME NEW s \in Scripts, Validate(s) \/ Execute(s) PROVE AcceptInv'
  BY <1>3, ParseKeeps DEF Validate, Execute
<1>4. CASE Free \/ NoGetscript("validate") \/ NoGetscript("execute")
           \/ ExecuteNotFinalized \/ ExecuteNoHeader \/ NextMessage \/ UNCHANGED vars
  <2>1. UNCHANGED <<support, require, accepted>>
    BY <1>4 DEF Free, NoGetscript, ExecuteNotFinalized, ExecuteNoHeader, NextMessage, vars, history
  <2> QED BY <2>1 DEF AcceptInv, Acceptable
<1> QED BY <1>1, <1>2, <1>3, <1>4 DEF Next

\* A context that has accepted a script once accepts it ever after: support and
\* require only grow (static_check_support, static_check_reqs).
THEOREM AcceptanceStays == Spec => AcceptedStays
<1> DEFINE A == calls' # calls /\ last'.name \in {"validate", "execute"}
                  /\ last'.script \in accepted => last'.errors = 0
<1>1. Init => AcceptInv
  BY DEF Init, AcceptInv
<1>2. AcceptInv /\ [Next]_vars => [A]_vars
  <2> SUFFICES ASSUME AcceptInv, Next PROVE A
    OBVIOUS
  <2>1. ASSUME NEW s \in Scripts, Validate(s) \/ Execute(s), s \in accepted
        PROVE  last'.script = s /\ last'.errors = 0
    <3>1. Acceptable(s) /\ require \subseteq support
      BY <2>1 DEF AcceptInv
    <3>2. s.requires \subseteq Requiring(s) /\ Lacking(s) = {}
      BY <3>1 DEF Acceptable, Requiring, Lacking
    <3>3. ParseErrors(s) = 0
      BY <3>1, <3>2, NoErrors DEF Acceptable
    <3> QED BY <2>1, <3>3 DEF Validate, Execute, Call
  <2>2. ASSUME NEW s \in Scripts, Validate(s) \/ Execute(s) PROVE last'.script = s
    BY <2>2 DEF Validate, Execute, Call
  <2>3. CASE Alloc \/ Free
    BY <2>3 DEF Alloc, Free, Call
  <2>6. ASSUME NEW a \in Arrays, Register(a) PROVE last'.name = "callbacks"
    BY <2>6 DEF Register, Call
  <2>4. CASE NoGetscript("validate") \/ NoGetscript("execute")
             \/ ExecuteNotFinalized \/ ExecuteNoHeader
    BY <2>4 DEF NoGetscript, ExecuteNotFinalized, ExecuteNoHeader, Call
  <2>5. CASE NextMessage
    BY <2>5 DEF NextMessage
  <2> QED BY <2>1, <2>2, <2>3, <2>4, <2>5, <2>6 DEF Next
<1> QED BY <1>1, <1>2, AcceptStep, PTL DEF Spec, AcceptedStays

-----------------------------------------------------------------------------
\* The commands in front of the first refused one are the first k.
LEMMA Reached ==
  ASSUME NEW s \in Script
  PROVE  LET S == {i \in DOMAIN s.commands : \A j \in 1..i : j \notin Lacking(s)}
         IN  /\ Cardinality(S) \in 0..Len(s.commands)
             /\ \A i \in 1..Cardinality(S) : i \in DOMAIN s.commands \ Lacking(s)
<1> DEFINE n == Len(s.commands)
           S == {i \in DOMAIN s.commands : \A j \in 1..i : j \notin Lacking(s)}
<1>1. n \in Nat /\ DOMAIN s.commands = 1..n
  BY DEF Script
<1>2. Lacking(s) \subseteq 1..n
  BY <1>1 DEF Lacking
<1>3. \E k \in 0..n : S = 1..k /\ \A i \in 1..k : i \notin Lacking(s)
  <2>1. CASE Lacking(s) = {}
    <3>1. S = 1..n
      BY <1>1, <2>1
    <3>2. n \in 0..n /\ \A i \in 1..n : i \notin Lacking(s)
      BY <1>1, <2>1
    <3> HIDE DEF S, n
    <3> QED BY <3>1, <3>2
  <2>2. CASE Lacking(s) # {}
    <3>1. PICK m \in Lacking(s) : \A j \in Lacking(s) : m <= j
      BY <1>2, <2>2, Least
    <3>2. m \in 1..n
      BY <1>2
    <3>3. S = 1..(m - 1)
      BY <1>1, <1>2, <3>1, <3>2
    <3>4. \A i \in 1..(m - 1) : i \notin Lacking(s)
      BY <1>2, <3>1, <3>2
    <3>5. m - 1 \in 0..n
      BY <1>1, <3>2
    <3> HIDE DEF S, n
    <3> QED BY <3>3, <3>4, <3>5
  <2> HIDE DEF S
  <2> QED BY <2>1, <2>2
<1>4. PICK k \in 0..n : S = 1..k /\ \A i \in 1..k : i \notin Lacking(s)
  BY <1>3
<1>5. Cardinality(S) = k
  <2>1. k \in Nat
    BY <1>1
  <2>2. Cardinality(1..k) = IF 1 > k THEN 0 ELSE k - 1 + 1
    BY <2>1, FS_Interval
  <2>3. Cardinality(1..k) = k
    BY <2>1, <2>2
  <2> HIDE DEF S
  <2> QED BY <1>4, <2>3
<1> HIDE DEF S
<1>6. /\ Cardinality(S) \in 0..n
      /\ \A i \in 1..Cardinality(S) : i \in DOMAIN s.commands \ Lacking(s)
  BY <1>1, <1>4, <1>5
<1> QED BY <1>6 DEF S

\* What is evaluated of a script is required by it or by one before it.
LEMMA EvaluatedRequired ==
  ASSUME NEW s \in Script
  PROVE  \A i \in DOMAIN Evaluated(s) :
           Evaluated(s)[i] # "none" => Evaluated(s)[i] \in Requiring(s)
<1>1. CASE ~HasTree(s)
  BY <1>1 DEF Evaluated
<1>2. CASE HasTree(s)
  <2> DEFINE c == s.commands
             k == Cardinality({i \in DOMAIN c : \A j \in 1..i : j \notin Lacking(s)})
  <2>1. k \in 0..Len(c) /\ \A i \in 1..k : i \in DOMAIN c \ Lacking(s)
    BY Reached
  <2>2. Evaluated(s) = SubSeq(c, 1, k)
    BY <1>2 DEF Evaluated
  <2> HIDE DEF k
  <2>3. c \in Seq(Gated \cup {"none"})
    BY DEF Script
  <2>4. /\ DOMAIN SubSeq(c, 1, k) = 1..k
        /\ \A i \in 1..k : SubSeq(c, 1, k)[i] = c[i]
    BY <2>1, <2>3
  <2>5. \A i \in DOMAIN c \ Lacking(s) : c[i] # "none" => c[i] \in Requiring(s)
    BY DEF Lacking
  <2> QED BY <2>1, <2>2, <2>4, <2>5
<1> QED BY <1>1, <1>2

LEMMA RanStep == AcceptInv /\ RanRequired /\ [Next]_vars => RanRequired'
<1> SUFFICES ASSUME AcceptInv, RanRequired, [Next]_vars PROVE RanRequired'
  OBVIOUS
<1>1. ASSUME NEW s \in Scripts, Execute(s) PROVE RanRequired'
  <2>1. s \in Script /\ require' = Requiring(s) /\ support' = support
    BY <1>1, ScriptsAssumption DEF Execute, Parse
  <2>2. require' \subseteq support'
    BY <2>1 DEF AcceptInv, Requiring
  <2>3. last'.ran = Evaluated(s)
    BY <1>1 DEF Execute, Call
  <2> QED BY <2>1, <2>2, <2>3, EvaluatedRequired DEF RanRequired
<1>2. CASE NextMessage \/ UNCHANGED vars
  BY <1>2 DEF NextMessage, vars, RanRequired
<1>3. ASSUME \/ Alloc \/ Free \/ NoGetscript("validate") \/ NoGetscript("execute")
             \/ ExecuteNotFinalized \/ ExecuteNoHeader
             \/ \E a \in Arrays : Register(a)
             \/ \E s \in Scripts : Validate(s)
      PROVE  RanRequired'
  <2>1. \A name, t, e, r : Call(name, t, e, <<>>, r).ran = <<>>
    BY DEF Call
  <2>2. CASE Alloc \/ Free
    BY <2>1, <2>2 DEF Alloc, Free, RanRequired
  <2>3. CASE NoGetscript("validate") \/ NoGetscript("execute")
             \/ ExecuteNotFinalized \/ ExecuteNoHeader
    BY <2>1, <2>3 DEF NoGetscript, ExecuteNotFinalized, ExecuteNoHeader, RanRequired
  <2>4. ASSUME NEW a \in Arrays, Register(a) PROVE RanRequired'
    BY <2>1, <2>4 DEF Register, RanRequired
  <2>5. ASSUME NEW s \in Scripts, Validate(s) PROVE RanRequired'
    BY <2>1, <2>5 DEF Validate, RanRequired
  <2> QED BY <1>3, <2>2, <2>3, <2>4, <2>5
<1> QED BY <1>1, <1>2, <1>3 DEF Next

\* A command of an extension runs only after a script of this context required
\* the extension while it was supported, wherever the parse was cut short
\* (static_check_reqs and the checks of the commands in sieve.y).
THEOREM OnlyRequiredRuns == Spec => []RanRequired
<1>1. Init => AcceptInv /\ RanRequired
  BY DEF Init, AcceptInv, RanRequired, Call
<1> QED BY <1>1, AcceptStep, RanStep, PTL DEF Spec

-----------------------------------------------------------------------------
\* What a registration stores for a value is one of the entries for it.
LEMMA Stored ==
  ASSUME NEW a \in Arrays, Register(a), callbacks \in [Callback -> {"null", "client", "internal"}]
  PROVE  /\ callbacks' \in [Callback -> {"null", "client", "internal"}]
         /\ \A v \in Callback : callbacks'[v] = "internal" => callbacks[v] = "internal"
<1> DEFINE known == {i \in DOMAIN a : \A j \in 1..i : a[j][1] \in Callback}
           of(v) == {i \in known : a[i][1] = v}
           latest(v) == CHOOSE i \in of(v) : \A j \in of(v) : j <= i
<1>1. callbacks' = [v \in Callback |-> IF of(v) = {} THEN callbacks[v] ELSE a[latest(v)][2]]
  BY DEF Register
<1>2. a \in Seq((Callback \cup {"denotify"}) \X {"null", "client"})
  BY ArraysAssumption
<1>3. ASSUME NEW v \in Callback, of(v) # {} PROVE a[latest(v)][2] \in {"null", "client"}
  <2>1. PICK n \in Nat : DOMAIN a = 1..n
    BY <1>2
  <2> DEFINE mirror == {k \in 0..n : n - k \in of(v)}
  <2>2. mirror \in SUBSET Nat /\ mirror # {}
    <3>1. PICK i \in of(v) : i \in 1..n
      BY <1>3, <2>1
    <3>2. i \in Nat /\ n - i \in 0..n /\ n - (n - i) = i
      BY <3>1
    <3>3. n - i \in mirror
      BY <3>2
    <3>4. mirror \subseteq Nat
      OBVIOUS
    <3> QED BY <3>3, <3>4
  <2>3. PICK k \in mirror : \A j \in mirror : k <= j
    BY <2>2, Least
  <2>4. n - k \in of(v) /\ \A j \in of(v) : j <= n - k
    <3>1. ASSUME NEW j \in of(v) PROVE j <= n - k
      <4>1. j \in 1..n
        BY <2>1
      <4>2. n - j \in mirror
        BY <4>1
      <4> QED BY <2>3, <4>1, <4>2
    <3> QED BY <2>3, <3>1
  <2>5. latest(v) \in of(v)
    BY <2>4
  <2>6. latest(v) \in DOMAIN a
    BY <2>5
  <2> HIDE DEF latest
  <2> QED BY <1>2, <2>6
<1> HIDE DEF latest, of
<1>4. \A v \in Callback : callbacks'[v] \in {callbacks[v], "null", "client"}
  BY <1>1, <1>3
<1>5. callbacks' = [v \in Callback |-> callbacks'[v]]
  BY <1>1
<1> QED BY <1>4, <1>5

\* What a registration says, and what it does to the support bits: all or none.
LEMMA Registered ==
  ASSUME NEW a \in Arrays, Register(a)
  PROVE  /\ last'.name = "callbacks" /\ offered' = offered \cup Backed(callbacks')
         /\ \/ support' = CheckSupport(callbacks') /\ pending' = {}
            \/ /\ support' = support
               /\ pending' = pending \cup (Backed(callbacks') \ Backed(callbacks))
<1> DEFINE all == {i \in DOMAIN a : \A j \in 1..i : a[j][1] \in Callback} = DOMAIN a
<1>1. /\ support' = IF all THEN CheckSupport(callbacks') ELSE support
      /\ offered' = offered \cup Backed(callbacks')
      /\ pending' = IF all THEN {} ELSE pending \cup (Backed(callbacks') \ Backed(callbacks))
      /\ last' = Call("callbacks", NoScript, 0, <<>>, IF all THEN OK ELSE UNSUPPORTED)
  BY DEF Register
<1> HIDE DEF all
<1> QED BY <1>1 DEF Call

CallbacksTyped == callbacks \in [Callback -> {"null", "client", "internal"}]

\* The header callbacks are among those a context has.
LEMMA HeaderCallbacks == "getheader" \in Callback /\ "getallheaders" \in Callback
BY DEF Callback

LEMMA CallbacksStep == CallbacksTyped /\ [Next]_vars => CallbacksTyped'
<1> SUFFICES ASSUME CallbacksTyped, [Next]_vars PROVE CallbacksTyped'
  OBVIOUS
<1> USE DEF CallbacksTyped
<1>1. CASE Alloc
  BY <1>1 DEF Alloc, Blank
<1>2. ASSUME NEW a \in Arrays, Register(a) PROVE CallbacksTyped'
  BY <1>2, Stored
<1>3. ASSUME NEW s \in Scripts, Execute(s) PROVE CallbacksTyped'
  BY <1>3 DEF Execute, HeaderSource
<1>4. CASE ExecuteNoHeader
  BY <1>4 DEF ExecuteNoHeader
<1>5. ASSUME NEW s \in Scripts, Validate(s) PROVE CallbacksTyped'
  BY <1>5 DEF Validate
<1>6. CASE \/ Free \/ NoGetscript("validate") \/ NoGetscript("execute")
           \/ ExecuteNotFinalized \/ NextMessage \/ UNCHANGED vars
  BY <1>6 DEF Free, NoGetscript, ExecuteNotFinalized, NextMessage, vars
<1> QED BY <1>1, <1>2, <1>3, <1>4, <1>5, <1>6 DEF Next

-----------------------------------------------------------------------------
\* Supported is what has a callback and waits for no complete array, and nothing
\* that never had one.
SupportInv ==
  /\ require \subseteq support
  /\ Backed(callbacks) \ pending \subseteq support
  /\ support \subseteq offered

\* The header callbacks belong to no extension.
LEMMA SameBacked ==
  ASSUME CallbacksTyped, HeaderSource
  PROVE  Backed(callbacks') = Backed(callbacks)
<1>1. \A e \in Extension : CallbackOf[e] \in Callback \ {"getheader"}
  BY DEF Extension, Callback, CallbackOf
<1>2. \A v \in Callback \ {"getheader"} : callbacks'[v] = callbacks[v]
  BY DEF HeaderSource, CallbacksTyped
<1> QED BY <1>1, <1>2 DEF Backed

\* What a parse finds, when the support bits are as they should be.
LEMMA DueAtParse ==
  ASSUME SupportInv, NEW s \in Scripts
  PROVE  /\ WellFormed(s) /\ s.requires \subseteq Backed(callbacks) \ pending
              => ParseErrors(s) = 0
         /\ ParseErrors(s) = 0 => s.requires \subseteq offered
<1>1. s \in Script
  BY ScriptsAssumption
<1>2. ASSUME WellFormed(s), s.requires \subseteq Backed(callbacks) \ pending
      PROVE  ParseErrors(s) = 0
  <2>1. s.requires \subseteq Requiring(s)
    BY <1>2 DEF SupportInv, Requiring
  <2>2. Lacking(s) = {} /\ ~Malformed(s)
    BY <1>2, <2>1 DEF WellFormed, Lacking
  <2> QED BY <1>1, <2>1, <2>2, NoErrors
<1>3. ASSUME ParseErrors(s) = 0 PROVE s.requires \subseteq offered
  <2>1. s.requires \subseteq Requiring(s)
    BY <1>1, <1>3, NoErrors
  <2> QED BY <2>1 DEF SupportInv, Requiring
<1> QED BY <1>2, <1>3

LEMMA SupportStep ==
  CallbacksTyped /\ SupportInv /\ AdmissionIsDue /\ [Next]_vars => SupportInv' /\ AdmissionIsDue'
<1> SUFFICES ASSUME CallbacksTyped, SupportInv, AdmissionIsDue, [Next]_vars
             PROVE  SupportInv' /\ AdmissionIsDue'
  OBVIOUS
<1>1. CASE Alloc
  <2>1. Backed(callbacks') = {}
    <3>1. \A e \in Extension : CallbackOf[e] \in Callback
      BY DEF Callback
    <3> QED BY <1>1, <3>1 DEF Alloc, Blank, Backed
  <2>2. require' = {} /\ support' = {} /\ last'.name = "alloc"
    BY <1>1 DEF Alloc, Call
  <2> QED BY <2>1, <2>2 DEF SupportInv, AdmissionIsDue
<1>2. CASE Free
  <2>1. /\ last'.name = "free" /\ UNCHANGED <<callbacks, support, require, offered, pending>>
    BY <1>2 DEF Free, Call
  <2> QED BY <2>1 DEF SupportInv, AdmissionIsDue, Backed
<1>3. ASSUME NEW a \in Arrays, Register(a) PROVE SupportInv' /\ AdmissionIsDue'
  <2>1. require' = require /\ last'.name = "callbacks" /\ offered' = offered \cup Backed(callbacks')
    BY <1>3, Registered DEF Register
  <2>2. CASE support' = CheckSupport(callbacks') /\ pending' = {}
    BY <2>1, <2>2 DEF CheckSupport, SupportInv, AdmissionIsDue
  <2>3. CASE /\ support' = support
             /\ pending' = pending \cup (Backed(callbacks') \ Backed(callbacks))
    BY <2>1, <2>3 DEF SupportInv, AdmissionIsDue
  <2> QED BY <1>3, <2>2, <2>3, Registered
<1>4. ASSUME NEW s \in Scripts, Validate(s) \/ Execute(s) PROVE SupportInv' /\ AdmissionIsDue'
  <2>1. /\ Backed(callbacks') = Backed(callbacks) /\ require' = Requiring(s)
        /\ UNCHANGED <<support, offered, pending>>
    <3>1. CASE Validate(s)
      BY <3>1 DEF Validate, Parse
    <3>2. CASE Execute(s)
      BY <3>2, SameBacked DEF Execute, Parse
    <3> QED BY <1>4, <3>1, <3>2
  <2>2. last'.script = s /\ last'.errors = ParseErrors(s)
    BY <1>4 DEF Validate, Execute, Call
  <2>3. SupportInv'
    BY <2>1 DEF SupportInv, Requiring
  <2>4. AdmissionIsDue'
    BY <2>1, <2>2, DueAtParse DEF AdmissionIsDue
  <2> QED BY <2>3, <2>4
<1>5. CASE NoGetscript("validate") \/ NoGetscript("execute")
           \/ ExecuteNotFinalized \/ ExecuteNoHeader
  <2>1. /\ last'.errors = 0 /\ last'.script.requires = {}
        /\ UNCHANGED <<support, require, offered, pending>>
    BY <1>5 DEF NoGetscript, ExecuteNotFinalized, ExecuteNoHeader, Call, NoScript, history
  <2>2. Backed(callbacks') = Backed(callbacks)
    <3>1. CASE UNCHANGED callbacks
      BY <3>1
    <3>2. CASE ExecuteNoHeader
      <4>1. \A e \in Extension : CallbackOf[e] \in Callback \ {"getheader"}
        BY DEF Extension, Callback, CallbackOf
      <4>2. \A v \in Callback \ {"getheader"} : callbacks'[v] = callbacks[v]
        BY <3>2 DEF ExecuteNoHeader, CallbacksTyped
      <4> QED BY <4>1, <4>2 DEF Backed
    <3> QED BY <1>5, <3>1, <3>2 DEF NoGetscript, ExecuteNotFinalized
  <2> QED BY <2>1, <2>2 DEF SupportInv, AdmissionIsDue
<1>6. CASE NextMessage \/ UNCHANGED vars
  BY <1>6 DEF NextMessage, vars, history, SupportInv, AdmissionIsDue, Backed
<1> QED BY <1>1, <1>2, <1>3, <1>4, <1>5, <1>6 DEF Next

\* For every sequence of arrays, complete or cut short, and of scripts parsed
\* between them, a well-formed script is accepted when all that it requires has
\* its callback, and never when something it requires had none
\* (static_check_support, static_check_reqs).
THEOREM ScriptsAreAdmitted == Spec => []AdmissionIsDue
<1>1. Init => CallbacksTyped /\ SupportInv /\ AdmissionIsDue
  <2> SUFFICES ASSUME Init PROVE CallbacksTyped /\ SupportInv /\ AdmissionIsDue
    OBVIOUS
  <2>1. \A e \in Extension : CallbackOf[e] \in Callback
    BY DEF Callback
  <2>2. Backed(callbacks) = {} /\ last.name = "none"
    BY <2>1 DEF Init, Blank, Backed, Call
  <2> QED BY <2>2 DEF Init, Blank, CallbacksTyped, SupportInv, AdmissionIsDue
<1> QED BY <1>1, CallbacksStep, SupportStep, PTL DEF Spec

-----------------------------------------------------------------------------
\* A context holds headers of no message before its own, and some if the internal
\* getheader answers and the latest fetch went well.
HeadersInv ==
  /\ message \in Nat /\ born \in Nat /\ headers \subseteq born..message
  /\ born <= message
  /\ callbacks["getheader"] = "internal" /\ ~unread => headers # {}

LEMMA HeadersStep ==
  CallbacksTyped /\ HeadersInv /\ OwnHeaders /\ [Next]_vars => HeadersInv' /\ OwnHeaders'
<1> SUFFICES ASSUME CallbacksTyped, HeadersInv, OwnHeaders, [Next]_vars
             PROVE  HeadersInv' /\ OwnHeaders'
  OBVIOUS
<1>1. CASE Alloc
  <2>1. /\ headers' = {} /\ born' = message /\ message' = message /\ last'.name = "alloc"
        /\ callbacks'["getheader"] = "null"
    BY <1>1, HeaderCallbacks DEF Alloc, Call, Blank
  <2> QED BY <2>1 DEF HeadersInv, OwnHeaders
<1>2. CASE Free \/ NoGetscript("validate") \/ NoGetscript("execute") \/ ExecuteNotFinalized
           \/ \E s \in Scripts : Validate(s)
  <2>1. UNCHANGED <<callbacks, headers, message, born, unread>>
    BY <1>2 DEF Free, NoGetscript, ExecuteNotFinalized, Validate, history
  <2>2. last'.name # "execute" \/ last'.ret # OK
    BY <1>2 DEF Free, NoGetscript, ExecuteNotFinalized, Validate, Call, OK,
                GETSCRIPT, NOT_FINALIZED
  <2> QED BY <2>1, <2>2 DEF HeadersInv, OwnHeaders
<1>3. ASSUME NEW a \in Arrays, Register(a) PROVE HeadersInv' /\ OwnHeaders'
  <2>1. last'.name = "callbacks" /\ UNCHANGED <<headers, message, born, unread>>
    BY <1>3, Registered DEF Register
  <2>2. callbacks'["getheader"] = "internal" => callbacks["getheader"] = "internal"
    BY <1>3, Stored, HeaderCallbacks DEF CallbacksTyped
  <2> QED BY <2>1, <2>2 DEF HeadersInv, OwnHeaders
<1>4. CASE ExecuteNoHeader
  <2>1. /\ last'.ret = HEADER /\ unread' = TRUE /\ UNCHANGED <<headers, message, born>>
    BY <1>4 DEF ExecuteNoHeader, Call
  <2> QED BY <2>1 DEF HeadersInv, OwnHeaders, HEADER, OK
<1>5. ASSUME NEW s \in Scripts, Execute(s) PROVE HeadersInv' /\ OwnHeaders'
  <2>1. UNCHANGED <<message, born>>
    BY <1>5 DEF Execute
  <2>2. CASE UNCHANGED <<callbacks, headers, unread>>
    <3>1. HeadersInv'
      BY <2>1, <2>2 DEF HeadersInv
    <3>2. ASSUME born' = message', callbacks'["getheader"] = "internal"
          PROVE  headers' = {message'} \/ (unread' /\ headers' = {})
      <4>1. born..message = {message}
        BY <2>1, <3>2 DEF HeadersInv
      <4> QED BY <2>1, <2>2, <3>2, <4>1 DEF HeadersInv
    <3> QED BY <3>1, <3>2 DEF OwnHeaders
  <2>3. CASE headers' = headers \cup {message}
    <3>1. message \in born..message
      BY DEF HeadersInv
    <3>2. headers' \subseteq born'..message' /\ headers' # {}
      BY <2>1, <2>3, <3>1 DEF HeadersInv
    <3>3. ASSUME born' = message' PROVE headers' = {message'}
      <4>1. born..message = {message}
        BY <2>1, <3>3 DEF HeadersInv
      <4> QED BY <2>1, <2>3, <4>1 DEF HeadersInv
    <3>4. HeadersInv'
      BY <2>1, <3>2 DEF HeadersInv
    <3>5. OwnHeaders'
      BY <3>3 DEF OwnHeaders
    <3> QED BY <3>4, <3>5
  <2> QED BY <1>5, <2>2, <2>3 DEF Execute, HeaderSource
<1>6. CASE NextMessage
  <2>1. /\ message' = message + 1
        /\ UNCHANGED <<callbacks, headers, born, unread>>
    BY <1>6 DEF NextMessage, history
  <2>2. born'..message' = (born..message) \cup {message'} /\ born' # message'
    BY <2>1 DEF HeadersInv
  <2> QED BY <2>1, <2>2 DEF HeadersInv, OwnHeaders
<1>7. CASE UNCHANGED vars
  BY <1>7 DEF vars, history, HeadersInv, OwnHeaders
<1> QED BY <1>1, <1>2, <1>3, <1>4, <1>5, <1>6, <1>7 DEF Next

\* For every sequence of calls, a context that is used for one message only is
\* never evaluated over the headers of another, and over none only after a fetch
\* that failed (sieve2_alloc, sieve2_execute).
THEOREM HeadersAreOwn == Spec => []OwnHeaders
<1>1. Init => CallbacksTyped /\ HeadersInv /\ OwnHeaders
  BY HeaderCallbacks DEF Init, Blank, Call, CallbacksTyped, HeadersInv, OwnHeaders
<1> QED BY <1>1, CallbacksStep, HeadersStep, PTL DEF Spec

-----------------------------------------------------------------------------
HistoryTyped ==
  /\ offered \subseteq Extension /\ pending \subseteq offered
  /\ message \in 1..MaxMessages /\ born \in 1..message /\ unread \in BOOLEAN

LEMMA HistoryStep == HistoryTyped /\ [Next]_vars => HistoryTyped'
<1> SUFFICES ASSUME HistoryTyped, [Next]_vars PROVE HistoryTyped'
  OBVIOUS
<1>1. CASE Alloc
  <2>1. offered' = {} /\ pending' = {} /\ born' = message /\ message' = message /\ unread' = FALSE
    BY <1>1 DEF Alloc
  <2>2. message \in 1..message
    BY BoundsAssumption DEF HistoryTyped
  <2> QED BY <2>1, <2>2 DEF HistoryTyped
<1>2. ASSUME NEW a \in Arrays, Register(a) PROVE HistoryTyped'
  <2>1. UNCHANGED <<message, born, unread>>
    BY <1>2 DEF Register
  <2>2. Backed(callbacks') \subseteq Extension
    BY DEF Backed
  <2>3. offered' = offered \cup Backed(callbacks') /\ pending' \subseteq pending \cup Backed(callbacks')
    BY <1>2, Registered
  <2> QED BY <2>1, <2>2, <2>3 DEF HistoryTyped
<1>3. ASSUME NEW s \in Scripts, Execute(s) PROVE HistoryTyped'
  <2>1. UNCHANGED <<offered, pending, message, born>> /\ unread' \in {unread, FALSE}
    BY <1>3 DEF Execute, HeaderSource
  <2> QED BY <2>1 DEF HistoryTyped
<1>4. CASE NextMessage
  <2>1. message' \in 1..MaxMessages /\ message <= message'
    BY <1>4, BoundsAssumption DEF NextMessage, HistoryTyped
  <2>2. UNCHANGED <<offered, pending, born, unread>>
    BY <1>4 DEF NextMessage, history
  <2> QED BY <2>1, <2>2, BoundsAssumption DEF HistoryTyped
<1>5. CASE \/ Free \/ NoGetscript("validate") \/ NoGetscript("execute")
           \/ (\E s \in Scripts : Validate(s))
           \/ ExecuteNotFinalized \/ ExecuteNoHeader \/ UNCHANGED vars
  <2>1. UNCHANGED <<offered, pending, message, born>> /\ unread' \in {unread, TRUE}
    BY <1>5 DEF Free, NoGetscript, Validate, ExecuteNotFinalized, ExecuteNoHeader, vars, history
  <2> QED BY <2>1 DEF HistoryTyped
<1> QED BY <1>1, <1>2, <1>3, <1>4, <1>5 DEF Next

\* The context, the heap and the results keep their types; no tree is heard of
\* that the parser did not make.
THEOREM ContextTyped == Spec => []TypeOK
<1>1. Init => TypeOK
  <2> SUFFICES ASSUME Init PROVE TypeOK
    OBVIOUS
  <2>1. last.ret = OK /\ callbacks \in [Callback -> {"null", "client", "internal"}]
    BY DEF Init, Call, Blank
  <2>2. message \in 1..MaxMessages /\ 0 \in 0..MaxCalls
    BY BoundsAssumption DEF Init
  <2>3. 1..0 = {} /\ parsed = 0 /\ cmds = 0 /\ 0 \in 0..0 /\ 0 \in Nat
    BY DEF Init
  <2>4. offered = {} /\ pending = {} /\ unread = FALSE /\ born \in 1..message
    BY BoundsAssumption DEF Init
  <2> QED BY <2>1, <2>2, <2>3, <2>4 DEF Init, TypeOK
<1>2. TypeOK /\ [Next]_vars => TypeOK'
  <2> SUFFICES ASSUME TypeOK, [Next]_vars PROVE TypeOK'
    OBVIOUS
  <2>0. HistoryTyped'
    BY HistoryStep DEF TypeOK, HistoryTyped
  <2>1. CallbacksTyped'
    BY CallbacksStep DEF TypeOK, CallbacksTyped
  <2>2. ASSUME Calling PROVE calls' \in 0..MaxCalls
    BY <2>2, BoundsAssumption DEF TypeOK, Calling
  <2>3. ASSUME NEW s, s \in Scripts, Parse(s)
        PROVE  require' \subseteq Extension /\ accepted' \subseteq Scripts
               /\ parsed' = IF HasTree(s) THEN parsed + 1 ELSE parsed
    BY <2>3 DEF Parse, Requiring, TypeOK
  <2>4. CASE Alloc \/ Free
    <3>1. /\ live' \in BOOLEAN /\ Calling /\ last'.ret = OK
          /\ support' \in {support, {}} /\ require' \in {require, {}}
          /\ cmds' \in {cmds, 0} /\ headers' \in {headers, {}} /\ accepted' \in {accepted, {}}
          /\ UNCHANGED <<parsed, message>>
      <4>1. CASE Alloc
        BY <4>1 DEF Alloc, Call
      <4>2. CASE Free
        BY <4>2 DEF Free, Call
      <4> QED BY <2>4, <4>1, <4>2
    <3>2. trees' \subseteq trees /\ wild' \subseteq wild \cup ({cmds} \ {0})
      <4>1. CASE Alloc
        BY <4>1 DEF Alloc
      <4>2. CASE Free
        BY <4>2 DEF Free, FreeTree
      <4> QED BY <2>4, <4>1, <4>2
    <3>3. parsed' \in Nat /\ trees' \subseteq 1..parsed' /\ wild' \subseteq 1..parsed' /\ cmds' \in 0..parsed'
      BY <3>1, <3>2 DEF TypeOK
    <3> QED BY <2>0, <2>1, <2>2, <3>1, <3>3 DEF TypeOK, CallbacksTyped, HistoryTyped
  <2>5. ASSUME NEW a \in Arrays, Register(a) PROVE TypeOK'
    <3>1. support' \in {support, CheckSupport(callbacks')} /\ last'.ret \in {OK, UNSUPPORTED}
      <4> DEFINE all == {i \in DOMAIN a : \A j \in 1..i : a[j][1] \in Callback} = DOMAIN a
      <4>1. /\ support' = IF all THEN CheckSupport(callbacks') ELSE support
            /\ last' = Call("callbacks", NoScript, 0, <<>>, IF all THEN OK ELSE UNSUPPORTED)
        BY <2>5 DEF Register
      <4> HIDE DEF all
      <4> QED BY <4>1 DEF Call
    <3>2. /\ Calling
          /\ UNCHANGED <<live, require, cmds, trees, parsed, headers, message, accepted, wild>>
      BY <2>5 DEF Register
    <3>3. support' \subseteq Extension
      BY <3>1 DEF CheckSupport, Backed, TypeOK
    <3> QED BY <2>0, <2>1, <2>2, <3>1, <3>2, <3>3 DEF TypeOK, CallbacksTyped, HistoryTyped
  <2>6. ASSUME NEW s \in Scripts, Validate(s) PROVE TypeOK'
    <3>1. /\ Calling /\ Parse(s) /\ cmds' = 0 /\ last'.ret = OK
          /\ UNCHANGED <<live, callbacks, support, headers, message>>
      BY <2>6 DEF Validate, Call
    <3>2. parsed' \in Nat /\ trees' \subseteq 1..parsed' /\ wild' \subseteq 1..parsed'
      <4>1. CASE HasTree(s)
        <5>1. parsed' = parsed + 1 /\ FreeTree(parsed', trees \cup {parsed'})
          BY <2>6, <3>1, <4>1, <2>3 DEF Validate
        <5>2. parsed \in Nat /\ trees \subseteq 1..parsed /\ wild \subseteq 1..parsed
          BY DEF TypeOK
        <5>3. trees' = (trees \cup {parsed'}) \ {parsed'} /\ wild' = wild
          BY <5>1 DEF FreeTree
        <5> QED BY <5>1, <5>2, <5>3
      <4>2. CASE ~HasTree(s)
        BY <2>6, <3>1, <4>2, <2>3 DEF Validate, TypeOK
      <4> QED BY <4>1, <4>2
    <3> QED BY <2>0, <2>1, <2>2, <2>3, <3>1, <3>2 DEF TypeOK, CallbacksTyped, HistoryTyped
  <2>7. ASSUME NEW s \in Scripts, Execute(s) PROVE TypeOK'
    <3>1. /\ Calling /\ HeaderSource /\ Parse(s) /\ last'.ret = OK
          /\ UNCHANGED <<live, support, message, wild>>
      BY <2>7 DEF Execute, Call
    <3>2. parsed' \in Nat /\ trees' \subseteq 1..parsed' /\ cmds' \in 0..parsed'
          /\ wild' \subseteq 1..parsed'
      <4>1. CASE HasTree(s)
        <5>1. parsed' = parsed + 1 /\ cmds' = parsed' /\ trees' = trees \cup {parsed'}
          BY <2>7, <3>1, <4>1, <2>3 DEF Execute
        <5>2. parsed \in Nat /\ trees \subseteq 1..parsed /\ wild \subseteq 1..parsed
          BY DEF TypeOK
        <5> QED BY <3>1, <5>1, <5>2
      <4>2. CASE ~HasTree(s)
        <5>1. parsed' = parsed /\ cmds' = 0 /\ trees' = trees /\ wild' = wild
          BY <2>7, <3>1, <4>2, <2>3 DEF Execute
        <5>2. parsed \in Nat /\ trees \subseteq 1..parsed /\ wild \subseteq 1..parsed
          BY DEF TypeOK
        <5> QED BY <5>1, <5>2
      <4> QED BY <4>1, <4>2
    <3>3. headers' \subseteq 1..message'
      <4>1. message \in 1..MaxMessages /\ headers \subseteq 1..message /\ message' = message
        BY <3>1 DEF TypeOK
      <4>2. headers' \subseteq headers \cup {message}
        BY <3>1 DEF HeaderSource
      <4>3. message \in 1..message
        BY <4>1, BoundsAssumption
      <4> QED BY <4>1, <4>2, <4>3
    <3> QED BY <2>0, <2>1, <2>2, <2>3, <3>1, <3>2, <3>3 DEF TypeOK, CallbacksTyped, HistoryTyped
  <2>8. CASE NoGetscript("validate") \/ NoGetscript("execute")
             \/ ExecuteNotFinalized \/ ExecuteNoHeader
    <3>1. /\ Calling /\ last'.ret \in {GETSCRIPT, NOT_FINALIZED, HEADER}
          /\ UNCHANGED <<live, support, require, cmds, trees, parsed, headers, message,
                         accepted, wild>>
      BY <2>8 DEF NoGetscript, ExecuteNotFinalized, ExecuteNoHeader, Call, history
    <3> QED BY <2>0, <2>1, <2>2, <3>1 DEF TypeOK, CallbacksTyped, HistoryTyped
  <2>9. CASE NextMessage
    BY <2>0, <2>9, BoundsAssumption DEF NextMessage, TypeOK, HistoryTyped, history
  <2>10. CASE UNCHANGED vars
    BY <2>10 DEF vars, history, TypeOK
  <2> QED BY <2>4, <2>5, <2>6, <2>7, <2>8, <2>9, <2>10 DEF Next
<1> QED BY <1>1, <1>2, PTL DEF Spec
=============================================================================
