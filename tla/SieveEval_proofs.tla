-------------------------- MODULE SieveEval_proofs --------------------------
(***************************************************************************)
(* Proofs about SieveEval for every set of scripts, every registration of  *)
(* callbacks and any number of executions.                                 *)
(***************************************************************************)
EXTENDS SieveEval, SequenceTheorems, TLAPS

\* What ties the callbacks already made to the flags that later commands are
\* checked against: RejectExclusive alone does not survive a step.
FlagsCoverCallbacks == \A i \in DOMAIN performed : performed[i] \in actions
RejectIsAlone == "reject" \in actions => actions \cap Disposing = {}

\* A halting outcome is the last one because the result that goes with it is
\* still on its way out.
HaltIsPending ==
  \A i \in DOMAIN trace :
    trace[i].outcome \in {"refused", "stopped"} => i = Len(trace) /\ res # OK

IInv == TypeOK /\ FlagsCoverCallbacks /\ RejectIsAlone /\ RejectExclusive

\* The links of a command lead to commands of its script.
LEMMA Links ==
  ASSUME TypeOK, NEW n \in 1..Len(script)
  PROVE  {script[n].then, script[n].else, script[n].next} \subseteq 0..Len(script)
BY DEF TypeOK

\* The innermost call moves on to the next command.
LEMMA AdvanceType ==
  ASSUME TypeOK, NEW fs \in Stacks, fs # <<>>, fs[1] # 0
  PROVE  Advance(fs) \in Stacks
<1>1. fs \in Seq(0..Len(script)) /\ fs[1] \in 1..Len(script) /\ 1 \in 1..Len(fs)
  BY EmptySeq, ElementOfSeq DEF TypeOK, Stacks
<1>2. script[fs[1]].next \in 0..Len(script)
  BY <1>1, Links
<1> QED BY <1>1, <1>2, ExceptSeq DEF Advance, Stacks

\* The call below the innermost one is again the innermost after a return.
LEMMA TailType ==
  ASSUME NEW fs \in Stacks, fs # <<>>
  PROVE  /\ Tail(fs) \in Stacks
         /\ Len(fs) > 1 => Tail(fs) # <<>> /\ Tail(fs)[1] # 0
<1>1. fs \in Seq(0..Len(script)) /\ Len(fs) \in Nat \ {0}
  BY EmptySeq DEF Stacks
<1>2. /\ Tail(fs) \in Seq(0..Len(script)) /\ Len(Tail(fs)) = Len(fs) - 1
      /\ \A i \in 1..Len(Tail(fs)) : Tail(fs)[i] = fs[i+1]
  BY <1>1, HeadTailProperties
<1>3. ASSUME NEW i \in 2..Len(Tail(fs)) PROVE Tail(fs)[i] # 0
  <2>1. i \in 1..Len(Tail(fs)) /\ i + 1 \in 2..Len(fs)
    BY <1>1, <1>2
  <2> QED BY <1>2, <2>1 DEF Stacks
<1>4. ASSUME Len(fs) > 1 PROVE Tail(fs) # <<>> /\ Tail(fs)[1] # 0
  <2>1. Len(Tail(fs)) \in Nat \ {0} /\ 1 \in 1..Len(Tail(fs)) /\ 2 \in 2..Len(fs)
    BY <1>1, <1>2, <1>4
  <2>2. Tail(fs)[1] = fs[2]
    BY <1>2, <2>1
  <2> QED BY <2>1, <2>2, EmptySeq DEF Stacks
<1> QED BY <1>2, <1>3, <1>4 DEF Stacks

\* A call starts on top of one that stands at a command.
LEMMA PushType ==
  ASSUME NEW fs \in Stacks, fs # <<>>, fs[1] # 0, NEW b \in 0..Len(script)
  PROVE  <<b>> \o fs \in Stacks
<1>1. /\ fs \in Seq(0..Len(script)) /\ <<b>> \in Seq(0..Len(script))
      /\ Len(fs) \in Nat \ {0}
  BY EmptySeq DEF Stacks
<1>2. /\ <<b>> \o fs \in Seq(0..Len(script))
      /\ Len(<<b>> \o fs) = 1 + Len(fs)
      /\ \A i \in 1..1 + Len(fs) : (<<b>> \o fs)[i] = IF i <= 1 THEN b ELSE fs[i-1]
  BY <1>1, ConcatProperties
<1>3. ASSUME NEW i \in 2..Len(<<b>> \o fs) PROVE (<<b>> \o fs)[i] # 0
  <2>1. i - 1 \in 1..Len(fs) /\ (<<b>> \o fs)[i] = fs[i-1]
    BY <1>1, <1>2
  <2>2. i - 1 = 1 \/ i - 1 \in 2..Len(fs)
    BY <1>1, <2>1
  <2> QED BY <2>1, <2>2 DEF Stacks
<1> QED BY <1>2, <1>3 DEF Stacks

\* A command that At finds is a command of the script.
LEMMA AtCommand ==
  ASSUME TypeOK, NEW t, At(t)
  PROVE  /\ frames # <<>> /\ frames[1] \in 1..Len(script)
         /\ res = OK
BY EmptySeq, ElementOfSeq DEF TypeOK, Stacks, At, Idle

\* A command is noted with one of the four outcomes.
LEMMA NoteType ==
  ASSUME TypeOK, NEW t, At(t), NEW o \in Outcome, Note(o)
  PROVE  trace' \in Seq([node : 1..Len(script), outcome : Outcome])
<1>1. [node |-> frames[1], outcome |-> o] \in [node : 1..Len(script), outcome : Outcome]
  BY AtCommand
<1> QED BY <1>1, AppendProperties DEF Note, TypeOK

-----------------------------------------------------------------------------
LEMMA TypeStep == TypeOK /\ [Next]_vars => TypeOK'
<1> SUFFICES ASSUME TypeOK, [Next]_vars PROVE TypeOK'
  OBVIOUS
<1> USE DEF OK, STOP, EXEC
<1>1. CASE Start
  <2>1. /\ script' \in Seq(Command)
        /\ \A n \in DOMAIN script' :
             {script'[n].then, script'[n].else, script'[n].next}
                \subseteq {0} \cup (n+1)..Len(script')
    BY <1>1, ScriptsAssumption DEF Start
  <2>2. frames' \in Stacks'
    <3>1. CASE script' = <<>>
      BY <1>1, <3>1 DEF Start, Stacks
    <3>2. CASE script' # <<>>
      <4>1. Len(script') \in Nat \ {0}
        BY <2>1, <3>2, EmptySeq
      <4> QED BY <1>1, <3>2, <4>1 DEF Start, Stacks
    <3> QED BY <3>1, <3>2
  <2>3. registered' \subseteq Action
    BY <1>1, RegistrationsAssumption DEF Start
  <2>4. runs' \in 0..MaxRuns
    BY <1>1, MaxRunsAssumption DEF Start, TypeOK
  <2> QED BY <1>1, <2>1, <2>2, <2>3, <2>4 DEF Start, TypeOK, Stacks
<1>2. ASSUME NEW a \in Action, Perform(a) PROVE TypeOK'
  <2> USE <1>2
  <2>1. At(a) /\ frames # <<>> /\ frames[1] # 0
    BY AtCommand DEF Perform
  <2>2. frames' \in Stacks
    BY <2>1, AdvanceType DEF Perform, TypeOK
  <2>3. trace' \in Seq([node : 1..Len(script), outcome : Outcome])
    BY <2>1, NoteType DEF Perform, Outcome
  <2>4. performed' \in Seq(Action)
    <3>1. performed \in Seq(Action) /\ Append(performed, a) \in Seq(Action)
      BY AppendProperties DEF TypeOK
    <3> QED BY <3>1 DEF Perform
  <2> QED BY <2>2, <2>3, <2>4 DEF Perform, TypeOK, Stacks
<1>3. CASE StaySilent
  <2>1. frames' \in Stacks
    BY <1>3, AtCommand, AdvanceType DEF StaySilent, TypeOK
  <2>2. trace' \in Seq([node : 1..Len(script), outcome : Outcome])
    BY <1>3, NoteType DEF StaySilent, Outcome
  <2> QED BY <1>3, <2>1, <2>2 DEF StaySilent, TypeOK, Stacks
<1>4. CASE Flag
  <2>1. frames' \in Stacks
    <3>1. frames # <<>> /\ frames[1] # 0
      BY <1>4, AtCommand DEF Flag
    <3> QED BY <1>4, <3>1, AdvanceType DEF Flag, TypeOK
  <2>2. trace' \in Seq([node : 1..Len(script), outcome : Outcome])
    BY <1>4, NoteType DEF Flag, Outcome
  <2> QED BY <1>4, <2>1, <2>2 DEF Flag, TypeOK, Stacks
<1>5. CASE Stop
  <2>1. trace' \in Seq([node : 1..Len(script), outcome : Outcome])
    BY <1>5, NoteType DEF Stop, Outcome
  <2> QED BY <1>5, <2>1 DEF Stop, TypeOK, Stacks
<1>6. CASE If
  <2>1. PICK branch \in {script[frames[1]].then, script[frames[1]].else} :
          frames' = <<branch>> \o frames
    BY <1>6 DEF If
  <2>2. branch \in 0..Len(script)
    BY <1>6, AtCommand, Links DEF If
  <2>3. frames' \in Stacks
    <3>1. frames \in Stacks /\ frames # <<>> /\ frames[1] # 0
      BY <1>6, AtCommand DEF If, TypeOK
    <3> QED BY <2>1, <2>2, <3>1, PushType
  <2>4. trace' \in Seq([node : 1..Len(script), outcome : Outcome])
    BY <1>6, NoteType DEF If, Outcome
  <2> QED BY <1>6, <2>3, <2>4 DEF If, TypeOK, Stacks
<1>7. CASE Return
  <2>1. frames \in Stacks /\ frames # <<>>
    BY <1>7 DEF Return, ReturnTo, Idle, TypeOK
  <2>2. Tail(frames) \in Stacks
    BY <2>1, TailType
  <2>3. Len(frames) > 1 => Advance(Tail(frames)) \in Stacks
    BY <2>1, <2>2, TailType, AdvanceType
  <2>4. frames' \in Stacks
    BY <1>7, <2>2, <2>3 DEF Return, ReturnTo
  <2> QED BY <1>7, <2>4 DEF Return, ReturnTo, TypeOK, Stacks
<1>8. CASE UNCHANGED vars
  BY <1>8 DEF vars, TypeOK, Stacks
<1> QED BY <1>1, <1>2, <1>3, <1>4, <1>5, <1>6, <1>7, <1>8 DEF Next, Evaluate

\* Every state has the types of TypeOK, whatever the scripts are: frames holds
\* commands of the script under execution, and a call that waits for a nested
\* one waits at its `if' (libsieve_eval).
THEOREM TypeCorrect == Spec => []TypeOK
<1>1. Init => TypeOK
  BY MaxRunsAssumption DEF Init, TypeOK, Stacks, OK, STOP, EXEC
<1> QED BY <1>1, TypeStep, PTL DEF Spec

-----------------------------------------------------------------------------
LEMMA IInvStep == IInv /\ [Next]_vars => IInv'
<1> SUFFICES ASSUME IInv, [Next]_vars PROVE IInv'
  OBVIOUS
<1> USE DEF IInv
<1>1. TypeOK'
  BY TypeStep
<1>2. ASSUME NEW a \in Action, Perform(a), actions \cap Refusing[a] = {}
      PROVE  (FlagsCoverCallbacks /\ RejectIsAlone /\ RejectExclusive)'
  <2> DEFINE p == Append(performed, a)
  <2>1. performed \in Seq(Action) /\ actions' = actions \cup {a}
    BY <1>2 DEF Perform, TypeOK
  <2>2. performed' \in {performed, p}
    BY <1>2 DEF Perform
  <2>3. /\ DOMAIN p = 1..Len(performed) + 1 /\ DOMAIN performed = 1..Len(performed)
        /\ \A i \in DOMAIN performed : p[i] = performed[i]
        /\ p[Len(performed) + 1] = a
    BY <2>1, AppendProperties, LenProperties
  <2>4. \A i \in DOMAIN performed : performed[i] \in actions
    BY DEF FlagsCoverCallbacks
  <2>5. FlagsCoverCallbacks'
    BY <2>1, <2>2, <2>3, <2>4 DEF FlagsCoverCallbacks
  <2>6. /\ a = "reject" => actions \cap (Disposing \cup {"reject"}) = {}
        /\ a \in Disposing => "reject" \notin actions
    BY <1>2 DEF Refusing, Disposing, Flagging
  <2>7. RejectIsAlone'
    BY <2>1, <2>6 DEF RejectIsAlone, Disposing
  <2>8. ASSUME NEW i \in DOMAIN p, NEW j \in DOMAIN p, i # j, p[i] = "reject",
               p[j] \in Disposing \cup {"reject"}
        PROVE  FALSE
    <3>1. CASE i \in DOMAIN performed /\ j \in DOMAIN performed
      BY <2>3, <2>8, <3>1 DEF RejectExclusive
    <3>2. CASE i = Len(performed) + 1 /\ j \in DOMAIN performed
      BY <2>3, <2>4, <2>6, <2>8, <3>2
    <3>3. CASE j = Len(performed) + 1 /\ i \in DOMAIN performed
      BY <2>3, <2>4, <2>6, <2>8, <3>3
    <3> QED BY <2>1, <2>3, <2>8, <3>1, <3>2, <3>3
  <2>9. RejectExclusive'
    BY <2>2, <2>8 DEF RejectExclusive
  <2> QED BY <2>5, <2>7, <2>9
<1>3. ASSUME UNCHANGED <<actions, performed>>
      PROVE  (FlagsCoverCallbacks /\ RejectIsAlone /\ RejectExclusive)'
  BY <1>3 DEF FlagsCoverCallbacks, RejectIsAlone, RejectExclusive
<1>4. \/ UNCHANGED <<actions, performed>>
      \/ \E a \in Action : Perform(a) /\ actions \cap Refusing[a] = {}
  BY DEF Next, Evaluate, Start, Perform, StaySilent, Flag, Stop, If, Return, ReturnTo, vars
<1> QED BY <1>1, <1>2, <1>3, <1>4

LEMMA Inductive == Spec => []IInv
<1>1. Init => IInv
  BY MaxRunsAssumption
  DEF Init, IInv, TypeOK, Stacks, FlagsCoverCallbacks, RejectIsAlone,
      RejectExclusive, OK, STOP, EXEC
<1> QED BY <1>1, IInvStep, PTL DEF Spec

\* No script, no nesting and no number of executions makes a context reject a
\* message and also file, redirect, keep, answer or reject it
\* (the checks at the head of the libsieve_do_* functions).
THEOREM RejectIsExclusive == Spec => []RejectExclusive
BY Inductive, PTL DEF IInv

-----------------------------------------------------------------------------
LEMMA HaltStep == TypeOK /\ HaltIsPending /\ [Next]_vars => HaltIsPending'
<1> SUFFICES ASSUME TypeOK, HaltIsPending, [Next]_vars PROVE HaltIsPending'
  OBVIOUS
<1> USE DEF OK, STOP, EXEC
<1>1. CASE Start
  BY <1>1 DEF Start, HaltIsPending
<1>2. ASSUME NEW o \in Outcome, Note(o), res = OK,
             o \in {"refused", "stopped"} => res' # OK
      PROVE  HaltIsPending'
  <2>1. /\ Len(trace) \in Nat /\ DOMAIN trace = 1..Len(trace)
        /\ DOMAIN trace' = 1..Len(trace) + 1 /\ Len(trace') = Len(trace) + 1
        /\ \A i \in DOMAIN trace : trace'[i] = trace[i]
        /\ trace'[Len(trace) + 1].outcome = o
    <3> DEFINE E == [node : {frames[1]} \cup 1..Len(script), outcome : Outcome]
    <3>1. trace \in Seq(E) /\ [node |-> frames[1], outcome |-> o] \in E
      BY SeqMonotonic DEF TypeOK
    <3> QED BY <1>2, <3>1, AppendProperties, LenProperties DEF Note
  <2>2. \A i \in DOMAIN trace : trace[i].outcome \notin {"refused", "stopped"}
    BY <1>2 DEF HaltIsPending
  <2> QED BY <1>2, <2>1, <2>2 DEF HaltIsPending
<1>3. ASSUME NEW a \in Action, Perform(a) PROVE HaltIsPending'
  BY <1>2, <1>3, AtCommand DEF Perform, Outcome
<1>4. CASE StaySilent \/ Flag \/ If \/ Stop
  BY <1>2, <1>4, AtCommand DEF StaySilent, Flag, If, Stop, Outcome
<1>5. CASE Return \/ UNCHANGED vars
  BY <1>5 DEF Return, ReturnTo, vars, HaltIsPending
<1> QED BY <1>1, <1>3, <1>4, <1>5 DEF Next, Evaluate

\* Nothing of a script runs after a stop or a refused action, at any depth of
\* nesting: `if (res) break' unwinds every active libsieve_eval.
THEOREM HaltFinal == Spec => []HaltIsFinal
<1>1. Init => TypeOK /\ HaltIsPending
  BY MaxRunsAssumption DEF Init, TypeOK, Stacks, HaltIsPending, OK, STOP, EXEC
<1>2. TypeOK /\ HaltIsPending => HaltIsFinal
  <2> SUFFICES ASSUME TypeOK, HaltIsPending, NEW i \in 1..(Len(trace) - 1)
               PROVE  trace[i].outcome \notin {"refused", "stopped"}
    BY DEF HaltIsFinal
  <2>1. i \in DOMAIN trace /\ i # Len(trace)
    BY LenProperties DEF TypeOK
  <2> QED BY <2>1 DEF HaltIsPending
<1> QED BY <1>1, <1>2, TypeStep, HaltStep, PTL DEF Spec
-----------------------------------------------------------------------------
\* Where the list of commands ends that a command is in, and what is behind the
\* command and all that is nested in it.
Bounds   == CHOOSE end \in [DOMAIN script -> 1..(Len(script) + 1)] : Numbered(script, end)
Ends(n)  == Bounds[n]
After(n) == Behind(script, Bounds, n)

\* Every call stands before what the calls below it go on with.
Pairs(fs) == \A i, j \in 1..Len(fs) : i < j /\ fs[i] # 0 => Ends(fs[i]) <= After(fs[j])

\* All that the calls will run comes behind the command m.
Beyond(fs, m) ==
  /\ fs[1] # 0 => m < fs[1]
  /\ \A j \in 2..Len(fs) : m < After(fs[j])

OrderInv ==
  /\ frames # <<>> => script \in Scripts
  /\ frames # <<>> /\ res = OK =>
       Pairs(frames) /\ \A k \in DOMAIN trace : Beyond(frames, trace[k].node)
  /\ DocumentOrder

\* What the numbering says of one command.
LEMMA Nesting ==
  ASSUME TypeOK, script \in Scripts, NEW n \in 1..Len(script)
  PROVE  LET c == script[n]
         IN  /\ Ends(n) \in Nat /\ After(n) \in Nat
             /\ n < After(n) /\ After(n) <= Ends(n)
             /\ c.next \in Nat /\ (c.next # 0 => c.next \in 1..Len(script) /\ After(n) = c.next
                                                 /\ Ends(c.next) <= Ends(n))
             /\ \A b \in {c.then, c.else} : b # 0 => /\ b \in 1..Len(script)
                                                     /\ n < b /\ Ends(b) \in Nat /\ b < Ends(b)
                                                     /\ Ends(b) <= After(n)
             /\ c.then # 0 /\ c.else # 0 => Ends(c.then) <= c.else
<1> DEFINE c == script[n]
<1>1. Bounds \in [DOMAIN script -> 1..(Len(script) + 1)] /\ Numbered(script, Bounds)
  BY NestingAssumption DEF Bounds
<1>2. /\ DOMAIN script = 1..Len(script) /\ Len(script) \in Nat
      /\ {c.then, c.else, c.next} \subseteq {0} \cup (n+1)..Len(script)
  BY DEF TypeOK
<1>3. \A m \in 1..Len(script) : Ends(m) \in Nat /\ m < Ends(m)
  BY <1>1, <1>2 DEF Numbered, Ends
<1>4. /\ c.next # 0 => Bounds[c.next] <= Bounds[n]
      /\ \A b \in {c.then, c.else} \ {0} : Bounds[b] <= Behind(script, Bounds, n)
      /\ 0 \notin {c.then, c.else} => Bounds[c.then] <= c.else
  BY <1>1, <1>2 DEF Numbered
<1>5. c.next # 0 => c.next \in 1..Len(script) /\ n < c.next /\ After(n) = c.next
  BY <1>2 DEF After, Behind
<1>6. c.next = 0 => After(n) = Ends(n)
  BY DEF After, Behind, Ends
<1>7. c.next \in Nat
  BY <1>2
<1>8. \A b \in {c.then, c.else} : b # 0 => b \in 1..Len(script) /\ n < b /\ Ends(b) <= After(n)
  BY <1>2, <1>4 DEF Ends, After
<1>9. c.next # 0 => Ends(c.next) <= Ends(n)
  BY <1>4 DEF Ends
<1>10. c.then # 0 /\ c.else # 0 => Ends(c.then) <= c.else
  BY <1>4 DEF Ends
<1> HIDE DEF c
<1>11. After(n) \in Nat /\ n < After(n) /\ After(n) <= Ends(n)
  BY <1>2, <1>3, <1>5, <1>6, <1>9
<1> QED BY <1>3, <1>5, <1>7, <1>8, <1>9, <1>10, <1>11 DEF c

\* The calls of a stack that wait stand at commands.
LEMMA Waiting ==
  ASSUME TypeOK, NEW fs \in Stacks, fs # <<>>
  PROVE  /\ Len(fs) \in Nat \ {0} /\ Len(script) \in Nat
         /\ fs[1] \in 0..Len(script)
         /\ \A j \in 2..Len(fs) : fs[j] \in 1..Len(script)
<1>1. fs \in Seq(0..Len(script)) /\ Len(fs) \in Nat \ {0} /\ Len(script) \in Nat
  BY EmptySeq DEF Stacks, TypeOK
<1>2. \A j \in 1..Len(fs) : fs[j] \in 0..Len(script)
  BY <1>1, ElementOfSeq
<1>3. ASSUME NEW j \in 2..Len(fs) PROVE fs[j] \in 1..Len(script)
  <2>1. j \in 1..Len(fs) /\ fs[j] # 0
    BY <1>1 DEF Stacks
  <2> QED BY <1>1, <1>2, <2>1
<1> QED BY <1>1, <1>2, <1>3

\* The three ways in which the stack changes.
LEMMA Advanced ==
  ASSUME TypeOK, NEW fs \in Stacks, fs # <<>>, fs[1] # 0
  PROVE  LET r == Advance(fs)
         IN  /\ r \in Stacks /\ r # <<>> /\ Len(r) = Len(fs)
             /\ r[1] = script[fs[1]].next
             /\ \A i \in 2..Len(fs) : r[i] = fs[i]
<1>1. fs \in Seq(0..Len(script)) /\ 1 \in 1..Len(fs) /\ Len(fs) \in Nat
  BY EmptySeq DEF Stacks
<1>2. Advance(fs) \in Stacks
  BY AdvanceType
<1>3. DOMAIN fs = 1..Len(fs)
  BY <1>1
<1>4. Len(Advance(fs)) = Len(fs) /\ Advance(fs) # <<>>
  <2>1. DOMAIN Advance(fs) = 1..Len(fs) /\ Advance(fs) \in Seq(0..Len(script))
    BY <1>2, <1>3 DEF Advance, Stacks
  <2>2. Len(Advance(fs)) = Len(fs)
    BY <1>1, <2>1, LenProperties
  <2> QED BY <1>1, <2>1, <2>2, EmptySeq
<1> QED BY <1>1, <1>2, <1>3, <1>4 DEF Advance

LEMMA Returned ==
  ASSUME TypeOK, NEW fs \in Stacks, fs # <<>>, Len(fs) > 1
  PROVE  LET r == Advance(Tail(fs))
         IN  /\ r \in Stacks /\ r # <<>> /\ Len(r) = Len(fs) - 1
             /\ fs[2] \in 1..Len(script)
             /\ r[1] = script[fs[2]].next
             /\ \A i \in 2..Len(r) : r[i] = fs[i + 1]
<1> DEFINE t == Tail(fs)
<1>1. fs \in Seq(0..Len(script)) /\ Len(fs) \in Nat
  BY DEF Stacks
<1>2. Len(t) = Len(fs) - 1 /\ \A i \in 1..Len(t) : t[i] = fs[i + 1]
  BY <1>1, HeadTailProperties
<1>3. t \in Stacks /\ t # <<>> /\ t[1] # 0
  BY TailType
<1>4. fs[2] \in 1..Len(script)
  BY <1>1, Waiting
<1> HIDE DEF t
<1>5. /\ Advance(t) \in Stacks /\ Advance(t) # <<>> /\ Len(Advance(t)) = Len(t)
      /\ Advance(t)[1] = script[t[1]].next
      /\ \A i \in 2..Len(t) : Advance(t)[i] = t[i]
  BY <1>3, Advanced
<1>6. t[1] = fs[2] /\ \A i \in 2..Len(t) : t[i] = fs[i + 1]
  BY <1>1, <1>2
<1> QED BY <1>2, <1>4, <1>5, <1>6 DEF t

LEMMA Called ==
  ASSUME TypeOK, NEW fs \in Stacks, fs # <<>>, fs[1] # 0, NEW b \in 0..Len(script)
  PROVE  LET r == <<b>> \o fs
         IN  /\ r \in Stacks /\ r # <<>> /\ Len(r) = Len(fs) + 1
             /\ r[1] = b
             /\ \A i \in 2..Len(r) : r[i] = fs[i - 1]
<1> DEFINE r == <<b>> \o fs
<1>1. fs \in Seq(0..Len(script)) /\ <<b>> \in Seq(0..Len(script)) /\ Len(fs) \in Nat \ {0}
  BY EmptySeq DEF Stacks
<1>2. /\ Len(r) = 1 + Len(fs)
      /\ \A i \in 1..1 + Len(fs) : r[i] = IF i <= 1 THEN b ELSE fs[i-1]
  BY <1>1, ConcatProperties
<1>3. r \in Stacks
  BY PushType
<1>4. r # <<>>
  BY <1>1, <1>2, <1>3, EmptySeq DEF Stacks
<1> HIDE DEF r
<1> QED BY <1>1, <1>2, <1>3, <1>4 DEF r

\* The calls on the stack stay in order when the innermost moves on, returns,
\* or calls another.
LEMMA AdvancedPairs ==
  ASSUME TypeOK, script \in Scripts, NEW fs \in Stacks, fs # <<>>, fs[1] # 0, Pairs(fs)
  PROVE  /\ Pairs(Advance(fs))
         /\ \A m \in Nat : m <= fs[1] => Beyond(Advance(fs), m)
<1> DEFINE r == Advance(fs)
<1>1. /\ Len(fs) \in Nat \ {0} /\ fs[1] \in 1..Len(script)
      /\ \A j \in 2..Len(fs) : fs[j] \in 1..Len(script)
  BY Waiting
<1>2. /\ Len(r) = Len(fs) /\ r[1] = script[fs[1]].next
      /\ \A i \in 2..Len(fs) : r[i] = fs[i]
  BY Advanced
<1> HIDE DEF r
<1>3. /\ r[1] \in Nat /\ Ends(fs[1]) \in Nat /\ fs[1] < Ends(fs[1])
      /\ r[1] # 0 => fs[1] < r[1] /\ r[1] \in 1..Len(script) /\ Ends(r[1]) <= Ends(fs[1])
  BY <1>1, <1>2, Nesting
<1>4. \A j \in 2..Len(fs) : After(fs[j]) \in Nat /\ Ends(fs[1]) <= After(fs[j])
  BY <1>1, Nesting DEF Pairs
<1>5. ASSUME NEW i \in 1..Len(r), NEW j \in 1..Len(r), i < j, r[i] # 0
      PROVE  Ends(r[i]) <= After(r[j])
  <2>1. j \in 2..Len(fs) /\ r[j] = fs[j]
    BY <1>1, <1>2, <1>5
  <2>2. CASE i = 1
    <3>1. r[1] \in 1..Len(script) /\ Ends(r[1]) <= Ends(fs[1])
      BY <1>3, <1>5, <2>2
    <3>2. Ends(r[1]) \in Nat
      BY <3>1, Nesting
    <3> QED BY <1>3, <1>4, <2>1, <2>2, <3>1, <3>2
  <2>3. CASE i # 1
    <3>1. i \in 2..Len(fs) /\ r[i] = fs[i]
      BY <1>1, <1>2, <2>3
    <3> QED BY <1>1, <1>2, <1>5, <2>1, <3>1 DEF Pairs
  <2> QED BY <2>2, <2>3
<1>6. ASSUME NEW m \in Nat, m <= fs[1] PROVE Beyond(r, m)
  BY <1>1, <1>2, <1>3, <1>4, <1>6 DEF Beyond
<1> QED BY <1>5, <1>6 DEF Pairs, r

LEMMA ReturnedPairs ==
  ASSUME TypeOK, script \in Scripts, NEW fs \in Stacks, fs # <<>>, Len(fs) > 1, Pairs(fs)
  PROVE  /\ Pairs(Advance(Tail(fs)))
         /\ \A m \in Nat : Beyond(fs, m) => Beyond(Advance(Tail(fs)), m)
<1> DEFINE r == Advance(Tail(fs))
<1>1. /\ Len(fs) \in Nat \ {0}
      /\ \A j \in 2..Len(fs) : fs[j] \in 1..Len(script)
  BY Waiting
<1>2. /\ Len(r) = Len(fs) - 1 /\ fs[2] \in 1..Len(script) /\ r[1] = script[fs[2]].next
      /\ \A i \in 2..Len(r) : r[i] = fs[i + 1]
  BY Returned
<1> HIDE DEF r
<1>3. /\ r[1] \in Nat /\ Ends(fs[2]) \in Nat /\ After(fs[2]) \in Nat
      /\ r[1] # 0 => r[1] \in 1..Len(script) /\ Ends(r[1]) <= Ends(fs[2]) /\ After(fs[2]) = r[1]
  BY <1>2, Nesting
<1>4. \A j \in 3..Len(fs) : After(fs[j]) \in Nat /\ Ends(fs[2]) <= After(fs[j])
  <2> SUFFICES ASSUME NEW j \in 3..Len(fs) PROVE After(fs[j]) \in Nat /\ Ends(fs[2]) <= After(fs[j])
    OBVIOUS
  <2>1. j \in 2..Len(fs) /\ 2 < j /\ 2 \in 1..Len(fs) /\ j \in 1..Len(fs) /\ fs[2] # 0
    BY <1>1, <1>2
  <2> QED BY <1>1, <2>1, Nesting DEF Pairs
<1>5. ASSUME NEW i \in 1..Len(r), NEW j \in 1..Len(r), i < j, r[i] # 0
      PROVE  Ends(r[i]) <= After(r[j])
  <2>1. j + 1 \in 3..Len(fs) /\ j \in 2..Len(r) /\ r[j] = fs[j + 1]
    BY <1>1, <1>2, <1>5
  <2>2. CASE i = 1
    <3>1. r[1] \in 1..Len(script) /\ Ends(r[1]) <= Ends(fs[2])
      BY <1>3, <1>5, <2>2
    <3>2. Ends(r[1]) \in Nat
      BY <3>1, Nesting
    <3> QED BY <1>3, <1>4, <2>1, <2>2, <3>1, <3>2
  <2>3. CASE i # 1
    <3>1. i \in 2..Len(r) /\ r[i] = fs[i + 1] /\ i + 1 \in 1..Len(fs) /\ j + 1 \in 1..Len(fs) /\ i + 1 < j + 1
      BY <1>1, <1>2, <1>5, <2>3
    <3> QED BY <1>5, <2>1, <3>1 DEF Pairs
  <2> QED BY <2>2, <2>3
<1>6. ASSUME NEW m \in Nat, Beyond(fs, m) PROVE Beyond(r, m)
  <2>1. \A j \in 2..Len(fs) : m < After(fs[j])
    BY <1>6 DEF Beyond
  <2>2. m < After(fs[2])
    BY <1>1, <2>1
  <2>3. ASSUME NEW j \in 2..Len(r) PROVE m < After(r[j])
    BY <1>1, <1>2, <2>1
  <2> QED BY <1>3, <2>2, <2>3 DEF Beyond
<1> QED BY <1>5, <1>6 DEF Pairs, r

LEMMA CalledPairs ==
  ASSUME TypeOK, script \in Scripts, NEW fs \in Stacks, fs # <<>>, fs[1] # 0, Pairs(fs),
         NEW b \in {script[fs[1]].then, script[fs[1]].else}
  PROVE  /\ Pairs(<<b>> \o fs)
         /\ \A m \in Nat : m <= fs[1] => Beyond(<<b>> \o fs, m)
<1> DEFINE r == <<b>> \o fs
<1>1. /\ Len(fs) \in Nat \ {0} /\ fs[1] \in 1..Len(script)
      /\ \A j \in 2..Len(fs) : fs[j] \in 1..Len(script)
  BY Waiting
<1>2. b \in 0..Len(script)
  BY <1>1, Links
<1>3. /\ Len(r) = Len(fs) + 1 /\ r[1] = b
      /\ \A i \in 2..Len(r) : r[i] = fs[i - 1]
  BY <1>2, Called
<1> HIDE DEF r
<1>4. /\ Ends(fs[1]) \in Nat /\ After(fs[1]) \in Nat /\ fs[1] < After(fs[1])
      /\ After(fs[1]) <= Ends(fs[1])
      /\ b # 0 => fs[1] < b /\ Ends(b) \in Nat /\ Ends(b) <= After(fs[1])
  BY <1>1, Nesting
<1>5. \A j \in 2..Len(fs) : After(fs[j]) \in Nat /\ Ends(fs[1]) <= After(fs[j])
  <2>1. \A j \in 2..Len(fs) : Ends(fs[1]) <= After(fs[j])
    BY <1>1 DEF Pairs
  <2>2. \A j \in 2..Len(fs) : After(fs[j]) \in Nat
    BY <1>1, Nesting
  <2> QED BY <2>1, <2>2
<1>6. \A j \in 2..Len(r) : After(r[j]) \in Nat /\ After(fs[1]) <= After(r[j])
  <2> SUFFICES ASSUME NEW j \in 2..Len(r) PROVE After(r[j]) \in Nat /\ After(fs[1]) <= After(r[j])
    OBVIOUS
  <2>1. CASE j = 2
    BY <1>1, <1>3, <1>4, <2>1
  <2>2. CASE j # 2
    <3>1. j - 1 \in 2..Len(fs) /\ r[j] = fs[j - 1]
      BY <1>1, <1>3, <2>2
    <3> QED BY <1>4, <1>5, <3>1
  <2> QED BY <2>1, <2>2
<1>7. ASSUME NEW i \in 1..Len(r), NEW j \in 1..Len(r), i < j, r[i] # 0
      PROVE  Ends(r[i]) <= After(r[j])
  <2>1. j \in 2..Len(r) /\ r[j] = fs[j - 1]
    BY <1>1, <1>3, <1>7
  <2>2. CASE i = 1
    BY <1>3, <1>4, <1>6, <1>7, <2>1, <2>2
  <2>3. CASE i # 1
    <3>1. i \in 2..Len(r) /\ r[i] = fs[i - 1] /\ i - 1 \in 1..Len(fs) /\ j - 1 \in 1..Len(fs) /\ i - 1 < j - 1
      BY <1>1, <1>3, <1>7, <2>1, <2>3
    <3> QED BY <1>7, <2>1, <3>1 DEF Pairs
  <2> QED BY <2>2, <2>3
<1>8. ASSUME NEW m \in Nat, m <= fs[1] PROVE Beyond(r, m)
  <2>1. b # 0 => m < b
    BY <1>1, <1>2, <1>4, <1>8
  <2>2. m < After(fs[1])
    BY <1>1, <1>4, <1>8
  <2>3. \A j \in 2..Len(r) : m < After(r[j])
    BY <1>4, <1>6, <2>2
  <2> QED BY <1>3, <2>1, <2>3 DEF Beyond
<1> QED BY <1>7, <1>8 DEF Pairs, r

\* A command is noted behind those that ran before it.
LEMMA Noted ==
  ASSUME TypeOK, OrderInv, NEW t, At(t), NEW o \in Outcome, Note(o)
  PROVE  /\ DocumentOrder'
         /\ DOMAIN trace = 1..Len(trace) /\ DOMAIN trace' = 1..(Len(trace) + 1) /\ Len(trace) \in Nat
         /\ \A k \in 1..Len(trace) : trace'[k] = trace[k] /\ trace[k].node \in 1..Len(script)
                                     /\ trace[k].node < frames[1]
         /\ trace'[Len(trace) + 1].node = frames[1]
<1>1. frames # <<>> /\ frames[1] \in 1..Len(script) /\ res = OK
  BY AtCommand
<1>2. Len(script) \in Nat
  BY DEF TypeOK
<1> DEFINE E == [node : 1..Len(script), outcome : Outcome]
           e == [node |-> frames[1], outcome |-> o]
<1>3. trace \in Seq(E) /\ e \in E /\ trace' = Append(trace, e)
  BY <1>1 DEF TypeOK, Note
<1>4. \A k \in 1..Len(trace) : trace[k] \in E
  BY <1>3, ElementOfSeq
<1>5. e.node = frames[1]
  OBVIOUS
<1>6. /\ Len(trace) \in Nat /\ DOMAIN trace = 1..Len(trace) /\ DOMAIN trace' = 1..(Len(trace) + 1)
      /\ \A k \in 1..Len(trace) : trace'[k] = trace[k]
      /\ trace'[Len(trace) + 1] = e
  <2> HIDE DEF e, E
  <2> QED BY <1>3, AppendProperties, LenProperties
<1>7. \A k \in 1..Len(trace) : trace[k].node \in 1..Len(script) /\ trace[k].node < frames[1]
  BY <1>1, <1>4, <1>6 DEF OrderInv, Beyond
<1> HIDE DEF e
<1>8. \A i, j \in 1..Len(trace) : i < j => trace[i].node < trace[j].node
  BY <1>6 DEF OrderInv, DocumentOrder
<1>9. DocumentOrder'
  BY <1>5, <1>6, <1>7, <1>8 DEF DocumentOrder
<1> QED BY <1>5, <1>6, <1>7, <1>9

\* After that, what the stack will run is behind all that was noted.
LEMMA NotedBehind ==
  ASSUME TypeOK, OrderInv, NEW t, At(t), NEW o \in Outcome, Note(o), UNCHANGED script,
         Pairs(frames)', \A m \in Nat : m <= frames[1] => Beyond(frames, m)'
  PROVE  OrderInv'
<1>1. frames # <<>> /\ frames[1] \in 1..Len(script) /\ script \in Scripts /\ Len(script) \in Nat
  BY AtCommand DEF OrderInv, TypeOK
<1>2. \A k \in DOMAIN trace' : trace'[k].node \in Nat /\ trace'[k].node <= frames[1]
  <2> SUFFICES ASSUME NEW k \in 1..(Len(trace) + 1)
               PROVE  trace'[k].node \in Nat /\ trace'[k].node <= frames[1]
    BY Noted
  <2>1. Len(trace) \in Nat
    BY Noted
  <2>2. CASE k = Len(trace) + 1
    BY <1>1, <2>2, Noted
  <2>3. CASE k # Len(trace) + 1
    <3>1. k \in 1..Len(trace)
      BY <2>1, <2>3
    <3>2. trace'[k] = trace[k] /\ trace[k].node \in 1..Len(script) /\ trace[k].node < frames[1]
      BY <3>1, Noted
    <3> QED BY <1>1, <3>2
  <2> QED BY <2>2, <2>3
<1>3. \A k \in DOMAIN trace' : Beyond(frames, trace[k].node)'
  BY <1>2 DEF Beyond, After, Bounds
<1>4. DocumentOrder'
  BY Noted
<1> QED BY <1>1, <1>3, <1>4 DEF OrderInv

LEMMA OrderStep == TypeOK /\ OrderInv /\ [Next]_vars => OrderInv'
<1> SUFFICES ASSUME TypeOK, OrderInv, [Next]_vars PROVE OrderInv'
  OBVIOUS
<1>1. CASE Start
  <2>1. script' \in Scripts /\ trace' = <<>> /\ frames' \in {<<0>>, <<1>>}
    BY <1>1 DEF Start
  <2>2. Pairs(frames)' /\ DOMAIN trace' = {}
    BY <2>1 DEF Pairs
  <2> QED BY <2>1, <2>2 DEF OrderInv, DocumentOrder
\* What goes on in the same call.
<1>2. ASSUME NEW t, At(t), NEW o \in Outcome, Note(o), UNCHANGED script, frames' = Advance(frames)
      PROVE  OrderInv'
  <2>1. frames \in Stacks /\ frames # <<>> /\ frames[1] # 0 /\ script \in Scripts /\ Pairs(frames)
    BY <1>2, AtCommand DEF TypeOK, OrderInv
  <2>2. /\ Pairs(Advance(frames))
        /\ \A m \in Nat : m <= frames[1] => Beyond(Advance(frames), m)
    BY <2>1, AdvancedPairs
  <2>3. Pairs(frames)' /\ \A m \in Nat : m <= frames[1] => Beyond(frames, m)'
    BY <1>2, <2>2 DEF Pairs, Beyond, Ends, After, Bounds
  <2> QED BY <1>2, <2>3, NotedBehind
\* What ends it.
<1>3. ASSUME NEW t, At(t), NEW o \in Outcome, Note(o), UNCHANGED <<script, frames>>, res' # OK
      PROVE  OrderInv'
  <2>1. DocumentOrder'
    BY <1>3, Noted
  <2> QED BY <1>3, <2>1 DEF OrderInv
<1>4. ASSUME NEW a \in Action, Perform(a) PROVE OrderInv'
  <2>1. CASE actions \cap Refusing[a] # {}
    BY <1>3, <1>4, <2>1 DEF Perform, Outcome, OK, EXEC
  <2>2. CASE actions \cap Refusing[a] = {}
    BY <1>2, <1>4, <2>2 DEF Perform, Outcome
  <2> QED BY <2>1, <2>2
<1>5. CASE StaySilent
  BY <1>2, <1>5 DEF StaySilent, Outcome
<1>6. CASE Flag
  BY <1>2, <1>6 DEF Flag, Outcome
<1>7. CASE Stop
  BY <1>3, <1>7 DEF Stop, Outcome, OK, STOP
<1>8. CASE If
  <2>1. PICK branch \in {script[frames[1]].then, script[frames[1]].else} :
          frames' = <<branch>> \o frames
    BY <1>8 DEF If
  <2>2. At("if") /\ Note("done") /\ UNCHANGED script
    BY <1>8 DEF If
  <2>3. frames \in Stacks /\ frames # <<>> /\ frames[1] # 0 /\ script \in Scripts /\ Pairs(frames)
    BY <2>2, AtCommand DEF TypeOK, OrderInv
  <2>4. /\ Pairs(<<branch>> \o frames)
        /\ \A m \in Nat : m <= frames[1] => Beyond(<<branch>> \o frames, m)
    BY <2>3, CalledPairs
  <2>5. Pairs(frames)' /\ \A m \in Nat : m <= frames[1] => Beyond(frames, m)'
    BY <2>1, <2>2, <2>4 DEF Pairs, Beyond, Ends, After, Bounds
  <2> QED BY <2>2, <2>5, NotedBehind DEF Outcome
<1>9. CASE Return
  <2>1. frames # <<>> /\ UNCHANGED <<script, trace>> /\ res' = res
    BY <1>9 DEF Return, ReturnTo, Idle
  <2>2. script' \in Scripts /\ DocumentOrder'
    BY <2>1 DEF OrderInv, DocumentOrder
  <2>3. ASSUME frames' # <<>>, res = OK
        PROVE  Pairs(frames)' /\ \A k \in DOMAIN trace' : Beyond(frames, trace[k].node)'
    <3>1. frames \in Stacks /\ Len(frames) \in Nat \ {0}
      BY <2>1, Waiting DEF TypeOK
    <3>2. Len(frames) > 1
      <4>1. frames \in Seq(0..Len(script))
        BY <3>1 DEF Stacks
      <4>2. Len(Tail(frames)) = Len(frames) - 1 /\ Tail(frames) \in Seq(0..Len(script))
        BY <2>1, <4>1, HeadTailProperties
      <4>3. ASSUME Len(frames) = 1 PROVE FALSE
        <5>1. frames' = Tail(frames)
          BY <1>9, <4>3 DEF Return, ReturnTo
        <5>2. Len(Tail(frames)) = 0
          BY <4>2, <4>3
        <5> QED BY <2>3, <4>2, <5>1, <5>2, EmptySeq
      <4>4. \A n \in Nat \ {0} : n # 1 => n > 1
        OBVIOUS
      <4> QED BY ONLY <3>1, <4>3, <4>4
    <3>3. frames' = Advance(Tail(frames))
      BY <1>9, <2>3, <3>2 DEF Return, ReturnTo
    <3>4. script \in Scripts /\ Pairs(frames) /\ \A k \in DOMAIN trace : Beyond(frames, trace[k].node)
      BY <2>1, <2>3 DEF OrderInv
    <3>5. \A k \in DOMAIN trace : trace[k].node \in Nat
      <4> DEFINE E == [node : 1..Len(script), outcome : Outcome]
      <4>1. trace \in Seq(E)
        BY DEF TypeOK
      <4>2. \A k \in DOMAIN trace : trace[k] \in E
        <5> HIDE DEF E
        <5> QED BY <4>1, ElementOfSeq, LenProperties
      <4> QED BY <4>2
    <3>6. /\ Pairs(Advance(Tail(frames)))
          /\ \A k \in DOMAIN trace : Beyond(Advance(Tail(frames)), trace[k].node)
      BY <2>1, <3>1, <3>2, <3>4, <3>5, ReturnedPairs
    <3> QED BY <2>1, <3>3, <3>6 DEF Pairs, Beyond, Ends, After, Bounds
  <2> QED BY <2>1, <2>2, <2>3 DEF OrderInv
<1>10. CASE UNCHANGED vars
  BY <1>10 DEF vars, OrderInv, Pairs, Beyond, Ends, After, Bounds, DocumentOrder
<1> QED BY <1>1, <1>4, <1>5, <1>6, <1>7, <1>8, <1>9, <1>10 DEF Next, Evaluate

LEMMA OrderInvariant == Spec => [](TypeOK /\ OrderInv)
<1>1. Init => TypeOK /\ OrderInv
  BY MaxRunsAssumption DEF Init, TypeOK, Stacks, OrderInv, DocumentOrder, OK, STOP, EXEC
<1> QED BY <1>1, TypeStep, OrderStep, PTL DEF Spec

\* Every execution of every script, nested as the grammar nests it, runs its
\* commands in the order of the text and none of them twice: libsieve_eval goes
\* on behind an `if' only where everything in its branches comes before.
THEOREM InDocumentOrder == Spec => []DocumentOrder
<1>1. OrderInv => DocumentOrder
  BY DEF OrderInv
<1> QED BY <1>1, OrderInvariant, PTL

-----------------------------------------------------------------------------
\* What the calls of a stack will run if nothing ends them.
Pending(fs) == ({fs[1]} \cup {script[fs[i]].next : i \in 2..Len(fs)}) \ {0}

\* The innermost call is at the first of it.
LEMMA InnermostFirst ==
  ASSUME TypeOK, script \in Scripts, NEW fs \in Stacks, fs # <<>>, Pairs(fs), fs[1] # 0
  PROVE  /\ fs[1] \in Pending(fs) /\ Pending(fs) \subseteq Nat
         /\ \A m \in Pending(fs) \ {fs[1]} : fs[1] < m
         /\ \A i \in 2..Len(fs) : script[fs[i]].next # fs[1]
<1>1. /\ Len(fs) \in Nat \ {0} /\ Len(script) \in Nat /\ fs[1] \in 1..Len(script)
      /\ \A j \in 2..Len(fs) : fs[j] \in 1..Len(script)
  BY Waiting
<1>2. ASSUME NEW i \in 2..Len(fs), script[fs[i]].next # 0
      PROVE  script[fs[i]].next \in Nat /\ fs[1] < script[fs[i]].next
  <2>1. script[fs[i]].next \in Nat /\ After(fs[i]) = script[fs[i]].next
    BY <1>1, <1>2, Nesting
  <2>2. Ends(fs[1]) <= After(fs[i])
    <3>1. 1 \in 1..Len(fs) /\ i \in 1..Len(fs) /\ 1 < i
      BY <1>1
    <3> QED BY <3>1 DEF Pairs
  <2>3. Ends(fs[1]) \in Nat /\ fs[1] < Ends(fs[1])
    <3>1. fs[1] < After(fs[1]) /\ After(fs[1]) <= Ends(fs[1]) /\ After(fs[1]) \in Nat /\ Ends(fs[1]) \in Nat
      BY <1>1, Nesting
    <3> QED BY <1>1, <3>1
  <2> QED BY <1>1, <2>1, <2>2, <2>3
<1>3. \A i \in 2..Len(fs) : script[fs[i]].next # fs[1]
  BY <1>1, <1>2
<1> QED BY <1>1, <1>2, <1>3 DEF Pending

\* So Delivery is at the same command.
LEMMA SameCommand ==
  ASSUME TypeOK, OrderInv, ~Idle, res = OK, frames[1] # 0
  PROVE  /\ Todo = Pending(frames) /\ Todo # {} /\ Promise!First = frames[1]
         /\ \A i \in 2..Len(frames) : script[frames[i]].next # frames[1]
<1>1. Todo = Pending(frames)
  BY DEF Todo, Pending
<1>2. /\ frames[1] \in Todo /\ Todo \subseteq Nat /\ \A m \in Todo \ {frames[1]} : frames[1] < m
      /\ \A i \in 2..Len(frames) : script[frames[i]].next # frames[1]
  BY <1>1, InnermostFirst DEF TypeOK, OrderInv, Idle
<1>3. ASSUME NEW S, S \subseteq Nat, NEW f \in S, \A m \in S \ {f} : f < m
      PROVE  (CHOOSE n \in S : \A m \in S : n <= m) = f
  <2>1. \A m \in S : f <= m
    BY <1>3
  <2>2. \A n \in S : (\A m \in S : n <= m) => n = f
    BY <1>3
  <2> QED BY <2>1, <2>2
<1> QED BY <1>1, <1>2, <1>3 DEF Promise!First

\* It goes on as the innermost call does, in the list or in a branch.
LEMMA SameWay ==
  ASSUME TypeOK, OrderInv, ~Idle, res = OK, frames[1] # 0, UNCHANGED <<script, res>>
  PROVE  /\ frames' = Advance(frames) => Promise!GoOn({})
         /\ \A b \in {script[frames[1]].then, script[frames[1]].else} :
              frames' = <<b>> \o frames => Promise!GoOn({b})
<1> DEFINE rest == {script[frames[i]].next : i \in 2..Len(frames)}
<1>1. frames \in Stacks /\ frames # <<>> /\ frames[1] \in 1..Len(script) /\ Len(frames) \in Nat \ {0}
  BY Waiting DEF TypeOK, Idle
<1>2. /\ Todo = ({frames[1]} \cup rest) \ {0} /\ frames[1] \notin rest /\ Promise!First = frames[1]
  BY SameCommand DEF Pending
<1>3. (Todo \ {Promise!First}) = rest \ {0}
  BY <1>2
<1>4. ASSUME frames' = Advance(frames) PROVE Promise!GoOn({})
  <2>1. /\ frames' # <<>> /\ Len(frames') = Len(frames) /\ frames'[1] = script[frames[1]].next
        /\ \A i \in 2..Len(frames) : frames'[i] = frames[i]
    BY <1>1, <1>4, Advanced
  <2>2. Todo' = ({frames'[1]} \cup {script[frames'[i]].next : i \in 2..Len(frames')}) \ {0}
    BY <2>1 DEF Todo, Idle
  <2>3. {script[frames'[i]].next : i \in 2..Len(frames')} = rest
    BY <2>1
  <2>4. Todo' = ({script[frames[1]].next} \cup rest) \ {0}
    BY <2>1, <2>2, <2>3
  <2> HIDE DEF rest
  <2> QED BY <1>2, <1>3, <2>4 DEF Promise!GoOn
<1>5. ASSUME NEW b \in {script[frames[1]].then, script[frames[1]].else}, frames' = <<b>> \o frames
      PROVE  Promise!GoOn({b})
  <2>1. b \in 0..Len(script)
    BY <1>1, Links
  <2>2. /\ frames' # <<>> /\ Len(frames') = Len(frames) + 1 /\ frames'[1] = b
        /\ \A i \in 2..Len(frames') : frames'[i] = frames[i - 1]
    BY <1>1, <1>5, <2>1, Called
  <2>3. Todo' = ({b} \cup {script[frames'[i]].next : i \in 2..Len(frames')}) \ {0}
    BY <2>2 DEF Todo, Idle
  <2>4. {script[frames'[i]].next : i \in 2..Len(frames')} = {script[frames[1]].next} \cup rest
    <3> DEFINE next == {script[frames'[i]].next : i \in 2..Len(frames')}
    <3>1. ASSUME NEW i \in 2..Len(frames') PROVE script[frames'[i]].next \in {script[frames[1]].next} \cup rest
      <4>1. frames'[i] = frames[i - 1] /\ (i - 1 = 1 \/ i - 1 \in 2..Len(frames))
        BY <1>1, <2>2
      <4> QED BY <4>1
    <3>2. script[frames[1]].next \in next
      <4>1. 2 \in 2..Len(frames') /\ frames'[2] = frames[1]
        BY <1>1, <2>2
      <4> QED BY <4>1
    <3>3. ASSUME NEW i \in 2..Len(frames) PROVE script[frames[i]].next \in next
      <4>1. i + 1 \in 2..Len(frames') /\ frames'[i + 1] = frames[i]
        BY <1>1, <2>2
      <4> QED BY <4>1
    <3> QED BY <3>1, <3>2, <3>3
  <2>5. Todo' = ({b, script[frames[1]].next} \cup rest) \ {0}
    BY <2>3, <2>4
  <2> HIDE DEF rest
  <2> QED BY <1>2, <1>3, <2>5 DEF Promise!GoOn
<1> QED BY <1>4, <1>5

\* A return is not seen: what the caller goes on with was to come all the time,
\* unless nothing is to come.
LEMMA SilentReturn ==
  ASSUME TypeOK, Return
  PROVE  Todo' = Todo
<1>1. frames \in Stacks /\ frames # <<>> /\ res' = res /\ script' = script
  BY DEF TypeOK, Return, ReturnTo, Idle
<1>2. CASE res # OK
  BY <1>1, <1>2 DEF Todo
<1>3. CASE res = OK
  <2>1. frames[1] = 0 /\ Len(frames) \in Nat \ {0}
    BY <1>1, <1>3, Waiting DEF Return, ReturnTo
  <2>2. CASE Len(frames) = 1
    <3>1. frames' = Tail(frames)
      BY <2>2 DEF Return, ReturnTo
    <3>2. frames' = <<>>
      <4>1. frames \in Seq(0..Len(script))
        BY <1>1 DEF Stacks
      <4>2. Tail(frames) \in Seq(0..Len(script)) /\ Len(Tail(frames)) = 0
        BY <1>1, <2>2, <4>1, HeadTailProperties
      <4> QED BY <3>1, <4>2, EmptySeq
    <3>3. Todo' = {}
      BY <3>2 DEF Todo, Idle
    <3>4. {script[frames[i]].next : i \in 2..Len(frames)} = {}
      BY <2>2
    <3>5. Todo = {}
      BY <2>1, <3>4 DEF Todo
    <3> QED BY <3>3, <3>5
  <2>3. CASE Len(frames) > 1
    <3>1. frames' = Advance(Tail(frames))
      BY <1>3, <2>3 DEF Return, ReturnTo
    <3>2. /\ frames' # <<>> /\ Len(frames') = Len(frames) - 1 /\ frames'[1] = script[frames[2]].next
          /\ \A i \in 2..Len(frames') : frames'[i] = frames[i + 1]
      BY <1>1, <2>3, <3>1, Returned
    <3>3. Todo' = ({script[frames[2]].next} \cup {script[frames'[i]].next : i \in 2..Len(frames')}) \ {0}
      BY <1>1, <1>3, <3>2 DEF Todo, Idle
    <3>4. Todo = {script[frames[i]].next : i \in 2..Len(frames)} \ {0}
      BY <1>1, <1>3, <2>1 DEF Todo, Idle
    <3>5. ASSUME NEW i \in 2..Len(frames')
          PROVE  script[frames'[i]].next \in {script[frames[k]].next : k \in 2..Len(frames)}
      <4>1. i + 1 \in 2..Len(frames) /\ frames'[i] = frames[i + 1]
        BY <2>1, <3>2
      <4> QED BY <4>1
    <3>6. ASSUME NEW k \in 2..Len(frames), k # 2
          PROVE  script[frames[k]].next \in {script[frames'[i]].next : i \in 2..Len(frames')}
      <4>1. k - 1 \in 2..Len(frames') /\ frames'[k - 1] = frames[k]
        BY <2>1, <3>2, <3>6
      <4> QED BY <4>1
    <3>7. 2 \in 2..Len(frames)
      BY <2>1, <2>3
    <3> DEFINE before == {script[frames[k]].next : k \in 2..Len(frames)}
               after == {script[frames'[i]].next : i \in 2..Len(frames')}
    <3>8. after \subseteq before /\ script[frames[2]].next \in before
      BY <3>5, <3>7
    <3>9. before \subseteq {script[frames[2]].next} \cup after
      BY <3>6
    <3>10. Todo' = ({script[frames[2]].next} \cup after) \ {0} /\ Todo = before \ {0}
      BY <3>3, <3>4
    <3> HIDE DEF before, after
    <3> QED BY <3>8, <3>9, <3>10
  <2>4. \A n \in Nat \ {0} : n = 1 \/ n > 1
    OBVIOUS
  <2>5. Len(frames) = 1 \/ Len(frames) > 1
    BY <2>1, <2>4
  <2> QED BY <2>2, <2>3, <2>5
<1> QED BY <1>2, <1>3

\* An action finds a flag that refuses it if and only if it and one that was
\* carried out exclude each other.
LEMMA SameRefusals ==
  ASSUME TypeOK, NEW a \in Action
  PROVE  actions \cap Refusing[a] # {} <=> Promise!Excluded(a)
<1>1. actions \subseteq Disposing \cup {"reject", "discard", "notify"}
  BY DEF TypeOK, Action
<1>2. \A b \in actions : b \in Refusing[a] <=> Promise!Exclude(a, b)
  BY <1>1 DEF Refusing, Promise!Exclude, Disposing, Promise!Disposing, Flagging, Action
<1> QED BY <1>2 DEF Promise!Excluded

LEMMA DeliveryStep == TypeOK /\ OrderInv /\ [Next]_vars => [Promise!Next]_(Promise!vars)
<1> SUFFICES ASSUME TypeOK, OrderInv, [Next]_vars
             PROVE  Promise!Next \/ UNCHANGED Promise!vars
  OBVIOUS
<1>1. ASSUME NEW t, At(t)
      PROVE  Promise!At(t) /\ ~Idle /\ res = OK /\ frames[1] # 0 /\ frames[1] = Promise!First
  BY <1>1, SameCommand DEF At, Promise!At
<1>2. CASE Start
  <2>1. Todo = {} /\ frames' \in {<<0>>, <<1>>} /\ res' = OK /\ script' \in Seq(Command)
    BY <1>2, ScriptsAssumption DEF Start, Todo, Idle
  <2>2. Todo' = {1} \cap DOMAIN script'
    <3>1. CASE script' = <<>>
      BY <1>2, <2>1, <3>1 DEF Start, Todo, Idle
    <3>2. CASE script' # <<>>
      <4>1. frames' = <<1>> /\ 1 \in DOMAIN script'
        BY <1>2, <2>1, <3>2, EmptySeq DEF Start
      <4>2. Todo' = ({frames'[1]} \cup {script'[frames'[i]].next : i \in 2..Len(frames')}) \ {0}
        BY <2>1, <4>1 DEF Todo, Idle
      <4>3. Len(frames') = 1 /\ frames'[1] = 1
        BY <4>1
      <4>4. {script'[frames'[i]].next : i \in 2..Len(frames')} = {}
        BY <4>3
      <4> QED BY <4>1, <4>2, <4>3, <4>4
    <3> QED BY <3>1, <3>2
  <2> QED BY <1>2, <2>1, <2>2 DEF Start, Promise!Start, Promise!Next
<1>3. ASSUME NEW a \in Action, Perform(a) PROVE Promise!Next
  <2>1. At(a) /\ UNCHANGED <<script, registered>>
    BY <1>3 DEF Perform
  <2>2. a \in Promise!Action
    BY DEF Action, Promise!Action, Disposing, Promise!Disposing
  <2>3. CASE actions \cap Refusing[a] # {}
    <3>1. res' = EXEC /\ UNCHANGED <<actions, performed>>
      BY <1>3, <2>3 DEF Perform
    <3>2. Todo' = {}
      BY <3>1 DEF Todo, OK, EXEC
    <3>3. Promise!At(a) /\ Promise!Excluded(a)
      BY <1>1, <2>1, <2>3, SameRefusals
    <3> QED BY <2>1, <2>2, <3>1, <3>2, <3>3 DEF Promise!End, Promise!Next
  <2>4. CASE actions \cap Refusing[a] = {}
    <3>1. /\ actions' = actions \cup {a} /\ frames' = Advance(frames) /\ res' = res
          /\ performed' = IF a \in registered THEN Append(performed, a) ELSE performed
      BY <1>3, <2>4 DEF Perform
    <3>2. Promise!GoOn({})
      BY <1>1, <2>1, <3>1, SameWay
    <3>3. Promise!At(a) /\ ~Promise!Excluded(a)
      BY <1>1, <2>1, <2>4, SameRefusals
    <3> QED BY <2>1, <2>2, <3>1, <3>2, <3>3 DEF Promise!CarryOut, Promise!Next
  <2> QED BY <2>3, <2>4
<1>4. ASSUME StaySilent \/ Flag PROVE Promise!Next
  <2>1. PICK t \in Flagging \cup {"vacation"} : At(t)
    BY <1>4 DEF StaySilent, Flag
  <2>2. frames' = Advance(frames) /\ UNCHANGED <<script, res, actions, registered, performed>>
    BY <1>4 DEF StaySilent, Flag
  <2>3. Promise!At(t) /\ Promise!GoOn({})
    BY <1>1, <2>1, <2>2, SameWay
  <2> QED BY <2>2, <2>3 DEF Promise!PassOver, Promise!Next, Promise!Flagging, Flagging
<1>5. CASE Stop
  <2>1. At("stop") /\ res' = STOP /\ UNCHANGED <<script, actions, registered, performed>>
    BY <1>5 DEF Stop
  <2>2. Todo' = {}
    BY <2>1 DEF Todo, OK, STOP
  <2> QED BY <1>1, <2>1, <2>2 DEF Promise!End, Promise!Next
<1>6. CASE If
  <2>1. At("if") /\ UNCHANGED <<script, res, actions, registered, performed>>
    BY <1>6 DEF If
  <2>2. PICK b \in {script[frames[1]].then, script[frames[1]].else} : frames' = <<b>> \o frames
    BY <1>6 DEF If
  <2>3. Promise!At("if") /\ Promise!GoOn({b}) /\ Promise!First = frames[1]
    BY <1>1, <2>1, <2>2, SameWay
  <2> QED BY <2>1, <2>2, <2>3 DEF Promise!Branch, Promise!Next
<1>7. CASE Return
  BY <1>7, SilentReturn DEF Return, ReturnTo, Promise!vars
<1>8. CASE UNCHANGED vars
  BY <1>8 DEF vars, Todo, Idle, Promise!vars
<1> QED BY <1>2, <1>3, <1>4, <1>5, <1>6, <1>7, <1>8 DEF Next, Evaluate

\* For every script and any number of executions, the calls of libsieve_eval do
\* what one loop over the text would: the same commands, callbacks and refusals,
\* in the same order, although each action looks at flags on its own side only and
\* a stop has to find its way out through every call.
THEOREM Refinement == Spec => KeepsPromise
<1>1. Init => Promise!Init
  BY DEF Init, Promise!Init, Todo, Idle
<1> QED BY <1>1, DeliveryStep, OrderInvariant, PTL DEF Spec, KeepsPromise, Promise!Spec

-----------------------------------------------------------------------------
\* The path so far, V being the commands that ran and fs the calls: what follows
\* on each of them has run, is next, or will be when a call returns to it.
OnPath(V, fs) ==
  /\ script # <<>> => 1 \in V \cup {fs[1]}
  /\ \A n \in V \ {0} :
       /\ script[n].next \in V \cup {fs[1]} \/ \E j \in 2..Len(fs) : fs[j] = n
       /\ script[n].type = "if" => {script[n].then, script[n].else} \cap (V \cup {fs[1]}) # {}

\* An `if' with two branches is in the first, in the second, or behind both.
InThen(V, fs, n) ==
  /\ script[n].else \notin V
  /\ \E j \in 2..Len(fs) :
       /\ fs[j] = n
       /\ \A i \in 1..(j - 1) :
            fs[i] # 0 => script[n].then <= fs[i] /\ Ends(fs[i]) <= script[n].else
InElse(V, fs, n) ==
  /\ script[n].then \notin V
  /\ \E j \in 2..Len(fs) :
       /\ fs[j] = n
       /\ \A i \in 1..(j - 1) : fs[i] # 0 => script[n].else <= fs[i]
Through(V, fs, n) ==
  /\ ~({script[n].then, script[n].else} \subseteq V)
  /\ Beyond(fs, script[n].else)

Forks(n) == script[n].type = "if" /\ script[n].then # 0 /\ script[n].else # 0
OneBranch(V, fs) ==
  \A n \in V \ {0} : Forks(n) => InThen(V, fs, n) \/ InElse(V, fs, n) \/ Through(V, fs, n)

PathInv ==
  /\ frames # <<>> /\ res = OK => OnPath(Visited, frames) /\ OneBranch(Visited, frames)
  /\ WholePath

\* What the numbering says of an `if' with two branches.
LEMMA Branches ==
  ASSUME TypeOK, script \in Scripts, NEW n \in 1..Len(script), Forks(n)
  PROVE  LET c == script[n]
         IN  /\ c.then \in 1..Len(script) /\ c.else \in 1..Len(script)
             /\ n < c.then /\ c.then < c.else /\ Ends(c.then) <= c.else
             /\ c.else < After(n) /\ After(n) \in Nat
<1>1. /\ script[n].then \in 1..Len(script) /\ script[n].else \in 1..Len(script)
      /\ n < script[n].then
      /\ Ends(script[n].then) \in Nat /\ script[n].then < Ends(script[n].then)
      /\ Ends(script[n].then) <= script[n].else
  BY Nesting DEF Forks
<1>2. /\ Ends(script[n].else) \in Nat /\ script[n].else < Ends(script[n].else)
      /\ Ends(script[n].else) <= After(n) /\ After(n) \in Nat
  BY Nesting DEF Forks
<1>3. Len(script) \in Nat
  BY DEF TypeOK
<1> QED BY <1>1, <1>2, <1>3

\* A command that is not an `if' was run, and its call goes on.
LEMMA AdvancedPath ==
  ASSUME TypeOK, script \in Scripts, NEW fs \in Stacks, fs # <<>>, fs[1] # 0, Pairs(fs),
         NEW V, 0 \in V, V \subseteq 0..Len(script), \A m \in V \ {0} : m < fs[1],
         OnPath(V, fs), OneBranch(V, fs), script[fs[1]].type # "if"
  PROVE  OnPath(V \cup {fs[1]}, Advance(fs)) /\ OneBranch(V \cup {fs[1]}, Advance(fs))
<1> DEFINE c == fs[1]
           r == Advance(fs)
           W == V \cup {c}
<1>1. /\ Len(fs) \in Nat \ {0} /\ c \in 1..Len(script) /\ Len(script) \in Nat
      /\ \A j \in 2..Len(fs) : fs[j] \in 1..Len(script)
  BY Waiting
<1>2. /\ Len(r) = Len(fs) /\ r[1] = script[c].next
      /\ \A i \in 2..Len(fs) : r[i] = fs[i]
  BY Advanced
<1>3. /\ Ends(c) \in Nat /\ c < Ends(c) /\ r[1] \in Nat
      /\ r[1] # 0 => c < r[1] /\ r[1] \in 1..Len(script) /\ Ends(r[1]) \in Nat /\ Ends(r[1]) <= Ends(c)
  BY <1>1, <1>2, Nesting
<1>4. \A m \in Nat : m <= c => Beyond(r, m)
  BY AdvancedPairs
<1> HIDE DEF r
<1>5. OnPath(W, r)
  <2>1. script # <<>> => 1 \in W \cup {r[1]}
    BY DEF OnPath
  <2>2. script[c].next \in W \cup {r[1]}
    BY <1>2
  <2>3. ASSUME NEW n \in V \ {0}
        PROVE  /\ script[n].next \in W \cup {r[1]} \/ \E j \in 2..Len(r) : r[j] = n
               /\ script[n].type = "if" => {script[n].then, script[n].else} \cap (W \cup {r[1]}) # {}
    <3>1. /\ script[n].next \in V \cup {fs[1]} \/ \E j \in 2..Len(fs) : fs[j] = n
          /\ script[n].type = "if" => {script[n].then, script[n].else} \cap (V \cup {fs[1]}) # {}
      BY <2>3 DEF OnPath
    <3> QED BY <1>2, <3>1
  <2> QED BY <2>1, <2>2, <2>3 DEF OnPath
<1>6. ASSUME NEW n \in V \ {0}, Forks(n)
      PROVE  InThen(W, r, n) \/ InElse(W, r, n) \/ Through(W, r, n)
  <2> DEFINE then == script[n].then
             else == script[n].else
  <2>1. n \in 1..Len(script) /\ n < c
    BY <1>1, <1>6
  <2>2. /\ then \in 1..Len(script) /\ else \in 1..Len(script)
        /\ n < then /\ then < else
    BY <1>6, <2>1, Branches
  <2>3. CASE InThen(V, fs, n)
    <3>1. PICK j \in 2..Len(fs) :
            /\ fs[j] = n
            /\ \A i \in 1..(j - 1) : fs[i] # 0 => then <= fs[i] /\ Ends(fs[i]) <= else
      BY <2>3 DEF InThen
    <3>2. then <= c /\ Ends(c) <= else
      BY <1>1, <3>1
    <3> HIDE DEF then, else, W, c
    <3>3. else \notin W
      BY <1>1, <1>3, <2>2, <2>3, <3>2 DEF InThen, W, else
    <3>4. ASSUME NEW i \in 1..(j - 1), r[i] # 0 PROVE then <= r[i] /\ Ends(r[i]) <= else
      <4>1. CASE i = 1
        BY <1>1, <1>3, <2>2, <3>2, <3>4, <4>1
      <4>2. CASE i # 1
        <5>1. i \in 2..Len(fs)
          BY <1>1, <3>1, <3>4, <4>2
        <5>2. r[i] = fs[i]
          BY <1>2, <5>1
        <5> QED BY <3>1, <3>4, <5>2
      <4> QED BY <4>1, <4>2
    <3>5. j \in 2..Len(r) /\ r[j] = n
      BY <1>2, <3>1
    <3> QED BY <3>3, <3>4, <3>5 DEF InThen, then, else
  <2>4. CASE InElse(V, fs, n)
    <3>1. PICK j \in 2..Len(fs) :
            /\ fs[j] = n
            /\ \A i \in 1..(j - 1) : fs[i] # 0 => else <= fs[i]
      BY <2>4 DEF InElse
    <3>2. else <= c
      BY <1>1, <3>1
    <3> HIDE DEF then, else, W, c
    <3>3. then \notin W
      BY <1>1, <2>2, <2>4, <3>2 DEF InElse, W, then
    <3>4. ASSUME NEW i \in 1..(j - 1), r[i] # 0 PROVE else <= r[i]
      <4>1. CASE i = 1
        BY <1>1, <1>3, <2>2, <3>2, <3>4, <4>1
      <4>2. CASE i # 1
        <5>1. i \in 2..Len(fs)
          BY <1>1, <3>1, <3>4, <4>2
        <5>2. r[i] = fs[i]
          BY <1>2, <5>1
        <5> QED BY <3>1, <3>4, <5>2
      <4> QED BY <4>1, <4>2
    <3>5. j \in 2..Len(r) /\ r[j] = n
      BY <1>2, <3>1
    <3> QED BY <3>3, <3>4, <3>5 DEF InElse, then, else
  <2>5. CASE Through(V, fs, n)
    <3>1. else < c /\ then < c
      BY <1>1, <2>2, <2>5 DEF Through, Beyond
    <3>2. ~({then, else} \subseteq W)
      BY <1>1, <2>2, <2>5, <3>1 DEF Through
    <3>3. Beyond(r, else)
      BY <1>1, <1>4, <2>2, <3>1
    <3> QED BY <3>2, <3>3 DEF Through
  <2> QED BY <1>6, <2>3, <2>4, <2>5 DEF OneBranch
<1>7. OneBranch(W, r)
  BY <1>6 DEF OneBranch, Forks
<1> QED BY <1>5, <1>7 DEF r

\* An `if' was noted, and the call of one of its branches is innermost.
LEMMA CalledPath ==
  ASSUME TypeOK, script \in Scripts, NEW fs \in Stacks, fs # <<>>, fs[1] # 0, Pairs(fs),
         NEW V, 0 \in V, V \subseteq 0..Len(script), \A m \in V \ {0} : m < fs[1],
         OnPath(V, fs), OneBranch(V, fs),
         NEW b \in {script[fs[1]].then, script[fs[1]].else}
  PROVE  OnPath(V \cup {fs[1]}, <<b>> \o fs) /\ OneBranch(V \cup {fs[1]}, <<b>> \o fs)
<1> DEFINE c == fs[1]
           r == <<b>> \o fs
           W == V \cup {c}
<1>1. /\ Len(fs) \in Nat \ {0} /\ c \in 1..Len(script) /\ Len(script) \in Nat
      /\ \A j \in 2..Len(fs) : fs[j] \in 1..Len(script)
  BY Waiting
<1>2. b \in 0..Len(script)
  BY <1>1, Links
<1>3. /\ Len(r) = Len(fs) + 1 /\ r[1] = b
      /\ \A i \in 2..Len(r) : r[i] = fs[i - 1]
  BY <1>2, Called
<1>4. /\ Ends(c) \in Nat /\ c < Ends(c)
      /\ b # 0 => c < b /\ b \in 1..Len(script) /\ Ends(b) \in Nat /\ Ends(b) <= Ends(c)
  <2>1. /\ Ends(c) \in Nat /\ After(c) \in Nat /\ c < After(c) /\ After(c) <= Ends(c)
        /\ b # 0 => c < b /\ b \in 1..Len(script) /\ Ends(b) \in Nat /\ Ends(b) <= After(c)
    BY <1>1, Nesting
  <2> QED BY <1>1, <1>2, <2>1
<1>5. \A m \in Nat : m <= c => Beyond(r, m)
  BY CalledPairs
<1> HIDE DEF r
<1>6. \A j \in 2..Len(fs) : j + 1 \in 2..Len(r) /\ r[j + 1] = fs[j]
  BY <1>1, <1>3
<1>7. 2 \in 2..Len(r) /\ r[2] = c
  BY <1>1, <1>3
<1>8. OnPath(W, r)
  <2>1. script # <<>> => 1 \in W \cup {r[1]}
    BY DEF OnPath
  <2>2. /\ \E j \in 2..Len(r) : r[j] = c
        /\ {script[c].then, script[c].else} \cap (W \cup {r[1]}) # {}
    BY <1>3, <1>7
  <2>3. ASSUME NEW n \in V \ {0}
        PROVE  /\ script[n].next \in W \cup {r[1]} \/ \E j \in 2..Len(r) : r[j] = n
               /\ script[n].type = "if" => {script[n].then, script[n].else} \cap (W \cup {r[1]}) # {}
    <3>1. /\ script[n].next \in V \cup {fs[1]} \/ \E j \in 2..Len(fs) : fs[j] = n
          /\ script[n].type = "if" => {script[n].then, script[n].else} \cap (V \cup {fs[1]}) # {}
      BY <2>3 DEF OnPath
    <3> QED BY <1>6, <3>1
  <2> QED BY <2>1, <2>2, <2>3 DEF OnPath
\* The `if' that is noted.
<1>9. ASSUME Forks(c) PROVE InThen(W, r, c) \/ InElse(W, r, c)
  <2>1. /\ script[c].then \in 1..Len(script) /\ script[c].else \in 1..Len(script)
        /\ c < script[c].then /\ script[c].then < script[c].else
        /\ Ends(script[c].then) <= script[c].else
    BY <1>1, <1>9, Branches
  <2>2. script[c].then \notin W /\ script[c].else \notin W
    BY <1>1, <2>1
  <2>3. CASE b = script[c].then
    <3>1. \A i \in 1..(2 - 1) : r[i] # 0 => script[c].then <= r[i] /\ Ends(r[i]) <= script[c].else
      BY <1>3, <2>1, <2>3
    <3> QED BY <1>7, <2>2, <3>1 DEF InThen
  <2>4. CASE b = script[c].else
    <3>1. \A i \in 1..(2 - 1) : r[i] # 0 => script[c].else <= r[i]
      BY <1>3, <2>1, <2>4
    <3> QED BY <1>7, <2>2, <3>1 DEF InElse
  <2> QED BY <2>3, <2>4
\* Those before it.
<1>10. ASSUME NEW n \in V \ {0}, Forks(n)
       PROVE  InThen(W, r, n) \/ InElse(W, r, n) \/ Through(W, r, n)
  <2> DEFINE then == script[n].then
             else == script[n].else
  <2>1. n \in 1..Len(script) /\ n < c
    BY <1>1, <1>10
  <2>2. /\ then \in 1..Len(script) /\ else \in 1..Len(script)
        /\ n < then /\ then < else
    BY <1>10, <2>1, Branches
  <2>3. CASE InThen(V, fs, n)
    <3>1. PICK j \in 2..Len(fs) :
            /\ fs[j] = n
            /\ \A i \in 1..(j - 1) : fs[i] # 0 => then <= fs[i] /\ Ends(fs[i]) <= else
      BY <2>3 DEF InThen
    <3>2. then <= c /\ Ends(c) <= else
      BY <1>1, <3>1
    <3> HIDE DEF then, else, W, c
    <3>3. else \notin W
      BY <1>1, <1>4, <2>2, <2>3, <3>2 DEF InThen, W, else
    <3>4. ASSUME NEW i \in 1..((j + 1) - 1), r[i] # 0 PROVE then <= r[i] /\ Ends(r[i]) <= else
      <4>1. CASE i = 1
        BY <1>1, <1>3, <1>4, <2>2, <3>2, <3>4, <4>1
      <4>2. CASE i # 1
        <5>1. i \in 2..Len(r) /\ i - 1 \in 1..(j - 1)
          BY <1>1, <1>3, <3>1, <3>4, <4>2
        <5>2. r[i] = fs[i - 1]
          BY <1>3, <5>1
        <5> QED BY <3>1, <3>4, <5>1, <5>2
      <4> QED BY <4>1, <4>2
    <3>5. j + 1 \in 2..Len(r) /\ r[j + 1] = n
      BY <1>6, <3>1
    <3> QED BY <3>3, <3>4, <3>5 DEF InThen, then, else
  <2>4. CASE InElse(V, fs, n)
    <3>1. PICK j \in 2..Len(fs) :
            /\ fs[j] = n
            /\ \A i \in 1..(j - 1) : fs[i] # 0 => else <= fs[i]
      BY <2>4 DEF InElse
    <3>2. else <= c
      BY <1>1, <3>1
    <3> HIDE DEF then, else, W, c
    <3>3. then \notin W
      BY <1>1, <2>2, <2>4, <3>2 DEF InElse, W, then
    <3>4. ASSUME NEW i \in 1..((j + 1) - 1), r[i] # 0 PROVE else <= r[i]
      <4>1. CASE i = 1
        BY <1>1, <1>3, <1>4, <2>2, <3>2, <3>4, <4>1
      <4>2. CASE i # 1
        <5>1. i \in 2..Len(r) /\ i - 1 \in 1..(j - 1)
          BY <1>1, <1>3, <3>1, <3>4, <4>2
        <5>2. r[i] = fs[i - 1]
          BY <1>3, <5>1
        <5> QED BY <3>1, <3>4, <5>1, <5>2
      <4> QED BY <4>1, <4>2
    <3>5. j + 1 \in 2..Len(r) /\ r[j + 1] = n
      BY <1>6, <3>1
    <3> QED BY <3>3, <3>4, <3>5 DEF InElse, then, else
  <2>5. CASE Through(V, fs, n)
    <3>1. else < c /\ then < c
      BY <1>1, <2>2, <2>5 DEF Through, Beyond
    <3>2. ~({then, else} \subseteq W)
      BY <1>1, <2>2, <2>5, <3>1 DEF Through
    <3>3. Beyond(r, else)
      BY <1>1, <1>5, <2>2, <3>1
    <3> QED BY <3>2, <3>3 DEF Through
  <2> QED BY <1>10, <2>3, <2>4, <2>5 DEF OneBranch
<1>11. OneBranch(W, r)
  BY <1>9, <1>10 DEF OneBranch
<1> QED BY <1>8, <1>11 DEF r

\* The innermost call came to its end, and its caller goes on behind the `if'.
LEMMA ReturnedPath ==
  ASSUME TypeOK, script \in Scripts, NEW fs \in Stacks, fs # <<>>, Len(fs) > 1, fs[1] = 0, Pairs(fs),
         NEW V, 0 \in V, V \subseteq 0..Len(script),
         OnPath(V, fs), OneBranch(V, fs)
  PROVE  OnPath(V, Advance(Tail(fs))) /\ OneBranch(V, Advance(Tail(fs)))
<1> DEFINE c == fs[2]
           r == Advance(Tail(fs))
<1>1. /\ Len(fs) \in Nat \ {0} /\ Len(script) \in Nat
      /\ \A j \in 2..Len(fs) : fs[j] \in 1..Len(script)
  BY Waiting
<1>2. /\ Len(r) = Len(fs) - 1 /\ c \in 1..Len(script) /\ r[1] = script[c].next
      /\ \A i \in 2..Len(r) : r[i] = fs[i + 1]
  BY Returned
<1>3. /\ Ends(c) \in Nat /\ c < Ends(c) /\ After(c) \in Nat /\ After(c) <= Ends(c)
      /\ r[1] # 0 => c < r[1] /\ r[1] \in 1..Len(script) /\ Ends(r[1]) \in Nat /\ Ends(r[1]) <= Ends(c)
  BY <1>2, Nesting
<1>4. \A m \in Nat : Beyond(fs, m) => Beyond(r, m)
  BY ReturnedPairs
<1> HIDE DEF r
<1>5. \A j \in 2..Len(fs) : j # 2 => j - 1 \in 2..Len(r) /\ r[j - 1] = fs[j]
  BY <1>1, <1>2
<1>6. OnPath(V, r)
  <2>1. script # <<>> => 1 \in V \cup {r[1]}
    BY DEF OnPath
  <2>2. ASSUME NEW n \in V \ {0}
        PROVE  /\ script[n].next \in V \cup {r[1]} \/ \E j \in 2..Len(r) : r[j] = n
               /\ script[n].type = "if" => {script[n].then, script[n].else} \cap (V \cup {r[1]}) # {}
    <3>1. /\ script[n].next \in V \/ \E j \in 2..Len(fs) : fs[j] = n
          /\ script[n].type = "if" => {script[n].then, script[n].else} \cap V # {}
      BY <2>2 DEF OnPath
    <3>2. ASSUME NEW j \in 2..Len(fs), fs[j] = n
          PROVE  script[n].next \in V \cup {r[1]} \/ \E k \in 2..Len(r) : r[k] = n
      <4>1. CASE j = 2
        BY <1>2, <3>2, <4>1
      <4>2. CASE j # 2
        BY <1>5, <3>2, <4>2
      <4> QED BY <4>1, <4>2
    <3> QED BY <3>1, <3>2
  <2> QED BY <2>1, <2>2 DEF OnPath
\* All that waits further out goes on behind the `if' that is returned to.
<1>7. ASSUME NEW m \in Nat, m < After(c) PROVE Beyond(r, m)
  <2>1. ASSUME NEW j \in 2..Len(fs) PROVE m < After(fs[j])
    <3>1. CASE j = 2
      BY <1>7, <3>1
    <3>2. CASE j # 2
      <4>1. 2 \in 1..Len(fs) /\ j \in 1..Len(fs) /\ 2 < j /\ fs[2] # 0
        BY <1>1, <1>2, <3>2
      <4>2. Ends(c) <= After(fs[j])
        BY <4>1 DEF Pairs
      <4>3. After(fs[j]) \in Nat
        BY <1>1, Nesting
      <4> QED BY <1>3, <1>7, <4>2, <4>3
    <3> QED BY <3>1, <3>2
  <2>2. Beyond(fs, m)
    BY <2>1 DEF Beyond
  <2> QED BY <1>4, <2>2
<1>8. ASSUME NEW n \in V \ {0}, Forks(n)
      PROVE  InThen(V, r, n) \/ InElse(V, r, n) \/ Through(V, r, n)
  <2> DEFINE then == script[n].then
             else == script[n].else
  <2>1. n \in 1..Len(script)
    BY <1>1, <1>8
  <2>2. /\ then \in 1..Len(script) /\ else \in 1..Len(script)
        /\ n < then /\ then < else /\ else < After(n)
    BY <1>8, <2>1, Branches
  <2>3. CASE InThen(V, fs, n)
    <3>1. PICK j \in 2..Len(fs) :
            /\ fs[j] = n
            /\ \A i \in 1..(j - 1) : fs[i] # 0 => then <= fs[i] /\ Ends(fs[i]) <= else
      BY <2>3 DEF InThen
    <3>2. else \notin V
      BY <2>3 DEF InThen
    <3>3. CASE j = 2
      <4>1. Beyond(r, else)
        BY <1>7, <2>2, <3>1, <3>3
      <4> QED BY <3>2, <4>1 DEF Through
    <3>4. CASE j # 2
      <4>1. then <= c /\ Ends(c) <= else
        <5>1. 2 \in 1..(j - 1) /\ fs[2] # 0
          BY <1>1, <1>2, <3>1, <3>4
        <5> QED BY <3>1, <5>1
      <4> HIDE DEF then, else, c
      <4>2. ASSUME NEW i \in 1..((j - 1) - 1), r[i] # 0 PROVE then <= r[i] /\ Ends(r[i]) <= else
        <5>1. CASE i = 1
          BY <1>1, <1>2, <1>3, <2>2, <4>1, <4>2, <5>1
        <5>2. CASE i # 1
          <6>1. i \in 2..Len(r) /\ i + 1 \in 1..(j - 1)
            BY <1>1, <1>2, <3>1, <4>2, <5>2
          <6>2. r[i] = fs[i + 1]
            BY <1>2, <6>1
          <6> QED BY <3>1, <4>2, <6>1, <6>2
        <5> QED BY <5>1, <5>2
      <4>3. j - 1 \in 2..Len(r) /\ r[j - 1] = n
        BY <1>5, <3>1, <3>4
      <4> QED BY <3>2, <4>2, <4>3 DEF InThen, then, else
    <3> QED BY <3>3, <3>4
  <2>4. CASE InElse(V, fs, n)
    <3>1. PICK j \in 2..Len(fs) :
            /\ fs[j] = n
            /\ \A i \in 1..(j - 1) : fs[i] # 0 => else <= fs[i]
      BY <2>4 DEF InElse
    <3>2. then \notin V
      BY <2>4 DEF InElse
    <3>3. CASE j = 2
      <4>1. Beyond(r, else)
        BY <1>7, <2>2, <3>1, <3>3
      <4> QED BY <3>2, <4>1 DEF Through
    <3>4. CASE j # 2
      <4>1. else <= c
        <5>1. 2 \in 1..(j - 1) /\ fs[2] # 0
          BY <1>1, <1>2, <3>1, <3>4
        <5> QED BY <3>1, <5>1
      <4> HIDE DEF then, else, c
      <4>2. ASSUME NEW i \in 1..((j - 1) - 1), r[i] # 0 PROVE else <= r[i]
        <5>1. CASE i = 1
          BY <1>1, <1>2, <1>3, <2>2, <4>1, <4>2, <5>1
        <5>2. CASE i # 1
          <6>1. i \in 2..Len(r) /\ i + 1 \in 1..(j - 1)
            BY <1>1, <1>2, <3>1, <4>2, <5>2
          <6>2. r[i] = fs[i + 1]
            BY <1>2, <6>1
          <6> QED BY <3>1, <4>2, <6>1, <6>2
        <5> QED BY <5>1, <5>2
      <4>3. j - 1 \in 2..Len(r) /\ r[j - 1] = n
        BY <1>5, <3>1, <3>4
      <4> QED BY <3>2, <4>2, <4>3 DEF InElse, then, else
    <3> QED BY <3>3, <3>4
  <2>5. CASE Through(V, fs, n)
    <3>1. Beyond(r, else)
      BY <1>1, <1>4, <2>2, <2>5 DEF Through
    <3> QED BY <2>5, <3>1 DEF Through
  <2> QED BY <1>8, <2>3, <2>4, <2>5 DEF OneBranch
<1>9. OneBranch(V, r)
  BY <1>8 DEF OneBranch
<1> QED BY <1>6, <1>9 DEF r

\* What a noted command adds to the path.
LEMMA NotedVisited ==
  ASSUME TypeOK, OrderInv, NEW t, At(t), NEW o \in Outcome, Note(o)
  PROVE  /\ Visited' = Visited \cup {frames[1]}
         /\ 0 \in Visited /\ Visited \subseteq 0..Len(script)
         /\ \A m \in Visited \ {0} : m < frames[1]
<1>1. /\ DOMAIN trace = 1..Len(trace) /\ DOMAIN trace' = 1..(Len(trace) + 1) /\ Len(trace) \in Nat
      /\ \A k \in 1..Len(trace) : trace'[k] = trace[k] /\ trace[k].node \in 1..Len(script)
                                  /\ trace[k].node < frames[1]
      /\ trace'[Len(trace) + 1].node = frames[1]
  BY Noted
<1>2. 1..(Len(trace) + 1) = 1..Len(trace) \cup {Len(trace) + 1}
  BY <1>1
<1>3. Visited' = Visited \cup {frames[1]}
  BY <1>1, <1>2 DEF Visited
<1>4. Len(script) \in Nat
  BY DEF TypeOK
<1> QED BY <1>1, <1>3, <1>4 DEF Visited

LEMMA PathStep == TypeOK /\ OrderInv /\ PathInv /\ [Next]_vars => PathInv'
<1> SUFFICES ASSUME TypeOK, OrderInv, PathInv, [Next]_vars PROVE PathInv'
  OBVIOUS
<1>1. CASE Start
  <2>1. script' \in Scripts /\ trace' = <<>> /\ frames' = IF script' = <<>> THEN <<0>> ELSE <<1>>
    BY <1>1 DEF Start
  <2>2. Visited' = {0} /\ frames' # <<>>
    BY <2>1 DEF Visited
  <2>3. OnPath(Visited, frames)' /\ OneBranch(Visited, frames)'
    BY <2>1, <2>2 DEF OnPath, OneBranch
  <2> QED BY <2>2, <2>3 DEF PathInv, WholePath, Idle
\* What goes on in the same call.
<1>2. ASSUME NEW t, At(t), t # "if", NEW o \in Outcome, Note(o), UNCHANGED script,
             frames' = Advance(frames)
      PROVE  PathInv'
  <2>1. /\ frames \in Stacks /\ frames # <<>> /\ frames[1] # 0 /\ script \in Scripts /\ Pairs(frames)
        /\ OnPath(Visited, frames) /\ OneBranch(Visited, frames) /\ script[frames[1]].type # "if"
    BY <1>2, AtCommand DEF TypeOK, OrderInv, PathInv, At
  <2>2. /\ Visited' = Visited \cup {frames[1]} /\ 0 \in Visited /\ Visited \subseteq 0..Len(script)
        /\ \A m \in Visited \ {0} : m < frames[1]
    BY <1>2, NotedVisited
  <2> DEFINE V == Visited
             r == Advance(frames)
  <2>3. OnPath(V \cup {frames[1]}, r) /\ OneBranch(V \cup {frames[1]}, r) /\ r # <<>>
    <3> HIDE DEF V
    <3> QED BY <2>1, <2>2, AdvancedPath, Advanced DEF V
  <2> HIDE DEF V, r
  <2>4. OnPath(Visited, frames)' /\ OneBranch(Visited, frames)' /\ frames' # <<>>
    BY <1>2, <2>2, <2>3, ZenonT(40) DEF OnPath, OneBranch, InThen, InElse, Through, Beyond, Forks, Ends, After, Bounds, V, r
  <2> QED BY <2>4 DEF PathInv, WholePath, Idle
\* What ends it.
<1>3. ASSUME res' # OK PROVE PathInv'
  BY <1>3 DEF PathInv, WholePath
<1>4. ASSUME NEW a \in Action, Perform(a) PROVE PathInv'
  <2>1. CASE actions \cap Refusing[a] # {}
    BY <1>3, <1>4, <2>1 DEF Perform, OK, EXEC
  <2>2. CASE actions \cap Refusing[a] = {}
    BY <1>2, <1>4, <2>2 DEF Perform, Outcome, Action, Disposing
  <2> QED BY <2>1, <2>2
<1>5. CASE StaySilent
  BY <1>2, <1>5 DEF StaySilent, Outcome
<1>6. CASE Flag
  BY <1>2, <1>6 DEF Flag, Outcome, Flagging
<1>7. CASE Stop
  BY <1>3, <1>7 DEF Stop, OK, STOP
<1>8. CASE If
  <2>1. PICK branch \in {script[frames[1]].then, script[frames[1]].else} :
          frames' = <<branch>> \o frames
    BY <1>8 DEF If
  <2>2. At("if") /\ Note("done") /\ UNCHANGED script
    BY <1>8 DEF If
  <2>3. /\ frames \in Stacks /\ frames # <<>> /\ frames[1] # 0 /\ script \in Scripts /\ Pairs(frames)
        /\ OnPath(Visited, frames) /\ OneBranch(Visited, frames)
        /\ frames[1] \in 1..Len(script)
    BY <2>2, AtCommand DEF TypeOK, OrderInv, PathInv
  <2>4. /\ Visited' = Visited \cup {frames[1]} /\ 0 \in Visited /\ Visited \subseteq 0..Len(script)
        /\ \A m \in Visited \ {0} : m < frames[1]
    BY <2>2, NotedVisited DEF Outcome
  <2> DEFINE V == Visited
             r == <<branch>> \o frames
  <2>5. branch \in 0..Len(script)
    BY <2>3, Links
  <2>6. OnPath(V \cup {frames[1]}, r) /\ OneBranch(V \cup {frames[1]}, r) /\ r # <<>>
    <3> HIDE DEF V
    <3> QED BY <2>3, <2>4, <2>5, CalledPath, Called DEF V
  <2> HIDE DEF V, r
  <2>7. OnPath(Visited, frames)' /\ OneBranch(Visited, frames)' /\ frames' # <<>>
    BY <2>1, <2>2, <2>4, <2>6, ZenonT(40) DEF OnPath, OneBranch, InThen, InElse, Through, Beyond, Forks, Ends, After, Bounds, V, r
  <2> QED BY <2>7 DEF PathInv, WholePath, Idle
<1>9. CASE Return
  <2>1. /\ frames # <<>> /\ UNCHANGED <<script, trace, runs>> /\ res' = res
        /\ res # OK \/ frames[1] = 0
    BY <1>9 DEF Return, ReturnTo, Idle
  <2>2. CASE res # OK
    BY <1>3, <2>1, <2>2
  <2>3. CASE res = OK
    <3>1. /\ frames \in Stacks /\ frames[1] = 0 /\ script \in Scripts /\ Pairs(frames)
          /\ OnPath(Visited, frames) /\ OneBranch(Visited, frames)
          /\ Len(frames) \in Nat \ {0} /\ Visited' = Visited
      BY <2>1, <2>3, Waiting DEF TypeOK, OrderInv, PathInv, Visited
    <3>2. 0 \in Visited /\ Visited \subseteq 0..Len(script)
      <4> DEFINE E == [node : 1..Len(script), outcome : Outcome]
      <4>1. trace \in Seq(E) /\ Len(script) \in Nat
        BY DEF TypeOK
      <4>2. \A k \in DOMAIN trace : trace[k] \in E
        <5> HIDE DEF E
        <5> QED BY <4>1, ElementOfSeq, LenProperties
      <4> QED BY <4>1, <4>2 DEF Visited
    <3>3. CASE Len(frames) > 1
      <4> DEFINE V == Visited
                 r == Advance(Tail(frames))
      <4>1. OnPath(V, r) /\ OneBranch(V, r) /\ r # <<>>
        <5> HIDE DEF V
        <5> QED BY <2>1, <3>1, <3>2, <3>3, ReturnedPath, Returned DEF V
      <4>2. frames' = r
        BY <1>9, <2>3, <3>3 DEF Return, ReturnTo
      <4> HIDE DEF V, r
      <4>3. OnPath(Visited, frames)' /\ OneBranch(Visited, frames)' /\ frames' # <<>>
        BY <2>1, <3>1, <4>1, <4>2, ZenonT(40) DEF OnPath, OneBranch, InThen, InElse, Through, Beyond, Forks, Ends, After, Bounds, V
      <4> QED BY <4>3 DEF PathInv, WholePath, Idle
    \* The outermost call came to its end: nothing waits, so every `if' is behind.
    <3>4. CASE Len(frames) = 1
      <4>1. frames' = <<>>
        <5>1. frames' = Tail(frames) /\ frames \in Seq(0..Len(script))
          BY <1>9, <3>1, <3>4 DEF Return, ReturnTo, Stacks
        <5>2. Len(Tail(frames)) = 0 /\ Tail(frames) \in Seq(0..Len(script))
          BY <2>1, <3>4, <5>1, HeadTailProperties
        <5> QED BY <5>1, <5>2, EmptySeq
      <4>2. 2..Len(frames) = {}
        BY <3>4
      <4>3. script # <<>> => 1 \in Visited
        BY <3>1, <3>2 DEF OnPath
      <4>4. ASSUME NEW n \in Visited \ {0}
            PROVE  /\ script[n].next \in Visited
                   /\ script[n].type = "if" =>
                        /\ script[n].then \in Visited \/ script[n].else \in Visited
                        /\ {script[n].then, script[n].else} \subseteq Visited
                             => 0 \in {script[n].then, script[n].else}
        <5>1. /\ script[n].next \in Visited
              /\ script[n].type = "if" => {script[n].then, script[n].else} \cap Visited # {}
          BY <3>1, <3>2, <4>2, <4>4 DEF OnPath
        <5>2. Forks(n) => Through(Visited, frames, n)
          BY <3>1, <4>2, <4>4 DEF OneBranch, InThen, InElse
        <5> QED BY <5>1, <5>2 DEF Forks, Through
      <4>5. WholePath'
        BY <2>1, <3>1, <4>3, <4>4 DEF WholePath
      <4> QED BY <4>1, <4>5 DEF PathInv
    <3>5. \A n \in Nat \ {0} : n # 1 => n > 1
      OBVIOUS
    <3>6. Len(frames) = 1 \/ Len(frames) > 1
      BY ONLY <3>1, <3>5
    <3> QED BY <3>3, <3>4, <3>6
  <2> QED BY <2>2, <2>3
<1>10. CASE UNCHANGED vars
  <2>1. UNCHANGED <<script, frames, res, runs>> /\ Visited' = Visited
    BY <1>10 DEF vars, Visited
  <2> DEFINE V == Visited
  <2> HIDE DEF V
  <2>2. OnPath(V, frames) /\ OneBranch(V, frames) => (OnPath(Visited, frames) /\ OneBranch(Visited, frames))'
    BY <2>1 DEF OnPath, OneBranch, InThen, InElse, Through, Beyond, Forks, Ends, After, Bounds, V
  <2>3. WholePath'
    BY <2>1 DEF PathInv, WholePath, Idle
  <2> QED BY <2>1, <2>2, <2>3 DEF PathInv, V
<1> QED BY <1>1, <1>4, <1>5, <1>6, <1>7, <1>8, <1>9, <1>10 DEF Next, Evaluate

\* Every execution that runs off the end of its script has followed one whole
\* path through it: the successor of every command, and of every `if' the one
\* branch or the other, whatever the nesting (libsieve_eval).
THEOREM FollowsOnePath == Spec => []WholePath
<1>1. Init => PathInv
  BY DEF Init, PathInv, WholePath
<1>2. PathInv => WholePath
  BY DEF PathInv
<1> QED BY <1>1, <1>2, OrderInvariant, PathStep, PTL DEF Spec
-----------------------------------------------------------------------------
\* The commands that have run are no more than those up to the last of them.
Counted == \A k \in DOMAIN trace : k <= trace[k].node

\* What an execution has left to do: to run a command, and to return from it if
\* it is an `if', for each that has not run, and to return from the active calls.
Left == 2 * (Len(script) - Len(trace)) + Len(frames)

\* Another command is noted, and there was one left.
LEMMA NotedCounts ==
  ASSUME TypeOK, OrderInv, Counted, NEW t, At(t), NEW o \in Outcome, Note(o)
  PROVE  Counted' /\ Len(trace') = Len(trace) + 1
<1>1. frames[1] \in 1..Len(script) /\ Len(script) \in Nat
  BY AtCommand DEF TypeOK
<1>2. /\ DOMAIN trace = 1..Len(trace) /\ DOMAIN trace' = 1..(Len(trace) + 1) /\ Len(trace) \in Nat
      /\ \A k \in 1..Len(trace) : trace'[k] = trace[k] /\ trace[k].node \in 1..Len(script)
                                  /\ trace[k].node < frames[1]
      /\ trace'[Len(trace) + 1].node = frames[1]
  BY Noted
<1>3. Len(trace') = Len(trace) + 1
  <2>1. trace' \in Seq([node : 1..Len(script), outcome : Outcome])
    BY NoteType
  <2> DEFINE E == [node : 1..Len(script), outcome : Outcome]
  <2> HIDE DEF E
  <2>2. trace' \in Seq(E)
    BY <2>1 DEF E
  <2>3. Len(trace') \in Nat /\ DOMAIN trace' = 1..Len(trace')
    BY <2>2, LenProperties
  <2>4. ASSUME NEW m \in Nat, NEW n \in Nat, 1..m = 1..n PROVE m = n
    <3>1. m >= 1 => m \in 1..n
      BY <2>4
    <3>2. n >= 1 => n \in 1..m
      BY <2>4
    <3> QED BY <3>1, <3>2
  <2> QED BY <1>2, <2>3, <2>4
<1>4. ASSUME NEW k \in 1..(Len(trace) + 1) PROVE k <= trace'[k].node
  <2>1. CASE k \in 1..Len(trace)
    BY <1>2, <2>1 DEF Counted
  <2>2. CASE k = Len(trace) + 1 /\ Len(trace) # 0
    <3>1. Len(trace) \in 1..Len(trace) /\ Len(trace) <= trace[Len(trace)].node
      BY <1>2, <2>2 DEF Counted
    <3> QED BY <1>1, <1>2, <2>2, <3>1
  <2>3. CASE k = 1 /\ Len(trace) = 0
    BY <1>1, <1>2, <2>3
  <2> QED BY <1>2, <2>1, <2>2, <2>3
<1> QED BY <1>2, <1>3, <1>4 DEF Counted

\* No more commands have run than the script has.
LEMMA LeftIs ==
  ASSUME TypeOK, Counted
  PROVE  Left \in Nat /\ Len(script) \in Nat /\ Len(trace) \in 0..Len(script) /\ Len(frames) \in Nat
<1> DEFINE E == [node : 1..Len(script), outcome : Outcome]
<1>1. Len(script) \in Nat /\ Len(frames) \in Nat /\ trace \in Seq(E)
  BY DEF TypeOK, Stacks
<1>2. Len(trace) \in Nat /\ DOMAIN trace = 1..Len(trace) /\ \A k \in 1..Len(trace) : trace[k] \in E
  <2> HIDE DEF E
  <2> QED BY <1>1, LenProperties, ElementOfSeq
<1>3. Len(trace) <= Len(script)
  <2>1. CASE Len(trace) = 0
    BY <1>1, <2>1
  <2>2. CASE Len(trace) # 0
    <3>1. Len(trace) \in 1..Len(trace)
      BY <1>2, <2>2
    <3>2. trace[Len(trace)].node \in 1..Len(script)
      BY <1>2, <3>1
    <3> QED BY <1>1, <1>2, <3>1, <3>2 DEF Counted
  <2> QED BY <2>1, <2>2
<1>4. \A a, b, c \in Nat : b <= a => 2 * (a - b) + c \in Nat
  OBVIOUS
<1> QED BY <1>1, <1>2, <1>3, <1>4 DEF Left

\* The steps of one execution: it starts with so much left, and each has less.
Shrinks ==
  /\ Start => Left' = 2 * Len(script') + 1
  /\ Evaluate => Left' < Left

LEMMA ShrinkStep ==
  TypeOK /\ OrderInv /\ Counted /\ [Next]_vars => Counted' /\ Shrinks
<1> SUFFICES ASSUME TypeOK, OrderInv, Counted, [Next]_vars
             PROVE  Counted' /\ Shrinks
  OBVIOUS
<1>1. /\ Left \in Nat /\ Len(script) \in Nat /\ Len(trace) \in Nat /\ Len(frames) \in Nat
      /\ Left = 2 * (Len(script) - Len(trace)) + Len(frames)
  BY LeftIs DEF Left
<1>2. Left' = 2 * (Len(script') - Len(trace')) + Len(frames')
  BY DEF Left
<1>3. frames \in Seq(0..Len(script))
  BY DEF TypeOK, Stacks
<1>4. ASSUME frames # <<>>
      PROVE  /\ Len(Advance(frames)) = Len(frames)
             /\ Len(Tail(frames)) = Len(frames) - 1 /\ Tail(frames) \in Seq(0..Len(script))
  BY <1>3, <1>4, HeadTailProperties DEF Advance
<1>5. ASSUME Start PROVE Counted' /\ Left' = 2 * Len(script') + 1
  <2>1. trace' = <<>> /\ frames' \in {<<0>>, <<1>>} /\ frames = <<>>
    BY <1>5 DEF Start, Idle
  <2>2. script' \in Seq(Command)
    BY <1>5, ScriptsAssumption DEF Start
  <2>3. Len(script') \in Nat /\ Len(trace') = 0 /\ Len(frames') = 1
    BY <2>1, <2>2
  <2> QED BY <1>2, <2>1, <2>3 DEF Counted
\* A command runs, which may call for a branch.
<1>6. ASSUME NEW t, At(t), NEW o \in Outcome, Note(o), UNCHANGED script,
             Len(frames') \in {Len(frames), Len(frames) + 1}
      PROVE  Counted' /\ Left' < Left
  <2>1. Counted' /\ Len(trace') = Len(trace) + 1
    BY <1>6, NotedCounts
  <2> QED BY <1>1, <1>2, <1>6, <2>1
<1>7. ASSUME NEW a \in Action, Perform(a) PROVE Counted' /\ Left' < Left
  <2>1. At(a) /\ frames # <<>> /\ UNCHANGED script
    BY <1>7, AtCommand DEF Perform
  <2>2. frames' = frames \/ frames' = Advance(frames)
    BY <1>7 DEF Perform
  <2>3. Note("refused") \/ Note("done")
    BY <1>7 DEF Perform
  <2> QED BY <1>4, <1>6, <2>1, <2>2, <2>3 DEF Outcome
<1>8. ASSUME StaySilent PROVE Counted' /\ Left' < Left
  <2>1. At("vacation") /\ frames # <<>>
    BY <1>8, AtCommand DEF StaySilent
  <2> QED BY <1>4, <1>6, <1>8, <2>1 DEF StaySilent, Outcome
<1>9. ASSUME Flag PROVE Counted' /\ Left' < Left
  <2>1. PICK t \in Flagging : At(t)
    BY <1>9 DEF Flag
  <2>2. frames # <<>>
    BY <2>1, AtCommand
  <2> QED BY <1>4, <1>6, <1>9, <2>1, <2>2 DEF Flag, Outcome
<1>10. ASSUME Stop PROVE Counted' /\ Left' < Left
  <2>1. At("stop") /\ frames # <<>>
    BY <1>10, AtCommand DEF Stop
  <2> QED BY <1>6, <1>10, <2>1 DEF Stop, Outcome
<1>11. ASSUME If PROVE Counted' /\ Left' < Left
  <2>1. At("if") /\ frames # <<>> /\ Note("done") /\ UNCHANGED script
    BY <1>11, AtCommand DEF If
  <2>2. PICK branch : frames' = <<branch>> \o frames
    BY <1>11 DEF If
  <2>3. Len(frames') = Len(frames) + 1
    BY <1>3, <2>2
  <2> QED BY <1>6, <2>1, <2>3 DEF Outcome
\* A call returns.
<1>12. ASSUME Return PROVE Counted' /\ Left' < Left
  <2>1. frames # <<>> /\ UNCHANGED <<script, trace>>
    BY <1>12 DEF Return, ReturnTo, Idle
  <2>2. Len(Tail(frames)) = Len(frames) - 1
    BY <1>4, <2>1
  <2>3. frames' = Tail(frames) \/ frames' = Advance(Tail(frames))
    BY <1>12 DEF Return, ReturnTo
  <2>4. Len(frames') = Len(frames) - 1
    <3>1. Len(Advance(Tail(frames))) = Len(Tail(frames))
      BY <1>4, <2>1 DEF Advance
    <3> QED BY <2>2, <2>3, <3>1
  <2> QED BY <1>1, <1>2, <2>1, <2>4 DEF Counted
<1>13. ASSUME UNCHANGED vars PROVE Counted'
  BY <1>13 DEF vars, Counted
<1> QED BY <1>5, <1>7, <1>8, <1>9, <1>10, <1>11, <1>12, <1>13 DEF Next, Evaluate, Shrinks

\* Every execution is short: it takes no more than two steps for each command of
\* its script and one to return to sieve2_execute, however its tests come out and
\* its ifs are nested, since no command runs twice (libsieve_eval).
THEOREM ExecutionsEnd == Spec => [](Left \in Nat) /\ [][Shrinks]_vars
<1>1. Init => Counted
  BY DEF Init, Counted
<1>2. TypeOK /\ Counted => Left \in Nat
  BY LeftIs
<1>3. TypeOK /\ OrderInv /\ Counted /\ [Next]_vars => Counted'
  BY ShrinkStep
<1>4. TypeOK /\ OrderInv /\ Counted /\ [Next]_vars => [Shrinks]_vars
  BY ShrinkStep
<1> QED BY <1>1, <1>2, <1>3, <1>4, OrderInvariant, PTL DEF Spec
=============================================================================
