------------------------------ MODULE SieveEval ------------------------------
(***************************************************************************)
(* libsieve_eval (script.c) walking a parsed script, command by command,   *)
(* with the compatibility checks of the libsieve_do_* actions              *)
(* (callbacks2.c) and the return code sieve2_execute (script2.c) makes of  *)
(* the walk.  One context executes several scripts one after the other.    *)
(*                                                                         *)
(* The recursion of libsieve_eval into the branches of an `if' is an       *)
(* explicit stack: frames[1] is the command pointer `c' of the innermost   *)
(* call, 0 being NULL.  A test of an `if' may come out either way and a    *)
(* `vacation' may or may not find a reason to stay silent.                 *)
(***************************************************************************)
EXTENDS Naturals, Sequences

CONSTANTS
  Scripts,        \* the scripts the getscript callback may return, parsed
  Registrations,  \* the sets of actions the client may have a callback for
  MaxRuns         \* bound: executions of one context

Disposing == {"fileinto", "redirect", "keep", "vacation"}
Action    == Disposing \cup {"reject", "discard", "notify"}
Flagging  == {"setflag", "addflag", "removeflag"}

OK   == 0         \* SIEVE2_OK
STOP == 1         \* what the STOP command makes libsieve_eval return
EXEC == 5         \* SIEVE2_ERROR_EXEC

\* commandlist_t: a script is an array of commands that link to later ones.
Command == [type : Action \cup Flagging \cup {"stop", "if"},
            then : Nat, else : Nat, next : Nat]

ASSUME ScriptsAssumption ==
  \A s \in Scripts :
    /\ s \in Seq(Command)
    /\ \A n \in DOMAIN s :
         {s[n].then, s[n].else, s[n].next} \subseteq {0} \cup (n+1)..Len(s)

\* The commands are numbered in the order of the text.  The commands of a branch
\* stand between the `if' and what comes behind it, those of then before those
\* of else; end[n] is behind the list of commands that n is in.
Behind(s, end, n) == IF s[n].next # 0 THEN s[n].next ELSE end[n]
Numbered(s, end) ==
  \A n \in DOMAIN s :
    /\ n < end[n]
    /\ s[n].next # 0 => end[s[n].next] <= end[n]
    /\ \A b \in {s[n].then, s[n].else} \ {0} : end[b] <= Behind(s, end, n)
    /\ 0 \notin {s[n].then, s[n].else} => end[s[n].then] <= s[n].else

ASSUME NestingAssumption ==
  \A s \in Scripts : \E end \in [DOMAIN s -> 1..(Len(s) + 1)] : Numbered(s, end)

ASSUME RegistrationsAssumption == Registrations \subseteq SUBSET Action
ASSUME MaxRunsAssumption == MaxRuns \in Nat

VARIABLES
  script,      \* the script under execution
  frames,      \* the command pointer of each active libsieve_eval call
  res,         \* `res', the result of the latest command
  actions,     \* context->actions: the flags that are TRUE
  registered,  \* context->callbacks, the action callbacks that are not NULL
  performed,   \* history: the action callbacks made on this context
  trace,       \* history: the commands of this execution and what came of them
  ret,         \* what the latest sieve2_execute returned
  runs         \* executions so far

vars == <<script, frames, res, actions, registered, performed, trace, ret, runs>>

Outcome == {"done", "silent", "refused", "stopped"}

Init ==
  /\ script = <<>> /\ frames = <<>> /\ res = OK
  /\ actions = {} /\ registered = {} /\ performed = <<>>
  /\ trace = <<>> /\ ret = OK /\ runs = 0

-----------------------------------------------------------------------------
Idle == frames = <<>>

\* The top of the `while': the innermost call is at a command of type t.
At(t) == ~Idle /\ res = OK /\ frames[1] # 0 /\ script[frames[1]].type = t

\* `c = c->next' in the call that is now innermost.
Advance(fs) == [fs EXCEPT ![1] = script[@].next]

Note(o) == trace' = Append(trace, [node |-> frames[1], outcome |-> o])

\* Mutant: do_reject does not look at the vacation flag.
RefusingNoVacation == [a \in Action |->
  IF a = "reject" THEN (Disposing \cup {"reject"}) \ {"vacation"}
  ELSE IF a \in Disposing THEN {"reject"} ELSE {}]

\* The flags a libsieve_do_* function finds set before it refuses with EXEC.
Refusing == [a \in Action |->
  CASE a = "reject"       -> Disposing \cup {"reject"} \cup Flagging
    [] a \in Disposing    -> {"reject"}
    [] OTHER              -> {}]

\* sieve2_callbacks between executions, then sieve2_execute up to the call
\* of libsieve_eval: getscript and the parser hand over a script.
Start ==
  /\ Idle /\ runs < MaxRuns
  /\ script' \in Scripts /\ registered' \in Registrations
  /\ frames' = IF script' = <<>> THEN <<0>> ELSE <<1>>
  /\ res' = OK /\ trace' = <<>> /\ runs' = runs + 1
  /\ UNCHANGED <<actions, performed, ret>>

\* Mutant: an action without a callback leaves no flag.
PerformUnflagged(a) ==
  /\ At(a)
  /\ IF actions \cap Refusing[a] # {}
     THEN res' = EXEC /\ Note("refused") /\ UNCHANGED <<frames, actions, performed>>
     ELSE /\ IF a \in registered
             THEN actions' = actions \cup {a} /\ performed' = Append(performed, a)
             ELSE UNCHANGED <<actions, performed>>
          /\ frames' = Advance(frames) /\ Note("done") /\ UNCHANGED res
  /\ UNCHANGED <<script, registered, ret, runs>>

\* libsieve_do_reject, _fileinto, _redirect, _keep, _discard, _vacation and
\* _notify: refuse, or set the flag and make the callback if there is one.
Perform(a) ==
  /\ At(a)
  /\ IF actions \cap Refusing[a] # {}
     THEN /\ res' = EXEC
          /\ Note("refused")
          /\ UNCHANGED <<frames, actions, performed>>
     ELSE /\ actions' = actions \cup {a}
          /\ performed' = IF a \in registered THEN Append(performed, a)
                                              ELSE performed
          /\ frames' = Advance(frames)
          /\ Note("done")
          /\ UNCHANGED res
  /\ UNCHANGED <<script, registered, ret, runs>>

\* VACATION with l = SIEVE2_DONE: no reply, no error.
StaySilent ==
  /\ At("vacation")
  /\ frames' = Advance(frames)
  /\ Note("silent")
  /\ UNCHANGED <<script, res, actions, registered, performed, ret, runs>>

\* SETFLAG, ADDFLAG and REMOVEFLAG touch context->slflags alone.
Flag ==
  /\ \E t \in Flagging : At(t)
  /\ frames' = Advance(frames)
  /\ Note("done")
  /\ UNCHANGED <<script, res, actions, registered, performed, ret, runs>>

Stop ==
  /\ At("stop")
  /\ res' = STOP
  /\ Note("stopped")
  /\ UNCHANGED <<script, frames, actions, registered, performed, ret, runs>>

\* Mutant: `c' moves on before the branch is evaluated.
IfAdvanced ==
  /\ At("if")
  /\ \E branch \in {script[frames[1]].then, script[frames[1]].else} :
       frames' = <<branch>> \o Advance(frames)
  /\ Note("done")
  /\ UNCHANGED <<script, res, actions, registered, performed, ret, runs>>

\* IF: call libsieve_eval on one of the branches, which may be NULL.
If ==
  /\ At("if")
  /\ \E branch \in {script[frames[1]].then, script[frames[1]].else} :
       frames' = <<branch>> \o frames
  /\ Note("done")
  /\ UNCHANGED <<script, res, actions, registered, performed, ret, runs>>

\* The return of the innermost call when `done' says so, into frames fs with
\* result r.
ReturnTo(done, fs, r) ==
  /\ ~Idle /\ done
  /\ frames' = fs /\ res' = r
  /\ ret' = IF Len(frames) = 1 THEN OK ELSE ret
  /\ UNCHANGED <<script, actions, registered, performed, trace, runs>>

\* Mutants: IF drops the result of the nested call; the caller runs its IF
\* again; the caller returns too; a result other than 0 does not end the loop.
ReturnDropped ==
  ReturnTo(res # OK \/ frames[1] = 0,
           IF Len(frames) > 1 THEN Advance(Tail(frames)) ELSE <<>>, OK)
ReturnAgain == ReturnTo(res # OK \/ frames[1] = 0, Tail(frames), res)
ReturnTwice ==
  ReturnTo(res # OK \/ frames[1] = 0,
           IF Len(frames) > 1 THEN Tail(Tail(frames)) ELSE <<>>, res)
ReturnAtEnd ==
  ReturnTo(frames[1] = 0,
           IF Len(frames) > 1 THEN Advance(Tail(frames)) ELSE <<>>, res)

\* The return of the innermost call, off its end or on an error or a stop.
\* The caller breaks out of its own loop if the result is not 0; the
\* outermost result is negative in no case, so sieve2_execute returns OK.
Return ==
  ReturnTo(res # OK \/ frames[1] = 0,
           IF Len(frames) > 1 /\ res = OK THEN Advance(Tail(frames))
                                         ELSE Tail(frames), res)

Evaluate ==
  \/ \E a \in Action : Perform(a)
  \/ StaySilent
  \/ Flag
  \/ Stop
  \/ If
  \/ Return

Next == Start \/ Evaluate

Spec == Init /\ [][Next]_vars

\* Once called, libsieve_eval runs to its end: it waits for nobody.
FairSpec == Spec /\ WF_vars(Evaluate)

-----------------------------------------------------------------------------
\* A call that waits for the return of a nested one waits at a command.
Stacks == {fs \in Seq(0..Len(script)) : \A i \in 2..Len(fs) : fs[i] # 0}

TypeOK ==
  /\ script \in Seq(Command)
  /\ \A n \in DOMAIN script :
       {script[n].then, script[n].else, script[n].next}
          \subseteq {0} \cup (n+1)..Len(script)
  /\ frames \in Stacks
  /\ res \in {OK, STOP, EXEC}
  /\ actions \subseteq Action
  /\ registered \subseteq Action
  /\ performed \in Seq(Action)
  /\ trace \in Seq([node : 1..Len(script), outcome : Outcome])
  /\ ret \in {OK, EXEC}
  /\ runs \in 0..MaxRuns

\* A rejected message is never also filed, redirected, kept, answered or
\* rejected again, whatever the order, the nesting and the number of scripts
\* the context has executed (libsieve_do_* in callbacks2.c).
RejectExclusive ==
  \A i, j \in DOMAIN performed :
    i # j /\ performed[i] = "reject" => performed[j] \notin Disposing \cup {"reject"}

\* Nothing runs after a stop or a refused action, however deep the `if' it
\* stands in: the result unwinds every active libsieve_eval.
HaltIsFinal ==
  \A i \in 1..(Len(trace) - 1) : trace[i].outcome \notin {"refused", "stopped"}

\* Commands run in the order in which the script lists them, each at most once.
DocumentOrder ==
  \A i, j \in DOMAIN trace : i < j => trace[i].node < trace[j].node

\* An execution that ran off the end of the script has followed one whole path
\* through it: the successor of every command it ran, and for every `if' one
\* branch and one only.
Visited == {trace[i].node : i \in DOMAIN trace} \cup {0}
WholePath ==
  Idle /\ runs > 0 /\ res = OK =>
    /\ script # <<>> => 1 \in Visited
    /\ \A n \in Visited \ {0} :
         LET c == script[n]
         IN  /\ c.next \in Visited
             /\ c.type = "if" =>
                  /\ c.then \in Visited \/ c.else \in Visited
                  /\ {c.then, c.else} \subseteq Visited => 0 \in {c.then, c.else}

\* What the active calls will still run if nothing ends them: the list that
\* the innermost is at, and what follows on the `if' at which each other waits.
Todo ==
  IF Idle \/ res # OK THEN {}
  ELSE ({frames[1]} \cup {script[frames[i]].next : i \in 2..Len(frames)}) \ {0}

\* The nested calls with their results, and the flags that each action looks at
\* on its own side, do what Delivery does with one loop and one relation between
\* actions: the same commands in the same order, the same callbacks, and the same
\* refusals, over all the executions of a context (libsieve_eval, libsieve_do_*).
Promise == INSTANCE Delivery WITH todo <- Todo, done <- actions, delivered <- performed
KeepsPromise == Promise!Spec

\* Every execution comes to its end and returns to the client.
Terminates == ~Idle ~> Idle
=============================================================================
