------------------------------ MODULE SieveApi ------------------------------
(***************************************************************************)
(* The life of a context under the calls of script2.c: which callbacks it  *)
(* holds, which extensions it believes supported and required, who owns    *)
(* the parsed script, and over which headers a script is evaluated.  The   *)
(* client moves from message to message and makes the calls in any order.  *)
(* What the parser (sieve.y) makes of a script is a function of the        *)
(* script's require line and of the extension each command belongs to;     *)
(* what the evaluator makes of it is the subject of SieveEval.             *)
(***************************************************************************)
EXTENDS Naturals, Sequences, FiniteSets

CONSTANTS
  Arrays,       \* the callback arrays the client may pass to sieve2_callbacks
  Scripts,      \* the scripts the getscript callback may return
  MaxMessages,  \* bound: messages the client goes through
  MaxCalls      \* bound: calls the client makes

\* The extensions that come with a callback, and that callback.
CallbackOf == [fileinto |-> "fileinto", reject |-> "reject",
               vacation |-> "vacation", notify |-> "notify",
               envelope |-> "getenvelope", subaddress |-> "getsubaddress"]
Extension == DOMAIN CallbackOf
Gated     == {"fileinto", "reject", "vacation", "notify"}

Callback == {CallbackOf[e] : e \in Extension} \cup
            {"redirect", "keep", "getsize", "getscript", "getheader", "getallheaders"}

\* A script: what it requires, the extension each command needs ("none" for
\* the base language), and whether a syntax error ends the parse.
Script == [requires : SUBSET Extension,
           commands : Seq(Gated \cup {"none"}),
           broken   : BOOLEAN]

OK            == 0
NOT_FINALIZED == 3
PARSE         == 4
EXEC          == 5
UNSUPPORTED   == 8
HEADER        == 11
GETSCRIPT     == 12

\* "denotify" stands for a value that sieve2_callbacks does not know.
ASSUME ArraysAssumption ==
  Arrays \subseteq Seq((Callback \cup {"denotify"}) \X {"null", "client"})
ASSUME ScriptsAssumption == Scripts \subseteq Script
ASSUME BoundsAssumption == MaxMessages \in Nat \ {0} /\ MaxCalls \in Nat

VARIABLES
  live,       \* between sieve2_alloc and sieve2_free
  callbacks,  \* context->callbacks
  support,    \* context->support, the extensions set to 1
  require,    \* context->require, the extensions set to 1
  cmds,       \* context->script.cmds: a tree, 0 for NULL
  trees,      \* the heap: trees the parser allocated and nobody freed
  parsed,     \* trees allocated so far
  headers,    \* the messages whose headers are in context->message->hash
  message,    \* the message the client is at
  last,       \* the latest call: its name, script, parse errors, commands run, result
  accepted,   \* history: the scripts this context parsed without an error
  wild,       \* history: the trees freed when they were not allocated
  offered,    \* history: the extensions this context ever had a callback for
  pending,    \* history: those an array brought that was cut short, none since complete
  born,       \* history: the message the client was at when it made the context
  unread,     \* history: the latest fetch of headers found none to parse
  calls       \* calls so far

history == <<accepted, wild, offered, pending, born, unread>>
vars == <<live, callbacks, support, require, cmds, trees, parsed, headers,
          message, last, history, calls>>

NoScript == [requires |-> {}, commands |-> <<>>, broken |-> FALSE]
Call(name, s, e, run, r) ==
  [name |-> name, script |-> s, errors |-> e, ran |-> run, ret |-> r]
Blank == [v \in Callback |-> "null"]

Init ==
  /\ live = FALSE /\ callbacks = Blank /\ support = {} /\ require = {}
  /\ cmds = 0 /\ trees = {} /\ parsed = 0 /\ headers = {} /\ message = 1
  /\ last = Call("none", NoScript, 0, <<>>, OK)
  /\ accepted = {} /\ wild = {} /\ calls = 0
  /\ offered = {} /\ pending = {} /\ born = 1 /\ unread = FALSE

Calling == calls < MaxCalls /\ calls' = calls + 1
-----------------------------------------------------------------------------
\* sieve2_alloc: everything is zero.
Alloc ==
  /\ Calling /\ ~live /\ live' = TRUE
  /\ callbacks' = Blank /\ support' = {} /\ require' = {}
  /\ cmds' = 0 /\ headers' = {} /\ accepted' = {}
  /\ offered' = {} /\ pending' = {} /\ born' = message /\ unread' = FALSE
  /\ last' = Call("alloc", NoScript, 0, <<>>, OK)
  /\ UNCHANGED <<trees, parsed, message, wild>>

\* libsieve_free_tree on tree t, 0 being NULL.
FreeTree(t, heap) ==
  /\ trees' = heap \ {t}
  /\ wild' = wild \cup ({t} \ (heap \cup {0}))

\* sieve2_free.
Free ==
  /\ Calling /\ live /\ live' = FALSE
  /\ FreeTree(cmds, trees)
  /\ last' = Call("free", NoScript, 0, <<>>, OK)
  /\ UNCHANGED <<callbacks, support, require, cmds, parsed, headers, message,
                 accepted, offered, pending, born, unread>>

\* The extensions that have their callback.
Backed(cb) == {e \in Extension : cb[CallbackOf[e]] # "null"}

\* Mutants: notify is forgotten; support follows the callbacks down as well.
CheckSupportNoNotify(cb) == support \cup (Backed(cb) \ {"notify"})
CheckSupportExactly(cb) == Backed(cb)

\* static_check_support: extensions are added to the support structure only.
CheckSupport(cb) == support \cup Backed(cb)

\* sieve2_callbacks: the entries up to the first unknown value are stored, a
\* later one over an earlier one; only an array without any reaches
\* static_check_support.
Register(a) ==
  LET known  == {i \in DOMAIN a : \A j \in 1..i : a[j][1] \in Callback}
      of(v)  == {i \in known : a[i][1] = v}
      latest(v) == CHOOSE i \in of(v) : \A j \in of(v) : j <= i
      all    == known = DOMAIN a
  IN  /\ Calling /\ live
      /\ callbacks' = [v \in Callback |->
                         IF of(v) = {} THEN callbacks[v] ELSE a[latest(v)][2]]
      /\ support' = IF all THEN CheckSupport(callbacks') ELSE support
      /\ offered' = offered \cup Backed(callbacks')
      /\ pending' = IF all THEN {} ELSE pending \cup (Backed(callbacks') \ Backed(callbacks))
      /\ last' = Call("callbacks", NoScript, 0, <<>>, IF all THEN OK ELSE UNSUPPORTED)
      /\ UNCHANGED <<live, require, cmds, trees, parsed, headers, message, accepted,
                     wild, born, unread>>

-----------------------------------------------------------------------------
\* static_check_reqs, for the whole require line: each required bit takes the
\* value of its support bit, and no other bit is touched.
Requiring(s) == (require \ s.requires) \cup (s.requires \cap support)

\* The commands the parser refuses because their extension is not required.
Lacking(s) == {i \in DOMAIN s.commands :
                 s.commands[i] # "none" /\ s.commands[i] \notin Requiring(s)}

\* A require line has to be followed by commands.
Malformed(s) == s.broken \/ (s.requires # {} /\ s.commands = <<>>)

\* libsieve_sieve_parse_buffer: a require line that asks too much ends the
\* parse, a refused command becomes a STOP.  The tree is 0 when nothing was
\* parsed.
ParseErrors(s) ==
  IF ~(s.requires \subseteq Requiring(s)) THEN 1
  ELSE Cardinality(Lacking(s)) + (IF Malformed(s) THEN 1 ELSE 0)
HasTree(s) ==
  s.requires \subseteq Requiring(s) /\ ~s.broken /\ s.commands # <<>>

\* Mutant: a refused command leaves a gap and no STOP.
EvaluatedPast(s) == IF ~HasTree(s) THEN <<>> ELSE s.commands

\* The commands that are reached: up to the first that became a STOP.
Evaluated(s) ==
  IF ~HasTree(s) THEN <<>>
  ELSE SubSeq(s.commands, 1,
         Cardinality({i \in DOMAIN s.commands : \A j \in 1..i : j \notin Lacking(s)}))

Parse(s) ==
  /\ require' = Requiring(s)
  /\ parsed' = IF HasTree(s) THEN parsed + 1 ELSE parsed
  /\ accepted' = IF ParseErrors(s) = 0 THEN accepted \cup {s} ELSE accepted

HasScript == callbacks["getscript"] # "null"

\* Mutant: the result of libsieve_do_getscript is passed on.
NoGetscriptExec(name) ==
  /\ Calling /\ live
  /\ last' = Call(name, NoScript, 0, <<>>, EXEC)
  /\ UNCHANGED <<live, callbacks, support, require, cmds, trees, parsed, headers,
                 message, history>>

\* sieve2_validate and sieve2_execute without a script from the getscript
\* callback, or without that callback.
NoGetscript(name) ==
  /\ Calling /\ live
  /\ last' = Call(name, NoScript, 0, <<>>, GETSCRIPT)
  /\ UNCHANGED <<live, callbacks, support, require, cmds, trees, parsed, headers,
                 message, history>>

\* Mutant: the freed tree stays in the context.
ValidateKeeping(s) ==
  /\ Calling /\ live /\ HasScript
  /\ Parse(s)
  /\ IF HasTree(s) THEN cmds' = parsed' /\ UNCHANGED <<trees, wild>>
                   ELSE cmds' = 0 /\ UNCHANGED <<trees, wild>>
  /\ last' = Call("validate", s, ParseErrors(s), <<>>, OK)
  /\ UNCHANGED <<live, callbacks, support, headers, message, offered, pending,
                 born, unread>>

\* sieve2_validate: parse, free the tree, forget it.  script.error_count is
\* not what the parser counts, so the result is OK whatever was parsed.
Validate(s) ==
  /\ Calling /\ live /\ HasScript
  /\ Parse(s)
  /\ IF HasTree(s) THEN FreeTree(parsed', trees \cup {parsed'})
                   ELSE UNCHANGED <<trees, wild>>
  /\ cmds' = 0
  /\ last' = Call("validate", s, ParseErrors(s), <<>>, OK)
  /\ UNCHANGED <<live, callbacks, support, headers, message, offered, pending,
                 born, unread>>

\* sieve2_execute with neither of the header callbacks.
ExecuteNotFinalized ==
  /\ Calling /\ live /\ HasScript
  /\ callbacks["getheader"] = "null" /\ callbacks["getallheaders"] = "null"
  /\ last' = Call("execute", NoScript, 0, <<>>, NOT_FINALIZED)
  /\ UNCHANGED <<live, callbacks, support, require, cmds, trees, parsed, headers,
                 message, history>>

\* sieve2_execute when the message has no header the parser understands: the
\* internal getheader is already in place.
ExecuteNoHeader ==
  /\ Calling /\ live /\ HasScript
  /\ callbacks["getheader"] = "null" /\ callbacks["getallheaders"] # "null"
  /\ callbacks' = [callbacks EXCEPT !["getheader"] = "internal"]
  /\ unread' = TRUE
  /\ last' = Call("execute", NoScript, 0, <<>>, HEADER)
  /\ UNCHANGED <<live, support, require, cmds, trees, parsed, headers, message,
                 accepted, wild, offered, pending, born>>

\* Mutant: the internal getheader is put in place without a fetch.
HeaderSourceUnfetched ==
  \/ callbacks["getheader"] # "null" /\ UNCHANGED <<callbacks, headers, unread>>
  \/ /\ callbacks["getheader"] = "null" /\ callbacks["getallheaders"] # "null"
     /\ callbacks' = [callbacks EXCEPT !["getheader"] = "internal"]
     /\ UNCHANGED <<headers, unread>>

\* Where sieve2_execute gets headers from: the client's getheader or the table
\* filled before, or the table after the message's headers went into it.
HeaderSource ==
  \/ callbacks["getheader"] # "null" /\ UNCHANGED <<callbacks, headers, unread>>
  \/ /\ callbacks["getheader"] = "null" /\ callbacks["getallheaders"] # "null"
     /\ callbacks' = [callbacks EXCEPT !["getheader"] = "internal"]
     /\ headers' = headers \cup {message} /\ unread' = FALSE

\* The rest of sieve2_execute: the tree replaces the one before, which nobody
\* frees, and is evaluated.
Execute(s) ==
  /\ Calling /\ live /\ HasScript
  /\ HeaderSource
  /\ Parse(s)
  /\ IF HasTree(s) THEN cmds' = parsed' /\ trees' = trees \cup {parsed'}
                   ELSE cmds' = 0 /\ UNCHANGED trees
  /\ last' = Call("execute", s, ParseErrors(s), Evaluated(s), OK)
  /\ UNCHANGED <<live, support, message, wild, offered, pending, born>>

\* The client turns to its next message.
NextMessage ==
  /\ message < MaxMessages /\ message' = message + 1
  /\ UNCHANGED <<live, callbacks, support, require, cmds, trees, parsed, headers,
                 last, history, calls>>

Next ==
  \/ Alloc \/ Free
  \/ \E a \in Arrays : Register(a)
  \/ NoGetscript("validate") \/ NoGetscript("execute")
  \/ \E s \in Scripts : Validate(s) \/ Execute(s)
  \/ ExecuteNotFinalized \/ ExecuteNoHeader
  \/ NextMessage

Spec == Init /\ [][Next]_vars
-----------------------------------------------------------------------------
TypeOK ==
  /\ live \in BOOLEAN /\ wild \subseteq 1..parsed
  /\ callbacks \in [Callback -> {"null", "client", "internal"}]
  /\ support \subseteq Extension /\ require \subseteq Extension
  /\ parsed \in Nat /\ cmds \in 0..parsed /\ trees \subseteq 1..parsed
  /\ message \in 1..MaxMessages /\ headers \subseteq 1..message
  /\ last.ret \in {OK, NOT_FINALIZED, UNSUPPORTED, HEADER, GETSCRIPT}
  /\ accepted \subseteq Scripts /\ calls \in 0..MaxCalls
  /\ offered \subseteq Extension /\ pending \subseteq offered
  /\ born \in 1..message /\ unread \in BOOLEAN

\* The parsed script a live context holds is one that nobody freed, and none
\* is freed twice, whatever the order of validate, execute and free
\* (script.cmds in script2.c).
TreeOwned == wild = {} /\ (live /\ cmds # 0 => cmds \in trees)

\* A script that keeps to the language.
WellFormed(s) ==
  /\ ~Malformed(s)
  /\ \A i \in DOMAIN s.commands : s.commands[i] \in s.requires \cup {"none"}

\* A well-formed script is accepted when the client has a callback for all that
\* it requires, and only when it had one at some time, whatever arrays were
\* registered, withdrawn or cut short before and whatever was parsed: what an
\* array brought that was cut short waits for the next complete one, and what
\* is withdrawn stays (sieve2_callbacks, static_check_support,
\* static_check_reqs).
AdmissionIsDue ==
  last.name \in {"validate", "execute"} =>
    /\ WellFormed(last.script) /\ last.script.requires \subseteq Backed(callbacks) \ pending
         => last.errors = 0
    /\ last.errors = 0 => last.script.requires \subseteq offered

\* A command of an extension is evaluated only if that extension was required
\* by a script of this context, and was supported then (static_check_reqs).
RanRequired ==
  \A i \in DOMAIN last.ran :
    last.ran[i] # "none" => last.ran[i] \in require \cap support

\* A client that makes a context for each message, and has no header parser,
\* sees its scripts judged by the headers of that message, however often it
\* executes and registers, and by an empty table only if the latest fetch of
\* headers failed (sieve2_alloc, sieve2_execute).
OwnHeaders ==
  last.name = "execute" /\ last.ret = OK /\
  born = message /\ callbacks["getheader"] = "internal"
    => headers = {message} \/ (unread /\ headers = {})

\* A script that a context has parsed without an error is never refused by it
\* later, whatever was registered, validated or executed in between.
AcceptedStays ==
  [][calls' # calls /\ last'.name \in {"validate", "execute"} /\ last'.script \in accepted
       => last'.errors = 0]_vars

-----------------------------------------------------------------------------
\* What the documentation says of these calls, and the code does not do.

\* script2.c, above sieve2_execute: SIEVE2_ERROR_PARSE for script parse errors.
ParseErrorReported == last.name = "execute" /\ last.errors > 0 => last.ret = PARSE

\* script2.c, above sieve2_execute: it runs a script over a message.  When the
\* internal header parser answers, and its table is not empty, the headers are
\* those of that message.
HeadersOfMessage ==
  [][calls' # calls /\ last'.name = "execute" /\ last'.ret = OK /\
     callbacks'["getheader"] = "internal" /\ headers' # {}
       => headers' = {message}]_vars
=============================================================================
