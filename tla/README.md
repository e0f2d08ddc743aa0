# libSieve: specifications, model checking and proofs

libSieve is a C library that a mail server links with to run a user's Sieve
script over one message. The client registers callbacks; the library fetches the
script, the headers, the envelope and the size through them, and reports what the
script wants done with the message through them. Paths below are relative to
`src/` of the repository (`sv_interface/`, `sv_parser/`, `sv_regex/`, `sv_util/`).

The library starts no threads and never waits. What is hard about it is not
concurrency but sequence: one context serves many calls, scripts and messages and
nothing resets most of its state; the evaluators are recursive and every level has
to handle the results of the next; the client answers through slots that are
filled and released again for every callback; and several small data structures
(the header table, the slots, string buffers) have boundaries that ordinary mail
seldom reaches. Two parsers of texts that strangers write keep their lexers between
texts, and the matcher of regular expressions keeps an automaton between searches.

## The system

| part | files | state | operations |
|---|---|---|---|
| public API | `sv_interface/script2.c` | one `struct sieve2_context`: callbacks, `support`, `require`, `actions`, the parsed script, the message | `sieve2_alloc`, `_callbacks`, `_validate`, `_execute`, `_free`; `_support`, `_listextensions` only read |
| script evaluation | `script.c` (`libsieve_eval`) | the command pointers of the nested calls, `res` | one case per command: `if`, `stop`, the actions, the flag commands |
| action callbacks | `callbacks2.c` | `context->actions`, which actions were taken | `libsieve_do_reject`, `_fileinto`, `_redirect`, `_keep`, `_discard`, `_vacation`, `_notify`, and the questions `_getheader`, `_getsize`, ... |
| test evaluation | `script.c` (`static_evaltest`) | the operands and partial results of the nested calls | one case per test |
| comparators | `sv_parser/comparator.c` | none | lookup; is, contains, matches, value and count for three collations |
| callback exchange | `context2.c`, `context2.h` | `cur_call`: begin, end, code, `MAX_VALUES` slots | begin, do, end; three setters and three getters, which the client calls too |
| header cache | `message2.c` | a hash table with a growing array of bodies for each name | `parseheader`, `getheader` |
| header parser | `header.y`, `header-lex.l` | the list of headers of one message | parse of a buffer |
| syntax tree | `tree.c` | the heap of trees | new and free of commands, tests and lists |
| script parser | `sieve.y`, `sieve-lex.l` | `require` bits, `parse_errors`, lexer start state | parse of a buffer |
| address parser | `addr.y`, `addr-lex.l` | the list of addresses, lexer start state | parse of a string |
| addresses of a header | `message.c` | a marker in the list | `parse_address`, `get_address`, `free_address` |
| flag list | `script.c`, `tree.c` | `context->slflags`, which outlives an execution; its strings are the tree's | `setflag`, `addflag`, `removeflag`, `hasflag`, passed on by keep and fileinto |
| regular expressions | `sv_regex/regcomp.c`, `regexec.c`, `regex_internal.c` | a `regex_t` for each pattern: nodes, closures, a table of states that grows as texts are searched; a buffer over the text | `regcomp`, `regexec`, `regfree` |
| buffers, exceptions | `sv_util/util.c`, `exception.c` | arrays that grow; a stack of contexts | `strbuf`, `catbuf`, `strconcat`, `strtonum`; try, catch, throw |

How they interact. `sieve2_execute` calls the getscript callback, the header
parser and cache, the script parser, and `libsieve_eval` on the tree, in that
order and on one stack. `libsieve_eval` calls itself for the branches of an `if`,
`static_evaltest` for its test, and one `libsieve_do_*` function for each action.
`static_evaltest` calls itself for operands, the `libsieve_do_get*` functions for
what it must know, and a comparator, which for `:regex` calls `regexec` on the
`regex_t` the script parser compiled for the test. A vacation and the tests of addresses
share the lexer of addresses, and the client's arrays of headers. Every `libsieve_do_*` function goes through
the callback exchange to the client and back. The parts share the context:
the parser reads `support` and writes `require`; the API writes `callbacks`, which
everything else reads; a client without a getheader is served by the cache
through the same callback slot.

What makes each part correct, and where it is hard:

* evaluation: the commands that run are one path through the script in document
  order; a stop or a refusal ends every level; reject excludes delivery in any
  order and over several executions; the client hears of failures;
* tests: the verdict is that of the boolean formula, and the client is asked
  only what is still open (or what an allof repeats, which its comment rules out);
* comparators: each decides the relation it is named for, for every pattern;
* API: a tree is freed once; what is accepted stays accepted; a script runs only
  what was required and supported, over the headers of its own message;
* exchange: no released name is compared, none is lost, a value is read as it
  was first set;
* cache: the NULL behind the bodies fits, a bucket is found again, and lookups
  answer as a map would;
* flag list: no node is used after it is freed, none is lost, no string dies before
  the list, and the script sees a set;
* vacation: a reply is made only to a message that calls for one, whatever was done to
  the headers and to the lexer before;
* regular expressions: the answer is that of the language of the pattern, on every
  search of many with one automaton; the buffer is the text; each search ends;
* parsers, buffers and exceptions: an error in one input leaves nothing behind
  for the next; a buffer has a place for the byte that ends it.

The hazards behind these, each at its line, are in `PROJECT.json`.

## The modules

| module | models | implements |
|---|---|---|
| `SieveEval` | `libsieve_eval`, the checks of `libsieve_do_*`, the end of `sieve2_execute` | `Delivery` |
| `SieveApi` | the calls of `script2.c`, `static_check_support`, `static_check_reqs`, what a parse leaves behind | |
| `CurCall` | `context2.c` as the functions of `callbacks2.c` use it | `ValueMap` |
| `HeaderCache` | the list of `header.y`, `parseheader` and `getheader` of `message2.c` | `HeaderMap` |
| `ImapFlags` | `context->slflags` under the cases of `libsieve_eval` and `static_evaltest` that use it, `new_sl` and `free_sl_only` of `tree.c` | `FlagSet` |
| `SieveTest` | `static_evaltest`, the iteration of `libsieve_get_address` | |
| `Comparator` | `comparator.c`, with what each comparator means beside it | |
| `Addresses` | `addr-lex.l`, `addr.y`, and the iteration of `libsieve_get_address` | |
| `Vacation` | the case of `libsieve_eval` that decides on a reply, `look_for_me`, `sysaddr`, `libsieve_do_getenvelope`, and the tests that use the same lexer | |
| `RegexParse` | the pattern parser of `regcomp.c` (`Characters` and `RegexState` below it) | |
| `RegexCompile` | from the tree to the automaton: `analyze`, the closures, the initial states, the fastmap | |
| `RegexString` | the buffer over a text, `re_string_t` | |
| `RegexState`, `NodeSets` | the states of the automaton with their table, and the sets of nodes they are made of | |
| `RegexExec` | `regexec.c`: the search, and the transitions it makes on the way | |
| `RegexLanguage` | what a pattern means, without an automaton | |
| `Headers` | the bodies of one name in a list of headers | |
| `MC...` | the constants of the runs | |
| `..._proofs` | theorems and lemmas | |

**SieveEval.** A recursive call is an element of `frames`, the innermost first;
its value is the command pointer `c` of that call, 0 for NULL. A script is an
array of commands whose links lead forward, which is how the parser builds it.
One action per case of the `switch`; `Return` is the end of the loop together with
what the calling level does with the result. The branch an `if` takes is a free
choice (`SieveTest` is about that), and so is whether `vacation` replies.
`vacation` has a branch that returns -1, but what it tests is OK or DONE at that
point, so no result of the walk is negative. `performed` and `trace` are history
variables.

`Delivery` says what all this is to amount to: one loop without calls or results. The
commands that remain are a set; the next is the first of them in the text, a branch of an
`if` adds the first command of its list, a stop or an action that is excluded empties
the set, and the exclusion is a symmetric relation over what was carried out. The
nested calls stand for such a set by the list the innermost is at and what follows on
the `if` of each other (`Todo`), unless a result is on its way out.

**SieveApi.** One action per call and per way out of it. A script is what it
requires, the extension each command belongs to, and whether a syntax error ends
the parse; a tree is a number. `trees` is the heap and `wild` remembers frees of
what was not allocated. `sieve2_validate` and `sieve2_execute` both look at
`script.error_count`, which no parser increments; the model has the counter that
is incremented, as `errors` of the latest call. `offered`, `pending`, `born` and `unread` are history
variables: for which extensions there ever was a callback, what an array brought that
was cut short, the message a context was made at, and whether the latest fetch of
headers failed. From these `AdmissionIsDue` says which scripts are to be admitted, without
the bits the code computes, and `OwnHeaders` by whose headers they are judged.

**CurCall.** `turn` is the discipline all `libsieve_do_*` functions share: begin,
set arguments, call the client, read answers, end. The results of begin and end
are ignored there, so a refused begin is an action that goes on. End frees names
and keeps the pointers; `allocated` tells which are good. The kinds of the slots
are never cleared, as in the code.

**HeaderCache.** `Parse` makes the list (headers are put in front of it), `Insert`
is one round of the loop in `parseheader`, `Lookup` the getheader callback. A
bucket has the members of `header_t` and the size of the allocation. The hash
function and the table size are constants. A body is the set of its lines, since a header
may be folded. If its first line is empty, the body takes the semantic value that lies
on the parser's stack, as the grammar has no action there, and the folded lines, if
there are any, are added to it. The order of the lines in a body is left out.

**ImapFlags.** The list is the sequence of its nodes, each with its address and
the tree that owns its string, and the pointer in the last node (`tail`), which is
not NULL after a setflag that met flags. A walk that gets there ends in
`PastTheEnd`, after which the model says nothing more. A new node may get any
address that is free, that of a node freed just before included. `exact` is a
history variable: it is FALSE once a command did something else to the flags than
`FlagSet` promises. There are three such cases, and they are the code's: a second
setflag, a setflag that lists several flags (only the first is set), and a
removeflag of the first of several (all are removed).

**SieveTest.** A call is a frame with its node, the operand it is at, whether the
operand of an allof is being evaluated for the second time, and the result so far.
Leaves are single steps whose operators contain the loops over headers, patterns
and texts. `asked` is history. `Test` is what the grammar builds: a tree, in which
composite tests have operands and every other node is the operand of one node, once.
`Values` is the value of each node under an assignment of truth values to the leaves.
`Comparing` is what the grammar makes of a test that compares, with a comparator that has
a function for its match type; `Message` is what the client can say of a message.

**Comparator.** Strings are sequences of codes, none of them 0 (`CString`). The wildcard matcher is a
recursive function over positions with the coalescing of runs that the code does;
`Meant` and the operators it uses are what a comparator should decide, defined
without looking at how.

**Addresses.** The lexer with its four start conditions and the count of nested
comments, and the grammar, which nests nothing and is therefore a finite automaton
(`Edges`), are one recursion over the words of a text: yacc asks for no token behind the
first that does not fit, so the lexer stays where it is then. `Told` is what a parse
leaves: the list, and the lexer for the next text. Nothing resets it.

**Vacation.** `Vacate` is one command: the checks for automatic messages and lists,
which skip blanks in the client's own arrays; the envelope, which
`libsieve_do_getenvelope` stores into the array of the last header that was asked for,
`precedence`, or into the constant for headers that are not found; the checks of the
sender; and `look_for_me` over six headers, which parses every body, and the addresses
of the script again for each address in it. `Test` is an address or envelope test
between two commands, or the check of a vacation's addresses when a script is parsed
(`Verify`), all of which only move the lexer; a redirect's address is checked in the same way. `Due` says of the message as it
arrived, and of a fresh lexer, when a reply is due. `RepliesAreDue` holds on two
conditions that the code does not establish: a reply is due unless a text has more
closing than opening parentheses up to some place (`Opened`), for such a text ends a
comment that an earlier one began, and what follows is then read as an address that the
text itself does not have; and a due reply is made from a fresh lexer if each text
leaves it fresh, each address of the script is one, and the sender does not read like a
robot's precedence (`Plainly`). `stopped` ends the behaviour: it is
set where `look_for_me` compares with NULL.

**The regex modules.** `RegexParse` makes nodes and a tree of a pattern as
`peek_token`, `parse_reg_exp` and those they call do, with intervals, brackets, and the
escapes of words and buffers. `RegexCompile` follows `analyze_tree`, `calc_epsdest` and
`calc_eclosure` in their order, with the copies of nodes behind an anchor that carry its
constraint, the second pass over closures that loops left incomplete, the four initial
states and the fastmap. `RegexExec` is the state machine: `Regcomp` and `Regfree`;
`Regexec` for each text; `GiveUp` and `Try` are a round of the loop over the places of
the text; `Step` is a round of the loop in `check_matching` with `transit_state`, and
`build_trtable` if the state has no transitions yet. The states of one `regex_t` are
shared by its searches, and a state is looked up by its nodes and its context. What a
pattern is compiled to is a constant of `RegexExec` (`Program`), which `MCRegex` takes
from `RegexCompile`. The library compiles with `REG_EXTENDED|REG_NOSUB`, and `REG_ICASE`
for casemap, and asks for no registers; the modules have what can be reached from there.

## The runs

| run | question | bounds |
|---|---|---|
| `eval` | Does every execution follow one path in document order, halt at every depth, and come to its end? Is reject exclusive, and is what the client sees a behaviour of `Delivery`? | every script of up to four commands of three types (ifs nest three deep), executed once; every command type in scripts of two commands, two executions, three sets of callbacks |
| `api` | Who owns the tree, which scripts are admitted after any registrations, whose headers are they judged by, is acceptance lasting? | seven calls, two messages, six callback arrays, seven scripts |
| `curcall` | Do names live exactly as long as their callback? Is the exchange a write-once map? | two callbacks, two names, two values, three kinds, three slots |
| `headers` | Is every bucket found, does the terminator fit, does the cache behave as a map? | two messages of two headers, folded or not; three names that collide in a table of three, a fourth that is never there; arrays that grow by two |
| `flags` | Does the list keep its nodes and its strings? Is it a set of flags? | three flags, every list of one or two, four addresses, two scripts in one or more contexts |
| `tests` | Are the verdict and the comparisons right? Is a leaf asked only while the answers before it leave the value open, or because an allof repeats it, and how often? | every tree of six nodes; leaves of every kind; patterns and texts of up to three characters over letters of both cases, a sign, digits and wildcards |
| `regex` | Is every answer that of the pattern's language, and that of the program followed over the text, on an automaton that many searches have extended? Are closures, transitions and contexts right, and the buffer the text? Does each search go forward? | some two hundred patterns of up to four parts, sixteen texts, any sequence of searches; some of the patterns with REG_ICASE |
| `vacation` | Is a reply made only where it is due, unless a text ends the comment of another, and always from a fresh lexer with plain texts? | 39 messages, six commands, any sequence of messages, commands and tests; comments nested up to three deep |
| `api_parse` | `script2.c` promises `SIEVE2_ERROR_PARSE` for parse errors. | the parser counts in another counter; the rest of the script runs and the result is OK |
| `api_headers` | `sieve2_execute` is to run a script over a message. | in a context that read the headers of one message, the internal parser answers for the next message with these |
| `flags_set` | `script23.sv` sets flags twice. | the second setflag links a freed list behind its node, and the next walk reads it |
| `headers_empty` | `header-lex.l` provides for an empty header. | its body is whatever the parser's stack held, and so is the beginning of a folded one whose first line is empty |

The last four are violations: TLC shows the disagreement, and `findings` quotes
both sides. The others pass.

Why the bounds are enough. In `SieveEval`, what happens at a level depends on the
level below by its result only, so three levels show every combination of a
result and a caller. Flags once set stay, so two commands in each of two executions
show every ordered pair of actions, inside an execution and across two. In
`SieveApi`, a hazard needs a registration, a call that leaves something behind, and
a call that finds it; seven calls allow two of these after the allocation, or three
registrations and three parses in any order. Three slots are more than two names of one kind and fewer than all names of all kinds, so
that they can overflow. In `ImapFlags` a removal finds its flag first, in the middle or last
of three nodes; the fourth address makes reuse of a freed one possible but not
necessary; with two scripts, a string of the first can be in the list while the
second is evaluated. A table of three places in which two names share the last
place makes the probe go around the end and into the place of another name; growth
by two shows the realloc at the third repetition. Six nodes allow an operator
below an operator below an operator with operands behind it; three characters are
enough for a wildcard with text on either side. In `Vacation` each message departs from
an ordinary one in one or two of the things the decision looks at, and the texts that
do not end cover each start condition; comments deeper than the bound behave as those
at the bound do. In `RegexExec` the patterns are all pairs of seven kinds of parts, one
behind the other or as alternatives, and all of these repeated, which makes the loops in
which closures are found incomplete and the copies behind anchors; the longer texts
make the buffer be extended and moved, and a state be reached again from an earlier search.
`CurCall`, `SieveEval`, `SieveApi`,
`HeaderCache`, `ImapFlags`, `SieveTest` and `RegexExec` do not rest on this alone: their main properties are proved
below for all bounds.

Deadlock is not checked where the client may stop calling (`MaxRuns`, `MaxCalls`,
`MaxParses` are reached or a test is done) or nothing more is said of the program
(`PastTheEnd` in `ImapFlags`, `stopped` in `Vacation`); `CurCall` and `RegexExec` never
stop and are checked.

Fairness. `Terminates` assumes `WF_vars(Evaluate)`: `libsieve_eval` is an ordinary
function that waits for nobody, so once it is called it goes on, as long as the
client's callbacks return. No fairness is assumed of `Start`: a client need not
call again. That a search of `RegexExec` ends is stated as `Progress` and not as a
temporal property: each of its steps goes forward in a text that has an end, which the
prover can show.

Every property of a passing run has a mutant: a variant of one operation, with
the kind of mistake that could be made there, under which TLC finds the property
violated. They stand before the operation they vary, under the word "Mutant".

## The proofs

All are checked by tlapm to the last leaf and hold for all values of the constants
that satisfy the named assumptions: scripts whose links lead forward
(`ScriptsAssumption`) and are nested (`NestingAssumption`), a hash into the table
(`HashAssumption`), at least one body of growth (`RoomAssumption`), and so on.

* `TypeCorrect`: `TypeOK` of `SieveEval` is inductive because it says that a call
  which waits for a nested one waits at a command.
* `RejectIsExclusive` and `Refinement`: the property speaks of the callbacks made,
  the code checks flags. The invariant ties them: every callback made has its flag
  set (`FlagsCoverCallbacks`), and with the flag of reject no other is set
  (`RejectIsAlone`). For `Refinement` this gives the same refusals (`SameRefusals`), and
  what remains has to be shown of the calls. The innermost call stands before all that
  the others go on with (`InnermostFirst`, from the order below), so the command it is
  at is the one `Delivery` picks (`SameCommand`); advancing and calling change `Todo` as
  the loop changes its set (`SameWay`); and a return changes it not at all
  (`SilentReturn`), since a result empties it at once, however many levels hand it up.
* `HaltFinal`: a stop or a refusal is the last entry of the trace *and* its result
  is still on its way out (`HaltIsPending`); without the second part the invariant
  is lost at the next command.
* `InDocumentOrder`: the scripts are numbered as the grammar nests them
  (`NestingAssumption`: the commands of a branch stand between the `if` and what follows
  it). From that numbering every command has an end of the list it is in (`Ends`) and a
  place behind all that is nested in it (`After`). The invariant: each call on the stack
  stands before what the calls below it go on with (`Pairs`), and all that the stack
  will run comes behind all that ran (`Beyond`). The order of the trace alone is not
  inductive: it says nothing of what waits.
* `FollowsOnePath`: what follows on a command that ran has run, is next, or its `if` is
  on the stack (`OnPath`); and an `if` with two branches is in the first, in the second, or
  behind both (`OneBranch`), which takes the ends of the numbering to tell apart. When
  the last call returns nothing is on the stack, and `WholePath` is left.
* `ExecutionsEnd`: what an execution has left (`Left`) is two steps for each command that
  has not run, one to run it and one to return from it if it is an `if`, and one step for
  each active call. Every step of `Evaluate` makes it less (`Shrinks`). It is a
  natural number because the k-th command that runs has at least the number k
  (`Counted`), which follows from the order above: no more commands run than the script
  has. So an execution takes at most twice as many steps as its script has commands,
  and one more.
* `TreesAreOwned`: trees are numbered as they are allocated, so that the next one is
  new (`TreesInv`).
* `AcceptanceStays`: `require` never exceeds `support`, and what an accepted script
  requires is in `require` (`AcceptInv`). Both sets only grow during a context,
  which is what makes this property true, and lets a script use what an earlier one
  required.
* `OnlyRequiredRuns`: what is evaluated stands before the first refused command
  (`Reached`, by the least-number principle), and `require` never exceeds `support`.
* `NamesLive`: inside a callback the slots with a name are the allocated ones and
  begin is 1; between callbacks begin equals end, so that the next begin is not
  refused (`Exact`).
* `SlotsAreAMap`: filled slots come before free ones (`Prefix`), so a setter never
  hides what a getter finds; steps map to steps of `ValueMap`. The number of values
  given is the cardinality of the filled slots.
* `ScriptsAreAdmitted`: `support` lies between two sets that the calls determine
  (`SupportInv`): it has what has its callback, except what an array brought that was cut
  short and no complete one followed, and nothing that never had one. A
  parse grants what is required and supported, so the first bound admits every script it should and
  the second none that it should not, whatever was parsed before.
* `HeadersAreOwn`: a context holds headers of no message before the one it was made at or
  after the one the client is at, and holds some if the internal getheader answers and
  the latest fetch went well (`HeadersInv`). While the two messages are the same, that leaves no
  other. One context for each message is what makes the property true; `api_headers` shows that
  it is needed.
* `NamesAreReleased`: the slots with a name are those of the callback that is open, so
  that its end frees them all.
* `TerminatorsFit`: an array has room for one body more than `space`, and holds
  `space` bodies at most (`Fits`).
* `BucketsAreFound`: from the hash of its name to its place, a bucket passes only
  places that are taken by other names (`Settled`). Filling an empty place keeps
  this for all the others, because none of them passed it.
* `CacheIsAMap`, that the cache implements `HeaderMap`, on two conditions: the table has a
  place for every name that the messages have (`NamesFit`), and no header has an empty
  first line (`NoneIsEmpty`); the code keeps neither promise, and the run `headers_empty` shows
  what happens without the second. The names in the table and on the list are names of
  messages (`FromMessages`), each taken place has a name of its own (`Settled`), so by the
  pigeonhole principle a name that has no bucket finds an empty place (`PlaceForEach`). The refinement
  mapping is what is held for a name followed by what the list still has for it
  (`Found`); a step of the loop moves a body from the second part to the first. `Bodies`
  is a recursion over the list, with one solution (`CollectsExists`, `CollectsOnce`).
* `NodesAreOwned`, `StringsOutlive`, `ListIsASet`: the conjunction of `TypeOK`,
  `NodesOwned` and `StringsAlive` is inductive. The nodes that are left, or the flags
  that are missing, are picked from a list by their rank (`Ranks`, `PicksAll`): the
  number of smaller positions is an injection into as many numbers as there are
  positions, so it is onto, and every position is picked once. From this addflag
  and removeflag are union and difference of sets.
* `SearchTypes`, `BufferIsTheText`, `ContextBefore`, `SearchEnds`: all four follow from
  one invariant of `RegexExec`, `SearchInv`. Its core says of the buffer (`Good`) that
  what is valid of it is the text from its place on, in upper case with REG_ICASE, and
  (`Full`) that inside a match the byte to be read and the one behind it are valid or
  the text ends there. Moving the buffer by less than what is valid keeps a valid rest;
  moving it further makes it empty, and the next read builds it; extending it builds up
  to its new size. A lemma for each of these operations carries the invariant through
  the steps. That every step goes forward, `Progress`, is what holds instead of a
  liveness property: places and bytes are bounded by the text, so the searches end.
* `KeptContexts`: a transition kept from an earlier search leads to the state for the
  context behind its byte, whatever the table came to hold, since a state is taken from
  the table only with an equal context. The other four types of `TypeOK` theorems
  (`ContextTyped`, `SlotsTyped`, `CacheTyped`, `FlagListTyped`) are parts of the invariants
  above.

* `TransitionsAreSubsets`, that the automaton made on the way is the subset construction.
  It rests on one lemma for each helper: `InsertIs`, `MergeIs` and `KeptIs` say which
  nodes the arrays have that stand for sets, `FollowsIs` where the nodes of a group
  lead, `AcquireIs` that the table of states is a cache (the hash counts the context
  once, `HashIs`, so a state that is found is the one that would be made). The groups of
  bytes are the subtle part. `Split` says how far a node has divided them: each byte is
  in one group at most, no byte is lost, and the nodes of its group are those of one
  group before, with the new node if the byte is among those that it takes. From this
  `Grouped` is kept from node to node (`JoinedIs`): the group of a byte has the nodes
  that take it. The invariant `TableInv` adds that the states in the table and behind
  the transitions are states of the program that is compiled, which freeing it ends.
* `SearchDecides` (`ProgramDecides`), that the answer of a search is what the program says of
  the text. The reference knows no buffer, no table and no map: `Reached` follows sets of
  nodes over the text that was given, from one of its places, and `EndReached` asks
  whether the end is among them and may stand there. The search says "match" if and only
  if this is so from some place, for every program, every text, and whatever earlier searches
  left behind. The invariant `DecideInv` stands on `SearchInv` and `TableInv`: from
  the places left behind there is no match (`NoMatchAt`), the nodes of the state at hand
  are those that are reached (`Followed`), and none of them was an end so far (`SoFar`).
  One lemma answers each way in which the code could differ from the reference: the buffer shows the
  byte and the context that the text has (`ShownIs`, `ContextIs`), the initial state is
  the one for its place (`StartIs`), a transition leads to what is reached next
  (`TransitionIs`), a state that halts has an end that may stand there (`HaltsIs`), a
  place that the fastmap skips begins no match (`SkippedIs`), and from no nodes none are
  reached (`Dead`). `Answers`, which TLC checks, compares with the language of the pattern; the
  theorem says that if such an answer is wrong for longer texts or searches, the program is.
* `TypesAreKept` and `EvaluationEndsWithTheValue`: a test is a tree whose nodes stand
  before their operands (`SuitesAssumption`), so a least-number argument from the last
  node down gives every node its value. The invariant says of each call on the stack
  that it evaluates the operand which the call below it is at (`Calls`), that its `res`
  is the value of the operands it has been through (`Known`), and that what a call
  returned is the value of its node (`Returned`). When the stack is empty that node is the root.
* `QuestionsAreBounded`: an allof evaluates an operand twice, and nobody else does. With
  the number of calls of each node counted beside the run, the calls of an operand are
  bounded by those its parent has made of it, twice for an allof, which gives `Rounds`:
  the bound doubles at each allof on the way to the root. The parent of a node is unique
  because a test is a tree, without which the bound would be lost.
* `QuestionsAreOpen`, that a leaf is asked for the first time only while the answers so far leave
  the value open, and again only below an allof that repeats an operand.
  The invariant `SInv` says what the stack has been through: operands behind the one at
  hand have all been visited and have the value that keeps their anyof or allof going
  (`Behind`), leaves ahead have not been asked (`Ahead`), and what was asked has been
  recorded with its answer (`Recorded`). At a leaf that is new this gives two assignments that
  agree with all answers and give the test different values: what is ahead of every
  call on the stack is set to the value that keeps its anyof or allof undecided, so that the value of the
  leaf at hand goes up, negated at each not, to the root. That a leaf is new unless an allof
  repeats an operand is a part of the invariant (`Fresh`).
* `ComparisonsAreMeant`, that every comparison decides what it stands for (`Meant`), for
  patterns and texts of every length. Each loop and recursion of `comparator.c` is solved:
  a solution is written down, shown to satisfy the equation, and shown to be the only one
  by induction over the numbers it recurs on (`Moves`, `Recursion`). The wildcard matcher,
  tried from a place in the pattern and one in the text, succeeds exactly if the rest of the text can be cut
  into one piece for each rest of the pattern (`Glob`); a run of `*` and `?` takes any
  piece that is at least as long as its `?` are many, which is what the code's counting
  amounts to. The loop of `ascii_casemap_contains` visits the offsets in order and leaves
  each at its first difference. The sign of `strcasecmp` is that of the lexicographic
  order by lower case. `Compare` is `Meant` case by case (`CompareDecides`), and the
  numbers that are counted are read back as they were written. The theorem speaks of
  the tests that `Plain` admits, and says nothing of the others, where the code does not do what
  `Meant` says: no backslash in a pattern (the code compares the backslash itself and
  passes over what follows), numbers on both sides of a numeric comparison, a count
  of one header, which has texts, with one pattern (the count goes on from pattern to pattern, and starts
  anew with each header), and no address without the part asked for (which ends the list).

* `OnlyDueReplies` and `TypeIsKept`, for texts of any length and any number of
  messages, commands and tests. Three things are proved one after the other. First the
  lexer: it is in a comment exactly if it counts one, and unless it is fresh it hands
  out nothing of a text that ends no comment of others (`FreshOrSilent`). In a comment
  the depth is at least the parentheses opened in the text less those closed, so the
  comment never ends (`SilentComment`); in a quotation the parser has refused what it
  got before the text is out of it (`StaysDeaf`). So the addresses of a text are
  those that a fresh lexer finds, or none (`HeardIs`). Then the headers: the decision
  writes into the arrays it reads, and `Kin` is what is left of the message in them. Only
  the first bodies of two headers change, and where the sender stands instead of a
  precedence, that precedence was no robot's, for otherwise the command had ended
  before it was written over (`StoredIs`). This is what makes a second command decide as
  the first did, unless the sender reads like a robot's precedence. Last the search: each part
  of it, from one comparison up to the six headers, `Leads` from one result to the next
  along the own addresses that its texts name, and a loop of such parts leads along
  their union (`LoopLeads`). The invariant `Kept` is `RepliesAreDue` with `Kin` and the
  state of the lexer.

The searches (the first free slot, the first matching slot, the first place where a
probe stops, the first refused command) and the recursions rest on the least-number
principle, `Least`, which each of these modules takes from the well-founded order of
the numbers, and on what follows from it: induction over numbers and the existence
of a function that recurs to smaller numbers. They are stated for sets and functions,
so that no operator is a parameter, and stand at the head of each module that uses
them, which so can be checked and read alone.

The proofs about `RegexExec` are for any programs that satisfy `ProgramAssumption`
(`Compiled`): nodes are numbered from 1 and know which bytes they take, the closure of
what a node leads to is an array of nodes, the four initial states are those of
`create_initial_state`, one set of nodes taken each in its context (`Begins`), and the
fastmap has every byte that a match can begin with, as `re_compile_fastmap_iter` makes it
(`Mapped`). TLC evaluates it on every pattern of the run; that the programs of
`RegexCompile` mean what the patterns say is checked by `Closures` and `Answers`.

Only model-checked: `Terminates` (liveness under fairness is beyond the prover;
`ExecutionsEnd` proves that an execution can take only so many steps, and the run
that it takes them); `Answers` and `Closures`, which speak of what the recursive operators of `RegexCompile` and
`RegexLanguage` compute. What a recursive operator computes for all inputs needs
the induction theorems of the library, whose operator parameters the prover cannot
instantiate; only recursive functions on numbers are within reach, by `Recursion`.

## What is not modelled

* Of `sv_regex`: back references and the machinery that follows them in `regexec.c`
  (the logs of states, the sifting of candidates, the registers of groups), which
  REG_NOSUB makes unreachable for a pattern without back references (no pattern of the
  runs has one, though the syntax admits `\1` to `\9`); multibyte
  characters, which need `HAVE_MBRTOWC` and others that the build does not define; `re_search`, `re_match` and the other
  interfaces that the library does not call.
* `md5.c`, the reference implementation.
* A failing malloc, almost everywhere; most of the code does not check for it.
* A callback function that calls the library with the same context. Begin would
  refuse, and the outer end be refused in turn.
* Envelope tests beyond what they do to the lexer of addresses; they are address tests
  with another source.
* Subject and handle of a vacation reply, and the days between replies, which are the
  client's. Routes and display names, which nothing reads.
* Exceptions: only five assertions in `sieve.y` throw, on the token with which the
  grammar calls the functions they stand in, and all of them hold.
* The start conditions of the script lexer, and `sv_util/util.c`.
* Numbers that an int does not hold; bytes over 127 in header names; a pattern
  that ends in a backslash.
* The grammars, the order of folded lines, dot-stuffing, and the text of error messages.
* `example.c` and `testcomp.c` were read as tests; generated tables are not
  read at all.

Other places where code and documentation differ, or where the code does what one would
not expect, seen while modelling and not given a run of their own.

In the evaluation:

* `script2.c` promises `SIEVE2_ERROR_EXEC` for evaluation errors; a refused action makes
  `libsieve_eval` return 5, `sieve2_execute` looks for a negative result and returns OK.
* The evaluator has the message "Vacation can not be used with Reject or Vacation",
  but `libsieve_do_vacation` refuses after a reject only, so a second vacation is
  carried out.
* `libsieve_do_reject` looks at the flags of setflag, addflag and removeflag, as its
  comment says, but no code sets them; the model keeps them in `Refusing`, and they
  never matter.
* No parse clears `context->require`: a script may use `fileinto` because an
  earlier script of the context required it, where `sieve.y` has an error
  "fileinto not required".
* `header :count` counts each header of its list on its own, where `script13.sv`
  expects the sum of `["received", "subject"]`.
* After a fetch of headers that failed, the internal getheader stays in the client's slot:
  the next execution of the context reads nothing and runs over an empty table.
* `static_check_support` only adds. Registering NULL for a callback leaves its
  extension supported; an array with an unknown value stores the entries before it
  and leaves `support` as it was.
* NEWS of 2.2.8 announces "Short-circuit all(tests) as soon as a test fails", and the
  comment in `script.c` says the same. An allof evaluates an operand a second
  time before it looks whether it failed, so a client is asked again what is
  certain, and below *d* of them a test is evaluated up to 2^*d* times. `OnlyWhatIsOpen`
  states what is true of the code, the repetition as an exception; `AskedBound` bounds it.
* An address without the part that is asked for ends the list. The count of
  an address test goes on from pattern to pattern, so that a second pattern is compared with
  twice the number; `Comparisons` is about one pattern and does not speak of it. The count of a header that is
  absent is not 0 but false.
* A comparator without a function for the match type makes a test NULL, which
  is false, without an error.
* The casemap collation orders by lower case (`strcasecmp`), where RFC 4790 folds
  to upper case; this matters for the signs between `Z` and `a`.

In vacation and the addresses it parses:

* An address that ends inside a comment leaves the lexer there: comments nest, so every
  later text of the context is read as a comment and has no addresses, until one closes
  it. After one that ends inside a quotation or a domain literal, later texts fail
  until one begins with the closing sign.
* A recipient `away) me@home` behind an address that ended inside a comment is read as
  `me@home`, which by itself it is not, so a reply is made that was not due.
* A vacation without `:addresses` never replies when the sender is known: the
  recipient's own address has to be among those of the script, and it is compared by
  `strcmp` to the text there.
* A message without an envelope sender gets a reply to NULL, and one from `<>` a reply
  to the empty string.
* The array of the precedence header, or the constant for headers that are not found, is
  overwritten with the envelope sender, and later tests of the context read it. A
  sender `junk` keeps a second vacation command from the reply that the first made.
* A domain literal has the value of the word before it.
* An address of the script that yields none makes `look_for_me` compare with NULL.

In the regular expressions:

* `re_node_set_insert` demands in its comment an element that the set does not have; no
  caller checks, so sets can hold a node twice.
* `(^a){2}` copies an anchor that is marked as a copy already, so that the second one's
  constraint is not passed on to what stands behind it.
* `build_trtable` gives newlines the context of an end of line even without REG_NEWLINE,
  so that `.^b` matches behind one, where `re_string_context_at` would not.
* `a{0}*` and `(^a){0}b` leave a node without a child where `calc_epsdest` dereferences
  one; the program ends there (the model's result is "crash").
* `a{1,2,3}` is accepted, `a{2,1}` means `a{2}`; with REG_ICASE `[Z-a]` is an error,
  and behind a backslash a letter is not folded; an unmatched parenthesis or
  bracket is reported as REG_BADPAT.

## The plan

Done: evaluation and the API, being where the client is told what to do; the
exchange, which everything goes through; the cache; the tests and comparators; the
list of flags; the addresses and vacation; the regular expressions.

What is left, in this order:

1. `Execution`: `SieveEval` with the tests of `SieveTest` in place of the free
   choice and with `CurCall` under each action, so that one run goes from the call
   of `sieve2_execute` to the client's callbacks.
2. `Buffers`: `strbuf`, `catbuf` and `strconcat` as positions and sizes; that the
   terminator fits is to be proved or refuted for all lengths. `strtonum` on
   integers of fixed width.
3. `ScriptLexer`: what a script that ends in the middle leaves to the next.
4. Back references, which the syntax of the patterns admits: the logs of states and the
   search for the group a reference repeats.

Not proved yet: what the compiled programs of `RegexCompile` amount to, which stays
with the run. What a search makes of a program is proved.
