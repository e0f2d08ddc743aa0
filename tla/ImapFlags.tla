----------------------------- MODULE ImapFlags -----------------------------
(***************************************************************************)
(* context->slflags, the list of the flags that setflag, addflag and       *)
(* removeflag of script.c maintain, as it lies in memory.  The nodes are   *)
(* the context's, the strings in them belong to the tree of the script     *)
(* that set them (new_sl, free_sl_only of tree.c), and the list outlives   *)
(* an execution.  Flags are compared without regard to case; they are      *)
(* values here.                                                            *)
(*                                                                         *)
(* The list is the sequence of its nodes and the pointer in the last one,  *)
(* which is not always NULL: after it, the memory that is read is freed or *)
(* in use again, and nothing is said of what the program does then.        *)
(***************************************************************************)
EXTENDS Naturals, Sequences, SequencesExt, FiniteSets

CONSTANTS
  Flag,      \* flags, up to case
  Lists,     \* the lists of flags that commands and tests have
  MaxNodes,  \* bound: the addresses that malloc hands out for nodes
  MaxTrees   \* bound: scripts parsed

ASSUME ListsAssumption == Lists \subseteq Seq(Flag) \ {<<>>}
ASSUME BoundsAssumption == MaxNodes \in Nat \ {0} /\ MaxTrees \in Nat

NULL    == 0
Address == 1..MaxNodes
Node    == [at : Address, flag : Flag, tree : 1..MaxTrees]

VARIABLES
  live,       \* between sieve2_alloc and sieve2_free
  cmds,       \* context->script.cmds, NULL or a tree
  trees,      \* the trees that are allocated
  parsed,     \* trees allocated so far
  list,       \* the nodes from context->slflags on
  tail,       \* `next' of the last of them
  allocated,  \* the addresses of nodes in use
  defined,    \* FALSE after freed memory was read
  answer,     \* what was asked of the flags last, and what script or client learned
  exact       \* history: the flags are those the script asked for

NoAnswer == <<{}, {}>>

vars == <<live, cmds, trees, parsed, list, tail, allocated, defined, answer, exact>>

Init ==
  /\ live = FALSE /\ cmds = NULL /\ trees = {} /\ parsed = 0
  /\ list = <<>> /\ tail = NULL /\ allocated = {} /\ defined = TRUE
  /\ answer = NoAnswer /\ exact = TRUE

Places(nodes) == {nodes[i].at : i \in DOMAIN nodes}
Flags(nodes)  == {nodes[i].flag : i \in DOMAIN nodes}
First         == IF list = <<>> THEN tail ELSE list[1].at

\* The elements of s at the positions in I, in their order.
Picked(s, I) ==
  [k \in 1..Cardinality(I) |->
     s[CHOOSE i \in I : Cardinality({j \in I : j < i}) = k - 1]]
-----------------------------------------------------------------------------
\* sieve2_alloc.
Alloc ==
  /\ ~live /\ defined /\ live' = TRUE
  /\ cmds' = NULL /\ list' = <<>> /\ tail' = NULL /\ answer' = NoAnswer /\ exact' = TRUE
  /\ UNCHANGED <<trees, parsed, allocated, defined>>

\* A walk reached the end of the list: what lies there decides what happens.
PastTheEnd ==
  /\ defined' = FALSE
  /\ UNCHANGED <<live, cmds, trees, parsed, list, tail, allocated, answer, exact>>

\* sieve2_free: the tree, then the nodes of the list, without their strings.
Free ==
  /\ live /\ defined
  /\ IF tail # NULL THEN PastTheEnd
     ELSE /\ live' = FALSE
          /\ trees' = trees \ {cmds}
          /\ allocated' = allocated \ Places(list)
          /\ UNCHANGED <<cmds, parsed, list, tail, defined, answer, exact>>

\* Mutant: the tree of the execution before is freed.
ExecuteFreeing ==
  /\ live /\ defined /\ parsed < MaxTrees
  /\ parsed' = parsed + 1 /\ cmds' = parsed' /\ trees' = (trees \ {cmds}) \cup {parsed'}
  /\ UNCHANGED <<live, list, tail, allocated, defined, answer, exact>>

\* sieve2_execute up to the evaluation: the new tree takes the place of the
\* tree of the execution before, which stays allocated.
Execute ==
  /\ live /\ defined /\ parsed < MaxTrees
  /\ parsed' = parsed + 1 /\ cmds' = parsed' /\ trees' = trees \cup {parsed'}
  /\ UNCHANGED <<live, list, tail, allocated, defined, answer, exact>>

\* Mutant: the tree is freed, but not forgotten.
ValidateKept ==
  /\ live /\ defined /\ trees' = trees \ {cmds}
  /\ UNCHANGED <<live, cmds, parsed, list, tail, allocated, defined, answer, exact>>

\* sieve2_validate, and a sieve2_execute that meets parse errors: the tree that
\* was made is freed; that of the execution before is forgotten.
Validate ==
  /\ live /\ defined /\ cmds' = NULL
  /\ UNCHANGED <<live, trees, parsed, list, tail, allocated, defined, answer, exact>>

-----------------------------------------------------------------------------
Evaluating == live /\ defined /\ cmds # NULL

\* SETFLAG: the nodes are freed, and a new one, which may get the address of
\* one of them, is put in front of what was the first.  It has the first of the
\* flags that the command lists.
SetFlag(l) ==
  /\ Evaluating
  /\ IF tail # NULL THEN PastTheEnd
     ELSE \E at \in Address \ (allocated \ Places(list)) :
            /\ list' = <<[at |-> at, flag |-> Head(l), tree |-> cmds]>>
            /\ allocated' = (allocated \ Places(list)) \cup {at}
            /\ tail' = First
            /\ exact' = (exact /\ list = <<>> /\ Len(l) = 1)
            /\ UNCHANGED <<live, cmds, trees, parsed, defined, answer>>

\* The flags of a list that are not set, each once, in their order.
Missing(l) ==
  Picked(l, {i \in DOMAIN l : l[i] \notin Flags(list) /\ \A j \in 1..(i - 1) : l[j] # l[i]})

\* The nodes for these flags, each put in front of the one before (new_sl).
Made(new, at) ==
  Reverse([k \in DOMAIN new |-> [at |-> at[k], flag |-> new[k], tree |-> cmds]])

\* ADDFLAG: each flag is looked for, and put in front if it is not found.
AddFlag(l) ==
  LET new == Missing(l)
  IN  /\ Evaluating
      /\ IF new # <<>> /\ tail # NULL THEN PastTheEnd
         ELSE \E at \in [DOMAIN new -> Address \ allocated] :
                /\ IsInjective(at)
                /\ list' = Made(new, at) \o list
                /\ allocated' = allocated \cup {at[k] : k \in DOMAIN new}
                /\ UNCHANGED <<live, cmds, trees, parsed, tail, defined, answer, exact>>

\* Mutant: the node that is taken out is not freed.
RemoveFlagLeaking(l) ==
  /\ Evaluating /\ tail = NULL
  /\ list' = Picked(list, {i \in DOMAIN list : list[i].flag \notin ToSet(l)})
  /\ UNCHANGED <<live, cmds, trees, parsed, tail, allocated, defined, answer, exact>>

\* REMOVEFLAG: each flag is looked for and its node taken out and freed.  If it
\* is the first node, all the nodes are freed and the list is empty.
RemoveFlag(l) ==
  LET rest  == Picked(list, {i \in DOMAIN list : list[i].flag \notin ToSet(l)})
      empty == list # <<>> /\ list[1].flag \in ToSet(l)
      found == ToSet(l) \subseteq Flags(list) /\ IsInjective(l)
  IN  /\ Evaluating
      /\ IF tail # NULL /\ (empty \/ ~found) THEN PastTheEnd
         ELSE /\ list' = IF empty THEN <<>> ELSE rest
              /\ allocated' = allocated \ (Places(list) \ Places(list'))
              /\ exact' = (exact /\ (empty => rest = <<>>))
              /\ UNCHANGED <<live, cmds, trees, parsed, tail, defined, answer>>

\* Mutant: the flag looked for last decides.
HasFlagLast(l) ==
  /\ Evaluating /\ tail = NULL
  /\ answer' = <<ToSet(l), IF Last(l) \in Flags(list) THEN ToSet(l) ELSE {}>>
  /\ UNCHANGED <<live, cmds, trees, parsed, list, tail, allocated, defined, exact>>

\* HASFLAG: one flag after the other is looked for until one is found.
HasFlag(l) ==
  /\ Evaluating
  /\ IF tail # NULL /\ Head(l) \notin Flags(list) THEN PastTheEnd
     ELSE /\ answer' = <<ToSet(l), IF ToSet(l) \cap Flags(list) # {} THEN ToSet(l) ELSE {}>>
          /\ UNCHANGED <<live, cmds, trees, parsed, list, tail, allocated, defined, exact>>

\* KEEP and FILEINTO: the flags of the command, or else the whole list, go to
\* the client.
PassOnOwn(l) ==
  /\ Evaluating /\ answer' = <<{}, ToSet(l)>>
  /\ UNCHANGED <<live, cmds, trees, parsed, list, tail, allocated, defined, exact>>
PassOn ==
  /\ Evaluating
  /\ IF tail # NULL THEN PastTheEnd
     ELSE /\ answer' = <<{}, Flags(list)>>
          /\ UNCHANGED <<live, cmds, trees, parsed, list, tail, allocated, defined, exact>>

Next ==
  \/ Alloc \/ Free \/ Execute \/ Validate \/ PassOn
  \/ \E l \in Lists :
       SetFlag(l) \/ AddFlag(l) \/ RemoveFlag(l) \/ HasFlag(l) \/ PassOnOwn(l)

Spec == Init /\ [][Next]_vars
-----------------------------------------------------------------------------
\* The variables have their types, and a context has a tree that is allocated
\* or none (sieve2_validate, sieve2_execute).
TypeOK ==
  /\ live \in BOOLEAN /\ defined \in BOOLEAN /\ exact \in BOOLEAN
  /\ parsed \in 0..MaxTrees /\ trees \subseteq 1..parsed /\ cmds \in 0..parsed
  /\ live => cmds \in trees \cup {NULL}
  /\ list \in Seq(Node) /\ tail \in Address \cup {NULL}
  /\ allocated \subseteq Address /\ answer \in (SUBSET Flag) \X (SUBSET Flag)

\* As long as the list ends in NULL, its nodes are the nodes that are allocated,
\* each at an address of its own: addflag and removeflag lose none and free none
\* twice, and sieve2_free leaves none behind.
NodesOwned ==
  /\ ~live => allocated = {}
  /\ live /\ tail = NULL =>
       /\ allocated = Places(list)
       /\ \A i, j \in DOMAIN list : list[i].at = list[j].at => i = j

\* The strings in the list are never freed before it, although they belong to
\* the trees of scripts executed before (libsieve_new_sl, sieve2_execute).
StringsAlive == live => \A i \in DOMAIN list : list[i].tree \in trees

\* The script and the client see a set of flags, until a setflag meets flags or
\* lists several, or a removeflag takes the first of several (script.c 274-290
\* and 597-641).
Promise == INSTANCE FlagSet WITH
  flags  <- IF exact /\ live THEN Flags(list) ELSE {},
  answer <- IF exact /\ live THEN answer ELSE NoAnswer,
  exact  <- exact
KeepsFlags == Promise!Spec

-----------------------------------------------------------------------------
\* script23.sv sets flags twice and goes on: no walk over the list, be it of a
\* command, a test or sieve2_free, reads a node that is freed (script.c 600).
NothingFreedIsRead == defined
=============================================================================
