------------------------------ MODULE FlagSet ------------------------------
(***************************************************************************)
(* What the commands of imap4flags do for a script: a set of flags that    *)
(* setflag, addflag and removeflag change, that hasflag tests and that     *)
(* keep and fileinto pass on.  It lasts as long as the context.  After     *)
(* Blur nothing is said of the flags until the context is made anew.       *)
(***************************************************************************)
EXTENDS Sequences, SequencesExt

CONSTANT Lists          \* the lists of flags a script may give

VARIABLES
  flags,
  answer,   \* the latest question about flags, and the flags of the answer
  exact

vars == <<flags, answer, exact>>

None == <<{}, {}>>

Init == flags = {} /\ answer = None /\ exact = TRUE

SetFlag(l)    == flags' = ToSet(l)            /\ UNCHANGED answer
AddFlag(l)    == flags' = flags \cup ToSet(l) /\ UNCHANGED answer
RemoveFlag(l) == flags' = flags \ ToSet(l)    /\ UNCHANGED answer
HasFlag(l)    ==
  /\ answer' = <<ToSet(l), IF ToSet(l) \cap flags # {} THEN ToSet(l) ELSE {}>>
  /\ UNCHANGED flags
PassOn        == answer' = <<{}, flags>>        /\ UNCHANGED flags
PassOnOwn(l)  == answer' = <<{}, ToSet(l)>>     /\ UNCHANGED flags

Command ==
  /\ exact /\ exact' = TRUE
  /\ \/ PassOn
     \/ \E l \in Lists :
          \/ SetFlag(l) \/ AddFlag(l) \/ RemoveFlag(l)
          \/ HasFlag(l) \/ PassOnOwn(l)

Blur  == exact' = FALSE /\ flags' = {} /\ answer' = None

Renew == exact' = TRUE /\ flags' = {} /\ answer' = None

Next == Command \/ Blur \/ Renew

Spec == Init /\ [][Next]_vars
=============================================================================
