------------------------------ MODULE RegexString ------------------------------
(***************************************************************************)
(* re_string_t of regex_internal.c: the string that is searched, as the    *)
(* matcher sees it from the place on where it tries.  With REG_ICASE the   *)
(* matcher reads a buffer of bufs_len bytes, of which the first valid_len  *)
(* have been filled with the string in upper case; without, it reads the   *)
(* string itself.  Memory never runs out, and the place only moves on.     *)
(* Indices of bytes begin with 0 as in the code.                           *)
(***************************************************************************)
EXTENDS Integers, RegexState, Characters

UNBUILT == "unbuilt"   \* a byte of the buffer that nothing was written to, or behind it

RawAt(input, i) ==
  LET k == input.raw_mbs_idx + i + 1
  IN  IF k <= Len(input.raw) THEN input.raw[k] ELSE NUL
ByteAt(input, i) ==
  IF ~input.icase THEN RawAt(input, i)
  ELSE IF i < input.bufs_len THEN input.mbs[i + 1] ELSE UNBUILT

\* re_string_allocate
Allocate(text, init_len, icase) ==
  LET size == IF Len(text) + 1 < init_len THEN Len(text) + 1 ELSE init_len
  IN  [raw |-> text, icase |-> icase,
       mbs |-> [k \in 1..(IF icase THEN size ELSE 0) |-> UNBUILT],
       raw_mbs_idx |-> 0, len |-> Len(text), bufs_len |-> size,
       valid_len |-> IF icase THEN 0 ELSE Len(text),
       cur_idx |-> 0, tip_context |-> CONTEXT_NEWLINE + CONTEXT_BEGBUF]

\* build_upper_buffer
BuildUpper(input) ==
  LET end == IF input.bufs_len > input.len THEN input.len ELSE input.bufs_len
  IN  [input EXCEPT
        !.mbs = [k \in 1..input.bufs_len |->
                   IF input.valid_len < k /\ k <= end THEN ToUpper[RawAt(input, k - 1)]
                   ELSE input.mbs[k]],
        !.valid_len = IF @ < end THEN end ELSE @]

\* re_string_context_at, newline_anchor being off.
ContextAt(input, idx) ==
  IF idx < 0 THEN input.tip_context
  ELSE IF idx = input.len THEN CONTEXT_NEWLINE + CONTEXT_ENDBUF
  ELSE IF ByteAt(input, idx) \in Word THEN CONTEXT_WORD ELSE 0

\* Mutant of Before: the context of the byte at the place.
AtPlace(input, offset) ==
  IF offset = 0 THEN input.tip_context
  ELSE IF offset < input.valid_len THEN ContextAt(input, offset)
  ELSE IF RawAt(input, offset - 1) \in Word THEN CONTEXT_WORD ELSE 0

\* The context before the place to which the buffer is moved.
Before(input, offset) ==
  IF offset = 0 THEN input.tip_context
  ELSE IF offset < input.valid_len THEN ContextAt(input, offset - 1)
  ELSE IF RawAt(input, offset - 1) \in Word THEN CONTEXT_WORD ELSE 0

\* The memmove in it: what is valid of the buffer from the offset on.
Moved(mbs, valid_len, offset) ==
  [k \in DOMAIN mbs |->
     mbs[IF offset < valid_len /\ k <= valid_len - offset THEN k + offset ELSE k]]

\* re_string_reconstruct: the buffer begins at idx.  What it has of the string
\* from there on is moved to its front.
Reconstruct(input, idx) ==
  LET offset == idx - input.raw_mbs_idx
      moved  == [input EXCEPT
                   !.tip_context = Before(input, offset),
                   !.mbs = Moved(@, input.valid_len, offset),
                   !.valid_len = IF offset = 0 \/ offset < @ THEN @ - offset ELSE 0,
                   !.raw_mbs_idx = idx, !.len = @ - offset, !.cur_idx = 0]
  IN  IF input.icase THEN BuildUpper(moved) ELSE moved

\* extend_buffers of regexec.c
Extend(input) ==
  LET size   == 2 * input.bufs_len
      bigger == [input EXCEPT !.bufs_len = size,
                   !.mbs = [k \in 1..size |-> IF k <= input.bufs_len THEN input.mbs[k] ELSE UNBUILT]]
  IN  IF input.icase THEN BuildUpper(bigger)
      ELSE [input EXCEPT !.bufs_len = size, !.valid_len = size]

\* Mutant of Ahead: only the byte that is to be read has to be there.
AheadOfRead(input) ==
  IF input.cur_idx >= input.bufs_len \/ (input.cur_idx >= input.valid_len /\ input.valid_len < input.len)
  THEN Extend(input) ELSE input

\* The beginning of transit_state: after the byte that is to be read the buffer
\* has the one behind it as well, for the context there.
Ahead(input) ==
  IF \/ input.cur_idx + 1 >= input.bufs_len
     \/ input.cur_idx + 1 >= input.valid_len /\ input.valid_len < input.len
  THEN Extend(input) ELSE input
===============================================================================
