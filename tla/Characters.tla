------------------------------ MODULE Characters ------------------------------
(***************************************************************************)
(* The bytes of patterns and texts, and what the functions of <ctype.h>    *)
(* say of them in the C locale.                                            *)
(***************************************************************************)
EXTENDS Naturals, Sequences, SequencesExt

CONSTANT Char   \* the bytes that occur, with NUL, which ends a text

NUL == "NUL"

\* In the order of their codes; control characters other than the newline and
\* bytes over 126 are left out.
Ascii == <<NUL, "\n",
  " ", "!", "\"", "#", "$", "%", "&", "'", "(", ")", "*", "+", ",", "-", ".", "/",
  "0", "1", "2", "3", "4", "5", "6", "7", "8", "9", ":", ";", "<", "=", ">", "?",
  "@", "A", "B", "C", "D", "E", "F", "G", "H", "I", "J", "K", "L", "M", "N", "O",
  "P", "Q", "R", "S", "T", "U", "V", "W", "X", "Y", "Z", "[", "\\", "]", "^", "_",
  "BACKQUOTE", "a", "b", "c", "d", "e", "f", "g", "h", "i", "j", "k", "l", "m", "n", "o",
  "p", "q", "r", "s", "t", "u", "v", "w", "x", "y", "z", "{", "|", "}", "~">>

ASSUME CharAssumption == NUL \in Char /\ Char \subseteq Range(Ascii)

Code == [c \in Range(Ascii) |-> CHOOSE k \in DOMAIN Ascii : Ascii[k] = c]
Between(c, d) == {e \in Range(Ascii) : Code[c] <= Code[e] /\ Code[e] <= Code[d]}

Lowers == Between("a", "z")
Uppers == Between("A", "Z")
Digits == Between("0", "9")
ToUpper == [c \in Range(Ascii) |-> IF c \in Lowers THEN Ascii[Code[c] - 32] ELSE c]
ToLower == [c \in Range(Ascii) |-> IF c \in Uppers THEN Ascii[Code[c] + 32] ELSE c]

Members ==
  [alpha |-> Lowers \cup Uppers, lower |-> Lowers, upper |-> Uppers, digit |-> Digits,
   alnum |-> Lowers \cup Uppers \cup Digits, xdigit |-> Digits \cup Between("a", "f") \cup Between("A", "F"),
   space |-> {" ", "\n"}, blank |-> {" "}, cntrl |-> {NUL, "\n"},
   print |-> Between(" ", "~"), graph |-> Between("!", "~"),
   punct |-> Between("!", "~") \ (Lowers \cup Uppers \cup Digits)]

\* The classes a bracket expression can name.
Class == [name \in DOMAIN Members |-> Char \cap Members[name]]

\* IS_WORD_CHAR: the bytes in whose neighbourhood words begin and end.
Word == Class.alnum \cup (Char \cap {"_"})

ASSUME CaseAssumption ==
  \A c \in Char : ToUpper[c] \in Char /\ (ToUpper[c] \in Word <=> c \in Word)
===============================================================================
