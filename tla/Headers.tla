------------------------------- MODULE Headers -------------------------------
(***************************************************************************)
(* Lists of headers, each a record with a name and a body.                 *)
(***************************************************************************)
EXTENDS Naturals, Sequences

\* The bodies of the headers of one name, in the order of a list.
Bodies(headers, n) ==
  LET From[i \in 1..(Len(headers) + 1)] ==
        IF i > Len(headers) THEN <<>>
        ELSE IF headers[i].name = n THEN <<headers[i].body>> \o From[i + 1] ELSE From[i + 1]
  IN  From[1]
=============================================================================
