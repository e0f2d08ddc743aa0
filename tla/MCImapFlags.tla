---------------------------- MODULE MCImapFlags ----------------------------
(* ImapFlags with every list of one or two flags. *)
EXTENDS ImapFlags

ShortLists == {<<f>> : f \in Flag} \cup {<<f, g>> : f \in Flag, g \in Flag}
=============================================================================
