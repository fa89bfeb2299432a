----------------------------- MODULE MCTransfer -----------------------------
(* Instance of Transfer for TLC: two chunks, three contents. *)
EXTENDS Transfer

CONSTANTS z, a, b

MCContent == {z, a, b}
\* a zero chunk and a data chunk; a rewrite may turn either into the other
MCSources == {<<a, z>>}
\* an older version, and one that shares the first chunk
MCOlds == {<<a, a>>, <<b, z>>, <<a, b>>, <<b, b>>}
MCStale == {<<b, b>>}
MCNone == {}
MCStrict == {"strict"}
MCBoth == {"strict", "fresh"}
=============================================================================
