--------------------------- MODULE MCDocumentIndex ---------------------------
(* Small instances of DocumentIndex for TLC.                                *)
EXTENDS DocumentIndex

CONSTANTS x1, x2, x3, old, new

\* Two jobs bring the same content, a third one other content.
Hashes == [x \in Jobs |-> IF x = x3 THEN new ELSE old]
=============================================================================
