--------------------------- MODULE MCDocumentVault ---------------------------
(***************************************************************************)
(* Two contents that share a chunk and differ in another, the first with   *)
(* one chunk more, and the preview of a row.                               *)
(***************************************************************************)
EXTENDS DocumentVault

SomeChunks == <<{<<1, "x">>, <<2, "y">>}, {<<1, "x">>, <<2, "z">>}, {<<1, "p">>}>>
=============================================================================
