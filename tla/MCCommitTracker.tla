--------------------------- MODULE MCCommitTracker --------------------------
(***************************************************************************)
(* Texts for CommitTracker: a word in two pieces, a word that is part of   *)
(* the next, the same word twice, quotes and a full stop.                  *)
(***************************************************************************)
EXTENDS CommitTracker

MCMarks == {"q", "."}
Grows == <<Piece("a", TRUE), Piece("b", FALSE), Piece("a", TRUE)>>
Prefixed == <<Piece("a", TRUE), Piece("a", TRUE), Piece("b", FALSE), Piece("b", TRUE)>>
Quoted == <<Piece("q", TRUE), Piece("a", FALSE), Piece(".", FALSE), Piece("a", TRUE)>>
MCScripts == {Grows, Prefixed, Quoted}
=============================================================================
