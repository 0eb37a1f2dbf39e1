---------------------------- MODULE MCChunkWindow ----------------------------
(***************************************************************************)
(* Speech for ChunkWindow: words that touch and words apart, and one that  *)
(* is longer than the window.                                              *)
(***************************************************************************)
EXTENDS ChunkWindow

Touching == <<<<0, 2>>, <<2, 3>>, <<3, 6>>>>
Apart == <<<<1, 2>>, <<4, 6>>, <<9, 10>>>>
Long == <<<<1, 9>>>>
MCScripts == {Touching, Apart, Long}
=============================================================================
