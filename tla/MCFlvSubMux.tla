---------------------------- MODULE MCFlvSubMux ----------------------------
(***************************************************************************)
(* Small instances of FlvSubMux.                                           *)
(***************************************************************************)
EXTENDS FlvSubMux, TLC

Symmetry == Permutations(Texts)
=============================================================================
