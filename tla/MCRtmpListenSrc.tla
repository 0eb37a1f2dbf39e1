--------------------------- MODULE MCRtmpListenSrc --------------------------
(***************************************************************************)
(* Small instances of RtmpListenSrc.                                       *)
(***************************************************************************)
EXTENDS RtmpListenSrc, TLC
=============================================================================
