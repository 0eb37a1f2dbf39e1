------------------------------ MODULE MCVadGate -----------------------------
(***************************************************************************)
(* Small instances of VadGate.                                             *)
(***************************************************************************)
EXTENDS VadGate
=============================================================================
