----------------------------- MODULE MCHostRuntime -----------------------------
(***************************************************************************)
(* Small instances of HostRuntime for TLC.                                 *)
(***************************************************************************)
EXTENDS HostRuntime, TLC
=============================================================================
