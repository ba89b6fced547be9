----------------------------- MODULE MCVectorStore -----------------------------
(***************************************************************************)
(* Small instances of VectorStore for TLC.                                 *)
(***************************************************************************)
EXTENDS VectorStore, TLC
===============================================================================
