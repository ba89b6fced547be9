----------------------------- MODULE MCVectorPools -----------------------------
(***************************************************************************)
(* A small instance of VectorPools for TLC.                                *)
(***************************************************************************)
EXTENDS VectorPools

CONSTANTS p1, r1

MCRank == (p1 :> 1) @@ (r1 :> 2)
=============================================================================
