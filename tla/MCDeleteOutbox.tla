---------------------------- MODULE MCDeleteOutbox ----------------------------
(***************************************************************************)
(* Small instances of DeleteOutbox for TLC.                                *)
(***************************************************************************)
EXTENDS DeleteOutbox, TLC

Always == {TRUE}
===============================================================================
