----------------------------- MODULE MCCorrections -----------------------------
(***************************************************************************)
(* Small instances of Corrections for TLC.                                 *)
(***************************************************************************)
EXTENDS Corrections, TLC

\* Two values of one slot; the text says B, the paragraphs of other requests A.
MCSlot == [c \in Claim |-> "city"]
MCSays == [p \in Paragraph |-> IF p \in Ingested THEN "A" ELSE "B"]

MCText == [pl \in Plan |-> "t1"]
MCTarget == [pl \in Plan |-> "p1"]

\* Made for the person, with the refresh that is added by default; for a memory, with
\* and without a refresh the planner asked for.
MCKinds == {k \in [refreshes : BOOLEAN, person : BOOLEAN] : k.person => k.refreshes}

Symmetry == Permutations(Op)
=============================================================================
