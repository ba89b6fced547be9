--------------------------- MODULE MCEpisodeRebuild ---------------------------
(***************************************************************************)
(* Small instances of EpisodeRebuild for TLC.                              *)
(***************************************************************************)
EXTENDS EpisodeRebuild

CONSTANTS s1, g1, g2

\* The delay doubles with every failure and is capped.
MCBackoff == [n \in 0 .. MaxRetry - 1 |-> IF n = 0 THEN 1 ELSE 2]

\* Only g1 materialises episodes.
MCMaterialised == [g \in Generation |-> IF g = g1 THEN Source ELSE {}]
=============================================================================
