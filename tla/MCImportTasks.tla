----------------------------- MODULE MCImportTasks -----------------------------
(* Instances of ImportTasks for TLC. *)
EXTENDS ImportTasks

TwoTasks == 1 .. 2
Modes == [d \in Doc |-> CASE d \in {"note", "data"} -> "json" [] d = "known" -> "text" [] OTHER -> d]
\* A text of two parts; a text of two scenes of one and two windows.
TwoParts == [d \in Doc |-> IF d = "text" THEN <<0, 1>> ELSE <<0>>]
TwoScenes == [d \in Doc |-> <<0, 0, 1>>]
\* One task imports a text, two short files, one that is deleted, one imported before, or runs a child process; the other is a retry.
OneAndRetry == [t \in Task |-> IF t = 1 THEN {{"text"}, {"note", "data"}, {"json"}, {"known"}, {"migration"}, {"conversion"}, {"backfill"}} ELSE {}]
TextOnly == [t \in Task |-> {{"text"}}]
=============================================================================
