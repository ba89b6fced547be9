--------------------------- MODULE MCFeedbackTasks ---------------------------
(* Two tasks that share a relation. *)
EXTENDS FeedbackTasks

TwoTargets == [t1 |-> {"r1"}, t2 |-> {"r1", "r2"}]
==============================================================================
