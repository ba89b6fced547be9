------------------------------- MODULE VectorSet -------------------------------
(***************************************************************************)
(* What the users of a vector pool rely on (they never look at its files): *)
(* a set of members that calls change in memory, and a saved set that a    *)
(* restart reads back.  A save copies one to the other; a restart or an    *)
(* abandoned compaction takes the saved set again; rolling a clean-up      *)
(* checkpoint back returns both to what they were when it began.           *)
(***************************************************************************)
CONSTANT Id

VARIABLES
    open,    \* the pool has been loaded
    now,     \* members: what a search may return
    saved,   \* what is read back after a restart
    mark     \* {the saved set when a clean-up checkpoint began}, or {}

vars == <<open, now, saved, mark>>

Init == open = TRUE /\ now = {} /\ saved = {} /\ mark = {}

Change == open /\ now' \in SUBSET Id /\ UNCHANGED <<open, saved, mark>>

Save == open /\ saved' = now /\ UNCHANGED <<open, now, mark>>

\* An abandoned compaction, a failed clear() or a crash.
Lose == now' = saved /\ mark' = {} /\ open' \in {open, FALSE} /\ UNCHANGED saved

Load == ~open /\ open' /\ now' = saved /\ UNCHANGED <<saved, mark>>

Begin == open /\ mark = {} /\ now = saved /\ mark' = {now} /\ UNCHANGED <<open, now, saved>>

Commit == open /\ mark # {} /\ now = saved /\ mark' = {} /\ UNCHANGED <<open, now, saved>>

Undo == open /\ mark' = {} /\ mark = {saved'} /\ now' = saved' /\ UNCHANGED open

Next == Change \/ Save \/ Lose \/ Load \/ Begin \/ Commit \/ Undo

Spec == Init /\ [][Next]_vars
===============================================================================
