------------------------------ MODULE MCRelations ------------------------------
(***************************************************************************)
(* For TLC: how deletions and restores settle (DeleteOutbox), or the life  *)
(* of the row of one relation (RelationLifecycle).  The two share no       *)
(* variable: what deleting and restoring do to a row are actions of        *)
(* RelationLifecycle, so that one of them at a time is enough.             *)
(***************************************************************************)
EXTENDS DeleteOutbox, RelationLifecycle

VARIABLE subject

Either == BOOLEAN

Stores == subject = "stores" /\ UNCHANGED <<subject, lifecycleVars>>

Lives == subject = "lives" /\ UNCHANGED <<subject, vars>>

RelationsInit ==
    /\ Init /\ LifecycleInit
    /\ subject \in {"stores", "lives"}
    /\ subject = "stores" => row = NoRows

RelationsNext == (Stores /\ Next) \/ (Lives /\ LifecycleNext)

allVars == <<subject, vars, lifecycleVars>>

\* Each keeps its fairness: as the subject never changes, to be fair to one of two
\* actions of different subjects is to be fair to both.
RelationsSpec ==
    /\ RelationsInit /\ [][RelationsNext]_allVars
    /\ SF_allVars((Stores /\ StartRound) \/ (Lives /\ Sweep(TRUE)))
    /\ SF_allVars((Stores /\ Idle /\ \E j \in Job : TimePasses(j)) \/ (Lives /\ Archive))
    /\ WF_allVars(Stores /\ RoundStep)
===============================================================================
