----------------------------- MODULE FeedbackTasks -----------------------------
(***************************************************************************)
(* Feedback correction (core/runtime/services/                             *)
(* feedback_correction_service.py over core/storage/metadata_feedback.py): *)
(* a task looks at the messages that followed a query and may forget the   *)
(* relations the query returned, write a correction in their place, mark   *)
(* their paragraphs stale and ask for the derived data to be rebuilt; an   *)
(* administrator may roll the task back from the plan it saved.            *)
(*                                                                         *)
(* One background loop works the tasks off, one after the other, while     *)
(* administrators call memory_feedback_admin on the same event loop: two   *)
(* actors interleave only where one awaits (Awaits), but every step of an  *)
(* actor is a commit of its own and the process may die after any of them. *)
(*                                                                         *)
(* The paragraphs of a relation and their stale marks are one mark per     *)
(* relation; a correction is one text with one relation; the classifier's  *)
(* verdict and the outcome of the writes are free choices.                 *)
(***************************************************************************)
EXTENDS Naturals, FiniteSets

CONSTANTS
    Task, Relation,
    Targets,      \* the relations each task would forget
    Admin,        \* concurrent requests of administrators
    Faults,       \* which writes may fail; subset of {"ingest", "cleanup", "slow"}
    MaxCrashes    \* bound on restarts and cancellations

ASSUME TargetsAssumption == Targets \in [Task -> (SUBSET Relation) \ {{}}]
ASSUME FaultsAssumption == Faults \subseteq {"ingest", "cleanup", "slow"}
ASSUME NamesAssumption == "none" \notin Task /\ "loop" \notin Admin
ASSUME CrashesAssumption == MaxCrashes \in Nat

None == "none"
Loop == "loop"
Actor == Admin \cup {Loop}

VARIABLES
    task,      \* rows of memory_feedback_tasks
    active,    \* relations that are not inactive
    marks,     \* task that last marked the paragraphs of a relation stale
    stored,    \* correction texts: "no", "partly" (no external reference yet), "yes"
    fix,       \* tasks whose corrected relation exists
    asked,     \* status of a relation at the last request to rebuild what derives from it
    proc,      \* what each actor is doing
    tangled,   \* history: relations that two tasks worked on at once or undid out of order
    crashes

vars == <<task, active, marks, stored, fix, asked, proc, tangled, crashes>>

NoPlan == [kind |-> None, before |-> {}, prev |-> {}, existed |-> FALSE]
Idle == [task |-> None, phase |-> "idle", kind |-> None, before |-> {}, prev |-> {}, existed |-> FALSE]

\* known: tasks whose corrected relation other paragraphs support already.
InitWith(known) ==
    /\ task = [t \in Task |-> [status |-> None, last_error |-> None, attempts |-> 0, lapsed |-> FALSE, plan |-> NoPlan,
                               rollback |-> None, known |-> t \in known]]
    /\ active = Relation
    /\ marks = [r \in Relation |-> None]
    /\ stored = [t \in Task |-> "no"]
    /\ fix = known
    /\ asked = Relation
    /\ proc = [a \in Actor |-> Idle]
    /\ tangled = {}
    /\ crashes = 0

Init == \E known \in SUBSET Task : InitWith(known)

Awaits == {"idle", "classify", "ingest", "relate", "delete", "clean"}

\* The event loop is free for actor a.
Runs(a) == \A b \in Actor \ {a} : proc[b].phase \in Awaits

At(a, phase) == Runs(a) /\ proc[a].phase = phase
Mine(a) == proc[a].task
Goto(a, phase) == proc' = [proc EXCEPT ![a].phase = phase]
Leave(a) == proc' = [proc EXCEPT ![a] = Idle]

Touch(t, u) == Targets[t] \cap Targets[u] # {}
Served(t) == \E a \in Actor : proc[a].task = t

\* Relations of t that another task is being processed or rolled back on.
Contested(t) == {r \in Targets[t] : \E u \in Task \ {t} : r \in Targets[u] /\ Served(u)}

-----------------------------------------------------------------------------
\* The loop: _process_feedback_task.

\* INSERT OR IGNORE: a query that has a task keeps it.
Enqueue(t) ==
    /\ Runs(None)
    /\ task[t].status = None
    /\ task' = [task EXCEPT ![t].status = "pending"]
    /\ UNCHANGED <<active, marks, stored, fix, asked, proc, tangled, crashes>>

Due(t) == task[t].status = "pending" \/ (task[t].status = "running" /\ task[t].lapsed)

Claim(t) ==
    /\ At(Loop, "idle") /\ Due(t)
    /\ task' = [task EXCEPT ![t].status = "running", ![t].lapsed = FALSE, ![t].attempts = @ + 1]
    /\ proc' = [proc EXCEPT ![Loop] = [Idle EXCEPT !.task = t, !.phase = "classify"]]
    /\ tangled' = tangled \cup Contested(t)
    /\ UNCHANGED <<active, marks, stored, fix, asked, crashes>>

\* finalize_feedback_task.
End(status, error) ==
    /\ task' = [task EXCEPT ![Mine(Loop)].status = status, ![Mine(Loop)].last_error = error]
    /\ Leave(Loop)

\* No messages, prefiltered, low confidence or no targets; or the classifier raises.
ClassifyNothing ==
    /\ At(Loop, "classify")
    /\ End("skipped", None) \/ End("error", "classify")
    /\ UNCHANGED <<active, marks, stored, fix, asked, tangled, crashes>>

\* Mutant: the statuses are read after the relations are forgotten.
ClassifyApplyLate ==
    /\ At(Loop, "classify")
    /\ \E kind \in {"reject", "correct"} :
          proc' = [proc EXCEPT ![Loop] = [@ EXCEPT
                     !.kind = kind, !.existed = Mine(Loop) \in fix,
                     !.phase = IF kind = "correct" THEN "ingest" ELSE "mark"]]
    /\ active' = active \ Targets[Mine(Loop)]
    /\ UNCHANGED <<task, marks, stored, fix, asked, tangled, crashes>>

\* The statuses are read, then the relations forgotten.
ClassifyApply ==
    /\ At(Loop, "classify")
    /\ \E kind \in {"reject", "correct"} :
          proc' = [proc EXCEPT ![Loop] = [@ EXCEPT
                     !.kind = kind, !.before = active \cap Targets[Mine(Loop)],
                     !.existed = Mine(Loop) \in fix,
                     !.phase = IF kind = "correct" THEN "ingest" ELSE "mark"]]
    /\ active' = active \ Targets[Mine(Loop)]
    /\ UNCHANGED <<task, marks, stored, fix, asked, tangled, crashes>>

\* ingest_text knows the external id: nothing is stored, so the correction failed.
IngestKnown ==
    /\ At(Loop, "ingest") /\ stored[Mine(Loop)] = "yes"
    /\ Goto(Loop, "compensate")
    /\ UNCHANGED <<task, active, marks, stored, fix, asked, tangled, crashes>>

\* The paragraph and its relations are stored; awaits lie between and after them.
IngestText ==
    /\ At(Loop, "ingest") /\ stored[Mine(Loop)] # "yes"
    /\ stored' = [stored EXCEPT ![Mine(Loop)] = "partly"]
    /\ fix' = fix \cup {Mine(Loop)}
    /\ Goto(Loop, "relate")
    /\ UNCHANGED <<task, active, marks, asked, tangled, crashes>>

\* The same when no corrected relation has all its parts: only the text is stored.
IngestTextAlone ==
    /\ At(Loop, "ingest") /\ stored[Mine(Loop)] = "no"
    /\ stored' = [stored EXCEPT ![Mine(Loop)] = "yes"]
    /\ Goto(Loop, "compensate")
    /\ UNCHANGED <<task, active, marks, fix, asked, tangled, crashes>>

IngestReference ==
    /\ At(Loop, "relate")
    /\ stored' = [stored EXCEPT ![Mine(Loop)] = "yes"]
    /\ Goto(Loop, "mark")
    /\ UNCHANGED <<task, active, marks, fix, asked, tangled, crashes>>

\* An exception of ingest_text leaves _apply_feedback_decision: the task ends, the
\* relations stay forgotten.
IngestRaises ==
    /\ "ingest" \in Faults
    /\ Runs(Loop) /\ proc[Loop].phase \in {"ingest", "relate"}
    /\ End("error", "raised")
    /\ UNCHANGED <<active, marks, stored, fix, asked, tangled, crashes>>

\* _restore_feedback_relations_from_snapshots.
Compensate ==
    /\ At(Loop, "compensate")
    /\ active' = (active \ Targets[Mine(Loop)]) \cup proc[Loop].before
    /\ End("error", "ingest")
    /\ UNCHANGED <<marks, stored, fix, asked, tangled, crashes>>

MarkStale ==
    /\ At(Loop, "mark")
    /\ marks' = [r \in Relation |-> IF r \in Targets[Mine(Loop)] THEN Mine(Loop) ELSE marks[r]]
    /\ proc' = [proc EXCEPT ![Loop].phase = "derive",
                  ![Loop].prev = {<<r, marks[r]>> : r \in Targets[Mine(Loop)]}]
    /\ UNCHANGED <<task, active, stored, fix, asked, tangled, crashes>>

\* The requests of episode rebuilds and profile refreshes, made after the changes.
Ask(t) == asked' = (asked \ Targets[t]) \cup (active \cap Targets[t])

Derive ==
    /\ At(Loop, "derive")
    /\ Ask(Mine(Loop))
    /\ Goto(Loop, "plan")
    /\ UNCHANGED <<task, active, marks, stored, fix, tangled, crashes>>

SavePlan ==
    /\ At(Loop, "plan")
    /\ task' = [task EXCEPT ![Mine(Loop)].plan =
                  [kind |-> proc[Loop].kind, before |-> proc[Loop].before,
                   prev |-> proc[Loop].prev, existed |-> proc[Loop].existed]]
    /\ Goto(Loop, "final")
    /\ UNCHANGED <<active, marks, stored, fix, asked, tangled, crashes>>

Apply ==
    /\ At(Loop, "final")
    /\ End("applied", None)
    /\ UNCHANGED <<active, marks, stored, fix, asked, tangled, crashes>>

-----------------------------------------------------------------------------
\* An administrator: _rollback_feedback_task.

\* Relations of t that a later task changed again and did not give back, or that
\* another task is still at work on.  Nothing keeps the rollback of t from them.
OutOfTurn(t) ==
    {r \in Targets[t] : \E u \in Task \ {t} : r \in Targets[u] /\
        \/ task[u].status = "running" \/ task[u].rollback \in {"running", "error"}
        \/ task[u].status = "applied" /\ task[u].rollback = None /\ marks[r] # t}

\* The conditions of mark_feedback_task_rollback_running, rolled_back answered before it.
MayRollBack(t) ==
    /\ task[t].status = "applied"
    /\ \/ task[t].rollback \in {None, "error"}
       \/ task[t].rollback = "running" /\ task[t].lapsed

StartRollback(a, t) ==
    /\ At(a, "idle") /\ MayRollBack(t)
    /\ task' = [task EXCEPT ![t].rollback = "running", ![t].lapsed = FALSE]
    /\ proc' = [proc EXCEPT ![a] = [Idle EXCEPT !.task = t, !.phase = "restore"]]
    /\ tangled' = tangled \cup OutOfTurn(t)
    /\ UNCHANGED <<active, marks, stored, fix, asked, crashes>>

Plan(a) == task[Mine(a)].plan

\* restore_relation_status_from_snapshot for each forgotten relation; a rejection
\* wrote no text, so there is none to delete.
RestoreForgotten(a) ==
    /\ At(a, "restore")
    /\ active' = (active \ Targets[Mine(a)]) \cup Plan(a).before
    /\ Goto(a, IF Plan(a).kind = "correct" THEN "delete" ELSE "unmark")
    /\ UNCHANGED <<task, marks, stored, fix, asked, tangled, crashes>>

EndRollback(a, status) ==
    /\ task' = [task EXCEPT ![Mine(a)].rollback = status]
    /\ Leave(a)

\* The delete commits and its relations go with the text unless others support them.
DeleteText(a) ==
    /\ At(a, "delete") /\ stored[Mine(a)] # "no"
    /\ stored' = [stored EXCEPT ![Mine(a)] = "no"]
    /\ fix' = IF task[Mine(a)].known THEN fix ELSE fix \ {Mine(a)}
    /\ Goto(a, "clean")
    /\ UNCHANGED <<task, active, marks, asked, tangled, crashes>>

\* A text that is gone already is an error of the delete plan.
DeleteNothing(a) ==
    /\ At(a, "delete") /\ stored[Mine(a)] = "no"
    /\ EndRollback(a, "error")
    /\ UNCHANGED <<active, marks, stored, fix, asked, tangled, crashes>>

\* The clean-up of the delete raises after its commit.
CleanupRaises(a) ==
    /\ "cleanup" \in Faults /\ At(a, "clean")
    /\ EndRollback(a, "error")
    /\ UNCHANGED <<active, marks, stored, fix, asked, tangled, crashes>>

\* A corrected relation that existed before is restored, even from the deleted ones.
RevertCorrected(a) ==
    /\ At(a, "clean")
    /\ fix' = IF Plan(a).existed THEN fix \cup {Mine(a)} ELSE fix
    /\ Goto(a, "unmark")
    /\ UNCHANGED <<task, active, marks, stored, asked, tangled, crashes>>

\* Mutant: the mark goes whoever made the last one.
UnmarkAll(a) == [r \in Relation |-> IF r \in Targets[Mine(a)] THEN None ELSE marks[r]]

\* rollback_paragraph_stale_relation_mark: only a mark this task made, and back to
\* the one it replaced.
Unmarked(a) ==
    [r \in Relation |->
        IF marks[r] = Mine(a) /\ r \in Targets[Mine(a)]
        THEN (CHOOSE m \in Plan(a).prev : m[1] = r)[2] ELSE marks[r]]

Unmark(a) ==
    /\ At(a, "unmark")
    /\ marks' = Unmarked(a)
    /\ Goto(a, "askagain")
    /\ UNCHANGED <<task, active, stored, fix, asked, tangled, crashes>>

\* Mutant: the rollback asks for nothing.
AskNothing(a) == At(a, "askagain") /\ Goto(a, "close") /\ UNCHANGED <<task, active, marks, stored, fix, asked, tangled, crashes>>

AskAgain(a) ==
    /\ At(a, "askagain")
    /\ Ask(Mine(a))
    /\ Goto(a, "close")
    /\ UNCHANGED <<task, active, marks, stored, fix, tangled, crashes>>

CloseRollback(a) ==
    /\ At(a, "close")
    /\ EndRollback(a, "rolled_back")
    /\ UNCHANGED <<active, marks, stored, fix, asked, tangled, crashes>>

-----------------------------------------------------------------------------
\* Mutant: a lease that lapses is not seen.
LapseNever(t) == FALSE /\ UNCHANGED vars

\* 300 seconds pass: for a task nobody serves any more, or a slow rollback.
Lapse(t) ==
    /\ \/ task[t].status = "running" /\ ~Served(t)
       \/ task[t].rollback = "running" /\ (Served(t) => "slow" \in Faults)
    /\ ~task[t].lapsed
    /\ task' = [task EXCEPT ![t].lapsed = TRUE]
    /\ UNCHANGED <<active, marks, stored, fix, asked, proc, tangled, crashes>>

\* The process dies after any commit; a cancelled loop looks the same.
Crash ==
    /\ crashes < MaxCrashes
    /\ crashes' = crashes + 1
    /\ proc' = [a \in Actor |-> Idle]
    /\ UNCHANGED <<task, active, marks, stored, fix, asked, tangled>>

Process ==
    \/ ClassifyNothing \/ ClassifyApply
    \/ IngestKnown \/ IngestText \/ IngestTextAlone \/ IngestReference \/ IngestRaises
    \/ Compensate \/ MarkStale \/ Derive \/ SavePlan \/ Apply

RollBack(a) ==
    \/ RestoreForgotten(a) \/ DeleteText(a) \/ DeleteNothing(a) \/ CleanupRaises(a)
    \/ RevertCorrected(a) \/ Unmark(a) \/ AskAgain(a) \/ CloseRollback(a)

Next ==
    \/ \E t \in Task : Enqueue(t) \/ Claim(t) \/ Lapse(t)
    \/ Process
    \/ \E a \in Admin : RollBack(a) \/ \E t \in Task : StartRollback(a, t)
    \/ Crash

Spec == Init /\ [][Next]_vars

\* The loop polls for ever and ends what it claims; a started request runs to its
\* end; the event loop gives each its turn again and again; time passes.  Nobody
\* has to enqueue or to roll back.
Fairness ==
    /\ \A t \in Task : WF_vars(Lapse(t))
    /\ \A t \in Task : SF_vars(Claim(t))
    /\ SF_vars(Process)
    /\ \A a \in Admin : SF_vars(RollBack(a))

FairSpec == Spec /\ Fairness

-----------------------------------------------------------------------------
PlanType ==
    [kind : {None, "reject", "correct"}, before : SUBSET Relation,
     prev : SUBSET (Relation \X (Task \cup {None})), existed : BOOLEAN]

\* The rows, marks and actors stay in their ranges.
TypeOK ==
    /\ \A t \in Task :
          /\ task[t].status \in {None, "pending", "running", "skipped", "applied", "error"}
          /\ task[t].rollback \in {None, "running", "rolled_back", "error"}
          /\ task[t].plan \in PlanType
          /\ task[t].rollback # None => task[t].status = "applied"
    /\ active \cup asked \cup tangled \subseteq Relation /\ fix \subseteq Task
    /\ marks \in [Relation -> Task \cup {None}]
    /\ stored \in [Task -> {"no", "partly", "yes"}]
    /\ \A a \in Actor : proc[a].task \in Task \cup {None}

\* Nobody is in the middle of something, nor left something running behind.
AtRest ==
    /\ \A a \in Actor : proc[a] = Idle
    /\ \A t \in Task : task[t].status # "running" /\ task[t].rollback # "running"

Undone(t) ==
    \/ task[t].status \in {None, "pending", "skipped"}
    \/ task[t].status = "error" /\ task[t].last_error # "raised"
    \/ task[t].status = "applied" /\ task[t].rollback = "rolled_back"

\* When every task on a relation ended without effect or was rolled back, and none
\* needed a second attempt, the texts and relations the corrections wrote are gone;
\* and the relation is active and its paragraphs are not marked stale, unless two
\* tasks worked on it at once or were rolled back in another order than last first.
UndoneLeavesNoTrace ==
    AtRest => \A r \in Relation :
        LET on == {t \in Task : r \in Targets[t]}
        IN (\A t \in on : Undone(t) /\ task[t].attempts <= 1) =>
              /\ r \notin tangled => r \in active /\ marks[r] = None
              /\ \A t \in on : task[t].rollback = "rolled_back" =>
                    stored[t] = "no" /\ (t \in fix <=> task[t].known)

\* What the docstring of _rollback_feedback_task says: the rollback brings forgotten
\* relations back and takes the stale marks away, so that when every task on a
\* relation has been rolled back it is as it was.
RollBackRestores ==
    AtRest => \A r \in Relation :
        (\A t \in Task : r \in Targets[t] => task[t].rollback = "rolled_back") => r \in active /\ marks[r] = None

\* What derives from the relations of an applied or rolled back task was asked to be
\* rebuilt after the last change made to them, unless a task on them was restarted
\* or failed halfway (a compensation asks for nothing).
DerivedIsAsked ==
    AtRest => \A t \in Task :
        LET on == {u \in Task : Touch(t, u)}
        IN /\ task[t].status = "applied"
           /\ \A u \in on : task[u].attempts <= 1 /\ "error" \notin {task[u].status, task[u].rollback}
           => active \cap Targets[t] = asked \cap Targets[t]

\* A task that claims to be applied has forgotten its relations, their paragraphs are
\* marked stale by it or by a later task, and it says which mark is to be put back: a
\* crash before the end makes the next attempt repeat it all, a rollback of the later
\* task gives the marks back.  Of a relation that two tasks worked on at once, or gave
\* back out of order, only the saved undo data is sure.  All of it has its type.
AppliedIsForgotten ==
    /\ TypeOK
    /\ \A t \in Task : task[t].status = "applied" /\ task[t].rollback = None =>
          /\ \A r \in Targets[t] \ tangled : r \notin active /\ marks[r] # None
          /\ {m[1] : m \in task[t].plan.prev} = Targets[t]
          /\ task[t].plan.kind = "correct" => stored[t] = "yes"

\* Every task ends, whatever crash interrupts it: the lease lapses and the loop
\* claims the task again.
EveryTaskEnds ==
    \A t \in Task :
        task[t].status = "pending" ~> task[t].status \in {"skipped", "applied", "error"}
===============================================================================
