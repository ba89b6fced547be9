--------------------------- MODULE RelationLifecycle ---------------------------
(***************************************************************************)
(* How relations fade, are frozen, archived and revived: the columns of    *)
(* table relations that core/utils/memory_lifecycle_policy.py computes,    *)
(* the events that administrators, retrieval and new evidence send them,   *)
(* and the maintenance cycle that freezes what has faded and archives it   *)
(* after an await (memory_maintenance_service.py).                         *)
(*                                                                         *)
(* A strength that halves every half_life_hours is a straight line in its  *)
(* logarithm.  A level is that logarithm: the time the strength takes to   *)
(* fade to the freeze threshold, zero at or below it.  By how much an      *)
(* event strengthens or weakens is left open.  The wall clock may be set   *)
(* back.  Rows of relations do not influence each other.                   *)
(***************************************************************************)
EXTENDS Integers

CONSTANTS
    Hash,          \* the relations, by their hash
    Null,
    Full,          \* the level of strength 1
    ReviveLevel,   \* the level of revive_threshold
    Cooldown,      \* access_cooldown_seconds
    FreezeTime,    \* freeze_duration_hours
    Protection,    \* what a protection may last
    MaxClock,      \* bound on the wall clock
    MaxEvents      \* bound on everything but the clock and the cycle

ASSUME LevelsAssumption ==
    /\ Full \in Nat /\ ReviveLevel \in 1..Full
    /\ Cooldown \in Nat /\ FreezeTime \in Nat /\ Protection \subseteq Nat

Faded == -1

Time == Int

Row ==
    [level : Faded..Full, anchor : Time, next : Time \cup {Null}, since : Time \cup {Null},
     reason : {Null, "decay", "weaken", "manual", "correction", "migrated"}, pinned : BOOLEAN,
     permanent : BOOLEAN, until : Time, access : Time \cup {Null}, seen : Time, rev : Nat]

ASSUME NullAssumption == Null \notin Time /\ Null \notin Row

VARIABLES
    row,       \* table relations, Null for no row
    bin,       \* table deleted_relations
    status,    \* the status a feedback correction took down before it forgot a relation
    sweep,     \* the rows a cycle has found expired and has not archived yet
    clock,     \* the wall clock
    bound      \* counters: events, and among them clocks set back

lifecycleVars == <<row, bin, status, sweep, clock, bound>>

NoRows == [r \in Hash |-> Null]

Rows == {r \in Hash : row[r] # Null}

-----------------------------------------------------------------------------
(* The policy. *)

AtLeast(a, b) == IF a >= b THEN a ELSE b

\* A column that may be NULL, read with COALESCE(column, default).
Coalesce(a, b) == IF a = Null THEN b ELSE a

Active(x) == x.since = Null

\* retention_at: what is left of the strength.
Retention(x, t) == AtLeast(Faded, x.level - AtLeast(0, t - x.anchor))

\* threshold_crossing_at: when nothing is left.
Crossing(x) == x.anchor + AtLeast(0, x.level)

\* Mutant: an event happens at the time of the wall clock.
WallTime(x, t) == t

\* The time of an event, never earlier than what the policy has stored.
PolicyTime(x, t) == AtLeast(AtLeast(t, x.anchor), AtLeast(Coalesce(x.access, x.anchor), Coalesce(x.since, x.anchor)))

\* The same in the store, which also knows of accesses that changed nothing.
EventTime(x, t) == AtLeast(PolicyTime(x, t), x.seen)

Frozen(x, t, why) == [x EXCEPT !.since = t, !.reason = why, !.next = Null]

Awake(x) == [x EXCEPT !.since = Null, !.reason = Null]

Scheduled(x) == [x EXCEPT !.next = IF Active(x) THEN Crossing(x) ELSE Null]

\* apply_lifecycle_event, its second half: the new level decides.
Moved(x, level, t, forced, why) ==
    LET there == [x EXCEPT !.level = level, !.anchor = t, !.rev = @ + 1]
    IN  Scheduled(IF forced \/ level <= 0 THEN Frozen(there, IF Active(x) THEN t ELSE x.since, why)
                  ELSE IF Active(x) \/ level >= ReviveLevel THEN Awake(there)
                  ELSE there)

\* An event changes nothing but may find the relation faded.
Untouched(x, t) ==
    IF Active(x) /\ (Retention(x, t) <= 0 \/ t >= Crossing(x))
    THEN [Frozen(x, t, "decay") EXCEPT !.rev = @ + 1]
    ELSE Scheduled(x)

Strengthened(x, t) == Retention(x, t)..Full

Weakened(x, t) == Faded..Retention(x, t)

\* What an access leaves, by how much it may strengthen.
Accessed(x, t) ==
    LET cooled == x.access = Null \/ t - x.access >= Cooldown
        left   == Retention(x, t)
        idle   == {[Untouched(x, t) EXCEPT !.seen = t]}
        raised == {[Moved(x, l, t, FALSE, "decay") EXCEPT !.access = t, !.seen = t] :
                       l \in {m \in Strengthened(x, t) : m > left \/ (~Active(x) /\ m >= ReviveLevel)}}
    IN  IF cooled THEN idle \cup raised ELSE idle

Reinforced(x, t) == {[Moved(x, l, t, FALSE, "decay") EXCEPT !.seen = t] : l \in Strengthened(x, t)}

-----------------------------------------------------------------------------
(* Statements of the store. *)

\* A new row: it is due at once, for the first cycle to schedule.
Fresh(t) ==
    [level |-> Full, anchor |-> t, next |-> t, since |-> Null, reason |-> Null, pinned |-> FALSE,
     permanent |-> FALSE, until |-> 0, access |-> Null, seen |-> t, rev |-> 0]

\* _observe_relation_evidence.
Observed(x, t) ==
    LET now == EventTime(x, t)
    IN  [Awake(x) EXCEPT !.level = Full, !.anchor = now, !.next = now, !.seen = now, !.rev = @ + 1]

\* Mutant: a relation that is no longer pinned is not scheduled again.
ProtectedUnscheduled(x, until, pin) ==
    [x EXCEPT !.until = until, !.pinned = pin, !.next = IF pin THEN Null ELSE @, !.rev = @ + 1]

\* update_relations_protection with is_pinned: the row is only written if it changes.
Protected(x, until, pin) ==
    LET y == [x EXCEPT !.until = until, !.pinned = pin, !.next = IF pin THEN Null ELSE Coalesce(@, x.anchor)]
    IN  IF x = y THEN x ELSE [y EXCEPT !.rev = @ + 1]

\* mark_relations_inactive, for a correction.
MarkedInactive(x, t) ==
    IF ~Active(x) /\ x.reason = "correction" THEN x
    ELSE [Frozen(x, IF Active(x) THEN EventTime(x, t) ELSE x.since, "correction") EXCEPT !.rev = @ + 1]

\* mark_relations_active.
Reactivated(x) == IF Active(x) THEN x ELSE [Awake(x) EXCEPT !.next = x.anchor, !.rev = @ + 1]

-----------------------------------------------------------------------------
LifecycleInit ==
    \E old \in {NoRows} \cup [Hash -> {[Fresh(0) EXCEPT !.permanent = TRUE, !.pinned = TRUE, !.next = Null],
                                            [Fresh(0) EXCEPT !.since = 0, !.reason = "migrated"]}] :
        /\ row = old
        /\ bin = NoRows /\ status = NoRows /\ sweep = NoRows
        /\ clock = 0 /\ bound = [events |-> 0, setbacks |-> 0]

Counts == bound.events < MaxEvents /\ bound' = [bound EXCEPT !.events = @ + 1]

Changed(r) == row[r] # Null /\ Counts /\ UNCHANGED <<bin, status, sweep, clock>>

Becomes(r, x) == row' = [row EXCEPT ![r] = x]

(* New evidence.  add_relation with a paragraph: the insert is ignored if there is *)
(* a row, and a new link is evidence.                                              *)

Observe(r) ==
    /\ Counts
    /\ Becomes(r, Observed(IF row[r] = Null THEN Fresh(clock) ELSE row[r], clock))
    /\ UNCHANGED <<bin, status, sweep, clock>>

\* create_edge without a paragraph: only an inactive relation takes it as evidence.
CreateEdge(r) ==
    /\ Counts
    /\ LET x == IF row[r] = Null THEN Fresh(clock) ELSE row[r]
           t == EventTime(x, clock)
       IN  Becomes(r, IF Active(x) THEN x ELSE [Moved(x, Full, t, FALSE, Null) EXCEPT !.seen = t])
    /\ UNCHANGED <<bin, status, sweep, clock>>

(* Events.  The projection of a change of activity onto the graph may raise: the *)
(* event is committed, and what the handler would do next is not done.           *)

Stops(x, y) == {FALSE} \cup (IF Active(x) = Active(y) THEN {} ELSE {TRUE})

\* reinforce_access, for relations that were returned.
Access(r) ==
    /\ Changed(r)
    /\ \E y \in Accessed(row[r], EventTime(row[r], clock)) : Becomes(r, y)

\* Action reinforce: then protected for a while from the logical time on.
Reinforce(r) ==
    /\ Changed(r)
    /\ \E y \in Reinforced(row[r], EventTime(row[r], clock)), d \in Protection :
       \E stops \in Stops(row[r], y) :
          LET now == AtLeast(clock, y.anchor)
          IN  Becomes(r, IF stops THEN y ELSE [y EXCEPT !.until = now + d, !.seen = now, !.rev = @ + 1])

RememberForever(r) ==
    /\ Changed(r)
    /\ \E y \in Reinforced(row[r], EventTime(row[r], clock)) :
       \E stops \in Stops(row[r], y) : Becomes(r, IF stops THEN y ELSE Protected(y, 0, TRUE))

Weaken(r) ==
    /\ Changed(r)
    /\ LET t == EventTime(row[r], clock)
       IN  \E l \in Weakened(row[r], t) : Becomes(r, Moved(row[r], l, t, FALSE, "weaken"))

Freeze(r) ==
    /\ Changed(r)
    /\ LET t == EventTime(row[r], clock)
       IN  Becomes(r, Moved(row[r], Retention(row[r], t), t, TRUE, "manual"))

Forgotten(x, t) == LET y == Protected(x, 0, FALSE) IN Moved(y, Faded, EventTime(y, t), TRUE, "manual")

Forget(r) == Changed(r) /\ Becomes(r, Forgotten(row[r], clock))

\* maintain_memory "protect": for some hours, or pinned.
Protect(r) ==
    /\ Changed(r)
    /\ \E d \in Protection : Becomes(r, Protected(row[r], IF d > 0 THEN clock + d ELSE 0, d = 0))

(* Corrections. *)

\* By a rollback of a correction with the time of an earlier status.
Supersede(r) == Changed(r) /\ \E t \in 0..clock : Becomes(r, MarkedInactive(row[r], t))

Reactivate(r) == Changed(r) /\ Becomes(r, Reactivated(row[r]))

\* A feedback correction takes down the status and forgets the relation.
ForgetByFeedback(r) ==
    /\ row[r] # Null /\ Counts
    /\ status' = [status EXCEPT ![r] = row[r]]
    /\ Becomes(r, Forgotten(row[r], clock))
    /\ UNCHANGED <<bin, sweep, clock>>

\* restore_relation_status_from_snapshot: is_permanent, created with the row, is
\* not part of a status, and last_accessed stays.
Reverted(x, s, seen) == [s EXCEPT !.permanent = x.permanent, !.seen = seen, !.rev = AtLeast(x.rev, s.rev) + 1]

RevertStatus(r) ==
    /\ status[r] # Null /\ Counts
    /\ \E x \in {row[r], bin[r]} \ {Null} :
         /\ row[r] # Null => x = row[r]
         /\ \E seen \in {x.seen, status[r].seen} : Becomes(r, Reverted(x, status[r], seen))
    /\ status' = [status EXCEPT ![r] = Null]
    /\ bin' = IF row[r] = Null THEN [bin EXCEPT ![r] = Null] ELSE bin
    /\ UNCHANGED <<sweep, clock>>

(* Deleted rows. *)

ToBin(S) ==
    /\ bin' = [r \in Hash |-> IF r \in S THEN row[r] ELSE bin[r]]
    /\ row' = [r \in Hash |-> IF r \in S THEN Null ELSE row[r]]

DeleteRow(r) == row[r] # Null /\ Counts /\ ToBin({r}) /\ UNCHANGED <<status, sweep, clock>>

\* restore_deleted_relations: the row as it was, over one that may have been
\* written since, and with the revision it had.
RestoreRow(r) ==
    /\ bin[r] # Null /\ Counts
    /\ Becomes(r, bin[r])
    /\ bin' = [bin EXCEPT ![r] = Null]
    /\ UNCHANGED <<status, sweep, clock>>

PurgeRow(r) ==
    /\ bin[r] # Null /\ Counts
    /\ bin' = [bin EXCEPT ![r] = Null]
    /\ UNCHANGED <<row, status, sweep, clock>>

-----------------------------------------------------------------------------
(* The maintenance cycle. *)

Unguarded(x, t) == ~x.permanent /\ ~x.pinned /\ x.until <= t

IsDue(x, t) == Active(x) /\ Unguarded(x, t) /\ x.next # Null /\ x.next <= t

\* Mutant: a row that was looked at and has not faded is off the calendar.
EvaluatedOnce(x, t) ==
    LET now == PolicyTime(x, t)
    IN  [(IF Retention(x, now) <= 0 \/ now >= Crossing(x) THEN Frozen(x, now, "decay")
          ELSE [x EXCEPT !.next = Null]) EXCEPT !.rev = @ + 1]

\* evaluate_lifecycle for a row that is due.
Evaluated(x, t) ==
    LET now == PolicyTime(x, t)
    IN  [(IF Retention(x, now) <= 0 \/ now >= Crossing(x) THEN Frozen(x, now, "decay")
          ELSE [x EXCEPT !.next = Crossing(x)]) EXCEPT !.rev = @ + 1]

\* evaluate_due_relation_lifecycles, batch by batch until no row is due.
Cycle(t) == [r \in Hash |-> IF r \in Rows /\ IsDue(row[r], t) THEN Evaluated(row[r], t) ELSE row[r]]

\* get_decay_prune_candidate_rows.
Expired(x, t) ==
    /\ ~Active(x) /\ x.reason = "decay"
    /\ x.since < t - FreezeTime
    /\ Unguarded(x, t)
    /\ Retention(x, t) <= 0

SweepIdle == sweep = NoRows

\* A cycle up to the await in front of the delete.  Projecting the frozen relations
\* onto the graph may raise, which ends the cycle.
Sweep(projects) ==
    /\ SweepIdle
    /\ row' = Cycle(clock)
    /\ projects \/ row' # row
    /\ sweep' = IF projects
                THEN [r \in Hash |-> IF row'[r] # Null /\ Expired(row'[r], clock) THEN row'[r] ELSE Null]
                ELSE sweep
    /\ UNCHANGED <<bin, status, clock, bound>>

\* Mutant: what was found expired is archived without another look.
Unchecked(x, found) == TRUE

\* _filter_relation_deletion_preconditions.
AsFound(x, found) ==
    \A f \in {"rev", "level", "anchor", "since", "reason", "permanent", "pinned", "until"} : x[f] = found[f]

Archivable == {r \in Rows : sweep[r] # Null /\ AsFound(row[r], sweep[r])}

Archive ==
    /\ ~SweepIdle
    /\ ToBin(Archivable)
    /\ sweep' = NoRows
    /\ UNCHANGED <<status, clock, bound>>

\* The delete fails, the cycle is cancelled, or the process dies.
CutShort ==
    /\ ~SweepIdle
    /\ Counts
    /\ sweep' = NoRows
    /\ UNCHANGED <<row, bin, status, clock>>

Tick == clock < MaxClock /\ clock' = clock + 1 /\ UNCHANGED <<row, bin, status, sweep, bound>>

SetBack ==
    /\ bound.events < MaxEvents
    /\ \E t \in 0..clock - 1 : clock' = t
    /\ bound' = [events |-> bound.events + 1, setbacks |-> bound.setbacks + 1]
    /\ UNCHANGED <<row, bin, status, sweep>>

-----------------------------------------------------------------------------
LifecycleNext ==
    \/ \E r \in Hash :
         \/ Observe(r) \/ CreateEdge(r) \/ Access(r) \/ Reinforce(r) \/ RememberForever(r)
         \/ Weaken(r) \/ Freeze(r) \/ Forget(r) \/ Protect(r)
         \/ Supersede(r) \/ Reactivate(r) \/ ForgetByFeedback(r) \/ RevertStatus(r)
         \/ DeleteRow(r) \/ RestoreRow(r) \/ PurgeRow(r)
    \/ \E projects \in BOOLEAN : Sweep(projects)
    \/ Archive \/ CutShort \/ Tick \/ SetBack

LifecycleSpec == LifecycleInit /\ [][LifecycleNext]_lifecycleVars

(* The maintenance loop runs for ever: a cycle that fails is tried again, and one *)
(* that waits for the storage lock gets it.                                       *)
LifecycleFairness ==
    /\ SF_lifecycleVars(Sweep(TRUE))
    /\ SF_lifecycleVars(Archive)

LifecycleFairSpec == LifecycleSpec /\ LifecycleFairness

-----------------------------------------------------------------------------
RowsTyped == \A t \in {row, bin, status, sweep} : t \in [Hash -> Row \cup {Null}]

(* Types of the tables, and: an active relation that nothing protects for ever   *)
(* is on the calendar, at the latest for the moment it has faded.  Unpinned,      *)
(* reactivated, reverted or restored relations were off it.                       *)
OnTime(x) == Active(x) /\ ~x.pinned /\ ~x.permanent => x.next # Null /\ x.next <= Crossing(x)

ActiveIsScheduled == RowsTyped /\ \A r \in Rows : OnTime(row[r])

(* Archiving waits for the storage lock after the candidates were read: whatever  *)
(* was pinned, protected, revived or strengthened meanwhile stays.                *)
Forsaken(x, found) ==
    /\ ~Active(x) /\ x.reason = "decay"
    /\ bound.setbacks = 0 => Retention(x, clock) <= 0
    /\ ~x.pinned /\ ~x.permanent /\ x.until <= found.until

ArchivedWereFaded ==
    [][Archive => \A r \in Rows : row'[r] = Null => Forsaken(row[r], sweep[r])]_lifecycleVars

(* Retention never jumps: only weakening, forgetting and undoing bring the moment *)
(* closer at which a relation has faded, whatever happens to the wall clock.      *)
Weakens(r) == Weaken(r) \/ Forget(r) \/ ForgetByFeedback(r) \/ RevertStatus(r) \/ RestoreRow(r)

NothingAges ==
    [][\A r \in Rows : row'[r] = Null \/ Weakens(r) \/ Crossing(row'[r]) >= Crossing(row[r])]_lifecycleVars

(* What has faded is frozen, and what has been frozen long enough is archived,    *)
(* unless something happens to it first.                                          *)
Neglected(r) ==
    row[r] # Null /\ (Expired(row[r], clock)
                      \/ (Active(row[r]) /\ Unguarded(row[r], clock) /\ Crossing(row[r]) <= clock))

NeglectEnds == \A r \in Hash : Neglected(r) ~> ~Neglected(r)
===============================================================================
