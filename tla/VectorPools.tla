------------------------------ MODULE VectorPools ------------------------------
(***************************************************************************)
(* The two vector pools of a kernel as directories: the rebuild that       *)
(* encodes everything anew into a build directory and switches to it       *)
(* (vector_runtime_service.py, dual_vector_state_service.py), the          *)
(* quarantine of a damaged pair and the copying of its old vectors         *)
(* (vector_recovery_service.py), the queue of paragraphs without a vector, *)
(* and what start-up and the embedding probe make of what they find on the *)
(* disk (runtime_lifecycle_service.py, embedding_state_service.py).        *)
(*                                                                         *)
(* What the code does in one go is a script: steps that each change one    *)
(* file or directory.  The process may die between any two of them.  Only  *)
(* while the script is empty, or its head waits for the embedding model or *)
(* runs in a thread, does the event loop do something else.                *)
(*                                                                         *)
(* The pools are configured as dual and one embedding model answers, but a *)
(* kernel that has not seen it answer since it started cannot vouch for    *)
(* the fingerprint of what is stored (observed).                           *)
(***************************************************************************)
EXTENDS Naturals, FiniteSets, SequencesExt

CONSTANTS
    Paragraph, Relation,  \* what has a vector in the one or in the other pool
    Rank,                 \* the order of copying: by type, then by hash
    Beginnings,           \* what may be on the disk at first
    MaxCrashes, MaxRebuilds, MaxDamages,
    MaxEvents,            \* of these together
    CrashInFreshSwitch    \* may a crash hit a switch that follows a recovery?

Item == Paragraph \cup Relation
Pools == {"paragraph", "graph"}
Stores == Pools \cup {"single"}

ASSUME ItemAssumption == IsFiniteSet(Item) /\ Paragraph \cap Relation = {}
ASSUME RankAssumption ==
    Rank \in [Item -> Nat \ {0}] /\ \A i, j \in Item : Rank[i] = Rank[j] => i = j
ASSUME BeginningAssumption ==
    Beginnings \subseteq {"new", "single", "dual", "leftover", "copying"}
ASSUME BoundAssumption ==
    {MaxCrashes, MaxRebuilds, MaxDamages, MaxEvents} \subseteq Nat /\ CrashInFreshSwitch \in BOOLEAN

VARIABLES
    items,   \* what is active in the metadata
    queued,  \* the pending rows of paragraph_vector_backfill
    batch,   \* the rows a backfill has marked running, and whether its store was replaced
    disk,    \* the directories and files, see DiskOf
    run,     \* the running kernel
    mem,     \* the vectors in its stores
    script,  \* what it is doing and has yet to do
    todo,    \* what the rebuild has queried and not yet encoded
    built,   \* the stores it builds, in memory
    saved,   \* ever saved (of no consequence to the code)
    late,    \* relations saved to pools about to be replaced (likewise)
    count    \* crashes, rebuilds and damages so far; the last generation

vars == <<items, queued, batch, disk, run, mem, script, todo, built, saved, late, count>>

PoolOf(i) == IF i \in Paragraph THEN "paragraph" ELSE "graph"
In(p) == {i \in Item : PoolOf(i) = p}

\* A directory: absent, blank (the constructor of a store has made it), with a
\* store of the old or of the current format, or with one that does not load.
Absent == [is |-> "absent", has |-> {}, gen |-> 0]
Blank == [is |-> "blank", has |-> {}, gen |-> 0]
Store(has, gen) == [is |-> "store", has |-> has, gen |-> gen]
HasData(d) == d.is \in {"v1", "store", "damaged"}
Made(d) == IF d.is = "absent" THEN Blank ELSE d

NoDirs == [p \in Pools |-> Absent]
NoMem == [s \in Stores |-> {}]
NoBatch == [rows |-> {}, stale |-> FALSE]
Off == [up |-> FALSE, observed |-> FALSE, degraded |-> FALSE,
        mode |-> "none", health |-> "none", view |-> FALSE]

\* What is on the disk at first, b, with a vector of each of seen.
DiskOf(b, seen) ==
    LET Dual == b \in {"dual", "leftover"}
    IN  [dir |-> [s \in Stores |->
                    CASE b \in {"single", "leftover"} /\ s = "single" ->
                            [Store(seen, 0) EXCEPT !.is = "v1"]
                      [] Dual /\ s # "single" -> Store(seen \cap In(s), 1)
                      [] b = "copying" /\ s # "single" -> Store({}, 1)
                      [] OTHER -> Absent],
         build |-> NoDirs,
         \* dual_backup_*: its log, the pools moved out, those moved to interrupted_new
         log |-> "none", had |-> {}, old |-> NoDirs, stash |-> NoDirs,
         \* dual_ready.json: none, ready, or of an empty generation
         manifest |-> CASE Dual -> "ready" [] b = "copying" -> "fresh" [] OTHER -> "none",
         \* vector_recovery.json
         stage |-> IF b = "copying" THEN "copying" ELSE "none", cursor |-> 0,
         \* vector_quarantine: of this operation, its trusted vectors, and all there are
         away |-> [there |-> b = "copying",
                   trusted |-> IF b = "copying" THEN seen ELSE {},
                   all |-> IF b = "copying" THEN seen ELSE {}]]

Init ==
    /\ \E b \in Beginnings, some \in SUBSET Item \ {{}} :
          /\ items = IF b = "new" THEN {} ELSE some
          /\ disk = DiskOf(b, items)
    /\ saved = items
    /\ queued = {} /\ batch = NoBatch
    /\ run = Off /\ mem = NoMem /\ script = <<>> /\ todo = {} /\ built = [p \in Pools |-> {}]
    /\ late = {}
    /\ count = [crashes |-> 0, rebuilds |-> 0, damages |-> 0, gen |-> 1]

-----------------------------------------------------------------------------
\* Scripts

\* Bound: crashes, rebuilds and damages together.
More == count.crashes + count.rebuilds + count.damages < MaxEvents

Doing(name) == script # <<>> /\ Head(script)[1] = name
Arg == Head(script)[2]
Done == script' = Tail(script)

Awaiting == {"encode", "fill", "copy"}
LoopFree == run.up /\ (script # <<>> => Head(script)[1] \in Awaiting)

\* _persist: the pools if they are in use, else the single store.
Persist ==
    CASE run.mode = "dual" -> <<<<"save", "paragraph">>, <<"save", "graph">>>>
      [] run.mode = "single" -> <<<<"save", "single">>>>
      [] OTHER -> <<>>

Save ==
    /\ Doing("save") /\ Done
    /\ disk' = [disk EXCEPT !.dir[Arg] = Store(mem[Arg], @.gen)]
    /\ saved' = saved \cup mem[Arg]
    /\ late' = IF <<"out", "paragraph">> \in ToSet(script) THEN late \cup (mem[Arg] \ saved) ELSE late
    /\ UNCHANGED <<items, queued, batch, run, mem, todo, built, count>>

\* The stores are replaced or given up: a backfill that is waiting for the model
\* will write into the old object.
Stale == batch' = [batch EXCEPT !.stale = batch.rows # {}]

UseDual(r, health) ==
    /\ run' = [r EXCEPT !.mode = "dual", !.health = IF r.view THEN @ ELSE health]
    /\ mem' = [s \in Stores |-> IF s \in Pools THEN disk.dir[s].has ELSE {}]
    /\ Stale

\* _disable_vector_channel
Disable(r, health) ==
    /\ run' = [r EXCEPT !.mode = "none", !.health = health, !.view = FALSE]
    /\ mem' = NoMem
    /\ Stale

-----------------------------------------------------------------------------
\* What the disk says

\* mutant: the fingerprint is not compared.
ReadyUnverified(observed) ==
    /\ disk.manifest # "none"
    /\ \A p \in Pools : disk.dir[p].is # "absent"

\* _dual_vector_ready
Ready(observed) ==
    /\ disk.manifest # "none"
    /\ observed \/ disk.manifest = "fresh"
    /\ \A p \in Pools : disk.dir[p].is # "absent"

Damaged == \E p \in Pools : disk.dir[p].is = "damaged"

\* As many vectors as there are active rows.
Complete == \A p \in Pools : Cardinality(disk.dir[p].has) = Cardinality(items \cap In(p))

\* _reload_dual_vector_stores_from_disk, with _try_recover_dual_ready_manifest
Reload(observed) ==
    LET Both == \A p \in Pools : HasData(disk.dir[p])
    IN  CASE Ready(observed) -> IF Damaged THEN "damaged" ELSE "dual"
          [] ~Ready(observed) /\ disk.manifest # "none" ->
                IF observed THEN "damaged" ELSE "unverified"  \* a directory is missing
          [] disk.manifest = "none" /\ Both ->
                IF ~observed THEN "unverified"
                ELSE IF Complete /\ ~Damaged THEN "adopted" ELSE "not_dual"
          [] OTHER -> "not_dual"

-----------------------------------------------------------------------------
\* Recovery: _recover_known_vector_failure, _resume_known_vector_recovery

Recovery ==
    << <<"quarantine">>, <<"note", "quarantined">>,
       <<"reset">>, <<"note", "metadata_reset">>,
       <<"renew", "paragraph">>, <<"renew", "graph">>, <<"fresh">>,
       <<"note", "new_generation_ready">>, <<"view">> >>

From(stage) ==
    CASE stage = "prepared" -> Recovery
      [] stage = "quarantined" -> SubSeq(Recovery, 3, 9)
      [] stage = "metadata_reset" -> SubSeq(Recovery, 5, 9)
      [] OTHER -> SubSeq(Recovery, 9, 9)

\* A new operation, unless one is unfinished.
Recover(rest) ==
    IF disk.stage \in {"none", "completed"}
    THEN /\ disk' = [disk EXCEPT !.stage = "prepared", !.cursor = 0,
                                 !.away.there = FALSE, !.away.trusted = {}]
         /\ script' = From("prepared") \o rest
    ELSE /\ script' = From(disk.stage) \o rest
         /\ UNCHANGED disk

Contents(dirs) == UNION {dirs[d].has : d \in DOMAIN dirs}

\* The whole vectors directory is moved.  Start-up and probe have made it by
\* now: if it was moved before, there are two of them.
Quarantine ==
    /\ Doing("quarantine")
    /\ \/ /\ ~disk.away.there
          /\ disk' = [disk EXCEPT
                !.dir = [s \in Stores |-> Absent], !.build = NoDirs,
                !.log = "none", !.had = {}, !.old = NoDirs, !.stash = NoDirs,
                !.manifest = "none",
                !.away = [there |-> TRUE,
                          trusted |-> IF disk.dir["single"].is = "v1"
                                      THEN disk.dir["single"].has ELSE {},
                          all |-> disk.away.all \cup Contents(disk.dir)
                                     \cup Contents(disk.old) \cup Contents(disk.stash)]]
          /\ Done
          /\ UNCHANGED <<run, mem, batch>>
       \/ /\ disk.away.there
          /\ Disable(run, "unavailable")
          /\ script' = <<>>
          /\ UNCHANGED disk
    /\ UNCHANGED <<items, queued, todo, built, saved, late, count>>

Note ==
    /\ Doing("note") /\ Done
    /\ disk' = [disk EXCEPT !.stage = Arg]
    /\ UNCHANGED <<items, queued, batch, run, mem, todo, built, saved, late, count>>

\* reset_vector_projection_state deletes the rows of the backfill too.
Reset ==
    /\ Doing("reset") /\ Done
    /\ queued' = {} /\ batch' = [batch EXCEPT !.rows = {}]
    /\ UNCHANGED <<items, disk, run, mem, todo, built, saved, late, count>>

\* _prepare_empty_dual_generation
Renew ==
    /\ Doing("renew") /\ Done
    /\ count' = [count EXCEPT !.gen = IF Arg = "paragraph" THEN @ + 1 ELSE @]
    /\ disk' = [disk EXCEPT !.dir = [s \in Stores |->
                    IF s = Arg THEN Store({}, count'.gen) ELSE Made(disk.dir[s])]]
    /\ UNCHANGED <<items, queued, batch, run, mem, todo, built, saved, late>>

Fresh ==
    /\ Doing("fresh") /\ Done
    /\ disk' = [disk EXCEPT !.manifest = "fresh"]
    /\ run' = [run EXCEPT !.mode = "dual"]
    /\ mem' = NoMem
    /\ Stale
    /\ UNCHANGED <<items, queued, todo, built, saved, late, count>>

\* The old vectors are shown and copied if they can be trusted.
View ==
    /\ Doing("view") /\ Done
    /\ LET open == disk.away.trusted # {}
       IN  /\ run' = [run EXCEPT !.view = open,
                                 !.health = IF open THEN "recovering" ELSE "degraded"]
           /\ disk' = [disk EXCEPT !.stage = CASE @ = "copying" -> @
                                               [] open -> "copying"
                                               [] OTHER -> "completed"]
    /\ UNCHANGED <<items, queued, batch, mem, todo, built, saved, late, count>>

-----------------------------------------------------------------------------
\* Start-up

\* The constructors of the stores make their directories.
Start ==
    /\ ~run.up
    /\ run' = [run EXCEPT !.up = TRUE]
    /\ disk' = [disk EXCEPT !.dir = [s \in Stores |-> Made(@[s])]]
    /\ script' = << <<"sweep">>, <<"resume">>, <<"load">> >>
    /\ UNCHANGED <<items, queued, batch, mem, todo, built, saved, late, count>>

NoBackup(d) == [d EXCEPT !.log = "none", !.had = {}, !.old = NoDirs, !.stash = NoDirs]

\* An interrupted switch is taken back: what lies at the place of each pool is
\* put aside, the old one is moved in.
TakeBack ==
    << <<"stash", "paragraph">>, <<"return", "paragraph">>,
       <<"stash", "graph">>, <<"return", "graph">>, <<"settled">> >>

\* mutant: a switch that was interrupted counts as one that was completed.
BackupSpentEarly == disk.log \in {"activated", "prepared"}

BackupSpent == disk.log = "activated" \/ (disk.log = "prepared" /\ Ready(run.observed))

\* _cleanup_stale_dual_vector_build_dirs.  A backup without its log stays, and
\* with it the build.
Sweep ==
    /\ Doing("sweep")
    /\ \/ /\ disk.log = "none"
          /\ disk' = [disk EXCEPT !.build = NoDirs] /\ Done
       \/ /\ disk.log = "bare"
          /\ Done /\ UNCHANGED disk
       \/ /\ BackupSpent
          /\ disk' = [NoBackup(disk) EXCEPT !.build = NoDirs] /\ Done
       \/ /\ disk.log = "prepared" /\ ~BackupSpent
          /\ script' = TakeBack \o Tail(script)
          /\ UNCHANGED disk
    /\ UNCHANGED <<items, queued, batch, run, mem, todo, built, saved, late, count>>

Stash ==
    /\ Doing("stash") /\ Done
    /\ disk' = [disk EXCEPT
          !.dir[Arg] = Absent,
          !.stash[Arg] = IF disk.dir[Arg].is = "absent" THEN @
                         ELSE [disk.dir[Arg] EXCEPT !.has = @ \cup disk.stash[Arg].has]]
    /\ UNCHANGED <<items, queued, batch, run, mem, todo, built, saved, late, count>>

\* A pool that had not been moved out yet is not in the backup: the rest is
\* left as it lies.
Return ==
    /\ Doing("return")
    /\ \/ /\ Arg \in disk.had /\ disk.old[Arg].is # "absent"
          /\ disk' = [disk EXCEPT !.dir[Arg] = disk.old[Arg], !.old[Arg] = Absent]
          /\ Done
       \/ /\ Arg \in disk.had /\ disk.old[Arg].is = "absent"
          /\ script' = << <<"resume">>, <<"load">> >>
          /\ UNCHANGED disk
       \/ /\ Arg \notin disk.had
          /\ Done /\ UNCHANGED disk
    /\ UNCHANGED <<items, queued, batch, run, mem, todo, built, saved, late, count>>

Settled ==
    /\ Doing("settled") /\ Done
    /\ disk' = [NoBackup(disk) EXCEPT !.build = NoDirs]
    /\ UNCHANGED <<items, queued, batch, run, mem, todo, built, saved, late, count>>

\* _resume_vector_recovery_if_needed
Resume ==
    /\ Doing("resume")
    /\ script' = (IF disk.stage \in {"none", "completed"} THEN <<>> ELSE From(disk.stage))
                 \o Tail(script)
    /\ UNCHANGED <<items, queued, batch, disk, run, mem, todo, built, saved, late, count>>

\* The rest of the vector part of initialize: nothing has been seen to answer yet.
Load ==
    /\ Doing("load")
    /\ LET found == Reload(FALSE)
           old == ~run.view /\ HasData(disk.dir["single"])
       IN  \/ /\ found = "dual"
             /\ UseDual(run, "healthy") /\ Done /\ UNCHANGED disk
          \/ /\ found = "damaged"
             /\ Recover(Tail(script)) /\ UNCHANGED <<run, mem, batch>>
          \/ /\ found = "unverified" \/ (found = "not_dual" /\ old)
             /\ Disable(run, "pending") /\ Done /\ UNCHANGED disk
          \/ /\ found = "not_dual" /\ ~old
             /\ run' = [run EXCEPT !.mode = "single",
                                   !.health = IF run.view THEN @ ELSE "healthy"]
             /\ Done /\ UNCHANGED <<disk, mem, batch>>
    /\ UNCHANGED <<items, queued, todo, built, saved, late, count>>

-----------------------------------------------------------------------------
\* The embedding probe

\* _restore_vector_channel_after_embedding_recovery
Restore(seen) ==
    LET found == Reload(TRUE)
    IN  \/ /\ found \in {"dual", "adopted"}
          /\ UseDual(seen, "healthy")
          /\ disk' = [disk EXCEPT !.manifest = IF found = "adopted" THEN "ready" ELSE @]
          /\ UNCHANGED script
       \/ /\ found = "damaged"
          /\ Recover(<<>>)
          /\ run' = seen
          /\ UNCHANGED <<mem, batch>>
       \/ /\ found = "not_dual"
          /\ Disable(seen, "unavailable")
          /\ UNCHANGED <<disk, script>>

\* mutant: the probe restores what a failing embedding had closed only.
RestoringDegraded == run.degraded /\ run.health = "pending" /\ script = <<>>

\* While a rebuild holds the lock, the probe only lifts the degradation.
Restoring == run.health = "pending" /\ script = <<>>

\* _recover_embedding_once
Probe ==
    /\ LoopFree
    /\ LET seen == [run EXCEPT !.observed = TRUE, !.degraded = FALSE]
       IN  \/ /\ Restoring
             /\ Restore(seen)
          \/ /\ ~Restoring /\ (~run.observed \/ run.degraded)
             /\ run' = seen
             /\ UNCHANGED <<disk, mem, batch, script>>
    /\ UNCHANGED <<items, queued, todo, built, saved, late, count>>

-----------------------------------------------------------------------------
\* The rebuild of all vectors: _rebuild_all_vectors_locked,
\* _activate_dual_vector_build_dirs, _backfill_missing_dual_vector_pool_entries

Rebuilding ==
    << <<"encode", "paragraph">>, <<"encode", "graph">>,
       <<"build", "paragraph">>, <<"build", "graph">>,
       <<"prepare", "bare">>, <<"prepare", "prepared">>,
       <<"out", "paragraph">>, <<"out", "graph">>,
       <<"in", "paragraph">>, <<"in", "graph">>, <<"activated">>,
       <<"manifest">>, <<"sweep">>, <<"reload">>,
       <<"missing", "paragraph">>, <<"fill", "paragraph">>,
       <<"missing", "graph">>, <<"fill", "graph">>,
       <<"save", "paragraph">>, <<"save", "graph">>, <<"manifest">>,
       <<"clear">>, <<"finish", "filled">> >>

\* It takes the lock and lowers the flag; old vectors of a single store are read
\* for copying.  (Bounds: MaxRebuilds, and no backup is left to be resolved.)
Rebuild ==
    /\ run.up /\ script = <<>>
    /\ disk.log = "none" /\ count.rebuilds < MaxRebuilds /\ More
    /\ run' = [run EXCEPT !.observed = TRUE, !.degraded = TRUE,
                          !.mode = IF @ = "none" THEN "single" ELSE @]
    /\ mem' = [mem EXCEPT !["single"] =
                  @ \cup (IF run.mode = "none" THEN disk.dir["single"].has ELSE {})]
    /\ disk' = [disk EXCEPT !.build = [p \in Pools |-> Blank]]
    /\ built' = [p \in Pools |-> {}]
    /\ todo' = items \cap Paragraph
    /\ script' = Rebuilding
    /\ count' = [count EXCEPT !.rebuilds = @ + 1]
    /\ UNCHANGED <<items, queued, batch, saved, late>>

\* The end of an await: the vectors are there, and after the paragraphs what
\* belongs to the graph is queried.
Encode ==
    /\ Doing("encode") /\ Done
    /\ built' = [built EXCEPT ![Arg] = @ \cup todo]
    /\ todo' = IF Arg = "paragraph" THEN items \cap Relation ELSE {}
    /\ UNCHANGED <<items, queued, batch, disk, run, mem, saved, late, count>>

\* A batch fails: nothing is switched, the stores are read from the disk again.
\* (The other pool is still encoded; what comes of it is dropped.)
EncodeFails ==
    /\ Doing("encode") /\ todo # {}
    /\ script' = << <<"drop">>, <<"reload">>, <<"finish", "failed">> >>
    /\ todo' = {} /\ built' = [p \in Pools |-> {}]
    /\ UNCHANGED <<items, queued, batch, disk, run, mem, saved, late, count>>

Drop ==
    /\ Doing("drop") /\ Done
    /\ disk' = [disk EXCEPT !.build = NoDirs]
    /\ UNCHANGED <<items, queued, batch, run, mem, todo, built, saved, late, count>>

SaveBuild ==
    /\ Doing("build") /\ Done
    /\ count' = [count EXCEPT !.gen = IF Arg = "paragraph" THEN @ + 1 ELSE @]
    /\ disk' = [disk EXCEPT !.build[Arg] = Store(built[Arg], count'.gen)]
    /\ UNCHANGED <<items, queued, batch, run, mem, todo, built, saved, late>>

\* The directory of the backup, then the log in it.
Prepare ==
    /\ Doing("prepare") /\ Done
    /\ disk' = [disk EXCEPT !.log = Arg,
                            !.had = {p \in Pools : disk.dir[p].is # "absent"}]
    /\ UNCHANGED <<items, queued, batch, run, mem, todo, built, saved, late, count>>

MoveOut ==
    /\ Doing("out") /\ Done
    /\ disk' = [disk EXCEPT !.old[Arg] = disk.dir[Arg], !.dir[Arg] = Absent]
    /\ UNCHANGED <<items, queued, batch, run, mem, todo, built, saved, late, count>>

MoveIn ==
    /\ Doing("in") /\ Done
    /\ disk' = [disk EXCEPT !.dir[Arg] = disk.build[Arg], !.build[Arg] = Absent]
    /\ UNCHANGED <<items, queued, batch, run, mem, todo, built, saved, late, count>>

Activated ==
    /\ Doing("activated") /\ Done
    /\ disk' = [disk EXCEPT !.build = NoDirs, !.log = "activated"]
    /\ UNCHANGED <<items, queued, batch, run, mem, todo, built, saved, late, count>>

\* _write_dual_vector_ready_manifest: with a fingerprint, no longer of an empty
\* generation.
Manifest ==
    /\ Doing("manifest") /\ Done
    /\ disk' = [disk EXCEPT !.manifest = "ready"]
    /\ UNCHANGED <<items, queued, batch, run, mem, todo, built, saved, late, count>>

\* Damage that only this reload finds is raised out of the rebuild.
ReloadStores ==
    /\ Doing("reload")
    /\ LET found == Reload(TRUE)
       IN  \/ /\ found \in {"dual", "adopted"}
             /\ UseDual(run, run.health) /\ Done
             /\ disk' = [disk EXCEPT !.manifest = IF found = "adopted" THEN "ready" ELSE @]
          \/ /\ found = "damaged"
             /\ run' = [run EXCEPT !.mode = IF @ = "dual" THEN "single" ELSE @]
             /\ script' = <<>> /\ Stale
             /\ UNCHANGED <<disk, mem>>
          \/ /\ found = "not_dual"
             /\ Done
             /\ UNCHANGED <<disk, run, mem, batch>>
    /\ UNCHANGED <<items, queued, todo, built, saved, late, count>>

\* mutant: only relations are filled in, paragraphs are left to their queue.
MissingRelations ==
    /\ Doing("missing") /\ Done
    /\ todo' = (items \cap In(Arg) \cap Relation) \ mem[Arg]
    /\ UNCHANGED <<items, queued, batch, disk, run, mem, built, saved, late, count>>

\* What was written meanwhile: queried before the await, added after it.
Missing ==
    /\ Doing("missing") /\ Done
    /\ todo' = (items \cap In(Arg)) \ mem[Arg]
    /\ UNCHANGED <<items, queued, batch, disk, run, mem, built, saved, late, count>>

Fill ==
    /\ Doing("fill") /\ Done
    /\ mem' = [mem EXCEPT ![Arg] = @ \cup todo]
    /\ todo' = {}
    /\ UNCHANGED <<items, queued, batch, disk, run, built, saved, late, count>>

\* A failure does not stop the rebuild, it is told at the end.
FillFails ==
    /\ Doing("fill") /\ todo # {}
    /\ script' = [k \in 1..Len(script) - 1 |->
                    IF script[k + 1] = <<"finish", "filled">> THEN <<"finish", "unfilled">>
                    ELSE script[k + 1]]
    /\ run' = [run EXCEPT !.degraded = TRUE]
    /\ todo' = {}
    /\ UNCHANGED <<items, queued, batch, disk, mem, built, saved, late, count>>

ClearSingle ==
    /\ Doing("clear") /\ Done
    /\ disk' = [disk EXCEPT !.dir["single"] = Blank]
    /\ mem' = [mem EXCEPT !["single"] = {}]
    /\ UNCHANGED <<items, queued, batch, run, todo, built, saved, late, count>>

Finish ==
    /\ Doing("finish")
    /\ run' = [run EXCEPT !.degraded = Arg # "filled",
                          !.health = IF Arg = "failed" THEN @ ELSE "healthy"]
    /\ late' = IF Arg = "filled" THEN {} ELSE late
    /\ script' = Persist \o << <<"rebuilt", Arg>> >>
    /\ UNCHANGED <<items, queued, batch, disk, mem, todo, built, saved, count>>

Rebuilt ==
    /\ Doing("rebuilt") /\ Done
    /\ UNCHANGED <<items, queued, batch, disk, run, mem, todo, built, saved, late, count>>

-----------------------------------------------------------------------------
\* The copying of trusted old vectors: _copy_legacy_vectors_once in a thread,
\* under the lock of the rebuild.  A batch is one vector.

Remaining == {i \in items \cap disk.away.trusted : Rank[i] > disk.cursor}

Copying(i) ==
    << <<"copy", i>>, <<"save", "paragraph">>, <<"save", "graph">>, <<"manifest">>, <<"cursor", i>> >>

CopyStart ==
    /\ run.up /\ script = <<>> /\ run.view /\ run.mode = "dual"
    /\ \/ /\ Remaining = {}
          /\ disk' = [disk EXCEPT !.stage = "completed"]
          /\ run' = [run EXCEPT !.view = FALSE, !.health = "recovered"]
          /\ UNCHANGED script
       \/ \E i \in Remaining :
             /\ \A j \in Remaining : Rank[i] <= Rank[j]
             /\ script' = Copying(i)
             /\ UNCHANGED <<disk, run>>
    /\ UNCHANGED <<items, queued, batch, mem, todo, built, saved, late, count>>

Copy ==
    /\ Doing("copy") /\ Done
    /\ mem' = [mem EXCEPT ![PoolOf(Arg)] = @ \cup {Arg}]
    /\ UNCHANGED <<items, queued, batch, disk, run, todo, built, saved, late, count>>

Cursor ==
    /\ Doing("cursor") /\ Done
    /\ LET last == Remaining = {Arg}
       IN  /\ disk' = [disk EXCEPT !.cursor = Rank[Arg],
                                   !.stage = IF last THEN "completed" ELSE "copying"]
           /\ run' = [run EXCEPT !.view = ~last,
                                 !.health = IF last THEN "recovered" ELSE "recovering"]
    /\ UNCHANGED <<items, queued, batch, mem, todo, built, saved, late, count>>

-----------------------------------------------------------------------------
\* What else the event loop does

PutIn(i) == IF run.mode = "dual" THEN PoolOf(i) ELSE "single"

\* Ingestion: a paragraph without a vector is queued for one, a relation is not.
Write(i) ==
    /\ LoopFree
    /\ i \notin items
    /\ items' = items \cup {i}
    /\ LET encoded == run.mode # "none" /\ (i \in Relation \/ ~run.degraded)
       IN  /\ queued' = IF encoded \/ i \in Relation THEN queued ELSE queued \cup {i}
           /\ mem' = [mem EXCEPT ![PutIn(i)] = IF encoded THEN @ \cup {i} ELSE @]
           /\ run' = [run EXCEPT !.observed = @ \/ encoded]
    /\ script' = Persist \o script
    /\ UNCHANGED <<batch, disk, todo, built, saved, late, count>>

\* _run_paragraph_backfill_once, which does not take the lock of the rebuild.
BackfillStart ==
    /\ LoopFree
    /\ run.mode # "none" /\ ~run.degraded
    /\ queued # {} /\ batch.rows = {}
    /\ batch' = [rows |-> queued, stale |-> FALSE]
    /\ queued' = {}
    /\ UNCHANGED <<items, disk, run, mem, script, todo, built, saved, late, count>>

BackfillEnd ==
    /\ LoopFree
    /\ batch.rows # {}
    /\ batch' = NoBatch
    /\ run' = [run EXCEPT !.observed = TRUE]
    /\ mem' = IF batch.stale THEN mem
              ELSE [s \in Stores |-> mem[s] \cup {i \in batch.rows : PutIn(i) = s}]
    /\ script' = Persist \o script
    /\ UNCHANGED <<items, queued, disk, todo, built, saved, late, count>>

\* The process dies.  (Bounds: MaxCrashes; CrashInFreshSwitch.)
Crash ==
    /\ run.up /\ count.crashes < MaxCrashes /\ More
    /\ CrashInFreshSwitch \/ disk.manifest # "fresh" \/ disk.log # "prepared"
    /\ run' = Off /\ mem' = NoMem /\ script' = <<>>
    /\ todo' = {} /\ built' = [p \in Pools |-> {}]
    /\ batch' = NoBatch
    /\ count' = [count EXCEPT !.crashes = @ + 1]
    /\ UNCHANGED <<items, queued, disk, saved, late>>

\* A file of a pool is cut short.  (Bounds: MaxDamages, and none while a copy runs.)
Damage(p) ==
    /\ ~run.up /\ count.damages < MaxDamages /\ More
    /\ disk.stage \in {"none", "completed"} /\ disk.dir[p].is = "store"
    /\ disk' = [disk EXCEPT !.dir[p].is = "damaged"]
    /\ count' = [count EXCEPT !.damages = @ + 1]
    /\ UNCHANGED <<items, queued, batch, run, mem, script, todo, built, saved, late>>

-----------------------------------------------------------------------------
Step ==
    \/ Save \/ Quarantine \/ Note \/ Reset \/ Renew \/ Fresh \/ View
    \/ Sweep \/ Stash \/ Return \/ Settled \/ Resume \/ Load
    \/ Encode \/ EncodeFails \/ Drop \/ SaveBuild \/ Prepare \/ MoveOut \/ MoveIn
    \/ Activated \/ Manifest \/ ReloadStores \/ Missing \/ Fill \/ FillFails
    \/ ClearSingle \/ Finish \/ Rebuilt \/ Copy \/ Cursor

Next ==
    \/ Step \/ Start \/ Probe \/ Rebuild \/ CopyStart
    \/ \E i \in Item : Write(i)
    \/ BackfillStart \/ BackfillEnd
    \/ Crash \/ \E p \in Pools : Damage(p)

Spec == Init /\ [][Next]_vars

\* The model answers or fails, what runs goes on, the probe is a loop, and a
\* process that died is started again.
FairSpec ==
    Spec /\ WF_vars(Step) /\ WF_vars(Start) /\ WF_vars(Probe) /\ WF_vars(CopyStart)

-----------------------------------------------------------------------------
\* Properties

Dir == [is : {"absent", "blank", "v1", "store", "damaged"}, has : SUBSET Item, gen : Nat]

Disk ==
    [dir : [Stores -> Dir], build : [Pools -> Dir],
     log : {"none", "bare", "prepared", "activated"}, had : SUBSET Pools,
     old : [Pools -> Dir], stash : [Pools -> Dir],
     manifest : {"none", "fresh", "ready"},
     stage : {"none", "prepared", "quarantined", "metadata_reset",
              "new_generation_ready", "copying", "completed"},
     cursor : Nat,
     away : [there : BOOLEAN, trusted : SUBSET Item, all : SUBSET Item]]

Run ==
    [up : BOOLEAN, observed : BOOLEAN, degraded : BOOLEAN, mode : {"none", "single", "dual"},
     health : {"none", "pending", "unavailable", "healthy", "degraded", "recovering", "recovered"},
     view : BOOLEAN]

\* Every variable has its type.
TypeOK ==
    /\ items \subseteq Item /\ queued \subseteq items \cap Paragraph
    /\ batch \in [rows : SUBSET (items \cap Paragraph), stale : BOOLEAN]
    /\ disk \in Disk /\ run \in Run
    /\ mem \in [Stores -> SUBSET Item]
    /\ \A p \in Pools : mem[p] \subseteq items \cap In(p)
    /\ todo \subseteq items /\ built \in [Pools -> SUBSET Item]
    /\ late \subseteq saved /\ saved \subseteq items
    /\ count \in [crashes : Nat, rebuilds : Nat, damages : Nat, gen : Nat]

Idle == run.up /\ script = <<>>

\* While both pools are in use, they are of one generation: a crash between the
\* moves of a switch, or in the middle of taking them back, never leaves one old
\* and one new pool in service (dual_vector_state_service.py:181-286).
PairOfOneGeneration ==
    Idle /\ run.mode = "dual" => disk.dir["paragraph"].gen = disk.dir["graph"].gen

\* The cursor of the copying never runs ahead: what it has passed is on the disk
\* among the pools and not only in the quarantine, so that continuing behind the
\* cursor leaves nothing out (vector_recovery_service.py:355-435).
CursorIsHonest ==
    disk.stage \in {"copying", "completed"} =>
        {i \in disk.away.trusted : Rank[i] <= disk.cursor} \subseteq
            Contents([p \in Pools |-> disk.dir[p]]) \cup Contents(disk.old) \cup Contents(disk.stash)

\* A vector that was saved stays on the disk, in a pool, in a backup or in the
\* quarantine, and is not passed over there: neither a crash in a switch, nor the
\* clean-up after it, nor a recovery deletes the last copy.  Excepted are relations
\* written to the old pools while new ones are built; only the end of that rebuild
\* adds them again.  Types are as declared.
LastCopyKept ==
    /\ TypeOK
    /\ saved \ late \subseteq
          Contents(disk.dir) \cup Contents(disk.old) \cup Contents(disk.stash) \cup disk.away.all
    /\ CursorIsHonest

\* A rebuild that lifts the degradation has left nothing out: whatever was
\* written while it encoded, switched and filled is in the pools it put in
\* place, or is queued for a vector (vector_runtime_service.py:552-953).
RebuiltIsComplete ==
    Doing("rebuilt") /\ Arg = "filled" =>
        items \subseteq Contents([p \in Pools |-> disk.dir[p]]) \cup queued \cup batch.rows

\* A channel that waits for the embedding to be verified does not wait for ever
\* (embedding_state_service.py:340-436).
PendingEnds == run.health = "pending" ~> run.health # "pending"
=============================================================================
