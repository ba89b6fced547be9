# Verification of the memory service

TLA+ models of `services/a-memorix`, the long-term memory service of this
repository, the TLC runs that check them and the TLAPS proofs about them.
Paths below are relative to `services/a-memorix/A_memorix/` unless they start
with a directory of the repository's root.

## The system

The service is one Python process around one asyncio loop.  A FastAPI shell
(`services/a-memorix/a_memorix_service/service/app.py`) owns a host
(`host_service.py`), which starts a kernel (`core/runtime/sdk_memory_kernel.py`)
in the background and routes requests to it.  The kernel keeps its data in
SQLite (`core/storage/metadata_*.py`), in vector files
(`core/storage/vector_store.py`) and in a graph file; no transaction spans them,
so they are kept together by queues, leases and jobs that are retried.

| Component | State | Operations | What is hard about it |
|---|---|---|---|
| Episode rebuild queue (`core/storage/metadata_episode.py`, `core/runtime/services/ingest_service.py`, `episode_admin_service.py`) | a row per paragraph source: wanted and built revision, claim, lease, retries, debounce times | request, claim, renew, publish, fail; admin rebuild | changes while a worker waits for the language model, lapsing leases, cancellation, restart with other settings |
| Host and startup queue (`host_service.py`) | runtime state, kernel, startup task, `_lock`; the files of queued, done and failed writes | start, stop, reload, invoke, replay | requests, startup and shutdown interleave at every await; timeouts; crashes; errors on error paths |
| Kernel lifecycle (`core/runtime/services/runtime_lifecycle_service.py`), writer lock (`core/runtime/runtime_writer_lock.py`) | initialised or not, the initialisation lock, the file lock | initialize, shutdown, close | an operation initialises its kernel on demand, also after a shutdown |
| Background tasks (`core/runtime/services/background_task_service.py`) | one task per loop | start, stop | cancellation in the middle of an await of a cancelled task |
| Delete, restore and cleanup jobs (`core/storage/metadata_cleanup.py`, `core/runtime/services/delete_admin_service.py`) | operations, their jobs, leases | delete, restore, process, purge, reconcile | crash between the stores, revival of a resource under a job, several operations on one resource |
| Vector store (`core/storage/vector_store.py`) | buffer, append log, journals, metadata, tombstones | add, delete, restore, save, load, compact, clear, checkpoint | crash or exception between the files of one save |
| Transactions (`core/storage/transaction.py`) | the connection's transaction, savepoints | begin, release, roll back | nesting across awaits on one connection |
| Request deduplication (`request_dedup_service.py`) | a task per key | execute | cancelled waiters, completion between lookup and await |
| Feedback correction (`core/storage/metadata_feedback.py`, `feedback_correction_service.py`) | tasks, marks, action log | enqueue, decide, apply, compensate, roll back | steps committed one by one |
| Profile refresh queue (`core/storage/metadata_profile.py`, `core/utils/person_profile_service.py`) | a row per person, numbered snapshots | request, claim, refresh, done, failed; refreshes without a row | a request that arrives while one runs, evidence that changes and changes back |
| Vector pools as directories (`vector_runtime_service.py`, `dual_vector_state_service.py`, `vector_recovery_service.py`), paragraph backfill, embedding state (`embedding_state_service.py`) | pools, build directories, backup with its log, manifest, quarantine, recovery record, queue rows, degraded and observed flags | load, rebuild, switch, clean up, quarantine, copy, backfill, probe | crashes between the moves of directories, writes while a rebuild waits for the model |
| Import manager (`core/utils/web_import_manager.py`) | tasks with files and chunks, queue, worker, uploads, manifest | create, run, cancel, retry, invalidate, shut down | jobs in parallel, cancellation at every await, what a retry selects |
| Relation vectors and graph projection | vector state of a relation | upsert, ensure, reconcile | a vector written for a relation that was deleted meanwhile |
| Facts about persons (`core/storage/metadata_fact.py`, `fact_admin_service.py`) | claims with status, their evidence, transitions | assert, retract, restore, classify, detach, restore a snapshot | several values of one slot, paragraphs that go and come back, claims written after an await |
| Corrections (`correction_admin_service.py`) | plans with what their execution did | execute, roll back | a dozen commits around awaits, recorded at the end; what others do between execution and rollback |
| Memory lifecycle (`core/utils/memory_lifecycle_policy.py`, `core/runtime/services/memory_maintenance_service.py`, `v5_admin_service.py`) | the lifecycle columns of a relation, its row among the deleted ones | evidence, access, reinforce, weaken, freeze, forget, protect, correct, delete and restore a row, maintenance cycle | events between the reading of expired rows and their archiving after an await, a wall clock set back, columns that several writers keep in step |
| Tuning manager, clients, pet engine, desktop application | see `components` in PROJECT.json | | |

Retrieval and ranking (floating point, no state), prompting and parsing of
language models, schema migrations, installation scripts and prompt texts are
outside what these models are about.

What makes the components correct:

* **Episode queue.**  No change of a source is lost; a late worker never
  replaces newer episodes by older ones; readers only ever see snapshots of a
  source as it was when they were published; the status shown is true; a row is
  never stuck behind a dead worker; failures are retried a bounded number of
  times, and the budget is renewed by a change of the source or the settings.
* **Host.**  A write that was answered "queued" is neither lost nor written
  twice; the state that is shown corresponds to a kernel; starts, stops and
  requests end; two kernels never hold the data.
* **Deletes.**  A finished delete leaves no vector of what it deleted, a
  finished restore has them all; nothing alive loses its vector; an operation
  is finished exactly when its jobs are.
* **Vector store.**  After any crash the last committed state is read back, and
  what a search may return is what was added and not deleted.
* **Vector pools.**  The two pools in use were built together; no crash deletes
  the last copy of a vector; a rebuild misses nothing that was written
  meanwhile; what the recovery has passed is on the disk.
* **Feedback.**  What is undone leaves no trace (which the code achieves only if the
  tasks on a relation are undone last first); what is applied is forgotten and
  what derives from it is rebuilt; every task ends.
* **Profiles.**  A row says done only when the latest snapshot was made from what
  is known now; no request is lost.
* **Facts.**  A slot gets a second active value only when one comes back with its
  paragraph; a fact does not outlive the paragraphs it was taken from; whoever changes
  what a profile shows asks for its refresh, except the corrections that have nobody to refresh.
* **Corrections.**  A rollback that is reported undoes all of the correction.
* **Lifecycle.**  An active relation that may fade is always on the calendar of the
  maintenance cycle; only weakening, forgetting and undoing bring its end closer; what is
  archived had faded, and nothing was done for it while the cycle waited; what has faded
  and is left alone is frozen and archived.
* **Imports.**  Counters, file states and task state agree; an ended task stays as
  it is; the manifest calls imported only what is stored.

## Modules

| Module | Contents |
|---|---|
| `EpisodeView` | What readers of episodes are promised: a published snapshot is the source at that instant under the settings in force. |
| `EpisodeRebuild` | The rebuild queue and its workers; implements `EpisodeView`. |
| `EpisodeRebuildProofs` | Inductive invariant, safety, refinement: proofs. |
| `HostRuntime` | The host, its startup queue and the life cycle of kernels. |
| `DeleteOutbox` | Delete, restore and the outbox of cleanup jobs over metadata, vector pools and graph. |
| `VectorSet` | What the users of a vector pool are promised: a set with a saved copy and a checkpoint. |
| `VectorStore` | The files and memory of one pool; implements `VectorSet`. |
| `VectorStoreProofs` | Every crash leaves files that load, members agree with the stored ids, refinement: proofs. |
| `VectorPools` | The directories of both pools: rebuild, switch, recovery, backfill, start-up. |
| `VectorPoolsProofs` | The pools in use are of one generation, the last copy is kept, a rebuild that succeeds is complete: proofs. |
| `FeedbackTasks` | Feedback corrections: application, compensation, rollback. |
| `FeedbackProofs` | What is applied is forgotten, derived data is asked for, what is undone in order leaves no trace: proofs. |
| `ProfileRefresh` | The queue of profiles to refresh, its loops and its readers. |
| `QueueProofs` | Proofs about `HostRuntime` (queued writes are kept, initialising is driven, ready is served) and about `ProfileRefresh` (a row that is done is fresh). |
| `ImportTasks` | The import manager: tasks, files, chunks, retries, manifest. |
| `ImportTasksProofs` | What is shown of a task is true, completed is stored, ended is final: proofs. |
| `FactClaims` | The ledger of facts and those who write it: ingestion, administration, deletion, restoration, purge. |
| `Corrections` | Plans of correction and their rollback on top of `FactClaims`. |
| `CorrectionsProofs` | The slots stay guarded, facts stay supported, changes are asked for, a rollback undoes: proofs. |
| `RelationLifecycle` | How relations fade, are frozen, archived and revived. |
| `MetadataProofs` | Proofs about `DeleteOutbox` (the tables of operations and jobs stay consistent, what the stores lack is owed by a job, a completed job is saved, no live vector is lost) and about `RelationLifecycle` (the calendar is complete, nothing ages, only the faded is archived). |
| `MC...` | Values of constants and symmetry for TLC, one per module that has runs; `MCRelations` puts `DeleteOutbox` and `RelationLifecycle` side by side, `MCQueues` `HostRuntime` and `ProfileRefresh`. |

Definitions that are introduced by the comment "Mutant:" are not part of a
specification: they are wrong versions of the definition that follows, used to
see that the properties notice.

### EpisodeRebuild

`queue[s]` is the row of source `s`: `desired`, `built`, `builtGen`, `status`,
`retry` are the columns of those meanings; `claim` bundles `lease_token`,
`claimed_revision` and `claimed_generation_hash`; `tried` bundles
`retry_revision` and `retry_generation_hash`.  Every time column is modelled by
the time left until it (`lease`, `due`, `backoff`) or since it (`age`), which
`Tick` moves; the code only ever compares these columns with now.  Paragraphs
are abstracted to a version `content[s]`, which every transaction that touches
a source increments and requests a rebuild for (`ChangeSource`): the producers
in `metadata_store.py` do both in one transaction.  `View(s, g)` is what the
planner would cut from a source under settings `g`: a snapshot, or nothing when
the policy does not materialise the source.

One action per handler: `StartBatch` (background loop or admin), `StartRebuild`
(admin, with its requests), `ClaimNext`, `ReadSource`, `Heartbeat`, `Publish`
(its three outcomes), `Fail`, `EndBatch`; and the environment: `Cancel`,
`Restart` (with other settings), `Tick`.  A claim takes any claimable row, where
the code takes the oldest: the properties hold for every order.

### HostRuntime

`inst[k]` is where kernel object `k` is between closed and initialised; `task`
is the program counter of `_startup_kernel_task`, `admin` of start, stop and
reload, `req[r]` of the request for write `r` with the kernel it was routed to.
`wal`, `done` and `stored` are the two files and the kernel's store.  `count`
is the number of pending writes shown by `/health`.  An action is what runs
between two awaits; `asyncio.Lock` has no action of its own but shows in guards
(`Locked`, `GateFree`).  The locks are only held across an await where the
guards say so.  `initialize()` of the kernel is one await.  The order in which
records are replayed does not matter to any property, so it is left open.
`Faults` says which calls may raise.
A stop cancels the startup task and waits for it with `_lock` held; a
cancellation that meets `_stop_background_tasks` of the kernel is lost there
(`Swallowed`), which `EverythingEnds` excepts.

### DeleteOutbox

`live`, `ready`, `ops` and `jobs` are SQLite: the active rows, the relations
whose `vector_state` is `ready`, `delete_operations` (with their items) and
`storage_cleanup_jobs`.  `mem` and `disk` are the vectors that are members of
their pool, in memory and as last saved; `graph` and `graphDisk` likewise.  A
pool is `broken` when a rollback of its checkpoint failed (every later access
raises until the process restarts) and `stuck` when a round ended with its
checkpoint open.  A job's `claimable` stands for `next_attempt_at` and
`lease_until`: it is set when the back-off or the lease has run out.

`_storage_cleanup_lock` admits one delete, restore or round at a time, so their
state is one variable, `round`: its phase, the jobs claimed and not begun, the
job in hand, the open batch of each pool, and the jobs whose change is saved and
which remain to be marked completed.  `Delete`, `Restore` and `RestoreRelations`
are one transaction each and leave the round to begin.  A job's life is
`Claim`, then for a vector delete `DeleteInMemory` into a batch that `Flush`
saves; for an upsert `Turn`, a flush of the batches, the write (`UpsertRevive`
from a tombstone, or `AwaitEmbedding` and `Embedded`) and `UpsertSaved`; for a
graph job `RebuildGraph`; then `Settle`.  Every one of these has the outcomes in
which it raises.  The event loop is free only between rounds and during an
embedding: only then do `Ingest`, `IngestEmbedded` and `Save` happen.  `Crash`
may happen between any two steps; in particular between a save and the
completion of its jobs.  A save is atomic here; `VectorStore`
shows how the code makes it so.

An unfinished job whose operation no longer wants it does not occur
(`UnfinishedIsWanted`, proved), so the branch of the code that cancels such a job is
part of `NothingToDo` without being reached.

`SlowIngest` says whether ingestion may have to wait for an embedding.  With it,
a vector can be added after its paragraph was deleted and cleaned up, and no job
is left to remove it: `DeadVectorOwed` is checked without, the other properties
with it.

### VectorSet and VectorStore

`disk` holds the files of a pool as rows of ids: `vectors.bin`, `vectors_ids.bin`,
`vectors_metadata.json`, the journals of an append and of a switch of files, the
backups of the switch.  `mem` holds the fields of `VectorStore`: known and deleted
ids, the buffer, the FAISS index and the fallback index as sets of ids, the marks of
a clean-up checkpoint.  `todo` is what the call in progress has yet to do, a
sequence of steps of which each changes one file; a crash may hit between any
two, and tear an append.  A call: `Add` (with the flush it may force),
`Delete`, `Restore`, `Save` (with training and compaction), `Clear`, `Begin`,
`Commit`, `RollBack`, `Load`.  An exception ends a call as a crash does but leaves the
process running, with what its handlers put back.

`VectorSet` is what the other components rely on.  The mapping takes `now` to
the members a search finds and `saved` to what `load()` would read back from
the files as they are; every step of a flush but the one that replaces the
metadata must then stutter.

`FaultsIn` names the places where the code does not survive a fault: "switch" and
"clear" for exceptions (a process that goes on while the files of a compaction are
half replaced, or after half of a clear), "rollback" for both (see the known
limits below).  The run has them empty.

### VectorPools

What the code does in one go is a `script`: a sequence of steps that each change
one file or directory.  `Crash` may hit between any two.  Only while the script is
empty, or waits for the embedding model or a thread (`Awaiting`), does the event
loop do something else: `Write`, `Enqueue`, the backfill loop, the copying
loop, the probe.  `disk` is what survives: the pools, the build directories, the backup
with its log, the manifest `dual_ready.json`, the record of the recovery
with its cursor, and the quarantine.  `run` is the kernel: whether it has observed the
model, whether it is degraded, the health of the channel.  The scripts are `Start`
(load, damaged pools, an unfinished switch, an unfinished recovery), `Rebuild`
(query, encode, switch, fill), the recovery, and `Shutdown`.  `Beginnings` are the states
of the disk at the first start: an empty directory, a single pool of the old format, a
pair, a pair with the old pool left over, a recovery that is copying.

### FeedbackTasks

`task[t]` is the row of a task with its saved plan for a rollback; `active`, `marks`,
`stored`, `fix` and `asked` are the tables it changes: which relations are active, whose
mark their paragraphs carry, the correction's text and relation, and with
which status of the relation a rebuild of derived data was last requested.
`proc[a]` is the program counter of the loop or of an administrator.  Every step is
one commit; actors interleave only where one awaits (`Awaits`).  The verdict of the
classifier and the outcome of each write are free choices; `Faults` names which
may fail.  A rollback may start whenever its own task is applied and no rollback of it
runs: that is all the code looks at.  `tangled` is a history variable that no action reads: the
relations that two tasks were at work on at once (`Contested`), or that a rollback gave back
while a later task on them was in effect (`OutOfTurn`).  What a task then puts back is not
what was there before all tasks: `RollBackRestores` says what the code's docstring promises and fails,
`UndoneLeavesNoTrace` and `AppliedIsForgotten` except these relations.

### ProfileRefresh

`row[p]` is the row of the queue; `requested_at` is counted.  A refresh reads its
evidence before and after its await (`Made`), and short-cuts when the evidence is
the one of the latest snapshot it read (`Collect`).  A snapshot that a reader, or a loop
that was overtaken, puts in front of the one a row was served with is not seen
by the queue: `unnoticed` remembers those persons, and `DoneIsFresh` excepts them.

### ImportTasks

`task[t]` holds the record of a task with its files and chunks and the
counters; `queue`, `run`, `job` are the queue, the worker and the jobs of the files of the
active task; `para` and `whole` what of a text is stored, with or without what
follows the paragraph; `manifest` what is called imported.  A step ends where a job
awaits.  To cancel is to throw into the run and all its jobs at once.  A text is a
sequence of parts and `Own` the index the splitter gives each: a retry names parts by
index, and a text of two scenes has two parts of index 0.

The counters of a file are numbers of chunks, except for a migration: while its child process
runs, `Poll` replaces them by the numbers of rows in the child's state file (`Refreshed`;
there may be none), and `MigrationCompletes` keeps those, within the total, and leaves an error if
the report counts bad rows.  So a file may be completed with failed rows, and
its task completed with errors (`EndedAgrees`).  A child that fails counts its chunk on top of the rows
(`ChildFails`).  A conversion has one chunk that counts as one (`ChildCompletes`).

### FactClaims and Corrections

`claim[c]` is the status of a claim and whether the last entry of its audit trail is
`detach_evidence`, the one thing the code reads back of it; `support` is
`fact_evidence`, `para` the rows of paragraphs with the plan that superseded them in their
metadata, `ref` the registered external ids, `ops` the delete operations with their
snapshots.  `Slot` is `conflict_group`.  `FactClaims` has one action per
administrator's call (each is one transaction), per delete, restore and purge, and for an
ingestion its beginning (`Ingest`), the end of its awaits (`Embedded`, `EmbeddingFails`)
and the commits that follow (`WriteClaims`, `WriteRef`, `Ask`).  It has no
next-state relation of its own: `Corrections` puts the plans beside it.

What runs between two awaits is a `script` of commits, at most one at a time, and
`Crash` may hit between any two.  `Execute` stores the text through the same
ingestion and then runs `Marks`: the metadata of the target, its facts, its relation, and,
if the plan has an operation for it, the refresh of the profile, at which it waits; without one
it records what it did at once (`Conclude`).  `run[pl]` is what an execution
has done; `plan[pl]` is the row, which learns of it when it is over (`Finish`).
`RollBack` deletes the text under `_storage_cleanup_lock` and waits for the
clean-up (`TextGone`), then `Undo` runs in one go.

`kind[pl]` says whether a plan is made for the person and whether it has a
`refresh_person_profile` operation.  One made for a person stores its text as a person fact, with claims
(`Stores`), has the operation by default, and asks for the person's refresh at the end of a
rollback.  One made for a memory stores a text without claims, has the operation only if the
planner put it there, and its rollback asks for nothing.  `refresh` says whether a change of what
the profile shows has been followed by a request: "owed" as long as it has not, "unasked"
if it was made by a plan or a rollback that asks for none (`Corrects`).

### RelationLifecycle

`row[r]` is the row of relation `r` in its columns that the policy reads or writes: `level`
and `anchor` (`lifecycle_strength`, `lifecycle_strength_at`), `next` (`next_lifecycle_at`), `since` and
`reason` (`inactive_since`, `inactive_reason`), `pinned`, `permanent`, `until` (`protected_until`),
`access` and `seen` (`last_reinforced`, `last_accessed`), `rev` (`lifecycle_revision`).  A strength that halves every so many
hours is a straight line in its logarithm, so that a level is the time until the strength
meets the freeze threshold; by how much an event strengthens or weakens is a free
choice within what is left and `Full`.  `bin[r]` is the row of `deleted_relations`,
`status[r]` what a feedback correction took down for its rollback, `sweep[r]` what a
maintenance cycle found expired before it waits for the storage lock.

One action per event (`Observe`, `CreateEdge`, `Access`, `Reinforce`, `RememberForever`,
`Weaken`, `Freeze`, `Forget`, `Protect`), per statement of the corrections (`Supersede`,
`Reactivate`, `ForgetByFeedback`, `RevertStatus`) and of the deletions (`DeleteRow`,
`RestoreRow`, `PurgeRow`), and the cycle: `Sweep` evaluates what is due, batch by batch,
and reads what has expired; `Archive` looks at every row again and moves those that are as found;
`CutShort` is a failure, a cancellation or a crash in between.  An event is committed before
its change of activity is projected onto the graph, which may raise: `Stops`.  `SetBack` sets the
wall clock back.

## Runs

| Run | Checks | Bounds |
|---|---|---|
| `episodes` | lost updates, truthful status, leases respected, refinement (which implies that episodes never go back), liveness | 1 source, 2 workers, 3 tokens, 2 settings of which one does not materialise, 2 revisions, 2 retries, lease of 2 ticks; late heartbeats allowed |
| `queues` | queued writes are not forgotten, whoever initialises is driven, ready means served, everything begun ends; a profile that is done is fresh, no request is lost | either 2 writes, 2 kernels, all faults; or 1 person, 2 loops, 1 reader, 2 values of evidence, 2 changes, 3 requests, 1 retry, 1 crash |
| `host_zombie` | a finding: TLC finds the violation | 1 write, no faults |
| `outbox_stores` | what the stores lack is owed by a job, no final status hides a job, no live vector lost, completed means saved | 1 paragraph and 1 relation in two pools, slow embeddings, 2 operations, 1 fault |
| `relations` | a deleted vector is owed a clean-up, operations settle; the calendar is complete, nothing ages, what is archived had faded, neglect ends | either 2 relations in one pool, 2 operations, 2 jobs a round, 1 fault, relation vectors on or off; or the row of 1 relation, 3 events, clock to 3, levels to 2 |
| `vector_crash` | the pool always opens, with what was saved last; indexes agree with members; refinement | 3 ids, buffer of 2, 5 calls, 2 faults |
| `feedback` | undone leaves no trace, derived data is asked for, applied is forgotten, liveness | 2 tasks that share a relation, 1 administrator, failing writes and clean-ups, 1 crash; rollbacks in any order and at any time |
| `feedback_order` | a finding: TLC finds the violation | 2 tasks that share a relation, no failures, no crash |
| `imports` | counters and states agree, completed was stored, ended is final, liveness | 2 tasks (an import and its retry), a content of each of the five kinds, queue of 2, 1 deletion, shutdown, 0 to 2 good and bad rows in a migration |
| `imports_scenes` | a finding: TLC finds the violation | 1 text of two scenes and its retry |
| `facts` | facts are supported, slots guarded, changes asked for, a rollback undoes | 2 values of one slot, 1 ingested paragraph, 1 plan with its text, for the person or for a memory with or without a refresh, 2 delete operations, any 2 events (administration, ingestion, purge, crash), or 3 that are no administration (weights 3 and 2, bound 6) |
| `pools` | pools in use are a pair, the last copy is kept, a rebuild is complete, liveness | 1 paragraph, 1 relation, 2 crashes, 2 rebuilds, 1 damage, at most 4 of these events together, any beginning |

Why the bounds are enough: a lost update takes one claim, one change behind it
and one publish; the interesting late worker needs a second worker and a lapsed
lease, and either of the two revisions may change behind one of them.  Two
sources would meet only in a batch (its limit and its scope): the row of one
never enters a guard or an assignment of the other's, and the proofs are for any
set of sources.  In the host, two kernels are the shut down and the new one, and two
writes put one in the replay and one in the queue.  In the
outbox, two pools are what one batch's failure needs to harm another, two
relations what a restore in part needs, and two operations (rows of
`delete_operations`; restoring one of them again is not counted) what superseding
needs.  A fault is an error at any step, a lost lease, a cancelled round or a
crash; one fault reaches every error path once, two let a failure be followed by
a crash.  In the vector store, a buffer of two and three ids give a flush inside
a call, a rest in the buffer and a row that a compaction drops; two faults put one
into the recovery from another.  Two corrections are what a shared relation needs, and what an order of rollbacks does.
One import and its retry are all that share uploads and the manifest; the two parts
of a text let one fail, and with two rows the counters of a migration differ from those of its one chunk, below
and above.  Persons do not interact (and `DoneIsFresh` is proved for any
number); two loops are what overtaking needs, and two values with two changes let evidence change
back.  Two values of
one slot are what a conflict needs, and one paragraph for each lets both be lost and
come back; two operations let a deletion happen between the execution and the
rollback of the plan, which takes the other.  Events are bounded there by weight, so that one
administrator's change meets any other event, two meet each other, and an ingestion, its purge and a crash
happen in one execution.  Rows of relations do not influence each
other, and what `RelationLifecycle` says of safety is proved for any number; three events are a fade,
what revives it and what undoes that, or a change behind a cycle that was itself behind
one, and three hours let a relation fade, be frozen and expire.  `MCRelations` and `MCQueues` are sums of two
specifications that share no variable: `subject` and `queue` choose at the start.  In the pools, two rebuilds let a switch meet what an earlier one left, and two
crashes interrupt a recovery from the first; all five events of the bounds in one
execution are left out.

**Fairness.**  `EpisodeRebuild` assumes that time passes, that the loop polls,
that a planning call ends (the language model is called with a timeout) and
that the heartbeat task goes on.  A lease that lapses under a heartbeat that is due counts
as an interruption, like a cancellation or a restart (`Interruption`; the interval
of the heartbeat is a third of the lease).  Nothing makes producers, administrators or
interruptions happen, and the property is conditional on the interruptions coming to
an end.  `HostRuntime` assumes that
every await ends except those for locks; a request that needs `_lock` gets it
even if stops and reloads come again and again, since `asyncio.Lock` is first
in, first out: strong fairness.  `DeleteOutbox` assumes that the cleanup loop,
which polls every ten seconds, gets the lock (again first in, first out), that a
round goes on (the embedding call has a timeout) and that back-offs and leases
end; the number of faults is bounded, and `OperationsSettle` excepts the time
in which a pool cannot be used.  `FeedbackTasks` assumes that the lease of a
running task lapses, and strong fairness of the loop's claim and steps and of an
administrator's, because the event loop serves them all in turn.  `ImportTasks`
assumes that the worker and its jobs go on; nothing makes requests happen.  Chunk calls have
timeouts.  Child processes have none: `_wait_for_import_process` (`web_import_manager.py:2545`) polls
until the child ends or the task is cancelled, and a child that never ends is excluded by the
assumption.  `ProfileRefresh` assumes that a request
follows its commit unless the process dies and that the loops poll and end their
refreshes.  `RelationLifecycle` assumes of the maintenance loop that a cycle that fails is tried
again and one day does not, and that one that waits for the storage lock gets it.
`VectorPools` assumes that scripts go on, that the process is started
again after a crash, that the probe loop, which runs every 180 seconds by default,
probes, and that the copying loop begins.

## What the runs show

The episode queue satisfies every property, the vector store too outside the
places of `FaultsIn`.  The host loses no queued write from its files.  The outbox, the
feedback tasks, the profiles, the facts, the imports and the pools satisfy their properties
under the conditions named above.  Three claims of the repository do not hold:

1. `host_zombie`: a request that waits in `initialize()` of the published kernel
   while a stop shuts that kernel down initialises it again and takes the writer
   lock.  No reference to that kernel remains in the host; the next start fails
   at the lock until the process ends.
2. `imports_scenes`: a retry names failed chunks by their position in the file, but
   the worker selects by the splitter's index, which starts again in every
   scene.  The retry runs another chunk, ends without error, and the manifest calls
   the text imported.
3. `feedback_order`: two tasks on one relation are applied one after the other, and the
   older is rolled back first.  It activates the relation, which the younger wanted forgotten, and leaves
   the younger's mark.  The rollback of the younger then puts the older's mark back.  Both are
   rolled back and the paragraphs stay marked as stale, with the mark of a task that nobody can roll back
   again; the docstring of `_rollback_feedback_task` (line 296) says that it removes the marks.

Behaviour of the code that the models have and no property asks for, or that a
property excepts by name.  None of it has a run of its own:

* `host_service.py:618`: the runtime is ready before the queue file is read, and it is
  read once.  A write that was sent to the queue before and appended after is
  answered "queued" and written at the next start of the process.
* `host_service.py:531`: the append is counted after its await; if the replay has
  included it by then, the number of pending writes shown stays too high.
* `host_service.py:381`: if the replay raises, the startup task shuts the kernel
  down and then wants `_lock`; a stop that cancels it in that shutdown may see the
  cancellation swallowed and waits for the task with `_lock` held (`Swallowed`).
* `host_service.py:959`: a shutdown that raises leaves the host calling itself ready
  with a closed kernel; `ReadyIsServed` is about hosts where that has not happened.
* `ingest_service.py:218`: slow ingestion leaves a vector without a resource
  (`SlowIngest`), and a vector that it revives is lost in a crash before the next save
  with nothing queued to write it.  A rollback that fails in the outbox leaves
  the other pool with an open checkpoint.
* `vector_store.py:2281`: the rollback of a checkpoint cuts the pair of files before it
  rewrites the metadata; after a crash in between, `load()` refuses the pool at
  every start.  With "rollback" in `FaultsIn`, `AlwaysLoads` fails.
* `feedback_correction_service.py:286`: also a rollback that overlaps another task on the same
  relation restores a status that the other has changed since (`tangled`); an
  ingest that raises, instead of reporting a failure, leaves the task in error
  with its relations forgotten.
* `person_profile_service.py:1204`: see `unnoticed` above.
* `dual_vector_state_service.py:249`: a crash in a switch that follows a recovery is
  taken for a finished switch at the next start (`CrashInFreshSwitch`; with it,
  `PairOfOneGeneration` fails).  After a crash that leaves one pool moved out and the
  log at "prepared", the start raises until the quarantine has taken the rest.
* `metadata_fact.py:1282`: a paragraph that is restored brings its claim back as it
  was, also as a second active value of its slot (`SlotGuarded` excepts claims that were
  detached), although the docstring at line 143 says a second value is conflicted.
* `ingest_service.py:428`: claims are written for a paragraph that was deleted during the
  await (`late`), and nothing takes them away until it is restored and deleted again; the
  purge may, and then asks for no refresh of the profile.
* `metadata_store.py:3829`: the comment says that a restored row supersedes every older
  snapshot of its revision; `delete_admin_service.py:1573` restores the relation of a delete
  operation with the revision it had (`RestoreRow`).
* `memory_lifecycle_policy.py`: a relation that was forgotten by hand and is accessed later,
  too weakly to revive, is "decay" from then on and may be archived; a reinforcement
  overwrites a longer protection; a rollback of a correction overwrites the reason.
* `correction_admin_service.py:1108`: a plan that is executed again after a failure or a
  crash records its own mark as what was there before, no facts, and no stored text; its
  rollback is reported as done and undoes nothing of it (`repeated`).  A crash or a
  failure during a rollback leaves it "rollback_failed" or with the text gone and the target
  superseded.
* `correction_admin_service.py:1051`: an execution refreshes the persons of its
  `refresh_person_profile` operations and nobody else.  A plan made for a memory gets one only from its
  planner (679 adds it for a plan with a `person_id`), and a rollback asks only for the person of the plan
  (440).  If the paragraph was a person's fact, the facts are taken away (1112), or put back, and the
  profile goes on showing what it did ("unasked", which `ChangeIsAsked` excepts).  The same is true of
  every other person whom the paragraph supports, where a delete refreshes all of them
  (`delete_admin_service.py:887-910`).
* `web_import_manager.py:2509`: a migration with bad rows ends completed, with an error and
  failed chunks greater than zero, in a task that is completed with errors although no file of it failed and a
  retry finds nothing to do.
* `vector_recovery_service.py:406`: copying old vectors does not resume after a
  restart until the probe has seen the model, and then not on the old view; a
  backfill that dies leaves its rows running, which no later one fetches; the reset of
  a recovery drops queued rows; a fill that fails is reported as success.

## Proofs

`EpisodeRebuildProofs` proves, for all values of the constants that satisfy the
two named assumptions of `EpisodeRebuild` (numbers are naturals, `None` and
`Empty` are not values of anything else), the safety properties of
`episodes` and the refinement.  `CleanMeansFresh` is not inductive: that a
publish leaves a fresh row needs that the plan of a worker whose claim is still
on the row, with the claimed revision still wanted, is the current view of the
source (`PlansCurrent`); that needs that claims are not newer than what is wanted
(`RevisionsOrdered`) and tokens are fresh; `EpisodesNeverGoBack` needs that no
snapshot is newer than its source (`EpisodesBounded`).  `IInv` is their
conjunction with `TypeOK` and `StatusTruthful`; the proof has one lemma per
action.  The refinement maps `content`, `episodes` and
`generation` to themselves: `Publish` is a `Refresh` because of `PlansCurrent`,
and everything but `ChangeSource` and `Restart` stutters.

`MetadataProofs` proves about `DeleteOutbox`, for any finite sets of resources, either layout of the
pools and any bounds, that an unfinished job is one its operation wants
(`UnfinishedIsWanted`).  The inductive invariant `Inv` adds only that the two
tables have their types and that every job belongs to an operation; it says
nothing of a round, because the code never trusts one for this: `Fail` touches
running jobs only, as its WHERE clause says, and a claim takes unfinished jobs
only.  Four kinds of change keep `Inv`: jobs end or stay as they are
(`UpdateKeeps`); an operation without unfinished jobs changes its status
(`StatusKeeps`), which is what reconciling does; an operation is added
(`OperationKeeps`); jobs are added that their operation wants (`JobsKeep`).  A
restore is a cancellation, a change of status and an addition: no delete job is
left unfinished after the cancellation because the code refuses to restore while
one is running.  A restore of relations argues the same way about each operation
it supersedes, which has no unfinished vector job by `Superseded` and whose graph
job it cancels.

The same module proves, on top of `Inv`, the four properties of the outbox that relate
its jobs to the stores.  The inductive invariant `Owing` cannot speak of the store in use
alone: a crash replaces memory by what was saved last, so that each clause says that what memory
*or* the saved copy has too much, or the graph has otherwise than the table, is due to a job
(`VectorsDue`, `GraphIsDue`).  Due is more than unfinished: a round holds jobs whose change is made
and not saved, so that `Batched` says which jobs the open batch of a pool consists of and that memory
differs from the saved copy in what they are about only, `Settling` that a job whose change is
saved has achieved it and that nothing else undoes this before it is marked completed, and
`Phases` what the job in hand may be at each place of a round.  `WorkIsOwed` is that invariant; it yields
`StoresAreOwed`.  `WorkIsDone` (an action property) follows because only `Settle` completes a
vector job and only of those `Settling`.  `DeadVectors` has the hypothesis that ingestion never waits
(`SlowIngest = FALSE`): with it, it is false, see above.  `VectorsKept` has the hypothesis
`VectorsReturn`: that resources come back with a vector, which relations and paragraphs do,
while an entity whose embedding fails stays without; then a live resource without its vector is
owed an upsert (`RevivedDue`) and no job deletes what is live (`Sound`).

Its third part proves three properties of `RelationLifecycle` for any set of relations and any constants.
`OnCalendar` says of every row what `ActiveIsScheduled` says of those in the table, that is, also of the
deleted rows and of the statuses a rollback may put back, since these return unchanged.
`ArchivedWereFaded` needs of the rows that a cycle has found, that they had faded at a clock that was not
set back since (`SweptAreFaded`), and that a row that is as found has the columns
of then: the revision alone would not show it, since a restored row has an old one.  `NothingAges` is
one lemma per event about the moment of fading (`Crossing`).

`VectorStoreProofs` proves `AlwaysLoads`, `MembersAgree` and the refinement of `VectorStore` for
any ids, limits and bounds.  The state does not record which call is in progress: `todo` holds the steps
that are left, and the same steps occur in several calls and mean different things there.  So the
inductive invariant says that a call and a place in its script exist whose remaining steps are `todo`
(`Here`), and that the state is what this place requires: `Region` names the situation before each step
of each call and `Is` says what holds in it.  In every situation the files can be restored
(`Restorable`): what `load` does to an append or a switch that the metadata did not commit yields two
equal files without repetition that hold the members the metadata records.  Only a rollback of a
checkpoint does without for a while (`Rolling`), and for it the first rows of both files are those of the checkpoint
(`MarkKept`).  There is one lemma per step, which leads from one situation of its call to the next.
`Living`, the ids that survive compaction, is a recursive function; what it returns is proved by
well-founded induction.  In the refinement every step that does not change what a restart reads back
(`Saved`) nor what the open pool answers stutters.  The theorems have the hypothesis
`FaultsIn = {}`, which the run has as well: `FaultsIn` names the places at which the code does not
survive a crash or an exception, see above.

`VectorPoolsProofs` proves the three safety properties of `VectorPools` for any finite sets of paragraphs
and relations, any beginnings and bounds.  What the directories must hold depends on how far the work on them has come,
and nothing but the script says so: a call puts its steps there, a save goes in front of them (`Persist`), a
crash drops them and start-up puts others in their place.  So the inductive invariant says, as in `VectorStore`, that
a call, an argument, a step and a number of saves exist whose rest is the script (`Here`; `Goes` is the table of
all steps), and that the state is what this place requires (`At`): the stores in use (`Serving`), the log of a
switch (`LogAt`), the stage of a recovery (`StageAt`), what a rebuild has encoded, built and filled in
(`RebuildAt`), and that the cursor is not ahead of the copy (`CopyAt`).  What makes a crash harmless holds in every
place.  `Logged`: while a switch is open, what lies where it found the pools or where it put them covers what is saved
(`Held`, `Cover`), as far as the single store and the quarantine do not, and two pools that were moved out are of one
generation; while none is open, the same is true of the pools.  `Staged`: from the quarantine to the new generation no directory
has a vector, and the kernel shows a recovery only while it copies.  `Filed`: no directory has a vector of what is not an item of its pool.
`PairOfOneGeneration` follows because a free event loop has neither an open log nor a recovery between its
two pools; `LastCopyKept` from `Cover`; `RebuiltIsComplete` from `RebuiltAt`, which needs
that what could not be encoded changes the last word of the script (`Unfilled`).  The hypothesis is `CrashInFreshSwitch = FALSE`,
as in the run: a crash in a switch that follows a recovery breaks the properties, see above.  The model names the initial
disk (`DiskOf`) and the types of the disk and of the kernel (`Disk`, `Run`) for the proof.

`QueueProofs` proves `DoneIsFresh` of `ProfileRefresh` for any persons, loops, readers,
evidence and bounds.  A loop ends a row as done only if no request came
since its claim (`InForce`).  Whoever has read evidence since the last request of a
person, while no change waits for its request, has read what is known now
(`ReadsAreCurrent`), since a change makes the person "changing" and the request
that ends this overtakes everybody at work; this needs that nobody holds a request
that the row has not seen (`NotAhead`).

`CorrectionsProofs` proves `SlotGuarded` for any claims, slots, paragraphs, plans and
bounds.  It takes two facts about the state, that every claim has an entry and that
scripts consist of commits about paragraphs and plans (`IInv`), and one lemma per
operator on the ledger about the pairs of claims it can make active together: what
asserts or restores one claim looks at its rivals (`Beside`), what takes claims away
makes none active, and what puts a snapshot back does so for detached claims only.  The
three calls of an update compose, because each keeps pairs that are not both active
from becoming so.

The same module proves `FactsAreSupported` from the inductive invariant `Shaped`.
The types are not enough: what a deletion, a correction or a rollback puts back comes
from a snapshot taken long before, so that the invariant says what every stored snapshot
may contain (`OpsShaped` for delete operations, `RunsShaped` and `PlansShaped` for
corrections): evidence of its own paragraph only, and a status for each of its claims.
Facts are put back for a live paragraph only: a rollback looks at its target before it
restores anything, and between that look and the facts there is no await, so that
nothing deletes it (`UndoLive`).

Its third theorem is `ChangeIsAsked`: whoever changes the facts of a person asks for the refresh.
While the script runs this is a promise of the script: in every script that
may come up, each commit that owes a request has an ask behind it (`AskFollows`), and
cutting a script short, at its awaits, leaves no commit without.  Which commits owe one depends on the
plan: those of a plan with a refresh operation, and those of the rollback of a plan made for a
person; plans of the other kinds owe nothing (`Owes`), and their scripts end in "record" or
"rolled" without an ask.  Such plans and crashes are what the property excepts.

The fourth is `RollBackUndoes`: a rollback that is reported as done has taken the plan's text
and its mark away, and the facts of its target are supported again.  The invariant (`Undoable`) follows a
plan from its execution to the end of its rollback: nobody mentions its mark before it marks, so that
what it saved as the previous mark is not its own (`Unmarked`, `OwnMark`); only what nothing
supports is detached (`Attached`), so that facts put back are not; a text once deleted stays so while
the rollback waits for its clean-up (`TextStaysGone`); and the commits of a rollback come in their order, so
that each that is no longer ahead has had its effect (`RollsLast`, `Undone`).  `NamesAssumption` says
that no plan has the name which the model gives to "no change_id".

`ImportTasksProofs` proves `TasksAgree`, `CompletedWasStored` and `EndedIsFinal` for any number of
tasks, any contents, any way of splitting them and any queue limit.  The invariant joins four levels that the code
changes in different places.  A file agrees with its chunks (`FileOK`): the counters are the numbers of
chunks in each end state (for a migration, whose counters are those of rows, the failed are no fewer than its
failed chunks), which each lemma on a chunk shows by the cardinality of the sets of indices it moves one
between, and the cancellation by that of the open ones.  A file agrees with its job (`JobOK`), so that
a chunk is open when its job closes it and none is when the file is closed.  The task agrees with the run (`RunOK`): only
the task the worker holds is prepared, runs or is being cancelled, so that no job outlives the run that could change
an ended task.  What the chunks say is stored or was deleted since (`Stored`, `Grown`).  Two parts look
ahead: an ended task that is cancelled again is left as it is because its files are all final
(`EndOK`), and the uploads of a task are kept if a file of it failed, without which there is nothing
to retry (`TempOK`, `RetryNeedsFailed`).  Beside what `ImportTasks` assumes of its constants there is no hypothesis;
that a migration, conversion or back-fill is alone in its task (`BatchAssumption`) is what the requests that
create them do.

`QueueProofs` proves the three safety properties of `HostRuntime` for any finite set
of writes and any kernels.  `FilesAgree` says that a record is marked done only when it
is stored and that whoever was told "queued" is in the file.  `TaskOwns` says, for each
place of the startup task, what its kernel is and that no request knows it before it is
published.  `AdminOwns` says that only a stop or reload cancels the task and closes the
published kernel, and `RevivingAlone` that one request at a time initialises a kernel
again.  A kernel published, closed and revived again and again stays within these, so
that the proof of `ReadyIsServed` is one step: whoever breaks `Served` is a shutdown
that raises.

`FeedbackProofs` proves the three safety properties of `FeedbackTasks` for any tasks,
relations, administrators and targets.  A task saves, for a rollback, the mark that each of its
relations had and which of them were active, and puts both back; this restores what was before only
if the tasks on a relation are undone newest first.  Nothing stored says which task is newer: after
a few rollbacks marks are those of tasks that were marked over long ago.  So the inductive
invariant (`Ordering`) asserts that an order exists: a set of pairs of tasks that agrees with the
marks, the saved marks and every rollback under way; applying a task puts it on top, nothing
else changes it.  Beside it, `HeldDown` says that somebody who will put a forgotten relation back
holds it, `MarksStand` that a mark is that of a task in effect or on its way, `TracesKept` where
texts and corrected relations come from, and `AskedFor` who has still to ask for a rebuild.
They speak of the relations on which no task was claimed twice or ended halfway
(`Smooth`, `Undisturbed`), as the properties do.  The lemmas come in layers: what any step of one task
keeps, what any step of the loop or of an administrator keeps, then one per action.
All of `Ordering`, `HeldDown` and `MarksStand` is said of relations that are not tangled; a rollback out of
order or beside another task makes its relations tangled, so that no assumption on the order of
rollbacks is needed, and the texts, the corrected relations and the requests for rebuilds are right
in any order.  The four theorems have the one hypothesis under which the run checks the properties:
`"slow" \notin Faults`, that a rollback ends within its lease, which the code does not
enforce; without it a second rollback of the same task runs beside the first.  `NamesAssumption`
keeps the two reserved names of the model apart from tasks and administrators.

Only model-checked: liveness (out of the prover's reach).  Every other property of a passing run
is a theorem.

## Not modelled

* What is inside a plan (segmentation, reuse of groups by signature) and a
  paragraph's liveness, which depends on the status of the relation that marked
  it stale: a change of that status requests no rebuild of episodes, which
  `FeedbackTasks` shows to be requested for its own changes only.
* Configuration editing in the host and non-ingest requests, which are refused
  where an ingest is queued.  The first load of the pending count runs in a thread
  before `_lock` is taken; it is modelled as part of taking it, which only matters
  to the count.
* In the outbox: how a selector becomes a plan, the purge of deleted rows, fact
  snapshots, and readers (searches in other threads, which would wait for the lock
  of a pool whose checkpoint was left open).
* In the pools: a write to a pool adds and saves in one step (`VectorStore` has the
  detail), a copy batch has one vector, moves of directories and backfills do not
  raise, a second interrupted switch finds its stash free, quarantines are kept, and
  dimensions are right; the automatic migration from the single pool is switched off
  in the code.
* In the profiles: overrides, aliases, the expiry of snapshots and the debounce of
  requests, which only delay.
* In the facts: confidence, authority and validity of claims, refuting evidence (which
  nothing writes), the back-fill for paragraphs of older versions, texts that are equal to
  a paragraph that is there.  In the corrections: how a request becomes a plan, several
  texts or targets in a plan, a relation as the target, marks of relations that other
  paragraphs share (as in `FeedbackTasks`), and two executions of one plan that overlap
  because the first takes more than five minutes; the source type a planner may choose against the
  scope, a plan for a person whose planner names only other persons to refresh, and other persons
  whom the paragraph supports.  The cascade of a dead target needs no restoration there: its relation
  was deleted with it (`delete_admin_service.py:1085`).  The run has one plan; two that correct
  the same paragraph and are rolled back in the order of their execution restore each other's
  marks.
* In the imports: parsing, extraction and prompts; who may see which file; that `_ensure_worker`
  (`web_import_manager.py:1361`) starts a worker again that has ended by itself, which none does in the
  model.
* Nested transactions: every model takes a transaction as one step, which is what
  they promise.  Request deduplication is a map of running tasks.
* In the lifecycle: the jobs that project activity onto the graph, the collection of orphans,
  the expiry of paragraphs, and the amounts by which events strengthen or weaken.
* Retrieval, ranking and tuning scores are floating point over
  data; clients, persona texts, patches, installation and migrations hold no
  state of the service; the pet engine and the desktop application do not
  interact with it.

## Plan

1. The tuning manager's tasks, the memory client's retries, the deduplication of
   requests, nested transactions.
2. Two plans on one paragraph, and a specification of what an overlapping rollback
   promises, which the code leaves open.
