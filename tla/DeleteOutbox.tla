----------------------------- MODULE DeleteOutbox -----------------------------
(***************************************************************************)
(* Deleting and restoring memories across three stores: the SQLite         *)
(* metadata, the vector pools and the relation graph.  A delete or restore *)
(* commits the metadata together with an outbox of clean-up jobs (table    *)
(* storage_cleanup_jobs, core/storage/metadata_cleanup.py); a round of     *)
(* process_pending_storage_cleanup_jobs (core/runtime/services/            *)
(* delete_admin_service.py) then claims jobs under a lease and applies     *)
(* them to the vector pools and the graph, which have an in-memory state   *)
(* that is lost in a crash and a saved one.                                *)
(*                                                                         *)
(* Delete, restore and rounds hold _storage_cleanup_lock, so there is at   *)
(* most one of them at a time: the variable round.  A round gives up the   *)
(* event loop only while it waits for an embedding; ingestion and the      *)
(* periodic save run then, or between rounds.  The process may die between *)
(* any two commits.                                                        *)
(*                                                                         *)
(* Times are abstracted: a job has a flag claimable, which a back-off or a *)
(* lease that lapses sets.                                                 *)
(***************************************************************************)
EXTENDS Naturals, FiniteSets, Sequences, SequencesExt

CONSTANTS
    Paragraph, Entity, Relation,   \* resource hashes, by type
    DualPools,      \* paragraphs have a vector pool of their own
    VectorModes,    \* values relation_vectors_enabled may take at a start
    SlowIngest,     \* TRUE: ingestion may have to wait for an embedding
    Limit,          \* limit of claim_storage_cleanup_jobs
    MaxOps,         \* bound on the rows of delete_operations
    MaxFaults       \* bound on errors, cancellations, lost leases and crashes

ASSUME ParametersAssumption ==
    /\ Paragraph \cap Entity = {}
    /\ (Paragraph \cup Entity) \cap Relation = {}
    /\ IsFiniteSet(Paragraph) /\ IsFiniteSet(Entity) /\ IsFiniteSet(Relation)
    /\ DualPools \in BOOLEAN
    /\ VectorModes \subseteq BOOLEAN /\ TRUE \in VectorModes
    /\ SlowIngest \in BOOLEAN
    /\ Limit \in Nat \ {0}
    /\ MaxOps \in Nat
    /\ MaxFaults \in Nat

VARIABLES
    live,           \* resources whose metadata row is active
    ready,          \* relations whose vector_state is 'ready'
    ops,            \* delete_operations, oldest first
    jobs,           \* storage_cleanup_jobs by job_id
    mem, disk,      \* vectors that are members of their pool: in memory, saved
    graph, graphDisk,  \* relations that are edges of the graph: in memory, saved
    broken,         \* pools whose clean-up checkpoint could not be rolled back
    stuck,          \* pools left with an open checkpoint by a round that died
    relationVectors,   \* relation_vectors_enabled
    ingesting,      \* resources whose vector waits for an embedding: in a request or queued
    round,          \* what the holder of _storage_cleanup_lock is doing
    faults          \* faults so far

durable == <<live, ready, ops, jobs, disk, graphDisk>>
stores == <<mem, graph, broken, stuck, relationVectors, ingesting>>
vars == <<durable, stores, round, faults>>

Resource == Paragraph \cup Entity \cup Relation
Pool == IF DualPools THEN {"paragraph", "graph"} ELSE {"single"}
PoolOf(i) == IF ~DualPools THEN "single"
             ELSE IF i \in Paragraph THEN "paragraph" ELSE "graph"

\* Pool p of the set to becomes what it is in the set from.
Copy(from, to, p) == {i \in Resource : i \in (IF PoolOf(i) = p THEN from ELSE to)}

Action == {"vector_delete", "graph_rebuild", "vector_upsert", "graph_restore"}
DeleteActions == {"vector_delete", "graph_rebuild"}
UnfinishedStatus == {"pending", "failed", "running"}

\* expected_state of a job of action a.
Expected(a) == IF a \in DeleteActions THEN "pending_cleanup" ELSE "restore_pending"

Settles == [pending_cleanup |-> "completed", restore_pending |-> "restored"]

Unfinished(js, o) == {j \in DOMAIN js : js[j].op = o /\ js[j].status \in UnfinishedStatus}

\* The operations of O whose jobs have all ended move to their final status.
Reconciled(os, js, O) ==
    [o \in DOMAIN os |->
        IF o \in O /\ os[o].status \in DOMAIN Settles /\ Unfinished(js, o) = {}
        THEN [os[o] EXCEPT !.status = Settles[@]]
        ELSE os[o]]

NewJob(o, a, S) == [op |-> o, action |-> a, ids |-> S, status |-> "pending", claimable |-> TRUE]

NoRound == [phase |-> "idle", scope |-> 0, queue |-> {}, cur |-> 0, wrote |-> "nothing",
            batch |-> [p \in Pool |-> {}], settle |-> {}]

\* A round that has the lock and will claim the jobs of operation o (0: of all).
RoundFor(o) == [NoRound EXCEPT !.phase = "claim", !.scope = o]

Idle == round.phase = "idle"

\* The event loop is free for other tasks.
LoopFree == round.phase \in {"idle", "embed"}

Fault == faults < MaxFaults /\ faults' = faults + 1

Usable == Pool \ (broken \cup stuck)

Init ==
    /\ live = Resource /\ mem = Resource /\ disk = Resource
    /\ graph = Relation /\ graphDisk = Relation
    /\ relationVectors = TRUE
    /\ ready = Relation
    /\ ops = <<>> /\ jobs = <<>>
    /\ broken = {} /\ stuck = {} /\ ingesting = {}
    /\ round = NoRound
    /\ faults = 0

-----------------------------------------------------------------------------
(***************************************************************************)
(* Delete and restore: each commits the metadata and its jobs in one       *)
(* transaction, then begins a round for its operation.                     *)
(***************************************************************************)

DeleteJobs(o, S) ==
    LET Batch(T) == IF S \cap T = {} THEN <<>> ELSE <<NewJob(o, "vector_delete", S \cap T)>>
    IN  Batch(Paragraph) \o Batch(Entity) \o Batch(Relation) \o <<NewJob(o, "graph_rebuild", {})>>

\* No upsert for a relation while relation vectors are disabled.
RestoreJobs(o, S) ==
    LET Upserts(T) == [k \in 1 .. Cardinality(S \cap T) |->
                          NewJob(o, "vector_upsert", {SetToSeq(S \cap T)[k]})]
    IN  Upserts(Entity) \o Upserts(Paragraph)
        \o Upserts(IF relationVectors THEN Relation ELSE {})
        \o <<NewJob(o, "graph_restore", {})>>

Delete(S) ==
    LET o == Len(ops) + 1
    IN  /\ Idle
        /\ o <= MaxOps
        /\ S # {} /\ S \subseteq live
        /\ live' = live \ S
        /\ ready' = ready \ S
        /\ ops' = Append(ops, [status |-> "pending_cleanup", items |-> S])
        /\ jobs' = jobs \o DeleteJobs(o, S)
        /\ round' = RoundFor(o)
        /\ UNCHANGED <<disk, graphDisk, stores, faults>>

DeleteRunning(o) ==
    \E j \in DOMAIN jobs : jobs[j].op = o /\ jobs[j].action \in DeleteActions
                           /\ jobs[j].status = "running"

\* The jobs of js in J that wait to be claimed are cancelled.
Cancelled(js, J) ==
    [j \in DOMAIN js |-> IF j \in J /\ js[j].status \in {"pending", "failed"}
                         THEN [js[j] EXCEPT !.status = "cancelled", !.claimable = FALSE]
                         ELSE js[j]]

\* Refused while a delete job of the operation is running.
Restore(o) ==
    /\ Idle
    /\ ops[o].status \in {"pending_cleanup", "completed"}
    /\ ~DeleteRunning(o)
    /\ live' = live \cup ops[o].items
    /\ ready' = ready \ ops[o].items
    /\ ops' = [ops EXCEPT ![o].status = "restore_pending"]
    /\ jobs' = Cancelled(jobs, {j \in DOMAIN jobs : jobs[j].op = o /\ jobs[j].action \in DeleteActions})
               \o RestoreJobs(o, ops[o].items)
    /\ round' = RoundFor(o)
    /\ UNCHANGED <<disk, graphDisk, stores, faults>>

\* Restoring an operation that is being or has been restored only begins a round.
RestoreAgain(o) ==
    /\ Idle
    /\ ops[o].status \in {"restore_pending", "restored"}
    /\ round' = RoundFor(o)
    /\ UNCHANGED <<durable, stores, faults>>

\* Operations whose clean-up may still name a relation of R.
Superseding(R) == {o \in DOMAIN ops : ops[o].status \in {"pending_cleanup", "completed"}
                                      /\ ops[o].items \cap R # {}}

\* Mutant: a job that names a relation of R is cancelled for all it names.
WithoutJobsOf(O, R) ==
    Cancelled(jobs, {j \in DOMAIN jobs : jobs[j].op \in O /\ jobs[j].action = "vector_delete"
                                         /\ jobs[j].ids \cap R # {}})

\* The relations of R leave the waiting vector_delete jobs of O.
WithoutRelations(O, R) ==
    LET Hit(j) == jobs[j].op \in O /\ jobs[j].action = "vector_delete"
                  /\ jobs[j].ids \cap R # {}
        left == [j \in DOMAIN jobs |->
                    IF Hit(j) /\ jobs[j].status \in {"pending", "failed"} /\ ~(jobs[j].ids \subseteq R)
                    THEN [jobs[j] EXCEPT !.ids = @ \ R]
                    ELSE jobs[j]]
    IN  Cancelled(left, {j \in DOMAIN jobs : Hit(j) /\ jobs[j].ids \subseteq R})

\* Mutant: vectors of other types that wait to be deleted are not looked for.
SupersededByItems(js, O, R) == {o \in O : ops[o].items \ R \subseteq live}

\* A delete is superseded when it has no vector left to delete and all of its
\* items are back; one restored in part stays the way to restore the rest.
Superseded(js, O, R) ==
    {o \in O : /\ \A j \in Unfinished(js, o) : js[j].action # "vector_delete"
               /\ ops[o].items \ R \subseteq live}

RestoreRelations(R) ==
    LET o == Len(ops) + 1
        O == Superseding(R)
        js == WithoutRelations(O, R)
        gone == Superseded(js, O, R)
    IN  /\ Idle
        /\ o <= MaxOps
        /\ R # {} /\ R \subseteq Relation \ live
        /\ \A old \in O : ~DeleteRunning(old)
        /\ live' = live \cup R
        /\ ready' = ready \ R
        /\ ops' = Append([old \in DOMAIN ops |->
                             IF old \in gone THEN [ops[old] EXCEPT !.status = "superseded"] ELSE ops[old]],
                         [status |-> "restore_pending", items |-> R])
        /\ jobs' = Cancelled(js, {j \in DOMAIN js : js[j].op \in gone /\ js[j].action = "graph_rebuild"})
                   \o RestoreJobs(o, R)
        /\ round' = RoundFor(o)
        /\ UNCHANGED <<disk, graphDisk, stores, faults>>

\* The background loop: a round for every operation.
StartRound ==
    /\ Idle
    /\ round' = RoundFor(0)
    /\ UNCHANGED <<durable, stores, faults>>

-----------------------------------------------------------------------------
(***************************************************************************)
(* A round.  Vector deletes gather in one batch per pool, applied in       *)
(* memory over a saved baseline; the batches are saved before any other    *)
(* kind of job and at the end of the round.                                *)
(***************************************************************************)

\* Mutant: running jobs are left to the round that claimed them.
ClaimWaiting ==
    LET due == {j \in DOMAIN jobs : jobs[j].status \in {"pending", "failed"} /\ jobs[j].claimable
                                    /\ round.scope \in {0, jobs[j].op}}
        taken == {j \in due : Cardinality({k \in due : k < j}) < Limit}
    IN  /\ round.phase = "claim"
        /\ jobs' = [j \in DOMAIN jobs |->
                       IF j \in taken
                       THEN [jobs[j] EXCEPT !.status = "running", !.claimable = FALSE]
                       ELSE jobs[j]]
        /\ round' = [round EXCEPT !.phase = "run", !.queue = taken]
        /\ UNCHANGED <<live, ready, ops, disk, graphDisk, stores, faults>>

Claim ==
    LET due == {j \in DOMAIN jobs : jobs[j].status \in UnfinishedStatus /\ jobs[j].claimable
                                    /\ round.scope \in {0, jobs[j].op}}
        taken == {j \in due : Cardinality({k \in due : k < j}) < Limit}
    IN  /\ round.phase = "claim"
        /\ jobs' = [j \in DOMAIN jobs |->
                       IF j \in taken
                       THEN [jobs[j] EXCEPT !.status = "running", !.claimable = FALSE]
                       ELSE jobs[j]]
        /\ round' = [round EXCEPT !.phase = "run", !.queue = taken]
        /\ UNCHANGED <<live, ready, ops, disk, graphDisk, stores, faults>>

\* Completed or cancelled, in the transaction that reconciles the operation.
Complete(j, st) ==
    /\ jobs' = [jobs EXCEPT ![j].status = st, ![j].claimable = FALSE]
    /\ ops' = Reconciled(ops, jobs', {jobs[j].op})

\* Failed, to be claimed again after a back-off; only a running job can fail.
Fail(J) ==
    /\ jobs' = [j \in DOMAIN jobs |-> IF j \in J /\ jobs[j].status = "running"
                                      THEN [jobs[j] EXCEPT !.status = "failed", !.claimable = FALSE]
                                      ELSE jobs[j]]
    /\ UNCHANGED ops

\* authorize_storage_cleanup_job: it raises unless the lease holds, ...
LeaseHolds(j) == jobs[j].status = "running" /\ ~jobs[j].claimable

\* ... reports whether the operation still wants the job, ...
StillWanted(j) == ops[jobs[j].op].status = Expected(jobs[j].action)

\* Mutant: a delete keeps the authority it was enqueued with.
AuthorizedAtEnqueue(j) == IF jobs[j].action = "vector_delete" THEN jobs[j].ids
                          ELSE IF jobs[j].action = "vector_upsert" THEN jobs[j].ids \cap live ELSE {}

\* ... and which of its resources the metadata lets it touch.
Authorized(j) == CASE jobs[j].action = "vector_delete" -> jobs[j].ids \ live
                   [] jobs[j].action = "vector_upsert" -> jobs[j].ids \cap live
                   [] OTHER -> {}

HasAuthority(j) == LeaseHolds(j) /\ StillWanted(j)

Least(S) == CHOOSE j \in S : \A k \in S : j <= k

PoolOfJob(j) == PoolOf(CHOOSE i \in jobs[j].ids : TRUE)

Open == {p \in Pool : round.batch[p] # {}}

\* Between two jobs; j is the next one.
Upcoming(j) ==
    /\ round.phase = "run" /\ round.settle = {} /\ round.cur = 0
    /\ round.queue # {} /\ j = Least(round.queue)

Taken(j) == [round EXCEPT !.queue = @ \ {j}]

LoseLease(j) ==
    /\ Upcoming(j)
    /\ ~LeaseHolds(j)
    /\ Fail({j})
    /\ round' = Taken(j)
    /\ UNCHANGED <<live, ready, disk, graphDisk, stores, faults>>

\* The operation has moved on, or every resource to delete lives again.
NothingToDo(j) ==
    /\ Upcoming(j)
    /\ LeaseHolds(j)
    /\ StillWanted(j) => (jobs[j].action = "vector_delete" /\ Authorized(j) = {})
    /\ Complete(j, IF StillWanted(j) THEN "completed" ELSE "cancelled")
    /\ round' = Taken(j)
    /\ UNCHANGED <<live, ready, disk, graphDisk, stores, faults>>

\* A change of pool p saves it first, unless its batch has done so: disk is then
\* what a rollback returns to.
Baseline(p) == IF p \in Open \cup broken THEN disk ELSE Copy(mem, disk, p)

DeleteInMemory(j) ==
    LET p == PoolOfJob(j)
    IN  /\ Upcoming(j)
        /\ HasAuthority(j)
        /\ jobs[j].action = "vector_delete" /\ Authorized(j) # {}
        /\ p \in Usable
        /\ disk' = Baseline(p)
        /\ mem' = mem \ Authorized(j)
        /\ round' = [Taken(j) EXCEPT !.batch[p] = @ \cup {j}]
        /\ UNCHANGED <<live, ready, ops, jobs, graph, graphDisk, broken, stuck, relationVectors, ingesting, faults>>

\* Something goes wrong before, in or after the save, or did before and left
\* pool p unusable: a stuck one is saved, then refuses a second checkpoint.
BaselineRaises(p) ==
    \/ Fault /\ disk' \in {disk, Baseline(p)}
    \/ p \notin Usable /\ disk' = Baseline(p) /\ UNCHANGED faults

\* The save or the delete raises: the whole batch of the pool is rolled back.
DeleteRaises(j) ==
    LET p == PoolOfJob(j)
    IN  /\ Upcoming(j)
        /\ HasAuthority(j)
        /\ jobs[j].action = "vector_delete" /\ Authorized(j) # {}
        /\ BaselineRaises(p)
        /\ Fail(round.batch[p] \cup {j})
        /\ mem' = IF p \in Open THEN Copy(disk, mem, p) ELSE mem
        /\ round' = [Taken(j) EXCEPT !.batch[p] = {}]
        /\ UNCHANGED <<live, ready, graph, graphDisk, broken, stuck, relationVectors, ingesting>>

\* ... and the rollback raises too: the pool is unusable until a restart.  The
\* round ends there, leaving the checkpoint of the other pool open, its deletes
\* in memory only and its jobs running.
DeleteBreaks(j) ==
    LET p == PoolOfJob(j)
    IN  /\ Upcoming(j)
        /\ HasAuthority(j)
        /\ jobs[j].action = "vector_delete" /\ Authorized(j) # {}
        /\ p \in Usable
        /\ Fault
        /\ broken' = broken \cup {p}
        /\ stuck' = stuck \cup (Open \ {p})
        /\ Fail(round.batch[p] \cup {j})
        /\ disk' \in {disk, Copy(mem, disk, p)}
        /\ round' = NoRound
        /\ UNCHANGED <<live, ready, mem, graph, graphDisk, relationVectors, ingesting>>

\* An upsert or graph job is authorised, then everything pending is flushed.
Turn(j) ==
    /\ Upcoming(j)
    /\ HasAuthority(j)
    /\ jobs[j].action # "vector_delete"
    /\ round' = [Taken(j) EXCEPT !.cur = j]
    /\ UNCHANGED <<durable, stores, faults>>

Flushing == /\ round.phase = "run" /\ round.settle = {}
            /\ round.cur # 0 \/ round.queue = {}

Flush(p) ==
    /\ Flushing /\ p \in Open
    /\ \A j \in round.batch[p] : HasAuthority(j)
    /\ disk' = Copy(mem, disk, p)
    /\ round' = [round EXCEPT !.batch[p] = {}, !.settle = round.batch[p]]
    /\ UNCHANGED <<live, ready, ops, jobs, graphDisk, stores, faults>>

\* A lease was lost, or the save raises.
FlushRollsBack(p) ==
    /\ Flushing /\ p \in Open
    /\ \/ Fault
       \/ (\E j \in round.batch[p] : ~HasAuthority(j)) /\ UNCHANGED faults
    /\ Fail(round.batch[p])
    /\ mem' = Copy(disk, mem, p)
    /\ round' = [round EXCEPT !.batch[p] = {}]
    /\ UNCHANGED <<live, ready, disk, graph, graphDisk, broken, stuck, relationVectors, ingesting>>

\* ... and the rollback raises too: the pool is unusable until a restart, the
\* other batches are rolled back, and the round ends.  Jobs it has claimed and
\* not begun stay running.
FlushBreaks(p) ==
    /\ Flushing /\ p \in Open
    /\ Fault
    /\ broken' = broken \cup {p}
    /\ Fail(UNION {round.batch[q] : q \in Pool} \cup {round.cur})
    /\ mem' = {i \in Resource : i \in (IF PoolOf(i) \in Open \ {p} THEN disk ELSE mem)}
    /\ disk' \in {disk, Copy(mem, disk, p)}
    /\ round' = NoRound
    /\ UNCHANGED <<live, ready, graph, graphDisk, stuck, relationVectors, ingesting>>

\* The jobs of a saved change are completed one transaction at a time.
Settle(j) ==
    /\ round.phase = "run" /\ round.settle # {} /\ j = Least(round.settle)
    /\ Complete(j, "completed")
    /\ round' = [round EXCEPT !.settle = @ \ {j}]
    /\ UNCHANGED <<live, ready, disk, graphDisk, stores, faults>>

-----------------------------------------------------------------------------
(***************************************************************************)
(* Upsert and graph jobs.                                                  *)
(***************************************************************************)

\* The round works on job j of action a, nothing is left to flush.
Working(j, a) ==
    /\ round.phase = "run" /\ round.settle = {} /\ Open = {}
    /\ j = round.cur /\ j # 0
    /\ jobs[j].action = a

Done == [round EXCEPT !.phase = "run", !.cur = 0, !.wrote = "nothing"]

\* Deleted again since: there is nothing to restore.
UpsertNothing(j) ==
    /\ Working(j, "vector_upsert") /\ round.wrote = "nothing"
    /\ Authorized(j) = {}
    /\ Complete(j, "cancelled")
    /\ round' = Done
    /\ UNCHANGED <<live, ready, disk, graphDisk, stores, faults>>

\* Relation vectors were disabled after the job was enqueued.
UpsertDisabled(j) ==
    /\ Working(j, "vector_upsert") /\ round.wrote = "nothing"
    /\ Authorized(j) # {} /\ jobs[j].ids \subseteq Relation /\ ~relationVectors
    /\ ready' = ready \ jobs[j].ids
    /\ Complete(j, "completed")
    /\ round' = Done
    /\ UNCHANGED <<live, disk, graphDisk, stores, faults>>

Upserting(j) ==
    /\ Working(j, "vector_upsert") /\ round.wrote = "nothing"
    /\ Authorized(j) # {} /\ (jobs[j].ids \subseteq Relation => relationVectors)

\* The vector is a member already; ready is set before the pool is saved.
UpsertPresent(j) ==
    /\ Upserting(j)
    /\ jobs[j].ids \subseteq mem /\ PoolOfJob(j) \notin broken
    /\ ready' = ready \cup (jobs[j].ids \cap Relation)
    /\ round' = [round EXCEPT !.wrote = "present"]
    /\ UNCHANGED <<live, ops, jobs, disk, graphDisk, stores, faults>>

MayRestore(j) == HasAuthority(j) /\ Authorized(j) = jobs[j].ids

\* The vector is written over a saved baseline, under authority checked again.
Write(j) ==
    LET p == PoolOfJob(j)
    IN  /\ p \in Usable
        /\ MayRestore(j)
        /\ disk' = Baseline(p)
        /\ mem' = mem \cup jobs[j].ids
        /\ ready' = ready \cup (jobs[j].ids \cap Relation)
        /\ round' = [round EXCEPT !.phase = "run", !.wrote = "added"]
        /\ UNCHANGED <<live, ops, jobs, graph, graphDisk, broken, stuck, relationVectors, ingesting, faults>>

\* Mutant: an upsert that could not be written is not tried again.
NotWrittenGivesUp(j) ==
    /\ \/ MayRestore(j) /\ BaselineRaises(PoolOfJob(j))
       \/ ~MayRestore(j) /\ UNCHANGED <<disk, faults>>
    /\ Complete(j, "cancelled")
    /\ ready' = ready \ jobs[j].ids
    /\ round' = Done
    /\ UNCHANGED <<live, graphDisk, stores>>

\* Anything before the write raises: no authority, no embedding, a broken pool.
NotWritten(j) ==
    /\ \/ MayRestore(j) /\ BaselineRaises(PoolOfJob(j))
       \/ ~MayRestore(j) /\ UNCHANGED <<disk, faults>>
    /\ Fail({j})
    /\ ready' = ready \ jobs[j].ids
    /\ round' = Done
    /\ UNCHANGED <<live, graphDisk, stores>>

\* A deleted vector that no compaction has dropped is revived at once.
UpsertRevive(j) == /\ Upserting(j)
                   /\ ~(jobs[j].ids \subseteq mem) \/ PoolOfJob(j) \in broken
                   /\ Write(j) \/ NotWritten(j)

\* Otherwise the round waits for an embedding, and the event loop runs on.
AwaitEmbedding(j) ==
    /\ Upserting(j) /\ ~(jobs[j].ids \subseteq mem) /\ PoolOfJob(j) \notin broken
    /\ round' = [round EXCEPT !.phase = "embed"]
    /\ ready' = ready \ jobs[j].ids
    /\ UNCHANGED <<live, ops, jobs, disk, graphDisk, stores, faults>>

Embedded(j) == round.phase = "embed" /\ j = round.cur /\ (Write(j) \/ NotWritten(j))

Written(j) == Working(j, "vector_upsert") /\ round.wrote # "nothing"

\* Mutant: a vector found in memory is taken to be saved.
UpsertTrusted(j) ==
    LET p == PoolOfJob(j)
    IN  /\ Written(j)
        /\ p \notin broken /\ MayRestore(j)
        /\ disk' = IF round.wrote = "added" THEN Copy(mem, disk, p) ELSE disk
        /\ round' = [Done EXCEPT !.settle = {j}]
        /\ UNCHANGED <<live, ready, ops, jobs, graphDisk, stores, faults>>

\* Mutant: saving is left to the periodic save.
UpsertUnsaved(j) ==
    /\ Written(j)
    /\ PoolOfJob(j) \notin broken /\ MayRestore(j)
    /\ round' = [Done EXCEPT !.settle = {j}]
    /\ UNCHANGED <<durable, stores, faults>>

UpsertSaved(j) ==
    LET p == PoolOfJob(j)
    IN  /\ Written(j)
        /\ p \notin broken /\ MayRestore(j)
        /\ disk' = Copy(mem, disk, p)
        /\ round' = [Done EXCEPT !.settle = {j}]
        /\ UNCHANGED <<live, ready, ops, jobs, graphDisk, stores, faults>>

\* What was added over the baseline is rolled back.
UpsertRollsBack(j) ==
    /\ Written(j)
    /\ Fault \/ ((~MayRestore(j) \/ PoolOfJob(j) \in broken) /\ UNCHANGED faults)
    /\ Fail({j})
    /\ ready' = ready \ jobs[j].ids
    /\ mem' = IF round.wrote = "added" THEN Copy(disk, mem, PoolOfJob(j)) ELSE mem
    /\ round' = Done
    /\ UNCHANGED <<live, disk, graph, graphDisk, broken, stuck, relationVectors, ingesting>>

\* The rollback raises: the round ends, and the relation stays as it was marked.
UpsertBreaks(j) ==
    LET p == PoolOfJob(j)
    IN  /\ Written(j) /\ round.wrote = "added"
        /\ Fault
        /\ broken' = broken \cup {p}
        /\ Fail({j})
        /\ disk' \in {disk, Copy(mem, disk, p)}
        /\ round' = NoRound
        /\ UNCHANGED <<live, ready, mem, graph, graphDisk, stuck, relationVectors, ingesting>>

\* Mutant: the rebuilt graph is left to the periodic save.
RebuildGraphUnsaved(j) ==
    /\ \E a \in {"graph_rebuild", "graph_restore"} : Working(j, a)
    /\ HasAuthority(j)
    /\ graph' = live \cap Relation
    /\ round' = [Done EXCEPT !.settle = {j}]
    /\ UNCHANGED <<durable, mem, broken, stuck, relationVectors, ingesting, faults>>

\* The graph is rebuilt from the metadata in memory, then saved; either may raise.
RebuildGraph(j) ==
    /\ \E a \in {"graph_rebuild", "graph_restore"} : Working(j, a)
    /\ \/ /\ HasAuthority(j)
          /\ graph' = live \cap Relation
          /\ graphDisk' = graph'
          /\ round' = [Done EXCEPT !.settle = {j}]
          /\ UNCHANGED <<ops, jobs, faults>>
       \/ /\ \/ Fault /\ graph' \in {graph, live \cap Relation}
             \/ ~HasAuthority(j) /\ graph' = live \cap Relation /\ UNCHANGED faults
          /\ Fail({j})
          /\ round' = Done
          /\ UNCHANGED graphDisk
    /\ UNCHANGED <<live, ready, mem, disk, broken, stuck, relationVectors, ingesting>>

\* Operations whose jobs have ended and that were not reconciled are.
EndRound ==
    /\ Flushing /\ round.cur = 0 /\ Open = {}
    /\ ops' = Reconciled(ops, jobs, IF round.scope = 0 THEN DOMAIN ops ELSE {round.scope})
    /\ round' = NoRound
    /\ UNCHANGED <<live, ready, jobs, disk, graphDisk, stores, faults>>

\* The task that waits for an embedding is cancelled: its jobs stay running.
CancelRound ==
    /\ round.phase = "embed"
    /\ Fault
    /\ round' = NoRound
    /\ UNCHANGED <<durable, stores>>

-----------------------------------------------------------------------------
(***************************************************************************)
(* Everything else that happens: ingestion, the periodic save, time, and   *)
(* the death of the process.                                               *)
(***************************************************************************)

\* Storing the same text or name again revives the row (revive_if_deleted),
\* then its vector: from its tombstone at once, or after an embedding.
Ingest(i) ==
    /\ LoopFree
    /\ i \in (Paragraph \cup Entity) \ live
    /\ live' = live \cup {i}
    /\ \/ i \in mem /\ UNCHANGED <<mem, ingesting>>
       \/ PoolOf(i) \in broken /\ UNCHANGED <<mem, ingesting>>
       \/ PoolOf(i) \notin broken /\ mem' = mem \cup {i} /\ UNCHANGED ingesting
       \/ SlowIngest /\ i \notin mem /\ ingesting' = ingesting \cup {i} /\ UNCHANGED mem
    /\ UNCHANGED <<ready, ops, jobs, disk, graph, graphDisk, broken, stuck, relationVectors,
                   round, faults>>

\* The embedding arrives and the vector is added, whatever has become of the
\* row.  If it does not, a paragraph is queued for the back-fill, which tries
\* again; an entity is left without a vector.
IngestEmbedded(i) ==
    /\ LoopFree
    /\ i \in ingesting
    /\ PoolOf(i) \notin broken
    /\ mem' \in {mem \cup {i}} \cup (IF i \in Entity THEN {mem} ELSE {})
    /\ ingesting' = ingesting \ {i}
    /\ UNCHANGED <<durable, graph, broken, stuck, relationVectors, round, faults>>

\* _persist: one pool, or the graph; a broken pool raises.
Save ==
    /\ LoopFree
    /\ \/ \E p \in Pool \ broken : disk' = Copy(mem, disk, p) /\ UNCHANGED graphDisk
       \/ graphDisk' = graph /\ UNCHANGED disk
    /\ UNCHANGED <<live, ready, ops, jobs, stores, round, faults>>

\* The jobs the round under way holds the lease of.
Held == {j \in DOMAIN jobs : j \in round.queue \cup {round.cur} \cup round.settle
                                    \cup UNION {round.batch[p] : p \in Pool}}

\* A back-off ends, or a lease lapses: of a round that died (which only matters
\* to the next round), or under the round that holds it.
TimePasses(j) ==
    /\ jobs[j].status \in {"failed", "running"} /\ ~jobs[j].claimable
    /\ \/ Idle /\ UNCHANGED faults
       \/ j \in Held /\ Fault
    /\ jobs' = [jobs EXCEPT ![j].claimable = TRUE]
    /\ UNCHANGED <<live, ready, ops, disk, graphDisk, stores, round>>

\* The process dies and starts again: what was not saved is gone, and so are the
\* requests; the queue of the back-fill is kept.
Crash ==
    /\ Fault
    /\ mem' = disk /\ graph' = graphDisk
    /\ broken' = {} /\ stuck' = {} /\ ingesting' \in SUBSET (ingesting \cap Paragraph)
    /\ relationVectors' \in VectorModes
    /\ round' = NoRound
    /\ UNCHANGED durable

Operation == 1 .. MaxOps
Job == DOMAIN jobs

\* What the round does next.
RoundStep ==
    \/ Claim \/ EndRound
    \/ \E j \in Job :
          \/ LoseLease(j) \/ NothingToDo(j) \/ DeleteInMemory(j)
          \/ DeleteRaises(j) \/ DeleteBreaks(j) \/ Turn(j) \/ Settle(j)
          \/ UpsertNothing(j) \/ UpsertDisabled(j) \/ UpsertPresent(j) \/ UpsertRevive(j)
          \/ AwaitEmbedding(j) \/ Embedded(j) \/ UpsertSaved(j) \/ UpsertRollsBack(j)
          \/ UpsertBreaks(j) \/ RebuildGraph(j)
    \/ \E p \in Pool : Flush(p) \/ FlushRollsBack(p) \/ FlushBreaks(p)

Next ==
    \/ \E S \in SUBSET Resource : Delete(S)
    \/ \E o \in DOMAIN ops : Restore(o) \/ RestoreAgain(o)
    \/ \E R \in SUBSET Relation : RestoreRelations(R)
    \/ StartRound \/ RoundStep \/ CancelRound
    \/ \E i \in Resource : Ingest(i) \/ IngestEmbedded(i)
    \/ \E j \in Job : TimePasses(j)
    \/ Save \/ Crash

Spec == Init /\ [][Next]_vars

\* The background loop takes its turn at the lock (asyncio.Lock is first come,
\* first served), a round goes on, embeddings return; between rounds, back-offs
\* and leases of dead rounds end.
Fairness ==
    /\ SF_vars(StartRound)
    /\ WF_vars(RoundStep)
    /\ SF_vars(Idle /\ \E j \in Job : TimePasses(j))

FairSpec == Spec /\ Fairness

-----------------------------------------------------------------------------
(***************************************************************************)
(* Properties.                                                             *)
(***************************************************************************)

\* Every variable has its type, and the round's bookkeeping names jobs that
\* exist and pools that are configured.
TypeOK ==
    /\ live \subseteq Resource /\ mem \subseteq Resource /\ disk \subseteq Resource
    /\ ready \subseteq Relation \cap live
    /\ graph \subseteq Relation /\ graphDisk \subseteq Relation
    /\ ops \in Seq([status : {"pending_cleanup", "completed", "superseded", "restore_pending",
                              "restored"},
                    items : (SUBSET Resource) \ {{}}])
    /\ jobs \in Seq([op : Nat, action : Action, ids : SUBSET Resource,
                     status : UnfinishedStatus \cup {"completed", "cancelled"},
                     claimable : BOOLEAN])
    /\ \A j \in Job : jobs[j].op \in DOMAIN ops
    /\ broken \subseteq Pool /\ stuck \subseteq Pool
    /\ relationVectors \in BOOLEAN
    /\ ingesting \subseteq Resource
    /\ round \in [phase : {"idle", "claim", "run", "embed"}, scope : {0} \cup DOMAIN ops,
                  queue : SUBSET Job, cur : {0} \cup Job, wrote : {"nothing", "present", "added"},
                  batch : [Pool -> SUBSET Job], settle : SUBSET Job]
    /\ faults \in 0 .. MaxFaults

\* Job j will still be done: nothing but its completion, or a restore of what
\* it deletes, takes it away.
Owed(j) == jobs[j].status \in UnfinishedStatus /\ StillWanted(j)

\* A vector left in a saved pool after its resource was deleted always has a
\* clean-up job that will remove it, whatever restores, crashes, failed saves
\* and revivals came in between.
DeadVectorOwed ==
    \A i \in disk \ live : \E j \in Job : Owed(j) /\ jobs[j].action = "vector_delete"
                                          /\ i \in jobs[j].ids

\* A live relation whose vector is not saved always has a job that will write it
\* (unless relation vectors may be disabled).
RelationVectorOwed ==
    VectorModes = {TRUE} =>
        \A r \in (Relation \cap live) \ disk :
            \E j \in Job : Owed(j) /\ jobs[j].action = "vector_upsert" /\ r \in jobs[j].ids

\* When the saved graph differs from the live relations, a job is due to rebuild it.
GraphOwed ==
    graphDisk # Relation \cap live =>
        \E j \in Job : Owed(j) /\ jobs[j].action \in {"graph_rebuild", "graph_restore"}

\* vector_state = 'ready' is committed before the pool is saved; a relation
\* that says so without a saved vector has a job that will write it.
ReadyIsBacked ==
    \A r \in ready \ disk :
        \E j \in Job : Owed(j) /\ jobs[j].action = "vector_upsert" /\ r \in jobs[j].ids

\* What the stores still lack is always going to be done: the three together, over
\* tables that have their types.
StoresOwed == TypeOK /\ RelationVectorOwed /\ GraphOwed /\ ReadyIsBacked

\* Deleting and restoring never overlap in one operation: an unfinished job is
\* one its operation still wants, so a final status means every job has ended.
UnfinishedIsWanted ==
    \A j \in Job : jobs[j].status \in UnfinishedStatus => StillWanted(j)

\* A job that is marked completed has done its work, durably.
CompletesDurably ==
    \A j \in Job :
        (jobs[j].status # "completed" /\ jobs'[j].status = "completed") =>
           CASE jobs[j].action = "vector_delete" -> jobs[j].ids \cap disk' \subseteq live'
             [] jobs[j].action = "vector_upsert" ->
                  /\ jobs[j].ids \subseteq live'
                  /\ jobs[j].ids \subseteq disk' \/ (jobs[j].ids \subseteq Relation /\ ~relationVectors)
             [] OTHER -> graphDisk' = Relation \cap live'

\* A job marked completed did its work, durably: no resource it had to remove
\* is left in the saved pool unless it lives again; what it had to restore is
\* live and saved.
CompletionIsDurable == [][CompletesDurably]_vars

\* A live resource that loses its saved vector is about to have it written again.
KeepsLiveVectors ==
    \A i \in disk \ disk' :
        \/ i \notin live'
        \/ i \in ingesting'
        \/ \E j \in Job : jobs[j].action = "vector_upsert" /\ i \in jobs[j].ids
                          /\ jobs[j].status \in UnfinishedStatus

\* No clean-up takes the saved vector of a live resource away, unless a job or
\* an ingestion is about to write it again.
LiveVectorKept == [][KeepsLiveVectors]_vars

Unsettled(o) == o \in DOMAIN ops /\ ops[o].status \in DOMAIN Settles

\* Every delete and every restore reaches its final status, whatever failed on
\* the way, while its vector pools can be used.
OperationsSettle ==
    \A o \in Operation : Unsettled(o) ~> (~Unsettled(o) \/ Usable # Pool)
===============================================================================
