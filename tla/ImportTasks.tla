------------------------------ MODULE ImportTasks ------------------------------
(***************************************************************************)
(* The web import manager (core/utils/web_import_manager.py): a bounded    *)
(* queue of import tasks, one worker that runs them one at a time, a job   *)
(* per file and a job per chunk of a file, cancellation by the user and by *)
(* shutdown, the retry of what failed, and the manifest of imported files. *)
(*                                                                         *)
(* Everything runs on one event loop and every record is changed under one *)
(* asyncio lock, so a step ends where its job awaits: the LLM, the         *)
(* embedding, a child process, the jobs it started.  To cancel a run is to *)
(* throw CancelledError into it and all its jobs at once: none of them     *)
(* takes another step, and the worker writes the final state.  (The polls  *)
(* of _is_cancel_requested never see a request that has not also thrown.)  *)
(*                                                                         *)
(* The text of a file is a sequence of parts; a retry names them by index. *)
(***************************************************************************)
EXTENDS Naturals, FiniteSets, Sequences, SequencesExt

CONSTANTS
    Task,        \* task ids: 1 .. n, created in this order
    Doc,         \* contents that can be imported
    Mode,        \* of each content: "text", "json", "migration", "conversion" or "backfill"
    Own,         \* the index the splitter gives each part of a content, counted from 0
    Batch,       \* the sets of contents the request that creates a task may import
    Known,       \* contents imported before the process started
    QueueLimit,  \* web.import.max_queue_size
    Deletable,   \* contents whose source is deleted, at most once each
    Rows,        \* numbers of rows a migration may report
    RetryOpen,   \* whether a task may be retried before it has ended
    MayShutDown  \* whether the runtime may shut down

ASSUME TaskAssumption == IsFiniteSet(Task) /\ Task = 1 .. Cardinality(Task)
ASSUME ModeAssumption == Mode \in [Doc -> {"text", "json", "migration", "conversion", "backfill"}]
ASSUME OwnAssumption == \A d \in Doc : Own[d] \in Seq(Nat) /\ Own[d] # <<>>
ASSUME BatchAssumption ==
    \A t \in Task : \A ds \in Batch[t] :
       ds # {} /\ ds \subseteq Doc /\ \A d \in ds : Mode[d] \in {"text", "json"} \/ ds = {d}
ASSUME BoundAssumption ==
    QueueLimit \in Nat \ {0} /\ Deletable \subseteq Doc /\ Known \subseteq Doc /\ Rows \subseteq Nat
ASSUME FlagsAssumption == RetryOpen \in BOOLEAN /\ MayShutDown \in BOOLEAN

None == 0
Read(d) == Mode[d] \in {"text", "json"}
Parts(d) == 1 .. Len(Own[d])
Part == UNION {Parts(d) : d \in Doc}

Pending == {"queued", "preparing", "running", "cancel_requested"}
Final == {"cancelled", "completed", "completed_with_errors", "failed"}
Closed == {"completed", "failed", "cancelled"}     \* final for a file and for a chunk

VARIABLES
    task,      \* _tasks: task records with their files and chunks
    queue,     \* _queue
    run,       \* _active_task_id and how far _run_task and the worker have come
    job,       \* the job of each file of the active task
    closing,   \* shutdown() has been called
    temp,      \* tasks whose directory of uploads exists
    para,      \* parts whose paragraph is stored
    whole,     \* parts stored with their vectors, entities and relations
    gone,      \* parts a deletion removed after they were stored
    manifest,  \* contents the manifest calls imported
    deleted    \* deletions that have not cleaned the manifest yet, and all there were

vars == <<task, queue, run, job, closing, temp, para, whole, gone, manifest, deleted>>
stores == <<para, whole, gone, manifest, deleted>>

NoFile == [status |-> "none", retry |-> "none", pick |-> {}, chunks |-> <<>>,
           done |-> 0, failed |-> 0, cancelled |-> 0, error |-> FALSE]
NewFile(mode, pick) == [NoFile EXCEPT !.status = "queued", !.retry = mode, !.pick = pick]
NewChunk(p) == [part |-> p, status |-> "queued", wrote |-> "none", failed_at |-> "none"]
NoTask == [status |-> "none", files |-> [d \in Doc |-> NoFile]]

Init ==
    /\ task = [t \in Task |-> NoTask]
    /\ queue = <<>>
    /\ run = [task |-> None, phase |-> "idle"]
    /\ job = [d \in Doc |-> "none"]
    /\ closing = FALSE
    /\ temp = {}
    /\ para = [d \in Doc |-> IF d \in Known THEN Parts(d) ELSE {}]
    /\ whole = para
    /\ gone = [d \in Doc |-> {}]
    /\ manifest = Known
    /\ deleted = [docs |-> {}, ever |-> {}]

-----------------------------------------------------------------------------
\* What the operations read and write of a task.

Files(t) == {d \in Doc : task[t].files[d].status # "none"}
PendingCount == Cardinality({t \in Task : task[t].status \in Pending})
Next1(t) == task[t].status = "none" /\ \A u \in Task : u < t => task[u].status # "none"

\* What cancelling writes on a file that is not final: its open chunks are counted.
CancelFile(f) ==
    LET Open == {i \in DOMAIN f.chunks : f.chunks[i].status \notin Closed}
    IN  [f EXCEPT !.status = "cancelled", !.error = TRUE, !.cancelled = @ + Cardinality(Open),
                  !.chunks = [i \in DOMAIN f.chunks |->
                                IF i \in Open THEN [f.chunks[i] EXCEPT !.status = "cancelled"] ELSE f.chunks[i]]]

\* _mark_task_cancelled_locked.
MarkCancelled(rec) ==
    [status |-> "cancelled",
     files |-> [d \in Doc |-> IF rec.files[d].status \in Closed \cup {"none"} THEN rec.files[d]
                              ELSE CancelFile(rec.files[d])]]

\* The parts a file's job runs: all of them, or those whose own index was asked for.
Selected(d, f) == {p \in Parts(d) : f.retry = "chunk" => Own[d][p] \in f.pick}

\* They run in the order of the text.
InOrder(parts) == \A i, j \in DOMAIN parts : i < j => parts[i] < parts[j]

FailedChunks(f) == {i \in DOMAIN f.chunks : f.chunks[i].status = "failed"}

\* The indexes a retry asks for are positions in the list that ran, counted from 0.
ChunkRetry(f) == FailedChunks(f) # {} /\ \A i \in FailedChunks(f) : f.chunks[i].failed_at = "extracting"
FileRetry(f) == IF FailedChunks(f) = {} THEN f.status = "failed" ELSE ~ChunkRetry(f)

\* _build_retry_plan and _clone_failed_file_for_retry.
Retried(d, f) ==
    IF f.status \in {"none", "cancelled"} \/ ~(ChunkRetry(f) \/ FileRetry(f)) THEN NoFile
    ELSE IF ChunkRetry(f) /\ Mode[d] = "text" THEN NewFile("chunk", {i - 1 : i \in FailedChunks(f)})
    ELSE NewFile("file", {})
RetryPlan(t) == [d \in Doc |-> Retried(d, task[t].files[d])]
CanRetry(t) == \E d \in Doc : RetryPlan(t)[d] # NoFile

-----------------------------------------------------------------------------
\* Requests.

Enqueue(t, files) ==
    /\ Next1(t) /\ ~closing
    /\ PendingCount < QueueLimit
    /\ task' = [task EXCEPT ![t] = [status |-> "queued", files |-> files]]
    /\ queue' = Append(queue, t)
    /\ temp' = temp \cup {t}
    /\ UNCHANGED <<run, job, closing, stores>>

\* create_upload_task, create_paste_task, create_raw_scan_task and the like.
Create(t) ==
    \E ds \in Batch[t] :
       Enqueue(t, [d \in Doc |-> IF d \in ds THEN NewFile("none", {}) ELSE NoFile])

\* retry_failed; an upload is copied from the directory of the task that failed.
RetryFailed(t, u) ==
    /\ CanRetry(u) /\ u \in temp
    /\ RetryOpen \/ task[u].status \in Final
    /\ Enqueue(t, RetryPlan(u))

\* A task waits once: taking its first place away takes it out of the queue.
CancelTask(t) ==
    \/ /\ task[t].status = "queued"
       /\ task' = [task EXCEPT ![t] = MarkCancelled(@)]
       /\ queue' = RemoveFirst(queue, t)
       /\ UNCHANGED <<run, job, closing, temp, stores>>
    \/ /\ task[t].status \in {"preparing", "running"}
       /\ task' = [task EXCEPT ![t].status = "cancel_requested"]
       /\ run' = [run EXCEPT !.phase = "cancelling"]
       /\ UNCHANGED <<queue, job, closing, temp, stores>>

\* shutdown(): every pending task is marked and the worker is cancelled with its run.
Shutdown ==
    /\ MayShutDown /\ ~closing
    /\ closing' = TRUE
    /\ task' = [t \in Task |-> IF task[t].status \in Pending THEN MarkCancelled(task[t]) ELSE task[t]]
    /\ queue' = <<>>
    /\ run' = IF run.task = None THEN run ELSE [run EXCEPT !.phase = "cancelling"]
    /\ UNCHANGED <<job, temp, stores>>

\* shutdown() waits for the worker, then removes every directory of uploads.
SweepTemp ==
    /\ closing /\ run.task = None /\ temp # {}
    /\ temp' = {}
    /\ UNCHANGED <<task, queue, run, job, closing, stores>>

-----------------------------------------------------------------------------
\* The worker and the run of a task.

\* _worker_loop takes the next task and starts its run.
Take ==
    /\ run.task = None /\ queue # <<>>
    /\ run' = [task |-> Head(queue), phase |-> "taken"]
    /\ queue' = Tail(queue)
    /\ UNCHANGED <<task, job, closing, temp, stores>>

\* The first critical section of _run_task.
Prepare ==
    /\ run.phase = "taken" /\ task[run.task].status = "queued"
    /\ task' = [task EXCEPT ![run.task].status = "preparing"]
    /\ run' = [run EXCEPT !.phase = "preparing"]
    /\ UNCHANGED <<queue, job, closing, temp, stores>>

\* The second; then a job is started for every file.
Start ==
    /\ run.phase = "preparing"
    /\ task' = [task EXCEPT ![run.task].status = "running"]
    /\ run' = [run EXCEPT !.phase = "files"]
    /\ job' = [d \in Doc |-> IF d \in Files(run.task) THEN "open" ELSE "none"]
    /\ UNCHANGED <<queue, closing, temp, stores>>

\* _should_cleanup_task_temp: the uploads of a file that failed are kept for a retry.
KeepTemp(t) == {u \in {t} : \E d \in Doc : task[u].files[d].status = "failed"}

\* Mutant: the worker does not forget the task it ran.
ReleaseKeeps ==
    /\ run' = [run EXCEPT !.phase = "left"]
    /\ job' = [d \in Doc |-> "none"]

\* The worker leaves the task: the finally branch of _worker_loop.
Release ==
    /\ run' = [task |-> None, phase |-> "idle"]
    /\ job' = [d \in Doc |-> "none"]

\* _run_task finds a task cancelled between the queue and its first step.
RunCancelled ==
    /\ run.phase = "taken" /\ task[run.task].status = "cancelled"
    /\ Release
    /\ temp' = (temp \ {run.task}) \cup KeepTemp(run.task)
    /\ UNCHANGED <<task, queue, closing, stores>>

Some(t, status) == \E d \in Doc : task[t].files[d].status = status
Erred(t) == \E d \in Doc : \/ task[t].files[d].status = "failed"
                           \/ task[t].files[d].failed > 0
                           \/ task[t].files[d].error

\* Mutant: the run ends while a job is still busy.
JobsDoneEarly == \E d \in Files(run.task) : job[d] = "done"
JobsDone == \A d \in Files(run.task) : job[d] = "done"

\* The status a task ends with: what its files ended with.
Outcome(t) ==
    IF Some(t, "cancelled") THEN "cancelled"
    ELSE IF Erred(t) THEN "completed_with_errors" ELSE "completed"

\* The last critical section of _run_task; the change is announced if chunks were written.
EndRun ==
    /\ run.phase = "files" /\ JobsDone
    /\ task' = [task EXCEPT ![run.task].status = Outcome(run.task)]
    /\ run' = [run EXCEPT !.phase = IF \E d \in Doc : task[run.task].files[d].done > 0 THEN "notify" ELSE "leave"]
    /\ UNCHANGED <<queue, job, closing, temp, stores>>

Leave ==
    /\ run.phase \in {"notify", "leave"}
    /\ Release
    /\ temp' = (temp \ {run.task}) \cup KeepTemp(run.task)
    /\ UNCHANGED <<task, queue, closing, stores>>

\* An exception leaves a migration, conversion or backfill: its file keeps its state.
RunRaises ==
    /\ run.phase = "files"
    /\ \E d \in Files(run.task) : ~Read(d) /\ job[d] \in {"open", "preflight", "child"}
    /\ task' = [task EXCEPT ![run.task].status = "failed"]
    /\ run' = [run EXCEPT !.phase = "leave"]
    /\ UNCHANGED <<queue, job, closing, temp, stores>>

\* A child process of a cancelled run is terminated, then killed; the run waits for it.
Terminate(d) ==
    /\ run.phase = "cancelling" /\ job[d] \in {"preflight", "child"}
    /\ job' = [job EXCEPT ![d] = "done"]
    /\ UNCHANGED <<task, queue, run, closing, temp, stores>>

\* Mutant: a task that has ended is marked as well.
FinalizeAny(t) == MarkCancelled(task[t])

\* _finalize_cancelled_task leaves a task alone that ended before.
Finalize(t) ==
    IF task[t].status \in {"completed", "completed_with_errors", "failed"} THEN task[t]
    ELSE MarkCancelled(task[t])

\* The worker catches the CancelledError of its run.
FinishCancelled ==
    /\ run.phase = "cancelling" /\ \A d \in Doc : job[d] \notin {"preflight", "child"}
    /\ task' = [task EXCEPT ![run.task] = Finalize(run.task)]
    /\ Release
    /\ temp' = IF \E d \in Doc : Finalize(run.task).files[d].status = "failed" THEN temp ELSE temp \ {run.task}
    /\ UNCHANGED <<queue, closing, stores>>

-----------------------------------------------------------------------------
\* The job of a file: _process_file, _process_text_file, _process_json_file.

File(d) == task[run.task].files[d]
Busy(d, phase) == run.phase = "files" /\ job[d] = phase
SetFile(d, f) == task' = [task EXCEPT ![run.task].files[d] = f]
EndJob(d) == job' = [job EXCEPT ![d] = "done"]

\* _set_file_failed.
FailFile(d) ==
    /\ SetFile(d, [File(d) EXCEPT !.status = "failed", !.error = TRUE])
    /\ EndJob(d)
    /\ UNCHANGED <<queue, run, closing, temp, stores>>

Listed(d) == d \in manifest /\ para[d] # {}

\* _is_manifest_hit: the content is known and some of it is still there.
SkipKnown(d) ==
    /\ Busy(d, "open") /\ Read(d) /\ Listed(d)
    /\ SetFile(d, [File(d) EXCEPT !.status = "completed"])
    /\ EndJob(d)
    /\ UNCHANGED <<queue, run, closing, temp, stores>>

\* The file is read and not known; an entry without live paragraphs is dropped.
ReadFile(d) ==
    /\ Busy(d, "open") /\ Read(d) /\ ~Listed(d)
    /\ SetFile(d, [File(d) EXCEPT !.status = "splitting"])
    /\ job' = [job EXCEPT ![d] = "split"]
    /\ manifest' = manifest \ {d}
    /\ UNCHANGED <<queue, run, closing, temp, para, whole, gone, deleted>>

Register(d, parts) ==
    /\ SetFile(d, [File(d) EXCEPT !.status = "extracting",
                                  !.chunks = [i \in DOMAIN parts |-> NewChunk(parts[i])]])
    /\ job' = [job EXCEPT ![d] = "chunks"]
    /\ UNCHANGED <<queue, run, closing, temp, stores>>

\* _process_text_file: the chunks that were asked for, and a job for each.
RegisterChunks(d) ==
    /\ Busy(d, "split") /\ Mode[d] = "text" /\ Selected(d, File(d)) # {}
    /\ \E parts \in SetToSeqs(Selected(d, File(d))) : InOrder(parts) /\ Register(d, parts)

\* _process_json_file: all units, a retry of chunks does not exist.
RegisterUnits(d) ==
    /\ Busy(d, "split") /\ Mode[d] = "json"
    /\ Register(d, [p \in Parts(d) |-> p])

\* The self-check or the parser fails, or no chunk has an index that was asked for.
SplitFails(d) == Busy(d, "split") /\ FailFile(d)

\* _select_model fails: the registered chunks stay queued.
SelectModelFails(d) ==
    /\ Busy(d, "chunks") /\ Mode[d] = "text"
    /\ \A i \in DOMAIN File(d).chunks : File(d).chunks[i].status = "queued"
    /\ FailFile(d)

\* Mutant: the file is closed once one of its chunks has ended.
ChunksDoneOne(d) == \E i \in DOMAIN File(d).chunks : File(d).chunks[i].status \in Closed
ChunksDone(d) == \A i \in DOMAIN File(d).chunks : File(d).chunks[i].status \in Closed

\* _record_manifest_import, for a file that completed.
Record(f, d) == IF f.failed = 0 THEN manifest \cup {d} ELSE manifest

\* All chunk jobs have ended and the stores are saved.
CloseFile(d) ==
    /\ Busy(d, "chunks") /\ ChunksDone(d)
    /\ SetFile(d, [File(d) EXCEPT !.status = IF File(d).failed > 0 THEN "failed" ELSE "completed",
                                  !.error = @ \/ File(d).failed > 0])
    /\ manifest' = Record(File(d), d)
    /\ EndJob(d)
    /\ UNCHANGED <<queue, run, closing, temp, para, whole, gone, deleted>>

\* Saving the stores raises.
SaveFails(d) == Busy(d, "chunks") /\ ChunksDone(d) /\ FailFile(d)

-----------------------------------------------------------------------------
\* The job of a chunk: _process_text_chunk, _process_json_unit.

Chunk(d, i) == File(d).chunks[i]
AtChunk(d, i, status) == Busy(d, "chunks") /\ i \in DOMAIN File(d).chunks /\ Chunk(d, i).status = status

\* _set_chunk_state: the file takes the chunk's status.
SetChunk(d, i, status) ==
    /\ SetFile(d, [File(d) EXCEPT !.status = status, !.chunks[i].status = status])
    /\ UNCHANGED <<queue, run, job, closing, temp, stores>>

\* _process_text_chunk asks the model.
ExtractChunk(d, i) == Mode[d] = "text" /\ AtChunk(d, i, "queued") /\ SetChunk(d, i, "extracting")
WriteChunk(d, i) == AtChunk(d, i, "extracting") /\ SetChunk(d, i, "writing")

\* _process_json_unit has nothing to ask.
WriteUnit(d, i) == Mode[d] = "json" /\ AtChunk(d, i, "queued") /\ SetChunk(d, i, "writing")

AtWrite(d, i, wrote) == AtChunk(d, i, "writing") /\ Chunk(d, i).wrote = wrote

\* _persist_processed_chunk: the paragraph is committed, then its vector is awaited.
StoreParagraph(d, i) ==
    /\ AtWrite(d, i, "none")
    /\ SetFile(d, [File(d) EXCEPT !.chunks[i].wrote = "paragraph"])
    /\ para' = [para EXCEPT ![d] = @ \cup {Chunk(d, i).part}]
    /\ UNCHANGED <<queue, run, job, closing, temp, whole, gone, manifest, deleted>>

\* _add_entities_with_vectors: the entities are committed, then their vectors awaited.
StoreEntities(d, i) ==
    /\ AtWrite(d, i, "paragraph")
    /\ SetFile(d, [File(d) EXCEPT !.chunks[i].wrote = "entities"])
    /\ UNCHANGED <<queue, run, job, closing, temp, stores>>

\* _set_chunk_completed.
Completed(f, i) ==
    [f EXCEPT !.chunks[i] = [@ EXCEPT !.status = "completed", !.wrote = "none"], !.done = @ + 1]

\* _add_relations_with_vectors; then the chunk is completed.
StoreRelations(d, i) ==
    /\ AtWrite(d, i, "entities")
    /\ SetFile(d, Completed(File(d), i))
    /\ whole' = [whole EXCEPT ![d] = @ \cup ({Chunk(d, i).part} \cap para[d])]
    /\ gone' = [gone EXCEPT ![d] = @ \ whole'[d]]
    /\ UNCHANGED <<queue, run, job, closing, temp, para, manifest, deleted>>

\* Mutant: a failed chunk is not counted.
FailedUncounted(f, i) ==
    [f EXCEPT !.chunks[i].status = "failed", !.chunks[i].failed_at = f.chunks[i].status, !.error = TRUE]

\* _set_chunk_failed keeps the stage a chunk failed at.
Failed(f, i) ==
    [f EXCEPT !.chunks[i] = [@ EXCEPT !.status = "failed", !.failed_at = f.chunks[i].status, !.wrote = "none"],
              !.failed = @ + 1, !.error = TRUE]

\* The extraction or the write raises; what was written stays.
FailChunk(d, i) ==
    /\ AtChunk(d, i, "extracting") \/ AtChunk(d, i, "writing")
    /\ SetFile(d, Failed(File(d), i))
    /\ UNCHANGED <<queue, run, job, closing, temp, stores>>

-----------------------------------------------------------------------------
\* Migration, conversion and backfill: one file with one chunk.

\* The chunk is made and its writing shown, by the file as well.
OneChunk(f) == [f EXCEPT !.status = "writing", !.chunks = <<[NewChunk(1) EXCEPT !.status = "writing"]>>]

\* _process_maibot_migration starts its child process.
StartMigration(d) ==
    /\ Busy(d, "open") /\ Mode[d] = "migration"
    /\ SetFile(d, OneChunk(File(d)))
    /\ job' = [job EXCEPT ![d] = "child"]
    /\ UNCHANGED <<queue, run, closing, temp, stores>>

\* _process_lpmm_convert: a first child looks at the interpreter.
StartConversion(d) ==
    /\ Busy(d, "open") /\ Mode[d] = "conversion"
    /\ SetFile(d, OneChunk(File(d)))
    /\ job' = [job EXCEPT ![d] = "preflight"]
    /\ UNCHANGED <<queue, run, closing, temp, stores>>

\* The input, the target or the interpreter is not fit: only for the last is the chunk failed.
ConversionRefused(d) ==
    /\ Busy(d, "preflight")
    /\ \E f \in {File(d), Failed(File(d), 1)} : SetFile(d, [f EXCEPT !.status = "failed", !.error = TRUE])
    /\ EndJob(d)
    /\ UNCHANGED <<queue, run, closing, temp, stores>>

Convert(d) ==
    /\ Busy(d, "preflight")
    /\ job' = [job EXCEPT ![d] = "child"]
    /\ UNCHANGED <<task, queue, run, closing, temp, stores>>

\* What the state file of a migration may say, if it is there and can be read.
Reports(d) == IF Mode[d] = "migration" THEN [good : Rows, bad : Rows] ELSE {}

\* _refresh_maibot_progress_from_state: the counters become numbers of rows.
Refreshed(d, f) ==
    {f} \cup {[f EXCEPT !.done = n.good, !.failed = n.bad, !.cancelled = 0] : n \in Reports(d)}

\* It is polled while the child runs.
Poll(d) ==
    /\ Busy(d, "child")
    /\ \E f \in Refreshed(d, File(d)) : SetFile(d, f)
    /\ UNCHANGED <<queue, run, job, closing, temp, stores>>

Least(m, n) == IF m < n THEN m ELSE n

\* The bad rows of the report make an error of the file.  They are counted only if the
\* state file gave no counts; the counters stay within the total.
Migrated(f, total, bad) ==
    LET known == f.done + f.failed > 0
    IN  [f EXCEPT !.status = "completed", !.chunks[1].status = "completed", !.cancelled = 0,
                  !.done = IF known THEN Least(@, total) ELSE total - Least(bad, total),
                  !.failed = Least(IF known THEN @ ELSE bad, total),
                  !.error = @ \/ bad > 0]

\* The migration exits well, be it with bad rows; the stores are loaded again.
MigrationCompletes(d) ==
    /\ Busy(d, "child") /\ Mode[d] = "migration"
    /\ \E f \in Refreshed(d, File(d)), total \in Rows \ {0}, bad \in Rows :
          SetFile(d, Migrated(f, total, bad))
    /\ EndJob(d)
    /\ UNCHANGED <<queue, run, closing, temp, stores>>

\* The conversion exits well and its output is verified.
ChildCompletes(d) ==
    /\ Busy(d, "child") /\ Mode[d] = "conversion"
    /\ SetFile(d, [Completed(File(d), 1) EXCEPT !.status = "completed"])
    /\ EndJob(d)
    /\ UNCHANGED <<queue, run, closing, temp, stores>>

\* The failed chunk is counted on top of the bad rows.
ChildFails(d) ==
    /\ Busy(d, "child")
    /\ \E f \in Refreshed(d, File(d)) : SetFile(d, [Failed(f, 1) EXCEPT !.status = "failed"])
    /\ EndJob(d)
    /\ UNCHANGED <<queue, run, closing, temp, stores>>

\* _process_temporal_backfill does not await; without its directory the chunk stays open.
Backfill(d) ==
    /\ Busy(d, "open") /\ Mode[d] = "backfill"
    /\ \/ SetFile(d, [Completed(OneChunk(File(d)), 1) EXCEPT !.status = "completed"])
       \/ SetFile(d, [OneChunk(File(d)) EXCEPT !.status = "failed", !.error = TRUE])
    /\ EndJob(d)
    /\ UNCHANGED <<queue, run, closing, temp, stores>>

-----------------------------------------------------------------------------
\* Deletion of a source: the stores first, the manifest after an await.

DeleteSource(d) ==
    /\ d \in Deletable \ deleted.ever /\ para[d] # {}
    /\ gone' = [gone EXCEPT ![d] = @ \cup para[d]]
    /\ para' = [para EXCEPT ![d] = {}]
    /\ whole' = [whole EXCEPT ![d] = {}]
    /\ deleted' = [docs |-> deleted.docs \cup {d}, ever |-> deleted.ever \cup {d}]
    /\ UNCHANGED <<task, queue, run, job, closing, temp, manifest>>

\* invalidate_manifest_for_sources.
InvalidateManifest(d) ==
    /\ d \in deleted.docs
    /\ deleted' = [deleted EXCEPT !.docs = @ \ {d}]
    /\ manifest' = manifest \ {d}
    /\ UNCHANGED <<task, queue, run, job, closing, temp, para, whole, gone>>

-----------------------------------------------------------------------------
FileStep(d) ==
    \/ SkipKnown(d) \/ ReadFile(d) \/ RegisterChunks(d) \/ RegisterUnits(d) \/ SplitFails(d)
    \/ SelectModelFails(d) \/ CloseFile(d) \/ SaveFails(d)
    \/ StartMigration(d) \/ StartConversion(d) \/ ConversionRefused(d) \/ Convert(d) \/ Backfill(d)
    \/ MigrationCompletes(d) \/ ChildCompletes(d) \/ ChildFails(d) \/ Terminate(d)
    \/ InvalidateManifest(d)

ChunkStep(d, i) ==
    \/ ExtractChunk(d, i) \/ WriteChunk(d, i) \/ WriteUnit(d, i) \/ FailChunk(d, i)
    \/ StoreParagraph(d, i) \/ StoreEntities(d, i) \/ StoreRelations(d, i)

RunStep ==
    Take \/ Prepare \/ Start \/ RunCancelled \/ EndRun \/ Leave \/ RunRaises \/ FinishCancelled

\* What the event loop does to get on: every other action is a request or a poll.
Loop == RunStep \/ \E d \in Doc : FileStep(d) \/ \E i \in Part : ChunkStep(d, i)

Next ==
    \/ Loop
    \/ \E t \in Task : Create(t) \/ CancelTask(t) \/ \E u \in Task : RetryFailed(t, u)
    \/ \E d \in Doc : DeleteSource(d) \/ Poll(d)
    \/ Shutdown \/ SweepTemp

Spec == Init /\ [][Next]_vars

\* The event loop goes on as long as it can; a call of a model ends by its timeout.
\* That child processes end is assumed: _wait_for_import_process polls for ever.
Fairness == WF_vars(Loop)
FairSpec == Spec /\ Fairness

-----------------------------------------------------------------------------
ChunkType == [part : Part, status : {"queued", "extracting", "writing"} \cup Closed,
              wrote : {"none", "paragraph", "entities"},
              failed_at : {"none", "extracting", "writing"}]
FileType == [status : {"none", "queued", "splitting", "extracting", "writing", "completed", "failed", "cancelled"},
             retry : {"none", "chunk", "file"}, pick : SUBSET Nat, chunks : Seq(ChunkType),
             done : Nat, failed : Nat, cancelled : Nat, error : BOOLEAN]

\* The records stay well formed (the records of _tasks and what the worker is doing).
TypeOK ==
    /\ task \in [Task -> [status : Pending \cup Final \cup {"none"}, files : [Doc -> FileType]]]
    /\ \A i \in DOMAIN queue : task[queue[i]].status = "queued" /\ queue[i] # run.task
    /\ IsInjective(queue)
    /\ run.task \in Task \cup {None} /\ (run.task = None <=> run.phase = "idle")
    /\ temp \subseteq Task /\ manifest \subseteq Doc /\ deleted.docs \subseteq deleted.ever
    /\ \A d \in Doc : whole[d] \subseteq para[d] /\ para[d] \subseteq Parts(d)

Ended(t) == task[t].status \in Final
ChunksAt(f, status) == {i \in DOMAIN f.chunks : f.chunks[i].status = status}

\* The counters of a file say how many of its chunks ended which way, whatever
\* chunk jobs, the cancellation and the shutdown did to them (_set_chunk_completed,
\* _set_chunk_failed, _set_file_cancelled, _mark_task_cancelled_locked).  Those of a
\* migration count rows, and its failed chunk besides.
CountersAgree ==
    \A t \in Task, d \in Doc : LET f == task[t].files[d] IN
       /\ f.cancelled = Cardinality(ChunksAt(f, "cancelled"))
       /\ IF Mode[d] = "migration" THEN f.failed >= Cardinality(ChunksAt(f, "failed"))
          ELSE /\ f.done = Cardinality(ChunksAt(f, "completed"))
               /\ f.failed = Cardinality(ChunksAt(f, "failed"))

\* A migration that completed, but not with all rows.
RowsMissing(d, f) == Mode[d] = "migration" /\ f.status = "completed" /\ (f.failed > 0 \/ f.error)

\* A task that ended normally agrees with its files: none is open, it is called
\* completed only if all its files are and no chunk or row failed, and completed with
\* errors only if a file failed, or is a migration with bad rows, and none was cancelled
\* (_run_task).
EndedAgrees ==
    \A t \in Task : task[t].status \in Final \ {"failed"} =>
       /\ \A d \in Files(t) : task[t].files[d].status \in Closed
       /\ task[t].status = "completed" =>
             \A d \in Files(t) : task[t].files[d].status = "completed" /\ ~RowsMissing(d, task[t].files[d])
       /\ task[t].status = "completed_with_errors" =>
             /\ Some(t, "failed") \/ \E d \in Doc : RowsMissing(d, task[t].files[d])
             /\ ~Some(t, "cancelled")

\* While chunks are written or a child process writes, is_write_blocked says so
\* (until the runtime shuts down): the tuning of retrieval relies on it.
WritesAreBlocked ==
    (~closing /\ run.phase \in {"files", "cancelling"} /\ \E d \in Doc : job[d] \in {"chunks", "preflight", "child"}) =>
        task[run.task].status \in {"preparing", "running", "cancel_requested"}

\* The uploads a retry would read are there as long as it is possible to ask for it
\* (_should_cleanup_task_temp).
RetryHasItsSource ==
    \A t \in Task : ~closing /\ Ended(t) /\ CanRetry(t) => t \in temp

\* What the pages of the import centre and is_write_blocked show of a task is true
\* on every level, the retry they offer can be done, and all has its type.
TasksAgree == TypeOK /\ CountersAgree /\ EndedAgrees /\ WritesAreBlocked /\ RetryHasItsSource

\* What has ended stays as it is: neither a late job, nor the cancellation of a
\* finished run, nor the shutdown changes an ended task or its files, and nothing is
\* stored for it (_finalize_cancelled_task, _worker_loop).
EndedIsFinal ==
    [][/\ \A t \in Task : Ended(t) => task'[t] = task[t]
       /\ run.task # None => (Ended(run.task) => \A d \in Doc : para'[d] \subseteq para[d])]_vars

\* A file is called completed only when everything it selected is stored whole, if a
\* deletion has not removed it since, and unless it is a retry of chunks it selected
\* the whole content (_process_text_file, _process_json_file).
CompletedWasStored ==
    \A t \in Task, d \in Doc : LET f == task[t].files[d] IN
       (f.status = "completed" /\ f.chunks # <<>> /\ Read(d)) =>
          /\ \A i \in DOMAIN f.chunks : f.chunks[i].part \in whole[d] \cup gone[d]
          /\ f.retry # "chunk" => Len(f.chunks) = Len(Own[d])

\* What the changelog says of a retry, that it runs the subset of chunks that failed, is
\* what makes the manifest true: each part of a content it calls imported was stored
\* whole, if a deletion has not removed it since (_record_manifest_import).
ImportedWasStored ==
    \A d \in manifest : \A p \in Parts(d) : p \in whole[d] \cup gone[d]

\* Every task that is created ends (_worker_loop).
EveryTaskEnds == \A t \in Task : (task[t].status = "queued") ~> Ended(t)
=============================================================================
