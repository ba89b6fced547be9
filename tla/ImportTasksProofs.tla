--------------------------- MODULE ImportTasksProofs ---------------------------
(***************************************************************************)
(* Theorems about ImportTasks for any number of tasks, any contents and    *)
(* modes, any split of their texts and any queue limit.                    *)
(*                                                                         *)
(* What a task shows is true because four things agree at every step: the  *)
(* counters of a file with its chunks (Counted; those of a migration count *)
(* rows, and say no more than that its failed chunk is among them), the    *)
(* file with the job that works on it (FileOK, JobOK), the task            *)
(* with the run (RunOK), and what its chunks claim with what is stored or  *)
(* was deleted (Stored).  Only one task is prepared, runs or is being      *)
(* cancelled, and it is the one the worker holds; what is cancelled after  *)
(* it ended is not touched again because its files are all final (EndOK).  *)
(* The uploads of a task outlive it if one of its files failed (TempOK),   *)
(* and only a task with such a file can be retried.                        *)
(*                                                                         *)
(* From the invariant follow TasksAgree and CompletedWasStored, and the    *)
(* action property EndedIsFinal.                                           *)
(***************************************************************************)
EXTENDS ImportTasks, FiniteSetTheorems, SequenceTheorems, TLAPS

-----------------------------------------------------------------------------
(* The inductive invariant. *)

TaskRecord == [status : Pending \cup Final \cup {"none"}, files : [Doc -> FileType]]
Phase == {"idle", "taken", "preparing", "files", "notify", "leave", "cancelling"}
JobState == {"none", "open", "split", "chunks", "preflight", "child", "done"}

\* The counters of a file say how many of its chunks ended which way; a migration
\* counts rows, and its failed chunk besides.
Counted(d, f) ==
    /\ f.cancelled = Cardinality(ChunksAt(f, "cancelled"))
    /\ IF Mode[d] = "migration" THEN f.failed >= Cardinality(ChunksAt(f, "failed"))
       ELSE /\ f.done = Cardinality(ChunksAt(f, "completed"))
            /\ f.failed = Cardinality(ChunksAt(f, "failed"))

\* A file that is not split has no chunks, one that is completed has only completed
\* ones and, unless it is a migration, no error, and an error has a reason.
FileOK(d, f) ==
    /\ f \in FileType
    /\ Counted(d, f)
    /\ f.status = "none" => f = NoFile
    /\ f.status \in {"queued", "splitting"} => f.chunks = <<>>
    /\ f.status \in {"queued", "splitting"} \/ (f.status = "completed" /\ Mode[d] # "migration") => ~f.error
    /\ f.error => f.failed > 0 \/ f.status \in Closed
    /\ \A i \in DOMAIN f.chunks :
          /\ f.chunks[i].part \in Parts(d)
          /\ f.chunks[i].status = "cancelled" => f.status = "cancelled"
          /\ f.status = "completed" => f.chunks[i].status = "completed"

\* What the chunks of a file say is stored is, or has been deleted: whole are the parts
\* that were stored whole, put those whose paragraph was stored.
Stored(d, f, all, put) ==
    Read(d) =>
       /\ \A i \in DOMAIN f.chunks :
             /\ f.chunks[i].status = "completed" => f.chunks[i].part \in all
             /\ f.chunks[i].wrote # "none" => f.chunks[i].part \in put
       /\ f.chunks # <<>> /\ f.retry # "chunk" => Len(f.chunks) = Len(Own[d])

All(d) == whole[d] \cup gone[d]
Put(d) == para[d] \cup gone[d]

\* What is not read is alone in its task.
Single(files) ==
    \A d, e \in Doc : files[d].status # "none" /\ files[e].status # "none" => Read(d) \/ d = e

Unstarted(files) == \A d \in Doc : files[d].status \in {"none", "queued"}

\* A task that has ended agrees with its files, also with what failed in them.
EndOK(rec) ==
    /\ rec.status \in Final \ {"failed"} => \A d \in Doc : rec.files[d].status \in Closed \cup {"none"}
    /\ rec.status = "completed" =>
          \A d \in Doc : rec.files[d].status \in {"completed", "none"} /\ ~RowsMissing(d, rec.files[d])
    /\ rec.status = "completed_with_errors" =>
          /\ \E d \in Doc : rec.files[d].status = "failed" \/ RowsMissing(d, rec.files[d])
          /\ \A d \in Doc : rec.files[d].status # "cancelled"
    /\ rec.status \in Final =>
          \A d \in Doc : FailedChunks(rec.files[d]) # {} => rec.files[d].status \in {"failed", "cancelled"}

RecOK(rec) ==
    /\ rec \in TaskRecord
    /\ \A d \in Doc : FileOK(d, rec.files[d])
    /\ Single(rec.files)
    /\ rec.status = "none" => rec = NoTask
    /\ rec.status \in {"queued", "preparing"} => Unstarted(rec.files)
    /\ EndOK(rec)

TasksOK ==
    /\ task \in [Task -> TaskRecord]
    /\ \A t \in Task :
          /\ RecOK(task[t])
          /\ \A d \in Doc : Stored(d, task[t].files[d], All(d), Put(d))

\* The job of a file of the running task is where the file is.
JobOK(d, j, f) ==
    /\ j = "none" <=> f.status = "none"
    /\ j = "open" => f.status = "queued"
    /\ j = "split" => f.status = "splitting" /\ Read(d)
    /\ j = "chunks" => f.status \in {"extracting", "writing"} /\ Read(d)
    /\ j \in {"preflight", "child"} =>
          /\ ~Read(d) /\ f.status = "writing" /\ ~f.error
          /\ Len(f.chunks) = 1 /\ f.chunks[1].status = "writing"
    /\ j = "done" => f.status \in {"completed", "failed"}

\* One task runs, and it is as far as its run is.
RunOK ==
    /\ run.task = None <=> run.phase = "idle"
    /\ run.phase = "taken" => task[run.task].status \in {"queued", "cancelled"}
    /\ run.phase = "preparing" => task[run.task].status = "preparing"
    /\ run.phase = "files" =>
          /\ task[run.task].status = "running"
          /\ \A d \in Doc : JobOK(d, job[d], task[run.task].files[d])
    /\ run.phase \in {"notify", "leave"} => task[run.task].status \in Final
    /\ run.phase = "cancelling" =>
          task[run.task].status = "cancel_requested" \/ (closing /\ task[run.task].status \in Final)
    /\ \A t \in Task : task[t].status \in {"preparing", "running", "cancel_requested"} => t = run.task

\* What waits is queued, does not run, and waits once.
QueueOK ==
    /\ queue \in Seq(Task)
    /\ \A i \in 1 .. Len(queue) : task[queue[i]].status = "queued" /\ queue[i] # run.task
    /\ \A i, j \in 1 .. Len(queue) : queue[i] = queue[j] => i = j

Retriable(rec) == \E d \in Doc : Retried(d, rec.files[d]) # NoFile

\* The uploads of a task are there until nobody can ask for them.
TempOK ==
    ~closing =>
       \A t \in Task :
          \/ task[t].status \in Pending \/ t = run.task
          \/ task[t].status \in Final /\ Retriable(task[t])
          => t \in temp

FieldsOK ==
    /\ run \in [task : Task \cup {None}, phase : Phase]
    /\ job \in [Doc -> JobState]
    /\ closing \in BOOLEAN /\ temp \subseteq Task

StoresOK ==
    /\ manifest \subseteq Doc
    /\ deleted \in [docs : SUBSET Doc, ever : SUBSET Doc] /\ deleted.docs \subseteq deleted.ever
    /\ para \in [Doc -> SUBSET Nat] /\ whole \in [Doc -> SUBSET Nat] /\ gone \in [Doc -> SUBSET Nat]
    /\ \A d \in Doc : whole[d] \subseteq para[d] /\ para[d] \subseteq Parts(d)

IInv == FieldsOK /\ StoresOK /\ TasksOK /\ RunOK /\ QueueOK /\ TempOK

-----------------------------------------------------------------------------
(* Chunks and counters *)

LEMMA PartsAre ==
    ASSUME NEW d \in Doc
    PROVE  /\ Own[d] \in Seq(Nat) /\ Len(Own[d]) \in Nat \ {0}
           /\ Parts(d) = 1 .. Len(Own[d]) /\ 1 \in Parts(d)
           /\ Parts(d) \subseteq Part /\ Parts(d) \subseteq Nat
<1>1. Own[d] \in Seq(Nat) /\ Len(Own[d]) \in Nat \ {0}
  BY OwnAssumption, EmptySeq
<1>2. Parts(d) \subseteq Part
  BY DEF Part
<1> QED BY <1>1, <1>2 DEF Parts

\* A function on 1 .. n is a sequence.
LEMMA FunctionIsSeq ==
    ASSUME NEW n \in Nat, NEW S, NEW g \in [1 .. n -> S]
    PROVE  g \in Seq(S) /\ Len(g) = n /\ DOMAIN g = 1 .. n
OBVIOUS

LEMMA ChunksAre ==
    ASSUME NEW f \in FileType
    PROVE  /\ f.chunks \in Seq(ChunkType) /\ Len(f.chunks) \in Nat
           /\ DOMAIN f.chunks = 1 .. Len(f.chunks)
           /\ \A i \in DOMAIN f.chunks : f.chunks[i] \in ChunkType
<1>1. f.chunks \in Seq(ChunkType)
  BY DEF FileType
<1> QED BY <1>1

\* One chunk of a file is changed.
LEMMA ChunkReplaced ==
    ASSUME NEW f \in FileType, NEW i \in DOMAIN f.chunks, NEW c \in ChunkType
    PROVE  LET cs == [f.chunks EXCEPT ![i] = c] IN
           /\ cs \in Seq(ChunkType) /\ Len(cs) = Len(f.chunks) /\ DOMAIN cs = DOMAIN f.chunks
           /\ \A j \in DOMAIN f.chunks : cs[j] = IF j = i THEN c ELSE f.chunks[j]
<1> DEFINE cs == [f.chunks EXCEPT ![i] = c]
<1>1. f.chunks \in Seq(ChunkType) /\ DOMAIN f.chunks = 1 .. Len(f.chunks)
  BY ChunksAre
<1>2. /\ cs \in Seq(ChunkType) /\ Len(cs) = Len(f.chunks)
      /\ \A j \in 1 .. Len(f.chunks) : cs[j] = IF j = i THEN c ELSE f.chunks[j]
  BY <1>1, ExceptSeq
<1>3. DOMAIN cs = DOMAIN f.chunks
  OBVIOUS
<1> QED BY <1>1, <1>2, <1>3

LEMMA ChunksFinite ==
    ASSUME NEW f \in FileType, NEW s
    PROVE  IsFiniteSet(ChunksAt(f, s)) /\ Cardinality(ChunksAt(f, s)) \in Nat
<1>1. Len(f.chunks) \in Nat /\ DOMAIN f.chunks = 1 .. Len(f.chunks)
  BY ChunksAre
<1>2. IsFiniteSet(1 .. Len(f.chunks))
  BY <1>1, FS_Interval
<1>3. ChunksAt(f, s) \subseteq 1 .. Len(f.chunks)
  BY <1>1 DEF ChunksAt
<1>4. IsFiniteSet(ChunksAt(f, s))
  BY <1>2, <1>3, FS_Subset
<1> QED BY <1>4, FS_CardinalityType

\* A chunk that was not closed changes its status.
LEMMA ChunkMoves ==
    ASSUME NEW f \in FileType, NEW g \in FileType, NEW i \in DOMAIN f.chunks, NEW s,
           DOMAIN g.chunks = DOMAIN f.chunks, f.chunks[i].status # s,
           \A j \in DOMAIN f.chunks \ {i} : g.chunks[j].status = f.chunks[j].status
    PROVE  Cardinality(ChunksAt(g, s)) =
               IF g.chunks[i].status = s THEN Cardinality(ChunksAt(f, s)) + 1 ELSE Cardinality(ChunksAt(f, s))
<1>1. CASE g.chunks[i].status = s
  <2>1. ChunksAt(g, s) = ChunksAt(f, s) \cup {i} /\ i \notin ChunksAt(f, s)
    BY <1>1 DEF ChunksAt
  <2>2. IsFiniteSet(ChunksAt(f, s))
    BY ChunksFinite
  <2>3. Cardinality(ChunksAt(f, s) \cup {i}) = Cardinality(ChunksAt(f, s)) + 1
    BY <2>1, <2>2, FS_AddElement
  <2> QED BY <1>1, <2>1, <2>3
<1>2. CASE g.chunks[i].status # s
  <2>1. ChunksAt(g, s) = ChunksAt(f, s)
    BY <1>2 DEF ChunksAt
  <2> QED BY <1>2, <2>1
<1> QED BY <1>1, <1>2

\* A file without chunks.
LEMMA EmptyOK ==
    ASSUME NEW d \in Doc, NEW f \in FileType, f.chunks = <<>>, f.error = FALSE,
           f.done = 0, f.failed = 0, f.cancelled = 0, f.status = "none" => f = NoFile
    PROVE  FileOK(d, f) /\ \A all, put : Stored(d, f, all, put)
<1>1. DOMAIN f.chunks = {}
  OBVIOUS
<1>2. \A s : ChunksAt(f, s) = {}
  BY <1>1 DEF ChunksAt
<1>3. Counted(d, f)
  <2>1. \A s : Cardinality(ChunksAt(f, s)) = 0
    BY <1>2, FS_EmptySet
  <2> QED BY <2>1 DEF Counted
<1>4. FileOK(d, f)
  BY <1>1, <1>3 DEF FileOK
<1> QED BY <1>1, <1>4 DEF Stored

LEMMA NoFileOK ==
    ASSUME NEW d \in Doc
    PROVE  /\ FileOK(d, NoFile) /\ NoFile.status = "none" /\ NoFile \in FileType
           /\ \A all, put : Stored(d, NoFile, all, put)
<1>1. /\ NoFile \in FileType /\ NoFile.chunks = <<>> /\ NoFile.error = FALSE
      /\ NoFile.done = 0 /\ NoFile.failed = 0 /\ NoFile.cancelled = 0 /\ NoFile.status = "none"
  BY DEF NoFile, FileType
<1> QED BY <1>1, EmptyOK

LEMMA NewFileOK ==
    ASSUME NEW d \in Doc, NEW mode \in {"none", "chunk", "file"}, NEW pick \in SUBSET Nat
    PROVE  /\ FileOK(d, NewFile(mode, pick)) /\ NewFile(mode, pick).status = "queued"
           /\ NewFile(mode, pick) \in FileType
           /\ \A all, put : Stored(d, NewFile(mode, pick), all, put)
<1> DEFINE f == NewFile(mode, pick)
<1>1. /\ NoFile \in FileType /\ NoFile.chunks = <<>> /\ NoFile.error = FALSE
      /\ NoFile.done = 0 /\ NoFile.failed = 0 /\ NoFile.cancelled = 0
  BY NoFileOK DEF NoFile
<1>3. f \in FileType
  BY <1>1 DEF FileType, NewFile
<1>4. /\ f.chunks = <<>> /\ f.error = FALSE /\ f.status = "queued"
      /\ f.done = 0 /\ f.failed = 0 /\ f.cancelled = 0
  BY <1>1 DEF FileType, NewFile
<1> HIDE DEF f
<1>5. FileOK(d, f) /\ \A all, put : Stored(d, f, all, put)
  BY <1>3, <1>4, EmptyOK
<1> QED BY <1>3, <1>4, <1>5 DEF f

-----------------------------------------------------------------------------
(* What happens to a file *)

\* One chunk is replaced, the counters follow, the status stays an open one.
LEMMA ChunkChanged ==
    ASSUME NEW d \in Doc, NEW f, NEW g \in FileType, NEW i \in DOMAIN f.chunks, NEW c \in ChunkType,
           FileOK(d, f), f.chunks[i].status \notin Closed,
           f.status \in {"extracting", "writing"}, g.status \in {"extracting", "writing"},
           g.chunks = [f.chunks EXCEPT ![i] = c], c.part = f.chunks[i].part, c.status # "cancelled",
           g.retry = f.retry,
           g.done = f.done + (IF c.status = "completed" THEN 1 ELSE 0),
           g.failed = f.failed + (IF c.status = "failed" THEN 1 ELSE 0),
           g.cancelled = f.cancelled,
           g.error => f.error \/ c.status = "failed"
    PROVE  /\ FileOK(d, g)
           /\ \A all, put :
                 /\ Stored(d, f, all, put)
                 /\ c.status = "completed" => c.part \in all
                 /\ c.wrote # "none" => c.part \in put
                 => Stored(d, g, all, put)
<1>1. f \in FileType /\ f.done \in Nat /\ f.failed \in Nat /\ f.cancelled \in Nat
  BY DEF FileOK, FileType
<1>2. /\ Len(g.chunks) = Len(f.chunks) /\ DOMAIN g.chunks = DOMAIN f.chunks
      /\ \A j \in DOMAIN f.chunks : g.chunks[j] = IF j = i THEN c ELSE f.chunks[j]
  BY <1>1, ChunkReplaced
<1>3. Counted(d, g)
  <2>1. \A s \in Closed : Cardinality(ChunksAt(g, s)) =
               IF c.status = s THEN Cardinality(ChunksAt(f, s)) + 1 ELSE Cardinality(ChunksAt(f, s))
    <3> SUFFICES ASSUME NEW s \in Closed
                 PROVE  Cardinality(ChunksAt(g, s)) =
                          IF c.status = s THEN Cardinality(ChunksAt(f, s)) + 1 ELSE Cardinality(ChunksAt(f, s))
      OBVIOUS
    <3>1. /\ f.chunks[i].status # s /\ g.chunks[i].status = c.status
          /\ \A j \in DOMAIN f.chunks \ {i} : g.chunks[j].status = f.chunks[j].status
      BY <1>2
    <3> QED BY <1>1, <1>2, <3>1, ChunkMoves
  <2>2. Counted(d, f)
    BY DEF FileOK
  <2>3. \A s : Cardinality(ChunksAt(f, s)) \in Nat
    BY <1>1, ChunksFinite
  <2> QED BY <1>1, <2>1, <2>2, <2>3 DEF Counted, Closed
<1>4. g.error => g.failed > 0
  <2>1. f.error => f.failed > 0
    BY DEF FileOK, Closed
  <2> QED BY <1>1, <2>1
<1>5. \A j \in DOMAIN g.chunks : g.chunks[j].part \in Parts(d) /\ g.chunks[j].status # "cancelled"
  <2>1. \A j \in DOMAIN f.chunks : f.chunks[j].part \in Parts(d) /\ f.chunks[j].status # "cancelled"
    BY DEF FileOK
  <2> QED BY <1>2, <2>1
<1>6. FileOK(d, g)
  BY <1>3, <1>4, <1>5 DEF FileOK
<1>7. ASSUME NEW all, NEW put, Stored(d, f, all, put),
             c.status = "completed" => c.part \in all, c.wrote # "none" => c.part \in put
      PROVE  Stored(d, g, all, put)
  <2>1. f.chunks # <<>>
    OBVIOUS
  <2> QED BY <1>2, <1>7, <2>1 DEF Stored
<1> QED BY <1>6, <1>7

\* A chunk and its file take a status.
WithStatus(f, i, s) == [f EXCEPT !.status = s, !.chunks[i].status = s]

LEMMA ChunkSet ==
    ASSUME NEW d \in Doc, NEW f, NEW i \in DOMAIN f.chunks, NEW s \in {"extracting", "writing"},
           FileOK(d, f), f.chunks[i].status \notin Closed, f.status \in {"extracting", "writing"}
    PROVE  LET g == WithStatus(f, i, s) IN
           FileOK(d, g) /\ g.status = s /\ \A all, put : Stored(d, f, all, put) => Stored(d, g, all, put)
<1> DEFINE g == WithStatus(f, i, s)
           c == [f.chunks[i] EXCEPT !.status = s]
<1>1. f \in FileType /\ f.chunks[i] \in ChunkType
  BY ChunksAre DEF FileOK
<1>2. c \in ChunkType /\ c.status = s /\ c.part = f.chunks[i].part /\ c.wrote = f.chunks[i].wrote
  BY <1>1 DEF ChunkType
<1>3. [f.chunks EXCEPT ![i] = c] \in Seq(ChunkType)
  BY <1>1, <1>2, ChunkReplaced
<1>4. /\ g \in FileType /\ g.chunks = [f.chunks EXCEPT ![i] = c] /\ g.status = s
      /\ g.retry = f.retry /\ g.done = f.done /\ g.failed = f.failed /\ g.cancelled = f.cancelled
      /\ g.error = f.error
  BY <1>1, <1>3 DEF FileType, WithStatus
<1>5. f.done \in Nat /\ f.failed \in Nat
  BY <1>1 DEF FileType
<1> HIDE DEF g, c
<1>6. /\ FileOK(d, g)
      /\ \A all, put :
            /\ Stored(d, f, all, put)
            /\ c.status = "completed" => c.part \in all
            /\ c.wrote # "none" => c.part \in put
            => Stored(d, g, all, put)
  <2>1. g.done = f.done + 0 /\ g.failed = f.failed + 0
    BY <1>4, <1>5
  <2> QED BY <1>2, <1>4, <2>1, ChunkChanged
<1>7. ASSUME NEW all, NEW put, Stored(d, f, all, put)
      PROVE  Stored(d, g, all, put)
  <2>1. CASE Read(d)
    <3>1. f.chunks[i].wrote # "none" => f.chunks[i].part \in put
      BY <1>7, <2>1 DEF Stored
    <3> QED BY <1>2, <1>6, <1>7, <3>1
  <2>2. CASE ~Read(d)
    BY <2>2 DEF Stored
  <2> QED BY <2>1, <2>2
<1> QED BY <1>4, <1>6, <1>7 DEF g

\* The parts of a chunk that is being written.
LEMMA ChunkWrote ==
    ASSUME NEW d \in Doc, NEW f, NEW i \in DOMAIN f.chunks, NEW w \in {"paragraph", "entities"},
           FileOK(d, f), f.chunks[i].status = "writing", f.status \in {"extracting", "writing"}
    PROVE  LET g == [f EXCEPT !.chunks[i].wrote = w] IN
           /\ FileOK(d, g) /\ g.status = f.status
           /\ \A all, put : Stored(d, f, all, put) /\ f.chunks[i].part \in put => Stored(d, g, all, put)
<1> DEFINE g == [f EXCEPT !.chunks[i].wrote = w]
           c == [f.chunks[i] EXCEPT !.wrote = w]
<1>1. f \in FileType /\ f.chunks[i] \in ChunkType
  BY ChunksAre DEF FileOK
<1>2. c \in ChunkType /\ c.status = "writing" /\ c.part = f.chunks[i].part
  BY <1>1 DEF ChunkType
<1>3. [f.chunks EXCEPT ![i] = c] \in Seq(ChunkType)
  BY <1>1, <1>2, ChunkReplaced
<1>4. /\ g \in FileType /\ g.chunks = [f.chunks EXCEPT ![i] = c] /\ g.status = f.status
      /\ g.retry = f.retry /\ g.done = f.done /\ g.failed = f.failed /\ g.cancelled = f.cancelled
      /\ g.error = f.error
  BY <1>1, <1>3 DEF FileType
<1>5. f.done \in Nat /\ f.failed \in Nat /\ f.chunks[i].status \notin Closed
  BY <1>1 DEF FileType, Closed
<1> HIDE DEF g, c
<1>6. /\ FileOK(d, g)
      /\ \A all, put :
            /\ Stored(d, f, all, put)
            /\ c.status = "completed" => c.part \in all
            /\ c.wrote # "none" => c.part \in put
            => Stored(d, g, all, put)
  <2>1. g.done = f.done + 0 /\ g.failed = f.failed + 0
    BY <1>4, <1>5
  <2> QED BY <1>1, <1>2, <1>4, <1>5, <2>1, ChunkChanged
<1>7. \A all, put : Stored(d, f, all, put) /\ f.chunks[i].part \in put => Stored(d, g, all, put)
  BY <1>2, <1>6
<1> QED BY <1>4, <1>6, <1>7 DEF g

LEMMA ChunkCompleted ==
    ASSUME NEW d \in Doc, NEW f, NEW i \in DOMAIN f.chunks,
           FileOK(d, f), f.chunks[i].status = "writing", f.status \in {"extracting", "writing"}
    PROVE  /\ FileOK(d, Completed(f, i)) /\ Completed(f, i).status = f.status
           /\ Completed(f, i).error = f.error
           /\ Len(Completed(f, i).chunks) = Len(f.chunks)
           /\ Completed(f, i).chunks[i].status = "completed"
           /\ \A all, put : Stored(d, f, all, put) /\ f.chunks[i].part \in all => Stored(d, Completed(f, i), all, put)
<1> DEFINE g == Completed(f, i)
           c == [f.chunks[i] EXCEPT !.status = "completed", !.wrote = "none"]
<1>1. f \in FileType /\ f.chunks[i] \in ChunkType
  BY ChunksAre DEF FileOK
<1>2. c \in ChunkType /\ c.status = "completed" /\ c.part = f.chunks[i].part /\ c.wrote = "none"
  BY <1>1 DEF ChunkType, Closed
<1>3. /\ [f.chunks EXCEPT ![i] = c] \in Seq(ChunkType)
      /\ Len([f.chunks EXCEPT ![i] = c]) = Len(f.chunks) /\ [f.chunks EXCEPT ![i] = c][i] = c
  BY <1>1, <1>2, ChunkReplaced
<1>4. /\ g \in FileType /\ g.chunks = [f.chunks EXCEPT ![i] = c] /\ g.status = f.status
      /\ g.retry = f.retry /\ g.done = f.done + 1 /\ g.failed = f.failed /\ g.cancelled = f.cancelled
      /\ g.error = f.error
  <2> DEFINE cs == [f.chunks EXCEPT ![i] = c]
  <2>1. g = [f EXCEPT !.chunks = cs, !.done = f.done + 1]
    BY DEF Completed
  <2>2. cs \in Seq(ChunkType) /\ f.done + 1 \in Nat /\ f.failed + 1 \in Nat
    BY <1>1, <1>3 DEF FileType
  <2> HIDE DEF g, c, cs
  <2>3. g \in FileType
    BY <1>1, <2>1, <2>2 DEF FileType
  <2>4. /\ g.chunks = cs /\ g.status = f.status
        /\ g.retry = f.retry /\ g.done = f.done + 1 /\ g.failed = f.failed /\ g.cancelled = f.cancelled /\ g.error = f.error
    BY <1>1, <2>1 DEF FileType
  <2> QED BY <2>3, <2>4 DEF cs
<1>5. f.done \in Nat /\ f.failed \in Nat /\ f.chunks[i].status \notin Closed
  BY <1>1 DEF FileType, Closed
<1> HIDE DEF g, c
<1>6. /\ FileOK(d, g)
      /\ \A all, put :
            /\ Stored(d, f, all, put)
            /\ c.status = "completed" => c.part \in all
            /\ c.wrote # "none" => c.part \in put
            => Stored(d, g, all, put)
  <2>1. g.failed = f.failed + 0
    BY <1>4, <1>5
  <2> QED BY <1>1, <1>2, <1>4, <1>5, <2>1, ChunkChanged
<1>7. \A all, put : Stored(d, f, all, put) /\ f.chunks[i].part \in all => Stored(d, g, all, put)
  BY <1>2, <1>6
<1>8. Len(g.chunks) = Len(f.chunks) /\ g.chunks[i].status = "completed"
  BY <1>2, <1>3, <1>4
<1> QED BY <1>4, <1>6, <1>7, <1>8 DEF g

LEMMA ChunkFailed ==
    ASSUME NEW d \in Doc, NEW f, NEW i \in DOMAIN f.chunks,
           FileOK(d, f), f.chunks[i].status \in {"extracting", "writing"},
           f.status \in {"extracting", "writing"}
    PROVE  /\ FileOK(d, Failed(f, i)) /\ Failed(f, i).status = f.status
           /\ \A all, put : Stored(d, f, all, put) => Stored(d, Failed(f, i), all, put)
<1> DEFINE g == Failed(f, i)
           c == [f.chunks[i] EXCEPT !.status = "failed", !.failed_at = f.chunks[i].status, !.wrote = "none"]
<1>1. f \in FileType /\ f.chunks[i] \in ChunkType
  BY ChunksAre DEF FileOK
<1>2. c \in ChunkType /\ c.status = "failed" /\ c.part = f.chunks[i].part /\ c.wrote = "none"
  BY <1>1 DEF ChunkType, Closed
<1>3. [f.chunks EXCEPT ![i] = c] \in Seq(ChunkType)
  BY <1>1, <1>2, ChunkReplaced
<1>4. /\ g \in FileType /\ g.chunks = [f.chunks EXCEPT ![i] = c] /\ g.status = f.status
      /\ g.retry = f.retry /\ g.done = f.done /\ g.failed = f.failed + 1 /\ g.cancelled = f.cancelled
  <2> DEFINE cs == [f.chunks EXCEPT ![i] = c]
  <2>1. g = [f EXCEPT !.chunks = cs, !.failed = f.failed + 1, !.error = TRUE]
    BY DEF Failed
  <2>2. cs \in Seq(ChunkType) /\ f.done + 1 \in Nat /\ f.failed + 1 \in Nat
    BY <1>1, <1>3 DEF FileType
  <2> HIDE DEF g, c, cs
  <2>3. g \in FileType
    BY <1>1, <2>1, <2>2 DEF FileType
  <2>4. /\ g.chunks = cs /\ g.status = f.status
        /\ g.retry = f.retry /\ g.done = f.done /\ g.failed = f.failed + 1 /\ g.cancelled = f.cancelled
    BY <1>1, <2>1 DEF FileType
  <2> QED BY <2>3, <2>4 DEF cs
<1>5. f.done \in Nat /\ f.failed \in Nat /\ f.chunks[i].status \notin Closed
  BY <1>1 DEF FileType, Closed
<1> HIDE DEF g, c
<1>6. /\ FileOK(d, g)
      /\ \A all, put :
            /\ Stored(d, f, all, put)
            /\ c.status = "completed" => c.part \in all
            /\ c.wrote # "none" => c.part \in put
            => Stored(d, g, all, put)
  <2>1. g.done = f.done + 0
    BY <1>4, <1>5
  <2> QED BY <1>1, <1>2, <1>4, <1>5, <2>1, ChunkChanged
<1>7. \A all, put : Stored(d, f, all, put) => Stored(d, g, all, put)
  BY <1>2, <1>6
<1> QED BY <1>4, <1>6, <1>7 DEF g

\* A file ends or is marked; its chunks stay as they are.
LEMMA StatusSet ==
    ASSUME NEW d \in Doc, NEW f, NEW g \in FileType, FileOK(d, f), f.status # "none",
           g.chunks = f.chunks, g.retry = f.retry, g.done = f.done, g.failed = f.failed, g.cancelled = f.cancelled,
           \/ g.status = "failed" /\ f.status # "cancelled"
           \/ /\ g.status = "completed" /\ ~g.error
              /\ f.status # "cancelled" /\ \A i \in DOMAIN f.chunks : f.chunks[i].status = "completed"
           \/ g.status = "splitting" /\ f.chunks = <<>> /\ ~g.error /\ f.status # "cancelled"
    PROVE  FileOK(d, g) /\ \A all, put : Stored(d, f, all, put) => Stored(d, g, all, put)
<1>1. Counted(d, g)
  BY DEF FileOK, Counted, ChunksAt
<1>2. \A i \in DOMAIN g.chunks : g.chunks[i].part \in Parts(d) /\ g.chunks[i].status # "cancelled"
  BY DEF FileOK
<1>3. FileOK(d, g)
  BY <1>1, <1>2 DEF FileOK, Closed
<1> QED BY <1>3 DEF Stored

\* A file is cancelled with its open chunks.
LEMMA CancelFileOK ==
    ASSUME NEW d \in Doc, NEW f, FileOK(d, f), f.status \notin Closed \cup {"none"}
    PROVE  /\ FileOK(d, CancelFile(f)) /\ CancelFile(f).status = "cancelled"
           /\ \A all, put : Stored(d, f, all, put) => Stored(d, CancelFile(f), all, put)
<1> DEFINE Open == {i \in DOMAIN f.chunks : f.chunks[i].status \notin Closed}
           cs == [i \in DOMAIN f.chunks |->
                    IF i \in Open THEN [f.chunks[i] EXCEPT !.status = "cancelled"] ELSE f.chunks[i]]
           g == CancelFile(f)
<1>1. /\ f \in FileType /\ Len(f.chunks) \in Nat /\ DOMAIN f.chunks = 1 .. Len(f.chunks)
      /\ \A i \in DOMAIN f.chunks : f.chunks[i] \in ChunkType
      /\ f.done \in Nat /\ f.failed \in Nat /\ f.cancelled \in Nat
  <2>1. f \in FileType
    BY DEF FileOK
  <2> QED BY <2>1, ChunksAre DEF FileType
<1>2. g = [f EXCEPT !.status = "cancelled", !.error = TRUE, !.cancelled = f.cancelled + Cardinality(Open),
                    !.chunks = cs]
  BY DEF CancelFile
<1>3. \A i \in DOMAIN f.chunks :
         /\ cs[i] \in ChunkType /\ cs[i].part = f.chunks[i].part /\ cs[i].wrote = f.chunks[i].wrote
         /\ cs[i].status = IF i \in Open THEN "cancelled" ELSE f.chunks[i].status
  <2> SUFFICES ASSUME NEW i \in DOMAIN f.chunks
               PROVE  /\ cs[i] \in ChunkType /\ cs[i].part = f.chunks[i].part /\ cs[i].wrote = f.chunks[i].wrote
                      /\ cs[i].status = IF i \in Open THEN "cancelled" ELSE f.chunks[i].status
    OBVIOUS
  <2>1. CASE i \in Open
    <3>1. cs[i] = [f.chunks[i] EXCEPT !.status = "cancelled"]
      BY <2>1
    <3> HIDE DEF cs
    <3> QED BY <1>1, <2>1, <3>1 DEF ChunkType, Closed
  <2>2. CASE i \notin Open
    <3>1. cs[i] = f.chunks[i]
      BY <2>2
    <3> QED BY <1>1, <2>2, <3>1
  <2> QED BY <2>1, <2>2
<1>4. DOMAIN cs = 1 .. Len(f.chunks)
  BY <1>1
<1>5. cs \in [1 .. Len(f.chunks) -> ChunkType]
  BY <1>1, <1>3
<1>6. IsFiniteSet(Open) /\ Cardinality(Open) \in Nat
  <2>1. IsFiniteSet(1 .. Len(f.chunks))
    BY <1>1, FS_Interval
  <2>2. Open \subseteq 1 .. Len(f.chunks)
    BY <1>1
  <2> HIDE DEF Open
  <2> QED BY <2>1, <2>2, FS_Subset, FS_CardinalityType
<1> HIDE DEF cs, g
<1>7. cs \in Seq(ChunkType) /\ Len(cs) = Len(f.chunks)
  BY <1>1, <1>5, FunctionIsSeq
<1>8. /\ g \in FileType /\ g.chunks = cs /\ g.status = "cancelled" /\ g.error = TRUE
      /\ g.done = f.done /\ g.failed = f.failed /\ g.cancelled = f.cancelled + Cardinality(Open)
      /\ g.retry = f.retry
  <2>1. f.cancelled + Cardinality(Open) \in Nat
    BY <1>1, <1>6
  <2> HIDE DEF Open
  <2> QED BY <1>1, <1>2, <1>7, <2>1 DEF FileType
<1>9. Counted(d, g)
  <2>1. \A s \in {"completed", "failed"} : ChunksAt(g, s) = ChunksAt(f, s)
    BY <1>1, <1>3, <1>4, <1>8 DEF ChunksAt, Closed
  <2>2. ChunksAt(g, "cancelled") = ChunksAt(f, "cancelled") \cup Open /\ ChunksAt(f, "cancelled") \cap Open = {}
    BY <1>1, <1>3, <1>4, <1>8 DEF ChunksAt, Closed
  <2>3. Cardinality(ChunksAt(g, "cancelled")) = Cardinality(ChunksAt(f, "cancelled")) + Cardinality(Open)
    <3>1. IsFiniteSet(ChunksAt(f, "cancelled")) /\ Cardinality(ChunksAt(f, "cancelled")) \in Nat
      BY <1>1, ChunksFinite
    <3>2. Cardinality(ChunksAt(f, "cancelled") \cup Open) =
            Cardinality(ChunksAt(f, "cancelled")) + Cardinality(Open) - Cardinality(ChunksAt(f, "cancelled") \cap Open)
      BY <1>6, <3>1, FS_Union
    <3>3. Cardinality(ChunksAt(f, "cancelled") \cap Open) = 0
      BY <2>2, FS_EmptySet
    <3>4. Cardinality(ChunksAt(g, "cancelled")) = Cardinality(ChunksAt(f, "cancelled") \cup Open)
      BY <2>2
    <3> HIDE DEF Open
    <3> QED BY <1>6, <3>1, <3>2, <3>3, <3>4
  <2>4. Counted(d, f)
    BY DEF FileOK
  <2> QED BY <1>8, <2>1, <2>3, <2>4 DEF Counted
<1>10. \A i \in DOMAIN g.chunks : g.chunks[i].part \in Parts(d)
  BY <1>1, <1>3, <1>4, <1>8 DEF FileOK
<1>11. FileOK(d, g)
  BY <1>8, <1>9, <1>10 DEF FileOK, Closed
<1>12. ASSUME NEW all, NEW put, Stored(d, f, all, put)
       PROVE  Stored(d, g, all, put)
  <2>1. ASSUME NEW i \in DOMAIN g.chunks
        PROVE  /\ g.chunks[i].status = "completed" => f.chunks[i].status = "completed"
               /\ g.chunks[i].part = f.chunks[i].part /\ g.chunks[i].wrote = f.chunks[i].wrote
               /\ i \in DOMAIN f.chunks
    BY <1>1, <1>3, <1>4, <1>8
  <2>2. g.chunks # <<>> => f.chunks # <<>>
    BY <1>1, <1>7, <1>8
  <2> QED BY <1>7, <1>8, <1>12, <2>1, <2>2 DEF Stored
<1> QED BY <1>8, <1>11, <1>12 DEF g

\* Marking a task cancelled.
LEMMA MarkedOK ==
    ASSUME NEW rec, RecOK(rec), rec.status # "none"
    PROVE  /\ RecOK(MarkCancelled(rec)) /\ MarkCancelled(rec).status = "cancelled"
           /\ \A d \in Doc : \A all, put :
                 Stored(d, rec.files[d], all, put) => Stored(d, MarkCancelled(rec).files[d], all, put)
           /\ rec.status = "cancelled" => MarkCancelled(rec) = rec
<1> DEFINE new == MarkCancelled(rec)
           files == [d \in Doc |-> IF rec.files[d].status \in Closed \cup {"none"} THEN rec.files[d]
                                   ELSE CancelFile(rec.files[d])]
<1>1. new = [status |-> "cancelled", files |-> files]
  BY DEF MarkCancelled
<1>2. rec \in TaskRecord /\ \A d \in Doc : FileOK(d, rec.files[d]) /\ rec.files[d] \in FileType
  BY DEF RecOK, FileOK
<1>3. ASSUME NEW d \in Doc
      PROVE  /\ FileOK(d, files[d]) /\ files[d] \in FileType
             /\ files[d].status \in Closed \cup {"none"}
             /\ files[d].status = "none" <=> rec.files[d].status = "none"
             /\ \A all, put : Stored(d, rec.files[d], all, put) => Stored(d, files[d], all, put)
             /\ files[d].status = "completed" => files[d] = rec.files[d]
  <2>1. CASE rec.files[d].status \in Closed \cup {"none"}
    BY <1>2, <2>1
  <2>2. CASE rec.files[d].status \notin Closed \cup {"none"}
    <3>1. files[d] = CancelFile(rec.files[d])
      BY <2>2
    <3> HIDE DEF files
    <3>2. FileOK(d, files[d]) /\ files[d].status = "cancelled"
          /\ \A all, put : Stored(d, rec.files[d], all, put) => Stored(d, files[d], all, put)
      BY <1>2, <2>2, <3>1, CancelFileOK
    <3> QED BY <2>2, <3>2 DEF FileOK, Closed
  <2> QED BY <2>1, <2>2
<1>4. files \in [Doc -> FileType]
  <2>1. \A d \in Doc : files[d] \in FileType
    BY <1>3
  <2> QED BY <2>1
<1> HIDE DEF files, new
<1>5. /\ new.status = "cancelled" /\ new.files = files /\ new \in TaskRecord
  BY <1>1, <1>4 DEF TaskRecord, Final
<1>6. Single(files)
  BY <1>3 DEF RecOK, Single
<1>7. EndOK(new)
  <2>1. \A d \in Doc : FailedChunks(files[d]) # {} => files[d].status \in {"failed", "cancelled"}
    <3> SUFFICES ASSUME NEW d \in Doc, FailedChunks(files[d]) # {}
                 PROVE  files[d].status \in {"failed", "cancelled"}
      OBVIOUS
    <3>1. PICK i \in DOMAIN files[d].chunks : files[d].chunks[i].status = "failed"
      BY DEF FailedChunks
    <3>2. FileOK(d, files[d])
      BY <1>3
    <3>3. files[d].status # "completed"
      BY <3>1, <3>2 DEF FileOK
    <3>4. files[d].status # "none"
      <4>1. NoFile.chunks = <<>>
        BY DEF NoFile
      <4> QED BY <3>1, <3>2, <4>1 DEF FileOK
    <3> QED BY <1>3, <3>3, <3>4 DEF Closed
  <2> QED BY <1>3, <1>5, <2>1 DEF EndOK
<1>8. RecOK(new)
  BY <1>3, <1>5, <1>6, <1>7 DEF RecOK
<1>9. ASSUME rec.status = "cancelled" PROVE new = rec
  <2>1. \A d \in Doc : rec.files[d].status \in Closed \cup {"none"}
    BY <1>9 DEF RecOK, EndOK, Final
  <2>2. files = rec.files
    <3>1. rec.files \in [Doc -> FileType]
      BY <1>2 DEF TaskRecord
    <3> QED BY <2>1, <3>1 DEF files
  <2>3. rec = [status |-> rec.status, files |-> rec.files]
    BY <1>2 DEF TaskRecord
  <2> QED BY <1>1, <1>9, <2>2, <2>3
<1> QED BY <1>3, <1>5, <1>8, <1>9 DEF new

\* Who may be retried has a file that failed.
LEMMA RetryNeedsFailed ==
    ASSUME NEW rec, RecOK(rec), rec.status \in Final, NEW d \in Doc, Retried(d, rec.files[d]) # NoFile
    PROVE  rec.files[d].status = "failed"
<1> DEFINE f == rec.files[d]
<1>1. FailedChunks(f) # {} => f.status \in {"failed", "cancelled"}
  BY DEF RecOK, EndOK
<1>2. f.status \notin {"none", "cancelled"} /\ (ChunkRetry(f) \/ FileRetry(f))
  BY DEF Retried
<1> QED BY <1>1, <1>2 DEF ChunkRetry, FileRetry

\* What a retry starts with.
LEMMA RetriedOK ==
    ASSUME NEW d \in Doc, NEW f \in FileType
    PROVE  /\ Retried(d, f) = NoFile \/ Retried(d, f).status = "queued"
           /\ Retried(d, f).status # "none" => f.status # "none"
           /\ FileOK(d, Retried(d, f)) /\ \A all, put : Stored(d, Retried(d, f), all, put)
<1>1. {i - 1 : i \in FailedChunks(f)} \in SUBSET Nat
  BY ChunksAre DEF FailedChunks
<1>2. \/ Retried(d, f) = NoFile
      \/ Retried(d, f) = NewFile("chunk", {i - 1 : i \in FailedChunks(f)})
      \/ Retried(d, f) = NewFile("file", {})
  BY DEF Retried
<1>3. f.status = "none" => Retried(d, f) = NoFile
  BY DEF Retried
<1> QED BY <1>1, <1>2, <1>3, NoFileOK, NewFileOK

-----------------------------------------------------------------------------
(* The records of the tasks *)

LEMMA StoredGrows ==
    ASSUME NEW d, NEW f, NEW all, NEW put, NEW more, NEW added,
           Stored(d, f, all, put), all \subseteq more, put \subseteq added
    PROVE  Stored(d, f, more, added)
BY DEF Stored

\* Nothing that was stored is forgotten: it is there or deleted.
Grown == \A d \in Doc : All(d) \subseteq All(d)' /\ Put(d) \subseteq Put(d)'

LEMMA StoresStay ==
    ASSUME UNCHANGED <<para, whole, gone>>
    PROVE  Grown /\ \A d \in Doc : All(d)' = All(d) /\ Put(d)' = Put(d)
<1>1. ASSUME NEW d \in Doc PROVE All(d)' = All(d) /\ Put(d)' = Put(d)
  BY DEF All, Put
<1> QED BY <1>1 DEF Grown

\* One record is replaced.
LEMMA RecordReplaced ==
    ASSUME TasksOK, NEW t \in Task, NEW rec, task' = [task EXCEPT ![t] = rec], RecOK(rec), Grown,
           \A d \in Doc : Stored(d, rec.files[d], All(d)', Put(d)')
    PROVE  TasksOK' /\ task'[t] = rec /\ \A u \in Task \ {t} : task'[u] = task[u]
<1>1. rec \in TaskRecord /\ task \in [Task -> TaskRecord]
  BY DEF TasksOK, RecOK
<1>2. task' \in [Task -> TaskRecord] /\ task'[t] = rec /\ \A u \in Task \ {t} : task'[u] = task[u]
  BY <1>1
<1>3. ASSUME NEW u \in Task
      PROVE  RecOK(task'[u]) /\ \A d \in Doc : Stored(d, task'[u].files[d], All(d)', Put(d)')
  <2>1. CASE u = t
    BY <1>2, <2>1
  <2>2. CASE u # t
    <3>1. RecOK(task[u]) /\ \A d \in Doc : Stored(d, task[u].files[d], All(d), Put(d))
      BY DEF TasksOK
    <3>2. \A d \in Doc : Stored(d, task[u].files[d], All(d)', Put(d)')
      BY <3>1, StoredGrows DEF Grown
    <3>3. task'[u] = task[u]
      BY <1>2, <2>2
    <3> QED BY <3>1, <3>2, <3>3
  <2> QED BY <2>1, <2>2
<1> QED BY <1>2, <1>3 DEF TasksOK

\* The tasks stay as they are.
LEMMA RecordsStay ==
    ASSUME TasksOK, UNCHANGED task, Grown
    PROVE  TasksOK'
<1>1. ASSUME NEW t \in Task, NEW d \in Doc
      PROVE  Stored(d, task[t].files[d], All(d)', Put(d)')
  BY StoredGrows DEF TasksOK, Grown
<1> QED BY <1>1 DEF TasksOK

LEMMA RunningTask ==
    ASSUME IInv, run.phase # "idle"
    PROVE  run.task \in Task /\ run.task # None /\ task[run.task].status # "none"
<1>1. run.task # None /\ run.task \in Task /\ run.phase \in Phase
  BY DEF IInv, RunOK, FieldsOK
<1>2. task[run.task].status \in Final \cup {"queued", "cancelled", "preparing", "running", "cancel_requested"}
  BY <1>1 DEF IInv, RunOK, Phase
<1> QED BY <1>1, <1>2 DEF Final

LEMMA NoneIsNoTask == None \notin Task
<1> DEFINE n == Cardinality(Task)
<1>1. n \in Nat /\ Task = 1 .. n
  BY TaskAssumption, FS_CardinalityType
<1> HIDE DEF n
<1> QED BY <1>1 DEF None

LEMMA RetryIs == ASSUME NEW t \in Task PROVE CanRetry(t) <=> Retriable(task[t])
BY DEF CanRetry, Retriable, RetryPlan

\* A file of the running task in the hands of its job.
LEMMA BusyFile ==
    ASSUME IInv, NEW d \in Doc, run.phase = "files"
    PROVE  /\ run.task \in Task /\ task[run.task].status = "running" /\ RecOK(task[run.task])
           /\ task \in [Task -> TaskRecord] /\ task[run.task] \in TaskRecord
           /\ FileOK(d, File(d)) /\ File(d) \in FileType /\ JobOK(d, job[d], File(d))
           /\ Stored(d, File(d), All(d), Put(d))
           /\ job \in [Doc -> JobState]
<1>1. run.task \in Task
  BY RunningTask
<1>2. task[run.task].status = "running" /\ JobOK(d, job[d], File(d))
  BY DEF IInv, RunOK, File
<1>3. RecOK(task[run.task]) /\ Stored(d, File(d), All(d), Put(d)) /\ task \in [Task -> TaskRecord]
  BY <1>1 DEF IInv, TasksOK, File
<1>4. FileOK(d, File(d)) /\ task[run.task] \in TaskRecord
  BY <1>3 DEF RecOK, File
<1>5. File(d) \in FileType /\ job \in [Doc -> JobState]
  BY <1>4 DEF FileOK, IInv, FieldsOK
<1> QED BY <1>1, <1>2, <1>3, <1>4, <1>5

\* The job of a file makes a step: the file and the job change together.
LEMMA FileReplaced ==
    ASSUME IInv, NEW d \in Doc, NEW f, run.phase = "files", job[d] # "none",
           SetFile(d, f), FileOK(d, f), f.status # "none",
           job' \in [Doc -> JobState], \A e \in Doc \ {d} : job'[e] = job[e], JobOK(d, job'[d], f),
           Grown, Stored(d, f, All(d)', Put(d)'), StoresOK',
           UNCHANGED <<queue, run, closing, temp>>
    PROVE  IInv'
<1> DEFINE r == run.task
           rec == [task[r] EXCEPT !.files[d] = f]
<1>1. /\ r \in Task /\ task[r].status = "running" /\ RecOK(task[r])
      /\ task \in [Task -> TaskRecord] /\ task[r] \in TaskRecord
      /\ FileOK(d, File(d)) /\ JobOK(d, job[d], File(d))
  BY BusyFile
<1>2. task' = [task EXCEPT ![r] = rec]
  BY DEF SetFile
<1>3. task[r].files \in [Doc -> FileType] /\ f \in FileType
  BY <1>1 DEF TaskRecord, FileOK
<1>4. /\ rec \in TaskRecord /\ rec.status = "running"
      /\ rec.files[d] = f /\ \A e \in Doc \ {d} : rec.files[e] = task[r].files[e]
  BY <1>1, <1>3 DEF TaskRecord
<1> HIDE DEF rec
<1>5. RecOK(rec)
  <2>1. \A e \in Doc : FileOK(e, rec.files[e])
    BY <1>1, <1>4 DEF RecOK
  <2>2. task[r].files[d].status # "none"
    BY <1>1 DEF JobOK, File
  <2>3. Single(rec.files)
    BY <1>1, <1>4, <2>2 DEF RecOK, Single
  <2>4. EndOK(rec)
    BY <1>4 DEF EndOK, Final
  <2> QED BY <1>4, <2>1, <2>3, <2>4 DEF RecOK
<1>6. \A e \in Doc : Stored(e, rec.files[e], All(e)', Put(e)')
  <2> SUFFICES ASSUME NEW e \in Doc, e # d
               PROVE  Stored(e, task[r].files[e], All(e)', Put(e)')
    BY <1>4
  <2>1. Stored(e, task[r].files[e], All(e), Put(e))
    BY <1>1 DEF IInv, TasksOK
  <2> QED BY <2>1, StoredGrows DEF Grown
<1>7. TasksOK' /\ task'[r] = rec /\ \A u \in Task \ {r} : task'[u] = task[u]
  BY <1>1, <1>2, <1>5, <1>6, RecordReplaced DEF IInv
<1>8. \A u \in Task : task'[u].status = task[u].status
  BY <1>1, <1>4, <1>7
<1>9. RunOK'
  <2>1. \A e \in Doc : JobOK(e, job'[e], task'[r].files[e])
    BY <1>4, <1>7 DEF IInv, RunOK
  <2>2. /\ run.task = None <=> run.phase = "idle"
        /\ \A t \in Task : task[t].status \in {"preparing", "running", "cancel_requested"} => t = run.task
    BY DEF IInv, RunOK
  <2> QED BY <1>1, <1>8, <2>1, <2>2 DEF RunOK
<1>10. QueueOK'
  <2>1. \A i \in 1 .. Len(queue) : queue[i] \in Task
    BY DEF IInv, QueueOK
  <2> QED BY <1>8, <2>1 DEF IInv, QueueOK
<1>11. TempOK'
  <2> SUFFICES ASSUME ~closing, NEW t \in Task,
                      \/ task'[t].status \in Pending \/ t = run.task
                      \/ task'[t].status \in Final /\ Retriable(task'[t])
               PROVE  t \in temp
    BY DEF TempOK
  <2>1. \/ task[t].status \in Pending \/ t = run.task
        \/ task[t].status \in Final /\ Retriable(task[t])
    BY <1>7, <1>8
  <2> QED BY <2>1 DEF IInv, TempOK
<1>12. FieldsOK'
  BY DEF IInv, FieldsOK
<1> QED BY <1>7, <1>9, <1>10, <1>11, <1>12 DEF IInv

-----------------------------------------------------------------------------
(* The steps of a file and its chunks *)

\* A step that leaves the stores alone.
LEMMA StoresUnchanged ==
    ASSUME IInv, UNCHANGED stores
    PROVE  StoresOK' /\ Grown /\ \A d \in Doc : All(d)' = All(d) /\ Put(d)' = Put(d)
<1>1. UNCHANGED <<para, whole, gone>>
  BY DEF stores
<1> QED BY <1>1, StoresStay DEF IInv, StoresOK, stores

\* The job of a file goes on to j.
LEMMA JobGoesOn ==
    ASSUME IInv, NEW d \in Doc, NEW j \in JobState, run.phase = "files", job' = [job EXCEPT ![d] = j]
    PROVE  job' \in [Doc -> JobState] /\ job'[d] = j /\ \A e \in Doc \ {d} : job'[e] = job[e]
<1>1. job \in [Doc -> JobState]
  BY DEF IInv, FieldsOK
<1> QED BY <1>1

LEMMA FileFails ==
    ASSUME IInv, NEW d \in Doc, run.phase = "files", job[d] \notin {"none", "done"}, FailFile(d)
    PROVE  IInv'
<1> DEFINE f == [File(d) EXCEPT !.status = "failed", !.error = TRUE]
<1>1. /\ FileOK(d, File(d)) /\ File(d) \in FileType /\ JobOK(d, job[d], File(d))
      /\ Stored(d, File(d), All(d), Put(d)) /\ job \in [Doc -> JobState]
  BY BusyFile
<1>2. File(d).status \notin {"none", "cancelled"}
  BY <1>1 DEF JobOK, JobState
<1>3. /\ f \in FileType /\ f.chunks = File(d).chunks /\ f.retry = File(d).retry /\ f.done = File(d).done
      /\ f.failed = File(d).failed /\ f.cancelled = File(d).cancelled /\ f.status = "failed"
  BY <1>1 DEF FileType
<1>4. SetFile(d, f) /\ job' = [job EXCEPT ![d] = "done"] /\ UNCHANGED <<queue, run, closing, temp, stores>>
  BY DEF FailFile, EndJob
<1> HIDE DEF f
<1>5. FileOK(d, f) /\ Stored(d, f, All(d), Put(d))
  BY <1>1, <1>2, <1>3, StatusSet
<1>6. JobOK(d, "done", f)
  BY <1>3 DEF JobOK
<1>7. StoresOK' /\ Grown /\ Stored(d, f, All(d)', Put(d)')
  BY <1>4, <1>5, StoresUnchanged
<1>8. job' \in [Doc -> JobState] /\ job'[d] = "done" /\ \A e \in Doc \ {d} : job'[e] = job[e]
  BY <1>4, JobGoesOn DEF JobState
<1> QED BY <1>3, <1>4, <1>5, <1>6, <1>7, <1>8, FileReplaced

LEMMA SkipKnownStep == ASSUME IInv, NEW d \in Doc, SkipKnown(d) PROVE IInv'
<1> DEFINE f == [File(d) EXCEPT !.status = "completed"]
<1>1. /\ FileOK(d, File(d)) /\ File(d) \in FileType /\ JobOK(d, job[d], File(d))
      /\ Stored(d, File(d), All(d), Put(d)) /\ run.phase = "files" /\ job[d] = "open"
  BY BusyFile DEF SkipKnown, Busy
<1>2. File(d).status = "queued" /\ File(d).chunks = <<>> /\ ~File(d).error
  BY <1>1 DEF JobOK, FileOK
<1>3. /\ f \in FileType /\ f.chunks = File(d).chunks /\ f.retry = File(d).retry /\ f.done = File(d).done
      /\ f.failed = File(d).failed /\ f.cancelled = File(d).cancelled /\ f.status = "completed"
      /\ f.error = File(d).error
  BY <1>1 DEF FileType
<1>4. SetFile(d, f) /\ job' = [job EXCEPT ![d] = "done"] /\ UNCHANGED <<queue, run, closing, temp, stores>>
  BY DEF SkipKnown, EndJob
<1> HIDE DEF f
<1>5. FileOK(d, f) /\ Stored(d, f, All(d), Put(d))
  <2>1. \A i \in DOMAIN File(d).chunks : File(d).chunks[i].status = "completed"
    BY <1>2
  <2> QED BY <1>1, <1>2, <1>3, <2>1, StatusSet
<1>6. JobOK(d, "done", f)
  BY <1>3 DEF JobOK
<1>7. StoresOK' /\ Grown /\ Stored(d, f, All(d)', Put(d)')
  BY <1>4, <1>5, StoresUnchanged
<1>8. job' \in [Doc -> JobState] /\ job'[d] = "done" /\ \A e \in Doc \ {d} : job'[e] = job[e]
  BY <1>1, <1>4, JobGoesOn DEF JobState
<1> QED BY <1>1, <1>3, <1>4, <1>5, <1>6, <1>7, <1>8, FileReplaced

LEMMA ReadFileStep == ASSUME IInv, NEW d \in Doc, ReadFile(d) PROVE IInv'
<1> DEFINE f == [File(d) EXCEPT !.status = "splitting"]
<1>1. /\ FileOK(d, File(d)) /\ File(d) \in FileType /\ JobOK(d, job[d], File(d))
      /\ Stored(d, File(d), All(d), Put(d)) /\ run.phase = "files" /\ job[d] = "open" /\ Read(d)
  BY BusyFile DEF ReadFile, Busy
<1>2. File(d).status = "queued" /\ File(d).chunks = <<>> /\ ~File(d).error
  BY <1>1 DEF JobOK, FileOK
<1>3. /\ f \in FileType /\ f.chunks = File(d).chunks /\ f.retry = File(d).retry /\ f.done = File(d).done
      /\ f.failed = File(d).failed /\ f.cancelled = File(d).cancelled /\ f.status = "splitting"
      /\ f.error = File(d).error
  BY <1>1 DEF FileType
<1>4. /\ SetFile(d, f) /\ job' = [job EXCEPT ![d] = "split"]
      /\ UNCHANGED <<queue, run, closing, temp, para, whole, gone, deleted>> /\ manifest' = manifest \ {d}
  BY DEF ReadFile
<1> HIDE DEF f
<1>5. FileOK(d, f) /\ Stored(d, f, All(d), Put(d))
  BY <1>1, <1>2, <1>3, StatusSet
<1>6. JobOK(d, "split", f)
  BY <1>1, <1>3 DEF JobOK
<1>7. Grown /\ Stored(d, f, All(d)', Put(d)')
  BY <1>4, <1>5, StoresStay
<1>8. StoresOK'
  BY <1>4 DEF IInv, StoresOK
<1>9. job' \in [Doc -> JobState] /\ job'[d] = "split" /\ \A e \in Doc \ {d} : job'[e] = job[e]
  BY <1>1, <1>4, JobGoesOn DEF JobState
<1> QED BY <1>1, <1>3, <1>4, <1>5, <1>6, <1>7, <1>8, <1>9, FileReplaced

\* The chunks that are registered are new ones, one for each part in its place.
LEMMA Registered ==
    ASSUME IInv, NEW d \in Doc, NEW parts \in Seq(Parts(d)), Busy(d, "split"), Register(d, parts),
           File(d).retry = "chunk" \/ Len(parts) = Len(Own[d])
    PROVE  IInv'
<1> DEFINE cs == [i \in DOMAIN parts |-> NewChunk(parts[i])]
           f == [File(d) EXCEPT !.status = "extracting", !.chunks = cs]
<1>1. /\ FileOK(d, File(d)) /\ File(d) \in FileType /\ JobOK(d, job[d], File(d))
      /\ run.phase = "files" /\ job[d] = "split"
  BY BusyFile DEF Busy
<1>2. File(d).status = "splitting" /\ File(d).chunks = <<>> /\ ~File(d).error /\ Read(d)
  BY <1>1 DEF JobOK, FileOK
<1>3. /\ Len(parts) \in Nat /\ DOMAIN parts = 1 .. Len(parts)
      /\ \A i \in 1 .. Len(parts) : parts[i] \in Parts(d) /\ parts[i] \in Part
  BY PartsAre
<1>4. \A i \in 1 .. Len(parts) : cs[i] = NewChunk(parts[i]) /\ cs[i] \in ChunkType
  BY <1>3 DEF NewChunk, ChunkType
<1>5. \A i \in 1 .. Len(parts) : cs[i].status = "queued" /\ cs[i].part \in Parts(d) /\ cs[i].wrote = "none"
  BY <1>3, <1>4 DEF NewChunk
<1>6. cs \in [1 .. Len(parts) -> ChunkType]
  BY <1>3, <1>4
<1>7. SetFile(d, f) /\ job' = [job EXCEPT ![d] = "chunks"] /\ UNCHANGED <<queue, run, closing, temp, stores>>
  BY DEF Register
<1> HIDE DEF cs
<1>8. cs \in Seq(ChunkType) /\ Len(cs) = Len(parts) /\ DOMAIN cs = 1 .. Len(parts)
  BY <1>3, <1>6, FunctionIsSeq
<1>9. /\ f \in FileType /\ f.chunks = cs /\ f.retry = File(d).retry /\ f.done = File(d).done
      /\ f.failed = File(d).failed /\ f.cancelled = File(d).cancelled /\ f.status = "extracting"
      /\ f.error = File(d).error
  BY <1>1, <1>8 DEF FileType
<1> HIDE DEF f
<1>10. FileOK(d, f)
  <2>1. \A s \in Closed : ChunksAt(f, s) = ChunksAt(File(d), s)
    BY <1>2, <1>5, <1>8, <1>9 DEF ChunksAt, Closed
  <2>2. Counted(d, f)
    BY <1>1, <1>9, <2>1 DEF FileOK, Counted, Closed
  <2> QED BY <1>2, <1>5, <1>8, <1>9, <2>2 DEF FileOK
<1>11. Stored(d, f, All(d)', Put(d)')
  BY <1>5, <1>8, <1>9 DEF Stored
<1>12. JobOK(d, "chunks", f)
  BY <1>2, <1>9 DEF JobOK
<1>13. StoresOK' /\ Grown
  BY <1>7, StoresUnchanged
<1>14. job' \in [Doc -> JobState] /\ job'[d] = "chunks" /\ \A e \in Doc \ {d} : job'[e] = job[e]
  BY <1>1, <1>7, JobGoesOn DEF JobState
<1> QED BY <1>1, <1>7, <1>9, <1>10, <1>11, <1>12, <1>13, <1>14, FileReplaced

LEMMA RegisterStep ==
    ASSUME IInv, NEW d \in Doc, RegisterChunks(d) \/ RegisterUnits(d)
    PROVE  IInv'
<1>1. CASE RegisterChunks(d)
  <2>1. PICK parts \in SetToSeqs(Selected(d, File(d))) : InOrder(parts) /\ Register(d, parts)
    BY <1>1 DEF RegisterChunks
  <2> DEFINE S == Selected(d, File(d))
             n == Cardinality(S)
  <2>2. Parts(d) = 1 .. Len(Own[d]) /\ Len(Own[d]) \in Nat /\ IsFiniteSet(Parts(d))
        /\ Cardinality(Parts(d)) = Len(Own[d])
    <3>1. Parts(d) = 1 .. Len(Own[d]) /\ Len(Own[d]) \in Nat
      BY PartsAre
    <3>2. IsFiniteSet(1 .. Len(Own[d])) /\ Cardinality(1 .. Len(Own[d])) = Len(Own[d])
      BY <3>1, FS_Interval
    <3> QED BY <3>1, <3>2
  <2>3. S \subseteq Parts(d) /\ (File(d).retry # "chunk" => S = Parts(d))
    BY DEF Selected
  <2> HIDE DEF S
  <2>4. n \in Nat
    BY <2>2, <2>3, FS_Subset, FS_CardinalityType
  <2>5. parts \in [1 .. n -> S]
    BY <2>1 DEF SetToSeqs, S
  <2> HIDE DEF n
  <2>6. parts \in [1 .. n -> Parts(d)]
    BY <2>3, <2>5
  <2>7. parts \in Seq(Parts(d)) /\ Len(parts) = n
    BY <2>4, <2>6, FunctionIsSeq
  <2>8. File(d).retry = "chunk" \/ Len(parts) = Len(Own[d])
    BY <2>2, <2>3, <2>7 DEF n
  <2> QED BY <1>1, <2>1, <2>7, <2>8, Registered DEF RegisterChunks
<1>2. CASE RegisterUnits(d)
  <2> DEFINE parts == [p \in Parts(d) |-> p]
  <2>1. Parts(d) = 1 .. Len(Own[d]) /\ Len(Own[d]) \in Nat
    BY PartsAre
  <2>2. parts \in [1 .. Len(Own[d]) -> Parts(d)]
    BY <2>1
  <2>3. Register(d, parts)
    BY <1>2 DEF RegisterUnits
  <2> HIDE DEF parts
  <2>4. parts \in Seq(Parts(d)) /\ Len(parts) = Len(Own[d])
    BY <2>1, <2>2, FunctionIsSeq
  <2> QED BY <1>2, <2>3, <2>4, Registered DEF RegisterUnits
<1> QED BY <1>1, <1>2

\* The job of a chunk makes a step that leaves the file in the hands of its job.
LEMMA ChunkStepDone ==
    ASSUME IInv, NEW d \in Doc, NEW i, NEW f, Busy(d, "chunks"), i \in DOMAIN File(d).chunks,
           SetFile(d, f), FileOK(d, f), f.status \in {"extracting", "writing"},
           Grown, Stored(d, f, All(d)', Put(d)'), StoresOK', UNCHANGED <<queue, run, job, closing, temp>>
    PROVE  IInv'
<1>1. JobOK(d, job[d], File(d)) /\ job[d] = "chunks" /\ job \in [Doc -> JobState] /\ run.phase = "files"
  BY BusyFile DEF Busy
<1>2. JobOK(d, job'[d], f)
  BY <1>1 DEF JobOK
<1> QED BY <1>1, <1>2, FileReplaced

\* A chunk of a file in the hands of its job.
LEMMA BusyChunk ==
    ASSUME IInv, NEW d \in Doc, NEW i, NEW s, AtChunk(d, i, s)
    PROVE  /\ Busy(d, "chunks") /\ i \in DOMAIN File(d).chunks /\ File(d).chunks[i].status = s
           /\ FileOK(d, File(d)) /\ File(d) \in FileType /\ File(d).status \in {"extracting", "writing"}
           /\ Stored(d, File(d), All(d), Put(d)) /\ Read(d) /\ run.phase = "files"
           /\ File(d).chunks[i].part \in Parts(d)
<1>1. Busy(d, "chunks") /\ i \in DOMAIN File(d).chunks /\ File(d).chunks[i].status = s
  BY DEF AtChunk, Chunk
<1>2. /\ FileOK(d, File(d)) /\ File(d) \in FileType /\ JobOK(d, job[d], File(d)) /\ run.phase = "files"
      /\ Stored(d, File(d), All(d), Put(d)) /\ job[d] = "chunks"
  BY <1>1, BusyFile DEF Busy
<1>3. File(d).chunks[i].part \in Parts(d)
  BY <1>1, <1>2 DEF FileOK
<1> QED BY <1>1, <1>2, <1>3 DEF JobOK

LEMMA SetChunkStep ==
    ASSUME IInv, NEW d \in Doc, NEW i, NEW s \in {"queued", "extracting"}, NEW status \in {"extracting", "writing"},
           AtChunk(d, i, s), SetChunk(d, i, status)
    PROVE  IInv'
<1> DEFINE f == WithStatus(File(d), i, status)
<1>1. /\ Busy(d, "chunks") /\ i \in DOMAIN File(d).chunks /\ File(d).chunks[i].status \notin Closed
      /\ FileOK(d, File(d)) /\ File(d).status \in {"extracting", "writing"}
      /\ Stored(d, File(d), All(d), Put(d))
  <2>1. /\ Busy(d, "chunks") /\ i \in DOMAIN File(d).chunks /\ File(d).chunks[i].status = s
        /\ FileOK(d, File(d)) /\ File(d).status \in {"extracting", "writing"}
        /\ Stored(d, File(d), All(d), Put(d))
    BY BusyChunk
  <2> QED BY <2>1 DEF Closed
<1>2. FileOK(d, f) /\ f.status = status
      /\ \A all, put : Stored(d, File(d), all, put) => Stored(d, f, all, put)
  BY <1>1, ChunkSet
<1>3. SetFile(d, f) /\ UNCHANGED <<queue, run, job, closing, temp, stores>>
  BY DEF SetChunk, WithStatus
<1> HIDE DEF f
<1>4. StoresOK' /\ Grown /\ Stored(d, f, All(d)', Put(d)')
  BY <1>1, <1>2, <1>3, StoresUnchanged
<1> QED BY <1>1, <1>2, <1>3, <1>4, ChunkStepDone

LEMMA FailChunkStep == ASSUME IInv, NEW d \in Doc, NEW i, FailChunk(d, i) PROVE IInv'
<1> DEFINE f == Failed(File(d), i)
<1>1. /\ Busy(d, "chunks") /\ i \in DOMAIN File(d).chunks /\ File(d).chunks[i].status \in {"extracting", "writing"}
      /\ FileOK(d, File(d)) /\ File(d).status \in {"extracting", "writing"}
      /\ Stored(d, File(d), All(d), Put(d))
  BY BusyChunk DEF FailChunk
<1>2. FileOK(d, f) /\ f.status = File(d).status
      /\ \A all, put : Stored(d, File(d), all, put) => Stored(d, f, all, put)
  BY <1>1, ChunkFailed
<1>3. SetFile(d, f) /\ UNCHANGED <<queue, run, job, closing, temp, stores>>
  BY DEF FailChunk
<1> HIDE DEF f
<1>4. StoresOK' /\ Grown /\ Stored(d, f, All(d)', Put(d)')
  BY <1>1, <1>2, <1>3, StoresUnchanged
<1> QED BY <1>1, <1>2, <1>3, <1>4, ChunkStepDone

LEMMA StoreParagraphStep == ASSUME IInv, NEW d \in Doc, NEW i, StoreParagraph(d, i) PROVE IInv'
<1> DEFINE f == [File(d) EXCEPT !.chunks[i].wrote = "paragraph"]
<1>1. /\ Busy(d, "chunks") /\ i \in DOMAIN File(d).chunks /\ File(d).chunks[i].status = "writing"
      /\ FileOK(d, File(d)) /\ File(d).status \in {"extracting", "writing"}
      /\ Stored(d, File(d), All(d), Put(d)) /\ File(d).chunks[i].part \in Parts(d)
  BY BusyChunk DEF StoreParagraph, AtWrite
<1>2. FileOK(d, f) /\ f.status = File(d).status
      /\ \A all, put : Stored(d, File(d), all, put) /\ File(d).chunks[i].part \in put => Stored(d, f, all, put)
  BY <1>1, ChunkWrote
<1>3. /\ SetFile(d, f) /\ UNCHANGED <<queue, run, job, closing, temp, whole, gone, manifest, deleted>>
      /\ para' = [para EXCEPT ![d] = @ \cup {File(d).chunks[i].part}]
  BY DEF StoreParagraph, Chunk
<1> HIDE DEF f
<1>4. Parts(d) \subseteq Nat
  BY PartsAre
<1>5. /\ para' \in [Doc -> SUBSET Nat] /\ para'[d] = para[d] \cup {File(d).chunks[i].part}
      /\ \A e \in Doc \ {d} : para'[e] = para[e]
  BY <1>1, <1>3, <1>4 DEF IInv, StoresOK
<1>6. StoresOK'
  BY <1>1, <1>3, <1>5 DEF IInv, StoresOK
<1>7. \A e \in Doc : para[e] \subseteq para'[e]
  BY <1>5
<1>8. Grown /\ File(d).chunks[i].part \in Put(d)'
  <2>1. \A e \in Doc : All(e) \subseteq All(e)' /\ Put(e) \subseteq Put(e)'
    <3> SUFFICES ASSUME NEW e \in Doc PROVE All(e) \subseteq All(e)' /\ Put(e) \subseteq Put(e)'
      OBVIOUS
    <3> QED BY <1>3, <1>7 DEF All, Put
  <2> QED BY <1>5, <2>1 DEF Grown, Put
<1>9. Stored(d, f, All(d)', Put(d)')
  <2>1. Stored(d, File(d), All(d)', Put(d)')
    BY <1>1, <1>8, StoredGrows DEF Grown
  <2> QED BY <1>2, <1>8, <2>1
<1> QED BY <1>1, <1>2, <1>3, <1>6, <1>8, <1>9, ChunkStepDone

LEMMA StoreEntitiesStep == ASSUME IInv, NEW d \in Doc, NEW i, StoreEntities(d, i) PROVE IInv'
<1> DEFINE f == [File(d) EXCEPT !.chunks[i].wrote = "entities"]
<1>1. /\ Busy(d, "chunks") /\ i \in DOMAIN File(d).chunks /\ File(d).chunks[i].status = "writing"
      /\ FileOK(d, File(d)) /\ File(d).status \in {"extracting", "writing"} /\ Read(d)
      /\ Stored(d, File(d), All(d), Put(d)) /\ File(d).chunks[i].wrote = "paragraph"
  BY BusyChunk DEF StoreEntities, AtWrite, Chunk
<1>2. FileOK(d, f) /\ f.status = File(d).status
      /\ \A all, put : Stored(d, File(d), all, put) /\ File(d).chunks[i].part \in put => Stored(d, f, all, put)
  BY <1>1, ChunkWrote
<1>3. SetFile(d, f) /\ UNCHANGED <<queue, run, job, closing, temp, stores>>
  BY DEF StoreEntities
<1> HIDE DEF f
<1>4. File(d).chunks[i].part \in Put(d)
  BY <1>1 DEF Stored
<1>5. StoresOK' /\ Grown /\ Stored(d, f, All(d)', Put(d)')
  BY <1>1, <1>2, <1>3, <1>4, StoresUnchanged
<1> QED BY <1>1, <1>2, <1>3, <1>5, ChunkStepDone

LEMMA StoreRelationsStep == ASSUME IInv, NEW d \in Doc, NEW i, StoreRelations(d, i) PROVE IInv'
<1> DEFINE f == Completed(File(d), i)
           p == File(d).chunks[i].part
<1>1. /\ Busy(d, "chunks") /\ i \in DOMAIN File(d).chunks /\ File(d).chunks[i].status = "writing"
      /\ FileOK(d, File(d)) /\ File(d).status \in {"extracting", "writing"} /\ Read(d)
      /\ Stored(d, File(d), All(d), Put(d)) /\ File(d).chunks[i].wrote = "entities"
  BY BusyChunk DEF StoreRelations, AtWrite, Chunk
<1>2. FileOK(d, f) /\ f.status = File(d).status
      /\ \A all, put : Stored(d, File(d), all, put) /\ p \in all => Stored(d, f, all, put)
  BY <1>1, ChunkCompleted
<1>3. /\ SetFile(d, f) /\ UNCHANGED <<queue, run, job, closing, temp, para, manifest, deleted>>
      /\ whole' = [whole EXCEPT ![d] = @ \cup ({p} \cap para[d])]
      /\ gone' = [gone EXCEPT ![d] = @ \ whole'[d]]
  BY DEF StoreRelations, Chunk
<1>4. p \in para[d] \cup gone[d]
  BY <1>1 DEF Stored, Put
<1> HIDE DEF f, p
<1>5. /\ whole' \in [Doc -> SUBSET Nat] /\ whole'[d] = whole[d] \cup ({p} \cap para[d])
      /\ \A e \in Doc \ {d} : whole'[e] = whole[e]
      /\ gone' \in [Doc -> SUBSET Nat] /\ gone'[d] = gone[d] \ whole'[d]
      /\ \A e \in Doc \ {d} : gone'[e] = gone[e]
  BY <1>3 DEF IInv, StoresOK
<1>6. StoresOK'
  BY <1>3, <1>5 DEF IInv, StoresOK
<1>7. whole'[d] \subseteq para[d]
  BY <1>5 DEF IInv, StoresOK
<1>8. Grown
  <2> SUFFICES ASSUME NEW e \in Doc PROVE All(e) \subseteq All(e)' /\ Put(e) \subseteq Put(e)'
    BY DEF Grown
  <2>1. CASE e = d
    BY <1>3, <1>5, <1>7, <2>1 DEF All, Put
  <2>2. CASE e # d
    BY <1>3, <1>5, <2>2 DEF All, Put
  <2> QED BY <2>1, <2>2
<1>9. p \in All(d)'
  BY <1>4, <1>5 DEF All
<1>10. Stored(d, f, All(d)', Put(d)')
  <2>1. Stored(d, File(d), All(d)', Put(d)')
    BY <1>1, <1>8, StoredGrows DEF Grown
  <2> QED BY <1>2, <1>9, <2>1
<1> QED BY <1>1, <1>2, <1>3, <1>6, <1>8, <1>10, ChunkStepDone

LEMMA ChunkStepKeeps == ASSUME IInv, NEW d \in Doc, NEW i, ChunkStep(d, i) PROVE IInv'
<1>1. CASE ExtractChunk(d, i)
  BY <1>1, SetChunkStep DEF ExtractChunk
<1>2. CASE WriteChunk(d, i)
  BY <1>2, SetChunkStep DEF WriteChunk
<1>3. CASE WriteUnit(d, i)
  BY <1>3, SetChunkStep DEF WriteUnit
<1> QED BY <1>1, <1>2, <1>3, FailChunkStep, StoreParagraphStep, StoreEntitiesStep, StoreRelationsStep DEF ChunkStep

\* All chunks have ended.
LEMMA CloseFileStep == ASSUME IInv, NEW d \in Doc, CloseFile(d) PROVE IInv'
<1> DEFINE f == [File(d) EXCEPT !.status = IF File(d).failed > 0 THEN "failed" ELSE "completed",
                                !.error = @ \/ File(d).failed > 0]
<1>1. /\ FileOK(d, File(d)) /\ File(d) \in FileType /\ JobOK(d, job[d], File(d))
      /\ Stored(d, File(d), All(d), Put(d)) /\ run.phase = "files" /\ job[d] = "chunks"
  BY BusyFile DEF CloseFile, Busy
<1>2. File(d).status \in {"extracting", "writing"}
  BY <1>1 DEF JobOK
<1>3. /\ f \in FileType /\ f.chunks = File(d).chunks /\ f.retry = File(d).retry /\ f.done = File(d).done
      /\ f.failed = File(d).failed /\ f.cancelled = File(d).cancelled
      /\ f.status = (IF File(d).failed > 0 THEN "failed" ELSE "completed")
      /\ f.error => File(d).error \/ File(d).failed > 0
  BY <1>1 DEF FileType
<1>4. /\ SetFile(d, f) /\ job' = [job EXCEPT ![d] = "done"] /\ manifest' = Record(File(d), d)
      /\ UNCHANGED <<queue, run, closing, temp, para, whole, gone, deleted>>
  BY DEF CloseFile, EndJob
<1> HIDE DEF f
<1>5. File(d).failed \in Nat
  BY <1>1 DEF FileType
<1>6. File(d).failed = 0 => \A i \in DOMAIN File(d).chunks : File(d).chunks[i].status = "completed"
  <2> SUFFICES ASSUME File(d).failed = 0, NEW i \in DOMAIN File(d).chunks
               PROVE  File(d).chunks[i].status = "completed"
    OBVIOUS
  <2>1. File(d).chunks[i].status \in Closed
    BY DEF CloseFile, ChunksDone
  <2>2. File(d).chunks[i].status # "cancelled"
    BY <1>1, <1>2 DEF FileOK
  <2>0. Mode[d] # "migration"
    BY <1>1 DEF CloseFile, Busy, IInv, RunOK, File, JobOK, Read
  <2>3. Cardinality(ChunksAt(File(d), "failed")) = 0
    BY <1>1, <2>0 DEF FileOK, Counted
  <2>4. ChunksAt(File(d), "failed") = {}
    BY <1>1, <2>3, ChunksFinite, FS_EmptySet
  <2> QED BY <2>1, <2>2, <2>4 DEF ChunksAt, Closed
<1>7. File(d).failed = 0 => ~File(d).error
  BY <1>1, <1>2 DEF FileOK, Closed
<1>8. FileOK(d, f) /\ Stored(d, f, All(d), Put(d))
  <2>1. CASE File(d).failed > 0
    <3>1. f.status = "failed"
      BY <1>3, <2>1
    <3> QED BY <1>1, <1>2, <1>3, <3>1, StatusSet
  <2>2. CASE File(d).failed = 0
    <3>1. f.status = "completed" /\ ~f.error
      BY <1>3, <1>7, <2>2
    <3> QED BY <1>1, <1>2, <1>3, <1>6, <2>2, <3>1, StatusSet
  <2> QED BY <1>5, <2>1, <2>2
<1>9. JobOK(d, "done", f) /\ f.status # "none"
  BY <1>3 DEF JobOK
<1>10. Grown /\ Stored(d, f, All(d)', Put(d)')
  BY <1>4, <1>8, StoresStay
<1>11. StoresOK'
  BY <1>4 DEF IInv, StoresOK, Record
<1>12. job' \in [Doc -> JobState] /\ job'[d] = "done" /\ \A e \in Doc \ {d} : job'[e] = job[e]
  BY <1>1, <1>4, JobGoesOn DEF JobState
<1> QED BY <1>1, <1>4, <1>8, <1>9, <1>10, <1>11, <1>12, FileReplaced

LEMMA FailsStep ==
    ASSUME IInv, NEW d \in Doc, SplitFails(d) \/ SelectModelFails(d) \/ SaveFails(d)
    PROVE  IInv'
BY FileFails DEF SplitFails, SelectModelFails, SaveFails, Busy

-----------------------------------------------------------------------------
(* Files with one chunk *)

\* A file that is not read stores nothing of its own.
LEMMA ChildStep ==
    ASSUME IInv, NEW d \in Doc, NEW f, NEW j \in JobState, ~Read(d), run.phase = "files", job[d] # "none",
           SetFile(d, f), FileOK(d, f), f.status # "none", JobOK(d, j, f), job' = [job EXCEPT ![d] = j],
           UNCHANGED <<queue, run, closing, temp, stores>>
    PROVE  IInv'
<1>1. job' \in [Doc -> JobState] /\ job'[d] = j /\ \A e \in Doc \ {d} : job'[e] = job[e]
  BY JobGoesOn
<1>2. StoresOK' /\ Grown
  BY StoresUnchanged
<1>3. Stored(d, f, All(d)', Put(d)')
  BY DEF Stored
<1> QED BY <1>1, <1>2, <1>3, FileReplaced

LEMMA OneChunkOK ==
    ASSUME NEW d \in Doc, NEW f, FileOK(d, f), f.status = "queued"
    PROVE  LET g == OneChunk(f) IN
           /\ FileOK(d, g) /\ g.status = "writing" /\ ~g.error
           /\ Len(g.chunks) = 1 /\ g.chunks[1].status = "writing" /\ 1 \in DOMAIN g.chunks
<1> DEFINE c == [NewChunk(1) EXCEPT !.status = "writing"]
           g == OneChunk(f)
<1>1. f \in FileType /\ f.chunks = <<>> /\ ~f.error
  BY DEF FileOK
<1>2. 1 \in Parts(d) /\ 1 \in Part
  BY PartsAre
<1>3. NewChunk(1) \in ChunkType
  BY <1>2 DEF NewChunk, ChunkType
<1>4. c \in ChunkType /\ c.status = "writing" /\ c.part = 1
  BY <1>3 DEF ChunkType, NewChunk
<1>5. g = [f EXCEPT !.status = "writing", !.chunks = <<c>>]
  BY DEF OneChunk
<1> HIDE DEF c, g
<1>6. <<c>> \in Seq(ChunkType) /\ Len(<<c>>) = 1 /\ <<c>>[1] = c
  BY <1>4
<1>7. /\ g \in FileType /\ g.chunks = <<c>> /\ g.status = "writing" /\ g.error = f.error
      /\ g.done = f.done /\ g.failed = f.failed /\ g.cancelled = f.cancelled
  BY <1>1, <1>5, <1>6 DEF FileType
<1>8. DOMAIN g.chunks = {1} /\ g.chunks[1] = c
  BY <1>6, <1>7
<1>9. \A s \in Closed : ChunksAt(g, s) = ChunksAt(f, s)
  BY <1>1, <1>4, <1>8 DEF ChunksAt, Closed
<1>10. Counted(d, g)
  BY <1>7, <1>9 DEF FileOK, Counted, Closed
<1>11. FileOK(d, g)
  BY <1>1, <1>2, <1>4, <1>7, <1>8, <1>10 DEF FileOK
<1> QED BY <1>1, <1>4, <1>6, <1>7, <1>8, <1>11 DEF g

\* What fails keeps its chunks.
LEMMA FailedEnd ==
    ASSUME NEW d \in Doc, NEW f, FileOK(d, f), f.status = "writing"
    PROVE  LET g == [f EXCEPT !.status = "failed", !.error = TRUE] IN
           FileOK(d, g) /\ g.status = "failed" /\ JobOK(d, "done", g)
<1> DEFINE g == [f EXCEPT !.status = "failed", !.error = TRUE]
<1>1. f \in FileType
  BY DEF FileOK
<1>2. /\ g \in FileType /\ g.chunks = f.chunks /\ g.retry = f.retry /\ g.done = f.done
      /\ g.failed = f.failed /\ g.cancelled = f.cancelled /\ g.status = "failed"
  BY <1>1 DEF FileType
<1> HIDE DEF g
<1>3. FileOK(d, g)
  BY <1>2, StatusSet
<1> QED BY <1>2, <1>3 DEF g, JobOK

LEMMA CompletedEnd ==
    ASSUME NEW d \in Doc, NEW f, FileOK(d, f), f.status = "writing", ~f.error,
           Len(f.chunks) = 1, f.chunks[1].status = "writing"
    PROVE  LET g == [Completed(f, 1) EXCEPT !.status = "completed"] IN
           FileOK(d, g) /\ g.status = "completed" /\ JobOK(d, "done", g)
<1> DEFINE h == Completed(f, 1)
           g == [h EXCEPT !.status = "completed"]
<1>1. 1 \in DOMAIN f.chunks /\ f \in FileType
  <2>1. f \in FileType
    BY DEF FileOK
  <2> QED BY <2>1, ChunksAre
<1>2. /\ FileOK(d, h) /\ h.status = "writing" /\ h.error = f.error
      /\ Len(h.chunks) = 1 /\ h.chunks[1].status = "completed"
  BY <1>1, ChunkCompleted
<1> HIDE DEF h
<1>3. h \in FileType
  BY <1>2 DEF FileOK
<1>4. /\ g \in FileType /\ g.chunks = h.chunks /\ g.retry = h.retry /\ g.done = h.done
      /\ g.failed = h.failed /\ g.cancelled = h.cancelled /\ g.status = "completed" /\ g.error = h.error
  BY <1>3 DEF FileType
<1> HIDE DEF g
<1>5. \A i \in DOMAIN h.chunks : h.chunks[i].status = "completed"
  <2>1. DOMAIN h.chunks = 1 .. 1
    BY <1>2, <1>3, ChunksAre
  <2> QED BY <1>2, <2>1
<1>6. ~g.error
  BY <1>2, <1>4
<1>7. FileOK(d, g)
  BY <1>2, <1>4, <1>5, <1>6, StatusSet
<1> QED BY <1>4, <1>7 DEF g, h, JobOK

\* A file that waits for its child process.
LEMMA ChildFile ==
    ASSUME IInv, NEW d \in Doc, Busy(d, "preflight") \/ Busy(d, "child")
    PROVE  /\ FileOK(d, File(d)) /\ File(d).status = "writing" /\ ~File(d).error /\ ~Read(d)
           /\ Len(File(d).chunks) = 1 /\ File(d).chunks[1].status = "writing" /\ 1 \in DOMAIN File(d).chunks
           /\ run.phase = "files" /\ job[d] \in {"preflight", "child"}
<1>1. /\ FileOK(d, File(d)) /\ File(d) \in FileType /\ JobOK(d, job[d], File(d))
      /\ run.phase = "files" /\ job[d] \in {"preflight", "child"}
  BY BusyFile DEF Busy
<1>2. Len(File(d).chunks) = 1 /\ File(d).chunks[1].status = "writing"
  BY <1>1 DEF JobOK
<1>3. 1 \in DOMAIN File(d).chunks
  BY <1>1, <1>2, ChunksAre
<1> QED BY <1>1, <1>2, <1>3 DEF JobOK

\* A file that is not read and has not begun.
LEMMA OpenFile ==
    ASSUME IInv, NEW d \in Doc, Busy(d, "open"), ~Read(d)
    PROVE  LET g == OneChunk(File(d)) IN
           /\ FileOK(d, g) /\ g.status = "writing" /\ ~g.error
           /\ Len(g.chunks) = 1 /\ g.chunks[1].status = "writing"
           /\ run.phase = "files" /\ job[d] = "open" /\ JobOK(d, "preflight", g) /\ JobOK(d, "child", g)
<1>1. FileOK(d, File(d)) /\ JobOK(d, job[d], File(d)) /\ run.phase = "files" /\ job[d] = "open"
  BY BusyFile DEF Busy
<1>2. File(d).status = "queued"
  BY <1>1 DEF JobOK
<1> DEFINE g == OneChunk(File(d))
<1>3. /\ FileOK(d, g) /\ g.status = "writing" /\ ~g.error
      /\ Len(g.chunks) = 1 /\ g.chunks[1].status = "writing"
  BY <1>1, <1>2, OneChunkOK
<1> HIDE DEF g
<1>4. JobOK(d, "preflight", g) /\ JobOK(d, "child", g)
  BY <1>3 DEF JobOK
<1> QED BY <1>1, <1>3, <1>4 DEF g

LEMMA StartChildStep ==
    ASSUME IInv, NEW d \in Doc, StartMigration(d) \/ StartConversion(d)
    PROVE  IInv'
<1>1. Busy(d, "open") /\ ~Read(d) /\ SetFile(d, OneChunk(File(d))) /\ UNCHANGED <<queue, run, closing, temp, stores>>
      /\ \E j \in {"preflight", "child"} : job' = [job EXCEPT ![d] = j]
  BY DEF StartMigration, StartConversion, Read
<1>2. PICK j \in {"preflight", "child"} : job' = [job EXCEPT ![d] = j]
  BY <1>1
<1> DEFINE g == OneChunk(File(d))
<1>3. FileOK(d, g) /\ g.status = "writing" /\ run.phase = "files" /\ job[d] = "open" /\ JobOK(d, j, g)
  BY <1>1, OpenFile
<1> HIDE DEF g
<1>4. SetFile(d, g) /\ j \in JobState
  BY <1>1 DEF g, JobState
<1> QED BY <1>1, <1>2, <1>3, <1>4, ChildStep

LEMMA BackfillStep == ASSUME IInv, NEW d \in Doc, Backfill(d) PROVE IInv'
<1> DEFINE h == OneChunk(File(d))
<1>1. Busy(d, "open") /\ ~Read(d) /\ job' = [job EXCEPT ![d] = "done"] /\ UNCHANGED <<queue, run, closing, temp, stores>>
  BY DEF Backfill, Read, EndJob
<1>2. /\ FileOK(d, h) /\ h.status = "writing" /\ ~h.error
      /\ Len(h.chunks) = 1 /\ h.chunks[1].status = "writing"
      /\ run.phase = "files" /\ job[d] = "open"
  BY <1>1, OpenFile
<1>3. \/ SetFile(d, [Completed(h, 1) EXCEPT !.status = "completed"])
      \/ SetFile(d, [h EXCEPT !.status = "failed", !.error = TRUE])
  BY DEF Backfill
<1> HIDE DEF h
<1>4. \E f : SetFile(d, f) /\ FileOK(d, f) /\ f.status # "none" /\ JobOK(d, "done", f)
  <2>1. CASE SetFile(d, [Completed(h, 1) EXCEPT !.status = "completed"])
    BY <1>2, <2>1, CompletedEnd
  <2>2. CASE SetFile(d, [h EXCEPT !.status = "failed", !.error = TRUE])
    BY <1>2, <2>2, FailedEnd
  <2> QED BY <1>3, <2>1, <2>2
<1>5. "done" \in JobState
  BY DEF JobState
<1> QED BY <1>1, <1>2, <1>4, <1>5, ChildStep

\* The counts of a state file leave everything else of the file as it is.
LEMMA RefreshedOK ==
    ASSUME NEW d \in Doc, NEW f, FileOK(d, f), f.status = "writing", ~f.error,
           Len(f.chunks) = 1, f.chunks[1].status = "writing", NEW g, g \in Refreshed(d, f)
    PROVE  /\ FileOK(d, g) /\ g.status = "writing" /\ ~g.error /\ 1 \in DOMAIN g.chunks
           /\ Len(g.chunks) = 1 /\ g.chunks[1].status = "writing"
<1>1. f \in FileType /\ DOMAIN f.chunks = 1 .. 1
  <2>1. f \in FileType
    BY DEF FileOK
  <2> QED BY <2>1, ChunksAre
<1>2. CASE g = f
  BY <1>1, <1>2
<1>3. CASE \E n \in Reports(d) : g = [f EXCEPT !.done = n.good, !.failed = n.bad, !.cancelled = 0]
  <2>1. PICK n \in Reports(d) : g = [f EXCEPT !.done = n.good, !.failed = n.bad, !.cancelled = 0]
    BY <1>3
  <2>2. n.good \in Nat /\ n.bad \in Nat /\ Mode[d] = "migration"
    BY BoundAssumption DEF Reports
  <2>3. /\ g \in FileType /\ g.chunks = f.chunks /\ g.status = f.status /\ g.error = f.error
        /\ g.failed = n.bad /\ g.cancelled = 0
    BY <1>1, <2>1, <2>2 DEF FileType
  <2>4. ChunksAt(g, "failed") = {} /\ ChunksAt(g, "cancelled") = {}
    BY <1>1, <2>3 DEF ChunksAt
  <2>5. Counted(d, g)
    BY <2>2, <2>3, <2>4, FS_EmptySet DEF Counted
  <2>6. \A i \in DOMAIN g.chunks : g.chunks[i].part \in Parts(d) /\ g.chunks[i].status # "cancelled"
    BY <2>3 DEF FileOK
  <2>7. FileOK(d, g)
    BY <2>3, <2>5, <2>6 DEF FileOK
  <2> QED BY <1>1, <2>3, <2>7
<1> QED BY <1>2, <1>3 DEF Refreshed

LEMMA MigratedOK ==
    ASSUME NEW d \in Doc, NEW f, FileOK(d, f), f.status = "writing", Mode[d] = "migration",
           Len(f.chunks) = 1, f.chunks[1].status = "writing", NEW total \in Nat, NEW bad \in Nat
    PROVE  LET g == Migrated(f, total, bad) IN
           FileOK(d, g) /\ g.status = "completed" /\ JobOK(d, "done", g)
<1>1. f \in FileType /\ DOMAIN f.chunks = 1 .. 1 /\ f.chunks[1] \in ChunkType
  <2>1. f \in FileType
    BY DEF FileOK
  <2> QED BY <2>1, ChunksAre
<1> DEFINE c == [f.chunks[1] EXCEPT !.status = "completed"]
           cs == [f.chunks EXCEPT ![1] = c]
           good == IF f.done + f.failed > 0 THEN Least(f.done, total) ELSE total - Least(bad, total)
           lost == Least(IF f.done + f.failed > 0 THEN f.failed ELSE bad, total)
           e == (f.error \/ bad > 0)
           g == Migrated(f, total, bad)
<1>2. c \in ChunkType /\ c.status = "completed" /\ c.part = f.chunks[1].part
  BY <1>1 DEF ChunkType, Closed
<1>3. cs \in Seq(ChunkType) /\ Len(cs) = 1 /\ DOMAIN cs = 1 .. 1 /\ cs[1] = c
  BY <1>1, <1>2, ChunkReplaced
<1>4. good \in Nat /\ lost \in Nat /\ e \in BOOLEAN
  BY <1>1 DEF Least, FileType
<1>5. g = [f EXCEPT !.status = "completed", !.chunks = cs, !.cancelled = 0, !.done = good, !.failed = lost, !.error = e]
  BY DEF Migrated
<1> HIDE DEF g, good, lost, e, cs, c
<1>6. /\ g \in FileType /\ g.chunks = cs /\ g.status = "completed" /\ g.cancelled = 0 /\ g.failed = lost
  BY <1>1, <1>3, <1>4, <1>5 DEF FileType, Closed
<1>7. ChunksAt(g, "failed") = {} /\ ChunksAt(g, "cancelled") = {}
  BY <1>2, <1>3, <1>6 DEF ChunksAt
<1>8. Counted(d, g)
  BY <1>4, <1>6, <1>7, FS_EmptySet DEF Counted
<1>9. f.chunks[1].part \in Parts(d)
  BY <1>1 DEF FileOK
<1>10. \A i \in DOMAIN g.chunks : g.chunks[i].part \in Parts(d) /\ g.chunks[i].status = "completed"
  BY <1>2, <1>3, <1>6, <1>9
<1>11. FileOK(d, g)
  BY <1>6, <1>8, <1>10 DEF FileOK, Closed
<1> QED BY <1>6, <1>11 DEF g, JobOK

LEMMA PollStep == ASSUME IInv, NEW d \in Doc, Poll(d) PROVE IInv'
<1>1. Busy(d, "child") /\ UNCHANGED <<queue, run, job, closing, temp, stores>>
  BY DEF Poll
<1>2. /\ FileOK(d, File(d)) /\ File(d).status = "writing" /\ ~File(d).error /\ ~Read(d)
      /\ Len(File(d).chunks) = 1 /\ File(d).chunks[1].status = "writing"
      /\ run.phase = "files" /\ job[d] = "child"
  BY <1>1, ChildFile DEF Busy
<1>3. PICK f \in Refreshed(d, File(d)) : SetFile(d, f)
  BY DEF Poll
<1>4. /\ FileOK(d, f) /\ f.status = "writing" /\ ~f.error
      /\ Len(f.chunks) = 1 /\ f.chunks[1].status = "writing"
  BY <1>2, <1>3, RefreshedOK
<1>5. JobOK(d, "child", f) /\ "child" \in JobState
  BY <1>2, <1>4 DEF JobOK, JobState
<1>6. job' = [job EXCEPT ![d] = "child"]
  BY <1>1, <1>2 DEF IInv, FieldsOK
<1> QED BY <1>1, <1>2, <1>3, <1>4, <1>5, <1>6, ChildStep

LEMMA MigrationCompletesStep == ASSUME IInv, NEW d \in Doc, MigrationCompletes(d) PROVE IInv'
<1>1. /\ Busy(d, "child") /\ Mode[d] = "migration" /\ job' = [job EXCEPT ![d] = "done"]
      /\ UNCHANGED <<queue, run, closing, temp, stores>>
  BY DEF MigrationCompletes, EndJob
<1>2. /\ FileOK(d, File(d)) /\ File(d).status = "writing" /\ ~File(d).error /\ ~Read(d)
      /\ Len(File(d).chunks) = 1 /\ File(d).chunks[1].status = "writing"
      /\ run.phase = "files" /\ job[d] = "child"
  BY <1>1, ChildFile DEF Busy
<1>3. PICK f \in Refreshed(d, File(d)), total \in Rows \ {0}, bad \in Rows : SetFile(d, Migrated(f, total, bad))
  BY DEF MigrationCompletes
<1>4. total \in Nat /\ bad \in Nat
  BY BoundAssumption
<1>5. FileOK(d, f) /\ f.status = "writing" /\ Len(f.chunks) = 1 /\ f.chunks[1].status = "writing"
  BY <1>2, <1>3, RefreshedOK
<1> DEFINE g == Migrated(f, total, bad)
<1>6. FileOK(d, g) /\ g.status = "completed" /\ JobOK(d, "done", g)
  BY <1>1, <1>4, <1>5, MigratedOK
<1> HIDE DEF g
<1>7. SetFile(d, g) /\ "done" \in JobState
  BY <1>3 DEF g, JobState
<1> QED BY <1>1, <1>2, <1>6, <1>7, ChildStep

\* What fails with its only chunk.
LEMMA FailedChild ==
    ASSUME NEW d \in Doc, NEW f, FileOK(d, f), f.status = "writing", 1 \in DOMAIN f.chunks,
           f.chunks[1].status = "writing"
    PROVE  LET h == Failed(f, 1)
               g == [h EXCEPT !.status = "failed"]
           IN  /\ FileOK(d, h) /\ h.status = "writing"
               /\ FileOK(d, g) /\ g.status = "failed" /\ JobOK(d, "done", g)
<1> DEFINE h == Failed(f, 1)
           g == [h EXCEPT !.status = "failed"]
<1>1. FileOK(d, h) /\ h.status = "writing"
  BY ChunkFailed
<1> HIDE DEF h
<1>2. h \in FileType
  BY <1>1 DEF FileOK
<1>3. /\ g \in FileType /\ g.chunks = h.chunks /\ g.retry = h.retry /\ g.done = h.done
      /\ g.failed = h.failed /\ g.cancelled = h.cancelled /\ g.status = "failed"
  BY <1>2 DEF FileType
<1> HIDE DEF g
<1>4. FileOK(d, g)
  BY <1>1, <1>3, StatusSet
<1> QED BY <1>1, <1>3, <1>4 DEF g, h, JobOK

LEMMA ChildEndsStep ==
    ASSUME IInv, NEW d \in Doc, ConversionRefused(d) \/ ChildCompletes(d) \/ ChildFails(d)
    PROVE  IInv'
<1>1. /\ Busy(d, "preflight") \/ Busy(d, "child")
      /\ job' = [job EXCEPT ![d] = "done"] /\ UNCHANGED <<queue, run, closing, temp, stores>>
  BY DEF ConversionRefused, ChildCompletes, ChildFails, EndJob
<1>2. /\ FileOK(d, File(d)) /\ File(d).status = "writing" /\ ~File(d).error /\ ~Read(d)
      /\ Len(File(d).chunks) = 1 /\ File(d).chunks[1].status = "writing" /\ 1 \in DOMAIN File(d).chunks
      /\ run.phase = "files" /\ job[d] \in {"preflight", "child"}
  BY <1>1, ChildFile
<1>3. \E f : SetFile(d, f) /\ FileOK(d, f) /\ f.status # "none" /\ JobOK(d, "done", f)
  <2>1. CASE ConversionRefused(d)
    <3> DEFINE h == Failed(File(d), 1)
    <3>1. FileOK(d, h) /\ h.status = "writing"
      BY <1>2, FailedChild
    <3>2. PICK f \in {File(d), h} : SetFile(d, [f EXCEPT !.status = "failed", !.error = TRUE])
      BY <2>1 DEF ConversionRefused
    <3> HIDE DEF h
    <3>3. FileOK(d, f) /\ f.status = "writing"
      BY <1>2, <3>1
    <3> QED BY <3>2, <3>3, FailedEnd
  <2>2. CASE ChildCompletes(d)
    <3>1. SetFile(d, [Completed(File(d), 1) EXCEPT !.status = "completed"])
      BY <2>2 DEF ChildCompletes
    <3> QED BY <1>2, <3>1, CompletedEnd
  <2>3. CASE ChildFails(d)
    <3>1. PICK f \in Refreshed(d, File(d)) : SetFile(d, [Failed(f, 1) EXCEPT !.status = "failed"])
      BY <2>3 DEF ChildFails
    <3>2. FileOK(d, f) /\ f.status = "writing" /\ 1 \in DOMAIN f.chunks /\ f.chunks[1].status = "writing"
      BY <1>2, <3>1, RefreshedOK
    <3> DEFINE g == [Failed(f, 1) EXCEPT !.status = "failed"]
    <3>3. FileOK(d, g) /\ g.status = "failed" /\ JobOK(d, "done", g)
      BY <3>2, FailedChild
    <3> HIDE DEF g
    <3>4. SetFile(d, g)
      BY <3>1 DEF g
    <3> QED BY <3>3, <3>4
  <2> QED BY <2>1, <2>2, <2>3
<1>4. "done" \in JobState
  BY DEF JobState
<1> QED BY <1>1, <1>2, <1>3, <1>4, ChildStep

LEMMA ConvertStep == ASSUME IInv, NEW d \in Doc, Convert(d) PROVE IInv'
<1>1. /\ run.phase = "files" /\ job[d] = "preflight" /\ job' = [job EXCEPT ![d] = "child"]
      /\ UNCHANGED <<task, queue, run, closing, temp, stores>>
  BY DEF Convert, Busy
<1>2. job' \in [Doc -> JobState] /\ job'[d] = "child" /\ \A e \in Doc \ {d} : job'[e] = job[e]
  BY <1>1, JobGoesOn DEF JobState
<1>3. TasksOK' /\ StoresOK'
  BY <1>1, StoresUnchanged, RecordsStay DEF IInv
<1>4. \A e \in Doc : JobOK(e, job'[e], task[run.task].files[e])
  <2>1. \A e \in Doc : JobOK(e, job[e], task[run.task].files[e])
    BY <1>1 DEF IInv, RunOK
  <2>2. JobOK(d, "child", task[run.task].files[d])
    BY <1>1, <2>1 DEF JobOK
  <2> QED BY <1>2, <2>1, <2>2
<1>5. RunOK'
  BY <1>1, <1>4 DEF IInv, RunOK
<1> QED BY <1>1, <1>2, <1>3, <1>5 DEF IInv, FieldsOK, QueueOK, TempOK

LEMMA TerminateStep == ASSUME IInv, NEW d \in Doc, Terminate(d) PROVE IInv'
<1>1. /\ run.phase = "cancelling" /\ job' = [job EXCEPT ![d] = "done"]
      /\ UNCHANGED <<task, queue, run, closing, temp, stores>>
  BY DEF Terminate
<1>2. job' \in [Doc -> JobState]
  BY <1>1 DEF IInv, FieldsOK, JobState
<1>3. TasksOK' /\ StoresOK'
  BY <1>1, StoresUnchanged, RecordsStay DEF IInv
<1>4. RunOK'
  BY <1>1 DEF IInv, RunOK
<1> QED BY <1>1, <1>2, <1>3, <1>4 DEF IInv, FieldsOK, QueueOK, TempOK

LEMMA InvalidateManifestStep == ASSUME IInv, NEW d \in Doc, InvalidateManifest(d) PROVE IInv'
<1>1. /\ UNCHANGED <<task, queue, run, job, closing, temp, para, whole, gone>>
      /\ manifest' = manifest \ {d} /\ deleted' = [deleted EXCEPT !.docs = @ \ {d}]
  BY DEF InvalidateManifest
<1>2. StoresOK'
  BY <1>1 DEF IInv, StoresOK
<1>3. TasksOK'
  BY <1>1, StoresStay, RecordsStay DEF IInv
<1> QED BY <1>1, <1>2, <1>3 DEF IInv, FieldsOK, RunOK, QueueOK, TempOK

LEMMA FileStepKeeps == ASSUME IInv, NEW d \in Doc, FileStep(d) PROVE IInv'
BY SkipKnownStep, ReadFileStep, RegisterStep, FailsStep, CloseFileStep, StartChildStep, BackfillStep, ChildEndsStep,
   MigrationCompletesStep, ConvertStep, TerminateStep, InvalidateManifestStep DEF FileStep

LEMMA DeleteSourceStep == ASSUME IInv, NEW d \in Doc, DeleteSource(d) PROVE IInv'
<1>1. /\ UNCHANGED <<task, queue, run, job, closing, temp, manifest>> /\ d \in Deletable
      /\ gone' = [gone EXCEPT ![d] = @ \cup para[d]]
      /\ para' = [para EXCEPT ![d] = {}]
      /\ whole' = [whole EXCEPT ![d] = {}]
      /\ deleted' = [docs |-> deleted.docs \cup {d}, ever |-> deleted.ever \cup {d}]
  BY DEF DeleteSource
<1>2. /\ gone' \in [Doc -> SUBSET Nat] /\ gone'[d] = gone[d] \cup para[d]
      /\ \A e \in Doc \ {d} : gone'[e] = gone[e]
      /\ para' \in [Doc -> SUBSET Nat] /\ para'[d] = {} /\ \A e \in Doc \ {d} : para'[e] = para[e]
      /\ whole' \in [Doc -> SUBSET Nat] /\ whole'[d] = {} /\ \A e \in Doc \ {d} : whole'[e] = whole[e]
  BY <1>1 DEF IInv, StoresOK
<1>3. StoresOK'
  <2>1. manifest' \subseteq Doc /\ \A e \in Doc : whole'[e] \subseteq para'[e] /\ para'[e] \subseteq Parts(e)
    BY <1>1, <1>2 DEF IInv, StoresOK
  <2>2. deleted' \in [docs : SUBSET Doc, ever : SUBSET Doc] /\ deleted'.docs \subseteq deleted'.ever
    BY <1>1 DEF IInv, StoresOK
  <2> QED BY <1>2, <2>1, <2>2 DEF StoresOK
<1>4. Grown
  <2> SUFFICES ASSUME NEW e \in Doc PROVE All(e) \subseteq All(e)' /\ Put(e) \subseteq Put(e)'
    BY DEF Grown
  <2>1. whole[e] \subseteq para[e]
    BY DEF IInv, StoresOK
  <2>2. CASE e = d
    BY <1>2, <2>1, <2>2 DEF All, Put
  <2>3. CASE e # d
    BY <1>2, <2>3 DEF All, Put
  <2> QED BY <2>2, <2>3
<1>5. TasksOK'
  BY <1>1, <1>4, RecordsStay DEF IInv
<1> QED BY <1>1, <1>3, <1>5 DEF IInv, FieldsOK, RunOK, QueueOK, TempOK

-----------------------------------------------------------------------------
(* The steps of the worker and the run *)

LEMMA TakeStep == ASSUME IInv, Take PROVE IInv'
<1>1. /\ run.task = None /\ queue # <<>> /\ run' = [task |-> Head(queue), phase |-> "taken"]
      /\ queue' = Tail(queue) /\ UNCHANGED <<task, job, closing, temp, stores>>
  BY DEF Take
<1>2. /\ queue \in Seq(Task) /\ Len(queue) \in Nat \ {0}
      /\ \A i \in 1 .. Len(queue) : task[queue[i]].status = "queued" /\ queue[i] \in Task
      /\ \A i, j \in 1 .. Len(queue) : queue[i] = queue[j] => i = j
  BY <1>1, EmptySeq DEF IInv, QueueOK
<1>3. /\ Head(queue) = queue[1] /\ queue' \in Seq(Task) /\ Len(queue') = Len(queue) - 1
      /\ \A i \in 1 .. Len(queue') : queue'[i] = queue[i + 1] /\ i + 1 \in 1 .. Len(queue)
  BY <1>1, <1>2, HeadTailProperties
<1>4. run'.task = queue[1] /\ run'.phase = "taken" /\ queue[1] \in Task /\ task[queue[1]].status = "queued"
  BY <1>1, <1>2, <1>3
<1>5. QueueOK'
  <2>1. ASSUME NEW i \in 1 .. Len(queue')
        PROVE  task[queue'[i]].status = "queued" /\ queue'[i] # queue[1]
    <3>1. i + 1 # 1 /\ 1 \in 1 .. Len(queue) /\ i + 1 \in 1 .. Len(queue) /\ queue'[i] = queue[i + 1]
      BY <1>2, <1>3
    <3> QED BY <1>2, <3>1
  <2>2. ASSUME NEW i \in 1 .. Len(queue'), NEW j \in 1 .. Len(queue'), queue'[i] = queue'[j]
        PROVE  i = j
    <3>1. i + 1 = j + 1
      BY <1>2, <1>3, <2>2
    <3> QED BY <3>1
  <2> QED BY <1>1, <1>3, <1>4, <2>1, <2>2 DEF QueueOK
<1>6. RunOK'
  <2>1. \A t \in Task : task[t].status \notin {"preparing", "running", "cancel_requested"}
    BY <1>1, NoneIsNoTask DEF IInv, RunOK
  <2>2. run'.task # None
    BY <1>4, NoneIsNoTask
  <2> QED BY <1>1, <1>4, <2>1, <2>2 DEF RunOK
<1>7. TasksOK' /\ StoresOK'
  BY <1>1, StoresUnchanged, RecordsStay DEF IInv
<1>8. TempOK'
  BY <1>1, <1>4 DEF IInv, TempOK, Pending
<1>9. FieldsOK'
  BY <1>1, <1>4 DEF IInv, FieldsOK, Phase
<1> QED BY <1>5, <1>6, <1>7, <1>8, <1>9 DEF IInv

\* The task that runs changes its status and nothing else.
LEMMA StatusChanged ==
    ASSUME IInv, run.phase \in Phase \ {"idle"}, NEW s, task' = [task EXCEPT ![run.task].status = s],
           RecOK([task[run.task] EXCEPT !.status = s]), UNCHANGED stores
    PROVE  /\ TasksOK' /\ StoresOK' /\ run.task \in Task
           /\ task'[run.task].status = s /\ task'[run.task].files = task[run.task].files
           /\ \A u \in Task \ {run.task} : task'[u] = task[u]
<1> DEFINE r == run.task
           rec == [task[r] EXCEPT !.status = s]
<1>1. r \in Task /\ task \in [Task -> TaskRecord]
  BY RunningTask DEF IInv, TasksOK
<1>2. task' = [task EXCEPT ![r] = rec]
  OBVIOUS
<1>3. rec.status = s /\ rec.files = task[r].files
  BY <1>1 DEF TaskRecord
<1>4. Grown /\ StoresOK' /\ \A d \in Doc : All(d)' = All(d) /\ Put(d)' = Put(d)
  BY StoresUnchanged
<1>5. \A d \in Doc : Stored(d, rec.files[d], All(d)', Put(d)')
  BY <1>1, <1>3, <1>4 DEF IInv, TasksOK
<1> HIDE DEF rec
<1>6. RecOK(rec)
  BY DEF rec
<1>7. TasksOK' /\ task'[r] = rec /\ \A u \in Task \ {r} : task'[u] = task[u]
  BY <1>1, <1>2, <1>4, <1>5, <1>6, RecordReplaced DEF IInv
<1> QED BY <1>1, <1>3, <1>4, <1>7

\* The record of the task that runs, under another status.
LEMMA WithTaskStatus ==
    ASSUME NEW rec, RecOK(rec), NEW s \in Pending \cup Final, s \in {"queued", "preparing"} => Unstarted(rec.files),
           EndOK([rec EXCEPT !.status = s])
    PROVE  RecOK([rec EXCEPT !.status = s])
<1> DEFINE new == [rec EXCEPT !.status = s]
<1>1. rec \in TaskRecord
  BY DEF RecOK
<1>2. new \in TaskRecord /\ new.status = s /\ new.files = rec.files
  BY <1>1 DEF TaskRecord
<1>3. s # "none"
  BY DEF Pending, Final
<1> HIDE DEF new
<1>4. RecOK(new)
  <2>1. EndOK(new)
    BY DEF new
  <2> QED BY <1>2, <1>3, <2>1 DEF RecOK
<1> QED BY <1>4 DEF new

LEMMA OpenEndOK ==
    ASSUME NEW rec \in TaskRecord, NEW s \in Pending
    PROVE  EndOK([rec EXCEPT !.status = s])
<1> DEFINE new == [rec EXCEPT !.status = s]
<1>1. new.status = s
  BY DEF TaskRecord
<1> HIDE DEF new
<1>2. EndOK(new)
  BY <1>1 DEF EndOK, Pending, Final
<1> QED BY <1>2 DEF new

LEMMA PrepareStep == ASSUME IInv, Prepare PROVE IInv'
<1>1. /\ run.phase = "taken" /\ task[run.task].status = "queued"
      /\ task' = [task EXCEPT ![run.task].status = "preparing"]
      /\ run' = [run EXCEPT !.phase = "preparing"]
      /\ UNCHANGED <<queue, job, closing, temp, stores>>
  BY DEF Prepare
<1>2. run.task \in Task /\ run \in [task : Task \cup {None}, phase : Phase] /\ run.task # None
  BY <1>1, RunningTask DEF IInv, FieldsOK
<1>3. RecOK([task[run.task] EXCEPT !.status = "preparing"])
  <2>1. RecOK(task[run.task]) /\ Unstarted(task[run.task].files) /\ task[run.task] \in TaskRecord
    BY <1>1, <1>2 DEF IInv, TasksOK, RecOK
  <2>2. EndOK([task[run.task] EXCEPT !.status = "preparing"])
    BY <2>1, OpenEndOK DEF Pending
  <2> QED BY <2>1, <2>2, WithTaskStatus DEF Pending
<1>4. /\ TasksOK' /\ StoresOK'
      /\ task'[run.task].status = "preparing" /\ \A u \in Task \ {run.task} : task'[u] = task[u]
  BY <1>1, <1>3, StatusChanged DEF Phase
<1>5. run'.task = run.task /\ run'.phase = "preparing" /\ run' \in [task : Task \cup {None}, phase : Phase]
  BY <1>1, <1>2 DEF Phase
<1>6. RunOK'
  BY <1>2, <1>4, <1>5 DEF IInv, RunOK
<1>7. QueueOK'
  BY <1>1, <1>2, <1>4, <1>5 DEF IInv, QueueOK
<1>8. TempOK'
  <2>1. run.task \in temp \/ closing
    BY <1>2 DEF IInv, TempOK
  <2> QED BY <1>1, <1>4, <1>5, <2>1 DEF IInv, TempOK
<1> QED BY <1>1, <1>4, <1>5, <1>6, <1>7, <1>8 DEF IInv, FieldsOK

LEMMA StartStep == ASSUME IInv, Start PROVE IInv'
<1>1. /\ run.phase = "preparing"
      /\ task' = [task EXCEPT ![run.task].status = "running"]
      /\ run' = [run EXCEPT !.phase = "files"]
      /\ job' = [d \in Doc |-> IF d \in Files(run.task) THEN "open" ELSE "none"]
      /\ UNCHANGED <<queue, closing, temp, stores>>
  BY DEF Start
<1>2. run.task \in Task /\ run \in [task : Task \cup {None}, phase : Phase] /\ run.task # None
      /\ task[run.task].status = "preparing"
  BY <1>1, RunningTask DEF IInv, FieldsOK, RunOK
<1>3. RecOK(task[run.task]) /\ Unstarted(task[run.task].files) /\ task[run.task] \in TaskRecord
  BY <1>2 DEF IInv, TasksOK, RecOK
<1>4. RecOK([task[run.task] EXCEPT !.status = "running"])
  <2>2. EndOK([task[run.task] EXCEPT !.status = "running"])
    BY <1>3, OpenEndOK DEF Pending
  <2> QED BY <1>3, <2>2, WithTaskStatus DEF Pending
<1>5. /\ TasksOK' /\ StoresOK' /\ task'[run.task].status = "running"
      /\ task'[run.task].files = task[run.task].files /\ \A u \in Task \ {run.task} : task'[u] = task[u]
  BY <1>1, <1>4, StatusChanged DEF Phase
<1>6. run'.task = run.task /\ run'.phase = "files" /\ run' \in [task : Task \cup {None}, phase : Phase]
  BY <1>1, <1>2 DEF Phase
<1>7. job' \in [Doc -> JobState]
  BY <1>1 DEF JobState
<1>8. \A d \in Doc : JobOK(d, job'[d], task[run.task].files[d])
  BY <1>1, <1>3 DEF JobOK, Unstarted, Files
<1>9. RunOK'
  BY <1>2, <1>5, <1>6, <1>8 DEF IInv, RunOK
<1>10. QueueOK'
  BY <1>1, <1>2, <1>5, <1>6 DEF IInv, QueueOK
<1>11. TempOK'
  <2>1. run.task \in temp \/ closing
    BY <1>2 DEF IInv, TempOK
  <2> QED BY <1>1, <1>5, <1>6, <2>1 DEF IInv, TempOK
<1> QED BY <1>1, <1>5, <1>6, <1>7, <1>9, <1>10, <1>11 DEF IInv, FieldsOK

\* The task that ran has an end; its run goes on to another phase.
LEMMA TaskEnds ==
    ASSUME IInv, run.phase = "files", NEW s \in Final, NEW p \in {"notify", "leave"},
           EndOK([task[run.task] EXCEPT !.status = s]),
           task' = [task EXCEPT ![run.task].status = s], run' = [run EXCEPT !.phase = p],
           UNCHANGED <<queue, job, closing, temp, stores>>
    PROVE  IInv'
<1>1. run.task \in Task /\ run \in [task : Task \cup {None}, phase : Phase] /\ run.task # None
      /\ RecOK(task[run.task])
  BY RunningTask DEF IInv, FieldsOK, TasksOK
<1>2. s \notin {"queued", "preparing", "running", "cancel_requested"}
  BY DEF Final
<1>3. RecOK([task[run.task] EXCEPT !.status = s])
  BY <1>1, <1>2, WithTaskStatus
<1>4. /\ TasksOK' /\ StoresOK' /\ task'[run.task].status = s
      /\ \A u \in Task \ {run.task} : task'[u] = task[u]
  BY <1>3, StatusChanged DEF Phase
<1>5. run'.task = run.task /\ run'.phase = p /\ run' \in [task : Task \cup {None}, phase : Phase]
  BY <1>1 DEF Phase
<1>6. RunOK'
  <2>1. \A t \in Task : task'[t].status \in {"preparing", "running", "cancel_requested"} => t = run.task
    BY <1>2, <1>4 DEF IInv, RunOK
  <2>2. run'.task # None /\ run'.phase \notin {"idle", "taken", "preparing", "files", "cancelling"}
    BY <1>1, <1>5
  <2> QED BY <1>4, <1>5, <2>1, <2>2 DEF RunOK
<1>7. QueueOK'
  BY <1>4, <1>5 DEF IInv, QueueOK
<1>8. TempOK'
  <2>1. run.task \in temp \/ closing
    BY <1>1 DEF IInv, TempOK
  <2> QED BY <1>4, <1>5, <2>1 DEF IInv, TempOK
<1> QED BY <1>4, <1>5, <1>6, <1>7, <1>8 DEF IInv, FieldsOK

\* A completed file has no failed chunk; if it is no migration, nothing went wrong in it.
LEMMA CompletedFile ==
    ASSUME NEW d \in Doc, NEW f, FileOK(d, f), f.status = "completed"
    PROVE  FailedChunks(f) = {} /\ (Mode[d] # "migration" => f.failed = 0 /\ ~f.error)
<1>1. ChunksAt(f, "failed") = {}
  BY DEF FileOK, ChunksAt
<1>2. Mode[d] # "migration" => f.failed = 0
  BY <1>1, FS_EmptySet DEF FileOK, Counted
<1>3. FailedChunks(f) = {} /\ (Mode[d] # "migration" => ~f.error)
  BY <1>1 DEF FileOK, FailedChunks, ChunksAt
<1> QED BY <1>2, <1>3

LEMMA NoChunks ==
    ASSUME NEW d \in Doc, NEW f, FileOK(d, f), f.status \in {"none", "queued", "splitting"}
    PROVE  f.chunks = <<>> /\ FailedChunks(f) = {} /\ ~f.error /\ (f.status = "none" => f.failed = 0)
<1>1. f.chunks = <<>> /\ ~f.error /\ (f.status = "none" => f.failed = 0)
  BY DEF FileOK, NoFile
<1>2. FailedChunks(f) = {}
  BY <1>1 DEF FailedChunks
<1> QED BY <1>1, <1>2

LEMMA EndRunStep == ASSUME IInv, EndRun PROVE IInv'
<1> DEFINE rec == task[run.task]
           s == Outcome(run.task)
           new == [rec EXCEPT !.status = s]
<1>1. /\ run.phase = "files" /\ task' = [task EXCEPT ![run.task].status = s]
      /\ \E p \in {"notify", "leave"} : run' = [run EXCEPT !.phase = p]
      /\ UNCHANGED <<queue, job, closing, temp, stores>>
  BY DEF EndRun
<1>2. s \in Final
  BY DEF Outcome, Final
<1>3. run.task \in Task /\ RecOK(rec) /\ rec \in TaskRecord
  BY <1>1, RunningTask DEF IInv, TasksOK, RecOK
<1>4. ASSUME NEW d \in Doc
      PROVE  FileOK(d, rec.files[d]) /\ rec.files[d].status \in {"none", "completed", "failed"}
  <2>1. JobOK(d, job[d], rec.files[d]) /\ FileOK(d, rec.files[d])
    BY <1>1, <1>3 DEF IInv, RunOK, RecOK
  <2>2. rec.files[d].status = "none" \/ job[d] = "done"
    BY DEF EndRun, JobsDone, Files
  <2> QED BY <2>1, <2>2 DEF JobOK
<1>5. new.status = s /\ new.files = rec.files
  BY <1>3 DEF TaskRecord
<1>6. ~Some(run.task, "cancelled")
  BY <1>4 DEF Some
<1>7. s = IF Erred(run.task) THEN "completed_with_errors" ELSE "completed"
  BY <1>6 DEF Outcome
<1>8. Erred(run.task) => \E d \in Doc : rec.files[d].status = "failed" \/ RowsMissing(d, rec.files[d])
  <2> SUFFICES ASSUME NEW d \in Doc,
                      \/ rec.files[d].status = "failed" \/ rec.files[d].failed > 0 \/ rec.files[d].error
               PROVE  rec.files[d].status = "failed" \/ RowsMissing(d, rec.files[d])
    BY DEF Erred
  <2>1. FileOK(d, rec.files[d]) /\ rec.files[d].status \in {"none", "completed", "failed"}
    BY <1>4
  <2>2. /\ rec.files[d].status = "none" => rec.files[d].failed = 0 /\ ~rec.files[d].error
        /\ rec.files[d].status = "completed" /\ Mode[d] # "migration" => rec.files[d].failed = 0 /\ ~rec.files[d].error
    BY <2>1, CompletedFile, NoChunks
  <2> QED BY <2>1, <2>2 DEF RowsMissing
<1>9. ~Erred(run.task) => \A d \in Doc : rec.files[d].status # "failed" /\ ~RowsMissing(d, rec.files[d])
  BY DEF Erred, RowsMissing
<1>10. ASSUME NEW d \in Doc, FailedChunks(rec.files[d]) # {}
       PROVE  rec.files[d].status = "failed"
  <2>1. FileOK(d, rec.files[d]) /\ rec.files[d].status \in {"none", "completed", "failed"}
    BY <1>4
  <2> QED BY <1>10, <2>1, CompletedFile, NoChunks
<1> HIDE DEF new, s, rec
<1>11. EndOK(new)
  BY <1>4, <1>5, <1>7, <1>8, <1>9, <1>10 DEF EndOK, Closed, Final
<1> QED BY <1>1, <1>2, <1>11, TaskEnds DEF new, rec

LEMMA RunRaisesStep == ASSUME IInv, RunRaises PROVE IInv'
<1> DEFINE rec == task[run.task]
           new == [rec EXCEPT !.status = "failed"]
<1>1. /\ run.phase = "files" /\ task' = [task EXCEPT ![run.task].status = "failed"]
      /\ run' = [run EXCEPT !.phase = "leave"]
      /\ UNCHANGED <<queue, job, closing, temp, stores>>
  BY DEF RunRaises
<1>2. run.task \in Task /\ RecOK(rec) /\ rec \in TaskRecord
  BY <1>1, RunningTask DEF IInv, TasksOK, RecOK
<1>3. PICK d \in Doc : ~Read(d) /\ job[d] \in {"open", "preflight", "child"} /\ rec.files[d].status # "none"
  BY DEF RunRaises, Files
<1>4. JobOK(d, job[d], rec.files[d]) /\ FileOK(d, rec.files[d])
  BY <1>1, <1>2 DEF IInv, RunOK, RecOK
<1>5. FailedChunks(rec.files[d]) = {}
  <2>1. CASE job[d] = "open"
    BY <1>4, <2>1, NoChunks DEF JobOK
  <2>2. CASE job[d] \in {"preflight", "child"}
    <3>1. Len(rec.files[d].chunks) = 1 /\ rec.files[d].chunks[1].status = "writing"
      BY <1>4, <2>2 DEF JobOK
    <3>2. DOMAIN rec.files[d].chunks = 1 .. 1
      BY <1>4, <3>1, ChunksAre DEF FileOK
    <3> QED BY <3>1, <3>2 DEF FailedChunks
  <2> QED BY <1>3, <2>1, <2>2
<1>6. ASSUME NEW e \in Doc PROVE FailedChunks(rec.files[e]) = {}
  <2>1. CASE e = d
    BY <1>5, <2>1
  <2>2. CASE e # d
    <3>1. rec.files[e].status = "none"
      BY <1>2, <1>3, <2>2 DEF RecOK, Single
    <3>2. FileOK(e, rec.files[e])
      BY <1>2 DEF RecOK
    <3> QED BY <3>1, <3>2, NoChunks
  <2> QED BY <2>1, <2>2
<1>7. new.status = "failed" /\ new.files = rec.files
  BY <1>2 DEF TaskRecord
<1> HIDE DEF new, rec
<1>8. EndOK(new)
  BY <1>6, <1>7 DEF EndOK
<1>9. "failed" \in Final
  BY DEF Final
<1> QED BY <1>1, <1>8, <1>9, TaskEnds DEF new, rec

\* The worker leaves its task: the task has ended, its uploads are kept if a file failed.
LEMMA Released ==
    ASSUME IInv, run.phase # "idle", Release, TasksOK', StoresOK', UNCHANGED <<queue, closing>>,
           task'[run.task].status \in Final, \A u \in Task \ {run.task} : task'[u] = task[u],
           temp' \subseteq Task, temp \ {run.task} \subseteq temp',
           ~closing /\ (\E d \in Doc : task'[run.task].files[d].status = "failed") => run.task \in temp'
    PROVE  IInv'
<1>1. run.task \in Task /\ run.task # None /\ None \notin Task
  BY RunningTask, NoneIsNoTask
<1>2. run'.task = None /\ run'.phase = "idle" /\ run' \in [task : Task \cup {None}, phase : Phase]
      /\ job' \in [Doc -> JobState]
  BY DEF Release, Phase, JobState
<1>3. FieldsOK'
  BY <1>2 DEF IInv, FieldsOK
<1>4. RunOK'
  <2>1. ASSUME NEW t \in Task
        PROVE  task'[t].status \notin {"preparing", "running", "cancel_requested"}
    <3>1. CASE t = run.task
      BY <3>1 DEF Final
    <3>2. CASE t # run.task
      BY <3>2 DEF IInv, RunOK
    <3> QED BY <3>1, <3>2
  <2> QED BY <1>2, <2>1 DEF RunOK
<1>5. QueueOK'
  <2>1. \A i \in 1 .. Len(queue) : queue[i] \in Task
    BY DEF IInv, QueueOK
  <2> QED BY <1>1, <1>2, <2>1 DEF IInv, QueueOK
<1>6. TempOK'
  <2> SUFFICES ASSUME ~closing', NEW t \in Task,
                      \/ task'[t].status \in Pending \/ t = run'.task
                      \/ task'[t].status \in Final /\ Retriable(task'[t])
               PROVE  t \in temp'
    BY DEF TempOK
  <2>0. ~closing /\ t # run'.task
    BY <1>1, <1>2
  <2>1. CASE t = run.task
    <3>1. task'[t].status \in Final /\ RecOK(task'[t]) /\ Retriable(task'[t])
      BY <2>0, <2>1 DEF TasksOK, Final, Pending
    <3>2. \E d \in Doc : task'[t].files[d].status = "failed"
      BY <3>1, RetryNeedsFailed DEF Retriable
    <3> QED BY <2>0, <2>1, <3>2
  <2>2. CASE t # run.task
    BY <2>0, <2>2 DEF IInv, TempOK
  <2> QED BY <2>1, <2>2
<1> QED BY <1>3, <1>4, <1>5, <1>6 DEF IInv

\* Leaving a task that has its final record.
LEMMA LeaveStep == ASSUME IInv, RunCancelled \/ Leave PROVE IInv'
<1>1. /\ run.phase \in {"taken", "notify", "leave"} /\ task[run.task].status \in Final /\ Release
      /\ temp' = (temp \ {run.task}) \cup KeepTemp(run.task)
      /\ UNCHANGED <<task, queue, closing, stores>>
  BY DEF RunCancelled, Leave, Final, IInv, RunOK
<1>2. TasksOK' /\ StoresOK'
  BY <1>1, StoresUnchanged, RecordsStay DEF IInv
<1>3. run.task \in Task
  BY <1>1, RunningTask
<1>4. temp' \subseteq Task /\ temp \ {run.task} \subseteq temp'
  BY <1>1, <1>3 DEF KeepTemp, IInv, FieldsOK
<1>5. (\E d \in Doc : task'[run.task].files[d].status = "failed") => run.task \in temp'
  BY <1>1 DEF KeepTemp
<1> QED BY <1>1, <1>2, <1>4, <1>5, Released

LEMMA FinishCancelledStep == ASSUME IInv, FinishCancelled PROVE IInv'
<1> DEFINE r == run.task
           rec == Finalize(r)
<1>1. /\ run.phase = "cancelling" /\ task' = [task EXCEPT ![r] = rec] /\ Release
      /\ temp' = IF \E d \in Doc : rec.files[d].status = "failed" THEN temp ELSE temp \ {r}
      /\ UNCHANGED <<queue, closing, stores>>
  BY DEF FinishCancelled
<1>2. r \in Task /\ RecOK(task[r]) /\ task[r].status # "none"
      /\ \A d \in Doc : Stored(d, task[r].files[d], All(d), Put(d))
  BY <1>1, RunningTask DEF IInv, TasksOK
<1>3. Grown /\ StoresOK' /\ \A d \in Doc : All(d)' = All(d) /\ Put(d)' = Put(d)
  BY <1>1, StoresUnchanged
<1>4. /\ RecOK(rec) /\ rec.status \in Final
      /\ \A d \in Doc : Stored(d, rec.files[d], All(d), Put(d))
  <2>1. CASE task[r].status \in {"completed", "completed_with_errors", "failed"}
    <3>1. rec = task[r]
      BY <2>1 DEF Finalize
    <3> HIDE DEF rec
    <3> QED BY <1>2, <2>1, <3>1 DEF Final
  <2>2. CASE task[r].status \notin {"completed", "completed_with_errors", "failed"}
    <3>1. rec = MarkCancelled(task[r])
      BY <2>2 DEF Finalize
    <3> HIDE DEF rec
    <3>2. RecOK(rec) /\ rec.status = "cancelled"
          /\ \A d \in Doc : \A all, put : Stored(d, task[r].files[d], all, put) => Stored(d, rec.files[d], all, put)
      BY <1>2, <3>1, MarkedOK
    <3> QED BY <1>2, <3>2 DEF Final
  <2> QED BY <2>1, <2>2
<1> HIDE DEF rec
<1>5. \A d \in Doc : Stored(d, rec.files[d], All(d)', Put(d)')
  BY <1>3, <1>4
<1>6. TasksOK' /\ task'[r] = rec /\ \A u \in Task \ {r} : task'[u] = task[u]
  BY <1>1, <1>2, <1>3, <1>4, <1>5, RecordReplaced DEF IInv
<1>7. temp' \subseteq Task /\ temp \ {r} \subseteq temp'
  BY <1>1 DEF IInv, FieldsOK
<1>8. ~closing /\ (\E d \in Doc : task'[r].files[d].status = "failed") => r \in temp'
  BY <1>1, <1>2, <1>6 DEF IInv, TempOK
<1> QED BY <1>1, <1>3, <1>4, <1>6, <1>7, <1>8, Released

LEMMA RunStepKeeps == ASSUME IInv, RunStep PROVE IInv'
BY TakeStep, PrepareStep, StartStep, EndRunStep, RunRaisesStep, LeaveStep, FinishCancelledStep DEF RunStep

-----------------------------------------------------------------------------
(* The requests *)

\* A new task waits at the end of the queue.
LEMMA EnqueueStep ==
    ASSUME IInv, NEW t \in Task, NEW files, Enqueue(t, files), files \in [Doc -> FileType],
           \A d \in Doc : /\ FileOK(d, files[d]) /\ files[d].status \in {"none", "queued"}
                          /\ \A all, put : Stored(d, files[d], all, put),
           Single(files)
    PROVE  IInv'
<1> DEFINE rec == [status |-> "queued", files |-> files]
<1>1. /\ task[t].status = "none" /\ ~closing /\ task' = [task EXCEPT ![t] = rec]
      /\ queue' = Append(queue, t) /\ temp' = temp \cup {t}
      /\ UNCHANGED <<run, job, closing, stores>>
  BY DEF Enqueue, Next1
<1>2. rec.status = "queued" /\ rec.files = files /\ rec \in TaskRecord
  BY DEF TaskRecord, Pending
<1> HIDE DEF rec
<1>3. RecOK(rec)
  BY <1>2 DEF RecOK, EndOK, Final, Unstarted
<1>4. Grown /\ StoresOK' /\ \A d \in Doc : All(d)' = All(d) /\ Put(d)' = Put(d)
  BY <1>1, StoresUnchanged
<1>5. TasksOK' /\ task'[t] = rec /\ \A u \in Task \ {t} : task'[u] = task[u]
  BY <1>1, <1>2, <1>3, <1>4, RecordReplaced DEF IInv
<1>6. t # run.task
  <2>1. CASE run.phase = "idle"
    BY <2>1, NoneIsNoTask DEF IInv, RunOK
  <2>2. CASE run.phase # "idle"
    BY <1>1, <2>2, RunningTask
  <2> QED BY <2>1, <2>2
<1>7. queue \in Seq(Task) /\ \A i \in 1 .. Len(queue) : queue[i] \in Task /\ queue[i] # t
  BY <1>1 DEF IInv, QueueOK
<1>8. /\ queue' \in Seq(Task) /\ Len(queue') = Len(queue) + 1 /\ Len(queue) \in Nat
      /\ \A i \in 1 .. Len(queue) : queue'[i] = queue[i] /\ queue'[Len(queue) + 1] = t
  BY <1>1, <1>7, AppendProperties
<1>9. queue'[Len(queue) + 1] = t
  BY <1>1, <1>7, AppendProperties
<1>10. QueueOK'
  <2>1. ASSUME NEW i \in 1 .. Len(queue') PROVE task'[queue'[i]].status = "queued" /\ queue'[i] # run.task
    <3>1. CASE i \in 1 .. Len(queue)
      <4>1. queue'[i] = queue[i] /\ queue[i] \in Task \ {t}
        BY <1>7, <1>8, <3>1
      <4> QED BY <1>5, <3>1, <4>1 DEF IInv, QueueOK
    <3>2. CASE i = Len(queue) + 1
      BY <1>2, <1>5, <1>6, <1>9, <3>2
    <3> QED BY <1>8, <3>1, <3>2
  <2>2. ASSUME NEW i \in 1 .. Len(queue'), NEW j \in 1 .. Len(queue'), queue'[i] = queue'[j]
        PROVE  i = j
    <3>1. (i \in 1 .. Len(queue) \/ i = Len(queue) + 1) /\ (j \in 1 .. Len(queue) \/ j = Len(queue) + 1)
      BY <1>8
    <3>2. \A k \in 1 .. Len(queue) : queue'[k] = queue[k] /\ queue[k] # t
      BY <1>7, <1>8
    <3> QED BY <1>9, <2>2, <3>1, <3>2 DEF IInv, QueueOK
  <2> QED BY <1>1, <1>8, <2>1, <2>2 DEF QueueOK
<1>11. RunOK'
  <2>1. \A u \in Task : task'[u].status \in {"preparing", "running", "cancel_requested"} => u = run.task
    BY <1>2, <1>5 DEF IInv, RunOK
  <2>2. run.phase # "idle" => task'[run.task] = task[run.task]
    BY <1>5, <1>6, RunningTask
  <2> QED BY <1>1, <2>1, <2>2 DEF IInv, RunOK
<1>12. TempOK'
  BY <1>1, <1>5, <1>6 DEF IInv, TempOK
<1>13. FieldsOK'
  BY <1>1 DEF IInv, FieldsOK
<1> QED BY <1>4, <1>5, <1>10, <1>11, <1>12, <1>13 DEF IInv

LEMMA CreateStep == ASSUME IInv, NEW t \in Task, Create(t) PROVE IInv'
<1>1. PICK ds \in Batch[t] : Enqueue(t, [d \in Doc |-> IF d \in ds THEN NewFile("none", {}) ELSE NoFile])
  BY DEF Create
<1> DEFINE files == [d \in Doc |-> IF d \in ds THEN NewFile("none", {}) ELSE NoFile]
<1>2. \A d \in Doc : (files[d] = NewFile("none", {}) /\ d \in ds) \/ files[d] = NoFile
  OBVIOUS
<1>3. NoFile.status = "none" /\ NewFile("none", {}).status = "queued"
  BY DEF NoFile, NewFile
<1> HIDE DEF files
<1>4. ASSUME NEW d \in Doc
      PROVE  /\ FileOK(d, files[d]) /\ files[d].status \in {"none", "queued"}
             /\ \A all, put : Stored(d, files[d], all, put)
             /\ files[d].status # "none" => d \in ds
  <2>1. {} \in SUBSET Nat
    OBVIOUS
  <2> QED BY <1>2, <1>3, <2>1, NoFileOK, NewFileOK
<1>5. files \in [Doc -> FileType]
  <2>1. \A d \in Doc : files[d] \in FileType
    BY <1>4 DEF FileOK
  <2> QED BY <2>1 DEF files
<1>6. Single(files)
  <2> SUFFICES ASSUME NEW d \in Doc, NEW e \in Doc, d \in ds, e \in ds
               PROVE  Read(d) \/ d = e
    BY <1>4 DEF Single
  <2> QED BY BatchAssumption DEF Read
<1>7. Enqueue(t, files)
  BY <1>1 DEF files
<1> QED BY <1>4, <1>5, <1>6, <1>7, EnqueueStep

LEMMA RetryFailedStep == ASSUME IInv, NEW t \in Task, NEW u \in Task, RetryFailed(t, u) PROVE IInv'
<1> DEFINE files == RetryPlan(u)
<1>1. Enqueue(t, files)
  BY DEF RetryFailed
<1>2. RecOK(task[u]) /\ \A d \in Doc : task[u].files[d] \in FileType
  BY DEF IInv, TasksOK, RecOK, FileOK
<1>3. files = [d \in Doc |-> Retried(d, task[u].files[d])]
  BY DEF RetryPlan
<1>4. NoFile.status = "none"
  BY DEF NoFile
<1> HIDE DEF files
<1>5. ASSUME NEW d \in Doc
      PROVE  /\ FileOK(d, files[d]) /\ files[d].status \in {"none", "queued"}
             /\ \A all, put : Stored(d, files[d], all, put)
             /\ files[d].status # "none" => task[u].files[d].status # "none"
  <2>1. files[d] = Retried(d, task[u].files[d])
    BY <1>3
  <2> QED BY <1>2, <1>4, <2>1, RetriedOK
<1>6. files \in [Doc -> FileType]
  <2>1. \A d \in Doc : files[d] \in FileType
    BY <1>5 DEF FileOK
  <2> QED BY <1>3, <2>1
<1>7. Single(files)
  BY <1>2, <1>5 DEF RecOK, Single
<1> QED BY <1>1, <1>5, <1>6, <1>7, EnqueueStep

\* A task leaves the queue.
LEMMA RemovedFirst ==
    ASSUME NEW S, NEW q \in Seq(S), NEW t, \A i, j \in 1 .. Len(q) : q[i] = q[j] => i = j
    PROVE  LET p == RemoveFirst(q, t) IN
           /\ p \in Seq(S)
           /\ \A i \in 1 .. Len(p) : p[i] # t /\ \E k \in 1 .. Len(q) : p[i] = q[k]
           /\ \A i, j \in 1 .. Len(p) : p[i] = p[j] => i = j
<1> DEFINE p == RemoveFirst(q, t)
<1>1. CASE \A i \in 1 .. Len(q) : q[i] # t
  <2>1. RemoveFirst(q, t) = q
    BY <1>1 DEF RemoveFirst
  <2> QED BY <1>1, <2>1
<1>2. CASE \E i \in 1 .. Len(q) : q[i] = t
  <2>1. PICK k \in 1 .. Len(q) : q[k] = t
    BY <1>2
  <2>2. Len(q) \in Nat /\ k \in Nat
    BY LenProperties, <2>1
  <2>3. {i \in 1 .. Len(q) : q[i] = t} = {k}
    BY <2>1
  <2>4. Min({k}) = k
    BY <2>2 DEF Min
  <2>5. SelectInSeq(q, LAMBDA v : v = t) = k
    BY <2>3, <2>4 DEF SelectInSeq
  <2>6. p = RemoveAt(q, k)
    BY <1>2, <2>5 DEF RemoveFirst
  <2> DEFINE a == SubSeq(q, 1, k - 1)
             b == SubSeq(q, k + 1, Len(q))
  <2>7. p = a \o b
    BY <2>6 DEF RemoveAt
  <2>8. a \in Seq(S) /\ Len(a) = k - 1 /\ \A i \in 1 .. k - 1 : a[i] = q[i]
    BY <2>1, <2>2
  <2>9. b \in Seq(S) /\ Len(b) = Len(q) - k /\ \A i \in 1 .. Len(q) - k : b[i] = q[i + k]
    BY <2>1, <2>2
  <2> HIDE DEF p, a, b
  <2>10. /\ p \in Seq(S) /\ Len(p) = Len(q) - 1
         /\ \A i \in 1 .. Len(p) : p[i] = IF i <= k - 1 THEN a[i] ELSE b[i - (k - 1)]
    BY <2>2, <2>7, <2>8, <2>9, ConcatProperties
  <2>11. ASSUME NEW i \in 1 .. Len(p)
         PROVE  p[i] = q[IF i < k THEN i ELSE i + 1] /\ (IF i < k THEN i ELSE i + 1) \in (1 .. Len(q)) \ {k}
    <3>1. CASE i < k
      <4>1. i \in 1 .. k - 1 /\ i \in 1 .. Len(q) /\ i # k
        BY <2>2, <2>10, <3>1
      <4> QED BY <2>2, <2>8, <2>10, <3>1, <4>1
    <3>2. CASE ~(i < k)
      <4>1. i - (k - 1) \in 1 .. Len(q) - k /\ ~(i <= k - 1) /\ i + 1 \in 1 .. Len(q) /\ i + 1 # k
        BY <2>2, <2>10, <3>2
      <4>2. p[i] = b[i - (k - 1)] /\ b[i - (k - 1)] = q[(i - (k - 1)) + k]
        BY <2>9, <2>10, <4>1
      <4>3. (i - (k - 1)) + k = i + 1
        BY <2>2, <2>10
      <4> QED BY <3>2, <4>1, <4>2, <4>3
    <3> QED BY <3>1, <3>2
  <2>12. \A i \in 1 .. Len(p) : p[i] # t /\ \E m \in 1 .. Len(q) : p[i] = q[m]
    BY <2>1, <2>11
  <2>13. ASSUME NEW i \in 1 .. Len(p), NEW j \in 1 .. Len(p), p[i] = p[j]
         PROVE  i = j
    <3>1. (IF i < k THEN i ELSE i + 1) = (IF j < k THEN j ELSE j + 1)
      BY <2>11, <2>13
    <3>2. i \in Nat /\ j \in Nat
      BY <2>10
    <3> QED BY <2>2, <3>1, <3>2
  <2> QED BY <2>10, <2>12, <2>13 DEF p
<1> QED BY <1>1, <1>2

\* A task that waits is marked and leaves the queue.
LEMMA CancelQueuedStep ==
    ASSUME IInv, NEW t \in Task, task[t].status = "queued",
           task' = [task EXCEPT ![t] = MarkCancelled(@)], queue' = RemoveFirst(queue, t),
           UNCHANGED <<run, job, closing, temp, stores>>
    PROVE  IInv'
<1> DEFINE rec == MarkCancelled(task[t])
<1>1. RecOK(task[t]) /\ task \in [Task -> TaskRecord] /\ \A d \in Doc : Stored(d, task[t].files[d], All(d), Put(d))
  BY DEF IInv, TasksOK
<1>2. task' = [task EXCEPT ![t] = rec]
  OBVIOUS
<1> HIDE DEF rec
<1>3. /\ RecOK(rec) /\ rec.status = "cancelled"
      /\ \A d \in Doc : Stored(d, rec.files[d], All(d), Put(d))
  <2>1. /\ RecOK(rec) /\ rec.status = "cancelled"
        /\ \A d \in Doc : \A all, put : Stored(d, task[t].files[d], all, put) => Stored(d, rec.files[d], all, put)
    BY <1>1, MarkedOK DEF rec
  <2> QED BY <1>1, <2>1
<1>4. Grown /\ StoresOK' /\ \A d \in Doc : All(d)' = All(d) /\ Put(d)' = Put(d)
  BY StoresUnchanged
<1>5. \A d \in Doc : Stored(d, rec.files[d], All(d)', Put(d)')
  BY <1>3, <1>4
<1>6. TasksOK' /\ task'[t] = rec /\ \A u \in Task \ {t} : task'[u] = task[u]
  BY <1>2, <1>3, <1>4, <1>5, RecordReplaced DEF IInv
<1>7. run.phase = "preparing" => run.task # t
  BY DEF IInv, RunOK
<1>8. run.phase \in {"files", "notify", "leave", "cancelling"} => run.task # t
  BY DEF IInv, RunOK, Final
<1>9. RunOK'
  <2>1. \A u \in Task : task'[u].status \in {"preparing", "running", "cancel_requested"} => u = run.task
    BY <1>3, <1>6 DEF IInv, RunOK
  <2>2. run.phase # "idle" => run.task \in Task
    BY RunningTask
  <2>3. run.phase = "taken" => task'[run.task].status \in {"queued", "cancelled"}
    BY <1>3, <1>6, <2>2 DEF IInv, RunOK
  <2>4. run.phase \in {"preparing", "files", "notify", "leave", "cancelling"} => task'[run.task] = task[run.task]
    BY <1>6, <1>7, <1>8, <2>2
  <2>5. run.phase = "preparing" => task'[run.task].status = "preparing"
    BY <2>4 DEF IInv, RunOK
  <2>6. run.phase = "files" =>
          /\ task'[run.task].status = "running"
          /\ \A d \in Doc : JobOK(d, job[d], task'[run.task].files[d])
    BY <2>4 DEF IInv, RunOK
  <2>7. run.phase \in {"notify", "leave"} => task'[run.task].status \in Final
    BY <2>4 DEF IInv, RunOK
  <2>8. run.phase = "cancelling" =>
          task'[run.task].status = "cancel_requested" \/ (closing /\ task'[run.task].status \in Final)
    BY <2>4 DEF IInv, RunOK
  <2>9. run.task = None <=> run.phase = "idle"
    BY DEF IInv, RunOK
  <2> QED BY <2>1, <2>3, <2>5, <2>6, <2>7, <2>8, <2>9 DEF RunOK
<1>10. QueueOK'
  <2>1. /\ queue \in Seq(Task)
        /\ \A i, j \in 1 .. Len(queue) : queue[i] = queue[j] => i = j
        /\ \A i \in 1 .. Len(queue) : queue[i] \in Task /\ task[queue[i]].status = "queued" /\ queue[i] # run.task
    BY DEF IInv, QueueOK
  <2>2. /\ queue' \in Seq(Task)
        /\ \A i \in 1 .. Len(queue') : queue'[i] # t /\ \E k \in 1 .. Len(queue) : queue'[i] = queue[k]
        /\ \A i, j \in 1 .. Len(queue') : queue'[i] = queue'[j] => i = j
    BY <2>1, RemovedFirst
  <2>3. \A i \in 1 .. Len(queue') : task'[queue'[i]].status = "queued" /\ queue'[i] # run.task
    BY <1>6, <2>1, <2>2
  <2> QED BY <2>2, <2>3 DEF QueueOK
<1>11. TempOK'
  <2>1. task[t].status \in Pending
    BY DEF Pending
  <2> QED BY <1>6, <2>1 DEF IInv, TempOK
<1> QED BY <1>4, <1>6, <1>9, <1>10, <1>11 DEF IInv, FieldsOK

\* The run of a task that is prepared or runs is told to stop.
LEMMA CancelRunningStep ==
    ASSUME IInv, NEW t \in Task, task[t].status \in {"preparing", "running"},
           task' = [task EXCEPT ![t].status = "cancel_requested"], run' = [run EXCEPT !.phase = "cancelling"],
           UNCHANGED <<queue, job, closing, temp, stores>>
    PROVE  IInv'
<1>1. t = run.task /\ run.phase \in Phase \ {"idle"} /\ run.task # None
      /\ run \in [task : Task \cup {None}, phase : Phase]
  <2>1. t = run.task
    BY DEF IInv, RunOK
  <2> QED BY <2>1, NoneIsNoTask DEF IInv, RunOK, FieldsOK
<1>2. RecOK([task[run.task] EXCEPT !.status = "cancel_requested"])
  <2>1. RecOK(task[run.task]) /\ task[run.task] \in TaskRecord
    BY <1>1 DEF IInv, TasksOK, RecOK
  <2>2. EndOK([task[run.task] EXCEPT !.status = "cancel_requested"])
    BY <2>1, OpenEndOK DEF Pending
  <2> QED BY <2>1, <2>2, WithTaskStatus DEF Pending
<1>3. /\ TasksOK' /\ StoresOK' /\ task'[run.task].status = "cancel_requested"
      /\ \A u \in Task \ {run.task} : task'[u] = task[u]
  BY <1>1, <1>2, StatusChanged
<1>4. run'.task = run.task /\ run'.phase = "cancelling" /\ run' \in [task : Task \cup {None}, phase : Phase]
  BY <1>1 DEF Phase
<1>5. RunOK'
  BY <1>1, <1>3, <1>4 DEF IInv, RunOK
<1>6. QueueOK'
  BY <1>1, <1>3, <1>4 DEF IInv, QueueOK
<1>7. TempOK'
  <2>1. run.task \in temp \/ closing
    BY <1>1 DEF IInv, TempOK
  <2> QED BY <1>3, <1>4, <2>1 DEF IInv, TempOK
<1> QED BY <1>3, <1>4, <1>5, <1>6, <1>7 DEF IInv, FieldsOK

LEMMA CancelTaskStep == ASSUME IInv, NEW t \in Task, CancelTask(t) PROVE IInv'
BY CancelQueuedStep, CancelRunningStep DEF CancelTask

\* Every pending task is marked, the queue is empty, and nobody asks for uploads any more.
LEMMA ShutdownStep == ASSUME IInv, Shutdown PROVE IInv'
<1>1. /\ closing' = TRUE /\ queue' = <<>>
      /\ task' = [t \in Task |-> IF task[t].status \in Pending THEN MarkCancelled(task[t]) ELSE task[t]]
      /\ run' = IF run.task = None THEN run ELSE [run EXCEPT !.phase = "cancelling"]
      /\ UNCHANGED <<job, temp, stores>>
  BY DEF Shutdown
<1>2. Grown /\ StoresOK' /\ \A d \in Doc : All(d)' = All(d) /\ Put(d)' = Put(d)
  BY <1>1, StoresUnchanged
<1>3. ASSUME NEW t \in Task
      PROVE  /\ RecOK(task'[t]) /\ task'[t].status \in Final \cup {"none"}
             /\ task'[t].status = "none" => task[t].status = "none"
             /\ \A d \in Doc : Stored(d, task'[t].files[d], All(d)', Put(d)')
  <2>1. RecOK(task[t]) /\ \A d \in Doc : Stored(d, task[t].files[d], All(d), Put(d))
    BY DEF IInv, TasksOK
  <2>2. CASE task[t].status \in Pending
    <3>1. task'[t] = MarkCancelled(task[t])
      BY <1>1, <2>2
    <3>2. /\ RecOK(task'[t]) /\ task'[t].status = "cancelled"
          /\ \A d \in Doc : \A all, put :
                Stored(d, task[t].files[d], all, put) => Stored(d, task'[t].files[d], all, put)
      BY <2>1, <2>2, <3>1, MarkedOK DEF Pending
    <3> QED BY <1>2, <2>1, <3>2 DEF Final
  <2>3. CASE task[t].status \notin Pending
    <3>1. task'[t] = task[t]
      BY <1>1, <2>3
    <3>2. task[t].status \in Final \cup {"none"}
      BY <2>1, <2>3 DEF RecOK, TaskRecord
    <3> QED BY <1>2, <2>1, <3>1, <3>2
  <2> QED BY <2>2, <2>3
<1>4. TasksOK'
  <2>1. \A t \in Task : task'[t] \in TaskRecord
    BY <1>3 DEF RecOK
  <2>2. task' \in [Task -> TaskRecord]
    BY <1>1, <2>1
  <2> QED BY <1>3, <2>2 DEF TasksOK
<1>5. /\ run' \in [task : Task \cup {None}, phase : Phase] /\ run'.task = run.task
      /\ run.task = None => run'.phase = "idle"
      /\ run.task # None => run'.phase = "cancelling"
  BY <1>1 DEF IInv, FieldsOK, RunOK, Phase
<1>6. RunOK'
  <2>1. \A t \in Task : task'[t].status \notin {"preparing", "running", "cancel_requested"}
    BY <1>3 DEF Final
  <2>2. run.task # None => task'[run.task].status \in Final
    <3> SUFFICES ASSUME run.task # None PROVE task'[run.task].status \in Final
      OBVIOUS
    <3>1. run.task \in Task /\ task[run.task].status # "none"
      BY RunningTask DEF IInv, RunOK
    <3> QED BY <1>3, <3>1
  <2> QED BY <1>1, <1>5, <2>1, <2>2 DEF RunOK
<1>7. QueueOK'
  BY <1>1 DEF QueueOK
<1>8. TempOK'
  BY <1>1 DEF TempOK
<1>9. FieldsOK'
  BY <1>1, <1>5 DEF IInv, FieldsOK
<1> QED BY <1>2, <1>4, <1>6, <1>7, <1>8, <1>9 DEF IInv

LEMMA SweepTempStep == ASSUME IInv, SweepTemp PROVE IInv'
<1>1. closing /\ temp' = {} /\ UNCHANGED <<task, queue, run, job, closing, stores>>
  BY DEF SweepTemp
<1>2. TasksOK' /\ StoresOK'
  BY <1>1, StoresUnchanged, RecordsStay DEF IInv
<1> QED BY <1>1, <1>2 DEF IInv, FieldsOK, RunOK, QueueOK, TempOK

-----------------------------------------------------------------------------
(* The inductive invariant holds *)

LEMMA InitEstablishes == ASSUME Init PROVE IInv
<1>1. NoTask.status = "none" /\ NoTask.files = [d \in Doc |-> NoFile]
  BY DEF NoTask
<1>2. ASSUME NEW d \in Doc
      PROVE  NoFile \in FileType /\ FileOK(d, NoFile) /\ \A all, put : Stored(d, NoFile, all, put)
  BY NoFileOK DEF FileOK
<1>3. NoTask \in TaskRecord
  BY <1>2 DEF NoTask, TaskRecord
<1>4. RecOK(NoTask)
  <2>1. Single(NoTask.files)
    BY <1>1 DEF Single, NoFile
  <2>2. EndOK(NoTask)
    BY <1>1 DEF EndOK, Final
  <2> QED BY <1>1, <1>2, <1>3, <2>1, <2>2 DEF RecOK
<1>5. task = [t \in Task |-> NoTask]
  BY DEF Init
<1>6. TasksOK
  BY <1>1, <1>2, <1>3, <1>4, <1>5 DEF TasksOK
<1>7. run.task = None /\ run.phase = "idle" /\ run \in [task : Task \cup {None}, phase : Phase]
  BY DEF Init, Phase
<1>8. FieldsOK
  BY <1>7 DEF Init, FieldsOK, JobState
<1>9. StoresOK
  <2>1. \A d \in Doc : Parts(d) \subseteq Nat
    BY PartsAre
  <2> QED BY <2>1, BoundAssumption DEF Init, StoresOK
<1>10. RunOK
  BY <1>1, <1>5, <1>7 DEF RunOK
<1>11. QueueOK
  BY DEF Init, QueueOK
<1>12. TempOK
  <2>1. \A t \in Task : t # run.task /\ task[t].status = "none"
    BY <1>1, <1>5, <1>7, NoneIsNoTask
  <2> QED BY <2>1 DEF TempOK, Pending, Final
<1> QED BY <1>6, <1>8, <1>9, <1>10, <1>11, <1>12 DEF IInv

LEMMA NextKeeps == ASSUME IInv, [Next]_vars PROVE IInv'
<1>1. CASE Loop
  BY <1>1, RunStepKeeps, FileStepKeeps, ChunkStepKeeps DEF Loop
<1>2. CASE \E t \in Task : Create(t) \/ CancelTask(t) \/ \E u \in Task : RetryFailed(t, u)
  BY <1>2, CreateStep, CancelTaskStep, RetryFailedStep
<1>3. CASE \E d \in Doc : DeleteSource(d)
  BY <1>3, DeleteSourceStep
<1>4. CASE Shutdown
  BY <1>4, ShutdownStep
<1>5. CASE SweepTemp
  BY <1>5, SweepTempStep
<1>6. CASE UNCHANGED vars
  <2>1. UNCHANGED <<task, queue, run, job, closing, temp, stores>>
    BY <1>6 DEF vars, stores
  <2>2. TasksOK' /\ StoresOK'
    BY <2>1, StoresUnchanged, RecordsStay DEF IInv
  <2> QED BY <2>1, <2>2 DEF IInv, FieldsOK, RunOK, QueueOK, TempOK
<1>7. CASE \E d \in Doc : Poll(d)
  BY <1>7, PollStep
<1> QED BY <1>1, <1>2, <1>3, <1>4, <1>5, <1>6, <1>7 DEF Next

\* The invariant holds however many tasks, files and chunks there are.
THEOREM Invariance == Spec => []IInv
<1>1. Init => IInv
  BY InitEstablishes
<1>2. IInv /\ [Next]_vars => IInv'
  BY NextKeeps
<1> QED BY <1>1, <1>2, PTL DEF Spec

-----------------------------------------------------------------------------
(* What is shown of a task is true *)

LEMMA TypesFollow == ASSUME IInv PROVE TypeOK
<1>1. task \in [Task -> [status : Pending \cup Final \cup {"none"}, files : [Doc -> FileType]]]
  BY DEF IInv, TasksOK, TaskRecord
<1>2. DOMAIN queue = 1 .. Len(queue)
  BY DEF IInv, QueueOK
<1>3. IsInjective(queue) /\ \A i \in DOMAIN queue : task[queue[i]].status = "queued" /\ queue[i] # run.task
  BY <1>2 DEF IInv, QueueOK, IsInjective
<1>4. run.task \in Task \cup {None} /\ (run.task = None <=> run.phase = "idle") /\ temp \subseteq Task
  BY DEF IInv, FieldsOK, RunOK
<1>5. /\ manifest \subseteq Doc /\ deleted.docs \subseteq deleted.ever
      /\ \A d \in Doc : whole[d] \subseteq para[d] /\ para[d] \subseteq Parts(d)
  BY DEF IInv, StoresOK
<1> QED BY <1>1, <1>3, <1>4, <1>5 DEF TypeOK

LEMMA EndedFollow == ASSUME IInv PROVE EndedAgrees
<1> SUFFICES ASSUME NEW t \in Task, task[t].status \in Final \ {"failed"}
             PROVE  /\ \A d \in Files(t) : task[t].files[d].status \in Closed
                    /\ task[t].status = "completed" =>
                          \A d \in Files(t) : task[t].files[d].status = "completed" /\ ~RowsMissing(d, task[t].files[d])
                    /\ task[t].status = "completed_with_errors" =>
                          /\ Some(t, "failed") \/ \E d \in Doc : RowsMissing(d, task[t].files[d])
                          /\ ~Some(t, "cancelled")
  BY DEF EndedAgrees
<1>1. EndOK(task[t])
  BY DEF IInv, TasksOK, RecOK
<1> QED BY <1>1 DEF EndOK, Files, Some

LEMMA TasksAgreeFollow == ASSUME IInv PROVE TasksAgree
<1>1. TypeOK /\ EndedAgrees
  BY TypesFollow, EndedFollow
<1>2. CountersAgree
  BY DEF IInv, TasksOK, RecOK, FileOK, Counted, CountersAgree
<1>3. WritesAreBlocked
  BY DEF IInv, RunOK, WritesAreBlocked
<1>4. RetryHasItsSource
  BY RetryIs DEF IInv, TempOK, RetryHasItsSource, Ended
<1> QED BY <1>1, <1>2, <1>3, <1>4 DEF TasksAgree

\* What the import centre shows of a task and its files is true on every level, and a
\* retry it offers finds its uploads (_set_chunk_state to _should_cleanup_task_temp).
THEOREM TasksAgreeHolds == Spec => []TasksAgree
<1>1. IInv => TasksAgree
  BY TasksAgreeFollow
<1> QED BY <1>1, Invariance, PTL

LEMMA CompletedFollow == ASSUME IInv PROVE CompletedWasStored
<1> SUFFICES ASSUME NEW t \in Task, NEW d \in Doc, NEW f, f = task[t].files[d],
                    f.status = "completed", f.chunks # <<>>, Read(d)
             PROVE  /\ \A i \in DOMAIN f.chunks : f.chunks[i].part \in whole[d] \cup gone[d]
                    /\ f.retry # "chunk" => Len(f.chunks) = Len(Own[d])
  BY DEF CompletedWasStored
<1>1. FileOK(d, f) /\ Stored(d, f, All(d), Put(d))
  BY DEF IInv, TasksOK, RecOK
<1> QED BY <1>1 DEF FileOK, Stored, All

\* A completed file has stored whole all it selected, and all of the content unless it was
\* a retry of chunks; only a deletion takes it away (_process_text_file).
THEOREM CompletedHolds == Spec => []CompletedWasStored
<1>1. IInv => CompletedWasStored
  BY CompletedFollow
<1> QED BY <1>1, Invariance, PTL

-----------------------------------------------------------------------------
(* What has ended stays as it is *)

Stays ==
    /\ \A t \in Task : Ended(t) => task'[t] = task[t]
    /\ run.task # None => (Ended(run.task) => \A d \in Doc : para'[d] \subseteq para[d])

\* A step on the record of one task that has not ended.
LEMMA OneRecord ==
    ASSUME IInv, NEW t, NEW rec, task' = [task EXCEPT ![t] = rec], ~Ended(t)
    PROVE  \A u \in Task : Ended(u) => task'[u] = task[u]
BY DEF IInv, TasksOK

\* While files are worked on, their task has not ended.
LEMMA FilesAreOpen == ASSUME IInv, run.phase = "files" PROVE ~Ended(run.task)
BY DEF IInv, RunOK, Ended, Final

LEMMA FileStaysOpen ==
    ASSUME IInv, run.phase = "files", NEW d, NEW f, SetFile(d, f)
    PROVE  Stays
<1>1. ~Ended(run.task)
  BY FilesAreOpen
<1>2. task' = [task EXCEPT ![run.task] = [task[run.task] EXCEPT !.files[d] = f]]
  BY DEF SetFile
<1> DEFINE rec == [task[run.task] EXCEPT !.files[d] = f]
<1> HIDE DEF rec
<1>3. task' = [task EXCEPT ![run.task] = rec]
  BY <1>2 DEF rec
<1> QED BY <1>1, <1>3, OneRecord DEF Stays

LEMMA Untouched ==
    ASSUME UNCHANGED task, \A d \in Doc : para'[d] \subseteq para[d]
    PROVE  Stays
BY DEF Stays

LEMMA FileStepStays == ASSUME IInv, NEW d \in Doc, FileStep(d) PROVE Stays
<1>1. CASE Convert(d) \/ Terminate(d) \/ InvalidateManifest(d)
  <2>1. UNCHANGED <<task, para>>
    BY <1>1 DEF Convert, Terminate, InvalidateManifest, stores
  <2> QED BY <2>1, Untouched
<1>2. CASE ~(Convert(d) \/ Terminate(d) \/ InvalidateManifest(d))
  <2>1. run.phase = "files" /\ \E f : SetFile(d, f)
    BY <1>2 DEF FileStep, SkipKnown, ReadFile, RegisterChunks, RegisterUnits, Register, SplitFails, SelectModelFails,
                CloseFile, SaveFails, FailFile, StartMigration, StartConversion, ConversionRefused, Backfill,
                MigrationCompletes, ChildCompletes, ChildFails, Busy
  <2> QED BY <2>1, FileStaysOpen
<1> QED BY <1>1, <1>2

LEMMA ChunkStepStays == ASSUME IInv, NEW d \in Doc, NEW i, ChunkStep(d, i) PROVE Stays
<1>1. run.phase = "files" /\ \E f : SetFile(d, f)
  BY DEF ChunkStep, ExtractChunk, WriteChunk, WriteUnit, FailChunk, StoreParagraph, StoreEntities, StoreRelations,
         SetChunk, AtWrite, AtChunk, Busy
<1> QED BY <1>1, FileStaysOpen

\* A finished run that is cancelled, too.
LEMMA FinishCancelledStays == ASSUME IInv, FinishCancelled PROVE Stays
<1>1. run.task \in Task /\ RecOK(task[run.task])
  BY RunningTask DEF FinishCancelled, IInv, TasksOK
<1>2. task' = [task EXCEPT ![run.task] = Finalize(run.task)] /\ UNCHANGED para
  BY DEF FinishCancelled, stores
<1>3. Ended(run.task) => Finalize(run.task) = task[run.task]
  BY <1>1, MarkedOK DEF Ended, Final, Finalize
<1> HIDE DEF FinishCancelled
<1> QED BY <1>1, <1>2, <1>3 DEF Stays, IInv, TasksOK

LEMMA RunStepStays == ASSUME IInv, RunStep PROVE Stays
<1>1. CASE Take \/ RunCancelled \/ Leave
  <2>1. UNCHANGED <<task, para>>
    BY <1>1 DEF Take, RunCancelled, Leave, stores
  <2> QED BY <2>1, Untouched
<1>2. CASE Prepare \/ Start \/ EndRun \/ RunRaises
  <2>1. UNCHANGED para /\ \E s : task' = [task EXCEPT ![run.task].status = s]
    BY <1>2 DEF Prepare, Start, EndRun, RunRaises, stores
  <2>2. ~Ended(run.task)
    BY <1>2, FilesAreOpen DEF Prepare, Start, EndRun, RunRaises, IInv, RunOK, Ended, Final
  <2>3. \E rec : task' = [task EXCEPT ![run.task] = rec]
    BY <2>1
  <2> QED BY <2>1, <2>2, <2>3, OneRecord DEF Stays
<1>3. CASE FinishCancelled
  BY <1>3, FinishCancelledStays
<1> QED BY <1>1, <1>2, <1>3 DEF RunStep

LEMMA RequestStays ==
    ASSUME IInv, NEW t \in Task, Create(t) \/ CancelTask(t) \/ \E u \in Task : RetryFailed(t, u)
    PROVE  Stays
<1>1. UNCHANGED para
  BY DEF Create, CancelTask, RetryFailed, Enqueue, stores
<1>2. ~Ended(t)
  BY DEF Create, CancelTask, RetryFailed, Enqueue, Next1, Ended, Final
<1>3. \E rec : task' = [task EXCEPT ![t] = rec]
  BY DEF Create, CancelTask, RetryFailed, Enqueue
<1> QED BY <1>1, <1>2, <1>3, OneRecord DEF Stays

LEMMA StepStays == ASSUME IInv, [Next]_vars PROVE [Stays]_vars
<1>1. CASE Loop
  BY <1>1, RunStepStays, FileStepStays, ChunkStepStays DEF Loop
<1>2. CASE \E t \in Task : Create(t) \/ CancelTask(t) \/ \E u \in Task : RetryFailed(t, u)
  BY <1>2, RequestStays
<1>6. ASSUME NEW d \in Doc, Poll(d) PROVE Stays
  BY <1>6, FileStaysOpen DEF Poll, Busy
<1>3. ASSUME NEW d \in Doc, DeleteSource(d) PROVE Stays
  <2>1. UNCHANGED task /\ para' = [para EXCEPT ![d] = {}]
    BY <1>3 DEF DeleteSource
  <2>2. \A e \in Doc : para'[e] \subseteq para[e]
    BY <2>1 DEF IInv, StoresOK
  <2> QED BY <2>1, <2>2, Untouched
<1>4. CASE Shutdown
  <2>1. UNCHANGED para /\ \A t \in Task : task[t].status \notin Pending => task'[t] = task[t]
    BY <1>4 DEF Shutdown, stores
  <2> QED BY <2>1 DEF Stays, Ended, Final, Pending
<1>5. CASE SweepTemp
  <2>1. UNCHANGED <<task, para>>
    BY <1>5 DEF SweepTemp, stores
  <2> QED BY <2>1, Untouched
<1> QED BY <1>1, <1>2, <1>3, <1>4, <1>5, <1>6 DEF Next

\* No step of a late job, of the cancellation of a finished run or of the shutdown changes
\* a task that has ended, or stores anything for it (_finalize_cancelled_task).
THEOREM EndedStays == Spec => EndedIsFinal
<1>1. IInv /\ [Next]_vars => [Stays]_vars
  BY StepStays
<1>2. Spec => [][Stays]_vars
  BY <1>1, Invariance, PTL DEF Spec
<1> QED BY <1>2 DEF EndedIsFinal, Stays
=============================================================================
