------------------------------ MODULE VectorStore ------------------------------
(***************************************************************************)
(* The files of one vector pool (core/storage/vector_store.py).  A vector  *)
(* is a row of vectors.bin and a row of vectors_ids.bin.  New rows are     *)
(* appended to both under an append journal, deleted rows are dropped by a *)
(* compaction that replaces both under a journal of its own and with       *)
(* backups; in both cases the atomic replacement of vectors_metadata.json  *)
(* is the commit point.  A call is the sequence todo of its steps on       *)
(* files; the process may die between any two, and may tear an append.     *)
(*                                                                         *)
(* Lengths are counted in rows.  Only the ids of rows matter.  The FAISS   *)
(* indexes are the sets of ids they hold; vectors.index is left out, since *)
(* load() uses it only when its ids are the active ones.                   *)
(***************************************************************************)
EXTENDS Naturals, Sequences, FiniteSets, SequencesExt

CONSTANTS
    Id,          \* vector ids
    BufferSize,  \* buffer_size: rows that force a flush
    GcLimit,     \* tombstones a pool may hold before it is compacted (1000)
    MinTrain,    \* min_train_threshold, in rows
    MaxOps,      \* bound on calls
    MaxFaults,   \* bound on crashes and exceptions
    FaultsIn     \* places where faults strike too: see CrashPlaces

ASSUME ParametersAssumption ==
    /\ IsFiniteSet(Id)
    /\ BufferSize \in Nat \ {0} /\ GcLimit \in Nat /\ MinTrain \in Nat
    /\ MaxOps \in Nat /\ MaxFaults \in Nat
    /\ FaultsIn \subseteq {"switch", "clear", "rollback"}

VARIABLES
    disk,     \* the files
    mem,      \* the fields of VectorStore
    todo,     \* steps left of the call in progress
    ops, faults

vars == <<disk, mem, todo, ops, faults>>

NoJournal == [tx |-> 0, base |-> 0, target |-> 0]

NoMeta == [tx |-> 0, rows |-> 0, known |-> {}, deleted |-> {}, trained |-> FALSE, exists |-> FALSE]

NoMark == [rows |-> 0, meta |-> NoMeta]

Fresh == [mode |-> "down", known |-> {}, deleted |-> {}, buffer |-> <<>>, trained |-> FALSE,
          index |-> {}, fallback |-> {}, mark |-> NoMark, revive |-> {}]

Init ==
    /\ disk = [bin |-> <<>>, ids |-> <<>>, append |-> NoJournal, switch |-> NoJournal,
               backup |-> [bin |-> <<>>, ids |-> <<>>], meta |-> NoMeta]
    /\ mem = [Fresh EXCEPT !.mode = "up"]
    /\ todo = <<>>
    /\ ops = 0 /\ faults = 0

Live(m) == m.known \ m.deleted

Prefix(s, n) == SubSeq(s, 1, n)

PairAligned(d) == Len(d.bin) = Len(d.ids)

Commits(meta, j) == meta.exists /\ meta.tx = j.tx /\ meta.rows = j.target

Appending(d) == d.append # NoJournal
Switching(d) == d.switch # NoJournal

\* A transaction id no commit record holds (uuid4).
NewTx(d) == CHOOSE t \in 1 .. 2 : ~(d.meta.exists /\ d.meta.tx = t)

\* Where the code does not survive a fault: a crash while a checkpoint is rolled
\* back; an exception, after which the same process goes on, while a compaction
\* has a journal or during clear().
CrashPlaces == IF "rbload" \in Range(todo) THEN {"rollback"} ELSE {}
ExceptionPlaces == CrashPlaces \cup
    (IF "unmeta" \in Range(todo) THEN {"clear"}
     ELSE IF Switching(disk) THEN {"switch"} ELSE {})

-----------------------------------------------------------------------------
\* What load() reads back: the rows that belong to members after an unfinished
\* append is cut off and an unfinished switch undone; nothing when it raises.

CutPair(d) ==
    IF Appending(d) /\ ~Commits(d.meta, d.append)
    THEN IF /\ Len(d.bin) \in d.append.base .. d.append.target
            /\ Len(d.ids) \in d.append.base .. d.append.target
         THEN {[bin |-> Prefix(d.bin, d.append.base), ids |-> Prefix(d.ids, d.append.base)]}
         ELSE {}
    ELSE {[bin |-> d.bin, ids |-> d.ids]}

RecoveredPair(d) ==
    IF Switching(d) /\ ~Commits(d.meta, d.switch) THEN {d.backup} ELSE CutPair(d)

Loadable(d) ==
    /\ CutPair(d) # {}
    /\ \A p \in RecoveredPair(d) : Len(p.bin) = d.meta.rows /\ Len(p.ids) = d.meta.rows

Readable(d) ==
    IF ~Loadable(d) THEN {}
    ELSE {i \in d.meta.known \ d.meta.deleted :
            \E p \in RecoveredPair(d) : \E k \in 1 .. Len(p.ids) : p.ids[k] = i /\ p.bin[k] = i}

-----------------------------------------------------------------------------
FlushSteps == <<"log", "bin", "ids">>

SaveSteps == FlushSteps \o <<"meta", "unlog", "unswitch">>

UndoSwitchSteps == <<"restorebin", "restoreids", "reload", "unswitch">>

CutSteps == <<"cutbin", "cutids", "unlog">>

\* Mutant: the first file is replaced before the journal is written.
CompactLate ==
    UndoSwitchSteps \o SaveSteps \o <<"swapbin", "switchlog", "swapids", "dropdead">> \o SaveSteps

CompactSteps ==
    UndoSwitchSteps \o SaveSteps \o <<"switchlog", "swapbin", "swapids", "dropdead">> \o SaveSteps

LoadSteps == CutSteps \o UndoSwitchSteps \o <<"adopt", "warm">>

ClearSteps ==
    CutSteps \o UndoSwitchSteps \o <<"switchempty", "swapbin", "swapids", "empty">> \o SaveSteps \o <<"unmeta">>

RollbackSteps == <<"rbbin", "rbids", "rbmeta", "rbload">>

Marked == mem.mark # NoMark

\* The caller of a step goes on, or an exception ends the call.
Done == todo' = Tail(todo)
Raise == todo' = <<>>
Stay == UNCHANGED <<ops, faults>>

At(s) == todo # <<>> /\ Head(todo) = s

Call == todo = <<>> /\ mem.mode = "up" /\ ops < MaxOps /\ ops' = ops + 1 /\ UNCHANGED faults

Add(S) ==
    LET fresh == S \ mem.known
        buffer == mem.buffer \o SetToSeq(fresh)
    IN  /\ Call
        /\ S \cap mem.known \cap mem.deleted = {} /\ fresh # {}
        /\ mem' = [mem EXCEPT !.known = @ \cup fresh, !.buffer = buffer]
        /\ todo' = IF Len(buffer) >= BufferSize THEN FlushSteps ELSE <<>>
        /\ UNCHANGED disk

\* _check_rebuild_needed: more than GcLimit tombstones and 3 in 10 rows dead.
NeedsCompaction(deleted) ==
    /\ Len(disk.bin) > 0
    /\ Cardinality(deleted) > GcLimit
    /\ 10 * Cardinality(deleted) > 3 * Len(disk.bin)
    /\ ~Marked

Delete(S) ==
    LET deleted == mem.deleted \cup (S \cap mem.known)
    IN  /\ Call
        /\ deleted # mem.deleted
        /\ mem' = [mem EXCEPT !.deleted = deleted, !.index = @ \ deleted, !.fallback = @ \ deleted]
        /\ todo' = IF NeedsCompaction(deleted) THEN CompactSteps ELSE <<>>
        /\ UNCHANGED disk

Restore(i) ==
    /\ Call
    /\ i \in mem.known \cap mem.deleted
    /\ mem' = [mem EXCEPT !.revive = {i}]
    /\ todo' = FlushSteps \o <<"revive">>
    /\ UNCHANGED disk

\* Save, search (which flushes first), compact, clear.
Start(steps) ==
    /\ Call
    /\ todo' = steps
    /\ UNCHANGED disk

SaveCall == Start(SaveSteps) /\ UNCHANGED mem
Search == mem.buffer # <<>> /\ Start(FlushSteps) /\ UNCHANGED mem
RebuildIndex == ~Marked /\ Start(CompactSteps) /\ UNCHANGED mem
Clear == ~Marked /\ Start(ClearSteps) /\ mem' = [mem EXCEPT !.buffer = <<>>]

\* warmup_index, run when the pool holds enough rows to train on.
Train ==
    /\ Call
    /\ ~mem.trained /\ Len(disk.bin) >= MinTrain /\ Len(disk.bin) > 0
    /\ todo' = FlushSteps \o <<"warm">>
    /\ UNCHANGED <<disk, mem>>

BeginCheckpoint ==
    /\ Call
    /\ ~Marked /\ mem.buffer = <<>> /\ ~Appending(disk) /\ ~Switching(disk)
    /\ PairAligned(disk) /\ disk.meta.exists /\ disk.meta.rows = Len(disk.bin)
    /\ disk.meta.known = mem.known /\ disk.meta.deleted = mem.deleted
    /\ mem' = [mem EXCEPT !.mark = [rows |-> Len(disk.bin), meta |-> disk.meta]]
    /\ UNCHANGED <<disk, todo>>

CommitCheckpoint ==
    /\ Call
    /\ Marked /\ ~Appending(disk) /\ ~Switching(disk)
    /\ PairAligned(disk) /\ disk.meta.rows = Len(disk.bin)
    /\ disk.meta.known = mem.known /\ disk.meta.deleted = mem.deleted
    /\ mem' = [mem EXCEPT !.mark = NoMark]
    /\ UNCHANGED <<disk, todo>>

RollbackCheckpoint ==
    /\ Call
    /\ Marked
    /\ todo' = RollbackSteps
    /\ UNCHANGED <<disk, mem>>

-----------------------------------------------------------------------------
\* _flush_write_buffer_unlocked; each step does nothing when nothing is buffered.

JournalFor(d, n) ==
    IF Appending(d) /\ ~Commits(d.meta, d.append)
    THEN [d.append EXCEPT !.target = Len(d.bin) + n]
    ELSE [tx |-> NewTx(d), base |-> Len(d.bin), target |-> Len(d.bin) + n]

LogAppend ==
    /\ At("log")
    /\ IF mem.buffer = <<>> THEN Done /\ UNCHANGED disk
       ELSE IF /\ PairAligned(disk)
               /\ Appending(disk) => Len(disk.bin) = disk.append.target
            THEN /\ disk' = [disk EXCEPT !.append = JournalFor(disk, Len(mem.buffer))]
                 /\ Done
            ELSE Raise /\ UNCHANGED disk
    /\ Stay /\ UNCHANGED mem

AppendBin ==
    /\ At("bin")
    /\ disk' = [disk EXCEPT !.bin = @ \o mem.buffer]
    /\ Done /\ Stay /\ UNCHANGED mem

\* The rows go to the index in use, and the buffer is empty again.
AppendIds ==
    LET S == Range(mem.buffer)
    IN  /\ At("ids")
        /\ disk' = [disk EXCEPT !.ids = @ \o mem.buffer]
        /\ mem' = [mem EXCEPT !.buffer = <<>>,
                              !.index = IF mem.trained THEN @ \cup S ELSE @,
                              !.fallback = IF mem.trained THEN @ ELSE @ \cup S]
        /\ Done /\ Stay

\* Mutant: a revived member goes to no index.
ReviveUnindexed ==
    /\ At("revive")
    /\ mem' = [mem EXCEPT !.deleted = @ \ mem.revive, !.revive = {}]
    /\ Done /\ Stay /\ UNCHANGED disk

\* Only what the files still hold comes back.
Revive ==
    LET S == mem.revive \cap Range(disk.ids)
    IN  /\ At("revive")
        /\ mem' = [mem EXCEPT !.deleted = @ \ S, !.revive = {},
                              !.index = IF mem.trained THEN @ \cup S ELSE @,
                              !.fallback = IF mem.trained THEN @ ELSE @ \cup S]
        /\ Done /\ Stay /\ UNCHANGED disk

\* save(): which journal the new metadata commits, if any.
WriteMeta ==
    LET j == IF Appending(disk) THEN disk.append ELSE disk.switch
        refuses == \/ ~PairAligned(disk)
                   \/ Appending(disk) /\ Switching(disk)
                   \/ (Appending(disk) \/ Switching(disk)) /\ Len(disk.bin) # j.target
    IN  /\ At("meta")
        /\ IF refuses THEN Raise /\ UNCHANGED disk
           ELSE /\ disk' = [disk EXCEPT !.meta =
                              [tx |-> j.tx, rows |-> Len(disk.bin), known |-> mem.known,
                               deleted |-> mem.deleted, trained |-> mem.trained, exists |-> TRUE]]
                /\ Done
        /\ Stay /\ UNCHANGED mem

UnlinkAppendJournal ==
    /\ At("unlog")
    /\ disk' = [disk EXCEPT !.append = NoJournal]
    /\ Done /\ Stay /\ UNCHANGED mem

\* The journal first, then the backups, which mean nothing without it.
UnlinkSwitchJournal ==
    /\ At("unswitch")
    /\ disk' = [disk EXCEPT !.switch = NoJournal]
    /\ Done /\ Stay /\ UNCHANGED mem

-----------------------------------------------------------------------------
\* _rebuild_index_locked and clear(): replacing the pair.

\* The rows of s without a tombstone, in their order.
Living(s, dead) ==
    LET upTo[n \in 0 .. Len(s)] ==
          IF n = 0 THEN <<>> ELSE IF s[n] \in dead THEN upTo[n - 1] ELSE Append(upTo[n - 1], s[n])
    IN  upTo[Len(s)]

SwitchJournal(target) ==
    [disk EXCEPT !.backup = [bin |-> disk.bin, ids |-> disk.ids],
                 !.switch = [tx |-> NewTx(disk), base |-> Len(disk.bin), target |-> target]]

LogSwitch ==
    /\ At("switchlog")
    /\ disk' = SwitchJournal(Len(Living(disk.ids, mem.deleted)))
    /\ Done /\ Stay /\ UNCHANGED mem

\* clear(): an empty pair needs no transaction.
LogEmpty ==
    /\ At("switchempty")
    /\ IF ~PairAligned(disk) \/ (disk.meta.exists /\ disk.meta.rows # Len(disk.bin))
       THEN Raise /\ UNCHANGED disk
       ELSE IF disk.bin = <<>>
            THEN todo' = <<"empty", "unmeta">> /\ UNCHANGED disk
            ELSE disk' = SwitchJournal(0) /\ Done
    /\ Stay /\ UNCHANGED mem

\* Rows of the replacement: none for clear(), those without a tombstone otherwise.
Replacement(s) ==
    IF "unmeta" \in Range(todo) THEN <<>> ELSE Living(s, mem.deleted)

SwapBin ==
    /\ At("swapbin")
    /\ disk' = [disk EXCEPT !.bin = Replacement(@)]
    /\ Done /\ Stay /\ UNCHANGED mem

SwapIds ==
    /\ At("swapids")
    /\ disk' = [disk EXCEPT !.ids = Replacement(@)]
    /\ Done /\ Stay /\ UNCHANGED mem

\* Tombstoned members are forgotten and the index is trained on what is left.
DropDead ==
    /\ At("dropdead")
    /\ mem' = [mem EXCEPT !.known = @ \ mem.deleted, !.deleted = {},
                          !.trained = disk.bin # <<>>,
                          !.index = Range(disk.ids), !.fallback = {}]
    /\ Done /\ Stay /\ UNCHANGED disk

Empty ==
    /\ At("empty")
    /\ mem' = [Fresh EXCEPT !.mode = "up"]
    /\ Done /\ Stay /\ UNCHANGED disk

UnlinkMeta ==
    /\ At("unmeta")
    /\ disk' = [disk EXCEPT !.meta = NoMeta]
    /\ Done /\ Stay /\ UNCHANGED mem

-----------------------------------------------------------------------------
\* Recovery, in load() and before a compaction or a clear().

Fails == IF mem.mode = "down" THEN [mem EXCEPT !.mode = "refused"] ELSE mem

CutBin ==
    /\ At("cutbin")
    /\ IF CutPair(disk) = {} THEN Raise /\ mem' = Fails /\ UNCHANGED disk
       ELSE /\ disk' = [disk EXCEPT !.bin = (CHOOSE p \in CutPair(disk) : TRUE).bin]
            /\ Done /\ UNCHANGED mem
    /\ Stay

CutIds ==
    /\ At("cutids")
    /\ disk' = [disk EXCEPT !.ids = (CHOOSE p \in CutPair(disk) : TRUE).ids]
    /\ Done /\ Stay /\ UNCHANGED mem

\* A committed switch is only tidied up: its journal goes in the step "unswitch".
Undoing == Switching(disk) /\ ~Commits(disk.meta, disk.switch)

RestoreBin ==
    /\ At("restorebin")
    /\ disk' = IF Undoing THEN [disk EXCEPT !.bin = disk.backup.bin] ELSE disk
    /\ Done /\ Stay /\ UNCHANGED mem

RestoreIds ==
    /\ At("restoreids")
    /\ disk' = IF Undoing THEN [disk EXCEPT !.ids = disk.backup.ids] ELSE disk
    /\ Done /\ Stay /\ UNCHANGED mem

\* Mutant: tombstones are not read back.
AdoptedAlive(m) == [m EXCEPT !.known = disk.meta.known, !.fallback = Range(disk.ids)]

\* The members, and the index over them, that the metadata records.
Adopted(m) ==
    LET meta == disk.meta
    IN  [m EXCEPT !.known = meta.known, !.deleted = meta.deleted, !.trained = meta.trained,
                  !.index = IF meta.trained THEN Range(disk.ids) \ meta.deleted ELSE {},
                  !.fallback = {}]

MetaMatches == PairAligned(disk) /\ Len(disk.bin) = disk.meta.rows

Reload ==
    /\ At("reload")
    /\ IF ~Undoing THEN Done /\ UNCHANGED mem
       ELSE IF /\ mem.buffer = <<>> /\ MetaMatches /\ disk.meta.exists
               /\ Range(disk.ids) = disk.meta.known
            THEN /\ mem' = [Adopted(mem) EXCEPT !.fallback =
                               IF disk.meta.trained THEN {} ELSE Range(disk.ids) \ disk.meta.deleted]
                 /\ Done
            ELSE Raise /\ mem' = Fails
    /\ Stay /\ UNCHANGED disk

Adopt ==
    /\ At("adopt")
    /\ IF MetaMatches THEN mem' = [Adopted(mem) EXCEPT !.mode = "up"] /\ Done
       ELSE mem' = Fails /\ Raise
    /\ Stay /\ UNCHANGED disk

\* warmup_index: the fallback index is filled from the pair if there is no
\* other, then a pool of enough rows is trained, which replays every live row.
Warm ==
    LET rows == Range(disk.ids) \ mem.deleted
        fallback == IF mem.fallback = {} /\ (~mem.trained \/ mem.index = {}) THEN rows ELSE mem.fallback
        train == ~mem.trained /\ Len(disk.bin) >= MinTrain /\ Len(disk.bin) > 0
    IN  /\ At("warm")
        /\ mem' = IF train
                  THEN [mem EXCEPT !.trained = TRUE, !.index = rows,
                                   !.fallback = IF Cardinality(rows) >= Len(disk.bin) THEN {} ELSE fallback]
                  ELSE [mem EXCEPT !.fallback = fallback]
        /\ Done /\ Stay /\ UNCHANGED disk

-----------------------------------------------------------------------------
\* rollback_cleanup_checkpoint.

RollbackBin ==
    /\ At("rbbin")
    /\ disk' = [disk EXCEPT !.bin = Prefix(@, mem.mark.rows)]
    /\ Done /\ Stay /\ UNCHANGED mem

RollbackIds ==
    /\ At("rbids")
    /\ disk' = [disk EXCEPT !.ids = Prefix(@, mem.mark.rows), !.append = NoJournal]
    /\ Done /\ Stay /\ UNCHANGED mem

RollbackMeta ==
    /\ At("rbmeta")
    /\ disk' = [disk EXCEPT !.meta = mem.mark.meta]
    /\ mem' = [Fresh EXCEPT !.mode = "up", !.mark = mem.mark]
    /\ Done /\ Stay

RollbackLoad ==
    /\ At("rbload")
    /\ mem' = IF MetaMatches
              THEN [Adopted(mem) EXCEPT !.mark = NoMark,
                       !.fallback = IF disk.meta.trained THEN {} ELSE Range(disk.ids) \ disk.meta.deleted]
              ELSE [mem EXCEPT !.mode = "broken", !.mark = NoMark]
    /\ Done /\ Stay /\ UNCHANGED disk

-----------------------------------------------------------------------------
\* Faults.

Fault(places) ==
    /\ faults < MaxFaults /\ faults' = faults + 1
    /\ places \subseteq FaultsIn
    /\ UNCHANGED ops

\* The process dies; an append under way may have written some of its rows.
Crash ==
    /\ Fault(CrashPlaces)
    /\ mem.mode # "refused"
    /\ mem' = Fresh
    /\ \E n \in 0 .. Len(mem.buffer) :
          disk' = IF At("bin") THEN [disk EXCEPT !.bin = @ \o Prefix(mem.buffer, n)]
                  ELSE IF At("ids") THEN [disk EXCEPT !.ids = @ \o Prefix(mem.buffer, n)]
                  ELSE disk
    /\ todo' = <<>>

Load ==
    /\ mem.mode = "down" /\ todo = <<>>
    /\ todo' = LoadSteps
    /\ Stay /\ UNCHANGED <<disk, mem>>

\* Mutant: only vectors_ids.bin is cut back.
AppendRaisesHalf ==
    /\ Fault(ExceptionPlaces)
    /\ At("ids") /\ mem.buffer # <<>>
    /\ disk' = [disk EXCEPT !.append.target = @ - Len(mem.buffer)]
    /\ Raise /\ UNCHANGED mem

\* An append raises: both files return to their length before this batch and
\* the buffer is kept for a later call.
AppendRaises ==
    LET before == disk.append.target - Len(mem.buffer)
    IN  /\ Fault(ExceptionPlaces)
        /\ At("bin") \/ At("ids")
        /\ mem.buffer # <<>>
        /\ disk' = [disk EXCEPT !.bin = Prefix(@, before), !.ids = Prefix(@, before),
                                !.append = IF before = @.base THEN NoJournal
                                           ELSE [@ EXCEPT !.target = before]]
        /\ Raise /\ UNCHANGED mem

\* Any other step raises; clear() then undoes its own switch.
StepRaises ==
    /\ Fault(ExceptionPlaces)
    /\ mem.mode = "up" /\ todo # <<>>
    /\ Head(todo) \in {"log", "meta", "unlog", "unswitch", "switchlog", "switchempty", "swapbin", "swapids"}
    /\ IF "unmeta" \in Range(todo) /\ Switching(disk)
       THEN todo' = UndoSwitchSteps /\ mem' = [mem EXCEPT !.buffer = <<>>]
       ELSE Raise /\ UNCHANGED mem
    /\ UNCHANGED disk

Calls ==
    \/ \E S \in (SUBSET Id) \ {{}} : Add(S) \/ Delete(S)
    \/ \E i \in Id : Restore(i)
    \/ SaveCall \/ Search \/ RebuildIndex \/ Clear \/ Train
    \/ BeginCheckpoint \/ CommitCheckpoint \/ RollbackCheckpoint

Steps ==
    \/ LogAppend \/ AppendBin \/ AppendIds \/ Revive
    \/ WriteMeta \/ UnlinkAppendJournal \/ UnlinkSwitchJournal
    \/ LogSwitch \/ LogEmpty \/ SwapBin \/ SwapIds \/ DropDead \/ Empty \/ UnlinkMeta
    \/ CutBin \/ CutIds \/ RestoreBin \/ RestoreIds \/ Reload \/ Adopt \/ Warm
    \/ RollbackBin \/ RollbackIds \/ RollbackMeta \/ RollbackLoad

Next == Calls \/ Steps \/ Crash \/ Load \/ AppendRaises \/ StepRaises

Spec == Init /\ [][Next]_vars

-----------------------------------------------------------------------------
Journal == [tx : 0 .. 2, base : Nat, target : Nat]

Meta == [tx : 0 .. 2, rows : Nat, known : SUBSET Id, deleted : SUBSET Id,
         trained : BOOLEAN, exists : BOOLEAN]

\* The shape of the files, the fields and the counters.
TypeOK ==
    /\ disk \in [bin : Seq(Id), ids : Seq(Id), append : Journal, switch : Journal,
                 backup : [bin : Seq(Id), ids : Seq(Id)], meta : Meta]
    /\ mem \in [mode : {"down", "up", "refused", "broken"}, known : SUBSET Id, deleted : SUBSET Id,
                buffer : Seq(Id), trained : BOOLEAN, index : SUBSET Id, fallback : SUBSET Id, revive : SUBSET Id,
                mark : [rows : Nat, meta : Meta]]
    /\ ops \in 0 .. MaxOps /\ faults \in 0 .. MaxFaults

\* Whatever the process was doing when it died, load() finds files it accepts
\* and so the pool can be opened again.
AlwaysLoads == mem.mode \notin {"refused", "broken"}

\* Between calls, every member is one row of both files or is buffered, and no
\* row belongs to anything else: what load(), restore() and migration read by
\* row is the vector of that id.
RowsAreMembers ==
    mem.mode = "up" /\ todo = <<>> /\ ~Switching(disk) =>
        /\ disk.bin = disk.ids
        /\ Cardinality(Range(disk.ids)) = Len(disk.ids)
        /\ Range(disk.ids) \cap Range(mem.buffer) = {}
        /\ Range(disk.ids) \cup Range(mem.buffer) = mem.known

\* search() uses one of two indexes.  Between calls, the one it would use holds
\* every live member that is not buffered; tombstones are filtered out.
SearchSeesMembers ==
    mem.mode = "up" /\ todo = <<>> /\ ~Switching(disk) =>
        (IF mem.trained /\ mem.index # {} THEN mem.index ELSE mem.fallback) \ mem.deleted
            = Live(mem) \ Range(mem.buffer)

\* Between calls the files, the members and the index to search agree, and all of
\* them have their types.
MembersAgree == TypeOK /\ RowsAreMembers /\ SearchSeesMembers

\* A roll-back counts as done when it begins; a crash during it is in FaultsIn.
Saved ==
    IF "rbload" \in Range(todo) THEN mem.mark.meta.known \ mem.mark.meta.deleted ELSE Readable(disk)

Abstract == INSTANCE VectorSet WITH
    Id    <- Id,
    open  <- mem.mode = "up",
    now   <- IF mem.mode = "up" /\ "rbload" \notin Range(todo) THEN Live(mem) ELSE Saved,
    saved <- Saved,
    mark  <- IF Marked /\ "rbload" \notin Range(todo)
             THEN {mem.mark.meta.known \ mem.mark.meta.deleted} ELSE {}

\* The pool is a set with a saved copy: whatever files a crash leaves, load()
\* reads back exactly what was saved last, compaction changes nothing, and a
\* clean-up checkpoint rolled back leaves no trace.
ImplementsVectorSet == Abstract!Spec
===============================================================================
