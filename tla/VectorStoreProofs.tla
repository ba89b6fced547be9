--------------------------- MODULE VectorStoreProofs ---------------------------
(***************************************************************************)
(* What VectorStore promises, for any vectors, limits and bounds: a pool   *)
(* always loads (AlwaysLoads), its files, members and indexes agree        *)
(* between calls (MembersAgree), and it implements the set with a saved    *)
(* copy (ImplementsVectorSet).                                             *)
(*                                                                         *)
(* The state does not record which call is in progress: todo holds only    *)
(* the steps that are left, and the same steps occur in several calls and  *)
(* mean different things there.  So the inductive invariant says that a    *)
(* call c and a place k in its script exist (Here) such that the state is  *)
(* what that place requires: Region names the situation before each step   *)
(* and Is says what holds in it.  Goes is the table of all steps by call   *)
(* and situation, Table that it is complete.                               *)
(*                                                                         *)
(* What holds in every situation is that the files can be restored         *)
(* (Restorable): cutting off an append that the metadata did not commit,   *)
(* or putting the backups back of a switch that it did not commit, leaves  *)
(* two equal files without repetition that hold the members the metadata   *)
(* records.  Only a roll-back of a checkpoint does without (Rolling), and  *)
(* for it the first rows of both files are those of the checkpoint         *)
(* (MarkKept).                                                             *)
(*                                                                         *)
(* The theorems assume FaultsIn = {}: a crash or an exception strikes      *)
(* anywhere except in the places CrashPlaces and ExceptionPlaces name,     *)
(* where the code does not survive it.                                     *)
(*                                                                         *)
(* The step lemmas come one per action and say that the step leads from    *)
(* one situation of its call to the next (Onward); one lemma per call says *)
(* where its script begins, one per fault where it ends.  Lemmas about     *)
(* sequences come first; Living is recursive, so what it returns is proved *)
(* by well-founded induction.                                              *)
(***************************************************************************)
EXTENDS VectorStore, FiniteSetTheorems, SequenceTheorems, WellFoundedInduction, TLAPS

-----------------------------------------------------------------------------
(* The inductive invariant. *)

\* What a call does, step by step; "idle" and "off" wait for a call and for load().
Body(c) ==
    CASE c = "flush" -> <<"log", "bin", "ids">>
      [] c = "revive" -> <<"log", "bin", "ids", "revive">>
      [] c = "train" -> <<"log", "bin", "ids", "warm">>
      [] c = "save" -> <<"log", "bin", "ids", "meta", "unlog", "unswitch">>
      [] c = "compact" -> <<"restorebin", "restoreids", "reload", "unswitch",
                            "log", "bin", "ids", "meta", "unlog", "unswitch",
                            "switchlog", "swapbin", "swapids", "dropdead",
                            "log", "bin", "ids", "meta", "unlog", "unswitch">>
      [] c = "load" -> <<"cutbin", "cutids", "unlog",
                         "restorebin", "restoreids", "reload", "unswitch", "adopt", "warm">>
      [] c = "clear" -> <<"cutbin", "cutids", "unlog",
                          "restorebin", "restoreids", "reload", "unswitch",
                          "switchempty", "swapbin", "swapids", "empty",
                          "log", "bin", "ids", "meta", "unlog", "unswitch", "unmeta">>
      [] c = "blank" -> <<"empty", "unmeta">>
      [] c = "rollback" -> <<"rbbin", "rbids", "rbmeta", "rbload">>
      [] OTHER -> <<>>

\* The situation before each of these steps and after the last, see Is.
Region(c) ==
    CASE c = "flush" -> <<"steady", "logged", "half", "steady">>
      [] c = "revive" -> <<"steady", "logged", "half", "flushed", "steady">>
      [] c = "train" -> <<"steady", "logged", "half", "flushed", "steady">>
      [] c = "save" -> <<"steady", "logged", "half", "flushed", "saved", "clean", "steady">>
      [] c = "compact" -> <<"steady", "steady", "steady", "steady",
                            "steady", "logged", "half", "flushed", "saved", "clean",
                            "clean", "swap1", "swap2", "swap3",
                            "new", "new", "new", "new", "switched", "switched", "steady">>
      [] c = "load" -> <<"cutting", "cut1", "cut",
                         "undo", "undo1", "undone", "undone", "unwound", "warming", "steady">>
      [] c = "clear" -> <<"clearing", "clear1", "cleared",
                          "tidy", "tidy", "tidy", "tidy",
                          "tidy", "doff1", "doff2", "doff3",
                          "void", "void", "void", "void", "voided", "voided", "emptied", "steady">>
      [] c = "blank" -> <<"blank", "emptied", "steady">>
      [] c = "rollback" -> <<"back1", "back2", "back3", "back4", "steady">>
      [] c = "off" -> <<"down">>
      [] OTHER -> <<"steady">>

CallName == {"idle", "off", "flush", "revive", "train", "save", "compact", "load", "clear", "blank", "rollback"}

\* The calls that are possible while a checkpoint is open.
Markers == {"idle", "flush", "revive", "train", "save", "rollback"}

StepName == {"log", "bin", "ids", "revive", "warm", "meta", "unlog", "unswitch", "restorebin", "restoreids",
             "reload", "switchlog", "swapbin", "swapids", "dropdead", "cutbin", "cutids", "adopt",
             "switchempty", "empty", "unmeta", "rbbin", "rbids", "rbmeta", "rbload"}

\* The call in progress is c and its k-th step is next.
Here(c, k) ==
    /\ c \in CallName /\ k \in 1 .. Len(Body(c)) + 1
    /\ todo \in Seq(StepName)
    /\ Len(todo) = Len(Body(c)) + 1 - k
    /\ \A i \in 1 .. Len(todo) : todo[i] = Body(c)[k + i - 1]

Distinct(s) == \A i, j \in 1 .. Len(s) : s[i] = s[j] => i = j

\* The metadata is about these rows.
Describes(meta, rows) ==
    Distinct(rows) /\ Range(rows) = meta.known /\ Len(rows) = meta.rows

\* The metadata was written by the transaction of a journal.
Wrote(meta, j) == meta.exists /\ meta.tx = j.tx

\* An append, a switch that is not committed.
Unsaved(d) == Appending(d) /\ ~Wrote(d.meta, d.append)
Halfway(d) == Switching(d) /\ ~Wrote(d.meta, d.switch)

\* The pair of files that load() makes of those it finds is the one that was saved.
CutOk(d) ==
    LET n == d.append.base IN
    /\ n = d.meta.rows
    /\ Len(d.bin) \in n .. d.append.target /\ Len(d.ids) \in n .. d.append.target
    /\ Prefix(d.bin, n) = Prefix(d.ids, n) /\ Describes(d.meta, Prefix(d.ids, n))

BackupOk(d) == d.meta.exists /\ d.backup.bin = d.backup.ids /\ Describes(d.meta, d.backup.ids)

Restorable(d) ==
    /\ ~(Appending(d) /\ Switching(d))
    /\ d.meta.deleted \subseteq d.meta.known
    /\ ~d.meta.exists => d.meta = NoMeta
    /\ Appending(d) /\ Wrote(d.meta, d.append) => d.append.target = d.meta.rows
    /\ Switching(d) /\ Wrote(d.meta, d.switch) => d.switch.target = d.meta.rows
    /\ Unsaved(d) => CutOk(d)
    /\ Halfway(d) => BackupOk(d)
    /\ ~Unsaved(d) /\ ~Halfway(d) => d.bin = d.ids /\ Describes(d.meta, d.ids)

\* The members are the rows and what is buffered.
Members(rows, m) ==
    /\ Distinct(rows) /\ Distinct(m.buffer)
    /\ Range(rows) \cap Range(m.buffer) = {}
    /\ Range(rows) \cup Range(m.buffer) = m.known
    /\ m.deleted \subseteq m.known

\* The index to search holds the rows that are not deleted.
Indexed(rows, m) ==
    /\ m.index \subseteq Range(rows) /\ m.fallback \subseteq Range(rows)
    /\ IF m.trained THEN m.index \ m.deleted = Range(rows) \ m.deleted
       ELSE m.fallback \ m.deleted = Range(rows) \ m.deleted

Up == mem.mode = "up"
Down == mem.mode = "down" /\ mem.mark = NoMark /\ mem.buffer = <<>>
Empties == mem.buffer = <<>>
NoLog == disk.append = NoJournal
NoSwitch == disk.switch = NoJournal
Paired == disk.bin = disk.ids
Good == Members(disk.ids, mem) /\ Indexed(disk.ids, mem)

Target(n) == Appending(disk) => disk.append.target = n

\* Between two calls, and wherever a call has nothing half done.
Steady == Up /\ NoSwitch /\ Paired /\ Good /\ Target(Len(disk.bin))

Logged ==
    /\ Up /\ NoSwitch /\ Paired /\ Good
    /\ Target(Len(disk.bin) + Len(mem.buffer))
    /\ ~Empties => Unsaved(disk)

Half ==
    /\ Up /\ NoSwitch /\ Good
    /\ disk.bin = disk.ids \o mem.buffer
    /\ Target(Len(disk.bin))
    /\ ~Empties => Unsaved(disk)

Flushed == Steady /\ Empties
Recorded == Flushed /\ ~Unsaved(disk) /\ disk.meta.exists
Clean == Flushed /\ NoLog /\ disk.meta.exists

\* A switch to n rows is logged.
Swap(n) == Up /\ NoLog /\ Empties /\ Halfway(disk) /\ disk.switch.target = n

Swap1 == Swap(Len(Living(disk.ids, mem.deleted))) /\ Paired /\ Members(disk.ids, mem)
Swap2 ==
    /\ Swap(Len(Living(disk.ids, mem.deleted))) /\ Members(disk.ids, mem)
    /\ disk.bin = Living(disk.ids, mem.deleted)
Swap3 ==
    /\ Swap(Len(disk.ids)) /\ Paired
    /\ Distinct(disk.ids) /\ Range(disk.ids) = mem.known \ mem.deleted

New == Swap(Len(disk.ids)) /\ Paired /\ Good
Switched == Up /\ NoLog /\ Empties /\ ~Halfway(disk) /\ Paired /\ Good

Nothing == disk.ids = <<>> /\ mem = [Fresh EXCEPT !.mode = "up"]

Cut1 == Empties /\ (Unsaved(disk) => Len(disk.bin) = disk.append.base)
Cut == Empties /\ (Unsaved(disk) => Paired /\ Len(disk.ids) = disk.append.base)

Undo1 == NoLog /\ (Halfway(disk) => disk.bin = disk.backup.bin)
Undone == NoLog /\ (Halfway(disk) => disk.bin = disk.backup.bin /\ disk.ids = disk.backup.ids)

Tidy == NoLog /\ NoSwitch /\ Empties

Warming ==
    /\ Up /\ Empties /\ NoLog /\ NoSwitch /\ Paired /\ Members(disk.ids, mem)
    /\ mem.index = (IF mem.trained THEN Range(disk.ids) \ mem.deleted ELSE {})
    /\ mem.fallback = {}

\* A checkpoint is rolled back: what was added since is cut off.
CutBack(s) == Len(s) = mem.mark.rows
Back(bin, ids) ==
    /\ Up /\ Marked /\ NoSwitch
    /\ bin => CutBack(disk.bin)
    /\ ids => CutBack(disk.ids) /\ NoLog
Back4 == Back(TRUE, TRUE) /\ disk.meta = mem.mark.meta /\ Empties

\* What holds in each situation.
Is(g) ==
    CASE g = "steady" -> Steady
      [] g = "logged" -> Logged
      [] g = "half" -> Half
      [] g = "flushed" -> Flushed
      [] g = "saved" -> Recorded
      [] g = "clean" -> Clean
      [] g = "swap1" -> Swap1
      [] g = "swap2" -> Swap2
      [] g = "swap3" -> Swap3
      [] g = "doff1" -> Swap(0)
      [] g = "doff2" -> Swap(0) /\ disk.bin = <<>>
      [] g = "doff3" -> Swap(0) /\ disk.bin = <<>> /\ disk.ids = <<>>
      [] g = "new" -> New
      [] g = "void" -> New /\ Nothing
      [] g = "switched" -> Switched
      [] g = "voided" -> Switched /\ Nothing
      [] g = "down" -> Down
      [] g = "cutting" -> Down
      [] g = "cut1" -> Down /\ Cut1
      [] g = "cut" -> Down /\ Cut
      [] g = "undo" -> Down /\ NoLog
      [] g = "undo1" -> Down /\ Undo1
      [] g = "undone" -> Down /\ Undone
      [] g = "unwound" -> Down /\ Tidy
      [] g = "clearing" -> Up /\ Empties /\ NoSwitch
      [] g = "clear1" -> Up /\ NoSwitch /\ Cut1
      [] g = "cleared" -> Up /\ NoSwitch /\ Cut
      [] g = "tidy" -> Up /\ Tidy
      [] g = "warming" -> Warming
      [] g = "blank" -> Up /\ Tidy /\ Paired /\ disk.ids = <<>>
      [] g = "emptied" -> NoLog /\ NoSwitch /\ Paired /\ Nothing
      [] g = "back1" -> Steady /\ Marked
      [] g = "back2" -> Back(TRUE, FALSE)
      [] g = "back3" -> Back(TRUE, TRUE)
      [] g = "back4" -> Back4
      [] OTHER -> FALSE

\* The files still begin with the rows of an open checkpoint.
MarkKept(d, mark) ==
    /\ mark.meta.exists /\ mark.meta.deleted \subseteq mark.meta.known
    /\ Len(d.bin) >= mark.rows /\ Len(d.ids) >= mark.rows
    /\ Prefix(d.bin, mark.rows) = Prefix(d.ids, mark.rows)
    /\ Describes(mark.meta, Prefix(d.ids, mark.rows))

Rolling(g) == g \in {"back2", "back3", "back4"}

\* What holds whatever the situation is.
Sound(c, g) ==
    /\ Rolling(g) \/ Restorable(disk)
    /\ Marked => /\ c \in Markers /\ MarkKept(disk, mem.mark)
                 /\ Rolling(g) \/ (disk.meta.exists /\ disk.meta.rows >= mem.mark.rows)
    /\ c = "revive" => mem.revive \subseteq mem.known \cap mem.deleted

Stage(c, k) == Here(c, k) /\ Is(Region(c)[k]) /\ Sound(c, Region(c)[k])

IInv == TypeOK /\ \E c \in CallName : \E k \in 1 .. Len(Body(c)) + 1 : Stage(c, k)

-----------------------------------------------------------------------------
(* Sequences *)

Induction(S, n) == 0 \in S /\ \A m \in 0 .. n - 1 : m \in S => m + 1 \in S

\* A set of numbers that is not empty has a least one: the order of Nat is well-
\* founded.
LEMMA LeastNumber ==
    ASSUME NEW T \in SUBSET Nat, T # {}
    PROVE  \E x \in T : \A y \in T : x <= y
<1>1. IsWellFoundedOn(OpToRel(<, Nat), Nat)
  BY NatLessThanWellFounded
<1>2. PICK x \in T : \A y \in T : ~ (<<y, x>> \in OpToRel(<, Nat))
  BY <1>1, WFMin
<1>3. \A y \in T : ~(y < x)
  BY <1>2 DEF OpToRel
<1> QED BY <1>3

\* Induction up to n, for a set of numbers.
LEMMA UpTo ==
    ASSUME NEW S, NEW n \in Nat, Induction(S, n)
    PROVE  \A m \in 0 .. n : m \in S
<1> DEFINE Bad == {m \in 0 .. n : m \notin S}
<1> SUFFICES ASSUME Bad # {} PROVE FALSE
  OBVIOUS
<1>1. Bad \in SUBSET Nat
  OBVIOUS
<1>2. PICK b \in Bad : \A m \in Bad : b <= m
  <2> HIDE DEF Bad
  <2> QED BY <1>1, LeastNumber
<1>3. b # 0 /\ b - 1 \in 0 .. n - 1 /\ b - 1 \notin Bad
  BY <1>2 DEF Induction
<1>4. b - 1 \in S
  BY <1>3
<1> QED BY <1>2, <1>3, <1>4 DEF Induction

\* The first n elements of a sequence.
LEMMA PrefixIs ==
    ASSUME NEW S, NEW s \in Seq(S), NEW n \in 0 .. Len(s)
    PROVE  /\ Prefix(s, n) \in Seq(S) /\ Len(Prefix(s, n)) = n
           /\ \A i \in 1 .. n : Prefix(s, n)[i] = s[i]
           /\ Prefix(s, Len(s)) = s
BY DEF Prefix

\* The beginning of a beginning.
LEMMA PrefixOfPrefix ==
    ASSUME NEW S, NEW s \in Seq(S), NEW m \in 0 .. Len(s), NEW n \in 0 .. m
    PROVE  Prefix(Prefix(s, m), n) = Prefix(s, n)
<1>1. Prefix(s, m) \in Seq(S) /\ Len(Prefix(s, m)) = m /\ n \in 0 .. Len(s) /\ m \in Nat
  BY PrefixIs
<1>2. \A i \in 1 .. n : Prefix(Prefix(s, m), n)[i] = Prefix(s, n)[i]
  BY <1>1, PrefixIs
<1>3. /\ Prefix(Prefix(s, m), n) \in Seq(S) /\ Len(Prefix(Prefix(s, m), n)) = n
      /\ Prefix(s, n) \in Seq(S) /\ Len(Prefix(s, n)) = n
  BY <1>1, PrefixIs
<1> QED BY <1>2, <1>3, SeqEqual

\* Two sequences, one after the other: length, elements and what is before the seam.
LEMMA Joined ==
    ASSUME NEW S, NEW s \in Seq(S), NEW t \in Seq(S)
    PROVE  /\ s \o t \in Seq(S) /\ Len(s \o t) = Len(s) + Len(t)
           /\ Range(s \o t) = Range(s) \cup Range(t)
           /\ \A n \in 0 .. Len(s) : Prefix(s \o t, n) = Prefix(s, n)
           /\ t = <<>> => s \o t = s
<1>1. s \o t \in Seq(S) /\ Len(s \o t) = Len(s) + Len(t)
  BY ConcatProperties
<1>2. Range(s \o t) = Range(s) \cup Range(t)
  BY RangeConcatenation
<1>3. ASSUME NEW n \in 0 .. Len(s) PROVE Prefix(s \o t, n) = Prefix(s, n)
  <2>1. n \in 0 .. Len(s \o t)
    BY <1>1
  <2>2. /\ Prefix(s \o t, n) \in Seq(S) /\ Len(Prefix(s \o t, n)) = n
        /\ Prefix(s, n) \in Seq(S) /\ Len(Prefix(s, n)) = n
    BY <1>1, <2>1, PrefixIs
  <2>3. \A i \in 1 .. n : i \in 1 .. Len(s) + Len(t) /\ (s \o t)[i] = s[i]
    BY LenProperties, ConcatProperties
  <2>4. \A i \in 1 .. n : Prefix(s \o t, n)[i] = Prefix(s, n)[i]
    BY <1>1, <2>1, <2>3, PrefixIs
  <2> QED BY <2>2, <2>4, SeqEqual
<1>4. t = <<>> => s \o t = s
  BY ConcatEmptySeq
<1> QED BY <1>1, <1>2, <1>3, <1>4

\* The elements of a sequence.
LEMMA RangeIs ==
    ASSUME NEW S, NEW s \in Seq(S)
    PROVE  /\ Range(s) \in SUBSET S
           /\ \A x : x \in Range(s) <=> \E i \in 1 .. Len(s) : s[i] = x
BY DEF Range

\* Two sequences without repetition and without common elements, one after the other.
LEMMA DistinctJoined ==
    ASSUME NEW S, NEW s \in Seq(S), NEW t \in Seq(S),
           Distinct(s), Distinct(t), Range(s) \cap Range(t) = {}
    PROVE  Distinct(s \o t)
<1> DEFINE u == s \o t
<1>1. Len(s) \in Nat /\ Len(t) \in Nat /\ Len(u) = Len(s) + Len(t)
  BY LenProperties, ConcatProperties
<1>2. \A i \in 1 .. Len(u) : /\ i <= Len(s) => i \in 1 .. Len(s) /\ u[i] = s[i]
                             /\ i > Len(s) => i - Len(s) \in 1 .. Len(t) /\ u[i] = t[i - Len(s)]
  BY <1>1, ConcatProperties
<1>3. \A i \in 1 .. Len(s), j \in 1 .. Len(t) : s[i] # t[j]
  BY RangeIs
<1> HIDE DEF u
<1> SUFFICES ASSUME NEW i \in 1 .. Len(u), NEW j \in 1 .. Len(u), u[i] = u[j]
             PROVE  i = j
  BY DEF Distinct, u
<1>4. CASE i <= Len(s) /\ j <= Len(s)
  BY <1>1, <1>2, <1>4 DEF Distinct
<1>5. CASE i <= Len(s) /\ j > Len(s)
  BY <1>1, <1>2, <1>3, <1>5
<1>6. CASE i > Len(s) /\ j <= Len(s)
  BY <1>1, <1>2, <1>3, <1>6
<1>7. CASE i > Len(s) /\ j > Len(s)
  <2>1. i - Len(s) = j - Len(s)
    BY <1>1, <1>2, <1>7 DEF Distinct
  <2> QED BY <1>1, <2>1
<1> QED BY <1>1, <1>4, <1>5, <1>6, <1>7

\* The empty sequence.
LEMMA EmptyIs ==
    /\ \A S : <<>> \in Seq(S)
    /\ Len(<<>>) = 0 /\ Range(<<>>) = {} /\ Distinct(<<>>)
<1>1. \A S : <<>> \in Seq(S)
  BY EmptySeq
<1>2. Len(<<>>) = 0
  BY EmptySeq
<1>3. ASSUME NEW x PROVE x \notin Range(<<>>)
  <2>1. <<>> \in Seq({}) /\ 1 .. Len(<<>>) = {}
    BY <1>1, <1>2
  <2> QED BY <2>1, RangeIs
<1> QED BY <1>1, <1>2, <1>3 DEF Distinct

\* A sequence without elements is the empty one.
LEMMA LenZero ==
    ASSUME NEW S, NEW s \in Seq(S)
    PROVE  /\ Len(s) \in Nat /\ (Len(s) = 0 <=> s = <<>>)
           /\ s = <<>> <=> Range(s) = {}
<1>1. Len(s) \in Nat
  BY LenProperties
<1>2. Len(s) = 0 <=> s = <<>>
  BY EmptySeq
<1>3. s # <<>> => s[1] \in Range(s)
  <2> SUFFICES ASSUME s # <<>> PROVE s[1] \in Range(s)
    OBVIOUS
  <2>1. 1 \in 1 .. Len(s)
    BY <1>1, <1>2
  <2> QED BY <2>1, RangeIs
<1>4. s = <<>> => Range(s) = {}
  BY EmptyIs
<1> QED BY <1>1, <1>2, <1>3, <1>4

\* As many rows as ids.
LEMMA DistinctCounts ==
    ASSUME NEW S, NEW s \in Seq(S), Distinct(s)
    PROVE  IsFiniteSet(Range(s)) /\ Cardinality(Range(s)) = Len(s)
<1>1. Len(s) \in Nat /\ s \in [1 .. Len(s) -> S] /\ DOMAIN s = 1 .. Len(s)
  BY LenProperties
<1>2. s \in [1 .. Len(s) -> Range(s)]
  BY <1>1, RangeIs
<1>3. IsInjective(s) /\ \A x \in Range(s) : \E i \in 1 .. Len(s) : s[i] = x
  BY <1>1, RangeIs DEF Distinct, IsInjective
<1>4. ExistsBijection(1 .. Len(s), Range(s))
  BY <1>2, <1>3 DEF ExistsBijection, Bijection, Injection, Surjection
<1>5. IsFiniteSet(1 .. Len(s)) /\ Cardinality(1 .. Len(s)) = Len(s)
  BY <1>1, FS_Interval
<1> QED BY <1>4, <1>5, FS_Bijection

\* SetToSeq: every element once.
LEMMA Listed ==
    ASSUME NEW S, NEW T \in SUBSET S, IsFiniteSet(S)
    PROVE  SetToSeq(T) \in Seq(S) /\ Distinct(SetToSeq(T)) /\ Range(SetToSeq(T)) = T
<1> DEFINE n == Cardinality(T)
           Ways == [1 .. n -> T]
           s == SetToSeq(T)
<1>1. IsFiniteSet(T) /\ n \in Nat /\ ExistsBijection(1 .. n, T)
  BY FS_Subset, FS_CardinalityType
<1>2. PICK b \in Ways : IsInjective(b)
  BY <1>1 DEF ExistsBijection, Bijection, Injection
<1>3. s \in Ways /\ IsInjective(s)
  BY <1>2, Zenon DEF SetToSeq
<1> HIDE DEF s
<1>4. IsFiniteSet(1 .. n) /\ Cardinality(1 .. n) = n
  BY <1>1, FS_Interval
<1> HIDE DEF n
<1>5. s \in Injection(1 .. n, T)
  BY <1>3 DEF Injection
<1>6. s \in Surjection(1 .. n, T)
  BY <1>1, <1>4, <1>5, FS_Injection DEF n
<1>7. s \in Seq(S) /\ Len(s) = n /\ DOMAIN s = 1 .. n
  BY <1>1, <1>3
<1>8. Distinct(s)
  BY <1>3, <1>7 DEF Distinct, IsInjective
<1>9. Range(s) = T
  <2>1. \A x \in T : \E i \in 1 .. n : s[i] = x
    BY <1>6 DEF Surjection
  <2>2. \A x : x \in Range(s) <=> \E i \in 1 .. Len(s) : s[i] = x
    BY <1>7, RangeIs
  <2>3. \A i \in 1 .. n : s[i] \in T
    BY <1>3
  <2> QED BY <1>7, <2>1, <2>2, <2>3
<1> QED BY <1>7, <1>8, <1>9 DEF s

-----------------------------------------------------------------------------
(* The rows that live. *)

\* One step of Living, and its values up to n.
Grow(g, n, s, D) ==
    [i \in 0 .. n |-> IF i = 0 THEN <<>> ELSE IF s[i] \in D THEN g[i - 1] ELSE Append(g[i - 1], s[i])]

Grown(s, D) == CHOOSE g : g = Grow(g, Len(s), s, D)

\* Living, as the last value of a function on 0 .. Len(s).
LEMMA LivingIs ==
    ASSUME NEW s \in Seq(Id), NEW D
    PROVE  Living(s, D) = Grown(s, D)[Len(s)]
BY DEF Living, Grown, Grow

\* A function with the recursion of Living exists up to 0 ...
LEMMA GrowStart ==
    ASSUME NEW s, NEW D
    PROVE  \E g : g = Grow(g, 0, s, D)
<1> DEFINE h == [i \in 0 .. 0 |-> <<>>]
<1>1. h = Grow(h, 0, s, D)
  BY DEF Grow
<1> QED BY <1>1

\* ... and if it exists up to n - 1, up to n ...
LEMMA GrowFurther ==
    ASSUME NEW s, NEW D, NEW n \in Nat \ {0}, NEW g, g = Grow(g, n - 1, s, D)
    PROVE  \E h : h = Grow(h, n, s, D)
<1> DEFINE h == [i \in 0 .. n |-> IF i < n THEN g[i]
                                  ELSE IF s[n] \in D THEN g[n - 1] ELSE Append(g[n - 1], s[n])]
<1>1. \A i \in 0 .. n - 1 :
        g[i] = IF i = 0 THEN <<>> ELSE IF s[i] \in D THEN g[i - 1] ELSE Append(g[i - 1], s[i])
  BY DEF Grow
<1>2. \A i \in 0 .. n :
        h[i] = IF i = 0 THEN <<>> ELSE IF s[i] \in D THEN h[i - 1] ELSE Append(h[i - 1], s[i])
  BY <1>1
<1>3. h = Grow(h, n, s, D)
  <2> DEFINE k == Grow(h, n, s, D)
  <2>1. h = [i \in 0 .. n |-> h[i]] /\ k = [i \in 0 .. n |-> k[i]]
    BY DEF Grow
  <2>2. \A i \in 0 .. n : k[i] = h[i]
    BY <1>2 DEF Grow
  <2> HIDE DEF h, k
  <2>3. [i \in 0 .. n |-> k[i]] = [i \in 0 .. n |-> h[i]]
    BY <2>2
  <2> QED BY <2>1, <2>3 DEF k
<1> HIDE DEF h
<1> QED BY <1>3

\* ... so it exists for every length, and the one that is chosen has the recursion.
LEMMA GrownIs ==
    ASSUME NEW s \in Seq(Id), NEW D
    PROVE  Grown(s, D) = Grow(Grown(s, D), Len(s), s, D)
<1> DEFINE Grows == {n \in 0 .. Len(s) : \E g : g = Grow(g, n, s, D)}
<1>1. Len(s) \in Nat
  BY LenProperties
<1>2. 0 \in Grows
  BY <1>1, GrowStart
<1>3. ASSUME NEW m \in 0 .. Len(s) - 1, m \in Grows PROVE m + 1 \in Grows
  <2>1. PICK g : g = Grow(g, m, s, D)
    BY <1>3
  <2>2. m + 1 \in Nat \ {0} /\ (m + 1) - 1 = m /\ m + 1 \in 0 .. Len(s)
    BY <1>1
  <2>3. \E h : h = Grow(h, m + 1, s, D)
    BY <2>1, <2>2, GrowFurther
  <2> QED BY <2>2, <2>3
<1>4. \A m \in 0 .. Len(s) : m \in Grows
  <2> HIDE DEF Grows
  <2> QED BY <1>1, <1>2, <1>3, UpTo DEF Induction
<1>5. \E g : g = Grow(g, Len(s), s, D)
  BY <1>1, <1>4
<1> QED BY <1>5, Zenon DEF Grown

\* Living keeps the rows without a tombstone, each of them once.
LEMMA LivingRows ==
    ASSUME NEW s \in Seq(Id), NEW D
    PROVE  /\ Living(s, D) \in Seq(Id) /\ Range(Living(s, D)) = Range(s) \ D
           /\ Distinct(s) => Distinct(Living(s, D))
<1> DEFINE g == Grown(s, D)
           Fine == {n \in 0 .. Len(s) :
                      /\ g[n] \in Seq(Id)
                      /\ \A x : x \in Range(g[n]) <=> x \notin D /\ \E i \in 1 .. n : s[i] = x
                      /\ Distinct(s) => Distinct(g[n])}
<1>1. Len(s) \in Nat
  BY LenProperties
<1>2. /\ g[0] = <<>>
      /\ \A m \in 0 .. Len(s) - 1 : g[m + 1] = IF s[m + 1] \in D THEN g[m] ELSE Append(g[m], s[m + 1])
  <2> HIDE DEF g
  <2>1. g = Grow(g, Len(s), s, D)
    BY GrownIs DEF g
  <2>2. \A i \in 0 .. Len(s) :
          g[i] = IF i = 0 THEN <<>> ELSE IF s[i] \in D THEN g[i - 1] ELSE Append(g[i - 1], s[i])
    BY <2>1 DEF Grow
  <2> QED BY <1>1, <2>2
<1> HIDE DEF g
<1>3. 0 \in Fine
  <2>1. 0 \in 0 .. Len(s) /\ \A x : ~ \E i \in 1 .. 0 : s[i] = x
    BY <1>1
  <2> QED BY <1>2, <2>1, EmptyIs
<1>4. ASSUME NEW m \in 0 .. Len(s) - 1, m \in Fine PROVE m + 1 \in Fine
  <2> DEFINE a == g[m]
             x == s[m + 1]
             b == g[m + 1]
  <2>1. a \in Seq(Id) /\ x \in Id /\ m + 1 \in 0 .. Len(s) /\ m \in Nat
    BY <1>1, <1>4
  <2>2. \A y : y \in Range(a) <=> y \notin D /\ \E i \in 1 .. m : s[i] = y
    BY <1>4
  <2>3. Distinct(s) => Distinct(a)
    BY <1>4
  <2>4. \A y : (\E i \in 1 .. m + 1 : s[i] = y) <=> y = x \/ \E i \in 1 .. m : s[i] = y
    BY <2>1
  <2>5. b = IF x \in D THEN a ELSE Append(a, x)
    BY <1>2
  <2> HIDE DEF a, b, x
  <2>6. CASE x \in D
    BY <2>1, <2>2, <2>3, <2>4, <2>5, <2>6 DEF b
  <2>7. CASE x \notin D
    <3>1. b \in Seq(Id) /\ Len(b) = Len(a) + 1 /\ Len(a) \in Nat /\ b[Len(b)] = x
          /\ \A i \in 1 .. Len(a) : b[i] = a[i]
      BY <2>1, <2>5, <2>7, AppendProperties
    <3>2. \A y : y \in Range(b) <=> y = x \/ y \in Range(a)
      <4>1. /\ \A y : y \in Range(a) <=> \E i \in 1 .. Len(a) : a[i] = y
            /\ \A y : y \in Range(b) <=> \E i \in 1 .. Len(b) : b[i] = y
        BY <2>1, <3>1, RangeIs
      <4>2. ASSUME NEW y, NEW i \in 1 .. Len(b), b[i] = y, y # x PROVE \E j \in 1 .. Len(a) : a[j] = y
        BY <3>1, <4>2
      <4>3. Len(b) \in 1 .. Len(b) /\ \A i \in 1 .. Len(a) : i \in 1 .. Len(b)
        BY <3>1
      <4> QED BY <3>1, <4>1, <4>2, <4>3
    <3>3. Distinct(s) => x \notin Range(a)
      <4>1. Distinct(s) => \A i \in 1 .. m : s[i] # x
        BY <1>1, <2>1 DEF Distinct, x
      <4> QED BY <2>2, <4>1
    <3>4. ASSUME Distinct(s) PROVE Distinct(b)
      <4>1. \A i \in 1 .. Len(a) : a[i] # x
        BY <2>1, <3>3, <3>4, RangeIs
      <4> QED BY <2>3, <3>1, <3>4, <4>1 DEF Distinct
    <3> QED BY <2>1, <2>2, <2>4, <2>7, <3>1, <3>2, <3>4 DEF b
  <2> QED BY <2>6, <2>7
<1>5. \A m \in 0 .. Len(s) : m \in Fine
  <2> HIDE DEF Fine
  <2> QED BY <1>1, <1>3, <1>4, UpTo DEF Induction
<1>6. Len(s) \in Fine
  <2> HIDE DEF Fine
  <2> QED BY <1>1, <1>5
<1>7. Living(s, D) = g[Len(s)]
  BY LivingIs DEF g
<1>8. \A y : y \in Range(g[Len(s)]) <=> y \in Range(s) \ D
  BY <1>6, RangeIs
<1> QED BY <1>6, <1>7, <1>8

-----------------------------------------------------------------------------
(* The steps of the calls. *)

\* The step s of the call c leads from situation a to situation b.
Goes(c, s, a, b) ==
    CASE s = "log" -> \/ a = "steady" /\ b = "logged"
                      \/ a = "new" /\ b = "new" /\ c = "compact"
                      \/ a = "void" /\ b = "void" /\ c = "clear"
      [] s = "bin" -> \/ a = "logged" /\ b = "half"
                      \/ a = "new" /\ b = "new" /\ c = "compact"
                      \/ a = "void" /\ b = "void" /\ c = "clear"
      [] s = "ids" -> \/ a = "half" /\ b = "steady" /\ c = "flush"
                      \/ a = "half" /\ b = "flushed"
                      \/ a = "new" /\ b = "new" /\ c = "compact"
                      \/ a = "void" /\ b = "void" /\ c = "clear"
      [] s = "revive" -> a = "flushed" /\ b = "steady" /\ c = "revive"
      [] s = "warm" -> \/ a = "flushed" /\ b = "steady" /\ c = "train"
                       \/ a = "warming" /\ b = "steady" /\ c = "load"
      [] s = "meta" -> \/ a = "flushed" /\ b = "saved"
                       \/ a = "new" /\ b = "switched" /\ c = "compact"
                       \/ a = "void" /\ b = "voided" /\ c = "clear"
      [] s = "unlog" -> \/ a = "saved" /\ b = "clean"
                        \/ a = "switched" /\ b = "switched" /\ c = "compact"
                        \/ a = "cut" /\ b = "undo" /\ c = "load"
                        \/ a = "cleared" /\ b = "tidy" /\ c = "clear"
                        \/ a = "voided" /\ b = "voided" /\ c = "clear"
      [] s = "unswitch" -> \/ a = "clean" /\ b = "steady" /\ c = "save"
                           \/ a = "steady" /\ b = "steady" /\ c = "compact"
                           \/ a = "clean" /\ b = "clean" /\ c = "compact"
                           \/ a = "switched" /\ b = "steady" /\ c = "compact"
                           \/ a = "undone" /\ b = "unwound" /\ c = "load"
                           \/ a = "tidy" /\ b = "tidy" /\ c = "clear"
                           \/ a = "voided" /\ b = "emptied" /\ c = "clear"
      [] s = "restorebin" -> \/ a = "steady" /\ b = "steady" /\ c = "compact"
                             \/ a = "undo" /\ b = "undo1" /\ c = "load"
                             \/ a = "tidy" /\ b = "tidy" /\ c = "clear"
      [] s = "restoreids" -> \/ a = "steady" /\ b = "steady" /\ c = "compact"
                             \/ a = "undo1" /\ b = "undone" /\ c = "load"
                             \/ a = "tidy" /\ b = "tidy" /\ c = "clear"
      [] s = "reload" -> \/ a = "steady" /\ b = "steady" /\ c = "compact"
                         \/ a = "undone" /\ b = "undone" /\ c = "load"
                         \/ a = "tidy" /\ b = "tidy" /\ c = "clear"
      [] s = "switchlog" -> a = "clean" /\ b = "swap1" /\ c = "compact"
      [] s = "swapbin" -> \/ a = "swap1" /\ b = "swap2" /\ c = "compact"
                          \/ a = "doff1" /\ b = "doff2" /\ c = "clear"
      [] s = "swapids" -> \/ a = "swap2" /\ b = "swap3" /\ c = "compact"
                          \/ a = "doff2" /\ b = "doff3" /\ c = "clear"
      [] s = "dropdead" -> a = "swap3" /\ b = "new" /\ c = "compact"
      [] s = "cutbin" -> \/ a = "cutting" /\ b = "cut1" /\ c = "load"
                         \/ a = "clearing" /\ b = "clear1" /\ c = "clear"
      [] s = "cutids" -> \/ a = "cut1" /\ b = "cut" /\ c = "load"
                         \/ a = "clear1" /\ b = "cleared" /\ c = "clear"
      [] s = "adopt" -> a = "unwound" /\ b = "warming" /\ c = "load"
      [] s = "switchempty" -> a = "tidy" /\ b = "doff1" /\ c = "clear"
      [] s = "empty" -> \/ a = "doff3" /\ b = "void" /\ c = "clear"
                        \/ a = "blank" /\ b = "emptied" /\ c = "blank"
      [] s = "unmeta" -> a = "emptied" /\ b = "steady" /\ c \in {"clear", "blank"}
      [] s = "rbbin" -> a = "back1" /\ b = "back2" /\ c = "rollback"
      [] s = "rbids" -> a = "back2" /\ b = "back3" /\ c = "rollback"
      [] s = "rbmeta" -> a = "back3" /\ b = "back4" /\ c = "rollback"
      [] s = "rbload" -> a = "back4" /\ b = "steady" /\ c = "rollback"
      [] OTHER -> FALSE

\* Region and Body together: each step of each call is one of those that Goes lists.
LEMMA Table ==
    ASSUME NEW c \in CallName, NEW k \in 1 .. Len(Body(c))
    PROVE  Goes(c, Body(c)[k], Region(c)[k], Region(c)[k + 1])
<1>1. CASE c = "flush"
  BY <1>1 DEF Body, Region, Goes
<1>2. CASE c = "revive"
  BY <1>2 DEF Body, Region, Goes
<1>3. CASE c = "train"
  BY <1>3 DEF Body, Region, Goes
<1>4. CASE c = "save"
  BY <1>4 DEF Body, Region, Goes
<1>5. CASE c = "compact"
  BY <1>5 DEF Body, Region, Goes
<1>6. CASE c = "load"
  BY <1>6 DEF Body, Region, Goes
<1>7. CASE c = "clear"
  BY <1>7 DEF Body, Region, Goes
<1>8. CASE c = "blank"
  BY <1>8 DEF Body, Region, Goes
<1>9. CASE c = "rollback"
  BY <1>9 DEF Body, Region, Goes
<1>10. CASE c \in {"idle", "off"}
  BY <1>10 DEF Body
<1> QED BY <1>1, <1>2, <1>3, <1>4, <1>5, <1>6, <1>7, <1>8, <1>9, <1>10 DEF CallName

\* A script is a sequence of steps.
LEMMA BodyIs ==
    ASSUME NEW c \in CallName
    PROVE  Body(c) \in Seq(StepName) /\ Len(Body(c)) \in Nat
<1>1. Body(c) \in Seq(StepName)
  <2>1. CASE c = "idle"
    BY <2>1 DEF Body, StepName
  <2>2. CASE c = "off"
    BY <2>2 DEF Body, StepName
  <2>3. CASE c = "flush"
    BY <2>3 DEF Body, StepName
  <2>4. CASE c = "revive"
    BY <2>4 DEF Body, StepName
  <2>5. CASE c = "train"
    BY <2>5 DEF Body, StepName
  <2>6. CASE c = "save"
    BY <2>6 DEF Body, StepName
  <2>7. CASE c = "compact"
    BY <2>7 DEF Body, StepName
  <2>8. CASE c = "load"
    BY <2>8 DEF Body, StepName
  <2>9. CASE c = "clear"
    BY <2>9 DEF Body, StepName
  <2>10. CASE c = "blank"
    BY <2>10 DEF Body, StepName
  <2>11. CASE c = "rollback"
    BY <2>11 DEF Body, StepName
  <2> QED BY <2>1, <2>2, <2>3, <2>4, <2>5, <2>6, <2>7, <2>8, <2>9, <2>10, <2>11 DEF CallName
<1> QED BY <1>1, LenProperties

\* The step at the head of todo is the one the script is at.
LEMMA Places ==
    ASSUME NEW c \in CallName, NEW k \in 1 .. Len(Body(c)) + 1, Here(c, k), NEW s, At(s)
    PROVE  /\ k \in 1 .. Len(Body(c)) /\ k + 1 \in 1 .. Len(Body(c)) + 1
           /\ Body(c)[k] = s /\ Goes(c, s, Region(c)[k], Region(c)[k + 1])
<1>1. todo \in Seq(StepName) /\ todo # <<>> /\ Len(todo) \in Nat \ {0} /\ todo[1] = s
  BY EmptySeq, HeadTailProperties DEF Here, At
<1>2. k \in 1 .. Len(Body(c)) /\ k + 1 \in 1 .. Len(Body(c)) + 1 /\ Body(c)[k] = s
  BY <1>1, BodyIs DEF Here
<1> QED BY <1>2, Table

\* A step done: the next one.
LEMMA Advance ==
    ASSUME NEW c \in CallName, NEW k \in 1 .. Len(Body(c)) + 1, Here(c, k), todo # <<>>, Done
    PROVE  Here(c, k + 1)'
<1>1. todo \in Seq(StepName) /\ Len(todo) \in Nat \ {0}
  BY EmptySeq DEF Here
<1>2. /\ todo' \in Seq(StepName) /\ Len(todo') = Len(todo) - 1
      /\ \A i \in 1 .. Len(todo) - 1 : todo'[i] = todo[i + 1]
  BY <1>1, HeadTailProperties DEF Done
<1>3. Len(todo) = Len(Body(c)) + 1 - k /\ Len(Body(c)) \in Nat
  BY BodyIs DEF Here
<1>4. \A i \in 1 .. Len(todo) - 1 : todo'[i] = Body(c)[k + i]
  <2> SUFFICES ASSUME NEW i \in 1 .. Len(todo) - 1 PROVE todo'[i] = Body(c)[k + i]
    OBVIOUS
  <2>1. i + 1 \in 1 .. Len(todo) /\ k + (i + 1) - 1 = k + i
    BY <1>1
  <2>2. todo[i + 1] = Body(c)[k + (i + 1) - 1]
    BY <2>1 DEF Here
  <2> QED BY <1>2, <2>1, <2>2
<1> QED BY <1>1, <1>2, <1>3, <1>4 DEF Here

\* Nothing left to do: between calls, or before load().
LEMMA Waits ==
    ASSUME NEW c \in {"idle", "off"}, todo = <<>>
    PROVE  c \in CallName /\ 1 \in 1 .. Len(Body(c)) + 1 /\ Here(c, 1)
<1>1. Body(c) = <<>>
  BY DEF Body
<1> QED BY <1>1, EmptyIs DEF Here, CallName

\* When todo is empty the script is at its end.
LEMMA NothingLeft ==
    ASSUME NEW c \in CallName, NEW k \in 1 .. Len(Body(c)) + 1, Here(c, k), todo = <<>>
    PROVE  k = Len(Body(c)) + 1
BY BodyIs, EmptyIs DEF Here

\* "unmeta" is ahead in clear(), "rbload" in a roll-back, and nowhere else.
LEMMA Ahead ==
    ASSUME NEW c \in CallName, NEW k \in 1 .. Len(Body(c)) + 1, Here(c, k)
    PROVE  /\ "unmeta" \in Range(todo) <=> c \in {"clear", "blank"} /\ todo # <<>>
           /\ "rbload" \in Range(todo) <=> c = "rollback" /\ todo # <<>>
<1>1. todo \in Seq(StepName) /\ Len(todo) \in Nat /\ Len(Body(c)) \in Nat /\ Len(todo) = Len(Body(c)) + 1 - k
  BY BodyIs, LenProperties DEF Here
<1>2. \A i \in 1 .. Len(todo) : k + i - 1 \in 1 .. Len(Body(c)) /\ todo[i] = Body(c)[k + i - 1]
  BY <1>1 DEF Here
<1>3. \A x : x \in Range(todo) <=> \E i \in 1 .. Len(todo) : todo[i] = x
  BY <1>1, RangeIs
<1>4. todo # <<>> => Len(todo) \in 1 .. Len(todo) /\ todo[Len(todo)] = Body(c)[Len(Body(c))]
  BY <1>1, <1>2, LenZero
<1>5. todo = <<>> => Range(todo) = {}
  BY EmptyIs
<1>6. c \in {"clear", "blank"} => Body(c)[Len(Body(c))] = "unmeta"
  BY DEF Body
<1>7. c = "rollback" => Body(c)[Len(Body(c))] = "rbload"
  BY DEF Body
<1>8. ASSUME NEW i \in 1 .. Len(Body(c)) PROVE /\ Body(c)[i] = "unmeta" => c \in {"clear", "blank"}
                                               /\ Body(c)[i] = "rbload" => c = "rollback"
  BY Table DEF Goes
<1>9. "unmeta" \in Range(todo) <=> c \in {"clear", "blank"} /\ todo # <<>>
  BY <1>2, <1>3, <1>4, <1>5, <1>6, <1>8
<1>10. "rbload" \in Range(todo) <=> c = "rollback" /\ todo # <<>>
  BY <1>2, <1>3, <1>4, <1>5, <1>7, <1>8
<1> QED BY <1>9, <1>10

-----------------------------------------------------------------------------
(* Each step keeps the invariant. *)

\* The files and the fields, one by one.
Files(d) ==
    /\ d.bin \in Seq(Id) /\ Len(d.bin) \in Nat /\ d.ids \in Seq(Id) /\ Len(d.ids) \in Nat
    /\ d.append \in Journal /\ d.switch \in Journal /\ d.meta \in Meta
    /\ d.backup.bin \in Seq(Id) /\ d.backup.ids \in Seq(Id)

Fields(m) ==
    /\ m.mode \in {"down", "up", "refused", "broken"} /\ m.known \in SUBSET Id /\ m.deleted \in SUBSET Id
    /\ m.buffer \in Seq(Id) /\ Len(m.buffer) \in Nat /\ m.trained \in BOOLEAN
    /\ m.index \in SUBSET Id /\ m.fallback \in SUBSET Id /\ m.revive \in SUBSET Id
    /\ m.mark.rows \in Nat /\ m.mark.meta \in Meta

\* The types, component by component.
LEMMA Typed ==
    ASSUME TypeOK
    PROVE  Files(disk) /\ Fields(mem)
BY LenProperties DEF TypeOK, Files, Fields

\* What a journal and a commit record hold.
LEMMA Records ==
    /\ \A j \in Journal : j.tx \in 0 .. 2 /\ j.base \in Nat /\ j.target \in Nat
    /\ \A m \in Meta : /\ m.tx \in 0 .. 2 /\ m.rows \in Nat /\ m.known \in SUBSET Id
                       /\ m.deleted \in SUBSET Id /\ m.trained \in BOOLEAN /\ m.exists \in BOOLEAN
    /\ NoJournal \in Journal /\ NoMeta \in Meta /\ NoMeta.exists = FALSE
BY DEF Journal, Meta, NoJournal, NoMeta

\* A new transaction id is not the recorded one.
LEMMA NewTxIs ==
    ASSUME NEW d, d.meta.tx \in 0 .. 2
    PROVE  NewTx(d) \in 1 .. 2 /\ ~(d.meta.exists /\ d.meta.tx = NewTx(d))
<1>1. \E t \in 1 .. 2 : ~(d.meta.exists /\ d.meta.tx = t)
  OBVIOUS
<1> QED BY <1>1, Zenon DEF NewTx

\* The next step of the call.
LEMMA Goes1 ==
    ASSUME NEW c \in CallName, NEW k \in 1 .. Len(Body(c)) + 1, Here(c, k), NEW s, At(s), Done,
           TypeOK', Is(Region(c)[k + 1])', Sound(c, Region(c)[k + 1])'
    PROVE  IInv'
<1>1. k + 1 \in 1 .. Len(Body(c)) + 1 /\ Here(c, k + 1)'
  BY Places, Advance DEF At
<1> QED BY <1>1 DEF IInv, Stage

\* The end of the call.
LEMMA Ends ==
    ASSUME NEW c \in {"idle", "off"}, Raise, TypeOK',
           c = "idle" => Steady', c = "off" => Down',
           Restorable(disk)',
           Marked' => /\ c = "idle" /\ MarkKept(disk, mem.mark)'
                      /\ disk'.meta.exists /\ disk'.meta.rows >= mem'.mark.rows
    PROVE  IInv'
<1>1. todo' = <<>> /\ Body(c) = <<>>
  BY DEF Raise, Body
<1>2. c \in CallName /\ 1 \in 1 .. Len(Body(c)) + 1 /\ Here(c, 1)'
  BY <1>1, EmptyIs DEF Here, CallName
<1>3. Region(c)[1] = (IF c = "idle" THEN "steady" ELSE "down")
  BY DEF Region
<1>4. Is(Region(c)[1])'
  BY <1>3 DEF Is
<1>5. Sound(c, Region(c)[1])'
  BY <1>3 DEF Sound, Markers, Rolling
<1> QED BY <1>2, <1>4, <1>5 DEF IInv, Stage

\* A journal that is begun or extended covers what is there, and a switch cannot
\* be open at the same time.
LEMMA Logs ==
    ASSUME Files(disk), Restorable(disk), disk.switch = NoJournal, disk.bin = disk.ids,
           Appending(disk) => disk.append.target = Len(disk.bin),
           NEW n \in Nat \ {0}, NEW d,
           d.append = JournalFor(disk, n), d.switch = disk.switch, d.bin = disk.bin, d.ids = disk.ids,
           d.meta = disk.meta
    PROVE  /\ d.append \in Journal /\ d.append.target = Len(disk.bin) + n
           /\ Unsaved(d) /\ Restorable(d)
<1>1. NewTx(disk) \in 1 .. 2 /\ ~(disk.meta.exists /\ disk.meta.tx = NewTx(disk))
  BY Records, NewTxIs DEF Files
<1>2. ~Halfway(disk) /\ ~Halfway(d) /\ ~Switching(d)
  BY DEF Halfway, Switching
<1>3. CASE Unsaved(disk)
  <2>1. Appending(disk) /\ ~Commits(disk.meta, disk.append) /\ CutOk(disk)
    BY <1>3 DEF Unsaved, Restorable, Wrote, Commits
  <2>2. d.append = [disk.append EXCEPT !.target = Len(disk.bin) + n]
    BY <2>1 DEF JournalFor
  <2>3. /\ d.append \in Journal /\ d.append.target = Len(disk.bin) + n
        /\ d.append.base = disk.append.base /\ d.append.tx = disk.append.tx
    BY <2>2 DEF Files, Journal
  <2>4. Appending(d) /\ ~Wrote(d.meta, d.append)
    BY <1>3, <2>3 DEF Appending, NoJournal, Files, Unsaved, Wrote
  <2>5. CutOk(d)
    BY <2>1, <2>3, Records DEF CutOk, Files
  <2> QED BY <1>2, <2>3, <2>4, <2>5 DEF Restorable, Unsaved, Halfway
<1>4. CASE ~Unsaved(disk)
  <2>1. Describes(disk.meta, disk.ids)
    BY <1>2, <1>4 DEF Restorable
  <2>2. Appending(disk) => Commits(disk.meta, disk.append)
    BY <1>4 DEF Unsaved, Restorable, Wrote, Commits
  <2>3. d.append = [tx |-> NewTx(disk), base |-> Len(disk.bin), target |-> Len(disk.bin) + n]
    BY <2>2 DEF JournalFor
  <2>4. /\ d.append \in Journal /\ d.append.target = Len(disk.bin) + n
        /\ d.append.base = Len(disk.bin) /\ d.append.tx = NewTx(disk)
    BY <1>1, <2>3 DEF Files, Journal
  <2>5. Appending(d) /\ ~Wrote(d.meta, d.append)
    BY <1>1, <2>4 DEF Appending, NoJournal, Files, Unsaved, Wrote
  <2>6. CutOk(d)
    BY <2>1, <2>4, PrefixIs DEF CutOk, Files, Describes
  <2> QED BY <1>2, <2>4, <2>5, <2>6 DEF Restorable, Unsaved, Halfway
<1> QED BY <1>3, <1>4

\* The rows of a checkpoint, and what is recorded, are as before.
LEMMA SoundAgain ==
    ASSUME NEW c, NEW a, NEW b, Sound(c, a), ~Rolling(a), Restorable(disk)',
           mem'.mark = mem.mark, disk'.bin = disk.bin, disk'.ids = disk.ids, disk'.meta = disk.meta,
           c = "revive" => mem'.revive \subseteq mem'.known \cap mem'.deleted
    PROVE  Sound(c, b)'
<1>1. Marked => MarkKept(disk, mem.mark)'
  BY DEF Sound, MarkKept
<1> QED BY <1>1 DEF Sound, Marked

\* With the same files and fields, the situation is the same.
LEMMA Same ==
    ASSUME NEW g, Is(g), disk' = disk, mem' = mem
    PROVE  Is(g)'
BY DEF Is, Steady, Logged, Half, Flushed, Recorded, Clean, Swap1, Swap2, Swap3, Swap, New, Switched, Nothing,
       Down, Cut1, Cut, Undo1, Undone, Tidy, Warming, Back, Back4, CutBack, Up, Empties, NoLog, NoSwitch, Paired,
       Good, Target, Marked

\* A step that is done leads to situation b of the call c.
Onward(c, b) == Done /\ TypeOK' /\ Is(b)' /\ Sound(c, b)'

\* The journal of a flush (_flush_write_buffer_unlocked).
LEMMA LogAppendKeeps ==
    ASSUME TypeOK, NEW c, NEW a, NEW b, Goes(c, "log", a, b), Is(a), Sound(c, a), LogAppend
    PROVE  Onward(c, b)
<1>1. Files(disk) /\ Fields(mem)
  BY Typed
<1>2. a \in {"steady", "new", "void"} /\ b \notin {"back2", "back3", "back4"}
  BY DEF Goes
<1>3. CASE mem.buffer = <<>>
  <2>1. disk' = disk /\ mem' = mem /\ Done /\ TypeOK'
    BY <1>3 DEF LogAppend, Stay, TypeOK
  <2>2. ASSUME a = "steady" PROVE Is(b)'
    <3>1. Steady /\ b = "logged" /\ Len(mem.buffer) = 0
      BY <1>3, <2>2, EmptyIs DEF Goes, Is
    <3>2. Logged
      BY <1>1, <1>3, <3>1 DEF Steady, Logged, Empties, Target, Files
    <3>3. Is(b)
      BY <3>1, <3>2 DEF Is
    <3> QED BY <2>1, <3>3, Same
  <2>3. ASSUME a # "steady" PROVE Is(b)'
    <3>1. b = a
      BY <2>3 DEF Goes
    <3> QED BY <2>1, <3>1, Same
  <2>4. Sound(c, b)'
    BY <1>2, <2>1, SoundAgain DEF Sound, Rolling
  <2> QED BY <2>1, <2>2, <2>3, <2>4 DEF Onward
<1>4. CASE mem.buffer # <<>>
  <2>1. Steady /\ b = "logged" /\ Restorable(disk)
    BY <1>2, <1>4 DEF Goes, Is, New, Swap, Empties, Sound, Rolling
  <2>2. Len(mem.buffer) \in Nat \ {0}
    BY <1>1, <1>4, LenZero DEF Fields
  <2>3. /\ disk' = [disk EXCEPT !.append = JournalFor(disk, Len(mem.buffer))]
        /\ mem' = mem /\ Done /\ ops' = ops /\ faults' = faults
    BY <1>4, <2>1 DEF LogAppend, Steady, Paired, PairAligned, Target, Stay
  <2>4. /\ disk'.append = JournalFor(disk, Len(mem.buffer)) /\ disk'.switch = disk.switch
        /\ disk'.bin = disk.bin /\ disk'.ids = disk.ids /\ disk'.meta = disk.meta
    BY <2>3 DEF TypeOK
  <2>5. /\ disk'.append \in Journal /\ disk'.append.target = Len(disk.bin) + Len(mem.buffer)
        /\ Unsaved(disk') /\ Restorable(disk')
    BY <1>1, <2>1, <2>2, <2>4, Logs DEF Steady, NoSwitch, Paired, Target
  <2>6. TypeOK'
    BY <2>3, <2>4, <2>5 DEF TypeOK
  <2>7. Is(b)'
    BY <2>1, <2>3, <2>4, <2>5 DEF Is, Steady, Logged, Up, NoSwitch, Paired, Good, Target, Empties
  <2>8. Sound(c, b)'
    BY <1>2, <2>3, <2>4, <2>5, SoundAgain DEF Sound, Rolling
  <2> QED BY <2>3, <2>6, <2>7, <2>8 DEF Onward
<1> QED BY <1>3, <1>4

\* More rows behind those of a checkpoint.
LEMMA MarkStays ==
    ASSUME Files(disk), NEW mark, mark.rows \in Nat, MarkKept(disk, mark),
           NEW s \in Seq(Id), NEW t \in Seq(Id), NEW d, d.bin = disk.bin \o s, d.ids = disk.ids \o t
    PROVE  MarkKept(d, mark)
<1>1. mark.rows \in 0 .. Len(disk.bin) /\ mark.rows \in 0 .. Len(disk.ids)
  BY DEF MarkKept, Files
<1>2. Prefix(d.bin, mark.rows) = Prefix(disk.bin, mark.rows) /\ Len(d.bin) >= mark.rows
  BY <1>1, Joined, LenProperties DEF Files
<1>3. Prefix(d.ids, mark.rows) = Prefix(disk.ids, mark.rows) /\ Len(d.ids) >= mark.rows
  BY <1>1, Joined, LenProperties DEF Files
<1> QED BY <1>2, <1>3 DEF MarkKept

\* An append under way writes rows of the buffer: load() still cuts them off.
LEMMA Grows ==
    ASSUME Files(disk), Restorable(disk), NEW s \in Seq(Id), NEW t \in Seq(Id), NEW d,
           d.bin = disk.bin \o s, d.ids = disk.ids \o t, d.append = disk.append, d.switch = disk.switch,
           d.backup = disk.backup, d.meta = disk.meta,
           IF Unsaved(disk)
           THEN Len(disk.bin) + Len(s) <= disk.append.target /\ Len(disk.ids) + Len(t) <= disk.append.target
           ELSE s = <<>> /\ t = <<>>
    PROVE  Restorable(d)
<1>1. CASE ~Unsaved(disk)
  <2>1. d.bin = disk.bin /\ d.ids = disk.ids
    BY <1>1, Joined DEF Files
  <2> QED BY <2>1 DEF Restorable, Unsaved, Halfway, Wrote, Appending, Switching, CutOk, BackupOk
<1>2. CASE Unsaved(disk)
  <2>1. /\ CutOk(disk) /\ ~Switching(disk) /\ disk.append.base \in Nat
        /\ disk.append.base \in 0 .. Len(disk.bin) /\ disk.append.base \in 0 .. Len(disk.ids)
    BY <1>2, Records DEF Restorable, Unsaved, Files, CutOk
  <2>2. /\ Len(d.bin) = Len(disk.bin) + Len(s) /\ Len(d.ids) = Len(disk.ids) + Len(t)
        /\ Len(s) \in Nat /\ Len(t) \in Nat
        /\ Prefix(d.bin, disk.append.base) = Prefix(disk.bin, disk.append.base)
        /\ Prefix(d.ids, disk.append.base) = Prefix(disk.ids, disk.append.base)
    BY <2>1, Joined, LenProperties DEF Files
  <2>3. CutOk(d)
    BY <1>2, <2>1, <2>2, Records DEF CutOk, Files
  <2> QED BY <1>2, <2>1, <2>3 DEF Restorable, Unsaved, Halfway, Wrote, Appending, Switching
<1> QED BY <1>1, <1>2

\* The rows go to vectors.bin: from here the two files differ.
LEMMA AppendBinKeeps ==
    ASSUME TypeOK, NEW c, NEW a, NEW b, Goes(c, "bin", a, b), Is(a), Sound(c, a), AppendBin
    PROVE  Onward(c, b)
<1>1. Files(disk) /\ Fields(mem)
  BY Typed
<1>2. a \in {"logged", "new", "void"} /\ b \notin {"back2", "back3", "back4"}
  BY DEF Goes
<1>3. CASE a # "logged"
  <2>1. b = a /\ mem.buffer = <<>>
    BY <1>2, <1>3 DEF Goes, Is, New, Swap, Empties
  <2>2. disk.bin \o mem.buffer = disk.bin
    BY <1>1, <2>1, Joined DEF Files, Fields
  <2>3. disk' = disk /\ mem' = mem /\ Done /\ TypeOK'
    BY <2>2 DEF AppendBin, Stay, TypeOK
  <2>4. Is(b)' /\ Sound(c, b)'
    BY <1>2, <2>1, <2>3, Same, SoundAgain DEF Rolling, Sound
  <2> QED BY <2>3, <2>4 DEF Onward
<1>4. CASE a = "logged"
  <2>1. Logged /\ b = "half" /\ Restorable(disk)
    BY <1>2, <1>4 DEF Goes, Is, Sound, Rolling
  <2>2. disk' = [disk EXCEPT !.bin = disk.bin \o mem.buffer] /\ mem' = mem /\ Done /\ Stay
    BY DEF AppendBin
  <2>3. /\ disk'.bin = disk.bin \o mem.buffer /\ disk'.ids = disk.ids /\ disk'.append = disk.append
        /\ disk'.switch = disk.switch /\ disk'.backup = disk.backup /\ disk'.meta = disk.meta
    BY <2>2 DEF TypeOK
  <2>4. /\ disk'.bin \in Seq(Id) /\ Len(disk'.bin) = Len(disk.bin) + Len(mem.buffer)
        /\ disk'.ids = disk.ids \o <<>> /\ <<>> \in Seq(Id) /\ Len(<<>>) = 0
    BY <1>1, <2>3, Joined, EmptyIs DEF Files, Fields
  <2>5. TypeOK'
    BY <2>2, <2>4 DEF TypeOK, Stay
  <2>6. Restorable(disk')
    <3>1. ASSUME Unsaved(disk)
          PROVE  /\ Len(disk.bin) + Len(mem.buffer) <= disk.append.target
                 /\ Len(disk.ids) + Len(<<>>) <= disk.append.target
      <4>1. Len(disk.ids) = Len(disk.bin) /\ Len(disk.bin) \in Nat /\ Len(mem.buffer) \in Nat
        BY <1>1, <2>1 DEF Logged, Paired, Files, Fields
      <4>2. disk.append.target = Len(disk.bin) + Len(mem.buffer)
        BY <2>1, <3>1 DEF Logged, Target, Unsaved
      <4> QED BY <2>4, <4>1, <4>2
    <3>2. ~Unsaved(disk) => mem.buffer = <<>>
      BY <2>1 DEF Logged, Empties
    <3> QED BY <1>1, <2>1, <2>3, <2>4, <3>1, <3>2, Grows DEF Fields
  <2>7. Half'
    BY <2>1, <2>2, <2>3, <2>4 DEF Logged, Half, Up, NoSwitch, Paired, Good, Target, Empties, Unsaved, Appending
  <2>8. Marked => MarkKept(disk', mem.mark)
    BY <1>1, <2>3, <2>4, MarkStays DEF Sound, Fields
  <2>9. Sound(c, b)'
    BY <1>2, <2>1, <2>2, <2>3, <2>6, <2>8 DEF Sound, Rolling, Marked
  <2> QED BY <2>1, <2>2, <2>5, <2>7, <2>9 DEF Onward, Is
<1> QED BY <1>3, <1>4

\* The ids follow, the buffer is empty and the index in use holds the new rows.
LEMMA AppendIdsKeeps ==
    ASSUME TypeOK, NEW c, NEW a, NEW b, Goes(c, "ids", a, b), Is(a), Sound(c, a), AppendIds
    PROVE  Onward(c, b)
<1>1. Files(disk) /\ Fields(mem)
  BY Typed
<1>2. a \in {"half", "new", "void"} /\ b \notin {"back2", "back3", "back4"}
  BY DEF Goes
<1>3. CASE a # "half"
  <2>1. b = a /\ mem.buffer = <<>>
    BY <1>2, <1>3 DEF Goes, Is, New, Swap, Empties
  <2>2. disk.ids \o mem.buffer = disk.ids /\ Range(mem.buffer) = {}
    BY <1>1, <2>1, Joined, EmptyIs DEF Files, Fields
  <2>3. disk' = disk /\ Done /\ Stay
    BY <2>2 DEF AppendIds, TypeOK
  <2>4. mem' = mem
    <3>1. /\ mem.index = IF mem.trained THEN mem.index \cup Range(mem.buffer) ELSE mem.index
          /\ mem.fallback = IF mem.trained THEN mem.fallback ELSE mem.fallback \cup Range(mem.buffer)
      BY <2>2
    <3>2. mem' = [mem EXCEPT !.buffer = mem.buffer, !.index = mem.index, !.fallback = mem.fallback]
      BY <2>1, <3>1 DEF AppendIds
    <3> QED BY <3>2 DEF TypeOK
  <2>5. TypeOK'
    BY <2>3, <2>4 DEF TypeOK, Stay
  <2>6. Is(b)' /\ Sound(c, b)'
    BY <1>2, <2>1, <2>3, <2>4, Same, SoundAgain DEF Rolling, Sound
  <2> QED BY <2>3, <2>5, <2>6 DEF Onward
<1>4. CASE a = "half"
  <2>1. Half /\ b \in {"steady", "flushed"} /\ Restorable(disk)
    BY <1>2, <1>4 DEF Goes, Is, Sound, Rolling
  <2>2. /\ disk' = [disk EXCEPT !.ids = disk.ids \o mem.buffer] /\ Done /\ Stay
        /\ mem' = [mem EXCEPT !.buffer = <<>>,
                     !.index = IF mem.trained THEN mem.index \cup Range(mem.buffer) ELSE mem.index,
                     !.fallback = IF mem.trained THEN mem.fallback ELSE mem.fallback \cup Range(mem.buffer)]
    BY DEF AppendIds
  <2>3. /\ disk'.ids = disk.ids \o mem.buffer /\ disk'.bin = disk.bin /\ disk'.append = disk.append
        /\ disk'.switch = disk.switch /\ disk'.backup = disk.backup /\ disk'.meta = disk.meta
    BY <2>2 DEF TypeOK
  <2>4. /\ mem'.buffer = <<>> /\ mem'.known = mem.known /\ mem'.deleted = mem.deleted
        /\ mem'.trained = mem.trained /\ mem'.mode = mem.mode /\ mem'.mark = mem.mark /\ mem'.revive = mem.revive
        /\ mem'.index = IF mem.trained THEN mem.index \cup Range(mem.buffer) ELSE mem.index
        /\ mem'.fallback = IF mem.trained THEN mem.fallback ELSE mem.fallback \cup Range(mem.buffer)
    BY <2>2 DEF TypeOK
  <2>5. /\ disk'.ids \in Seq(Id) /\ Len(disk'.ids) = Len(disk.ids) + Len(mem.buffer)
        /\ Range(disk'.ids) = Range(disk.ids) \cup Range(mem.buffer) /\ Range(mem.buffer) \in SUBSET Id
        /\ disk'.bin = disk.bin \o <<>> /\ <<>> \in Seq(Id) /\ Len(<<>>) = 0
    BY <1>1, <2>3, Joined, EmptyIs, RangeIs DEF Files, Fields
  <2>6. TypeOK'
    BY <2>2, <2>5 DEF TypeOK, Stay
  <2>7. Restorable(disk')
    <3>1. ASSUME Unsaved(disk)
          PROVE  /\ Len(disk.bin) + Len(<<>>) <= disk.append.target
                 /\ Len(disk.ids) + Len(mem.buffer) <= disk.append.target
      <4>1. Len(disk.bin) = Len(disk.ids) + Len(mem.buffer)
        BY <1>1, <2>1, <2>3, <2>5 DEF Half
      <4>2. disk.append.target = Len(disk.bin)
        BY <2>1, <3>1 DEF Half, Target, Unsaved
      <4> QED BY <1>1, <2>5, <4>1, <4>2 DEF Files, Fields
    <3>2. ~Unsaved(disk) => mem.buffer = <<>>
      BY <2>1 DEF Half, Empties
    <3> QED BY <1>1, <2>1, <2>3, <2>5, <3>1, <3>2, Grows DEF Fields
  <2>8. Good'
    <3>1. Distinct(disk'.ids) /\ Distinct(<<>>) /\ Range(<<>>) = {}
      BY <1>1, <2>1, <2>3, DistinctJoined, EmptyIs DEF Half, Good, Members, Files, Fields
    <3>2. Members(disk'.ids, mem')
      BY <2>1, <2>4, <2>5, <3>1 DEF Half, Good, Members
    <3>3. Indexed(disk'.ids, mem')
      BY <2>1, <2>4, <2>5 DEF Half, Good, Indexed
    <3> QED BY <3>2, <3>3 DEF Good
  <2>9. Flushed'
    BY <2>1, <2>3, <2>4, <2>8 DEF Half, Flushed, Steady, Up, NoSwitch, Paired, Target, Empties, Appending
  <2>10. Marked => MarkKept(disk', mem.mark)
    BY <1>1, <2>3, <2>5, MarkStays DEF Sound, Fields
  <2>11. Sound(c, b)'
    BY <1>2, <2>1, <2>3, <2>4, <2>7, <2>10 DEF Sound, Rolling, Marked
  <2> QED BY <2>1, <2>2, <2>6, <2>9, <2>11 DEF Onward, Is, Flushed
<1> QED BY <1>3, <1>4

\* restore() takes a tombstone away after a flush.
LEMMA ReviveKeeps ==
    ASSUME TypeOK, NEW c, NEW a, NEW b, Goes(c, "revive", a, b), Is(a), Sound(c, a), Revive
    PROVE  Onward(c, b)
<1> DEFINE S == mem.revive \cap Range(disk.ids)
<1>1. Files(disk) /\ Fields(mem) /\ S \in SUBSET Id
  BY Typed, RangeIs DEF Files, Fields
<1>2. a = "flushed" /\ b = "steady" /\ Flushed /\ ~Rolling(a) /\ Restorable(disk)
  BY DEF Goes, Is, Rolling, Sound
<1>3. /\ disk' = disk /\ Done /\ Stay
      /\ mem' = [mem EXCEPT !.deleted = mem.deleted \ S, !.revive = {},
                   !.index = IF mem.trained THEN mem.index \cup S ELSE mem.index,
                   !.fallback = IF mem.trained THEN mem.fallback ELSE mem.fallback \cup S]
  BY DEF Revive
<1> HIDE DEF S
<1>4. /\ mem'.buffer = mem.buffer /\ mem'.known = mem.known /\ mem'.deleted = mem.deleted \ S
      /\ mem'.trained = mem.trained /\ mem'.mode = mem.mode /\ mem'.mark = mem.mark /\ mem'.revive = {}
      /\ mem'.index = IF mem.trained THEN mem.index \cup S ELSE mem.index
      /\ mem'.fallback = IF mem.trained THEN mem.fallback ELSE mem.fallback \cup S
  BY <1>3 DEF TypeOK
<1>5. TypeOK'
  BY <1>1, <1>3 DEF TypeOK, Stay
<1>6. S \subseteq Range(disk.ids) /\ Good
  BY <1>2 DEF S, Flushed, Steady
<1>7. Good'
  <2>1. Members(disk.ids, mem')
    BY <1>4, <1>6 DEF Good, Members
  <2>2. Indexed(disk.ids, mem')
    BY <1>4, <1>6 DEF Good, Indexed
  <2> QED BY <1>3, <2>1, <2>2 DEF Good
<1>8. Is(b)'
  BY <1>2, <1>3, <1>4, <1>7 DEF Flushed, Steady, Up, NoSwitch, Paired, Target, Is
<1>9. Sound(c, b)'
  BY <1>2, <1>3, <1>4, SoundAgain
<1> QED BY <1>3, <1>5, <1>8, <1>9 DEF Onward

\* What save() records is what it finds, and it may leave a journal committed.
LEMMA WriteMetaKeeps ==
    ASSUME TypeOK, NEW c, NEW a, NEW b, Goes(c, "meta", a, b), Is(a), Sound(c, a), WriteMeta
    PROVE  Onward(c, b)
<1> DEFINE j == IF Appending(disk) THEN disk.append ELSE disk.switch
           new == [tx |-> j.tx, rows |-> Len(disk.bin), known |-> mem.known,
                   deleted |-> mem.deleted, trained |-> mem.trained, exists |-> TRUE]
<1>1. Files(disk) /\ Fields(mem) /\ new \in Meta
  BY Typed, Records DEF Files, Fields, Meta
<1>2. /\ a \in {"flushed", "new", "void"} /\ ~Rolling(a) /\ ~Rolling(b)
      /\ a = "flushed" => b = "saved"
      /\ a = "new" => b = "switched" /\ c = "compact"
      /\ a = "void" => b = "voided" /\ c = "clear"
  BY DEF Goes, Rolling
<1>3. /\ Up /\ Paired /\ Good /\ Empties
      /\ a = "flushed" => NoSwitch /\ Target(Len(disk.bin))
      /\ a # "flushed" => NoLog /\ Switching(disk) /\ disk.switch.target = Len(disk.bin)
      /\ a = "void" => Nothing
  BY <1>2 DEF Is, Flushed, Steady, New, Swap, Halfway, Paired
<1>4. disk' = [disk EXCEPT !.meta = new] /\ mem' = mem /\ Done /\ Stay
  BY <1>2, <1>3 DEF WriteMeta, Paired, PairAligned, Switching, Appending, NoSwitch, NoLog, Target
<1>5. Restorable(disk)
  BY <1>2 DEF Sound
<1>6. new.tx = j.tx /\ new.rows = Len(disk.bin) /\ new.known = mem.known /\ new.deleted = mem.deleted /\ new.exists
  OBVIOUS
<1> HIDE DEF new
<1>7. /\ disk'.meta = new /\ disk'.bin = disk.bin /\ disk'.ids = disk.ids /\ disk'.append = disk.append
      /\ disk'.switch = disk.switch /\ disk'.backup = disk.backup
  BY <1>4 DEF TypeOK
<1>8. TypeOK'
  BY <1>1, <1>4 DEF TypeOK, Stay
<1>9. Describes(disk'.meta, disk'.ids) /\ disk'.meta.deleted \subseteq disk'.meta.known
  BY <1>3, <1>6, <1>7, EmptyIs DEF Good, Members, Describes, Paired, Empties
<1>10. ~Unsaved(disk') /\ ~Halfway(disk')
  BY <1>2, <1>3, <1>6, <1>7 DEF Unsaved, Halfway, Wrote, Appending, Switching, NoSwitch, NoLog
<1>11. Restorable(disk')
  BY <1>2, <1>3, <1>6, <1>7, <1>9, <1>10
     DEF Restorable, Paired, Appending, Switching, NoSwitch, NoLog, Target
<1>12. Is(b)'
  <2>1. ASSUME a = "flushed" PROVE Is(b)'
    BY <1>2, <1>3, <1>4, <1>6, <1>7, <1>10, <2>1
       DEF Is, Recorded, Flushed, Steady, Up, NoSwitch, Paired, Good, Target, Empties, Appending
  <2>2. NoLog => Switched'
    BY <1>3, <1>4, <1>7, <1>10 DEF Switched, Up, NoLog, Empties, Paired, Good
  <2>3. ASSUME a = "void" PROVE Nothing'
    BY <1>3, <1>4, <1>7, <2>3 DEF Nothing
  <2> QED BY <1>2, <1>3, <2>1, <2>2, <2>3 DEF Is
<1>13. Sound(c, b)'
  <2>1. Marked => c \in Markers /\ MarkKept(disk, mem.mark)
    BY <1>2 DEF Sound
  <2>2. Marked => MarkKept(disk', mem.mark) /\ new.rows >= mem.mark.rows
    BY <1>6, <1>7, <2>1 DEF MarkKept
  <2> QED BY <1>4, <1>6, <1>7, <1>11, <2>1, <2>2 DEF Sound, Marked
<1> QED BY <1>4, <1>8, <1>12, <1>13 DEF Onward

\* The journal of an append goes: after a save, and after a recovery has cut the
\* files.
LEMMA UnlinkAppendJournalKeeps ==
    ASSUME TypeOK, NEW c, NEW a, NEW b, Goes(c, "unlog", a, b), Is(a), Sound(c, a), UnlinkAppendJournal
    PROVE  Onward(c, b)
<1>1. Files(disk) /\ Fields(mem)
  BY Typed
<1>2. /\ a \in {"saved", "switched", "cut", "cleared", "voided"} /\ ~Rolling(a) /\ ~Rolling(b)
      /\ a = "saved" => b = "clean"
      /\ a \in {"switched", "voided"} => b = a
      /\ a = "cut" => b = "undo"
      /\ a = "cleared" => b = "tidy"
  BY DEF Goes, Rolling
<1>3. disk' = [disk EXCEPT !.append = NoJournal] /\ mem' = mem /\ Done /\ Stay
  BY DEF UnlinkAppendJournal
<1>4. /\ disk'.append = NoJournal /\ disk'.bin = disk.bin /\ disk'.ids = disk.ids
      /\ disk'.switch = disk.switch /\ disk'.backup = disk.backup /\ disk'.meta = disk.meta
  BY <1>3 DEF TypeOK
<1>5. TypeOK'
  BY <1>3, Records DEF TypeOK, Stay
<1>6. /\ Restorable(disk)
      /\ Unsaved(disk) => disk.bin = disk.ids /\ Len(disk.ids) = disk.append.base
  BY <1>2 DEF Sound, Is, Recorded, Switched, NoLog, Cut, Unsaved, Appending, Paired
<1>7. Restorable(disk')
  <2>1. ~Appending(disk') /\ ~Unsaved(disk')
    BY <1>4 DEF Appending, Unsaved
  <2>2. Halfway(disk') <=> Halfway(disk)
    BY <1>4 DEF Halfway, Switching, Wrote
  <2>3. Unsaved(disk) => disk.bin = disk.ids /\ Describes(disk.meta, disk.ids)
    BY <1>1, <1>6, PrefixIs DEF Restorable, CutOk, Files
  <2>4. ~Halfway(disk') => disk'.bin = disk'.ids /\ Describes(disk'.meta, disk'.ids)
    BY <1>4, <1>6, <2>2, <2>3 DEF Restorable
  <2> QED BY <1>4, <1>6, <2>1, <2>2, <2>4 DEF Restorable, Switching, Wrote, BackupOk
<1>8. Is(b)'
  <2>1. ASSUME a \in {"switched", "voided"} PROVE Is(b)'
    <3>1. disk' = disk
      BY <1>3, <2>1 DEF Is, Switched, NoLog, TypeOK
    <3> QED BY <1>2, <1>3, <2>1, <3>1, Same
  <2>2. ASSUME a = "saved" PROVE Is(b)'
    BY <1>2, <1>3, <1>4, <2>2
       DEF Is, Recorded, Flushed, Clean, Steady, Up, NoSwitch, NoLog, Paired, Good, Target, Empties, Appending
  <2>3. ASSUME a \in {"cut", "cleared"} PROVE Is(b)'
    BY <1>2, <1>3, <1>4, <2>3 DEF Is, Down, Cut, Up, NoSwitch, NoLog, Tidy, Empties
  <2> QED BY <1>2, <2>1, <2>2, <2>3
<1>9. Sound(c, b)'
  BY <1>2, <1>3, <1>4, <1>7, SoundAgain DEF Sound
<1> QED BY <1>3, <1>5, <1>8, <1>9 DEF Onward

\* The journal of a switch goes: after the save that commits it, and after a recovery.
LEMMA UnlinkSwitchJournalKeeps ==
    ASSUME TypeOK, NEW c, NEW a, NEW b, Goes(c, "unswitch", a, b), Is(a), Sound(c, a), UnlinkSwitchJournal
    PROVE  Onward(c, b)
<1>1. Files(disk) /\ Fields(mem)
  BY Typed
<1>2. /\ a \in {"clean", "steady", "switched", "undone", "tidy", "voided"} /\ ~Rolling(a) /\ ~Rolling(b)
      /\ a = "clean" => b \in {"clean", "steady"}
      /\ a \in {"steady", "tidy"} => b = a
      /\ a = "switched" => b = "steady"
      /\ a = "undone" => b = "unwound"
      /\ a = "voided" => b = "emptied"
  BY DEF Goes, Rolling
<1>3. disk' = [disk EXCEPT !.switch = NoJournal] /\ mem' = mem /\ Done /\ Stay
  BY DEF UnlinkSwitchJournal
<1>4. /\ disk'.switch = NoJournal /\ disk'.bin = disk.bin /\ disk'.ids = disk.ids
      /\ disk'.append = disk.append /\ disk'.backup = disk.backup /\ disk'.meta = disk.meta
  BY <1>3 DEF TypeOK
<1>5. TypeOK'
  BY <1>3, Records DEF TypeOK, Stay
<1>6. /\ Restorable(disk)
      /\ Halfway(disk) => NoLog /\ disk.bin = disk.backup.bin /\ disk.ids = disk.backup.ids
  BY <1>2 DEF Sound, Is, Clean, Flushed, Steady, Switched, NoSwitch, Tidy, Undone, Halfway, Switching
<1>7. Restorable(disk')
  <2>1. ~Switching(disk') /\ ~Halfway(disk')
    BY <1>4 DEF Switching, Halfway
  <2>2. Unsaved(disk') <=> Unsaved(disk)
    BY <1>4 DEF Unsaved, Appending, Wrote
  <2>3. Halfway(disk) => disk.bin = disk.ids /\ Describes(disk.meta, disk.ids)
    BY <1>6 DEF Restorable, BackupOk
  <2>4. ~Unsaved(disk') => disk'.bin = disk'.ids /\ Describes(disk'.meta, disk'.ids)
    BY <1>4, <1>6, <2>2, <2>3 DEF Restorable
  <2> QED BY <1>4, <1>6, <2>1, <2>2, <2>4 DEF Restorable, Appending, Wrote, CutOk
<1>8. Is(b)'
  <2>1. ASSUME a \in {"clean", "steady", "tidy"} PROVE Is(b)'
    <3>1. disk' = disk
      BY <1>3, <2>1 DEF Is, Clean, Flushed, Steady, Tidy, NoSwitch, TypeOK
    <3>2. Is(b)
      BY <1>2, <2>1 DEF Is, Clean, Flushed
    <3> QED BY <1>3, <3>1, <3>2, Same
  <2>2. ASSUME a = "switched" PROVE Is(b)'
    BY <1>2, <1>3, <1>4, <2>2 DEF Is, Switched, Steady, Up, NoSwitch, NoLog, Paired, Good, Target, Appending
  <2>3. ASSUME a = "undone" PROVE Is(b)'
    BY <1>2, <1>3, <1>4, <2>3 DEF Is, Down, Undone, Tidy, NoSwitch, NoLog, Empties
  <2>4. ASSUME a = "voided" PROVE Is(b)'
    BY <1>2, <1>3, <1>4, <2>4 DEF Is, Switched, Nothing, NoSwitch, NoLog, Paired
  <2> QED BY <1>2, <2>1, <2>2, <2>3, <2>4
<1>9. Sound(c, b)'
  BY <1>2, <1>3, <1>4, <1>7, SoundAgain DEF Sound
<1> QED BY <1>3, <1>5, <1>8, <1>9 DEF Onward

\* A switch is logged with the pair set aside, which is the one that was saved.
LEMMA Sets ==
    ASSUME TypeOK, NoLog, NoSwitch, Restorable(disk), disk.meta.exists, NEW n \in Nat, disk' = SwitchJournal(n)
    PROVE  /\ disk'.bin = disk.bin /\ disk'.ids = disk.ids /\ disk'.append = disk.append /\ disk'.meta = disk.meta
           /\ disk'.switch \in Journal /\ disk'.switch.target = n
           /\ disk'.backup \in [bin : Seq(Id), ids : Seq(Id)]
           /\ Halfway(disk') /\ Restorable(disk') /\ disk.bin = disk.ids
           /\ disk' \in [bin : Seq(Id), ids : Seq(Id), append : Journal, switch : Journal,
                         backup : [bin : Seq(Id), ids : Seq(Id)], meta : Meta]
<1> DEFINE j == [tx |-> NewTx(disk), base |-> Len(disk.bin), target |-> n]
           old == [bin |-> disk.bin, ids |-> disk.ids]
<1>1. Files(disk)
  BY Typed
<1>2. NewTx(disk) \in 1 .. 2 /\ ~(disk.meta.exists /\ disk.meta.tx = NewTx(disk))
  BY <1>1, Records, NewTxIs DEF Files
<1>3. j \in Journal /\ j.tx = NewTx(disk) /\ j.target = n /\ old \in [bin : Seq(Id), ids : Seq(Id)]
      /\ old.bin = disk.bin /\ old.ids = disk.ids
  BY <1>1, <1>2 DEF Files, Journal
<1>4. disk' = [disk EXCEPT !.backup = old, !.switch = j]
  BY DEF SwitchJournal
<1> HIDE DEF j, old
<1>5. /\ disk'.bin = disk.bin /\ disk'.ids = disk.ids /\ disk'.append = disk.append /\ disk'.meta = disk.meta
      /\ disk'.switch = j /\ disk'.backup = old
  BY <1>4 DEF TypeOK
<1>6. j # NoJournal
  BY <1>2, <1>3 DEF NoJournal
<1>7. Halfway(disk')
  BY <1>2, <1>3, <1>5, <1>6 DEF Halfway, Switching, Wrote
<1>8. disk.bin = disk.ids /\ Describes(disk.meta, disk.ids)
  BY DEF Restorable, NoLog, NoSwitch, Unsaved, Halfway, Appending, Switching
<1>9. ~Appending(disk') /\ ~Unsaved(disk')
  BY <1>5 DEF NoLog, Appending, Unsaved
<1>10. BackupOk(disk')
  BY <1>3, <1>5, <1>8 DEF BackupOk
<1>11. Restorable(disk')
  BY <1>5, <1>7, <1>9, <1>10 DEF Restorable, Halfway
<1>12. disk' \in [bin : Seq(Id), ids : Seq(Id), append : Journal, switch : Journal,
                  backup : [bin : Seq(Id), ids : Seq(Id)], meta : Meta]
  BY <1>3, <1>4 DEF TypeOK
<1> QED BY <1>3, <1>5, <1>7, <1>8, <1>11, <1>12

\* A compaction makes its backups and its journal.
LEMMA LogSwitchKeeps ==
    ASSUME TypeOK, NEW c, NEW a, NEW b, Goes(c, "switchlog", a, b), Is(a), Sound(c, a), LogSwitch
    PROVE  Onward(c, b)
<1> DEFINE n == Len(Living(disk.ids, mem.deleted))
<1>1. Files(disk) /\ Fields(mem) /\ n \in Nat
  BY Typed, LivingRows, LenProperties DEF Files
<1>2. a = "clean" /\ b = "swap1" /\ c = "compact" /\ Clean /\ Restorable(disk) /\ ~Rolling(a)
  BY DEF Goes, Is, Sound, Rolling
<1>3. disk' = SwitchJournal(n) /\ mem' = mem /\ Done /\ Stay
  BY DEF LogSwitch
<1> HIDE DEF n
<1>4. /\ disk'.bin = disk.bin /\ disk'.ids = disk.ids /\ disk'.append = disk.append /\ disk'.meta = disk.meta
      /\ disk'.switch.target = n /\ Halfway(disk') /\ Restorable(disk')
      /\ disk' \in [bin : Seq(Id), ids : Seq(Id), append : Journal, switch : Journal,
                    backup : [bin : Seq(Id), ids : Seq(Id)], meta : Meta]
  BY <1>1, <1>2, <1>3, Sets DEF Clean, Flushed, Steady
<1>5. TypeOK'
  BY <1>3, <1>4 DEF TypeOK, Stay
<1>6. Swap1'
  BY <1>2, <1>3, <1>4 DEF Clean, Flushed, Steady, Swap1, Swap, Up, NoLog, Empties, Paired, Good, n
<1>7. Sound(c, b)'
  BY <1>2, <1>3, <1>4, SoundAgain
<1> QED BY <1>2, <1>3, <1>5, <1>6, <1>7 DEF Onward, Is

\* clear() finds the pair that was saved; an empty one needs no switch.
LEMMA LogEmptyKeeps ==
    ASSUME TypeOK, NEW c, NEW a, NEW b, Goes(c, "switchempty", a, b), Is(a), Sound(c, a), LogEmpty
    PROVE  \/ Onward(c, b)
           \/ todo' = Body("blank") /\ TypeOK' /\ Is("blank")' /\ Sound("blank", "blank")'
<1>1. Files(disk) /\ Fields(mem)
  BY Typed
<1>2. /\ a = "tidy" /\ b = "doff1" /\ c = "clear" /\ Up /\ Tidy /\ Restorable(disk)
      /\ ~Rolling(a) /\ ~Rolling("blank")
  BY DEF Goes, Is, Sound, Rolling
<1>3. disk.bin = disk.ids /\ Describes(disk.meta, disk.ids)
  BY <1>2 DEF Restorable, Tidy, NoLog, NoSwitch, Unsaved, Halfway, Appending, Switching
<1>4. mem' = mem /\ Stay
  BY DEF LogEmpty
<1>5. CASE disk.bin = <<>>
  <2>1. todo' = Body("blank") /\ disk' = disk
    BY <1>3, <1>5 DEF LogEmpty, PairAligned, Describes, Body
  <2>2. TypeOK'
    BY <1>4, <2>1 DEF TypeOK, Stay
  <2>3. Is("blank")
    BY <1>2, <1>3, <1>5 DEF Is, Paired
  <2>4. Is("blank")'
    BY <1>4, <2>1, <2>3, Same
  <2>5. Sound(c, "blank")' /\ ~Marked
    BY <1>2, <1>4, <2>1, SoundAgain DEF Sound, Markers
  <2>6. Sound("blank", "blank")'
    BY <1>2, <1>4, <2>5 DEF Sound, Marked
  <2> QED BY <2>1, <2>2, <2>4, <2>6
<1>6. CASE disk.bin # <<>>
  <2>1. disk.meta.exists
    <3>1. Len(disk.ids) # 0
      BY <1>1, <1>3, <1>6, LenZero DEF Files
    <3> QED BY <1>2, <1>3, <3>1 DEF Restorable, Describes, NoMeta
  <2>2. disk' = SwitchJournal(0) /\ Done
    BY <1>3, <1>6 DEF LogEmpty, PairAligned, Describes
  <2>3. /\ disk'.bin = disk.bin /\ disk'.ids = disk.ids /\ disk'.append = disk.append /\ disk'.meta = disk.meta
        /\ disk'.switch.target = 0 /\ Halfway(disk') /\ Restorable(disk')
        /\ disk' \in [bin : Seq(Id), ids : Seq(Id), append : Journal, switch : Journal,
                      backup : [bin : Seq(Id), ids : Seq(Id)], meta : Meta]
    BY <1>2, <2>1, <2>2, Sets DEF Tidy
  <2>4. TypeOK'
    BY <1>4, <2>3 DEF TypeOK, Stay
  <2>5. Is(b)'
    BY <1>2, <1>4, <2>3 DEF Is, Swap, Up, Tidy, NoLog, Empties
  <2>6. Sound(c, b)'
    BY <1>2, <1>4, <2>3, SoundAgain
  <2> QED BY <2>2, <2>4, <2>5, <2>6 DEF Onward
<1> QED BY <1>5, <1>6

\* While a switch is half done the backups are what counts.
LEMMA Shields ==
    ASSUME NEW d, Halfway(disk), Restorable(disk), d.append = disk.append, d.switch = disk.switch,
           d.backup = disk.backup, d.meta = disk.meta
    PROVE  Halfway(d) /\ Restorable(d)
BY DEF Restorable, Halfway, Unsaved, Switching, Appending, Wrote, BackupOk

\* vectors.bin is replaced: the backups are what a crash would leave.
LEMMA SwapBinKeeps ==
    ASSUME TypeOK, NEW c, NEW a, NEW b, Goes(c, "swapbin", a, b), Is(a), Sound(c, a), SwapBin,
           "unmeta" \in Range(todo) <=> c = "clear"
    PROVE  Onward(c, b)
<1> DEFINE new == Replacement(disk.bin)
<1>1. Files(disk) /\ Fields(mem)
  BY Typed
<1>2. /\ ~Rolling(a) /\ Restorable(disk) /\ Halfway(disk) /\ Up /\ NoLog /\ Empties
      /\ \/ a = "swap1" /\ b = "swap2" /\ c = "compact" /\ Swap1
         \/ a = "doff1" /\ b = "doff2" /\ c = "clear" /\ Swap(0)
  BY DEF Goes, Is, Sound, Rolling, Swap1, Swap
<1>3. /\ a = "swap1" => new = Living(disk.bin, mem.deleted)
      /\ a = "doff1" => new = <<>>
  BY <1>2 DEF Replacement
<1>4. new \in Seq(Id)
  <2>1. Living(disk.bin, mem.deleted) \in Seq(Id) /\ <<>> \in Seq(Id)
    BY <1>1, LivingRows, EmptyIs DEF Files
  <2> QED BY <1>2, <1>3, <2>1
<1>5. disk' = [disk EXCEPT !.bin = new] /\ mem' = mem /\ Done /\ Stay
  BY DEF SwapBin
<1> HIDE DEF new
<1>6. /\ disk'.bin = new /\ disk'.ids = disk.ids /\ disk'.append = disk.append /\ disk'.switch = disk.switch
      /\ disk'.backup = disk.backup /\ disk'.meta = disk.meta
  BY <1>5 DEF TypeOK
<1>7. TypeOK'
  BY <1>4, <1>5 DEF TypeOK, Stay
<1>8. Halfway(disk') /\ Restorable(disk')
  BY <1>2, <1>6, Shields
<1>9. Is(b)'
  <2>1. ASSUME a = "swap1" PROVE Is(b)'
    BY <1>2, <1>3, <1>5, <1>6, <1>8, <2>1 DEF Is, Swap1, Swap2, Swap, Up, NoLog, Empties, Paired
  <2>2. ASSUME a = "doff1" PROVE Is(b)'
    BY <1>2, <1>3, <1>5, <1>6, <1>8, <2>2 DEF Is, Swap, Up, NoLog, Empties
  <2> QED BY <1>2, <2>1, <2>2
<1>10. ~Marked
  BY <1>2 DEF Sound, Markers
<1>11. Sound(c, b)'
  BY <1>2, <1>5, <1>8, <1>10 DEF Sound, Marked
<1> QED BY <1>5, <1>7, <1>9, <1>11 DEF Onward

\* vectors_ids.bin is replaced: the pair agrees again.
LEMMA SwapIdsKeeps ==
    ASSUME TypeOK, NEW c, NEW a, NEW b, Goes(c, "swapids", a, b), Is(a), Sound(c, a), SwapIds,
           "unmeta" \in Range(todo) <=> c = "clear"
    PROVE  Onward(c, b)
<1> DEFINE new == Replacement(disk.ids)
<1>1. Files(disk) /\ Fields(mem)
  BY Typed
<1>2. /\ ~Rolling(a) /\ Restorable(disk) /\ Halfway(disk) /\ Up /\ NoLog /\ Empties
      /\ \/ a = "swap2" /\ b = "swap3" /\ c = "compact" /\ Swap2
         \/ a = "doff2" /\ b = "doff3" /\ c = "clear" /\ Swap(0) /\ disk.bin = <<>>
  BY DEF Goes, Is, Sound, Rolling, Swap2, Swap
<1>3. /\ a = "swap2" => new = Living(disk.ids, mem.deleted)
      /\ a = "doff2" => new = <<>>
  BY <1>2 DEF Replacement
<1>4. new \in Seq(Id)
  <2>1. Living(disk.ids, mem.deleted) \in Seq(Id) /\ <<>> \in Seq(Id)
    BY <1>1, LivingRows, EmptyIs DEF Files
  <2> QED BY <1>2, <1>3, <2>1
<1>5. disk' = [disk EXCEPT !.ids = new] /\ mem' = mem /\ Done /\ Stay
  BY DEF SwapIds
<1> HIDE DEF new
<1>6. /\ disk'.ids = new /\ disk'.bin = disk.bin /\ disk'.append = disk.append /\ disk'.switch = disk.switch
      /\ disk'.backup = disk.backup /\ disk'.meta = disk.meta
  BY <1>5 DEF TypeOK
<1>7. TypeOK'
  BY <1>4, <1>5 DEF TypeOK, Stay
<1>8. Halfway(disk') /\ Restorable(disk')
  BY <1>2, <1>6, Shields
<1>9. Is(b)'
  <2>1. ASSUME a = "swap2" PROVE Is(b)'
    <3>1. Distinct(disk.ids) /\ Range(disk.ids) = mem.known
      BY <1>2, <2>1, EmptyIs DEF Swap2, Members, Empties
    <3>2. Distinct(new) /\ Range(new) = mem.known \ mem.deleted
      BY <1>1, <1>3, <2>1, <3>1, LivingRows DEF Files
    <3>3. disk.bin = new /\ disk.switch.target = Len(new)
      BY <1>2, <1>3, <2>1 DEF Swap2, Swap
    <3> QED BY <1>2, <1>5, <1>6, <1>8, <2>1, <3>2, <3>3 DEF Is, Swap3, Swap, Up, NoLog, Empties, Paired
  <2>2. ASSUME a = "doff2" PROVE Is(b)'
    BY <1>2, <1>3, <1>5, <1>6, <1>8, <2>2 DEF Is, Swap, Up, NoLog, Empties
  <2> QED BY <1>2, <2>1, <2>2
<1>10. ~Marked
  BY <1>2 DEF Sound, Markers
<1>11. Sound(c, b)'
  BY <1>2, <1>5, <1>8, <1>10 DEF Sound, Marked
<1> QED BY <1>5, <1>7, <1>9, <1>11 DEF Onward

\* The members without rows are forgotten and the index is trained on the rest.
LEMMA DropDeadKeeps ==
    ASSUME TypeOK, NEW c, NEW a, NEW b, Goes(c, "dropdead", a, b), Is(a), Sound(c, a), DropDead
    PROVE  Onward(c, b)
<1>1. Files(disk) /\ Fields(mem) /\ Range(disk.ids) \in SUBSET Id
  BY Typed, RangeIs DEF Files
<1>2. a = "swap3" /\ b = "new" /\ c = "compact" /\ Swap3 /\ Restorable(disk) /\ ~Rolling(a) /\ ~Marked
  BY DEF Goes, Is, Sound, Rolling, Markers
<1>3. /\ disk' = disk /\ Done /\ Stay
      /\ mem' = [mem EXCEPT !.known = mem.known \ mem.deleted, !.deleted = {}, !.trained = (disk.bin # <<>>),
                            !.index = Range(disk.ids), !.fallback = {}]
  BY DEF DropDead
<1>4. /\ mem'.known = mem.known \ mem.deleted /\ mem'.deleted = {} /\ mem'.trained = (disk.bin # <<>>)
      /\ mem'.index = Range(disk.ids) /\ mem'.fallback = {} /\ mem'.mode = mem.mode
      /\ mem'.buffer = mem.buffer /\ mem'.mark = mem.mark /\ mem'.revive = mem.revive
  BY <1>3 DEF TypeOK
<1>5. TypeOK'
  BY <1>1, <1>3 DEF TypeOK, Stay
<1>6. Members(disk.ids, mem')
  BY <1>2, <1>4, EmptyIs DEF Swap3, Swap, Empties, Members
<1>7. Indexed(disk.ids, mem')
  <2>1. disk.bin = <<>> => Range(disk.ids) = {}
    BY <1>2, EmptyIs DEF Swap3, Paired
  <2> QED BY <1>4, <2>1 DEF Indexed
<1>8. Is(b)'
  BY <1>2, <1>3, <1>4, <1>6, <1>7 DEF Is, New, Swap3, Swap, Up, NoLog, Empties, Paired, Good
<1>9. Sound(c, b)'
  BY <1>2, <1>3, <1>4, SoundAgain
<1> QED BY <1>3, <1>5, <1>8, <1>9 DEF Onward

\* clear() forgets all members.
LEMMA EmptyKeeps ==
    ASSUME TypeOK, NEW c, NEW a, NEW b, Goes(c, "empty", a, b), Is(a), Sound(c, a), Empty
    PROVE  Onward(c, b)
<1>1. /\ ~Rolling(a) /\ Restorable(disk)
      /\ \/ a = "doff3" /\ b = "void" /\ c = "clear"
         \/ a = "blank" /\ b = "emptied" /\ c = "blank"
  BY DEF Goes, Sound, Rolling
<1>2. disk' = disk /\ mem' = [Fresh EXCEPT !.mode = "up"] /\ Done /\ Stay
  BY DEF Empty
<1>3. /\ mem'.mode = "up" /\ mem'.known = {} /\ mem'.deleted = {} /\ mem'.buffer = <<>> /\ mem'.index = {}
      /\ mem'.fallback = {} /\ mem'.mark = NoMark
  BY <1>2 DEF Fresh
<1>4. mem' \in [mode : {"down", "up", "refused", "broken"}, known : SUBSET Id, deleted : SUBSET Id,
                buffer : Seq(Id), trained : BOOLEAN, index : SUBSET Id, fallback : SUBSET Id,
                revive : SUBSET Id, mark : [rows : Nat, meta : Meta]]
  BY <1>2, Records, EmptyIs DEF Fresh, NoMark
<1>5. TypeOK'
  BY <1>2, <1>4 DEF TypeOK, Stay
<1>6. Is(b)'
  <2>1. ASSUME a = "doff3" PROVE Is(b)'
    <3>1. Swap(0) /\ disk.bin = <<>> /\ disk.ids = <<>>
      BY <2>1 DEF Is
    <3>2. Members(<<>>, mem') /\ Indexed(<<>>, mem')
      BY <1>3, EmptyIs DEF Members, Indexed
    <3> QED BY <1>1, <1>2, <1>3, <2>1, <3>1, <3>2, EmptyIs
            DEF Is, New, Swap, Up, NoLog, Empties, Paired, Good, Nothing
  <2>2. ASSUME a = "blank" PROVE Is(b)'
    BY <1>1, <1>2, <2>2 DEF Is, Tidy, NoLog, NoSwitch, Paired, Nothing
  <2> QED BY <1>1, <2>1, <2>2
<1>7. Sound(c, b)'
  BY <1>1, <1>2, <1>3 DEF Sound, Marked
<1> QED BY <1>2, <1>5, <1>6, <1>7 DEF Onward

\* clear() takes the metadata away, and with it the last that was saved.
LEMMA UnlinkMetaKeeps ==
    ASSUME TypeOK, NEW c, NEW a, NEW b, Goes(c, "unmeta", a, b), Is(a), Sound(c, a), UnlinkMeta
    PROVE  Onward(c, b)
<1>1. /\ a = "emptied" /\ b = "steady" /\ c \in {"clear", "blank"} /\ ~Rolling(a)
      /\ NoLog /\ NoSwitch /\ Paired /\ Nothing
  BY DEF Goes, Rolling, Is
<1>2. disk' = [disk EXCEPT !.meta = NoMeta] /\ mem' = mem /\ Done /\ Stay
  BY DEF UnlinkMeta
<1>3. /\ disk'.meta = NoMeta /\ disk'.bin = disk.bin /\ disk'.ids = disk.ids
      /\ disk'.switch = disk.switch /\ disk'.append = disk.append
  BY <1>2 DEF TypeOK
<1>4. TypeOK'
  BY <1>2, Records DEF TypeOK, Stay
<1>5. /\ mem.mode = "up" /\ mem.known = {} /\ mem.deleted = {} /\ mem.buffer = <<>> /\ mem.index = {}
      /\ mem.fallback = {} /\ mem.mark = NoMark
  BY <1>1 DEF Nothing, Fresh
<1>6. Steady'
  <2>1. Members(<<>>, mem') /\ Indexed(<<>>, mem')
    BY <1>2, <1>5, EmptyIs DEF Members, Indexed
  <2> QED BY <1>1, <1>2, <1>3, <1>5, <2>1
          DEF Steady, Up, NoSwitch, NoLog, Paired, Good, Nothing, Target, Appending
<1>7. Restorable(disk')
  BY <1>1, <1>3, EmptyIs
     DEF Restorable, Describes, Unsaved, Halfway, Appending, Switching, NoLog, NoSwitch, Paired, Nothing, NoMeta
<1>8. Sound(c, b)'
  BY <1>1, <1>2, <1>5, <1>7 DEF Sound, Marked
<1> QED BY <1>1, <1>2, <1>4, <1>6, <1>8 DEF Onward, Is

\* What load() cuts an unfinished append back to.
LEMMA CutIs ==
    ASSUME Files(disk), Restorable(disk)
    PROVE  /\ CutPair(disk) # {}
           /\ LET p == CHOOSE q \in CutPair(disk) : TRUE
              IN  /\ Unsaved(disk) => p.bin = Prefix(disk.bin, disk.append.base)
                                      /\ p.ids = Prefix(disk.ids, disk.append.base)
                  /\ ~Unsaved(disk) => p.bin = disk.bin /\ p.ids = disk.ids
<1> DEFINE cut == [bin |-> Prefix(disk.bin, disk.append.base), ids |-> Prefix(disk.ids, disk.append.base)]
           all == [bin |-> disk.bin, ids |-> disk.ids]
<1>1. (Appending(disk) /\ ~Commits(disk.meta, disk.append)) <=> Unsaved(disk)
  BY DEF Unsaved, Wrote, Commits, Restorable
<1>2. Unsaved(disk) => CutPair(disk) = {cut}
  BY <1>1 DEF CutPair, Restorable, CutOk
<1>3. ~Unsaved(disk) => CutPair(disk) = {all}
  BY <1>1 DEF CutPair
<1>4. /\ cut.bin = Prefix(disk.bin, disk.append.base) /\ cut.ids = Prefix(disk.ids, disk.append.base)
      /\ all.bin = disk.bin /\ all.ids = disk.ids
  OBVIOUS
<1> HIDE DEF cut, all
<1>5. \A x : (CHOOSE q \in {x} : TRUE) = x
  BY Zenon
<1>6. CASE Unsaved(disk)
  <2>1. CutPair(disk) # {} /\ (CHOOSE q \in CutPair(disk) : TRUE) = cut
    BY <1>2, <1>5, <1>6, Zenon
  <2> QED BY <1>4, <1>6, <2>1
<1>7. CASE ~Unsaved(disk)
  <2>1. CutPair(disk) # {} /\ (CHOOSE q \in CutPair(disk) : TRUE) = all
    BY <1>3, <1>5, <1>7, Zenon
  <2> QED BY <1>4, <1>7, <2>1
<1> QED BY <1>6, <1>7

\* Recovery cuts vectors.bin back to what was saved.
LEMMA CutBinKeeps ==
    ASSUME TypeOK, NEW c, NEW a, NEW b, Goes(c, "cutbin", a, b), Is(a), Sound(c, a), CutBin
    PROVE  Onward(c, b)
<1> DEFINE new == (CHOOSE p \in CutPair(disk) : TRUE).bin
<1>1. Files(disk) /\ Fields(mem)
  BY Typed
<1>2. /\ ~Rolling(a) /\ ~Rolling(b) /\ Restorable(disk) /\ Empties /\ ~Marked
      /\ \/ a = "cutting" /\ b = "cut1" /\ c = "load" /\ Down
         \/ a = "clearing" /\ b = "clear1" /\ c = "clear" /\ Up /\ NoSwitch
  BY DEF Goes, Is, Sound, Rolling, Down, Markers, Marked, Empties
<1>3. /\ disk' = [disk EXCEPT !.bin = new] /\ mem' = mem /\ Done /\ Stay
      /\ Unsaved(disk) => new = Prefix(disk.bin, disk.append.base)
      /\ ~Unsaved(disk) => new = disk.bin
  BY <1>1, <1>2, CutIs DEF CutBin
<1> HIDE DEF new
<1>4. Unsaved(disk) =>
        /\ CutOk(disk) /\ disk.append.base \in 0 .. Len(disk.bin) /\ disk.append.base <= disk.append.target
        /\ disk.append.base \in Nat /\ disk.append.target \in Nat
  <2> SUFFICES ASSUME Unsaved(disk)
               PROVE  /\ CutOk(disk) /\ disk.append.base \in 0 .. Len(disk.bin) /\ disk.append.base <= disk.append.target
                      /\ disk.append.base \in Nat /\ disk.append.target \in Nat
    OBVIOUS
  <2>1. CutOk(disk) /\ disk.append.base \in Nat /\ disk.append.target \in Nat
    BY <1>1, <1>2, Records DEF Restorable, Files
  <2> QED BY <1>1, <2>1 DEF CutOk, Files
<1>5. Unsaved(disk) => /\ new \in Seq(Id) /\ Len(new) = disk.append.base
                       /\ Prefix(new, disk.append.base) = Prefix(disk.bin, disk.append.base)
  BY <1>1, <1>3, <1>4, PrefixIs, PrefixOfPrefix DEF Files
<1>6. new \in Seq(Id)
  BY <1>1, <1>3, <1>5 DEF Files
<1>7. /\ disk'.bin = new /\ disk'.ids = disk.ids /\ disk'.append = disk.append /\ disk'.switch = disk.switch
      /\ disk'.backup = disk.backup /\ disk'.meta = disk.meta
  BY <1>3 DEF TypeOK
<1>8. TypeOK'
  BY <1>3, <1>6 DEF TypeOK, Stay
<1>9. Unsaved(disk') <=> Unsaved(disk)
  BY <1>7 DEF Unsaved, Appending, Wrote
<1>10. Unsaved(disk) => CutOk(disk')
  BY <1>4, <1>5, <1>7 DEF CutOk
<1>11. Restorable(disk')
  BY <1>2, <1>3, <1>7, <1>9, <1>10 DEF Restorable, Appending, Switching, Halfway, Wrote, BackupOk
<1>12. Cut1'
  BY <1>2, <1>3, <1>5, <1>7, <1>9 DEF Cut1, Empties
<1>13. Is(b)'
  BY <1>2, <1>3, <1>7, <1>12 DEF Is, Down, Up, NoSwitch
<1>14. Sound(c, b)'
  BY <1>2, <1>3, <1>11 DEF Sound, Marked
<1> QED BY <1>3, <1>8, <1>13, <1>14 DEF Onward

\* Recovery cuts vectors_ids.bin.
LEMMA CutIdsKeeps ==
    ASSUME TypeOK, NEW c, NEW a, NEW b, Goes(c, "cutids", a, b), Is(a), Sound(c, a), CutIds
    PROVE  Onward(c, b)
<1> DEFINE new == (CHOOSE p \in CutPair(disk) : TRUE).ids
<1>1. Files(disk) /\ Fields(mem)
  BY Typed
<1>2. /\ ~Rolling(a) /\ ~Rolling(b) /\ Restorable(disk) /\ Cut1 /\ ~Marked
      /\ \/ a = "cut1" /\ b = "cut" /\ c = "load" /\ Down
         \/ a = "clear1" /\ b = "cleared" /\ c = "clear" /\ Up /\ NoSwitch
  BY DEF Goes, Is, Sound, Rolling, Down, Markers, Marked
<1>3. /\ disk' = [disk EXCEPT !.ids = new] /\ mem' = mem /\ Done /\ Stay
      /\ Unsaved(disk) => new = Prefix(disk.ids, disk.append.base)
      /\ ~Unsaved(disk) => new = disk.ids
  BY <1>1, <1>2, CutIs DEF CutIds
<1> HIDE DEF new
<1>4. Unsaved(disk) =>
        /\ CutOk(disk) /\ disk.append.base \in 0 .. Len(disk.ids) /\ disk.append.base <= disk.append.target
        /\ disk.append.base \in Nat /\ disk.append.target \in Nat
  <2> SUFFICES ASSUME Unsaved(disk)
               PROVE  /\ CutOk(disk) /\ disk.append.base \in 0 .. Len(disk.ids) /\ disk.append.base <= disk.append.target
                      /\ disk.append.base \in Nat /\ disk.append.target \in Nat
    OBVIOUS
  <2>1. CutOk(disk) /\ disk.append.base \in Nat /\ disk.append.target \in Nat
    BY <1>1, <1>2, Records DEF Restorable, Files
  <2> QED BY <1>1, <2>1 DEF CutOk, Files
<1>5. Unsaved(disk) => /\ new \in Seq(Id) /\ Len(new) = disk.append.base
                       /\ Prefix(new, disk.append.base) = Prefix(disk.ids, disk.append.base)
  BY <1>1, <1>3, <1>4, PrefixIs, PrefixOfPrefix DEF Files
<1>6. new \in Seq(Id)
  BY <1>1, <1>3, <1>5 DEF Files
<1>7. /\ disk'.ids = new /\ disk'.bin = disk.bin /\ disk'.append = disk.append /\ disk'.switch = disk.switch
      /\ disk'.backup = disk.backup /\ disk'.meta = disk.meta
  BY <1>3 DEF TypeOK
<1>8. TypeOK'
  BY <1>3, <1>6 DEF TypeOK, Stay
<1>9. Unsaved(disk') <=> Unsaved(disk)
  BY <1>7 DEF Unsaved, Appending, Wrote
<1>10. Unsaved(disk) => CutOk(disk')
  BY <1>4, <1>5, <1>7 DEF CutOk
<1>11. Restorable(disk')
  BY <1>2, <1>3, <1>7, <1>9, <1>10 DEF Restorable, Appending, Switching, Halfway, Wrote, BackupOk
<1>12. Cut'
  <2>1. Unsaved(disk) => disk.bin = new
    BY <1>1, <1>2, <1>3, <1>4, PrefixIs DEF Cut1, CutOk, Files
  <2> QED BY <1>2, <1>3, <1>5, <1>7, <1>9, <2>1 DEF Cut1, Cut, Empties, Paired
<1>13. Is(b)'
  BY <1>2, <1>3, <1>7, <1>12 DEF Is, Down, Up, NoSwitch
<1>14. Sound(c, b)'
  BY <1>2, <1>3, <1>11 DEF Sound, Marked
<1> QED BY <1>3, <1>8, <1>13, <1>14 DEF Onward

\* A switch is undone exactly when it was not committed.
LEMMA UndoingIs ==
    ASSUME Restorable(disk)
    PROVE  /\ Undoing <=> Halfway(disk)
           /\ Halfway(disk) => Switching(disk) /\ BackupOk(disk)
BY DEF Undoing, Halfway, Wrote, Commits, Restorable

\* Recovery takes vectors.bin from the backup.
LEMMA RestoreBinKeeps ==
    ASSUME TypeOK, NEW c, NEW a, NEW b, Goes(c, "restorebin", a, b), Is(a), Sound(c, a), RestoreBin
    PROVE  Onward(c, b)
<1>1. Files(disk) /\ Fields(mem)
  BY Typed
<1>2. /\ a \in {"steady", "undo", "tidy"} /\ ~Rolling(a) /\ ~Rolling(b) /\ Restorable(disk)
      /\ a = "undo" => b = "undo1" /\ Down /\ NoLog
      /\ a # "undo" => b = a /\ NoSwitch
  BY DEF Goes, Is, Sound, Rolling, Steady, Tidy
<1>3. mem' = mem /\ Done /\ Stay
  BY DEF RestoreBin
<1>4. CASE ~Halfway(disk)
  <2>1. disk' = disk
    BY <1>2, <1>4, UndoingIs DEF RestoreBin
  <2>2. TypeOK'
    BY <1>3, <2>1 DEF TypeOK, Stay
  <2>3. Is(b)
    BY <1>2, <1>4 DEF Is, Undo1
  <2> QED BY <1>2, <1>3, <2>1, <2>2, <2>3, Same, SoundAgain DEF Onward, Sound
<1>5. CASE Halfway(disk)
  <2>1. a = "undo" /\ disk' = [disk EXCEPT !.bin = disk.backup.bin]
    BY <1>2, <1>5, UndoingIs DEF RestoreBin, NoSwitch, Switching
  <2>2. /\ disk'.bin = disk.backup.bin /\ disk'.ids = disk.ids /\ disk'.append = disk.append
        /\ disk'.switch = disk.switch /\ disk'.backup = disk.backup /\ disk'.meta = disk.meta
    BY <2>1 DEF TypeOK
  <2>3. TypeOK'
    BY <1>1, <1>3, <2>1 DEF TypeOK, Stay, Files
  <2>4. Halfway(disk') /\ Restorable(disk')
    BY <1>2, <1>5, <2>2, Shields
  <2>5. Is(b)'
    BY <1>2, <1>3, <2>1, <2>2 DEF Is, Down, NoLog, Undo1
  <2>6. Sound(c, b)'
    BY <1>2, <1>3, <2>1, <2>4 DEF Sound, Down, Marked, Goes
  <2> QED BY <1>3, <2>3, <2>5, <2>6 DEF Onward
<1> QED BY <1>4, <1>5

\* Recovery takes vectors_ids.bin from the backup.
LEMMA RestoreIdsKeeps ==
    ASSUME TypeOK, NEW c, NEW a, NEW b, Goes(c, "restoreids", a, b), Is(a), Sound(c, a), RestoreIds
    PROVE  Onward(c, b)
<1>1. Files(disk) /\ Fields(mem)
  BY Typed
<1>2. /\ a \in {"steady", "undo1", "tidy"} /\ ~Rolling(a) /\ ~Rolling(b) /\ Restorable(disk)
      /\ a = "undo1" => b = "undone" /\ Down /\ Undo1
      /\ a # "undo1" => b = a /\ NoSwitch
  BY DEF Goes, Is, Sound, Rolling, Steady, Tidy
<1>3. mem' = mem /\ Done /\ Stay
  BY DEF RestoreIds
<1>4. CASE ~Halfway(disk)
  <2>1. disk' = disk
    BY <1>2, <1>4, UndoingIs DEF RestoreIds
  <2>2. TypeOK'
    BY <1>3, <2>1 DEF TypeOK, Stay
  <2>3. Is(b)
    BY <1>2, <1>4 DEF Is, Undo1, Undone
  <2> QED BY <1>2, <1>3, <2>1, <2>2, <2>3, Same, SoundAgain DEF Onward, Sound
<1>5. CASE Halfway(disk)
  <2>1. a = "undo1" /\ disk' = [disk EXCEPT !.ids = disk.backup.ids]
    BY <1>2, <1>5, UndoingIs DEF RestoreIds, NoSwitch, Switching
  <2>2. /\ disk'.ids = disk.backup.ids /\ disk'.bin = disk.bin /\ disk'.append = disk.append
        /\ disk'.switch = disk.switch /\ disk'.backup = disk.backup /\ disk'.meta = disk.meta
    BY <2>1 DEF TypeOK
  <2>3. TypeOK'
    BY <1>1, <1>3, <2>1 DEF TypeOK, Stay, Files
  <2>4. Halfway(disk') /\ Restorable(disk')
    BY <1>2, <1>5, <2>2, Shields
  <2>5. Is(b)'
    BY <1>2, <1>3, <1>5, <2>1, <2>2 DEF Is, Down, NoLog, Undo1, Undone
  <2>6. Sound(c, b)'
    BY <1>2, <1>3, <2>1, <2>4 DEF Sound, Down, Marked, Goes
  <2> QED BY <1>3, <2>3, <2>5, <2>6 DEF Onward
<1> QED BY <1>4, <1>5

\* The fields Adopted sets.
LEMMA AdoptedIs ==
    ASSUME TypeOK
    PROVE  LET m == Adopted(mem) IN
           /\ m \in [mode : {"down", "up", "refused", "broken"}, known : SUBSET Id, deleted : SUBSET Id,
                     buffer : Seq(Id), trained : BOOLEAN, index : SUBSET Id, fallback : SUBSET Id,
                     revive : SUBSET Id, mark : [rows : Nat, meta : Meta]]
           /\ m.mode = mem.mode /\ m.buffer = mem.buffer /\ m.mark = mem.mark /\ m.revive = mem.revive
           /\ m.known = disk.meta.known /\ m.deleted = disk.meta.deleted /\ m.trained = disk.meta.trained
           /\ m.index = (IF disk.meta.trained THEN Range(disk.ids) \ disk.meta.deleted ELSE {})
           /\ m.fallback = {}
<1>1. Files(disk) /\ Range(disk.ids) \in SUBSET Id
  BY Typed, RangeIs DEF Files
<1>2. /\ disk.meta.known \in SUBSET Id /\ disk.meta.deleted \in SUBSET Id /\ disk.meta.trained \in BOOLEAN
      /\ (IF disk.meta.trained THEN Range(disk.ids) \ disk.meta.deleted ELSE {}) \in SUBSET Id
  BY <1>1, Records DEF Files
<1> QED BY <1>2 DEF Adopted, TypeOK

\* Recovery reads the members of the backup again; its checks always succeed.
LEMMA ReloadKeeps ==
    ASSUME TypeOK, NEW c, NEW a, NEW b, Goes(c, "reload", a, b), Is(a), Sound(c, a), Reload
    PROVE  Onward(c, b)
<1>1. Files(disk) /\ Fields(mem)
  BY Typed
<1>2. /\ a \in {"steady", "undone", "tidy"} /\ b = a /\ ~Rolling(a) /\ Restorable(disk)
      /\ a = "undone" => Down /\ Undone /\ c = "load"
      /\ a # "undone" => NoSwitch
  BY DEF Goes, Is, Sound, Rolling, Steady, Tidy
<1>3. disk' = disk /\ Stay
  BY DEF Reload
<1>4. CASE ~Halfway(disk)
  <2>1. mem' = mem /\ Done
    BY <1>2, <1>4, UndoingIs DEF Reload
  <2>2. TypeOK'
    BY <1>3, <2>1 DEF TypeOK, Stay
  <2> QED BY <1>2, <1>3, <2>1, <2>2, Same, SoundAgain DEF Onward, Sound
<1>5. CASE Halfway(disk)
  <2> DEFINE spare == IF disk.meta.trained THEN {} ELSE Range(disk.ids) \ disk.meta.deleted
  <2>1. a = "undone" /\ Undoing /\ BackupOk(disk) /\ Down /\ Undone
    BY <1>2, <1>5, UndoingIs DEF NoSwitch, Switching
  <2>2. MetaMatches /\ disk.meta.exists /\ Range(disk.ids) = disk.meta.known /\ mem.buffer = <<>>
    BY <1>5, <2>1 DEF MetaMatches, PairAligned, BackupOk, Describes, Undone, Down
  <2>3. mem' = [Adopted(mem) EXCEPT !.fallback = spare] /\ Done
    BY <2>1, <2>2 DEF Reload
  <2>4. spare \in SUBSET Id
    BY <1>1, RangeIs DEF Files
  <2> HIDE DEF spare
  <2>5. /\ mem' \in [mode : {"down", "up", "refused", "broken"}, known : SUBSET Id, deleted : SUBSET Id,
                     buffer : Seq(Id), trained : BOOLEAN, index : SUBSET Id, fallback : SUBSET Id,
                     revive : SUBSET Id, mark : [rows : Nat, meta : Meta]]
        /\ mem'.mode = mem.mode /\ mem'.buffer = mem.buffer /\ mem'.mark = mem.mark
    BY <2>3, <2>4, AdoptedIs
  <2>6. TypeOK'
    BY <1>3, <2>5 DEF TypeOK, Stay
  <2>7. Is(b)'
    BY <1>2, <1>3, <2>1, <2>5 DEF Is, Down, Undone, NoLog
  <2>8. Sound(c, b)'
    BY <1>2, <1>3, <2>1, <2>5 DEF Sound, Down, Marked
  <2> QED BY <2>3, <2>6, <2>7, <2>8 DEF Onward
<1> QED BY <1>4, <1>5

\* load() reads the members; the counts it compares always agree.
LEMMA AdoptKeeps ==
    ASSUME TypeOK, NEW c, NEW a, NEW b, Goes(c, "adopt", a, b), Is(a), Sound(c, a), Adopt
    PROVE  Onward(c, b)
<1>1. Files(disk) /\ Fields(mem)
  BY Typed
<1>2. a = "unwound" /\ b = "warming" /\ c = "load" /\ ~Rolling(a) /\ Restorable(disk) /\ Down /\ Tidy
  BY DEF Goes, Is, Sound, Rolling
<1>3. disk' = disk /\ Stay
  BY DEF Adopt
<1>4. disk.bin = disk.ids /\ Describes(disk.meta, disk.ids) /\ disk.meta.deleted \subseteq disk.meta.known
  BY <1>2 DEF Restorable, Tidy, NoLog, NoSwitch, Unsaved, Halfway, Appending, Switching
<1>5. mem' = [Adopted(mem) EXCEPT !.mode = "up"] /\ Done
  BY <1>4 DEF Adopt, MetaMatches, PairAligned, Describes
<1>6. /\ mem' \in [mode : {"down", "up", "refused", "broken"}, known : SUBSET Id, deleted : SUBSET Id,
                   buffer : Seq(Id), trained : BOOLEAN, index : SUBSET Id, fallback : SUBSET Id,
                   revive : SUBSET Id, mark : [rows : Nat, meta : Meta]]
      /\ mem'.mode = "up" /\ mem'.buffer = mem.buffer /\ mem'.mark = mem.mark
      /\ mem'.known = disk.meta.known /\ mem'.deleted = disk.meta.deleted /\ mem'.trained = disk.meta.trained
      /\ mem'.index = (IF disk.meta.trained THEN Range(disk.ids) \ disk.meta.deleted ELSE {})
      /\ mem'.fallback = {}
  BY <1>5, AdoptedIs
<1>7. TypeOK'
  BY <1>3, <1>6 DEF TypeOK, Stay
<1>8. Members(disk.ids, mem')
  BY <1>2, <1>4, <1>6, EmptyIs DEF Members, Describes, Down
<1>9. Warming'
  BY <1>2, <1>3, <1>4, <1>6, <1>8 DEF Warming, Up, Empties, Down, Tidy, NoLog, NoSwitch, Paired
<1>10. Sound(c, b)'
  BY <1>2, <1>3, <1>6 DEF Sound, Down, Marked
<1> QED BY <1>2, <1>5, <1>7, <1>9, <1>10 DEF Onward, Is

\* The fallback index is filled or the pool is trained.
LEMMA WarmKeeps ==
    ASSUME TypeOK, NEW c, NEW a, NEW b, Goes(c, "warm", a, b), Is(a), Sound(c, a), Warm
    PROVE  Onward(c, b)
<1> DEFINE rows == Range(disk.ids) \ mem.deleted
           fallback == IF mem.fallback = {} /\ (~mem.trained \/ mem.index = {}) THEN rows ELSE mem.fallback
           train == ~mem.trained /\ Len(disk.bin) >= MinTrain /\ Len(disk.bin) > 0
           few == Cardinality(rows) >= Len(disk.bin)
<1>1. Files(disk) /\ Fields(mem) /\ Range(disk.ids) \in SUBSET Id /\ rows \in SUBSET Id
  BY Typed, RangeIs DEF Files
<1>2. /\ a \in {"flushed", "warming"} /\ b = "steady" /\ ~Rolling(a) /\ Restorable(disk)
      /\ a = "flushed" => Flushed /\ c = "train"
      /\ a = "warming" => Warming /\ c = "load"
  BY DEF Goes, Is, Sound, Rolling
<1>3. /\ disk' = disk /\ Done /\ Stay
      /\ mem' = IF train
                THEN [mem EXCEPT !.trained = TRUE, !.index = rows,
                                 !.fallback = IF few THEN {} ELSE fallback]
                ELSE [mem EXCEPT !.fallback = fallback]
  BY DEF Warm
<1>4. fallback \in SUBSET Id
  BY <1>1 DEF Fields
<1>5. /\ Up /\ NoSwitch /\ Paired /\ Target(Len(disk.bin)) /\ Members(disk.ids, mem)
      /\ mem.index \subseteq Range(disk.ids) /\ mem.fallback \subseteq Range(disk.ids)
      /\ mem.trained => mem.index \ mem.deleted = rows
      /\ ~mem.trained => mem.fallback \ mem.deleted = rows \/ mem.fallback = {}
  BY <1>2 DEF Flushed, Steady, Warming, Good, Indexed, NoLog, Target, Appending
<1> HIDE DEF train, few
<1>6. /\ mem'.known = mem.known /\ mem'.deleted = mem.deleted /\ mem'.buffer = mem.buffer /\ mem'.mode = mem.mode
      /\ mem'.mark = mem.mark /\ mem'.revive = mem.revive
      /\ train => mem'.trained /\ mem'.index = rows /\ mem'.fallback = (IF few THEN {} ELSE fallback)
      /\ ~train => mem'.trained = mem.trained /\ mem'.index = mem.index /\ mem'.fallback = fallback
  BY <1>3 DEF TypeOK
<1>7. TypeOK'
  BY <1>1, <1>3, <1>4 DEF TypeOK, Stay
<1>8. Members(disk.ids, mem')
  BY <1>5, <1>6 DEF Members
<1>9. Indexed(disk.ids, mem')
  BY <1>5, <1>6 DEF Indexed
<1>10. Steady'
  BY <1>3, <1>5, <1>6, <1>8, <1>9 DEF Steady, Up, NoSwitch, Paired, Good, Target, Appending
<1>11. Sound(c, b)'
  BY <1>2, <1>3, <1>6, SoundAgain
<1> QED BY <1>2, <1>3, <1>7, <1>10, <1>11 DEF Onward, Is

\* A roll-back cuts both files to the rows of the checkpoint and records what it recorded.
LEMMA RollbackBinKeeps ==
    ASSUME TypeOK, NEW c, NEW a, NEW b, Goes(c, "rbbin", a, b), Is(a), Sound(c, a), RollbackBin
    PROVE  Onward(c, b)
<1> DEFINE n == mem.mark.rows
           new == Prefix(disk.bin, n)
<1>1. Files(disk) /\ Fields(mem)
  BY Typed
<1>2. a = "back1" /\ b = "back2" /\ c = "rollback" /\ Steady /\ Marked /\ MarkKept(disk, mem.mark)
  BY DEF Goes, Is, Sound
<1>3. disk' = [disk EXCEPT !.bin = new] /\ mem' = mem /\ Done /\ Stay
  BY DEF RollbackBin
<1>4. n \in 0 .. Len(disk.bin)
  BY <1>1, <1>2 DEF MarkKept, Files, Fields
<1>5. new \in Seq(Id) /\ Len(new) = n /\ Prefix(new, n) = new
  <2>1. new \in Seq(Id) /\ Len(new) = n
    BY <1>1, <1>4, PrefixIs DEF Files
  <2> HIDE DEF new
  <2>2. Prefix(new, Len(new)) = new
    BY <1>4, <2>1, PrefixIs
  <2> QED BY <2>1, <2>2
<1>6. /\ disk'.bin = new /\ disk'.ids = disk.ids /\ disk'.append = disk.append
      /\ disk'.switch = disk.switch /\ disk'.meta = disk.meta
  BY <1>3 DEF TypeOK
<1>7. TypeOK'
  BY <1>3, <1>5 DEF TypeOK, Stay
<1>8. MarkKept(disk', mem.mark)
  BY <1>1, <1>2, <1>5, <1>6 DEF MarkKept, Fields
<1>9. Is(b)'
  BY <1>2, <1>3, <1>5, <1>6 DEF Is, Back, CutBack, Steady, Up, NoSwitch, Marked
<1>10. Sound(c, b)'
  BY <1>2, <1>3, <1>8 DEF Sound, Rolling, Marked, Markers
<1> QED BY <1>3, <1>7, <1>9, <1>10 DEF Onward

\* A roll-back cuts the second file and takes the journal away.
LEMMA RollbackIdsKeeps ==
    ASSUME TypeOK, NEW c, NEW a, NEW b, Goes(c, "rbids", a, b), Is(a), Sound(c, a), RollbackIds
    PROVE  Onward(c, b)
<1> DEFINE n == mem.mark.rows
           new == Prefix(disk.ids, n)
<1>1. Files(disk) /\ Fields(mem)
  BY Typed
<1>2. a = "back2" /\ b = "back3" /\ c = "rollback" /\ Back(TRUE, FALSE) /\ Marked /\ MarkKept(disk, mem.mark)
  BY DEF Goes, Is, Sound, Back
<1>3. disk' = [disk EXCEPT !.ids = new, !.append = NoJournal] /\ mem' = mem /\ Done /\ Stay
  BY DEF RollbackIds
<1>4. n \in 0 .. Len(disk.ids)
  BY <1>1, <1>2 DEF MarkKept, Files, Fields
<1>5. new \in Seq(Id) /\ Len(new) = n /\ Prefix(new, n) = new
  <2>1. new \in Seq(Id) /\ Len(new) = n
    BY <1>1, <1>4, PrefixIs DEF Files
  <2> HIDE DEF new
  <2>2. Prefix(new, Len(new)) = new
    BY <1>4, <2>1, PrefixIs
  <2> QED BY <2>1, <2>2
<1>6. /\ disk'.ids = new /\ disk'.bin = disk.bin /\ disk'.append = NoJournal
      /\ disk'.switch = disk.switch /\ disk'.meta = disk.meta
  BY <1>3 DEF TypeOK
<1>7. TypeOK'
  BY <1>3, <1>5, Records DEF TypeOK, Stay
<1>8. MarkKept(disk', mem.mark)
  BY <1>1, <1>2, <1>5, <1>6 DEF MarkKept, Fields
<1>9. Is(b)'
  BY <1>2, <1>3, <1>5, <1>6 DEF Is, Back, CutBack, Up, NoSwitch, NoLog, Marked
<1>10. Sound(c, b)'
  BY <1>2, <1>3, <1>8 DEF Sound, Rolling, Marked, Markers
<1> QED BY <1>3, <1>7, <1>9, <1>10 DEF Onward

\* A roll-back writes the metadata of the checkpoint.
LEMMA RollbackMetaKeeps ==
    ASSUME TypeOK, NEW c, NEW a, NEW b, Goes(c, "rbmeta", a, b), Is(a), Sound(c, a), RollbackMeta
    PROVE  Onward(c, b)
<1>1. Files(disk) /\ Fields(mem)
  BY Typed
<1>2. a = "back3" /\ b = "back4" /\ c = "rollback" /\ Back(TRUE, TRUE) /\ Marked /\ MarkKept(disk, mem.mark)
  BY DEF Goes, Is, Sound, Back
<1>3. /\ disk' = [disk EXCEPT !.meta = mem.mark.meta] /\ Done /\ Stay
      /\ mem' = [Fresh EXCEPT !.mode = "up", !.mark = mem.mark]
  BY DEF RollbackMeta
<1>4. /\ disk'.meta = mem.mark.meta /\ disk'.bin = disk.bin /\ disk'.ids = disk.ids /\ disk'.append = disk.append
      /\ disk'.switch = disk.switch
  BY <1>3 DEF TypeOK
<1>5. mem'.mode = "up" /\ mem'.mark = mem.mark /\ mem'.buffer = <<>>
  BY <1>3 DEF Fresh
<1>6. mem' \in [mode : {"down", "up", "refused", "broken"}, known : SUBSET Id, deleted : SUBSET Id,
                buffer : Seq(Id), trained : BOOLEAN, index : SUBSET Id, fallback : SUBSET Id,
                revive : SUBSET Id, mark : [rows : Nat, meta : Meta]]
  BY <1>3, EmptyIs DEF Fresh, TypeOK
<1>7. TypeOK'
  BY <1>1, <1>3, <1>6 DEF TypeOK, Stay, Fields
<1>8. MarkKept(disk, mem.mark)'
  BY <1>2, <1>4, <1>5 DEF MarkKept
<1>9. Is(b)'
  BY <1>2, <1>4, <1>5 DEF Is, Back4, Back, CutBack, Up, NoSwitch, NoLog, Marked, Empties
<1>10. Sound(c, b)'
  BY <1>2, <1>5, <1>8 DEF Sound, Rolling, Marked, Markers
<1> QED BY <1>3, <1>7, <1>9, <1>10 DEF Onward

\* A roll-back reads it back; the counts it compares agree.
LEMMA RollbackLoadKeeps ==
    ASSUME TypeOK, NEW c, NEW a, NEW b, Goes(c, "rbload", a, b), Is(a), Sound(c, a), RollbackLoad
    PROVE  Onward(c, b)
<1> DEFINE spare == IF disk.meta.trained THEN {} ELSE Range(disk.ids) \ disk.meta.deleted
<1>1. Files(disk) /\ Fields(mem)
  BY Typed
<1>2. a = "back4" /\ b = "steady" /\ c = "rollback" /\ Back4 /\ Marked /\ MarkKept(disk, mem.mark)
  BY DEF Goes, Is, Sound, Back4, Back
<1>3. /\ disk.bin = disk.ids /\ Describes(disk.meta, disk.ids) /\ disk.meta.exists
      /\ disk.meta.deleted \subseteq disk.meta.known
  <2>1. Prefix(disk.bin, mem.mark.rows) = disk.bin /\ Prefix(disk.ids, mem.mark.rows) = disk.ids
    BY <1>1, <1>2, PrefixIs DEF Back4, Back, CutBack, Files
  <2> QED BY <1>2, <2>1 DEF Back4, MarkKept
<1>4. disk' = disk /\ mem' = [Adopted(mem) EXCEPT !.mark = NoMark, !.fallback = spare] /\ Done /\ Stay
  BY <1>3 DEF RollbackLoad, MetaMatches, PairAligned, Describes
<1>5. spare \in SUBSET Id
  BY <1>1, RangeIs DEF Files
<1>6. spare = IF disk.meta.trained THEN {} ELSE Range(disk.ids) \ disk.meta.deleted
  OBVIOUS
<1> HIDE DEF spare
<1>7. NoMark \in [rows : Nat, meta : Meta]
  BY Records DEF NoMark
<1>8. /\ mem' \in [mode : {"down", "up", "refused", "broken"}, known : SUBSET Id, deleted : SUBSET Id,
                   buffer : Seq(Id), trained : BOOLEAN, index : SUBSET Id, fallback : SUBSET Id,
                   revive : SUBSET Id, mark : [rows : Nat, meta : Meta]]
      /\ mem'.mode = mem.mode /\ mem'.buffer = mem.buffer /\ mem'.mark = NoMark
      /\ mem'.known = disk.meta.known /\ mem'.deleted = disk.meta.deleted /\ mem'.trained = disk.meta.trained
      /\ mem'.index = (IF disk.meta.trained THEN Range(disk.ids) \ disk.meta.deleted ELSE {})
      /\ mem'.fallback = spare
  BY <1>4, <1>5, <1>7, AdoptedIs
<1>9. TypeOK'
  BY <1>4, <1>8 DEF TypeOK, Stay
<1>10. Members(disk.ids, mem')
  BY <1>2, <1>3, <1>8, EmptyIs DEF Members, Describes, Back4, Empties
<1>11. Indexed(disk.ids, mem')
  BY <1>6, <1>8 DEF Indexed
<1>12. Steady'
  BY <1>2, <1>3, <1>4, <1>8, <1>10, <1>11
     DEF Steady, Back4, Back, Up, NoSwitch, NoLog, Paired, Good, Target, Appending
<1>13. Restorable(disk)
  BY <1>2, <1>3 DEF Restorable, Back4, Back, NoSwitch, NoLog, Unsaved, Halfway, Appending, Switching
<1>14. Sound(c, b)'
  BY <1>2, <1>4, <1>8, <1>13 DEF Sound, Marked
<1> QED BY <1>2, <1>4, <1>9, <1>12, <1>14 DEF Onward, Is

-----------------------------------------------------------------------------
(* Each call keeps the invariant. *)

\* Two sequences of steps put together.
LEMMA Concatenates ==
    ASSUME NEW s \in Seq(StepName), NEW t \in Seq(StepName), NEW u \in Seq(StepName),
           Len(u) = Len(s) + Len(t), \A i \in 1 .. Len(s) : u[i] = s[i],
           \A i \in 1 .. Len(t) : u[Len(s) + i] = t[i]
    PROVE  s \o t = u
<1>1. s \o t \in Seq(StepName) /\ Len(s \o t) = Len(s) + Len(t) /\ Len(s) \in Nat /\ Len(t) \in Nat
  BY ConcatProperties, LenProperties
<1>2. \A i \in 1 .. Len(s) : i \in 1 .. Len(s) + Len(t) /\ (s \o t)[i] = s[i]
  BY <1>1, ConcatProperties
<1>3. ASSUME NEW i \in 1 .. Len(s \o t) PROVE (s \o t)[i] = u[i]
  <2>1. CASE i <= Len(s)
    BY <1>1, <1>2, <2>1
  <2>2. CASE i > Len(s)
    <3>1. i - Len(s) \in 1 .. Len(t) /\ Len(s) + (i - Len(s)) = i
      BY <1>1, <2>2
    <3>2. (s \o t)[i] = t[i - Len(s)]
      BY <1>1, <2>2, ConcatProperties
    <3>3. u[i] = t[i - Len(s)]
      BY <3>1
    <3> QED BY <3>2, <3>3
  <2> QED BY <1>1, <2>1, <2>2
<1> QED BY <1>1, <1>3, SeqEqual

\* The sequences of steps of the model are the scripts.
LEMMA Scripts ==
    /\ FlushSteps = Body("flush") /\ SaveSteps = Body("save")
    /\ FlushSteps \o <<"revive">> = Body("revive") /\ FlushSteps \o <<"warm">> = Body("train")
    /\ RollbackSteps = Body("rollback") /\ LoadSteps = Body("load")
    /\ CompactSteps = Body("compact") /\ ClearSteps = Body("clear")
<1>1. <<"log", "bin", "ids">>
     \o <<"revive">>
   = <<"log", "bin", "ids", "revive">>
  <2> DEFINE s == <<"log", "bin", "ids">>
             t == <<"revive">>
             u == <<"log", "bin", "ids", "revive">>
  <2>1. s \in Seq(StepName) /\ t \in Seq(StepName) /\ u \in Seq(StepName)
    BY DEF StepName
  <2>2. /\ Len(u) = Len(s) + Len(t) /\ \A i \in 1 .. Len(s) : u[i] = s[i]
        /\ \A i \in 1 .. Len(t) : u[Len(s) + i] = t[i]
    OBVIOUS
  <2> HIDE DEF s, t, u
  <2>3. s \o t = u
    BY <2>1, <2>2, Concatenates, Zenon
  <2> QED BY <2>3 DEF s, t, u
<1>2. <<"log", "bin", "ids">>
     \o <<"warm">>
   = <<"log", "bin", "ids", "warm">>
  <2> DEFINE s == <<"log", "bin", "ids">>
             t == <<"warm">>
             u == <<"log", "bin", "ids", "warm">>
  <2>1. s \in Seq(StepName) /\ t \in Seq(StepName) /\ u \in Seq(StepName)
    BY DEF StepName
  <2>2. /\ Len(u) = Len(s) + Len(t) /\ \A i \in 1 .. Len(s) : u[i] = s[i]
        /\ \A i \in 1 .. Len(t) : u[Len(s) + i] = t[i]
    OBVIOUS
  <2> HIDE DEF s, t, u
  <2>3. s \o t = u
    BY <2>1, <2>2, Concatenates, Zenon
  <2> QED BY <2>3 DEF s, t, u
<1>3. <<"log", "bin", "ids">>
     \o <<"meta", "unlog", "unswitch">>
   = <<"log", "bin", "ids", "meta", "unlog", "unswitch">>
  <2> DEFINE s == <<"log", "bin", "ids">>
             t == <<"meta", "unlog", "unswitch">>
             u == <<"log", "bin", "ids", "meta", "unlog", "unswitch">>
  <2>1. s \in Seq(StepName) /\ t \in Seq(StepName) /\ u \in Seq(StepName)
    BY DEF StepName
  <2>2. /\ Len(u) = Len(s) + Len(t) /\ \A i \in 1 .. Len(s) : u[i] = s[i]
        /\ \A i \in 1 .. Len(t) : u[Len(s) + i] = t[i]
    OBVIOUS
  <2> HIDE DEF s, t, u
  <2>3. s \o t = u
    BY <2>1, <2>2, Concatenates, Zenon
  <2> QED BY <2>3 DEF s, t, u
<1>4. <<"restorebin", "restoreids", "reload", "unswitch">>
     \o <<"log", "bin", "ids", "meta", "unlog", "unswitch">>
   = <<"restorebin", "restoreids", "reload", "unswitch", "log", "bin", "ids", "meta",
       "unlog", "unswitch">>
  <2> DEFINE s == <<"restorebin", "restoreids", "reload", "unswitch">>
             t == <<"log", "bin", "ids", "meta", "unlog", "unswitch">>
             u == <<"restorebin", "restoreids", "reload", "unswitch", "log", "bin", "ids", "meta",
                    "unlog", "unswitch">>
  <2>1. s \in Seq(StepName) /\ t \in Seq(StepName) /\ u \in Seq(StepName)
    BY DEF StepName
  <2>2. /\ Len(u) = Len(s) + Len(t) /\ \A i \in 1 .. Len(s) : u[i] = s[i]
        /\ \A i \in 1 .. Len(t) : u[Len(s) + i] = t[i]
    OBVIOUS
  <2> HIDE DEF s, t, u
  <2>3. s \o t = u
    BY <2>1, <2>2, Concatenates, Zenon
  <2> QED BY <2>3 DEF s, t, u
<1>5. <<"restorebin", "restoreids", "reload", "unswitch", "log", "bin", "ids", "meta",
       "unlog", "unswitch">>
     \o <<"switchlog", "swapbin", "swapids", "dropdead">>
   = <<"restorebin", "restoreids", "reload", "unswitch", "log", "bin", "ids", "meta",
       "unlog", "unswitch", "switchlog", "swapbin", "swapids", "dropdead">>
  <2> DEFINE s == <<"restorebin", "restoreids", "reload", "unswitch", "log", "bin", "ids", "meta",
                   "unlog", "unswitch">>
             t == <<"switchlog", "swapbin", "swapids", "dropdead">>
             u == <<"restorebin", "restoreids", "reload", "unswitch", "log", "bin", "ids", "meta",
                    "unlog", "unswitch", "switchlog", "swapbin", "swapids", "dropdead">>
  <2>1. s \in Seq(StepName) /\ t \in Seq(StepName) /\ u \in Seq(StepName)
    BY DEF StepName
  <2>2. /\ Len(u) = Len(s) + Len(t) /\ \A i \in 1 .. Len(s) : u[i] = s[i]
        /\ \A i \in 1 .. Len(t) : u[Len(s) + i] = t[i]
    OBVIOUS
  <2> HIDE DEF s, t, u
  <2>3. s \o t = u
    BY <2>1, <2>2, Concatenates, Zenon
  <2> QED BY <2>3 DEF s, t, u
<1>6. <<"restorebin", "restoreids", "reload", "unswitch", "log", "bin", "ids", "meta",
       "unlog", "unswitch", "switchlog", "swapbin", "swapids", "dropdead">>
     \o <<"log", "bin", "ids", "meta", "unlog", "unswitch">>
   = <<"restorebin", "restoreids", "reload", "unswitch", "log", "bin", "ids", "meta",
       "unlog", "unswitch", "switchlog", "swapbin", "swapids", "dropdead", "log", "bin",
       "ids", "meta", "unlog", "unswitch">>
  <2> DEFINE s == <<"restorebin", "restoreids", "reload", "unswitch", "log", "bin", "ids", "meta",
                   "unlog", "unswitch", "switchlog", "swapbin", "swapids", "dropdead">>
             t == <<"log", "bin", "ids", "meta", "unlog", "unswitch">>
             u == <<"restorebin", "restoreids", "reload", "unswitch", "log", "bin", "ids", "meta",
                    "unlog", "unswitch", "switchlog", "swapbin", "swapids", "dropdead", "log", "bin",
                    "ids", "meta", "unlog", "unswitch">>
  <2>1. s \in Seq(StepName) /\ t \in Seq(StepName) /\ u \in Seq(StepName)
    BY DEF StepName
  <2>2. /\ Len(u) = Len(s) + Len(t) /\ \A i \in 1 .. Len(s) : u[i] = s[i]
        /\ \A i \in 1 .. Len(t) : u[Len(s) + i] = t[i]
    OBVIOUS
  <2> HIDE DEF s, t, u
  <2>3. s \o t = u
    BY <2>1, <2>2, Concatenates, Zenon
  <2> QED BY <2>3 DEF s, t, u
<1>7. <<"cutbin", "cutids", "unlog">>
     \o <<"restorebin", "restoreids", "reload", "unswitch">>
   = <<"cutbin", "cutids", "unlog", "restorebin", "restoreids", "reload", "unswitch">>
  <2> DEFINE s == <<"cutbin", "cutids", "unlog">>
             t == <<"restorebin", "restoreids", "reload", "unswitch">>
             u == <<"cutbin", "cutids", "unlog", "restorebin", "restoreids", "reload", "unswitch">>
  <2>1. s \in Seq(StepName) /\ t \in Seq(StepName) /\ u \in Seq(StepName)
    BY DEF StepName
  <2>2. /\ Len(u) = Len(s) + Len(t) /\ \A i \in 1 .. Len(s) : u[i] = s[i]
        /\ \A i \in 1 .. Len(t) : u[Len(s) + i] = t[i]
    OBVIOUS
  <2> HIDE DEF s, t, u
  <2>3. s \o t = u
    BY <2>1, <2>2, Concatenates, Zenon
  <2> QED BY <2>3 DEF s, t, u
<1>8. <<"cutbin", "cutids", "unlog", "restorebin", "restoreids", "reload", "unswitch">>
     \o <<"adopt", "warm">>
   = <<"cutbin", "cutids", "unlog", "restorebin", "restoreids", "reload", "unswitch",
       "adopt", "warm">>
  <2> DEFINE s == <<"cutbin", "cutids", "unlog", "restorebin", "restoreids", "reload", "unswitch">>
             t == <<"adopt", "warm">>
             u == <<"cutbin", "cutids", "unlog", "restorebin", "restoreids", "reload", "unswitch",
                    "adopt", "warm">>
  <2>1. s \in Seq(StepName) /\ t \in Seq(StepName) /\ u \in Seq(StepName)
    BY DEF StepName
  <2>2. /\ Len(u) = Len(s) + Len(t) /\ \A i \in 1 .. Len(s) : u[i] = s[i]
        /\ \A i \in 1 .. Len(t) : u[Len(s) + i] = t[i]
    OBVIOUS
  <2> HIDE DEF s, t, u
  <2>3. s \o t = u
    BY <2>1, <2>2, Concatenates, Zenon
  <2> QED BY <2>3 DEF s, t, u
<1>9. <<"cutbin", "cutids", "unlog", "restorebin", "restoreids", "reload", "unswitch">>
     \o <<"switchempty", "swapbin", "swapids", "empty">>
   = <<"cutbin", "cutids", "unlog", "restorebin", "restoreids", "reload", "unswitch",
       "switchempty", "swapbin", "swapids", "empty">>
  <2> DEFINE s == <<"cutbin", "cutids", "unlog", "restorebin", "restoreids", "reload", "unswitch">>
             t == <<"switchempty", "swapbin", "swapids", "empty">>
             u == <<"cutbin", "cutids", "unlog", "restorebin", "restoreids", "reload", "unswitch",
                    "switchempty", "swapbin", "swapids", "empty">>
  <2>1. s \in Seq(StepName) /\ t \in Seq(StepName) /\ u \in Seq(StepName)
    BY DEF StepName
  <2>2. /\ Len(u) = Len(s) + Len(t) /\ \A i \in 1 .. Len(s) : u[i] = s[i]
        /\ \A i \in 1 .. Len(t) : u[Len(s) + i] = t[i]
    OBVIOUS
  <2> HIDE DEF s, t, u
  <2>3. s \o t = u
    BY <2>1, <2>2, Concatenates, Zenon
  <2> QED BY <2>3 DEF s, t, u
<1>10. <<"cutbin", "cutids", "unlog", "restorebin", "restoreids", "reload", "unswitch",
       "switchempty", "swapbin", "swapids", "empty">>
     \o <<"log", "bin", "ids", "meta", "unlog", "unswitch">>
   = <<"cutbin", "cutids", "unlog", "restorebin", "restoreids", "reload", "unswitch",
       "switchempty", "swapbin", "swapids", "empty", "log", "bin", "ids", "meta",
       "unlog", "unswitch">>
  <2> DEFINE s == <<"cutbin", "cutids", "unlog", "restorebin", "restoreids", "reload", "unswitch",
                   "switchempty", "swapbin", "swapids", "empty">>
             t == <<"log", "bin", "ids", "meta", "unlog", "unswitch">>
             u == <<"cutbin", "cutids", "unlog", "restorebin", "restoreids", "reload", "unswitch",
                    "switchempty", "swapbin", "swapids", "empty", "log", "bin", "ids", "meta",
                    "unlog", "unswitch">>
  <2>1. s \in Seq(StepName) /\ t \in Seq(StepName) /\ u \in Seq(StepName)
    BY DEF StepName
  <2>2. /\ Len(u) = Len(s) + Len(t) /\ \A i \in 1 .. Len(s) : u[i] = s[i]
        /\ \A i \in 1 .. Len(t) : u[Len(s) + i] = t[i]
    OBVIOUS
  <2> HIDE DEF s, t, u
  <2>3. s \o t = u
    BY <2>1, <2>2, Concatenates, Zenon
  <2> QED BY <2>3 DEF s, t, u
<1>11. <<"cutbin", "cutids", "unlog", "restorebin", "restoreids", "reload", "unswitch",
       "switchempty", "swapbin", "swapids", "empty", "log", "bin", "ids", "meta",
       "unlog", "unswitch">>
     \o <<"unmeta">>
   = <<"cutbin", "cutids", "unlog", "restorebin", "restoreids", "reload", "unswitch",
       "switchempty", "swapbin", "swapids", "empty", "log", "bin", "ids", "meta",
       "unlog", "unswitch", "unmeta">>
  <2> DEFINE s == <<"cutbin", "cutids", "unlog", "restorebin", "restoreids", "reload", "unswitch",
                   "switchempty", "swapbin", "swapids", "empty", "log", "bin", "ids", "meta",
                   "unlog", "unswitch">>
             t == <<"unmeta">>
             u == <<"cutbin", "cutids", "unlog", "restorebin", "restoreids", "reload", "unswitch",
                    "switchempty", "swapbin", "swapids", "empty", "log", "bin", "ids", "meta",
                    "unlog", "unswitch", "unmeta">>
  <2>1. s \in Seq(StepName) /\ t \in Seq(StepName) /\ u \in Seq(StepName)
    BY DEF StepName
  <2>2. /\ Len(u) = Len(s) + Len(t) /\ \A i \in 1 .. Len(s) : u[i] = s[i]
        /\ \A i \in 1 .. Len(t) : u[Len(s) + i] = t[i]
    OBVIOUS
  <2> HIDE DEF s, t, u
  <2>3. s \o t = u
    BY <2>1, <2>2, Concatenates, Zenon
  <2> QED BY <2>3 DEF s, t, u
<1>12. FlushSteps = Body("flush") /\ RollbackSteps = Body("rollback")
  BY DEF FlushSteps, RollbackSteps, Body
<1>13. FlushSteps \o <<"revive">> = Body("revive") /\ FlushSteps \o <<"warm">> = Body("train")
  BY <1>1, <1>2 DEF FlushSteps, Body
<1>14. SaveSteps = <<"log", "bin", "ids", "meta", "unlog", "unswitch">> /\ SaveSteps = Body("save")
  BY <1>3 DEF SaveSteps, FlushSteps, Body
<1>15. LoadSteps = Body("load")
  BY <1>7, <1>8 DEF LoadSteps, CutSteps, UndoSwitchSteps, Body
<1>16. CompactSteps = Body("compact")
  BY <1>14, <1>4, <1>5, <1>6 DEF CompactSteps, UndoSwitchSteps, Body
<1>17. ClearSteps = Body("clear")
  BY <1>14, <1>7, <1>9, <1>10, <1>11 DEF ClearSteps, CutSteps, UndoSwitchSteps, Body
<1> QED BY <1>12, <1>13, <1>14, <1>15, <1>16, <1>17

\* Every script ends where a call may begin.
LEMMA LastRegion ==
    ASSUME NEW c \in CallName
    PROVE  Region(c)[Len(Body(c)) + 1] = IF c = "off" THEN "down" ELSE "steady"
<1>1. CASE c = "idle"
  BY <1>1 DEF Body, Region
<1>2. CASE c = "off"
  BY <1>2 DEF Body, Region
<1>3. CASE c = "flush"
  BY <1>3 DEF Body, Region
<1>4. CASE c = "revive"
  BY <1>4 DEF Body, Region
<1>5. CASE c = "train"
  BY <1>5 DEF Body, Region
<1>6. CASE c = "save"
  BY <1>6 DEF Body, Region
<1>7. CASE c = "compact"
  BY <1>7 DEF Body, Region
<1>8. CASE c = "load"
  BY <1>8 DEF Body, Region
<1>9. CASE c = "clear"
  BY <1>9 DEF Body, Region
<1>10. CASE c = "blank"
  BY <1>10 DEF Body, Region
<1>11. CASE c = "rollback"
  BY <1>11 DEF Body, Region
<1> QED BY <1>1, <1>2, <1>3, <1>4, <1>5, <1>6, <1>7, <1>8, <1>9, <1>10, <1>11 DEF CallName

Waiting ==
    /\ Steady /\ Restorable(disk)
    /\ Marked => MarkKept(disk, mem.mark) /\ disk.meta.exists /\ disk.meta.rows >= mem.mark.rows

\* Between two calls a pool that is open has nothing half done, and one that is not
\* can be loaded.
LEMMA Between ==
    ASSUME IInv, todo = <<>>
    PROVE  /\ mem.mode = "up" => Waiting
           /\ mem.mode # "up" => Down /\ Restorable(disk)
<1>1. PICK c \in CallName : \E k \in 1 .. Len(Body(c)) + 1 : Stage(c, k)
  BY DEF IInv
<1>2. PICK k \in 1 .. Len(Body(c)) + 1 : Stage(c, k)
  BY <1>1
<1>3. k = Len(Body(c)) + 1
  BY <1>2, NothingLeft DEF Stage
<1>4. Is(IF c = "off" THEN "down" ELSE "steady") /\ Sound(c, IF c = "off" THEN "down" ELSE "steady")
  BY <1>2, <1>3, LastRegion DEF Stage
<1>5. CASE c = "off"
  BY <1>4, <1>5 DEF Is, Sound, Rolling, Down
<1>6. CASE c # "off"
  BY <1>4, <1>6 DEF Is, Sound, Rolling, Steady, Up, Waiting
<1> QED BY <1>5, <1>6

\* Where the scripts begin.
LEMMA FirstRegion ==
    /\ \A c \in {"idle", "flush", "revive", "train", "save", "compact"} : Region(c)[1] = "steady"
    /\ Region("off")[1] = "down" /\ Region("load")[1] = "cutting" /\ Region("clear")[1] = "clearing"
    /\ Region("rollback")[1] = "back1" /\ Region("blank")[1] = "blank"
BY DEF Region

\* A call whose first step finds things as they are between calls.
LEMMA Starts ==
    ASSUME NEW c \in {"idle", "flush", "revive", "train", "save", "compact"}, todo' = Body(c), TypeOK',
           Waiting', c = "compact" => ~Marked',
           c = "revive" => mem'.revive \subseteq mem'.known \cap mem'.deleted
    PROVE  IInv'
<1>1. c \in CallName /\ Region(c)[1] = "steady"
  BY FirstRegion DEF CallName
<1>2. 1 \in 1 .. Len(Body(c)) + 1 /\ Here(c, 1)'
  <2>1. Body(c) \in Seq(StepName) /\ Len(Body(c)) \in Nat
    BY <1>1, BodyIs
  <2> QED BY <2>1, <1>1 DEF Here
<1>3. Is(Region(c)[1])'
  BY <1>1 DEF Is, Waiting
<1>4. Sound(c, Region(c)[1])'
  BY <1>1 DEF Sound, Rolling, Waiting, Markers
<1> QED BY <1>1, <1>2, <1>3, <1>4 DEF IInv, Stage

\* The others.
LEMMA StartsAt ==
    ASSUME NEW c \in {"load", "clear", "rollback", "blank"}, todo' = Body(c), TypeOK',
           Is(Region(c)[1])', Sound(c, Region(c)[1])'
    PROVE  IInv'
<1>1. c \in CallName
  BY DEF CallName
<1>2. 1 \in 1 .. Len(Body(c)) + 1 /\ Here(c, 1)'
  <2>1. Body(c) \in Seq(StepName) /\ Len(Body(c)) \in Nat
    BY <1>1, BodyIs
  <2> QED BY <2>1, <1>1 DEF Here
<1> QED BY <1>1, <1>2 DEF IInv, Stage

\* add(): what is buffered is new and occurs once.
LEMMA AddKeeps ==
    ASSUME IInv, NEW S \in SUBSET Id, Add(S)
    PROVE  IInv'
<1> DEFINE fresh == S \ mem.known
           list == SetToSeq(fresh)
           buffer == mem.buffer \o list
<1>1. TypeOK /\ Files(disk) /\ Fields(mem) /\ Waiting
  BY Typed, Between DEF IInv, Add, Call
<1>2. /\ mem' = [mem EXCEPT !.known = mem.known \cup fresh, !.buffer = buffer] /\ disk' = disk
      /\ ops' \in 0 .. MaxOps /\ faults' = faults /\ todo' \in {FlushSteps, <<>>}
  BY <1>1, ParametersAssumption DEF Add, Call, TypeOK
<1>3. list \in Seq(Id) /\ Distinct(list) /\ Range(list) = fresh
  BY Listed, ParametersAssumption
<1>4. buffer \in Seq(Id) /\ Range(buffer) = Range(mem.buffer) \cup fresh
  <2> HIDE DEF list
  <2> QED BY <1>1, <1>3, Joined DEF Fields
<1>5. Distinct(buffer)
  <2>1. Range(mem.buffer) \subseteq mem.known /\ Distinct(mem.buffer)
    BY <1>1 DEF Waiting, Steady, Good, Members
  <2>2. Range(mem.buffer) \cap Range(list) = {}
    BY <1>3, <2>1
  <2> HIDE DEF list
  <2> QED BY <1>1, <1>3, <2>1, <2>2, DistinctJoined DEF Fields
<1>6. fresh \in SUBSET Id /\ fresh \cap mem.known = {}
  OBVIOUS
<1> HIDE DEF buffer, fresh
<1>7. /\ mem'.known = mem.known \cup fresh /\ mem'.buffer = buffer /\ mem'.mode = mem.mode
      /\ mem'.deleted = mem.deleted /\ mem'.trained = mem.trained /\ mem'.index = mem.index
      /\ mem'.fallback = mem.fallback /\ mem'.mark = mem.mark
  BY <1>1, <1>2 DEF TypeOK
<1>8. TypeOK'
  BY <1>1, <1>2, <1>4, <1>6 DEF TypeOK
<1>9. Good'
  <2>1. Members(disk.ids, mem')
    BY <1>1, <1>4, <1>5, <1>6, <1>7 DEF Waiting, Steady, Good, Members
  <2>2. Indexed(disk.ids, mem')
    BY <1>1, <1>7 DEF Waiting, Steady, Good, Indexed
  <2> QED BY <1>2, <2>1, <2>2 DEF Good
<1>10. Waiting'
  BY <1>1, <1>2, <1>7, <1>9 DEF Waiting, Steady, Up, NoSwitch, Paired, Target, Marked
<1>11. \E c \in {"flush", "idle"} : todo' = Body(c)
  BY <1>2, Scripts DEF Body
<1> QED BY <1>8, <1>10, <1>11, Starts

\* delete(): tombstones leave the indexes.
LEMMA DeleteKeeps ==
    ASSUME IInv, NEW S \in SUBSET Id, Delete(S)
    PROVE  IInv'
<1> DEFINE deleted == mem.deleted \cup (S \cap mem.known)
<1>1. TypeOK /\ Files(disk) /\ Fields(mem) /\ Waiting
  BY Typed, Between DEF IInv, Delete, Call
<1>2. /\ mem' = [mem EXCEPT !.deleted = deleted, !.index = mem.index \ deleted, !.fallback = mem.fallback \ deleted]
      /\ disk' = disk /\ ops' \in 0 .. MaxOps /\ faults' = faults
      /\ (todo' = CompactSteps /\ ~Marked) \/ todo' = <<>>
  BY <1>1, ParametersAssumption DEF Delete, Call, TypeOK, NeedsCompaction
<1>3. deleted \in SUBSET Id /\ deleted \subseteq mem.known /\ mem.deleted \subseteq deleted
  BY <1>1 DEF Fields, Waiting, Steady, Good, Members
<1> HIDE DEF deleted
<1>4. /\ mem'.deleted = deleted /\ mem'.index = mem.index \ deleted /\ mem'.fallback = mem.fallback \ deleted
      /\ mem'.known = mem.known /\ mem'.buffer = mem.buffer /\ mem'.mode = mem.mode
      /\ mem'.trained = mem.trained /\ mem'.mark = mem.mark
  BY <1>1, <1>2 DEF TypeOK
<1>5. TypeOK'
  BY <1>1, <1>2, <1>3 DEF TypeOK
<1>6. Good'
  <2>1. Members(disk.ids, mem')
    BY <1>1, <1>3, <1>4 DEF Waiting, Steady, Good, Members
  <2>2. Indexed(disk.ids, mem')
    BY <1>1, <1>3, <1>4 DEF Waiting, Steady, Good, Indexed
  <2> QED BY <1>2, <2>1, <2>2 DEF Good
<1>7. Waiting'
  BY <1>1, <1>2, <1>4, <1>6 DEF Waiting, Steady, Up, NoSwitch, Paired, Target, Marked
<1>8. \/ todo' = Body("compact") /\ ~Marked'
      \/ todo' = Body("idle")
  BY <1>2, <1>4, Scripts DEF Body, Marked
<1> QED BY <1>5, <1>7, <1>8, Starts

\* restore() chooses a member with a tombstone.
LEMMA RestoreKeeps ==
    ASSUME IInv, NEW i \in Id, Restore(i)
    PROVE  IInv'
<1>1. TypeOK /\ Waiting
  BY Between DEF IInv, Restore, Call
<1>2. /\ mem' = [mem EXCEPT !.revive = {i}] /\ disk' = disk /\ ops' \in 0 .. MaxOps /\ faults' = faults
      /\ todo' = Body("revive") /\ i \in mem.known \cap mem.deleted
  <2>1. todo' = Body("revive") /\ i \in mem.known \cap mem.deleted
    BY Scripts DEF Restore
  <2>2. mem' = [mem EXCEPT !.revive = {i}] /\ disk' = disk
    BY DEF Restore
  <2>3. ops' \in 0 .. MaxOps /\ faults' = faults
    BY <1>1, ParametersAssumption DEF Restore, Call, TypeOK
  <2> QED BY <2>1, <2>2, <2>3
<1>3. /\ mem'.revive = {i} /\ mem'.deleted = mem.deleted /\ mem'.index = mem.index /\ mem'.fallback = mem.fallback
      /\ mem'.known = mem.known /\ mem'.buffer = mem.buffer /\ mem'.mode = mem.mode
      /\ mem'.trained = mem.trained /\ mem'.mark = mem.mark
  BY <1>1, <1>2 DEF TypeOK
<1>4. TypeOK'
  BY <1>1, <1>2 DEF TypeOK
<1>5. Good'
  BY <1>1, <1>2, <1>3 DEF Waiting, Steady, Good, Members, Indexed
<1>6. Waiting'
  BY <1>1, <1>2, <1>3, <1>5 DEF Waiting, Steady, Up, NoSwitch, Paired, Target, Marked
<1> QED BY <1>2, <1>3, <1>4, <1>6, Starts

\* Save, search, train and compact change nothing before their first step.
LEMMA StartKeeps ==
    ASSUME IInv, NEW c \in {"flush", "train", "save", "compact"}, Start(Body(c)), mem' = mem,
           c = "compact" => ~Marked
    PROVE  IInv'
<1>1. TypeOK /\ Waiting
  BY Between DEF IInv, Start, Call
<1>2. disk' = disk /\ ops' \in 0 .. MaxOps /\ faults' = faults /\ todo' = Body(c)
  BY <1>1, ParametersAssumption DEF Start, Call, TypeOK
<1>3. TypeOK'
  BY <1>1, <1>2 DEF TypeOK
<1>4. Waiting'
  BY <1>1, <1>2 DEF Waiting, Steady, Up, NoSwitch, Paired, Good, Target, Marked
<1> QED BY <1>2, <1>3, <1>4, Starts DEF Marked

\* warmup_index().
LEMMA TrainKeeps ==
    ASSUME IInv, Train
    PROVE  IInv'
<1>1. Start(Body("train")) /\ mem' = mem
  BY Scripts DEF Train, Start
<1> QED BY <1>1, StartKeeps

\* clear(): what is buffered is dropped first.
LEMMA ClearKeeps ==
    ASSUME IInv, Clear
    PROVE  IInv'
<1>1. TypeOK /\ Waiting
  BY Between DEF IInv, Clear, Start, Call
<1>2. /\ mem' = [mem EXCEPT !.buffer = <<>>] /\ disk' = disk /\ ops' \in 0 .. MaxOps /\ faults' = faults
      /\ todo' = Body("clear") /\ ~Marked
  BY <1>1, ParametersAssumption, Scripts DEF Clear, Start, Call, TypeOK
<1>3. mem'.buffer = <<>> /\ mem'.mode = mem.mode /\ mem'.mark = mem.mark
  BY <1>1, <1>2 DEF TypeOK
<1>4. TypeOK'
  BY <1>1, <1>2, EmptyIs DEF TypeOK
<1>5. Is("clearing")'
  BY <1>1, <1>2, <1>3 DEF Is, Waiting, Steady, Up, NoSwitch, Empties
<1>6. Sound("clear", "clearing")'
  BY <1>1, <1>2, <1>3 DEF Sound, Waiting, Marked
<1> QED BY <1>2, <1>4, <1>5, <1>6, FirstRegion, StartsAt

\* A checkpoint opens on files and members that are saved.
LEMMA BeginCheckpointKeeps ==
    ASSUME IInv, BeginCheckpoint
    PROVE  IInv'
<1> DEFINE mark == [rows |-> Len(disk.bin), meta |-> disk.meta]
<1>1. TypeOK /\ Files(disk) /\ Waiting
  BY Typed, Between DEF IInv, BeginCheckpoint, Call
<1>2. /\ mem' = [mem EXCEPT !.mark = mark] /\ disk' = disk /\ ops' \in 0 .. MaxOps /\ faults' = faults
      /\ todo' = Body("idle") /\ ~Appending(disk) /\ ~Switching(disk) /\ disk.meta.exists
      /\ disk.meta.rows = Len(disk.bin)
  BY <1>1, ParametersAssumption DEF BeginCheckpoint, Call, TypeOK, Body
<1>3. disk.bin = disk.ids /\ Describes(disk.meta, disk.ids) /\ disk.meta.deleted \subseteq disk.meta.known
  BY <1>1, <1>2 DEF Waiting, Restorable, Unsaved, Halfway
<1>4. mark.rows = Len(disk.bin) /\ mark.meta = disk.meta /\ mark \in [rows : Nat, meta : Meta]
  BY <1>1 DEF Files
<1>5. MarkKept(disk, mark)
  <2>1. Prefix(disk.ids, Len(disk.ids)) = disk.ids /\ Len(disk.ids) \in Nat
    BY <1>1, PrefixIs DEF Files
  <2> HIDE DEF mark
  <2> QED BY <1>2, <1>3, <1>4, <2>1 DEF MarkKept
<1> HIDE DEF mark
<1>6. /\ mem'.mark = mark /\ mem'.deleted = mem.deleted /\ mem'.index = mem.index /\ mem'.fallback = mem.fallback
      /\ mem'.known = mem.known /\ mem'.buffer = mem.buffer /\ mem'.mode = mem.mode /\ mem'.trained = mem.trained
  BY <1>1, <1>2 DEF TypeOK
<1>7. TypeOK'
  BY <1>1, <1>2, <1>4 DEF TypeOK
<1>8. Good'
  BY <1>1, <1>2, <1>6 DEF Waiting, Steady, Good, Members, Indexed
<1>9. disk.meta.rows >= mark.rows
  BY <1>1, <1>2, <1>4 DEF Files
<1>10. Waiting'
  BY <1>1, <1>2, <1>5, <1>6, <1>8, <1>9 DEF Waiting, Steady, Up, NoSwitch, Paired, Target, Marked
<1> QED BY <1>2, <1>7, <1>10, Starts

\* A checkpoint is committed.
LEMMA CommitCheckpointKeeps ==
    ASSUME IInv, CommitCheckpoint
    PROVE  IInv'
<1>1. TypeOK /\ Waiting
  BY Between DEF IInv, CommitCheckpoint, Call
<1>2. /\ mem' = [mem EXCEPT !.mark = NoMark] /\ disk' = disk /\ ops' \in 0 .. MaxOps /\ faults' = faults
      /\ todo' = Body("idle")
  BY <1>1, ParametersAssumption DEF CommitCheckpoint, Call, TypeOK, Body
<1>3. /\ mem'.mark = NoMark /\ mem'.deleted = mem.deleted /\ mem'.index = mem.index /\ mem'.fallback = mem.fallback
      /\ mem'.known = mem.known /\ mem'.buffer = mem.buffer /\ mem'.mode = mem.mode /\ mem'.trained = mem.trained
  BY <1>1, <1>2 DEF TypeOK
<1>4. TypeOK'
  BY <1>1, <1>2, Records DEF TypeOK, NoMark
<1>5. Good'
  BY <1>1, <1>2, <1>3 DEF Waiting, Steady, Good, Members, Indexed
<1>6. Waiting'
  BY <1>1, <1>2, <1>3, <1>5 DEF Waiting, Steady, Up, NoSwitch, Paired, Target, Marked
<1> QED BY <1>2, <1>4, <1>6, Starts

\* A roll-back begins.
LEMMA RollbackCheckpointKeeps ==
    ASSUME IInv, RollbackCheckpoint
    PROVE  IInv'
<1>1. TypeOK /\ Waiting
  BY Between DEF IInv, RollbackCheckpoint, Call
<1>2. /\ mem' = mem /\ disk' = disk /\ ops' \in 0 .. MaxOps /\ faults' = faults
      /\ todo' = Body("rollback") /\ Marked
  BY <1>1, ParametersAssumption, Scripts DEF RollbackCheckpoint, Call, TypeOK
<1>3. TypeOK'
  BY <1>1, <1>2 DEF TypeOK
<1>4. Is("back1") /\ Sound("rollback", "back1")
  BY <1>1, <1>2 DEF Is, Sound, Waiting, Markers
<1>5. Is("back1")' /\ Sound("rollback", "back1")'
  BY <1>2, <1>4, Same DEF Sound, Marked
<1> QED BY <1>2, <1>3, <1>5, FirstRegion, StartsAt

\* load() begins.
LEMMA LoadKeeps ==
    ASSUME IInv, Load
    PROVE  IInv'
<1>1. TypeOK /\ Down /\ Restorable(disk)
  BY Between DEF IInv, Load
<1>2. mem' = mem /\ disk' = disk /\ Stay /\ todo' = Body("load")
  BY <1>1, Scripts DEF Load, Stay
<1>3. TypeOK'
  BY <1>1, <1>2 DEF TypeOK, Stay
<1>4. Is("cutting")
  BY <1>1 DEF Is
<1>5. Is("cutting")' /\ Sound("load", "cutting")'
  BY <1>1, <1>2, <1>4, Same DEF Sound, Down, Marked
<1> QED BY <1>2, <1>3, <1>5, FirstRegion, StartsAt

-----------------------------------------------------------------------------
(* Faults. *)

\* A roll-back that is under way is one whose last step is ahead.
LEMMA RollingIs ==
    ASSUME NEW c \in CallName, NEW k \in 1 .. Len(Body(c)) + 1, Rolling(Region(c)[k])
    PROVE  c = "rollback" /\ k \in 1 .. Len(Body(c))
<1>1. Len(Body(c)) \in Nat
  BY BodyIs
<1>2. k # Len(Body(c)) + 1
  BY LastRegion DEF Rolling
<1>3. k \in 1 .. Len(Body(c))
  BY <1>1, <1>2
<1>4. Goes(c, Body(c)[k], Region(c)[k], Region(c)[k + 1])
  BY <1>3, Table
<1> QED BY <1>3, <1>4 DEF Goes, Rolling

\* Without that step ahead no roll-back is under way, and what is on disk can be
\* restored.
LEMMA RollingAhead ==
    ASSUME NEW c \in CallName, NEW k \in 1 .. Len(Body(c)) + 1, Here(c, k), "rbload" \notin Range(todo)
    PROVE  ~Rolling(Region(c)[k])
<1> SUFFICES ASSUME Rolling(Region(c)[k]) PROVE FALSE
  OBVIOUS
<1>1. c = "rollback" /\ k \in 1 .. Len(Body(c))
  BY RollingIs
<1>2. todo # <<>>
  BY <1>1, NothingLeft, BodyIs
<1> QED BY <1>1, <1>2, Ahead

\* The rows a dying process may leave behind are behind those that were saved.
LEMMA CrashKeeps ==
    ASSUME IInv, FaultsIn = {}, Crash
    PROVE  IInv'
<1>1. PICK c \in CallName : \E k \in 1 .. Len(Body(c)) + 1 : Stage(c, k)
  BY DEF IInv
<1>2. PICK k \in 1 .. Len(Body(c)) + 1 : Stage(c, k)
  BY <1>1
<1>3. TypeOK /\ Files(disk) /\ Fields(mem) /\ Here(c, k) /\ Is(Region(c)[k]) /\ Sound(c, Region(c)[k])
  BY <1>2, Typed DEF IInv, Stage
<1>4. PICK n \in 0 .. Len(mem.buffer) :
        disk' = IF At("bin") THEN [disk EXCEPT !.bin = @ \o Prefix(mem.buffer, n)]
                ELSE IF At("ids") THEN [disk EXCEPT !.ids = @ \o Prefix(mem.buffer, n)]
                ELSE disk
  BY DEF Crash
<1>5. /\ mem' = Fresh /\ todo' = <<>> /\ ops' = ops /\ faults' = faults + 1 /\ faults < MaxFaults
      /\ "rbload" \notin Range(todo)
  BY DEF Crash, Fault, CrashPlaces
<1>6. Restorable(disk)
  BY <1>3, <1>5, RollingAhead DEF Sound
<1> DEFINE s == Prefix(mem.buffer, n)
<1>7. s \in Seq(Id) /\ Len(s) = n /\ n \in Nat /\ n <= Len(mem.buffer) /\ (mem.buffer = <<>> => s = <<>>)
  <2>1. s \in Seq(Id) /\ Len(s) = n
    BY <1>3, PrefixIs DEF Fields
  <2>2. n \in Nat /\ n <= Len(mem.buffer)
    BY <1>3 DEF Fields
  <2>3. mem.buffer = <<>> => n = 0
    BY <1>3, <2>2, EmptyIs
  <2> HIDE DEF s
  <2> QED BY <2>1, <2>2, <2>3, LenZero
<1> HIDE DEF s
<1>8. Restorable(disk') /\ disk' \in [bin : Seq(Id), ids : Seq(Id), append : Journal, switch : Journal,
                                       backup : [bin : Seq(Id), ids : Seq(Id)], meta : Meta]
  <2>1. CASE ~At("bin") /\ ~At("ids")
    BY <1>3, <1>4, <1>6, <2>1 DEF TypeOK
  <2>2. CASE At("bin")
    <3>1. Goes(c, "bin", Region(c)[k], Region(c)[k + 1])
      BY <1>3, <2>2, Places
    <3>2. \/ Logged
          \/ NoLog /\ Empties
      BY <1>3, <3>1 DEF Goes, Is, New, Swap
    <3>3. /\ disk'.bin = disk.bin \o s /\ disk'.ids = disk.ids /\ disk'.append = disk.append
          /\ disk'.switch = disk.switch /\ disk'.backup = disk.backup /\ disk'.meta = disk.meta
      BY <1>3, <1>4, <2>2 DEF TypeOK, s
    <3>4. disk'.bin \in Seq(Id) /\ disk'.ids = disk.ids \o <<>> /\ <<>> \in Seq(Id) /\ Len(<<>>) = 0
      BY <1>3, <1>7, <3>3, Joined, EmptyIs DEF Files
    <3>5. ~Unsaved(disk) => s = <<>>
      BY <1>7, <3>2 DEF Logged, Empties
    <3>6. ASSUME Unsaved(disk)
          PROVE  /\ Len(disk.bin) + Len(s) <= disk.append.target /\ Len(disk.ids) + Len(<<>>) <= disk.append.target
      <4>1. disk.append.target = Len(disk.bin) + Len(mem.buffer) /\ Len(disk.ids) = Len(disk.bin)
        BY <3>2, <3>6 DEF Logged, NoLog, Unsaved, Appending, Target, Paired
      <4> QED BY <1>3, <1>7, <3>4, <4>1 DEF Files, Fields
    <3>7. Restorable(disk')
      BY <1>3, <1>6, <1>7, <3>3, <3>4, <3>5, <3>6, Grows
    <3>8. disk' = [disk EXCEPT !.bin = disk.bin \o s]
      BY <1>4, <2>2 DEF s
    <3> QED BY <1>3, <3>3, <3>4, <3>7, <3>8 DEF TypeOK
  <2>3. CASE ~At("bin") /\ At("ids")
    <3>1. Goes(c, "ids", Region(c)[k], Region(c)[k + 1])
      BY <1>3, <2>3, Places
    <3>2. \/ Half
          \/ NoLog /\ Empties
      BY <1>3, <3>1 DEF Goes, Is, New, Swap
    <3>3. /\ disk'.ids = disk.ids \o s /\ disk'.bin = disk.bin /\ disk'.append = disk.append
          /\ disk'.switch = disk.switch /\ disk'.backup = disk.backup /\ disk'.meta = disk.meta
      BY <1>3, <1>4, <2>3 DEF TypeOK, s
    <3>4. disk'.ids \in Seq(Id) /\ disk'.bin = disk.bin \o <<>> /\ <<>> \in Seq(Id) /\ Len(<<>>) = 0
      BY <1>3, <1>7, <3>3, Joined, EmptyIs DEF Files
    <3>5. ~Unsaved(disk) => s = <<>>
      BY <1>7, <3>2 DEF Half, Empties
    <3>6. ASSUME Unsaved(disk)
          PROVE  /\ Len(disk.bin) + Len(<<>>) <= disk.append.target /\ Len(disk.ids) + Len(s) <= disk.append.target
      <4>1. Half /\ disk.append.target = Len(disk.bin)
        BY <3>2, <3>6 DEF Half, NoLog, Unsaved, Appending, Target
      <4>2. Len(disk.bin) = Len(disk.ids) + Len(mem.buffer)
        BY <1>3, <4>1, Joined DEF Half, Files, Fields
      <4> QED BY <1>3, <1>7, <3>4, <4>1, <4>2 DEF Files, Fields
    <3>7. Restorable(disk')
      BY <1>3, <1>6, <1>7, <3>3, <3>4, <3>5, <3>6, Grows
    <3>8. disk' = [disk EXCEPT !.ids = disk.ids \o s]
      BY <1>4, <2>3 DEF s
    <3> QED BY <1>3, <3>3, <3>4, <3>7, <3>8 DEF TypeOK
  <2> QED BY <2>1, <2>2, <2>3
<1>9. /\ Fresh \in [mode : {"down", "up", "refused", "broken"}, known : SUBSET Id, deleted : SUBSET Id,
                    buffer : Seq(Id), trained : BOOLEAN, index : SUBSET Id, fallback : SUBSET Id,
                    revive : SUBSET Id, mark : [rows : Nat, meta : Meta]]
      /\ Fresh.mode = "down" /\ Fresh.mark = NoMark /\ Fresh.buffer = <<>>
  BY Records, EmptyIs DEF Fresh, NoMark
<1>10. TypeOK'
  BY <1>3, <1>5, <1>8, <1>9, ParametersAssumption DEF TypeOK
<1>11. Down' /\ ~Marked'
  BY <1>5, <1>9 DEF Down, Marked
<1> QED BY <1>5, <1>8, <1>10, <1>11, Ends DEF Raise

\* An append that raises takes back its own rows, and no others.
LEMMA AppendRaisesKeeps ==
    ASSUME IInv, FaultsIn = {}, AppendRaises
    PROVE  IInv'
<1>1. PICK c \in CallName : \E k \in 1 .. Len(Body(c)) + 1 : Stage(c, k)
  BY DEF IInv
<1>2. PICK k \in 1 .. Len(Body(c)) + 1 : Stage(c, k)
  BY <1>1
<1>3. TypeOK /\ Files(disk) /\ Fields(mem) /\ Here(c, k) /\ Is(Region(c)[k]) /\ Sound(c, Region(c)[k])
  BY <1>2, Typed DEF IInv, Stage
<1> DEFINE before == disk.append.target - Len(mem.buffer)
           log == IF before = disk.append.base THEN NoJournal ELSE [disk.append EXCEPT !.target = before]
<1>4. /\ disk' = [disk EXCEPT !.bin = Prefix(disk.bin, before), !.ids = Prefix(disk.ids, before), !.append = log]
      /\ mem' = mem /\ Raise /\ ops' = ops /\ faults' = faults + 1 /\ faults < MaxFaults
      /\ mem.buffer # <<>>
      /\ At("bin") \/ At("ids")
  BY DEF AppendRaises, Fault
<1>5. "rbload" \notin Range(todo)
  BY DEF AppendRaises, Fault, ExceptionPlaces, CrashPlaces
<1>6. (Logged \/ Half) /\ Restorable(disk)
  <2>1. (Logged \/ Half) /\ ~Rolling(Region(c)[k])
    <3>1. At("bin") => Goes(c, "bin", Region(c)[k], Region(c)[k + 1])
      BY <1>3, Places
    <3>2. At("ids") => Goes(c, "ids", Region(c)[k], Region(c)[k + 1])
      BY <1>3, Places
    <3>3. At("bin") \/ At("ids")
      BY DEF AppendRaises
    <3>4. mem.buffer # <<>>
      BY DEF AppendRaises
    <3>5. ~Is("new") /\ ~Is("void")
      BY <3>4 DEF Is, New, Swap, Empties
    <3>6. Region(c)[k] \in {"logged", "half"}
      BY <1>3, <3>1, <3>2, <3>3, <3>5 DEF Goes
    <3> QED BY <1>3, <3>6 DEF Is, Rolling
  <2> QED BY <1>3, <2>1 DEF Sound
<1>7. /\ Up /\ NoSwitch /\ Good /\ Unsaved(disk) /\ CutOk(disk)
      /\ disk.append.base \in Nat /\ disk.append.target \in Nat
  BY <1>3, <1>4, <1>6, Records DEF Logged, Half, Empties, Restorable, Files, AppendRaises
<1>8. before = Len(disk.ids) /\ Prefix(disk.bin, before) = disk.ids /\ Prefix(disk.ids, before) = disk.ids
  <2>1. Prefix(disk.ids, Len(disk.ids)) = disk.ids
    BY <1>3, PrefixIs DEF Files
  <2>2. CASE Logged
    <3>1. disk.bin = disk.ids /\ disk.append.target = Len(disk.bin) + Len(mem.buffer)
      BY <1>7, <2>2 DEF Logged, Paired, Target, Unsaved
    <3>2. before = Len(disk.ids)
      BY <1>3, <3>1 DEF Files, Fields
    <3> QED BY <2>1, <3>1, <3>2
  <2>3. CASE Half
    <3>1. disk.bin = disk.ids \o mem.buffer /\ disk.append.target = Len(disk.bin)
      BY <1>7, <2>3 DEF Half, Target, Unsaved
    <3>2. Len(disk.bin) = Len(disk.ids) + Len(mem.buffer) /\ Prefix(disk.bin, Len(disk.ids)) = Prefix(disk.ids, Len(disk.ids))
      <4>1. Len(disk.ids) \in 0 .. Len(disk.ids)
        BY <1>3 DEF Files
      <4> QED BY <1>3, <3>1, <4>1, Joined DEF Files, Fields
    <3>3. before = Len(disk.ids)
      BY <1>3, <3>1, <3>2 DEF Files, Fields
    <3> QED BY <2>1, <3>2, <3>3
  <2> QED BY <1>6, <2>2, <2>3
<1>9. /\ log \in Journal /\ (before = disk.append.base => log = NoJournal)
      /\ before # disk.append.base =>
           log.base = disk.append.base /\ log.tx = disk.append.tx /\ log.target = before /\ log # NoJournal
  <2>1. before \in Nat
    BY <1>3, <1>8 DEF Files
  <2> HIDE DEF before
  <2>2. before # disk.append.base =>
          /\ [disk.append EXCEPT !.target = before] \in Journal
          /\ [disk.append EXCEPT !.target = before].base = disk.append.base
          /\ [disk.append EXCEPT !.target = before].tx = disk.append.tx
          /\ [disk.append EXCEPT !.target = before].target = before
    BY <1>3, <2>1 DEF Files, Journal
  <2> QED BY <2>2, Records DEF NoJournal
<1> HIDE DEF before, log
<1>10. /\ disk'.bin = disk.ids /\ disk'.ids = disk.ids /\ disk'.append = log /\ disk'.switch = disk.switch
       /\ disk'.backup = disk.backup /\ disk'.meta = disk.meta
  BY <1>3, <1>4, <1>8 DEF TypeOK
<1>11. TypeOK'
  <2>1. disk' = [disk EXCEPT !.bin = disk.ids, !.ids = disk.ids, !.append = log]
    BY <1>3, <1>4, <1>8, <1>10 DEF TypeOK
  <2>2. disk' \in [bin : Seq(Id), ids : Seq(Id), append : Journal, switch : Journal,
                   backup : [bin : Seq(Id), ids : Seq(Id)], meta : Meta]
    BY <1>3, <1>9, <2>1 DEF TypeOK, Files
  <2>3. ops' \in 0 .. MaxOps /\ faults' \in 0 .. MaxFaults
    BY <1>3, <1>4, ParametersAssumption DEF TypeOK
  <2> QED BY <1>3, <1>4, <2>2, <2>3 DEF TypeOK
<1>12. Restorable(disk')
  <2>1. ~Switching(disk') /\ ~Halfway(disk')
    BY <1>7, <1>10 DEF NoSwitch, Switching, Halfway
  <2>2. CASE before = disk.append.base
    <3>1. ~Appending(disk') /\ ~Unsaved(disk')
      BY <1>9, <1>10, <2>2 DEF Appending, Unsaved
    <3>2. Describes(disk.meta, disk.ids)
      BY <1>7, <1>8, <2>2 DEF CutOk
    <3> QED BY <1>6, <1>10, <2>1, <3>1, <3>2 DEF Restorable
  <2>3. CASE before # disk.append.base
    <3>1. Unsaved(disk') /\ ~Wrote(disk'.meta, disk'.append)
      BY <1>7, <1>9, <1>10, <2>3 DEF Unsaved, Appending, Wrote
    <3>2. disk.append.base \in 0 .. Len(disk.ids)
      BY <1>3, <1>7 DEF CutOk, Files
    <3>3. CutOk(disk')
      BY <1>3, <1>7, <1>8, <1>9, <1>10, <2>3, <3>2 DEF CutOk, Files
    <3> QED BY <1>6, <1>10, <2>1, <3>1, <3>3 DEF Restorable
  <2> QED BY <2>2, <2>3
<1>13. Steady'
  BY <1>4, <1>7, <1>8, <1>9, <1>10 DEF Steady, Up, NoSwitch, Paired, Good, Target, Appending
<1>14. Marked => MarkKept(disk', mem.mark) /\ disk.meta.exists /\ disk.meta.rows >= mem.mark.rows
  <2> SUFFICES ASSUME Marked PROVE MarkKept(disk', mem.mark) /\ disk.meta.exists /\ disk.meta.rows >= mem.mark.rows
    OBVIOUS
  <2>1. MarkKept(disk, mem.mark) /\ disk.meta.exists /\ disk.meta.rows >= mem.mark.rows
    BY <1>3, <1>5, RollingAhead DEF Sound
  <2> QED BY <1>3, <1>10, <2>1 DEF MarkKept
<1> QED BY <1>4, <1>10, <1>11, <1>12, <1>13, <1>14, Ends DEF Marked

\* Any other step that raises leaves things as they are between calls.
LEMMA StepRaisesKeeps ==
    ASSUME IInv, FaultsIn = {}, StepRaises
    PROVE  IInv'
<1>1. PICK c \in CallName : \E k \in 1 .. Len(Body(c)) + 1 : Stage(c, k)
  BY DEF IInv
<1>2. PICK k \in 1 .. Len(Body(c)) + 1 : Stage(c, k)
  BY <1>1
<1>3. TypeOK /\ Here(c, k) /\ Is(Region(c)[k]) /\ Sound(c, Region(c)[k])
  BY <1>2 DEF IInv, Stage
<1>4. ~Switching(disk) /\ "unmeta" \notin Range(todo) /\ "rbload" \notin Range(todo) /\ Up /\ todo # <<>>
  BY DEF StepRaises, Fault, ExceptionPlaces, CrashPlaces, Up
<1>5. mem' = mem /\ disk' = disk /\ Raise /\ ops' = ops /\ faults' = faults + 1 /\ faults < MaxFaults
  BY <1>4 DEF StepRaises, Fault
<1>6. ~Rolling(Region(c)[k]) /\ c \notin {"clear", "blank"}
  BY <1>3, <1>4, RollingAhead, Ahead
<1>7. Steady
  <2>1. PICK s \in {"log", "meta", "unlog", "unswitch", "switchlog", "switchempty", "swapbin", "swapids"} : At(s)
    BY <1>4 DEF StepRaises, At
  <2>2. Goes(c, s, Region(c)[k], Region(c)[k + 1])
    BY <1>3, <2>1, Places
  <2>3. Region(c)[k] \in {"steady", "flushed", "new", "saved", "switched", "cut", "clean", "undone", "swap1", "swap2"}
    BY <1>6, <2>2 DEF Goes
  <2>4. ~Is("new") /\ ~Is("swap1") /\ ~Is("swap2") /\ ~Is("cut") /\ ~Is("undone")
    BY <1>4 DEF Is, New, Swap1, Swap2, Swap, Halfway, Down, Up
  <2>5. Region(c)[k] \in {"steady", "flushed", "saved", "switched", "clean"}
    BY <1>3, <2>3, <2>4
  <2> QED BY <1>3, <1>4, <2>5
          DEF Is, Flushed, Recorded, Clean, Switched, Steady, NoSwitch, Switching, NoLog, Target, Appending
<1>8. TypeOK'
  BY <1>3, <1>5, ParametersAssumption DEF TypeOK
<1>9. Steady'
  BY <1>5, <1>7 DEF Steady, Up, NoSwitch, Paired, Good, Target
<1> QED BY <1>3, <1>5, <1>6, <1>8, <1>9, Ends DEF Sound, Marked

-----------------------------------------------------------------------------
(* Every step keeps the invariant. *)

\* A step on files, of whatever call.
LEMMA StepKeeps ==
    ASSUME IInv, Steps
    PROVE  IInv'
<1>1. PICK c \in CallName : \E k \in 1 .. Len(Body(c)) + 1 : Stage(c, k)
  BY DEF IInv
<1>2. PICK k \in 1 .. Len(Body(c)) + 1 : Stage(c, k)
  BY <1>1
<1> DEFINE a == Region(c)[k]
           b == Region(c)[k + 1]
<1>3. TypeOK /\ Here(c, k) /\ Is(a) /\ Sound(c, a)
  BY <1>2 DEF IInv, Stage
<1>4. ASSUME NEW s, At(s) PROVE Goes(c, s, a, b)
  BY <1>3, <1>4, Places
<1>5. ASSUME NEW s, At(s), Onward(c, b) PROVE IInv'
  BY <1>3, <1>5, Goes1 DEF Onward
<1> HIDE DEF a, b
<1>6. CASE LogAppend
  <2>1. At("log") /\ Goes(c, "log", a, b)
    BY <1>4, <1>6 DEF LogAppend
  <2> QED BY <1>3, <1>5, <1>6, <2>1, LogAppendKeeps
<1>7. CASE AppendBin
  <2>1. At("bin") /\ Goes(c, "bin", a, b)
    BY <1>4, <1>7 DEF AppendBin
  <2> QED BY <1>3, <1>5, <1>7, <2>1, AppendBinKeeps
<1>8. CASE AppendIds
  <2>1. At("ids") /\ Goes(c, "ids", a, b)
    BY <1>4, <1>8 DEF AppendIds
  <2> QED BY <1>3, <1>5, <1>8, <2>1, AppendIdsKeeps
<1>9. CASE Revive
  <2>1. At("revive") /\ Goes(c, "revive", a, b)
    BY <1>4, <1>9 DEF Revive
  <2> QED BY <1>3, <1>5, <1>9, <2>1, ReviveKeeps
<1>10. CASE WriteMeta
  <2>1. At("meta") /\ Goes(c, "meta", a, b)
    BY <1>4, <1>10 DEF WriteMeta
  <2> QED BY <1>3, <1>5, <1>10, <2>1, WriteMetaKeeps
<1>11. CASE UnlinkAppendJournal
  <2>1. At("unlog") /\ Goes(c, "unlog", a, b)
    BY <1>4, <1>11 DEF UnlinkAppendJournal
  <2> QED BY <1>3, <1>5, <1>11, <2>1, UnlinkAppendJournalKeeps
<1>12. CASE UnlinkSwitchJournal
  <2>1. At("unswitch") /\ Goes(c, "unswitch", a, b)
    BY <1>4, <1>12 DEF UnlinkSwitchJournal
  <2> QED BY <1>3, <1>5, <1>12, <2>1, UnlinkSwitchJournalKeeps
<1>13. CASE LogSwitch
  <2>1. At("switchlog") /\ Goes(c, "switchlog", a, b)
    BY <1>4, <1>13 DEF LogSwitch
  <2> QED BY <1>3, <1>5, <1>13, <2>1, LogSwitchKeeps
<1>14. CASE LogEmpty
  <2>1. At("switchempty") /\ Goes(c, "switchempty", a, b)
    BY <1>4, <1>14 DEF LogEmpty
  <2>2. CASE Onward(c, b)
    BY <1>5, <2>1, <2>2
  <2>3. CASE todo' = Body("blank") /\ TypeOK' /\ Is("blank")' /\ Sound("blank", "blank")'
    BY <2>3, FirstRegion, StartsAt
  <2> QED BY <1>3, <1>14, <2>1, <2>2, <2>3, LogEmptyKeeps
<1>15. CASE SwapBin
  <2>1. At("swapbin") /\ Goes(c, "swapbin", a, b)
    BY <1>4, <1>15 DEF SwapBin
  <2>2. "unmeta" \in Range(todo) <=> c = "clear"
    BY <1>3, <2>1, Ahead DEF Goes, At
  <2> QED BY <1>3, <1>5, <1>15, <2>1, <2>2, SwapBinKeeps
<1>16. CASE SwapIds
  <2>1. At("swapids") /\ Goes(c, "swapids", a, b)
    BY <1>4, <1>16 DEF SwapIds
  <2>2. "unmeta" \in Range(todo) <=> c = "clear"
    BY <1>3, <2>1, Ahead DEF Goes, At
  <2> QED BY <1>3, <1>5, <1>16, <2>1, <2>2, SwapIdsKeeps
<1>17. CASE DropDead
  <2>1. At("dropdead") /\ Goes(c, "dropdead", a, b)
    BY <1>4, <1>17 DEF DropDead
  <2> QED BY <1>3, <1>5, <1>17, <2>1, DropDeadKeeps
<1>18. CASE Empty
  <2>1. At("empty") /\ Goes(c, "empty", a, b)
    BY <1>4, <1>18 DEF Empty
  <2> QED BY <1>3, <1>5, <1>18, <2>1, EmptyKeeps
<1>19. CASE UnlinkMeta
  <2>1. At("unmeta") /\ Goes(c, "unmeta", a, b)
    BY <1>4, <1>19 DEF UnlinkMeta
  <2> QED BY <1>3, <1>5, <1>19, <2>1, UnlinkMetaKeeps
<1>20. CASE CutBin
  <2>1. At("cutbin") /\ Goes(c, "cutbin", a, b)
    BY <1>4, <1>20 DEF CutBin
  <2> QED BY <1>3, <1>5, <1>20, <2>1, CutBinKeeps
<1>21. CASE CutIds
  <2>1. At("cutids") /\ Goes(c, "cutids", a, b)
    BY <1>4, <1>21 DEF CutIds
  <2> QED BY <1>3, <1>5, <1>21, <2>1, CutIdsKeeps
<1>22. CASE RestoreBin
  <2>1. At("restorebin") /\ Goes(c, "restorebin", a, b)
    BY <1>4, <1>22 DEF RestoreBin
  <2> QED BY <1>3, <1>5, <1>22, <2>1, RestoreBinKeeps
<1>23. CASE RestoreIds
  <2>1. At("restoreids") /\ Goes(c, "restoreids", a, b)
    BY <1>4, <1>23 DEF RestoreIds
  <2> QED BY <1>3, <1>5, <1>23, <2>1, RestoreIdsKeeps
<1>24. CASE Reload
  <2>1. At("reload") /\ Goes(c, "reload", a, b)
    BY <1>4, <1>24 DEF Reload
  <2> QED BY <1>3, <1>5, <1>24, <2>1, ReloadKeeps
<1>25. CASE Adopt
  <2>1. At("adopt") /\ Goes(c, "adopt", a, b)
    BY <1>4, <1>25 DEF Adopt
  <2> QED BY <1>3, <1>5, <1>25, <2>1, AdoptKeeps
<1>26. CASE Warm
  <2>1. At("warm") /\ Goes(c, "warm", a, b)
    BY <1>4, <1>26 DEF Warm
  <2> QED BY <1>3, <1>5, <1>26, <2>1, WarmKeeps
<1>27. CASE RollbackBin
  <2>1. At("rbbin") /\ Goes(c, "rbbin", a, b)
    BY <1>4, <1>27 DEF RollbackBin
  <2> QED BY <1>3, <1>5, <1>27, <2>1, RollbackBinKeeps
<1>28. CASE RollbackIds
  <2>1. At("rbids") /\ Goes(c, "rbids", a, b)
    BY <1>4, <1>28 DEF RollbackIds
  <2> QED BY <1>3, <1>5, <1>28, <2>1, RollbackIdsKeeps
<1>29. CASE RollbackMeta
  <2>1. At("rbmeta") /\ Goes(c, "rbmeta", a, b)
    BY <1>4, <1>29 DEF RollbackMeta
  <2> QED BY <1>3, <1>5, <1>29, <2>1, RollbackMetaKeeps
<1>30. CASE RollbackLoad
  <2>1. At("rbload") /\ Goes(c, "rbload", a, b)
    BY <1>4, <1>30 DEF RollbackLoad
  <2> QED BY <1>3, <1>5, <1>30, <2>1, RollbackLoadKeeps
<1> QED
  BY <1>6, <1>7, <1>8, <1>9, <1>10, <1>11, <1>12, <1>13, <1>14, <1>15, <1>16, <1>17, <1>18, <1>19,
     <1>20, <1>21, <1>22, <1>23, <1>24, <1>25, <1>26, <1>27, <1>28, <1>29, <1>30 DEF Steps

\* A call.
LEMMA CallKeeps ==
    ASSUME IInv, Calls
    PROVE  IInv'
<1>1. ASSUME NEW S \in SUBSET Id, Add(S) PROVE IInv'
  BY <1>1, AddKeeps
<1>2. ASSUME NEW S \in SUBSET Id, Delete(S) PROVE IInv'
  BY <1>2, DeleteKeeps
<1>3. ASSUME NEW i \in Id, Restore(i) PROVE IInv'
  BY <1>3, RestoreKeeps
<1>4. CASE SaveCall
  <2>1. Start(Body("save")) /\ mem' = mem
    BY <1>4, Scripts DEF SaveCall, Start
  <2> QED BY <2>1, StartKeeps
<1>5. CASE Search
  <2>1. Start(Body("flush")) /\ mem' = mem
    BY <1>5, Scripts DEF Search, Start
  <2> QED BY <2>1, StartKeeps
<1>6. CASE RebuildIndex
  <2>1. Start(Body("compact")) /\ mem' = mem /\ ~Marked
    BY <1>6, Scripts DEF RebuildIndex, Start
  <2> QED BY <2>1, StartKeeps
<1> QED BY <1>1, <1>2, <1>3, <1>4, <1>5, <1>6, TrainKeeps, ClearKeeps, BeginCheckpointKeeps,
           CommitCheckpointKeeps, RollbackCheckpointKeeps DEF Calls

\* A new pool: no files, no members.
LEMMA BeginsRight ==
    ASSUME Init
    PROVE  IInv
<1>1. /\ disk.bin = <<>> /\ disk.ids = <<>> /\ disk.append = NoJournal /\ disk.switch = NoJournal /\ disk.meta = NoMeta
      /\ disk.backup \in [bin : Seq(Id), ids : Seq(Id)] /\ todo = <<>> /\ ops = 0 /\ faults = 0
  BY EmptyIs DEF Init
<1>2. /\ mem.mode = "up" /\ mem.known = {} /\ mem.deleted = {} /\ mem.buffer = <<>> /\ mem.trained = FALSE
      /\ mem.index = {} /\ mem.fallback = {} /\ mem.revive = {} /\ mem.mark = NoMark
  BY DEF Init, Fresh
<1>3. TypeOK
  <2>1. disk \in [bin : Seq(Id), ids : Seq(Id), append : Journal, switch : Journal,
                  backup : [bin : Seq(Id), ids : Seq(Id)], meta : Meta]
    BY EmptyIs, Records DEF Init
  <2>2. mem \in [mode : {"down", "up", "refused", "broken"}, known : SUBSET Id, deleted : SUBSET Id,
                 buffer : Seq(Id), trained : BOOLEAN, index : SUBSET Id, fallback : SUBSET Id,
                 revive : SUBSET Id, mark : [rows : Nat, meta : Meta]]
    <3>1. NoMark \in [rows : Nat, meta : Meta]
      BY Records DEF NoMark
    <3> HIDE DEF NoMark
    <3> QED BY <3>1, EmptyIs DEF Init, Fresh
  <2> QED BY <1>1, <2>1, <2>2, ParametersAssumption DEF TypeOK
<1>4. Describes(NoMeta, <<>>)
  BY EmptyIs DEF Describes, NoMeta
<1>5. Restorable(disk)
  <2>1. ~Appending(disk) /\ ~Switching(disk) /\ ~Unsaved(disk) /\ ~Halfway(disk)
    BY <1>1 DEF Appending, Switching, Unsaved, Halfway
  <2>2. NoMeta.deleted \subseteq NoMeta.known
    BY DEF NoMeta
  <2> QED BY <1>1, <1>4, <2>1, <2>2 DEF Restorable
<1>6. Good
  BY <1>1, <1>2, EmptyIs DEF Good, Members, Indexed
<1>7. Steady
  BY <1>1, <1>2, <1>6 DEF Steady, Up, NoSwitch, Paired, Target, Appending
<1>8. Here("idle", 1)
  BY <1>1, Waits
<1>9. "idle" \in CallName /\ 1 \in 1 .. Len(Body("idle")) + 1 /\ Region("idle")[1] = "steady"
  BY <1>1, Waits, FirstRegion
<1>10. Stage("idle", 1)
  BY <1>2, <1>5, <1>7, <1>8, <1>9 DEF Stage, Is, Sound, Marked
<1> QED BY <1>3, <1>9, <1>10 DEF IInv

\* A step that changes nothing.
LEMMA StutterKeeps ==
    ASSUME IInv, UNCHANGED vars
    PROVE  IInv'
<1>1. PICK c \in CallName : \E k \in 1 .. Len(Body(c)) + 1 : Stage(c, k)
  BY DEF IInv
<1>2. PICK k \in 1 .. Len(Body(c)) + 1 : Stage(c, k)
  BY <1>1
<1>3. disk' = disk /\ mem' = mem /\ todo' = todo /\ ops' = ops /\ faults' = faults
  BY DEF vars
<1>4. TypeOK'
  BY <1>3 DEF IInv, TypeOK
<1>5. Is(Region(c)[k])'
  BY <1>2, <1>3, Same DEF Stage
<1>6. Here(c, k)' /\ Sound(c, Region(c)[k])'
  BY <1>2, <1>3 DEF Stage, Here, Sound, Marked
<1> QED BY <1>4, <1>5, <1>6 DEF IInv, Stage

\* The invariant is inductive where faults strike only where the code survives them.
LEMMA Induct ==
    ASSUME FaultsIn = {}, IInv, [Next]_vars
    PROVE  IInv'
BY CallKeeps, StepKeeps, CrashKeeps, LoadKeeps, AppendRaisesKeeps, StepRaisesKeeps, StutterKeeps DEF Next

\* Wherever a call is, and whatever a crash left, the files and the fields are
\* those of the step that is next (vector_store.py).
THEOREM Invariance ==
    ASSUME FaultsIn = {}
    PROVE  Spec => []IInv
<1>1. Init => IInv
  BY BeginsRight
<1>2. IInv /\ [Next]_vars => IInv'
  BY Induct
<1> QED BY <1>1, <1>2, PTL DEF Spec

\* A pool is open or waits to be loaded.
LEMMA Opens ==
    ASSUME NEW g, Is(g)
    PROVE  mem.mode = "up" \/ mem.mode = "down"
<1>1. Nothing => mem.mode = "up"
  BY DEF Nothing, Fresh
<1> QED BY <1>1 DEF Is, Steady, Logged, Half, Flushed, Recorded, Clean, Swap, Swap1, Swap2, Swap3, New, Switched,
                    Up, Down, Warming, Back, Back4

\* load() never meets files it refuses: whatever the process was doing when it
\* died, the pool opens again (load, recover_cleanup_checkpoint).
THEOREM AlwaysLoadsHolds ==
    ASSUME FaultsIn = {}
    PROVE  Spec => []AlwaysLoads
<1>1. IInv => AlwaysLoads
  BY Opens DEF IInv, Stage, AlwaysLoads
<1> QED BY <1>1, Invariance, PTL

\* Between calls every member is one row of both files or is buffered, no row
\* belongs to anything else, and the index that search() would use holds the
\* live members that are not buffered.
THEOREM MembersAgreeHolds ==
    ASSUME FaultsIn = {}
    PROVE  Spec => []MembersAgree
<1>1. ASSUME IInv PROVE MembersAgree
  <2>1. TypeOK /\ Files(disk) /\ Fields(mem)
    BY <1>1, Typed DEF IInv
  <2>2. ASSUME mem.mode = "up", todo = <<>> PROVE disk.bin = disk.ids /\ Members(disk.ids, mem) /\ Indexed(disk.ids, mem)
    BY <1>1, <2>2, Between DEF Waiting, Steady, Paired, Good
  <2>3. RowsAreMembers
    BY <2>1, <2>2, DistinctCounts DEF RowsAreMembers, Members, Files
  <2>4. SearchSeesMembers
    <3> SUFFICES ASSUME mem.mode = "up", todo = <<>>
                 PROVE  (IF mem.trained /\ mem.index # {} THEN mem.index ELSE mem.fallback) \ mem.deleted
                          = (mem.known \ mem.deleted) \ Range(mem.buffer)
      BY DEF SearchSeesMembers, Live
    <3>1. Range(disk.ids) \ mem.deleted = (mem.known \ mem.deleted) \ Range(mem.buffer)
      BY <2>2 DEF Members
    <3>2. CASE mem.trained /\ mem.index # {}
      BY <2>2, <3>1, <3>2 DEF Indexed
    <3>3. CASE mem.trained /\ mem.index = {}
      BY <2>2, <3>1, <3>3 DEF Indexed
    <3>4. CASE ~mem.trained
      BY <2>2, <3>1, <3>4 DEF Indexed
    <3> QED BY <3>2, <3>3, <3>4
  <2> QED BY <2>1, <2>3, <2>4 DEF MembersAgree
<1> QED BY <1>1, Invariance, PTL

-----------------------------------------------------------------------------
(* The pool as a set with a saved copy. *)

Stored(d) == d.meta.known \ d.meta.deleted

\* A roll-back has begun and has not read the members back.
Returning == "rbload" \in Range(todo)

\* What load() would read back is what the metadata records.
View ==
    /\ mem.mode = "up" \/ mem.mode = "down"
    /\ ~Returning => Readable(disk) = Stored(disk)
    /\ mem.mode = "down" => ~Marked /\ ~Returning

\* load() and its recovery make of the files that were found the rows that the
\* metadata describes.
LEMMA ReadBack ==
    ASSUME Files(disk), Restorable(disk)
    PROVE  Readable(disk) = Stored(disk)
<1> DEFINE cut == [bin |-> Prefix(disk.bin, disk.append.base), ids |-> Prefix(disk.ids, disk.append.base)]
           all == [bin |-> disk.bin, ids |-> disk.ids]
<1>1. /\ (Appending(disk) /\ ~Commits(disk.meta, disk.append)) <=> Unsaved(disk)
      /\ (Switching(disk) /\ ~Commits(disk.meta, disk.switch)) <=> Halfway(disk)
  BY DEF Unsaved, Halfway, Wrote, Commits, Restorable
<1>2. /\ cut.bin = Prefix(disk.bin, disk.append.base) /\ cut.ids = Prefix(disk.ids, disk.append.base)
      /\ all.bin = disk.bin /\ all.ids = disk.ids
  OBVIOUS
<1>3. /\ Unsaved(disk) => CutPair(disk) = {cut}
      /\ ~Unsaved(disk) => CutPair(disk) = {all}
  BY <1>1 DEF CutPair, Restorable, CutOk
<1> HIDE DEF cut, all
<1>4. \E p : RecoveredPair(disk) = {p} /\ p.bin = p.ids /\ p.ids \in Seq(Id) /\ Describes(disk.meta, p.ids)
  <2>1. CASE Halfway(disk)
    <3>1. RecoveredPair(disk) = {disk.backup}
      BY <1>1, <2>1 DEF RecoveredPair
    <3> QED BY <2>1, <3>1 DEF Restorable, BackupOk, Files
  <2>2. CASE Unsaved(disk)
    <3>1. ~Halfway(disk)
      BY <2>2 DEF Restorable, Unsaved, Halfway
    <3>2. RecoveredPair(disk) = {cut}
      BY <1>1, <1>3, <2>2, <3>1 DEF RecoveredPair
    <3>3. CutOk(disk)
      BY <2>2 DEF Restorable
    <3>4. cut.ids \in Seq(Id)
      <4>1. disk.append.base \in 0 .. Len(disk.ids)
        BY <3>3, Records DEF CutOk, Files
      <4> QED BY <1>2, <4>1, PrefixIs DEF Files
    <3>5. cut.bin = cut.ids /\ Describes(disk.meta, cut.ids)
      BY <1>2, <3>3 DEF CutOk
    <3> QED BY <3>2, <3>4, <3>5
  <2>3. CASE ~Halfway(disk) /\ ~Unsaved(disk)
    <3>1. RecoveredPair(disk) = {all}
      BY <1>1, <1>3, <2>3 DEF RecoveredPair
    <3> QED BY <1>2, <2>3, <3>1 DEF Restorable, Files
  <2> QED BY <2>1, <2>2, <2>3
<1>5. PICK p : RecoveredPair(disk) = {p} /\ p.bin = p.ids /\ p.ids \in Seq(Id) /\ Describes(disk.meta, p.ids)
  BY <1>4
<1>6. Loadable(disk)
  BY <1>3, <1>5 DEF Loadable, Describes
<1>7. \A i : i \in disk.meta.known <=> \E n \in 1 .. Len(p.ids) : p.ids[n] = i
  BY <1>5, RangeIs DEF Describes
<1> QED BY <1>5, <1>6, <1>7 DEF Readable, Stored

\* The invariant says what load() would read back.
LEMMA Views ==
    ASSUME IInv
    PROVE  View
<1>1. PICK c \in CallName : \E k \in 1 .. Len(Body(c)) + 1 : Stage(c, k)
  BY DEF IInv
<1>2. PICK k \in 1 .. Len(Body(c)) + 1 : Stage(c, k)
  BY <1>1
<1>3. TypeOK /\ Files(disk) /\ Here(c, k) /\ Is(Region(c)[k]) /\ Sound(c, Region(c)[k])
  BY <1>2, Typed DEF IInv, Stage
<1>4. mem.mode = "up" \/ mem.mode = "down"
  BY <1>3, Opens
<1>5. ~Returning => Readable(disk) = Stored(disk)
  BY <1>3, RollingAhead, ReadBack DEF Returning, Sound
<1>6. ASSUME mem.mode = "down" PROVE ~Marked /\ ~Returning
  <2>1. Nothing => mem.mode = "up"
    BY DEF Nothing, Fresh
  <2>2. /\ Is(Region(c)[k]) => Down
        /\ ~Rolling(Region(c)[k]) /\ Region(c)[k] # "back1"
    BY <1>3, <1>6, <2>1 DEF Is, Steady, Logged, Half, Flushed, Recorded, Clean, Swap, Swap1, Swap2, Swap3, New,
                            Switched, Up, Warming, Back, Back4, Rolling
  <2>3. Returning => c = "rollback" /\ todo # <<>>
    BY <1>3, Ahead DEF Returning
  <2>4. c = "rollback" /\ todo # <<>> => Region(c)[k] \in {"back1", "back2", "back3", "back4"}
    <3> SUFFICES ASSUME c = "rollback", todo # <<>> PROVE Region(c)[k] \in {"back1", "back2", "back3", "back4"}
      OBVIOUS
    <3>1. k \in 1 .. Len(Body(c))
      BY <1>3, BodyIs, EmptySeq DEF Here
    <3> QED BY <3>1 DEF Body, Region
  <2> QED BY <1>3, <2>2, <2>3, <2>4 DEF Down, Marked, Rolling
<1> QED BY <1>4, <1>5, <1>6 DEF View

\* Only a roll-back has the step "rbload".
LEMMA Comes ==
    ASSUME NEW c \in CallName
    PROVE  "rbload" \in Range(Body(c)) <=> c = "rollback"
<1>1. \A x : x \in Range(Body(c)) <=> \E i \in 1 .. Len(Body(c)) : Body(c)[i] = x
  BY BodyIs, RangeIs
<1>2. ASSUME NEW i \in 1 .. Len(Body(c)), Body(c)[i] = "rbload" PROVE c = "rollback"
  BY <1>2, Table DEF Goes
<1>3. c = "rollback" => 4 \in 1 .. Len(Body(c)) /\ Body(c)[4] = "rbload"
  BY DEF Body
<1> QED BY <1>1, <1>2, <1>3

\* A step of a call that is no roll-back does not make it one.
LEMMA GoesOn ==
    ASSUME IInv, ~Returning, (todo # <<>> /\ Done) \/ Raise
    PROVE  ~Returning'
<1>1. todo \in Seq(StepName)
  BY DEF IInv, Stage, Here
<1>2. CASE todo # <<>> /\ Done
  <2>1. /\ todo' \in Seq(StepName) /\ Len(todo') = Len(todo) - 1 /\ Len(todo) \in Nat \ {0}
        /\ \A i \in 1 .. Len(todo) - 1 : todo'[i] = todo[i + 1]
    BY <1>1, <1>2, HeadTailProperties, EmptySeq DEF Done
  <2>2. ASSUME NEW i \in 1 .. Len(todo') PROVE todo'[i] # "rbload"
    <3>1. i + 1 \in 1 .. Len(todo) /\ todo'[i] = todo[i + 1]
      BY <2>1
    <3> QED BY <1>1, <3>1, RangeIs DEF Returning
  <2> QED BY <2>1, <2>2, RangeIs DEF Returning
<1>3. CASE Raise
  BY <1>3, EmptyIs DEF Raise, Returning
<1> QED BY <1>2, <1>3

\* The steps of other calls.
LEMMA NotReturning ==
    ASSUME IInv, NEW s, At(s), s \notin {"rbbin", "rbids", "rbmeta", "rbload"}
    PROVE  ~Returning /\ todo # <<>>
<1>1. PICK c \in CallName : \E k \in 1 .. Len(Body(c)) + 1 : Stage(c, k)
  BY DEF IInv
<1>2. PICK k \in 1 .. Len(Body(c)) + 1 : Stage(c, k)
  BY <1>1
<1>3. Here(c, k) /\ todo # <<>>
  BY <1>2 DEF Stage, At
<1>4. k \in 1 .. Len(Body(c)) /\ Body(c)[k] = s
  BY <1>3, Places
<1>5. c # "rollback"
  BY <1>4 DEF Body
<1> QED BY <1>3, <1>5, Ahead DEF Returning

\* What the abstract pool sees, before and after.
Unseen ==
    /\ View /\ View' /\ TypeOK /\ TypeOK' /\ ~Returning /\ ~Returning'
    /\ mem'.mark = mem.mark

\* A step that the abstract pool does not see.
LEMMA Stutters ==
    ASSUME Unseen, mem'.mode = mem.mode, Stored(disk') = Stored(disk), mem.mode = "up" => Live(mem') = Live(mem)
    PROVE  UNCHANGED Abstract!vars
<1>1. Saved' = Saved
  BY DEF Unseen, View, Saved, Returning
<1> QED BY <1>1 DEF Unseen, Abstract!vars, Marked, Returning

\* A step that changes the members.
LEMMA Changes ==
    ASSUME Unseen, mem.mode = "up", mem'.mode = "up", Stored(disk') = Stored(disk)
    PROVE  Abstract!Change
<1>1. Saved' = Saved
  BY DEF Unseen, View, Saved, Returning
<1>2. Live(mem') \in SUBSET Id
  BY DEF Unseen, TypeOK, Live
<1> QED BY <1>1, <1>2 DEF Unseen, Abstract!Change, Marked, Returning

\* A step that saves them.
LEMMA Saves ==
    ASSUME Unseen, mem.mode = "up", mem' = mem, Stored(disk') = Live(mem)
    PROVE  Abstract!Save
<1>1. Saved' = Live(mem)
  BY DEF Unseen, View, Saved, Returning
<1> QED BY <1>1 DEF Unseen, Abstract!Save, Marked, Returning


\* The steps that only move rows between buffer, files and index.
Moves ==
    \/ LogAppend \/ AppendBin \/ AppendIds \/ UnlinkAppendJournal \/ UnlinkSwitchJournal
    \/ LogSwitch \/ LogEmpty \/ SwapBin \/ SwapIds \/ DropDead
    \/ CutBin \/ CutIds \/ RestoreBin \/ RestoreIds \/ Warm

\* Nothing is seen of the steps of a flush, a compaction or a recovery.
LEMMA MovesUnseen ==
    ASSUME IInv, IInv', Moves
    PROVE  UNCHANGED Abstract!vars
<1>1. View /\ View' /\ TypeOK /\ TypeOK'
  BY Views, PTL DEF IInv

<1>2. ASSUME NEW s, At(s), s \notin {"rbbin", "rbids", "rbmeta", "rbload"}, Done \/ Raise
      PROVE  ~Returning /\ ~Returning'
  BY <1>2, NotReturning, GoesOn
<1>3. ASSUME NEW s, At(s), s \notin {"rbbin", "rbids", "rbmeta", "rbload"}, Done \/ Raise,
             mem'.mode = mem.mode, mem'.mark = mem.mark, disk'.meta = disk.meta, Live(mem') = Live(mem)
      PROVE  UNCHANGED Abstract!vars
  BY <1>1, <1>2, <1>3, Stutters DEF Unseen, Stored
<1>4. CASE LogAppend
  <2>1. At("log") /\ (Done \/ Raise)
    BY <1>4 DEF LogAppend
  <2>2. /\ mem'.mode = mem.mode /\ mem'.mark = mem.mark /\ disk'.meta = disk.meta
        /\ Live(mem') = Live(mem)
    BY <1>1, <1>4 DEF TypeOK, LogAppend, Live
  <2> QED BY <1>3, <2>1, <2>2
<1>5. CASE AppendBin
  <2>1. At("bin") /\ (Done \/ Raise)
    BY <1>5 DEF AppendBin
  <2>2. /\ mem'.mode = mem.mode /\ mem'.mark = mem.mark /\ disk'.meta = disk.meta
        /\ Live(mem') = Live(mem)
    BY <1>1, <1>5 DEF TypeOK, AppendBin, Live
  <2> QED BY <1>3, <2>1, <2>2
<1>6. CASE AppendIds
  <2>1. At("ids") /\ (Done \/ Raise)
    BY <1>6 DEF AppendIds
  <2>2. /\ mem'.mode = mem.mode /\ mem'.mark = mem.mark /\ disk'.meta = disk.meta
        /\ Live(mem') = Live(mem)
    BY <1>1, <1>6 DEF TypeOK, AppendIds, Live
  <2> QED BY <1>3, <2>1, <2>2
<1>7. CASE UnlinkAppendJournal
  <2>1. At("unlog") /\ (Done \/ Raise)
    BY <1>7 DEF UnlinkAppendJournal
  <2>2. /\ mem'.mode = mem.mode /\ mem'.mark = mem.mark /\ disk'.meta = disk.meta
        /\ Live(mem') = Live(mem)
    BY <1>1, <1>7 DEF TypeOK, UnlinkAppendJournal, Live
  <2> QED BY <1>3, <2>1, <2>2
<1>8. CASE UnlinkSwitchJournal
  <2>1. At("unswitch") /\ (Done \/ Raise)
    BY <1>8 DEF UnlinkSwitchJournal
  <2>2. /\ mem'.mode = mem.mode /\ mem'.mark = mem.mark /\ disk'.meta = disk.meta
        /\ Live(mem') = Live(mem)
    BY <1>1, <1>8 DEF TypeOK, UnlinkSwitchJournal, Live
  <2> QED BY <1>3, <2>1, <2>2
<1>9. CASE LogSwitch
  <2>1. At("switchlog") /\ (Done \/ Raise)
    BY <1>9 DEF LogSwitch
  <2>2. /\ mem'.mode = mem.mode /\ mem'.mark = mem.mark /\ disk'.meta = disk.meta
        /\ Live(mem') = Live(mem)
    BY <1>1, <1>9 DEF TypeOK, LogSwitch, Live, SwitchJournal
  <2> QED BY <1>3, <2>1, <2>2
<1>10. CASE SwapBin
  <2>1. At("swapbin") /\ (Done \/ Raise)
    BY <1>10 DEF SwapBin
  <2>2. /\ mem'.mode = mem.mode /\ mem'.mark = mem.mark /\ disk'.meta = disk.meta
        /\ Live(mem') = Live(mem)
    BY <1>1, <1>10 DEF TypeOK, SwapBin, Live
  <2> QED BY <1>3, <2>1, <2>2
<1>11. CASE SwapIds
  <2>1. At("swapids") /\ (Done \/ Raise)
    BY <1>11 DEF SwapIds
  <2>2. /\ mem'.mode = mem.mode /\ mem'.mark = mem.mark /\ disk'.meta = disk.meta
        /\ Live(mem') = Live(mem)
    BY <1>1, <1>11 DEF TypeOK, SwapIds, Live
  <2> QED BY <1>3, <2>1, <2>2
<1>12. CASE DropDead
  <2>1. At("dropdead") /\ (Done \/ Raise)
    BY <1>12 DEF DropDead
  <2>2. /\ mem'.mode = mem.mode /\ mem'.mark = mem.mark /\ disk'.meta = disk.meta
        /\ Live(mem') = Live(mem)
    BY <1>1, <1>12 DEF TypeOK, DropDead, Live
  <2> QED BY <1>3, <2>1, <2>2
<1>13. CASE CutIds
  <2>1. At("cutids") /\ (Done \/ Raise)
    BY <1>13 DEF CutIds
  <2>2. /\ mem'.mode = mem.mode /\ mem'.mark = mem.mark /\ disk'.meta = disk.meta
        /\ Live(mem') = Live(mem)
    BY <1>1, <1>13 DEF TypeOK, CutIds, Live
  <2> QED BY <1>3, <2>1, <2>2
<1>14. CASE RestoreBin
  <2>1. At("restorebin") /\ (Done \/ Raise)
    BY <1>14 DEF RestoreBin
  <2>2. /\ mem'.mode = mem.mode /\ mem'.mark = mem.mark /\ disk'.meta = disk.meta
        /\ Live(mem') = Live(mem)
    BY <1>1, <1>14 DEF TypeOK, RestoreBin, Live
  <2> QED BY <1>3, <2>1, <2>2
<1>15. CASE RestoreIds
  <2>1. At("restoreids") /\ (Done \/ Raise)
    BY <1>15 DEF RestoreIds
  <2>2. /\ mem'.mode = mem.mode /\ mem'.mark = mem.mark /\ disk'.meta = disk.meta
        /\ Live(mem') = Live(mem)
    BY <1>1, <1>15 DEF TypeOK, RestoreIds, Live
  <2> QED BY <1>3, <2>1, <2>2
<1>16. CASE Warm
  <2>1. At("warm") /\ (Done \/ Raise)
    BY <1>16 DEF Warm
  <2>2. /\ mem'.mode = mem.mode /\ mem'.mark = mem.mark /\ disk'.meta = disk.meta
        /\ Live(mem') = Live(mem)
    BY <1>1, <1>16 DEF TypeOK, Warm, Live
  <2> QED BY <1>3, <2>1, <2>2
<1>17. CASE CutBin
  <2>1. At("cutbin") /\ (Done \/ Raise) /\ (mem' = mem \/ mem' = Fails)
    BY <1>17 DEF CutBin
  <2>2. mem' = mem
    BY <1>1, <2>1 DEF Fails, View, TypeOK
  <2>3. disk'.meta = disk.meta
    BY <1>1, <1>17 DEF TypeOK, CutBin
  <2> QED BY <1>3, <2>1, <2>2, <2>3
<1>18. CASE LogEmpty
  <2>1. At("switchempty") /\ mem' = mem
    BY <1>18 DEF LogEmpty
  <2>2. disk'.meta = disk.meta
    BY <1>1, <1>18 DEF TypeOK, LogEmpty, SwitchJournal
  <2>3. CASE Done \/ Raise
    BY <1>3, <2>1, <2>2, <2>3
  <2>4. CASE todo' = <<"empty", "unmeta">>
    <3>1. todo' = Body("blank") /\ "blank" \in CallName
      BY <2>4 DEF Body, CallName
    <3>2. ~Returning'
      BY <3>1, Comes DEF Returning
    <3>3. ~Returning
      BY <2>1, NotReturning
    <3> QED BY <1>1, <2>1, <2>2, <3>2, <3>3, Stutters DEF Unseen, Stored
  <2> QED BY <1>18, <2>3, <2>4 DEF LogEmpty
<1> QED
  BY <1>4, <1>5, <1>6, <1>7, <1>8, <1>9, <1>10, <1>11, <1>12, <1>13, <1>14, <1>15, <1>16, <1>17,
     <1>18 DEF Moves

\* The situation a step is taken in.
LEMMA Situation ==
    ASSUME IInv, NEW s, At(s)
    PROVE  /\ TypeOK
           /\ \E c \in CallName : \E k \in 1 .. Len(Body(c)) + 1 :
                /\ Here(c, k) /\ Body(c)[k] = s /\ Goes(c, s, Region(c)[k], Region(c)[k + 1])
                /\ Is(Region(c)[k]) /\ Sound(c, Region(c)[k])
<1>1. PICK c \in CallName : \E k \in 1 .. Len(Body(c)) + 1 : Stage(c, k)
  BY DEF IInv
<1>2. PICK k \in 1 .. Len(Body(c)) + 1 : Stage(c, k)
  BY <1>1
<1>3. Body(c)[k] = s /\ Goes(c, s, Region(c)[k], Region(c)[k + 1])
  BY <1>2, Places DEF Stage
<1> QED BY <1>2, <1>3 DEF IInv, Stage

\* The same, as far as the next lemmas need it.
LEMMA Around ==
    ASSUME IInv, NEW s, At(s)
    PROVE  \E c, a, b : Goes(c, s, a, b) /\ Is(a) /\ Sound(c, a)
BY Situation

\* A tombstone that goes changes the members.
LEMMA ReviveSeen ==
    ASSUME IInv, IInv', Revive
    PROVE  Abstract!Change
<1>1. View /\ View' /\ TypeOK /\ TypeOK'
  BY Views, PTL DEF IInv
<1>2. At("revive") /\ Done
  BY DEF Revive
<1>3. ~Returning /\ ~Returning'
  BY <1>2, NotReturning, GoesOn
<1>4. mem.mode = "up"
  <2>1. PICK c, a, b : Goes(c, "revive", a, b) /\ Is(a) /\ Sound(c, a)
    BY <1>2, Around
  <2> QED BY <2>1 DEF Goes, Is, Flushed, Steady, Up
<1>5. mem'.mode = mem.mode /\ mem'.mark = mem.mark /\ disk' = disk
  BY <1>1 DEF Revive, TypeOK
<1> QED BY <1>1, <1>3, <1>4, <1>5, Changes DEF Unseen

\* The replacement of the metadata is the moment a save takes effect.
LEMMA WriteMetaSeen ==
    ASSUME IInv, IInv', WriteMeta
    PROVE  Abstract!Save \/ UNCHANGED Abstract!vars
<1>1. View /\ View' /\ TypeOK /\ TypeOK'
  BY Views, PTL DEF IInv
<1>2. At("meta") /\ (Done \/ Raise) /\ mem' = mem
  BY DEF WriteMeta
<1>3. ~Returning /\ ~Returning'
  BY <1>2, NotReturning, GoesOn
<1>4. mem.mode = "up"
  <2>1. PICK c, a, b : Goes(c, "meta", a, b) /\ Is(a) /\ Sound(c, a)
    BY <1>2, Around
  <2> QED BY <2>1 DEF Goes, Is, Flushed, Steady, Up, New, Swap
<1>5. disk' = disk \/ (disk'.meta.known = mem.known /\ disk'.meta.deleted = mem.deleted)
  BY <1>1 DEF WriteMeta, TypeOK
<1>6. CASE disk' = disk
  BY <1>1, <1>2, <1>3, <1>6, Stutters DEF Unseen
<1>7. CASE disk'.meta.known = mem.known /\ disk'.meta.deleted = mem.deleted
  BY <1>1, <1>2, <1>3, <1>4, <1>7, Saves DEF Unseen, Stored, Live
<1> QED BY <1>5, <1>6, <1>7

\* clear() empties the members in memory ...
LEMMA EmptySeen ==
    ASSUME IInv, IInv', Empty
    PROVE  Abstract!Change
<1>1. View /\ View' /\ TypeOK /\ TypeOK'
  BY Views, PTL DEF IInv
<1>2. At("empty") /\ Done
  BY DEF Empty
<1>3. ~Returning /\ ~Returning'
  BY <1>2, NotReturning, GoesOn
<1>4. mem.mode = "up" /\ ~Marked
  <2>1. PICK c, a, b : Goes(c, "empty", a, b) /\ Is(a) /\ Sound(c, a)
    BY <1>2, Around
  <2> QED BY <2>1 DEF Goes, Is, Up, Swap, Sound, Markers
<1>5. mem'.mode = "up" /\ mem'.mark = mem.mark /\ disk' = disk
  BY <1>4 DEF Empty, Fresh, Marked
<1> QED BY <1>1, <1>3, <1>4, <1>5, Changes DEF Unseen

\* ... and saves that when the metadata goes.
LEMMA UnlinkMetaSeen ==
    ASSUME IInv, IInv', UnlinkMeta
    PROVE  Abstract!Save
<1>1. View /\ View' /\ TypeOK /\ TypeOK'
  BY Views, PTL DEF IInv
<1>2. At("unmeta") /\ Done /\ mem' = mem
  BY DEF UnlinkMeta
<1>3. ~Returning /\ ~Returning'
  BY <1>2, NotReturning, GoesOn
<1>4. Nothing
  <2>1. PICK c, a, b : Goes(c, "unmeta", a, b) /\ Is(a) /\ Sound(c, a)
    BY <1>2, Around
  <2> QED BY <2>1 DEF Goes, Is
<1>5. mem.mode = "up" /\ Live(mem) = {}
  BY <1>4 DEF Nothing, Fresh, Live
<1>6. disk'.meta = NoMeta
  BY <1>1 DEF UnlinkMeta, TypeOK
<1>7. Stored(disk') = {}
  BY <1>6 DEF Stored, NoMeta
<1> QED BY <1>1, <1>2, <1>3, <1>5, <1>7, Saves DEF Unseen

\* A switch is undone in load() only, where the members are still to be read.
LEMMA ReloadSeen ==
    ASSUME IInv, IInv', Reload
    PROVE  UNCHANGED Abstract!vars
<1>1. View /\ View' /\ TypeOK /\ TypeOK'
  BY Views, PTL DEF IInv
<1>2. At("reload") /\ (Done \/ Raise) /\ disk' = disk
  BY DEF Reload
<1>3. ~Returning /\ ~Returning'
  BY <1>2, NotReturning, GoesOn
<1>4. Undoing => mem.mode = "down"
  <2>1. PICK c, a, b : Goes(c, "reload", a, b) /\ Is(a) /\ Sound(c, a)
    BY <1>2, Around
  <2> QED BY <2>1 DEF Goes, Is, Steady, Tidy, NoSwitch, Undoing, Switching, Down
<1>5. CASE mem' = mem
  BY <1>1, <1>2, <1>3, <1>5, Stutters DEF Unseen
<1>6. CASE mem' = Fails /\ mem' # mem
  BY <1>1, <1>6 DEF Fails, View, TypeOK
<1>7. CASE Undoing /\ mem' = [Adopted(mem) EXCEPT !.fallback =
                                IF disk.meta.trained THEN {} ELSE Range(disk.ids) \ disk.meta.deleted]
  <2>1. mem'.mode = mem.mode /\ mem'.mark = mem.mark
    BY <1>1, <1>7, AdoptedIs
  <2> QED BY <1>1, <1>2, <1>3, <1>4, <1>7, <2>1, Stutters DEF Unseen
<1> QED BY <1>5, <1>6, <1>7 DEF Reload

\* load() takes effect when the members are read.
LEMMA AdoptSeen ==
    ASSUME IInv, IInv', Adopt
    PROVE  Abstract!Load \/ UNCHANGED Abstract!vars
<1>1. View /\ View' /\ TypeOK /\ TypeOK'
  BY Views, PTL DEF IInv
<1>2. At("adopt") /\ (Done \/ Raise) /\ disk' = disk
  BY DEF Adopt
<1>3. ~Returning /\ ~Returning'
  BY <1>2, NotReturning, GoesOn
<1>4. mem.mode = "down"
  <2>1. PICK c, a, b : Goes(c, "adopt", a, b) /\ Is(a) /\ Sound(c, a)
    BY <1>2, Around
  <2> QED BY <2>1 DEF Goes, Is, Down
<1>5. CASE mem' = Fails
  BY <1>1, <1>4, <1>5 DEF Fails, View, TypeOK
<1>6. CASE mem' = [Adopted(mem) EXCEPT !.mode = "up"]
  <2>1. /\ mem'.mode = "up" /\ mem'.mark = mem.mark /\ mem'.known = disk.meta.known
        /\ mem'.deleted = disk.meta.deleted
    BY <1>1, <1>6, AdoptedIs
  <2>2. Saved = Stored(disk) /\ Saved' = Stored(disk) /\ Live(mem') = Stored(disk)
    BY <1>1, <1>2, <1>3, <2>1 DEF View, Saved, Returning, Live, Stored
  <2> QED BY <1>3, <1>4, <2>1, <2>2 DEF Abstract!Load, Marked, Returning
<1> QED BY <1>5, <1>6 DEF Adopt

\* A roll-back: done when it begins, and nothing is seen of its steps.
RollsBack == RollbackBin \/ RollbackIds \/ RollbackMeta \/ RollbackLoad

\* The roll-back was done when it began: nothing is seen of its four steps.
LEMMA RollbackSeen ==
    ASSUME IInv, IInv', RollsBack
    PROVE  UNCHANGED Abstract!vars
<1>1. View /\ View' /\ TypeOK /\ TypeOK'
  BY Views, PTL DEF IInv
<1>2. PICK s \in {"rbbin", "rbids", "rbmeta", "rbload"} :
        /\ At(s) /\ Done
        /\ s = "rbbin" => RollbackBin
        /\ s = "rbids" => RollbackIds
        /\ s = "rbmeta" => RollbackMeta
        /\ s = "rbload" => RollbackLoad
  BY DEF RollsBack, RollbackBin, RollbackIds, RollbackMeta, RollbackLoad
<1>3. PICK c \in CallName : \E k \in 1 .. Len(Body(c)) + 1 :
        /\ Here(c, k) /\ Body(c)[k] = s /\ Goes(c, s, Region(c)[k], Region(c)[k + 1])
        /\ Is(Region(c)[k]) /\ Sound(c, Region(c)[k])
  BY <1>2, Situation
<1>4. PICK k \in 1 .. Len(Body(c)) + 1 :
        /\ Here(c, k) /\ Body(c)[k] = s /\ Goes(c, s, Region(c)[k], Region(c)[k + 1])
        /\ Is(Region(c)[k]) /\ Sound(c, Region(c)[k])
  BY <1>3
<1>5. c = "rollback" /\ Marked /\ mem.mode = "up"
  BY <1>2, <1>4 DEF Goes, Is, Steady, Back, Back4, Up
<1>6. Returning
  BY <1>2, <1>4, <1>5, Ahead DEF Returning, At
<1>7. k \in 1 .. Len(Body(c)) /\ Here(c, k + 1)' /\ k + 1 \in 1 .. Len(Body(c)) + 1
  BY <1>2, <1>4, Places, Advance DEF At
<1>8. CASE s # "rbload"
  <2>1. k \in 1 .. 3
    BY <1>4, <1>5, <1>7, <1>8 DEF Body
  <2>2. Returning'
    <3>1. todo' \in Seq(StepName) /\ Len(todo') = 4 - k /\ todo'[Len(todo')] = "rbload"
      BY <1>5, <1>7, <2>1 DEF Here, Body
    <3>2. Len(todo') \in 1 .. Len(todo')
      BY <2>1, <3>1
    <3> QED BY <3>1, <3>2, RangeIs DEF Returning
  <2>3. mem'.mode = mem.mode /\ mem'.mark = mem.mark
    BY <1>1, <1>2, <1>5, <1>8 DEF TypeOK, RollbackBin, RollbackIds, RollbackMeta, Fresh
  <2> QED BY <1>6, <2>2, <2>3 DEF Abstract!vars, Saved, Returning, Marked
<1>9. CASE s = "rbload"
  <2>1. k = 4
    BY <1>4, <1>5, <1>7, <1>9 DEF Body
  <2>2. ~Returning'
    <3>1. todo' \in Seq(StepName) /\ Len(todo') = 0
      BY <1>5, <1>7, <2>1 DEF Here, Body
    <3> QED BY <3>1, LenZero, EmptyIs DEF Returning
  <2>3. disk.meta = mem.mark.meta
    BY <1>4, <1>9 DEF Goes, Is, Back4
  <2>4. disk' = disk /\ (mem'.mode = "broken" \/ mem' = [Adopted(mem) EXCEPT !.mark = NoMark,
                           !.fallback = IF disk.meta.trained THEN {} ELSE Range(disk.ids) \ disk.meta.deleted])
    BY <1>1, <1>2, <1>9 DEF RollbackLoad, TypeOK
  <2>5. mem'.mode = mem.mode /\ mem'.mark = NoMark /\ mem'.known = disk.meta.known /\ mem'.deleted = disk.meta.deleted
    BY <1>1, <2>4, AdoptedIs DEF View
  <2>6. Saved' = Stored(disk) /\ Saved = Stored(disk) /\ Live(mem') = Stored(disk)
    BY <1>1, <1>6, <2>2, <2>3, <2>4, <2>5 DEF View, Saved, Returning, Live, Stored
  <2> QED BY <1>5, <1>6, <2>2, <2>5, <2>6 DEF Abstract!vars, Returning, Marked
<1> QED BY <1>8, <1>9

\* Every step on files is a step of the abstract pool, or is not seen.
LEMMA StepsSeen ==
    ASSUME IInv, IInv', Steps
    PROVE  [Abstract!Next]_Abstract!vars
BY MovesUnseen, ReviveSeen, WriteMetaSeen, EmptySeen, UnlinkMetaSeen, ReloadSeen, AdoptSeen, RollbackSeen
   DEF Steps, Moves, RollsBack, Abstract!Next


\* A call begins.
LEMMA CallSeen ==
    ASSUME IInv, IInv', Call, NEW c \in CallName, todo' = Body(c), c # "rollback", mem'.mode = mem.mode, disk' = disk
    PROVE  /\ ~Returning /\ ~Returning' /\ mem.mode = "up"
           /\ mem'.mark = mem.mark => Abstract!Change
           /\ mem'.mark = mem.mark /\ Live(mem') = Live(mem) => UNCHANGED Abstract!vars
<1>1. View /\ View' /\ TypeOK /\ TypeOK'
  BY Views, PTL DEF IInv
<1>2. ~Returning /\ ~Returning' /\ mem.mode = "up"
  BY Comes, EmptyIs DEF Call, Returning
<1>3. mem'.mark = mem.mark => Abstract!Change
  BY <1>1, <1>2, Changes DEF Unseen
<1>4. mem'.mark = mem.mark /\ Live(mem') = Live(mem) => UNCHANGED Abstract!vars
  BY <1>1, <1>2, Stutters DEF Unseen
<1> QED BY <1>2, <1>3, <1>4

\* So is every call.
LEMMA CallsSeen ==
    ASSUME IInv, IInv', Calls
    PROVE  [Abstract!Next]_Abstract!vars
<1>1. View /\ View' /\ TypeOK /\ TypeOK'
  BY Views, PTL DEF IInv
<1>2. {"idle", "flush", "revive", "train", "save", "compact", "clear"} \subseteq CallName
  BY DEF CallName
<1>3. Body("idle") = <<>>
  BY DEF Body
<1>4. ASSUME NEW S \in SUBSET Id, Add(S) PROVE Abstract!Next
  <2>1. Call /\ disk' = disk
    BY <1>4 DEF Add
  <2>2. mem'.mode = mem.mode /\ mem'.mark = mem.mark
    BY <1>1, <1>4 DEF Add, TypeOK
  <2>3. todo' = Body("flush") \/ todo' = Body("idle")
    BY <1>3, <1>4, Scripts DEF Add
  <2> QED BY <1>2, <2>1, <2>2, <2>3, CallSeen DEF Abstract!Next
<1>5. ASSUME NEW S \in SUBSET Id, Delete(S) PROVE Abstract!Next
  <2>1. Call /\ disk' = disk
    BY <1>5 DEF Delete
  <2>2. mem'.mode = mem.mode /\ mem'.mark = mem.mark
    BY <1>1, <1>5 DEF Delete, TypeOK
  <2>3. todo' = Body("compact") \/ todo' = Body("idle")
    BY <1>3, <1>5, Scripts DEF Delete
  <2> QED BY <1>2, <2>1, <2>2, <2>3, CallSeen DEF Abstract!Next
<1>6. ASSUME NEW i \in Id, Restore(i) PROVE UNCHANGED Abstract!vars
  <2>1. Call /\ disk' = disk /\ todo' = Body("revive")
    BY <1>6, Scripts DEF Restore
  <2>2. mem'.mode = mem.mode /\ mem'.mark = mem.mark /\ Live(mem') = Live(mem)
    BY <1>1, <1>6 DEF Restore, TypeOK, Live
  <2> QED BY <1>2, <2>1, <2>2, CallSeen
<1>7. CASE SaveCall \/ Search \/ RebuildIndex \/ Clear \/ Train
  <2>1. Call /\ disk' = disk
    BY <1>7 DEF SaveCall, Search, RebuildIndex, Clear, Train, Start
  <2>2. mem'.mode = mem.mode /\ mem'.mark = mem.mark /\ Live(mem') = Live(mem)
    BY <1>1, <1>7 DEF SaveCall, Search, RebuildIndex, Clear, Train, TypeOK, Live
  <2>3. \E c \in {"save", "flush", "compact", "clear", "train"} : todo' = Body(c)
    BY <1>7, Scripts DEF SaveCall, Search, RebuildIndex, Clear, Train, Start
  <2> QED BY <1>2, <2>1, <2>2, <2>3, CallSeen
<1>8. CASE BeginCheckpoint
  <2>1. Call /\ disk' = disk /\ todo' = Body("idle") /\ ~Marked /\ disk.meta.exists /\ Stored(disk) = Live(mem)
    BY <1>3, <1>8 DEF BeginCheckpoint, Call, Stored, Live
  <2>2. /\ mem'.mode = mem.mode /\ Live(mem') = Live(mem) /\ mem'.mark.meta = disk.meta
        /\ mem'.mark = [rows |-> Len(disk.bin), meta |-> disk.meta]
    BY <1>1, <1>8 DEF BeginCheckpoint, TypeOK, Live
  <2>3. mem'.mark # NoMark
    BY <2>1, <2>2 DEF NoMark, NoMeta
  <2>4. ~Returning /\ ~Returning' /\ mem.mode = "up"
    BY <1>2, <2>1, <2>2, CallSeen
  <2>5. Saved = Live(mem) /\ Saved' = Live(mem)
    BY <1>1, <2>1, <2>4 DEF View, Saved, Returning, Stored
  <2> QED BY <2>1, <2>2, <2>3, <2>4, <2>5 DEF Abstract!Next, Abstract!Begin, Marked, Returning, Stored
<1>9. CASE CommitCheckpoint
  <2>1. Call /\ disk' = disk /\ todo' = Body("idle") /\ Marked /\ Stored(disk) = Live(mem)
    BY <1>3, <1>9 DEF CommitCheckpoint, Call, Stored, Live
  <2>2. mem'.mode = mem.mode /\ Live(mem') = Live(mem) /\ mem'.mark = NoMark
    BY <1>1, <1>9 DEF CommitCheckpoint, TypeOK, Live
  <2>3. ~Returning /\ ~Returning' /\ mem.mode = "up"
    BY <1>2, <2>1, <2>2, CallSeen
  <2>4. Saved = Live(mem) /\ Saved' = Live(mem)
    BY <1>1, <2>1, <2>3 DEF View, Saved, Returning, Stored
  <2> QED BY <2>1, <2>2, <2>3, <2>4 DEF Abstract!Next, Abstract!Commit, Marked, Returning
<1>10. CASE RollbackCheckpoint
  <2>1. todo = <<>> /\ disk' = disk /\ mem' = mem /\ mem.mode = "up" /\ todo' = Body("rollback") /\ Marked
    BY <1>10, Scripts DEF RollbackCheckpoint, Call
  <2>2. ~Returning /\ Returning'
    BY <2>1, Comes, EmptyIs DEF Returning, CallName
  <2>3. Saved' = Stored(mem.mark)
    BY <2>1, <2>2 DEF Saved, Returning, Stored
  <2> QED BY <2>1, <2>2, <2>3 DEF Abstract!Next, Abstract!Undo, Marked, Returning, Stored
<1> QED BY <1>4, <1>5, <1>6, <1>7, <1>8, <1>9, <1>10 DEF Calls

\* Exceptions and crashes where the code survives them.
LEMMA FaultsSeen ==
    ASSUME FaultsIn = {}, IInv, IInv', Crash \/ Load \/ AppendRaises \/ StepRaises
    PROVE  [Abstract!Next]_Abstract!vars
<1>1. View /\ View' /\ TypeOK /\ TypeOK'
  BY Views, PTL DEF IInv
<1>2. CASE Crash
  <2>1. ~Returning /\ ~Returning'
    BY <1>2, EmptyIs DEF Crash, Fault, CrashPlaces, Returning
  <2>2. mem'.mode = "down" /\ mem'.mark = NoMark
    BY <1>2 DEF Crash, Fresh
  <2>3. disk'.meta = disk.meta
    BY <1>1, <1>2 DEF Crash, TypeOK
  <2>4. Saved' = Saved
    BY <1>1, <2>1, <2>3 DEF View, Saved, Returning, Stored
  <2> QED BY <2>1, <2>2, <2>4 DEF Abstract!Next, Abstract!Lose, Marked, Returning
<1>3. CASE Load
  <2>1. todo = <<>> /\ todo' = Body("load") /\ "load" \in CallName /\ disk' = disk /\ mem' = mem
    BY <1>3, Scripts DEF Load, CallName
  <2>2. ~Returning /\ ~Returning'
    BY <2>1, Comes, EmptyIs DEF Returning
  <2> QED BY <1>1, <2>1, <2>2, Stutters DEF Unseen
<1>4. CASE AppendRaises
  <2>1. ~Returning /\ Raise /\ mem' = mem
    BY <1>4 DEF AppendRaises, Fault, ExceptionPlaces, CrashPlaces, Returning
  <2>2. ~Returning'
    BY <2>1, EmptyIs DEF Raise, Returning
  <2>3. disk'.meta = disk.meta
    BY <1>1, <1>4 DEF AppendRaises, TypeOK
  <2> QED BY <1>1, <2>1, <2>2, <2>3, Stutters DEF Unseen, Stored
<1>5. CASE StepRaises
  <2>1. ~Returning /\ Raise /\ mem' = mem /\ disk' = disk
    BY <1>5 DEF StepRaises, Fault, ExceptionPlaces, CrashPlaces, Returning
  <2>2. ~Returning'
    BY <2>1, EmptyIs DEF Raise, Returning
  <2> QED BY <1>1, <2>1, <2>2, Stutters DEF Unseen
<1> QED BY <1>2, <1>3, <1>4, <1>5

\* The pool implements the set with a saved copy: whatever files a crash or an
\* exception leaves, load() reads back exactly the members saved last, compaction
\* changes none of them, and a checkpoint that is rolled back leaves no trace.
THEOREM Refinement ==
    ASSUME FaultsIn = {}
    PROVE  Spec => ImplementsVectorSet
<1>1. Init => Abstract!Init
  <2> SUFFICES ASSUME Init PROVE Abstract!Init
    OBVIOUS
  <2>1. mem.mode = "up" /\ Live(mem) = {} /\ mem.mark = NoMark /\ todo = <<>> /\ disk.meta = NoMeta
    BY DEF Init, Fresh, Live
  <2>2. ~Returning
    BY <2>1, EmptyIs DEF Returning
  <2>3. View
    BY BeginsRight, Views
  <2>4. Stored(disk) = {}
    BY <2>1 DEF Stored, NoMeta
  <2>5. Saved = {}
    BY <2>2, <2>3, <2>4 DEF View, Saved, Returning
  <2> QED BY <2>1, <2>2, <2>5 DEF Abstract!Init, Marked, Returning
<1>2. IInv /\ IInv' /\ [Next]_vars => [Abstract!Next]_Abstract!vars
  <2>1. UNCHANGED vars => UNCHANGED Abstract!vars
    BY DEF vars, Abstract!vars, Live, Saved, Marked, Readable, Loadable, RecoveredPair, CutPair, Switching, Appending
  <2> QED BY <2>1, CallsSeen, StepsSeen, FaultsSeen DEF Next
<1> QED BY <1>1, <1>2, Invariance, PTL DEF Spec, ImplementsVectorSet, Abstract!Spec

================================================================================
