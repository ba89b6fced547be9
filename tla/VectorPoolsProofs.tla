---------------------------- MODULE VectorPoolsProofs ----------------------------
(***************************************************************************)
(* For any paragraphs, relations, beginnings and bounds, without a crash   *)
(* in a switch that follows a recovery (CrashInFreshSwitch, see            *)
(* VectorPools): both pools in use are of one generation                   *)
(* (PairOfOneGeneration), the last copy of a saved vector stays on the     *)
(* disk (LastCopyKept), and a rebuild that lifts the degradation has left  *)
(* nothing out (RebuiltIsComplete).                                        *)
(*                                                                         *)
(* What the directories hold depends on how far the work on them has come, *)
(* and the work is a script that is built up and cut as it goes.  So the   *)
(* invariant, IInv, is about a place: the script is what is left of a call *)
(* c, its k-th step next, after n saves that _persist has put before it    *)
(* (Here), and every step of a call is in the table Goes.  At says of each *)
(* place what the log of a switch (LogAt), the stage of a recovery         *)
(* (StageAt), the vectors built (RebuildAt) and copied (CopyAt) are there, *)
(* and which stores are in use (Serving).  Three parts hold everywhere:    *)
(* what is in the directories is an item of theirs (Filed), what the log   *)
(* lists covers what is saved, wherever the switch has put it (Logged),    *)
(* and nothing is in the directories from the quarantine to the new        *)
(* generation (Staged).                                                    *)
(*                                                                         *)
(* There is one lemma per action, which leads from one place to the next.  *)
(***************************************************************************)
EXTENDS VectorPools, SequenceTheorems, TLAPS

\* What the call c does, step by step; "idle" and "off" wait.
Body(c, x) ==
    CASE c = "up" -> << <<"sweep">>, <<"resume">>, <<"load">> >>
      [] c = "back" -> << <<"stash", "paragraph">>, <<"return", "paragraph">>,
                          <<"stash", "graph">>, <<"return", "graph">>, <<"settled">>,
                          <<"resume">>, <<"load">> >>
      [] c = "again" -> << <<"quarantine">>, <<"note", "quarantined">>,
                           <<"reset">>, <<"note", "metadata_reset">>,
                           <<"renew", "paragraph">>, <<"renew", "graph">>, <<"fresh">>,
                           <<"note", "new_generation_ready">>, <<"view">>, <<"load">> >>
      [] c = "recover" -> Recovery
      [] c = "rebuild" ->
            << <<"encode", "paragraph">>, <<"encode", "graph">>,
               <<"build", "paragraph">>, <<"build", "graph">>,
               <<"prepare", "bare">>, <<"prepare", "prepared">>,
               <<"out", "paragraph">>, <<"out", "graph">>,
               <<"in", "paragraph">>, <<"in", "graph">>, <<"activated">>,
               <<"manifest">>, <<"sweep">>, <<"reload">>,
               <<"missing", "paragraph">>, <<"fill", "paragraph">>,
               <<"missing", "graph">>, <<"fill", "graph">>,
               <<"save", "paragraph">>, <<"save", "graph">>, <<"manifest">>,
               <<"clear">>, <<"finish", x>> >>
      [] c = "failed" -> << <<"drop">>, <<"reload">>, <<"finish", "failed">> >>
      [] c = "rebuilt" -> << <<"rebuilt", x>> >>
      [] c = "copying" -> Copying(x)
      [] OTHER -> <<>>

\* The number of its steps.
End(c) ==
    CASE c = "up" -> 3 [] c = "back" -> 7 [] c = "again" -> 10 [] c = "recover" -> 9
      [] c = "rebuild" -> 23 [] c = "failed" -> 3 [] c = "rebuilt" -> 1 [] c = "copying" -> 5
      [] OTHER -> 0

\* Nothing to do: the process is down, or the event loop is free.
Waits == {"off", "idle"}
Calls == {"off", "idle", "up", "back", "again", "recover", "rebuild", "failed", "rebuilt", "copying"}

\* What a rebuild ends with.
Outcomes == {"filled", "unfilled", "failed"}

\* What a step is called, and what it is about.
Names == {"save", "sweep", "resume", "load", "stash", "return", "settled", "quarantine", "note", "reset",
          "renew", "fresh", "view", "encode", "build", "prepare", "out", "in", "activated", "manifest",
          "reload", "missing", "fill", "clear", "finish", "drop", "rebuilt", "copy", "cursor"}
Values == {"paragraph", "graph", "single", "quarantined", "metadata_reset", "new_generation_ready",
           "bare", "prepared", "filled", "unfilled", "failed"} \cup Item
Steps == {<<m>> : m \in Names} \cup {<<m, a>> : m \in Names, a \in Values}

\* A call and its argument.
Args == Item \cup Outcomes \cup {"none"}

Fits(c, x) ==
    /\ x \in Args
    /\ c = "rebuild" => x \in {"filled", "unfilled"}
    /\ c = "rebuilt" => x \in Outcomes
    /\ c = "copying" => x \in Item

\* n saves come before the k-th step of the call.
Ahead(n, i) ==
    IF run.mode = "single" THEN script[i] = <<"save", "single">>
    ELSE script[i] = <<"save", IF n = 2 /\ i = 1 THEN "paragraph" ELSE "graph">>

\* The script is what is left of c from its k-th step on, after n saves.
Here(c, x, k, n) ==
    /\ c \in Calls /\ Fits(c, x)
    /\ k \in 1 .. End(c) \/ (c \in Waits /\ k = 1)
    /\ n \in 0 .. 2
    /\ script \in Seq(Steps)
    /\ Len(script) = n + End(c) + 1 - k
    /\ \A i \in 1 .. n : Ahead(n, i)
    /\ \A i \in 1 .. End(c) + 1 - k : script[n + i] = Body(c, x)[k + i - 1]
    /\ n > 0 => /\ run.mode # "none" /\ (run.mode = "single" => n = 1)
                /\ \/ c = "idle" \/ c = "rebuilt"
                   \/ c = "copying" /\ k = 1
                   \/ c = "rebuild" /\ k \in {1, 2, 16, 18}

-----------------------------------------------------------------------------
\* What is in the directories of the pools.
PoolsHave == disk.dir["paragraph"].has \cup disk.dir["graph"].has

\* What lies where a switch found it, or where it put it.
Held(p) == IF disk.old[p].is # "absent" THEN disk.old[p].has ELSE disk.dir[p].has \cup disk.stash[p].has

\* The old vectors the cursor has passed.
Passed == IF disk.stage \in {"copying", "completed"}
          THEN {i \in disk.away.trusted : Rank[i] <= disk.cursor} ELSE {}
\* What the pools need: these, and what was saved in time.
Need == (saved \ late) \cup Passed
\* X holds all of this, or what was put away does; it holds what the cursor has passed.
Cover(X) == saved \ late \subseteq X \cup disk.dir["single"].has \cup disk.away.all /\ Passed \subseteq X

\* The directories of the pools, and their generations.
There(p) == disk.dir[p].is # "absent"
BothThere == There("paragraph") /\ There("graph")
Even == disk.dir["paragraph"].gen = disk.dir["graph"].gen

\* A directory without a store has no vectors.
Formed(d) == /\ d.is \in {"absent", "blank"} => d.has = {}
             /\ d.is \in {"absent", "blank"} => d.gen = 0

\* What is in the directories is an item of theirs.
Filed ==
    /\ \A s \in Stores : Formed(disk.dir[s])
    /\ \A p \in Pools : /\ Formed(disk.old[p])
                        /\ disk.dir[p].has \subseteq items \cap In(p) /\ disk.old[p].has \subseteq items \cap In(p)
    /\ \A p \in Pools : built[p] \subseteq items \cap In(p)
    /\ disk.dir["single"].has \subseteq items /\ mem["single"] \subseteq items
    /\ disk.away.trusted \subseteq items

\* The log of a switch, and where what is saved lies meanwhile.
Logged ==
    /\ disk.log \in {"none", "bare"} => disk.old = NoDirs /\ disk.stash = NoDirs
    /\ disk.log = "prepared" =>
          /\ disk.had = Pools
          /\ disk.old["paragraph"].is # "absent" /\ disk.old["graph"].is # "absent" =>
                disk.old["paragraph"].gen = disk.old["graph"].gen
          /\ Cover(Held("paragraph") \cup Held("graph"))
    /\ disk.log # "prepared" => Cover(PoolsHave)
    /\ disk.log # "prepared" /\ disk.stage # "metadata_reset" => Even

\* The stage of a recovery: whatever there was has been moved away.
Staged ==
    /\ disk.stage \in {"quarantined", "metadata_reset", "new_generation_ready"} =>
          disk.log = "none" /\ \A s \in Stores : disk.dir[s].has = {}
    /\ disk.stage \in {"new_generation_ready", "copying"} => disk.manifest # "none"
    /\ run.view => disk.stage = "copying"
    /\ disk.stage \in {"prepared", "quarantined", "metadata_reset", "new_generation_ready"} => disk.cursor = 0

\* In a recovery, taken up at start-up or not.
Recovering(c) == c \in {"again", "recover"}

\* In the middle of a switch.
Apart(c, k) == c = "rebuild" /\ k \in 8 .. 14

\* The stores in use.
Serving(c, k) ==
    /\ run.mode = "dual" /\ ~Apart(c, k) =>
          \A p \in Pools : disk.dir[p].is \notin {"absent", "damaged"} /\ disk.dir[p].has \subseteq mem[p]
    /\ run.mode = "single" => disk.dir["single"].has \subseteq mem["single"]

\* What the log says, in each place.
LogAt(c, k) ==
    /\ disk.log = "prepared" =>
          /\ disk.manifest = "fresh" => c = "rebuild"
          /\ c \in {"off", "back", "rebuild"} \/ (c = "up" /\ k = 1) \/ ~BothThere
    /\ disk.log # "prepared" /\ c \notin {"off", "back"} /\ ~(Recovering(c) /\ k \in 2 .. 6) /\ ~Apart(c, k) =>
          BothThere
    /\ c = "back" =>
          /\ k \in 1 .. 5 <=> disk.log = "prepared"
          /\ k \in {2} => ~There("paragraph")
          /\ k \in {3, 4} => /\ There("paragraph")
                             /\ disk.old["graph"].is # "absent" => disk.dir["paragraph"].gen = disk.old["graph"].gen
                             /\ Cover(disk.dir["paragraph"].has \cup Held("graph"))
          /\ k = 4 => ~There("graph")
          /\ k = 5 => BothThere /\ Even /\ Cover(PoolsHave)
          /\ k \in 6 .. 7 => BothThere

\* How far a recovery has come, in each place.
StageAt(c, k) ==
    /\ c \in {"idle", "rebuild", "failed", "rebuilt", "copying"} =>
          disk.stage \in {"none", "prepared", "copying", "completed"}
    /\ Recovering(c) =>
          /\ k \in 1 .. 2 => disk.stage = "prepared"
          /\ k \in 3 .. 4 => disk.stage = "quarantined"
          /\ k \in 5 .. 8 => disk.stage = "metadata_reset"
          /\ k = 2 => disk.log = "none" /\ \A s \in Stores : disk.dir[s].has = {}
          /\ k = 6 => disk.dir["paragraph"].is = "store" /\ disk.dir["paragraph"].gen = count.gen
          /\ k \in 7 .. 8 => /\ \A p \in Pools : disk.dir[p].is = "store"
                             /\ Even
          /\ k = 8 => disk.manifest = "fresh"
          /\ k = 9 => disk.stage \in {"new_generation_ready", "copying"}
          /\ k <= 7 => run.mode # "dual"
    /\ c = "up" /\ k = 3 => disk.stage \in {"none", "completed"}
    /\ c = "back" /\ k = 7 => disk.stage \in {"none", "completed"}
    /\ c = "again" /\ k = 10 => disk.stage \in {"copying", "completed"}

\* Whether the process is up, and what it may serve and show.
RunAt(c, k) ==
    /\ c = "off" <=> ~run.up
    /\ c \in {"off", "up", "back"} => run.mode = "none" /\ ~run.observed /\ ~run.view
    /\ c = "off" => mem = NoMem
    /\ c \in {"rebuild", "failed"} => run.mode # "none"

\* Every item of a pool has its vector, or will be filled in.
Full(p) == items \cap In(p) \subseteq mem[p] \cup queued \cup (IF batch.stale THEN {} ELSE batch.rows)

\* What a rebuild has encoded and built, and what the pools need of it.
RebuildAt(k, x) ==
    /\ x = "unfilled" => k >= 17
    /\ k <= 5 => disk.log = "none"
    /\ k = 6 => disk.log = "bare"
    /\ k \in 7 .. 11 => disk.log = "prepared"
    /\ k \in 12 .. 13 => disk.log = "activated"
    /\ k >= 14 => disk.log = "none" /\ disk.manifest = "ready"
    /\ k = 13 => disk.manifest = "ready"
    /\ k = 1 => /\ Need \cap Paragraph \subseteq todo /\ todo \subseteq Paragraph
    /\ k = 2 => /\ Need \cap Paragraph \subseteq built["paragraph"]
                /\ Need \cap Relation \subseteq todo /\ todo \subseteq Relation
    /\ k \in 3 .. 11 => Need \subseteq built["paragraph"] \cup built["graph"]
    /\ k \in 4 .. 9 => disk.build["paragraph"] = Store(built["paragraph"], count.gen)
    /\ k \in 5 .. 10 => disk.build["graph"] = Store(built["graph"], count.gen)
    /\ k = 7 => BothThere /\ Even /\ disk.old = NoDirs /\ disk.stash = NoDirs
    /\ k = 8 => /\ disk.old["paragraph"].is # "absent" /\ disk.old["graph"].is = "absent" /\ disk.stash = NoDirs
                /\ There("graph") /\ disk.old["paragraph"].gen = disk.dir["graph"].gen
    /\ k \in 9 .. 11 => \A p \in Pools : disk.old[p].is # "absent"
    /\ k \in 10 .. 11 => disk.dir["paragraph"] = Store(built["paragraph"], count.gen)
    /\ k = 11 => disk.dir["graph"] = Store(built["graph"], count.gen)
    /\ k \in 12 .. 14 => \A p \in Pools : disk.dir[p].is = "store"
    /\ k \in 12 .. 22 => Need \subseteq PoolsHave
    /\ k >= 15 => run.mode = "dual"
    /\ k = 16 => todo \subseteq Paragraph
    /\ k = 18 => todo \subseteq Relation
    /\ x = "filled" =>
          /\ k = 16 => /\ items \cap Paragraph \subseteq
                             mem["paragraph"] \cup todo \cup queued \cup (IF batch.stale THEN {} ELSE batch.rows)
                       /\ saved \cap Paragraph \subseteq mem["paragraph"] \cup todo
          /\ k >= 17 => Full("paragraph") /\ saved \cap Paragraph \subseteq mem["paragraph"]
          /\ k = 18 => items \cap Relation \subseteq mem["graph"] \cup todo
          /\ k >= 19 => items \cap Relation \subseteq mem["graph"]
          /\ k >= 20 => mem["paragraph"] = disk.dir["paragraph"].has
          /\ k >= 21 => mem["graph"] = disk.dir["graph"].has

\* The vector that is copied is the next one.
CopyAt(k, x) ==
    /\ run.mode = "dual" /\ disk.stage = "copying"
    /\ x \in Remaining /\ \A j \in Remaining : Rank[x] <= Rank[j]
    /\ k >= 2 => x \in mem[PoolOf(x)]
    /\ k >= 3 /\ x \in Paragraph => x \in disk.dir["paragraph"].has
    /\ k >= 4 => x \in disk.dir[PoolOf(x)].has

\* What a rebuild that reports success has done.
RebuiltAt(x) == x = "filled" => items \subseteq PoolsHave \cup queued \cup batch.rows

\* What holds in a place.
At(c, x, k, n) ==
    /\ Serving(c, k) /\ LogAt(c, k) /\ StageAt(c, k) /\ RunAt(c, k)
    /\ c = "rebuild" => RebuildAt(k, x)
    /\ c = "copying" => CopyAt(k, x)
    /\ c = "rebuilt" => RebuiltAt(x)

\* The call c is at its k-th step, after n saves.
Inside(c, x, k, n) == TypeOK /\ Filed /\ Logged /\ Staged /\ Here(c, x, k, n) /\ At(c, x, k, n)

\* A script and a place in it; Here bounds the four of them.
IInv == \E c, x, k, n : Inside(c, x, k, n)

-----------------------------------------------------------------------------
(* The scripts. *)

\* s is the k-th step of c.
Goes(c, x, k, s) ==
    CASE s[1] = "sweep" -> (c = "up" /\ k = 1) \/ (c = "rebuild" /\ k = 13)
      [] s[1] = "resume" -> (c = "up" /\ k = 2) \/ (c = "back" /\ k = 6)
      [] s[1] = "load" -> (c = "up" /\ k = 3) \/ (c = "back" /\ k = 7) \/ (c = "again" /\ k = 10)
      [] s[1] = "stash" -> c = "back" /\ ((k = 1 /\ s[2] = "paragraph") \/ (k = 3 /\ s[2] = "graph"))
      [] s[1] = "return" -> c = "back" /\ ((k = 2 /\ s[2] = "paragraph") \/ (k = 4 /\ s[2] = "graph"))
      [] s[1] = "settled" -> c = "back" /\ k = 5
      [] s[1] = "quarantine" -> Recovering(c) /\ k = 1
      [] s[1] = "note" -> Recovering(c) /\ \/ k = 2 /\ s[2] = "quarantined"
                                           \/ k = 4 /\ s[2] = "metadata_reset"
                                           \/ k = 8 /\ s[2] = "new_generation_ready"
      [] s[1] = "reset" -> Recovering(c) /\ k = 3
      [] s[1] = "renew" -> Recovering(c) /\ ((k = 5 /\ s[2] = "paragraph") \/ (k = 6 /\ s[2] = "graph"))
      [] s[1] = "fresh" -> Recovering(c) /\ k = 7
      [] s[1] = "view" -> Recovering(c) /\ k = 9
      [] s[1] = "encode" -> c = "rebuild" /\ ((k = 1 /\ s[2] = "paragraph") \/ (k = 2 /\ s[2] = "graph"))
      [] s[1] = "build" -> c = "rebuild" /\ ((k = 3 /\ s[2] = "paragraph") \/ (k = 4 /\ s[2] = "graph"))
      [] s[1] = "prepare" -> c = "rebuild" /\ ((k = 5 /\ s[2] = "bare") \/ (k = 6 /\ s[2] = "prepared"))
      [] s[1] = "out" -> c = "rebuild" /\ ((k = 7 /\ s[2] = "paragraph") \/ (k = 8 /\ s[2] = "graph"))
      [] s[1] = "in" -> c = "rebuild" /\ ((k = 9 /\ s[2] = "paragraph") \/ (k = 10 /\ s[2] = "graph"))
      [] s[1] = "activated" -> c = "rebuild" /\ k = 11
      [] s[1] = "manifest" -> (c = "rebuild" /\ k \in {12, 21}) \/ (c = "copying" /\ k = 4)
      [] s[1] = "reload" -> (c = "rebuild" /\ k = 14) \/ (c = "failed" /\ k = 2)
      [] s[1] = "missing" -> c = "rebuild" /\ ((k = 15 /\ s[2] = "paragraph") \/ (k = 17 /\ s[2] = "graph"))
      [] s[1] = "fill" -> c = "rebuild" /\ ((k = 16 /\ s[2] = "paragraph") \/ (k = 18 /\ s[2] = "graph"))
      [] s[1] = "save" -> \/ c = "rebuild" /\ ((k = 19 /\ s[2] = "paragraph") \/ (k = 20 /\ s[2] = "graph"))
                          \/ c = "copying" /\ ((k = 2 /\ s[2] = "paragraph") \/ (k = 3 /\ s[2] = "graph"))
      [] s[1] = "clear" -> c = "rebuild" /\ k = 22
      [] s[1] = "finish" -> (c = "rebuild" /\ k = 23 /\ s[2] = x) \/ (c = "failed" /\ k = 3 /\ s[2] = "failed")
      [] s[1] = "drop" -> c = "failed" /\ k = 1
      [] s[1] = "rebuilt" -> c = "rebuilt" /\ k = 1 /\ s[2] = x
      [] s[1] = "copy" -> c = "copying" /\ k = 1 /\ s[2] = x
      [] s[1] = "cursor" -> c = "copying" /\ k = 5 /\ s[2] = x
      [] OTHER -> FALSE

\* Goes lists every step of every call.
LEMMA Table ==
    ASSUME NEW c \in Calls, NEW x, NEW k \in 1 .. End(c)
    PROVE  Goes(c, x, k, Body(c, x)[k])
<1>1. CASE c = "up"
  BY <1>1 DEF Body, End, Goes
<1>2. CASE c = "back"
  BY <1>2 DEF Body, End, Goes
<1>3. CASE c = "again"
  BY <1>3 DEF Body, End, Goes, Recovering
<1>4. CASE c = "recover"
  BY <1>4 DEF Body, End, Goes, Recovering, Recovery
<1>5. CASE c = "rebuild"
  BY <1>5 DEF Body, End, Goes
<1>6. CASE c = "failed"
  BY <1>6 DEF Body, End, Goes
<1>7. CASE c = "rebuilt"
  BY <1>7 DEF Body, End, Goes
<1>8. CASE c = "copying"
  BY <1>8 DEF Body, End, Goes, Copying
<1>9. CASE c \in {"off", "idle"}
  BY <1>9 DEF End
<1> QED BY <1>1, <1>2, <1>3, <1>4, <1>5, <1>6, <1>7, <1>8, <1>9 DEF Calls

\* A script is a sequence of steps.
LEMMA BodyIs ==
    ASSUME NEW c \in Calls, NEW x, Fits(c, x)
    PROVE  Body(c, x) \in Seq(Steps) /\ Len(Body(c, x)) = End(c) /\ End(c) \in Nat /\ End(c) <= 23
<1>1. CASE c = "up"
  BY <1>1 DEF Body, End, Steps, Names
<1>2. CASE c = "back"
  BY <1>2 DEF Body, End, Steps, Names, Values
<1>3. CASE c = "again"
  BY <1>3 DEF Body, End, Steps, Names, Values
<1>4. CASE c = "recover"
  BY <1>4 DEF Body, End, Recovery, Steps, Names, Values
<1>5. CASE c = "rebuild"
  BY <1>5 DEF Body, End, Fits, Steps, Names, Values
<1>6. CASE c = "failed"
  BY <1>6 DEF Body, End, Steps, Names, Values
<1>7. CASE c = "rebuilt"
  BY <1>7 DEF Body, End, Fits, Steps, Names, Values, Outcomes
<1>8. CASE c = "copying"
  BY <1>8 DEF Body, End, Fits, Copying, Steps, Names, Values
<1>9. CASE c \in {"off", "idle"}
  BY <1>9 DEF Body, End
<1> QED BY <1>1, <1>2, <1>3, <1>4, <1>5, <1>6, <1>7, <1>8, <1>9 DEF Calls

\* Something is left to do.
Busy == script # <<>>

\* The numbers of a place.
LEMMA HereIs ==
    ASSUME NEW c, NEW x, NEW k, NEW n, Here(c, x, k, n)
    PROVE  /\ c \in Calls /\ Fits(c, x) /\ n \in 0 .. 2 /\ n \in Nat /\ End(c) \in Nat /\ End(c) <= 23
           /\ k \in 1 .. 23 /\ k \in Nat
           /\ k \in 1 .. End(c) \/ (c \in Waits /\ k = 1 /\ End(c) = 0)
           /\ c \in Waits => End(c) = 0 /\ k = 1
           /\ script \in Seq(Steps) /\ Len(script) \in Nat /\ Len(script) = n + End(c) + 1 - k
<1>1. c \in Calls /\ Fits(c, x)
  BY DEF Here
<1>2. End(c) \in Nat /\ End(c) <= 23 /\ (c \in Waits => End(c) = 0)
  BY <1>1, BodyIs DEF End, Waits
<1>3. script \in Seq(Steps) /\ Len(script) \in Nat /\ Len(script) = n + End(c) + 1 - k
  BY LenProperties DEF Here
<1>4. n \in 0 .. 2 /\ (k \in 1 .. End(c) \/ (c \in Waits /\ k = 1))
  BY DEF Here
<1>5. k \in 1 .. End(c) \/ (c \in Waits /\ k = 1 /\ End(c) = 0)
  BY <1>2, <1>4
<1>6. k \in Nat /\ k \in 1 .. 23 /\ n \in Nat /\ (c \in Waits => k = 1)
  BY <1>2, <1>4, <1>5
<1> QED BY <1>1, <1>2, <1>3, <1>4, <1>5, <1>6

\* The elements of the script.
LEMMA HereAre ==
    ASSUME NEW c, NEW x, NEW k, NEW n, Here(c, x, k, n)
    PROVE  /\ \A i \in 1 .. n : Ahead(n, i)
           /\ \A i \in 1 .. End(c) + 1 - k : script[n + i] = Body(c, x)[k + i - 1]
           /\ n > 0 => /\ run.mode # "none" /\ (run.mode = "single" => n = 1)
                       /\ \/ c = "idle" \/ c = "rebuilt"
                          \/ c = "copying" /\ k = 1
                          \/ c = "rebuild" /\ k \in {1, 2, 16, 18}
BY DEF Here

\* What is at the head of the script.
LEMMA Places ==
    ASSUME NEW c, NEW x, NEW k, NEW n, Here(c, x, k, n), Busy
    PROVE  /\ n = 0 => k \in 1 .. End(c) /\ End(c) \in Nat /\ End(c) <= 23 /\ Goes(c, x, k, Head(script))
           /\ n > 0 => /\ Head(script)[1] = "save"
                       /\ run.mode = "single" => n = 1 /\ Head(script)[2] = "single"
                       /\ run.mode # "single" => Head(script)[2] = IF n = 2 THEN "paragraph" ELSE "graph"
           /\ n = 0 => c \notin Waits
<1>1. script \in Seq(Steps) /\ Len(script) \in Nat \ {0} /\ Head(script) = script[1]
  BY HereIs, EmptySeq, HeadTailProperties DEF Busy
<1>2. CASE n = 0
  <2>1. k \in 1 .. End(c) /\ End(c) \in Nat /\ End(c) <= 23 /\ c \in Calls
    BY <1>1, <1>2, HereIs
  <2>2. 1 \in 1 .. End(c) + 1 - k /\ k + 1 - 1 = k /\ n + 1 = 1
    BY <1>2, <2>1
  <2>3. script[n + 1] = Body(c, x)[k + 1 - 1]
    BY <2>2, HereAre
  <2>4. c \notin Waits
    BY <2>1 DEF End, Waits
  <2> QED BY <1>1, <1>2, <2>1, <2>2, <2>3, <2>4, Table
<1>3. CASE n > 0
  <2>1. n \in 1 .. 2 /\ 1 \in 1 .. n /\ Ahead(n, 1)
    BY <1>3, HereIs, HereAre
  <2>2. run.mode = "single" => n = 1
    BY <1>3, HereAre
  <2> QED BY <1>1, <1>3, <2>1, <2>2 DEF Ahead
<1> QED BY <1>2, <1>3, HereIs

\* Anything but a save is a step of the call.
LEMMA Steps1 ==
    ASSUME NEW c, NEW x, NEW k, NEW n, Here(c, x, k, n), NEW m, Doing(m), m # "save"
    PROVE  /\ n = 0 /\ c \in Calls /\ Fits(c, x) /\ k \in 1 .. End(c) /\ End(c) \in Nat /\ End(c) <= 23
           /\ Head(script)[1] = m /\ Goes(c, x, k, Head(script))
BY Places, HereIs DEF Doing, Busy

\* The rest of a script.
LEMMA Rest ==
    ASSUME NEW c, NEW x, NEW k, NEW n, Here(c, x, k, n), Busy
    PROVE  /\ Len(script) \in Nat \ {0}
           /\ Tail(script) \in Seq(Steps) /\ Len(Tail(script)) = Len(script) - 1
           /\ \A i \in 1 .. Len(script) - 1 : Tail(script)[i] = script[i + 1]
BY HereIs, EmptySeq, HeadTailProperties DEF Busy

\* A step done: the next one.
LEMMA Advance ==
    ASSUME NEW c, NEW x, NEW k, Here(c, x, k, 0), Busy, Done, k < End(c)
    PROVE  Here(c, x, k + 1, 0)'
<1>1. c \in Calls /\ Fits(c, x) /\ k \in 1 .. End(c) /\ End(c) \in Nat /\ End(c) <= 23
  BY Places, HereIs
<1>2. /\ script' \in Seq(Steps) /\ Len(script') = Len(script) - 1 /\ Len(script) = 0 + End(c) + 1 - k
      /\ \A i \in 1 .. Len(script) - 1 : script'[i] = script[i + 1]
  BY Rest, HereIs DEF Done
<1>3. \A i \in 1 .. End(c) + 1 - k : script[0 + i] = Body(c, x)[k + i - 1]
  BY HereAre
<1>4. \A i \in 1 .. End(c) - k : script'[i] = Body(c, x)[k + i]
  <2> SUFFICES ASSUME NEW i \in 1 .. End(c) - k PROVE script'[i] = Body(c, x)[k + i]
    OBVIOUS
  <2>1. i + 1 \in 1 .. End(c) + 1 - k /\ k + (i + 1) - 1 = k + i /\ 0 + (i + 1) = i + 1
    BY <1>1
  <2>2. i \in 1 .. Len(script) - 1
    BY <1>1, <1>2
  <2>3. script'[i] = script[i + 1]
    BY <1>2, <2>2
  <2>4. script[0 + (i + 1)] = Body(c, x)[k + (i + 1) - 1]
    BY <1>3, <2>1
  <2> QED BY <2>1, <2>3, <2>4
<1>5. k + 1 \in 1 .. End(c) /\ Len(script') = 0 + End(c) + 1 - (k + 1) /\ End(c) + 1 - (k + 1) = End(c) - k
  BY <1>1, <1>2
<1>6. \A i \in 1 .. End(c) + 1 - (k + 1) : script'[0 + i] = Body(c, x)[(k + 1) + i - 1]
  <2> SUFFICES ASSUME NEW i \in 1 .. End(c) + 1 - (k + 1) PROVE script'[0 + i] = Body(c, x)[(k + 1) + i - 1]
    OBVIOUS
  <2>1. i \in 1 .. End(c) - k /\ 0 + i = i /\ (k + 1) + i - 1 = k + i
    BY <1>1
  <2> QED BY <1>4, <2>1
<1> QED BY <1>1, <1>2, <1>5, <1>6 DEF Here

\* No script.
LEMMA Idles ==
    ASSUME NEW c \in Waits, script' = <<>>
    PROVE  Here(c, "none", 1, 0)'
<1>1. End(c) = 0 /\ c \in Calls /\ Fits(c, "none")
  BY DEF End, Waits, Calls, Fits, Args
<1>2. <<>> \in Seq(Steps) /\ Len(<<>>) = 0
  BY EmptySeq
<1> QED BY <1>1, <1>2 DEF Here

\* The last step done: nothing is left to do.
LEMMA Ends ==
    ASSUME NEW c, NEW x, NEW k, Here(c, x, k, 0), Busy, Done, k = End(c)
    PROVE  Here("idle", "none", 1, 0)'
<1>1. /\ script' \in Seq(Steps) /\ Len(script') = Len(script) - 1 /\ Len(script) = 0 + End(c) + 1 - k
      /\ End(c) \in Nat
  BY Rest, HereIs DEF Done
<1>2. Len(script') = 0
  BY <1>1
<1>3. script' = <<>>
  BY <1>1, <1>2, EmptySeq
<1> QED BY <1>3, Idles DEF Waits

\* A save done.
LEMMA Saved ==
    ASSUME NEW c, NEW x, NEW k, NEW n, Here(c, x, k, n), n > 0, Busy, Done, run'.mode = run.mode
    PROVE  Here(c, x, k, n - 1)'
<1>1. c \in Calls /\ Fits(c, x) /\ End(c) \in Nat /\ End(c) <= 23 /\ n \in 1 .. 2
  BY HereIs
<1>2. /\ script' \in Seq(Steps) /\ Len(script') = Len(script) - 1 /\ Len(script) = n + End(c) + 1 - k
      /\ \A i \in 1 .. Len(script) - 1 : script'[i] = script[i + 1]
  BY Rest, HereIs DEF Done
<1>3. k \in 1 .. End(c) \/ (c \in Waits /\ k = 1 /\ End(c) = 0)
  BY HereIs
<1>4. \A i \in 1 .. n - 1 : Ahead(n - 1, i)'
  <2> SUFFICES ASSUME n = 2 PROVE Ahead(1, 1)'
    BY <1>1
  <2>1. Ahead(2, 2) /\ run.mode # "single"
    BY HereAre
  <2>2. script'[1] = script[1 + 1]
    BY <1>1, <1>2, <1>3
  <2> QED BY <2>1, <2>2 DEF Ahead
<1>5. \A i \in 1 .. End(c) + 1 - k : script'[n - 1 + i] = Body(c, x)[k + i - 1]
  <2> SUFFICES ASSUME NEW i \in 1 .. End(c) + 1 - k PROVE script'[n - 1 + i] = Body(c, x)[k + i - 1]
    OBVIOUS
  <2>1. script[n + i] = Body(c, x)[k + i - 1]
    BY HereAre
  <2>2. n - 1 + i \in 1 .. Len(script) - 1 /\ (n - 1 + i) + 1 = n + i
    BY <1>1, <1>2, <1>3
  <2> QED BY <1>2, <2>1, <2>2
<1>6. n > 0 => /\ run.mode # "none" /\ (run.mode = "single" => n = 1)
               /\ \/ c = "idle" \/ c = "rebuilt"
                  \/ c = "copying" /\ k = 1
                  \/ c = "rebuild" /\ k \in {1, 2, 16, 18}
  BY HereAre
<1>7. /\ n - 1 \in 0 .. 2 /\ Len(script') = (n - 1) + End(c) + 1 - k
      /\ n - 1 > 0 => run'.mode # "none" /\ run'.mode # "single"
  BY <1>1, <1>2, <1>3, <1>6
<1>8. k \in 1 .. End(c) \/ (c \in Waits /\ k = 1)
  BY <1>3
<1> QED BY <1>1, <1>2, <1>4, <1>5, <1>6, <1>7, <1>8 DEF Here

\* A new script.
LEMMA Begins ==
    ASSUME NEW c, NEW x, c \in Calls \ Waits, Fits(c, x), script' = Body(c, x)
    PROVE  Here(c, x, 1, 0)'
<1>1. Body(c, x) \in Seq(Steps) /\ Len(Body(c, x)) = End(c) /\ End(c) \in Nat \ {0}
  BY BodyIs DEF Calls, Waits, End
<1>2. /\ script' \in Seq(Steps) /\ Len(script') = 0 + End(c) + 1 - 1 /\ 1 \in 1 .. End(c)
      /\ \A i \in 1 .. End(c) + 1 - 1 : script'[0 + i] = Body(c, x)[1 + i - 1]
  BY <1>1
<1> QED BY <1>2 DEF Here

\* The event loop is free.
LEMMA Free ==
    ASSUME NEW c, NEW x, NEW k, NEW n, Here(c, x, k, n), LoopFree
    PROVE  /\ n = 0
           /\ \/ c = "idle" \/ c = "off"
              \/ c = "copying" /\ k = 1
              \/ c = "rebuild" /\ k \in {1, 2, 16, 18}
<1>1. CASE ~Busy
  <2>1. Len(script) = 0
    BY <1>1, EmptySeq DEF Busy
  <2>2. n = 0 /\ c \in Waits
    BY <2>1, HereIs
  <2> QED BY <2>2 DEF Waits
<1>2. CASE Busy
  <2>1. Head(script)[1] \in Awaiting
    BY <1>2 DEF LoopFree, Busy
  <2>2. n = 0 /\ Goes(c, x, k, Head(script))
    BY <1>2, <2>1, Places, HereIs DEF Awaiting
  <2> QED BY <2>1, <2>2 DEF Goes, Awaiting
<1> QED BY <1>1, <1>2

\* A waiting call is empty.
LEMMA Empty ==
    ASSUME NEW c, NEW x, NEW k, NEW n, Here(c, x, k, n), ~Busy
    PROVE  n = 0 /\ k = 1 /\ c \in Waits
<1>1. Len(script) = 0
  BY EmptySeq DEF Busy
<1> QED BY <1>1, HereIs

\* _persist comes first.
LEMMA Persists ==
    ASSUME NEW c, NEW x, NEW k, Here(c, x, k, 0), script' = Persist \o script, run'.mode = run.mode,
           run.mode \in {"none", "single", "dual"},
           \/ c = "idle" \/ c = "rebuilt"
           \/ c = "copying" /\ k = 1
           \/ c = "rebuild" /\ k \in {1, 2, 16, 18}
    PROVE  \E n \in 0 .. 2 : Here(c, x, k, n)'
<1>1. PICK n \in 0 .. 2 : n = IF run.mode = "none" THEN 0 ELSE IF run.mode = "single" THEN 1 ELSE 2
  OBVIOUS
<1>2. /\ Persist \in Seq(Steps) /\ Len(Persist) = n
      /\ run.mode = "single" => Persist[1] = <<"save", "single">>
      /\ run.mode = "dual" => Persist[1] = <<"save", "paragraph">> /\ Persist[2] = <<"save", "graph">>
  <2>1. CASE run.mode = "none"
    BY <1>1, <2>1, EmptySeq DEF Persist
  <2>2. CASE run.mode = "single"
    BY <1>1, <2>2 DEF Persist, Steps, Names, Values
  <2>3. CASE run.mode = "dual"
    BY <1>1, <2>3 DEF Persist, Steps, Names, Values
  <2> QED BY <2>1, <2>2, <2>3
<1>3. /\ script \in Seq(Steps) /\ Len(script) \in Nat /\ Len(script) = End(c) + 1 - k
      /\ c \in Calls /\ Fits(c, x) /\ End(c) \in Nat /\ End(c) <= 23 /\ k \in 1 .. 23
      /\ k \in 1 .. End(c) \/ (c \in Waits /\ k = 1)
  BY HereIs
<1>4. /\ script' \in Seq(Steps) /\ Len(script') = n + Len(script)
      /\ \A i \in 1 .. n : script'[i] = Persist[i]
      /\ \A i \in 1 .. Len(script) : script'[n + i] = script[i]
  <2>1. /\ Persist \o script \in Seq(Steps) /\ Len(Persist \o script) = Len(Persist) + Len(script)
        /\ \A i \in 1 .. Len(Persist) + Len(script) :
              (Persist \o script)[i] = IF i <= Len(Persist) THEN Persist[i] ELSE script[i - Len(Persist)]
    BY <1>2, <1>3, ConcatProperties
  <2>2. \A i \in 1 .. n : i \in 1 .. n + Len(script) /\ i <= n
    BY <1>3
  <2>3. \A i \in 1 .. Len(script) : n + i \in 1 .. n + Len(script) /\ ~(n + i <= n) /\ (n + i) - n = i
    BY <1>3
  <2> QED BY <1>2, <2>1, <2>2, <2>3
<1>5. \A i \in 1 .. n : Ahead(n, i)'
  BY <1>1, <1>2, <1>4 DEF Ahead
<1>6. \A i \in 1 .. End(c) + 1 - k : script[0 + i] = Body(c, x)[k + i - 1]
  BY HereAre
<1>7. \A i \in 1 .. End(c) + 1 - k : script'[n + i] = Body(c, x)[k + i - 1]
  <2> SUFFICES ASSUME NEW i \in 1 .. End(c) + 1 - k
               PROVE  script'[n + i] = Body(c, x)[k + i - 1]
    OBVIOUS
  <2>1. i \in 1 .. Len(script) /\ 0 + i = i
    BY <1>3
  <2>2. script'[n + i] = script[i]
    BY <1>4, <2>1
  <2>3. script[0 + i] = Body(c, x)[k + i - 1]
    BY <1>6
  <2> QED BY <2>1, <2>2, <2>3
<1>8. n > 0 => run'.mode # "none" /\ (run'.mode = "single" => n = 1)
  BY <1>1
<1>9. Len(script') = n + End(c) + 1 - k /\ script' \in Seq(Steps)
  BY <1>3, <1>4
<1>10. Here(c, x, k, n)'
  BY <1>3, <1>5, <1>7, <1>8, <1>9 DEF Here
<1> QED BY <1>10

\* Where a recovery is taken up.
Offset(stage) ==
    CASE stage = "prepared" -> 1 [] stage = "quarantined" -> 3 [] stage = "metadata_reset" -> 5
      [] OTHER -> 9

\* Its script.
LEMMA FromIs ==
    ASSUME NEW stage
    PROVE  /\ From(stage) \in Seq(Steps) /\ Offset(stage) \in 1 .. 9 /\ Len(From(stage)) = 10 - Offset(stage)
           /\ \A i \in 1 .. 10 - Offset(stage) :
                 /\ From(stage)[i] = Body("recover", "none")[Offset(stage) + i - 1]
                 /\ From(stage)[i] = Body("again", "none")[Offset(stage) + i - 1]
<1>1. Recovery \in Seq(Steps) /\ Len(Recovery) = 9
  BY DEF Recovery, Steps, Names, Values
<1>2. \A j \in 1 .. 9 : Recovery[j] = Body("recover", "none")[j] /\ Recovery[j] = Body("again", "none")[j]
  BY DEF Recovery, Body
<1>3. CASE stage = "prepared"
  <2>1. From(stage) = Recovery /\ Offset(stage) = 1
    BY <1>3 DEF From, Offset
  <2>2. \A i \in 1 .. 10 - 1 : i \in 1 .. 9 /\ 1 + i - 1 = i
    OBVIOUS
  <2> QED BY <1>1, <1>2, <2>1, <2>2
<1>4. ASSUME NEW j \in {3, 5, 9}, From(stage) = SubSeq(Recovery, j, 9), Offset(stage) = j
      PROVE  /\ From(stage) \in Seq(Steps) /\ Len(From(stage)) = 10 - j
             /\ \A i \in 1 .. 10 - j :
                   /\ From(stage)[i] = Body("recover", "none")[j + i - 1]
                   /\ From(stage)[i] = Body("again", "none")[j + i - 1]
  <2>1. j \in 1 .. Len(Recovery) + 1 /\ 9 \in j - 1 .. Len(Recovery)
    BY <1>1
  <2>2. /\ SubSeq(Recovery, j, 9) \in Seq(Steps) /\ Len(SubSeq(Recovery, j, 9)) = 9 - j + 1
        /\ \A i \in 1 .. 9 - j + 1 : SubSeq(Recovery, j, 9)[i] = Recovery[j + i - 1]
    BY <1>1, <2>1, SubSeqProperties
  <2>3. 9 - j + 1 = 10 - j /\ \A i \in 1 .. 10 - j : j + i - 1 \in 1 .. 9
    OBVIOUS
  <2> QED BY <1>2, <1>4, <2>2, <2>3
<1>5. CASE stage = "quarantined"
  BY <1>4, <1>5 DEF From, Offset
<1>6. CASE stage = "metadata_reset"
  BY <1>4, <1>6 DEF From, Offset
<1>7. CASE stage \notin {"prepared", "quarantined", "metadata_reset"}
  BY <1>4, <1>7 DEF From, Offset
<1> QED BY <1>3, <1>5, <1>6, <1>7

\* A recovery begins.
LEMMA Recovers ==
    ASSUME NEW stage, script' = From(stage) \o <<>>
    PROVE  Here("recover", "none", Offset(stage), 0)'
<1> DEFINE j == Offset(stage)
<1>1. script' = From(stage)
  BY FromIs, ConcatEmptySeq
<1>2. /\ script' \in Seq(Steps) /\ j \in 1 .. 9 /\ Len(script') = 10 - j
      /\ \A i \in 1 .. 10 - j : script'[i] = Body("recover", "none")[j + i - 1]
  BY <1>1, FromIs
<1>3. End("recover") = 9 /\ "recover" \in Calls /\ Fits("recover", "none")
  BY DEF End, Calls, Fits, Args
<1> HIDE DEF j
<1>4. /\ j \in 1 .. 9 /\ Len(script') = 0 + 9 + 1 - j
      /\ \A i \in 1 .. 9 + 1 - j : 0 + i = i /\ i \in 1 .. 10 - j
  BY <1>2
<1>5. Here("recover", "none", j, 0)'
  BY <1>2, <1>3, <1>4 DEF Here
<1> QED BY <1>5 DEF j

\* At start-up it comes before the stores are loaded.
LEMMA RecoversAgain ==
    ASSUME NEW stage, NEW rest, NEW j, j = Offset(stage), rest = << <<"load">> >>, script' = From(stage) \o rest
    PROVE  Here("again", "none", j, 0)'
<1>1. /\ From(stage) \in Seq(Steps) /\ j \in 1 .. 9 /\ Len(From(stage)) = 10 - j
      /\ \A i \in 1 .. 10 - j : From(stage)[i] = Body("again", "none")[j + i - 1]
  BY FromIs
<1>2. rest \in Seq(Steps) /\ Len(rest) = 1 /\ rest[1] = <<"load">>
  BY DEF Steps, Names
<1>3. /\ script' \in Seq(Steps) /\ Len(script') = 10 - j + 1
      /\ \A i \in 1 .. 10 - j + 1 :
            script'[i] = IF i <= 10 - j THEN From(stage)[i] ELSE rest[i - (10 - j)]
  BY <1>1, <1>2, ConcatProperties
<1>4. Body("again", "none")[10] = <<"load">>
  BY DEF Body
<1>5. \A i \in 1 .. 11 - j : script'[i] = Body("again", "none")[j + i - 1]
  <2> SUFFICES ASSUME NEW i \in 1 .. 11 - j PROVE script'[i] = Body("again", "none")[j + i - 1]
    OBVIOUS
  <2>1. i \in 1 .. 10 - j + 1
    BY <1>1
  <2>2. CASE i <= 10 - j
    <3>1. i \in 1 .. 10 - j
      BY <1>1, <2>2
    <3> QED BY <1>1, <1>3, <2>1, <2>2, <3>1
  <2>3. CASE ~(i <= 10 - j)
    <3>1. i - (10 - j) = 1 /\ j + i - 1 = 10
      BY <1>1, <2>3
    <3> QED BY <1>2, <1>3, <1>4, <2>1, <2>3, <3>1
  <2> QED BY <2>2, <2>3
<1>6. End("again") = 10 /\ "again" \in Calls /\ Fits("again", "none")
  BY DEF End, Calls, Fits, Args
<1>7. /\ j \in 1 .. 10 /\ Len(script') = 0 + 10 + 1 - j
      /\ \A i \in 1 .. 10 + 1 - j : 0 + i = i /\ i \in 1 .. 11 - j
  BY <1>1, <1>3
<1>8. \A i \in 1 .. 10 + 1 - j : script'[0 + i] = Body("again", "none")[j + i - 1]
  BY <1>5, <1>7
<1>9. 0 \in 0 .. 2 /\ ~(0 > 0) /\ 1 .. 0 = {}
  OBVIOUS
<1>10. Here("again", "none", j, 0)'
  BY <1>3, <1>6, <1>7, <1>8, <1>9 DEF Here
<1> QED BY <1>10

\* What start-up does after the sweep.
LEMMA Sweeping ==
    ASSUME NEW x, Here("up", x, 1, 0)
    PROVE  /\ Tail(script) \in Seq(Steps) /\ Len(Tail(script)) = 2
           /\ Tail(script)[1] = <<"resume">> /\ Tail(script)[2] = <<"load">>
<1>1. End("up") = 3
  BY DEF End
<1>2. Len(script) = 3 /\ script \in Seq(Steps)
  <2>1. Len(script) = 0 + End("up") + 1 - 1 /\ script \in Seq(Steps)
    BY HereIs
  <2> QED BY <1>1, <2>1
<1>3. Busy
  BY <1>2, EmptySeq DEF Busy
<1>4. script[0 + 2] = Body("up", x)[1 + 2 - 1] /\ script[0 + 3] = Body("up", x)[1 + 3 - 1]
  BY <1>1, HereAre
<1>5. script[2] = <<"resume">> /\ script[3] = <<"load">>
  BY <1>4 DEF Body
<1> QED BY <1>2, <1>3, <1>5, Rest

\* The steps of taking back come before them.
LEMMA Joined ==
    ASSUME NEW s \in Seq(Steps), Len(s) = 2, s[1] = <<"resume">>, s[2] = <<"load">>
    PROVE  /\ TakeBack \o s \in Seq(Steps) /\ Len(TakeBack \o s) = 7
           /\ \A i \in 1 .. 7 : (TakeBack \o s)[i] = Body("back", "none")[i]
<1>1. /\ TakeBack \in Seq(Steps) /\ Len(TakeBack) = 5
      /\ \A i \in 1 .. 5 : TakeBack[i] = Body("back", "none")[i]
  BY DEF TakeBack, Body, Steps, Names, Values
<1>2. Body("back", "none")[6] = <<"resume">> /\ Body("back", "none")[7] = <<"load">>
  BY DEF Body
<1> DEFINE t == TakeBack \o s
<1>3. /\ t \in Seq(Steps) /\ Len(t) = 5 + 2
      /\ \A i \in 1 .. 5 + 2 : t[i] = IF i <= 5 THEN TakeBack[i] ELSE s[i - 5]
  <2>1. /\ TakeBack \o s \in Seq(Steps) /\ Len(TakeBack \o s) = Len(TakeBack) + Len(s)
        /\ \A i \in 1 .. Len(TakeBack) + Len(s) :
              (TakeBack \o s)[i] = IF i <= Len(TakeBack) THEN TakeBack[i] ELSE s[i - Len(TakeBack)]
    BY <1>1, ConcatProperties
  <2> QED BY <1>1, <2>1
<1> HIDE DEF t
<1>4. \A i \in 1 .. 7 : t[i] = Body("back", "none")[i]
  <2> SUFFICES ASSUME NEW i \in 1 .. 7 PROVE t[i] = Body("back", "none")[i]
    OBVIOUS
  <2>1. CASE i \in 1 .. 5
    BY <1>1, <1>3, <2>1
  <2>2. CASE i = 6
    BY <1>2, <1>3, <2>2
  <2>3. CASE i = 7
    BY <1>2, <1>3, <2>3
  <2> QED BY <2>1, <2>2, <2>3
<1> QED BY <1>3, <1>4 DEF t

\* An interrupted switch is taken back.
LEMMA TakesBack ==
    ASSUME NEW x, Here("up", x, 1, 0), script' = TakeBack \o Tail(script)
    PROVE  Here("back", "none", 1, 0)'
<1>1. /\ script' \in Seq(Steps) /\ Len(script') = 7
      /\ \A i \in 1 .. 7 : script'[i] = Body("back", "none")[i]
  BY Sweeping, Joined
<1>2. End("back") = 7 /\ "back" \in Calls /\ Fits("back", "none")
  BY DEF End, Calls, Fits, Args
<1> HIDE DEF TakeBack
<1>3. /\ 1 \in 1 .. 7 /\ 7 = 0 + 7 + 1 - 1 /\ 0 \in 0 .. 2 /\ ~(0 > 0) /\ 1 .. 0 = {}
      /\ \A i \in 1 .. 7 + 1 - 1 : 0 + i = i /\ 1 + i - 1 = i /\ i \in 1 .. 7
  OBVIOUS
<1>4. \A i \in 1 .. 7 + 1 - 1 : script'[0 + i] = Body("back", "none")[1 + i - 1]
  BY <1>1, <1>3
<1> QED BY <1>1, <1>2, <1>3, <1>4 DEF Here

\* The rest is left as it lies.
LEMMA Skips ==
    ASSUME script' = << <<"resume">>, <<"load">> >>
    PROVE  Here("up", "none", 2, 0)'
<1>1. /\ script' \in Seq(Steps) /\ Len(script') = 2
      /\ script'[1] = Body("up", "none")[2] /\ script'[2] = Body("up", "none")[3]
  BY DEF Body, Steps, Names
<1>2. End("up") = 3 /\ "up" \in Calls /\ Fits("up", "none")
  BY DEF End, Calls, Fits, Args
<1>3. /\ 2 \in 1 .. 3 /\ 2 = 0 + 3 + 1 - 2 /\ 0 \in 0 .. 2 /\ ~(0 > 0) /\ 1 .. 0 = {}
      /\ \A i \in 1 .. 3 + 1 - 2 : i \in {1, 2} /\ 0 + i = i
  OBVIOUS
<1>4. \A i \in 1 .. 3 + 1 - 2 : script'[0 + i] = Body("up", "none")[2 + i - 1]
  BY <1>1, <1>3
<1> QED BY <1>1, <1>2, <1>3, <1>4 DEF Here

\* Nothing done.
LEMMA Stays ==
    ASSUME NEW c, NEW x, NEW k, Here(c, x, k, 0), UNCHANGED script
    PROVE  Here(c, x, k, 0)'
<1>1. script' = script
  OBVIOUS
<1>2. /\ c \in Calls /\ Fits(c, x) /\ (k \in 1 .. End(c) \/ (c \in Waits /\ k = 1)) /\ 0 \in 0 .. 2
      /\ script \in Seq(Steps) /\ Len(script) = 0 + End(c) + 1 - k /\ 1 .. 0 = {} /\ ~(0 > 0)
      /\ \A i \in 1 .. End(c) + 1 - k : script[0 + i] = Body(c, x)[k + i - 1]
  BY DEF Here
<1> QED BY <1>1, <1>2 DEF Here

\* The last word of a rebuild, after _persist.
LEMMA Finishes ==
    ASSUME NEW x \in Outcomes, script' = Persist \o << <<"rebuilt", x>> >>, run'.mode = run.mode,
           run.mode \in {"none", "single", "dual"}
    PROVE  \E n \in 0 .. 2 : Here("rebuilt", x, 1, n)'
<1>1. PICK n \in 0 .. 2 : n = IF run.mode = "none" THEN 0 ELSE IF run.mode = "single" THEN 1 ELSE 2
  OBVIOUS
<1>2. /\ Persist \in Seq(Steps) /\ Len(Persist) = n
      /\ run.mode = "single" => Persist[1] = <<"save", "single">>
      /\ run.mode = "dual" => Persist[1] = <<"save", "paragraph">> /\ Persist[2] = <<"save", "graph">>
  <2>1. CASE run.mode = "none"
    BY <1>1, <2>1, EmptySeq DEF Persist
  <2>2. CASE run.mode = "single"
    BY <1>1, <2>2 DEF Persist, Steps, Names, Values
  <2>3. CASE run.mode = "dual"
    BY <1>1, <2>3 DEF Persist, Steps, Names, Values
  <2> QED BY <2>1, <2>2, <2>3
<1> DEFINE s == << <<"rebuilt", x>> >>
<1>3. s \in Seq(Steps) /\ Len(s) = 1 /\ s[1] = <<"rebuilt", x>>
  BY DEF Steps, Names, Values, Outcomes
<1>4. script' = Persist \o s
  OBVIOUS
<1> HIDE DEF s
<1>5. /\ script' \in Seq(Steps) /\ Len(script') = n + 1
      /\ \A i \in 1 .. n : script'[i] = Persist[i]
      /\ script'[n + 1] = <<"rebuilt", x>>
  <2>1. /\ script' \in Seq(Steps) /\ Len(script') = Len(Persist) + Len(s)
        /\ \A i \in 1 .. Len(Persist) + Len(s) :
              script'[i] = IF i <= Len(Persist) THEN Persist[i] ELSE s[i - Len(Persist)]
    <3>1. /\ Persist \o s \in Seq(Steps) /\ Len(Persist \o s) = Len(Persist) + Len(s)
          /\ \A i \in 1 .. Len(Persist) + Len(s) :
                (Persist \o s)[i] = IF i <= Len(Persist) THEN Persist[i] ELSE s[i - Len(Persist)]
      BY <1>2, <1>3, ConcatProperties
    <3> QED BY <1>4, <3>1
  <2>2. \A i \in 1 .. n : i \in 1 .. n + 1 /\ i <= n
    OBVIOUS
  <2>3. n + 1 \in 1 .. n + 1 /\ ~(n + 1 <= n) /\ (n + 1) - n = 1
    OBVIOUS
  <2> QED BY <1>2, <1>3, <2>1, <2>2, <2>3
<1>6. \A i \in 1 .. n : Ahead(n, i)'
  BY <1>1, <1>2, <1>5 DEF Ahead
<1>7. /\ End("rebuilt") = 1 /\ "rebuilt" \in Calls
      /\ Fits("rebuilt", x) /\ Body("rebuilt", x)[1] = <<"rebuilt", x>>
  BY DEF End, Calls, Fits, Args, Body
<1>8. n > 0 => run'.mode # "none" /\ (run'.mode = "single" => n = 1)
  BY <1>1
<1>9. /\ n + 1 = n + 1 + 1 - 1 /\ 1 \in 1 .. 1
      /\ \A i \in 1 .. 1 + 1 - 1 : i = 1 /\ 1 + i - 1 = 1
  OBVIOUS
<1>10. \A i \in 1 .. 1 + 1 - 1 : script'[n + i] = Body("rebuilt", x)[1 + i - 1]
  BY <1>5, <1>7, <1>9
<1>11. Here("rebuilt", x, 1, n)'
  BY <1>5, <1>6, <1>7, <1>8, <1>9, <1>10 DEF Here
<1> QED BY <1>11

\* Filling in has failed: the rebuild goes on, and will say so.
LEMMA Unfilled ==
    ASSUME NEW x, NEW k, Here("rebuild", x, k, 0), k \in {16, 18},
           script' = [i \in 1 .. Len(script) - 1 |->
                        IF script[i + 1] = <<"finish", "filled">> THEN <<"finish", "unfilled">>
                        ELSE script[i + 1]]
    PROVE  Here("rebuild", "unfilled", k + 1, 0)'
<1>1. End("rebuild") = 23 /\ "rebuild" \in Calls /\ Fits("rebuild", "unfilled")
  BY DEF End, Calls, Fits, Args, Outcomes
<1>2. x \in {"filled", "unfilled"}
  BY HereIs DEF Fits
<1>3. Len(script) = 24 - k
  <2>1. Len(script) = 0 + End("rebuild") + 1 - k
    BY HereIs
  <2> QED BY <1>1, <2>1
<1>4. \A i \in 1 .. 24 - k : script[0 + i] = Body("rebuild", x)[k + i - 1]
  <2>1. \A i \in 1 .. End("rebuild") + 1 - k : script[0 + i] = Body("rebuild", x)[k + i - 1]
    BY HereAre
  <2>2. End("rebuild") + 1 - k = 24 - k
    BY <1>1
  <2> QED BY <2>1, <2>2
<1>5. \A j \in 16 .. 23 :
         Body("rebuild", "unfilled")[j] =
            IF Body("rebuild", x)[j] = <<"finish", "filled">> THEN <<"finish", "unfilled">>
            ELSE Body("rebuild", x)[j]
  <2>1. \A j \in 16 .. 22 : Body("rebuild", "unfilled")[j] = Body("rebuild", x)[j]
    BY DEF Body
  <2>2. Body("rebuild", "unfilled")[23] = <<"finish", "unfilled">> /\ Body("rebuild", x)[23] = <<"finish", x>>
    BY DEF Body
  <2>3. \A j \in 16 .. 22 : Body("rebuild", x)[j] # <<"finish", "filled">>
    <3> SUFFICES ASSUME NEW j \in 16 .. 22, Body("rebuild", x)[j] = <<"finish", "filled">> PROVE FALSE
      OBVIOUS
    <3>1. Goes("rebuild", x, j, <<"finish", "filled">>)
      <4>1. j \in 1 .. End("rebuild")
        BY <1>1
      <4>2. Goes("rebuild", x, j, Body("rebuild", x)[j])
        BY <1>1, <4>1, Table
      <4> QED BY <4>2
    <3> QED BY <3>1 DEF Goes
  <2>4. \A j \in 16 .. 23 : j \in 16 .. 22 \/ j = 23
    OBVIOUS
  <2>5. <<"finish", x>> = <<"finish", "filled">> <=> x = "filled"
    OBVIOUS
  <2> QED BY <1>2, <2>1, <2>2, <2>3, <2>4, <2>5
<1>6. \A i \in 1 .. 23 - k : script'[i] = Body("rebuild", "unfilled")[k + i]
  <2> SUFFICES ASSUME NEW i \in 1 .. 23 - k PROVE script'[i] = Body("rebuild", "unfilled")[k + i]
    OBVIOUS
  <2>1. i + 1 \in 1 .. 24 - k /\ k + (i + 1) - 1 = k + i /\ 0 + (i + 1) = i + 1 /\ k + i \in 16 .. 23
    OBVIOUS
  <2>2. script[i + 1] = Body("rebuild", x)[k + i]
    BY <1>4, <2>1
  <2>3. script'[i] = IF script[i + 1] = <<"finish", "filled">> THEN <<"finish", "unfilled">> ELSE script[i + 1]
    BY <1>3
  <2> QED BY <1>5, <2>1, <2>2, <2>3
<1>7. \A j \in 16 .. 23 : Body("rebuild", "unfilled")[j] \in Steps
  <2>1. Body("rebuild", "unfilled") \in Seq(Steps) /\ Len(Body("rebuild", "unfilled")) = 23
    BY <1>1, BodyIs
  <2>2. \A j \in 16 .. 23 : j \in 1 .. 23
    OBVIOUS
  <2> QED BY <2>1, <2>2, ElementOfSeq
<1>8. script' \in Seq(Steps) /\ Len(script') = 23 - k
  <2>1. \A i \in 1 .. 23 - k : script'[i] \in Steps
    <3>1. \A i \in 1 .. 23 - k : k + i \in 16 .. 23
      OBVIOUS
    <3> QED BY <1>6, <1>7, <3>1
  <2>2. script' = [i \in 1 .. 23 - k |-> script'[i]]
    BY <1>3
  <2>3. 23 - k \in Nat
    OBVIOUS
  <2>4. script' \in [1 .. 23 - k -> Steps]
    BY <2>1, <2>2
  <2>5. script' \in Seq(Steps)
    BY <2>3, <2>4, SeqDef
  <2>6. DOMAIN script' = 1 .. Len(script') /\ Len(script') \in Nat /\ DOMAIN script' = 1 .. 23 - k
    BY <2>4, <2>5, LenProperties
  <2>7. \A a, b \in Nat : 1 .. a = 1 .. b => a = b
    <3> SUFFICES ASSUME NEW a \in Nat, NEW b \in Nat, 1 .. a = 1 .. b PROVE a = b
      OBVIOUS
    <3>1. (a \in 1 .. a <=> a \in 1 .. b) /\ (b \in 1 .. a <=> b \in 1 .. b)
      OBVIOUS
    <3> QED BY <3>1
  <2> QED BY <2>3, <2>5, <2>6, <2>7
<1>9. /\ k + 1 \in 1 .. 23 /\ 23 - k = 0 + 23 + 1 - (k + 1) /\ 0 \in 0 .. 2 /\ ~(0 > 0) /\ 1 .. 0 = {}
      /\ \A i \in 1 .. 23 + 1 - (k + 1) : i \in 1 .. 23 - k /\ 0 + i = i /\ (k + 1) + i - 1 = k + i
  OBVIOUS
<1>10. \A i \in 1 .. 23 + 1 - (k + 1) : script'[0 + i] = Body("rebuild", "unfilled")[(k + 1) + i - 1]
  BY <1>6, <1>9
<1> QED BY <1>1, <1>8, <1>9, <1>10 DEF Here

\* A rebuild that has not moved the pools out is about to.
LEMMA OutAhead ==
    ASSUME NEW c, NEW x, NEW k, NEW n, Here(c, x, k, n)
    PROVE  <<"out", "paragraph">> \in ToSet(script) <=> c = "rebuild" /\ k <= 7
<1>1. /\ c \in Calls /\ Fits(c, x) /\ n \in 0 .. 2 /\ End(c) \in Nat /\ k \in 1 .. 23
      /\ k \in 1 .. End(c) \/ (c \in Waits /\ k = 1 /\ End(c) = 0)
      /\ script \in Seq(Steps) /\ Len(script) = n + End(c) + 1 - k
  BY HereIs
<1>2. \A i \in 1 .. End(c) + 1 - k : script[n + i] = Body(c, x)[k + i - 1]
  BY HereAre
<1>3. \A i \in 1 .. n : script[i][1] = "save"
  BY HereAre DEF Ahead
<1>4. ASSUME NEW i \in 1 .. Len(script), script[i] = <<"out", "paragraph">>
      PROVE  c = "rebuild" /\ k <= 7
  <2>1. ~(i <= n)
    BY <1>1, <1>3, <1>4
  <2>2. /\ i - n \in 1 .. End(c) + 1 - k /\ n + (i - n) = i
        /\ k + (i - n) - 1 \in 1 .. End(c) /\ k <= k + (i - n) - 1
    BY <1>1, <2>1
  <2>3. Body(c, x)[k + (i - n) - 1] = <<"out", "paragraph">>
    BY <1>2, <1>4, <2>2
  <2>4. Goes(c, x, k + (i - n) - 1, <<"out", "paragraph">>)
    BY <1>1, <2>2, <2>3, Table
  <2>5. c = "rebuild" /\ k + (i - n) - 1 = 7
    BY <2>4 DEF Goes
  <2> QED BY <2>2, <2>5
<1>5. ASSUME c = "rebuild", k <= 7 PROVE \E i \in 1 .. Len(script) : script[i] = <<"out", "paragraph">>
  <2>1. End(c) = 23 /\ Body(c, x)[7] = <<"out", "paragraph">>
    BY <1>5 DEF End, Body
  <2>2. 8 - k \in 1 .. End(c) + 1 - k /\ k + (8 - k) - 1 = 7 /\ n + (8 - k) \in 1 .. Len(script)
    <3>1. n \in Nat /\ k \in 1 .. 7 /\ Len(script) = n + 23 + 1 - k
      BY <1>1, <1>5, <2>1
    <3>2. 8 - k \in 1 .. 23 + 1 - k /\ k + (8 - k) - 1 = 7 /\ n + (8 - k) \in 1 .. n + 23 + 1 - k
      BY <3>1
    <3> QED BY <2>1, <3>1, <3>2
  <2>3. script[n + (8 - k)] = <<"out", "paragraph">>
    BY <1>2, <2>1, <2>2
  <2> QED BY <2>2, <2>3
<1>6. ToSet(script) = {script[i] : i \in 1 .. Len(script)}
  BY <1>1 DEF ToSet
<1> QED BY <1>4, <1>5, <1>6

-----------------------------------------------------------------------------
(* The directories. *)

\* What a directory may be.
LEMMA Dirs ==
    /\ Absent \in Dir /\ Blank \in Dir /\ NoDirs \in [Pools -> Dir]
    /\ \A has \in SUBSET Item, gen \in Nat : Store(has, gen) \in Dir
    /\ \A d \in Dir, e \in Dir : [d EXCEPT !.has = @ \cup e.has] \in Dir
    /\ \A d \in Dir : Made(d) \in Dir
BY DEF Dir, Absent, Blank, NoDirs, Store, Made

-----------------------------------------------------------------------------
(* The steps. *)

\* A pool is moved out.
LEMMA MoveOutStep ==
    ASSUME NEW c, NEW x, NEW k, NEW n, Inside(c, x, k, n), MoveOut
    PROVE  IInv'
<1>1. /\ n = 0 /\ c = "rebuild" /\ Busy /\ Here(c, x, k, 0)
      /\ (k = 7 /\ Arg = "paragraph") \/ (k = 8 /\ Arg = "graph")
  <2>1. n = 0 /\ Here(c, x, k, 0) /\ Busy /\ Head(script)[1] = "out" /\ Goes(c, x, k, Head(script))
    BY Steps1 DEF MoveOut, Inside, Doing, Busy
  <2>2. c = "rebuild" /\ ((k = 7 /\ Arg = "paragraph") \/ (k = 8 /\ Arg = "graph"))
    BY <2>1 DEF Goes, Arg
  <2> HIDE DEF Arg
  <2> QED BY <2>1, <2>2 DEF End
<1>2. Here("rebuild", x, k + 1, 0)' /\ x \in {"filled", "unfilled"}
  BY <1>1, Advance, HereIs DEF MoveOut, End, Fits
<1>3. /\ disk' = [disk EXCEPT !.old[Arg] = disk.dir[Arg], !.dir[Arg] = Absent]
      /\ UNCHANGED <<items, queued, batch, run, mem, todo, built, saved, late, count>>
      /\ TypeOK /\ Filed /\ Logged /\ Staged /\ At(c, x, k, 0)
  BY <1>1 DEF MoveOut, Inside
<1> HIDE DEF Arg
<1>4. TypeOK'
  BY <1>1, <1>3 DEF TypeOK, Disk, Dir, Absent, Pools, Stores
<1>5. Filed'
  BY <1>1, <1>3 DEF TypeOK, Disk, Dir, Absent, Pools, Stores, Filed, Formed
<1>6. Logged'
  BY <1>1, <1>3 DEF TypeOK, Disk, Dir, Absent, Pools, Stores, Logged, At, RebuildAt, Held, Cover, Passed,
         Even, BothThere, There, NoDirs
<1>7. Staged'
  BY <1>1, <1>3 DEF TypeOK, Disk, Dir, Absent, Pools, Stores, Staged, At, RebuildAt
<1>8. Serving("rebuild", k + 1)'
  BY <1>1, <1>3 DEF TypeOK, Disk, Dir, Absent, Pools, Stores, At, Serving, Apart
<1>9. LogAt("rebuild", k + 1)'
  BY <1>1, <1>3 DEF TypeOK, Disk, Dir, Absent, Pools, Stores, At, LogAt, Apart, Recovering, RebuildAt
<1>10. StageAt("rebuild", k + 1)'
  BY <1>1, <1>3 DEF TypeOK, Disk, At, StageAt, Recovering
<1>11. RunAt("rebuild", k + 1)'
  BY <1>1, <1>3 DEF TypeOK, At, RunAt
<1>12. RebuildAt(k + 1, x)'
  BY <1>1, <1>3 DEF TypeOK, Disk, Dir, Absent, Pools, Stores, At, RebuildAt, Need, Passed, BothThere, There,
         Even, NoDirs
<1> QED BY <1>2, <1>4, <1>5, <1>6, <1>7, <1>8, <1>9, <1>10, <1>11, <1>12 DEF IInv, Inside, At

\* The damaged directory is moved, unless one has been.
LEMMA QuarantineStep ==
    ASSUME NEW c, NEW x, NEW k, NEW n, Inside(c, x, k, n), Quarantine
    PROVE  IInv'
<1>1. n = 0 /\ k = 1 /\ c \in {"again", "recover"} /\ Busy /\ Here(c, x, 1, 0) /\ 1 < End(c)
  <2>1. n = 0 /\ Here(c, x, k, 0) /\ Busy /\ Head(script)[1] = "quarantine" /\ Goes(c, x, k, Head(script))
    BY Steps1 DEF Quarantine, Inside, Doing, Busy
  <2>2. k = 1 /\ c \in {"again", "recover"}
    BY <2>1 DEF Goes, Recovering
  <2> QED BY <2>1, <2>2 DEF End
<1>2. /\ TypeOK /\ Filed /\ Logged /\ Staged /\ At(c, x, 1, 0)
      /\ UNCHANGED <<items, queued, todo, built, saved, late, count>>
  BY <1>1 DEF Quarantine, Inside
<1>3. ASSUME ~disk.away.there,
             disk' = [disk EXCEPT
                !.dir = [s \in Stores |-> Absent], !.build = NoDirs,
                !.log = "none", !.had = {}, !.old = NoDirs, !.stash = NoDirs,
                !.manifest = "none",
                !.away = [there |-> TRUE,
                          trusted |-> IF disk.dir["single"].is = "v1"
                                      THEN disk.dir["single"].has ELSE {},
                          all |-> disk.away.all \cup Contents(disk.dir)
                                     \cup Contents(disk.old) \cup Contents(disk.stash)]],
             Done, UNCHANGED <<run, mem, batch>>
      PROVE  IInv'
  <2>1. Here(c, x, 1 + 1, 0)'
    BY <1>1, <1>3, Advance
  <2>2. Here(c, x, 2, 0)'
    BY <2>1
  <2>3. TypeOK'
    <3>1. disk.dir \in [Stores -> Dir] /\ disk.old \in [Pools -> Dir] /\ disk.stash \in [Pools -> Dir]
      BY <1>2 DEF TypeOK, Disk
    <3>2. /\ Contents(disk.dir) \subseteq Item /\ Contents(disk.old) \subseteq Item
          /\ Contents(disk.stash) \subseteq Item
      BY <3>1 DEF Contents, Dir
    <3>3. disk.dir["single"].has \in SUBSET Item /\ disk.away.all \in SUBSET Item
      BY <1>2 DEF TypeOK, Disk, Dir, Stores
    <3>4. PICK T \in SUBSET Item, A \in SUBSET Item :
             disk' = [disk EXCEPT
                !.dir = [s \in Stores |-> Absent], !.build = NoDirs,
                !.log = "none", !.had = {}, !.old = NoDirs, !.stash = NoDirs,
                !.manifest = "none", !.away = [there |-> TRUE, trusted |-> T, all |-> A]]
      <4>1. /\ (IF disk.dir["single"].is = "v1" THEN disk.dir["single"].has ELSE {}) \in SUBSET Item
            /\ disk.away.all \cup Contents(disk.dir) \cup Contents(disk.old) \cup Contents(disk.stash)
                 \in SUBSET Item
        BY <3>2, <3>3
      <4> QED BY <1>3, <4>1, Zenon
    <3>5. disk' \in Disk
      <4>1. /\ [s \in Stores |-> Absent] \in [Stores -> Dir] /\ NoDirs \in [Pools -> Dir]
            /\ [there |-> TRUE, trusted |-> T, all |-> A] \in
                  [there : BOOLEAN, trusted : SUBSET Item, all : SUBSET Item]
        BY DEF Dir, Absent, NoDirs
      <4> QED BY <1>2, <3>4, <4>1 DEF TypeOK, Disk
    <3> QED BY <1>2, <1>3, <3>5 DEF TypeOK, Run
  <2>4. Filed'
    BY <1>1, <1>2, <1>3 DEF TypeOK, Disk, Dir, Absent, Pools, Stores, Filed, Formed, NoDirs
  <2>5. Logged'
    BY <1>1, <1>2, <1>3 DEF TypeOK, Disk, Dir, Absent, Pools, Stores, Logged, Held, Cover, Passed, Even,
           PoolsHave, NoDirs, Contents, At, StageAt, Recovering, Staged, Filed
  <2>6. Staged'
    BY <1>1, <1>2, <1>3 DEF TypeOK, Disk, Dir, Absent, Pools, Stores, Staged, At, StageAt, Recovering
  <2>7. Serving(c, 2)'
    BY <1>1, <1>2, <1>3 DEF TypeOK, Disk, Dir, Absent, Pools, Stores, Serving, Apart, At, StageAt,
           Recovering, Staged
  <2>8. LogAt(c, 2)'
    BY <1>1, <1>2, <1>3 DEF TypeOK, Disk, Dir, Absent, Pools, Stores, LogAt, Apart, Recovering, BothThere,
           There, At, NoDirs
  <2>9. StageAt(c, 2)'
    BY <1>1, <1>2, <1>3 DEF TypeOK, Disk, Dir, Absent, Pools, Stores, StageAt, Recovering, At
  <2>10. RunAt(c, 2)'
    BY <1>1, <1>2, <1>3 DEF TypeOK, Run, RunAt, At
  <2>11. Inside(c, x, 2, 0)'
    BY <1>1, <2>2, <2>3, <2>4, <2>5, <2>6, <2>7, <2>8, <2>9, <2>10 DEF Inside, At
  <2> QED BY <2>11 DEF IInv
<1>4. ASSUME Disable(run, "unavailable"), script' = <<>>, UNCHANGED disk
      PROVE  IInv'
  <2>1. Here("idle", "none", 1, 0)'
    BY <1>4, Idles DEF Waits
  <2>2. /\ run' = [run EXCEPT !.mode = "none", !.health = "unavailable", !.view = FALSE]
        /\ mem' = NoMem /\ batch' = [batch EXCEPT !.stale = batch.rows # {}] /\ disk' = disk
    BY <1>4 DEF Disable, Stale
  <2>3. TypeOK'
    <3>1. disk' \in Disk
      BY <1>1, <1>2, <2>2, Dirs DEF TypeOK, Disk, Absent, Pools, Stores, NoMem
    <3>2. run' \in Run
      BY <1>1, <1>2, <2>2 DEF TypeOK, Run
    <3>3. mem' \in [Stores -> SUBSET Item] /\ \A p \in Pools : mem'[p] \subseteq items' \cap In(p)
      BY <1>1, <1>2, <2>2 DEF TypeOK, Disk, Dir, Stores, Pools, In, NoMem
    <3> QED BY <1>1, <1>2, <2>2, <3>1, <3>2, <3>3 DEF TypeOK
  <2>4. Filed'
    BY <1>1, <1>2, <2>2 DEF TypeOK, Disk, Dir, Absent, Pools, Stores, Filed, Formed, NoMem
  <2>5. Logged'
    BY <1>1, <1>2, <2>2 DEF TypeOK, Disk, Dir, Absent, Pools, Stores, Logged, Held, Cover, Passed, Even,
           PoolsHave
  <2>6. Staged'
    BY <1>1, <1>2, <2>2 DEF TypeOK, Disk, Dir, Absent, Pools, Stores, Staged
  <2>7. Serving("idle", 1)'
    BY <1>1, <1>2, <2>2 DEF TypeOK, Disk, Dir, Absent, Pools, Stores, Serving, Apart
  <2>8. LogAt("idle", 1)'
    BY <1>1, <1>2, <2>2 DEF TypeOK, Disk, Dir, Absent, Pools, Stores, LogAt, Apart, Recovering, BothThere,
           There, At
  <2>9. StageAt("idle", 1)'
    BY <1>1, <1>2, <2>2 DEF TypeOK, Disk, Dir, Absent, Pools, Stores, StageAt, Recovering, At
  <2>10. RunAt("idle", 1)'
    BY <1>1, <1>2, <2>2 DEF TypeOK, Run, RunAt, At, RunAt
  <2>11. Inside("idle", "none", 1, 0)'
    BY <2>1, <2>3, <2>4, <2>5, <2>6, <2>7, <2>8, <2>9, <2>10 DEF Inside, At
  <2> QED BY <2>11 DEF IInv
<1> QED BY <1>1, <1>3, <1>4 DEF Quarantine

\* The recovery has come this far.
LEMMA NoteStep ==
    ASSUME NEW c, NEW x, NEW k, NEW n, Inside(c, x, k, n), Note
    PROVE  IInv'
<1>1. /\ n = 0 /\ c \in {"again", "recover"} /\ Busy /\ Here(c, x, k, 0) /\ k < End(c) /\ k \in {2, 4, 8}
      /\ Arg = CASE k = 2 -> "quarantined" [] k = 4 -> "metadata_reset" [] k = 8 -> "new_generation_ready"
  <2>1. n = 0 /\ Here(c, x, k, 0) /\ Busy /\ Head(script)[1] = "note" /\ Goes(c, x, k, Head(script))
    BY Steps1 DEF Note, Inside, Doing, Busy
  <2>2. /\ c \in {"again", "recover"} /\ k \in {2, 4, 8}
        /\ Arg = CASE k = 2 -> "quarantined" [] k = 4 -> "metadata_reset" [] k = 8 -> "new_generation_ready"
    BY <2>1 DEF Goes, Recovering, Arg
  <2> HIDE DEF Arg
  <2> QED BY <2>1, <2>2 DEF End
<1>2. /\ TypeOK /\ Filed /\ Logged /\ Staged /\ At(c, x, k, 0)
      /\ disk' = [disk EXCEPT !.stage = Arg]
      /\ UNCHANGED <<items, queued, batch, run, mem, todo, built, saved, late, count>>
  BY <1>1 DEF Note, Inside
<1>3. Here(c, x, k + 1, 0)'
  BY <1>1, Advance DEF Note
<1> HIDE DEF Arg
<1>4. TypeOK'
  <2>1. disk' \in Disk
    BY <1>1, <1>2, Dirs DEF TypeOK, Disk, Absent, Pools, Stores
  <2>2. run' \in Run
    BY <1>1, <1>2 DEF TypeOK, Run
  <2> QED BY <1>1, <1>2, <2>1, <2>2 DEF TypeOK, In
<1>5. Filed'
  BY <1>1, <1>2 DEF TypeOK, Disk, Dir, Absent, Pools, Stores, Filed, Formed
<1>6. Logged'
  BY <1>1, <1>2 DEF TypeOK, Disk, Dir, Absent, Pools, Stores, Logged, Held, Cover, Passed, Even, PoolsHave,
         At, StageAt, Recovering, Staged
<1>7. Staged'
  BY <1>1, <1>2 DEF TypeOK, Disk, Dir, Absent, Pools, Stores, Staged, At, StageAt, Recovering
<1>8. Serving(c, k + 1)'
  BY <1>1, <1>2 DEF TypeOK, Disk, Dir, Absent, Pools, Stores, Serving, Apart, At
<1>9. LogAt(c, k + 1)'
  BY <1>1, <1>2 DEF TypeOK, Disk, Dir, Absent, Pools, Stores, LogAt, Apart, Recovering, BothThere, There, At
<1>10. StageAt(c, k + 1)'
  BY <1>1, <1>2 DEF TypeOK, Disk, Dir, Absent, Pools, Stores, StageAt, Recovering, At
<1>11. RunAt(c, k + 1)'
  BY <1>1, <1>2 DEF TypeOK, Run, RunAt, At
<1>12. Inside(c, x, k + 1, 0)'
  BY <1>1, <1>3, <1>4, <1>5, <1>6, <1>7, <1>8, <1>9, <1>10, <1>11 DEF Inside, At
<1> QED BY <1>12 DEF IInv

\* The states of the projection are reset.
LEMMA ResetStep ==
    ASSUME NEW c, NEW x, NEW k, NEW n, Inside(c, x, k, n), Reset
    PROVE  IInv'
<1>1. n = 0 /\ k = 3 /\ c \in {"again", "recover"} /\ Busy /\ Here(c, x, 3, 0) /\ 3 < End(c)
  <2>1. n = 0 /\ Here(c, x, k, 0) /\ Busy /\ Head(script)[1] = "reset" /\ Goes(c, x, k, Head(script))
    BY Steps1 DEF Reset, Inside, Doing, Busy
  <2>2. k = 3 /\ c \in {"again", "recover"}
    BY <2>1 DEF Goes, Recovering
  <2> QED BY <2>1, <2>2 DEF End
<1>2. /\ TypeOK /\ Filed /\ Logged /\ Staged /\ At(c, x, 3, 0)
      /\ queued' = {} /\ batch' = [batch EXCEPT !.rows = {}]
      /\ UNCHANGED <<items, disk, run, mem, todo, built, saved, late, count>>
  BY <1>1 DEF Reset, Inside
<1>3. Here(c, x, 3 + 1, 0)'
  BY <1>1, Advance DEF Reset
<1>4. Here(c, x, 4, 0)'
  BY <1>3
<1>5. TypeOK'
  <2>1. disk' \in Disk
    BY <1>1, <1>2, Dirs DEF TypeOK, Disk, Absent, Pools, Stores
  <2>2. run' \in Run
    BY <1>1, <1>2 DEF TypeOK, Run
  <2> QED BY <1>1, <1>2, <2>1, <2>2 DEF TypeOK, In
<1>6. Filed'
  BY <1>1, <1>2 DEF TypeOK, Disk, Dir, Absent, Pools, Stores, Filed, Formed
<1>7. Logged'
  BY <1>1, <1>2 DEF TypeOK, Disk, Dir, Absent, Pools, Stores, Logged, Held, Cover, Passed, Even, PoolsHave
<1>8. Staged'
  BY <1>1, <1>2 DEF TypeOK, Disk, Dir, Absent, Pools, Stores, Staged
<1>9. Serving(c, 4)'
  BY <1>1, <1>2 DEF TypeOK, Disk, Dir, Absent, Pools, Stores, Serving, Apart, At
<1>10. LogAt(c, 4)'
  BY <1>1, <1>2 DEF TypeOK, Disk, Dir, Absent, Pools, Stores, LogAt, Apart, Recovering, BothThere, There, At
<1>11. StageAt(c, 4)'
  BY <1>1, <1>2 DEF TypeOK, Disk, Dir, Absent, Pools, Stores, StageAt, Recovering, At
<1>12. RunAt(c, 4)'
  BY <1>1, <1>2 DEF TypeOK, Run, RunAt, At
<1>13. Inside(c, x, 4, 0)'
  BY <1>1, <1>4, <1>5, <1>6, <1>7, <1>8, <1>9, <1>10, <1>11, <1>12 DEF Inside, At
<1> QED BY <1>13 DEF IInv

\* An empty pool of the next generation.
LEMMA RenewStep ==
    ASSUME NEW c, NEW x, NEW k, NEW n, Inside(c, x, k, n), Renew
    PROVE  IInv'
<1>1. /\ n = 0 /\ c \in {"again", "recover"} /\ Busy /\ Here(c, x, k, 0) /\ k < End(c)
      /\ (k = 5 /\ Arg = "paragraph") \/ (k = 6 /\ Arg = "graph")
  <2>1. n = 0 /\ Here(c, x, k, 0) /\ Busy /\ Head(script)[1] = "renew" /\ Goes(c, x, k, Head(script))
    BY Steps1 DEF Renew, Inside, Doing, Busy
  <2>2. /\ c \in {"again", "recover"}
        /\ (k = 5 /\ Arg = "paragraph") \/ (k = 6 /\ Arg = "graph")
    BY <2>1 DEF Goes, Recovering, Arg
  <2> HIDE DEF Arg
  <2> QED BY <2>1, <2>2 DEF End
<1>2. /\ TypeOK /\ Filed /\ Logged /\ Staged /\ At(c, x, k, 0)
      /\ count' = [count EXCEPT !.gen = IF Arg = "paragraph" THEN @ + 1 ELSE @]
      /\ disk' = [disk EXCEPT !.dir = [s \in Stores |->
                    IF s = Arg THEN Store({}, count'.gen) ELSE Made(disk.dir[s])]]
      /\ UNCHANGED <<items, queued, batch, run, mem, todo, built, saved, late>>
  BY <1>1 DEF Renew, Inside
<1>3. Here(c, x, k + 1, 0)'
  BY <1>1, Advance DEF Renew
<1> HIDE DEF Arg
<1>4. TypeOK'
  <2>1. count' \in [crashes : Nat, rebuilds : Nat, damages : Nat, gen : Nat] /\ count'.gen \in Nat
    BY <1>2 DEF TypeOK
  <2>2. [s \in Stores |-> IF s = Arg THEN Store({}, count'.gen) ELSE Made(disk.dir[s])] \in [Stores -> Dir]
    BY <1>2, <2>1, Dirs DEF TypeOK, Disk
  <2>3. disk' \in Disk
    BY <1>2, <2>2 DEF TypeOK, Disk
  <2> QED BY <1>2, <2>1, <2>3 DEF TypeOK
<1>5. Filed'
  BY <1>1, <1>2 DEF TypeOK, Disk, Dir, Absent, Pools, Stores, Filed, Formed, Store, Made, Blank
<1>6. Logged'
  BY <1>1, <1>2 DEF TypeOK, Disk, Dir, Absent, Pools, Stores, Logged, Held, Cover, Passed, Even, PoolsHave,
         Store, Made, Blank, At, StageAt, Recovering, Staged
<1>7. Staged'
  BY <1>1, <1>2 DEF TypeOK, Disk, Dir, Absent, Pools, Stores, Staged, Store, Made, Blank, At, StageAt,
         Recovering
<1>8. Serving(c, k + 1)'
  BY <1>1, <1>2 DEF TypeOK, Disk, Dir, Absent, Pools, Stores, Serving, Apart, Store, Made, Blank, At,
         StageAt, Recovering
<1>9. LogAt(c, k + 1)'
  BY <1>1, <1>2 DEF TypeOK, Disk, Dir, Absent, Pools, Stores, LogAt, Apart, Recovering, BothThere, There,
         Store, Made, Blank, At, Staged, StageAt
<1>10. StageAt(c, k + 1)'
  BY <1>1, <1>2 DEF TypeOK, Disk, Dir, Absent, Pools, Stores, StageAt, Recovering, Store, Made, Blank, At, Even
<1>11. RunAt(c, k + 1)'
  BY <1>1, <1>2 DEF TypeOK, Run, RunAt, At
<1>12. Inside(c, x, k + 1, 0)'
  BY <1>1, <1>3, <1>4, <1>5, <1>6, <1>7, <1>8, <1>9, <1>10, <1>11 DEF Inside, At
<1> QED BY <1>12 DEF IInv

\* The manifest of an empty generation: the pools are in use.
LEMMA FreshStep ==
    ASSUME NEW c, NEW x, NEW k, NEW n, Inside(c, x, k, n), Fresh
    PROVE  IInv'
<1>1. n = 0 /\ k = 7 /\ c \in {"again", "recover"} /\ Busy /\ Here(c, x, 7, 0) /\ 7 < End(c)
  <2>1. n = 0 /\ Here(c, x, k, 0) /\ Busy /\ Head(script)[1] = "fresh" /\ Goes(c, x, k, Head(script))
    BY Steps1 DEF Fresh, Inside, Doing, Busy
  <2>2. k = 7 /\ c \in {"again", "recover"}
    BY <2>1 DEF Goes, Recovering
  <2> QED BY <2>1, <2>2 DEF End
<1>2. /\ TypeOK /\ Filed /\ Logged /\ Staged /\ At(c, x, 7, 0)
      /\ disk' = [disk EXCEPT !.manifest = "fresh"]
      /\ run' = [run EXCEPT !.mode = "dual"] /\ mem' = NoMem
      /\ batch' = [batch EXCEPT !.stale = batch.rows # {}]
      /\ UNCHANGED <<items, queued, todo, built, saved, late, count>>
  BY <1>1 DEF Fresh, Inside, Stale
<1>3. Here(c, x, 7 + 1, 0)'
  BY <1>1, Advance DEF Fresh
<1>4. Here(c, x, 8, 0)'
  BY <1>3
<1>5. TypeOK'
  <2>1. disk' \in Disk
    BY <1>1, <1>2, Dirs DEF TypeOK, Disk, Absent, Pools, Stores, NoMem
  <2>2. run' \in Run
    BY <1>1, <1>2 DEF TypeOK, Run
  <2>3. mem' \in [Stores -> SUBSET Item] /\ \A p \in Pools : mem'[p] \subseteq items' \cap In(p)
    BY <1>1, <1>2 DEF TypeOK, Disk, Dir, Stores, Pools, In, NoMem
  <2> QED BY <1>1, <1>2, <2>1, <2>2, <2>3 DEF TypeOK
<1>6. Filed'
  BY <1>1, <1>2 DEF TypeOK, Disk, Dir, Absent, Pools, Stores, Filed, Formed, NoMem
<1>7. Logged'
  BY <1>1, <1>2 DEF TypeOK, Disk, Dir, Absent, Pools, Stores, Logged, Held, Cover, Passed, Even, PoolsHave,
         At, StageAt, Staged, Recovering
<1>8. Staged'
  BY <1>1, <1>2 DEF TypeOK, Disk, Dir, Absent, Pools, Stores, Staged, At, StageAt, Recovering
<1>9. Serving(c, 8)'
  BY <1>1, <1>2 DEF TypeOK, Disk, Dir, Absent, Pools, Stores, Serving, Apart, At, StageAt, Recovering,
         Staged, NoMem
<1>10. LogAt(c, 8)'
  BY <1>1, <1>2 DEF TypeOK, Disk, Dir, Absent, Pools, Stores, LogAt, Apart, Recovering, BothThere, There, At,
         StageAt, Staged, Recovering
<1>11. StageAt(c, 8)'
  BY <1>1, <1>2 DEF TypeOK, Disk, Dir, Absent, Pools, Stores, StageAt, Recovering, At, Even
<1>12. RunAt(c, 8)'
  BY <1>1, <1>2 DEF TypeOK, Run, RunAt, At
<1>13. Inside(c, x, 8, 0)'
  BY <1>1, <1>4, <1>5, <1>6, <1>7, <1>8, <1>9, <1>10, <1>11, <1>12 DEF Inside, At
<1> QED BY <1>13 DEF IInv

\* What is shown at the end of a recovery.
LEMMA ViewStep ==
    ASSUME NEW c, NEW x, NEW k, NEW n, Inside(c, x, k, n), View
    PROVE  IInv'
<1>1. /\ n = 0 /\ k = 9 /\ c \in {"again", "recover"}
      /\ Busy /\ Here(c, x, 9, 0) /\ End(c) = IF c = "again" THEN 10 ELSE 9
  <2>1. n = 0 /\ Here(c, x, k, 0) /\ Busy /\ Head(script)[1] = "view" /\ Goes(c, x, k, Head(script))
    BY Steps1 DEF View, Inside, Doing, Busy
  <2>2. k = 9 /\ c \in {"again", "recover"}
    BY <2>1 DEF Goes, Recovering
  <2> QED BY <2>1, <2>2 DEF End
<1>2. /\ TypeOK /\ Filed /\ Logged /\ Staged /\ At(c, x, 9, 0)
      /\ run' = [run EXCEPT !.view = disk.away.trusted # {},
                            !.health = IF disk.away.trusted # {} THEN "recovering" ELSE "degraded"]
      /\ disk' = [disk EXCEPT !.stage = IF @ = "copying" \/ disk.away.trusted # {} THEN "copying" ELSE "completed"]
      /\ UNCHANGED <<items, queued, batch, mem, todo, built, saved, late, count>>
  BY <1>1 DEF View, Inside
<1> DEFINE d == IF c = "again" THEN c ELSE "idle"
<1> DEFINE y == IF c = "again" THEN x ELSE "none"
<1> DEFINE j == IF c = "again" THEN 10 ELSE 1
<1>3. Here(d, y, j, 0)'
  <2>1. CASE c = "again"
    <3>1. Here(c, x, 9 + 1, 0)'
      BY <1>1, <2>1, Advance DEF View
    <3>2. Here(c, x, 10, 0)'
      BY <3>1
    <3> QED BY <2>1, <3>2
  <2>2. CASE c = "recover"
    <3>1. Here("idle", "none", 1, 0)'
      BY <1>1, <2>2, Ends DEF View
    <3> QED BY <2>2, <3>1
  <2> QED BY <1>1, <2>1, <2>2
<1>4. d \in {"again", "idle"} /\ j \in {1, 10} /\ (d = "again" <=> j = 10)
  OBVIOUS
<1> HIDE DEF d, y, j
<1>5. /\ disk'.stage \in {"copying", "completed"} /\ (run'.view => disk'.stage = "copying")
      /\ disk.manifest # "none" /\ disk.stage \in {"new_generation_ready", "copying"}
      /\ disk.stage = "new_generation_ready" => disk.cursor = 0
      /\ disk'.stage = "completed" => disk.away.trusted = {}
  BY <1>1, <1>2 DEF TypeOK, Disk, Run, Staged, At, StageAt, LogAt, Recovering, BothThere, There
<1>6. TypeOK'
  <2>1. disk' \in Disk
    BY <1>1, <1>2, <1>4, <1>5, Dirs DEF TypeOK, Disk, Absent, Pools, Stores
  <2>2. run' \in Run
    BY <1>1, <1>2, <1>4, <1>5 DEF TypeOK, Run
  <2> QED BY <1>1, <1>2, <1>4, <1>5, <2>1, <2>2 DEF TypeOK, In
<1>7. Filed'
  BY <1>1, <1>2, <1>4, <1>5 DEF TypeOK, Disk, Dir, Absent, Pools, Stores, Filed, Formed
<1>8. Logged'
  <2>1. Passed' = Passed
    BY <1>2, <1>5, RankAssumption DEF TypeOK, Disk, Passed
  <2> QED BY <1>2, <1>5, <2>1 DEF TypeOK, Disk, Logged, Held, Cover, Even, PoolsHave
<1>9. Staged'
  BY <1>1, <1>2, <1>4, <1>5 DEF TypeOK, Disk, Dir, Absent, Pools, Stores, Staged
<1>10. Serving(d, j)'
  BY <1>1, <1>2, <1>4, <1>5 DEF TypeOK, Disk, Dir, Absent, Pools, Stores, Serving, Apart, At, StageAt,
         Recovering, Staged
<1>11. LogAt(d, j)'
  BY <1>1, <1>2, <1>4, <1>5 DEF TypeOK, Disk, Dir, Absent, Pools, Stores, LogAt, Apart, Recovering,
         BothThere, There, At, StageAt, Staged, Recovering
<1>12. StageAt(d, j)'
  BY <1>1, <1>2, <1>4, <1>5 DEF TypeOK, Disk, Dir, Absent, Pools, Stores, StageAt, Recovering, At
<1>13. RunAt(d, j)'
  BY <1>1, <1>2, <1>4, <1>5 DEF TypeOK, Run, RunAt, At
<1>14. Inside(d, y, j, 0)'
  BY <1>3, <1>4, <1>6, <1>7, <1>8, <1>9, <1>10, <1>11, <1>12, <1>13 DEF Inside, At
<1> QED BY <1>14 DEF IInv

\* The end of a script.
LEMMA Over ==
    ASSUME NEW c, NEW x, NEW k, Here(c, x, k, 0), Busy, k = End(c)
    PROVE  Tail(script) = <<>>
<1>1. Len(script) = 1
  <2>1. Len(script) = 0 + End(c) + 1 - k /\ End(c) \in Nat
    BY HereIs
  <2> QED BY <2>1
<1>2. Tail(script) \in Seq(Steps) /\ Len(Tail(script)) = 0
  <2>1. Tail(script) \in Seq(Steps) /\ Len(Tail(script)) = Len(script) - 1
    BY Rest
  <2> QED BY <1>1, <2>1
<1> QED BY <1>2, EmptySeq

\* The stores are loaded last.
LEMMA Loading ==
    ASSUME NEW c, NEW x, NEW k, Here(c, x, k, 0), (c = "up" /\ k = 2) \/ (c = "back" /\ k = 6)
    PROVE  Busy /\ Tail(script) = << <<"load">> >> /\ k + 1 = End(c)
<1>1. k + 1 = End(c) /\ Body(c, x)[k + 1] = <<"load">> /\ k \in {2, 6}
  BY DEF End, Body
<1>2. script \in Seq(Steps) /\ Len(script) = 2
  <2>1. script \in Seq(Steps) /\ Len(script) = 0 + End(c) + 1 - k
    BY HereIs
  <2> QED BY <1>1, <2>1
<1>3. Busy
  BY <1>2, EmptySeq DEF Busy
<1>4. script[2] = <<"load">>
  <2>1. 2 \in 1 .. End(c) + 1 - k /\ 0 + 2 = 2 /\ k + 2 - 1 = k + 1
    BY <1>1
  <2>2. script[0 + 2] = Body(c, x)[k + 2 - 1]
    BY <2>1, HereAre
  <2> QED BY <1>1, <2>1, <2>2
<1>5. Tail(script) \in Seq(Steps) /\ Len(Tail(script)) = 1 /\ Tail(script)[1] = <<"load">>
  <2>1. 1 \in 1 .. 2 - 1 /\ 1 + 1 = 2 /\ 2 - 1 = 1
    OBVIOUS
  <2> QED BY <1>2, <1>3, <1>4, <2>1, Rest
<1>6. << <<"load">> >> \in Seq(Steps) /\ Len(<< <<"load">> >>) = 1 /\ << <<"load">> >>[1] = <<"load">>
  BY DEF Steps, Names
<1>7. \A i \in 1 .. 1 : i = 1
  OBVIOUS
<1> QED BY <1>1, <1>3, <1>5, <1>6, <1>7, SeqEqual

\* The process starts: every store has its directory.
LEMMA StartStep ==
    ASSUME NEW c, NEW x, NEW k, NEW n, Inside(c, x, k, n), Start
    PROVE  IInv'
<1>1. /\ TypeOK /\ Filed /\ Logged /\ Staged /\ At(c, x, k, n) /\ ~run.up
      /\ run' = [run EXCEPT !.up = TRUE]
      /\ disk' = [disk EXCEPT !.dir = [s \in Stores |-> Made(@[s])]]
      /\ UNCHANGED <<items, queued, batch, mem, todo, built, saved, late, count>>
  BY DEF Start, Inside
<1>2. c = "off"
  BY <1>1 DEF At, RunAt
<1>3. Here("up", "none", 1, 0)'
  BY Begins DEF Start, Body, Calls, Waits, Fits, Args
<1>4. TypeOK'
  <2>1. disk' \in Disk
    BY <1>1, <1>2, Dirs DEF TypeOK, Disk, Absent, Pools, Stores, Made, Blank
  <2>2. run' \in Run
    BY <1>1, <1>2 DEF TypeOK, Run
  <2> QED BY <1>1, <1>2, <2>1, <2>2 DEF TypeOK, In, Made, Blank
<1>5. Filed'
  BY <1>1, <1>2 DEF TypeOK, Disk, Dir, Absent, Pools, Stores, Filed, Formed, Made, Blank
<1>6. Logged'
  BY <1>1, <1>2 DEF TypeOK, Disk, Dir, Absent, Pools, Stores, Logged, Held, Cover, Passed, Even, PoolsHave,
         Made, Blank, Filed, Formed
<1>7. Staged'
  BY <1>1, <1>2 DEF TypeOK, Disk, Dir, Absent, Pools, Stores, Staged, Made, Blank
<1>8. Serving("up", 1)'
  BY <1>1, <1>2 DEF TypeOK, Disk, Dir, Absent, Pools, Stores, Serving, Apart, At, RunAt
<1>9. LogAt("up", 1)'
  BY <1>1, <1>2 DEF TypeOK, Disk, Dir, Absent, Pools, Stores, LogAt, Apart, Recovering, BothThere, There,
         Made, Blank, At
<1>10. StageAt("up", 1)'
  BY <1>1, <1>2 DEF TypeOK, Disk, Dir, Absent, Pools, Stores, StageAt, Recovering, Made, Blank
<1>11. RunAt("up", 1)'
  BY <1>1, <1>2 DEF TypeOK, Run, RunAt, At
<1>12. Inside("up", "none", 1, 0)'
  BY <1>3, <1>4, <1>5, <1>6, <1>7, <1>8, <1>9, <1>10, <1>11 DEF Inside, At
<1> QED BY <1>12 DEF IInv

\* What is left of a switch is cleaned up, or the switch is taken back.
LEMMA SweepStep ==
    ASSUME NEW c, NEW x, NEW k, NEW n, Inside(c, x, k, n), Sweep
    PROVE  IInv'
<1>1. n = 0 /\ Busy /\ Here(c, x, k, 0) /\ k < End(c) /\ ((c = "up" /\ k = 1) \/ (c = "rebuild" /\ k = 13))
  <2>1. n = 0 /\ Busy /\ Here(c, x, k, 0) /\ ((c = "up" /\ k = 1) \/ (c = "rebuild" /\ k = 13))
    BY Steps1 DEF Sweep, Inside, Goes, Doing, Busy
  <2> QED BY <2>1 DEF End
<1>2. /\ TypeOK /\ Filed /\ Logged /\ Staged /\ At(c, x, k, 0)
      /\ UNCHANGED <<items, queued, batch, run, mem, todo, built, saved, late, count>>
  <2>1. UNCHANGED <<items, queued, batch, run, mem, todo, built, saved, late, count>>
    BY DEF Sweep
  <2> QED BY <1>1, <2>1 DEF Inside
<1>3. disk.log = "prepared" => ~BackupSpent
  BY <1>1, <1>2 DEF BackupSpent, Ready, At, LogAt, RunAt, RebuildAt
<1>4. \/ /\ disk.log # "prepared" /\ Done
         /\ \/ disk' = [disk EXCEPT !.build = NoDirs] /\ disk.log = "none"
            \/ disk' = disk /\ disk.log = "bare"
            \/ disk' = [disk EXCEPT !.log = "none", !.had = {}, !.old = NoDirs, !.stash = NoDirs, !.build = NoDirs]
      \/ disk.log = "prepared" /\ script' = TakeBack \o Tail(script) /\ disk' = disk
  <2>1. [NoBackup(disk) EXCEPT !.build = NoDirs] =
           [disk EXCEPT !.log = "none", !.had = {}, !.old = NoDirs, !.stash = NoDirs, !.build = NoDirs]
    BY <1>2 DEF NoBackup, TypeOK, Disk
  <2>2. BackupSpent => disk.log # "prepared"
    BY <1>3
  <2> HIDE DEF Done, BackupSpent, TakeBack
  <2> QED BY <2>1, <2>2 DEF Sweep
<1>5. ASSUME disk.log # "prepared", Done,
             \/ disk' = [disk EXCEPT !.build = NoDirs] /\ disk.log = "none"
             \/ disk' = disk /\ disk.log = "bare"
             \/ disk' = [disk EXCEPT !.log = "none", !.had = {}, !.old = NoDirs, !.stash = NoDirs, !.build = NoDirs]
      PROVE  IInv'
  <2>1. Here(c, x, k + 1, 0)'
    BY <1>1, <1>5, Advance
  <2>2. /\ disk'.log = "none" \/ (disk'.log = "bare" /\ disk.log = "bare")
        /\ disk'.old = NoDirs /\ disk'.stash = NoDirs
        /\ disk'.dir = disk.dir /\ disk'.manifest = disk.manifest /\ disk'.stage = disk.stage
        /\ disk'.cursor = disk.cursor /\ disk'.away = disk.away /\ disk' \in Disk
    <3>1. CASE disk' = [disk EXCEPT !.build = NoDirs] /\ disk.log = "none"
      BY <1>2, <3>1, Dirs DEF TypeOK, Disk, Logged
    <3>2. CASE disk' = disk /\ disk.log = "bare"
      BY <1>2, <3>2 DEF TypeOK, Disk, Logged
    <3>3. CASE disk' = [disk EXCEPT !.log = "none", !.had = {}, !.old = NoDirs, !.stash = NoDirs, !.build = NoDirs]
      BY <1>2, <3>3, Dirs DEF TypeOK, Disk
    <3> QED BY <1>5, <3>1, <3>2, <3>3
  <2>3. TypeOK /\ (c = "rebuild" => disk.log # "bare")
    BY <1>1, <1>2 DEF At, RebuildAt
  <2>4. /\ Filed /\ Logged /\ Staged /\ At(c, x, k, 0) /\ disk.log # "prepared"
        /\ UNCHANGED <<items, queued, batch, run, mem, todo, built, saved, late, count>>
    BY <1>2, <1>5
  <2>5. TypeOK'
    BY <1>2, <2>2 DEF TypeOK
  <2>6. Filed'
    BY <1>1, <2>2, <2>3, <2>4 DEF TypeOK, Disk, Dir, Absent, Pools, Stores, Filed, Formed, NoDirs
  <2>7. Logged'
    BY <1>1, <2>2, <2>3, <2>4 DEF TypeOK, Disk, Dir, Absent, Pools, Stores, Logged, Held, Cover, Passed,
           Even, PoolsHave, NoDirs
  <2>8. Staged'
    BY <1>1, <2>2, <2>3, <2>4 DEF TypeOK, Disk, Dir, Absent, Pools, Stores, Staged
  <2>9. Serving(c, k + 1)'
    BY <1>1, <2>2, <2>3, <2>4 DEF TypeOK, Disk, Dir, Absent, Pools, Stores, Serving, Apart, At
  <2>10. LogAt(c, k + 1)'
    BY <1>1, <2>2, <2>3, <2>4 DEF TypeOK, Disk, Dir, Absent, Pools, Stores, LogAt, Apart, Recovering,
           BothThere, There, At
  <2>11. StageAt(c, k + 1)'
    BY <1>1, <2>2, <2>3, <2>4 DEF TypeOK, Disk, Dir, Absent, Pools, Stores, StageAt, Recovering, At
  <2>12. RunAt(c, k + 1)'
    BY <1>1, <2>2, <2>3, <2>4 DEF TypeOK, Run, RunAt, At
  <2>13. Inside(c, x, k + 1, 0)'
    <3>1. c = "rebuild" => RebuildAt(k + 1, x)'
      BY <1>1, <2>2, <2>3, <2>4 DEF TypeOK, Disk, At, RebuildAt, Need, Passed, BothThere, There, NoDirs,
             PoolsHave
    <3> QED BY <1>1, <2>1, <2>5, <2>6, <2>7, <2>8, <2>9, <2>10, <2>11, <2>12, <3>1 DEF Inside, At
  <2> QED BY <2>13 DEF IInv
<1>6. ASSUME disk.log = "prepared", script' = TakeBack \o Tail(script), disk' = disk
      PROVE  IInv'
  <2>1. c = "up" /\ k = 1
    BY <1>1, <1>2, <1>6 DEF At, RebuildAt
  <2>2. Here("back", "none", 1, 0)'
    BY <1>1, <1>6, <2>1, TakesBack
  <2>3. disk.log = "prepared" /\ disk' = disk
    BY <1>6
  <2>4. TypeOK'
    <3>1. disk' \in Disk
      BY <1>2, <2>1, <2>3, Dirs DEF TypeOK, Disk, Absent, Pools, Stores
    <3>2. run' \in Run
      BY <1>2, <2>1, <2>3 DEF TypeOK, Run
    <3> QED BY <1>2, <2>1, <2>3, <3>1, <3>2 DEF TypeOK, In
  <2>5. Filed'
    BY <1>2, <2>1, <2>3 DEF TypeOK, Disk, Dir, Absent, Pools, Stores, Filed, Formed
  <2>6. Logged'
    BY <1>2, <2>1, <2>3 DEF TypeOK, Disk, Dir, Absent, Pools, Stores, Logged, Held, Cover, Passed, Even,
           PoolsHave
  <2>7. Staged'
    BY <1>2, <2>1, <2>3 DEF TypeOK, Disk, Dir, Absent, Pools, Stores, Staged
  <2>8. Serving("back", 1)'
    BY <1>2, <2>1, <2>3 DEF TypeOK, Disk, Dir, Absent, Pools, Stores, Serving, Apart, At, RunAt
  <2>9. LogAt("back", 1)'
    BY <1>2, <2>1, <2>3 DEF TypeOK, Disk, Dir, Absent, Pools, Stores, LogAt, Apart, Recovering, BothThere,
           There, At
  <2>10. StageAt("back", 1)'
    BY <1>2, <2>1, <2>3 DEF TypeOK, Disk, Dir, Absent, Pools, Stores, StageAt, Recovering
  <2>11. RunAt("back", 1)'
    BY <1>2, <2>1, <2>3 DEF TypeOK, Run, RunAt, At
  <2>12. Inside("back", "none", 1, 0)'
    BY <2>2, <2>4, <2>5, <2>6, <2>7, <2>8, <2>9, <2>10, <2>11 DEF Inside, At
  <2> QED BY <2>12 DEF IInv
<1> QED BY <1>4, <1>5, <1>6

\* What lies at the place of a pool is put aside.
LEMMA StashStep ==
    ASSUME NEW c, NEW x, NEW k, NEW n, Inside(c, x, k, n), Stash
    PROVE  IInv'
<1>1. /\ n = 0 /\ c = "back" /\ Busy /\ Here(c, x, k, 0) /\ k < End(c)
      /\ (k = 1 /\ Arg = "paragraph") \/ (k = 3 /\ Arg = "graph")
  <2>1. n = 0 /\ Here(c, x, k, 0) /\ Busy /\ Head(script)[1] = "stash" /\ Goes(c, x, k, Head(script))
    BY Steps1 DEF Stash, Inside, Doing, Busy
  <2>2. c = "back" /\ ((k = 1 /\ Arg = "paragraph") \/ (k = 3 /\ Arg = "graph"))
    BY <2>1 DEF Goes, Arg
  <2> HIDE DEF Arg
  <2> QED BY <2>1, <2>2 DEF End
<1>2. /\ TypeOK /\ Filed /\ Logged /\ Staged /\ At(c, x, k, 0)
      /\ disk' = [disk EXCEPT
          !.dir[Arg] = Absent,
          !.stash[Arg] = IF disk.dir[Arg].is = "absent" THEN @
                         ELSE [disk.dir[Arg] EXCEPT !.has = @ \cup disk.stash[Arg].has]]
      /\ UNCHANGED <<items, queued, batch, run, mem, todo, built, saved, late, count>>
  BY <1>1 DEF Stash, Inside
<1>3. Here(c, x, k + 1, 0)'
  BY <1>1, Advance DEF Stash
<1> HIDE DEF Arg
<1>4. TypeOK'
  <2>1. Arg \in Pools /\ disk.dir[Arg] \in Dir /\ disk.stash[Arg] \in Dir
    BY <1>1, <1>2 DEF TypeOK, Disk, Pools, Stores
  <2>2. disk' \in Disk
    BY <1>2, <2>1, Dirs DEF TypeOK, Disk
  <2> QED BY <1>2, <2>2 DEF TypeOK
<1>5. Filed'
  BY <1>1, <1>2 DEF TypeOK, Disk, Dir, Absent, Pools, Stores, Filed, Formed
<1>6. Logged'
  <2>1. disk.log = "prepared" /\ Logged /\ Arg \in Pools
    BY <1>1, <1>2 DEF At, LogAt, Pools
  <2>2. /\ disk.dir \in [Stores -> Dir] /\ disk.stash \in [Pools -> Dir] /\ disk \in Disk
        /\ disk.dir[Arg].is = "absent" => disk.dir[Arg].has = {}
    BY <1>2, <2>1 DEF TypeOK, Disk, Filed, Formed, Stores
  <2>3. /\ disk'.dir = [disk.dir EXCEPT ![Arg] = Absent]
        /\ disk'.stash = [disk.stash EXCEPT ![Arg] =
                IF disk.dir[Arg].is = "absent" THEN @
                ELSE [disk.dir[Arg] EXCEPT !.has = @ \cup disk.stash[Arg].has]]
        /\ disk'.log = disk.log /\ disk'.had = disk.had /\ disk'.old = disk.old
        /\ disk'.away = disk.away /\ disk'.stage = disk.stage /\ disk'.cursor = disk.cursor
    BY <1>2, <2>2 DEF Disk
  <2>4. disk'.dir[Arg].has = {} /\ disk'.stash[Arg].has = disk.dir[Arg].has \cup disk.stash[Arg].has
    BY <2>1, <2>2, <2>3 DEF Absent, Dir, Stores
  <2>5. \A p \in Pools : Held(p)' = Held(p)
    BY <2>1, <2>2, <2>3, <2>4 DEF Held, Stores
  <2>6. Held("paragraph")' = Held("paragraph") /\ Held("graph")' = Held("graph") /\ Passed' = Passed
    BY <1>2, <2>3, <2>5 DEF Pools, Passed
  <2>7. disk'.dir["single"] = disk.dir["single"]
    BY <2>1, <2>2, <2>3 DEF Pools, Stores
  <2>8. Cover(Held("paragraph") \cup Held("graph"))'
    BY <1>2, <2>1, <2>3, <2>6, <2>7 DEF Logged, Cover
  <2> QED BY <2>1, <2>3, <2>8 DEF Logged
<1>7. Staged'
  BY <1>1, <1>2 DEF TypeOK, Disk, Dir, Absent, Pools, Stores, Staged, At, LogAt
<1>8. Serving(c, k + 1)'
  BY <1>1, <1>2 DEF TypeOK, Disk, Dir, Absent, Pools, Stores, Serving, Apart, At, RunAt
<1>9. LogAt(c, k + 1)'
  BY <1>1, <1>2 DEF TypeOK, Disk, Dir, Absent, Pools, Stores, LogAt, Apart, Recovering, BothThere, There, At,
         Filed, Formed, Held, Cover, Passed, PoolsHave, Even
<1>10. StageAt(c, k + 1)'
  BY <1>1, <1>2 DEF TypeOK, Disk, Dir, Absent, Pools, Stores, StageAt, Recovering, At
<1>11. RunAt(c, k + 1)'
  BY <1>1, <1>2 DEF TypeOK, Run, RunAt, At
<1>12. Inside(c, x, k + 1, 0)'
  BY <1>1, <1>3, <1>4, <1>5, <1>6, <1>7, <1>8, <1>9, <1>10, <1>11 DEF Inside, At
<1> QED BY <1>12 DEF IInv

\* The old pool is moved in.
LEMMA ReturnStep ==
    ASSUME NEW c, NEW x, NEW k, NEW n, Inside(c, x, k, n), Return
    PROVE  IInv'
<1>1. /\ n = 0 /\ c = "back" /\ Busy /\ Here(c, x, k, 0) /\ k < End(c)
      /\ (k = 2 /\ Arg = "paragraph") \/ (k = 4 /\ Arg = "graph")
  <2>1. n = 0 /\ Here(c, x, k, 0) /\ Busy /\ Head(script)[1] = "return" /\ Goes(c, x, k, Head(script))
    BY Steps1 DEF Return, Inside, Doing, Busy
  <2>2. c = "back" /\ ((k = 2 /\ Arg = "paragraph") \/ (k = 4 /\ Arg = "graph"))
    BY <2>1 DEF Goes, Arg
  <2> HIDE DEF Arg
  <2> QED BY <2>1, <2>2 DEF End
<1>2. /\ TypeOK /\ Filed /\ Logged /\ Staged /\ At(c, x, k, 0)
      /\ UNCHANGED <<items, queued, batch, run, mem, todo, built, saved, late, count>>
  BY <1>1 DEF Return, Inside
<1>3. disk.log = "prepared" /\ Arg \in disk.had
  BY <1>1, <1>2 DEF At, LogAt, Logged, Pools
<1>4. ASSUME disk.old[Arg].is # "absent", Done,
             disk' = [disk EXCEPT !.dir[Arg] = disk.old[Arg], !.old[Arg] = Absent]
      PROVE  IInv'
  <2>1. Here(c, x, k + 1, 0)'
    BY <1>1, <1>4, Advance
  <2>2. /\ disk.old[Arg].is # "absent"
        /\ disk' = [disk EXCEPT !.dir[Arg] = disk.old[Arg], !.old[Arg] = Absent]
    BY <1>4
  <2> HIDE DEF Arg
  <2>3. TypeOK'
    <3>1. Arg \in Pools /\ disk.old[Arg] \in Dir
      BY <1>1, <1>2 DEF TypeOK, Disk, Pools
    <3>2. disk' \in Disk
      BY <1>2, <2>2, <3>1, Dirs DEF TypeOK, Disk
    <3> QED BY <1>2, <3>2 DEF TypeOK
  <2>4. Filed'
    BY <1>1, <1>2, <1>3, <2>2 DEF TypeOK, Disk, Dir, Absent, Pools, Stores, Filed, Formed
  <2>5. Logged'
    BY <1>1, <1>2, <1>3, <2>2 DEF TypeOK, Disk, Dir, Absent, Pools, Stores, Logged, Held, Cover, Passed,
           Even, PoolsHave, At, LogAt, NoDirs
  <2>6. Staged'
    BY <1>1, <1>2, <1>3, <2>2 DEF TypeOK, Disk, Dir, Absent, Pools, Stores, Staged, At, LogAt
  <2>7. Serving(c, k + 1)'
    BY <1>1, <1>2, <1>3, <2>2 DEF TypeOK, Disk, Dir, Absent, Pools, Stores, Serving, Apart, At, RunAt
  <2>8. LogAt(c, k + 1)'
    BY <1>1, <1>2, <1>3, <2>2 DEF TypeOK, Disk, Dir, Absent, Pools, Stores, LogAt, Apart, Recovering,
           BothThere, There, At, Logged, Held, Cover, Passed, PoolsHave, Even
  <2>9. StageAt(c, k + 1)'
    BY <1>1, <1>2, <1>3, <2>2 DEF TypeOK, Disk, Dir, Absent, Pools, Stores, StageAt, Recovering, At
  <2>10. RunAt(c, k + 1)'
    BY <1>1, <1>2, <1>3, <2>2 DEF TypeOK, Run, RunAt, At
  <2>11. Inside(c, x, k + 1, 0)'
    BY <1>1, <2>1, <2>3, <2>4, <2>5, <2>6, <2>7, <2>8, <2>9, <2>10 DEF Inside, At
  <2> QED BY <2>11 DEF IInv
<1>5. ASSUME script' = << <<"resume">>, <<"load">> >>, disk' = disk
      PROVE  IInv'
  <2>1. Here("up", "none", 2, 0)'
    BY <1>5, Skips
  <2>2. disk' = disk
    BY <1>5
  <2> HIDE DEF Arg
  <2>3. TypeOK'
    <3>1. disk' \in Disk
      BY <1>1, <1>2, <1>3, <2>2, Dirs DEF TypeOK, Disk, Absent, Pools, Stores
    <3>2. run' \in Run
      BY <1>1, <1>2, <1>3, <2>2 DEF TypeOK, Run
    <3> QED BY <1>1, <1>2, <1>3, <2>2, <3>1, <3>2 DEF TypeOK, In
  <2>4. Filed'
    BY <1>1, <1>2, <1>3, <2>2 DEF TypeOK, Disk, Dir, Absent, Pools, Stores, Filed, Formed
  <2>5. Logged'
    BY <1>1, <1>2, <1>3, <2>2 DEF TypeOK, Disk, Dir, Absent, Pools, Stores, Logged, Held, Cover, Passed,
           Even, PoolsHave
  <2>6. Staged'
    BY <1>1, <1>2, <1>3, <2>2 DEF TypeOK, Disk, Dir, Absent, Pools, Stores, Staged
  <2>7. Serving("up", 2)'
    BY <1>1, <1>2, <1>3, <2>2 DEF TypeOK, Disk, Dir, Absent, Pools, Stores, Serving, Apart, At, RunAt
  <2>8. LogAt("up", 2)'
    BY <1>1, <1>2, <1>3, <2>2 DEF TypeOK, Disk, Dir, Absent, Pools, Stores, LogAt, Apart, Recovering,
           BothThere, There, At
  <2>9. StageAt("up", 2)'
    BY <1>1, <1>2, <1>3, <2>2 DEF TypeOK, Disk, Dir, Absent, Pools, Stores, StageAt, Recovering
  <2>10. RunAt("up", 2)'
    BY <1>1, <1>2, <1>3, <2>2 DEF TypeOK, Run, RunAt, At
  <2>11. Inside("up", "none", 2, 0)'
    BY <2>1, <2>3, <2>4, <2>5, <2>6, <2>7, <2>8, <2>9, <2>10 DEF Inside, At
  <2> QED BY <2>11 DEF IInv
<1> HIDE DEF Arg
<1> QED BY <1>3, <1>4, <1>5 DEF Return

\* The backup is gone.
LEMMA SettledStep ==
    ASSUME NEW c, NEW x, NEW k, NEW n, Inside(c, x, k, n), Settled
    PROVE  IInv'
<1>1. n = 0 /\ c = "back" /\ k = 5 /\ Busy /\ Here(c, x, 5, 0) /\ 5 < End(c)
  <2>1. n = 0 /\ Here(c, x, k, 0) /\ Busy /\ Head(script)[1] = "settled" /\ Goes(c, x, k, Head(script))
    BY Steps1 DEF Settled, Inside, Doing, Busy
  <2>2. c = "back" /\ k = 5
    BY <2>1 DEF Goes
  <2> QED BY <2>1, <2>2 DEF End
<1>2. /\ TypeOK /\ Filed /\ Logged /\ Staged /\ At(c, x, 5, 0)
      /\ UNCHANGED <<items, queued, batch, run, mem, todo, built, saved, late, count>>
  BY <1>1 DEF Settled, Inside
<1>3. disk' = [disk EXCEPT !.log = "none", !.had = {}, !.old = NoDirs, !.stash = NoDirs, !.build = NoDirs]
  <2>1. [NoBackup(disk) EXCEPT !.build = NoDirs] =
           [disk EXCEPT !.log = "none", !.had = {}, !.old = NoDirs, !.stash = NoDirs, !.build = NoDirs]
    BY <1>2 DEF NoBackup, TypeOK, Disk
  <2> QED BY <2>1 DEF Settled
<1>4. Here(c, x, 5 + 1, 0)'
  BY <1>1, Advance DEF Settled
<1>5. Here(c, x, 6, 0)'
  BY <1>4
<1>6. TypeOK'
  <2>1. disk' \in Disk
    BY <1>2, <1>3, Dirs DEF TypeOK, Disk
  <2> QED BY <1>2, <2>1 DEF TypeOK
<1>7. Filed'
  BY <1>1, <1>2, <1>3 DEF TypeOK, Disk, Dir, Absent, Pools, Stores, Filed, Formed, NoDirs
<1>8. Logged'
  BY <1>1, <1>2, <1>3 DEF TypeOK, Disk, Dir, Absent, Pools, Stores, Logged, Held, Cover, Passed, Even,
         PoolsHave, NoDirs, At, LogAt, BothThere, There
<1>9. Staged'
  BY <1>1, <1>2, <1>3 DEF TypeOK, Disk, Dir, Absent, Pools, Stores, Staged, At, LogAt
<1>10. Serving(c, 6)'
  BY <1>1, <1>2, <1>3 DEF TypeOK, Disk, Dir, Absent, Pools, Stores, Serving, Apart, At, RunAt
<1>11. LogAt(c, 6)'
  BY <1>1, <1>2, <1>3 DEF TypeOK, Disk, Dir, Absent, Pools, Stores, LogAt, Apart, Recovering, BothThere,
         There, At
<1>12. StageAt(c, 6)'
  BY <1>1, <1>2, <1>3 DEF TypeOK, Disk, Dir, Absent, Pools, Stores, StageAt, Recovering, At
<1>13. RunAt(c, 6)'
  BY <1>1, <1>2, <1>3 DEF TypeOK, Run, RunAt, At
<1>14. Inside(c, x, 6, 0)'
  BY <1>1, <1>5, <1>6, <1>7, <1>8, <1>9, <1>10, <1>11, <1>12, <1>13 DEF Inside, At
<1> QED BY <1>14 DEF IInv

\* Where an unfinished recovery is taken up, as At has it.
LEMMA Offsets ==
    /\ Offset("prepared") = 1 /\ Offset("quarantined") = 3 /\ Offset("metadata_reset") = 5
    /\ Offset("new_generation_ready") = 9 /\ Offset("copying") = 9
BY DEF Offset

\* An unfinished recovery is taken up at start-up.
LEMMA ResumeStep ==
    ASSUME NEW c, NEW x, NEW k, NEW n, Inside(c, x, k, n), Resume
    PROVE  IInv'
<1>1. n = 0 /\ Here(c, x, k, 0) /\ ((c = "up" /\ k = 2) \/ (c = "back" /\ k = 6))
  BY Steps1 DEF Resume, Inside, Goes
<1>2. /\ TypeOK /\ Filed /\ Logged /\ Staged /\ At(c, x, k, 0)
      /\ UNCHANGED <<items, queued, batch, disk, run, mem, todo, built, saved, late, count>>
  <2>1. UNCHANGED <<items, queued, batch, disk, run, mem, todo, built, saved, late, count>>
    BY DEF Resume
  <2> QED BY <1>1, <2>1 DEF Inside
<1>3. Busy /\ Tail(script) = << <<"load">> >> /\ k + 1 = End(c) /\ k < End(c)
  <2>1. Busy /\ Tail(script) = << <<"load">> >> /\ k + 1 = End(c)
    BY <1>1, Loading
  <2> QED BY <1>1, <2>1 DEF End
<1>4. CASE disk.stage \in {"none", "completed"}
  <2>1. Here(c, x, k + 1, 0)'
    <3>1. script' = <<>> \o Tail(script)
      BY <1>4 DEF Resume
    <3>2. Tail(script) \in Seq(Steps)
      BY <1>1, <1>3, Rest
    <3>3. Done
      BY <3>1, <3>2, ConcatEmptySeq DEF Done
    <3> QED BY <1>1, <1>3, <3>3, Advance
  <2>2. disk.stage \in {"none", "completed"} /\ ((c = "up" /\ k = 2) \/ (c = "back" /\ k = 6))
    BY <1>1, <1>4
  <2>3. TypeOK'
    <3>1. disk' \in Disk
      BY <1>2, <2>2, Dirs DEF TypeOK, Disk, Absent, Pools, Stores
    <3>2. run' \in Run
      BY <1>2, <2>2 DEF TypeOK, Run
    <3> QED BY <1>2, <2>2, <3>1, <3>2 DEF TypeOK, In
  <2>4. Filed'
    BY <1>2, <2>2 DEF TypeOK, Disk, Dir, Absent, Pools, Stores, Filed, Formed
  <2>5. Logged'
    BY <1>2, <2>2 DEF TypeOK, Disk, Dir, Absent, Pools, Stores, Logged, Held, Cover, Passed, Even, PoolsHave
  <2>6. Staged'
    BY <1>2, <2>2 DEF TypeOK, Disk, Dir, Absent, Pools, Stores, Staged
  <2>7. Serving(c, k + 1)'
    BY <1>2, <2>2 DEF TypeOK, Disk, Dir, Absent, Pools, Stores, Serving, Apart, At
  <2>8. LogAt(c, k + 1)'
    BY <1>2, <2>2 DEF TypeOK, Disk, Dir, Absent, Pools, Stores, LogAt, Apart, Recovering, BothThere, There, At
  <2>9. StageAt(c, k + 1)'
    BY <1>2, <2>2 DEF TypeOK, Disk, Dir, Absent, Pools, Stores, StageAt, Recovering
  <2>10. RunAt(c, k + 1)'
    BY <1>2, <2>2 DEF TypeOK, Run, RunAt, At
  <2>11. Inside(c, x, k + 1, 0)'
    BY <1>1, <2>1, <2>3, <2>4, <2>5, <2>6, <2>7, <2>8, <2>9, <2>10 DEF Inside, At
  <2> QED BY <2>11 DEF IInv
<1>5. CASE disk.stage \notin {"none", "completed"}
  <2>1. PICK j \in {1, 3, 5, 9} :
          /\ j = Offset(disk.stage)
          /\ j = 1 => disk.stage = "prepared"
          /\ j = 3 => disk.stage = "quarantined"
          /\ j = 5 => disk.stage = "metadata_reset"
          /\ j = 9 => disk.stage \in {"new_generation_ready", "copying"}
    <3>1. disk.stage \in {"prepared", "quarantined", "metadata_reset", "new_generation_ready", "copying"}
      BY <1>2, <1>5 DEF TypeOK, Disk
    <3> QED BY <3>1, Offsets
  <2>2. Here("again", "none", j, 0)'
    <3>1. script' = From(disk.stage) \o Tail(script)
      BY <1>5 DEF Resume
    <3>2. Tail(script) = << <<"load">> >>
      BY <1>3
    <3> QED BY <2>1, <3>1, <3>2, RecoversAgain
  <2>3. run.mode = "none" /\ ((c = "up" /\ k = 2) \/ (c = "back" /\ k = 6))
    BY <1>1, <1>2 DEF At, RunAt
  <2>4. TypeOK'
    <3>1. disk' \in Disk
      BY <1>2, <2>1, <2>3, Dirs DEF TypeOK, Disk, Absent, Pools, Stores
    <3>2. run' \in Run
      BY <1>2, <2>1, <2>3 DEF TypeOK, Run
    <3> QED BY <1>2, <2>1, <2>3, <3>1, <3>2 DEF TypeOK, In
  <2>5. Filed'
    BY <1>2, <2>1, <2>3 DEF TypeOK, Disk, Dir, Absent, Pools, Stores, Filed, Formed
  <2>6. Logged'
    BY <1>2, <2>1, <2>3 DEF TypeOK, Disk, Dir, Absent, Pools, Stores, Logged, Held, Cover, Passed, Even,
           PoolsHave
  <2>7. Staged'
    BY <1>2, <2>1, <2>3 DEF TypeOK, Disk, Dir, Absent, Pools, Stores, Staged
  <2>8. Serving("again", j)'
    BY <1>2, <2>1, <2>3 DEF TypeOK, Disk, Dir, Absent, Pools, Stores, Serving, Apart
  <2>9. LogAt("again", j)'
    BY <1>2, <2>1, <2>3 DEF TypeOK, Disk, Dir, Absent, Pools, Stores, LogAt, Apart, Recovering, BothThere,
           There, At, Staged
  <2>10. StageAt("again", j)'
    <3>1. /\ disk'.stage = disk.stage /\ run'.mode = "none"
          /\ j \in 1 .. 2 <=> j = 1
          /\ j \in 3 .. 4 <=> j = 3
          /\ j \in 5 .. 8 <=> j = 5
          /\ ~(j \in 7 .. 8) /\ j # 2 /\ j # 6 /\ j # 8 /\ j # 10
      BY <1>2, <2>1, <2>3
    <3> QED BY <2>1, <3>1 DEF StageAt, Recovering
  <2>11. RunAt("again", j)'
    BY <1>2, <2>1, <2>3 DEF TypeOK, Run, RunAt, At
  <2>12. Inside("again", "none", j, 0)'
    BY <2>2, <2>4, <2>5, <2>6, <2>7, <2>8, <2>9, <2>10, <2>11 DEF Inside, At
  <2> QED BY <2>12 DEF IInv
<1> QED BY <1>4, <1>5

\* _recover_known_vector_failure: a recovery begins, or goes on.
LEMMA Recovered ==
    ASSUME Recover(<<>>), TypeOK, Staged, disk.stage \in {"none", "prepared", "copying", "completed"}
    PROVE  \E j \in {1, 9} :
              /\ Here("recover", "none", j, 0)' /\ disk' \in Disk
              /\ disk'.dir = disk.dir /\ disk'.log = disk.log /\ disk'.had = disk.had /\ disk'.old = disk.old
              /\ disk'.stash = disk.stash /\ disk'.manifest = disk.manifest
              /\ disk'.away.all = disk.away.all /\ disk'.away.trusted \subseteq disk.away.trusted
              /\ j = 1 => disk'.stage = "prepared" /\ disk'.cursor = 0 /\ disk.stage # "copying"
              /\ j = 9 => disk.stage = "copying" /\ disk'.stage = "copying" /\ disk'.cursor = disk.cursor
<1>1. CASE disk.stage \in {"none", "completed"}
  <2>1. script' = From("prepared") \o <<>>
    BY <1>1 DEF Recover
  <2>2. disk' = [disk EXCEPT !.stage = "prepared", !.cursor = 0, !.away.there = FALSE, !.away.trusted = {}]
    BY <1>1 DEF Recover
  <2>3. [disk.away EXCEPT !.there = FALSE, !.trusted = {}] \in
           [there : BOOLEAN, trusted : SUBSET Item, all : SUBSET Item]
    BY DEF TypeOK, Disk
  <2>4. disk' = [disk EXCEPT !.stage = "prepared", !.cursor = 0,
                             !.away = [disk.away EXCEPT !.there = FALSE, !.trusted = {}]]
    BY <2>2 DEF TypeOK, Disk
  <2>5. /\ disk' \in Disk
        /\ disk'.away.all = disk.away.all /\ disk'.away.trusted = {}
        /\ disk'.stage = "prepared" /\ disk'.cursor = 0
        /\ disk'.dir = disk.dir /\ disk'.log = disk.log /\ disk'.had = disk.had /\ disk'.old = disk.old
        /\ disk'.stash = disk.stash /\ disk'.manifest = disk.manifest
    BY <2>3, <2>4 DEF TypeOK, Disk
  <2> HIDE DEF From
  <2>6. Here("recover", "none", 1, 0)'
    BY <2>1, Recovers, Offsets
  <2> QED BY <1>1, <2>5, <2>6
<1>2. CASE disk.stage \in {"prepared", "copying"}
  <2>1. script' = From(disk.stage) \o <<>> /\ disk' = disk
    BY <1>2 DEF Recover
  <2>2. Here("recover", "none", Offset(disk.stage), 0)'
    BY <2>1, Recovers
  <2>3. disk.stage = "prepared" => disk.cursor = 0
    BY DEF Staged
  <2>4. disk' \in Disk /\ disk' = disk
    BY <2>1 DEF TypeOK
  <2> QED BY <1>2, <2>2, <2>3, <2>4, Offsets
<1> QED BY <1>1, <1>2

\* What start-up finds.
Unseen == Reload(FALSE)

\* What that says of the disk.
LEMMA Reloaded ==
    ASSUME TypeOK
    PROVE  /\ Unseen \in {"dual", "damaged", "unverified", "not_dual"}
           /\ Unseen = "dual" => ~Damaged /\ BothThere /\ disk.manifest = "fresh"
           /\ Unseen = "damaged" => Damaged /\ BothThere /\ disk.manifest = "fresh"
           /\ Unseen = "not_dual" => disk.manifest = "none"
BY DEF Unseen, Reload, Ready, BothThere, There, HasData, Pools, TypeOK, Disk

\* Start-up, by what it finds.
LEMMA LoadIs ==
    ASSUME Load
    PROVE  /\ Doing("load")
           /\ UNCHANGED <<items, queued, todo, built, saved, late, count>>
           /\ \/ /\ Unseen = "dual"
                 /\ UseDual(run, "healthy") /\ Done /\ UNCHANGED disk
              \/ /\ Unseen = "damaged"
                 /\ Recover(Tail(script)) /\ UNCHANGED <<run, mem, batch>>
              \/ /\ Unseen = "unverified" \/ (Unseen = "not_dual" /\ ~run.view /\ HasData(disk.dir["single"]))
                 /\ Disable(run, "pending") /\ Done /\ UNCHANGED disk
              \/ /\ Unseen = "not_dual" /\ ~(~run.view /\ HasData(disk.dir["single"]))
                 /\ run' = [run EXCEPT !.mode = "single",
                                       !.health = IF run.view THEN @ ELSE "healthy"]
                 /\ Done /\ UNCHANGED <<disk, mem, batch>>
<1>1. Doing("load")
  BY DEF Load
<1>2. UNCHANGED <<items, queued, todo, built, saved, late, count>>
  BY DEF Load
<1> QED BY <1>1, <1>2 DEF Load, Unseen

\* The stores are loaded, as far as they can be vouched for.
LEMMA LoadStep ==
    ASSUME NEW c, NEW x, NEW k, NEW n, Inside(c, x, k, n), Load
    PROVE  IInv'
<1>1. /\ n = 0 /\ Busy /\ Here(c, x, k, 0) /\ k = End(c)
      /\ (c = "up" /\ k = 3) \/ (c = "back" /\ k = 7) \/ (c = "again" /\ k = 10)
  <2>1. n = 0 /\ Here(c, x, k, 0) /\ Busy /\ Head(script)[1] = "load" /\ Goes(c, x, k, Head(script))
    BY LoadIs, Steps1 DEF Inside, Doing, Busy
  <2>2. (c = "up" /\ k = 3) \/ (c = "back" /\ k = 7) \/ (c = "again" /\ k = 10)
    BY <2>1 DEF Goes
  <2> QED BY <2>1, <2>2 DEF End
<1>2. Tail(script) = <<>>
  BY <1>1, Over
<1>3. /\ TypeOK /\ Filed /\ Logged /\ Staged /\ At(c, x, k, 0)
      /\ UNCHANGED <<items, queued, todo, built, saved, late, count>>
  <2>1. UNCHANGED <<items, queued, todo, built, saved, late, count>>
    BY LoadIs
  <2> QED BY <1>1, <2>1 DEF Inside
<1>4. Done => Here("idle", "none", 1, 0)'
  BY <1>1, Ends
<1>5. /\ disk.stage \in {"none", "copying", "completed"} /\ (disk.log # "prepared" => BothThere)
      /\ BothThere => disk.log # "prepared" \/ disk.manifest # "fresh"
      /\ disk.log = "prepared" => disk.manifest # "fresh" /\ ~BothThere
      /\ run.up
  BY <1>1, <1>3 DEF At, LogAt, StageAt, Recovering, RunAt, Apart
<1>6. CASE Unseen = "dual"
  <2>1. Here("idle", "none", 1, 0)'
    BY <1>4, <1>6, LoadIs
  <2>2. /\ run' = [run EXCEPT !.mode = "dual", !.health = IF run.view THEN @ ELSE "healthy"]
        /\ mem' = [s \in Stores |-> IF s \in Pools THEN disk.dir[s].has ELSE {}]
        /\ batch' = [batch EXCEPT !.stale = batch.rows # {}] /\ disk' = disk
    BY <1>6, LoadIs DEF UseDual, Stale
  <2>3. ~Damaged /\ BothThere /\ disk.log # "prepared"
    BY <1>3, <1>5, <1>6, Reloaded
  <2>4. TypeOK'
    <3>1. disk' \in Disk
      BY <1>3, <1>5, <2>2, <2>3, Dirs DEF TypeOK, Disk, Absent, Pools, Stores, In, PoolOf, Filed
    <3>2. run' \in Run
      BY <1>3, <1>5, <2>2, <2>3 DEF TypeOK, Run
    <3>3. mem' \in [Stores -> SUBSET Item] /\ \A p \in Pools : mem'[p] \subseteq items' \cap In(p)
      BY <1>3, <1>5, <2>2, <2>3 DEF TypeOK, Disk, Dir, Stores, Pools, In, PoolOf, Filed
    <3> QED BY <1>3, <1>5, <2>2, <2>3, <3>1, <3>2, <3>3 DEF TypeOK
  <2>5. Filed'
    BY <1>3, <1>5, <2>2, <2>3 DEF TypeOK, Disk, Dir, Absent, Pools, Stores, Filed, Formed
  <2>6. Logged'
    BY <1>3, <1>5, <2>2, <2>3 DEF TypeOK, Disk, Dir, Absent, Pools, Stores, Logged, Held, Cover, Passed,
           Even, PoolsHave
  <2>7. Staged'
    BY <1>3, <1>5, <2>2, <2>3 DEF TypeOK, Disk, Dir, Absent, Pools, Stores, Staged
  <2>8. Serving("idle", 1)'
    BY <1>3, <1>5, <2>2, <2>3 DEF TypeOK, Disk, Dir, Absent, Pools, Stores, Serving, Apart, Damaged,
           BothThere, There
  <2>9. LogAt("idle", 1)'
    BY <1>3, <1>5, <2>2, <2>3 DEF TypeOK, Disk, Dir, Absent, Pools, Stores, LogAt, Apart, Recovering,
           BothThere, There
  <2>10. StageAt("idle", 1)'
    BY <1>3, <1>5, <2>2, <2>3 DEF TypeOK, Disk, Dir, Absent, Pools, Stores, StageAt, Recovering
  <2>11. RunAt("idle", 1)'
    BY <1>3, <1>5, <2>2, <2>3 DEF TypeOK, Run, RunAt, At
  <2>12. Inside("idle", "none", 1, 0)'
    BY <2>1, <2>4, <2>5, <2>6, <2>7, <2>8, <2>9, <2>10, <2>11 DEF Inside, At
  <2> QED BY <2>12 DEF IInv
<1>7. CASE Unseen = "damaged"
  <2>1. Recover(<<>>) /\ UNCHANGED <<run, mem, batch>>
    BY <1>2, <1>7, LoadIs
  <2>2. PICK j \in {1, 9} :
          /\ Here("recover", "none", j, 0)' /\ disk' \in Disk
          /\ disk'.dir = disk.dir /\ disk'.log = disk.log /\ disk'.had = disk.had /\ disk'.old = disk.old
          /\ disk'.stash = disk.stash /\ disk'.manifest = disk.manifest
          /\ disk'.away.all = disk.away.all /\ disk'.away.trusted \subseteq disk.away.trusted
          /\ j = 1 => disk'.stage = "prepared" /\ disk'.cursor = 0 /\ disk.stage # "copying"
          /\ j = 9 => disk.stage = "copying" /\ disk'.stage = "copying" /\ disk'.cursor = disk.cursor
    BY <1>3, <1>5, <2>1, Recovered
  <2>3. Damaged /\ BothThere /\ disk.log # "prepared" /\ run.mode # "dual"
    <3>1. Damaged /\ BothThere /\ disk.log # "prepared"
      BY <1>3, <1>5, <1>7, Reloaded
    <3> QED BY <1>1, <1>3, <3>1 DEF At, Serving, Apart, Damaged
  <2>4. TypeOK'
    BY <1>3, <2>1, <2>2 DEF TypeOK
  <2>5. Filed'
    <3>1. \A s \in Stores : disk'.dir[s] = disk.dir[s]
      BY <2>2
    <3>2. \A p \in Pools : p \in Stores /\ disk'.old[p] = disk.old[p]
      BY <2>2 DEF Pools, Stores
    <3>3. disk'.away.trusted \subseteq items
      BY <1>3, <2>2 DEF Filed
    <3> QED BY <1>3, <1>5, <2>1, <3>1, <3>2, <3>3 DEF Filed, Formed, Stores
  <2>6. Logged'
    BY <1>3, <1>5, <2>1, <2>2, <2>3 DEF TypeOK, Disk, Dir, Absent, Pools, Stores, Logged, Held, Cover,
           Passed, Even, PoolsHave
  <2>7. Staged'
    BY <1>3, <1>5, <2>1, <2>2, <2>3 DEF TypeOK, Disk, Dir, Absent, Pools, Stores, Staged
  <2>8. Serving("recover", j)'
    BY <1>3, <1>5, <2>1, <2>2, <2>3 DEF TypeOK, Disk, Dir, Absent, Pools, Stores, Serving, Apart, At
  <2>9. LogAt("recover", j)'
    BY <1>3, <1>5, <2>1, <2>2, <2>3 DEF TypeOK, Disk, Dir, Absent, Pools, Stores, LogAt, Apart, Recovering,
           BothThere, There
  <2>10. StageAt("recover", j)'
    BY <1>3, <1>5, <2>1, <2>2, <2>3 DEF TypeOK, Disk, Dir, Absent, Pools, Stores, StageAt, Recovering
  <2>11. RunAt("recover", j)'
    BY <1>3, <1>5, <2>1, <2>2, <2>3 DEF TypeOK, Run, RunAt, At
  <2>12. Inside("recover", "none", j, 0)'
    BY <2>2, <2>4, <2>5, <2>6, <2>7, <2>8, <2>9, <2>10, <2>11 DEF Inside, At
  <2> QED BY <2>12 DEF IInv
<1>8. CASE \/ Unseen = "unverified"
           \/ Unseen = "not_dual" /\ ~run.view /\ HasData(disk.dir["single"])
  <2>1. Disable(run, "pending") /\ Done /\ UNCHANGED disk
    BY <1>8, LoadIs
  <2>2. Here("idle", "none", 1, 0)'
    BY <1>4, <2>1
  <2>3. /\ run' = [run EXCEPT !.mode = "none", !.health = "pending", !.view = FALSE]
        /\ mem' = NoMem /\ batch' = [batch EXCEPT !.stale = batch.rows # {}] /\ disk' = disk
    BY <2>1 DEF Disable, Stale
  <2>4. TypeOK'
    <3>1. disk' \in Disk
      BY <1>3, <1>5, <2>3, Dirs DEF TypeOK, Disk, Absent, Pools, Stores, NoMem
    <3>2. run' \in Run
      BY <1>3, <1>5, <2>3 DEF TypeOK, Run
    <3>3. mem' \in [Stores -> SUBSET Item] /\ \A p \in Pools : mem'[p] \subseteq items' \cap In(p)
      BY <1>3, <1>5, <2>3 DEF TypeOK, Disk, Dir, Stores, Pools, In, NoMem
    <3> QED BY <1>3, <1>5, <2>3, <3>1, <3>2, <3>3 DEF TypeOK
  <2>5. Filed'
    BY <1>3, <1>5, <2>3 DEF TypeOK, Disk, Dir, Absent, Pools, Stores, Filed, Formed, NoMem
  <2>6. Logged'
    BY <1>3, <1>5, <2>3 DEF TypeOK, Disk, Dir, Absent, Pools, Stores, Logged, Held, Cover, Passed, Even,
           PoolsHave
  <2>7. Staged'
    BY <1>3, <1>5, <2>3 DEF TypeOK, Disk, Dir, Absent, Pools, Stores, Staged
  <2>8. Serving("idle", 1)'
    BY <1>3, <1>5, <2>3 DEF TypeOK, Disk, Dir, Absent, Pools, Stores, Serving, Apart
  <2>9. LogAt("idle", 1)'
    BY <1>3, <1>5, <2>3 DEF TypeOK, Disk, Dir, Absent, Pools, Stores, LogAt, Apart, Recovering, BothThere, There
  <2>10. StageAt("idle", 1)'
    BY <1>3, <1>5, <2>3 DEF TypeOK, Disk, Dir, Absent, Pools, Stores, StageAt, Recovering
  <2>11. RunAt("idle", 1)'
    BY <1>3, <1>5, <2>3 DEF TypeOK, Run, RunAt, At
  <2>12. Inside("idle", "none", 1, 0)'
    BY <2>2, <2>4, <2>5, <2>6, <2>7, <2>8, <2>9, <2>10, <2>11 DEF Inside, At
  <2> QED BY <2>12 DEF IInv
<1>9. CASE Unseen = "not_dual" /\ (run.view \/ ~HasData(disk.dir["single"]))
  <2>1. /\ run' = [run EXCEPT !.mode = "single", !.health = IF run.view THEN @ ELSE "healthy"]
        /\ Done /\ UNCHANGED <<disk, mem, batch>>
    BY <1>9, LoadIs
  <2>2. Here("idle", "none", 1, 0)'
    BY <1>4, <2>1
  <2>3. /\ run' = [run EXCEPT !.mode = "single", !.health = IF run.view THEN @ ELSE "healthy"]
        /\ disk' = disk /\ mem' = mem /\ batch' = batch
    BY <2>1
  <2>4. disk.dir["single"].has = {}
    <3>1. disk.manifest = "none"
      BY <1>3, <1>9, Reloaded
    <3>2. ~run.view
      BY <1>3, <3>1 DEF Staged
    <3> QED BY <1>3, <1>9, <3>2 DEF TypeOK, Disk, Dir, HasData, Filed, Formed, Stores
  <2>5. TypeOK'
    <3>1. disk' \in Disk
      BY <1>3, <1>5, <2>3, <2>4, Dirs DEF TypeOK, Disk, Absent, Pools, Stores
    <3>2. run' \in Run
      BY <1>3, <1>5, <2>3, <2>4 DEF TypeOK, Run
    <3> QED BY <1>3, <1>5, <2>3, <2>4, <3>1, <3>2 DEF TypeOK, In
  <2>6. Filed'
    BY <1>3, <1>5, <2>3, <2>4 DEF TypeOK, Disk, Dir, Absent, Pools, Stores, Filed, Formed
  <2>7. Logged'
    BY <1>3, <1>5, <2>3, <2>4 DEF TypeOK, Disk, Dir, Absent, Pools, Stores, Logged, Held, Cover, Passed,
           Even, PoolsHave
  <2>8. Staged'
    BY <1>3, <1>5, <2>3, <2>4 DEF TypeOK, Disk, Dir, Absent, Pools, Stores, Staged
  <2>9. Serving("idle", 1)'
    BY <1>3, <1>5, <2>3, <2>4 DEF TypeOK, Disk, Dir, Absent, Pools, Stores, Serving, Apart
  <2>10. LogAt("idle", 1)'
    BY <1>3, <1>5, <2>3, <2>4 DEF TypeOK, Disk, Dir, Absent, Pools, Stores, LogAt, Apart, Recovering,
           BothThere, There
  <2>11. StageAt("idle", 1)'
    BY <1>3, <1>5, <2>3, <2>4 DEF TypeOK, Disk, Dir, Absent, Pools, Stores, StageAt, Recovering
  <2>12. RunAt("idle", 1)'
    BY <1>3, <1>5, <2>3, <2>4 DEF TypeOK, Run, RunAt, At
  <2>13. Inside("idle", "none", 1, 0)'
    BY <2>2, <2>5, <2>6, <2>7, <2>8, <2>9, <2>10, <2>11, <2>12 DEF Inside, At
  <2> QED BY <2>13 DEF IInv
<1>10. \/ Unseen = "dual" \/ Unseen = "damaged" \/ Unseen = "unverified"
       \/ Unseen = "not_dual" /\ ~run.view /\ HasData(disk.dir["single"])
       \/ Unseen = "not_dual" /\ (run.view \/ ~HasData(disk.dir["single"]))
  <2>1. Unseen \in {"dual", "damaged", "unverified", "not_dual"}
    BY <1>3, Reloaded
  <2>2. (~run.view /\ HasData(disk.dir["single"])) \/ run.view \/ ~HasData(disk.dir["single"])
    BY Zenon
  <2> QED BY <2>1, <2>2
<1> QED BY <1>6, <1>7, <1>8, <1>9, <1>10

\* The event loop is free: where that can be.
LEMMA Freely ==
    ASSUME NEW c, NEW x, NEW k, NEW n, Inside(c, x, k, n), LoopFree
    PROVE  /\ n = 0 /\ Here(c, x, k, 0) /\ TypeOK /\ Filed /\ Logged /\ Staged /\ At(c, x, k, 0)
           /\ \/ c = "idle" /\ k = 1
              \/ c = "copying" /\ k = 1
              \/ c = "rebuild" /\ k \in {1, 2, 16, 18}
           /\ c = "rebuild" => x \in {"filled", "unfilled"}
           /\ c = "copying" => x \in Item
           /\ script = <<>> => c = "idle"
<1>1. Here(c, x, k, n) /\ TypeOK /\ Filed /\ Logged /\ Staged /\ At(c, x, k, n) /\ run.up
  BY DEF Inside, LoopFree
<1>2. /\ n = 0
      /\ \/ c = "idle" \/ c = "off"
         \/ c = "copying" /\ k = 1
         \/ c = "rebuild" /\ k \in {1, 2, 16, 18}
  BY <1>1, Free
<1>3. c # "off"
  BY <1>1 DEF At, RunAt
<1>4. c = "idle" => k = 1
  BY <1>1, HereIs DEF Waits
<1>5. Fits(c, x)
  BY <1>1, HereIs
<1>6. script = <<>> => c \in Waits
  BY <1>1, Empty DEF Busy
<1> QED BY <1>1, <1>2, <1>3, <1>4, <1>5, <1>6 DEF Fits, Waits, At

\* What a probe finds.
Found == Reload(TRUE)

\* What that says of the disk.
LEMMA Refound ==
    ASSUME TypeOK
    PROVE  /\ Found \in {"dual", "damaged", "adopted", "not_dual"}
           /\ Found \in {"dual", "adopted"} => ~Damaged /\ BothThere
           /\ Found = "dual" => disk.manifest # "none"
           /\ Found = "damaged" => Damaged \/ ~BothThere
BY DEF Found, Reload, Ready, BothThere, There, HasData, Pools, TypeOK, Disk

\* The probe, by what it finds.
LEMMA ProbeIs ==
    ASSUME Probe
    PROVE  \E seen : 
           /\ LoopFree /\ UNCHANGED <<items, queued, todo, built, saved, late, count>>
           /\ seen = [run EXCEPT !.observed = TRUE, !.degraded = FALSE]
           /\ \/ /\ script = <<>>
                 /\ \/ /\ Found \in {"dual", "adopted"}
                       /\ UseDual(seen, "healthy") /\ UNCHANGED script
                       /\ disk' = [disk EXCEPT !.manifest = IF Found = "adopted" THEN "ready" ELSE @]
                    \/ /\ Found = "damaged"
                       /\ Recover(<<>>) /\ run' = seen /\ UNCHANGED <<mem, batch>>
                    \/ /\ Found = "not_dual"
                       /\ Disable(seen, "unavailable") /\ UNCHANGED <<disk, script>>
              \/ run' = seen /\ UNCHANGED <<disk, mem, batch, script>>
<1> DEFINE seen == [run EXCEPT !.observed = TRUE, !.degraded = FALSE]
<1>1. LoopFree /\ UNCHANGED <<items, queued, todo, built, saved, late, count>>
  BY DEF Probe
<1>2. \/ Restoring /\ Restore(seen)
      \/ run' = seen /\ UNCHANGED <<disk, mem, batch, script>>
  BY DEF Probe
<1> HIDE DEF seen
<1>3. ASSUME Restoring, Restore(seen)
      PROVE  /\ script = <<>>
             /\ \/ /\ Found \in {"dual", "adopted"}
                   /\ UseDual(seen, "healthy") /\ UNCHANGED script
                   /\ disk' = [disk EXCEPT !.manifest = IF Found = "adopted" THEN "ready" ELSE @]
                \/ /\ Found = "damaged"
                   /\ Recover(<<>>) /\ run' = seen /\ UNCHANGED <<mem, batch>>
                \/ /\ Found = "not_dual"
                   /\ Disable(seen, "unavailable") /\ UNCHANGED <<disk, script>>
  <2>1. script = <<>>
    BY <1>3 DEF Restoring
  <2> QED BY <1>3, <2>1 DEF Restore, Found
<1> QED BY <1>1, <1>2, <1>3 DEF seen

\* The probe restores a channel that waits, or only notes the answer.
LEMMA ProbeStep ==
    ASSUME NEW c, NEW x, NEW k, NEW n, Inside(c, x, k, n), Probe
    PROVE  IInv'
<1>1. PICK seen :
        /\ LoopFree /\ UNCHANGED <<items, queued, todo, built, saved, late, count>>
        /\ seen = [run EXCEPT !.observed = TRUE, !.degraded = FALSE]
        /\ \/ /\ script = <<>>
              /\ \/ /\ Found \in {"dual", "adopted"}
                    /\ UseDual(seen, "healthy") /\ UNCHANGED script
                    /\ disk' = [disk EXCEPT !.manifest = IF Found = "adopted" THEN "ready" ELSE @]
                 \/ /\ Found = "damaged"
                    /\ Recover(<<>>) /\ run' = seen /\ UNCHANGED <<mem, batch>>
                 \/ /\ Found = "not_dual"
                    /\ Disable(seen, "unavailable") /\ UNCHANGED <<disk, script>>
           \/ run' = seen /\ UNCHANGED <<disk, mem, batch, script>>
  BY ProbeIs
<1>2. /\ n = 0 /\ Here(c, x, k, 0) /\ TypeOK /\ Filed /\ Logged /\ Staged /\ At(c, x, k, 0)
      /\ \/ c = "idle" /\ k = 1
         \/ c = "copying" /\ k = 1
         \/ c = "rebuild" /\ k \in {1, 2, 16, 18}
      /\ c = "rebuild" => x \in {"filled", "unfilled"}
      /\ c = "copying" => x \in Item
      /\ script = <<>> => c = "idle"
  BY <1>1, Freely
<1>3. /\ seen \in Run /\ seen.mode = run.mode /\ seen.view = run.view /\ seen.up = run.up
      /\ UNCHANGED <<items, queued, todo, built, saved, late, count>>
  BY <1>1, <1>2 DEF TypeOK, Run
<1>4. ASSUME c = "idle", k = 1, Found \in {"dual", "adopted"}, UseDual(seen, "healthy"), UNCHANGED script,
             disk' = [disk EXCEPT !.manifest = IF Found = "adopted" THEN "ready" ELSE @]
      PROVE  IInv'
  <2>1. Here("idle", "none", 1, 0)'
    <3>1. Here("idle", x, 1, 0)'
      BY <1>2, <1>4, Stays
    <3> QED BY <3>1 DEF Here, Fits, Args, Body
  <2>2. /\ run' = [seen EXCEPT !.mode = "dual", !.health = IF seen.view THEN @ ELSE "healthy"]
        /\ mem' = [s \in Stores |-> IF s \in Pools THEN disk.dir[s].has ELSE {}]
        /\ batch' = [batch EXCEPT !.stale = batch.rows # {}]
        /\ disk' = [disk EXCEPT !.manifest = IF Found = "adopted" THEN "ready" ELSE @]
    BY <1>4 DEF UseDual, Stale
  <2>3. ~Damaged /\ BothThere /\ disk.log # "prepared" /\ disk'.manifest # "none" /\ c = "idle" /\ k = 1
    <3>1. ~Damaged /\ BothThere /\ (Found = "dual" => disk.manifest # "none")
      BY <1>2, <1>4, Refound
    <3>2. disk.log # "prepared"
      BY <1>2, <1>4, <3>1 DEF At, LogAt
    <3> QED BY <1>2, <1>4, <2>2, <3>1, <3>2 DEF TypeOK, Disk
  <2>4. TypeOK'
    <3>1. disk' \in Disk
      BY <1>2, <1>3, <2>2, <2>3, Dirs DEF TypeOK, Disk, Absent, Pools, Stores, In, PoolOf, Filed
    <3>2. run' \in Run
      BY <1>2, <1>3, <2>2, <2>3 DEF TypeOK, Run
    <3>3. mem' \in [Stores -> SUBSET Item] /\ \A p \in Pools : mem'[p] \subseteq items' \cap In(p)
      BY <1>2, <1>3, <2>2, <2>3 DEF TypeOK, Disk, Dir, Stores, Pools, In, PoolOf, Filed
    <3> QED BY <1>2, <1>3, <2>2, <2>3, <3>1, <3>2, <3>3 DEF TypeOK
  <2>5. Filed'
    BY <1>2, <1>3, <2>2, <2>3 DEF TypeOK, Disk, Dir, Absent, Pools, Stores, Filed, Formed
  <2>6. Logged'
    BY <1>2, <1>3, <2>2, <2>3 DEF TypeOK, Disk, Dir, Absent, Pools, Stores, Logged, Held, Cover, Passed,
           Even, PoolsHave
  <2>7. Staged'
    BY <1>2, <1>3, <2>2, <2>3 DEF TypeOK, Disk, Dir, Absent, Pools, Stores, Staged
  <2>8. Serving("idle", 1)'
    BY <1>2, <1>3, <2>2, <2>3 DEF TypeOK, Disk, Dir, Absent, Pools, Stores, Serving, Apart, Damaged,
           BothThere, There
  <2>9. LogAt("idle", 1)'
    BY <1>2, <1>3, <2>2, <2>3 DEF TypeOK, Disk, Dir, Absent, Pools, Stores, LogAt, Apart, Recovering,
           BothThere, There
  <2>10. StageAt("idle", 1)'
    BY <1>2, <1>3, <2>2, <2>3 DEF TypeOK, Disk, Dir, Absent, Pools, Stores, StageAt, Recovering, At
  <2>11. RunAt("idle", 1)'
    BY <1>2, <1>3, <2>2, <2>3 DEF TypeOK, Run, RunAt, At
  <2>12. Inside("idle", "none", 1, 0)'
    BY <2>1, <2>4, <2>5, <2>6, <2>7, <2>8, <2>9, <2>10, <2>11 DEF Inside, At
  <2> QED BY <2>12 DEF IInv
<1>5. ASSUME c = "idle", k = 1, Found = "damaged", Recover(<<>>), run' = seen, UNCHANGED <<mem, batch>>
      PROVE  IInv'
  <2>1. /\ run' = seen /\ UNCHANGED <<mem, batch>> /\ c = "idle" /\ k = 1
        /\ disk.stage \in {"none", "prepared", "copying", "completed"}
    BY <1>2, <1>5 DEF At, StageAt
  <2>2. PICK j \in {1, 9} :
          /\ Here("recover", "none", j, 0)' /\ disk' \in Disk
          /\ disk'.dir = disk.dir /\ disk'.log = disk.log /\ disk'.had = disk.had /\ disk'.old = disk.old
          /\ disk'.stash = disk.stash /\ disk'.manifest = disk.manifest
          /\ disk'.away.all = disk.away.all /\ disk'.away.trusted \subseteq disk.away.trusted
          /\ j = 1 => disk'.stage = "prepared" /\ disk'.cursor = 0 /\ disk.stage # "copying"
          /\ j = 9 => disk.stage = "copying" /\ disk'.stage = "copying" /\ disk'.cursor = disk.cursor
    BY <1>2, <1>5, <2>1, Recovered
  <2>3. run.mode # "dual"
    <3>1. Damaged \/ ~BothThere
      BY <1>2, <1>5, Refound
    <3> QED BY <1>2, <2>1, <3>1 DEF At, Serving, Apart, Damaged, BothThere, There, Pools
  <2>4. TypeOK'
    BY <1>2, <1>3, <2>1, <2>2 DEF TypeOK
  <2>5. Filed'
    BY <1>2, <1>3, <2>1, <2>2, <2>3 DEF TypeOK, Disk, Dir, Absent, Pools, Stores, Filed, Formed
  <2>6. Logged'
    BY <1>2, <1>3, <2>1, <2>2, <2>3 DEF TypeOK, Disk, Dir, Absent, Pools, Stores, Logged, Held, Cover,
           Passed, Even, PoolsHave
  <2>7. Staged'
    BY <1>2, <1>3, <2>1, <2>2, <2>3 DEF TypeOK, Disk, Dir, Absent, Pools, Stores, Staged
  <2>8. Serving("recover", j)'
    BY <1>2, <1>3, <2>1, <2>2, <2>3 DEF TypeOK, Disk, Dir, Absent, Pools, Stores, Serving, Apart, At
  <2>9. LogAt("recover", j)'
    BY <1>2, <1>3, <2>1, <2>2, <2>3 DEF TypeOK, Disk, Dir, Absent, Pools, Stores, LogAt, Apart, Recovering,
           BothThere, There, At
  <2>10. StageAt("recover", j)'
    BY <1>2, <1>3, <2>1, <2>2, <2>3 DEF TypeOK, Disk, Dir, Absent, Pools, Stores, StageAt, Recovering
  <2>11. RunAt("recover", j)'
    BY <1>2, <1>3, <2>1, <2>2, <2>3 DEF TypeOK, Run, RunAt, At
  <2>12. Inside("recover", "none", j, 0)'
    BY <2>2, <2>4, <2>5, <2>6, <2>7, <2>8, <2>9, <2>10, <2>11 DEF Inside, At
  <2> QED BY <2>12 DEF IInv
<1>6. ASSUME c = "idle", k = 1, Disable(seen, "unavailable"), UNCHANGED <<disk, script>>
      PROVE  IInv'
  <2>1. Here("idle", "none", 1, 0)'
    <3>1. Here("idle", x, 1, 0)'
      BY <1>2, <1>6, Stays
    <3> QED BY <3>1 DEF Here, Fits, Args, Body
  <2>2. /\ run' = [seen EXCEPT !.mode = "none", !.health = "unavailable", !.view = FALSE]
        /\ mem' = NoMem /\ batch' = [batch EXCEPT !.stale = batch.rows # {}] /\ disk' = disk
        /\ c = "idle" /\ k = 1
    BY <1>6 DEF Disable, Stale
  <2>3. TypeOK'
    <3>1. run' \in Run
      BY <1>3, <2>2 DEF Run
    <3>2. mem' \in [Stores -> SUBSET Item] /\ \A p \in Pools : mem'[p] = {}
      BY <2>2 DEF NoMem, Stores
    <3>3. batch' \in [rows : SUBSET (items \cap Paragraph), stale : BOOLEAN]
      BY <1>2, <2>2 DEF TypeOK
    <3> QED BY <1>2, <1>3, <2>2, <3>1, <3>2, <3>3 DEF TypeOK
  <2>4. Filed'
    BY <1>2, <1>3, <2>2 DEF TypeOK, Disk, Dir, Absent, Pools, Stores, Filed, Formed, NoMem
  <2>5. Logged'
    BY <1>2, <1>3, <2>2 DEF TypeOK, Disk, Dir, Absent, Pools, Stores, Logged, Held, Cover, Passed, Even,
           PoolsHave
  <2>6. Staged'
    BY <1>2, <1>3, <2>2 DEF TypeOK, Disk, Dir, Absent, Pools, Stores, Staged
  <2>7. Serving("idle", 1)'
    BY <1>2, <1>3, <2>2 DEF TypeOK, Disk, Dir, Absent, Pools, Stores, Serving, Apart
  <2>8. LogAt("idle", 1)'
    BY <1>2, <1>3, <2>2 DEF TypeOK, Disk, Dir, Absent, Pools, Stores, LogAt, Apart, Recovering, BothThere,
           There, At
  <2>9. StageAt("idle", 1)'
    BY <1>2, <1>3, <2>2 DEF TypeOK, Disk, Dir, Absent, Pools, Stores, StageAt, Recovering, At
  <2>10. RunAt("idle", 1)'
    BY <1>2, <1>3, <2>2 DEF TypeOK, Run, RunAt, At
  <2>11. Inside("idle", "none", 1, 0)'
    BY <2>1, <2>3, <2>4, <2>5, <2>6, <2>7, <2>8, <2>9, <2>10 DEF Inside, At
  <2> QED BY <2>11 DEF IInv
<1>7. ASSUME run' = seen, UNCHANGED <<disk, mem, batch, script>>
      PROVE  IInv'
  <2>1. Here(c, x, k, 0)'
    BY <1>2, <1>7, Stays
  <2>2. run' = seen /\ disk' = disk /\ mem' = mem /\ batch' = batch
    BY <1>7
  <2>3. TypeOK'
    BY <1>2, <1>3, <2>2 DEF TypeOK
  <2>4. Filed' /\ Logged' /\ Staged'
    BY <1>2, <1>3, <2>2 DEF Filed, Formed, Logged, Held, Cover, Passed, Even, PoolsHave, Staged
  <2>5. Serving(c, k)' /\ LogAt(c, k)' /\ StageAt(c, k)' /\ RunAt(c, k)'
    BY <1>2, <1>3, <2>2 DEF At, Serving, LogAt, StageAt, RunAt, BothThere, There, Even, Cover, Passed, Held,
           PoolsHave
  <2>6. c = "rebuild" => RebuildAt(k, x)'
    BY <1>2, <1>3, <2>2 DEF At, RebuildAt, Need, Passed, BothThere, There, Even, Full, PoolsHave
  <2>7. c = "copying" => CopyAt(k, x)'
    BY <1>2, <1>3, <2>2 DEF At, CopyAt, Remaining
  <2>8. Inside(c, x, k, 0)'
    BY <1>2, <2>1, <2>3, <2>4, <2>5, <2>6, <2>7 DEF Inside, At
  <2> QED BY <2>8 DEF IInv
<1> QED BY <1>1, <1>2, <1>4, <1>5, <1>6, <1>7

\* A rebuild begins.
LEMMA RebuildStep ==
    ASSUME NEW c, NEW x, NEW k, NEW n, Inside(c, x, k, n), Rebuild
    PROVE  IInv'
<1>1. /\ run.up /\ script = <<>> /\ disk.log = "none"
      /\ run' = [run EXCEPT !.observed = TRUE, !.degraded = TRUE, !.mode = IF @ = "none" THEN "single" ELSE @]
      /\ mem' = [mem EXCEPT !["single"] =
                  @ \cup (IF run.mode = "none" THEN disk.dir["single"].has ELSE {})]
      /\ disk' = [disk EXCEPT !.build = [p \in Pools |-> Blank]]
      /\ built' = [p \in Pools |-> {}] /\ todo' = items \cap Paragraph
      /\ count' = [count EXCEPT !.rebuilds = @ + 1]
      /\ UNCHANGED <<items, queued, batch, saved, late>>
  BY DEF Rebuild
<1>2. TypeOK /\ Filed /\ Logged /\ Staged /\ At(c, x, 1, 0) /\ c = "idle"
  <2>1. LoopFree
    BY <1>1 DEF LoopFree
  <2> QED BY <1>1, <2>1, Freely
<1>3. Here("rebuild", "filled", 1, 0)'
  <2>1. script' = Body("rebuild", "filled")
    BY DEF Rebuild, Rebuilding, Body
  <2> QED BY <2>1, Begins DEF Calls, Waits, Fits, Args, Outcomes
<1>4. [p \in Pools |-> Blank] \in [Pools -> Dir]
  BY Dirs
<1>5. TypeOK'
  <2>1. disk' \in Disk /\ disk'.dir = disk.dir
    BY <1>1, <1>2, <1>4 DEF TypeOK, Disk
  <2>2. run' \in Run
    BY <1>1, <1>2 DEF TypeOK, Run
  <2>3. mem' \in [Stores -> SUBSET Item] /\ \A p \in Pools : mem'[p] = mem[p]
    BY <1>1, <1>2 DEF TypeOK, Disk, Dir, Stores, Pools
  <2>4. /\ built' \in [Pools -> SUBSET Item]
        /\ count' \in [crashes : Nat, rebuilds : Nat, damages : Nat, gen : Nat]
    BY <1>1, <1>2 DEF TypeOK
  <2> QED BY <1>1, <1>2, <2>1, <2>2, <2>3, <2>4 DEF TypeOK
<1>6. Filed'
  BY <1>1, <1>2 DEF TypeOK, Disk, Dir, Absent, Pools, Stores, Filed, Formed
<1>7. Logged'
  BY <1>1, <1>2 DEF TypeOK, Disk, Dir, Absent, Pools, Stores, Logged, Held, Cover, Passed, Even, PoolsHave
<1>8. Staged'
  BY <1>1, <1>2 DEF TypeOK, Disk, Dir, Absent, Pools, Stores, Staged
<1>9. Serving("rebuild", 1)'
  BY <1>1, <1>2 DEF TypeOK, Disk, Dir, Absent, Pools, Stores, Serving, Apart, At
<1>10. LogAt("rebuild", 1)'
  BY <1>1, <1>2 DEF TypeOK, Disk, Dir, Absent, Pools, Stores, LogAt, Apart, Recovering, BothThere, There, At
<1>11. StageAt("rebuild", 1)'
  BY <1>1, <1>2 DEF TypeOK, Disk, Dir, Absent, Pools, Stores, StageAt, Recovering, At
<1>12. RunAt("rebuild", 1)'
  BY <1>1, <1>2 DEF TypeOK, Run, RunAt, At
<1>13. RebuildAt(1, "filled")'
  BY <1>1, <1>2 DEF TypeOK, Disk, Dir, Absent, Pools, Stores, RebuildAt, Need, Passed, BothThere, There,
         Even, NoDirs, Full, PoolsHave, Store, Filed
<1>14. Inside("rebuild", "filled", 1, 0)'
  BY <1>3, <1>5, <1>6, <1>7, <1>8, <1>9, <1>10, <1>11, <1>12, <1>13 DEF Inside, At
<1> QED BY <1>14 DEF IInv

\* The next of the old vectors is copied, or all have been.
LEMMA CopyStartStep ==
    ASSUME NEW c, NEW x, NEW k, NEW n, Inside(c, x, k, n), CopyStart
    PROVE  IInv'
<1>1. /\ run.up /\ script = <<>> /\ run.view
      /\ run.mode = "dual" /\ UNCHANGED <<items, queued, batch, mem, todo, built, saved, late, count>>
  BY DEF CopyStart
<1>2. TypeOK /\ Filed /\ Logged /\ Staged /\ At(c, x, 1, 0) /\ c = "idle" /\ Here("idle", x, 1, 0)
  <2>1. LoopFree
    BY <1>1 DEF LoopFree
  <2> QED BY <1>1, <2>1, Freely
<1>3. ASSUME disk' = [disk EXCEPT !.stage = "completed"],
             run' = [run EXCEPT !.view = FALSE, !.health = "recovered"], UNCHANGED script
      PROVE  IInv'
  <2>1. Here("idle", "none", 1, 0)'
    <3>1. Here("idle", x, 1, 0)'
      BY <1>2, <1>3, Stays
    <3> QED BY <3>1 DEF Here, Fits, Args, Body
  <2>2. /\ disk' = [disk EXCEPT !.stage = "completed"]
        /\ run' = [run EXCEPT !.view = FALSE, !.health = "recovered"] /\ disk.stage = "copying"
    BY <1>1, <1>2, <1>3 DEF Staged
  <2>3. TypeOK'
    <3>1. disk' \in Disk
      BY <1>1, <1>2, <2>2, Dirs DEF TypeOK, Disk, Absent, Pools, Stores
    <3>2. run' \in Run
      BY <1>1, <1>2, <2>2 DEF TypeOK, Run
    <3> QED BY <1>1, <1>2, <2>2, <3>1, <3>2 DEF TypeOK, In
  <2>4. Filed'
    BY <1>1, <1>2, <2>2 DEF TypeOK, Disk, Dir, Absent, Pools, Stores, Filed, Formed
  <2>5. Logged'
    BY <1>1, <1>2, <2>2 DEF TypeOK, Disk, Dir, Absent, Pools, Stores, Logged, Held, Cover, Passed, Even,
           PoolsHave
  <2>6. Staged'
    BY <1>1, <1>2, <2>2 DEF TypeOK, Disk, Dir, Absent, Pools, Stores, Staged
  <2>7. Serving("idle", 1)'
    BY <1>1, <1>2, <2>2 DEF TypeOK, Disk, Dir, Absent, Pools, Stores, Serving, Apart, At
  <2>8. LogAt("idle", 1)'
    BY <1>1, <1>2, <2>2 DEF TypeOK, Disk, Dir, Absent, Pools, Stores, LogAt, Apart, Recovering, BothThere,
           There, At
  <2>9. StageAt("idle", 1)'
    BY <1>1, <1>2, <2>2 DEF TypeOK, Disk, Dir, Absent, Pools, Stores, StageAt, Recovering, At
  <2>10. RunAt("idle", 1)'
    BY <1>1, <1>2, <2>2 DEF TypeOK, Run, RunAt, At
  <2>11. Inside("idle", "none", 1, 0)'
    BY <2>1, <2>3, <2>4, <2>5, <2>6, <2>7, <2>8, <2>9, <2>10 DEF Inside, At
  <2> QED BY <2>11 DEF IInv
<1>4. ASSUME NEW i \in Remaining, \A j \in Remaining : Rank[i] <= Rank[j],
             script' = Copying(i),
             UNCHANGED <<disk, run>>
      PROVE  IInv'
  <2>1. i \in Item
    BY <1>2 DEF Remaining, TypeOK
  <2>2. Here("copying", i, 1, 0)'
    BY <1>4, <2>1, Begins DEF Body, Calls, Waits, Fits, Args
  <2>3. /\ disk' = disk /\ run' = run /\ i \in Remaining /\ \A j \in Remaining : Rank[i] <= Rank[j]
        /\ disk.stage = "copying"
    BY <1>1, <1>2, <1>4 DEF Staged
  <2>4. TypeOK'
    <3>1. disk' \in Disk
      BY <1>1, <1>2, <2>1, <2>3, Dirs DEF TypeOK, Disk, Absent, Pools, Stores
    <3>2. run' \in Run
      BY <1>1, <1>2, <2>1, <2>3 DEF TypeOK, Run
    <3> QED BY <1>1, <1>2, <2>1, <2>3, <3>1, <3>2 DEF TypeOK, In
  <2>5. Filed'
    BY <1>1, <1>2, <2>1, <2>3 DEF TypeOK, Disk, Dir, Absent, Pools, Stores, Filed, Formed
  <2>6. Logged'
    BY <1>1, <1>2, <2>1, <2>3 DEF TypeOK, Disk, Dir, Absent, Pools, Stores, Logged, Held, Cover, Passed,
           Even, PoolsHave
  <2>7. Staged'
    BY <1>1, <1>2, <2>1, <2>3 DEF TypeOK, Disk, Dir, Absent, Pools, Stores, Staged
  <2>8. Serving("copying", 1)'
    BY <1>1, <1>2, <2>1, <2>3 DEF TypeOK, Disk, Dir, Absent, Pools, Stores, Serving, Apart, At
  <2>9. LogAt("copying", 1)'
    BY <1>1, <1>2, <2>1, <2>3 DEF TypeOK, Disk, Dir, Absent, Pools, Stores, LogAt, Apart, Recovering,
           BothThere, There, At
  <2>10. StageAt("copying", 1)'
    BY <1>1, <1>2, <2>1, <2>3 DEF TypeOK, Disk, Dir, Absent, Pools, Stores, StageAt, Recovering, At
  <2>11. RunAt("copying", 1)'
    BY <1>1, <1>2, <2>1, <2>3 DEF TypeOK, Run, RunAt, At
  <2>12. CopyAt(1, i)'
    BY <1>1, <1>2, <2>1, <2>3 DEF TypeOK, Disk, Dir, Absent, Pools, Stores, CopyAt, Remaining
  <2>13. Inside("copying", i, 1, 0)'
    BY <2>2, <2>4, <2>5, <2>6, <2>7, <2>8, <2>9, <2>10, <2>11, <2>12 DEF Inside, At
  <2> QED BY <2>13 DEF IInv
<1> QED BY <1>3, <1>4 DEF CopyStart

\* The process dies.
LEMMA CrashStep ==
    ASSUME NEW c, NEW x, NEW k, NEW n, Inside(c, x, k, n), Crash, CrashInFreshSwitch = FALSE
    PROVE  IInv'
<1>1. /\ run.up /\ (disk.manifest # "fresh" \/ disk.log # "prepared")
      /\ run' = Off /\ mem' = NoMem /\ script' = <<>>
      /\ todo' = {} /\ built' = [p \in Pools |-> {}] /\ batch' = NoBatch
      /\ count' = [count EXCEPT !.crashes = @ + 1]
      /\ UNCHANGED <<items, queued, disk, saved, late>>
  BY DEF Crash
<1>2. TypeOK /\ Filed /\ Logged /\ Staged
  BY DEF Inside
<1>3. Here("off", "none", 1, 0)'
  BY <1>1, Idles DEF Waits
<1>4. TypeOK'
  <2>1. Off \in Run
    BY DEF Off, Run
  <2>2. NoMem \in [Stores -> SUBSET Item] /\ \A p \in Pools : NoMem[p] = {}
    BY DEF NoMem, Stores, Pools
  <2>3. NoBatch \in [rows : SUBSET (items \cap Paragraph), stale : BOOLEAN]
    BY DEF NoBatch
  <2>4. built' \in [Pools -> SUBSET Item]
    BY <1>1
  <2>5. count' \in [crashes : Nat, rebuilds : Nat, damages : Nat, gen : Nat]
    BY <1>1, <1>2 DEF TypeOK
  <2>6. todo' \subseteq items /\ \A p \in Pools : mem'[p] \subseteq items \cap In(p)
    BY <1>1, <2>2
  <2>7. /\ run' \in Run /\ mem' \in [Stores -> SUBSET Item]
        /\ batch' \in [rows : SUBSET (items \cap Paragraph), stale : BOOLEAN]
    BY <1>1, <2>1, <2>2, <2>3
  <2>8. /\ items \subseteq Item /\ queued \subseteq items \cap Paragraph /\ disk \in Disk
        /\ late \subseteq saved /\ saved \subseteq items
    BY <1>2 DEF TypeOK
  <2>9. UNCHANGED <<items, queued, disk, saved, late>>
    BY <1>1
  <2> QED BY <2>4, <2>5, <2>6, <2>7, <2>8, <2>9 DEF TypeOK, In
<1>5. Filed'
  BY <1>1, <1>2 DEF TypeOK, Disk, Dir, Absent, Pools, Stores, Filed, Formed, NoMem
<1>6. Logged'
  BY <1>1, <1>2 DEF TypeOK, Disk, Dir, Absent, Pools, Stores, Logged, Held, Cover, Passed, Even, PoolsHave
<1>7. Staged'
  BY <1>1, <1>2 DEF TypeOK, Disk, Dir, Absent, Pools, Stores, Staged, Off
<1>8. Serving("off", 1)'
  BY <1>1, <1>2 DEF TypeOK, Disk, Dir, Absent, Pools, Stores, Serving, Apart, Off
<1>9. LogAt("off", 1)'
  BY <1>1, <1>2 DEF TypeOK, Disk, Dir, Absent, Pools, Stores, LogAt, Apart, Recovering, BothThere, There
<1>10. StageAt("off", 1)'
  BY <1>1, <1>2 DEF TypeOK, Disk, Dir, Absent, Pools, Stores, StageAt, Recovering
<1>11. RunAt("off", 1)'
  BY <1>1, <1>2 DEF TypeOK, Run, RunAt, Off
<1>12. Inside("off", "none", 1, 0)'
  BY <1>3, <1>4, <1>5, <1>6, <1>7, <1>8, <1>9, <1>10, <1>11 DEF Inside, At
<1> QED BY <1>12 DEF IInv

\* A pool is damaged while nothing runs.
LEMMA DamageStep ==
    ASSUME NEW c, NEW x, NEW k, NEW n, Inside(c, x, k, n), \E p \in Pools : Damage(p)
    PROVE  IInv'
<1>1. PICK p \in Pools : Damage(p)
  OBVIOUS
<1>2. /\ ~run.up /\ disk.stage \in {"none", "completed"} /\ disk.dir[p].is = "store"
      /\ disk' = [disk EXCEPT !.dir[p].is = "damaged"]
      /\ count' = [count EXCEPT !.damages = @ + 1]
      /\ UNCHANGED <<items, queued, batch, run, mem, todo, built, saved, late>> /\ UNCHANGED script
  BY <1>1 DEF Damage
<1>3. TypeOK /\ Filed /\ Logged /\ Staged /\ At(c, x, k, n) /\ c = "off" /\ Here(c, x, k, n)
  BY <1>2 DEF Inside, At, RunAt
<1>4. n = 0 /\ k = 1
  <2>1. ~(n > 0)
    BY <1>3, HereAre
  <2> QED BY <1>3, <2>1, HereIs DEF Waits
<1>5. Here("off", x, 1, 0)'
  BY <1>2, <1>3, <1>4, Stays
<1>6. /\ \A s \in Stores :
            /\ disk'.dir[s].has = disk.dir[s].has /\ disk'.dir[s].gen = disk.dir[s].gen
            /\ disk'.dir[s].is = disk.dir[s].is \/ (disk'.dir[s].is = "damaged" /\ disk.dir[s].is = "store")
      /\ disk' \in Disk /\ disk'.log = disk.log /\ disk'.had = disk.had /\ disk'.old = disk.old
      /\ disk'.stash = disk.stash /\ disk'.manifest = disk.manifest /\ disk'.away = disk.away
      /\ disk'.stage = disk.stage /\ disk'.cursor = disk.cursor
  <2>1. p \in Stores /\ disk.dir[p] \in Dir
    BY <1>3 DEF TypeOK, Disk, Stores
  <2>2. [disk.dir[p] EXCEPT !.is = "damaged"] \in Dir /\ p \in Stores
    BY <2>1 DEF Dir
  <2>3. disk' = [disk EXCEPT !.dir = [disk.dir EXCEPT ![p] = [disk.dir[p] EXCEPT !.is = "damaged"]]]
    BY <1>2, <1>3 DEF TypeOK, Disk
  <2>4. /\ disk' \in Disk /\ disk'.log = disk.log /\ disk'.had = disk.had /\ disk'.old = disk.old
        /\ disk'.stash = disk.stash /\ disk'.manifest = disk.manifest /\ disk'.away = disk.away
        /\ disk'.stage = disk.stage /\ disk'.cursor = disk.cursor
        /\ disk'.dir = [disk.dir EXCEPT ![p] = [disk.dir[p] EXCEPT !.is = "damaged"]]
    BY <1>3, <2>2, <2>3 DEF TypeOK, Disk
  <2>5. \A s \in Stores : disk.dir[s] \in Dir /\ disk.dir \in [Stores -> Dir]
    BY <1>3 DEF TypeOK, Disk
  <2> QED BY <1>2, <2>2, <2>4, <2>5 DEF Dir
<1>7. /\ disk'.dir["paragraph"].has = disk.dir["paragraph"].has
      /\ disk'.dir["paragraph"].gen = disk.dir["paragraph"].gen
      /\ disk'.dir["graph"].has = disk.dir["graph"].has /\ disk'.dir["graph"].gen = disk.dir["graph"].gen
      /\ disk'.dir["single"].has = disk.dir["single"].has /\ disk'.dir["single"].gen = disk.dir["single"].gen
  BY <1>6 DEF Stores, Pools
<1>8. TypeOK'
  <2>1. count' \in [crashes : Nat, rebuilds : Nat, damages : Nat, gen : Nat]
    BY <1>2, <1>3 DEF TypeOK
  <2> QED BY <1>2, <1>3, <1>6, <2>1 DEF TypeOK
<1>9. Filed'
  <2>1. \A s \in Stores : Formed(disk.dir[s])
    BY <1>3 DEF Filed
  <2>2. \A s \in Stores : Formed(disk'.dir[s])
    BY <1>6, <2>1 DEF Formed
  <2>3. \A q \in Pools : /\ Formed(disk'.old[q]) /\ disk'.dir[q].has = disk.dir[q].has
                       /\ disk'.old[q] = disk.old[q]
    BY <1>3, <1>6 DEF Filed, Stores
  <2> QED BY <1>2, <1>3, <1>6, <1>7, <2>2, <2>3 DEF Filed
<1>10. Logged'
  <2>1. PoolsHave' = PoolsHave /\ (Even <=> Even')
    BY <1>7 DEF PoolsHave, Even
  <2>2. Passed' = Passed
    BY <1>2, <1>6 DEF Passed
  <2>3. Held("paragraph")' = Held("paragraph") /\ Held("graph")' = Held("graph")
    BY <1>6, <1>7 DEF Held
  <2>4. /\ disk'.log = disk.log /\ disk'.stage = disk.stage /\ disk'.old = disk.old /\ disk'.stash = disk.stash
        /\ disk'.had = disk.had /\ disk'.away = disk.away /\ UNCHANGED <<saved, late>>
    BY <1>2, <1>6
  <2>5. Logged
    BY <1>3
  <2> QED BY <1>7, <2>1, <2>2, <2>3, <2>4, <2>5 DEF Logged, Cover
<1>11. Staged'
  BY <1>2, <1>3, <1>4, <1>6, <1>7 DEF TypeOK, Disk, Dir, Absent, Pools, Stores, Staged
<1>12. Serving("off", 1)'
  <2>1. run.mode = "none" /\ run' = run
    BY <1>2, <1>3 DEF At, RunAt
  <2> QED BY <2>1 DEF Serving
<1>13. LogAt("off", 1)'
  BY <1>2, <1>3, <1>4, <1>6, <1>7 DEF TypeOK, Disk, Dir, Absent, Pools, Stores, LogAt, Apart, Recovering,
         BothThere, There, At
<1>14. StageAt("off", 1)'
  BY <1>2, <1>3, <1>4, <1>6, <1>7 DEF TypeOK, Disk, Dir, Absent, Pools, Stores, StageAt, Recovering, At
<1>15. RunAt("off", 1)'
  BY <1>2, <1>3, <1>4, <1>6, <1>7 DEF TypeOK, Run, RunAt, At
<1>16. Inside("off", x, 1, 0)'
  BY <1>5, <1>8, <1>9, <1>10, <1>11, <1>12, <1>13, <1>14, <1>15 DEF Inside, At
<1> QED BY <1>16 DEF IInv

\* The vectors of a pool have been encoded.
LEMMA EncodeStep ==
    ASSUME NEW c, NEW x, NEW k, NEW n, Inside(c, x, k, n), Encode
    PROVE  IInv'
<1>1. /\ n = 0 /\ c \in Calls /\ Busy /\ Here(c, x, k, 0) /\ Fits(c, x) /\ k \in 1 .. End(c)
      /\ Goes(c, x, k, Head(script)) /\ Head(script)[1] = "encode"
  BY Steps1 DEF Encode, Inside, Doing, Busy
<1>2. c = "rebuild" /\ ((k = 1 /\ Arg = "paragraph") \/ (k = 2 /\ Arg = "graph"))
  BY <1>1 DEF Goes, Arg
<1>3. /\ TypeOK /\ Filed /\ Logged /\ Staged /\ At(c, x, k, 0)
      /\ built' = [built EXCEPT ![Arg] = @ \cup todo]
      /\ todo' = IF Arg = "paragraph" THEN items \cap Relation ELSE {}
      /\ UNCHANGED <<items, queued, batch, disk, run, mem, saved, late, count>>
  BY <1>1 DEF Encode, Inside
<1>4. Here(c, x, k + 1, 0)' /\ k \in Nat
  BY <1>1, <1>2, Advance, HereIs DEF Encode, End
<1>5. x \in {"filled", "unfilled"}
  BY <1>1, <1>2 DEF Fits
<1> HIDE DEF Arg
<1>6. TypeOK'
  <2>1. disk' \in Disk
    BY <1>2, <1>3, <1>5, Dirs DEF TypeOK, Disk, Absent, Pools, Stores
  <2>2. run' \in Run
    BY <1>2, <1>3, <1>5 DEF TypeOK, Run
  <2> QED BY <1>2, <1>3, <1>5, <2>1, <2>2 DEF TypeOK, In
<1>7. Filed'
  <2>1. todo \subseteq In(Arg)
    BY <1>2, <1>3, ItemAssumption DEF At, RebuildAt, In, PoolOf, Item, TypeOK
  <2>2. Arg \in Pools /\ todo \subseteq items
    BY <1>2, <1>3 DEF Pools, TypeOK
  <2>3. built' = [built EXCEPT ![Arg] = @ \cup todo] /\ built \in [Pools -> SUBSET Item]
    BY <1>3 DEF TypeOK
  <2> QED BY <1>3, <2>1, <2>2, <2>3 DEF Filed
<1>8. Logged'
  BY <1>2, <1>3, <1>5 DEF TypeOK, Disk, Dir, Absent, Pools, Stores, Logged, Held, Cover, Passed, Even, PoolsHave
<1>9. Staged'
  BY <1>2, <1>3, <1>5 DEF TypeOK, Disk, Dir, Absent, Pools, Stores, Staged
<1>10. Serving("rebuild", k + 1)'
  BY <1>2, <1>3, <1>5 DEF TypeOK, Disk, Dir, Absent, Pools, Stores, Serving, Apart, At
<1>11. LogAt("rebuild", k + 1)'
  BY <1>2, <1>3, <1>5 DEF TypeOK, Disk, Dir, Absent, Pools, Stores, LogAt, Apart, Recovering, BothThere,
         There, At
<1>12. StageAt("rebuild", k + 1)'
  BY <1>2, <1>3, <1>5 DEF TypeOK, Disk, Dir, Absent, Pools, Stores, StageAt, Recovering, At
<1>13. RunAt("rebuild", k + 1)'
  BY <1>2, <1>3, <1>5 DEF TypeOK, Run, RunAt, At
<1>14. RebuildAt(k + 1, x)'
  BY <1>2, <1>3, <1>5 DEF TypeOK, Disk, Dir, Absent, Pools, Stores, RebuildAt, Need, Passed, BothThere,
         There, Even, NoDirs, Full, PoolsHave, Store, At, Filed, Item
<1>15. Inside("rebuild", x, k + 1, 0)'
  BY <1>2, <1>4, <1>6, <1>7, <1>8, <1>9, <1>10, <1>11, <1>12, <1>13, <1>14 DEF Inside, At
<1> QED BY <1>15 DEF IInv

\* A batch cannot be encoded.
LEMMA EncodeFailsStep ==
    ASSUME NEW c, NEW x, NEW k, NEW n, Inside(c, x, k, n), EncodeFails
    PROVE  IInv'
<1>1. /\ n = 0 /\ c \in Calls /\ Busy /\ Here(c, x, k, 0) /\ Fits(c, x) /\ k \in 1 .. End(c)
      /\ Goes(c, x, k, Head(script)) /\ Head(script)[1] = "encode"
  BY Steps1 DEF EncodeFails, Inside, Doing, Busy
<1>2. c = "rebuild" /\ k \in {1, 2}
  BY <1>1 DEF Goes, Arg
<1>3. /\ TypeOK /\ Filed /\ Logged /\ Staged /\ At(c, x, k, 0)
      /\ todo' = {} /\ built' = [p \in Pools |-> {}]
      /\ UNCHANGED <<items, queued, batch, disk, run, mem, saved, late, count>>
  BY <1>1 DEF EncodeFails, Inside
<1>4. x \in {"filled", "unfilled"}
  BY <1>1, <1>2 DEF Fits
<1> HIDE DEF Arg
<1>5. Here("failed", "none", 1, 0)'
  <2>1. script' = Body("failed", "none")
    BY DEF EncodeFails, Body
  <2> QED BY <2>1, Begins DEF Calls, Waits, Fits, Args
<1>6. TypeOK'
  <2>1. disk' \in Disk
    BY <1>2, <1>3, <1>4, Dirs DEF TypeOK, Disk, Absent, Pools, Stores
  <2>2. run' \in Run
    BY <1>2, <1>3, <1>4 DEF TypeOK, Run
  <2> QED BY <1>2, <1>3, <1>4, <2>1, <2>2 DEF TypeOK, In
<1>7. Filed'
  BY <1>2, <1>3, <1>4 DEF TypeOK, Disk, Dir, Absent, Pools, Stores, Filed, Formed
<1>8. Logged'
  BY <1>2, <1>3, <1>4 DEF TypeOK, Disk, Dir, Absent, Pools, Stores, Logged, Held, Cover, Passed, Even, PoolsHave
<1>9. Staged'
  BY <1>2, <1>3, <1>4 DEF TypeOK, Disk, Dir, Absent, Pools, Stores, Staged
<1>10. Serving("failed", 1)'
  BY <1>2, <1>3, <1>4 DEF TypeOK, Disk, Dir, Absent, Pools, Stores, Serving, Apart, At
<1>11. LogAt("failed", 1)'
  BY <1>2, <1>3, <1>4 DEF TypeOK, Disk, Dir, Absent, Pools, Stores, LogAt, Apart, Recovering, BothThere,
         There, At, RebuildAt
<1>12. StageAt("failed", 1)'
  BY <1>2, <1>3, <1>4 DEF TypeOK, Disk, Dir, Absent, Pools, Stores, StageAt, Recovering, At
<1>13. RunAt("failed", 1)'
  BY <1>2, <1>3, <1>4 DEF TypeOK, Run, RunAt, At
<1>14. Inside("failed", "none", 1, 0)'
  BY <1>5, <1>6, <1>7, <1>8, <1>9, <1>10, <1>11, <1>12, <1>13 DEF Inside, At
<1> QED BY <1>14 DEF IInv

\* The builds are given up.
LEMMA DropStep ==
    ASSUME NEW c, NEW x, NEW k, NEW n, Inside(c, x, k, n), Drop
    PROVE  IInv'
<1>1. /\ n = 0 /\ c \in Calls /\ Busy /\ Here(c, x, k, 0) /\ Fits(c, x) /\ k \in 1 .. End(c)
      /\ Goes(c, x, k, Head(script)) /\ Head(script)[1] = "drop"
  BY Steps1 DEF Drop, Inside, Doing, Busy
<1>2. c = "failed" /\ k = 1
  BY <1>1 DEF Goes, Arg
<1>3. /\ TypeOK /\ Filed /\ Logged /\ Staged /\ At(c, x, k, 0)
      /\ disk' = [disk EXCEPT !.build = NoDirs]
      /\ UNCHANGED <<items, queued, batch, run, mem, todo, built, saved, late, count>>
  BY <1>1 DEF Drop, Inside
<1>4. Here(c, x, k + 1, 0)' /\ k \in Nat
  BY <1>1, <1>2, Advance, HereIs DEF Drop, End
<1> HIDE DEF Arg
<1>5. TypeOK'
  <2>1. disk' \in Disk
    BY <1>2, <1>3, Dirs DEF TypeOK, Disk, Absent, Pools, Stores, NoDirs
  <2>2. run' \in Run
    BY <1>2, <1>3 DEF TypeOK, Run
  <2> QED BY <1>2, <1>3, <2>1, <2>2 DEF TypeOK, In, NoDirs
<1>6. Filed'
  BY <1>2, <1>3 DEF TypeOK, Disk, Dir, Absent, Pools, Stores, Filed, Formed
<1>7. Logged'
  BY <1>2, <1>3 DEF TypeOK, Disk, Dir, Absent, Pools, Stores, Logged, Held, Cover, Passed, Even, PoolsHave
<1>8. Staged'
  BY <1>2, <1>3 DEF TypeOK, Disk, Dir, Absent, Pools, Stores, Staged
<1>9. Serving("failed", k + 1)'
  BY <1>2, <1>3 DEF TypeOK, Disk, Dir, Absent, Pools, Stores, Serving, Apart, At
<1>10. LogAt("failed", k + 1)'
  BY <1>2, <1>3 DEF TypeOK, Disk, Dir, Absent, Pools, Stores, LogAt, Apart, Recovering, BothThere, There, At
<1>11. StageAt("failed", k + 1)'
  BY <1>2, <1>3 DEF TypeOK, Disk, Dir, Absent, Pools, Stores, StageAt, Recovering, At
<1>12. RunAt("failed", k + 1)'
  BY <1>2, <1>3 DEF TypeOK, Run, RunAt, At
<1>13. Inside("failed", x, k + 1, 0)'
  BY <1>2, <1>4, <1>5, <1>6, <1>7, <1>8, <1>9, <1>10, <1>11, <1>12 DEF Inside, At
<1> QED BY <1>13 DEF IInv

\* A store is built.
LEMMA SaveBuildStep ==
    ASSUME NEW c, NEW x, NEW k, NEW n, Inside(c, x, k, n), SaveBuild
    PROVE  IInv'
<1>1. /\ n = 0 /\ c \in Calls /\ Busy /\ Here(c, x, k, 0) /\ Fits(c, x) /\ k \in 1 .. End(c)
      /\ Goes(c, x, k, Head(script)) /\ Head(script)[1] = "build"
  BY Steps1 DEF SaveBuild, Inside, Doing, Busy
<1>2. c = "rebuild" /\ ((k = 3 /\ Arg = "paragraph") \/ (k = 4 /\ Arg = "graph"))
  BY <1>1 DEF Goes, Arg
<1>3. /\ TypeOK /\ Filed /\ Logged /\ Staged /\ At(c, x, k, 0)
      /\ count' = [count EXCEPT !.gen = IF Arg = "paragraph" THEN @ + 1 ELSE @]
      /\ disk' = [disk EXCEPT !.build[Arg] = Store(built[Arg], count'.gen)]
      /\ UNCHANGED <<items, queued, batch, run, mem, todo, built, saved, late>>
  BY <1>1 DEF SaveBuild, Inside
<1>4. Here(c, x, k + 1, 0)' /\ k \in Nat
  BY <1>1, <1>2, Advance, HereIs DEF SaveBuild, End
<1>5. x \in {"filled", "unfilled"}
  BY <1>1, <1>2 DEF Fits
<1> HIDE DEF Arg
<1>6. TypeOK'
  <2>1. count' \in [crashes : Nat, rebuilds : Nat, damages : Nat, gen : Nat] /\ count'.gen \in Nat
    BY <1>3 DEF TypeOK
  <2>2. Arg \in Pools /\ Store(built[Arg], count'.gen) \in Dir
    BY <1>2, <1>3, <2>1, Dirs DEF TypeOK, Pools
  <2>3. disk' \in Disk
    BY <1>3, <2>2 DEF TypeOK, Disk
  <2> QED BY <1>3, <2>1, <2>3 DEF TypeOK
<1>7. Filed'
  BY <1>2, <1>3, <1>5 DEF TypeOK, Disk, Dir, Absent, Pools, Stores, Filed, Formed
<1>8. Logged'
  BY <1>2, <1>3, <1>5 DEF TypeOK, Disk, Dir, Absent, Pools, Stores, Logged, Held, Cover, Passed, Even, PoolsHave
<1>9. Staged'
  BY <1>2, <1>3, <1>5 DEF TypeOK, Disk, Dir, Absent, Pools, Stores, Staged
<1>10. Serving("rebuild", k + 1)'
  BY <1>2, <1>3, <1>5 DEF TypeOK, Disk, Dir, Absent, Pools, Stores, Serving, Apart, At
<1>11. LogAt("rebuild", k + 1)'
  BY <1>2, <1>3, <1>5 DEF TypeOK, Disk, Dir, Absent, Pools, Stores, LogAt, Apart, Recovering, BothThere,
         There, At
<1>12. StageAt("rebuild", k + 1)'
  BY <1>2, <1>3, <1>5 DEF TypeOK, Disk, Dir, Absent, Pools, Stores, StageAt, Recovering, At
<1>13. RunAt("rebuild", k + 1)'
  BY <1>2, <1>3, <1>5 DEF TypeOK, Run, RunAt, At
<1>14. RebuildAt(k + 1, x)'
  BY <1>2, <1>3, <1>5 DEF TypeOK, Disk, Dir, Absent, Pools, Stores, RebuildAt, Need, Passed, BothThere,
         There, Even, NoDirs, Full, PoolsHave, Store, At
<1>15. Inside("rebuild", x, k + 1, 0)'
  BY <1>2, <1>4, <1>6, <1>7, <1>8, <1>9, <1>10, <1>11, <1>12, <1>13, <1>14 DEF Inside, At
<1> QED BY <1>15 DEF IInv

\* The log of the switch is begun.
LEMMA PrepareStep ==
    ASSUME NEW c, NEW x, NEW k, NEW n, Inside(c, x, k, n), Prepare
    PROVE  IInv'
<1>1. /\ n = 0 /\ c \in Calls /\ Busy /\ Here(c, x, k, 0) /\ Fits(c, x) /\ k \in 1 .. End(c)
      /\ Goes(c, x, k, Head(script)) /\ Head(script)[1] = "prepare"
  BY Steps1 DEF Prepare, Inside, Doing, Busy
<1>2. c = "rebuild" /\ ((k = 5 /\ Arg = "bare") \/ (k = 6 /\ Arg = "prepared"))
  BY <1>1 DEF Goes, Arg
<1>3. /\ TypeOK /\ Filed /\ Logged /\ Staged /\ At(c, x, k, 0)
      /\ disk' = [disk EXCEPT !.log = Arg, !.had = {p \in Pools : disk.dir[p].is # "absent"}]
      /\ UNCHANGED <<items, queued, batch, run, mem, todo, built, saved, late, count>>
  BY <1>1 DEF Prepare, Inside
<1>4. Here(c, x, k + 1, 0)' /\ k \in Nat
  BY <1>1, <1>2, Advance, HereIs DEF Prepare, End
<1>5. x \in {"filled", "unfilled"}
  BY <1>1, <1>2 DEF Fits
<1> HIDE DEF Arg
<1>6. TypeOK'
  <2>1. disk' \in Disk
    BY <1>2, <1>3, Dirs DEF TypeOK, Disk, Pools, Stores
  <2> QED BY <1>3, <2>1 DEF TypeOK
<1>7. Filed'
  BY <1>2, <1>3, <1>5 DEF TypeOK, Disk, Dir, Absent, Pools, Stores, Filed, Formed
<1>8. Logged'
  BY <1>2, <1>3, <1>5 DEF TypeOK, Disk, Dir, Absent, Pools, Stores, Logged, Held, Cover, Passed, Even,
         PoolsHave, At, LogAt, StageAt, RebuildAt, NoDirs, Apart, Recovering, BothThere, There
<1>9. Staged'
  BY <1>2, <1>3, <1>5 DEF TypeOK, Disk, Dir, Absent, Pools, Stores, Staged, At, StageAt
<1>10. Serving("rebuild", k + 1)'
  BY <1>2, <1>3, <1>5 DEF TypeOK, Disk, Dir, Absent, Pools, Stores, Serving, Apart, At
<1>11. LogAt("rebuild", k + 1)'
  BY <1>2, <1>3, <1>5 DEF TypeOK, Disk, Dir, Absent, Pools, Stores, LogAt, Apart, Recovering, BothThere,
         There, At, RebuildAt
<1>12. StageAt("rebuild", k + 1)'
  BY <1>2, <1>3, <1>5 DEF TypeOK, Disk, Dir, Absent, Pools, Stores, StageAt, Recovering, At
<1>13. RunAt("rebuild", k + 1)'
  BY <1>2, <1>3, <1>5 DEF TypeOK, Run, RunAt, At
<1>14. RebuildAt(k + 1, x)'
  BY <1>2, <1>3, <1>5 DEF TypeOK, Disk, Dir, Absent, Pools, Stores, RebuildAt, Need, Passed, BothThere,
         There, Even, NoDirs, Full, PoolsHave, Store, At, LogAt, Apart, Recovering, StageAt, Logged
<1>15. Inside("rebuild", x, k + 1, 0)'
  BY <1>2, <1>4, <1>6, <1>7, <1>8, <1>9, <1>10, <1>11, <1>12, <1>13, <1>14 DEF Inside, At
<1> QED BY <1>15 DEF IInv

\* A built store is moved in.
LEMMA MoveInStep ==
    ASSUME NEW c, NEW x, NEW k, NEW n, Inside(c, x, k, n), MoveIn
    PROVE  IInv'
<1>1. /\ n = 0 /\ c \in Calls /\ Busy /\ Here(c, x, k, 0) /\ Fits(c, x) /\ k \in 1 .. End(c)
      /\ Goes(c, x, k, Head(script)) /\ Head(script)[1] = "in"
  BY Steps1 DEF MoveIn, Inside, Doing, Busy
<1>2. c = "rebuild" /\ ((k = 9 /\ Arg = "paragraph") \/ (k = 10 /\ Arg = "graph"))
  BY <1>1 DEF Goes, Arg
<1>3. /\ TypeOK /\ Filed /\ Logged /\ Staged /\ At(c, x, k, 0)
      /\ disk' = [disk EXCEPT !.dir[Arg] = disk.build[Arg], !.build[Arg] = Absent]
      /\ UNCHANGED <<items, queued, batch, run, mem, todo, built, saved, late, count>>
  BY <1>1 DEF MoveIn, Inside
<1>4. Here(c, x, k + 1, 0)' /\ k \in Nat
  BY <1>1, <1>2, Advance, HereIs DEF MoveIn, End
<1>5. x \in {"filled", "unfilled"}
  BY <1>1, <1>2 DEF Fits
<1> HIDE DEF Arg
<1>6. TypeOK'
  <2>1. disk' \in Disk
    BY <1>2, <1>3, Dirs DEF TypeOK, Disk, Pools, Stores
  <2> QED BY <1>3, <2>1 DEF TypeOK
<1>7. Filed'
  BY <1>2, <1>3, <1>5 DEF TypeOK, Disk, Dir, Absent, Pools, Stores, Filed, Formed, At, RebuildAt, Store, In,
         PoolOf
<1>8. Logged'
  BY <1>2, <1>3, <1>5 DEF TypeOK, Disk, Dir, Absent, Pools, Stores, Logged, Held, Cover, Passed, Even,
         PoolsHave, At, RebuildAt
<1>9. Staged'
  BY <1>2, <1>3, <1>5 DEF TypeOK, Disk, Dir, Absent, Pools, Stores, Staged, At, StageAt
<1>10. Serving("rebuild", k + 1)'
  BY <1>2, <1>3, <1>5 DEF TypeOK, Disk, Dir, Absent, Pools, Stores, Serving, Apart, At
<1>11. LogAt("rebuild", k + 1)'
  BY <1>2, <1>3, <1>5 DEF TypeOK, Disk, Dir, Absent, Pools, Stores, LogAt, Apart, Recovering, BothThere,
         There, At
<1>12. StageAt("rebuild", k + 1)'
  BY <1>2, <1>3, <1>5 DEF TypeOK, Disk, Dir, Absent, Pools, Stores, StageAt, Recovering, At
<1>13. RunAt("rebuild", k + 1)'
  BY <1>2, <1>3, <1>5 DEF TypeOK, Run, RunAt, At
<1>14. RebuildAt(k + 1, x)'
  BY <1>2, <1>3, <1>5 DEF TypeOK, Disk, Dir, Absent, Pools, Stores, RebuildAt, Need, Passed, BothThere,
         There, Even, NoDirs, Full, PoolsHave, Store, At
<1>15. Inside("rebuild", x, k + 1, 0)'
  BY <1>2, <1>4, <1>6, <1>7, <1>8, <1>9, <1>10, <1>11, <1>12, <1>13, <1>14 DEF Inside, At
<1> QED BY <1>15 DEF IInv

\* The switch is complete.
LEMMA ActivatedStep ==
    ASSUME NEW c, NEW x, NEW k, NEW n, Inside(c, x, k, n), Activated
    PROVE  IInv'
<1>1. /\ n = 0 /\ c \in Calls /\ Busy /\ Here(c, x, k, 0) /\ Fits(c, x) /\ k \in 1 .. End(c)
      /\ Goes(c, x, k, Head(script)) /\ Head(script)[1] = "activated"
  BY Steps1 DEF Activated, Inside, Doing, Busy
<1>2. c = "rebuild" /\ k = 11
  BY <1>1 DEF Goes, Arg
<1>3. /\ TypeOK /\ Filed /\ Logged /\ Staged /\ At(c, x, k, 0)
      /\ disk' = [disk EXCEPT !.build = NoDirs, !.log = "activated"]
      /\ UNCHANGED <<items, queued, batch, run, mem, todo, built, saved, late, count>>
  BY <1>1 DEF Activated, Inside
<1>4. Here(c, x, k + 1, 0)' /\ k \in Nat
  BY <1>1, <1>2, Advance, HereIs DEF Activated, End
<1>5. x \in {"filled", "unfilled"}
  BY <1>1, <1>2 DEF Fits
<1> HIDE DEF Arg
<1>6. TypeOK'
  <2>1. disk' \in Disk
    BY <1>2, <1>3, Dirs DEF TypeOK, Disk, Pools, Stores
  <2> QED BY <1>3, <2>1 DEF TypeOK
<1>7. Filed'
  BY <1>2, <1>3, <1>5 DEF TypeOK, Disk, Dir, Absent, Pools, Stores, Filed, Formed
<1>8. Logged'
  BY <1>2, <1>3, <1>5 DEF TypeOK, Disk, Dir, Absent, Pools, Stores, Logged, Held, Cover, Passed, Even,
         PoolsHave, At, RebuildAt, Need, Store
<1>9. Staged'
  BY <1>2, <1>3, <1>5 DEF TypeOK, Disk, Dir, Absent, Pools, Stores, Staged, At, StageAt
<1>10. Serving("rebuild", k + 1)'
  BY <1>2, <1>3, <1>5 DEF TypeOK, Disk, Dir, Absent, Pools, Stores, Serving, Apart, At
<1>11. LogAt("rebuild", k + 1)'
  BY <1>2, <1>3, <1>5 DEF TypeOK, Disk, Dir, Absent, Pools, Stores, LogAt, Apart, Recovering, BothThere,
         There, At
<1>12. StageAt("rebuild", k + 1)'
  BY <1>2, <1>3, <1>5 DEF TypeOK, Disk, Dir, Absent, Pools, Stores, StageAt, Recovering, At
<1>13. RunAt("rebuild", k + 1)'
  BY <1>2, <1>3, <1>5 DEF TypeOK, Run, RunAt, At
<1>14. RebuildAt(k + 1, x)'
  BY <1>2, <1>3, <1>5 DEF TypeOK, Disk, Dir, Absent, Pools, Stores, RebuildAt, Need, Passed, BothThere,
         There, Even, NoDirs, Full, PoolsHave, Store, At
<1>15. Inside("rebuild", x, k + 1, 0)'
  BY <1>2, <1>4, <1>6, <1>7, <1>8, <1>9, <1>10, <1>11, <1>12, <1>13, <1>14 DEF Inside, At
<1> QED BY <1>15 DEF IInv

\* The pools are declared ready.
LEMMA ManifestStep ==
    ASSUME NEW c, NEW x, NEW k, NEW n, Inside(c, x, k, n), Manifest
    PROVE  IInv'
<1>1. /\ n = 0 /\ c \in Calls /\ Busy /\ Here(c, x, k, 0) /\ Fits(c, x) /\ k \in 1 .. End(c)
      /\ Goes(c, x, k, Head(script)) /\ Head(script)[1] = "manifest"
  BY Steps1 DEF Manifest, Inside, Doing, Busy
<1>2. (c = "rebuild" /\ k \in {12, 21}) \/ (c = "copying" /\ k = 4)
  BY <1>1 DEF Goes, Arg
<1>3. /\ TypeOK /\ Filed /\ Logged /\ Staged /\ At(c, x, k, 0)
      /\ disk' = [disk EXCEPT !.manifest = "ready"]
      /\ UNCHANGED <<items, queued, batch, run, mem, todo, built, saved, late, count>>
  BY <1>1 DEF Manifest, Inside
<1>4. Here(c, x, k + 1, 0)' /\ k \in Nat
  BY <1>1, <1>2, Advance, HereIs DEF Manifest, End
<1> HIDE DEF Arg
<1>5. ASSUME c = "rebuild"
      PROVE  IInv'
  <2>1. x \in {"filled", "unfilled"} /\ Here("rebuild", x, k + 1, 0)'
    BY <1>1, <1>4, <1>5 DEF Fits
  <2>2. TypeOK'
    <3>1. disk' \in Disk
      BY <1>2, <1>3, <1>4, <1>5, <2>1, Dirs DEF TypeOK, Disk, Absent, Pools, Stores
    <3>2. run' \in Run
      BY <1>2, <1>3, <1>4, <1>5, <2>1 DEF TypeOK, Run
    <3> QED BY <1>2, <1>3, <1>4, <1>5, <2>1, <3>1, <3>2 DEF TypeOK, In
  <2>3. Filed'
    BY <1>2, <1>3, <1>4, <1>5, <2>1 DEF TypeOK, Disk, Dir, Absent, Pools, Stores, Filed, Formed
  <2>4. Logged'
    BY <1>2, <1>3, <1>4, <1>5, <2>1 DEF TypeOK, Disk, Dir, Absent, Pools, Stores, Logged, Held, Cover,
           Passed, Even, PoolsHave
  <2>5. Staged'
    BY <1>2, <1>3, <1>4, <1>5, <2>1 DEF TypeOK, Disk, Dir, Absent, Pools, Stores, Staged
  <2>6. Serving("rebuild", k + 1)'
    BY <1>2, <1>3, <1>4, <1>5, <2>1 DEF TypeOK, Disk, Dir, Absent, Pools, Stores, Serving, Apart, At
  <2>7. LogAt("rebuild", k + 1)'
    BY <1>2, <1>3, <1>4, <1>5, <2>1 DEF TypeOK, Disk, Dir, Absent, Pools, Stores, LogAt, Apart, Recovering,
           BothThere, There, At
  <2>8. StageAt("rebuild", k + 1)'
    BY <1>2, <1>3, <1>4, <1>5, <2>1 DEF TypeOK, Disk, Dir, Absent, Pools, Stores, StageAt, Recovering, At
  <2>9. RunAt("rebuild", k + 1)'
    BY <1>2, <1>3, <1>4, <1>5, <2>1 DEF TypeOK, Run, RunAt, At
  <2>10. RebuildAt(k + 1, x)'
    BY <1>2, <1>3, <1>4, <1>5, <2>1 DEF TypeOK, Disk, Dir, Absent, Pools, Stores, RebuildAt, Need, Passed,
           BothThere, There, Even, NoDirs, Full, PoolsHave, Store, At
  <2>11. Inside("rebuild", x, k + 1, 0)'
    BY <2>1, <2>2, <2>3, <2>4, <2>5, <2>6, <2>7, <2>8, <2>9, <2>10 DEF Inside, At
  <2> QED BY <2>11 DEF IInv
<1>6. ASSUME c = "copying"
      PROVE  IInv'
  <2>1. Here("copying", x, k + 1, 0)'
    BY <1>4, <1>6
  <2>2. TypeOK'
    <3>1. disk' \in Disk
      BY <1>2, <1>3, <1>6, <2>1, Dirs DEF TypeOK, Disk, Absent, Pools, Stores
    <3>2. run' \in Run
      BY <1>2, <1>3, <1>6, <2>1 DEF TypeOK, Run
    <3> QED BY <1>2, <1>3, <1>6, <2>1, <3>1, <3>2 DEF TypeOK, In
  <2>3. Filed'
    BY <1>2, <1>3, <1>6, <2>1 DEF TypeOK, Disk, Dir, Absent, Pools, Stores, Filed, Formed
  <2>4. Logged'
    BY <1>2, <1>3, <1>6, <2>1 DEF TypeOK, Disk, Dir, Absent, Pools, Stores, Logged, Held, Cover, Passed,
           Even, PoolsHave
  <2>5. Staged'
    BY <1>2, <1>3, <1>6, <2>1 DEF TypeOK, Disk, Dir, Absent, Pools, Stores, Staged
  <2>6. Serving("copying", k + 1)'
    BY <1>2, <1>3, <1>6, <2>1 DEF TypeOK, Disk, Dir, Absent, Pools, Stores, Serving, Apart, At
  <2>7. LogAt("copying", k + 1)'
    BY <1>2, <1>3, <1>6, <2>1 DEF TypeOK, Disk, Dir, Absent, Pools, Stores, LogAt, Apart, Recovering,
           BothThere, There, At
  <2>8. StageAt("copying", k + 1)'
    BY <1>2, <1>3, <1>6, <2>1 DEF TypeOK, Disk, Dir, Absent, Pools, Stores, StageAt, Recovering, At
  <2>9. RunAt("copying", k + 1)'
    BY <1>2, <1>3, <1>6, <2>1 DEF TypeOK, Run, RunAt, At
  <2>10. CopyAt(k + 1, x)'
    BY <1>2, <1>3, <1>6, <2>1 DEF TypeOK, Disk, Dir, Absent, Pools, Stores, CopyAt, Remaining, At
  <2>11. Inside("copying", x, k + 1, 0)'
    BY <2>1, <2>2, <2>3, <2>4, <2>5, <2>6, <2>7, <2>8, <2>9, <2>10 DEF Inside, At
  <2> QED BY <2>11 DEF IInv
<1> QED BY <1>2, <1>5, <1>6

\* What the reload of a rebuild finds.
LEMMA ReloadIs ==
    ASSUME ReloadStores
    PROVE  \/ /\ Found \in {"dual", "adopted"} /\ Done /\ Stale
              /\ run' = [run EXCEPT !.mode = "dual"]
              /\ mem' = [s \in Stores |-> IF s \in Pools THEN disk.dir[s].has ELSE {}]
              /\ disk' = [disk EXCEPT !.manifest = IF Found = "adopted" THEN "ready" ELSE @]
           \/ /\ Found = "damaged" /\ script' = <<>> /\ Stale
              /\ run' = [run EXCEPT !.mode = IF @ = "dual" THEN "single" ELSE @]
              /\ UNCHANGED <<disk, mem>>
           \/ /\ Found = "not_dual" /\ Done
              /\ UNCHANGED <<disk, run, mem, batch>>
<1>1. ASSUME UseDual(run, run.health)
      PROVE  /\ Stale /\ run' = [run EXCEPT !.mode = "dual"]
             /\ mem' = [s \in Stores |-> IF s \in Pools THEN disk.dir[s].has ELSE {}]
  <2>1. /\ Stale /\ run' = [run EXCEPT !.mode = "dual", !.health = IF run.view THEN @ ELSE run.health]
        /\ mem' = [s \in Stores |-> IF s \in Pools THEN disk.dir[s].has ELSE {}]
    BY <1>1 DEF UseDual
  <2> QED BY <2>1
<1> QED BY <1>1 DEF ReloadStores, Found

\* The stores are read again.
LEMMA ReloadStoresStep ==
    ASSUME NEW c, NEW x, NEW k, NEW n, Inside(c, x, k, n), ReloadStores
    PROVE  IInv'
<1>1. /\ n = 0 /\ c \in Calls /\ Busy /\ Here(c, x, k, 0) /\ Fits(c, x) /\ k \in 1 .. End(c)
      /\ Goes(c, x, k, Head(script)) /\ Head(script)[1] = "reload"
  BY Steps1 DEF ReloadStores, Inside, Doing, Busy
<1>2. (c = "rebuild" /\ k = 14) \/ (c = "failed" /\ k = 2)
  BY <1>1 DEF Goes, Arg
<1>3. /\ TypeOK /\ Filed /\ Logged /\ Staged /\ At(c, x, k, 0)
      /\ UNCHANGED <<items, queued, todo, built, saved, late, count>>
  BY <1>1 DEF ReloadStores, Inside
<1> HIDE DEF Arg
<1>4. /\ Found \in {"dual", "damaged", "adopted", "not_dual"}
      /\ Found \in {"dual", "adopted"} => ~Damaged /\ BothThere
      /\ Found = "dual" => disk.manifest # "none"
      /\ Found = "damaged" => Damaged \/ ~BothThere
  BY <1>3, Refound
<1>5. Done => Here(c, x, k + 1, 0)' /\ k \in Nat
  BY <1>1, <1>2, Advance, HereIs DEF End
<1>6. k = 14 => Found = "dual"
  <2>1. k = 14 => disk.manifest = "ready" /\ \A p \in Pools : disk.dir[p].is = "store"
    BY <1>2, <1>3 DEF At, RebuildAt
  <2> QED BY <2>1 DEF Found, Reload, Ready, Damaged
<1>7. ASSUME Found \in {"dual", "adopted"}, Done, Stale,
             run' = [run EXCEPT !.mode = "dual"],
             mem' = [s \in Stores |-> IF s \in Pools THEN disk.dir[s].has ELSE {}],
             disk' = [disk EXCEPT !.manifest = IF Found = "adopted" THEN "ready" ELSE @]
      PROVE  IInv'
  <2>1. Here(c, x, k + 1, 0)'
    BY <1>5, <1>7
  <2>2. /\ run' = [run EXCEPT !.mode = "dual"]
        /\ mem' = [s \in Stores |-> IF s \in Pools THEN disk.dir[s].has ELSE {}]
        /\ disk' = [disk EXCEPT !.manifest = IF Found = "adopted" THEN "ready" ELSE @]
        /\ batch' = [batch EXCEPT !.stale = batch.rows # {}]
    BY <1>7 DEF Stale
  <2>3. ~Damaged /\ BothThere /\ disk'.manifest # "none" /\ (k = 14 => disk'.manifest = "ready")
    <3>1. k = 14 => disk.manifest = "ready"
      BY <1>2, <1>3 DEF At, RebuildAt
    <3> QED BY <1>3, <1>4, <1>6, <1>7, <2>2, <3>1 DEF TypeOK, Disk
  <2>4. disk.log # "prepared"
    BY <1>2, <1>3, <2>3 DEF At, LogAt, RebuildAt
  <2>5. ASSUME c = "rebuild"
       PROVE  IInv'
    <3>1. Here("rebuild", x, k + 1, 0)' /\ x \in {"filled", "unfilled"} /\ k = 14
      BY <1>1, <1>2, <2>1, <2>5 DEF Fits
    <3>2. TypeOK'
      <4>1. disk' \in Disk /\ run' \in Run
        BY <1>3, <2>2 DEF TypeOK, Disk, Run
      <4>2. disk.dir \in [Stores -> Dir] /\ \A p \in Pools : disk.dir[p].has \subseteq items \cap In(p)
        BY <1>3 DEF TypeOK, Disk, Filed
      <4>3. mem' \in [Stores -> SUBSET Item] /\ \A p \in Pools : mem'[p] \subseteq items \cap In(p)
        BY <2>2, <4>2 DEF Dir, Stores
      <4>4. batch' \in [rows : SUBSET (items \cap Paragraph), stale : BOOLEAN]
        BY <1>3, <2>2 DEF TypeOK
      <4> QED BY <1>3, <4>1, <4>3, <4>4 DEF TypeOK, In
    <3>3. Filed'
      BY <1>3, <2>2, <2>3, <2>4, <2>5, <3>1 DEF TypeOK, Disk, Dir, Absent, Pools, Stores, Filed, Formed
    <3>4. Logged'
      BY <1>3, <2>2, <2>3, <2>4, <2>5, <3>1 DEF TypeOK, Disk, Dir, Absent, Pools, Stores, Logged, Held,
             Cover, Passed, Even, PoolsHave, Filed
    <3>5. Staged'
      BY <1>3, <2>2, <2>3, <2>4, <2>5, <3>1 DEF TypeOK, Disk, Dir, Absent, Pools, Stores, Staged
    <3>6. Serving("rebuild", k + 1)'
      BY <1>3, <2>2, <2>3, <2>4, <2>5, <3>1 DEF TypeOK, Disk, Dir, Absent, Pools, Stores, Serving, Apart,
             Damaged, BothThere, There
    <3>7. LogAt("rebuild", k + 1)'
      BY <1>3, <2>2, <2>3, <2>4, <2>5, <3>1 DEF TypeOK, Disk, Dir, Absent, Pools, Stores, LogAt, Apart,
             Recovering, BothThere, There, At
    <3>8. StageAt("rebuild", k + 1)'
      BY <1>3, <2>2, <2>3, <2>4, <2>5, <3>1 DEF TypeOK, Disk, Dir, Absent, Pools, Stores, StageAt,
             Recovering, At
    <3>9. RunAt("rebuild", k + 1)'
      BY <1>3, <2>2, <2>3, <2>4, <2>5, <3>1 DEF TypeOK, Run, RunAt, At
    <3>10. RebuildAt(k + 1, x)'
      BY <1>3, <2>2, <2>3, <2>4, <2>5, <3>1 DEF TypeOK, Disk, Dir, Absent, Pools, Stores, RebuildAt, Need,
             Passed, BothThere, There, Even, NoDirs, Full, PoolsHave, Store, At
    <3>11. Inside("rebuild", x, k + 1, 0)'
      BY <3>1, <3>2, <3>3, <3>4, <3>5, <3>6, <3>7, <3>8, <3>9, <3>10 DEF Inside, At
    <3> QED BY <3>11 DEF IInv
  <2>6. ASSUME c = "failed"
       PROVE  IInv'
    <3>1. Here("failed", x, k + 1, 0)' /\ k = 2
      BY <1>1, <1>2, <2>1, <2>6 DEF Fits
    <3>2. TypeOK'
      <4>1. disk' \in Disk /\ run' \in Run
        BY <1>3, <2>2 DEF TypeOK, Disk, Run
      <4>2. disk.dir \in [Stores -> Dir] /\ \A p \in Pools : disk.dir[p].has \subseteq items \cap In(p)
        BY <1>3 DEF TypeOK, Disk, Filed
      <4>3. mem' \in [Stores -> SUBSET Item] /\ \A p \in Pools : mem'[p] \subseteq items \cap In(p)
        BY <2>2, <4>2 DEF Dir, Stores
      <4>4. batch' \in [rows : SUBSET (items \cap Paragraph), stale : BOOLEAN]
        BY <1>3, <2>2 DEF TypeOK
      <4> QED BY <1>3, <4>1, <4>3, <4>4 DEF TypeOK, In
    <3>3. Filed'
      BY <1>3, <2>2, <2>3, <2>4, <2>6, <3>1 DEF TypeOK, Disk, Dir, Absent, Pools, Stores, Filed, Formed
    <3>4. Logged'
      BY <1>3, <2>2, <2>3, <2>4, <2>6, <3>1 DEF TypeOK, Disk, Dir, Absent, Pools, Stores, Logged, Held,
             Cover, Passed, Even, PoolsHave, Filed
    <3>5. Staged'
      BY <1>3, <2>2, <2>3, <2>4, <2>6, <3>1 DEF TypeOK, Disk, Dir, Absent, Pools, Stores, Staged
    <3>6. Serving("failed", k + 1)'
      BY <1>3, <2>2, <2>3, <2>4, <2>6, <3>1 DEF TypeOK, Disk, Dir, Absent, Pools, Stores, Serving, Apart,
             Damaged, BothThere, There
    <3>7. LogAt("failed", k + 1)'
      BY <1>3, <2>2, <2>3, <2>4, <2>6, <3>1 DEF TypeOK, Disk, Dir, Absent, Pools, Stores, LogAt, Apart,
             Recovering, BothThere, There, At
    <3>8. StageAt("failed", k + 1)'
      BY <1>3, <2>2, <2>3, <2>4, <2>6, <3>1 DEF TypeOK, Disk, Dir, Absent, Pools, Stores, StageAt,
             Recovering, At
    <3>9. RunAt("failed", k + 1)'
      BY <1>3, <2>2, <2>3, <2>4, <2>6, <3>1 DEF TypeOK, Run, RunAt, At
    <3>10. Inside("failed", x, k + 1, 0)'
      BY <3>1, <3>2, <3>3, <3>4, <3>5, <3>6, <3>7, <3>8, <3>9 DEF Inside, At
    <3> QED BY <3>10 DEF IInv
  <2> QED BY <1>2, <2>5, <2>6
<1>8. ASSUME Found = "damaged", script' = <<>>, Stale,
             run' = [run EXCEPT !.mode = IF @ = "dual" THEN "single" ELSE @], UNCHANGED <<disk, mem>>
      PROVE  IInv'
  <2>1. Here("idle", "none", 1, 0)'
    BY <1>8, Idles DEF Waits
  <2>2. c = "failed" /\ k = 2
    BY <1>2, <1>6, <1>8
  <2>3. run.mode # "dual"
    <3>1. run.mode = "dual" => \A p \in Pools : disk.dir[p].is \notin {"absent", "damaged"}
      BY <1>3, <2>2 DEF At, Serving, Apart
    <3> QED BY <1>4, <1>8, <3>1 DEF Damaged, BothThere, There, Pools
  <2>4. run' = run /\ disk' = disk /\ mem' = mem /\ batch' = [batch EXCEPT !.stale = batch.rows # {}]
    BY <1>3, <1>8, <2>3 DEF Stale, TypeOK, Run
  <2>5. TypeOK'
    BY <1>3, <2>4 DEF TypeOK
  <2>6. Filed'
    BY <1>3, <2>2, <2>3, <2>4 DEF TypeOK, Disk, Dir, Absent, Pools, Stores, Filed, Formed
  <2>7. Logged'
    BY <1>3, <2>2, <2>3, <2>4 DEF TypeOK, Disk, Dir, Absent, Pools, Stores, Logged, Held, Cover, Passed,
           Even, PoolsHave
  <2>8. Staged'
    BY <1>3, <2>2, <2>3, <2>4 DEF TypeOK, Disk, Dir, Absent, Pools, Stores, Staged
  <2>9. Serving("idle", 1)'
    BY <1>3, <2>2, <2>3, <2>4 DEF TypeOK, Disk, Dir, Absent, Pools, Stores, Serving, Apart, At
  <2>10. LogAt("idle", 1)'
    BY <1>3, <2>2, <2>3, <2>4 DEF TypeOK, Disk, Dir, Absent, Pools, Stores, LogAt, Apart, Recovering,
           BothThere, There, At
  <2>11. StageAt("idle", 1)'
    BY <1>3, <2>2, <2>3, <2>4 DEF TypeOK, Disk, Dir, Absent, Pools, Stores, StageAt, Recovering, At
  <2>12. RunAt("idle", 1)'
    BY <1>3, <2>2, <2>3, <2>4 DEF TypeOK, Run, RunAt, At
  <2>13. Inside("idle", "none", 1, 0)'
    BY <2>1, <2>5, <2>6, <2>7, <2>8, <2>9, <2>10, <2>11, <2>12 DEF Inside, At
  <2> QED BY <2>13 DEF IInv
<1>9. ASSUME Found = "not_dual", Done, UNCHANGED <<disk, run, mem, batch>>
      PROVE  IInv'
  <2>1. Here("failed", x, 3, 0)' /\ c = "failed" /\ k = 2
    BY <1>2, <1>5, <1>6, <1>9
  <2>2. run' = run /\ disk' = disk /\ mem' = mem /\ batch' = batch
    BY <1>9
  <2>3. TypeOK'
    <3>1. disk' \in Disk
      BY <1>3, <2>1, <2>2, Dirs DEF TypeOK, Disk, Absent, Pools, Stores
    <3>2. run' \in Run
      BY <1>3, <2>1, <2>2 DEF TypeOK, Run
    <3> QED BY <1>3, <2>1, <2>2, <3>1, <3>2 DEF TypeOK, In
  <2>4. Filed'
    BY <1>3, <2>1, <2>2 DEF TypeOK, Disk, Dir, Absent, Pools, Stores, Filed, Formed
  <2>5. Logged'
    BY <1>3, <2>1, <2>2 DEF TypeOK, Disk, Dir, Absent, Pools, Stores, Logged, Held, Cover, Passed, Even,
           PoolsHave
  <2>6. Staged'
    BY <1>3, <2>1, <2>2 DEF TypeOK, Disk, Dir, Absent, Pools, Stores, Staged
  <2>7. Serving("failed", 3)'
    BY <1>3, <2>1, <2>2 DEF TypeOK, Disk, Dir, Absent, Pools, Stores, Serving, Apart, At
  <2>8. LogAt("failed", 3)'
    BY <1>3, <2>1, <2>2 DEF TypeOK, Disk, Dir, Absent, Pools, Stores, LogAt, Apart, Recovering, BothThere,
           There, At
  <2>9. StageAt("failed", 3)'
    BY <1>3, <2>1, <2>2 DEF TypeOK, Disk, Dir, Absent, Pools, Stores, StageAt, Recovering, At
  <2>10. RunAt("failed", 3)'
    BY <1>3, <2>1, <2>2 DEF TypeOK, Run, RunAt, At
  <2>11. Inside("failed", x, 3, 0)'
    BY <2>1, <2>3, <2>4, <2>5, <2>6, <2>7, <2>8, <2>9, <2>10 DEF Inside, At
  <2> QED BY <2>11 DEF IInv
<1> QED BY <1>7, <1>8, <1>9, ReloadIs

\* What has no vector in a pool is queried.
LEMMA MissingStep ==
    ASSUME NEW c, NEW x, NEW k, NEW n, Inside(c, x, k, n), Missing
    PROVE  IInv'
<1>1. /\ n = 0 /\ c \in Calls /\ Busy /\ Here(c, x, k, 0) /\ Fits(c, x) /\ k \in 1 .. End(c)
      /\ Goes(c, x, k, Head(script)) /\ Head(script)[1] = "missing"
  BY Steps1 DEF Missing, Inside, Doing, Busy
<1>2. c = "rebuild" /\ ((k = 15 /\ Arg = "paragraph") \/ (k = 17 /\ Arg = "graph"))
  BY <1>1 DEF Goes, Arg
<1>3. /\ TypeOK /\ Filed /\ Logged /\ Staged /\ At(c, x, k, 0)
      /\ todo' = (items \cap In(Arg)) \ mem[Arg]
      /\ UNCHANGED <<items, queued, batch, disk, run, mem, built, saved, late, count>>
  BY <1>1 DEF Missing, Inside
<1>4. Here(c, x, k + 1, 0)' /\ k \in Nat
  BY <1>1, <1>2, Advance, HereIs DEF Missing, End
<1>5. x \in {"filled", "unfilled"}
  BY <1>1, <1>2 DEF Fits
<1> HIDE DEF Arg
<1>6. TypeOK'
  <2>1. disk' \in Disk
    BY <1>2, <1>3, <1>5, Dirs DEF TypeOK, Disk, Absent, Pools, Stores
  <2>2. run' \in Run
    BY <1>2, <1>3, <1>5 DEF TypeOK, Run
  <2> QED BY <1>2, <1>3, <1>5, <2>1, <2>2 DEF TypeOK, In
<1>7. Filed'
  BY <1>2, <1>3, <1>5 DEF TypeOK, Disk, Dir, Absent, Pools, Stores, Filed, Formed
<1>8. Logged'
  BY <1>2, <1>3, <1>5 DEF TypeOK, Disk, Dir, Absent, Pools, Stores, Logged, Held, Cover, Passed, Even, PoolsHave
<1>9. Staged'
  BY <1>2, <1>3, <1>5 DEF TypeOK, Disk, Dir, Absent, Pools, Stores, Staged
<1>10. Serving("rebuild", k + 1)'
  BY <1>2, <1>3, <1>5 DEF TypeOK, Disk, Dir, Absent, Pools, Stores, Serving, Apart, At
<1>11. LogAt("rebuild", k + 1)'
  BY <1>2, <1>3, <1>5 DEF TypeOK, Disk, Dir, Absent, Pools, Stores, LogAt, Apart, Recovering, BothThere,
         There, At
<1>12. StageAt("rebuild", k + 1)'
  BY <1>2, <1>3, <1>5 DEF TypeOK, Disk, Dir, Absent, Pools, Stores, StageAt, Recovering, At
<1>13. RunAt("rebuild", k + 1)'
  BY <1>2, <1>3, <1>5 DEF TypeOK, Run, RunAt, At
<1>14. RebuildAt(k + 1, x)'
  <2>1. /\ k = 15 => todo' \subseteq Paragraph /\ items \cap Paragraph \subseteq mem["paragraph"] \cup todo'
        /\ k = 17 => todo' \subseteq Relation /\ items \cap Relation \subseteq mem["graph"] \cup todo'
    BY <1>2, <1>3, ItemAssumption DEF In, PoolOf, Item, TypeOK
  <2>2. saved \subseteq items
    BY <1>3 DEF TypeOK
  <2>3. RebuildAt(k, x)
    BY <1>2, <1>3 DEF At
  <2>4. /\ disk' = disk /\ run' = run /\ mem' = mem /\ built' = built /\ count' = count /\ items' = items
        /\ saved' = saved /\ late' = late /\ queued' = queued /\ batch' = batch
    BY <1>3
  <2>5. CASE k = 15
    BY <1>5, <2>1, <2>2, <2>3, <2>4, <2>5 DEF RebuildAt, Need, Passed, PoolsHave
  <2>6. CASE k = 17
    BY <1>5, <2>1, <2>2, <2>3, <2>4, <2>6 DEF RebuildAt, Need, Passed, PoolsHave, Full
  <2> QED BY <1>2, <2>5, <2>6
<1>15. Inside("rebuild", x, k + 1, 0)'
  BY <1>2, <1>4, <1>6, <1>7, <1>8, <1>9, <1>10, <1>11, <1>12, <1>13, <1>14 DEF Inside, At
<1> QED BY <1>15 DEF IInv

\* What had no vector in a pool has one.
LEMMA FillStep ==
    ASSUME NEW c, NEW x, NEW k, NEW n, Inside(c, x, k, n), Fill
    PROVE  IInv'
<1>1. /\ n = 0 /\ c \in Calls /\ Busy /\ Here(c, x, k, 0) /\ Fits(c, x) /\ k \in 1 .. End(c)
      /\ Goes(c, x, k, Head(script)) /\ Head(script)[1] = "fill"
  BY Steps1 DEF Fill, Inside, Doing, Busy
<1>2. c = "rebuild" /\ ((k = 16 /\ Arg = "paragraph") \/ (k = 18 /\ Arg = "graph"))
  BY <1>1 DEF Goes, Arg
<1>3. /\ TypeOK /\ Filed /\ Logged /\ Staged /\ At(c, x, k, 0)
      /\ mem' = [mem EXCEPT ![Arg] = @ \cup todo] /\ todo' = {}
      /\ UNCHANGED <<items, queued, batch, disk, run, built, saved, late, count>>
  BY <1>1 DEF Fill, Inside
<1>4. Here(c, x, k + 1, 0)' /\ k \in Nat
  BY <1>1, <1>2, Advance, HereIs DEF Fill, End
<1>5. x \in {"filled", "unfilled"}
  BY <1>1, <1>2 DEF Fits
<1> HIDE DEF Arg
<1>6. TypeOK'
  <2>1. todo \subseteq In(Arg) /\ todo \subseteq items /\ Arg \in Pools
    BY <1>2, <1>3, ItemAssumption DEF At, RebuildAt, In, PoolOf, Item, TypeOK, Pools
  <2>2. mem' \in [Stores -> SUBSET Item] /\ \A p \in Pools : mem'[p] \subseteq items \cap In(p)
    BY <1>3, <2>1 DEF TypeOK, Stores
  <2> QED BY <1>3, <2>2 DEF TypeOK, In
<1>7. Filed'
  BY <1>2, <1>3, <1>5 DEF TypeOK, Disk, Dir, Absent, Pools, Stores, Filed, Formed
<1>8. Logged'
  BY <1>2, <1>3, <1>5 DEF TypeOK, Disk, Dir, Absent, Pools, Stores, Logged, Held, Cover, Passed, Even, PoolsHave
<1>9. Staged'
  BY <1>2, <1>3, <1>5 DEF TypeOK, Disk, Dir, Absent, Pools, Stores, Staged
<1>10. Serving("rebuild", k + 1)'
  BY <1>2, <1>3, <1>5 DEF TypeOK, Disk, Dir, Absent, Pools, Stores, Serving, Apart, At
<1>11. LogAt("rebuild", k + 1)'
  BY <1>2, <1>3, <1>5 DEF TypeOK, Disk, Dir, Absent, Pools, Stores, LogAt, Apart, Recovering, BothThere,
         There, At
<1>12. StageAt("rebuild", k + 1)'
  BY <1>2, <1>3, <1>5 DEF TypeOK, Disk, Dir, Absent, Pools, Stores, StageAt, Recovering, At
<1>13. RunAt("rebuild", k + 1)'
  BY <1>2, <1>3, <1>5 DEF TypeOK, Run, RunAt, At
<1>14. RebuildAt(k + 1, x)'
  BY <1>2, <1>3, <1>5 DEF TypeOK, Disk, Dir, Absent, Pools, Stores, RebuildAt, Need, Passed, BothThere,
         There, Even, NoDirs, Full, PoolsHave, Store, At, In, PoolOf, Item
<1>15. Inside("rebuild", x, k + 1, 0)'
  BY <1>2, <1>4, <1>6, <1>7, <1>8, <1>9, <1>10, <1>11, <1>12, <1>13, <1>14 DEF Inside, At
<1> QED BY <1>15 DEF IInv

\* What had no vector cannot be encoded.
LEMMA FillFailsStep ==
    ASSUME NEW c, NEW x, NEW k, NEW n, Inside(c, x, k, n), FillFails
    PROVE  IInv'
<1>1. /\ n = 0 /\ c \in Calls /\ Busy /\ Here(c, x, k, 0) /\ Fits(c, x) /\ k \in 1 .. End(c)
      /\ Goes(c, x, k, Head(script)) /\ Head(script)[1] = "fill"
  BY Steps1 DEF FillFails, Inside, Doing, Busy
<1>2. c = "rebuild" /\ k \in {16, 18}
  BY <1>1 DEF Goes, Arg
<1>3. /\ TypeOK /\ Filed /\ Logged /\ Staged /\ At(c, x, k, 0)
      /\ run' = [run EXCEPT !.degraded = TRUE] /\ todo' = {}
      /\ UNCHANGED <<items, queued, batch, disk, mem, built, saved, late, count>>
  BY <1>1 DEF FillFails, Inside
<1>4. x \in {"filled", "unfilled"}
  BY <1>1, <1>2 DEF Fits
<1> HIDE DEF Arg
<1>5. Here("rebuild", "unfilled", k + 1, 0)'
  <2>1. Here("rebuild", x, k, 0)
    BY <1>1, <1>2
  <2> QED BY <1>2, <2>1, Unfilled DEF FillFails
<1>6. TypeOK'
  <2>1. disk' \in Disk
    BY <1>2, <1>3, <1>4, Dirs DEF TypeOK, Disk, Absent, Pools, Stores
  <2>2. run' \in Run
    BY <1>2, <1>3, <1>4 DEF TypeOK, Run
  <2> QED BY <1>2, <1>3, <1>4, <2>1, <2>2 DEF TypeOK, In
<1>7. Filed'
  BY <1>2, <1>3, <1>4 DEF TypeOK, Disk, Dir, Absent, Pools, Stores, Filed, Formed
<1>8. Logged'
  BY <1>2, <1>3, <1>4 DEF TypeOK, Disk, Dir, Absent, Pools, Stores, Logged, Held, Cover, Passed, Even, PoolsHave
<1>9. Staged'
  BY <1>2, <1>3, <1>4 DEF TypeOK, Disk, Dir, Absent, Pools, Stores, Staged
<1>10. Serving("rebuild", k + 1)'
  BY <1>2, <1>3, <1>4 DEF TypeOK, Disk, Dir, Absent, Pools, Stores, Serving, Apart, At
<1>11. LogAt("rebuild", k + 1)'
  BY <1>2, <1>3, <1>4 DEF TypeOK, Disk, Dir, Absent, Pools, Stores, LogAt, Apart, Recovering, BothThere,
         There, At
<1>12. StageAt("rebuild", k + 1)'
  BY <1>2, <1>3, <1>4 DEF TypeOK, Disk, Dir, Absent, Pools, Stores, StageAt, Recovering, At
<1>13. RunAt("rebuild", k + 1)'
  BY <1>2, <1>3, <1>4 DEF TypeOK, Run, RunAt, At
<1>14. RebuildAt(k + 1, "unfilled")'
  BY <1>2, <1>3, <1>4 DEF TypeOK, Disk, Dir, Absent, Pools, Stores, RebuildAt, Need, Passed, BothThere,
         There, Even, NoDirs, Full, PoolsHave, Store, At
<1>15. Inside("rebuild", "unfilled", k + 1, 0)'
  BY <1>2, <1>5, <1>6, <1>7, <1>8, <1>9, <1>10, <1>11, <1>12, <1>13, <1>14 DEF Inside, At
<1> QED BY <1>15 DEF IInv

\* The single store is cleared.
LEMMA ClearSingleStep ==
    ASSUME NEW c, NEW x, NEW k, NEW n, Inside(c, x, k, n), ClearSingle
    PROVE  IInv'
<1>1. /\ n = 0 /\ c \in Calls /\ Busy /\ Here(c, x, k, 0) /\ Fits(c, x) /\ k \in 1 .. End(c)
      /\ Goes(c, x, k, Head(script)) /\ Head(script)[1] = "clear"
  BY Steps1 DEF ClearSingle, Inside, Doing, Busy
<1>2. c = "rebuild" /\ k = 22
  BY <1>1 DEF Goes, Arg
<1>3. /\ TypeOK /\ Filed /\ Logged /\ Staged /\ At(c, x, k, 0)
      /\ disk' = [disk EXCEPT !.dir["single"] = Blank]
      /\ mem' = [mem EXCEPT !["single"] = {}]
      /\ UNCHANGED <<items, queued, batch, run, todo, built, saved, late, count>>
  BY <1>1 DEF ClearSingle, Inside
<1>4. Here(c, x, k + 1, 0)' /\ k \in Nat
  BY <1>1, <1>2, Advance, HereIs DEF ClearSingle, End
<1>5. x \in {"filled", "unfilled"}
  BY <1>1, <1>2 DEF Fits
<1> HIDE DEF Arg
<1>6. TypeOK'
  <2>1. disk' \in Disk
    BY <1>2, <1>3, <1>5, Dirs DEF TypeOK, Disk, Absent, Pools, Stores, Blank
  <2>2. run' \in Run
    BY <1>2, <1>3, <1>5 DEF TypeOK, Run
  <2>3. mem' \in [Stores -> SUBSET Item] /\ \A p \in Pools : mem'[p] \subseteq items' \cap In(p)
    BY <1>2, <1>3, <1>5 DEF TypeOK, Disk, Dir, Stores, Pools, In, Blank
  <2> QED BY <1>2, <1>3, <1>5, <2>1, <2>2, <2>3 DEF TypeOK
<1>7. Filed'
  BY <1>2, <1>3, <1>5 DEF TypeOK, Disk, Dir, Absent, Pools, Stores, Filed, Formed, Blank
<1>8. Logged'
  BY <1>2, <1>3, <1>5 DEF TypeOK, Disk, Dir, Absent, Pools, Stores, Logged, Held, Cover, Passed, Even,
         PoolsHave, Blank, At, RebuildAt, Need
<1>9. Staged'
  BY <1>2, <1>3, <1>5 DEF TypeOK, Disk, Dir, Absent, Pools, Stores, Staged, Blank, At, StageAt
<1>10. Serving("rebuild", k + 1)'
  BY <1>2, <1>3, <1>5 DEF TypeOK, Disk, Dir, Absent, Pools, Stores, Serving, Apart, At, RebuildAt, Blank
<1>11. LogAt("rebuild", k + 1)'
  BY <1>2, <1>3, <1>5 DEF TypeOK, Disk, Dir, Absent, Pools, Stores, LogAt, Apart, Recovering, BothThere,
         There, At
<1>12. StageAt("rebuild", k + 1)'
  BY <1>2, <1>3, <1>5 DEF TypeOK, Disk, Dir, Absent, Pools, Stores, StageAt, Recovering, At, Blank
<1>13. RunAt("rebuild", k + 1)'
  BY <1>2, <1>3, <1>5 DEF TypeOK, Run, RunAt, At
<1>14. RebuildAt(k + 1, x)'
  BY <1>2, <1>3, <1>5 DEF TypeOK, Disk, Dir, Absent, Pools, Stores, RebuildAt, Need, Passed, BothThere,
         There, Even, NoDirs, Full, PoolsHave, Store, At
<1>15. Inside("rebuild", x, k + 1, 0)'
  BY <1>2, <1>4, <1>6, <1>7, <1>8, <1>9, <1>10, <1>11, <1>12, <1>13, <1>14 DEF Inside, At
<1> QED BY <1>15 DEF IInv

\* The rebuild has an outcome.
LEMMA FinishStep ==
    ASSUME NEW c, NEW x, NEW k, NEW n, Inside(c, x, k, n), Finish
    PROVE  IInv'
<1>1. /\ n = 0 /\ c \in Calls /\ Busy /\ Here(c, x, k, 0) /\ Fits(c, x) /\ k \in 1 .. End(c)
      /\ Goes(c, x, k, Head(script)) /\ Head(script)[1] = "finish"
  BY Steps1 DEF Finish, Inside, Doing, Busy
<1>2. (c = "rebuild" /\ k = 23 /\ Arg = x) \/ (c = "failed" /\ k = 3 /\ Arg = "failed")
  BY <1>1 DEF Goes, Arg
<1>3. /\ TypeOK /\ Filed /\ Logged /\ Staged /\ At(c, x, k, 0)
      /\ run' = [run EXCEPT !.degraded = Arg # "filled", !.health = IF Arg = "failed" THEN @ ELSE "healthy"]
      /\ late' = IF Arg = "filled" THEN {} ELSE late
      /\ UNCHANGED <<items, queued, batch, disk, mem, todo, built, saved, count>>
  BY <1>1 DEF Finish, Inside
<1> HIDE DEF Arg
<1>4. PICK a : a = Arg
  OBVIOUS
<1>5. /\ (c = "rebuild" /\ k = 23 /\ a = x) \/ (c = "failed" /\ k = 3 /\ a = "failed")
      /\ run' = [run EXCEPT !.degraded = a # "filled", !.health = IF a = "failed" THEN @ ELSE "healthy"]
      /\ late' = IF a = "filled" THEN {} ELSE late
      /\ script' = Persist \o << <<"rebuilt", a>> >>
  BY <1>2, <1>3, <1>4 DEF Finish
<1>6. a \in Outcomes /\ run'.mode = run.mode /\ run'.view = run.view /\ run'.up = run.up /\ run' \in Run
  <2>1. a \in Outcomes
    BY <1>1, <1>5 DEF Fits, Outcomes
  <2> QED BY <1>3, <1>5, <2>1 DEF TypeOK, Run
<1>7. PICK m \in 0 .. 2 : Here("rebuilt", a, 1, m)'
  <2>1. script' = Persist \o << <<"rebuilt", a>> >>
    BY <1>5
  <2>2. run.mode \in {"none", "single", "dual"}
    BY <1>3 DEF TypeOK, Run
  <2> QED BY <1>6, <2>1, <2>2, Finishes
<1>8. a = "filled" => c = "rebuild" /\ k = 23 /\ x = "filled"
  BY <1>5
<1>9. a = "filled" => /\ saved \subseteq PoolsHave
                        /\ items \subseteq PoolsHave \cup queued \cup batch.rows
  <2> SUFFICES ASSUME a = "filled"
               PROVE  saved \subseteq PoolsHave /\ items \subseteq PoolsHave \cup queued \cup batch.rows
    OBVIOUS
  <2>1. RebuildAt(23, "filled")
    BY <1>3, <1>8 DEF At
  <2>2. /\ mem["paragraph"] = disk.dir["paragraph"].has /\ mem["graph"] = disk.dir["graph"].has
        /\ saved \cap Paragraph \subseteq mem["paragraph"] /\ items \cap Relation \subseteq mem["graph"]
        /\ Full("paragraph")
    BY <2>1 DEF RebuildAt
  <2>3. /\ items \cap Paragraph \subseteq items \cap In("paragraph") /\ items \subseteq Paragraph \cup Relation
        /\ saved \subseteq items
    BY <1>3 DEF In, PoolOf, TypeOK, Item
  <2>4. batch.stale => (IF batch.stale THEN {} ELSE batch.rows) \subseteq batch.rows
    OBVIOUS
  <2> QED BY <2>2, <2>3 DEF PoolsHave, Full
<1>10. run.mode # "none" /\ (c = "rebuild" => disk.log = "none" /\ run.mode = "dual") /\ ~Apart(c, k)
  <2>1. run.mode # "none" /\ (c = "rebuild" => disk.log = "none" /\ run.mode = "dual")
    BY <1>2, <1>3 DEF At, RebuildAt, RunAt
  <2>2. ~Apart(c, k)
    BY <1>2 DEF Apart
  <2> QED BY <2>1, <2>2
<1>11. TypeOK'
  BY <1>3, <1>5, <1>6 DEF TypeOK
<1>12. Filed'
  BY <1>2, <1>3, <1>5, <1>6, <1>10 DEF TypeOK, Disk, Dir, Absent, Pools, Stores, Filed, Formed
<1>13. Logged'
  <2>1. Logged /\ PoolsHave' = PoolsHave /\ Passed' = Passed
    BY <1>3 DEF PoolsHave, Passed
  <2>2. CASE a = "filled"
    <3>1. disk.log = "none"
      BY <1>8, <1>10, <2>2
    <3>2. Cover(PoolsHave)'
      BY <1>3, <1>9, <2>1, <2>2, <3>1 DEF Logged, Cover
    <3> QED BY <1>3, <2>1, <3>1, <3>2 DEF Logged, Even
  <2>3. CASE a # "filled"
    <3>1. late' = late
      BY <1>5, <2>3
    <3> QED BY <1>3, <2>1, <3>1 DEF Logged, Even, Cover, Held, PoolsHave, Passed
  <2> QED BY <2>2, <2>3
<1>14. Staged'
  BY <1>2, <1>3, <1>5, <1>6, <1>10 DEF TypeOK, Disk, Dir, Absent, Pools, Stores, Staged
<1>15. Serving("rebuilt", 1)'
  <2>1. Serving(c, k)
    BY <1>3 DEF At
  <2> QED BY <1>3, <1>6, <1>10, <2>1 DEF Serving
<1>16. LogAt("rebuilt", 1)'
  BY <1>2, <1>3, <1>5, <1>6, <1>10 DEF TypeOK, Disk, Dir, Absent, Pools, Stores, LogAt, Apart, Recovering,
         BothThere, There, At
<1>17. StageAt("rebuilt", 1)'
  BY <1>2, <1>3, <1>5, <1>6, <1>10 DEF TypeOK, Disk, Dir, Absent, Pools, Stores, StageAt, Recovering, At
<1>18. RunAt("rebuilt", 1)'
  BY <1>2, <1>3, <1>5, <1>6, <1>10 DEF TypeOK, Run, RunAt, At
<1>19. RebuiltAt(a)'
  BY <1>3, <1>9 DEF RebuiltAt, PoolsHave
<1>20. Inside("rebuilt", a, 1, m)'
  BY <1>7, <1>11, <1>12, <1>13, <1>14, <1>15, <1>16, <1>17, <1>18, <1>19 DEF Inside, At
<1> QED BY <1>20 DEF IInv

\* The rebuild has been reported.
LEMMA RebuiltStep ==
    ASSUME NEW c, NEW x, NEW k, NEW n, Inside(c, x, k, n), Rebuilt
    PROVE  IInv'
<1>1. /\ n = 0 /\ c \in Calls /\ Busy /\ Here(c, x, k, 0) /\ Fits(c, x) /\ k \in 1 .. End(c)
      /\ Goes(c, x, k, Head(script)) /\ Head(script)[1] = "rebuilt"
  BY Steps1 DEF Rebuilt, Inside, Doing, Busy
<1>2. c = "rebuilt" /\ k = 1
  BY <1>1 DEF Goes, Arg
<1>3. /\ TypeOK /\ Filed /\ Logged /\ Staged /\ At(c, x, k, 0)
      /\ UNCHANGED <<items, queued, batch, disk, run, mem, todo, built, saved, late, count>>
  BY <1>1 DEF Rebuilt, Inside
<1> HIDE DEF Arg
<1>4. Here("idle", "none", 1, 0)'
  BY <1>1, <1>2, Ends DEF Rebuilt, End
<1>5. TypeOK'
  <2>1. disk' \in Disk
    BY <1>2, <1>3, Dirs DEF TypeOK, Disk, Absent, Pools, Stores
  <2>2. run' \in Run
    BY <1>2, <1>3 DEF TypeOK, Run
  <2> QED BY <1>2, <1>3, <2>1, <2>2 DEF TypeOK, In
<1>6. Filed'
  BY <1>2, <1>3 DEF TypeOK, Disk, Dir, Absent, Pools, Stores, Filed, Formed
<1>7. Logged'
  BY <1>2, <1>3 DEF TypeOK, Disk, Dir, Absent, Pools, Stores, Logged, Held, Cover, Passed, Even, PoolsHave
<1>8. Staged'
  BY <1>2, <1>3 DEF TypeOK, Disk, Dir, Absent, Pools, Stores, Staged
<1>9. Serving("idle", 1)'
  BY <1>2, <1>3 DEF TypeOK, Disk, Dir, Absent, Pools, Stores, Serving, Apart, At
<1>10. LogAt("idle", 1)'
  BY <1>2, <1>3 DEF TypeOK, Disk, Dir, Absent, Pools, Stores, LogAt, Apart, Recovering, BothThere, There, At
<1>11. StageAt("idle", 1)'
  BY <1>2, <1>3 DEF TypeOK, Disk, Dir, Absent, Pools, Stores, StageAt, Recovering, At
<1>12. RunAt("idle", 1)'
  BY <1>2, <1>3 DEF TypeOK, Run, RunAt, At
<1>13. Inside("idle", "none", 1, 0)'
  BY <1>4, <1>5, <1>6, <1>7, <1>8, <1>9, <1>10, <1>11, <1>12 DEF Inside, At
<1> QED BY <1>13 DEF IInv

\* An old vector is copied.
LEMMA CopyStep ==
    ASSUME NEW c, NEW x, NEW k, NEW n, Inside(c, x, k, n), Copy
    PROVE  IInv'
<1>1. /\ n = 0 /\ c \in Calls /\ Busy /\ Here(c, x, k, 0) /\ Fits(c, x) /\ k \in 1 .. End(c)
      /\ Goes(c, x, k, Head(script)) /\ Head(script)[1] = "copy"
  BY Steps1 DEF Copy, Inside, Doing, Busy
<1>2. c = "copying" /\ k = 1 /\ Arg = x
  BY <1>1 DEF Goes, Arg
<1>3. /\ TypeOK /\ Filed /\ Logged /\ Staged /\ At(c, x, k, 0)
      /\ mem' = [mem EXCEPT ![PoolOf(Arg)] = @ \cup {Arg}]
      /\ UNCHANGED <<items, queued, batch, disk, run, todo, built, saved, late, count>>
  BY <1>1 DEF Copy, Inside
<1>4. Here(c, x, k + 1, 0)' /\ k \in Nat
  <2>1. k < End(c) /\ k \in Nat
    BY <1>2 DEF End
  <2>2. Done
    BY DEF Copy
  <2> QED BY <1>1, <2>1, <2>2, Advance
<1> HIDE DEF Arg
<1>5. x \in items /\ x \in Item /\ PoolOf(x) \in Pools /\ mem' = [mem EXCEPT ![PoolOf(x)] = @ \cup {x}]
  <2>1. x \in Remaining
    BY <1>2, <1>3 DEF At, CopyAt
  <2> QED BY <1>2, <1>3, <2>1 DEF Remaining, TypeOK, PoolOf, Pools
<1>6. /\ mem' \in [Stores -> SUBSET Item] /\ x \in mem'[PoolOf(x)]
      /\ \A p \in Pools : mem[p] \subseteq mem'[p] /\ mem'[p] \subseteq items \cap In(p)
      /\ mem'["single"] = mem["single"]
  <2>1. mem \in [Stores -> SUBSET Item] /\ \A p \in Pools : mem[p] \subseteq items \cap In(p)
    BY <1>3 DEF TypeOK
  <2>2. PoolOf(x) \in Stores /\ PoolOf(x) # "single" /\ Pools \subseteq Stores /\ "single" \in Stores
    BY <1>5 DEF Stores, Pools
  <2>3. x \in In(PoolOf(x))
    BY <1>5 DEF In
  <2> HIDE DEF PoolOf
  <2>4. /\ mem' \in [Stores -> SUBSET Item] /\ mem'[PoolOf(x)] = mem[PoolOf(x)] \cup {x}
        /\ \A s \in Stores : s # PoolOf(x) => mem'[s] = mem[s]
    BY <1>5, <2>1, <2>2
  <2> QED BY <1>5, <2>1, <2>2, <2>3, <2>4
<1>7. TypeOK'
  BY <1>3, <1>6 DEF TypeOK, In
<1>8. Filed'
  BY <1>2, <1>3, <1>5, <1>6 DEF TypeOK, Disk, Dir, Absent, Pools, Stores, Filed, Formed
<1>9. Logged'
  BY <1>2, <1>3, <1>5, <1>6 DEF TypeOK, Disk, Dir, Absent, Pools, Stores, Logged, Held, Cover, Passed, Even,
         PoolsHave
<1>10. Staged'
  BY <1>2, <1>3, <1>5, <1>6 DEF TypeOK, Disk, Dir, Absent, Pools, Stores, Staged
<1>11. Serving("copying", k + 1)'
  BY <1>2, <1>3, <1>5, <1>6 DEF TypeOK, Disk, Dir, Absent, Pools, Stores, Serving, Apart, At
<1>12. LogAt("copying", k + 1)'
  BY <1>2, <1>3, <1>5, <1>6 DEF TypeOK, Disk, Dir, Absent, Pools, Stores, LogAt, Apart, Recovering,
         BothThere, There, At
<1>13. StageAt("copying", k + 1)'
  BY <1>2, <1>3, <1>5, <1>6 DEF TypeOK, Disk, Dir, Absent, Pools, Stores, StageAt, Recovering, At
<1>14. RunAt("copying", k + 1)'
  BY <1>2, <1>3, <1>5, <1>6 DEF TypeOK, Run, RunAt, At
<1>15. CopyAt(k + 1, x)'
  BY <1>2, <1>3, <1>5, <1>6 DEF TypeOK, Disk, Dir, Absent, Pools, Stores, CopyAt, Remaining, At
<1>16. Inside("copying", x, k + 1, 0)'
  BY <1>2, <1>4, <1>7, <1>8, <1>9, <1>10, <1>11, <1>12, <1>13, <1>14, <1>15 DEF Inside, At
<1> QED BY <1>16 DEF IInv

\* The cursor of the copying moves on.
LEMMA CursorStep ==
    ASSUME NEW c, NEW x, NEW k, NEW n, Inside(c, x, k, n), Cursor
    PROVE  IInv'
<1>1. /\ n = 0 /\ c \in Calls /\ Busy /\ Here(c, x, k, 0) /\ Fits(c, x) /\ k \in 1 .. End(c)
      /\ Goes(c, x, k, Head(script)) /\ Head(script)[1] = "cursor"
  BY Steps1 DEF Cursor, Inside, Doing, Busy
<1>2. c = "copying" /\ k = 5 /\ Arg = x
  BY <1>1 DEF Goes, Arg
<1>3. /\ TypeOK /\ Filed /\ Logged /\ Staged /\ At(c, x, k, 0)
      /\ disk' = [disk EXCEPT !.cursor = Rank[Arg], !.stage = IF Remaining = {Arg} THEN "completed" ELSE "copying"]
      /\ run' = [run EXCEPT !.view = Remaining # {Arg}, !.health = IF Remaining = {Arg} THEN "recovered" ELSE "recovering"]
      /\ UNCHANGED <<items, queued, batch, mem, todo, built, saved, late, count>>
  BY <1>1 DEF Cursor, Inside
<1> HIDE DEF Arg
<1>4. Here("idle", "none", 1, 0)'
  BY <1>1, <1>2, Ends DEF Cursor, End
<1>5. /\ x \in Remaining /\ \A j \in Remaining : Rank[x] <= Rank[j]
      /\ x \in disk.dir[PoolOf(x)].has /\ disk.stage = "copying" /\ run.mode = "dual"
  BY <1>2, <1>3 DEF At, CopyAt
<1>6. x \in Item /\ x \in items /\ Rank[x] \in Nat /\ x \in PoolsHave
  BY <1>3, <1>5, RankAssumption DEF Remaining, TypeOK, PoolOf, PoolsHave
<1>7. /\ disk' = [disk EXCEPT !.cursor = Rank[x], !.stage = disk'.stage]
      /\ disk'.stage \in {"copying", "completed"}
      /\ run' = [run EXCEPT !.view = run'.view, !.health = run'.health]
      /\ disk'.stage = "completed" => ~run'.view
      /\ run'.view \in BOOLEAN /\ run'.health \in {"recovered", "recovering"}
  BY <1>2, <1>3 DEF TypeOK, Disk, Run
<1>8. disk' \in Disk /\ run' \in Run
  BY <1>3, <1>6, <1>7 DEF TypeOK, Disk, Run
<1>9. Passed' \subseteq PoolsHave
  <2> SUFFICES ASSUME NEW i \in Passed' PROVE i \in PoolsHave
    OBVIOUS
  <2>1. i \in disk.away.trusted /\ Rank[i] <= Rank[x] /\ i \in items /\ i \in Item
    BY <1>3, <1>7 DEF Passed, TypeOK, Disk, Filed
  <2>2. CASE Rank[i] <= disk.cursor
    <3>1. disk.log # "prepared"
      BY <1>2, <1>3, <1>5 DEF At, LogAt, Serving, Apart, BothThere, There, Pools
    <3>2. Passed \subseteq PoolsHave
      BY <1>3, <3>1 DEF Logged, Cover
    <3>3. i \in Passed
      BY <1>5, <2>1, <2>2 DEF Passed
    <3> QED BY <3>2, <3>3
  <2>3. CASE ~(Rank[i] <= disk.cursor)
    <3>1. disk.cursor \in Nat /\ Rank[i] \in Nat
      BY <1>3, <2>1, RankAssumption DEF TypeOK, Disk
    <3>2. i \in Remaining
      BY <2>1, <2>3, <3>1 DEF Remaining
    <3>3. Rank[i] = Rank[x]
      BY <1>5, <1>6, <2>1, <3>1, <3>2
    <3> QED BY <1>6, <2>1, <3>3, RankAssumption
  <2> QED BY <2>2, <2>3
<1>10. disk.log # "prepared"
  BY <1>2, <1>3, <1>5 DEF At, LogAt, Serving, Apart, BothThere, There, Pools
<1>11. TypeOK'
  BY <1>3, <1>8 DEF TypeOK
<1>12. Filed'
  <2>1. disk'.dir = disk.dir /\ disk'.old = disk.old /\ disk'.away = disk.away
    BY <1>3, <1>7 DEF TypeOK, Disk
  <2> QED BY <1>3, <2>1 DEF Filed
<1>13. Logged'
  <2>1. /\ Logged /\ disk'.log = disk.log /\ disk'.old = disk.old
        /\ disk'.stash = disk.stash /\ disk'.dir = disk.dir
        /\ disk'.away = disk.away
    BY <1>3, <1>7 DEF TypeOK, Disk
  <2>2. PoolsHave' = PoolsHave /\ (Even' <=> Even)
    BY <2>1 DEF PoolsHave, Even
  <2> QED BY <1>3, <1>5, <1>9, <1>10, <2>1, <2>2 DEF Logged, Cover
<1>14. Staged'
  BY <1>2, <1>3, <1>5, <1>7, <1>8, <1>9, <1>10 DEF TypeOK, Disk, Dir, Absent, Pools, Stores, Staged
<1>15. Serving("idle", 1)'
  <2>1. disk'.dir = disk.dir /\ run'.mode = run.mode
    BY <1>3, <1>7 DEF TypeOK, Disk, Run
  <2>2. ~Apart(c, k) /\ Serving(c, k)
    BY <1>2, <1>3 DEF Apart, At
  <2> QED BY <1>3, <2>1, <2>2 DEF Serving
<1>16. LogAt("idle", 1)'
  BY <1>2, <1>3, <1>5, <1>7, <1>8, <1>9, <1>10 DEF TypeOK, Disk, Dir, Absent, Pools, Stores, LogAt, Apart,
         Recovering, BothThere, There, At
<1>17. StageAt("idle", 1)'
  BY <1>2, <1>3, <1>5, <1>7, <1>8, <1>9, <1>10 DEF TypeOK, Disk, Dir, Absent, Pools, Stores, StageAt,
         Recovering, At
<1>18. RunAt("idle", 1)'
  BY <1>2, <1>3, <1>5, <1>7, <1>8, <1>9, <1>10 DEF TypeOK, Run, RunAt, At
<1>19. Inside("idle", "none", 1, 0)'
  BY <1>4, <1>11, <1>12, <1>13, <1>14, <1>15, <1>16, <1>17, <1>18 DEF Inside, At
<1> QED BY <1>19 DEF IInv

\* Where a save is.
LEMMA SaveIs ==
    ASSUME NEW c, NEW x, NEW k, NEW n, Inside(c, x, k, n), Save
    PROVE  \E a \in Stores, j \in Nat, m \in Nat :
           /\ a = Arg /\ Here(c, x, j, m)'
           /\ (run.mode = "dual" /\ a \in Pools) \/ (run.mode = "single" /\ a = "single")
           /\ c = "rebuild" => x \in {"filled", "unfilled"}
           /\ \/ j = k /\ (c \in {"idle", "rebuilt"} \/ (c = "copying" /\ k = 1) \/ (c = "rebuild" /\ k \in {1, 2, 16, 18}))
              \/ /\ j = k + 1 /\ run.mode = "dual"
                 /\ \/ c = "rebuild" /\ k = 19 /\ a = "paragraph"
                    \/ c = "rebuild" /\ k = 20 /\ a = "graph"
                    \/ c = "copying" /\ k = 2 /\ a = "paragraph"
                    \/ c = "copying" /\ k = 3 /\ a = "graph"
<1>1. /\ Busy /\ Here(c, x, k, n) /\ Done /\ run' = run /\ Head(script)[1] = "save" /\ Arg = Head(script)[2]
      /\ TypeOK /\ At(c, x, k, n)
  BY DEF Save, Inside, Doing, Busy, Arg
<1>2. Fits(c, x) /\ n \in Nat /\ k \in Nat /\ c \in Calls
  BY <1>1, HereIs
<1>3. c = "rebuild" => x \in {"filled", "unfilled"}
  BY <1>2 DEF Fits
<1>4. run.mode \in {"none", "single", "dual"}
  BY <1>1 DEF TypeOK, Run
<1>5. CASE n > 0
  <2>1. Here(c, x, k, n - 1)'
    BY <1>1, <1>5, Saved
  <2>2. /\ run.mode = "single" => Arg = "single"
        /\ run.mode # "single" => Arg = IF n = 2 THEN "paragraph" ELSE "graph"
    BY <1>1, <1>5, Places
  <2>3. /\ run.mode # "none"
        /\ c \in {"idle", "rebuilt"} \/ (c = "copying" /\ k = 1) \/ (c = "rebuild" /\ k \in {1, 2, 16, 18})
    BY <1>1, <1>5, HereAre
  <2>4. PICK a : a = Arg
    OBVIOUS
  <2>5. a \in Stores /\ ((run.mode = "dual" /\ a \in Pools) \/ (run.mode = "single" /\ a = "single"))
    BY <1>4, <2>2, <2>3, <2>4 DEF Stores, Pools
  <2>6. n - 1 \in Nat
    BY <1>2, <1>5
  <2> QED BY <1>2, <1>3, <2>1, <2>3, <2>4, <2>5, <2>6
<1>6. CASE n = 0
  <2>1. Here(c, x, k, 0) /\ At(c, x, k, 0)
    BY <1>1, <1>6
  <2>2. k \in 1 .. End(c) /\ Goes(c, x, k, Head(script))
    BY <1>1, <1>6, Places
  <2>3. \/ c = "rebuild" /\ k = 19 /\ Arg = "paragraph"
        \/ c = "rebuild" /\ k = 20 /\ Arg = "graph"
        \/ c = "copying" /\ k = 2 /\ Arg = "paragraph"
        \/ c = "copying" /\ k = 3 /\ Arg = "graph"
    BY <1>1, <2>2 DEF Goes
  <2>4. k < End(c)
    BY <2>3 DEF End
  <2>5. Here(c, x, k + 1, 0)'
    BY <1>1, <2>1, <2>4, Advance
  <2>6. run.mode = "dual"
    BY <2>1, <2>3 DEF At, RebuildAt, CopyAt
  <2>7. PICK a : a = Arg
    OBVIOUS
  <2>8. a \in Stores /\ a \in Pools
    BY <2>3, <2>7 DEF Stores, Pools
  <2> QED BY <1>2, <1>3, <2>3, <2>5, <2>6, <2>7, <2>8
<1> QED BY <1>2, <1>5, <1>6

\* A store is saved.
LEMMA SaveStep ==
    ASSUME NEW c, NEW x, NEW k, NEW n, Inside(c, x, k, n), Save
    PROVE  IInv'
<1>1. PICK a \in Stores, j \in Nat, m \in Nat :
           /\ a = Arg /\ Here(c, x, j, m)'
           /\ (run.mode = "dual" /\ a \in Pools) \/ (run.mode = "single" /\ a = "single")
           /\ c = "rebuild" => x \in {"filled", "unfilled"}
           /\ \/ j = k /\ (c \in {"idle", "rebuilt"} \/ (c = "copying" /\ k = 1) \/ (c = "rebuild" /\ k \in {1, 2, 16, 18}))
              \/ /\ j = k + 1 /\ run.mode = "dual"
                 /\ \/ c = "rebuild" /\ k = 19 /\ a = "paragraph"
                    \/ c = "rebuild" /\ k = 20 /\ a = "graph"
                    \/ c = "copying" /\ k = 2 /\ a = "paragraph"
                    \/ c = "copying" /\ k = 3 /\ a = "graph"
  BY SaveIs
<1> HIDE DEF Arg
<1>2. /\ TypeOK /\ Filed /\ Logged /\ Staged /\ At(c, x, k, n) /\ Here(c, x, k, n)
      /\ disk' = [disk EXCEPT !.dir = [disk.dir EXCEPT ![a] = Store(mem[a], disk.dir[a].gen)]]
      /\ saved' = saved \cup mem[a]
      /\ UNCHANGED <<items, queued, batch, run, mem, todo, built, count>>
  <2>1. /\ disk' = [disk EXCEPT !.dir[a] = Store(mem[a], @.gen)]
        /\ TypeOK /\ Filed /\ Logged /\ Staged /\ At(c, x, k, n) /\ Here(c, x, k, n)
        /\ saved' = saved \cup mem[a]
        /\ UNCHANGED <<items, queued, batch, run, mem, todo, built, count>>
    BY <1>1 DEF Save, Inside
  <2>2. disk' = [disk EXCEPT !.dir = [disk.dir EXCEPT ![a] = Store(mem[a], disk.dir[a].gen)]]
    BY <2>1
  <2> QED BY <2>1, <2>2
<1>3. late' = IF c = "rebuild" /\ k <= 7 THEN late \cup (mem[a] \ saved) ELSE late
  <2>1. <<"out", "paragraph">> \in ToSet(script) <=> c = "rebuild" /\ k <= 7
    BY <1>2, OutAhead
  <2>2. late' = IF <<"out", "paragraph">> \in ToSet(script) THEN late \cup (mem[a] \ saved) ELSE late
    BY <1>1 DEF Save
  <2> QED BY <2>1, <2>2
<1>4. /\ ~Apart(c, k) /\ Serving(c, k) /\ c \in {"idle", "rebuilt", "copying", "rebuild"}
      /\ disk.stage \in {"none", "prepared", "copying", "completed"}
  <2>1. ~Apart(c, k) /\ c \in {"idle", "rebuilt", "copying", "rebuild"}
    BY <1>1 DEF Apart
  <2> QED BY <1>2, <2>1 DEF At, StageAt
<1>5. run.mode = "dual" => BothThere /\ disk.log # "prepared"
  <2>1. run.mode = "dual" => BothThere
    BY <1>4 DEF Serving, BothThere, There, Pools
  <2>2. c = "rebuild" => disk.log # "prepared"
    BY <1>1, <1>2 DEF At, RebuildAt
  <2>3. disk.log = "prepared" => c = "rebuild" \/ ~BothThere
    BY <1>2, <1>4 DEF At, LogAt
  <2> QED BY <2>1, <2>2, <2>3
<1>6. /\ disk.dir \in [Stores -> Dir] /\ disk.dir[a] \in Dir /\ disk.dir[a].gen \in Nat
      /\ mem[a] \subseteq Item /\ mem[a] \subseteq items
      /\ disk.dir[a].has \subseteq mem[a]
  <2>1. disk.dir \in [Stores -> Dir] /\ mem[a] \subseteq Item
    BY <1>2 DEF TypeOK, Disk
  <2>2. mem[a] \subseteq items
    BY <1>1, <1>2 DEF TypeOK, Filed
  <2>3. disk.dir[a].has \subseteq mem[a]
    BY <1>1, <1>4 DEF Serving
  <2> QED BY <2>1, <2>2, <2>3 DEF Dir
<1>7. /\ disk' \in Disk /\ disk'.log = disk.log /\ disk'.had = disk.had
      /\ disk'.old = disk.old /\ disk'.stash = disk.stash
      /\ disk'.manifest = disk.manifest /\ disk'.stage = disk.stage /\ disk'.cursor = disk.cursor
      /\ disk'.away = disk.away /\ disk'.build = disk.build
      /\ disk'.dir = [disk.dir EXCEPT ![a] = Store(mem[a], disk.dir[a].gen)]
  <2>1. Store(mem[a], disk.dir[a].gen) \in Dir
    BY <1>6, Dirs
  <2> QED BY <1>2, <1>6, <2>1 DEF TypeOK, Disk
<1>8. /\ disk'.dir[a].is = "store" /\ disk'.dir[a].has = mem[a]
      /\ \A s \in Stores : /\ disk'.dir[s].gen = disk.dir[s].gen /\ disk.dir[s].has \subseteq disk'.dir[s].has
                           /\ s # a => disk'.dir[s] = disk.dir[s]
  BY <1>6, <1>7 DEF Store
<1>9. /\ disk'.dir["paragraph"].gen = disk.dir["paragraph"].gen
      /\ disk'.dir["graph"].gen = disk.dir["graph"].gen
      /\ PoolsHave \subseteq PoolsHave' /\ disk.dir["single"].has \subseteq disk'.dir["single"].has
      /\ a \in Pools => mem[a] \subseteq PoolsHave'
      /\ a = "single" => disk'.dir["paragraph"] = disk.dir["paragraph"] /\ disk'.dir["graph"] = disk.dir["graph"]
  BY <1>8 DEF PoolsHave, Stores, Pools
<1>10. (BothThere <=> BothThere') /\ (Even' <=> Even) /\ Passed' = Passed
  <2>1. CASE run.mode = "dual"
    BY <1>1, <1>2, <1>5, <1>7, <1>8, <1>9, <2>1 DEF BothThere, There, Even, Passed, Stores, Pools
  <2>2. CASE run.mode = "single"
    BY <1>1, <1>2, <1>7, <1>9, <2>2 DEF BothThere, There, Even, Passed, Pools
  <2> QED BY <1>1, <2>1, <2>2
<1>11. /\ saved' \ late' \subseteq (saved \ late) \cup mem[a]
       /\ c = "rebuild" /\ k <= 7 => saved' \ late' \subseteq saved \ late
       /\ late' \subseteq saved' /\ saved' \subseteq items
  BY <1>2, <1>3, <1>6 DEF TypeOK
<1>12. TypeOK'
  BY <1>2, <1>7, <1>11 DEF TypeOK
<1>13. Filed'
  <2>1. \A s \in Stores : Formed(disk'.dir[s])
    <3>1. \A s \in Stores : Formed(disk.dir[s])
      BY <1>2 DEF Filed
    <3> QED BY <1>8, <3>1 DEF Formed
  <2>2. \A p \in Pools : disk'.dir[p].has \subseteq items \cap In(p)
    BY <1>2, <1>8 DEF Filed, TypeOK, Stores
  <2>3. disk'.dir["single"].has \subseteq items
    BY <1>2, <1>6, <1>8 DEF Filed, Stores
  <2> QED BY <1>2, <1>7, <2>1, <2>2, <2>3 DEF Filed, In
<1>14. Logged'
  <2>1. Logged
    BY <1>2
  <2>2. CASE disk.log = "prepared"
    <3>1. a = "single" /\ disk'.dir["single"].has = mem[a]
      BY <1>1, <1>5, <1>8, <2>2
    <3>2. Held("paragraph")' = Held("paragraph") /\ Held("graph")' = Held("graph")
      BY <1>7, <1>9, <3>1 DEF Held
    <3> QED BY <1>7, <1>9, <1>10, <1>11, <2>1, <2>2, <3>1, <3>2 DEF Logged, Cover
  <2>3. CASE disk.log # "prepared"
    <3>1. Cover(PoolsHave)'
      BY <1>1, <1>7, <1>8, <1>9, <1>10, <1>11, <2>1, <2>3 DEF Logged, Cover
    <3> QED BY <1>7, <1>10, <2>1, <2>3, <3>1 DEF Logged
  <2> QED BY <2>2, <2>3
<1>15. Staged'
  BY <1>2, <1>4, <1>7 DEF Staged
<1>16. Serving(c, j)'
  <2>1. CASE run.mode = "dual"
    BY <1>1, <1>2, <1>4, <1>8, <2>1 DEF Serving, Stores
  <2>2. CASE run.mode = "single"
    BY <1>1, <1>2, <1>8, <2>2 DEF Serving
  <2> QED BY <1>1, <2>1, <2>2
<1>17. LogAt(c, j)'
  <2>1. LogAt(c, k) /\ ~Recovering(c) /\ c \notin {"off", "back", "up"}
    BY <1>2, <1>4 DEF At, Recovering
  <2> QED BY <1>4, <1>7, <1>10, <2>1 DEF LogAt
<1>18. StageAt(c, j)'
  BY <1>4, <1>7 DEF StageAt, Recovering
<1>19. RunAt(c, j)'
  BY <1>2, <1>4 DEF At, RunAt
<1>20. ASSUME c = "rebuild"
       PROVE  RebuildAt(j, x)'
  <2>1. RebuildAt(k, x)
    BY <1>2, <1>20 DEF At
  <2>2. CASE k <= 7
    <3>1. j = k /\ k \in {1, 2} /\ Need' \subseteq Need
      BY <1>1, <1>10, <1>11, <1>20, <2>2 DEF Need
    <3> QED BY <1>1, <1>2, <1>7, <1>20, <2>1, <3>1 DEF RebuildAt
  <2>3. CASE ~(k <= 7)
    <3>1. /\ run.mode = "dual" /\ a \in Pools
          /\ (j = k /\ k \in {16, 18}) \/ (j = 20 /\ k = 19 /\ a = "paragraph") \/ (j = 21 /\ k = 20 /\ a = "graph")
      <4>1. run.mode = "dual"
        BY <1>1, <1>20, <2>1, <2>3 DEF RebuildAt
      <4> QED BY <1>1, <1>20, <2>3, <4>1
    <3>2. disk.log = "none" /\ disk.manifest = "ready" /\ Need \subseteq PoolsHave
      BY <2>1, <3>1 DEF RebuildAt
    <3>3. Need' \subseteq PoolsHave'
      BY <1>9, <1>10, <1>11, <3>1, <3>2 DEF Need
    <3>4. /\ saved' \subseteq saved \cup mem[a] /\ (a = "paragraph" \/ mem[a] \cap Paragraph = {})
      BY <1>2, <3>1 DEF TypeOK, In, PoolOf, Pools
    <3>5. CASE j = k /\ k = 16
      BY <1>1, <1>2, <1>7, <1>20, <2>1, <3>1, <3>2, <3>3, <3>4, <3>5 DEF RebuildAt
    <3>6. CASE j = k /\ k = 18
      <4>1. Full("paragraph")' <=> Full("paragraph")
        BY <1>2 DEF Full, In
      <4> QED BY <1>1, <1>2, <1>7, <1>20, <2>1, <3>1, <3>2, <3>3, <3>4, <3>6, <4>1 DEF RebuildAt
    <3>7. CASE j = 20
      <4>1. Full("paragraph")' <=> Full("paragraph")
        BY <1>2 DEF Full, In
      <4>2. disk'.dir["paragraph"].has = mem["paragraph"]
        BY <1>8, <3>1, <3>7
      <4> QED BY <1>1, <1>2, <1>7, <1>20, <2>1, <3>1, <3>2, <3>3, <3>4, <3>7, <4>1, <4>2 DEF RebuildAt
    <3>8. CASE j = 21
      <4>1. Full("paragraph")' <=> Full("paragraph")
        BY <1>2 DEF Full, In
      <4>2. /\ a = "graph" /\ disk'.dir["graph"].has = mem["graph"]
            /\ disk'.dir["paragraph"] = disk.dir["paragraph"]
        BY <1>8, <3>1, <3>8 DEF Stores, Pools
      <4> QED BY <1>1, <1>2, <1>7, <1>20, <2>1, <3>1, <3>2, <3>3, <3>4, <3>8, <4>1, <4>2 DEF RebuildAt
    <3> QED BY <3>1, <3>5, <3>6, <3>7, <3>8
  <2> QED BY <1>1, <1>20, <2>2, <2>3
<1>21. ASSUME c = "copying"
       PROVE  CopyAt(j, x)'
  <2>1. CopyAt(k, x) /\ Remaining' = Remaining
    BY <1>2, <1>7, <1>21 DEF At, Remaining
  <2>2. run.mode = "dual" /\ a \in Pools
    BY <1>1, <2>1 DEF CopyAt
  <2>3. x \in items /\ x \in Item
    BY <1>2, <2>1 DEF CopyAt, Remaining, TypeOK
  <2>4. x \in Paragraph => PoolOf(x) = "paragraph"
    BY DEF PoolOf
  <2>5. PoolOf(x) \in {"paragraph", "graph"} /\ (x \notin Paragraph => PoolOf(x) = "graph")
    BY DEF PoolOf
  <2>6. /\ disk.dir["paragraph"].has \subseteq disk'.dir["paragraph"].has
        /\ disk.dir["graph"].has \subseteq disk'.dir["graph"].has
    BY <1>8 DEF Stores, Pools
  <2> HIDE DEF PoolOf
  <2> QED BY <1>1, <1>2, <1>7, <1>8, <1>21, <2>1, <2>2, <2>4, <2>5, <2>6 DEF CopyAt
<1>22. c = "rebuilt" => RebuiltAt(x)'
  <2>1. c = "rebuilt" => RebuiltAt(x)
    BY <1>2 DEF At
  <2> QED BY <1>2, <1>9, <2>1 DEF RebuiltAt
<1>23. Inside(c, x, j, m)'
  BY <1>1, <1>12, <1>13, <1>14, <1>15, <1>16, <1>17, <1>18, <1>19, <1>20, <1>21, <1>22 DEF Inside, At
<1> QED BY <1>23 DEF IInv

\* The paragraphs that have no vector and are not waiting for one, and the
\* relations that have none.
Waiting == queued \cup (IF batch.stale THEN {} ELSE batch.rows)
Unseen1 == (items \cap Paragraph) \ (mem["paragraph"] \cup Waiting)
Unseen2 == (items \cap Relation) \ mem["graph"]

\* Vectors are added to the stores in memory while the event loop is free.
LEMMA Adding ==
    ASSUME NEW c, NEW x, NEW k, NEW n, Inside(c, x, k, n), LoopFree,
           items \subseteq items', items' \subseteq Item, queued' \subseteq items' \cap Paragraph,
           batch' \in [rows : SUBSET (items' \cap Paragraph), stale : BOOLEAN],
           mem' \in [Stores -> SUBSET Item],
           \A s \in Stores : mem[s] \subseteq mem'[s],
           \A p \in Pools : mem'[p] \subseteq items' \cap In(p),
           mem'["single"] \subseteq items',
           run' \in Run, run'.mode = run.mode, run'.view = run.view, run'.up = run.up,
           script' = Persist \o script,
           UNCHANGED <<disk, todo, built, saved, late, count>>,
           run.mode = "dual" => Unseen1' \subseteq Unseen1 /\ Unseen2' \subseteq Unseen2
    PROVE  IInv'
<1>1. /\ n = 0 /\ Here(c, x, k, 0) /\ TypeOK /\ Filed /\ Logged /\ Staged /\ At(c, x, k, 0)
      /\ \/ c = "idle" /\ k = 1
         \/ c = "copying" /\ k = 1
         \/ c = "rebuild" /\ k \in {1, 2, 16, 18}
      /\ c = "rebuild" => x \in {"filled", "unfilled"}
  BY Freely
<1>2. PICK m \in 0 .. 2 : Here(c, x, k, m)'
  <2>1. run.mode \in {"none", "single", "dual"}
    BY <1>1 DEF TypeOK, Run
  <2> QED BY <1>1, <2>1, Persists
<1>3. /\ mem["paragraph"] \subseteq mem'["paragraph"] /\ mem["graph"] \subseteq mem'["graph"]
      /\ mem["single"] \subseteq mem'["single"]
  BY DEF Stores, Pools
<1>4. TypeOK'
  BY <1>1 DEF TypeOK, In
<1>5. Filed'
  BY <1>1 DEF Filed, In
<1>6. Logged'
  BY <1>1 DEF Logged, Cover, Passed, PoolsHave, Held, Even
<1>7. Staged'
  BY <1>1 DEF Staged
<1>8. Serving(c, k)'
  BY <1>1, <1>3 DEF At, Serving, Stores
<1>9. LogAt(c, k)' /\ StageAt(c, k)'
  BY <1>1 DEF At, LogAt, StageAt, BothThere, There, Recovering
<1>10. RunAt(c, k)'
  BY <1>1 DEF At, RunAt
<1>11. ASSUME c = "rebuild"
       PROVE  RebuildAt(k, x)'
  <2>1. RebuildAt(k, x) /\ k \in {1, 2, 16, 18}
    BY <1>1, <1>11 DEF At
  <2>2. Need' = Need /\ PoolsHave' = PoolsHave /\ BothThere' = BothThere
    BY DEF Need, Passed, PoolsHave, BothThere, There
  <2>3. CASE k \in {1, 2}
    BY <1>1, <1>11, <2>1, <2>2, <2>3 DEF RebuildAt
  <2>4. CASE k = 16
    <3>1. run.mode = "dual" /\ todo \subseteq Paragraph
      BY <2>1, <2>4 DEF RebuildAt
    <3>2. ASSUME x = "filled"
          PROVE  /\ items' \cap Paragraph \subseteq mem'["paragraph"] \cup todo \cup Waiting'
                 /\ saved \cap Paragraph \subseteq mem'["paragraph"] \cup todo
      <4>1. /\ items \cap Paragraph \subseteq mem["paragraph"] \cup todo \cup Waiting
            /\ saved \cap Paragraph \subseteq mem["paragraph"] \cup todo
        BY <2>1, <2>4, <3>2 DEF RebuildAt, Waiting
      <4>2. Unseen1' \subseteq Unseen1
        BY <3>1
      <4> QED BY <1>3, <4>1, <4>2 DEF Unseen1
    <3> QED BY <1>1, <1>11, <2>1, <2>2, <2>4, <3>1, <3>2 DEF RebuildAt, Waiting
  <2>5. CASE k = 18
    <3>1. run.mode = "dual" /\ todo \subseteq Relation
      BY <2>1, <2>5 DEF RebuildAt
    <3>2. ASSUME x = "filled"
          PROVE  /\ Full("paragraph")' /\ saved \cap Paragraph \subseteq mem'["paragraph"]
                 /\ items' \cap Relation \subseteq mem'["graph"] \cup todo
      <4>1. /\ Full("paragraph") /\ saved \cap Paragraph \subseteq mem["paragraph"]
            /\ items \cap Relation \subseteq mem["graph"] \cup todo
        BY <2>1, <2>5, <3>2 DEF RebuildAt
      <4>2. Unseen1' \subseteq Unseen1 /\ Unseen2' \subseteq Unseen2
        BY <3>1
      <4>3. /\ items' \cap In("paragraph") = items' \cap Paragraph
            /\ items \cap In("paragraph") = items \cap Paragraph
        BY <1>1 DEF In, PoolOf, TypeOK
      <4>4. items \cap Paragraph \subseteq mem["paragraph"] \cup Waiting
        BY <4>1, <4>3 DEF Full, Waiting
      <4>5. items' \cap Paragraph \subseteq mem'["paragraph"] \cup Waiting'
        BY <4>2, <4>4 DEF Unseen1
      <4>6. Full("paragraph")'
        BY <4>3, <4>5 DEF Full, Waiting, In
      <4> QED BY <1>3, <4>1, <4>2, <4>6 DEF Unseen2
    <3> QED BY <1>1, <1>11, <2>1, <2>2, <2>5, <3>1, <3>2 DEF RebuildAt
  <2> QED BY <2>1, <2>3, <2>4, <2>5
<1>12. ASSUME c = "copying"
       PROVE  CopyAt(k, x)'
  <2>1. CopyAt(k, x) /\ k = 1 /\ disk.away.trusted \subseteq items
    BY <1>1, <1>12 DEF At, Filed
  <2>2. Remaining' = Remaining
    BY <2>1 DEF Remaining
  <2> QED BY <2>1, <2>2 DEF CopyAt
<1>13. Inside(c, x, k, m)'
  BY <1>1, <1>2, <1>4, <1>5, <1>6, <1>7, <1>8, <1>9, <1>10, <1>11, <1>12 DEF Inside, At
<1> QED BY <1>13 DEF IInv

\* Something is written.
LEMMA WriteStep ==
    ASSUME NEW c, NEW x, NEW k, NEW n, Inside(c, x, k, n), NEW i \in Item, Write(i)
    PROVE  IInv'
<1> DEFINE Encoded == run.mode # "none" /\ (i \in Relation \/ ~run.degraded)
<1>1. /\ LoopFree /\ items' = items \cup {i}
      /\ queued' = IF Encoded \/ i \in Relation THEN queued ELSE queued \cup {i}
      /\ mem' = [mem EXCEPT ![PutIn(i)] = IF Encoded THEN @ \cup {i} ELSE @]
      /\ run' = [run EXCEPT !.observed = @ \/ Encoded]
      /\ script' = Persist \o script
      /\ UNCHANGED <<batch, disk, todo, built, saved, late, count>>
  BY DEF Write
<1>2. TypeOK /\ Filed
  BY DEF Inside
<1>3. /\ PutIn(i) \in Stores /\ (PutIn(i) \in Pools => PutIn(i) = PoolOf(i))
      /\ run.mode = "dual" => PutIn(i) = PoolOf(i)
      /\ PoolOf(i) = IF i \in Paragraph THEN "paragraph" ELSE "graph"
  BY DEF PutIn, PoolOf, Stores, Pools
<1>4. Encoded \in BOOLEAN /\ (run.mode = "dual" /\ i \in Relation => Encoded)
  OBVIOUS
<1> HIDE DEF Encoded
<1>5. /\ mem' \in [Stores -> SUBSET Item]
      /\ \A s \in Stores : mem'[s] = IF s = PutIn(i) /\ Encoded THEN mem[s] \cup {i} ELSE mem[s]
  BY <1>1, <1>2, <1>3 DEF TypeOK
<1>6. \A p \in Pools : mem'[p] \subseteq items' \cap In(p)
  BY <1>1, <1>2, <1>3, <1>5 DEF TypeOK, In, Stores
<1>7. \A s \in Stores : mem[s] \subseteq mem'[s]
  BY <1>5
<1>8. mem'["single"] \subseteq items'
  BY <1>1, <1>2, <1>5 DEF Filed, Stores
<1>9. run' \in Run /\ run'.mode = run.mode /\ run'.view = run.view /\ run'.up = run.up
  BY <1>1, <1>2, <1>4 DEF TypeOK, Run
<1>10. queued' \subseteq items' \cap Paragraph
  BY <1>1, <1>2 DEF TypeOK, Item
<1>11. batch' \in [rows : SUBSET (items' \cap Paragraph), stale : BOOLEAN]
  BY <1>1, <1>2 DEF TypeOK
<1>12. ASSUME run.mode = "dual"
       PROVE  Unseen1' \subseteq Unseen1 /\ Unseen2' \subseteq Unseen2
  <2>1. Encoded /\ i \in Paragraph => i \in mem'["paragraph"]
    BY <1>3, <1>5, <1>12 DEF Stores, Pools
  <2>2. i \in Relation => Encoded /\ i \notin Paragraph /\ i \in mem'["graph"]
    BY <1>3, <1>4, <1>5, <1>12, ItemAssumption DEF Stores, Pools
  <2>3. Waiting \subseteq Waiting' /\ (~Encoded /\ i \in Paragraph => i \in Waiting')
    BY <1>1, <2>2, ItemAssumption DEF Waiting
  <2>4. mem["paragraph"] \subseteq mem'["paragraph"] /\ mem["graph"] \subseteq mem'["graph"]
    BY <1>7 DEF Stores, Pools
  <2>5. Unseen1' \subseteq Unseen1
    BY <1>1, <1>4, <2>1, <2>3, <2>4 DEF Unseen1
  <2>6. Unseen2' \subseteq Unseen2
    BY <1>1, <2>2, <2>4 DEF Unseen2
  <2> QED BY <2>5, <2>6
<1>13. items \subseteq items' /\ items' \subseteq Item
  BY <1>1, <1>2 DEF TypeOK
<1> QED BY <1>1, <1>5, <1>6, <1>7, <1>8, <1>9, <1>10, <1>11, <1>12, <1>13, Adding

\* The vectors of a backfill have come.
LEMMA BackfillEndStep ==
    ASSUME NEW c, NEW x, NEW k, NEW n, Inside(c, x, k, n), BackfillEnd
    PROVE  IInv'
<1>1. /\ LoopFree /\ batch' = NoBatch /\ run' = [run EXCEPT !.observed = TRUE]
      /\ mem' = IF batch.stale THEN mem
                ELSE [s \in Stores |-> mem[s] \cup {i \in batch.rows : PutIn(i) = s}]
      /\ script' = Persist \o script
      /\ UNCHANGED <<items, queued, disk, todo, built, saved, late, count>>
  BY DEF BackfillEnd
<1>2. TypeOK /\ Filed
  BY DEF Inside
<1>3. \A i \in batch.rows : /\ i \in items /\ i \in Paragraph /\ i \in Item
                            /\ PutIn(i) \in Pools => PutIn(i) = PoolOf(i)
                            /\ run.mode = "dual" => PutIn(i) = "paragraph"
  BY <1>2 DEF TypeOK, PutIn, PoolOf, Pools
<1>4. /\ mem' \in [Stores -> SUBSET Item]
      /\ \A s \in Stores : mem'[s] = IF batch.stale THEN mem[s] ELSE mem[s] \cup {i \in batch.rows : PutIn(i) = s}
  BY <1>1, <1>2, <1>3 DEF TypeOK
<1>5. \A p \in Pools : mem'[p] \subseteq items' \cap In(p)
  BY <1>1, <1>2, <1>3, <1>4 DEF TypeOK, In, Stores
<1>6. \A s \in Stores : mem[s] \subseteq mem'[s]
  BY <1>4
<1>7. mem'["single"] \subseteq items'
  BY <1>1, <1>2, <1>3, <1>4 DEF Filed, Stores
<1>8. run' \in Run /\ run'.mode = run.mode /\ run'.view = run.view /\ run'.up = run.up
  BY <1>1, <1>2 DEF TypeOK, Run
<1>9. /\ batch' \in [rows : SUBSET (items' \cap Paragraph), stale : BOOLEAN] /\ batch'.rows = {}
      /\ queued' \subseteq items' \cap Paragraph /\ items \subseteq items' /\ items' \subseteq Item
  BY <1>1, <1>2 DEF TypeOK, NoBatch
<1>10. ASSUME run.mode = "dual"
       PROVE  Unseen1' \subseteq Unseen1 /\ Unseen2' \subseteq Unseen2
  <2>1. mem["paragraph"] \subseteq mem'["paragraph"] /\ mem["graph"] \subseteq mem'["graph"]
    BY <1>6 DEF Stores, Pools
  <2>2. ~batch.stale => batch.rows \subseteq mem'["paragraph"]
    BY <1>3, <1>4, <1>10 DEF Stores, Pools
  <2>3. Unseen1' \subseteq Unseen1
    BY <1>1, <2>1, <2>2 DEF Unseen1, Waiting
  <2> QED BY <1>1, <2>1, <2>3 DEF Unseen2
<1> QED BY <1>1, <1>4, <1>5, <1>6, <1>7, <1>8, <1>9, <1>10, Adding

\* The queue is taken.
LEMMA BackfillStartStep ==
    ASSUME NEW c, NEW x, NEW k, NEW n, Inside(c, x, k, n), BackfillStart
    PROVE  IInv'
<1>1. /\ LoopFree /\ batch.rows = {} /\ batch' = [rows |-> queued, stale |-> FALSE] /\ queued' = {}
      /\ UNCHANGED <<items, disk, run, mem, todo, built, saved, late, count>> /\ UNCHANGED script
  BY DEF BackfillStart
<1>2. /\ n = 0 /\ Here(c, x, k, 0) /\ TypeOK /\ Filed /\ Logged /\ Staged /\ At(c, x, k, 0)
      /\ \/ c = "idle" /\ k = 1
         \/ c = "copying" /\ k = 1
         \/ c = "rebuild" /\ k \in {1, 2, 16, 18}
      /\ c = "rebuild" => x \in {"filled", "unfilled"}
  BY <1>1, Freely
<1>3. Here(c, x, k, 0)'
  BY <1>1, <1>2, Stays
<1>4. Waiting' = Waiting
  BY <1>1 DEF Waiting
<1>5. TypeOK' /\ Filed' /\ Staged'
  BY <1>1, <1>2 DEF TypeOK, Filed, Staged, In
<1>6. Logged'
  BY <1>1, <1>2 DEF Logged, Cover, Passed, PoolsHave, Held, Even
<1>7. Serving(c, k)' /\ LogAt(c, k)' /\ StageAt(c, k)' /\ RunAt(c, k)'
  BY <1>1, <1>2 DEF At, Serving, LogAt, StageAt, BothThere, There, Recovering, RunAt
<1>8. ASSUME c = "rebuild"
      PROVE  RebuildAt(k, x)'
  <2>1. RebuildAt(k, x) /\ k \in {1, 2, 16, 18}
    BY <1>2, <1>8 DEF At
  <2>2. Need' = Need /\ PoolsHave' = PoolsHave /\ BothThere' = BothThere
    BY <1>1 DEF Need, Passed, PoolsHave, BothThere, There
  <2>3. Full("paragraph")' <=> Full("paragraph")
    BY <1>1, <1>4 DEF Full, Waiting, In
  <2>4. (items \cap Paragraph \subseteq mem["paragraph"] \cup todo \cup Waiting)' <=>
           items \cap Paragraph \subseteq mem["paragraph"] \cup todo \cup Waiting
    BY <1>1, <1>4
  <2>5. CASE k = 16
    BY <1>1, <1>2, <1>8, <2>1, <2>2, <2>4, <2>5 DEF RebuildAt, Waiting
  <2>6. CASE k # 16
    BY <1>1, <1>2, <1>8, <2>1, <2>2, <2>3, <2>6 DEF RebuildAt
  <2> QED BY <2>5, <2>6
<1>9. c = "copying" => CopyAt(k, x)'
  <2>1. Remaining' = Remaining
    BY <1>1 DEF Remaining
  <2> QED BY <1>1, <1>2, <2>1 DEF At, CopyAt
<1>10. Inside(c, x, k, 0)'
  BY <1>2, <1>3, <1>5, <1>6, <1>7, <1>8, <1>9 DEF Inside, At
<1> QED BY <1>10 DEF IInv

\* The beginning.
LEMMA Beginning ==
    ASSUME Init
    PROVE  IInv
<1>1. PICK b \in Beginnings, some \in SUBSET Item \ {{}} :
          /\ items = IF b = "new" THEN {} ELSE some
          /\ disk = DiskOf(b, items)
  BY DEF Init
<1>2. PICK S : S = items
  OBVIOUS
<1>3. PICK d : d = [s \in Stores |->
                            CASE b \in {"single", "leftover"} /\ s = "single" ->
                                    [Store(S, 0) EXCEPT !.is = "v1"]
                              [] b \in {"dual", "leftover"} /\ s # "single" -> Store(S \cap In(s), 1)
                              [] b = "copying" /\ s # "single" -> Store({}, 1)
                              [] OTHER -> Absent]
  OBVIOUS
<1>4. /\ items = S /\ saved = S /\ S \subseteq Item /\ (b = "new" => S = {})
      /\ disk = [dir |-> d,
                 build |-> NoDirs,
                 log |-> "none", had |-> {}, old |-> NoDirs, stash |-> NoDirs,
                 manifest |-> CASE b \in {"dual", "leftover"} -> "ready" [] b = "copying" -> "fresh" [] OTHER -> "none",
                 stage |-> IF b = "copying" THEN "copying" ELSE "none", cursor |-> 0,
                 away |-> [there |-> b = "copying",
                           trusted |-> IF b = "copying" THEN S ELSE {},
                           all |-> IF b = "copying" THEN S ELSE {}]]
  <2>1. saved = items
    BY DEF Init
  <2>2. S \subseteq Item /\ (b = "new" => S = {})
    BY <1>1, <1>2
  <2> QED BY <1>1, <1>2, <1>3, <2>1, <2>2 DEF DiskOf
<1>5. /\ queued = {} /\ batch = NoBatch
      /\ run = Off /\ mem = NoMem /\ script = <<>> /\ todo = {} /\ built = [p \in Pools |-> {}]
      /\ late = {}
      /\ count = [crashes |-> 0, rebuilds |-> 0, damages |-> 0, gen |-> 1]
  BY DEF Init
<1>6. b \in {"new", "single", "dual", "leftover", "copying"}
  BY BeginningAssumption
<1>7. /\ "paragraph" \in Stores /\ "graph" \in Stores /\ "single" \in Stores /\ Pools = {"paragraph", "graph"}
      /\ Stores = {"paragraph", "graph", "single"}
  BY DEF Stores, Pools
<1>8. /\ d["single"] = IF b \in {"single", "leftover"} THEN [is |-> "v1", has |-> S, gen |-> 0] ELSE Absent
      /\ \A p \in Pools : d[p] = IF b \in {"dual", "leftover"} THEN Store(S \cap In(p), 1)
                                 ELSE IF b = "copying" THEN Store({}, 1) ELSE Absent
  BY <1>3, <1>6, <1>7 DEF Store
<1>9. d \in [Stores -> Dir]
  <2>1. [is |-> "v1", has |-> S, gen |-> 0] \in Dir /\ Absent \in Dir /\ Store({}, 1) \in Dir
    BY <1>4 DEF Dir, Absent, Store
  <2>2. \A p \in Pools : Store(S \cap In(p), 1) \in Dir
    BY <1>4 DEF Dir, Store
  <2>3. d["single"] \in Dir
    BY <1>8, <2>1
  <2>4. \A p \in Pools : d[p] \in Dir
    BY <1>8, <2>1, <2>2
  <2>5. d = [s \in Stores |-> d[s]]
    BY <1>3
  <2> QED BY <1>7, <2>3, <2>4, <2>5
<1>10. disk \in Disk
  <2>1. NoDirs \in [Pools -> Dir]
    BY Dirs
  <2> QED BY <1>4, <1>6, <1>9, <2>1 DEF Disk
<1>11. TypeOK
  <2>1. mem \in [Stores -> SUBSET Item] /\ \A p \in Pools : mem[p] = {}
    BY <1>5, <1>7 DEF NoMem
  <2>2. run \in Run /\ batch \in [rows : SUBSET (items \cap Paragraph), stale : BOOLEAN]
    BY <1>5 DEF Off, Run, NoBatch
  <2>3. built \in [Pools -> SUBSET Item]
    BY <1>5
  <2>4. count \in [crashes : Nat, rebuilds : Nat, damages : Nat, gen : Nat]
    BY <1>5
  <2> QED BY <1>4, <1>5, <1>10, <2>1, <2>2, <2>3, <2>4 DEF TypeOK
<1>12. /\ disk.dir = d /\ disk.old = NoDirs /\ disk.stash = NoDirs /\ disk.log = "none" /\ disk.cursor = 0
       /\ disk.stage = IF b = "copying" THEN "copying" ELSE "none"
       /\ b = "copying" => disk.manifest = "fresh" /\ disk.away.trusted = S /\ disk.away.all = S
       /\ b # "copying" => disk.away.trusted = {} /\ disk.away.all = {}
  BY <1>4
<1>13. \A p \in Pools : NoDirs[p] = Absent
  BY DEF NoDirs
<1>14. Filed
  <2>1. \A s \in Stores : Formed(d[s])
    BY <1>7, <1>8 DEF Formed, Store, Absent
  <2>2. \A p \in Pools : d[p].has \subseteq S \cap In(p)
    <3>1. Store({}, 1).has = {} /\ Absent.has = {} /\ \A p \in Pools : Store(S \cap In(p), 1).has = S \cap In(p)
      BY DEF Store, Absent
    <3> HIDE DEF In
    <3> QED BY <1>8, <3>1
  <2>3. d["single"].has \subseteq S /\ mem["single"] = {} /\ \A p \in Pools : built[p] = {}
    BY <1>5, <1>7, <1>8 DEF Absent, NoMem
  <2>4. \A p \in Pools : Formed(NoDirs[p]) /\ NoDirs[p].has = {}
    BY <1>13 DEF Formed, Absent
  <2> QED BY <1>4, <1>12, <2>1, <2>2, <2>3, <2>4 DEF Filed
<1>15. Passed = {}
  <2> SUFFICES ASSUME NEW i \in Passed PROVE FALSE
    OBVIOUS
  <2>1. i \in Item /\ Rank[i] <= 0
    BY <1>4, <1>12 DEF Passed
  <2>2. Rank[i] \in Nat \ {0}
    BY <2>1, RankAssumption
  <2> QED BY <2>1, <2>2
<1>16. Logged
  <2>1. d["paragraph"].gen = d["graph"].gen
    BY <1>7, <1>8 DEF Store, Absent
  <2>2. S \subseteq d["paragraph"].has \cup d["graph"].has \cup d["single"].has \cup disk.away.all
    <3>1. CASE b \in {"new", "copying"}
      BY <1>4, <1>12, <3>1
    <3>2. CASE b \in {"single", "leftover"}
      BY <1>8, <3>2
    <3>3. CASE b = "dual"
      <4>1. S \subseteq (S \cap In("paragraph")) \cup (S \cap In("graph"))
        BY <1>4 DEF In, PoolOf
      <4>2. d["paragraph"].has = S \cap In("paragraph") /\ d["graph"].has = S \cap In("graph")
        BY <1>7, <1>8, <3>3 DEF Store
      <4> QED BY <4>1, <4>2
    <3> QED BY <1>6, <3>1, <3>2, <3>3
  <2>3. Cover(PoolsHave)
    BY <1>4, <1>5, <1>12, <1>15, <2>2 DEF Cover, PoolsHave
  <2> QED BY <1>12, <2>1, <2>3 DEF Logged, Even
<1>17. Staged
  BY <1>5, <1>12 DEF Staged, Off
<1>18. Here("off", "none", 1, 0)
  <2>1. End("off") = 0 /\ "off" \in Calls /\ Fits("off", "none")
    BY DEF End, Calls, Fits, Args
  <2>2. <<>> \in Seq(Steps) /\ Len(<<>>) = 0
    BY EmptySeq
  <2> QED BY <1>5, <2>1, <2>2 DEF Here, Waits
<1>19. At("off", "none", 1, 0)
  BY <1>5, <1>12 DEF At, Serving, LogAt, StageAt, RunAt, Recovering, Off
<1>20. Inside("off", "none", 1, 0)
  BY <1>11, <1>14, <1>16, <1>17, <1>18, <1>19 DEF Inside
<1> QED BY <1>20 DEF IInv

\* Nothing moves.
LEMMA Stutters ==
    ASSUME NEW c, NEW x, NEW k, NEW n, Inside(c, x, k, n), UNCHANGED vars
    PROVE  IInv'
<1>1. Inside(c, x, k, n)'
  <2>1. /\ items' = items /\ queued' = queued /\ batch' = batch /\ disk' = disk /\ run' = run /\ mem' = mem
        /\ script' = script /\ todo' = todo /\ built' = built /\ saved' = saved /\ late' = late /\ count' = count
    BY DEF vars
  <2>2. TypeOK' /\ Filed' /\ Logged' /\ Staged'
    BY <2>1 DEF Inside, TypeOK, Filed, Formed, Logged, Held, Cover, Passed, Even, PoolsHave, Staged
  <2>3. Here(c, x, k, n)'
    BY <2>1 DEF Inside, Here, Ahead
  <2>4. At(c, x, k, n)'
    BY <2>1 DEF Inside, At, Serving, LogAt, StageAt, RunAt, RebuildAt, CopyAt, RebuiltAt, Need, Remaining,
                BothThere, There, Even, Cover, Passed, Held, Full, PoolsHave
  <2> QED BY <2>2, <2>3, <2>4 DEF Inside
<1> QED BY <1>1 DEF IInv

\* A step of a script.
LEMMA StepIs ==
    ASSUME NEW c, NEW x, NEW k, NEW n, Inside(c, x, k, n), Step
    PROVE  IInv'
<1>1. CASE Save
  BY <1>1, SaveStep
<1>2. CASE Quarantine
  BY <1>2, QuarantineStep
<1>3. CASE Note
  BY <1>3, NoteStep
<1>4. CASE Reset
  BY <1>4, ResetStep
<1>5. CASE Renew
  BY <1>5, RenewStep
<1>6. CASE Fresh
  BY <1>6, FreshStep
<1>7. CASE View
  BY <1>7, ViewStep
<1>8. CASE Sweep
  BY <1>8, SweepStep
<1>9. CASE Stash
  BY <1>9, StashStep
<1>10. CASE Return
  BY <1>10, ReturnStep
<1>11. CASE Settled
  BY <1>11, SettledStep
<1>12. CASE Resume
  BY <1>12, ResumeStep
<1>13. CASE Load
  BY <1>13, LoadStep
<1>14. CASE Encode
  BY <1>14, EncodeStep
<1>15. CASE EncodeFails
  BY <1>15, EncodeFailsStep
<1>16. CASE Drop
  BY <1>16, DropStep
<1>17. CASE SaveBuild
  BY <1>17, SaveBuildStep
<1>18. CASE Prepare
  BY <1>18, PrepareStep
<1>19. CASE MoveOut
  BY <1>19, MoveOutStep
<1>20. CASE MoveIn
  BY <1>20, MoveInStep
<1>21. CASE Activated
  BY <1>21, ActivatedStep
<1>22. CASE Manifest
  BY <1>22, ManifestStep
<1>23. CASE ReloadStores
  BY <1>23, ReloadStoresStep
<1>24. CASE Missing
  BY <1>24, MissingStep
<1>25. CASE Fill
  BY <1>25, FillStep
<1>26. CASE FillFails
  BY <1>26, FillFailsStep
<1>27. CASE ClearSingle
  BY <1>27, ClearSingleStep
<1>28. CASE Finish
  BY <1>28, FinishStep
<1>29. CASE Rebuilt
  BY <1>29, RebuiltStep
<1>30. CASE Copy
  BY <1>30, CopyStep
<1>31. CASE Cursor
  BY <1>31, CursorStep
<1> QED BY <1>1, <1>2, <1>3, <1>4, <1>5, <1>6, <1>7, <1>8, <1>9, <1>10, <1>11, <1>12, <1>13, <1>14,
   <1>15, <1>16, <1>17, <1>18, <1>19, <1>20, <1>21, <1>22, <1>23, <1>24, <1>25, <1>26, <1>27, <1>28,
   <1>29, <1>30, <1>31 DEF Step

\* The invariant: the directories, the stores and the script agree.  Bound: no
\* crash in a switch that follows a recovery.
THEOREM Invariance ==
    ASSUME CrashInFreshSwitch = FALSE
    PROVE  Spec => []IInv
<1>1. Init => IInv
  BY Beginning
<1>2. IInv /\ [Next]_vars => IInv'
  <2> SUFFICES ASSUME IInv, [Next]_vars
               PROVE  IInv'
    OBVIOUS
  <2>1. PICK c, x, k, n : Inside(c, x, k, n)
    BY DEF IInv
  <2>2. CASE Step
    BY <2>1, <2>2, StepIs
  <2>3. CASE Start
    BY <2>1, <2>3, StartStep
  <2>4. CASE Probe
    BY <2>1, <2>4, ProbeStep
  <2>5. CASE Rebuild
    BY <2>1, <2>5, RebuildStep
  <2>6. CASE CopyStart
    BY <2>1, <2>6, CopyStartStep
  <2>7. CASE BackfillStart
    BY <2>1, <2>7, BackfillStartStep
  <2>8. CASE BackfillEnd
    BY <2>1, <2>8, BackfillEndStep
  <2>9. CASE Crash
    BY <2>1, <2>9, CrashStep
  <2>10. CASE \E i \in Item : Write(i)
    BY <2>1, <2>10, WriteStep
  <2>11. CASE \E p \in Pools : Damage(p)
    BY <2>1, <2>11, DamageStep
  <2>12. CASE UNCHANGED vars
    BY <2>1, <2>12, Stutters
  <2> QED BY <2>2, <2>3, <2>4, <2>5, <2>6, <2>7, <2>8, <2>9, <2>10, <2>11, <2>12 DEF Next
<1> QED BY <1>1, <1>2, PTL DEF Spec

\* Both pools in use are of one generation (dual_vector_state_service.py:181-286).
THEOREM PairHolds ==
    ASSUME CrashInFreshSwitch = FALSE
    PROVE  Spec => []PairOfOneGeneration
<1>1. IInv => PairOfOneGeneration
  <2> SUFFICES ASSUME NEW c, NEW x, NEW k, NEW n, Inside(c, x, k, n), Idle, run.mode = "dual"
               PROVE  disk.dir["paragraph"].gen = disk.dir["graph"].gen
    BY DEF IInv, PairOfOneGeneration
  <2>1. Here(c, x, k, n) /\ Logged /\ Staged /\ At(c, x, k, n)
    BY DEF Inside
  <2>2. c \in Waits /\ n = 0 /\ k = 1
    BY <2>1, Empty DEF Idle, Busy
  <2>3. c = "idle"
    BY <2>1, <2>2 DEF At, RunAt, Waits, Idle
  <2>4. disk.log # "prepared" /\ disk.stage # "metadata_reset"
    <3>1. BothThere
      BY <2>1, <2>3 DEF At, Serving, Apart, BothThere, There, Pools
    <3> QED BY <2>1, <2>3, <3>1 DEF At, LogAt, StageAt
  <2> QED BY <2>1, <2>4 DEF Logged, Even
<1> QED BY <1>1, Invariance, PTL

\* A saved vector stays on the disk, and the cursor of the copying does not run
\* ahead of what is in the pools (vector_recovery_service.py:355-435).
THEOREM LastCopyHolds ==
    ASSUME CrashInFreshSwitch = FALSE
    PROVE  Spec => []LastCopyKept
<1>1. IInv => LastCopyKept
  <2> SUFFICES ASSUME NEW c, NEW x, NEW k, NEW n, Inside(c, x, k, n)
               PROVE  LastCopyKept
    BY DEF IInv
  <2>1. TypeOK /\ Logged
    BY DEF Inside
  <2>2. /\ "paragraph" \in DOMAIN disk.dir /\ "graph" \in DOMAIN disk.dir /\ "single" \in DOMAIN disk.dir
        /\ "paragraph" \in DOMAIN disk.old /\ "graph" \in DOMAIN disk.old
        /\ "paragraph" \in DOMAIN disk.stash /\ "graph" \in DOMAIN disk.stash
    BY <2>1 DEF TypeOK, Disk, Stores, Pools
  <2>3. /\ PoolsHave \cup disk.dir["single"].has \subseteq Contents(disk.dir)
        /\ disk.old["paragraph"].has \cup disk.old["graph"].has \subseteq Contents(disk.old)
        /\ disk.stash["paragraph"].has \cup disk.stash["graph"].has \subseteq Contents(disk.stash)
    BY <2>2 DEF Contents, PoolsHave
  <2>4. PoolsHave \subseteq Contents([p \in Pools |-> disk.dir[p]])
    BY DEF Contents, PoolsHave, Pools
  <2>5. PICK X : Cover(X) /\ X \subseteq PoolsHave \cup Contents(disk.old) \cup Contents(disk.stash)
    <3>1. CASE disk.log = "prepared"
      <4>1. Cover(Held("paragraph") \cup Held("graph"))
        BY <2>1, <3>1 DEF Logged
      <4>2. Held("paragraph") \cup Held("graph") \subseteq PoolsHave \cup Contents(disk.old) \cup Contents(disk.stash)
        BY <2>3 DEF Held, PoolsHave
      <4> QED BY <4>1, <4>2
    <3>2. CASE disk.log # "prepared"
      BY <2>1, <3>2 DEF Logged
    <3> QED BY <3>1, <3>2
  <2>6. saved \ late \subseteq
          Contents(disk.dir) \cup Contents(disk.old) \cup Contents(disk.stash) \cup disk.away.all
    BY <2>3, <2>5 DEF Cover
  <2>7. CursorIsHonest
    BY <2>4, <2>5 DEF CursorIsHonest, Cover, Passed
  <2> QED BY <2>1, <2>6, <2>7 DEF LastCopyKept
<1> QED BY <1>1, Invariance, PTL

\* A rebuild that lifts the degradation has left nothing out
\* (vector_runtime_service.py:552-953).
THEOREM RebuiltHolds ==
    ASSUME CrashInFreshSwitch = FALSE
    PROVE  Spec => []RebuiltIsComplete
<1>1. IInv => RebuiltIsComplete
  <2> SUFFICES ASSUME NEW c, NEW x, NEW k, NEW n, Inside(c, x, k, n), Doing("rebuilt"), Arg = "filled"
               PROVE  items \subseteq Contents([p \in Pools |-> disk.dir[p]]) \cup queued \cup batch.rows
    BY DEF IInv, RebuiltIsComplete
  <2>1. Here(c, x, k, n) /\ At(c, x, k, n)
    BY DEF Inside
  <2>2. Goes(c, x, k, Head(script)) /\ Head(script)[1] = "rebuilt"
    BY <2>1, Steps1
  <2>3. c = "rebuilt" /\ x = "filled"
    BY <2>2 DEF Goes, Arg
  <2>4. items \subseteq PoolsHave \cup queued \cup batch.rows
    BY <2>1, <2>3 DEF At, RebuiltAt
  <2>5. PoolsHave \subseteq Contents([p \in Pools |-> disk.dir[p]])
    BY DEF Contents, PoolsHave, Pools
  <2> QED BY <2>4, <2>5
<1> QED BY <1>1, Invariance, PTL
=============================================================================
