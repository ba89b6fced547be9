------------------------------ MODULE QueueProofs ------------------------------
(***************************************************************************)
(* Theorems about the two queues in which the host and the loops keep work *)
(* for later: HostRuntime, with the write-ahead queue of the start-up, and *)
(* ProfileRefresh, the table of profiles to refresh.                       *)
(*                                                                         *)
(* HostRuntime, for any number of writes and kernels, whatever is          *)
(* reloaded, stopped, cancelled, timed out or crashes: a write that was    *)
(* answered "queued" is not forgotten, the runtime never says it is        *)
(* initialising with nobody initialising it, and only a shutdown() that    *)
(* raises leaves it calling itself ready without an open kernel.           *)
(*                                                                         *)
(* ProfileRefresh, for any persons, loops, readers, evidence and bounds:   *)
(* a row that is done is fresh, because a loop ends a row as done only if  *)
(* no request came since its claim.  Whoever has read evidence since the   *)
(* last request of a person, with no change waiting for its request, has   *)
(* read what is known now (InForce): a change makes the person "changing", *)
(* and the request that ends this overtakes everybody at work.             *)
(***************************************************************************)
EXTENDS HostRuntime, ProfileRefresh, FiniteSetTheorems, TLAPS

\* No record is marked done, or about to be, before it is stored.
FilesAgree ==
    /\ done \subseteq stored
    /\ task.pc = "mark" => task.cur \in stored
    /\ \A r \in Write : req[r].pc \in {"appended", "queued"} => r \in wal

Unknown(k) == \A r \in Write : req[r].k # k

Replaying == {"read", "count", "replay", "mark"}

\* The startup task's kernel is its own until it publishes it; it stays the
\* published one until the task has ended.
TaskOwns ==
    /\ task.pc = "begin" => runtime = "starting"
    /\ task.pc = "init" =>
          /\ runtime = "migrating"
          /\ Unknown(task.k) /\ inst[task.k] = "initialising"
    /\ task.pc \in Replaying => kernel = task.k /\ inst[task.k] = "open"
    /\ task.pc = "mark" => task.cur \in Write
    /\ task.pc \in {"breaking", "unwinding"} => kernel = task.k /\ inst[task.k] = "closing"
    /\ task.pc = "unwind" =>
          \/ kernel = task.k /\ inst[task.k] = "open"
          \/ kernel = None /\ inst[task.k] = "closed" /\ Unknown(task.k)

\* Only a stop or reload cancels the task and closes the published kernel.
AdminOwns ==
    /\ task.pc \in {"unwind", "unwinding", "fail"} => admin \in {"stop", "reload"}
    /\ admin \in {"stopping", "reloading"} =>
          task.pc = "none" /\ kernel # None /\ inst[kernel] = "closing"
    /\ runtime = "ready" <=> kernel # None
    /\ runtime \in Initialising => task.pc # "none" \/ admin \in {"stop", "reload"}

\* One request at a time initialises a kernel again.
RevivingAlone ==
    /\ \A r \in Write : req[r].pc = "reviving" => inst[req[r].k] = "initialising"
    /\ \A r, s \in Write :
          req[r].pc = "reviving" /\ req[s].pc = "reviving" /\ req[r].k = req[s].k => r = s

IInv == TypeOK /\ FilesAgree /\ TaskOwns /\ AdminOwns /\ RevivingAlone

USE DEF FilesAgree, Unknown, Replaying, TaskOwns, AdminOwns, RevivingAlone
USE DEF At, NoTask, Initialising, Locked, InFlight, TaskPc, files, counter

\* No kernel and no write is called None.
LEMMA NoneIsNoKernel == None \notin Kernel /\ None \notin Write
BY FaultsAssumption

\* Writes can be counted.
LEMMA Counting ==
    ASSUME NEW S, S \subseteq Write
    PROVE  Cardinality(S) \in Nat
BY WriteAssumption, FS_Subset, FS_CardinalityType

-----------------------------------------------------------------------------
\* The invariant at first.
LEMMA InitHolds == Init => IInv
<1> SUFFICES ASSUME Init PROVE IInv
  OBVIOUS
<1>1. TypeOK
  BY DEF Init, TypeOK
<1>2. FilesAgree /\ RevivingAlone
  BY DEF Init
<1>3. TaskOwns /\ AdminOwns
  BY DEF Init
<1> QED BY <1>1, <1>2, <1>3 DEF IInv

\* Starting the task.
LEMMA EnsureStartupHolds ==
    ASSUME IInv, EnsureStartup, UNCHANGED <<enabled, kernel, inst, files>>
    PROVE  /\ runtime' \in {"stopped", "starting", "migrating", "ready", "failed"}
           /\ task' \in [pc : TaskPc, k : Kernel \cup {None}, todo : SUBSET Write,
                         cur : Write \cup {None}]
           /\ count' \in Nat /\ loaded' \in BOOLEAN
           /\ \/ task' = task /\ runtime' = runtime
              \/ task'.pc = "begin" /\ runtime' = "starting"
<1>1. Cardinality(Pending) \in Nat
  BY Counting DEF IInv, TypeOK, Pending
<1> DEFINE begun == [NoTask EXCEPT !.pc = "begin"]
<1>2. /\ begun \in [pc : TaskPc, k : Kernel \cup {None}, todo : SUBSET Write,
                     cur : Write \cup {None}]
      /\ begun.pc = "begin"
  OBVIOUS
<1>3. \/ task' = task /\ runtime' = runtime
      \/ task' = begun /\ runtime' = "starting"
  <2>1. CASE (kernel # None /\ runtime = "ready") \/ task.pc # "none"
    BY <2>1 DEF EnsureStartup
  <2>2. CASE ~((kernel # None /\ runtime = "ready") \/ task.pc # "none")
    BY <2>2 DEF EnsureStartup
  <2> QED BY <2>1, <2>2
<1>4. count' \in Nat /\ loaded' \in BOOLEAN
  BY <1>1 DEF IInv, TypeOK, EnsureStartup
<1> HIDE DEF begun
<1> QED BY <1>2, <1>3, <1>4 DEF IInv, TypeOK

LEMMA StartHolds == IInv /\ Start => IInv'
<1> SUFFICES ASSUME IInv, Start PROVE IInv'
  OBVIOUS
<1> USE NoneIsNoKernel DEF IInv
<1>1. /\ UNCHANGED <<enabled, kernel, inst, req, files>>
      /\ admin \in {"boot", "restart"} /\ admin' = "idle"
      /\ EnsureStartup \/ UNCHANGED <<runtime, task, counter>>
  BY DEF Start
<1>2. /\ runtime' \in {"stopped", "starting", "migrating", "ready", "failed"}
      /\ task' \in [pc : TaskPc, k : Kernel \cup {None}, todo : SUBSET Write,
                    cur : Write \cup {None}]
      /\ count' \in Nat /\ loaded' \in BOOLEAN
      /\ \/ task' = task /\ runtime' = runtime
         \/ task'.pc = "begin" /\ runtime' = "starting" /\ kernel = None
  BY <1>1, EnsureStartupHolds DEF TypeOK, EnsureStartup
<1>3. TypeOK'
  BY <1>1, <1>2 DEF TypeOK
<1>4. FilesAgree' /\ RevivingAlone'
  BY <1>1, <1>2
<1>5. TaskOwns' /\ AdminOwns'
  BY <1>1, <1>2
<1> QED BY <1>3, <1>4, <1>5

LEMMA MigrateHolds == IInv /\ Migrate => IInv'
<1> SUFFICES ASSUME IInv, Migrate PROVE IInv'
  OBVIOUS
<1> USE NoneIsNoKernel DEF IInv
<1>1. task.pc = "begin" /\ kernel = None /\ UNCHANGED <<enabled, admin, counter, req, files>>
  BY DEF Migrate
<1>2. CASE ~enabled /\ runtime' = "stopped" /\ task' = NoTask /\ UNCHANGED <<kernel, inst>>
  <2>1. TypeOK'
    BY <1>1, <1>2 DEF TypeOK
  <2>2. FilesAgree' /\ RevivingAlone' /\ TaskOwns' /\ AdminOwns'
    BY <1>1, <1>2
  <2> QED BY <2>1, <2>2
<1>3. CASE Failed /\ UNCHANGED inst
  <2>1. TypeOK'
    BY <1>1, <1>3 DEF TypeOK, Failed
  <2>2. FilesAgree' /\ RevivingAlone' /\ TaskOwns' /\ AdminOwns'
    BY <1>1, <1>3 DEF Failed
  <2> QED BY <2>1, <2>2
<1>4. ASSUME NEW k \in Kernel, New(k), runtime' = "migrating", UNCHANGED kernel,
             inst' = [inst EXCEPT ![k] = "initialising"],
             task' = [task EXCEPT !.pc = "init", !.k = k]
      PROVE  IInv'
  <2>1. task' = [pc |-> "init", k |-> k, todo |-> task.todo, cur |-> task.cur]
    BY <1>4 DEF TypeOK
  <2>2. TypeOK'
    BY <1>1, <1>4, <2>1 DEF TypeOK
  <2>3. FilesAgree' /\ RevivingAlone'
    BY <1>1, <1>4, <2>1 DEF New, TypeOK
  <2>4. TaskOwns' /\ AdminOwns'
    BY <1>1, <1>4, <2>1 DEF New, TypeOK
  <2> QED BY <2>2, <2>3, <2>4
<1> QED BY <1>2, <1>3, <1>4 DEF Migrate

LEMMA InitialisedHolds == IInv /\ Initialised => IInv'
<1> SUFFICES ASSUME IInv, Initialised PROVE IInv'
  OBVIOUS
<1> USE NoneIsNoKernel DEF IInv, Initialised, Failed
<1>1. TypeOK'
  BY DEF TypeOK
<1>2. FilesAgree' /\ RevivingAlone'
  BY DEF TypeOK
<1>3. TaskOwns' /\ AdminOwns'
  BY DEF TypeOK
<1> QED BY <1>1, <1>2, <1>3

LEMMA ReadWalHolds == IInv /\ ReadWal => IInv'
<1> SUFFICES ASSUME IInv, ReadWal PROVE IInv'
  OBVIOUS
<1> USE NoneIsNoKernel DEF IInv, ReadWal, Pending
<1>1. TypeOK'
  BY DEF TypeOK
<1>2. FilesAgree' /\ RevivingAlone'
  BY DEF TypeOK
<1>3. TaskOwns' /\ AdminOwns'
  BY DEF TypeOK
<1> QED BY <1>1, <1>2, <1>3

LEMMA CountWalHolds == IInv /\ CountWal => IInv'
<1> SUFFICES ASSUME IInv, CountWal PROVE IInv'
  OBVIOUS
<1> USE NoneIsNoKernel DEF IInv, CountWal
<1>1. TypeOK'
  BY Counting DEF TypeOK
<1>2. FilesAgree' /\ RevivingAlone'
  BY DEF TypeOK
<1>3. TaskOwns' /\ AdminOwns'
  BY DEF TypeOK
<1> QED BY <1>1, <1>2, <1>3

LEMMA ReplayIngestHolds == IInv /\ (\E r \in Write : ReplayIngest(r)) => IInv'
<1> SUFFICES ASSUME IInv, NEW r \in Write, ReplayIngest(r) PROVE IInv'
  OBVIOUS
<1> USE NoneIsNoKernel DEF IInv
<1>1. /\ task.pc = "replay"
      /\ UNCHANGED <<enabled, runtime, kernel, inst, admin, counter, req, wal, done>>
      /\ stored \subseteq stored' /\ stored' \subseteq stored \cup {r}
      /\ \/ r \in stored' /\ task' = [task EXCEPT !.pc = "mark", !.cur = r]
         \/ task' = [task EXCEPT !.todo = @ \ {r}]
  BY DEF ReplayIngest
<1>2. \/ /\ r \in stored'
         /\ task' = [pc |-> "mark", k |-> task.k, todo |-> task.todo, cur |-> r]
      \/ task' = [pc |-> "replay", k |-> task.k, todo |-> task.todo \ {r}, cur |-> task.cur]
  BY <1>1 DEF TypeOK
<1>3. task' \in [pc : TaskPc, k : Kernel \cup {None}, todo : SUBSET Write,
                 cur : Write \cup {None}]
  BY <1>2 DEF TypeOK
<1>4. TypeOK'
  BY <1>1, <1>3 DEF TypeOK
<1>5. FilesAgree' /\ RevivingAlone'
  BY <1>1, <1>2
<1>6. TaskOwns' /\ AdminOwns'
  BY <1>1, <1>2
<1> QED BY <1>4, <1>5, <1>6

LEMMA ReplayMarkHolds == IInv /\ ReplayMark => IInv'
<1> SUFFICES ASSUME IInv, ReplayMark PROVE IInv'
  OBVIOUS
<1> USE NoneIsNoKernel DEF IInv
<1>1. /\ task.pc = "mark" /\ task.cur \in Write /\ done' = done \cup {task.cur}
      /\ UNCHANGED <<enabled, runtime, kernel, inst, admin, loaded, req, wal, stored>>
  BY DEF ReplayMark
<1>2. count' \in Nat
  BY DEF ReplayMark, TypeOK
<1>3. task' = [pc |-> "replay", k |-> task.k, todo |-> task.todo \ {task.cur}, cur |-> None]
  BY DEF ReplayMark, TypeOK
<1>4. TypeOK'
  BY <1>1, <1>2, <1>3 DEF TypeOK
<1>5. FilesAgree' /\ RevivingAlone'
  BY <1>1, <1>3
<1>6. TaskOwns' /\ AdminOwns'
  BY <1>1, <1>3
<1> QED BY <1>4, <1>5, <1>6

LEMMA ReplayEndHolds == IInv /\ ReplayEnd => IInv'
<1> SUFFICES ASSUME IInv, ReplayEnd PROVE IInv'
  OBVIOUS
<1> USE NoneIsNoKernel DEF IInv, ReplayEnd
<1>1. TypeOK'
  BY DEF TypeOK
<1>2. FilesAgree' /\ RevivingAlone'
  BY DEF TypeOK
<1>3. TaskOwns' /\ AdminOwns'
  BY DEF TypeOK
<1> QED BY <1>1, <1>2, <1>3

LEMMA ReplayBreaksHolds == IInv /\ ReplayBreaks => IInv'
<1> SUFFICES ASSUME IInv, ReplayBreaks PROVE IInv'
  OBVIOUS
<1> USE NoneIsNoKernel DEF IInv, ReplayBreaks
<1>1. TypeOK'
  BY DEF TypeOK
<1>2. FilesAgree' /\ RevivingAlone'
  BY DEF TypeOK
<1>3. TaskOwns' /\ AdminOwns'
  BY DEF TypeOK
<1> QED BY <1>1, <1>2, <1>3

LEMMA BrokenHolds == IInv /\ Broken => IInv'
<1> SUFFICES ASSUME IInv, Broken PROVE IInv'
  OBVIOUS
<1> USE NoneIsNoKernel DEF IInv, Broken, Failed
<1>1. TypeOK'
  BY DEF TypeOK
<1>2. FilesAgree' /\ RevivingAlone'
  BY DEF TypeOK
<1>3. TaskOwns' /\ AdminOwns'
  BY DEF TypeOK
<1> QED BY <1>1, <1>2, <1>3

LEMMA UnwindHolds == IInv /\ Unwind => IInv'
<1> SUFFICES ASSUME IInv, Unwind PROVE IInv'
  OBVIOUS
<1> USE NoneIsNoKernel DEF IInv, Unwind, Unwound
<1>1. TypeOK'
  BY DEF TypeOK
<1>2. FilesAgree' /\ RevivingAlone'
  BY DEF TypeOK
<1>3. TaskOwns' /\ AdminOwns'
  BY DEF TypeOK
<1> QED BY <1>1, <1>2, <1>3

LEMMA TaskShutdownRaisesHolds == IInv /\ TaskShutdownRaises => IInv'
<1> SUFFICES ASSUME IInv, TaskShutdownRaises PROVE IInv'
  OBVIOUS
<1> USE NoneIsNoKernel DEF IInv, TaskShutdownRaises, ShutdownRaises
<1>1. TypeOK'
  BY DEF TypeOK
<1>2. FilesAgree' /\ RevivingAlone'
  BY DEF TypeOK
<1>3. TaskOwns' /\ AdminOwns'
  BY DEF TypeOK
<1> QED BY <1>1, <1>2, <1>3

\* A task that unwinds, written out.
LEMMA UnwindingTask ==
    ASSUME NEW k
    PROVE  [NoTask EXCEPT !.pc = "unwind", !.k = k]
              = [pc |-> "unwind", k |-> k, todo |-> {}, cur |-> None]
<1> DEFINE t == [NoTask EXCEPT !.pc = "unwind", !.k = k]
<1>1. t = [f \in {"pc", "k", "todo", "cur"} |-> t[f]]
  OBVIOUS
<1>2. t["pc"] = "unwind" /\ t["k"] = k /\ t["todo"] = {} /\ t["cur"] = None
  OBVIOUS
<1> HIDE DEF t
<1>3. t = [pc |-> "unwind", k |-> k, todo |-> {}, cur |-> None]
  BY <1>1, <1>2
<1> QED BY <1>3 DEF t

LEMMA BeginShutdownHolds ==
    ASSUME IInv, NEW op \in {"stop", "reload"}, BeginShutdown(op)
    PROVE  IInv'
<1> USE NoneIsNoKernel DEF IInv
<1>1. /\ admin = "idle" /\ admin' = op
      /\ UNCHANGED <<enabled, runtime, kernel, counter, req, wal, stored>>
      /\ done \subseteq done' /\ done' \subseteq stored
  BY DEF BeginShutdown, TypeOK
<1>2. \/ /\ task.pc \in Replaying \cup {"init"}
         /\ task' = [pc |-> "unwind", k |-> task.k, todo |-> {}, cur |-> None]
         /\ inst' = IF task.pc = "init" THEN [inst EXCEPT ![task.k] = "closed"] ELSE inst
      \/ task.pc = "breaking" /\ task' = task /\ inst' = inst
      \/ /\ task.pc = "breaking" /\ task' = NoTask
         /\ inst' = [inst EXCEPT ![task.k] = "open"]
      \/ /\ task.pc \in TaskPc \ (Replaying \cup {"init", "breaking"})
         /\ task' = NoTask /\ inst' = inst
  BY UnwindingTask DEF BeginShutdown, Cancelled, InstAfterCancel, TypeOK
<1>3. TypeOK'
  BY <1>1, <1>2 DEF TypeOK
<1>4. FilesAgree' /\ RevivingAlone'
  BY <1>1, <1>2 DEF TypeOK
<1>5. TaskOwns' /\ AdminOwns'
  BY <1>1, <1>2 DEF TypeOK
<1> QED BY <1>3, <1>4, <1>5

LEMMA BeginCloseHolds == IInv /\ BeginClose => IInv'
<1> SUFFICES ASSUME IInv, BeginClose PROVE IInv'
  OBVIOUS
<1> USE NoneIsNoKernel DEF IInv, BeginClose
<1>1. TypeOK'
  BY DEF TypeOK
<1>2. FilesAgree' /\ RevivingAlone'
  BY DEF TypeOK
<1>3. TaskOwns' /\ AdminOwns'
  BY DEF TypeOK
<1> QED BY <1>1, <1>2, <1>3

LEMMA EndShutdownHolds == IInv /\ EndShutdown => IInv'
<1> SUFFICES ASSUME IInv, EndShutdown PROVE IInv'
  OBVIOUS
<1> USE NoneIsNoKernel DEF IInv, EndShutdown, Stopped
<1>1. TypeOK'
  BY DEF TypeOK
<1>2. FilesAgree' /\ RevivingAlone'
  BY DEF TypeOK
<1>3. TaskOwns' /\ AdminOwns'
  BY DEF TypeOK
<1> QED BY <1>1, <1>2, <1>3

LEMMA AdminShutdownRaisesHolds == IInv /\ AdminShutdownRaises => IInv'
<1> SUFFICES ASSUME IInv, AdminShutdownRaises PROVE IInv'
  OBVIOUS
<1> USE NoneIsNoKernel DEF IInv, AdminShutdownRaises, ShutdownRaises
<1>1. TypeOK'
  BY DEF TypeOK
<1>2. FilesAgree' /\ RevivingAlone'
  BY DEF TypeOK
<1>3. TaskOwns' /\ AdminOwns'
  BY DEF TypeOK
<1> QED BY <1>1, <1>2, <1>3

LEMMA CrashHolds == IInv /\ Crash => IInv'
<1> SUFFICES ASSUME IInv, Crash PROVE IInv'
  OBVIOUS
<1> USE NoneIsNoKernel DEF IInv, Crash
<1>1. TypeOK'
  BY DEF TypeOK
<1>2. FilesAgree' /\ RevivingAlone'
  BY DEF TypeOK
<1>3. TaskOwns' /\ AdminOwns'
  BY DEF TypeOK
<1> QED BY <1>1, <1>2, <1>3

LEMMA InvokeHolds == IInv /\ (\E r \in Write : Invoke(r)) => IInv'
<1> SUFFICES ASSUME IInv, (\E r \in Write : Invoke(r)) PROVE IInv'
  OBVIOUS
<1> USE NoneIsNoKernel DEF IInv, Invoke, Answer, Unavailable, Goto
<1>1. TypeOK'
  BY DEF TypeOK
<1>2. FilesAgree' /\ RevivingAlone'
  BY DEF TypeOK
<1>3. TaskOwns' /\ AdminOwns'
  BY DEF TypeOK
<1> QED BY <1>1, <1>2, <1>3

LEMMA AppendHolds == IInv /\ (\E r \in Write : Append(r)) => IInv'
<1> SUFFICES ASSUME IInv, (\E r \in Write : Append(r)) PROVE IInv'
  OBVIOUS
<1> USE NoneIsNoKernel DEF IInv, Append, Goto
<1>1. TypeOK'
  BY DEF TypeOK
<1>2. FilesAgree' /\ RevivingAlone'
  BY DEF TypeOK
<1>3. TaskOwns' /\ AdminOwns'
  BY DEF TypeOK
<1> QED BY <1>1, <1>2, <1>3

LEMMA AcceptHolds == IInv /\ (\E r \in Write : Accept(r)) => IInv'
<1> SUFFICES ASSUME IInv, (\E r \in Write : Accept(r)) PROVE IInv'
  OBVIOUS
<1> USE NoneIsNoKernel DEF IInv, Accept, Answer
<1>1. TypeOK'
  BY DEF TypeOK
<1>2. FilesAgree' /\ RevivingAlone'
  BY DEF TypeOK
<1>3. TaskOwns' /\ AdminOwns'
  BY DEF TypeOK
<1> QED BY <1>1, <1>2, <1>3

LEMMA EnterHolds == IInv /\ (\E r \in Write : Enter(r)) => IInv'
<1> SUFFICES ASSUME IInv, (\E r \in Write : Enter(r)) PROVE IInv'
  OBVIOUS
<1> USE NoneIsNoKernel DEF IInv, Enter, GateFree, Goto, Answer
<1>1. TypeOK'
  BY DEF TypeOK
<1>2. FilesAgree' /\ RevivingAlone'
  BY DEF TypeOK
<1>3. TaskOwns' /\ AdminOwns'
  BY DEF TypeOK
<1> QED BY <1>1, <1>2, <1>3

LEMMA RevivedHolds == IInv /\ (\E r \in Write : Revived(r)) => IInv'
<1> SUFFICES ASSUME IInv, (\E r \in Write : Revived(r)) PROVE IInv'
  OBVIOUS
<1> USE NoneIsNoKernel DEF IInv, Revived, Goto, Answer
<1>1. TypeOK'
  BY DEF TypeOK
<1>2. FilesAgree' /\ RevivingAlone'
  BY DEF TypeOK
<1>3. TaskOwns' /\ AdminOwns'
  BY DEF TypeOK
<1> QED BY <1>1, <1>2, <1>3

LEMMA StoreHolds == IInv /\ (\E r \in Write : Store(r)) => IInv'
<1> SUFFICES ASSUME IInv, (\E r \in Write : Store(r)) PROVE IInv'
  OBVIOUS
<1> USE NoneIsNoKernel DEF IInv, Store, Answer
<1>1. TypeOK'
  BY DEF TypeOK
<1>2. FilesAgree' /\ RevivingAlone'
  BY DEF TypeOK
<1>3. TaskOwns' /\ AdminOwns'
  BY DEF TypeOK
<1> QED BY <1>1, <1>2, <1>3

LEMMA TimeoutHolds == IInv /\ (\E r \in Write : Timeout(r)) => IInv'
<1> SUFFICES ASSUME IInv, (\E r \in Write : Timeout(r)) PROVE IInv'
  OBVIOUS
<1> USE NoneIsNoKernel DEF IInv, Timeout
<1>1. TypeOK'
  BY DEF TypeOK
<1>2. FilesAgree' /\ RevivingAlone'
  BY DEF TypeOK
<1>3. TaskOwns' /\ AdminOwns'
  BY DEF TypeOK
<1> QED BY <1>1, <1>2, <1>3

LEMMA AskHolds == IInv /\ (\E r \in Write : Ask(r)) => IInv'
<1> SUFFICES ASSUME IInv, NEW r \in Write, Ask(r) PROVE IInv'
  OBVIOUS
<1> USE NoneIsNoKernel DEF IInv
<1>1. /\ req[r].pc = "asking" /\ ~Locked /\ UNCHANGED <<enabled, kernel, inst, admin, files>>
      /\ \E result \in {"queueing", "refused"} : req' = [req EXCEPT ![r] = At(result, None)]
  BY DEF Ask, EnsureStartup, Unavailable, Answer
<1>2. /\ runtime' \in {"stopped", "starting", "migrating", "ready", "failed"}
      /\ task' \in [pc : TaskPc, k : Kernel \cup {None}, todo : SUBSET Write,
                    cur : Write \cup {None}]
      /\ count' \in Nat /\ loaded' \in BOOLEAN
      /\ \/ task' = task /\ runtime' = runtime
         \/ task'.pc = "begin" /\ runtime' = "starting" /\ kernel = None
  BY <1>1, EnsureStartupHolds DEF TypeOK, Ask, EnsureStartup
<1>3. TypeOK'
  BY <1>1, <1>2 DEF TypeOK
<1>4. FilesAgree' /\ RevivingAlone'
  BY <1>1, <1>2 DEF TypeOK
<1>5. TaskOwns' /\ AdminOwns'
  BY <1>1, <1>2 DEF TypeOK
<1> QED BY <1>3, <1>4, <1>5

-----------------------------------------------------------------------------
\* Every step keeps the invariant: each of the lemmas above is about one action.
LEMMA NextHolds ==
    ASSUME IInv, [Next]_vars
    PROVE  IInv'
<1>1. CASE StartupStep
  BY <1>1, MigrateHolds, InitialisedHolds, ReadWalHolds, CountWalHolds, ReplayIngestHolds,
     ReplayMarkHolds, ReplayEndHolds, ReplayBreaksHolds, BrokenHolds, UnwindHolds,
     TaskShutdownRaisesHolds DEF StartupStep
<1>2. CASE \E r \in Write : RequestStep(r) \/ Timeout(r)
  BY <1>2, InvokeHolds, AskHolds, AppendHolds, AcceptHolds, EnterHolds, RevivedHolds,
     StoreHolds, TimeoutHolds DEF RequestStep
<1>3. CASE Start \/ (\E op \in {"stop", "reload"} : BeginShutdown(op)) \/ ShutdownStep \/ Crash
  BY <1>3, StartHolds, BeginShutdownHolds, BeginCloseHolds, EndShutdownHolds,
     AdminShutdownRaisesHolds, CrashHolds DEF ShutdownStep
<1>4. CASE UNCHANGED vars
  BY <1>4 DEF vars, IInv, TypeOK
<1> QED BY <1>1, <1>2, <1>3, <1>4 DEF Next

\* In every reachable state the files agree and the startup task, the administrator
\* and a revival own what they work on (_startup_kernel_task, stop, reload).
THEOREM Invariance == Spec => []IInv
BY InitHolds, NextHolds, PTL DEF Spec

\* A write that was answered "queued" is in the store or pending, whatever crashes,
\* is cancelled or fails (_enqueue_startup_write, _replay_startup_queue).
THEOREM QueuedKept == Spec => []QueuedNotForgotten
<1>1. IInv => QueuedNotForgotten
  BY DEF IInv, QueuedNotForgotten, Pending
<1> QED BY <1>1, Invariance, PTL

\* The runtime never says that it is initialising with nobody initialising it.
THEOREM InitialisingDriven == Spec => []InitialisingIsDriven
<1>1. IInv => InitialisingIsDriven
  BY DEF IInv, InitialisingIsDriven
<1> QED BY <1>1, Invariance, PTL

-----------------------------------------------------------------------------

\* The startup task publishes an open kernel, and closes it only under a lock.
LEMMA TaskServes ==
    ASSUME IInv, Served, StartupStep, ~TaskShutdownRaises
    PROVE  Served'
<1> USE NoneIsNoKernel DEF IInv, TypeOK, Served
<1>1. CASE Migrate
  BY <1>1 DEF Migrate, New, Failed
<1>2. CASE Initialised
  BY <1>2 DEF Initialised, Failed
<1>3. CASE ReadWal \/ CountWal \/ (\E r \in Write : ReplayIngest(r)) \/ ReplayMark \/ ReplayEnd
  BY <1>3 DEF ReadWal, CountWal, ReplayIngest, ReplayMark, ReplayEnd
<1>4. CASE ReplayBreaks
  BY <1>4 DEF ReplayBreaks
<1>5. CASE Broken
  BY <1>5 DEF Broken, Failed
<1>6. CASE Unwind
  BY <1>6 DEF Unwind, Unwound
<1> QED BY <1>1, <1>2, <1>3, <1>4, <1>5, <1>6 DEF StartupStep

\* A request initialises only a kernel that is closed.
LEMMA RequestServes ==
    ASSUME IInv, Served, NEW r \in Write, RequestStep(r) \/ Timeout(r)
    PROVE  Served'
<1> USE NoneIsNoKernel DEF IInv, TypeOK, Served
<1>1. CASE Ask(r)
  BY <1>1 DEF Ask, EnsureStartup
<1>2. CASE Invoke(r) \/ Append(r) \/ Accept(r) \/ Store(r)
  BY <1>2 DEF Invoke, Append, Accept, Store
<1>3. CASE Enter(r)
  BY <1>3 DEF Enter, GateFree
<1>4. CASE Revived(r)
  BY <1>4 DEF Revived
<1>5. CASE Timeout(r)
  BY <1>5 DEF Timeout
<1> QED BY <1>1, <1>2, <1>3, <1>4, <1>5 DEF RequestStep

\* A start, an administrator at work and a crash keep what a ready runtime promises.
LEMMA AdminServes ==
    ASSUME IInv, Served,
           \/ Start \/ (\E op \in {"stop", "reload"} : BeginShutdown(op))
           \/ BeginClose \/ EndShutdown \/ Crash
    PROVE  Served'
<1> USE NoneIsNoKernel DEF IInv, TypeOK, Served
<1>1. CASE Start
  BY <1>1 DEF Start, EnsureStartup
<1>2. CASE \E op \in {"stop", "reload"} : BeginShutdown(op)
  BY <1>2 DEF BeginShutdown
<1>3. CASE BeginClose
  BY <1>3 DEF BeginClose
<1>4. CASE EndShutdown \/ Crash
  BY <1>4 DEF EndShutdown, Stopped, Crash
<1> QED BY <1>1, <1>2, <1>3, <1>4

\* Only a shutdown() that raises leaves the runtime ready without an open kernel.
THEOREM ReadyServed == Spec => ReadyIsServed
<1> DEFINE Step == Served => Served' \/ TaskShutdownRaises \/ AdminShutdownRaises
<1>1. IInv /\ [Next]_vars => [Step]_vars
  <2> SUFFICES ASSUME IInv, Next, Served, ~TaskShutdownRaises, ~AdminShutdownRaises
               PROVE  Served'
    OBVIOUS
  <2> QED BY TaskServes, RequestServes, AdminServes DEF Next, ShutdownStep
<1>2. Spec => [][Step]_vars
  BY <1>1, Invariance, PTL DEF Spec
<1> QED BY <1>2 DEF ReadyIsServed

-----------------------------------------------------------------------------
(* ProfileRefresh *)

AtWork(w) == work[w].at \in {"collect", "classify"}

\* No request came since w began.
InForce(w) == work[w].requested = row[work[w].person].requested

NotAhead ==
    \A w \in Worker : AtWork(w) => work[w].requested <= row[work[w].person].requested

ReadsAreCurrent ==
    \A w \in Worker :
        AtWork(w) /\ InForce(w) /\ work[w].person \notin changing =>
            LET e == evidence[work[w].person]
            IN  /\ work[w].at = "collect" => work[w].early = e
                /\ work[w].at = "classify" => work[w].from = Made(e, e)

ProfileInv == ProfileTypeOK /\ NotAhead /\ ReadsAreCurrent /\ DoneIsFresh

\* What a row and a job are made of.
LEMMA JobFields ==
    ASSUME ProfileTypeOK, NEW w \in Worker
    PROVE  /\ work[w].batch \in Batch
           /\ work[w].at \in {"idle", "collect", "classify"}
           /\ AtWork(w) => work[w].person \in Person /\ work[w].requested \in Nat
           /\ work[w].at = "collect" => work[w].early \in Evidence /\ work[w].base \in Snapshot
           /\ work[w].at = "classify" => work[w].from \in Evidence \X Evidence
BY DEF ProfileTypeOK, Job, AtWork

\* Requests, ends and claims keep the rows well formed.
LEMMA RequestedType ==
    ASSUME ProfileTypeOK, NEW p \in Person
    PROVE  /\ Requested(p) \in [Person -> Row]
           /\ Requested(p)[p].status = "pending"
           /\ Requested(p)[p].requested = row[p].requested + 1
           /\ \A q \in Person \ {p} : Requested(p)[q] = row[q]
           /\ \A q \in Person : Requested(p)[q].requested >= row[q].requested
BY DEF ProfileTypeOK, Row, Requested

\* What the end of a job does to the rows.
LEMMA DoneType ==
    ASSUME ProfileTypeOK, NEW w \in Worker, AtWork(w)
    PROVE  /\ Done(w) \in [Person -> Row]
           /\ \A q \in Person : Done(w)[q].requested = row[q].requested
           /\ \A q \in Person \ {work[w].person} : Done(w)[q] = row[q]
           /\ ~Queued(w) => Done(w) = row
           /\ Queued(w) => (Done(w)[work[w].person].status = "done" <=> ~Overtaken(w))
<1>1. work[w].person \in Person /\ work[w].requested \in Nat
  BY JobFields
<1> QED
  BY <1>1 DEF ProfileTypeOK, Row, Done

\* A new job of w is one its type allows.
LEMMA BegunType ==
    ASSUME ProfileTypeOK, NEW w \in Worker, NEW p \in Person
    PROVE  /\ Begun(w, p) \in Job
           /\ Begun(w, p).at = "collect" /\ Begun(w, p).person = p
           /\ Begun(w, p).requested = row[p].requested
           /\ Begun(w, p).early = evidence[p]
<1>1. work[w].batch \in Batch
  BY JobFields
<1>2. work[w].batch \ {b \in work[w].batch : b[1] = p} \in Batch
  BY <1>1 DEF Batch
<1>3. /\ row[p].requested \in Nat
      /\ snap[p] \in Snapshot /\ evidence[p] \in Evidence
  BY DEF ProfileTypeOK, Row
<1> QED
  BY <1>2, <1>3 DEF Begun, Job

\* A caller at rest.
LEMMA RestType ==
    ASSUME ProfileTypeOK, NEW w \in Worker
    PROVE  Rest(work[w].batch) \in Job /\ Rest(work[w].batch).at = "idle"
<1>1. work[w].batch \in Batch
  BY JobFields
<1> QED
  BY <1>1 DEF Rest, Job

\* The invariant of the queue of profiles at first.
THEOREM InitOK == ProfileInit => ProfileInv
<1> SUFFICES ASSUME ProfileInit PROVE ProfileInv
  OBVIOUS
<1>1. ProfileTypeOK
  BY DEF ProfileInit, ProfileTypeOK, Row, Snapshot, Job, Idle, Rest, Batch
<1>2. \A w \in Worker : ~AtWork(w)
  BY DEF ProfileInit, Idle, Rest, AtWork
<1>3. DoneIsFresh
  BY DEF ProfileInit, DoneIsFresh
<1> QED
  BY <1>1, <1>2, <1>3 DEF ProfileInv, NotAhead, ReadsAreCurrent

-----------------------------------------------------------------------------
(* Steps that leave the jobs alone and ask for nothing. *)

LEMMA ChangeOK ==
    ASSUME ProfileInv, NEW p \in Person, Change(p)
    PROVE  ProfileInv'
<1> USE DEF ProfileInv
<1>1. PICK e \in Evidence : evidence' = [evidence EXCEPT ![p] = e]
  BY DEF Change, Changes
<1>2. changing' = changing \cup {p} /\ UNCHANGED <<row, snap, work, unnoticed>>
  BY DEF Change
<1>3. ProfileTypeOK'
  BY <1>1, <1>2 DEF ProfileTypeOK
<1>4. NotAhead'
  BY <1>2 DEF NotAhead, AtWork
<1>5. \A q \in Person : q \notin changing' => evidence'[q] = evidence[q]
  BY <1>1, <1>2 DEF ProfileTypeOK
<1>6. ReadsAreCurrent'
  BY <1>2, <1>5, JobFields DEF ReadsAreCurrent, AtWork, InForce
<1>7. DoneIsFresh'
  BY <1>2, <1>5 DEF DoneIsFresh, Fresh
<1> QED
  BY <1>3, <1>4, <1>6, <1>7

\* A request overtakes everybody at work on its person.
LEMMA RequestOK ==
    ASSUME ProfileInv, NEW p \in Person,
           row' = Requested(p), work' = work, snap' = snap, unnoticed' = unnoticed,
           evidence' \in [Person -> Evidence], changing' \subseteq Person,
           \A q \in Person \ {p} : evidence'[q] = evidence[q] /\ (q \in changing' <=> q \in changing)
    PROVE  ProfileInv'
<1> USE DEF ProfileInv
<1>1. ProfileTypeOK'
  BY RequestedType DEF ProfileTypeOK
<1>2. NotAhead'
  <2> SUFFICES ASSUME NEW w \in Worker, AtWork(w)
               PROVE  work[w].requested <= row'[work[w].person].requested
    BY DEF NotAhead, AtWork
  <2>1. work[w].person \in Person /\ work[w].requested \in Nat
    BY JobFields
  <2>2. work[w].requested <= row[work[w].person].requested
    BY DEF NotAhead
  <2>3. row[work[w].person].requested \in Nat /\ row'[work[w].person].requested \in Nat
    BY <2>1, RequestedType DEF ProfileTypeOK, Row
  <2> QED
    BY <2>1, <2>2, <2>3, RequestedType
<1>3. ReadsAreCurrent'
  <2> SUFFICES ASSUME NEW w \in Worker, AtWork(w),
                      work[w].requested = row'[work[w].person].requested,
                      work[w].person \notin changing'
               PROVE  /\ work[w].at = "collect" => work[w].early = evidence'[work[w].person]
                      /\ work[w].at = "classify" =>
                            work[w].from = Made(evidence'[work[w].person], evidence'[work[w].person])
    BY DEF ReadsAreCurrent, AtWork, InForce, Made
  <2>1. work[w].person \in Person /\ work[w].requested \in Nat
    BY JobFields
  <2>2. work[w].person # p
    <3> SUFFICES ASSUME work[w].person = p PROVE FALSE
      OBVIOUS
    <3>1. row'[p].requested = row[p].requested + 1 /\ row[p].requested \in Nat
      BY RequestedType DEF ProfileTypeOK, Row
    <3>2. work[w].requested <= row[p].requested
      BY DEF NotAhead
    <3> QED
      BY <2>1, <3>1, <3>2
  <2>3. InForce(w) /\ work[w].person \notin changing
    BY <2>1, <2>2, RequestedType DEF InForce
  <2>4. evidence'[work[w].person] = evidence[work[w].person]
    BY <2>1, <2>2
  <2> QED
    BY <2>3, <2>4 DEF ReadsAreCurrent
<1>4. DoneIsFresh'
  BY RequestedType DEF DoneIsFresh, Fresh
<1> QED
  BY <1>1, <1>2, <1>3, <1>4

LEMMA EnqueueOK ==
    ASSUME ProfileInv, NEW p \in Person, Enqueue(p)
    PROVE  ProfileInv'
<1>1. evidence' \in [Person -> Evidence] /\ changing' \subseteq Person
  BY DEF Enqueue, ProfileInv, ProfileTypeOK
<1> QED
  BY <1>1, RequestOK DEF Enqueue

LEMMA ChangeAndEnqueueOK ==
    ASSUME ProfileInv, NEW p \in Person, ChangeAndEnqueue(p)
    PROVE  ProfileInv'
<1>1. PICK e \in Evidence : evidence' = [evidence EXCEPT ![p] = e]
  BY DEF ChangeAndEnqueue, Changes
<1>2. /\ evidence' \in [Person -> Evidence] /\ changing' \subseteq Person
      /\ \A q \in Person \ {p} : evidence'[q] = evidence[q]
  BY <1>1 DEF ChangeAndEnqueue, ProfileInv, ProfileTypeOK
<1> QED
  BY <1>2, RequestOK DEF ChangeAndEnqueue

-----------------------------------------------------------------------------
(* Steps of one caller. *)

\* What every step of a caller w that keeps the evidence has to show.
LEMMA WorkerStep ==
    ASSUME ProfileInv, NEW w \in Worker, NEW job \in Job,
           UNCHANGED <<evidence, changing>>,
           work' = [work EXCEPT ![w] = job],
           row' \in [Person -> Row], snap' \in [Person -> Snapshot], unnoticed' \subseteq Person,
           \A q \in Person : row'[q].requested = row[q].requested,
           job.at # "idle" =>
              /\ job.person \in Person
              /\ job.requested <= row[job.person].requested
              /\ job.requested = row[job.person].requested /\ job.person \notin changing =>
                    /\ job.at = "collect" => job.early = evidence[job.person]
                    /\ job.at = "classify" =>
                          job.from = Made(evidence[job.person], evidence[job.person]),
           DoneIsFresh'
    PROVE  ProfileInv'
<1> USE DEF ProfileInv
<1>0. work'[w] = job /\ \A v \in Worker \ {w} : work'[v] = work[v]
  BY DEF ProfileTypeOK
<1>1. ProfileTypeOK'
  BY DEF ProfileTypeOK
<1>2. \A v \in Worker : AtWork(v) => work[v].person \in Person
  BY JobFields
<1>3. NotAhead'
  <2> SUFFICES ASSUME NEW v \in Worker, work'[v].at \in {"collect", "classify"}
               PROVE  work'[v].requested <= row'[work'[v].person].requested
    BY DEF NotAhead, AtWork
  <2>1. CASE v = w
    BY <1>0, <2>1
  <2>2. CASE v # w
    BY <1>0, <1>2, <2>2 DEF NotAhead, AtWork
  <2> QED
    BY <2>1, <2>2
<1>4. ReadsAreCurrent'
  <2> SUFFICES ASSUME NEW v \in Worker, work'[v].at \in {"collect", "classify"},
                      work'[v].requested = row'[work'[v].person].requested,
                      work'[v].person \notin changing
               PROVE  /\ work'[v].at = "collect" => work'[v].early = evidence[work'[v].person]
                      /\ work'[v].at = "classify" =>
                            work'[v].from = Made(evidence[work'[v].person], evidence[work'[v].person])
    BY DEF ReadsAreCurrent, AtWork, InForce, Made
  <2>1. CASE v = w
    BY <1>0, <2>1
  <2>2. CASE v # w
    BY <1>0, <1>2, <2>2 DEF ReadsAreCurrent, AtWork, InForce
  <2> QED
    BY <2>1, <2>2
<1> QED
  BY <1>1, <1>3, <1>4

LEMMA FetchOK ==
    ASSUME ProfileInv, NEW w \in Loop, Fetch(w)
    PROVE  ProfileInv'
<1> USE DEF ProfileInv
<1>1. w \in Worker
  BY DEF Worker
<1>2. PICK S \in SUBSET Person :
         work' = [work EXCEPT ![w] = Rest({<<p, row[p].requested>> : p \in S})]
  BY DEF Fetch
<1> DEFINE B == {<<p, row[p].requested>> : p \in S}
<1>3. B \in Batch
  BY DEF ProfileTypeOK, Row, Batch
<1>4. Rest(B) \in Job /\ Rest(B).at = "idle"
  BY <1>3 DEF Job, Rest
<1>6. DoneIsFresh'
  BY DEF Fetch, DoneIsFresh, Fresh
<1>7. /\ row' = row /\ snap' = snap /\ unnoticed' = unnoticed
      /\ UNCHANGED <<evidence, changing>>
  BY DEF Fetch
<1>8. row \in [Person -> Row] /\ snap \in [Person -> Snapshot] /\ unnoticed \subseteq Person
  BY DEF ProfileTypeOK
<1> HIDE DEF ProfileInv
<1> QED
  BY <1>1, <1>2, <1>4, <1>6, <1>7, <1>8, WorkerStep

LEMMA ClaimOK ==
    ASSUME ProfileInv, NEW w \in Loop, Claim(w)
    PROVE  ProfileInv'
<1> USE DEF ProfileInv
<1>1. w \in Worker
  BY DEF Worker
<1>2. PICK b \in work[w].batch :
          IF row[b[1]].status \in {"pending", "failed"} /\ row[b[1]].requested = b[2]
          THEN /\ row' = [row EXCEPT ![b[1]].status = "running"]
               /\ work' = [work EXCEPT ![w] = Begun(w, b[1])]
          ELSE /\ work' = [work EXCEPT ![w] = Rest(@.batch \ {b})]
               /\ UNCHANGED row
  BY DEF Claim
<1>3. UNCHANGED <<evidence, changing, snap, unnoticed>> /\ work[w].at = "idle"
  BY DEF Claim
<1>4. b[1] \in Person /\ work[w].batch \in Batch
  BY <1>1, JobFields DEF Batch
<1>5. row \in [Person -> Row] /\ snap \in [Person -> Snapshot] /\ unnoticed \subseteq Person
  BY DEF ProfileTypeOK
<1>6. CASE /\ row' = [row EXCEPT ![b[1]].status = "running"]
           /\ work' = [work EXCEPT ![w] = Begun(w, b[1])]
  <2>1. row' \in [Person -> Row] /\ \A q \in Person : row'[q].requested = row[q].requested
    BY <1>4, <1>5, <1>6 DEF Row
  <2>2. \A q \in Person : row'[q].status = "done" => row[q].status = "done"
    BY <1>4, <1>5, <1>6 DEF Row
  <2>3. DoneIsFresh'
    BY <1>3, <2>2 DEF DoneIsFresh, Fresh
  <2>4. /\ Begun(w, b[1]) \in Job /\ Begun(w, b[1]).person \in Person
        /\ Begun(w, b[1]).requested <= row[b[1]].requested
        /\ Begun(w, b[1]).person = b[1] /\ Begun(w, b[1]).at = "collect"
        /\ Begun(w, b[1]).early = evidence[b[1]]
    BY <1>1, <1>4, <1>5, BegunType DEF Row
  <2> HIDE DEF ProfileInv
  <2> QED
    BY <1>1, <1>3, <1>5, <1>6, <2>1, <2>3, <2>4, WorkerStep
<1>7. CASE /\ work' = [work EXCEPT ![w] = Rest(@.batch \ {b})]
           /\ UNCHANGED row
  <2>1. Rest(work[w].batch \ {b}) \in Job /\ Rest(work[w].batch \ {b}).at = "idle"
    BY <1>4 DEF Job, Batch, Rest
  <2>2. work' = [work EXCEPT ![w] = Rest(work[w].batch \ {b})]
    BY <1>7
  <2>3. DoneIsFresh'
    BY <1>3, <1>7 DEF DoneIsFresh, Fresh
  <2> HIDE DEF ProfileInv
  <2> QED
    BY <1>1, <1>3, <1>5, <1>7, <2>1, <2>2, <2>3, WorkerStep
<1> QED
  BY <1>2, <1>6, <1>7

LEMMA ReadOK ==
    ASSUME ProfileInv, NEW w \in Reader, NEW p \in Person, Read(w, p)
    PROVE  ProfileInv'
<1> USE DEF ProfileInv
<1>1. w \in Worker
  BY DEF Worker
<1>2. /\ work' = [work EXCEPT ![w] = Begun(w, p)]
      /\ UNCHANGED <<evidence, changing, row, snap, unnoticed>>
  BY DEF Read
<1>3. /\ row \in [Person -> Row] /\ snap \in [Person -> Snapshot] /\ unnoticed \subseteq Person
      /\ row[p].requested \in Nat
  BY DEF ProfileTypeOK, Row
<1>4. DoneIsFresh'
  BY <1>2 DEF DoneIsFresh, Fresh
<1> HIDE DEF ProfileInv
<1>5. ProfileTypeOK
  BY DEF ProfileInv
<1>6. /\ Begun(w, p) \in Job /\ Begun(w, p).person = p /\ Begun(w, p).at = "collect"
      /\ Begun(w, p).requested = row[p].requested /\ Begun(w, p).early = evidence[p]
  BY <1>1, <1>5, BegunType
<1>7. row[p].requested <= row[p].requested
  BY <1>3
<1> QED
  BY <1>1, <1>2, <1>3, <1>4, <1>6, <1>7, WorkerStep

\* A loop that ends its row as done has read what is known now.
LEMMA DoneHasRead ==
    ASSUME ProfileInv, NEW w \in Worker, AtWork(w), ~Overtaken(w), work[w].person \notin changing
    PROVE  /\ work[w].at = "collect" => work[w].early = evidence[work[w].person]
           /\ work[w].at = "classify" =>
                 work[w].from = Made(evidence[work[w].person], evidence[work[w].person])
<1>1. work[w].person \in Person /\ work[w].requested \in Nat
  BY JobFields DEF ProfileInv
<1>2. row[work[w].person].requested \in Nat
  BY <1>1 DEF ProfileInv, ProfileTypeOK, Row
<1>3. work[w].requested <= row[work[w].person].requested
  BY DEF ProfileInv, NotAhead
<1>4. InForce(w)
  BY <1>1, <1>2, <1>3 DEF Overtaken, InForce
<1> QED
  BY <1>4 DEF ProfileInv, ReadsAreCurrent

LEMMA CollectOK ==
    ASSUME ProfileInv, NEW w \in Worker, Collect(w)
    PROVE  ProfileInv'
<1> DEFINE p == work[w].person
           from == Made(work[w].early, evidence[p])
<1>1. ProfileTypeOK /\ DoneIsFresh /\ AtWork(w) /\ work[w].at = "collect"
  BY DEF ProfileInv, Collect, AtWork
<1>2. /\ p \in Person /\ work[w].requested \in Nat /\ work[w].early \in Evidence
      /\ work[w].batch \in Batch
  BY <1>1, JobFields
<1>3. UNCHANGED <<evidence, changing, snap>>
  BY DEF Collect
<1>4. /\ row \in [Person -> Row] /\ snap \in [Person -> Snapshot] /\ unnoticed \subseteq Person
      /\ evidence[p] \in Evidence
  BY <1>1, <1>2 DEF ProfileTypeOK
<1>5. CASE work[w].base.from = from
  <2>1. /\ row' = Done(w) /\ work' = [work EXCEPT ![w] = Rest(work[w].batch)]
        /\ unnoticed' = IF ~Queued(w) THEN unnoticed
                        ELSE IF work[w].base = snap[p] THEN unnoticed \ {p}
                             ELSE unnoticed \cup {p}
    BY <1>5 DEF Collect
  <2>2. row' \in [Person -> Row] /\ \A q \in Person : row'[q].requested = row[q].requested
    BY <1>1, <2>1, DoneType
  <2>3. unnoticed' \subseteq Person
    BY <1>2, <1>4, <2>1
  <2>4. DoneIsFresh'
    <3> SUFFICES ASSUME NEW q \in Person, row'[q].status = "done", q \notin changing,
                        q \notin unnoticed'
                 PROVE  snap[q].from = Made(evidence[q], evidence[q])
      BY <1>3 DEF DoneIsFresh, Fresh
    <3>1. CASE q # p \/ ~Queued(w)
      <4>1. row'[q] = row[q] /\ q \notin unnoticed
        BY <1>1, <2>1, <3>1, DoneType
      <4> QED
        BY <1>1, <4>1 DEF DoneIsFresh, Fresh
    <3>2. CASE q = p /\ Queued(w)
      <4>1. ~Overtaken(w)
        BY <1>1, <2>1, <3>2, DoneType
      <4>2. work[w].early = evidence[p]
        BY <1>1, <3>2, <4>1, DoneHasRead
      <4>3. work[w].base = snap[p]
        BY <2>1, <3>2
      <4> QED
        BY <1>5, <3>2, <4>2, <4>3
    <3> QED
      BY <3>1, <3>2
  <2>5. Rest(work[w].batch) \in Job /\ Rest(work[w].batch).at = "idle"
    BY <1>1, RestType
  <2> QED
    BY <1>3, <1>4, <2>1, <2>2, <2>3, <2>4, <2>5, WorkerStep
<1>6. CASE work[w].base.from # from
  <2> DEFINE job == [at |-> "classify", batch |-> work[w].batch, person |-> p,
                     requested |-> work[w].requested, from |-> from]
  <2>1. work' = [work EXCEPT ![w] = job] /\ UNCHANGED <<row, unnoticed>>
    BY <1>6 DEF Collect
  <2>2. job \in Job
    BY <1>2, <1>4 DEF Job, Made
  <2>3. DoneIsFresh'
    BY <1>1, <1>3, <2>1 DEF DoneIsFresh, Fresh
  <2>4. work[w].requested <= row[p].requested
    BY <1>1 DEF ProfileInv, NotAhead
  <2>5. work[w].requested = row[p].requested /\ p \notin changing =>
           from = Made(evidence[p], evidence[p])
    BY <1>1 DEF ProfileInv, ReadsAreCurrent, InForce
  <2>6. \A q \in Person : row'[q].requested = row[q].requested
    BY <2>1
  <2>7. /\ job.person = p /\ job.requested = work[w].requested /\ job.at = "classify"
        /\ job.from = from
    OBVIOUS
  <2> HIDE DEF job, from, p
  <2> QED
    BY <1>2, <1>3, <1>4, <2>1, <2>2, <2>3, <2>4, <2>5, <2>6, <2>7, WorkerStep
<1> QED
  BY <1>5, <1>6

LEMMA SaveOK ==
    ASSUME ProfileInv, NEW w \in Worker, Save(w)
    PROVE  ProfileInv'
<1> DEFINE p == work[w].person
<1>1. ProfileTypeOK /\ DoneIsFresh /\ AtWork(w) /\ work[w].at = "classify"
  BY DEF ProfileInv, Save, AtWork
<1>2. p \in Person /\ work[w].from \in Evidence \X Evidence
  BY <1>1, JobFields
<1>3. /\ snap' = [snap EXCEPT ![p] = [no |-> @.no + 1, from |-> work[w].from]]
      /\ unnoticed' = (IF Queued(w) THEN unnoticed \ {p} ELSE unnoticed \cup {p})
      /\ row' = Done(w) /\ work' = [work EXCEPT ![w] = Rest(work[w].batch)]
      /\ UNCHANGED <<evidence, changing>>
  BY DEF Save
<1>4. row' \in [Person -> Row] /\ \A q \in Person : row'[q].requested = row[q].requested
  BY <1>1, <1>3, DoneType
<1>5. /\ snap' \in [Person -> Snapshot] /\ unnoticed' \subseteq Person
      /\ snap'[p].from = work[w].from /\ \A q \in Person \ {p} : snap'[q] = snap[q]
  BY <1>1, <1>2, <1>3 DEF ProfileTypeOK, Snapshot
<1>6. DoneIsFresh'
  <2> SUFFICES ASSUME NEW q \in Person, row'[q].status = "done", q \notin changing,
                      q \notin unnoticed'
               PROVE  snap'[q].from = Made(evidence[q], evidence[q])
    BY <1>3 DEF DoneIsFresh, Fresh
  <2>1. CASE q # p
    <3>1. row'[q] = row[q] /\ q \notin unnoticed /\ snap'[q] = snap[q]
      BY <1>1, <1>3, <1>5, <2>1, DoneType
    <3> QED
      BY <1>1, <3>1 DEF DoneIsFresh, Fresh
  <2>2. CASE q = p
    <3>1. Queued(w)
      BY <1>3, <2>2
    <3>2. ~Overtaken(w)
      BY <1>1, <1>3, <2>2, <3>1, DoneType
    <3> QED
      BY <1>1, <1>5, <2>2, <3>2, DoneHasRead
  <2> QED
    BY <2>1, <2>2
<1>7. Rest(work[w].batch) \in Job /\ Rest(work[w].batch).at = "idle"
  BY <1>1, RestType
<1> QED
  BY <1>3, <1>4, <1>5, <1>6, <1>7, WorkerStep

LEMMA FailOK ==
    ASSUME ProfileInv, NEW w \in Worker, Fail(w)
    PROVE  ProfileInv'
<1> DEFINE p == work[w].person
<1>1. ProfileTypeOK /\ DoneIsFresh /\ AtWork(w)
  BY DEF ProfileInv, Fail, AtWork
<1>2. p \in Person
  BY <1>1, JobFields
<1>3. /\ row' = MarkedFailed(w) /\ work' = [work EXCEPT ![w] = Rest(work[w].batch)]
      /\ UNCHANGED <<evidence, changing, snap, unnoticed>>
  BY DEF Fail
<1>4. row \in [Person -> Row] /\ snap \in [Person -> Snapshot] /\ unnoticed \subseteq Person
  BY <1>1 DEF ProfileTypeOK
<1>5. /\ row' \in [Person -> Row]
      /\ \A q \in Person : /\ row'[q].requested = row[q].requested
                           /\ row'[q].status = "done" => row[q].status = "done"
  <2>1. CASE ~Queued(w)
    BY <1>3, <1>4, <2>1 DEF MarkedFailed
  <2>2. CASE Queued(w) /\ Overtaken(w)
    <3>1. row' = [row EXCEPT ![p].status = "pending", ![p].retries = row[p].retries]
      BY <1>3, <2>2 DEF MarkedFailed
    <3> HIDE DEF p
    <3> QED
      BY <1>2, <1>4, <3>1 DEF Row
  <2>3. CASE Queued(w) /\ ~Overtaken(w)
    <3>1. row' = [row EXCEPT ![p].status = "failed", ![p].retries = row[p].retries + 1]
      BY <1>3, <2>3 DEF MarkedFailed
    <3> HIDE DEF p
    <3> QED
      BY <1>2, <1>4, <3>1 DEF Row
  <2> QED
    BY <2>1, <2>2, <2>3
<1>6. DoneIsFresh'
  BY <1>1, <1>3, <1>5 DEF DoneIsFresh, Fresh
<1>7. Rest(work[w].batch) \in Job /\ Rest(work[w].batch).at = "idle"
  BY <1>1, RestType
<1> QED
  BY <1>3, <1>4, <1>5, <1>6, <1>7, WorkerStep

LEMMA RestartOK ==
    ASSUME ProfileInv, Restart
    PROVE  ProfileInv'
<1> USE DEF ProfileInv
<1>1. /\ work' = [w \in Worker |-> Idle]
      /\ UNCHANGED <<evidence, changing, row, snap, unnoticed>>
  BY DEF Restart
<1>2. Idle \in Job
  BY DEF Idle, Rest, Job, Batch
<1>3. ProfileTypeOK'
  BY <1>1, <1>2 DEF ProfileTypeOK
<1>4. \A w \in Worker : ~AtWork(w)'
  BY <1>1 DEF AtWork, Idle, Rest
<1>5. DoneIsFresh'
  BY <1>1 DEF DoneIsFresh, Fresh
<1> QED
  BY <1>3, <1>4, <1>5 DEF NotAhead, ReadsAreCurrent

\* Every step keeps the invariant: each of the lemmas above is about one action.
THEOREM StepOK == ProfileInv /\ [ProfileNext]_profileVars => ProfileInv'
<1> SUFFICES ASSUME ProfileInv, [ProfileNext]_profileVars PROVE ProfileInv'
  OBVIOUS
<1>1. ASSUME NEW p \in Person, Change(p) \/ Enqueue(p) \/ ChangeAndEnqueue(p) PROVE ProfileInv'
  BY <1>1, ChangeOK, EnqueueOK, ChangeAndEnqueueOK
<1>2. ASSUME NEW w \in Loop, Fetch(w) \/ Claim(w) PROVE ProfileInv'
  BY <1>2, FetchOK, ClaimOK
<1>3. ASSUME NEW w \in Reader, NEW p \in Person, Read(w, p) PROVE ProfileInv'
  BY <1>3, ReadOK
<1>4. ASSUME NEW w \in Worker, Refresh(w) PROVE ProfileInv'
  BY <1>4, CollectOK, SaveOK, FailOK DEF Refresh
<1>5. CASE Restart
  BY <1>5, RestartOK
<1>6. CASE UNCHANGED profileVars
  BY <1>6 DEF profileVars, ProfileInv, ProfileTypeOK, NotAhead, ReadsAreCurrent, DoneIsFresh, Fresh, AtWork, InForce
<1> QED
  BY <1>1, <1>2, <1>3, <1>4, <1>5, <1>6 DEF ProfileNext

\* The invariant holds of every behaviour, whatever the bounds.
THEOREM ProfileInvariance == ProfileSpec => []ProfileInv
BY InitOK, StepOK, PTL DEF ProfileSpec

\* Rows, snapshots and callers have their types in every reachable state.
THEOREM TypeCorrect == ProfileSpec => []ProfileTypeOK
<1>1. ProfileInv => ProfileTypeOK
  BY DEF ProfileInv
<1> QED
  BY ProfileInvariance, <1>1, PTL

\* A row that the loops ended as done shows a profile of what is known now
\* (mark_person_profile_refresh_done), for any number of loops and readers.
THEOREM RefreshedIsFresh == ProfileSpec => []DoneIsFresh
<1>1. ProfileInv => DoneIsFresh
  BY DEF ProfileInv
<1> QED
  BY ProfileInvariance, <1>1, PTL
===============================================================================
