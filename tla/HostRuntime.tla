------------------------------ MODULE HostRuntime ------------------------------
(***************************************************************************)
(* The host of the memory kernel (host_service.py): it starts a kernel in  *)
(* the background, routes requests to it, queues the writes that arrive    *)
(* before it is ready in a write-ahead file, replays that file, and shuts  *)
(* the kernel down on reload and stop (runtime_lifecycle_service.py).      *)
(*                                                                         *)
(* Everything is one asyncio loop: an action is what runs between two      *)
(* awaits.  The three actors are the startup task, an administrator        *)
(* (start, reload, stop) and one task per request.  The process may crash  *)
(* anywhere; the three files and the kernel's store survive.               *)
(*                                                                         *)
(* Only ingests are modelled as requests: the others are routed alike, and *)
(* are refused where an ingest is queued.                                  *)
(***************************************************************************)
EXTENDS Naturals, FiniteSets

CONSTANTS
    Write,      \* ingest requests, each sent once
    Kernel,     \* kernel objects
    None,
    Settings,   \* the values plugin.enabled may take
    Faults      \* what may raise: "init", "ingest", "replay", "shutdown"

ASSUME WriteAssumption == IsFiniteSet(Write)

ASSUME FaultsAssumption ==
    /\ Settings \in (SUBSET BOOLEAN) \ {{}}
    /\ Faults \subseteq {"init", "ingest", "replay", "shutdown"}
    /\ None \notin Kernel \cup Write

VARIABLES
    enabled,    \* plugin.enabled in the cached configuration
    runtime,    \* _runtime_state
    kernel,     \* _kernel: the published kernel
    inst,       \* inst[k]: whether kernel k is initialised, or on the way
    task,       \* the startup task
    admin,      \* what the administrator is doing
    count,      \* _startup_queue_pending_count
    loaded,     \* _startup_queue_cache_loaded
    req,        \* req[r]: where write r is, and the kernel it was routed to
    wal,        \* startup_write_queue.jsonl
    done,       \* startup_write_queue.done.jsonl
    stored      \* the writes in the kernel's store

files == <<wal, done, stored>>
counter == <<count, loaded>>
vars == <<enabled, runtime, kernel, inst, task, admin, counter, req, files>>

\* What a request is awaiting, and in which kernel.
At(pc, k) == [pc |-> pc, k |-> k]

NoTask == [pc |-> "none", k |-> None, todo |-> {}, cur |-> None]

Init ==
    /\ enabled \in Settings
    /\ runtime = "stopped"
    /\ kernel = None
    /\ inst = [k \in Kernel |-> "closed"]
    /\ task = NoTask
    /\ admin = "boot"
    /\ count = 0 /\ loaded = FALSE
    /\ req = [r \in Write |-> At("new", None)]
    /\ wal = {} /\ done = {} /\ stored = {}

\* _startup_queue_pending_records.  Replay order is immaterial here.
Pending == wal \ done

Initialising == {"starting", "migrating"}

\* _lock is held across an await by _shutdown_locked only.
Locked == admin \in {"stop", "reload", "stopping", "reloading"}

\* _runtime_initialization_lock of k.
GateFree(k) == inst[k] \in {"closed", "open"}

\* The file lock on the data directory: whoever is not closed holds it.
WriterFree(k) == \A j \in Kernel \ {k} : inst[j] = "closed"

-----------------------------------------------------------------------------
\* _ensure_startup_task: load the pending count once, then start the task
\* unless the runtime is ready or the task runs.

EnsureStartup ==
    /\ ~Locked
    /\ loaded' = TRUE
    /\ count' = IF loaded THEN count ELSE Cardinality(Pending)
    /\ IF (kernel # None /\ runtime = "ready") \/ task.pc # "none"
       THEN UNCHANGED <<runtime, task>>
       ELSE /\ runtime' = "starting"
            /\ task' = [NoTask EXCEPT !.pc = "begin"]

\* start(), and the second half of reload().
Start ==
    /\ admin \in {"boot", "restart"}
    /\ admin' = "idle"
    /\ IF enabled THEN EnsureStartup
       ELSE UNCHANGED <<runtime, task, counter>>
    /\ UNCHANGED <<enabled, kernel, inst, req, files>>

-----------------------------------------------------------------------------
\* The startup task

\* A kernel object nobody refers to.
New(k) ==
    /\ inst[k] = "closed" /\ kernel # k
    /\ \A r \in Write : req[r].k # k

\* The end of a task whose error path has taken _lock.
Failed ==
    /\ kernel' = None
    /\ runtime' = "failed"
    /\ task' = NoTask

\* Mutant: a disabled runtime ends the task and leaves the state as it is.
MigrateQuietly ==
    /\ task.pc = "begin"
    /\ \/ /\ ~enabled
          /\ task' = NoTask
          /\ UNCHANGED <<runtime, kernel, inst>>
       \/ \E k \in Kernel :
          /\ enabled /\ New(k) /\ WriterFree(k)
          /\ runtime' = "migrating"
          /\ inst' = [inst EXCEPT ![k] = "initialising"]
          /\ task' = [task EXCEPT !.pc = "init", !.k = k]
          /\ UNCHANGED kernel
       \/ /\ enabled
          /\ \E k \in Kernel : inst[k] # "closed"
          /\ Failed
          /\ UNCHANGED inst
    /\ UNCHANGED <<enabled, admin, counter, req, files>>

\* The task builds a kernel; initialize() takes the writer lock or raises.
Migrate ==
    /\ task.pc = "begin"
    /\ \/ /\ ~enabled
          /\ runtime' = "stopped"
          /\ task' = NoTask
          /\ UNCHANGED <<kernel, inst>>
       \/ \E k \in Kernel :
          /\ enabled /\ New(k) /\ WriterFree(k)
          /\ runtime' = "migrating"
          /\ inst' = [inst EXCEPT ![k] = "initialising"]
          /\ task' = [task EXCEPT !.pc = "init", !.k = k]
          /\ UNCHANGED kernel
       \/ /\ enabled
          /\ \E k \in Kernel : inst[k] # "closed"
          /\ Failed
          /\ UNCHANGED inst
    /\ UNCHANGED <<enabled, admin, counter, req, files>>

\* initialize() returns and the kernel is published, or it raises and has
\* discarded what it built.
Initialised ==
    /\ task.pc = "init"
    /\ \/ /\ inst' = [inst EXCEPT ![task.k] = "open"]
          /\ kernel' = task.k
          /\ runtime' = "ready"
          /\ task' = [task EXCEPT !.pc = "read"]
       \/ /\ "init" \in Faults
          /\ inst' = [inst EXCEPT ![task.k] = "closed"]
          /\ Failed
    /\ UNCHANGED <<enabled, admin, counter, req, files>>

\* A thread reads the file without _queue_lock; the task then resumes.
ReadWal ==
    /\ task.pc = "read"
    /\ task' = [task EXCEPT !.pc = "count", !.todo = Pending]
    /\ UNCHANGED <<enabled, runtime, kernel, inst, admin, counter, req, files>>

CountWal ==
    /\ task.pc = "count"
    /\ count' = Cardinality(task.todo) /\ loaded' = TRUE
    /\ task' = [task EXCEPT !.pc = "replay"]
    /\ UNCHANGED <<enabled, runtime, kernel, inst, admin, req, files>>

\* Mutant: a record that failed to replay is marked done as well.
ReplayIngestMarksAll(r) ==
    /\ task.pc = "replay" /\ r \in task.todo
    /\ \/ stored' = stored \cup {r}
       \/ "ingest" \in Faults /\ UNCHANGED stored
    /\ task' = [task EXCEPT !.pc = "mark", !.cur = r]
    /\ UNCHANGED <<enabled, runtime, kernel, inst, admin, counter, req, wal, done>>

\* Replay one record.  A failure goes to the failed log, which nobody reads:
\* the record stays pending until the next replay.
ReplayIngest(r) ==
    /\ task.pc = "replay" /\ r \in task.todo
    /\ \/ /\ stored' = stored \cup {r}
          /\ task' = [task EXCEPT !.pc = "mark", !.cur = r]
       \/ /\ "ingest" \in Faults
          /\ task' = [task EXCEPT !.todo = @ \ {r}]
          /\ UNCHANGED stored
    /\ UNCHANGED <<enabled, runtime, kernel, inst, admin, counter, req, wal, done>>

ReplayMark ==
    /\ task.pc = "mark"
    /\ done' = done \cup {task.cur}
    /\ count' = IF count = 0 THEN 0 ELSE count - 1
    /\ task' = [task EXCEPT !.pc = "replay", !.todo = @ \ {task.cur}, !.cur = None]
    /\ UNCHANGED <<enabled, runtime, kernel, inst, admin, loaded, req, wal, stored>>

ReplayEnd ==
    /\ task.pc = "replay" /\ task.todo = {}
    /\ task' = NoTask
    /\ UNCHANGED <<enabled, runtime, kernel, inst, admin, counter, req, files>>

\* Reading the file or appending to the failed log raises: the error path shuts
\* the kernel down.
ReplayBreaks ==
    /\ "replay" \in Faults
    /\ task.pc \in {"read", "replay", "mark"}
    /\ inst' = [inst EXCEPT ![task.k] = "closing"]
    /\ task' = [NoTask EXCEPT !.pc = "breaking", !.k = task.k]
    /\ UNCHANGED <<enabled, runtime, kernel, admin, counter, req, files>>

\* The error path then needs _lock to say that the start has failed.  If it is
\* held, it is held by a stop or reload that awaits this very task.
Broken ==
    /\ task.pc = "breaking"
    /\ inst' = [inst EXCEPT ![task.k] = "closed"]
    /\ \/ ~Locked /\ Failed
       \/ Locked /\ task' = [task EXCEPT !.pc = "fail"] /\ UNCHANGED <<kernel, runtime>>
    /\ UNCHANGED <<enabled, admin, counter, req, files>>

\* Mutant: the cancelled task takes _lock, as the failed one does.
UnwoundLocked ==
    /\ ~Locked
    /\ kernel' = IF kernel = task.k THEN None ELSE kernel
    /\ runtime' = "stopped"
    /\ task' = NoTask

\* The end of a cancelled task, which does not take _lock.
Unwound ==
    /\ kernel' = IF kernel = task.k THEN None ELSE kernel
    /\ runtime' = "stopped"
    /\ task' = NoTask

\* A cancelled task shuts its kernel down, if it was initialised.
Unwind ==
    /\ \/ /\ task.pc = "unwind" /\ inst[task.k] = "open"
          /\ inst' = [inst EXCEPT ![task.k] = "closing"]
          /\ task' = [task EXCEPT !.pc = "unwinding"]
          /\ UNCHANGED <<kernel, runtime>>
       \/ /\ task.pc = "unwind" /\ inst[task.k] = "closed"
          /\ Unwound
          /\ UNCHANGED inst
       \/ /\ task.pc = "unwinding"
          /\ inst' = [inst EXCEPT ![task.k] = "closed"]
          /\ Unwound
    /\ UNCHANGED <<enabled, admin, counter, req, files>>

\* shutdown() of k raises with the stores left open (a task manager failed) or
\* closed (the final save failed).
ShutdownRaises(k) ==
    /\ "shutdown" \in Faults
    /\ \E left \in {"open", "closed"} : inst' = [inst EXCEPT ![k] = left]

\* It ends the task; when it unwinds a cancellation it also comes out of the
\* await in _shutdown_locked and ends the reload or stop.
TaskShutdownRaises ==
    /\ task.pc \in {"unwinding", "breaking"}
    /\ ShutdownRaises(task.k)
    /\ task' = NoTask
    /\ admin' = IF task.pc = "unwinding" THEN "idle" ELSE admin
    /\ UNCHANGED <<enabled, runtime, kernel, counter, req, files>>

StartupStep ==
    \/ Migrate \/ Initialised \/ ReadWal \/ CountWal
    \/ \E r \in Write : ReplayIngest(r)
    \/ ReplayMark \/ ReplayEnd
    \/ ReplayBreaks \/ Broken
    \/ Unwind \/ TaskShutdownRaises

-----------------------------------------------------------------------------
\* Reload and stop: _shutdown_locked

\* Where a cancelled startup task goes.  A task that has not run yet just ends;
\* so does one that waits in its error path for a lock.  In the middle of
\* shutdown() the cancellation is swallowed by the await of a background task
\* (_stop_background_tasks), or it interrupts the shutdown of a task manager.
Cancelled(t) ==
    CASE t.pc \in {"init", "read", "count", "replay", "mark"} ->
             {[NoTask EXCEPT !.pc = "unwind", !.k = t.k]}
      [] t.pc = "breaking" -> {t, NoTask}
      [] OTHER -> {NoTask}

\* The kernel of a cancelled task: initialize() discards what it has built, an
\* interrupted shutdown() leaves the stores open.
InstAfterCancel(t) ==
    CASE task.pc = "init" -> [inst EXCEPT ![task.k] = "closed"]
      [] task.pc = "breaking" /\ t = NoTask -> [inst EXCEPT ![task.k] = "open"]
      [] OTHER -> inst

\* Take _lock and cancel the task.  A marker being appended by a thread is
\* written all the same.
BeginShutdown(op) ==
    /\ admin = "idle" /\ ~Locked
    /\ admin' = op
    /\ task' \in Cancelled(task)
    /\ inst' = InstAfterCancel(task')
    /\ done' \in IF task.pc = "mark" THEN {done, done \cup {task.cur}} ELSE {done}
    /\ UNCHANGED <<enabled, runtime, kernel, counter, req, wal, stored>>

\* The published kernel, if there is one, is shut down once the task has ended.
BeginClose ==
    /\ admin \in {"stop", "reload"}
    /\ task.pc = "none"
    /\ kernel # None /\ inst[kernel] = "open"
    /\ inst' = [inst EXCEPT ![kernel] = "closing"]
    /\ admin' = IF admin = "stop" THEN "stopping" ELSE "reloading"
    /\ UNCHANGED <<enabled, runtime, kernel, task, counter, req, files>>

\* Mutant: the runtime state is reset only when there was a kernel to close.
StoppedIfOpen ==
    /\ kernel' = None
    /\ runtime' = IF kernel = None THEN runtime ELSE "stopped"
    /\ \/ /\ admin \in {"stop", "stopping"}
          /\ admin' = "idle"
          /\ UNCHANGED enabled
       \/ /\ admin \in {"reload", "reloading"}
          /\ enabled' \in Settings
          /\ admin' = "restart"

\* Mutant: a reload leaves the runtime as it was for the start that follows.
StoppedUnlessReload ==
    /\ kernel' = None
    /\ runtime' = IF admin \in {"reload", "reloading"} THEN runtime ELSE "stopped"
    /\ \/ /\ admin \in {"stop", "stopping"}
          /\ admin' = "idle"
          /\ UNCHANGED enabled
       \/ /\ admin \in {"reload", "reloading"}
          /\ enabled' \in Settings
          /\ admin' = "restart"

\* Release _lock; reload() has read the configuration again.
Stopped ==
    /\ kernel' = None
    /\ runtime' = "stopped"
    /\ \/ /\ admin \in {"stop", "stopping"}
          /\ admin' = "idle"
          /\ UNCHANGED enabled
       \/ /\ admin \in {"reload", "reloading"}
          /\ enabled' \in Settings
          /\ admin' = "restart"

EndShutdown ==
    /\ \/ /\ admin \in {"stop", "reload"} /\ task.pc = "none"
          /\ kernel # None => inst[kernel] = "closed"
          /\ UNCHANGED inst
       \/ /\ admin \in {"stopping", "reloading"}
          /\ inst' = [inst EXCEPT ![kernel] = "closed"]
    /\ Stopped
    /\ UNCHANGED <<task, counter, req, files>>

\* shutdown() raises out of stop() or reload(): nothing after it runs.
AdminShutdownRaises ==
    /\ admin \in {"stopping", "reloading"}
    /\ ShutdownRaises(kernel)
    /\ admin' = "idle"
    /\ UNCHANGED <<enabled, runtime, kernel, task, counter, req, files>>

ShutdownStep == BeginClose \/ EndShutdown \/ AdminShutdownRaises

-----------------------------------------------------------------------------
\* Requests

Goto(r, pc) == req' = [req EXCEPT ![r].pc = pc]

Answer(r, result) == req' = [req EXCEPT ![r] = At(result, None)]

\* _unavailable_response
Unavailable(r, state) ==
    Answer(r, IF state \in Initialising THEN "queueing" ELSE "refused")

\* _invoke, up to its first await.
Invoke(r) ==
    /\ req[r].pc = "new"
    /\ IF ~enabled THEN Answer(r, "refused")
       ELSE IF kernel # None /\ runtime = "ready"
            THEN req' = [req EXCEPT ![r] = At("entering", kernel)]
       ELSE IF runtime = "stopped" THEN Goto(r, "asking")
       ELSE Unavailable(r, runtime)
    /\ UNCHANGED <<enabled, runtime, kernel, inst, task, admin, counter, files>>

\* A request that found the runtime stopped starts it.
Ask(r) ==
    /\ req[r].pc = "asking"
    /\ EnsureStartup
    /\ Unavailable(r, runtime')
    /\ UNCHANGED <<enabled, kernel, inst, admin, files>>

\* _enqueue_startup_write: a thread appends the record, then the loop counts it
\* and the caller is told that the write is queued.
Append(r) ==
    /\ req[r].pc = "queueing"
    /\ wal' = wal \cup {r}
    /\ Goto(r, "appended")
    /\ UNCHANGED <<enabled, runtime, kernel, inst, task, admin, counter, done, stored>>

Accept(r) ==
    /\ req[r].pc = "appended"
    /\ count' = count + 1
    /\ Answer(r, "queued")
    /\ UNCHANGED <<enabled, runtime, kernel, inst, task, admin, loaded, files>>

\* Every operation of a kernel first awaits initialize(), which passes at once
\* through an initialised kernel and initialises any other.
Enter(r) ==
    LET k == req[r].k IN
    /\ req[r].pc = "entering" /\ GateFree(k)
    /\ \/ /\ inst[k] = "open"
          /\ Goto(r, "writing")
          /\ UNCHANGED inst
       \/ /\ inst[k] = "closed" /\ WriterFree(k)
          /\ inst' = [inst EXCEPT ![k] = "initialising"]
          /\ Goto(r, "reviving")
       \/ /\ inst[k] = "closed" /\ ~WriterFree(k)
          /\ Answer(r, "refused")
          /\ UNCHANGED inst
    /\ UNCHANGED <<enabled, runtime, kernel, task, admin, counter, files>>

Revived(r) ==
    /\ req[r].pc = "reviving"
    /\ \/ /\ inst' = [inst EXCEPT ![req[r].k] = "open"]
          /\ Goto(r, "writing")
       \/ /\ "init" \in Faults
          /\ inst' = [inst EXCEPT ![req[r].k] = "closed"]
          /\ Answer(r, "refused")
    /\ UNCHANGED <<enabled, runtime, kernel, task, admin, counter, files>>

\* The ingest, idempotent by external_id; it fails if the kernel's stores have
\* been closed under it.
Store(r) ==
    /\ req[r].pc = "writing"
    /\ IF inst[req[r].k] \in {"open", "closing"}
       THEN stored' = stored \cup {r} /\ Answer(r, "stored")
       ELSE UNCHANGED stored /\ Answer(r, "refused")
    /\ UNCHANGED <<enabled, runtime, kernel, inst, task, admin, counter, wal, done>>

RequestStep(r) ==
    \/ Invoke(r) \/ Ask(r) \/ Append(r) \/ Accept(r)
    \/ Enter(r) \/ Revived(r) \/ Store(r)

InFlight == {"asking", "queueing", "appended", "entering", "reviving", "writing"}

\* timeout_ms cancels the request; what its thread or the kernel was doing may
\* or may not have happened.
Timeout(r) ==
    /\ req[r].pc \in InFlight
    /\ req' = [req EXCEPT ![r] = At("gone", None)]
    /\ wal' \in IF req[r].pc = "queueing" THEN {wal, wal \cup {r}} ELSE {wal}
    /\ inst' = IF req[r].pc = "reviving"
               THEN [inst EXCEPT ![req[r].k] = "closed"] ELSE inst
    /\ UNCHANGED <<enabled, runtime, kernel, task, admin, counter, done, stored>>

-----------------------------------------------------------------------------
\* The process dies and is started again.
Crash ==
    /\ enabled' \in Settings
    /\ runtime' = "stopped"
    /\ kernel' = None
    /\ inst' = [k \in Kernel |-> "closed"]
    /\ task' = NoTask
    /\ admin' = "boot"
    /\ count' = 0 /\ loaded' = FALSE
    /\ req' = [r \in Write |-> IF req[r].pc \in InFlight
                               THEN At("gone", None) ELSE req[r]]
    /\ UNCHANGED files

Next ==
    \/ Start
    \/ StartupStep
    \/ \E op \in {"stop", "reload"} : BeginShutdown(op)
    \/ ShutdownStep
    \/ \E r \in Write : RequestStep(r) \/ Timeout(r)
    \/ Crash

Spec == Init /\ [][Next]_vars

\* Every await comes to an end, except for a lock that is never released; a
\* request waits for _lock in a FIFO, hence its strong fairness.  Nobody has to
\* send requests, stop the host, time out or crash.
Fairness ==
    /\ WF_vars(Start)
    /\ WF_vars(StartupStep)
    /\ WF_vars(ShutdownStep)
    /\ \A r \in Write : SF_vars(RequestStep(r) /\ req[r].pc # "new")

FairSpec == Spec /\ Fairness

-----------------------------------------------------------------------------
\* Properties

TaskPc == {"none", "begin", "init", "read", "count", "replay", "mark",
           "unwind", "unwinding", "breaking", "fail"}

\* Every variable keeps its type; a startup task past its first step has a
\* kernel, and a request routed to a kernel remembers which.
TypeOK ==
    /\ enabled \in Settings
    /\ runtime \in {"stopped", "starting", "migrating", "ready", "failed"}
    /\ kernel \in Kernel \cup {None}
    /\ inst \in [Kernel -> {"closed", "initialising", "open", "closing"}]
    /\ task \in [pc : TaskPc, k : Kernel \cup {None}, todo : SUBSET Write,
                 cur : Write \cup {None}]
    /\ task.pc \notin {"none", "begin"} => task.k \in Kernel
    /\ admin \in {"boot", "idle", "stop", "reload", "stopping", "reloading", "restart"}
    /\ count \in Nat /\ loaded \in BOOLEAN
    /\ req \in [Write -> [pc : InFlight \cup {"new", "queued", "stored", "refused", "gone"},
                          k : Kernel \cup {None}]]
    /\ \A r \in Write : req[r].pc \in {"entering", "reviving", "writing"} =>
            req[r].k \in Kernel
    /\ wal \subseteq Write /\ done \subseteq Write /\ stored \subseteq Write

\* A write that was answered "queued" is in the store or will be replayed by
\* the next start, whatever crashed or was cancelled in between: no record is
\* marked done before it is stored.
QueuedNotForgotten ==
    \A r \in Write : req[r].pc = "queued" => r \in stored \/ r \in Pending

\* The runtime never says it is initialising with nobody initialising it:
\* requests would be queued for ever.  All of its state has its type.
InitialisingIsDriven ==
    /\ TypeOK
    /\ runtime \in Initialising => task.pc # "none" \/ Locked

\* The runtime does not say it is ready with no kernel published, or with one
\* that is closed, except while a stop or reload is under way.
Served ==
    runtime = "ready" =>
        /\ kernel # None
        /\ inst[kernel] \in {"closed", "initialising"} => Locked

\* However the host is started, stopped, reloaded, cancelled and fails to
\* replay its queue: only a shutdown() that raises leaves it calling itself
\* ready without an open kernel.
ReadyIsServed ==
    [][Served => Served' \/ TaskShutdownRaises \/ AdminShutdownRaises]_vars

\* Two kernels never hold the data directory, and one that holds it belongs to
\* the host: it is published, being started, or being shut down.
OpenIsOwned ==
    \A k \in Kernel : inst[k] # "closed" => kernel = k \/ task.k = k

\* A stop or reload has cancelled the startup task inside the shutdown() of its
\* error path, and the cancellation was swallowed there: each waits for the other.
Swallowed == Locked /\ task.pc \in {"breaking", "fail"}

\* Unless that happens, a start comes to an end, so does a reload or a stop that
\* waits for it, and every request is answered.
EverythingEnds ==
    []~Swallowed =>
        /\ runtime \in Initialising ~> runtime \notin Initialising
        /\ Locked ~> ~Locked
        /\ \A r \in Write : req[r].pc \in InFlight ~> req[r].pc \notin InFlight
=============================================================================
