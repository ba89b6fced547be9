---------------------------- MODULE EpisodeRebuild ----------------------------
(***************************************************************************)
(* The rebuild queue that keeps the episodes of every paragraph source up  *)
(* to date: table episode_rebuild_sources (core/storage/                   *)
(* metadata_episode.py) and the workers that drain it                      *)
(* (process_episode_source_rebuild_batch in                                *)
(* core/runtime/services/ingest_service.py).                               *)
(*                                                                         *)
(* A change of a source raises desired_revision in the transaction of the  *)
(* change.  A worker claims a row under a lease (token, revision,          *)
(* generation), reads the source, waits for the language model, and        *)
(* publishes by compare-and-swap.  Workers are asyncio tasks: the          *)
(* background loop and admin calls.  A worker may be cancelled and the     *)
(* process may restart between any two steps; rows survive.                *)
(*                                                                         *)
(* Every *_at and *_until column of a row is modelled by the time left     *)
(* until it (0: passed), which Tick decrements.                            *)
(***************************************************************************)
EXTENDS Naturals

CONSTANTS
    Source,         \* paragraph sources
    Worker,         \* tasks that process batches
    Token,          \* lease tokens (uuid4)
    Generation,     \* generation_hash values
    Materialised,   \* Materialised[g]: sources the policy of g builds episodes for
    Empty,          \* the snapshot of a source with no episodes
    None,           \* SQL NULL
    Lease,          \* lease_seconds
    Debounce,       \* debounce_seconds of an ordinary change
    MaxWait,        \* max_wait_seconds of the background loop
    MaxRetry,       \* max_retry
    Backoff,        \* Backoff[n]: delay after a failure that follows n others
    BatchLimit,     \* limit of an unscoped batch
    MaxRevision     \* bound on desired_revision

ASSUME BoundsAssumption ==
    /\ Lease \in Nat \ {0}
    /\ Debounce \in Nat
    /\ MaxWait \in Nat
    /\ MaxRetry \in Nat \ {0}
    /\ Backoff \in [0 .. MaxRetry - 1 -> Nat]
    /\ BatchLimit \in Nat \ {0}
    /\ MaxRevision \in Nat

ASSUME ValuesAssumption ==
    /\ Materialised \in [Generation -> SUBSET Source]
    /\ None \notin [token : Token, rev : Nat, gen : Generation]
    /\ None \notin [rev : Nat, gen : Generation]
    /\ None \notin Generation
    /\ Empty \notin Nat

VARIABLES
    content,        \* content[s]: version of the live paragraphs of s
    episodes,       \* episodes[s]: the version the published episodes were cut from
    generation,     \* the settings in force
    queue,          \* queue[s]: the row of s (desired = 0: no row)
    worker          \* worker[w]: the batch w is processing

vars == <<content, episodes, generation, queue, worker>>

View(s, g) == IF s \in Materialised[g] THEN content[s] ELSE Empty

Claim == [token : Token, rev : Nat, gen : Generation]
Attempt == [rev : Nat, gen : Generation]

-----------------------------------------------------------------------------
\* Rows and workers

NoRow ==
    [status |-> "none", desired |-> 0, built |-> 0, builtGen |-> None,
     claim |-> None, lease |-> 0, due |-> 0, age |-> 0,
     retry |-> 0, tried |-> None, backoff |-> 0]

Idle ==
    [pc |-> "idle", gen |-> None, scope |-> {}, scoped |-> FALSE,
     urgent |-> FALSE, quota |-> 0, src |-> None, claim |-> None,
     plan |-> Empty, beating |-> FALSE]

Init ==
    /\ content = [s \in Source |-> 0]
    /\ episodes = [s \in Source |-> Empty]
    /\ generation \in Generation
    /\ queue = [s \in Source |-> NoRow]
    /\ worker = [w \in Worker |-> Idle]

-----------------------------------------------------------------------------
\* Producers

\* Mutant: a row that is already dirty is not raised again.
RequestedOnce(row, delay) ==
    [row EXCEPT !.status = IF row.claim # None /\ row.lease > 0
                           THEN "running" ELSE "pending",
                !.desired = IF row.desired <= row.built THEN @ + 1 ELSE @,
                !.age = IF row.desired <= row.built THEN 0 ELSE @,
                !.due = delay,
                !.retry = 0, !.tried = None, !.backoff = 0]

\* The row after one more request, ready once delay has passed.
Requested(row, delay) ==
    [row EXCEPT !.status = IF row.claim # None /\ row.lease > 0
                           THEN "running" ELSE "pending",
                !.desired = @ + 1,
                !.age = IF row.desired <= row.built THEN 0 ELSE @,
                !.due = delay,
                !.retry = 0, !.tried = None, !.backoff = 0]

\* A transaction that adds, edits, links, deletes or revives paragraphs of s.
ChangeSource(s) ==
    /\ queue[s].desired < MaxRevision
    /\ content' = [content EXCEPT ![s] = @ + 1]
    /\ queue' = [queue EXCEPT ![s] = Requested(@, Debounce)]
    /\ UNCHANGED <<episodes, generation, worker>>

-----------------------------------------------------------------------------
\* A batch

\* The background loop (urgent = FALSE) or the admin action process_sources.
StartBatch(w, urgent) ==
    /\ worker[w].pc = "idle"
    /\ worker' = [worker EXCEPT ![w] =
           [Idle EXCEPT !.pc = "batch", !.gen = generation, !.scope = Source,
                        !.urgent = urgent, !.quota = BatchLimit]]
    /\ UNCHANGED <<content, episodes, generation, queue>>

\* Admin rebuild: request every source in S without debounce, then process
\* exactly those, each at most once.
StartRebuild(w, S) ==
    /\ worker[w].pc = "idle"
    /\ \A s \in S : queue[s].desired < MaxRevision
    /\ queue' = [s \in Source |->
                    IF s \in S THEN Requested(queue[s], 0) ELSE queue[s]]
    /\ worker' = [worker EXCEPT ![w] =
           [Idle EXCEPT !.pc = "batch", !.gen = generation, !.scope = S,
                        !.scoped = TRUE, !.urgent = TRUE]]
    /\ UNCHANGED <<content, episodes, generation>>

SameAttempt(row, g) == row.tried # None /\ row.tried = [rev |-> row.desired, gen |-> g]

\* The WHERE clause of the claim: dirty, unleased, retry budget left, backoff
\* over, debounced or requested long enough ago.
Claimable(s, g, urgent) ==
    LET row == queue[s] IN
    /\ row.desired > 0
    /\ row.desired > row.built \/ row.builtGen # g
    /\ SameAttempt(row, g) => row.retry < MaxRetry /\ row.backoff = 0
    /\ row.claim = None \/ row.lease = 0
    /\ row.due = 0 \/ row.age >= (IF urgent THEN 0 ELSE MaxWait)

Unused(t) ==
    /\ \A s \in Source : queue[s].claim # None => queue[s].claim.token # t
    /\ \A w \in Worker : worker[w].claim # None => worker[w].claim.token # t

\* Fresh tokens (uuid4) are all alike: take any one of them.
FreshToken(t) == Unused(t) /\ t = CHOOSE u \in Token : Unused(u)

\* Mutant: the claim is for the revision after the built one.
ClaimedNextBuilt(row, g, t) ==
    [row EXCEPT !.status = "running",
                !.claim = [token |-> t, rev |-> row.built + 1, gen |-> g],
                !.lease = Lease,
                !.retry = IF SameAttempt(row, g) THEN @ ELSE 0,
                !.backoff = IF SameAttempt(row, g) THEN @ ELSE 0,
                !.tried = [rev |-> row.desired, gen |-> g]]

Claimed(row, g, t) ==
    [row EXCEPT !.status = "running",
                !.claim = [token |-> t, rev |-> row.desired, gen |-> g],
                !.lease = Lease,
                !.retry = IF SameAttempt(row, g) THEN @ ELSE 0,
                !.backoff = IF SameAttempt(row, g) THEN @ ELSE 0,
                !.tried = [rev |-> row.desired, gen |-> g]]

WithClaim(batch, s, claim) ==
    [batch EXCEPT !.pc = "claimed", !.src = s, !.claim = claim,
                  !.quota = IF batch.scoped THEN @ ELSE @ - 1,
                  !.scope = IF batch.scoped THEN @ \ {s} ELSE @]

\* One claim of the batch, committed in its own transaction.  The code claims the
\* oldest request first; any order is allowed here.
ClaimNext(w, s, t) ==
    /\ worker[w].pc = "batch"
    /\ worker[w].scoped \/ worker[w].quota > 0
    /\ s \in worker[w].scope
    /\ Claimable(s, worker[w].gen, worker[w].urgent)
    /\ FreshToken(t)
    /\ queue' = [queue EXCEPT ![s] = Claimed(@, worker[w].gen, t)]
    /\ worker' = [worker EXCEPT ![w] = WithClaim(@, s, queue'[s].claim)]
    /\ UNCHANGED <<content, episodes, generation>>

WithPlan(batch, plan) ==
    [batch EXCEPT !.pc = "planning", !.plan = plan, !.beating = TRUE]

\* plan_source_rebuild reads the live paragraphs, then waits for the model;
\* the heartbeat task starts with it.
ReadSource(w) ==
    /\ worker[w].pc = "claimed"
    /\ worker' = [worker EXCEPT ![w] =
           WithPlan(@, View(worker[w].src, worker[w].gen))]
    /\ UNCHANGED <<content, episodes, generation, queue>>

\* Mutant: some lease is on the row, whoever holds it.
HoldsSomeLease(w) ==
    /\ queue[worker[w].src].claim # None
    /\ queue[worker[w].src].lease > 0

HoldsLease(w) ==
    /\ queue[worker[w].src].claim = worker[w].claim
    /\ queue[worker[w].src].lease > 0

\* Mutant: the revision is not compared.
UnchangedUnchecked(w) == TRUE

Unchanged(w) == queue[worker[w].src].desired = worker[w].claim.rev

\* The heartbeat renews the lease, or ends when the lease is lost or the
\* revision is superseded.
Heartbeat(w) ==
    /\ worker[w].pc = "planning"
    /\ worker[w].beating
    /\ LET s == worker[w].src IN
       \/ /\ HoldsLease(w) /\ Unchanged(w)
          /\ queue' = [queue EXCEPT ![s] = [@ EXCEPT !.lease = Lease]]
          /\ UNCHANGED worker
       \/ /\ ~(HoldsLease(w) /\ Unchanged(w))
          /\ worker' = [worker EXCEPT ![w] = [@ EXCEPT !.beating = FALSE]]
          /\ UNCHANGED queue
    /\ UNCHANGED <<content, episodes, generation>>

\* The worker forgets its claim and goes on with its batch.
Dropped(batch) ==
    [batch EXCEPT !.pc = "batch", !.src = None, !.claim = None,
                  !.plan = Empty, !.beating = FALSE]

\* Mutant: built_generation_hash is not written.
PublishedNoGeneration(row) ==
    [row EXCEPT !.status = "done", !.built = row.claim.rev,
                !.claim = None, !.lease = 0,
                !.due = 0, !.age = 0,
                !.retry = 0, !.tried = None, !.backoff = 0]

\* publish_episode_source_rebuild: replace the snapshot and finish the row, or
\* hand a superseded row back, or, the lease lost, touch nothing.
Published(row) ==
    [row EXCEPT !.status = "done", !.built = row.claim.rev,
                !.builtGen = row.claim.gen, !.claim = None, !.lease = 0,
                !.due = 0, !.age = 0,
                !.retry = 0, !.tried = None, !.backoff = 0]

\* Mutant: the superseded row keeps its status.
ReleasedRunning(row) ==
    [row EXCEPT !.claim = None, !.lease = 0]

Released(row) ==
    [row EXCEPT !.status = "pending", !.claim = None, !.lease = 0]

Publish(w) ==
    /\ worker[w].pc = "planning"
    /\ LET s == worker[w].src IN
       \/ /\ HoldsLease(w) /\ Unchanged(w)
          /\ episodes' = [episodes EXCEPT ![s] = worker[w].plan]
          /\ queue' = [queue EXCEPT ![s] = Published(@)]
       \/ /\ HoldsLease(w) /\ ~Unchanged(w)
          /\ queue' = [queue EXCEPT ![s] = Released(@)]
          /\ UNCHANGED episodes
       \/ /\ ~HoldsLease(w)
          /\ UNCHANGED <<queue, episodes>>
    /\ worker' = [worker EXCEPT ![w] = Dropped(@)]
    /\ UNCHANGED <<content, generation>>

\* Planning or publishing raised: give the row back with one failure more,
\* unless a newer revision is already wanted.
Failed(row) ==
    IF row.desired > row.claim.rev
    THEN [row EXCEPT !.status = "pending", !.claim = None, !.lease = 0,
                     !.retry = 0, !.tried = None, !.backoff = 0]
    ELSE [row EXCEPT !.status = "failed", !.claim = None, !.lease = 0,
                     !.retry = @ + 1, !.backoff = Backoff[row.retry]]

Fail(w) ==
    /\ worker[w].pc = "planning"
    /\ queue' = IF HoldsLease(w)
                THEN [queue EXCEPT ![worker[w].src] = Failed(@)] ELSE queue
    /\ worker' = [worker EXCEPT ![w] = Dropped(@)]
    /\ UNCHANGED <<content, episodes, generation>>

EndBatch(w) ==
    /\ worker[w].pc = "batch"
    /\ \/ ~worker[w].scoped /\ worker[w].quota = 0
       \/ \A s \in worker[w].scope :
              ~Claimable(s, worker[w].gen, worker[w].urgent)
    /\ worker' = [worker EXCEPT ![w] = Idle]
    /\ UNCHANGED <<content, episodes, generation, queue>>

-----------------------------------------------------------------------------
\* The environment

\* A timeout or a shutdown cancels the task while it waits for the model;
\* CancelledError skips both the publish and the failure, so the row keeps its
\* lease.
Cancel(w) ==
    /\ worker[w].pc = "planning"
    /\ worker' = [worker EXCEPT ![w] = Idle]
    /\ UNCHANGED <<content, episodes, generation, queue>>

\* The process stops or crashes and comes back, perhaps with other settings.
Restart ==
    /\ worker' = [w \in Worker |-> Idle]
    /\ generation' \in Generation
    /\ UNCHANGED <<content, episodes, queue>>

Less(n) == IF n = 0 THEN 0 ELSE n - 1

Later(row) ==
    [row EXCEPT !.lease = Less(@), !.due = Less(@), !.backoff = Less(@),
                !.age = IF row.desired > row.built /\ @ < MaxWait THEN @ + 1 ELSE @]

\* A heartbeat is about to be too late for the lease it renews.
HeartbeatDue ==
    \E w \in Worker :
        /\ worker[w].pc \in {"claimed", "planning"}
        /\ HoldsLease(w) /\ Unchanged(w)
        /\ queue[worker[w].src].lease = 1

Tick ==
    /\ queue' = [s \in Source |-> Later(queue[s])]
    /\ UNCHANGED <<content, episodes, generation, worker>>

-----------------------------------------------------------------------------
Claims(w) == \E s \in Source, t \in Token : ClaimNext(w, s, t)

Step(w) ==
    \/ \E urgent \in BOOLEAN : StartBatch(w, urgent)
    \/ \E S \in (SUBSET Source) \ {{}} : StartRebuild(w, S)
    \/ Claims(w)
    \/ ReadSource(w)
    \/ Heartbeat(w)
    \/ Publish(w)
    \/ Fail(w)
    \/ EndBatch(w)
    \/ Cancel(w)

Next ==
    \/ \E s \in Source : ChangeSource(s)
    \/ \E w \in Worker : Step(w)
    \/ Restart
    \/ Tick

Spec == Init /\ [][Next]_vars

\* The background loop polls for ever and every planned batch comes to an end;
\* nothing obliges producers, administrators, timeouts or restarts to happen.
Fairness ==
    /\ WF_vars(Tick)
    /\ \A w \in Worker :
        /\ WF_vars(StartBatch(w, FALSE))
        /\ WF_vars(Claims(w))
        /\ WF_vars(ReadSource(w))
        /\ WF_vars(Publish(w) \/ Fail(w))
        /\ WF_vars(EndBatch(w))
        /\ WF_vars(Heartbeat(w))

FairSpec == Spec /\ Fairness

-----------------------------------------------------------------------------
\* Properties

Status == {"none", "pending", "running", "done", "failed"}

Row == [status : Status, desired : Nat, built : Nat,
        builtGen : Generation \cup {None},
        claim : Claim \cup {None}, lease : 0 .. Lease, due : Nat, age : Nat,
        retry : 0 .. MaxRetry, tried : Attempt \cup {None}, backoff : Nat]

Batch == [pc : {"idle", "batch", "claimed", "planning"},
          gen : Generation \cup {None}, scope : SUBSET Source,
          scoped : BOOLEAN, urgent : BOOLEAN, quota : 0 .. BatchLimit,
          src : Source \cup {None}, claim : Claim \cup {None},
          plan : Nat \cup {Empty}, beating : BOOLEAN]

\* Every variable keeps its type; the retry counter of a row stays within the
\* retry budget, and a worker with work in hand has a source and a claim.
TypeOK ==
    /\ content \in [Source -> Nat]
    /\ episodes \in [Source -> Nat \cup {Empty}]
    /\ generation \in Generation
    /\ queue \in [Source -> Row]
    /\ worker \in [Worker -> Batch]
    /\ \A w \in Worker : worker[w].pc \in {"claimed", "planning"} =>
            worker[w].src \in Source /\ worker[w].claim \in Claim

Fresh(s) ==
    (queue[s].desired > 0 /\ queue[s].desired = queue[s].built)
        => episodes[s] = View(s, queue[s].builtGen)

\* A row with nothing left to build tells the truth: its episodes were cut from
\* the paragraphs the source holds now, under the generation recorded as built.
\* No change of a source is ever lost between the worker that read it and the
\* row that says "done".
CleanMeansFresh == \A s \in Source : Fresh(s)

Truthful(row) ==
    /\ row.status = "done" => row.claim = None /\ row.desired = row.built
    /\ row.status = "failed" =>
           /\ row.claim = None /\ row.retry > 0
           /\ row.tried # None /\ row.tried.rev = row.desired
    /\ row.status = "pending" => row.desired > row.built
    /\ row.status = "running" => row.claim # None

\* What the admin status listing shows agrees with what the queue will do: a
\* "done" row is built and unclaimed, a "failed" one unclaimed and charged with
\* a failure of the revision still wanted, a "pending" one still has a revision
\* to build, a "running" one has a claim.
StatusTruthful == \A s \in Source : Truthful(queue[s])

Ordered(row) ==
    /\ row.built <= row.desired
    /\ row.claim # None =>
           /\ row.built <= row.claim.rev /\ row.claim.rev <= row.desired
           /\ row.retry < MaxRetry
           /\ row.claim.rev = row.desired =>
                  row.tried = [rev |-> row.desired, gen |-> row.claim.gen]

\* No revision is built or claimed before it is wanted; a claim is only held
\* with retry budget left, and is newer than what is built and charged to the
\* revision still wanted, if any.
RevisionsOrdered == \A s \in Source : Ordered(queue[s])

\* No published snapshot is newer than its source.
EpisodesBounded ==
    \A s \in Source : episodes[s] # Empty => episodes[s] <= content[s]

Current(w) ==
    LET b == worker[w] IN
    /\ b.pc # "idle" => b.gen = generation
    /\ b.pc \in {"claimed", "planning"} => b.claim.gen = generation
    /\ (/\ b.pc = "planning"
        /\ queue[b.src].claim = b.claim
        /\ queue[b.src].desired = b.claim.rev)
          => b.plan = View(b.src, generation)

\* A worker works for the settings in force, and the plan it holds is still a
\* snapshot of the source for as long as its claim is on the row and the
\* claimed revision is the wanted one.
PlansCurrent == \A w \in Worker : Current(w)

\* The inductive invariant.
IInv ==
    /\ TypeOK
    /\ RevisionsOrdered
    /\ EpisodesBounded
    /\ PlansCurrent
    /\ CleanMeansFresh
    /\ StatusTruthful

\* Readers never see a source go back in time: a worker that comes back late
\* with an old plan cannot overwrite newer episodes.
EpisodesNeverGoBack ==
    [][\A s \in Source : episodes[s] # Empty /\ episodes'[s] # Empty
                            => episodes'[s] >= episodes[s]]_vars

\* While a lease lasts, only the worker it was given to takes the claim off the
\* row, by publishing, failing or handing it back.
LiveClaimRespected ==
    [][\A s \in Source :
         (/\ queue[s].claim # None /\ queue[s].lease > 0
          /\ queue'[s].claim # queue[s].claim)
            => \E w \in Worker : /\ worker[w].claim = queue[s].claim
                                 /\ worker[w].src = s
                                 /\ worker'[w].claim = None]_vars

\* Every publish is a snapshot of the source as it is at that instant, under
\* the settings in force at that instant: with the queue and the workers hidden
\* the system is EpisodeView.
Visible == INSTANCE EpisodeView WITH
    Source <- Source, Generation <- Generation, Materialised <- Materialised, Empty <- Empty,
    content <- content, episodes <- episodes, generation <- generation
ImplementsEpisodeView == Visible!Spec

\* The retry budget of the wanted revision is used up under the settings g.
Exhausted(s, g) == SameAttempt(queue[s], g) /\ queue[s].retry >= MaxRetry

UpToDate(s) == queue[s].desired = 0
               \/ (queue[s].desired = queue[s].built /\ queue[s].builtGen = generation)

Settled == \A s \in Source : UpToDate(s) \/ Exhausted(s, generation)

\* A batch is cut short, a heartbeat is late, or the settings change.
Interruption ==
    \/ generation' # generation
    \/ Tick /\ HeartbeatDue
    \/ \E w \in Worker : /\ worker[w].pc # "idle" /\ worker'[w].pc = "idle"
                         /\ ~EndBatch(w)

\* Once restarts, cancellations and late heartbeats are over, every requested source
\* is rebuilt or has used up its retries: no dead lease, lost request or superseded
\* claim holds a source back for ever.
EventuallySettled ==
    <>[][~Interruption]_vars => <>[]Settled
=============================================================================
