----------------------------- MODULE ProfileRefresh -----------------------------
(***************************************************************************)
(* The queue of person profiles to refresh: table                          *)
(* person_profile_refresh_queue (core/storage/metadata_profile.py), one    *)
(* row per person, served by the background loops that share               *)
(* _process_feedback_profile_refresh_batch, and the refreshes that         *)
(* administrators, readers and the loop over active persons start without  *)
(* a row (query_person_profile).  Evidence about a person is committed     *)
(* first and the refresh is requested after it, or both in one             *)
(* transaction.  A row has no lease: requested_at, which every request     *)
(* moves on, tells a worker that it was overtaken.                         *)
(*                                                                         *)
(* Debounce and back-off only delay a claim, an expiry time only makes a   *)
(* reader start a refresh: both are left out, and a refresh without a row  *)
(* may start at any time.  Evidence is one of a few values, which may come *)
(* back (a roll-back of a correction restores what it took away).          *)
(***************************************************************************)
EXTENDS Naturals

CONSTANTS
    Person,
    Loop,          \* callers of _process_feedback_profile_refresh_batch
    Reader,        \* callers of query_person_profile without a row
    Evidence,      \* what may be known about a person
    MaxRetry,      \* person_profile_refresh_max_retry
    MaxChanges,    \* bound on changes of evidence, in total
    MaxRequests,   \* bound on requests for one person
    MaxReads,      \* bound on refreshes without a row
    MaxCrashes     \* bound on restarts and cancellations

ASSUME BoundsAssumption == MaxRetry \in Nat /\ MaxCrashes \in Nat /\ Loop \cap Reader = {}

VARIABLES
    evidence,   \* what is known about a person now
    changing,   \* persons whose evidence is committed and refresh not yet requested
    row,        \* the queue
    snap,       \* the latest snapshot: its number and the evidence it was made from
    work,       \* what each caller is refreshing
    unnoticed,  \* history: persons whose latest snapshot the queue did not see being made
    bound       \* counters of the bounds

profileVars == <<evidence, changing, row, snap, work, unnoticed, bound>>

Worker == Loop \cup Reader

\* A refresh reads its evidence on both sides of an await.
Made(early, late) == <<early, late>>

\* Between two rows of a batch.
Rest(batch) == [at |-> "idle", batch |-> batch]

Idle == Rest({})

ProfileInit ==
    /\ evidence \in [Person -> Evidence]
    /\ changing = {}
    /\ row = [p \in Person |-> [status |-> "none", requested |-> 0, retries |-> 0]]
    /\ snap = [p \in Person |-> [no |-> 0, from |-> <<>>]]
    /\ work = [w \in Worker |-> Idle]
    /\ unnoticed = {}
    /\ bound = [changes |-> 0, reads |-> 0, crashes |-> 0]

-----------------------------------------------------------------------------
(* Requests. *)

\* Mutant: a request leaves a row that is being served alone.
RequestedUnlessRunning(p) ==
    IF row[p].status = "running" THEN row
    ELSE [row EXCEPT ![p] = [status |-> "pending", requested |-> @.requested + 1, retries |-> 0]]

\* enqueue_person_profile_refresh: of requested_at, the time of the request, only
\* the order matters.
Requested(p) ==
    [row EXCEPT ![p] = [status |-> "pending", requested |-> @.requested + 1, retries |-> 0]]

Changes(p) ==
    /\ bound.changes < MaxChanges
    /\ bound' = [bound EXCEPT !.changes = @ + 1]
    /\ \E e \in Evidence : evidence' = [evidence EXCEPT ![p] = e]

\* ingest_text commits what it stores and asks for the refresh afterwards.
Change(p) ==
    /\ Changes(p)
    /\ changing' = changing \cup {p}
    /\ UNCHANGED <<row, snap, work, unnoticed>>

Enqueue(p) ==
    /\ p \in changing
    /\ changing' = changing \ {p}
    /\ row' = Requested(p)
    /\ UNCHANGED <<evidence, snap, work, unnoticed, bound>>

\* Aliases, facts and deletions change and ask in one transaction; what they change
\* may make no difference to the profile.
ChangeAndEnqueue(p) ==
    /\ row[p].requested < MaxRequests
    /\ Changes(p)
    /\ row' = Requested(p)
    /\ UNCHANGED <<changing, snap, work, unnoticed>>

-----------------------------------------------------------------------------
(* A refresh: query_person_profile(force_refresh=True). *)

Queued(w) == w \in Loop

Begun(w, p) ==
    [at |-> "collect", batch |-> work[w].batch \ {b \in work[w].batch : b[1] = p},
     person |-> p, requested |-> row[p].requested, base |-> snap[p], early |-> evidence[p]]

Fetchable(p) ==
    \/ row[p].status = "pending"
    \/ row[p].status = "failed" /\ row[p].retries < MaxRetry

\* fetch_person_profile_refresh_batch: some of the rows, for the limit and the delays.
Fetch(w) ==
    /\ work[w] = Idle
    /\ \E S \in (SUBSET {p \in Person : Fetchable(p)}) \ {{}} :
          work' = [work EXCEPT ![w] = Rest({<<p, row[p].requested>> : p \in S})]
    /\ UNCHANGED <<evidence, changing, row, snap, unnoticed, bound>>

\* mark_person_profile_refresh_running, and on to the first await.  A row that was
\* requested again or claimed since it was fetched is passed over.
Claim(w) ==
    /\ work[w].at = "idle"
    /\ \E b \in work[w].batch :
          IF row[b[1]].status \in {"pending", "failed"} /\ row[b[1]].requested = b[2]
          THEN /\ row' = [row EXCEPT ![b[1]].status = "running"]
               /\ work' = [work EXCEPT ![w] = Begun(w, b[1])]
          ELSE /\ work' = [work EXCEPT ![w] = Rest(@.batch \ {b})]
               /\ UNCHANGED row
    /\ UNCHANGED <<evidence, changing, snap, unnoticed, bound>>

\* An administrator, a reader or the loop over active persons.
Read(w, p) ==
    /\ w \in Reader /\ work[w] = Idle
    /\ bound.reads < MaxReads
    /\ bound' = [bound EXCEPT !.reads = @ + 1]
    /\ work' = [work EXCEPT ![w] = Begun(w, p)]
    /\ UNCHANGED <<evidence, changing, row, snap, unnoticed>>

Overtaken(w) == row[work[w].person].requested > work[w].requested

\* Mutant: a row is done whoever asked again meanwhile.
DoneBlind(w) ==
    IF Queued(w) THEN [row EXCEPT ![work[w].person].status = "done"] ELSE row

\* mark_person_profile_refresh_done, for those who serve a row.
Done(w) ==
    IF Queued(w)
    THEN [row EXCEPT ![work[w].person].status = IF Overtaken(w) THEN "pending" ELSE "done"]
    ELSE row

\* The last evidence is in.  If it is what the snapshot read at the beginning was
\* made from, only that snapshot's expiry is moved; else the model is asked.
Collect(w) ==
    /\ work[w].at = "collect"
    /\ LET p == work[w].person
           from == Made(work[w].early, evidence[p])
       IN  IF work[w].base.from = from
           THEN /\ row' = Done(w)
                /\ work' = [work EXCEPT ![w] = Rest(@.batch)]
                /\ unnoticed' = IF ~Queued(w) THEN unnoticed
                                ELSE IF work[w].base = snap[p] THEN unnoticed \ {p}
                                     ELSE unnoticed \cup {p}
           ELSE /\ work' = [work EXCEPT ![w] =
                              [at |-> "classify", batch |-> @.batch, person |-> p,
                               requested |-> @.requested, from |-> from]]
                /\ UNCHANGED <<row, unnoticed>>
    /\ UNCHANGED <<evidence, changing, snap, bound>>

\* upsert_person_profile_snapshot and the mark follow without an await between them.
Save(w) ==
    /\ work[w].at = "classify"
    /\ LET p == work[w].person
       IN  /\ snap' = [snap EXCEPT ![p] = [no |-> @.no + 1, from |-> work[w].from]]
           /\ unnoticed' = IF Queued(w) THEN unnoticed \ {p} ELSE unnoticed \cup {p}
    /\ row' = Done(w)
    /\ work' = [work EXCEPT ![w] = Rest(@.batch)]
    /\ UNCHANGED <<evidence, changing, bound>>

\* mark_person_profile_refresh_failed; without a row the error goes to the caller.
MarkedFailed(w) ==
    IF Queued(w)
    THEN [row EXCEPT ![work[w].person].status = IF Overtaken(w) THEN "pending" ELSE "failed",
                     ![work[w].person].retries = IF Overtaken(w) THEN @ ELSE @ + 1]
    ELSE row

Fail(w) ==
    /\ work[w].at \in {"collect", "classify"}
    /\ row' = MarkedFailed(w)
    /\ work' = [work EXCEPT ![w] = Rest(@.batch)]
    /\ UNCHANGED <<evidence, changing, snap, unnoticed, bound>>

\* The process restarts, or the loops are cancelled: what they served stays running.
Restart ==
    /\ bound.crashes < MaxCrashes
    /\ bound' = [bound EXCEPT !.crashes = @ + 1]
    /\ work' = [w \in Worker |-> Idle]
    /\ UNCHANGED <<evidence, changing, row, snap, unnoticed>>

Refresh(w) == Collect(w) \/ Save(w) \/ Fail(w)

ProfileNext ==
    \/ \E p \in Person : Change(p) \/ Enqueue(p) \/ ChangeAndEnqueue(p)
    \/ \E w \in Loop : Fetch(w) \/ Claim(w)
    \/ \E w \in Reader, p \in Person : Read(w, p)
    \/ \E w \in Worker : Refresh(w)
    \/ Restart

ProfileSpec == ProfileInit /\ [][ProfileNext]_profileVars

\* A loop goes on with its batch and fetches the next one; a request follows its change.
ProfileFairness ==
    /\ \A p \in Person : WF_profileVars(Enqueue(p))
    /\ \A w \in Loop : WF_profileVars(Fetch(w) \/ Claim(w) \/ Refresh(w))

ProfileFairSpec == ProfileSpec /\ ProfileFairness

-----------------------------------------------------------------------------
Row == [status : {"none", "pending", "running", "done", "failed"}, requested : Nat, retries : Nat]

Snapshot == [no : Nat, from : {<<>>} \cup (Evidence \X Evidence)]

Batch == SUBSET (Person \X Nat)

Job == [at : {"idle"}, batch : Batch]
       \cup [at : {"collect"}, batch : Batch, person : Person, requested : Nat,
             base : Snapshot, early : Evidence]
       \cup [at : {"classify"}, batch : Batch, person : Person, requested : Nat,
             from : Evidence \X Evidence]

\* Rows, snapshots and callers have their types.
ProfileTypeOK ==
    /\ evidence \in [Person -> Evidence]
    /\ changing \subseteq Person /\ unnoticed \subseteq Person
    /\ row \in [Person -> Row]
    /\ snap \in [Person -> Snapshot]
    /\ work \in [Worker -> Job]

Fresh(p) == snap[p].from = Made(evidence[p], evidence[p])

\* A row is done only when the latest snapshot is made of the evidence as it is
\* now, whichever of several loops ended last, unless a change has not been asked for
\* yet, or the latest snapshot came from outside the queue, or was put in front of
\* the one which the loop that ended the row found to be up to date
\* (mark_person_profile_refresh_done).
DoneIsFresh ==
    \A p \in Person : row[p].status = "done" /\ p \notin changing \cup unnoticed => Fresh(p)

\* No loop tries the row again.
Exhausted(p) == row[p].status = "failed" /\ row[p].retries >= MaxRetry

\* A change is not lost because a loop is at work when its request comes: unless a
\* restart leaves the row running, the profile is brought up to date or its retries are
\* used up (_person_profile_refresh_queue_loop).
EventuallyRefreshed ==
    \A p \in Person : p \in changing ~>
        (Fresh(p) \/ Exhausted(p) \/ p \in unnoticed \/ bound.crashes > 0)
===============================================================================
