------------------------------ MODULE FactClaims ------------------------------
(***************************************************************************)
(* The ledger of facts about a person (core/storage/metadata_fact.py):     *)
(* claims with a status, the paragraphs that support them, and what the    *)
(* writers of the ledger do to it: ingestion, the administration of facts, *)
(* the deletion of paragraphs, its restoration from a snapshot, the purge. *)
(*                                                                         *)
(* Claims exclude each other within a slot (conflict_group): all values of *)
(* a single-valued fact share one, a value of a set has one of its own.    *)
(* Of the audit trail (fact_transitions) the code reads one thing back:    *)
(* whether the latest entry of a claim is a detach_evidence.               *)
(*                                                                         *)
(* What runs between two awaits is a script of commits; the process may    *)
(* die between any two of them.  Of confidence, authority, stability and   *)
(* validity only the update that changes them is left; refuting evidence   *)
(* is never written.                                                       *)
(***************************************************************************)
EXTENDS Naturals, FiniteSets, Sequences

CONSTANTS
    Claim,
    Slot,         \* the conflict group of each claim
    Paragraph,
    Says,         \* the claim each paragraph asserts
    Ingested,     \* the paragraphs requests to ingest_text bring
    Op,           \* delete operations
    MaxEvents     \* bound on the weight of administrators' changes (3 each) and of
                  \* requests to ingest, purges and restarts (2 each)

ASSUME SaysAssumption == Says \in [Paragraph -> Claim] /\ Ingested \subseteq Paragraph
ASSUME BoundAssumption == MaxEvents \in Nat

VARIABLES
    claim,     \* fact_claims, with whether the latest transition is detach_evidence
    support,   \* fact_evidence: pairs of a claim and a paragraph
    para,      \* paragraphs: the row's state and who superseded it in its metadata
    ref,       \* paragraphs whose external id is registered
    ops,       \* delete operations with their snapshots
    ingest,    \* paragraphs whose ingestion awaits the embedding model
    script,    \* the commits left until the next await
    refresh,   \* of the profile: "owed", "asked" since the last await, "lost" in a crash,
               \* or left "unasked" by a correction
    vouched,   \* history: claims an administrator asserted or restored
    late,      \* history: paragraphs that were not live when their claim was written
    events     \* how many of these there were

facts == <<claim, support, para, ref, ops, ingest, script, refresh, vouched, late, events>>

None == "none"
Statuses == {"none", "active", "conflicted", "superseded", "retracted"}

Entry(status) == [status |-> status, detached |-> FALSE]
NoRow == [state |-> "none", change |-> None]
NoSnapshot == [evidence |-> {}, status |-> <<>>]
NoOp == [status |-> "none", of |-> None, row |-> NoRow, ref |-> FALSE, facts |-> NoSnapshot]

Init ==
    /\ claim = [c \in Claim |-> Entry("none")]
    /\ support = {}
    /\ para = [p \in Paragraph |-> NoRow]
    /\ ref = {} /\ ingest = {} /\ vouched = {} /\ late = {}
    /\ ops = [o \in Op |-> NoOp]
    /\ script = <<>>
    /\ refresh = "none"
    /\ events = 0

-----------------------------------------------------------------------------
\* The ledger.

Rivals(cl, c) == {d \in Claim \ {c} : Slot[d] = Slot[c] /\ cl[d].status = "active"}

\* Mutant: a rival does not matter if the claim was known before.
BesideKnown(cl, c, over) ==
    IF Rivals(cl, c) \ over = {} \/ cl[c].status = "superseded" THEN "active" ELSE "conflicted"

\* active, unless another value is, beside those it supersedes.
Beside(cl, c, over) == IF Rivals(cl, c) \ over = {} THEN "active" ELSE "conflicted"

MaySupersede(cl, c, over) ==
    over \subseteq {d \in Claim \ {c} : Slot[d] = Slot[c] /\ cl[d].status # "none"}

\* upsert_fact_claim.
Asserted(cl, c, over) ==
    [d \in Claim |->
        IF d = c THEN Entry(Beside(cl, c, over))
        ELSE IF d \in over /\ cl[d].status # "superseded" THEN Entry("superseded")
        ELSE cl[d]]

\* retract_fact_claim: no transition when it is retracted already.
Retract(cl, c) == [cl EXCEPT ![c] = IF @.status = "retracted" THEN @ ELSE Entry("retracted")]

\* restore_fact_claim.
Restore(cl, c) ==
    [cl EXCEPT ![c] = IF @.status = Beside(cl, c, {}) THEN @ ELSE Entry(Beside(cl, c, {}))]

Evidence(p) == {e \in support : e[2] = p}
Claims(evidence) == {e[1] : e \in evidence}

\* snapshot_fact_evidence_for_paragraphs.
Snapshot(p) == [evidence |-> Evidence(p),
                status |-> [c \in Claims(Evidence(p)) |-> claim[c].status]]

\* Mutant: claims stay when their support goes.
DetachEvidence(p) == claim

\* detach_fact_evidence_for_paragraphs: what has lost its last support is retracted.
Detach(p) ==
    [c \in Claim |->
        IF /\ c \in Claims(Evidence(p)) \ Claims(support \ Evidence(p))
           /\ claim[c].status \in {"active", "conflicted"}
        THEN [status |-> "retracted", detached |-> TRUE]
        ELSE claim[c]]

\* restore_fact_evidence_snapshot.
Back(snap, c) == claim[c].status # snap.status[c] /\ claim[c].detached

Reattach(snap) ==
    [c \in Claim |->
        IF c \notin Claims(snap.evidence) THEN claim[c]
        ELSE IF Back(snap, c) THEN Entry(snap.status[c])
        ELSE IF \E e \in snap.evidence \ support : e[1] = c THEN Entry(claim[c].status)
        ELSE claim[c]]

\* What the profile shows.
Shown(cl) == {c \in Claim : cl[c].status = "active"}

\* The ledger becomes cl; the same transaction may ask for the profile's refresh.
Becomes(cl, asks) ==
    /\ claim' = cl
    /\ refresh' = IF asks THEN (IF Len(script) < 2 THEN "none" ELSE "asked")
                  ELSE IF Shown(cl) = Shown(claim) \/ refresh = "asked" THEN refresh
                  ELSE "owed"

\* With MaxEvents = 6 any two events may happen, or three that are not an administrator's.
Event(weight) == events + weight <= MaxEvents /\ events' = events + weight

-----------------------------------------------------------------------------
\* memory_fact_admin: each is one transaction that asks for a refresh.

Administer(cl, c) ==
    /\ script = <<>>
    /\ Event(3)
    /\ Becomes(cl, TRUE)
    /\ vouched' = vouched \cup c
    /\ UNCHANGED <<support, para, ref, ops, ingest, script, late>>

Known(c) == claim[c].status # "none"

CreateFact(c) == Administer(Asserted(claim, c, {}), {c})

\* Another value of the slot supersedes; a value of another slot takes the place.
UpdateFact(c, d) ==
    /\ Known(c) /\ c # d
    /\ IF Slot[c] = Slot[d]
       THEN Administer(Asserted(claim, d, {c}), {d})
       ELSE Administer(Restore(Retract(Asserted(claim, d, {}), c), d), {d})

\* update_fact_claim_classification leaves a transition.
ClassifyFact(c) ==
    Known(c) /\ Administer([claim EXCEPT ![c] = Entry(@.status)], {})

RetractFact(c) == Known(c) /\ Administer(Retract(claim, c), {})

RestoreFact(c) == Known(c) /\ Administer(Restore(claim, c), {c})

-----------------------------------------------------------------------------
\* ingest_text of a person fact.

Doing(name) == script # <<>> /\ Head(script)[1] = name
Arg == Head(script)[2]
Done == script' = Tail(script)

\* add_paragraph: a row that is there is revived and its metadata merged.  One
\* request at a time brings a paragraph.
AddParagraph(p, change) ==
    /\ p \notin ref \cup ingest
    /\ para' = [para EXCEPT ![p] = [state |-> "live", change |-> change]]
    /\ ingest' = ingest \cup {p}

Ingest(p) ==
    /\ script = <<>>
    /\ Event(2)
    /\ AddParagraph(p, para[p].change)
    /\ UNCHANGED <<claim, support, ref, ops, script, refresh, vouched, late>>

Writes(p) == << <<"claims", p>>, <<"ref", p>>, <<"ask", p>> >>

\* The embedding is there (or the vector is queued).
Embedded(p, commits) ==
    /\ script = <<>>
    /\ p \in ingest
    /\ ingest' = ingest \ {p}
    /\ script' = commits
    /\ UNCHANGED <<claim, support, para, ref, ops, refresh, vouched, late, events>>

\* ... or the call raises.
EmbeddingFails(p) ==
    /\ script = <<>>
    /\ p \in ingest
    /\ ingest' = ingest \ {p}
    /\ UNCHANGED <<claim, support, para, ref, ops, script, refresh, vouched, late, events>>

\* _write_person_fact_claims: evidence that is there already changes nothing,
\* unless the fact names what it supersedes.
WriteClaims ==
    /\ Doing("claims") /\ Done
    /\ \E over \in SUBSET Claim :
          /\ MaySupersede(claim, Says[Arg], over)
          /\ Becomes(IF <<Says[Arg], Arg>> \in support /\ over = {} THEN claim
                     ELSE Asserted(claim, Says[Arg], over), FALSE)
    /\ support' = support \cup {<<Says[Arg], Arg>>}
    /\ late' = IF para[Arg].state = "live" THEN late ELSE late \cup {Arg}
    /\ UNCHANGED <<para, ref, ops, ingest, vouched, events>>

\* upsert_external_memory_ref.
WriteRef ==
    /\ Doing("ref") /\ Done
    /\ ref' = ref \cup {Arg}
    /\ UNCHANGED <<claim, support, para, ops, ingest, refresh, vouched, late, events>>

\* _enqueue_person_profile_refresh: the loop that serves it runs after the next await.
Ask ==
    /\ Doing("ask") /\ Done
    /\ Becomes(claim, TRUE)
    /\ UNCHANGED <<support, para, ref, ops, ingest, vouched, late, events>>

-----------------------------------------------------------------------------
\* Deletion and restoration of a paragraph, each one transaction; the purge.

DeleteParagraph(o, p) ==
    /\ script = <<>>
    /\ ops[o].status = "none" /\ para[p].state = "live"
    /\ ops' = [ops EXCEPT ![o] = [status |-> "deleted", of |-> p, row |-> para[p],
                                  ref |-> p \in ref, facts |-> Snapshot(p)]]
    /\ Becomes(Detach(p), TRUE)
    /\ support' = support \ Evidence(p)
    /\ para' = [para EXCEPT ![p].state = "deleted"]
    /\ ref' = ref \ {p}

Delete(o, p) ==
    DeleteParagraph(o, p) /\ UNCHANGED <<ingest, script, vouched, late, events>>

\* The row is written back as it was, whatever has become of it.
RestoreDeleted(o) ==
    /\ script = <<>>
    /\ ops[o].status = "deleted"
    /\ ops' = [ops EXCEPT ![o] = [NoOp EXCEPT !.status = "restored"]]
    /\ Becomes(Reattach(ops[o].facts), TRUE)
    /\ support' = support \cup ops[o].facts.evidence
    /\ para' = [para EXCEPT ![ops[o].of] = ops[o].row]
    /\ ref' = IF ops[o].ref THEN ref \cup {ops[o].of} ELSE ref
    /\ UNCHANGED <<ingest, script, vouched, late, events>>

\* physically_delete_paragraphs, without _storage_cleanup_lock.
Purge(p) ==
    /\ script = <<>>
    /\ Event(2)
    /\ para[p].state = "deleted"
    /\ para' = [para EXCEPT ![p] = NoRow]
    /\ Becomes(Detach(p), FALSE)
    /\ support' = support \ Evidence(p)
    /\ UNCHANGED <<ref, ops, ingest, script, vouched, late>>

\* The process dies and starts again.
Crash ==
    /\ Event(2)
    /\ ingest' = {} /\ script' = <<>>
    /\ refresh' = IF refresh = "owed" THEN "lost" ELSE IF refresh = "asked" THEN "none" ELSE refresh
    /\ UNCHANGED <<claim, support, para, ref, ops, vouched, late>>

-----------------------------------------------------------------------------
Administration ==
    \/ \E c \in Claim : CreateFact(c) \/ ClassifyFact(c) \/ RetractFact(c) \/ RestoreFact(c)
    \/ \E c, d \in Claim : UpdateFact(c, d)

Writing == WriteClaims \/ WriteRef \/ Ask

Deletion ==
    \/ \E o \in Op, p \in Paragraph : Delete(o, p)
    \/ \E o \in Op : RestoreDeleted(o)

Purging == \E p \in Paragraph : Purge(p)

Ingestion == \E p \in Ingested : Ingest(p) \/ Embedded(p, Writes(p)) \/ EmbeddingFails(p)

-----------------------------------------------------------------------------
\* Rows, claims and pairs have their types.
TypeOK ==
    /\ claim \in [Claim -> [status : Statuses, detached : BOOLEAN]]
    /\ support \subseteq Claim \X Paragraph
    /\ DOMAIN para = Paragraph /\ \A p \in Paragraph : para[p].state \in {"none", "live", "deleted"}
    /\ ref \cup ingest \cup late \subseteq Paragraph
    /\ vouched \subseteq Claim
    /\ refresh \in {"none", "owed", "asked", "lost", "unasked"}

\* No step makes two values of a slot active, whatever has superseded, retracted,
\* restored or reclassified them before, unless one of them lost its last paragraph
\* and that paragraph comes back (upsert_fact_claim, restore_fact_claim and the
\* three calls of _update_fact in one transaction).
SlotGuarded ==
    [][\A c, d \in Claim :
          c # d /\ Slot[c] = Slot[d] /\ claim'[c].status = "active" /\ claim'[d].status = "active" =>
              \/ claim[c].status = "active" /\ claim[d].status = "active"
              \/ claim[c].detached \/ claim[d].detached]_claim

\* A fact does not outlive what it was taken from: what is active or in conflict is
\* supported by a paragraph that is there, or an administrator vouched for it; the
\* exception is a paragraph that was deleted while its ingestion waited for the model
\* (detach_fact_evidence_for_paragraphs, restore_fact_evidence_snapshot).
FactsAreSupported ==
    /\ TypeOK
    /\ \A e \in support : para[e[2]].state = "live" \/ e[2] \in late
    /\ \A c \in Claim \ vouched :
          claim[c].status \in {"active", "conflicted"} => \E p \in Paragraph : <<c, p>> \in support
=============================================================================
