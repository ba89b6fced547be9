----------------------------- MODULE MetadataProofs -----------------------------
(***************************************************************************)
(* Theorems about the two models of the metadata store, DeleteOutbox and   *)
(* RelationLifecycle, for any resources, pools, relations, levels, limits  *)
(* and bounds.                                                             *)
(*                                                                         *)
(* DeleteOutbox, first part: operations and jobs are consistent after      *)
(* every step.  Lemmas say which changes of the two tables keep them so,   *)
(* and each action is such a change.                                       *)
(*                                                                         *)
(* Second part: what stays true of the stores and of a round.              *)
(* A saved store may lack something only because a job that is not over    *)
(* will do it.  That is not inductive: what is saved is copied from        *)
(* memory, and a job ends because of what the round believes about both.   *)
(* The invariant, Owing, therefore says that whatever memory or disk lacks *)
(* is due (VectorsDue, GraphIsDue), that the resources a batch deletes are *)
(* out of memory (Batched), that the jobs waiting to be settled have done  *)
(* their work (Settling), and that a round at work on an upsert has        *)
(* nothing else open (Phases).  On top of it come the invariants           *)
(* StoresOwed and DeadVectorOwed and the action properties                 *)
(* CompletionIsDurable and LiveVectorKept.                                 *)
(*                                                                         *)
(* RelationLifecycle, third part: active relations are on the calendar,    *)
(* nothing but weakening and undoing brings the end of a relation closer,  *)
(* and what is archived had faded.  The invariant says of every row a      *)
(* table holds, also of deleted rows and of statuses that may be put back, *)
(* that it is due no later than it fades (OnCalendar), and of the rows a   *)
(* cycle has set aside that they had faded when it did (SweptAreFaded).    *)
(***************************************************************************)
EXTENDS DeleteOutbox, RelationLifecycle, FiniteSetTheorems, SequenceTheorems, WellFoundedInduction, TLAPS

OperationRow ==
    [status : {"pending_cleanup", "completed", "superseded", "restore_pending", "restored"},
     items : (SUBSET Resource) \ {{}}]

JobRow == [op : Nat, action : Action, ids : SUBSET Resource,
           status : UnfinishedStatus \cup {"completed", "cancelled"}, claimable : BOOLEAN]

\* The tables have their types, and every unfinished job is one its operation wants.
Consistent(os, js) ==
    /\ os \in Seq(OperationRow)
    /\ js \in Seq(JobRow)
    /\ \A j \in DOMAIN js : js[j].op \in DOMAIN os
    /\ \A j \in DOMAIN js : js[j].status \in UnfinishedStatus
                               => os[js[j].op].status = Expected(js[j].action)

\* js2 are the jobs of js, none of which has become unfinished.
Updates(js, js2) ==
    /\ js2 \in Seq(JobRow)
    /\ DOMAIN js2 = DOMAIN js
    /\ \A j \in DOMAIN js : /\ js2[j].op = js[j].op
                            /\ js2[j].action = js[j].action
                            /\ js2[j].status \in UnfinishedStatus => js[j].status \in UnfinishedStatus

-----------------------------------------------------------------------------
\* Sequences

\* A function on the domain of a sequence is a sequence.
LEMMA SequenceOn ==
    ASSUME NEW S, NEW T, NEW s \in Seq(S), NEW f \in [DOMAIN s -> T]
    PROVE  f \in Seq(T) /\ DOMAIN f = DOMAIN s
<1>1. DOMAIN s = 1 .. Len(s) /\ Len(s) \in Nat
  BY LenProperties
<1> QED BY <1>1, IsASeq

\* A function on 1 .. n is a sequence.
LEMMA FunctionIsSequence ==
    ASSUME NEW T, NEW n \in Nat, NEW f \in [1 .. n -> T]
    PROVE  f \in Seq(T)
BY IsASeq

\* Sequences of one domain are as long.
LEMMA SameDomain ==
    ASSUME NEW m \in Nat, NEW n \in Nat, 1 .. m = 1 .. n
    PROVE  m = n
<1>1. m # 0 => m \in 1 .. n
  OBVIOUS
<1>2. n # 0 => n \in 1 .. m
  OBVIOUS
<1> QED BY <1>1, <1>2

\* An element of a concatenation is one of either part.
LEMMA Concatenation ==
    ASSUME NEW T, NEW s \in Seq(T), NEW t \in Seq(T)
    PROVE  /\ s \o t \in Seq(T)
           /\ \A i \in DOMAIN s : i \in DOMAIN (s \o t)
           /\ \A i \in DOMAIN (s \o t) :
                 \/ i \in DOMAIN s /\ (s \o t)[i] = s[i]
                 \/ \E k \in DOMAIN t : (s \o t)[i] = t[k]
<1>1. /\ s \o t \in Seq(T)
      /\ Len(s \o t) = Len(s) + Len(t)
      /\ \A i \in 1 .. Len(s) + Len(t) :
            (s \o t)[i] = IF i <= Len(s) THEN s[i] ELSE t[i - Len(s)]
  BY ConcatProperties
<1>2. /\ DOMAIN s = 1 .. Len(s) /\ Len(s) \in Nat
      /\ DOMAIN t = 1 .. Len(t) /\ Len(t) \in Nat
      /\ DOMAIN (s \o t) = 1 .. Len(s) + Len(t)
  BY <1>1, LenProperties
<1>3. ASSUME NEW i \in 1 .. Len(s) + Len(t), ~(i <= Len(s))
      PROVE  i - Len(s) \in 1 .. Len(t)
  BY <1>2, <1>3
<1> QED BY <1>1, <1>2, <1>3

\* The elements of a finite set, in some order.
LEMMA Enumeration ==
    ASSUME NEW S, IsFiniteSet(S)
    PROVE  Cardinality(S) \in Nat /\ SetToSeq(S) \in [1 .. Cardinality(S) -> S]
<1>1. Cardinality(S) \in Nat /\ ExistsBijection(1 .. Cardinality(S), S)
  BY FS_CardinalityType
<1>2. \E f \in [1 .. Cardinality(S) -> S] : IsInjective(f)
  BY <1>1 DEF ExistsBijection, Bijection, Injection
<1> QED BY <1>1, <1>2 DEF SetToSeq

\* A row with other resources is a row.
LEMMA SetIds ==
    ASSUME NEW rec \in JobRow, NEW new, NEW I \in SUBSET Resource, new = [rec EXCEPT !.ids = I]
    PROVE  /\ new \in JobRow /\ new.status = rec.status
           /\ new.op = rec.op /\ new.action = rec.action
BY DEF JobRow

-----------------------------------------------------------------------------
\* Changes of the tables

\* Jobs may end or stay as they are.
LEMMA UpdateKeeps ==
    ASSUME NEW os, NEW js, NEW js2, Consistent(os, js), Updates(js, js2)
    PROVE  Consistent(os, js2)
BY DEF Consistent, Updates

\* Updates compose.
LEMMA UpdateTwice ==
    ASSUME NEW js, NEW js2, NEW js3, Updates(js, js2), Updates(js2, js3)
    PROVE  Updates(js, js3)
BY DEF Updates

\* An operation without unfinished jobs may change its status.
LEMMA StatusKeeps ==
    ASSUME NEW os, NEW os2, NEW js, Consistent(os, js),
           os2 \in Seq(OperationRow), DOMAIN os2 = DOMAIN os,
           \A o \in DOMAIN os : os2[o].status = os[o].status \/ Unfinished(js, o) = {}
    PROVE  Consistent(os2, js)
<1>1. ASSUME NEW j \in DOMAIN js, js[j].status \in UnfinishedStatus
      PROVE  os2[js[j].op].status = Expected(js[j].action)
  <2>1. js[j].op \in DOMAIN os /\ os[js[j].op].status = Expected(js[j].action)
    BY <1>1 DEF Consistent
  <2>2. j \in Unfinished(js, js[j].op)
    BY <1>1 DEF Unfinished
  <2> QED BY <2>1, <2>2
<1> QED BY <1>1 DEF Consistent

\* An operation may be added.
LEMMA OperationKeeps ==
    ASSUME NEW os, NEW js, NEW rec \in OperationRow, Consistent(os, js)
    PROVE  /\ Consistent(Append(os, rec), js)
           /\ Len(os) + 1 \in DOMAIN Append(os, rec)
           /\ Append(os, rec)[Len(os) + 1] = rec
<1>1. os \in Seq(OperationRow)
  BY DEF Consistent
<1>2. /\ Append(os, rec) \in Seq(OperationRow)
      /\ Len(Append(os, rec)) = Len(os) + 1
      /\ \A i \in 1 .. Len(os) : Append(os, rec)[i] = os[i]
      /\ Append(os, rec)[Len(os) + 1] = rec
  BY <1>1, AppendProperties
<1>3. /\ DOMAIN os = 1 .. Len(os) /\ Len(os) \in Nat
      /\ DOMAIN Append(os, rec) = 1 .. Len(os) + 1
  BY <1>1, <1>2, LenProperties
<1>4. \A o \in DOMAIN os : o \in DOMAIN Append(os, rec) /\ Append(os, rec)[o] = os[o]
  BY <1>2, <1>3
<1>5. Consistent(Append(os, rec), js)
  BY <1>2, <1>4 DEF Consistent
<1> QED BY <1>2, <1>3, <1>5

\* Jobs may be added that their operation wants.
LEMMA JobsKeep ==
    ASSUME NEW os, NEW js, NEW new \in Seq(JobRow), Consistent(os, js),
           \A k \in DOMAIN new : /\ new[k].op \in DOMAIN os
                                 /\ os[new[k].op].status = Expected(new[k].action)
    PROVE  Consistent(os, js \o new)
<1>1. /\ js \o new \in Seq(JobRow)
      /\ \A i \in DOMAIN (js \o new) :
            \/ i \in DOMAIN js /\ (js \o new)[i] = js[i]
            \/ \E k \in DOMAIN new : (js \o new)[i] = new[k]
  BY Concatenation DEF Consistent
<1> QED BY <1>1 DEF Consistent

\* Reconciling changes nothing but the status of operations whose jobs have ended.
LEMMA ReconciledKeeps ==
    ASSUME NEW os, NEW js, NEW O, Consistent(os, js)
    PROVE  Consistent(Reconciled(os, js, O), js)
<1> DEFINE os2 == Reconciled(os, js, O)
<1>1. os \in Seq(OperationRow) /\ \A o \in DOMAIN os : os[o] \in OperationRow
  <2>1. os \in Seq(OperationRow)
    BY DEF Consistent
  <2> QED BY <2>1, ElementOfSeq, LenProperties
<1>2. ASSUME NEW o \in DOMAIN os
      PROVE  /\ os2[o] \in OperationRow
             /\ os2[o].status = os[o].status \/ Unfinished(js, o) = {}
  <2>1. os[o] \in OperationRow
    BY <1>1
  <2>2. CASE o \in O /\ os[o].status \in DOMAIN Settles /\ Unfinished(js, o) = {}
    <3>1. os2[o] = [os[o] EXCEPT !.status = Settles[os[o].status]]
      BY <2>2 DEF Reconciled
    <3>2. Settles[os[o].status] \in {"completed", "restored"}
      BY <2>2 DEF Settles
    <3>3. [os[o] EXCEPT !.status = Settles[os[o].status]] \in OperationRow
      BY <2>1, <3>2 DEF OperationRow
    <3> QED BY <2>2, <3>1, <3>3
  <2>3. CASE ~(o \in O /\ os[o].status \in DOMAIN Settles /\ Unfinished(js, o) = {})
    <3>1. os2[o] = os[o]
      BY <2>3 DEF Reconciled
    <3> QED BY <2>1, <3>1
  <2> QED BY <2>2, <2>3
<1>3. os2 \in [DOMAIN os -> OperationRow]
  BY <1>2 DEF Reconciled
<1>4. os2 \in Seq(OperationRow) /\ DOMAIN os2 = DOMAIN os
  BY <1>1, <1>3, SequenceOn
<1> QED BY <1>2, <1>4, StatusKeeps

-----------------------------------------------------------------------------
\* The jobs of a delete or a restore

\* Jobs of operation o that do one of the actions in A.
JobOf(o, A) == {rec \in JobRow : rec.op = o /\ rec.action \in A}

RestoreActions == {"vector_upsert", "graph_restore"}

\* A new job is a row.
LEMMA NewJobRow ==
    ASSUME NEW o \in Nat, NEW A, NEW a \in A \cap Action, NEW I \in SUBSET Resource
    PROVE  NewJob(o, a, I) \in JobOf(o, A)
BY DEF NewJob, JobOf, JobRow, UnfinishedStatus

\* The jobs of a delete are its operation's, and delete.
LEMMA DeleteJobsTyped ==
    ASSUME NEW o \in Nat, NEW S \in SUBSET Resource
    PROVE  DeleteJobs(o, S) \in Seq(JobOf(o, DeleteActions))
<1> DEFINE T == JobOf(o, DeleteActions)
           Batch(X) == IF S \cap X = {} THEN <<>> ELSE <<NewJob(o, "vector_delete", S \cap X)>>
<1>1. \A X : Batch(X) \in Seq(T)
  <2> SUFFICES ASSUME NEW X PROVE Batch(X) \in Seq(T)
    OBVIOUS
  <2>1. NewJob(o, "vector_delete", S \cap X) \in T
    BY NewJobRow DEF Action, DeleteActions
  <2> QED BY <2>1
<1>2. <<NewJob(o, "graph_rebuild", {})>> \in Seq(T)
  <2>1. NewJob(o, "graph_rebuild", {}) \in T
    BY NewJobRow DEF Action, DeleteActions
  <2> QED BY <2>1
<1>3. Batch(Paragraph) \in Seq(T) /\ Batch(Entity) \in Seq(T) /\ Batch(Relation) \in Seq(T)
  BY <1>1
<1>4. Batch(Paragraph) \o Batch(Entity) \in Seq(T)
  BY <1>3, Concatenation
<1>5. (Batch(Paragraph) \o Batch(Entity)) \o Batch(Relation) \in Seq(T)
  BY <1>3, <1>4, Concatenation
<1>6. ((Batch(Paragraph) \o Batch(Entity)) \o Batch(Relation))
        \o <<NewJob(o, "graph_rebuild", {})>> \in Seq(T)
  BY <1>2, <1>5, Concatenation
<1> QED BY <1>6 DEF DeleteJobs

\* The jobs of a restore are its operation's, and restore.
LEMMA RestoreJobsTyped ==
    ASSUME NEW o \in Nat, NEW S \in SUBSET Resource
    PROVE  RestoreJobs(o, S) \in Seq(JobOf(o, RestoreActions))
<1> DEFINE T == JobOf(o, RestoreActions)
           Upserts(X) == [k \in 1 .. Cardinality(S \cap X) |->
                             NewJob(o, "vector_upsert", {SetToSeq(S \cap X)[k]})]
           Graph == <<NewJob(o, "graph_restore", {})>>
           Third == IF relationVectors THEN Relation ELSE {}
<1>1. ASSUME NEW X, IsFiniteSet(X)
      PROVE  Upserts(X) \in Seq(T)
  <2>1. IsFiniteSet(S \cap X)
    BY <1>1, FS_Intersection
  <2>2. /\ Cardinality(S \cap X) \in Nat
        /\ SetToSeq(S \cap X) \in [1 .. Cardinality(S \cap X) -> S \cap X]
    BY <2>1, Enumeration
  <2>3. ASSUME NEW k \in 1 .. Cardinality(S \cap X)
        PROVE  NewJob(o, "vector_upsert", {SetToSeq(S \cap X)[k]}) \in T
    <3>1. SetToSeq(S \cap X)[k] \in S \cap X
      BY <2>2
    <3>2. {SetToSeq(S \cap X)[k]} \in SUBSET Resource
      BY <3>1
    <3> QED BY <3>2, NewJobRow DEF Action, RestoreActions
  <2>4. Upserts(X) \in [1 .. Cardinality(S \cap X) -> T]
    BY <2>3
  <2> QED BY <2>2, <2>4, FunctionIsSequence
<1>2. IsFiniteSet(Paragraph) /\ IsFiniteSet(Entity) /\ IsFiniteSet(Third)
  BY ParametersAssumption, FS_EmptySet
<1>3. Upserts(Entity) \in Seq(T) /\ Upserts(Paragraph) \in Seq(T) /\ Upserts(Third) \in Seq(T)
  BY <1>1, <1>2
<1>4. Graph \in Seq(T)
  <2>1. NewJob(o, "graph_restore", {}) \in T
    BY NewJobRow DEF Action, RestoreActions
  <2> QED BY <2>1
<1> HIDE DEF Upserts, Graph, Third
<1>5. Upserts(Entity) \o Upserts(Paragraph) \in Seq(T)
  BY <1>3, Concatenation
<1>6. (Upserts(Entity) \o Upserts(Paragraph)) \o Upserts(Third) \in Seq(T)
  BY <1>3, <1>5, Concatenation
<1>7. ((Upserts(Entity) \o Upserts(Paragraph)) \o Upserts(Third)) \o Graph \in Seq(T)
  BY <1>4, <1>6, Concatenation
<1> QED BY <1>7 DEF RestoreJobs, Upserts, Graph, Third

\* Jobs of one operation that wants them may be added.
LEMMA NewJobsKeep ==
    ASSUME NEW os, NEW js, NEW o \in DOMAIN os, NEW A, NEW new \in Seq(JobOf(o, A)),
           Consistent(os, js), \A a \in A : os[o].status = Expected(a)
    PROVE  Consistent(os, js \o new)
<1>1. \A k \in DOMAIN new : new[k] \in JobOf(o, A)
  BY ElementOfSeq, LenProperties
<1>2. new \in Seq(JobRow)
  BY SeqMonotonic DEF JobOf
<1>3. \A k \in DOMAIN new : new[k].op \in DOMAIN os /\ os[new[k].op].status = Expected(new[k].action)
  BY <1>1 DEF JobOf
<1> QED BY <1>2, <1>3, JobsKeep

-----------------------------------------------------------------------------
\* Jobs that end, fail, are claimed or lose resources

\* A job may become rec2: the same work, finished or as unfinished as it was.
Became(rec, rec2) ==
    /\ rec2 \in JobRow
    /\ rec2.op = rec.op /\ rec2.action = rec.action
    /\ rec2.status \in UnfinishedStatus => rec2.status = rec.status \/ rec.status \in UnfinishedStatus

\* An unfinished job may be given any status, and any job a final one.
LEMMA BecomesStatus ==
    ASSUME NEW rec \in JobRow, NEW x \in UnfinishedStatus \cup {"completed", "cancelled"},
           x \in UnfinishedStatus => rec.status \in UnfinishedStatus
    PROVE  Became(rec, [rec EXCEPT !.status = x, !.claimable = FALSE])
BY DEF Became, JobRow

\* Any job may become claimable.
LEMMA BecomesClaimable ==
    ASSUME NEW rec \in JobRow
    PROVE  Became(rec, [rec EXCEPT !.claimable = TRUE])
BY DEF Became, JobRow

\* Rows that become others one by one are an update of the table.
LEMMA RowsUpdate ==
    ASSUME NEW js \in Seq(JobRow), NEW js2, js2 = [j \in DOMAIN js |-> js2[j]],
           \A j \in DOMAIN js : Became(js[j], js2[j])
    PROVE  Updates(js, js2)
<1>1. js2 \in [DOMAIN js -> JobRow]
  BY DEF Became
<1>2. js2 \in Seq(JobRow) /\ DOMAIN js2 = DOMAIN js
  BY <1>1, SequenceOn
<1> QED BY <1>2 DEF Updates, Became

\* The rows of a sequence of jobs.
LEMMA RowOf ==
    ASSUME NEW js \in Seq(JobRow), NEW j \in DOMAIN js
    PROVE  js[j] \in JobRow /\ Became(js[j], js[j])
<1>1. js[j] \in JobRow
  BY ElementOfSeq, LenProperties
<1> QED BY <1>1 DEF Became

\* Cancelling jobs that wait leaves only running ones unfinished.
LEMMA CancelledUpdates ==
    ASSUME NEW js \in Seq(JobRow), NEW J
    PROVE  /\ Updates(js, Cancelled(js, J))
           /\ \A j \in DOMAIN js : Cancelled(js, J)[j].status \in UnfinishedStatus =>
                 /\ Cancelled(js, J)[j].status = js[j].status
                 /\ j \in J => js[j].status = "running"
<1> DEFINE js2 == Cancelled(js, J)
<1>1. ASSUME NEW j \in DOMAIN js
      PROVE  /\ Became(js[j], js2[j])
             /\ js2[j].status \in UnfinishedStatus =>
                   js2[j].status = js[j].status /\ (j \in J => js[j].status = "running")
  <2>1. CASE j \in J /\ js[j].status \in {"pending", "failed"}
    <3>1. js2[j] = [js[j] EXCEPT !.status = "cancelled", !.claimable = FALSE]
      BY <2>1 DEF Cancelled
    <3>2. /\ js2[j] \in JobRow /\ js2[j].status = "cancelled"
          /\ js2[j].op = js[j].op /\ js2[j].action = js[j].action
      <4>1. js[j] \in JobRow
        BY RowOf
      <4> HIDE DEF js2
      <4> QED BY <3>1, <4>1 DEF JobRow, UnfinishedStatus
    <3> QED BY <3>2 DEF Became, UnfinishedStatus
  <2>2. CASE ~(j \in J /\ js[j].status \in {"pending", "failed"})
    <3>1. js2[j] = js[j]
      BY <2>2 DEF Cancelled
    <3> QED BY <3>1, <2>2, RowOf DEF UnfinishedStatus
  <2> QED BY <2>1, <2>2
<1>2. js2 = [j \in DOMAIN js |-> js2[j]]
  BY DEF Cancelled
<1>3. Updates(js, js2)
  BY <1>1, <1>2, RowsUpdate
<1> QED BY <1>1, <1>3

\* Taking relations out of the waiting jobs of some operations is an update.
LEMMA WithoutRelationsUpdates ==
    ASSUME jobs \in Seq(JobRow), NEW O, NEW R
    PROVE  /\ Updates(jobs, WithoutRelations(O, R))
           /\ \A j \in DOMAIN jobs : WithoutRelations(O, R)[j].status \in UnfinishedStatus =>
                 WithoutRelations(O, R)[j].status = jobs[j].status
<1> DEFINE Hit(j) == jobs[j].op \in O /\ jobs[j].action = "vector_delete"
                     /\ jobs[j].ids \cap R # {}
           Less(j) == Hit(j) /\ jobs[j].status \in {"pending", "failed"} /\ ~(jobs[j].ids \subseteq R)
           left == [j \in DOMAIN jobs |->
                       IF Less(j) THEN [jobs[j] EXCEPT !.ids = jobs[j].ids \ R] ELSE jobs[j]]
           J == {j \in DOMAIN jobs : Hit(j) /\ jobs[j].ids \subseteq R}
<1>1. ASSUME NEW j \in DOMAIN jobs
      PROVE  Became(jobs[j], left[j]) /\ left[j].status = jobs[j].status
  <2>1. CASE Less(j)
    <3>1. left[j] = [jobs[j] EXCEPT !.ids = jobs[j].ids \ R]
      BY <2>1
    <3>2. jobs[j] \in JobRow /\ jobs[j].ids \ R \in SUBSET Resource
      BY RowOf DEF JobRow
    <3>3. /\ left[j] \in JobRow /\ left[j].status = jobs[j].status
          /\ left[j].op = jobs[j].op /\ left[j].action = jobs[j].action
      BY <3>1, <3>2, SetIds
    <3> QED BY <3>3 DEF Became
  <2>2. CASE ~Less(j)
    BY <2>2, RowOf
  <2> QED BY <2>1, <2>2
<1>2. Updates(jobs, left) /\ left \in Seq(JobRow) /\ DOMAIN left = DOMAIN jobs
  <2>1. left = [j \in DOMAIN jobs |-> left[j]]
    OBVIOUS
  <2> HIDE DEF left
  <2>2. Updates(jobs, left)
    BY <1>1, <2>1, RowsUpdate
  <2> QED BY <2>2 DEF Updates
<1>3. WithoutRelations(O, R) = Cancelled(left, J)
  BY DEF WithoutRelations
<1> HIDE DEF left, J
<1>4. Updates(jobs, Cancelled(left, J))
  BY <1>2, CancelledUpdates, UpdateTwice
<1>5. ASSUME NEW j \in DOMAIN jobs, Cancelled(left, J)[j].status \in UnfinishedStatus
      PROVE  Cancelled(left, J)[j].status = jobs[j].status
  <2>1. Cancelled(left, J)[j].status = left[j].status
    BY <1>2, <1>5, CancelledUpdates
  <2> QED BY <1>1, <2>1
<1> QED BY <1>3, <1>4, <1>5

-----------------------------------------------------------------------------
\* The actions: what they do to the two tables

Inv == Consistent(ops, jobs)

\* Actions of a round, and others, that give jobs a new status.
LEMMA JobMapKeeps ==
    ASSUME Inv, NEW js2, js2 = [j \in DOMAIN jobs |-> js2[j]],
           \A j \in DOMAIN jobs : Became(jobs[j], js2[j])
    PROVE  Consistent(ops, js2)
<1>1. jobs \in Seq(JobRow)
  BY DEF Inv, Consistent
<1> QED BY <1>1, RowsUpdate, UpdateKeeps DEF Inv

\* A failure leaves the jobs wanted.
LEMMA FailKeeps ==
    ASSUME Inv, NEW J, Fail(J)
    PROVE  Inv'
<1>1. jobs \in Seq(JobRow)
  BY DEF Inv, Consistent
<1>2. jobs' = [j \in DOMAIN jobs |-> jobs'[j]]
  BY DEF Fail
<1>3. ASSUME NEW j \in DOMAIN jobs
      PROVE  Became(jobs[j], jobs'[j])
  <2>1. jobs[j] \in JobRow
    BY <1>1, RowOf
  <2>2. jobs'[j] = IF j \in J /\ jobs[j].status = "running"
                   THEN [jobs[j] EXCEPT !.status = "failed", !.claimable = FALSE]
                   ELSE jobs[j]
    BY DEF Fail
  <2> QED BY <2>1, <2>2 DEF Became, JobRow, UnfinishedStatus
<1>4. Consistent(ops, jobs')
  BY <1>2, <1>3, JobMapKeeps
<1> QED BY <1>4 DEF Inv, Fail

\* So does completing or cancelling one, and its operation settles.
LEMMA CompleteKeeps ==
    ASSUME Inv, NEW j \in DOMAIN jobs, NEW st \in {"completed", "cancelled"}, Complete(j, st)
    PROVE  Inv'
<1>1. jobs \in Seq(JobRow)
  BY DEF Inv, Consistent
<1>2. jobs' = [k \in DOMAIN jobs |-> jobs'[k]]
  BY DEF Complete
<1>3. ASSUME NEW k \in DOMAIN jobs
      PROVE  Became(jobs[k], jobs'[k])
  <2>1. jobs[k] \in JobRow
    BY <1>1, RowOf
  <2>2. jobs'[k] = IF k = j THEN [jobs[j] EXCEPT !.status = st, !.claimable = FALSE] ELSE jobs[k]
    BY DEF Complete
  <2>3. CASE k = j
    <3>1. st \notin UnfinishedStatus
      BY DEF UnfinishedStatus
    <3>2. Became(jobs[j], [jobs[j] EXCEPT !.status = st, !.claimable = FALSE])
      BY <2>1, <2>3, <3>1, BecomesStatus
    <3> QED BY <2>2, <2>3, <3>2
  <2>4. CASE k # j
    BY <2>2, <2>4, <1>1, RowOf
  <2> QED BY <2>3, <2>4
<1>4. Consistent(ops, jobs')
  BY <1>2, <1>3, JobMapKeeps
<1>5. Consistent(Reconciled(ops, jobs', {jobs[j].op}), jobs')
  BY <1>4, ReconciledKeeps
<1> QED BY <1>5 DEF Inv, Complete

\* A claim makes unfinished jobs running.
LEMMA ClaimKeeps ==
    ASSUME Inv, Claim
    PROVE  Inv'
<1> DEFINE due == {j \in DOMAIN jobs : jobs[j].status \in UnfinishedStatus /\ jobs[j].claimable
                                       /\ round.scope \in {0, jobs[j].op}}
           taken == {j \in due : Cardinality({k \in due : k < j}) < Limit}
<1>1. jobs \in Seq(JobRow)
  BY DEF Inv, Consistent
<1>2. jobs' = [j \in DOMAIN jobs |->
                  IF j \in taken THEN [jobs[j] EXCEPT !.status = "running", !.claimable = FALSE]
                  ELSE jobs[j]]
  BY DEF Claim
<1>3. \A j \in taken : jobs[j].status \in UnfinishedStatus
  OBVIOUS
<1> HIDE DEF taken
<1>4. jobs' = [j \in DOMAIN jobs |-> jobs'[j]]
  BY <1>2
<1>5. ASSUME NEW j \in DOMAIN jobs
      PROVE  Became(jobs[j], jobs'[j])
  <2>1. jobs[j] \in JobRow
    BY <1>1, RowOf
  <2>2. jobs'[j] = IF j \in taken THEN [jobs[j] EXCEPT !.status = "running", !.claimable = FALSE]
                   ELSE jobs[j]
    BY <1>2
  <2>3. CASE j \in taken
    <3>1. "running" \in UnfinishedStatus
      BY DEF UnfinishedStatus
    <3>2. Became(jobs[j], [jobs[j] EXCEPT !.status = "running", !.claimable = FALSE])
      BY <2>1, <2>3, <1>3, <3>1, BecomesStatus
    <3> QED BY <2>2, <2>3, <3>2
  <2>4. CASE j \notin taken
    BY <2>2, <2>4, <1>1, RowOf
  <2> QED BY <2>3, <2>4
<1>6. Consistent(ops, jobs')
  BY <1>4, <1>5, JobMapKeeps
<1> QED BY <1>6 DEF Inv, Claim

\* Time leaves the jobs as they are.
LEMMA TimeKeeps ==
    ASSUME Inv, NEW j \in DOMAIN jobs, TimePasses(j)
    PROVE  Inv'
<1>1. jobs \in Seq(JobRow)
  BY DEF Inv, Consistent
<1>2. jobs' = [jobs EXCEPT ![j].claimable = TRUE] /\ ops' = ops
  BY DEF TimePasses
<1>3. jobs' = [k \in DOMAIN jobs |-> jobs'[k]]
  BY <1>2
<1>4. ASSUME NEW k \in DOMAIN jobs
      PROVE  Became(jobs[k], jobs'[k])
  <2>1. jobs[k] \in JobRow
    BY <1>1, RowOf
  <2>2. jobs'[k] = IF k = j THEN [jobs[j] EXCEPT !.claimable = TRUE] ELSE jobs[k]
    BY <1>2
  <2>3. CASE k = j
    BY <2>1, <2>2, <2>3, BecomesClaimable
  <2>4. CASE k # j
    BY <2>2, <2>4, <1>1, RowOf
  <2> QED BY <2>3, <2>4
<1>5. Consistent(ops, jobs')
  BY <1>3, <1>4, JobMapKeeps
<1> QED BY <1>2, <1>5 DEF Inv

\* The end of a round settles operations.
LEMMA EndRoundKeeps ==
    ASSUME Inv, EndRound
    PROVE  Inv'
BY ReconciledKeeps DEF Inv, EndRound

\* A delete is an operation that wants its jobs.
LEMMA DeleteKeeps ==
    ASSUME Inv, NEW S \in SUBSET Resource, Delete(S)
    PROVE  Inv'
<1> DEFINE o == Len(ops) + 1
           rec == [status |-> "pending_cleanup", items |-> S]
<1>1. rec \in OperationRow
  BY DEF OperationRow, Delete
<1>2. o \in Nat
  BY LenProperties DEF Inv, Consistent
<1>3. ops' = Append(ops, rec) /\ jobs' = jobs \o DeleteJobs(o, S)
  BY DEF Delete
<1> HIDE DEF o
<1>4. Consistent(ops', jobs) /\ o \in DOMAIN ops' /\ ops'[o] = rec
  BY <1>1, <1>3, OperationKeeps DEF Inv, o
<1>5. \A a \in DeleteActions : ops'[o].status = Expected(a)
  BY <1>4 DEF Expected
<1>6. DeleteJobs(o, S) \in Seq(JobOf(o, DeleteActions))
  BY <1>2, DeleteJobsTyped
<1>7. Consistent(ops', jobs \o DeleteJobs(o, S))
  BY <1>4, <1>5, <1>6, NewJobsKeep
<1> QED BY <1>3, <1>7 DEF Inv

\* A restore finds no delete job running, cancels those that wait, and is an
\* operation that wants its own.
LEMMA RestoreKeeps ==
    ASSUME Inv, NEW o \in DOMAIN ops, Restore(o)
    PROVE  Inv'
<1> DEFINE J == {j \in DOMAIN jobs : jobs[j].op = o /\ jobs[j].action \in DeleteActions}
           js == Cancelled(jobs, J)
           new == RestoreJobs(o, ops[o].items)
<1>1. /\ ops \in Seq(OperationRow) /\ jobs \in Seq(JobRow)
      /\ ops[o] \in OperationRow /\ o \in Nat
  <2>1. ops \in Seq(OperationRow) /\ jobs \in Seq(JobRow)
    BY DEF Inv, Consistent
  <2> QED BY <2>1, ElementOfSeq, LenProperties
<1>2. ops' = [ops EXCEPT ![o].status = "restore_pending"] /\ jobs' = js \o new
  BY DEF Restore
<1>3. Updates(jobs, js)
  BY <1>1, CancelledUpdates
<1>4. Consistent(ops, js)
  BY <1>3, UpdateKeeps DEF Inv
<1>5. Unfinished(js, o) = {}
  <2> SUFFICES ASSUME NEW j \in DOMAIN jobs, js[j].op = o, js[j].status \in UnfinishedStatus
               PROVE  FALSE
    BY <1>3 DEF Updates, Unfinished
  <2>1. jobs[j].op = o /\ jobs[j].status \in UnfinishedStatus
    BY <1>3 DEF Updates
  <2>2. ops[o].status = Expected(jobs[j].action)
    BY <2>1 DEF Inv, Consistent
  <2>3. jobs[j].action \in DeleteActions
    BY <2>2 DEF Restore, Expected
  <2>4. jobs[j].status = "running"
    BY <1>1, <2>1, <2>3, CancelledUpdates
  <2> QED BY <2>1, <2>3, <2>4 DEF Restore, DeleteRunning
<1>6. /\ ops' \in Seq(OperationRow) /\ DOMAIN ops' = DOMAIN ops
      /\ ops'[o].status = "restore_pending"
      /\ \A p \in DOMAIN ops : p # o => ops'[p] = ops[p]
  <2>1. [ops[o] EXCEPT !.status = "restore_pending"] \in OperationRow
    BY <1>1 DEF OperationRow
  <2>2. [ops[o] EXCEPT !.status = "restore_pending"].status = "restore_pending"
    BY <1>1 DEF OperationRow
  <2>3. ops' = [p \in DOMAIN ops |->
                  IF p = o THEN [ops[o] EXCEPT !.status = "restore_pending"] ELSE ops[p]]
    BY <1>2
  <2>4. \A p \in DOMAIN ops : ops[p] \in OperationRow
    BY <1>1, ElementOfSeq, LenProperties
  <2>5. ops' \in [DOMAIN ops -> OperationRow]
    BY <2>1, <2>3, <2>4
  <2> QED BY <1>1, <2>2, <2>3, <2>5, SequenceOn
<1>7. Consistent(ops', js)
  BY <1>4, <1>5, <1>6, StatusKeeps
<1>8. new \in Seq(JobOf(o, RestoreActions))
  <2>1. ops[o].items \in SUBSET Resource
    BY <1>1 DEF OperationRow
  <2> QED BY <1>1, <2>1, RestoreJobsTyped
<1>9. \A a \in RestoreActions : ops'[o].status = Expected(a)
  BY <1>6 DEF Expected, RestoreActions, DeleteActions
<1>10. Consistent(ops', js \o new)
  BY <1>6, <1>7, <1>8, <1>9, NewJobsKeep
<1> QED BY <1>2, <1>10 DEF Inv

\* A restore of relations supersedes only operations all of whose jobs it finds
\* ended or cancels, and is an operation that wants its own.
LEMMA RestoreRelationsKeeps ==
    ASSUME Inv, NEW R \in SUBSET Relation, RestoreRelations(R)
    PROVE  Inv'
<1> DEFINE o == Len(ops) + 1
           O == Superseding(R)
           js == WithoutRelations(O, R)
           gone == Superseded(js, O, R)
           J == {j \in DOMAIN js : js[j].op \in gone /\ js[j].action = "graph_rebuild"}
           js2 == Cancelled(js, J)
           os == [old \in DOMAIN ops |->
                     IF old \in gone THEN [ops[old] EXCEPT !.status = "superseded"] ELSE ops[old]]
           rec == [status |-> "restore_pending", items |-> R]
<1>1. /\ ops \in Seq(OperationRow) /\ jobs \in Seq(JobRow) /\ Consistent(ops, jobs)
      /\ \A p \in DOMAIN ops : ops[p] \in OperationRow
  <2>1. ops \in Seq(OperationRow) /\ jobs \in Seq(JobRow) /\ Consistent(ops, jobs)
    BY DEF Inv, Consistent
  <2> QED BY <2>1, ElementOfSeq, LenProperties
<1>2. ops' = Append(os, rec) /\ jobs' = js2 \o RestoreJobs(o, R)
  BY DEF RestoreRelations
<1>3. /\ Updates(jobs, js)
      /\ \A j \in DOMAIN jobs : js[j].status \in UnfinishedStatus => js[j].status = jobs[j].status
  BY <1>1, WithoutRelationsUpdates
<1>4. /\ gone \subseteq O
      /\ \A p \in gone : \A j \in Unfinished(js, p) : js[j].action # "vector_delete"
  BY DEF Superseded
<1>5. \A p \in O : ~DeleteRunning(p) /\ ops[p].status \in {"pending_cleanup", "completed"}
  BY DEF RestoreRelations, Superseding
<1> HIDE DEF O, js, gone
<1>6. /\ js \in Seq(JobRow) /\ DOMAIN js = DOMAIN jobs
      /\ Updates(js, js2) /\ Updates(jobs, js2)
  <2>1. js \in Seq(JobRow) /\ DOMAIN js = DOMAIN jobs
    BY <1>3 DEF Updates
  <2>2. Updates(js, js2)
    BY <2>1, CancelledUpdates
  <2> QED BY <2>1, <2>2, <1>3, UpdateTwice
<1>7. \A p \in gone : Unfinished(js2, p) = {}
  <2> SUFFICES ASSUME NEW p \in gone, NEW j \in DOMAIN js2, js2[j].op = p,
                      js2[j].status \in UnfinishedStatus
               PROVE  FALSE
    BY DEF Unfinished
  <2>1. /\ j \in DOMAIN js /\ js[j].op = p /\ js[j].status \in UnfinishedStatus
        /\ js[j].action = js2[j].action
    BY <1>6 DEF Updates
  <2>2. /\ j \in DOMAIN jobs /\ jobs[j].op = p /\ jobs[j].status \in UnfinishedStatus
        /\ jobs[j].action = js[j].action
    BY <2>1, <1>3 DEF Updates
  <2>3. ops[p].status = Expected(jobs[j].action)
    BY <2>2, <1>1 DEF Consistent
  <2>4. jobs[j].action \in DeleteActions
    BY <2>3, <1>4, <1>5 DEF Expected
  <2>5. j \in Unfinished(js, p)
    BY <2>1 DEF Unfinished
  <2>6. js[j].action = "graph_rebuild"
    BY <2>5, <2>4, <2>2, <1>4 DEF DeleteActions
  <2>7. js[j].status = "running"
    <3>1. j \in J
      BY <2>1, <2>6
    <3> QED BY <3>1, <2>1, <1>6, CancelledUpdates
  <2>8. jobs[j].status = "running"
    BY <2>2, <2>7, <1>3 DEF UnfinishedStatus
  <2> QED BY <2>2, <2>4, <2>8, <1>4, <1>5 DEF DeleteRunning
<1> HIDE DEF J, js2
<1>8. os \in Seq(OperationRow) /\ DOMAIN os = DOMAIN ops
  <2>1. ASSUME NEW p \in DOMAIN ops
        PROVE  [ops[p] EXCEPT !.status = "superseded"] \in OperationRow
    <3>1. ops[p] \in OperationRow
      BY <1>1
    <3> QED BY <3>1 DEF OperationRow
  <2>2. os \in [DOMAIN ops -> OperationRow]
    BY <2>1, <1>1
  <2> QED BY <2>2, <1>1, SequenceOn
<1>9. \A p \in DOMAIN ops : os[p].status = ops[p].status \/ Unfinished(js2, p) = {}
  BY <1>7
<1> HIDE DEF os
<1>10. Consistent(os, js2)
  <2>1. Consistent(ops, js2)
    BY <1>1, <1>6, UpdateKeeps
  <2> QED BY <2>1, <1>8, <1>9, StatusKeeps
<1>11. rec \in OperationRow
  BY DEF OperationRow, RestoreRelations, Resource
<1>12. Len(os) + 1 = o /\ o \in Nat
  <2>1. /\ DOMAIN os = 1 .. Len(os) /\ Len(os) \in Nat
        /\ DOMAIN ops = 1 .. Len(ops) /\ Len(ops) \in Nat
    BY <1>1, <1>8, LenProperties
  <2>2. Len(os) = Len(ops)
    BY <2>1, <1>8, SameDomain
  <2> QED BY <2>1, <2>2
<1> HIDE DEF o
<1>13. Consistent(ops', js2) /\ o \in DOMAIN ops' /\ ops'[o] = rec
  BY <1>2, <1>10, <1>11, <1>12, OperationKeeps
<1>14. \A a \in RestoreActions : ops'[o].status = Expected(a)
  BY <1>13 DEF Expected, RestoreActions, DeleteActions
<1>15. RestoreJobs(o, R) \in Seq(JobOf(o, RestoreActions))
  <2>1. R \in SUBSET Resource
    BY DEF Resource
  <2> QED BY <2>1, <1>12, RestoreJobsTyped
<1>16. Consistent(ops', js2 \o RestoreJobs(o, R))
  BY <1>13, <1>14, <1>15, NewJobsKeep
<1> QED BY <1>2, <1>16 DEF Inv

-----------------------------------------------------------------------------
\* The theorems

\* Steps of a round keep the tables consistent.
LEMMA RoundStepKeeps ==
    ASSUME Inv, RoundStep
    PROVE  Inv'
<1>1. CASE Claim
  BY <1>1, ClaimKeeps
<1>2. CASE EndRound
  BY <1>2, EndRoundKeeps
<1>3. ASSUME NEW j \in Job,
             \/ LoseLease(j) \/ DeleteRaises(j) \/ DeleteBreaks(j)
             \/ UpsertRollsBack(j) \/ UpsertBreaks(j) \/ NotWritten(j)
      PROVE  Inv'
  <2>1. \E J : Fail(J)
    BY <1>3 DEF LoseLease, DeleteRaises, DeleteBreaks, UpsertRollsBack, UpsertBreaks, NotWritten
  <2> QED BY <2>1, FailKeeps
<1>4. ASSUME NEW p \in Pool, FlushRollsBack(p) \/ FlushBreaks(p)
      PROVE  Inv'
  <2>1. \E J : Fail(J)
    BY <1>4 DEF FlushRollsBack, FlushBreaks
  <2> QED BY <2>1, FailKeeps
<1>5. ASSUME NEW j \in Job,
             NothingToDo(j) \/ Settle(j) \/ UpsertNothing(j) \/ UpsertDisabled(j)
      PROVE  Inv'
  <2>1. \E st \in {"completed", "cancelled"} : Complete(j, st)
    BY <1>5 DEF NothingToDo, Settle, UpsertNothing, UpsertDisabled
  <2> QED BY <2>1, CompleteKeeps DEF Job
<1>6. ASSUME NEW j \in Job,
             \/ DeleteInMemory(j) \/ Turn(j) \/ UpsertPresent(j) \/ AwaitEmbedding(j)
             \/ Write(j) \/ UpsertSaved(j)
      PROVE  Inv'
  BY <1>6 DEF DeleteInMemory, Turn, UpsertPresent, AwaitEmbedding, Write, UpsertSaved, durable, Inv
<1>7. ASSUME NEW p \in Pool, Flush(p)
      PROVE  Inv'
  BY <1>7 DEF Flush, Inv
<1>8. ASSUME NEW j \in Job, RebuildGraph(j)
      PROVE  Inv'
  <2>1. (\E J : Fail(J)) \/ UNCHANGED <<ops, jobs>>
    BY <1>8 DEF RebuildGraph
  <2> QED BY <2>1, FailKeeps DEF Inv
<1> QED BY <1>1, <1>2, <1>3, <1>4, <1>5, <1>6, <1>7, <1>8 DEF RoundStep, UpsertRevive, Embedded

\* Operations and jobs are consistent: the invariant the next theorem rests on.
THEOREM Tables == Spec => []Inv
<1>1. Init => Inv
  BY DEF Init, Inv, Consistent
<1>2. Inv /\ [Next]_vars => Inv'
  <2> SUFFICES ASSUME Inv, [Next]_vars PROVE Inv'
    OBVIOUS
  <2>1. CASE \E S \in SUBSET Resource : Delete(S)
    BY <2>1, DeleteKeeps
  <2>2. CASE \E o \in DOMAIN ops : Restore(o)
    BY <2>2, RestoreKeeps
  <2>3. CASE \E R \in SUBSET Relation : RestoreRelations(R)
    BY <2>3, RestoreRelationsKeeps
  <2>4. CASE RoundStep
    BY <2>4, RoundStepKeeps
  <2>5. CASE \E j \in Job : TimePasses(j)
    BY <2>5, TimeKeeps DEF Job
  <2>6. CASE \/ \E o \in DOMAIN ops : RestoreAgain(o)
             \/ StartRound \/ CancelRound
             \/ \E i \in Resource : Ingest(i) \/ IngestEmbedded(i)
             \/ Save \/ Crash \/ UNCHANGED vars
    BY <2>6 DEF RestoreAgain, StartRound, CancelRound, Ingest, IngestEmbedded, Save, Crash,
                vars, durable, Inv
  <2> QED BY <2>1, <2>2, <2>3, <2>4, <2>5, <2>6 DEF Next
<1> QED BY <1>1, <1>2, PTL DEF Spec

\* No delete job and restore job of one operation are ever unfinished together,
\* and an operation in a final status has none: whatever restores, cancellations,
\* failures, lost leases and crashes came in between.
THEOREM NeverBoth == Spec => []UnfinishedIsWanted
<1>1. Inv => UnfinishedIsWanted
  BY DEF Inv, Consistent, UnfinishedIsWanted, StillWanted, Job
<1> QED BY <1>1, Tables, PTL


-----------------------------------------------------------------------------
(* Second part: the stores and the round. *)

Rounds == [phase : {"idle", "claim", "run", "embed"}, scope : Nat, queue : SUBSET Nat, cur : Nat,
           wrote : {"nothing", "present", "added"}, batch : [Pool -> SUBSET Nat],
           settle : SUBSET Nat]

-----------------------------------------------------------------------------
(* The record of a round, one field at a time. *)

LEMMA SetPhase ==
    ASSUME NEW r \in Rounds, NEW v \in {"idle", "claim", "run", "embed"}, NEW s, s = [r EXCEPT !.phase = v]
    PROVE  /\ s \in Rounds /\ s.phase = v /\ s.scope = r.scope /\ s.queue = r.queue
           /\ s.cur = r.cur /\ s.wrote = r.wrote /\ s.batch = r.batch /\ s.settle = r.settle
BY DEF Rounds

LEMMA SetQueue ==
    ASSUME NEW r \in Rounds, NEW v \in SUBSET Nat, NEW s, s = [r EXCEPT !.queue = v]
    PROVE  /\ s \in Rounds /\ s.queue = v /\ s.phase = r.phase /\ s.scope = r.scope
           /\ s.cur = r.cur /\ s.wrote = r.wrote /\ s.batch = r.batch /\ s.settle = r.settle
BY DEF Rounds

LEMMA SetCur ==
    ASSUME NEW r \in Rounds, NEW v \in Nat, NEW s, s = [r EXCEPT !.cur = v]
    PROVE  /\ s \in Rounds /\ s.cur = v /\ s.phase = r.phase /\ s.scope = r.scope
           /\ s.queue = r.queue /\ s.wrote = r.wrote /\ s.batch = r.batch /\ s.settle = r.settle
BY DEF Rounds

LEMMA SetWrote ==
    ASSUME NEW r \in Rounds, NEW v \in {"nothing", "present", "added"}, NEW s, s = [r EXCEPT !.wrote = v]
    PROVE  /\ s \in Rounds /\ s.wrote = v /\ s.phase = r.phase /\ s.scope = r.scope
           /\ s.queue = r.queue /\ s.cur = r.cur /\ s.batch = r.batch /\ s.settle = r.settle
BY DEF Rounds

LEMMA SetSettle ==
    ASSUME NEW r \in Rounds, NEW v \in SUBSET Nat, NEW s, s = [r EXCEPT !.settle = v]
    PROVE  /\ s \in Rounds /\ s.settle = v /\ s.phase = r.phase /\ s.scope = r.scope
           /\ s.queue = r.queue /\ s.cur = r.cur /\ s.wrote = r.wrote /\ s.batch = r.batch
BY DEF Rounds

WithBatch(r, p, v) == [r EXCEPT !.batch[p] = v]

LEMMA SetBatch ==
    ASSUME NEW r \in Rounds, NEW p \in Pool, NEW v \in SUBSET Nat, NEW s, s = WithBatch(r, p, v)
    PROVE  /\ s \in Rounds /\ s.phase = r.phase /\ s.scope = r.scope /\ s.queue = r.queue
           /\ s.cur = r.cur /\ s.wrote = r.wrote /\ s.settle = r.settle
           /\ \A q \in Pool : s.batch[q] = IF q = p THEN v ELSE r.batch[q]
<1> DEFINE b == [r.batch EXCEPT ![p] = v]
<1>1. s = [r EXCEPT !.batch = b]
  BY Zenon DEF WithBatch
<1>2. b \in [Pool -> SUBSET Nat] /\ \A q \in Pool : b[q] = IF q = p THEN v ELSE r.batch[q]
  BY DEF Rounds
<1> HIDE DEF b
<1>3. /\ s \in Rounds /\ s.phase = r.phase /\ s.scope = r.scope /\ s.queue = r.queue
      /\ s.cur = r.cur /\ s.wrote = r.wrote /\ s.settle = r.settle /\ s.batch = b
  BY <1>1, <1>2 DEF Rounds
<1> QED BY <1>2, <1>3

LEMMA Taking ==
    ASSUME round \in Rounds, NEW j, NEW s, s = Taken(j)
    PROVE  /\ s \in Rounds /\ s.queue = round.queue \ {j} /\ s.phase = round.phase
           /\ s.scope = round.scope /\ s.cur = round.cur /\ s.wrote = round.wrote
           /\ s.batch = round.batch /\ s.settle = round.settle
<1> DEFINE v == round.queue \ {j}
<1>1. v \in SUBSET Nat /\ s = [round EXCEPT !.queue = v]
  BY DEF Rounds, Taken
<1> HIDE DEF v
<1>2. /\ s \in Rounds /\ s.queue = v /\ s.phase = round.phase /\ s.scope = round.scope
      /\ s.cur = round.cur /\ s.wrote = round.wrote /\ s.batch = round.batch /\ s.settle = round.settle
  BY <1>1, SetQueue
<1> QED BY <1>2 DEF v

LEMMA NewRound ==
    ASSUME NEW o \in Nat, NEW s, s = RoundFor(o) \/ s = NoRound
    PROVE  /\ s \in Rounds /\ s.phase \in {"idle", "claim"} /\ s.scope \in {0, o} /\ s.queue = {}
           /\ s.cur = 0 /\ s.wrote = "nothing" /\ s.settle = {} /\ \A p \in Pool : s.batch[p] = {}
<1>1. /\ NoRound \in Rounds /\ NoRound.phase = "idle" /\ NoRound.scope = 0 /\ NoRound.queue = {}
      /\ NoRound.cur = 0 /\ NoRound.wrote = "nothing" /\ NoRound.settle = {}
      /\ \A p \in Pool : NoRound.batch[p] = {}
  BY DEF NoRound, Rounds
<1>2. CASE s = RoundFor(o)
  <2> DEFINE t == [NoRound EXCEPT !.phase = "claim"]
  <2>1. s = [t EXCEPT !.scope = o]
    BY <1>2, Zenon DEF RoundFor
  <2>2. /\ t \in Rounds /\ t.phase = "claim" /\ t.queue = {}
        /\ t.cur = 0 /\ t.wrote = "nothing" /\ t.settle = {} /\ t.batch = NoRound.batch
    BY <1>1, SetPhase
  <2> HIDE DEF t
  <2>3. /\ s \in Rounds /\ s.phase = "claim" /\ s.scope = o /\ s.queue = {}
        /\ s.cur = 0 /\ s.wrote = "nothing" /\ s.settle = {} /\ s.batch = NoRound.batch
    BY <2>1, <2>2 DEF Rounds
  <2> QED BY <2>3, <1>1
<1> QED BY <1>1, <1>2

LEMMA IsDone ==
    ASSUME round \in Rounds, NEW s, s = Done
    PROVE  /\ s \in Rounds /\ s.phase = "run" /\ s.cur = 0 /\ s.wrote = "nothing"
           /\ s.scope = round.scope /\ s.queue = round.queue
           /\ s.batch = round.batch /\ s.settle = round.settle
<1> DEFINE t == [round EXCEPT !.phase = "run"]
           u == [t EXCEPT !.cur = 0]
<1>1. s = [u EXCEPT !.wrote = "nothing"]
  BY Zenon DEF Done
<1>2. /\ t \in Rounds /\ t.phase = "run" /\ t.scope = round.scope /\ t.queue = round.queue
      /\ t.cur = round.cur /\ t.wrote = round.wrote /\ t.batch = round.batch /\ t.settle = round.settle
  BY SetPhase
<1> HIDE DEF t
<1>3. /\ u \in Rounds /\ u.cur = 0 /\ u.phase = t.phase /\ u.scope = t.scope
      /\ u.queue = t.queue /\ u.wrote = t.wrote /\ u.batch = t.batch /\ u.settle = t.settle
  BY <1>2, SetCur
<1> HIDE DEF u
<1> QED BY <1>1, <1>2, <1>3, SetWrote

-----------------------------------------------------------------------------
(* The invariant. *)

\* A job that has not ended does action a on resource i.
Due(js, a, i) == \E j \in DOMAIN js : js[j].status \in UnfinishedStatus /\ js[j].action = a
                                      /\ i \in js[j].ids

GraphActions == {"graph_rebuild", "graph_restore"}

GraphDue(js) == \E j \in DOMAIN js : js[j].status \in UnfinishedStatus /\ js[j].action \in GraphActions

\* A delete names items of its operation, of one type; an upsert one resource.
Named(os, js) ==
    \A j \in DOMAIN js :
        /\ js[j].action = "vector_delete" =>
              /\ js[j].ids \subseteq os[js[j].op].items
              /\ \E T \in {Paragraph, Entity, Relation} : js[j].ids \subseteq T
        /\ js[j].action = "vector_upsert" => \E i \in Resource : js[j].ids = {i}

\* Restores always write vectors, and an ingestion that waits ends with one.
VectorsReturn == VectorModes = {TRUE} /\ (Entity = {} \/ ~SlowIngest)

DeletesDue ==
    ~SlowIngest => ingesting = {} /\ \A i \in (mem \cup disk) \ live : Due(jobs, "vector_delete", i)

RelationsDue ==
    VectorModes = {TRUE} => \A r \in (Relation \cap live) \ (mem \cap disk) : Due(jobs, "vector_upsert", r)

ReadyDue == \A r \in ready \ (mem \cap disk) : Due(jobs, "vector_upsert", r)

RevivedDue ==
    VectorsReturn => \A i \in (disk \cap live) \ mem :
        PoolOf(i) \in broken \/ i \in ingesting \/ Due(jobs, "vector_upsert", i)

GraphIsDue == graph # Relation \cap live \/ graphDisk # Relation \cap live => GraphDue(jobs)

VectorsDue == DeletesDue /\ RelationsDue /\ ReadyDue /\ RevivedDue

\* Job j has done its work.
Achieved(j) ==
    /\ jobs[j].action = "vector_delete" => jobs[j].ids \cap (mem \cup disk) \subseteq live
    /\ jobs[j].action = "vector_upsert" => jobs[j].ids \subseteq live \cap mem \cap disk
    /\ jobs[j].action \in GraphActions => graph = Relation \cap live /\ graphDisk = Relation \cap live

\* What a batch deletes is out of its pool in memory.
Batched(p) == \A j \in round.batch[p] : /\ jobs[j].action = "vector_delete"
                                        /\ jobs[j].ids \cap mem \subseteq live
                                        /\ \A i \in jobs[j].ids : PoolOf(i) = p

Settling == \A j \in round.settle : /\ Achieved(j)
                                    /\ round.cur # 0 => jobs[j].action = "vector_delete"

Current == round.cur # 0 => /\ jobs[round.cur].status \in UnfinishedStatus
                            /\ jobs[round.cur].action # "vector_delete"

Quiet == round.settle = {} /\ \A p \in Pool : round.batch[p] = {}

Upserted == /\ Quiet /\ round.cur # 0
            /\ jobs[round.cur].action = "vector_upsert"

Phases == /\ round.phase # "run" => Quiet /\ round.wrote = "nothing"
          /\ round.phase \in {"idle", "claim"} => round.cur = 0
          /\ round.phase = "embed" => Upserted
          /\ round.wrote # "nothing" => Upserted /\ jobs[round.cur].ids \subseteq mem

RoundKnows == (\A p \in Pool : Batched(p)) /\ Settling /\ Current /\ Phases

RoundTyped ==
    /\ round \in Rounds
    /\ round.scope \in {0} \cup DOMAIN ops
    /\ round.cur \in {0} \cup Job
    /\ round.queue \subseteq Job /\ round.settle \subseteq Job
    /\ \A p \in Pool : round.batch[p] \subseteq Job

StoresTyped ==
    /\ live \subseteq Resource /\ mem \subseteq Resource /\ disk \subseteq Resource
    /\ ready \subseteq Relation \cap live
    /\ graph \subseteq Relation /\ graphDisk \subseteq Relation
    /\ broken \subseteq Pool /\ stuck \subseteq Pool
    /\ relationVectors \in VectorModes
    /\ ingesting \subseteq Resource
    /\ faults \in 0 .. MaxFaults

Owing == StoresTyped /\ RoundTyped /\ Named(ops, jobs) /\ VectorsDue /\ GraphIsDue /\ RoundKnows

-----------------------------------------------------------------------------
(* The jobs of a table go on. *)

\* All jobs of js but those in gone are as unfinished in js2 as they were.
Carries(js, js2, gone) ==
    \A j \in DOMAIN js : /\ j \in DOMAIN js2 /\ js2[j].op = js[j].op
                         /\ js2[j].action = js[j].action /\ js2[j].ids = js[j].ids
                         /\ js[j].status \in UnfinishedStatus /\ j \notin gone
                               => js2[j].status \in UnfinishedStatus

Turned(rec, st) == [rec EXCEPT !.status = st, !.claimable = FALSE]

LEMMA RowSet ==
    ASSUME NEW rec \in JobRow, NEW st
    PROVE  /\ Turned(rec, st).op = rec.op /\ Turned(rec, st).action = rec.action
           /\ Turned(rec, st).ids = rec.ids /\ Turned(rec, st).status = st
BY DEF JobRow, Turned

LEMMA RowClaimable ==
    ASSUME NEW rec \in JobRow, NEW new, new = [rec EXCEPT !.claimable = TRUE]
    PROVE  new.op = rec.op /\ new.action = rec.action /\ new.ids = rec.ids /\ new.status = rec.status
BY DEF JobRow

LEMMA FailCarries ==
    ASSUME Inv, NEW J, Fail(J)
    PROVE  Carries(jobs, jobs', {}) /\ DOMAIN jobs' = DOMAIN jobs /\ ops' = ops
<1>1. ops' = ops /\ DOMAIN jobs' = DOMAIN jobs /\ jobs \in Seq(JobRow)
  BY DEF Fail, Inv, Consistent
<1>2. ASSUME NEW j \in DOMAIN jobs
      PROVE  /\ jobs'[j].op = jobs[j].op /\ jobs'[j].action = jobs[j].action /\ jobs'[j].ids = jobs[j].ids
             /\ jobs[j].status \in UnfinishedStatus => jobs'[j].status \in UnfinishedStatus
  <2>1. jobs'[j] = jobs[j] \/ jobs'[j] = Turned(jobs[j], "failed")
    BY DEF Fail, Turned
  <2>2. jobs[j] \in JobRow
    BY <1>1, RowOf
  <2>3. CASE jobs'[j] = Turned(jobs[j], "failed")
    <3>1. /\ jobs'[j].op = jobs[j].op /\ jobs'[j].action = jobs[j].action
          /\ jobs'[j].ids = jobs[j].ids /\ jobs'[j].status = "failed"
      BY <2>2, <2>3, RowSet
    <3> QED BY <3>1 DEF UnfinishedStatus
  <2> QED BY <2>1, <2>3
<1> QED BY <1>1, <1>2 DEF Carries

LEMMA ClaimCarries ==
    ASSUME Inv, Claim
    PROVE  Carries(jobs, jobs', {}) /\ DOMAIN jobs' = DOMAIN jobs /\ ops' = ops
<1>1. ops' = ops /\ DOMAIN jobs' = DOMAIN jobs /\ jobs \in Seq(JobRow)
  BY DEF Claim, Inv, Consistent
<1>2. ASSUME NEW j \in DOMAIN jobs
      PROVE  /\ jobs'[j].op = jobs[j].op /\ jobs'[j].action = jobs[j].action /\ jobs'[j].ids = jobs[j].ids
             /\ jobs[j].status \in UnfinishedStatus => jobs'[j].status \in UnfinishedStatus
  <2>1. jobs'[j] = jobs[j] \/ jobs'[j] = Turned(jobs[j], "running")
    BY DEF Claim, Turned
  <2>2. jobs[j] \in JobRow
    BY <1>1, RowOf
  <2>3. CASE jobs'[j] = Turned(jobs[j], "running")
    <3>1. /\ jobs'[j].op = jobs[j].op /\ jobs'[j].action = jobs[j].action
          /\ jobs'[j].ids = jobs[j].ids /\ jobs'[j].status = "running"
      BY <2>2, <2>3, RowSet
    <3> QED BY <3>1 DEF UnfinishedStatus
  <2> QED BY <2>1, <2>3
<1> QED BY <1>1, <1>2 DEF Carries

LEMMA TimeCarries ==
    ASSUME Inv, NEW i \in DOMAIN jobs, TimePasses(i)
    PROVE  Carries(jobs, jobs', {}) /\ DOMAIN jobs' = DOMAIN jobs /\ ops' = ops
<1>1. ops' = ops /\ DOMAIN jobs' = DOMAIN jobs /\ jobs \in Seq(JobRow)
  BY DEF TimePasses, Inv, Consistent
<1>2. ASSUME NEW j \in DOMAIN jobs
      PROVE  /\ jobs'[j].op = jobs[j].op /\ jobs'[j].action = jobs[j].action /\ jobs'[j].ids = jobs[j].ids
             /\ jobs'[j].status = jobs[j].status
  <2>1. jobs'[j] = jobs[j] \/ jobs'[j] = [jobs[j] EXCEPT !.claimable = TRUE]
    BY DEF TimePasses
  <2>2. jobs[j] \in JobRow
    BY <1>1, RowOf
  <2> QED BY <2>1, <2>2, RowClaimable
<1> QED BY <1>1, <1>2 DEF Carries

LEMMA CompleteCarries ==
    ASSUME Inv, NEW i \in DOMAIN jobs, NEW st, Complete(i, st)
    PROVE  /\ Carries(jobs, jobs', {i}) /\ DOMAIN jobs' = DOMAIN jobs
           /\ DOMAIN ops' = DOMAIN ops /\ \A o \in DOMAIN ops : ops'[o].items = ops[o].items
           /\ \A j \in DOMAIN jobs : j # i => jobs'[j] = jobs[j]
<1>1. /\ DOMAIN ops' = DOMAIN ops /\ DOMAIN jobs' = DOMAIN jobs
      /\ jobs \in Seq(JobRow) /\ ops \in Seq(OperationRow)
  BY DEF Complete, Reconciled, Inv, Consistent
<1>2. ASSUME NEW j \in DOMAIN jobs
      PROVE  /\ jobs'[j].op = jobs[j].op /\ jobs'[j].action = jobs[j].action /\ jobs'[j].ids = jobs[j].ids
             /\ j # i => jobs'[j] = jobs[j]
  <2>1. jobs'[j] = IF j = i THEN Turned(jobs[j], st) ELSE jobs[j]
    BY DEF Complete, Turned
  <2>2. jobs[j] \in JobRow
    BY <1>1, RowOf
  <2>3. CASE j = i
    <3>1. jobs'[j] = Turned(jobs[j], st)
      BY <2>1, <2>3
    <3> QED BY <2>2, <2>3, <3>1, RowSet
  <2> QED BY <2>1, <2>3
<1>3. ASSUME NEW o \in DOMAIN ops PROVE ops'[o].items = ops[o].items
  <2>1. ops[o] \in OperationRow
    BY <1>1, ElementOfSeq, LenProperties
  <2>2. ops'[o] = ops[o] \/ ops'[o] = [ops[o] EXCEPT !.status = Settles[ops[o].status]]
    BY DEF Complete, Reconciled
  <2> QED BY <2>1, <2>2 DEF OperationRow
<1> QED BY <1>1, <1>2, <1>3 DEF Carries

LEMMA SameCarries == Carries(jobs, jobs, {})
BY DEF Carries

LEMMA DueCarries ==
    ASSUME NEW js, NEW js2, NEW gone, Carries(js, js2, gone)
    PROVE  /\ \A a, i : Due(js, a, i) /\ (\A j \in gone : ~(js[j].action = a /\ i \in js[j].ids))
                           => Due(js2, a, i)
           /\ GraphDue(js) /\ (\A j \in gone : js[j].action \notin GraphActions) => GraphDue(js2)
BY DEF Carries, Due, GraphDue

LEMMA NamedKept ==
    ASSUME Inv, Named(ops, jobs), NEW gone, Carries(jobs, jobs', gone), DOMAIN jobs' = DOMAIN jobs,
           \A o \in DOMAIN ops : ops'[o].items = ops[o].items
    PROVE  Named(ops, jobs)'
<1>1. ASSUME NEW j \in DOMAIN jobs
      PROVE  /\ jobs[j].op \in DOMAIN ops /\ ops'[jobs[j].op].items = ops[jobs[j].op].items
             /\ jobs'[j].op = jobs[j].op /\ jobs'[j].action = jobs[j].action /\ jobs'[j].ids = jobs[j].ids
  BY DEF Inv, Consistent, Carries
<1> QED BY <1>1 DEF Named

-----------------------------------------------------------------------------
(* The stores. *)

LEMMA Pools ==
    /\ \A i \in Resource : PoolOf(i) \in Pool
    /\ \A from, to, p : /\ Copy(from, to, p) \subseteq Resource
                        /\ \A i \in Resource : i \in Copy(from, to, p) <=>
                               (PoolOf(i) = p /\ i \in from) \/ (PoolOf(i) # p /\ i \in to)
BY DEF PoolOf, Pool, Copy

\* No vector of a live resource leaves memory or the saved pool, no other vector comes
\* to either, and none of the first is only saved that was not before.
Steady ==
    \A i \in Resource :
        /\ i \in live /\ i \in mem /\ i \in disk => i \in mem' /\ i \in disk'
        /\ i \notin live /\ (i \in mem' \/ i \in disk') => i \in mem \/ i \in disk
        /\ i \in live /\ i \in disk' /\ i \notin mem' => i \in disk /\ i \notin mem

LEMMA VectorsStep ==
    ASSUME StoresTyped, StoresTyped', VectorsDue, live' = live, Steady, Carries(jobs, jobs', {}),
           \A r \in ready' : r \in ready \/ Due(jobs', "vector_upsert", r),
           (broken \subseteq broken' /\ ingesting' = ingesting) \/ (mem' = disk' /\ ingesting' \subseteq ingesting)
    PROVE  VectorsDue'
<1>1. \A a, i : Due(jobs, a, i) => Due(jobs', a, i)
  BY DueCarries
<1>2. DeletesDue'
  BY <1>1 DEF StoresTyped, VectorsDue, DeletesDue, Steady
<1>3. RelationsDue'
  BY <1>1 DEF StoresTyped, VectorsDue, RelationsDue, Steady, Resource
<1>4. ReadyDue'
  BY <1>1 DEF StoresTyped, VectorsDue, ReadyDue, Steady, Resource
<1>5. RevivedDue'
  BY <1>1 DEF StoresTyped, VectorsDue, RevivedDue, Steady
<1> QED BY <1>2, <1>3, <1>4, <1>5 DEF VectorsDue

LEMMA VectorsJobEnds ==
    ASSUME StoresTyped, VectorsDue, UNCHANGED <<live, mem, disk, broken, ingesting>>, ready' \subseteq ready,
           NEW j \in Job, Carries(jobs, jobs', {j}),
           jobs[j].action = "vector_delete" => jobs[j].ids \cap (mem \cup disk) \subseteq live,
           jobs[j].action = "vector_upsert" =>
              \A i \in jobs[j].ids : \/ i \in mem /\ i \in disk
                                     \/ i \notin live
                                     \/ ~relationVectors /\ i \notin ready'
    PROVE  VectorsDue'
<1>1. \A a, i : Due(jobs, a, i) /\ ~(jobs[j].action = a /\ i \in jobs[j].ids) => Due(jobs', a, i)
  BY DueCarries
<1>2. DeletesDue'
  BY <1>1 DEF VectorsDue, DeletesDue
<1>3. VectorModes = {TRUE} => relationVectors
  BY DEF StoresTyped
<1>4. RelationsDue'
  BY <1>1, <1>3 DEF VectorsDue, RelationsDue
<1>5. ReadyDue'
  BY <1>1 DEF StoresTyped, VectorsDue, ReadyDue
<1>6. RevivedDue'
  BY <1>1, <1>3 DEF VectorsDue, RevivedDue, VectorsReturn
<1> QED BY <1>2, <1>4, <1>5, <1>6 DEF VectorsDue

LEMMA GraphStep ==
    ASSUME GraphIsDue, live' = live, NEW gone, Carries(jobs, jobs', gone),
           \A j \in gone : \/ jobs[j].action \notin GraphActions
                           \/ graph = Relation \cap live /\ graphDisk = Relation \cap live,
           graph' = Relation \cap live \/ graph' = graph \/ graph' = graphDisk,
           graphDisk' = Relation \cap live \/ graphDisk' = graphDisk \/ graphDisk' = graph
    PROVE  GraphIsDue'
BY DueCarries DEF GraphIsDue

\* A round at rest knows nothing.
LEMMA AtRest ==
    ASSUME Quiet', round'.cur = 0, round'.wrote = "nothing", round'.phase # "embed"
    PROVE  RoundKnows'
BY DEF RoundKnows, Batched, Settling, Current, Phases, Quiet

\* Ending jobs other than the one at work, and giving some up, takes nothing from what
\* a round knows.
LEMMA RoundShrinks ==
    ASSUME RoundTyped, RoundKnows, UNCHANGED <<live, mem, disk, graph, graphDisk>>,
           NEW gone, Carries(jobs, jobs', gone),
           round'.settle \subseteq round.settle, \A p \in Pool : round'.batch[p] \subseteq round.batch[p],
           round'.cur = round.cur, round'.phase = round.phase, round'.wrote = round.wrote,
           round.cur # 0 => round.cur \notin gone
    PROVE  RoundKnows'
<1>1. \A j \in Job : jobs'[j].action = jobs[j].action /\ jobs'[j].ids = jobs[j].ids
  BY DEF Carries, Job
<1>2. \A p \in Pool : Batched(p)'
  BY <1>1 DEF RoundKnows, Batched, RoundTyped
<1>3. Settling'
  BY <1>1 DEF RoundKnows, Settling, Achieved, RoundTyped
<1>4. Current'
  BY DEF RoundKnows, Current, RoundTyped, Carries, Job
<1>5. Phases'
  BY <1>1 DEF RoundKnows, Phases, Upserted, Quiet, RoundTyped
<1> QED BY <1>2, <1>3, <1>4, <1>5 DEF RoundKnows

\* The types of a round that goes on.
LEMMA RoundGoesOn ==
    ASSUME RoundTyped, DOMAIN ops \subseteq DOMAIN ops', Job \subseteq Job', round' \in Rounds,
           round'.scope \in {0, round.scope} \cup DOMAIN ops', round'.cur \in {0} \cup Job,
           round'.queue \subseteq Job, round'.settle \subseteq Job,
           \A p \in Pool : round'.batch[p] \subseteq Job
    PROVE  RoundTyped'
BY DEF RoundTyped

-----------------------------------------------------------------------------
(* Between the steps of a round. *)

LEMMA Numbers ==
    ASSUME Inv
    PROVE  Job \subseteq Nat /\ DOMAIN ops \subseteq Nat
BY LenProperties DEF Inv, Consistent, Job

LEMMA Faulted ==
    ASSUME faults \in 0 .. MaxFaults, Fault \/ faults' = faults
    PROVE  faults' \in 0 .. MaxFaults
BY ParametersAssumption DEF Fault

LEMMA SameNamed ==
    ASSUME Inv, Named(ops, jobs), NEW gone, Carries(jobs, jobs', gone), DOMAIN jobs' = DOMAIN jobs, ops' = ops
    PROVE  Named(ops, jobs)'
BY NamedKept DEF Inv, Consistent

LEMMA SameJobs ==
    ASSUME jobs' = jobs
    PROVE  Carries(jobs, jobs', {}) /\ DOMAIN jobs' = DOMAIN jobs /\ Job' = Job
BY SameCarries DEF Job

LEMMA RestUntouched ==
    ASSUME StoresTyped, UNCHANGED <<mem, disk>>
    PROVE  Steady
BY DEF Steady

\* A round begins or ends, and nothing else changes but the status of operations.
LEMMA BeginsOrEnds ==
    ASSUME Inv, Owing, DOMAIN ops' = DOMAIN ops, \A o \in DOMAIN ops : ops'[o].items = ops[o].items,
           UNCHANGED <<live, ready, jobs, disk, graphDisk, stores>>, Fault \/ faults' = faults,
           NEW o \in {0} \cup DOMAIN ops, round' = RoundFor(o) \/ round' = NoRound
    PROVE  Owing'
<1>1. o \in Nat
  BY LenProperties DEF Inv, Consistent
<1>2. /\ round' \in Rounds /\ round'.phase \in {"idle", "claim"} /\ round'.scope \in {0, o}
      /\ round'.queue = {} /\ round'.cur = 0 /\ round'.wrote = "nothing" /\ round'.settle = {}
      /\ \A p \in Pool : round'.batch[p] = {}
  BY <1>1, NewRound
<1>3. Carries(jobs, jobs', {}) /\ DOMAIN jobs' = DOMAIN jobs /\ Job' = Job
  BY SameJobs
<1>4. StoresTyped'
  BY Faulted DEF Owing, StoresTyped, stores
<1>5. RoundTyped'
  BY <1>2, <1>3 DEF RoundTyped
<1>6. Named(ops, jobs)'
  BY <1>3, NamedKept DEF Owing
<1>7. VectorsDue'
  BY <1>3, <1>4, RestUntouched, VectorsStep DEF Owing, stores
<1>8. GraphIsDue'
  BY <1>3, GraphStep DEF Owing, stores
<1>9. RoundKnows'
  BY <1>2, AtRest DEF Quiet
<1> QED BY <1>4, <1>5, <1>6, <1>7, <1>8, <1>9 DEF Owing

LEMMA ClaimOwing ==
    ASSUME Inv, Owing, Claim
    PROVE  Owing'
<1>1. Carries(jobs, jobs', {}) /\ DOMAIN jobs' = DOMAIN jobs /\ ops' = ops
  BY ClaimCarries
<1>2. PICK taken \in SUBSET Job : round' = [round EXCEPT !.phase = "run", !.queue = taken]
  BY DEF Claim, Job
<1>3. /\ round \in Rounds /\ taken \in SUBSET Nat /\ Job' = Job
      /\ round.phase = "claim" /\ UNCHANGED <<live, ready, disk, graphDisk, stores, faults>>
  BY <1>1, Numbers DEF Owing, RoundTyped, Job, Claim
<1>4. /\ round' \in Rounds /\ round'.phase = "run" /\ round'.scope = round.scope /\ round'.queue = taken
      /\ round'.cur = round.cur /\ round'.wrote = round.wrote /\ round'.batch = round.batch
      /\ round'.settle = round.settle
  <2> DEFINE r == [round EXCEPT !.phase = "run"]
  <2>1. round' = [r EXCEPT !.queue = taken]
    BY <1>2, Zenon
  <2>2. /\ r \in Rounds /\ r.phase = "run" /\ r.scope = round.scope /\ r.cur = round.cur
        /\ r.wrote = round.wrote /\ r.batch = round.batch /\ r.settle = round.settle
    BY <1>3, SetPhase
  <2> HIDE DEF r
  <2> QED BY <1>3, <2>1, <2>2, SetQueue
<1>5. Quiet' /\ round'.cur = 0 /\ round'.wrote = "nothing"
  BY <1>3, <1>4 DEF Owing, RoundKnows, Phases, Quiet
<1>6. StoresTyped'
  BY <1>3 DEF Owing, StoresTyped, stores
<1>7. RoundTyped'
  BY <1>1, <1>3, <1>4 DEF Owing, RoundTyped
<1>8. Named(ops, jobs)'
  BY <1>1, SameNamed DEF Owing
<1>9. VectorsDue'
  BY <1>1, <1>3, <1>6, RestUntouched, VectorsStep DEF Owing, stores
<1>10. GraphIsDue'
  BY <1>1, <1>3, GraphStep DEF Owing, stores
<1>11. RoundKnows'
  BY <1>4, <1>5, AtRest
<1> QED BY <1>6, <1>7, <1>8, <1>9, <1>10, <1>11 DEF Owing

LEMMA TimeOwing ==
    ASSUME Inv, Owing, NEW j \in Job, TimePasses(j)
    PROVE  Owing'
<1>1. Carries(jobs, jobs', {}) /\ DOMAIN jobs' = DOMAIN jobs /\ Job' = Job
  BY TimeCarries DEF Job
<1>2. UNCHANGED <<live, ready, ops, disk, graphDisk, stores, round>> /\ (Fault \/ faults' = faults)
  BY DEF TimePasses
<1>3. StoresTyped'
  BY <1>2, Faulted DEF Owing, StoresTyped, stores
<1>4. RoundTyped'
  BY <1>1, <1>2 DEF Owing, RoundTyped
<1>5. Named(ops, jobs)'
  BY <1>1, <1>2, SameNamed DEF Owing
<1>6. VectorsDue'
  BY <1>1, <1>2, <1>3, RestUntouched, VectorsStep DEF Owing, stores
<1>7. GraphIsDue'
  BY <1>1, <1>2, GraphStep DEF Owing, stores
<1>8. RoundKnows'
  BY <1>1, <1>2, RoundShrinks DEF Owing, stores
<1> QED BY <1>3, <1>4, <1>5, <1>6, <1>7, <1>8 DEF Owing

\* While the event loop is free a round holds nothing the others could change.
LEMMA FreeOwing ==
    ASSUME Inv, Owing, StoresTyped', LoopFree, UNCHANGED <<ops, jobs, round>>, VectorsDue', GraphIsDue'
    PROVE  Owing'
<1>1. Carries(jobs, jobs', {}) /\ DOMAIN jobs' = DOMAIN jobs /\ Job' = Job
  BY SameJobs
<1>2. Quiet /\ round.wrote = "nothing"
  BY DEF LoopFree, Owing, RoundKnows, Phases
<1>3. RoundKnows'
  <2>1. (\A p \in Pool : Batched(p)') /\ Settling'
    BY <1>2 DEF Quiet, Batched, Settling
  <2>2. Current' /\ Phases'
    BY <1>2 DEF Owing, RoundKnows, Current, Phases, Quiet, Upserted
  <2> QED BY <2>1, <2>2 DEF RoundKnows
<1>4. RoundTyped' /\ Named(ops, jobs)'
  BY <1>1 DEF Owing, RoundTyped
<1> QED BY <1>3, <1>4 DEF Owing

LEMMA SaveOwing ==
    ASSUME Inv, Owing, Save
    PROVE  Owing'
<1>1. LoopFree /\ UNCHANGED <<live, ready, ops, jobs, stores, round, faults>>
  BY DEF Save
<1>2. Carries(jobs, jobs', {})
  BY <1>1, SameJobs
<1>3. disk' = disk \/ \E p \in Pool : disk' = Copy(mem, disk, p)
  BY DEF Save
<1>4. StoresTyped'
  BY <1>1, <1>3, Pools DEF Save, Owing, StoresTyped, stores
<1>7. Steady
  BY <1>1, <1>3, Pools DEF Steady, stores
<1>5. VectorsDue'
  BY <1>1, <1>2, <1>4, <1>7, VectorsStep DEF Owing, stores
<1>6. GraphIsDue'
  BY <1>1, <1>2, GraphStep DEF Owing, stores, Save
<1> QED BY <1>1, <1>4, <1>5, <1>6, FreeOwing

LEMMA IngestOwing ==
    ASSUME Inv, Owing, NEW i \in Resource, Ingest(i)
    PROVE  Owing'
<1>1. /\ LoopFree /\ UNCHANGED <<ready, ops, jobs, disk, graph, graphDisk, broken, stuck, relationVectors,
                                 round, faults>>
      /\ i \in Resource \ live /\ i \notin Relation /\ live' = live \cup {i}
  BY ParametersAssumption DEF Ingest, Resource
<1>2. /\ mem' = mem \/ mem' = mem \cup {i}
      /\ ingesting' = ingesting \/ (SlowIngest /\ ingesting' = ingesting \cup {i})
      /\ i \in mem' \/ PoolOf(i) \in broken \/ i \in ingesting'
  BY DEF Ingest
<1>3. StoresTyped'
  BY <1>1, <1>2 DEF Owing, StoresTyped
<1>4. DeletesDue'
  BY <1>1, <1>2 DEF Owing, VectorsDue, DeletesDue
<1>5. RelationsDue' /\ ReadyDue'
  BY <1>1, <1>2 DEF Owing, VectorsDue, RelationsDue, ReadyDue
<1>6. RevivedDue'
  BY <1>1, <1>2 DEF Owing, VectorsDue, RevivedDue
<1>7. Relation \cap live' = Relation \cap live
  BY <1>1
<1>8. GraphIsDue'
  BY <1>1, <1>7 DEF Owing, GraphIsDue
<1> QED BY <1>1, <1>3, <1>4, <1>5, <1>6, <1>8, FreeOwing DEF VectorsDue

LEMMA IngestEmbeddedOwing ==
    ASSUME Inv, Owing, NEW i \in Resource, IngestEmbedded(i)
    PROVE  Owing'
<1>1. /\ LoopFree /\ UNCHANGED <<live, ready, ops, jobs, disk, graph, graphDisk, broken, stuck, relationVectors,
                                 round, faults>>
      /\ i \in ingesting /\ ingesting' = ingesting \ {i}
      /\ mem' = mem \cup {i} \/ (i \in Entity /\ mem' = mem)
  BY DEF IngestEmbedded, durable
<1>2. SlowIngest
  BY <1>1 DEF Owing, VectorsDue, DeletesDue
<1>3. StoresTyped'
  BY <1>1 DEF Owing, StoresTyped
<1>4. DeletesDue'
  BY <1>2 DEF DeletesDue
<1>5. RelationsDue' /\ ReadyDue'
  BY <1>1 DEF Owing, VectorsDue, RelationsDue, ReadyDue
<1>6. RevivedDue'
  BY <1>1, <1>2 DEF Owing, VectorsDue, RevivedDue, VectorsReturn
<1>7. GraphIsDue'
  BY <1>1 DEF Owing, GraphIsDue
<1> QED BY <1>1, <1>3, <1>4, <1>5, <1>6, <1>7, FreeOwing DEF VectorsDue

LEMMA CrashOwing ==
    ASSUME Inv, Owing, Crash
    PROVE  Owing'
<1>1. /\ UNCHANGED <<live, ready, ops, jobs, disk, graphDisk>> /\ Fault /\ mem' = disk /\ graph' = graphDisk
      /\ broken' = {} /\ stuck' = {} /\ ingesting' \subseteq ingesting
      /\ relationVectors' \in VectorModes /\ round' = NoRound
  BY DEF Crash, durable
<1>2. Carries(jobs, jobs', {}) /\ DOMAIN jobs' = DOMAIN jobs /\ Job' = Job
  BY <1>1, SameJobs
<1>3. /\ round' \in Rounds /\ round'.phase \in {"idle", "claim"} /\ round'.scope = 0
      /\ round'.queue = {} /\ round'.cur = 0 /\ round'.wrote = "nothing" /\ round'.settle = {}
      /\ \A p \in Pool : round'.batch[p] = {}
  BY <1>1, NewRound
<1>4. StoresTyped'
  BY <1>1, Faulted DEF Owing, StoresTyped
<1>5. Steady
  BY <1>1 DEF Steady
<1>6. VectorsDue'
  BY <1>1, <1>2, <1>4, <1>5, VectorsStep DEF Owing
<1>7. GraphIsDue'
  BY <1>1, <1>2, GraphStep DEF Owing
<1>8. RoundTyped' /\ Named(ops, jobs)'
  BY <1>1, <1>2, <1>3 DEF Owing, RoundTyped
<1>9. RoundKnows'
  BY <1>3, AtRest DEF Quiet
<1> QED BY <1>4, <1>6, <1>7, <1>8, <1>9 DEF Owing

-----------------------------------------------------------------------------
(* New jobs, and jobs that are cancelled. *)

\* An enumeration misses nothing.
LEMMA EnumerationReaches ==
    ASSUME NEW S, IsFiniteSet(S), NEW x \in S
    PROVE  \E k \in 1 .. Cardinality(S) : SetToSeq(S)[k] = x
<1> DEFINE n == Cardinality(S)
           f == SetToSeq(S)
<1>1. n \in Nat /\ f \in [1 .. n -> S] /\ IsInjective(f)
  <2>1. Cardinality(S) \in Nat /\ ExistsBijection(1 .. Cardinality(S), S)
    BY FS_CardinalityType
  <2>2. \E g \in [1 .. Cardinality(S) -> S] : IsInjective(g)
    BY <2>1 DEF ExistsBijection, Bijection, Injection
  <2> QED BY <2>1, <2>2 DEF SetToSeq
<1> HIDE DEF f
<1> SUFFICES ASSUME \A k \in 1 .. n : f[k] # x PROVE FALSE
  BY DEF f
<1>2. f \in [1 .. n -> S \ {x}]
  BY <1>1
<1>3. IsFiniteSet(S \ {x}) /\ Cardinality(S \ {x}) = n - 1
  BY FS_RemoveElement
<1>4. IsFiniteSet(1 .. n) /\ Cardinality(1 .. n) = n
  BY <1>1, FS_Interval
<1>5. \E a, b \in 1 .. n : a # b /\ f[a] = f[b]
  BY <1>1, <1>2, <1>3, <1>4, FS_PigeonHole
<1> QED BY <1>1, <1>5 DEF IsInjective

LEMMA Added ==
    ASSUME NEW js \in Seq(JobRow), NEW new \in Seq(JobRow)
    PROVE  /\ js \o new \in Seq(JobRow)
           /\ Carries(js, js \o new, {})
           /\ \A a, i : Due(js, a, i) \/ Due(new, a, i) => Due(js \o new, a, i)
           /\ GraphDue(js) \/ GraphDue(new) => GraphDue(js \o new)
           /\ \A j \in DOMAIN (js \o new) : \/ j \in DOMAIN js /\ (js \o new)[j] = js[j]
                                            \/ \E k \in DOMAIN new : (js \o new)[j] = new[k]
<1> DEFINE all == js \o new
<1>1. /\ all \in Seq(JobRow)
      /\ DOMAIN js = 1 .. Len(js) /\ DOMAIN new = 1 .. Len(new) /\ DOMAIN all = 1 .. Len(js) + Len(new)
      /\ Len(js) \in Nat /\ Len(new) \in Nat
      /\ \A i \in 1 .. Len(js) + Len(new) : all[i] = IF i <= Len(js) THEN js[i] ELSE new[i - Len(js)]
  BY ConcatProperties, LenProperties
<1> HIDE DEF all
<1>2. \A k \in DOMAIN js : k \in DOMAIN all /\ all[k] = js[k]
  BY <1>1
<1>3. \A k \in DOMAIN new : k + Len(js) \in DOMAIN all /\ all[k + Len(js)] = new[k]
  BY <1>1
<1>4. \A j \in DOMAIN all : (j \in DOMAIN js /\ all[j] = js[j]) \/ \E k \in DOMAIN new : all[j] = new[k]
  <2> SUFFICES ASSUME NEW j \in DOMAIN all, j \notin DOMAIN js PROVE \E k \in DOMAIN new : all[j] = new[k]
    BY <1>2
  <2>1. j - Len(js) \in DOMAIN new /\ all[j] = new[j - Len(js)]
    BY <1>1
  <2> QED BY <2>1
<1>5. Carries(js, all, {})
  BY <1>2 DEF Carries
<1>6. \A a, i : Due(js, a, i) \/ Due(new, a, i) => Due(all, a, i)
  BY <1>2, <1>3 DEF Due
<1>7. GraphDue(js) \/ GraphDue(new) => GraphDue(all)
  BY <1>2, <1>3 DEF GraphDue
<1> QED BY <1>1, <1>4, <1>5, <1>6, <1>7 DEF all

\* A job of the kind a restore, or a delete of S, makes.
Restores(rec) == /\ rec.action # "vector_delete"
                 /\ rec.action = "vector_upsert" => \E i \in Resource : rec.ids = {i}

Deletes(rec, S) == /\ rec.action # "vector_upsert" /\ rec.ids \subseteq S
                   /\ \E T \in {Paragraph, Entity, Relation} : rec.ids \subseteq T

LEMMA NewJobFields ==
    ASSUME NEW o \in Nat, NEW a \in Action, NEW I \in SUBSET Resource
    PROVE  /\ NewJob(o, a, I) \in JobRow /\ NewJob(o, a, I).op = o /\ NewJob(o, a, I).action = a
           /\ NewJob(o, a, I).ids = I /\ NewJob(o, a, I).status \in UnfinishedStatus
BY DEF NewJob, JobRow, UnfinishedStatus

LEMMA OneJob ==
    ASSUME NEW rec \in JobRow, rec.status \in UnfinishedStatus
    PROVE  /\ <<rec>> \in Seq(JobRow) /\ \A k \in DOMAIN <<rec>> : <<rec>>[k] = rec
           /\ \A i \in rec.ids : Due(<<rec>>, rec.action, i)
           /\ rec.action \in GraphActions => GraphDue(<<rec>>)
<1>1. <<rec>> \in Seq(JobRow) /\ DOMAIN <<rec>> = {1} /\ <<rec>>[1] = rec
  OBVIOUS
<1> QED BY <1>1 DEF Due, GraphDue

\* What two sequences of jobs do, their concatenation does.
LEMMA Both ==
    ASSUME NEW js \in Seq(JobRow), NEW new \in Seq(JobRow), NEW G,
           \A k \in DOMAIN js : js[k] \in G, \A k \in DOMAIN new : new[k] \in G
    PROVE  /\ js \o new \in Seq(JobRow) /\ \A k \in DOMAIN (js \o new) : (js \o new)[k] \in G
           /\ \A a, i : Due(js, a, i) \/ Due(new, a, i) => Due(js \o new, a, i)
           /\ GraphDue(js) \/ GraphDue(new) => GraphDue(js \o new)
<1> DEFINE all == js \o new
<1>1. /\ all \in Seq(JobRow)
      /\ \A a, i : Due(js, a, i) \/ Due(new, a, i) => Due(all, a, i)
      /\ GraphDue(js) \/ GraphDue(new) => GraphDue(all)
      /\ \A j \in DOMAIN all : \/ j \in DOMAIN js /\ all[j] = js[j]
                               \/ \E k \in DOMAIN new : all[j] = new[k]
  BY Added
<1> HIDE DEF all
<1>2. \A k \in DOMAIN all : all[k] \in G
  BY <1>1
<1> QED BY <1>1, <1>2 DEF all

LEMMA DeleteJobsDo ==
    ASSUME NEW o \in Nat, NEW S \in SUBSET Resource
    PROVE  /\ DeleteJobs(o, S) \in Seq(JobRow)
           /\ \A k \in DOMAIN DeleteJobs(o, S) : Deletes(DeleteJobs(o, S)[k], S)
           /\ \A i \in S : Due(DeleteJobs(o, S), "vector_delete", i)
           /\ GraphDue(DeleteJobs(o, S))
<1> DEFINE G == {rec \in JobRow : Deletes(rec, S)}
           Batch(X) == IF S \cap X = {} THEN <<>> ELSE <<NewJob(o, "vector_delete", S \cap X)>>
           a == Batch(Paragraph)
           b == Batch(Entity)
           c == Batch(Relation)
           g == <<NewJob(o, "graph_rebuild", {})>>
<1>1. ASSUME NEW X \in {Paragraph, Entity, Relation}
      PROVE  /\ Batch(X) \in Seq(JobRow) /\ \A k \in DOMAIN Batch(X) : Batch(X)[k] \in G
             /\ \A i \in S \cap X : Due(Batch(X), "vector_delete", i)
  <2>1. CASE S \cap X = {}
    BY <2>1
  <2>2. CASE S \cap X # {}
    <3> DEFINE rec == NewJob(o, "vector_delete", S \cap X)
    <3>1. "vector_delete" \in Action /\ S \cap X \in SUBSET Resource
      BY DEF Action
    <3>2. /\ rec \in JobRow /\ rec.status \in UnfinishedStatus /\ rec.action = "vector_delete"
          /\ rec.ids = S \cap X
      BY <3>1, NewJobFields
    <3>3. Batch(X) = <<rec>>
      BY <2>2
    <3> HIDE DEF rec, Batch
    <3>4. rec \in G
      BY <3>2 DEF Deletes
    <3> QED BY <3>2, <3>3, <3>4, OneJob
  <2> QED BY <2>1, <2>2
<1>2. g \in Seq(JobRow) /\ (\A k \in DOMAIN g : g[k] \in G) /\ GraphDue(g)
  <2> DEFINE rec == NewJob(o, "graph_rebuild", {})
  <2>1. "graph_rebuild" \in Action /\ {} \in SUBSET Resource
    BY DEF Action
  <2>2. /\ rec \in JobRow /\ rec.status \in UnfinishedStatus /\ rec.action = "graph_rebuild" /\ rec.ids = {}
    BY <2>1, NewJobFields
  <2> HIDE DEF rec
  <2>3. rec \in G
    BY <2>2 DEF Deletes
  <2> QED BY <2>2, <2>3, OneJob DEF GraphActions, rec
<1>3. /\ a \in Seq(JobRow) /\ \A k \in DOMAIN a : a[k] \in G
      /\ b \in Seq(JobRow) /\ \A k \in DOMAIN b : b[k] \in G
      /\ c \in Seq(JobRow) /\ \A k \in DOMAIN c : c[k] \in G
      /\ \A i \in S : Due(a, "vector_delete", i) \/ Due(b, "vector_delete", i) \/ Due(c, "vector_delete", i)
  BY <1>1 DEF Resource
<1> HIDE DEF a, b, c, g, G
<1>4. /\ a \o b \in Seq(JobRow) /\ \A k \in DOMAIN (a \o b) : (a \o b)[k] \in G
      /\ \A i : Due(a, "vector_delete", i) \/ Due(b, "vector_delete", i) => Due(a \o b, "vector_delete", i)
  BY <1>3, Both
<1> DEFINE ab == a \o b
<1> HIDE DEF ab
<1>5. /\ ab \o c \in Seq(JobRow) /\ \A k \in DOMAIN (ab \o c) : (ab \o c)[k] \in G
      /\ \A i : Due(ab, "vector_delete", i) \/ Due(c, "vector_delete", i) => Due(ab \o c, "vector_delete", i)
  BY <1>3, <1>4, Both DEF ab
<1> DEFINE abc == ab \o c
<1> HIDE DEF abc
<1>6. /\ abc \o g \in Seq(JobRow) /\ \A k \in DOMAIN (abc \o g) : (abc \o g)[k] \in G
      /\ \A i : Due(abc, "vector_delete", i) => Due(abc \o g, "vector_delete", i)
      /\ GraphDue(abc \o g)
  BY <1>2, <1>5, Both DEF abc
<1>7. DeleteJobs(o, S) = abc \o g
  BY DEF DeleteJobs, abc, ab, a, b, c, g
<1>8. \A i \in S : Due(abc \o g, "vector_delete", i)
  BY <1>3, <1>4, <1>5, <1>6 DEF abc, ab
<1> QED BY <1>6, <1>7, <1>8 DEF G

LEMMA RestoreJobsDo ==
    ASSUME NEW o \in Nat, NEW S \in SUBSET Resource
    PROVE  /\ RestoreJobs(o, S) \in Seq(JobRow)
           /\ \A k \in DOMAIN RestoreJobs(o, S) : Restores(RestoreJobs(o, S)[k])
           /\ \A i \in S : i \notin Relation \/ relationVectors => Due(RestoreJobs(o, S), "vector_upsert", i)
           /\ GraphDue(RestoreJobs(o, S))
<1> DEFINE G == {rec \in JobRow : Restores(rec)}
           Upserts(X) == [k \in 1 .. Cardinality(S \cap X) |->
                             NewJob(o, "vector_upsert", {SetToSeq(S \cap X)[k]})]
           Third == IF relationVectors THEN Relation ELSE {}
           a == Upserts(Entity)
           b == Upserts(Paragraph)
           c == Upserts(Third)
           g == <<NewJob(o, "graph_restore", {})>>
<1>1. ASSUME NEW X, IsFiniteSet(X)
      PROVE  /\ Upserts(X) \in Seq(JobRow) /\ \A k \in DOMAIN Upserts(X) : Upserts(X)[k] \in G
             /\ \A i \in S \cap X : Due(Upserts(X), "vector_upsert", i)
  <2> DEFINE n == Cardinality(S \cap X)
             f == SetToSeq(S \cap X)
             u == Upserts(X)
  <2>1. IsFiniteSet(S \cap X)
    BY <1>1, FS_Intersection
  <2>2. n \in Nat /\ f \in [1 .. n -> S \cap X]
    BY <2>1, Enumeration
  <2>3. \A i \in S \cap X : \E k \in 1 .. n : f[k] = i
    BY <2>1, EnumerationReaches
  <2>4. u = [k \in 1 .. n |-> NewJob(o, "vector_upsert", {f[k]})]
    OBVIOUS
  <2> HIDE DEF n, f, u
  <2>5. ASSUME NEW k \in 1 .. n
        PROVE  /\ u[k] \in G /\ u[k].status \in UnfinishedStatus /\ u[k].action = "vector_upsert"
               /\ u[k].ids = {f[k]}
    <3> DEFINE rec == NewJob(o, "vector_upsert", {f[k]})
    <3>1. "vector_upsert" \in Action /\ {f[k]} \in SUBSET Resource
      BY <2>2 DEF Action
    <3>2. /\ rec \in JobRow /\ rec.status \in UnfinishedStatus /\ rec.action = "vector_upsert"
          /\ rec.ids = {f[k]}
      BY <3>1, NewJobFields
    <3>3. u[k] = rec
      BY <2>4
    <3> HIDE DEF rec
    <3>4. rec \in G
      BY <3>1, <3>2 DEF Restores
    <3> QED BY <3>2, <3>3, <3>4
  <2>6. u \in Seq(JobRow) /\ DOMAIN u = 1 .. n
    <3>1. u \in [1 .. n -> JobRow]
      BY <2>4, <2>5
    <3> QED BY <2>2, <3>1, FunctionIsSequence
  <2>7. \A i \in S \cap X : Due(u, "vector_upsert", i)
    BY <2>3, <2>5, <2>6 DEF Due
  <2>8. \A k \in DOMAIN u : u[k] \in G
    BY <2>5, <2>6
  <2> QED BY <2>6, <2>7, <2>8 DEF u
<1>2. g \in Seq(JobRow) /\ (\A k \in DOMAIN g : g[k] \in G) /\ GraphDue(g)
  <2> DEFINE rec == NewJob(o, "graph_restore", {})
  <2>1. "graph_restore" \in Action /\ {} \in SUBSET Resource
    BY DEF Action
  <2>2. /\ rec \in JobRow /\ rec.status \in UnfinishedStatus /\ rec.action = "graph_restore" /\ rec.ids = {}
    BY <2>1, NewJobFields
  <2> HIDE DEF rec
  <2>3. rec \in G
    BY <2>2 DEF Restores
  <2> QED BY <2>2, <2>3, OneJob DEF GraphActions, rec
<1>3. IsFiniteSet(Entity) /\ IsFiniteSet(Paragraph) /\ IsFiniteSet(Third)
  BY ParametersAssumption, FS_EmptySet
<1>4. /\ a \in Seq(JobRow) /\ \A k \in DOMAIN a : a[k] \in G
      /\ b \in Seq(JobRow) /\ \A k \in DOMAIN b : b[k] \in G
      /\ c \in Seq(JobRow) /\ \A k \in DOMAIN c : c[k] \in G
      /\ \A i \in S \cap Entity : Due(a, "vector_upsert", i)
      /\ \A i \in S \cap Paragraph : Due(b, "vector_upsert", i)
      /\ \A i \in S \cap Third : Due(c, "vector_upsert", i)
  <2> HIDE DEF Upserts, Third, G
  <2> QED BY <1>1, <1>3
<1>5. ASSUME NEW i \in S, i \notin Relation \/ relationVectors
      PROVE  i \in S \cap Entity \/ i \in S \cap Paragraph \/ i \in S \cap Third
  BY <1>5 DEF Resource
<1> HIDE DEF a, b, c, g, G, Third
<1>6. /\ a \o b \in Seq(JobRow) /\ \A k \in DOMAIN (a \o b) : (a \o b)[k] \in G
      /\ \A i : Due(a, "vector_upsert", i) \/ Due(b, "vector_upsert", i) => Due(a \o b, "vector_upsert", i)
  BY <1>4, Both
<1> DEFINE ab == a \o b
<1> HIDE DEF ab
<1>7. /\ ab \o c \in Seq(JobRow) /\ \A k \in DOMAIN (ab \o c) : (ab \o c)[k] \in G
      /\ \A i : Due(ab, "vector_upsert", i) \/ Due(c, "vector_upsert", i) => Due(ab \o c, "vector_upsert", i)
  BY <1>4, <1>6, Both DEF ab
<1> DEFINE abc == ab \o c
<1> HIDE DEF abc
<1>8. /\ abc \o g \in Seq(JobRow) /\ \A k \in DOMAIN (abc \o g) : (abc \o g)[k] \in G
      /\ \A i : Due(abc, "vector_upsert", i) => Due(abc \o g, "vector_upsert", i)
      /\ GraphDue(abc \o g)
  BY <1>2, <1>7, Both DEF abc
<1>9. RestoreJobs(o, S) = abc \o g
  BY DEF RestoreJobs, abc, ab, a, b, c, g, Upserts, Third
<1>10. \A i \in S : i \notin Relation \/ relationVectors => Due(abc \o g, "vector_upsert", i)
  BY <1>4, <1>5, <1>6, <1>7, <1>8 DEF abc, ab
<1> QED BY <1>8, <1>9, <1>10 DEF G

LEMMA CancelledCarries ==
    ASSUME NEW js \in Seq(JobRow), NEW J
    PROVE  Carries(js, Cancelled(js, J), J) /\ DOMAIN Cancelled(js, J) = DOMAIN js
<1> DEFINE js2 == Cancelled(js, J)
<1>1. DOMAIN js2 = DOMAIN js
  BY DEF Cancelled
<1>2. ASSUME NEW j \in DOMAIN js
      PROVE  /\ js2[j].op = js[j].op /\ js2[j].action = js[j].action /\ js2[j].ids = js[j].ids
             /\ j \notin J => js2[j] = js[j]
  <2>1. js2[j] = js[j] \/ (j \in J /\ js2[j] = Turned(js[j], "cancelled"))
    BY DEF Cancelled, Turned
  <2>2. js[j] \in JobRow
    BY RowOf
  <2> HIDE DEF js2
  <2> QED BY <2>1, <2>2, RowSet
<1> HIDE DEF js2
<1>3. Carries(js, js2, J)
  BY <1>1, <1>2 DEF Carries
<1> QED BY <1>1, <1>3 DEF js2

\* Only relations of R leave the jobs, and only jobs that name nothing else are cancelled.
LEMMA WithoutRelationsLeaves ==
    ASSUME jobs \in Seq(JobRow), NEW O, NEW R, NEW js, js = WithoutRelations(O, R)
    PROVE  /\ DOMAIN js = DOMAIN jobs
           /\ \A j \in DOMAIN jobs :
                 /\ js[j].op = jobs[j].op /\ js[j].action = jobs[j].action
                 /\ js[j].ids \in {jobs[j].ids, jobs[j].ids \ R}
                 /\ jobs[j].action # "vector_delete" =>
                       js[j].ids = jobs[j].ids /\ js[j].status = jobs[j].status
                 /\ jobs[j].status \in UnfinishedStatus /\ ~(jobs[j].ids \subseteq R)
                       => js[j].status \in UnfinishedStatus
<1> DEFINE Hit(j) == jobs[j].op \in O /\ jobs[j].action = "vector_delete"
                     /\ jobs[j].ids \cap R # {}
           Less(j) == Hit(j) /\ jobs[j].status \in {"pending", "failed"} /\ ~(jobs[j].ids \subseteq R)
           left == [j \in DOMAIN jobs |->
                       IF Less(j) THEN [jobs[j] EXCEPT !.ids = jobs[j].ids \ R] ELSE jobs[j]]
           J == {j \in DOMAIN jobs : Hit(j) /\ jobs[j].ids \subseteq R}
<1>1. DOMAIN left = DOMAIN jobs
  OBVIOUS
<1>2. ASSUME NEW j \in DOMAIN jobs
      PROVE  /\ left[j] \in JobRow /\ left[j].status = jobs[j].status
             /\ left[j].op = jobs[j].op /\ left[j].action = jobs[j].action
             /\ left[j].ids \in {jobs[j].ids, jobs[j].ids \ R}
             /\ jobs[j].action # "vector_delete" => left[j] = jobs[j]
  <2>1. jobs[j] \in JobRow /\ jobs[j].ids \ R \in SUBSET Resource
    BY RowOf DEF JobRow
  <2>2. CASE Less(j)
    <3> DEFINE new == [jobs[j] EXCEPT !.ids = jobs[j].ids \ R]
    <3>1. left[j] = new
      BY <2>2
    <3>2. new.ids = jobs[j].ids \ R
      BY <2>1 DEF JobRow
    <3>3. /\ new \in JobRow /\ new.status = jobs[j].status
          /\ new.op = jobs[j].op /\ new.action = jobs[j].action
      BY <2>1, SetIds
    <3> HIDE DEF left, new
    <3> QED BY <2>2, <3>1, <3>2, <3>3
  <2>3. CASE ~Less(j)
    BY <2>1, <2>3
  <2> QED BY <2>2, <2>3
<1>3. left \in Seq(JobRow)
  <2>1. left \in [DOMAIN jobs -> JobRow]
    BY <1>2
  <2> QED BY <2>1, SequenceOn
<1>4. js = Cancelled(left, J)
  BY DEF WithoutRelations
<1>5. \A j \in J : jobs[j].action = "vector_delete" /\ jobs[j].ids \subseteq R
  OBVIOUS
<1> HIDE DEF left, J
<1>6. /\ Carries(left, js, J) /\ DOMAIN js = DOMAIN left
      /\ \A j \in DOMAIN left : j \notin J => js[j] = left[j]
  BY <1>3, <1>4, CancelledCarries DEF Cancelled
<1> QED BY <1>1, <1>2, <1>5, <1>6 DEF Carries

-----------------------------------------------------------------------------
(* Delete and restore. *)

\* A commit that adds jobs and begins a round for operation o.
LEMMA CommitOwing ==
    ASSUME Inv, Inv', Owing, StoresTyped', VectorsDue', Named(ops, jobs)', GraphDue(jobs'),
           NEW o \in DOMAIN ops', round' = RoundFor(o)
    PROVE  Owing'
<1>1. o \in Nat
  BY LenProperties DEF Inv, Consistent
<1>2. /\ round' \in Rounds /\ round'.phase \in {"idle", "claim"} /\ round'.scope \in {0, o}
      /\ round'.queue = {} /\ round'.cur = 0 /\ round'.wrote = "nothing" /\ round'.settle = {}
      /\ \A p \in Pool : round'.batch[p] = {}
  BY <1>1, NewRound
<1>3. RoundTyped'
  BY <1>2 DEF RoundTyped
<1>4. RoundKnows'
  BY <1>2, AtRest DEF Quiet
<1>5. GraphIsDue'
  BY DEF GraphIsDue
<1> QED BY <1>3, <1>4, <1>5 DEF Owing

LEMMA NewOperation ==
    ASSUME Inv, NEW os \in Seq(OperationRow), NEW rec \in OperationRow
    PROVE  /\ Len(os) + 1 \in DOMAIN Append(os, rec) /\ Append(os, rec)[Len(os) + 1] = rec
           /\ \A p \in DOMAIN os : Append(os, rec)[p] = os[p]
<1>1. /\ Append(os, rec) \in Seq(OperationRow)
      /\ Len(Append(os, rec)) = Len(os) + 1
      /\ \A i \in 1 .. Len(os) : Append(os, rec)[i] = os[i]
      /\ Append(os, rec)[Len(os) + 1] = rec
  BY AppendProperties
<1>2. /\ DOMAIN os = 1 .. Len(os) /\ Len(os) \in Nat
      /\ DOMAIN Append(os, rec) = 1 .. Len(os) + 1
  BY <1>1, LenProperties
<1> QED BY <1>1, <1>2

LEMMA DeleteOwing ==
    ASSUME Inv, Inv', Owing, NEW S \in SUBSET Resource, Delete(S)
    PROVE  Owing'
<1> DEFINE o == Len(ops) + 1
           new == DeleteJobs(o, S)
           rec == [status |-> "pending_cleanup", items |-> S]
<1>1. /\ ops' = Append(ops, rec) /\ jobs' = jobs \o new /\ round' = RoundFor(o)
      /\ live' = live \ S /\ ready' = ready \ S
      /\ UNCHANGED <<mem, disk, graph, graphDisk, broken, stuck, relationVectors, ingesting, faults>>
  BY DEF Delete, stores
<1>2. rec \in OperationRow /\ rec.items = S
  BY DEF OperationRow, Delete
<1>3. ops \in Seq(OperationRow) /\ jobs \in Seq(JobRow) /\ o \in Nat
  BY LenProperties DEF Inv, Consistent
<1> HIDE DEF rec
<1>4. o \in DOMAIN ops' /\ ops'[o].items = S /\ \A p \in DOMAIN ops : ops'[p] = ops[p]
  BY <1>1, <1>2, <1>3, NewOperation
<1>5. /\ new \in Seq(JobRow) /\ \A k \in DOMAIN new : Deletes(new[k], S)
      /\ \A i \in S : Due(new, "vector_delete", i)
      /\ GraphDue(new)
  BY <1>3, DeleteJobsDo
<1>6. \A k \in DOMAIN new : new[k].op = o
  <2>1. new \in Seq(JobOf(o, DeleteActions))
    BY <1>3, DeleteJobsTyped
  <2>2. \A k \in DOMAIN new : new[k] \in JobOf(o, DeleteActions)
    BY <2>1, ElementOfSeq, LenProperties
  <2> QED BY <2>2 DEF JobOf
<1> HIDE DEF new, o
<1>7. /\ Carries(jobs, jobs', {})
      /\ \A a, i : Due(jobs, a, i) \/ Due(new, a, i) => Due(jobs', a, i)
      /\ GraphDue(jobs')
      /\ \A j \in DOMAIN jobs' : \/ j \in DOMAIN jobs /\ jobs'[j] = jobs[j]
                                 \/ \E k \in DOMAIN new : jobs'[j] = new[k]
  BY <1>1, <1>3, <1>5, Added
<1>8. Named(ops, jobs)'
  <2> SUFFICES ASSUME NEW j \in DOMAIN jobs'
               PROVE  /\ jobs'[j].action = "vector_delete" =>
                            /\ jobs'[j].ids \subseteq ops'[jobs'[j].op].items
                            /\ \E T \in {Paragraph, Entity, Relation} : jobs'[j].ids \subseteq T
                      /\ jobs'[j].action = "vector_upsert" => \E i \in Resource : jobs'[j].ids = {i}
    BY DEF Named
  <2>1. CASE j \in DOMAIN jobs /\ jobs'[j] = jobs[j]
    <3>1. jobs[j].op \in DOMAIN ops
      BY <2>1 DEF Inv, Consistent
    <3>2. ops'[jobs[j].op] = ops[jobs[j].op]
      BY <3>1, <1>4
    <3> QED BY <2>1, <3>2 DEF Owing, Named
  <2>2. CASE \E k \in DOMAIN new : jobs'[j] = new[k]
    <3>1. jobs'[j].op = o /\ Deletes(jobs'[j], S)
      BY <2>2, <1>5, <1>6
    <3> QED BY <3>1, <1>4 DEF Deletes
  <2> QED BY <1>7, <2>1, <2>2
<1>9. StoresTyped'
  BY <1>1 DEF Owing, StoresTyped
<1>10. VectorsDue'
  <2>1. DeletesDue'
    BY <1>1, <1>5, <1>7 DEF Owing, VectorsDue, DeletesDue
  <2>2. RelationsDue' /\ ReadyDue'
    BY <1>1, <1>7 DEF Owing, VectorsDue, RelationsDue, ReadyDue
  <2>3. RevivedDue'
    BY <1>1, <1>7 DEF Owing, VectorsDue, RevivedDue
  <2> QED BY <2>1, <2>2, <2>3 DEF VectorsDue
<1> QED BY <1>1, <1>4, <1>7, <1>8, <1>9, <1>10, CommitOwing

\* A restore of the items S as operation o: the jobs js are those of before, but for the
\* deletes of S, and its own are added.
LEMMA RestoringOwing ==
    ASSUME Inv, Inv', Owing, NEW S \in SUBSET Resource, NEW o \in DOMAIN ops', NEW js \in Seq(JobRow),
           jobs' = js \o RestoreJobs(o, S), round' = RoundFor(o),
           live' = live \cup S, ready' = ready \ S,
           UNCHANGED <<mem, disk, graph, graphDisk, broken, stuck, relationVectors, ingesting, faults>>,
           \A p \in DOMAIN ops : ops'[p].items = ops[p].items,
           DOMAIN js = DOMAIN jobs,
           \A j \in DOMAIN jobs : /\ js[j].op = jobs[j].op /\ js[j].action = jobs[j].action
                                  /\ js[j].ids \subseteq jobs[j].ids
                                  /\ js[j].action = "vector_upsert" => js[j].ids = jobs[j].ids,
           \A i : Due(jobs, "vector_upsert", i) => Due(js, "vector_upsert", i),
           \A i : i \notin S /\ Due(jobs, "vector_delete", i) => Due(js, "vector_delete", i)
    PROVE  Owing'
<1> DEFINE new == RestoreJobs(o, S)
<1>1. o \in Nat
  BY LenProperties DEF Inv, Consistent
<1>2. /\ new \in Seq(JobRow) /\ \A k \in DOMAIN new : Restores(new[k])
      /\ \A i \in S : i \notin Relation \/ relationVectors => Due(new, "vector_upsert", i)
      /\ GraphDue(new)
  BY <1>1, RestoreJobsDo
<1>3. jobs' = js \o new
  OBVIOUS
<1> HIDE DEF new
<1>4. /\ \A a, i : Due(js, a, i) \/ Due(new, a, i) => Due(jobs', a, i)
      /\ GraphDue(jobs')
      /\ \A j \in DOMAIN jobs' : \/ j \in DOMAIN js /\ jobs'[j] = js[j]
                                 \/ \E k \in DOMAIN new : jobs'[j] = new[k]
  BY <1>2, <1>3, Added
<1>5. Named(ops, jobs)'
  <2> SUFFICES ASSUME NEW j \in DOMAIN jobs'
               PROVE  /\ jobs'[j].action = "vector_delete" =>
                            /\ jobs'[j].ids \subseteq ops'[jobs'[j].op].items
                            /\ \E T \in {Paragraph, Entity, Relation} : jobs'[j].ids \subseteq T
                      /\ jobs'[j].action = "vector_upsert" => \E i \in Resource : jobs'[j].ids = {i}
    BY DEF Named
  <2>1. CASE j \in DOMAIN js /\ jobs'[j] = js[j]
    <3>1. j \in DOMAIN jobs /\ jobs[j].op \in DOMAIN ops
      BY <2>1 DEF Inv, Consistent
    <3>2. ops'[jobs[j].op].items = ops[jobs[j].op].items
      BY <3>1
    <3>3. /\ jobs'[j].op = jobs[j].op /\ jobs'[j].action = jobs[j].action
          /\ jobs'[j].ids \subseteq jobs[j].ids
          /\ jobs'[j].action = "vector_upsert" => jobs'[j].ids = jobs[j].ids
      BY <2>1, <3>1
    <3> QED BY <3>1, <3>2, <3>3 DEF Owing, Named
  <2>2. CASE \E k \in DOMAIN new : jobs'[j] = new[k]
    BY <2>2, <1>2 DEF Restores
  <2> QED BY <1>4, <2>1, <2>2
<1>6. StoresTyped'
  BY DEF Owing, StoresTyped
<1>7. VectorModes = {TRUE} => relationVectors
  BY DEF Owing, StoresTyped
<1>8. DeletesDue'
  BY <1>4 DEF Owing, VectorsDue, DeletesDue
<1>9. RelationsDue'
  BY <1>2, <1>4, <1>7 DEF Owing, VectorsDue, RelationsDue
<1>10. ReadyDue'
  BY <1>4 DEF Owing, VectorsDue, ReadyDue
<1>11. RevivedDue'
  BY <1>2, <1>4, <1>7 DEF Owing, VectorsDue, RevivedDue, VectorsReturn
<1> QED BY <1>4, <1>5, <1>6, <1>8, <1>9, <1>10, <1>11, CommitOwing DEF VectorsDue

LEMMA RestoreOwing ==
    ASSUME Inv, Inv', Owing, NEW o \in DOMAIN ops, Restore(o)
    PROVE  Owing'
<1> DEFINE S == ops[o].items
           J == {j \in DOMAIN jobs : jobs[j].op = o /\ jobs[j].action \in DeleteActions}
           js == Cancelled(jobs, J)
<1>1. /\ jobs' = js \o RestoreJobs(o, S) /\ round' = RoundFor(o)
      /\ live' = live \cup S /\ ready' = ready \ S
      /\ UNCHANGED <<mem, disk, graph, graphDisk, broken, stuck, relationVectors, ingesting, faults>>
      /\ ops' = [ops EXCEPT ![o].status = "restore_pending"]
  BY DEF Restore, stores
<1>2. /\ jobs \in Seq(JobRow) /\ ops \in Seq(OperationRow)
      /\ \A p \in DOMAIN ops : ops[p] \in OperationRow
  <2>1. jobs \in Seq(JobRow) /\ ops \in Seq(OperationRow)
    BY DEF Inv, Consistent
  <2> QED BY <2>1, ElementOfSeq, LenProperties
<1>3. S \in SUBSET Resource
  BY <1>2 DEF OperationRow
<1>4. DOMAIN ops' = DOMAIN ops /\ \A p \in DOMAIN ops : ops'[p].items = ops[p].items
  BY <1>1, <1>2 DEF OperationRow
<1>5. \A j \in J : j \in DOMAIN jobs /\ jobs[j].op = o /\ jobs[j].action \in DeleteActions
  OBVIOUS
<1> HIDE DEF J
<1>6. js \in Seq(JobRow) /\ Carries(jobs, js, J) /\ DOMAIN js = DOMAIN jobs
  BY <1>2, CancelledCarries, CancelledUpdates DEF Updates
<1> HIDE DEF js
<1>7. \A a, i : Due(jobs, a, i) /\ (\A j \in J : ~(jobs[j].action = a /\ i \in jobs[j].ids)) => Due(js, a, i)
  BY <1>6, DueCarries
<1>8. \A i : Due(jobs, "vector_upsert", i) => Due(js, "vector_upsert", i)
  BY <1>5, <1>7 DEF DeleteActions
<1>9. \A i : i \notin S /\ Due(jobs, "vector_delete", i) => Due(js, "vector_delete", i)
  BY <1>5, <1>7 DEF Owing, Named
<1>10. \A j \in DOMAIN jobs : /\ js[j].op = jobs[j].op /\ js[j].action = jobs[j].action
                              /\ js[j].ids = jobs[j].ids
  BY <1>6 DEF Carries
<1> HIDE DEF S
<1> QED BY <1>1, <1>3, <1>4, <1>6, <1>8, <1>9, <1>10, RestoringOwing

LEMMA RestoreRelationsOwing ==
    ASSUME Inv, Inv', Owing, NEW R \in SUBSET Relation, RestoreRelations(R)
    PROVE  Owing'
<1> DEFINE o == Len(ops) + 1
           O == Superseding(R)
           js == WithoutRelations(O, R)
           gone == Superseded(js, O, R)
           J == {j \in DOMAIN js : js[j].op \in gone /\ js[j].action = "graph_rebuild"}
           js2 == Cancelled(js, J)
           os == [old \in DOMAIN ops |->
                     IF old \in gone THEN [ops[old] EXCEPT !.status = "superseded"] ELSE ops[old]]
           rec == [status |-> "restore_pending", items |-> R]
<1>1. /\ ops' = Append(os, rec) /\ jobs' = js2 \o RestoreJobs(o, R) /\ round' = RoundFor(o)
      /\ live' = live \cup R /\ ready' = ready \ R
      /\ UNCHANGED <<mem, disk, graph, graphDisk, broken, stuck, relationVectors, ingesting, faults>>
  BY DEF RestoreRelations, stores
<1>2. /\ jobs \in Seq(JobRow) /\ ops \in Seq(OperationRow)
      /\ \A p \in DOMAIN ops : ops[p] \in OperationRow
  <2>1. jobs \in Seq(JobRow) /\ ops \in Seq(OperationRow)
    BY DEF Inv, Consistent
  <2> QED BY <2>1, ElementOfSeq, LenProperties
<1>3. rec \in OperationRow
  BY DEF OperationRow, RestoreRelations, Resource
<1>4. js \in Seq(JobRow) /\ DOMAIN js = DOMAIN jobs
  BY <1>2, WithoutRelationsUpdates DEF Updates
<1>5. \A j \in DOMAIN jobs :
         /\ js[j].op = jobs[j].op /\ js[j].action = jobs[j].action
         /\ js[j].ids \in {jobs[j].ids, jobs[j].ids \ R}
         /\ jobs[j].action # "vector_delete" => js[j].ids = jobs[j].ids /\ js[j].status = jobs[j].status
         /\ jobs[j].status \in UnfinishedStatus /\ ~(jobs[j].ids \subseteq R)
               => js[j].status \in UnfinishedStatus
  BY <1>2, WithoutRelationsLeaves
<1> HIDE DEF js, gone, O, rec
<1>6. \A j \in J : js[j].action = "graph_rebuild"
  OBVIOUS
<1> HIDE DEF J
<1>7. js2 \in Seq(JobRow) /\ Carries(js, js2, J) /\ DOMAIN js2 = DOMAIN js
  BY <1>4, CancelledCarries, CancelledUpdates DEF Updates
<1> HIDE DEF js2
<1>8. \A a, i : Due(js, a, i) /\ (\A j \in J : ~(js[j].action = a /\ i \in js[j].ids)) => Due(js2, a, i)
  BY <1>7, DueCarries
<1>9. \A i : Due(jobs, "vector_upsert", i) => Due(js, "vector_upsert", i)
  BY <1>4, <1>5 DEF Due
<1>10. \A i : i \notin R /\ Due(jobs, "vector_delete", i) => Due(js, "vector_delete", i)
  <2> SUFFICES ASSUME NEW i, i \notin R, NEW j \in DOMAIN jobs, jobs[j].status \in UnfinishedStatus,
                      jobs[j].action = "vector_delete", i \in jobs[j].ids
               PROVE  Due(js, "vector_delete", i)
    BY DEF Due
  <2>1. i \in js[j].ids /\ js[j].status \in UnfinishedStatus /\ js[j].action = "vector_delete"
    BY <1>5
  <2> QED BY <1>4, <2>1 DEF Due
<1>11. /\ \A i : Due(jobs, "vector_upsert", i) => Due(js2, "vector_upsert", i)
       /\ \A i : i \notin R /\ Due(jobs, "vector_delete", i) => Due(js2, "vector_delete", i)
  BY <1>6, <1>8, <1>9, <1>10
<1>12. \A j \in DOMAIN jobs : /\ js2[j].op = jobs[j].op /\ js2[j].action = jobs[j].action
                              /\ js2[j].ids \subseteq jobs[j].ids
                              /\ js2[j].action = "vector_upsert" => js2[j].ids = jobs[j].ids
  BY <1>4, <1>5, <1>7 DEF Carries
<1>13. /\ os \in Seq(OperationRow) /\ DOMAIN os = DOMAIN ops
       /\ \A p \in DOMAIN ops : os[p].items = ops[p].items
  <2>1. ASSUME NEW p \in DOMAIN ops
        PROVE  os[p] \in OperationRow /\ os[p].items = ops[p].items
    <3>1. ops[p] \in OperationRow
      BY <1>2
    <3>2. os[p] = ops[p] \/ os[p] = [ops[p] EXCEPT !.status = "superseded"]
      OBVIOUS
    <3> HIDE DEF os
    <3> QED BY <3>1, <3>2 DEF OperationRow
  <2>2. os \in [DOMAIN ops -> OperationRow]
    BY <2>1
  <2> HIDE DEF os
  <2>3. os \in Seq(OperationRow) /\ DOMAIN os = DOMAIN ops
    BY <1>2, <2>2, SequenceOn
  <2> QED BY <2>1, <2>3
<1> HIDE DEF os
<1>14. Len(os) + 1 = o
  <2>1. /\ DOMAIN os = 1 .. Len(os) /\ Len(os) \in Nat
        /\ DOMAIN ops = 1 .. Len(ops) /\ Len(ops) \in Nat
    BY <1>2, <1>13, LenProperties
  <2> QED BY <2>1, <1>13, SameDomain
<1> HIDE DEF o
<1>15. o \in DOMAIN ops' /\ \A p \in DOMAIN ops : ops'[p].items = ops[p].items
  BY <1>1, <1>3, <1>13, <1>14, NewOperation
<1>16. R \in SUBSET Resource
  BY DEF Resource
<1> QED BY <1>1, <1>4, <1>7, <1>11, <1>12, <1>15, <1>16, RestoringOwing

-----------------------------------------------------------------------------
(* Steps of a round on vector deletes. *)

LEMMA LeastIs ==
    ASSUME NEW S \in SUBSET Nat, S # {}
    PROVE  Least(S) \in S
<1> DEFINE R == {ss \in Nat \X Nat : ss[1] < ss[2]}
<1>1. IsWellFoundedOn(R, Nat)
  BY NatLessThanWellFounded, Zenon DEF OpToRel
<1>2. \E x \in S : \A y \in S : <<y, x>> \notin R
  <2> HIDE DEF R
  <2> QED BY <1>1, WFMin
<1>3. \E x \in S : \A y \in S : x <= y
  <2>1. PICK x \in S : \A y \in S : <<y, x>> \notin R
    BY <1>2
  <2>2. \A y \in S : ~(y < x)
    BY <2>1
  <2> QED BY <2>2
<1> QED BY <1>3 DEF Least

LEMMA OnePool ==
    ASSUME Inv, Named(ops, jobs), NEW j \in Job, jobs[j].ids # {},
           jobs[j].action \in {"vector_delete", "vector_upsert"}
    PROVE  /\ jobs[j].ids \subseteq Resource /\ PoolOfJob(j) \in Pool
           /\ \A i \in jobs[j].ids : PoolOf(i) = PoolOfJob(j)
<1>1. jobs[j] \in JobRow
  BY RowOf DEF Inv, Consistent, Job
<1>2. jobs[j].ids \subseteq Resource
  BY <1>1 DEF JobRow
<1>3. \A i, k \in jobs[j].ids : PoolOf(i) = PoolOf(k)
  BY ParametersAssumption DEF Named, Job, PoolOf
<1>4. (CHOOSE i \in jobs[j].ids : TRUE) \in jobs[j].ids
  OBVIOUS
<1> QED BY <1>2, <1>3, <1>4, Pools DEF PoolOfJob

\* The round goes on to job j: nothing settles or is worked on.
LEMMA Comes ==
    ASSUME Inv, Owing, NEW j \in Job, Upcoming(j)
    PROVE  /\ round.phase = "run" /\ round.settle = {} /\ round.cur = 0 /\ round.wrote = "nothing"
           /\ LET t == Taken(j)
              IN  /\ t \in Rounds /\ t.queue = round.queue \ {j} /\ t.phase = "run"
                  /\ t.scope = round.scope /\ t.cur = 0 /\ t.wrote = "nothing"
                  /\ t.batch = round.batch /\ t.settle = {}
<1>1. round.phase = "run" /\ round.settle = {} /\ round.cur = 0 /\ round.wrote = "nothing"
  BY DEF Upcoming, Owing, RoundKnows, Phases, Upserted
<1> QED BY <1>1, Taking DEF Owing, RoundTyped

\* The job is passed over.
LEMMA Passing ==
    ASSUME Inv, Owing, NEW j \in Job, Upcoming(j), round' = Taken(j),
           NEW gone, Carries(jobs, jobs', gone), DOMAIN jobs' = DOMAIN jobs, DOMAIN ops' = DOMAIN ops,
           UNCHANGED <<live, mem, disk, graph, graphDisk>>
    PROVE  RoundTyped' /\ RoundKnows'
<1>1. /\ round' \in Rounds /\ round'.queue = round.queue \ {j} /\ round'.phase = round.phase
      /\ round'.scope = round.scope /\ round'.cur = 0 /\ round'.wrote = round.wrote
      /\ round'.batch = round.batch /\ round'.settle = {} /\ round.cur = 0
  BY Comes
<1>2. RoundTyped'
  BY <1>1, RoundGoesOn DEF Owing, RoundTyped, Job
<1>3. RoundKnows'
  BY <1>1, RoundShrinks DEF Owing
<1> QED BY <1>2, <1>3

LEMMA LoseLeaseOwing ==
    ASSUME Inv, Owing, NEW j \in Job, LoseLease(j)
    PROVE  Owing'
<1>1. /\ Upcoming(j) /\ Fail({j}) /\ round' = Taken(j)
      /\ UNCHANGED <<live, ready, disk, graphDisk, stores, faults>>
  BY DEF LoseLease
<1>2. Carries(jobs, jobs', {}) /\ DOMAIN jobs' = DOMAIN jobs /\ ops' = ops
  BY <1>1, FailCarries
<1>3. StoresTyped'
  BY <1>1 DEF Owing, StoresTyped, stores
<1>4. RoundTyped' /\ RoundKnows'
  BY <1>1, <1>2, Passing DEF stores
<1>5. Named(ops, jobs)'
  BY <1>2, SameNamed DEF Owing
<1>6. VectorsDue'
  BY <1>1, <1>2, <1>3, RestUntouched, VectorsStep DEF Owing, stores
<1>7. GraphIsDue'
  BY <1>1, <1>2, GraphStep DEF Owing, stores
<1> QED BY <1>3, <1>4, <1>5, <1>6, <1>7 DEF Owing

LEMMA NothingToDoOwing ==
    ASSUME Inv, Owing, NEW j \in Job, NothingToDo(j)
    PROVE  Owing'
<1>1. /\ Upcoming(j) /\ round' = Taken(j) /\ \E st : Complete(j, st)
      /\ UNCHANGED <<live, ready, disk, graphDisk, stores, faults>>
  BY DEF NothingToDo
<1>2. /\ Carries(jobs, jobs', {j}) /\ DOMAIN jobs' = DOMAIN jobs
      /\ DOMAIN ops' = DOMAIN ops /\ \A o \in DOMAIN ops : ops'[o].items = ops[o].items
  BY <1>1, CompleteCarries DEF Job
<1>3. jobs[j].action = "vector_delete" /\ jobs[j].ids \subseteq live
  <2>1. StillWanted(j)
    BY DEF NothingToDo, LeaseHolds, StillWanted, Inv, Consistent, Job, UnfinishedStatus
  <2> QED BY <2>1 DEF NothingToDo, Authorized
<1>4. StoresTyped'
  BY <1>1 DEF Owing, StoresTyped, stores
<1>5. RoundTyped' /\ RoundKnows'
  BY <1>1, <1>2, Passing DEF stores
<1>6. Named(ops, jobs)'
  BY <1>2, NamedKept DEF Owing
<1>7. VectorsDue'
  BY <1>1, <1>2, <1>3, VectorsJobEnds DEF Owing, stores
<1>8. GraphIsDue'
  BY <1>1, <1>2, <1>3, GraphStep DEF Owing, stores, GraphActions
<1> QED BY <1>4, <1>5, <1>6, <1>7, <1>8 DEF Owing

LEMMA TurnOwing ==
    ASSUME Inv, Owing, NEW j \in Job, Turn(j)
    PROVE  Owing'
<1>1. /\ Upcoming(j) /\ HasAuthority(j) /\ jobs[j].action # "vector_delete"
      /\ round' = [Taken(j) EXCEPT !.cur = j] /\ UNCHANGED <<durable, stores, faults>>
  BY DEF Turn
<1>2. j \in Nat
  BY Numbers
<1>3. /\ round' \in Rounds /\ round'.queue = round.queue \ {j} /\ round'.phase = "run"
      /\ round'.scope = round.scope /\ round'.cur = j /\ round'.wrote = "nothing"
      /\ round'.batch = round.batch /\ round'.settle = {} /\ round.settle = {}
  <2> DEFINE t == Taken(j)
  <2>1. /\ t \in Rounds /\ t.queue = round.queue \ {j} /\ t.phase = "run"
        /\ t.scope = round.scope /\ t.cur = 0 /\ t.wrote = "nothing"
        /\ t.batch = round.batch /\ t.settle = {} /\ round.settle = {}
    BY <1>1, Comes
  <2>2. round' = [t EXCEPT !.cur = j]
    BY <1>1
  <2> HIDE DEF t
  <2> QED BY <1>2, <2>1, <2>2, SetCur
<1>4. Carries(jobs, jobs', {}) /\ DOMAIN jobs' = DOMAIN jobs /\ Job' = Job
  BY <1>1, SameJobs DEF durable
<1>5. RoundTyped'
  BY <1>1, <1>3, <1>4, RoundGoesOn DEF Owing, RoundTyped, durable
<1>6. RoundKnows'
  <2>1. (\A p \in Pool : Batched(p)') /\ Settling'
    BY <1>1, <1>3 DEF Owing, RoundKnows, Batched, Settling, durable, stores
  <2>2. Current'
    BY <1>1, <1>3 DEF Current, HasAuthority, LeaseHolds, UnfinishedStatus, durable
  <2>3. Phases'
    BY <1>3 DEF Phases
  <2> QED BY <2>1, <2>2, <2>3 DEF RoundKnows
<1>7. StoresTyped' /\ Named(ops, jobs)'
  BY <1>1 DEF Owing, StoresTyped, stores, durable
<1>8. VectorsDue'
  BY <1>1, <1>4, <1>7, RestUntouched, VectorsStep DEF Owing, stores, durable
<1>9. GraphIsDue'
  BY <1>1, <1>4, GraphStep DEF Owing, stores, durable
<1> QED BY <1>5, <1>6, <1>7, <1>8, <1>9 DEF Owing

\* A batch of pool p changes, and memory for that pool alone.
LEMMA OnOnePool ==
    ASSUME Owing, Carries(jobs, jobs', {}), DOMAIN jobs' = DOMAIN jobs, DOMAIN ops' = DOMAIN ops, live' = live,
           NEW p \in Pool, round' \in Rounds, round'.scope = round.scope, round'.queue \subseteq round.queue,
           round.phase = "run", round'.phase = "run",
           round.settle = {}, round'.settle = {}, round'.cur = round.cur,
           round.wrote = "nothing", round'.wrote = "nothing",
           round'.batch[p] \subseteq Job, Batched(p)',
           \A q \in Pool : q # p => round'.batch[q] = round.batch[q],
           \A i \in Resource : PoolOf(i) # p => (i \in mem' => i \in mem),
           mem' \subseteq Resource
    PROVE  RoundTyped' /\ RoundKnows'
<1>1. Job' = Job /\ \A j \in Job : jobs'[j].action = jobs[j].action /\ jobs'[j].ids = jobs[j].ids
  BY DEF Carries, Job
<1>2. RoundTyped'
  BY <1>1 DEF Owing, RoundTyped
<1>3. ASSUME NEW q \in Pool PROVE Batched(q)'
  <2>1. CASE q = p
    BY <2>1
  <2>2. CASE q # p
    BY <1>1, <2>2 DEF Owing, RoundKnows, Batched, RoundTyped
  <2> QED BY <2>1, <2>2
<1>4. Settling' /\ Phases'
  BY DEF Settling, Phases
<1>5. Current'
  BY DEF Owing, RoundKnows, Current, RoundTyped, Carries, Job
<1> QED BY <1>2, <1>3, <1>4, <1>5 DEF RoundKnows

LEMMA TakenBatch ==
    ASSUME Inv, Owing, NEW j \in Job, Upcoming(j), NEW p \in Pool, NEW v \in SUBSET Job,
           round' = WithBatch(Taken(j), p, v)
    PROVE  /\ round' \in Rounds /\ round'.scope = round.scope /\ round'.queue \subseteq round.queue
           /\ round.phase = "run" /\ round'.phase = "run" /\ round.settle = {} /\ round'.settle = {}
           /\ round.cur = 0 /\ round'.cur = 0 /\ round.wrote = "nothing" /\ round'.wrote = "nothing"
           /\ \A q \in Pool : round'.batch[q] = IF q = p THEN v ELSE round.batch[q]
<1> DEFINE t == Taken(j)
<1>1. /\ t \in Rounds /\ t.queue = round.queue \ {j} /\ t.phase = "run"
      /\ t.scope = round.scope /\ t.cur = 0 /\ t.wrote = "nothing"
      /\ t.batch = round.batch /\ t.settle = {} /\ round.settle = {}
      /\ round.phase = "run" /\ round.cur = 0 /\ round.wrote = "nothing"
  BY Comes
<1>2. round' = WithBatch(t, p, v) /\ v \in SUBSET Nat
  BY Numbers
<1> HIDE DEF t
<1>3. /\ round' \in Rounds /\ round'.phase = t.phase /\ round'.scope = t.scope
      /\ round'.queue = t.queue /\ round'.cur = t.cur /\ round'.wrote = t.wrote
      /\ round'.settle = t.settle
      /\ \A q \in Pool : round'.batch[q] = IF q = p THEN v ELSE t.batch[q]
  BY <1>1, <1>2, SetBatch
<1> QED BY <1>1, <1>3

LEMMA DeleteInMemoryOwing ==
    ASSUME Inv, Owing, NEW j \in Job, DeleteInMemory(j)
    PROVE  Owing'
<1>0. PICK p : p = PoolOfJob(j)
  OBVIOUS
<1> DEFINE v == round.batch[p] \cup {j}
<1>1. /\ Upcoming(j) /\ jobs[j].action = "vector_delete" /\ jobs[j].ids # {}
      /\ p \in Usable /\ disk' = Baseline(p) /\ mem' = mem \ (jobs[j].ids \ live)
      /\ UNCHANGED <<live, ready, ops, jobs, graph, graphDisk, broken, stuck, relationVectors, ingesting, faults>>
  BY <1>0 DEF DeleteInMemory, Authorized
<1>2. round' = WithBatch(Taken(j), p, v)
  <2>1. Taken(j).batch = round.batch
    BY <1>1, Comes
  <2> QED BY <1>0, <2>1, Zenon DEF DeleteInMemory, WithBatch
<1>3. /\ jobs[j].ids \subseteq Resource /\ p \in Pool
      /\ \A i \in jobs[j].ids : PoolOf(i) = p
  BY <1>0, <1>1, OnePool DEF Owing
<1>4. v \in SUBSET Job
  BY <1>3 DEF Owing, RoundTyped
<1> HIDE DEF v
<1>5. /\ round' \in Rounds /\ round'.scope = round.scope /\ round'.queue \subseteq round.queue
      /\ round.phase = "run" /\ round'.phase = "run" /\ round.settle = {} /\ round'.settle = {}
      /\ round.cur = 0 /\ round'.cur = 0 /\ round.wrote = "nothing" /\ round'.wrote = "nothing"
      /\ \A q \in Pool : round'.batch[q] = IF q = p THEN v ELSE round.batch[q]
  BY <1>1, <1>2, <1>3, <1>4, TakenBatch
<1>6. Carries(jobs, jobs', {}) /\ DOMAIN jobs' = DOMAIN jobs /\ Job' = Job
  BY <1>1, SameJobs
<1>7. Batched(p)'
  <2>1. \A k \in v : k = j \/ k \in round.batch[p]
    BY DEF v
  <2>2. Batched(p)
    BY <1>3 DEF Owing, RoundKnows
  <2> QED BY <1>1, <1>3, <1>5, <2>1, <2>2 DEF Batched
<1>8. disk' = disk \/ disk' = Copy(mem, disk, p)
  BY <1>1 DEF Baseline
<1>9. StoresTyped' /\ Named(ops, jobs)'
  BY <1>1, <1>8, Pools DEF Owing, StoresTyped
<1>10. Steady
  BY <1>1, <1>8, Pools DEF Steady
<1>11. VectorsDue'
  BY <1>1, <1>6, <1>9, <1>10, VectorsStep DEF Owing
<1>12. GraphIsDue'
  BY <1>1, <1>6, GraphStep DEF Owing
<1>13. mem' \subseteq mem /\ mem' \subseteq Resource
  BY <1>1 DEF Owing, StoresTyped
<1>14. RoundTyped' /\ RoundKnows'
  BY <1>1, <1>3, <1>4, <1>5, <1>6, <1>7, <1>13, OnOnePool
<1> QED BY <1>9, <1>11, <1>12, <1>14 DEF Owing

LEMMA DeleteRaisesOwing ==
    ASSUME Inv, Owing, NEW j \in Job, DeleteRaises(j)
    PROVE  Owing'
<1>0. PICK p : p = PoolOfJob(j)
  OBVIOUS
<1>1. /\ Upcoming(j) /\ jobs[j].action = "vector_delete" /\ jobs[j].ids # {}
      /\ BaselineRaises(p) /\ \E J : Fail(J)
      /\ mem' = IF p \in Open THEN Copy(disk, mem, p) ELSE mem
      /\ round' = WithBatch(Taken(j), p, {})
      /\ UNCHANGED <<live, ready, graph, graphDisk, broken, stuck, relationVectors, ingesting>>
  BY <1>0, Zenon DEF DeleteRaises, Authorized, WithBatch
<1>2. p \in Pool
  BY <1>0, <1>1, OnePool DEF Owing
<1>3. /\ round' \in Rounds /\ round'.scope = round.scope /\ round'.queue \subseteq round.queue
      /\ round.phase = "run" /\ round'.phase = "run" /\ round.settle = {} /\ round'.settle = {}
      /\ round.cur = 0 /\ round'.cur = 0 /\ round.wrote = "nothing" /\ round'.wrote = "nothing"
      /\ \A q \in Pool : round'.batch[q] = IF q = p THEN {} ELSE round.batch[q]
  BY <1>1, <1>2, TakenBatch
<1>4. Carries(jobs, jobs', {}) /\ DOMAIN jobs' = DOMAIN jobs /\ ops' = ops /\ Job' = Job
  BY <1>1, FailCarries DEF Job
<1>5. Batched(p)'
  BY <1>2, <1>3 DEF Batched
<1>6. /\ disk' = disk \/ (p \notin Open /\ disk' = Copy(mem, disk, p))
      /\ Fault \/ faults' = faults
  BY <1>1 DEF BaselineRaises, Baseline
<1>7. StoresTyped'
  BY <1>1, <1>6, Pools, Faulted DEF Owing, StoresTyped
<1>8. Steady
  BY <1>1, <1>6, Pools DEF Steady
<1>9. Named(ops, jobs)'
  BY <1>4, SameNamed DEF Owing
<1>10. VectorsDue'
  BY <1>1, <1>4, <1>7, <1>8, VectorsStep DEF Owing
<1>11. GraphIsDue'
  BY <1>1, <1>4, GraphStep DEF Owing
<1>12. /\ mem' \subseteq Resource
       /\ \A i \in Resource : PoolOf(i) # p => (i \in mem' => i \in mem)
  BY <1>1, <1>7, Pools DEF StoresTyped
<1>13. RoundTyped' /\ RoundKnows'
  BY <1>1, <1>2, <1>3, <1>4, <1>5, <1>12, OnOnePool
<1> QED BY <1>7, <1>9, <1>10, <1>11, <1>13 DEF Owing

\* A round that breaks off.
LEMMA BreaksOff ==
    ASSUME Inv, Owing, round' = NoRound, \E J : Fail(J), UNCHANGED <<live, graph, graphDisk, relationVectors, ingesting>>,
           ready' \subseteq ready, StoresTyped', Steady, broken \subseteq broken'
    PROVE  Owing'
<1>1. /\ round' \in Rounds /\ round'.phase \in {"idle", "claim"} /\ round'.scope = 0
      /\ round'.queue = {} /\ round'.cur = 0 /\ round'.wrote = "nothing" /\ round'.settle = {}
      /\ \A p \in Pool : round'.batch[p] = {}
  BY NewRound
<1>2. Carries(jobs, jobs', {}) /\ DOMAIN jobs' = DOMAIN jobs /\ ops' = ops /\ Job' = Job
  BY FailCarries DEF Job
<1>3. RoundTyped' /\ RoundKnows'
  BY <1>1, AtRest DEF RoundTyped, Quiet
<1>4. Named(ops, jobs)'
  BY <1>2, SameNamed DEF Owing
<1>5. VectorsDue'
  BY <1>2, VectorsStep DEF Owing
<1>6. GraphIsDue'
  BY <1>2, GraphStep DEF Owing
<1> QED BY <1>3, <1>4, <1>5, <1>6 DEF Owing

LEMMA DeleteBreaksOwing ==
    ASSUME Inv, Owing, NEW j \in Job, DeleteBreaks(j)
    PROVE  Owing'
<1> DEFINE p == PoolOfJob(j)
<1>1. /\ p \in Pool /\ Fault /\ broken' = broken \cup {p} /\ stuck' = stuck \cup (Open \ {p})
      /\ \E J : Fail(J) /\ round' = NoRound
      /\ disk' \in {disk, Copy(mem, disk, p)}
      /\ UNCHANGED <<live, ready, mem, graph, graphDisk, relationVectors, ingesting>>
  BY DEF DeleteBreaks, Usable
<1> HIDE DEF p
<1>2. StoresTyped'
  BY <1>1, Pools, Faulted DEF Owing, StoresTyped, Open
<1>3. Steady
  BY <1>1, Pools DEF Steady
<1> QED BY <1>1, <1>2, <1>3, BreaksOff

LEMMA Flushes ==
    ASSUME Owing, NEW p \in Pool, Flushing, p \in Open
    PROVE  round.phase = "run" /\ round.settle = {} /\ round.wrote = "nothing"
BY DEF Flushing, Owing, RoundKnows, Phases, Upserted, Quiet, Open

LEMMA FlushOwing ==
    ASSUME Inv, Owing, NEW p \in Pool, Flush(p)
    PROVE  Owing'
<1> DEFINE r == WithBatch(round, p, {})
           v == round.batch[p]
<1>1. /\ Flushing /\ p \in Open /\ disk' = Copy(mem, disk, p)
      /\ round' = [r EXCEPT !.settle = v]
      /\ UNCHANGED <<live, ready, ops, jobs, graphDisk, stores, faults>>
  BY Zenon DEF Flush, WithBatch
<1>2. round.phase = "run" /\ round.settle = {} /\ round.wrote = "nothing"
  BY <1>1, Flushes
<1>3. round \in Rounds /\ v \subseteq Job /\ v \in SUBSET Nat /\ {} \in SUBSET Nat
  BY Numbers DEF Owing, RoundTyped
<1>4. /\ r \in Rounds /\ r.phase = round.phase /\ r.scope = round.scope /\ r.queue = round.queue
      /\ r.cur = round.cur /\ r.wrote = round.wrote /\ r.settle = round.settle
      /\ \A q \in Pool : r.batch[q] = IF q = p THEN {} ELSE round.batch[q]
  BY <1>3, SetBatch
<1> HIDE DEF r, v
<1>5. /\ round' \in Rounds /\ round'.settle = v /\ round'.phase = "run" /\ round'.scope = round.scope
      /\ round'.queue = round.queue /\ round'.cur = round.cur /\ round'.wrote = "nothing"
      /\ \A q \in Pool : round'.batch[q] = IF q = p THEN {} ELSE round.batch[q]
  BY <1>1, <1>2, <1>3, <1>4, SetSettle
<1>6. Carries(jobs, jobs', {}) /\ DOMAIN jobs' = DOMAIN jobs /\ Job' = Job
  BY <1>1, SameJobs
<1>7. RoundTyped'
  BY <1>1, <1>3, <1>5, <1>6 DEF Owing, RoundTyped
<1>8. StoresTyped' /\ Named(ops, jobs)'
  BY <1>1, Pools DEF Owing, StoresTyped, stores
<1>9. Steady
  BY <1>1, Pools DEF Steady, stores
<1>10. VectorsDue'
  BY <1>1, <1>6, <1>8, <1>9, VectorsStep DEF Owing, stores
<1>11. GraphIsDue'
  BY <1>1, <1>6, GraphStep DEF Owing, stores
<1>12. \A q \in Pool : Batched(q)'
  BY <1>1, <1>5 DEF Owing, RoundKnows, Batched, stores
<1>13. Settling'
  <2> SUFFICES ASSUME NEW j \in v PROVE Achieved(j)' /\ jobs'[j].action = "vector_delete"
    BY <1>5 DEF Settling
  <2>1. /\ jobs[j].action = "vector_delete" /\ jobs[j].ids \cap mem \subseteq live
        /\ \A i \in jobs[j].ids : PoolOf(i) = p
    BY DEF v, Owing, RoundKnows, Batched
  <2>2. jobs[j].ids \cap (mem' \cup disk') \subseteq live
    BY <1>1, <2>1, Pools DEF stores
  <2> QED BY <1>1, <2>1, <2>2 DEF Achieved, GraphActions
<1>14. Current' /\ Phases'
  BY <1>1, <1>5 DEF Owing, RoundKnows, Current, Phases
<1> QED BY <1>7, <1>8, <1>10, <1>11, <1>12, <1>13, <1>14 DEF Owing, RoundKnows

LEMMA FlushRollsBackOwing ==
    ASSUME Inv, Owing, NEW p \in Pool, FlushRollsBack(p)
    PROVE  Owing'
<1>1. /\ Flushing /\ p \in Open /\ mem' = Copy(disk, mem, p) /\ \E J : Fail(J)
      /\ Fault \/ faults' = faults
      /\ round' = WithBatch(round, p, {})
      /\ UNCHANGED <<live, ready, disk, graph, graphDisk, broken, stuck, relationVectors, ingesting>>
  BY Zenon DEF FlushRollsBack, WithBatch
<1>2. round.phase = "run" /\ round.settle = {} /\ round.wrote = "nothing"
  BY <1>1, Flushes
<1>3. round \in Rounds /\ {} \in SUBSET Nat
  BY DEF Owing, RoundTyped
<1>4. /\ round' \in Rounds /\ round'.phase = round.phase /\ round'.scope = round.scope
      /\ round'.queue = round.queue /\ round'.cur = round.cur /\ round'.wrote = round.wrote
      /\ round'.settle = round.settle
      /\ \A q \in Pool : round'.batch[q] = IF q = p THEN {} ELSE round.batch[q]
  BY <1>1, <1>3, SetBatch
<1>5. Carries(jobs, jobs', {}) /\ DOMAIN jobs' = DOMAIN jobs /\ ops' = ops
  BY <1>1, FailCarries
<1>6. StoresTyped'
  BY <1>1, Pools, Faulted DEF Owing, StoresTyped
<1>7. Steady
  BY <1>1, Pools DEF Steady
<1>8. Named(ops, jobs)'
  BY <1>5, SameNamed DEF Owing
<1>9. VectorsDue'
  BY <1>1, <1>5, <1>6, <1>7, VectorsStep DEF Owing
<1>10. GraphIsDue'
  BY <1>1, <1>5, GraphStep DEF Owing
<1>11. Batched(p)'
  BY <1>4 DEF Batched
<1>12. /\ mem' \subseteq Resource
       /\ \A i \in Resource : PoolOf(i) # p => (i \in mem' => i \in mem)
  BY <1>1, Pools
<1>13. RoundTyped' /\ RoundKnows'
  BY <1>1, <1>2, <1>4, <1>5, <1>11, <1>12, OnOnePool
<1> QED BY <1>6, <1>8, <1>9, <1>10, <1>13 DEF Owing

LEMMA FlushBreaksOwing ==
    ASSUME Inv, Owing, NEW p \in Pool, FlushBreaks(p)
    PROVE  Owing'
<1>1. /\ Fault /\ broken' = broken \cup {p} /\ \E J : Fail(J) /\ round' = NoRound
      /\ mem' = {i \in Resource : i \in (IF PoolOf(i) \in Open \ {p} THEN disk ELSE mem)}
      /\ disk' \in {disk, Copy(mem, disk, p)}
      /\ UNCHANGED <<live, ready, graph, graphDisk, stuck, relationVectors, ingesting>>
  BY DEF FlushBreaks
<1>2. StoresTyped'
  BY <1>1, Pools, Faulted DEF Owing, StoresTyped
<1>3. Steady
  BY <1>1, Pools DEF Steady
<1> QED BY <1>1, <1>2, <1>3, BreaksOff

LEMMA SettleOwing ==
    ASSUME Inv, Owing, NEW j \in Job, Settle(j)
    PROVE  Owing'
<1>1. /\ round.phase = "run" /\ round.settle # {} /\ j = Least(round.settle) /\ Complete(j, "completed")
      /\ round' = [round EXCEPT !.settle = @ \ {j}]
      /\ UNCHANGED <<live, ready, disk, graphDisk, stores, faults>>
  BY DEF Settle
<1>2. j \in round.settle /\ Achieved(j)
  BY <1>1, LeastIs DEF Owing, RoundTyped, Rounds, RoundKnows, Settling
<1>3. /\ Carries(jobs, jobs', {j}) /\ DOMAIN jobs' = DOMAIN jobs
      /\ DOMAIN ops' = DOMAIN ops /\ \A o \in DOMAIN ops : ops'[o].items = ops[o].items
  BY <1>1, CompleteCarries DEF Job
<1>4. /\ round' \in Rounds /\ round'.settle = round.settle \ {j} /\ round'.phase = round.phase
      /\ round'.scope = round.scope /\ round'.queue = round.queue /\ round'.cur = round.cur
      /\ round'.wrote = round.wrote /\ round'.batch = round.batch
  <2> DEFINE v == round.settle \ {j}
  <2>1. round \in Rounds /\ v \in SUBSET Nat /\ round' = [round EXCEPT !.settle = v]
    BY <1>1 DEF Owing, RoundTyped, Rounds
  <2> HIDE DEF v
  <2>2. /\ round' \in Rounds /\ round'.settle = v /\ round'.phase = round.phase
        /\ round'.scope = round.scope /\ round'.queue = round.queue /\ round'.cur = round.cur
        /\ round'.wrote = round.wrote /\ round'.batch = round.batch
    BY <2>1, SetSettle
  <2> QED BY <2>2 DEF v
<1>5. round.cur # 0 => round.cur # j
  BY <1>2 DEF Owing, RoundKnows, Settling, Current
<1>6. RoundTyped'
  BY <1>3, <1>4, RoundGoesOn DEF Owing, RoundTyped, Job
<1>7. RoundKnows'
  BY <1>1, <1>3, <1>4, <1>5, RoundShrinks DEF Owing, stores
<1>8. StoresTyped'
  BY <1>1 DEF Owing, StoresTyped, stores
<1>9. Named(ops, jobs)'
  BY <1>3, NamedKept DEF Owing
<1>10. VectorsDue'
  BY <1>1, <1>2, <1>3, VectorsJobEnds DEF Owing, stores, Achieved
<1>11. GraphIsDue'
  BY <1>1, <1>2, <1>3, GraphStep DEF Owing, stores, Achieved
<1> QED BY <1>6, <1>7, <1>8, <1>9, <1>10, <1>11 DEF Owing

-----------------------------------------------------------------------------
(* Steps of a round on upserts and on the graph. *)

LEMMA AtQuiet ==
    ASSUME Open = {}, round.settle = {}
    PROVE  Quiet
BY DEF Open, Quiet

\* The round works on job j, a new vector or the graph.
LEMMA Works ==
    ASSUME Inv, Owing, NEW j \in Job,
           (\E a : Working(j, a)) \/ (round.phase = "embed" /\ j = round.cur)
    PROVE  /\ Quiet /\ Open = {} /\ j = round.cur /\ j # 0 /\ jobs[j].status \in UnfinishedStatus
           /\ jobs[j].action # "vector_delete"
<1>1. Quiet /\ j = round.cur /\ j # 0
  BY AtQuiet DEF Working, Owing, RoundKnows, Phases, Upserted
<1> QED BY <1>1 DEF Owing, RoundKnows, Current, Quiet, Open

LEMMA OneVector ==
    ASSUME Inv, Owing, NEW j \in Job, jobs[j].action = "vector_upsert"
    PROVE  /\ PoolOfJob(j) \in Pool
           /\ \E i \in Resource : jobs[j].ids = {i} /\ PoolOf(i) = PoolOfJob(j)
<1>1. PICK i \in Resource : jobs[j].ids = {i}
  BY DEF Owing, Named, Job
<1> QED BY <1>1, OnePool DEF Owing

\* Job j is over: it has ended or failed.
LEMMA Over ==
    ASSUME Inv, Owing, NEW j \in Job, Quiet, round' = Done, DOMAIN jobs' = DOMAIN jobs, DOMAIN ops' = DOMAIN ops
    PROVE  RoundTyped' /\ RoundKnows'
<1>1. /\ round' \in Rounds /\ round'.phase = "run" /\ round'.cur = 0 /\ round'.wrote = "nothing"
      /\ round'.scope = round.scope /\ round'.queue = round.queue
      /\ round'.batch = round.batch /\ round'.settle = round.settle
  BY IsDone DEF Owing, RoundTyped
<1>2. RoundTyped'
  BY <1>1 DEF Owing, RoundTyped, Job
<1>3. RoundKnows'
  BY <1>1, AtRest DEF Quiet
<1> QED BY <1>2, <1>3

\* Done, with a job to settle.
LEMMA IsSettling ==
    ASSUME round \in Rounds, NEW j \in Nat, NEW s, s = [Done EXCEPT !.settle = {j}]
    PROVE  /\ s \in Rounds /\ s.settle = {j} /\ s.phase = "run" /\ s.scope = round.scope
           /\ s.queue = round.queue /\ s.cur = 0 /\ s.wrote = "nothing" /\ s.batch = round.batch
<1> DEFINE d == Done
           v == {j}
<1>1. /\ d \in Rounds /\ d.phase = "run" /\ d.cur = 0 /\ d.wrote = "nothing"
      /\ d.scope = round.scope /\ d.queue = round.queue
      /\ d.batch = round.batch /\ d.settle = round.settle
  BY IsDone
<1>2. v \in SUBSET Nat
  OBVIOUS
<1>3. s = [d EXCEPT !.settle = v]
  OBVIOUS
<1> HIDE DEF d, v
<1>4. /\ s \in Rounds /\ s.settle = v /\ s.phase = d.phase /\ s.scope = d.scope
      /\ s.queue = d.queue /\ s.cur = d.cur /\ s.wrote = d.wrote /\ s.batch = d.batch
  BY <1>1, <1>2, <1>3 DEF Rounds
<1> QED BY <1>1, <1>4 DEF v

\* Job j has done its work and waits to be settled.
LEMMA Saved ==
    ASSUME Inv, Owing, NEW j \in Job, Quiet, round' = [Done EXCEPT !.settle = {j}], UNCHANGED <<ops, jobs>>, Achieved(j)'
    PROVE  RoundTyped' /\ RoundKnows'
<1>1. round \in Rounds /\ j \in Nat
  BY Numbers DEF Owing, RoundTyped
<1>3. /\ round' \in Rounds /\ round'.settle = {j} /\ round'.phase = "run" /\ round'.scope = round.scope
      /\ round'.queue = round.queue /\ round'.cur = 0 /\ round'.wrote = "nothing"
      /\ round'.batch = round.batch
  BY <1>1, IsSettling
<1>4. RoundTyped'
  BY <1>3 DEF Owing, RoundTyped, Job
<1>5. (\A p \in Pool : Batched(p)') /\ Settling'
  BY <1>3 DEF Quiet, Batched, Settling
<1>6. Current' /\ Phases'
  BY <1>3 DEF Current, Phases
<1> QED BY <1>4, <1>5, <1>6 DEF RoundKnows

\* Ending or failing job j, the stores untouched.
LEMMA UpsertEndsOwing ==
    ASSUME Inv, Owing, NEW j \in Job, UpsertNothing(j) \/ UpsertDisabled(j)
    PROVE  Owing'
<1>1. /\ Working(j, "vector_upsert") /\ jobs[j].action = "vector_upsert" /\ \E st : Complete(j, st)
      /\ round' = Done /\ ready' \subseteq ready
      /\ UNCHANGED <<live, disk, graphDisk, stores, faults>>
  BY DEF UpsertNothing, UpsertDisabled, Working
<1>2. \A i \in jobs[j].ids : i \notin live \/ (~relationVectors /\ i \notin ready')
  BY DEF UpsertNothing, UpsertDisabled, Authorized, Working
<1>3. Quiet
  BY <1>1, Works
<1>4. /\ Carries(jobs, jobs', {j}) /\ DOMAIN jobs' = DOMAIN jobs
      /\ DOMAIN ops' = DOMAIN ops /\ \A o \in DOMAIN ops : ops'[o].items = ops[o].items
  BY <1>1, CompleteCarries DEF Job
<1>5. RoundTyped' /\ RoundKnows'
  BY <1>1, <1>3, <1>4, Over
<1>6. StoresTyped'
  BY <1>1 DEF Owing, StoresTyped, stores
<1>7. Named(ops, jobs)'
  BY <1>4, NamedKept DEF Owing
<1>8. VectorsDue'
  BY <1>1, <1>2, <1>4, VectorsJobEnds DEF Owing, stores
<1>9. GraphIsDue'
  BY <1>1, <1>4, GraphStep DEF Owing, stores, GraphActions
<1> QED BY <1>5, <1>6, <1>7, <1>8, <1>9 DEF Owing

\* Job j fails: what it wrote is taken back, in memory and in the mark of the relation.
LEMMA UpsertFailsOwing ==
    ASSUME Inv, Owing, NEW j \in Job, Quiet, Fail({j}), round' = Done, StoresTyped', Steady,
           ready' \subseteq ready, UNCHANGED <<live, broken, ingesting>>, GraphIsDue'
    PROVE  Owing'
<1>1. Carries(jobs, jobs', {}) /\ DOMAIN jobs' = DOMAIN jobs /\ ops' = ops
  BY FailCarries
<1>2. RoundTyped' /\ RoundKnows'
  BY <1>1, Over
<1>3. Named(ops, jobs)'
  BY <1>1, SameNamed DEF Owing
<1>4. VectorsDue'
  BY <1>1, VectorsStep DEF Owing
<1> QED BY <1>2, <1>3, <1>4 DEF Owing

LEMMA NotWrittenOwing ==
    ASSUME Inv, Owing, NEW j \in Job, NotWritten(j), Quiet, Open = {}, jobs[j].action = "vector_upsert"
    PROVE  Owing'
<1>0. PICK p : p = PoolOfJob(j)
  OBVIOUS
<1>1. /\ disk' = disk \/ disk' = Copy(mem, disk, p)
      /\ Fault \/ faults' = faults
      /\ Fail({j}) /\ ready' = ready \ jobs[j].ids /\ round' = Done
      /\ UNCHANGED <<live, graphDisk, stores>>
  BY <1>0 DEF NotWritten, BaselineRaises, Baseline
<1>2. StoresTyped'
  BY <1>1, Pools, Faulted DEF Owing, StoresTyped, stores
<1>3. Steady
  BY <1>1, Pools DEF Steady, stores
<1>4. Carries(jobs, jobs', {})
  BY <1>1, FailCarries
<1>5. GraphIsDue'
  BY <1>1, <1>4, GraphStep DEF Owing, stores
<1> QED BY <1>1, <1>2, <1>3, <1>5, UpsertFailsOwing DEF stores

LEMMA UpsertRollsBackOwing ==
    ASSUME Inv, Owing, NEW j \in Job, UpsertRollsBack(j)
    PROVE  Owing'
<1>0. PICK p : p = PoolOfJob(j)
  OBVIOUS
<1>1. /\ Working(j, "vector_upsert") /\ (mem' = mem \/ mem' = Copy(disk, mem, p))
      /\ Fault \/ faults' = faults
      /\ Fail({j}) /\ ready' = ready \ jobs[j].ids /\ round' = Done
      /\ UNCHANGED <<live, disk, graph, graphDisk, broken, stuck, relationVectors, ingesting>>
  BY <1>0 DEF UpsertRollsBack, Written
<1>2. Quiet
  <2>1. Working(j, "vector_upsert")
    BY <1>1, Zenon
  <2>2. \E a : Working(j, a)
    BY <2>1, Zenon
  <2> QED BY <2>2, Works
<1>3. StoresTyped'
  BY <1>1, Pools, Faulted DEF Owing, StoresTyped
<1>4. Steady
  BY <1>1, Pools DEF Steady
<1>5. Carries(jobs, jobs', {})
  BY <1>1, FailCarries
<1>6. GraphIsDue'
  BY <1>1, <1>5, GraphStep DEF Owing
<1> QED BY <1>1, <1>2, <1>3, <1>4, <1>6, UpsertFailsOwing

LEMMA UpsertBreaksOwing ==
    ASSUME Inv, Owing, NEW j \in Job, UpsertBreaks(j)
    PROVE  Owing'
<1>0. PICK p : p = PoolOfJob(j)
  OBVIOUS
<1>1. /\ Fault /\ broken' = broken \cup {p} /\ Fail({j}) /\ disk' \in {disk, Copy(mem, disk, p)}
      /\ round' = NoRound /\ jobs[j].action = "vector_upsert"
      /\ UNCHANGED <<live, ready, mem, graph, graphDisk, stuck, relationVectors, ingesting>>
  BY <1>0 DEF UpsertBreaks, Written, Working
<1>2. p \in Pool
  BY <1>0, <1>1, OneVector
<1>3. StoresTyped'
  BY <1>1, <1>2, Pools, Faulted DEF Owing, StoresTyped
<1>4. Steady
  BY <1>1, Pools DEF Steady
<1> QED BY <1>1, <1>3, <1>4, BreaksOff

\* Job j goes on: its mark or its vector is written, or it waits for an embedding.
LEMMA UpsertGoesOn ==
    ASSUME Inv, Owing, NEW j \in Job, Quiet, j = round.cur, jobs[j].action = "vector_upsert",
           jobs[j].status \in UnfinishedStatus, UNCHANGED <<live, ops, jobs, broken, ingesting>>,
           StoresTyped', Steady, GraphIsDue', \A r \in ready' : r \in ready \/ r \in jobs[j].ids,
           round' \in Rounds, round'.scope = round.scope, round'.queue = round.queue,
           round'.cur = round.cur, round'.batch = round.batch, round'.settle = round.settle,
           round'.phase \in {"run", "embed"}, round'.phase = "embed" => round'.wrote = "nothing",
           round'.wrote # "nothing" => jobs[j].ids \subseteq mem'
    PROVE  Owing'
<1>1. Carries(jobs, jobs', {}) /\ DOMAIN jobs' = DOMAIN jobs /\ Job' = Job
  BY SameJobs
<1>2. RoundTyped' /\ Named(ops, jobs)'
  BY <1>1 DEF Owing, RoundTyped
<1>3. \A r \in ready' : r \in ready \/ Due(jobs', "vector_upsert", r)
  BY DEF Due, Job
<1>4. VectorsDue'
  BY <1>1, <1>3, VectorsStep DEF Owing
<1>5. round.cur # 0
  <2>1. j \in Nat \ {0}
    BY LenProperties DEF Inv, Consistent, Job
  <2> QED BY <2>1
<1>6. Quiet' /\ Upserted'
  BY <1>5 DEF Quiet, Upserted
<1>7. (\A p \in Pool : Batched(p)') /\ Settling'
  BY <1>6 DEF Quiet, Batched, Settling
<1>8. Current' /\ Phases'
  BY <1>6 DEF Current, Phases
<1> QED BY <1>2, <1>4, <1>7, <1>8 DEF Owing, RoundKnows

LEMMA UpsertPresentOwing ==
    ASSUME Inv, Owing, NEW j \in Job, UpsertPresent(j)
    PROVE  Owing'
<1>1. /\ Working(j, "vector_upsert") /\ jobs[j].action = "vector_upsert" /\ jobs[j].ids \cap live # {}
      /\ jobs[j].ids \subseteq mem /\ ready' = ready \cup (jobs[j].ids \cap Relation)
      /\ round' = [round EXCEPT !.wrote = "present"] /\ round.phase = "run"
      /\ UNCHANGED <<live, ops, jobs, disk, graphDisk, stores, faults>>
  BY DEF UpsertPresent, Upserting, Working, Authorized
<1>2. Quiet /\ j = round.cur /\ jobs[j].status \in UnfinishedStatus
  BY <1>1, Works
<1>3. /\ round' \in Rounds /\ round'.wrote = "present" /\ round'.phase = round.phase
      /\ round'.scope = round.scope /\ round'.queue = round.queue /\ round'.cur = round.cur
      /\ round'.batch = round.batch /\ round'.settle = round.settle
  BY <1>1, SetWrote DEF Owing, RoundTyped
<1>4. jobs[j].ids \subseteq live
  BY <1>1, OneVector
<1>5. StoresTyped'
  BY <1>1, <1>4 DEF Owing, StoresTyped, stores
<1>6. Steady
  BY <1>1 DEF Steady, stores
<1>7. GraphIsDue'
  BY <1>1 DEF Owing, GraphIsDue, stores
<1> QED BY <1>1, <1>2, <1>3, <1>5, <1>6, <1>7, UpsertGoesOn DEF stores

LEMMA WriteOwing ==
    ASSUME Inv, Owing, NEW j \in Job, Write(j), Quiet, Open = {}, j = round.cur,
           jobs[j].status \in UnfinishedStatus, jobs[j].action = "vector_upsert"
    PROVE  Owing'
<1>0. PICK p : p = PoolOfJob(j)
  OBVIOUS
<1>1. /\ disk' = Copy(mem, disk, p) \/ disk' = disk
      /\ p \in Usable /\ jobs[j].ids \cap live = jobs[j].ids /\ mem' = mem \cup jobs[j].ids
      /\ ready' = ready \cup (jobs[j].ids \cap Relation)
      /\ round' = [round EXCEPT !.phase = "run", !.wrote = "added"]
      /\ UNCHANGED <<live, ops, jobs, graph, graphDisk, broken, stuck, relationVectors, ingesting, faults>>
  BY <1>0 DEF Write, MayRestore, Authorized, Baseline
<1>2. disk' = Copy(mem, disk, p)
  BY <1>0, <1>1 DEF Write, Baseline, Usable
<1>3. jobs[j].ids \subseteq Resource
  BY OneVector
<1>4. /\ round' \in Rounds /\ round'.wrote = "added" /\ round'.phase = "run"
      /\ round'.scope = round.scope /\ round'.queue = round.queue /\ round'.cur = round.cur
      /\ round'.batch = round.batch /\ round'.settle = round.settle
  <2> DEFINE r == [round EXCEPT !.phase = "run"]
  <2>1. round' = [r EXCEPT !.wrote = "added"]
    BY <1>1, Zenon
  <2>2. /\ r \in Rounds /\ r.phase = "run" /\ r.scope = round.scope /\ r.queue = round.queue
        /\ r.cur = round.cur /\ r.batch = round.batch /\ r.settle = round.settle
    BY SetPhase DEF Owing, RoundTyped
  <2> HIDE DEF r
  <2> QED BY <2>1, <2>2, SetWrote
<1>5. StoresTyped'
  BY <1>1, <1>2, <1>3, Pools DEF Owing, StoresTyped
<1>6. Steady
  BY <1>1, <1>2, Pools DEF Steady
<1>7. GraphIsDue'
  BY <1>1 DEF Owing, GraphIsDue
<1> QED BY <1>1, <1>4, <1>5, <1>6, <1>7, UpsertGoesOn

LEMMA AwaitEmbeddingOwing ==
    ASSUME Inv, Owing, NEW j \in Job, AwaitEmbedding(j)
    PROVE  Owing'
<1>1. /\ Working(j, "vector_upsert") /\ jobs[j].action = "vector_upsert" /\ round.wrote = "nothing"
      /\ ready' = ready \ jobs[j].ids /\ round' = [round EXCEPT !.phase = "embed"]
      /\ UNCHANGED <<live, ops, jobs, disk, graphDisk, stores, faults>>
  BY DEF AwaitEmbedding, Upserting, Working
<1>2. Quiet /\ j = round.cur /\ jobs[j].status \in UnfinishedStatus
  BY <1>1, Works
<1>3. /\ round' \in Rounds /\ round'.phase = "embed" /\ round'.wrote = round.wrote
      /\ round'.scope = round.scope /\ round'.queue = round.queue /\ round'.cur = round.cur
      /\ round'.batch = round.batch /\ round'.settle = round.settle
  BY <1>1, SetPhase DEF Owing, RoundTyped
<1>4. StoresTyped'
  BY <1>1 DEF Owing, StoresTyped, stores
<1>5. Steady
  BY <1>1 DEF Steady, stores
<1>6. GraphIsDue'
  BY <1>1 DEF Owing, GraphIsDue, stores
<1> QED BY <1>1, <1>2, <1>3, <1>4, <1>5, <1>6, UpsertGoesOn DEF stores

LEMMA UpsertSavedOwing ==
    ASSUME Inv, Owing, NEW j \in Job, UpsertSaved(j)
    PROVE  Owing'
<1>0. PICK p : p = PoolOfJob(j)
  OBVIOUS
<1>1. /\ Working(j, "vector_upsert") /\ jobs[j].action = "vector_upsert" /\ round.wrote # "nothing"
      /\ jobs[j].ids \cap live = jobs[j].ids /\ disk' = Copy(mem, disk, p)
      /\ round' = [Done EXCEPT !.settle = {j}]
      /\ UNCHANGED <<live, ready, ops, jobs, graphDisk, stores, faults>>
  BY <1>0 DEF UpsertSaved, Written, Working, MayRestore, Authorized
<1>2. Quiet /\ j = round.cur
  BY <1>1, Works
<1>3. jobs[j].ids \subseteq mem
  BY <1>1, <1>2 DEF Owing, RoundKnows, Phases
<1>4. Carries(jobs, jobs', {})
  BY <1>1, SameJobs
<1>5. jobs[j].ids \subseteq disk'
  BY <1>0, <1>1, <1>3, OneVector, Pools
<1>6. Achieved(j)'
  BY <1>1, <1>3, <1>5 DEF Achieved, GraphActions, stores
<1>7. RoundTyped' /\ RoundKnows'
  BY <1>1, <1>2, <1>6, Saved
<1>8. StoresTyped' /\ Named(ops, jobs)'
  BY <1>1, Pools DEF Owing, StoresTyped, stores
<1>9. Steady
  BY <1>1, Pools DEF Steady, stores
<1>10. VectorsDue'
  BY <1>1, <1>4, <1>8, <1>9, VectorsStep DEF Owing, stores
<1>11. GraphIsDue'
  BY <1>1, <1>4, GraphStep DEF Owing, stores
<1> QED BY <1>7, <1>8, <1>10, <1>11 DEF Owing

LEMMA RebuildGraphOwing ==
    ASSUME Inv, Owing, NEW j \in Job, RebuildGraph(j)
    PROVE  Owing'
<1>1. /\ (\E a : Working(j, a)) /\ jobs[j].action \in GraphActions
      /\ graph' = graph \/ graph' = Relation \cap live
      /\ UNCHANGED <<live, ready, mem, disk, broken, stuck, relationVectors, ingesting>>
  BY DEF RebuildGraph, Working, GraphActions
<1>2. Quiet
  BY <1>1, Works
<1>3. Steady
  BY <1>1 DEF Steady
<1>4. CASE /\ graph' = live \cap Relation /\ graphDisk' = graph'
           /\ round' = [Done EXCEPT !.settle = {j}] /\ UNCHANGED <<ops, jobs, faults>>
  <2>1. Carries(jobs, jobs', {})
    BY <1>4, SameJobs
  <2>2. Achieved(j)'
    BY <1>1, <1>4 DEF Achieved, GraphActions
  <2>3. RoundTyped' /\ RoundKnows'
    BY <1>2, <1>4, <2>2, Saved
  <2>4. StoresTyped' /\ Named(ops, jobs)'
    BY <1>1, <1>4 DEF Owing, StoresTyped
  <2>5. VectorsDue'
    BY <1>1, <1>3, <2>1, <2>4, VectorsStep DEF Owing
  <2>6. GraphIsDue'
    BY <1>1, <1>4 DEF GraphIsDue
  <2> QED BY <2>3, <2>4, <2>5, <2>6 DEF Owing
<1>5. CASE /\ Fail({j}) /\ round' = Done /\ graphDisk' = graphDisk /\ (Fault \/ faults' = faults)
  <2>1. Carries(jobs, jobs', {})
    BY <1>5, FailCarries
  <2>2. GraphIsDue'
    BY <1>1, <1>5, <2>1, GraphStep DEF Owing
  <2>3. StoresTyped'
    BY <1>1, <1>5, Faulted DEF Owing, StoresTyped
  <2> QED BY <1>1, <1>2, <1>3, <1>5, <2>2, <2>3, UpsertFailsOwing
<1> QED BY <1>4, <1>5 DEF RebuildGraph

\* A vector is written, or not, with or without an embedding awaited.
LEMMA UpsertOwing ==
    ASSUME Inv, Owing, NEW j \in Job, UpsertRevive(j) \/ Embedded(j)
    PROVE  Owing'
<1>1. Write(j) \/ NotWritten(j)
  BY DEF UpsertRevive, Embedded
<1>2. (\E a : Working(j, a)) \/ (round.phase = "embed" /\ j = round.cur)
  BY DEF UpsertRevive, Embedded, Upserting
<1>3. Quiet /\ Open = {} /\ j = round.cur /\ jobs[j].status \in UnfinishedStatus
  BY <1>2, Works
<1>4. jobs[j].action = "vector_upsert"
  BY DEF UpsertRevive, Embedded, Upserting, Working, Owing, RoundKnows, Phases, Upserted
<1>5. CASE Write(j)
  BY <1>3, <1>4, <1>5, WriteOwing
<1>6. CASE NotWritten(j)
  BY <1>3, <1>4, <1>6, NotWrittenOwing
<1> QED BY <1>1, <1>5, <1>6

-----------------------------------------------------------------------------
(* The invariant holds. *)

LEMMA EndRoundOwing ==
    ASSUME Inv, Owing, EndRound
    PROVE  Owing'
<1>1. /\ \E O : ops' = Reconciled(ops, jobs, O)
      /\ round' = NoRound
      /\ UNCHANGED <<live, ready, jobs, disk, graphDisk, stores, faults>>
  BY DEF EndRound
<1>2. ops \in Seq(OperationRow)
  BY DEF Inv, Consistent
<1>3. DOMAIN ops' = DOMAIN ops
  BY <1>1 DEF Reconciled
<1>4. ASSUME NEW o \in DOMAIN ops PROVE ops'[o].items = ops[o].items
  <2>1. ops[o] \in OperationRow
    BY <1>2, ElementOfSeq, LenProperties
  <2>2. ops'[o] = ops[o] \/ ops'[o] = [ops[o] EXCEPT !.status = Settles[@]]
    BY <1>1 DEF Reconciled
  <2> QED BY <2>1, <2>2 DEF OperationRow
<1> QED BY <1>1, <1>3, <1>4, BeginsOrEnds

LEMMA RoundStepOwing ==
    ASSUME Inv, Owing, RoundStep
    PROVE  Owing'
<1>1. CASE Claim
  BY <1>1, ClaimOwing
<1>2. CASE EndRound
  BY <1>2, EndRoundOwing
<1>3. CASE \E j \in Job : LoseLease(j) \/ NothingToDo(j) \/ DeleteInMemory(j)
  BY <1>3, LoseLeaseOwing, NothingToDoOwing, DeleteInMemoryOwing
<1>4. CASE \E j \in Job : DeleteRaises(j) \/ DeleteBreaks(j) \/ Turn(j) \/ Settle(j)
  BY <1>4, DeleteRaisesOwing, DeleteBreaksOwing, TurnOwing, SettleOwing
<1>5. CASE \E j \in Job : UpsertNothing(j) \/ UpsertDisabled(j) \/ UpsertPresent(j)
  BY <1>5, UpsertEndsOwing, UpsertPresentOwing
<1>6. CASE \E j \in Job : UpsertRevive(j) \/ AwaitEmbedding(j) \/ Embedded(j)
  BY <1>6, UpsertOwing, AwaitEmbeddingOwing
<1>7. CASE \E j \in Job : UpsertSaved(j) \/ UpsertRollsBack(j) \/ UpsertBreaks(j) \/ RebuildGraph(j)
  BY <1>7, UpsertSavedOwing, UpsertRollsBackOwing, UpsertBreaksOwing, RebuildGraphOwing
<1>8. CASE \E p \in Pool : Flush(p) \/ FlushRollsBack(p) \/ FlushBreaks(p)
  BY <1>8, FlushOwing, FlushRollsBackOwing, FlushBreaksOwing
<1> QED BY <1>1, <1>2, <1>3, <1>4, <1>5, <1>6, <1>7, <1>8 DEF RoundStep

LEMMA StepOwing ==
    ASSUME Inv, Inv', Owing, [Next]_vars
    PROVE  Owing'
<1>1. CASE \E S \in SUBSET Resource : Delete(S)
  BY <1>1, DeleteOwing
<1>2. CASE \E o \in DOMAIN ops : Restore(o)
  BY <1>2, RestoreOwing
<1>3. CASE \E o \in DOMAIN ops : RestoreAgain(o)
  <2>1. PICK o \in DOMAIN ops : round' = RoundFor(o) /\ UNCHANGED <<durable, stores, faults>>
    BY <1>3 DEF RestoreAgain
  <2> QED BY <2>1, BeginsOrEnds DEF durable
<1>4. CASE \E R \in SUBSET Relation : RestoreRelations(R)
  BY <1>4, RestoreRelationsOwing
<1>5. CASE StartRound \/ CancelRound
  <2>1. /\ round' = RoundFor(0) \/ round' = NoRound
        /\ UNCHANGED <<durable, stores>> /\ (Fault \/ faults' = faults)
    BY <1>5 DEF StartRound, CancelRound
  <2> QED BY <2>1, BeginsOrEnds DEF durable
<1>6. CASE RoundStep
  BY <1>6, RoundStepOwing
<1>7. CASE \E i \in Resource : Ingest(i) \/ IngestEmbedded(i)
  BY <1>7, IngestOwing, IngestEmbeddedOwing
<1>8. CASE \E j \in Job : TimePasses(j)
  BY <1>8, TimeOwing
<1>9. CASE Save \/ Crash
  BY <1>9, SaveOwing, CrashOwing
<1>10. CASE UNCHANGED vars
  <2>1. /\ UNCHANGED <<live, ready, ops, jobs, mem, disk, graph, graphDisk, broken, stuck,
                       relationVectors, ingesting, round, faults>>
    BY <1>10 DEF vars, durable, stores
  <2>2. StoresTyped' /\ RoundTyped' /\ Named(ops, jobs)'
    BY <2>1 DEF Owing, StoresTyped, RoundTyped, Job
  <2>3. VectorsDue' /\ GraphIsDue'
    BY <2>1 DEF Owing, VectorsDue, DeletesDue, RelationsDue, ReadyDue, RevivedDue, GraphIsDue
  <2>4. RoundKnows'
    BY <2>1 DEF Owing, RoundKnows, Batched, Settling, Achieved, Current, Phases, Quiet, Upserted
  <2> QED BY <2>2, <2>3, <2>4 DEF Owing
<1> QED BY <1>1, <1>2, <1>3, <1>4, <1>5, <1>6, <1>7, <1>8, <1>9, <1>10 DEF Next

LEMMA InitOwing ==
    ASSUME Init
    PROVE  Owing
<1>1. /\ round \in Rounds /\ round.phase = "idle" /\ round.scope = 0 /\ round.queue = {}
      /\ round.cur = 0 /\ round.wrote = "nothing" /\ round.settle = {}
      /\ \A p \in Pool : round.batch[p] = {}
  BY DEF Init, NoRound, Rounds
<1>2. jobs = <<>> /\ DOMAIN jobs = {}
  BY DEF Init
<1>3. StoresTyped
  <2>1. faults \in 0 .. MaxFaults
    BY ParametersAssumption DEF Init
  <2>2. relationVectors \in VectorModes
    BY ParametersAssumption DEF Init
  <2> QED BY <2>1, <2>2 DEF Init, StoresTyped, Resource
<1>4. RoundTyped /\ RoundKnows
  BY <1>1 DEF RoundTyped, RoundKnows, Batched, Settling, Current, Phases, Quiet
<1>5. Named(ops, jobs) /\ VectorsDue /\ GraphIsDue
  BY <1>2 DEF Named, VectorsDue, DeletesDue, RelationsDue, ReadyDue, RevivedDue, GraphIsDue, Init, Resource
<1> QED BY <1>3, <1>4, <1>5 DEF Owing

\* What memory and disk lack is due, and what a round says it has done it has done:
\* the invariant of the stores and the round, on top of that of the tables.
THEOREM WorkIsOwed == Spec => [](Inv /\ Owing)
<1>1. Init => Inv /\ Owing
  <2>1. Init => Inv
    BY DEF Init, Inv, Consistent
  <2> QED BY <2>1, InitOwing
<1>2. Inv /\ Inv' /\ Owing /\ [Next]_vars => Owing'
  BY StepOwing
<1> QED BY <1>1, <1>2, Tables, PTL DEF Spec

-----------------------------------------------------------------------------
(* What the stores lack is owed. *)

LEMMA Typed ==
    ASSUME Inv, Owing
    PROVE  TypeOK
<1>1. round \in [phase : {"idle", "claim", "run", "embed"}, scope : {0} \cup DOMAIN ops,
                 queue : SUBSET Job, cur : {0} \cup Job, wrote : {"nothing", "present", "added"},
                 batch : [Pool -> SUBSET Job], settle : SUBSET Job]
  <2>1. round.batch \in [Pool -> SUBSET Job]
    BY DEF Owing, RoundTyped, Rounds
  <2> QED BY <2>1 DEF Owing, RoundTyped, Rounds
<1>2. /\ ops \in Seq([status : {"pending_cleanup", "completed", "superseded", "restore_pending",
                                "restored"},
                      items : (SUBSET Resource) \ {{}}])
      /\ jobs \in Seq([op : Nat, action : Action, ids : SUBSET Resource,
                       status : UnfinishedStatus \cup {"completed", "cancelled"},
                       claimable : BOOLEAN])
      /\ \A j \in Job : jobs[j].op \in DOMAIN ops
  BY DEF Inv, Consistent, OperationRow, JobRow, Job
<1>3. relationVectors \in BOOLEAN
  BY ParametersAssumption DEF Owing, StoresTyped
<1> QED BY <1>1, <1>2, <1>3 DEF TypeOK, Owing, StoresTyped

\* A job that is due is owed: its operation still wants it.
LEMMA DueIsOwed ==
    ASSUME Inv
    PROVE  /\ \A a, i : Due(jobs, a, i) => \E j \in Job : Owed(j) /\ jobs[j].action = a /\ i \in jobs[j].ids
           /\ GraphDue(jobs) => \E j \in Job : Owed(j) /\ jobs[j].action \in GraphActions
BY DEF Inv, Consistent, Due, GraphDue, Owed, StillWanted, Job

\* What the stores still lack is always going to be done: the vector of a live relation
\* that is not saved, the saved graph, a relation marked ready before its pool was saved.
\* Each has an unfinished job that its operation still wants, whatever restores, lost
\* leases, failed saves, rollbacks and crashes came in between.
THEOREM StoresAreOwed == Spec => []StoresOwed
<1>1. Inv /\ Owing => StoresOwed
  <2> SUFFICES ASSUME Inv, Owing PROVE StoresOwed
    OBVIOUS
  <2>1. TypeOK
    BY Typed
  <2>2. RelationVectorOwed
    BY DueIsOwed DEF Owing, VectorsDue, RelationsDue, RelationVectorOwed
  <2>3. GraphOwed
    BY DueIsOwed DEF Owing, GraphIsDue, GraphOwed, GraphActions
  <2>4. ReadyIsBacked
    BY DueIsOwed DEF Owing, VectorsDue, ReadyDue, ReadyIsBacked
  <2> QED BY <2>1, <2>2, <2>3, <2>4 DEF StoresOwed
<1> QED BY <1>1, WorkIsOwed, PTL

\* While ingestion does not wait for embeddings, a vector left in a saved pool after its
\* resource was deleted always has a clean-up job that will remove it.
THEOREM DeadVectors ==
    ASSUME SlowIngest = FALSE
    PROVE  Spec => []DeadVectorOwed
<1>1. Inv /\ Owing => DeadVectorOwed
  BY DueIsOwed DEF Owing, VectorsDue, DeletesDue, DeadVectorOwed
<1> QED BY <1>1, WorkIsOwed, PTL

-----------------------------------------------------------------------------
(* What is completed is done. *)

\* No job of js is completed in js2 that was not in js.
NoneCompletes(js, js2) == \A j \in DOMAIN js : js2[j].status = "completed" => js[j].status = "completed"

LEMMA FailsComplete ==
    ASSUME Inv, NEW J, Fail(J)
    PROVE  NoneCompletes(jobs, jobs')
<1>1. ASSUME NEW j \in DOMAIN jobs PROVE jobs'[j].status \in {jobs[j].status, "failed"}
  <2>1. jobs'[j] = jobs[j] \/ jobs'[j] = Turned(jobs[j], "failed")
    BY DEF Fail, Turned
  <2>2. jobs[j] \in JobRow
    BY RowOf DEF Inv, Consistent
  <2> QED BY <2>1, <2>2, RowSet
<1> QED BY <1>1 DEF NoneCompletes

LEMMA ClaimCompletes ==
    ASSUME Inv, Claim
    PROVE  NoneCompletes(jobs, jobs')
<1>1. ASSUME NEW j \in DOMAIN jobs PROVE jobs'[j].status \in {jobs[j].status, "running"}
  <2>1. jobs'[j] = jobs[j] \/ jobs'[j] = Turned(jobs[j], "running")
    BY DEF Claim, Turned
  <2>2. jobs[j] \in JobRow
    BY RowOf DEF Inv, Consistent
  <2> QED BY <2>1, <2>2, RowSet
<1> QED BY <1>1 DEF NoneCompletes

LEMMA TimeCompletes ==
    ASSUME Inv, NEW i \in Job, TimePasses(i)
    PROVE  NoneCompletes(jobs, jobs')
<1>1. ASSUME NEW j \in DOMAIN jobs PROVE jobs'[j].status = jobs[j].status
  <2>1. jobs[j] \in JobRow
    BY RowOf DEF Inv, Consistent
  <2>2. jobs' = [jobs EXCEPT ![i].claimable = TRUE]
    BY DEF TimePasses
  <2>3. jobs'[j] = jobs[j] \/ jobs'[j] = [jobs[j] EXCEPT !.claimable = TRUE]
    BY <2>2
  <2> QED BY <2>1, <2>3, RowClaimable
<1> QED BY <1>1 DEF NoneCompletes

LEMMA CancelledCompletes ==
    ASSUME NEW js \in Seq(JobRow), NEW J
    PROVE  \A j \in DOMAIN js : Cancelled(js, J)[j].status \in {js[j].status, "cancelled"}
<1> TAKE j \in DOMAIN js
<1>1. Cancelled(js, J)[j] = js[j] \/ Cancelled(js, J)[j] = Turned(js[j], "cancelled")
  BY DEF Cancelled, Turned
<1>2. js[j] \in JobRow
  BY RowOf
<1> QED BY <1>1, <1>2, RowSet

LEMMA WithoutRelationsCompletes ==
    ASSUME jobs \in Seq(JobRow), NEW O, NEW R
    PROVE  NoneCompletes(jobs, WithoutRelations(O, R))
<1> DEFINE Hit(j) == jobs[j].op \in O /\ jobs[j].action = "vector_delete"
                     /\ jobs[j].ids \cap R # {}
           Less(j) == Hit(j) /\ jobs[j].status \in {"pending", "failed"} /\ ~(jobs[j].ids \subseteq R)
           left == [j \in DOMAIN jobs |->
                       IF Less(j) THEN [jobs[j] EXCEPT !.ids = jobs[j].ids \ R] ELSE jobs[j]]
           J == {j \in DOMAIN jobs : Hit(j) /\ jobs[j].ids \subseteq R}
<1>1. ASSUME NEW j \in DOMAIN jobs
      PROVE  left[j] \in JobRow /\ left[j].status = jobs[j].status
  <2>1. jobs[j] \in JobRow /\ jobs[j].ids \ R \in SUBSET Resource
    BY RowOf DEF JobRow
  <2>2. CASE Less(j)
    <3> DEFINE new == [jobs[j] EXCEPT !.ids = jobs[j].ids \ R]
    <3>1. left[j] = new
      BY <2>2
    <3>2. new \in JobRow /\ new.status = jobs[j].status
      BY <2>1, SetIds
    <3> HIDE DEF left, new
    <3> QED BY <3>1, <3>2
  <2>3. CASE ~Less(j)
    BY <2>1, <2>3
  <2> QED BY <2>2, <2>3
<1>2. left \in Seq(JobRow) /\ DOMAIN left = DOMAIN jobs
  <2>1. left \in [DOMAIN jobs -> JobRow]
    BY <1>1
  <2> QED BY <2>1, SequenceOn
<1>3. WithoutRelations(O, R) = Cancelled(left, J)
  BY DEF WithoutRelations
<1> HIDE DEF left, J
<1> QED BY <1>1, <1>2, <1>3, CancelledCompletes DEF NoneCompletes

LEMMA Prefix ==
    ASSUME NEW js \in Seq(JobRow), NEW new \in Seq(JobRow)
    PROVE  \A j \in DOMAIN js : (js \o new)[j] = js[j]
BY ConcatProperties, LenProperties

LEMMA CommitsComplete ==
    ASSUME Inv,
           \/ \E S \in SUBSET Resource : Delete(S)
           \/ \E o \in DOMAIN ops : Restore(o)
           \/ \E R \in SUBSET Relation : RestoreRelations(R)
    PROVE  NoneCompletes(jobs, jobs')
<1>1. /\ jobs \in Seq(JobRow) /\ ops \in Seq(OperationRow) /\ Len(ops) + 1 \in Nat
      /\ \A o \in DOMAIN ops : o \in Nat /\ ops[o] \in OperationRow
  <2>1. jobs \in Seq(JobRow) /\ ops \in Seq(OperationRow)
    BY DEF Inv, Consistent
  <2> QED BY <2>1, ElementOfSeq, LenProperties
<1>2. ASSUME NEW js \in Seq(JobRow), NEW new \in Seq(JobRow), DOMAIN js = DOMAIN jobs,
             NoneCompletes(jobs, js), jobs' = js \o new
      PROVE  NoneCompletes(jobs, jobs')
  BY <1>2, Prefix DEF NoneCompletes
<1>3. ASSUME NEW S \in SUBSET Resource, Delete(S) PROVE NoneCompletes(jobs, jobs')
  <2>1. jobs' = jobs \o DeleteJobs(Len(ops) + 1, S)
    BY <1>3 DEF Delete
  <2>2. DeleteJobs(Len(ops) + 1, S) \in Seq(JobRow)
    BY <1>1, DeleteJobsDo
  <2>3. NoneCompletes(jobs, jobs)
    BY DEF NoneCompletes
  <2> QED BY <1>1, <1>2, <2>1, <2>2, <2>3
<1>4. ASSUME NEW js \in Seq(JobRow), DOMAIN js = DOMAIN jobs, NoneCompletes(jobs, js), NEW J
      PROVE  /\ Cancelled(js, J) \in Seq(JobRow) /\ DOMAIN Cancelled(js, J) = DOMAIN jobs
             /\ NoneCompletes(jobs, Cancelled(js, J))
  <2>1. Cancelled(js, J) \in Seq(JobRow) /\ DOMAIN Cancelled(js, J) = DOMAIN js
    BY CancelledCarries, CancelledUpdates DEF Updates
  <2> QED BY <1>4, <2>1, CancelledCompletes DEF NoneCompletes
<1>5. ASSUME NEW o \in DOMAIN ops, Restore(o) PROVE NoneCompletes(jobs, jobs')
  <2> DEFINE J == {j \in DOMAIN jobs : jobs[j].op = o /\ jobs[j].action \in DeleteActions}
             js == Cancelled(jobs, J)
  <2>1. jobs' = js \o RestoreJobs(o, ops[o].items)
    BY <1>5 DEF Restore
  <2>2. RestoreJobs(o, ops[o].items) \in Seq(JobRow)
    BY <1>1, RestoreJobsDo DEF OperationRow
  <2>3. NoneCompletes(jobs, jobs)
    BY DEF NoneCompletes
  <2> HIDE DEF J
  <2>4. js \in Seq(JobRow) /\ DOMAIN js = DOMAIN jobs /\ NoneCompletes(jobs, js)
    BY <1>1, <1>4, <2>3
  <2> HIDE DEF js
  <2> QED BY <1>2, <2>1, <2>2, <2>4
<1>6. ASSUME NEW R \in SUBSET Relation, RestoreRelations(R) PROVE NoneCompletes(jobs, jobs')
  <2> DEFINE o == Len(ops) + 1
             js == WithoutRelations(Superseding(R), R)
             J == {j \in DOMAIN js : /\ js[j].op \in Superseded(js, Superseding(R), R)
                                     /\ js[j].action = "graph_rebuild"}
             js2 == Cancelled(js, J)
  <2>1. jobs' = js2 \o RestoreJobs(o, R)
    BY <1>6 DEF RestoreRelations
  <2>2. RestoreJobs(o, R) \in Seq(JobRow)
    BY <1>1, RestoreJobsDo DEF Resource
  <2>3. js \in Seq(JobRow) /\ DOMAIN js = DOMAIN jobs /\ NoneCompletes(jobs, js)
    BY <1>1, WithoutRelationsUpdates, WithoutRelationsCompletes DEF Updates
  <2> HIDE DEF js, J
  <2>4. js2 \in Seq(JobRow) /\ DOMAIN js2 = DOMAIN jobs /\ NoneCompletes(jobs, js2)
    BY <1>4, <2>3
  <2> HIDE DEF js2
  <2> QED BY <1>2, <2>1, <2>2, <2>4
<1> QED BY <1>3, <1>5, <1>6

LEMMA CompleteIs ==
    ASSUME Inv, NEW i \in Job, NEW st, Complete(i, st)
    PROVE  jobs'[i].status = st /\ \A j \in Job : j # i => jobs'[j] = jobs[j]
<1>1. jobs[i] \in JobRow
  BY RowOf DEF Inv, Consistent, Job
<1>2. jobs'[i] = Turned(jobs[i], st)
  BY DEF Complete, Turned, Job
<1>3. \A j \in Job : j # i => jobs'[j] = jobs[j]
  BY CompleteCarries DEF Job
<1> QED BY <1>1, <1>2, <1>3, RowSet

\* Job j is completed, and has done its work.
LEMMA OneCompletes ==
    ASSUME Inv, NEW j \in Job, NEW st, Complete(j, st), live' = live, UNCHANGED <<disk, graphDisk>>,
           st = "completed" =>
              \/ Achieved(j)
              \/ /\ jobs[j].action = "vector_upsert" /\ jobs[j].ids \subseteq live \cap Relation
                 /\ ~relationVectors
    PROVE  CompletesDurably
<1>1. jobs'[j].status = st /\ \A k \in Job : k # j => jobs'[k] = jobs[k]
  BY CompleteIs
<1>2. jobs[j].action \in Action
  BY RowOf DEF Inv, Consistent, Job, JobRow
<1> SUFFICES ASSUME st = "completed"
             PROVE  CASE jobs[j].action = "vector_delete" -> jobs[j].ids \cap disk' \subseteq live'
                      [] jobs[j].action = "vector_upsert" ->
                           /\ jobs[j].ids \subseteq live'
                           /\ \/ jobs[j].ids \subseteq disk'
                              \/ jobs[j].ids \subseteq Relation /\ ~relationVectors
                      [] OTHER -> graphDisk' = Relation \cap live'
  BY <1>1 DEF CompletesDurably
<1>3. CASE jobs[j].action = "vector_delete"
  BY <1>3 DEF Achieved
<1>4. CASE jobs[j].action = "vector_upsert"
  BY <1>4 DEF Achieved
<1>5. CASE jobs[j].action \in GraphActions
  BY <1>5 DEF Achieved, GraphActions
<1> QED BY <1>2, <1>3, <1>4, <1>5 DEF Action, GraphActions

LEMMA StepCompletes ==
    ASSUME Inv, Owing, Next
    PROVE  CompletesDurably
<1>1. ASSUME NoneCompletes(jobs, jobs') PROVE CompletesDurably
  BY <1>1 DEF NoneCompletes, CompletesDurably, Job
<1>2. CASE UNCHANGED jobs
  BY <1>1, <1>2 DEF NoneCompletes
<1>3. CASE \E J : Fail(J)
  BY <1>1, <1>3, FailsComplete
<1>4. ASSUME NEW j \in Job, NothingToDo(j) PROVE CompletesDurably
  <2>1. /\ Complete(j, IF StillWanted(j) THEN "completed" ELSE "cancelled")
        /\ UNCHANGED <<live, disk, graphDisk>>
        /\ StillWanted(j) => jobs[j].action = "vector_delete" /\ jobs[j].ids \subseteq live
    BY <1>4 DEF NothingToDo, Authorized
  <2>2. StillWanted(j) => Achieved(j)
    BY <2>1 DEF Achieved, GraphActions
  <2> QED BY <2>1, <2>2, OneCompletes
<1>5. ASSUME NEW j \in Job, Settle(j) PROVE CompletesDurably
  <2>1. /\ round.settle # {} /\ j = Least(round.settle) /\ Complete(j, "completed")
        /\ UNCHANGED <<live, disk, graphDisk>>
    BY <1>5 DEF Settle
  <2>2. Achieved(j)
    BY <2>1, LeastIs DEF Owing, RoundTyped, Rounds, RoundKnows, Settling
  <2> QED BY <2>1, <2>2, OneCompletes
<1>6. ASSUME NEW j \in Job, UpsertNothing(j) PROVE CompletesDurably
  <2>1. Complete(j, "cancelled") /\ UNCHANGED <<live, disk, graphDisk>>
    BY <1>6 DEF UpsertNothing
  <2> QED BY <2>1, OneCompletes
<1>7. ASSUME NEW j \in Job, UpsertDisabled(j) PROVE CompletesDurably
  <2>1. /\ Complete(j, "completed") /\ UNCHANGED <<live, disk, graphDisk>>
        /\ jobs[j].action = "vector_upsert" /\ jobs[j].ids \subseteq Relation
        /\ jobs[j].ids \cap live # {} /\ ~relationVectors
    BY <1>7 DEF UpsertDisabled, Working, Authorized
  <2>2. jobs[j].ids \subseteq live \cap Relation
    BY <2>1, OneVector
  <2> QED BY <2>1, <2>2, OneCompletes
<1>8. CASE RoundStep
  <2>1. CASE Claim
    BY <1>1, <2>1, ClaimCompletes
  <2>2. CASE EndRound \/ \E j \in Job : DeleteInMemory(j) \/ Turn(j) \/ UpsertPresent(j)
                                        \/ AwaitEmbedding(j) \/ UpsertSaved(j)
    BY <1>2, <2>2 DEF EndRound, DeleteInMemory, Turn, durable, UpsertPresent, AwaitEmbedding, UpsertSaved
  <2>3. CASE \E j \in Job : \/ LoseLease(j) \/ DeleteRaises(j) \/ DeleteBreaks(j)
                            \/ UpsertRollsBack(j) \/ UpsertBreaks(j)
    BY <1>3, <2>3 DEF LoseLease, DeleteRaises, DeleteBreaks, UpsertRollsBack, UpsertBreaks
  <2>4. CASE \E j \in Job : UpsertRevive(j) \/ Embedded(j)
    BY <1>2, <1>3, <2>4 DEF UpsertRevive, Embedded, Write, NotWritten
  <2>5. CASE \E j \in Job : RebuildGraph(j)
    BY <1>2, <1>3, <2>5 DEF RebuildGraph
  <2>6. CASE \E p \in Pool : Flush(p) \/ FlushRollsBack(p) \/ FlushBreaks(p)
    BY <1>2, <1>3, <2>6 DEF Flush, FlushRollsBack, FlushBreaks
  <2> QED BY <1>4, <1>5, <1>6, <1>7, <1>8, <2>1, <2>2, <2>3, <2>4, <2>5, <2>6 DEF RoundStep
<1>9. CASE \E j \in Job : TimePasses(j)
  BY <1>1, <1>9, TimeCompletes
<1>10. CASE \/ \E o \in DOMAIN ops : RestoreAgain(o)
            \/ StartRound \/ CancelRound \/ Save \/ Crash
            \/ \E i \in Resource : Ingest(i) \/ IngestEmbedded(i)
  BY <1>2, <1>10 DEF RestoreAgain, StartRound, CancelRound, Save, Crash, Ingest, IngestEmbedded, durable
<1>11. CASE \/ \E S \in SUBSET Resource : Delete(S)
            \/ \E o \in DOMAIN ops : Restore(o)
            \/ \E R \in SUBSET Relation : RestoreRelations(R)
  BY <1>1, <1>11, CommitsComplete
<1> QED BY <1>8, <1>9, <1>10, <1>11 DEF Next

\* A job is marked completed only when its work is in the stores and saved: a rolled back
\* or unsaved change, a lost lease or a crash never leaves a job completed in its place.
THEOREM WorkIsDone == Spec => CompletionIsDurable
<1>1. Inv /\ Owing /\ [Next]_vars => [CompletesDurably]_vars
  BY StepCompletes
<1> QED BY <1>1, WorkIsOwed, PTL DEF Spec, CompletionIsDurable

-----------------------------------------------------------------------------
(* The saved vectors of live resources. *)

\* The round changes no pool that is unusable.
Sound == /\ \A p \in Pool : round.batch[p] # {} => p \notin broken
         /\ round.wrote = "added" => PoolOfJob(round.cur) \notin broken

\* No saved vector goes but with the save of a pool that can be used.
SavesSound == \A i \in disk \ disk' : /\ live' = live /\ ingesting' = ingesting
                                      /\ i \notin mem /\ PoolOf(i) \notin broken

LEMMA Begins ==
    ASSUME NEW o \in Nat, round' = RoundFor(o) \/ round' = NoRound
    PROVE  Sound'
<1>1. round'.wrote = "nothing" /\ \A p \in Pool : round'.batch[p] = {}
  BY NewRound
<1> QED BY <1>1 DEF Sound

LEMMA GoesOn ==
    ASSUME Sound, broken' = broken, round'.wrote # "added",
           \A p \in Pool : round'.batch[p] # {} => round.batch[p] # {} \/ p \in Usable
    PROVE  Sound'
BY DEF Sound, Usable

\* A job comes, and is passed over, put in the batch of its pool, or turned to.
LEMMA ComesSound ==
    ASSUME Inv, Owing, Sound, NEW j \in Job,
           \/ LoseLease(j) \/ NothingToDo(j) \/ DeleteInMemory(j) \/ DeleteRaises(j) \/ Turn(j)
    PROVE  Sound' /\ SavesSound
<1>1. Upcoming(j)
  BY DEF LoseLease, NothingToDo, DeleteInMemory, DeleteRaises, Turn
<1> DEFINE t == Taken(j)
<1>2. t \in Rounds /\ t.wrote = "nothing" /\ t.batch = round.batch /\ round.wrote = "nothing"
  BY <1>1, Comes
<1>3. CASE LoseLease(j) \/ NothingToDo(j)
  <2>1. round' = Taken(j) /\ UNCHANGED <<disk, broken>>
    BY <1>3 DEF LoseLease, NothingToDo, stores
  <2> QED BY <1>2, <2>1, GoesOn DEF SavesSound
<1>4. CASE Turn(j)
  <2>1. round' = [t EXCEPT !.cur = j] /\ UNCHANGED <<disk, broken>> /\ j \in Nat
    BY <1>4, Numbers DEF Turn, durable, stores
  <2> HIDE DEF t
  <2>2. round'.wrote = "nothing" /\ round'.batch = round.batch
    BY <1>2, <2>1, SetCur
  <2> QED BY <2>1, <2>2, GoesOn DEF SavesSound
<1>5. CASE DeleteInMemory(j) \/ DeleteRaises(j)
  <2>0. PICK p : p = PoolOfJob(j)
    OBVIOUS
  <2>1. /\ jobs[j].action = "vector_delete" /\ jobs[j].ids # {}
        /\ disk' = disk \/ disk' = Baseline(p)
        /\ broken' = broken /\ live' = live /\ ingesting' = ingesting
    BY <1>5, <2>0 DEF DeleteInMemory, DeleteRaises, BaselineRaises, Authorized
  <2>2. p \in Pool
    BY <2>0, <2>1, OnePool DEF Owing
  <2>3. \E v \in SUBSET Job : round' = WithBatch(t, p, v) /\ (v = {} \/ p \in Usable)
    <3>1. t.batch[p] \cup {j} \in SUBSET Job
      BY <1>2, <2>2 DEF Owing, RoundTyped
    <3>2. CASE DeleteInMemory(j)
      <4>1. p \in Usable /\ round' = WithBatch(t, p, t.batch[p] \cup {j})
        BY <2>0, <3>2, Zenon DEF DeleteInMemory, WithBatch
      <4> QED BY <3>1, <4>1
    <3>3. CASE DeleteRaises(j)
      <4>1. round' = WithBatch(t, p, {})
        BY <2>0, <3>3, Zenon DEF DeleteRaises, WithBatch
      <4> QED BY <4>1
    <3> QED BY <1>5, <3>2, <3>3
  <2>4. round'.wrote = "nothing" /\ \A q \in Pool : round'.batch[q] # {} => round.batch[q] # {} \/ q \in Usable
    <3>1. PICK v \in SUBSET Job : round' = WithBatch(t, p, v) /\ (v = {} \/ p \in Usable)
      BY <2>3
    <3>2. v \in SUBSET Nat /\ round' = WithBatch(t, p, v)
      BY <3>1, Numbers
    <3> HIDE DEF t
    <3>3. /\ round'.wrote = t.wrote
          /\ \A q \in Pool : round'.batch[q] = IF q = p THEN v ELSE t.batch[q]
      BY <1>2, <2>2, <3>2, SetBatch
    <3> QED BY <1>2, <3>1, <3>3
  <2>5. Sound'
    BY <2>1, <2>4, GoesOn
  <2>6. SavesSound
    BY <2>1, Pools DEF SavesSound, Baseline, Owing, StoresTyped
  <2> QED BY <2>5, <2>6
<1> QED BY <1>3, <1>4, <1>5

LEMMA FlushSound ==
    ASSUME Inv, Owing, Sound, NEW p \in Pool, Flush(p) \/ FlushRollsBack(p)
    PROVE  Sound' /\ SavesSound
<1> DEFINE r == WithBatch(round, p, {})
           v == round.batch[p]
<1>1. /\ Flushing /\ p \in Open /\ UNCHANGED <<live, broken, ingesting>>
      /\ disk' = disk \/ disk' = Copy(mem, disk, p)
  BY DEF Flush, FlushRollsBack, stores
<1>2. round' = r \/ round' = [r EXCEPT !.settle = v]
  BY Zenon DEF Flush, FlushRollsBack, WithBatch
<1>3. round \in Rounds /\ {} \in SUBSET Nat /\ v \in SUBSET Nat /\ round.wrote = "nothing"
  BY <1>1, Flushes, Numbers DEF Owing, RoundTyped
<1>4. /\ r \in Rounds /\ r.wrote = round.wrote
      /\ \A q \in Pool : r.batch[q] = IF q = p THEN {} ELSE round.batch[q]
  BY <1>3, SetBatch
<1> HIDE DEF r, v
<1>5. round'.wrote = r.wrote /\ round'.batch = r.batch
  BY <1>2, <1>3, <1>4, SetSettle
<1>6. Sound'
  BY <1>1, <1>3, <1>4, <1>5, GoesOn
<1>7. SavesSound
  BY <1>1, Pools DEF SavesSound, Owing, StoresTyped, Sound, Open
<1> QED BY <1>6, <1>7

LEMMA BreaksSound ==
    ASSUME Inv, Owing, Sound,
           \/ \E j \in Job : DeleteBreaks(j) \/ UpsertBreaks(j)
           \/ \E p \in Pool : FlushBreaks(p)
    PROVE  Sound' /\ SavesSound
<1>1. \E p : /\ disk' \in {disk, Copy(mem, disk, p)} /\ p \notin broken
             /\ round' = NoRound /\ UNCHANGED <<live, ingesting>>
  <2>1. CASE \E j \in Job : DeleteBreaks(j)
    <3>1. PICK j \in Job : DeleteBreaks(j)
      BY <2>1
    <3>2. PICK p : p = PoolOfJob(j)
      OBVIOUS
    <3> QED BY <3>1, <3>2 DEF DeleteBreaks, Usable
  <2>2. CASE \E j \in Job : UpsertBreaks(j)
    <3>1. PICK j \in Job : UpsertBreaks(j)
      BY <2>2
    <3>2. PICK p : p = PoolOfJob(j)
      OBVIOUS
    <3>3. j = round.cur /\ round.wrote = "added"
      BY <3>1 DEF UpsertBreaks, Written, Working
    <3> QED BY <3>1, <3>2, <3>3 DEF UpsertBreaks, Sound
  <2>3. CASE \E p \in Pool : FlushBreaks(p)
    BY <2>3 DEF FlushBreaks, Sound, Open
  <2> QED BY <2>1, <2>2, <2>3
<1>2. Sound'
  BY <1>1, Begins
<1>3. SavesSound
  BY <1>1, Pools DEF SavesSound, Owing, StoresTyped
<1> QED BY <1>2, <1>3

\* What the upserts and the graph jobs do.
LEMMA WorkSound ==
    ASSUME Inv, Owing, Sound, NEW j \in Job,
           \/ UpsertNothing(j) \/ UpsertDisabled(j) \/ UpsertPresent(j) \/ UpsertRevive(j)
           \/ AwaitEmbedding(j) \/ Embedded(j) \/ UpsertSaved(j) \/ UpsertRollsBack(j) \/ RebuildGraph(j)
    PROVE  Sound' /\ SavesSound
<1>1. \/ \E a : Working(j, a)
      \/ round.phase = "embed" /\ j = round.cur
  BY DEF UpsertNothing, UpsertDisabled, UpsertPresent, UpsertRevive, AwaitEmbedding, Embedded, UpsertSaved,
         UpsertRollsBack, RebuildGraph, Upserting, Written
<1>2. Quiet /\ Open = {} /\ j = round.cur
  BY <1>1, Works
<1>3. round \in Rounds
  BY DEF Owing, RoundTyped
<1>4. ASSUME Write(j) \/ NotWritten(j) PROVE SavesSound
  <2>0. PICK p : p = PoolOfJob(j)
    OBVIOUS
  <2>1. (disk' = disk \/ disk' = Baseline(p)) /\ live' = live /\ ingesting' = ingesting
    BY <1>4, <2>0 DEF Write, NotWritten, BaselineRaises, stores
  <2> QED BY <2>1, Pools DEF SavesSound, Baseline, Owing, StoresTyped
<1>5. CASE Write(j)
  <2>1. /\ round' = [round EXCEPT !.phase = "run", !.wrote = "added"]
        /\ PoolOfJob(j) \notin broken /\ UNCHANGED <<jobs, broken>>
    BY <1>5 DEF Write, Usable
  <2>2. round'.wrote = "added" /\ round'.cur = round.cur /\ round'.batch = round.batch
    <3> DEFINE r == [round EXCEPT !.phase = "run"]
    <3>1. round' = [r EXCEPT !.wrote = "added"]
      BY <2>1, Zenon
    <3>2. r \in Rounds /\ r.cur = round.cur /\ r.batch = round.batch
      BY <1>3, SetPhase
    <3> HIDE DEF r
    <3> QED BY <3>1, <3>2, SetWrote
  <2>3. PoolOfJob(j)' \notin broken'
    BY <2>1 DEF PoolOfJob, PoolOf
  <2>4. Sound'
    BY <1>2, <2>1, <2>2 DEF Sound, Quiet, PoolOfJob, PoolOf
  <2> QED BY <1>4, <1>5, <2>4
<1>6. ASSUME broken' = broken,
             \/ round' = Done
             \/ round' = [Done EXCEPT !.settle = {j}]
             \/ round' = [round EXCEPT !.wrote = "present"]
             \/ round' = [round EXCEPT !.phase = "embed"] /\ round.wrote = "nothing"
      PROVE  Sound'
  <2>1. round'.wrote # "added" /\ round'.batch = round.batch
    <3>1. CASE round' = Done
      BY <1>3, <3>1, IsDone
    <3>2. CASE round' = [Done EXCEPT !.settle = {j}]
      BY <1>3, <3>2, Numbers, IsSettling
    <3>3. CASE round' = [round EXCEPT !.wrote = "present"]
      BY <1>3, <3>3, SetWrote
    <3>4. CASE round' = [round EXCEPT !.phase = "embed"] /\ round.wrote = "nothing"
      BY <1>3, <3>4, SetPhase
    <3> QED BY <1>6, <3>1, <3>2, <3>3, <3>4
  <2> QED BY <1>6, <2>1, GoesOn
<1>7. CASE NotWritten(j)
  <2>1. round' = Done /\ broken' = broken
    BY <1>7 DEF NotWritten, stores
  <2> QED BY <1>4, <1>6, <1>7, <2>1
<1>8. CASE UpsertNothing(j) \/ UpsertDisabled(j) \/ UpsertPresent(j) \/ AwaitEmbedding(j)
  <2>1. /\ UNCHANGED <<disk, broken>>
        /\ \/ round' = Done
           \/ round' = [round EXCEPT !.wrote = "present"]
           \/ round' = [round EXCEPT !.phase = "embed"] /\ round.wrote = "nothing"
    BY <1>8, Zenon DEF UpsertNothing, UpsertDisabled, UpsertPresent, AwaitEmbedding, Upserting, stores
  <2> QED BY <1>6, <2>1 DEF SavesSound
<1>9. CASE UpsertSaved(j)
  <2>0. PICK p : p = PoolOfJob(j)
    OBVIOUS
  <2>1. /\ disk' = Copy(mem, disk, p) /\ p \notin broken
        /\ UNCHANGED <<live, broken, ingesting>> /\ round' = [Done EXCEPT !.settle = {j}]
    BY <1>9, <2>0 DEF UpsertSaved, stores
  <2>2. SavesSound
    BY <2>1, Pools DEF SavesSound, Owing, StoresTyped
  <2> QED BY <1>6, <2>1, <2>2
<1>10. CASE UpsertRollsBack(j) \/ RebuildGraph(j)
  <2>1. /\ UNCHANGED <<disk, broken>>
        /\ round' = Done \/ round' = [Done EXCEPT !.settle = {j}]
    BY <1>10, Zenon DEF UpsertRollsBack, RebuildGraph
  <2> QED BY <1>6, <2>1 DEF SavesSound
<1> QED BY <1>5, <1>7, <1>8, <1>9, <1>10 DEF UpsertRevive, Embedded

LEMMA RoundStepSound ==
    ASSUME Inv, Owing, Sound, RoundStep
    PROVE  Sound' /\ SavesSound
<1>1. CASE Claim
  <2> DEFINE r == [round EXCEPT !.phase = "run"]
  <2>1. /\ UNCHANGED <<disk, broken>> /\ \E v : round' = [round EXCEPT !.phase = "run", !.queue = v]
        /\ round.phase = "claim"
    BY <1>1 DEF Claim, stores
  <2>2. round.wrote = "nothing" /\ \A p \in Pool : round.batch[p] = {}
    BY <2>1 DEF Owing, RoundKnows, Phases, Quiet
  <2>3. round'.wrote = round.wrote /\ round'.batch = round.batch
    BY <2>1 DEF Owing, RoundTyped, Rounds
  <2> QED BY <2>1, <2>2, <2>3, GoesOn DEF SavesSound
<1>2. CASE EndRound
  <2>1. round' = NoRound /\ disk' = disk
    BY <1>2 DEF EndRound
  <2> QED BY <2>1, Begins DEF SavesSound
<1>3. ASSUME NEW j \in Job, Settle(j) PROVE Sound' /\ SavesSound
  <2>1. /\ UNCHANGED <<disk, broken>> /\ round' = [round EXCEPT !.settle = round.settle \ {j}]
        /\ round.settle # {}
    BY <1>3 DEF Settle, stores
  <2>2. round.wrote = "nothing"
    BY <2>1 DEF Owing, RoundKnows, Phases, Upserted, Quiet
  <2>3. round'.wrote = round.wrote /\ round'.batch = round.batch
    BY <2>1 DEF Owing, RoundTyped, Rounds
  <2> QED BY <2>1, <2>2, <2>3, GoesOn DEF SavesSound
<1>4. CASE \E j \in Job : \/ LoseLease(j) \/ NothingToDo(j) \/ DeleteInMemory(j)
                          \/ DeleteRaises(j) \/ Turn(j)
  BY <1>4, ComesSound
<1>5. CASE \E j \in Job : \/ UpsertNothing(j) \/ UpsertDisabled(j) \/ UpsertPresent(j)
                          \/ UpsertRevive(j) \/ AwaitEmbedding(j) \/ Embedded(j) \/ UpsertSaved(j)
                          \/ UpsertRollsBack(j) \/ RebuildGraph(j)
  BY <1>5, WorkSound
<1>6. CASE \E p \in Pool : Flush(p) \/ FlushRollsBack(p)
  BY <1>6, FlushSound
<1>7. CASE \/ \E j \in Job : DeleteBreaks(j) \/ UpsertBreaks(j)
           \/ \E p \in Pool : FlushBreaks(p)
  BY <1>7, BreaksSound
<1> QED BY <1>1, <1>2, <1>3, <1>4, <1>5, <1>6, <1>7 DEF RoundStep

LEMMA StepSound ==
    ASSUME Inv, Owing, Sound, [Next]_vars
    PROVE  Sound' /\ SavesSound
<1>1. CASE RoundStep
  BY <1>1, RoundStepSound
<1>2. CASE \/ \E S \in SUBSET Resource : Delete(S)
           \/ \E R \in SUBSET Relation : RestoreRelations(R)
  <2>1. disk' = disk /\ round' = RoundFor(Len(ops) + 1)
    BY <1>2 DEF Delete, RestoreRelations
  <2>2. Len(ops) + 1 \in Nat
    BY LenProperties DEF Inv, Consistent
  <2> QED BY <2>1, <2>2, Begins DEF SavesSound
<1>3. CASE \E o \in DOMAIN ops : Restore(o) \/ RestoreAgain(o)
  <2>1. PICK o \in DOMAIN ops : disk' = disk /\ round' = RoundFor(o)
    BY <1>3 DEF Restore, RestoreAgain, durable
  <2>2. o \in Nat
    BY LenProperties DEF Inv, Consistent
  <2> QED BY <2>1, <2>2, Begins DEF SavesSound
<1>4. CASE StartRound \/ CancelRound \/ Crash
  <2>1. disk' = disk /\ (round' = RoundFor(0) \/ round' = NoRound)
    BY <1>4 DEF StartRound, CancelRound, Crash, durable
  <2> QED BY <2>1, Begins DEF SavesSound
<1>5. CASE \/ \E i \in Resource : Ingest(i) \/ IngestEmbedded(i)
           \/ Save \/ UNCHANGED vars
  <2>1. UNCHANGED <<round, jobs, broken>>
    BY <1>5 DEF Ingest, IngestEmbedded, Save, vars, durable, stores
  <2>2. Sound'
    BY <2>1 DEF Sound, PoolOfJob, PoolOf
  <2>3. \/ disk' = disk
        \/ /\ \E p \in Pool \ broken : disk' = Copy(mem, disk, p)
           /\ live' = live /\ ingesting' = ingesting
    BY <1>5 DEF Ingest, IngestEmbedded, Save, vars, durable, stores
  <2>4. SavesSound
    BY <2>3, Pools DEF SavesSound, Owing, StoresTyped
  <2> QED BY <2>2, <2>4
<1>6. CASE \E j \in Job : TimePasses(j)
  <2>1. PICK j \in Job : TimePasses(j)
    BY <1>6
  <2>2. UNCHANGED <<round, disk, broken>>
    BY <2>1 DEF TimePasses, stores
  <2>3. Carries(jobs, jobs', {})
    BY <2>1, TimeCarries DEF Job
  <2>4. round.wrote = "added" => jobs'[round.cur].ids = jobs[round.cur].ids
    BY <2>3 DEF Owing, RoundKnows, Phases, Upserted, RoundTyped, Carries, Job
  <2>5. Sound'
    BY <2>2, <2>4 DEF Sound, PoolOfJob, PoolOf
  <2> QED BY <2>2, <2>5 DEF SavesSound
<1> QED BY <1>1, <1>2, <1>3, <1>4, <1>5, <1>6 DEF Next

\* While restores always write vectors and an ingestion that waits ends with one, no save
\* or clean-up takes the saved vector of a live resource away, unless a job or an ingestion
\* is about to write it again.
THEOREM VectorsKept ==
    ASSUME VectorsReturn
    PROVE  Spec => LiveVectorKept
<1>1. Init => Sound
  BY DEF Init, NoRound, Sound
<1>2. Inv /\ Owing /\ Sound /\ [Next]_vars => Sound'
  BY StepSound
<1>3. Inv /\ Owing /\ Sound /\ [Next]_vars => [KeepsLiveVectors]_vars
  <2> SUFFICES ASSUME Inv, Owing, Sound, [Next]_vars PROVE KeepsLiveVectors
    OBVIOUS
  <2>1. SavesSound
    BY StepSound
  <2> SUFFICES ASSUME NEW i \in disk \ disk', i \in live'
               PROVE  \/ i \in ingesting'
                      \/ \E j \in Job : jobs[j].action = "vector_upsert" /\ i \in jobs[j].ids
                                        /\ jobs[j].status \in UnfinishedStatus
    BY DEF KeepsLiveVectors
  <2>2. i \in (disk \cap live) \ mem /\ PoolOf(i) \notin broken /\ ingesting' = ingesting
    BY <2>1 DEF SavesSound
  <2> QED BY <2>2 DEF Owing, VectorsDue, RevivedDue, Due, Job
<1> QED BY <1>1, <1>2, <1>3, WorkIsOwed, PTL DEF Spec, LiveVectorKept
-----------------------------------------------------------------------------
(* The life of relations: the calendar *)

Reason == {Null, "decay", "weaken", "manual", "correction", "migrated"}

OnCalendar(x) ==
    Active(x) => /\ x.next # Null => x.next <= Crossing(x)
                 /\ ~x.pinned => x.next # Null

Kept(x) == x \in Row /\ OnCalendar(x)

NoOlder(x, y) == Crossing(y) >= Crossing(x)

TablesKept ==
    /\ \A r \in Hash : row[r] # Null => OnCalendar(row[r])
    /\ \A r \in Hash : bin[r] # Null => OnCalendar(bin[r])
    /\ \A r \in Hash : status[r] # Null => OnCalendar(status[r])

SweptAreFaded ==
    \A r \in Hash : sweep[r] # Null =>
        /\ ~Active(sweep[r]) /\ sweep[r].reason = "decay"
        /\ ~sweep[r].pinned /\ ~sweep[r].permanent
        /\ bound.setbacks = 0 => Retention(sweep[r], clock) <= 0

Counted == clock \in Time /\ bound \in [events : Nat, setbacks : Nat]

IInv == RowsTyped /\ Counted /\ TablesKept /\ SweptAreFaded

-----------------------------------------------------------------------------
(* The policy. *)

LEMMA Times ==
    ASSUME NEW x \in Row, NEW t \in Time
    PROVE  /\ PolicyTime(x, t) \in Time /\ PolicyTime(x, t) >= t /\ PolicyTime(x, t) >= x.anchor
           /\ EventTime(x, t) \in Time /\ EventTime(x, t) >= t /\ EventTime(x, t) >= x.anchor
<1>1. /\ x.anchor \in Int /\ x.seen \in Int
      /\ Coalesce(x.access, x.anchor) \in Int /\ Coalesce(x.since, x.anchor) \in Int
  BY DEF Row, Time, Coalesce
<1>2. PolicyTime(x, t) \in Int /\ PolicyTime(x, t) >= t /\ PolicyTime(x, t) >= x.anchor
  BY <1>1 DEF PolicyTime, AtLeast, Time
<1> QED BY <1>1, <1>2 DEF EventTime, AtLeast, Time

LEMMA Levels ==
    ASSUME NEW x \in Row, NEW t \in Time
    PROVE  /\ Retention(x, t) \in Faded..Full
           /\ t >= x.anchor => Retention(x, t) >= x.level - (t - x.anchor)
           /\ Crossing(x) \in Int /\ Crossing(x) >= x.anchor
BY LevelsAssumption DEF Retention, Crossing, AtLeast, Row, Time, Faded

\* A level that is at least what is left brings nothing closer.
LEMMA NotSooner ==
    ASSUME NEW x \in Row, NEW y \in Row, y.anchor >= x.anchor, y.level >= Retention(x, y.anchor)
    PROVE  NoOlder(x, y)
<1>1. y.level >= x.level - (y.anchor - x.anchor) /\ y.level \in Int /\ x.level \in Int
      /\ x.anchor \in Int /\ y.anchor \in Int
  BY Levels, LevelsAssumption DEF Row, Time, Faded
<1> QED BY <1>1 DEF NoOlder, Crossing, AtLeast

-----------------------------------------------------------------------------
(* Rows, one column at a time. *)

LEMMA Columns ==
    ASSUME NEW x \in Row
    PROVE  /\ x.level \in Faded..Full /\ x.anchor \in Int /\ x.next \in Int \cup {Null}
           /\ x.since \in Int \cup {Null} /\ x.reason \in Reason /\ x.pinned \in BOOLEAN
           /\ x.permanent \in BOOLEAN /\ x.until \in Int /\ x.access \in Int \cup {Null}
           /\ x.seen \in Int /\ x.rev \in Nat /\ x.rev + 1 \in Nat
BY DEF Row, Time, Reason

\* Only the calendar, and what puts a row on it, matter.
SameLife(x, y) ==
    /\ y.level = x.level /\ y.anchor = x.anchor /\ y.next = x.next
    /\ y.since = x.since /\ y.pinned = x.pinned

LEMMA SameLifeKept ==
    ASSUME NEW x, NEW y \in Row, Kept(x), SameLife(x, y)
    PROVE  Kept(y) /\ Crossing(y) = Crossing(x)
BY DEF Kept, OnCalendar, SameLife, Active, Crossing

LEMMA SetLevel ==
    ASSUME NEW x \in Row, NEW v \in Faded..Full
    PROVE  /\ [x EXCEPT !.level = v] \in Row /\ [x EXCEPT !.level = v].level = v
           /\ \A f \in {"anchor", "next", "since", "pinned", "rev"} : [x EXCEPT !.level = v][f] = x[f]
BY DEF Row

LEMMA SetAnchor ==
    ASSUME NEW x \in Row, NEW v \in Int
    PROVE  /\ [x EXCEPT !.anchor = v] \in Row /\ [x EXCEPT !.anchor = v].anchor = v
           /\ \A f \in {"level", "next", "since", "pinned", "rev"} : [x EXCEPT !.anchor = v][f] = x[f]
BY DEF Row, Time

LEMMA SetNext ==
    ASSUME NEW x \in Row, NEW v \in Int \cup {Null}
    PROVE  /\ [x EXCEPT !.next = v] \in Row /\ [x EXCEPT !.next = v].next = v
           /\ \A f \in {"level", "anchor", "since", "pinned", "rev"} : [x EXCEPT !.next = v][f] = x[f]
BY DEF Row, Time

LEMMA SetSince ==
    ASSUME NEW x \in Row, NEW v \in Int \cup {Null}
    PROVE  /\ [x EXCEPT !.since = v] \in Row /\ [x EXCEPT !.since = v].since = v
           /\ \A f \in {"level", "anchor", "next", "pinned", "rev"} : [x EXCEPT !.since = v][f] = x[f]
BY DEF Row, Time

LEMMA SetPinned ==
    ASSUME NEW x \in Row, NEW v \in BOOLEAN
    PROVE  /\ [x EXCEPT !.pinned = v] \in Row /\ [x EXCEPT !.pinned = v].pinned = v
           /\ \A f \in {"level", "anchor", "next", "since", "rev"} : [x EXCEPT !.pinned = v][f] = x[f]
BY DEF Row

LEMMA SetReason ==
    ASSUME NEW x \in Row, NEW v \in Reason
    PROVE  [x EXCEPT !.reason = v] \in Row /\ SameLife(x, [x EXCEPT !.reason = v]) /\ [x EXCEPT !.reason = v].rev = x.rev
BY DEF Row, SameLife, Reason

LEMMA SetUntil ==
    ASSUME NEW x \in Row, NEW v \in Int
    PROVE  [x EXCEPT !.until = v] \in Row /\ SameLife(x, [x EXCEPT !.until = v]) /\ [x EXCEPT !.until = v].rev = x.rev
BY DEF Row, SameLife, Time

LEMMA SetAccess ==
    ASSUME NEW x \in Row, NEW v \in Int
    PROVE  [x EXCEPT !.access = v] \in Row /\ SameLife(x, [x EXCEPT !.access = v]) /\ [x EXCEPT !.access = v].rev = x.rev
BY DEF Row, SameLife, Time

LEMMA SetSeen ==
    ASSUME NEW x \in Row, NEW v \in Int
    PROVE  [x EXCEPT !.seen = v] \in Row /\ SameLife(x, [x EXCEPT !.seen = v]) /\ [x EXCEPT !.seen = v].rev = x.rev
BY DEF Row, SameLife, Time

LEMMA SetPermanent ==
    ASSUME NEW x \in Row, NEW v \in BOOLEAN
    PROVE  [x EXCEPT !.permanent = v] \in Row /\ SameLife(x, [x EXCEPT !.permanent = v]) /\ [x EXCEPT !.permanent = v].rev = x.rev
BY DEF Row, SameLife

LEMMA SetRev ==
    ASSUME NEW x \in Row, NEW v \in Nat
    PROVE  [x EXCEPT !.rev = v] \in Row /\ SameLife(x, [x EXCEPT !.rev = v])
BY DEF Row, SameLife

LEMMA FrozenRow ==
    ASSUME NEW x \in Row, NEW t \in Int, NEW why \in Reason
    PROVE  /\ Frozen(x, t, why) \in Row /\ ~Active(Frozen(x, t, why))
           /\ Frozen(x, t, why).level = x.level /\ Frozen(x, t, why).anchor = x.anchor
           /\ Frozen(x, t, why).rev = x.rev
<1> DEFINE a == [x EXCEPT !.since = t]
           b == [a EXCEPT !.reason = why]
           c == [b EXCEPT !.next = Null]
<1>1. Frozen(x, t, why) = c
  BY Zenon DEF Frozen
<1>2. a \in Row /\ a.since = t /\ a.level = x.level /\ a.anchor = x.anchor /\ a.rev = x.rev
  BY SetSince
<1> HIDE DEF a
<1>3. b \in Row /\ SameLife(a, b) /\ b.rev = a.rev
  BY <1>2, SetReason
<1> HIDE DEF b
<1>4. c \in Row /\ c.since = b.since /\ c.level = b.level /\ c.anchor = b.anchor /\ c.rev = b.rev
  BY <1>3, SetNext
<1> HIDE DEF c
<1> QED BY <1>1, <1>2, <1>3, <1>4, NullAssumption DEF SameLife, Active, Time

LEMMA AwakeRow ==
    ASSUME NEW x \in Row
    PROVE  /\ Awake(x) \in Row /\ Active(Awake(x))
           /\ Awake(x).level = x.level /\ Awake(x).anchor = x.anchor /\ Awake(x).pinned = x.pinned
           /\ Awake(x).rev = x.rev
<1> DEFINE a == [x EXCEPT !.since = Null]
           b == [a EXCEPT !.reason = Null]
<1>1. Awake(x) = b
  BY Zenon DEF Awake
<1>2. a \in Row /\ a.since = Null /\ a.level = x.level /\ a.anchor = x.anchor /\ a.pinned = x.pinned /\ a.rev = x.rev
  BY SetSince
<1> HIDE DEF a
<1>3. Null \in Reason
  BY DEF Reason
<1>4. b \in Row /\ SameLife(a, b) /\ b.rev = a.rev
  BY <1>2, <1>3, SetReason
<1> HIDE DEF b
<1> QED BY <1>1, <1>2, <1>4 DEF SameLife, Active

LEMMA ScheduledRow ==
    ASSUME NEW x \in Row
    PROVE  /\ Kept(Scheduled(x))
           /\ Scheduled(x).level = x.level /\ Scheduled(x).anchor = x.anchor
<1> DEFINE v == IF Active(x) THEN Crossing(x) ELSE Null
<1>1. v \in Int \cup {Null}
  BY Levels DEF Time
<1>2. Scheduled(x) = [x EXCEPT !.next = v]
  BY DEF Scheduled
<1> HIDE DEF v
<1>3. /\ Scheduled(x) \in Row /\ Scheduled(x).next = v /\ Scheduled(x).since = x.since
      /\ Scheduled(x).level = x.level /\ Scheduled(x).anchor = x.anchor
  BY <1>1, <1>2, SetNext
<1>4. Crossing(Scheduled(x)) = Crossing(x) /\ Crossing(x) \in Int
  BY <1>3, Levels, 0 \in Time DEF Crossing, Time
<1> QED BY <1>3, <1>4, NullAssumption DEF Kept, OnCalendar, Active, Time, v

-----------------------------------------------------------------------------
(* What the helpers make of a row. *)

LEMMA MovedRow ==
    ASSUME NEW x \in Row, NEW level \in Faded..Full, NEW t \in Int, NEW forced \in BOOLEAN,
           NEW why \in Reason
    PROVE  /\ Kept(Moved(x, level, t, forced, why))
           /\ Moved(x, level, t, forced, why).level = level
           /\ Moved(x, level, t, forced, why).anchor = t
<1> DEFINE a == [x EXCEPT !.level = level]
           b == [a EXCEPT !.anchor = t]
           there == [b EXCEPT !.rev = b.rev + 1]
           since == IF Active(x) THEN t ELSE x.since
           y == IF forced \/ level <= 0 THEN Frozen(there, since, why)
                ELSE IF Active(x) \/ level >= ReviveLevel THEN Awake(there)
                ELSE there
<1>1. a \in Row /\ a.level = level /\ a.rev = x.rev
  BY SetLevel
<1>2. b \in Row /\ b.level = level /\ b.anchor = t /\ b.rev = x.rev
  <2> HIDE DEF a
  <2> QED BY <1>1, SetAnchor
<1>3. there \in Row /\ there.level = level /\ there.anchor = t
  <2> HIDE DEF b
  <2> QED BY <1>2, Columns, SetRev DEF SameLife
<1>4. there = [x EXCEPT !.level = level, !.anchor = t, !.rev = @ + 1]
  <2>1. b.rev = x.rev
    BY <1>2
  <2> QED BY <2>1, Zenon
<1>5. since \in Int \/ ~(forced \/ level <= 0) \/ since = x.since
  OBVIOUS
<1>6. Active(x) \/ x.since \in Int
  BY Columns DEF Active
<1>7. since \in Int
  BY <1>6
<1> HIDE DEF since, there
<1>8. y \in Row /\ y.level = level /\ y.anchor = t
  BY <1>3, <1>7, FrozenRow, AwakeRow
<1>9. Moved(x, level, t, forced, why) = Scheduled(y)
  BY <1>4 DEF Moved, since
<1> HIDE DEF y
<1> QED BY <1>8, <1>9, ScheduledRow

\* A level that is at least what is left brings nothing closer.
LEMMA MovedUp ==
    ASSUME NEW x \in Row, NEW t \in Int, t >= x.anchor, NEW level \in Retention(x, t)..Full,
           NEW forced \in BOOLEAN, NEW why \in Reason
    PROVE  Kept(Moved(x, level, t, forced, why)) /\ NoOlder(x, Moved(x, level, t, forced, why))
<1>1. Retention(x, t) \in Faded..Full
  BY Levels DEF Time
<1>2. level \in Faded..Full
  BY <1>1, LevelsAssumption DEF Faded
<1>3. /\ Kept(Moved(x, level, t, forced, why))
      /\ Moved(x, level, t, forced, why).level = level
      /\ Moved(x, level, t, forced, why).anchor = t
  BY <1>2, MovedRow
<1>4. level >= Retention(x, t)
  BY <1>1, LevelsAssumption DEF Faded
<1> QED BY <1>3, <1>4, NotSooner DEF Kept

LEMMA SameLifeNoOlder ==
    ASSUME NEW w, NEW x, NEW y \in Row, Kept(x), NoOlder(w, x), SameLife(x, y)
    PROVE  Kept(y) /\ NoOlder(w, y)
BY SameLifeKept DEF NoOlder

LEMMA UntouchedRow ==
    ASSUME NEW x \in Row, NEW t \in Int
    PROVE  Kept(Untouched(x, t)) /\ NoOlder(x, Untouched(x, t))
<1> DEFINE f == Frozen(x, t, "decay")
           g == [f EXCEPT !.rev = @ + 1]
<1>1. f \in Row /\ ~Active(f) /\ f.level = x.level /\ f.anchor = x.anchor
  BY FrozenRow DEF Reason
<1>2. g \in Row /\ SameLife(f, g)
  <2> HIDE DEF f
  <2> QED BY <1>1, Columns, SetRev
<1>3. Kept(g) /\ Crossing(g) = Crossing(x)
  <2> HIDE DEF f, g
  <2> QED BY <1>1, <1>2 DEF Kept, OnCalendar, Active, SameLife, Crossing
<1>4. Kept(Scheduled(x)) /\ Crossing(Scheduled(x)) = Crossing(x)
  BY ScheduledRow DEF Crossing
<1>5. Crossing(x) \in Int
  BY Levels DEF Time
<1>6. Untouched(x, t) = g \/ Untouched(x, t) = Scheduled(x)
  BY DEF Untouched
<1> HIDE DEF g
<1> QED BY <1>3, <1>4, <1>5, <1>6 DEF NoOlder

LEMMA AccessedRow ==
    ASSUME NEW x \in Row, NEW t \in Int, t >= x.anchor, NEW y \in Accessed(x, t)
    PROVE  Kept(y) /\ NoOlder(x, y)
<1>1. CASE y = [Untouched(x, t) EXCEPT !.seen = t]
  BY <1>1, UntouchedRow, SetSeen, SameLifeNoOlder DEF Kept
<1>2. ASSUME NEW l \in Strengthened(x, t),
             y = [Moved(x, l, t, FALSE, "decay") EXCEPT !.access = t, !.seen = t]
      PROVE  Kept(y) /\ NoOlder(x, y)
  <2> DEFINE m == Moved(x, l, t, FALSE, "decay")
             a == [m EXCEPT !.access = t]
             b == [a EXCEPT !.seen = t]
  <2>1. Kept(m) /\ NoOlder(x, m)
    BY MovedUp DEF Strengthened, Reason
  <2>2. y = b
    BY <1>2, Zenon
  <2> HIDE DEF m
  <2>3. a \in Row /\ SameLife(m, a)
    BY <2>1, SetAccess DEF Kept
  <2>4. Kept(a) /\ NoOlder(x, a)
    BY <2>1, <2>3, SameLifeNoOlder
  <2> HIDE DEF a
  <2>5. b \in Row /\ SameLife(a, b)
    BY <2>3, SetSeen
  <2> HIDE DEF b
  <2> QED BY <2>2, <2>4, <2>5, SameLifeNoOlder
<1> QED BY <1>1, <1>2 DEF Accessed

LEMMA ReinforcedRow ==
    ASSUME NEW x \in Row, NEW t \in Int, t >= x.anchor, NEW y \in Reinforced(x, t)
    PROVE  Kept(y) /\ NoOlder(x, y)
<1>1. PICK l \in Strengthened(x, t) : y = [Moved(x, l, t, FALSE, "decay") EXCEPT !.seen = t]
  BY DEF Reinforced
<1> DEFINE m == Moved(x, l, t, FALSE, "decay")
<1>2. Kept(m) /\ NoOlder(x, m)
  BY MovedUp DEF Strengthened, Reason
<1> HIDE DEF m
<1>3. y = [m EXCEPT !.seen = t]
  BY <1>1 DEF m
<1> QED BY <1>2, <1>3, SetSeen, SameLifeNoOlder DEF Kept

LEMMA FreshRow ==
    ASSUME NEW t \in Int
    PROVE  Kept(Fresh(t))
<1>1. Fresh(t) \in Row
  BY LevelsAssumption DEF Fresh, Row, Time, Faded
<1>2. Fresh(t).next = t /\ Fresh(t).anchor = t /\ Fresh(t).level = Full
  BY DEF Fresh
<1> QED BY <1>1, <1>2, NullAssumption, LevelsAssumption DEF Kept, OnCalendar, Crossing, AtLeast, Time

LEMMA ObservedRow ==
    ASSUME NEW x \in Row, NEW t \in Int
    PROVE  Kept(Observed(x, t)) /\ NoOlder(x, Observed(x, t))
<1> DEFINE now == EventTime(x, t)
           w == Awake(x)
           a == [w EXCEPT !.level = Full]
           b == [a EXCEPT !.anchor = now]
           c == [b EXCEPT !.next = now]
           d == [c EXCEPT !.seen = now]
           e == [d EXCEPT !.rev = w.rev + 1]
<1>1. now \in Int /\ now >= x.anchor
  BY Times DEF Time
<1>2. w \in Row /\ w.rev + 1 \in Nat
  BY AwakeRow, Columns
<1>3. Observed(x, t) = e
  BY Zenon DEF Observed
<1> HIDE DEF now, w
<1>4. a \in Row /\ a.level = Full
  BY <1>2, SetLevel, LevelsAssumption, Full \in Faded..Full DEF Faded
<1> HIDE DEF a
<1>5. b \in Row /\ b.level = Full /\ b.anchor = now
  BY <1>1, <1>4, SetAnchor
<1> HIDE DEF b
<1>6. c \in Row /\ c.level = Full /\ c.anchor = now /\ c.next = now
  BY <1>1, <1>5, SetNext
<1> HIDE DEF c
<1>7. d \in Row /\ SameLife(c, d)
  BY <1>1, <1>6, SetSeen
<1> HIDE DEF d
<1>8. e \in Row /\ SameLife(d, e)
  BY <1>2, <1>7, SetRev
<1> HIDE DEF e
<1>9. e.level = Full /\ e.anchor = now /\ e.next = now
  BY <1>6, <1>7, <1>8 DEF SameLife
<1>10. Kept(e)
  BY <1>1, <1>8, <1>9, LevelsAssumption, NullAssumption DEF Kept, OnCalendar, Crossing, AtLeast, Time
<1>11. Full >= Retention(x, now)
  BY <1>1, Levels, LevelsAssumption DEF Time, Faded
<1> QED BY <1>1, <1>3, <1>8, <1>9, <1>10, <1>11, NotSooner

LEMMA ProtectedRow ==
    ASSUME NEW x, Kept(x), NEW until \in Int, NEW pin \in BOOLEAN
    PROVE  /\ Kept(Protected(x, until, pin)) /\ Crossing(Protected(x, until, pin)) = Crossing(x)
           /\ NoOlder(x, Protected(x, until, pin))
<1> DEFINE next == IF pin THEN Null ELSE Coalesce(x.next, x.anchor)
           a == [x EXCEPT !.until = until]
           b == [a EXCEPT !.pinned = pin]
           y == [b EXCEPT !.next = next]
           z == [y EXCEPT !.rev = y.rev + 1]
<1>1. x \in Row /\ Crossing(x) \in Int /\ Crossing(x) >= x.anchor /\ x.anchor \in Int
  BY Levels, Columns, 0 \in Time DEF Kept, Time
<1>2. y = [x EXCEPT !.until = until, !.pinned = pin, !.next = IF pin THEN Null ELSE Coalesce(@, x.anchor)]
  BY Zenon
<1>3. Protected(x, until, pin) = IF x = y THEN x ELSE z
  BY <1>2, Zenon DEF Protected
<1>4. next \in Int \cup {Null}
  BY <1>1, Columns DEF Coalesce
<1>5. /\ pin => next = Null
      /\ ~pin => next # Null /\ (x.next = Null => next = x.anchor) /\ (x.next # Null => next = x.next)
  BY <1>1, NullAssumption DEF Coalesce, Time
<1> HIDE DEF next
<1>6. a \in Row /\ SameLife(x, a)
  BY <1>1, SetUntil
<1> HIDE DEF a
<1>7. b \in Row /\ b.pinned = pin /\ b.level = x.level /\ b.anchor = x.anchor /\ b.since = x.since
  BY <1>6, SetPinned DEF SameLife
<1> HIDE DEF b
<1>8. y \in Row /\ y.next = next /\ y.pinned = pin /\ y.level = x.level /\ y.anchor = x.anchor /\ y.since = x.since
  BY <1>4, <1>7, SetNext
<1> HIDE DEF y
<1>9. Crossing(y) = Crossing(x)
  BY <1>8 DEF Crossing
<1>10. OnCalendar(y)
  BY <1>1, <1>5, <1>8, <1>9 DEF Kept, OnCalendar, Active
<1>11. z \in Row /\ SameLife(y, z)
  BY <1>8, Columns, SetRev
<1> HIDE DEF z
<1>12. Kept(z) /\ Crossing(z) = Crossing(x)
  BY <1>8, <1>9, <1>10, <1>11, SameLifeKept DEF Kept
<1> QED BY <1>1, <1>3, <1>12 DEF NoOlder

LEMMA MarkedInactiveRow ==
    ASSUME NEW x, Kept(x), NEW t \in Int
    PROVE  Kept(MarkedInactive(x, t)) /\ NoOlder(x, MarkedInactive(x, t))
<1> DEFINE since == IF Active(x) THEN EventTime(x, t) ELSE x.since
           f == Frozen(x, since, "correction")
           g == [f EXCEPT !.rev = f.rev + 1]
<1>1. x \in Row /\ Crossing(x) \in Int
  BY Levels, 0 \in Time DEF Kept, Time
<1>2. since \in Int
  BY <1>1, Times, Columns DEF Time, Active
<1>3. MarkedInactive(x, t) = x \/ MarkedInactive(x, t) = g
  BY DEF MarkedInactive
<1> HIDE DEF since
<1>4. f \in Row /\ ~Active(f) /\ f.level = x.level /\ f.anchor = x.anchor
  BY <1>1, <1>2, FrozenRow DEF Reason
<1> HIDE DEF f
<1>5. g \in Row /\ SameLife(f, g)
  BY <1>4, Columns, SetRev
<1> HIDE DEF g
<1>6. Kept(g) /\ Crossing(g) = Crossing(x)
  BY <1>4, <1>5 DEF Kept, OnCalendar, Active, SameLife, Crossing
<1> QED BY <1>1, <1>3, <1>6 DEF NoOlder

LEMMA ReactivatedRow ==
    ASSUME NEW x, Kept(x)
    PROVE  Kept(Reactivated(x)) /\ NoOlder(x, Reactivated(x))
<1> DEFINE w == Awake(x)
           a == [w EXCEPT !.next = x.anchor]
           b == [a EXCEPT !.rev = a.rev + 1]
<1>1. x \in Row /\ Crossing(x) \in Int /\ Crossing(x) >= x.anchor /\ x.anchor \in Int
  BY Levels, Columns, 0 \in Time DEF Kept, Time
<1>2. w \in Row /\ w.level = x.level /\ w.anchor = x.anchor
  BY <1>1, AwakeRow
<1> HIDE DEF w
<1>3. a \in Row /\ a.next = x.anchor /\ a.level = x.level /\ a.anchor = x.anchor /\ a.rev = w.rev
  BY <1>1, <1>2, SetNext
<1>4. b = [w EXCEPT !.next = x.anchor, !.rev = @ + 1]
  BY <1>3, Zenon
<1>5. Reactivated(x) = x \/ Reactivated(x) = b
  BY <1>4 DEF Reactivated, w
<1> HIDE DEF a
<1>6. b \in Row /\ SameLife(a, b)
  BY <1>3, Columns, SetRev
<1> HIDE DEF b
<1>7. Crossing(b) = Crossing(x) /\ b.next = x.anchor
  BY <1>3, <1>6 DEF SameLife, Crossing
<1>8. Kept(b)
  BY <1>1, <1>6, <1>7, NullAssumption DEF Kept, OnCalendar, Time
<1> QED BY <1>1, <1>5, <1>7, <1>8 DEF NoOlder

LEMMA ForgottenRow ==
    ASSUME NEW x, Kept(x), NEW t \in Int
    PROVE  Kept(Forgotten(x, t))
<1> DEFINE y == Protected(x, 0, FALSE)
<1>1. y \in Row
  BY ProtectedRow, 0 \in Int, FALSE \in BOOLEAN DEF Kept
<1>2. EventTime(y, t) \in Int
  BY <1>1, Times DEF Time
<1>3. Faded \in Faded..Full /\ "manual" \in Reason
  BY LevelsAssumption DEF Faded, Reason
<1> QED BY <1>1, <1>2, <1>3, MovedRow DEF Forgotten

LEMMA RevertedRow ==
    ASSUME NEW x \in Row, NEW s, Kept(s), NEW seen \in Int
    PROVE  Kept(Reverted(x, s, seen))
<1> DEFINE n == AtLeast(x.rev, s.rev) + 1
           a == [s EXCEPT !.permanent = x.permanent]
           b == [a EXCEPT !.seen = seen]
           c == [b EXCEPT !.rev = n]
<1>1. s \in Row
  BY DEF Kept
<1>2. n \in Nat /\ x.permanent \in BOOLEAN
  BY <1>1, Columns DEF AtLeast
<1>3. Reverted(x, s, seen) = c
  BY Zenon DEF Reverted
<1> HIDE DEF n
<1>4. a \in Row /\ SameLife(s, a)
  BY <1>1, <1>2, SetPermanent
<1> HIDE DEF a
<1>5. b \in Row /\ SameLife(a, b)
  BY <1>4, SetSeen
<1> HIDE DEF b
<1>6. c \in Row /\ SameLife(b, c)
  BY <1>2, <1>5, SetRev
<1> HIDE DEF c
<1>7. SameLife(s, c)
  BY <1>4, <1>5, <1>6 DEF SameLife
<1> QED BY <1>3, <1>6, <1>7, SameLifeKept

LEMMA EvaluatedRow ==
    ASSUME NEW x, Kept(x), NEW t \in Int
    PROVE  Kept(Evaluated(x, t)) /\ NoOlder(x, Evaluated(x, t))
<1> DEFINE now == PolicyTime(x, t)
           f == Frozen(x, now, "decay")
           g == [x EXCEPT !.next = Crossing(x)]
           y == IF Retention(x, now) <= 0 \/ now >= Crossing(x) THEN f ELSE g
           z == [y EXCEPT !.rev = y.rev + 1]
<1>1. x \in Row /\ Crossing(x) \in Int /\ now \in Int
  BY Levels, Times, 0 \in Time DEF Kept, Time
<1>2. f \in Row /\ ~Active(f) /\ f.level = x.level /\ f.anchor = x.anchor
  BY <1>1, FrozenRow DEF Reason
<1>3. g \in Row /\ g.next = Crossing(x) /\ g.level = x.level /\ g.anchor = x.anchor
  BY <1>1, SetNext
<1>4. Evaluated(x, t) = z
  BY DEF Evaluated
<1>5. y \in Row /\ Crossing(y) = Crossing(x)
  <2> HIDE DEF f, g, now
  <2> QED BY <1>2, <1>3 DEF Crossing
<1>6. OnCalendar(y)
  <2> HIDE DEF f, g, now
  <2> QED BY <1>1, <1>2, <1>3, <1>5, NullAssumption DEF OnCalendar, Time
<1> HIDE DEF y
<1>7. z \in Row /\ SameLife(y, z)
  BY <1>5, Columns, SetRev
<1> HIDE DEF z
<1>8. Kept(z) /\ Crossing(z) = Crossing(x)
  BY <1>5, <1>6, <1>7, SameLifeKept DEF Kept
<1> QED BY <1>1, <1>4, <1>8 DEF NoOlder

-----------------------------------------------------------------------------
(* Steps. *)

\* No row that is there has come closer to its end.
NoRowOlder == \A q \in Hash : row[q] # Null /\ row'[q] # Null => NoOlder(row[q], row'[q])

LEMMA RowKept ==
    ASSUME IInv, NEW r \in Hash, row[r] # Null
    PROVE  Kept(row[r])
BY DEF IInv, RowsTyped, TablesKept, Kept

LEMMA BinKept ==
    ASSUME IInv, NEW r \in Hash, bin[r] # Null
    PROVE  Kept(bin[r])
BY DEF IInv, RowsTyped, TablesKept, Kept

LEMMA StatusKept ==
    ASSUME IInv, NEW r \in Hash, status[r] # Null
    PROVE  Kept(status[r])
BY DEF IInv, RowsTyped, TablesKept, Kept

LEMMA CountsTyped ==
    ASSUME IInv, Counts
    PROVE  bound' \in [events : Nat, setbacks : Nat] /\ bound'.setbacks = bound.setbacks
<1>1. bound \in [events : Nat, setbacks : Nat]
  BY DEF IInv, Counted
<1> QED BY <1>1 DEF Counts

LEMMA SweepStays ==
    ASSUME IInv, UNCHANGED <<sweep, clock>>, bound'.setbacks = bound.setbacks
    PROVE  SweptAreFaded'
BY DEF IInv, SweptAreFaded, Retention, Active

\* A row becomes another one.
LEMMA RowBecomes ==
    ASSUME IInv, NEW r \in Hash, NEW y, Kept(y), Becomes(r, y), Counts,
           UNCHANGED <<bin, status, sweep, clock>>
    PROVE  IInv' /\ row'[r] = y /\ \A q \in Hash \ {r} : row'[q] = row[q]
<1>1. row \in [Hash -> Row \cup {Null}] /\ y \in Row
  BY DEF IInv, RowsTyped, Kept
<1>2. row' \in [Hash -> Row \cup {Null}] /\ row'[r] = y /\ \A q \in Hash \ {r} : row'[q] = row[q]
  BY <1>1 DEF Becomes
<1>3. RowsTyped'
  BY <1>2 DEF IInv, RowsTyped
<1>4. Counted'
  BY CountsTyped DEF IInv, Counted
<1>5. TablesKept'
  BY <1>2 DEF IInv, TablesKept, Kept
<1>6. SweptAreFaded'
  BY CountsTyped, SweepStays
<1> QED BY <1>2, <1>3, <1>4, <1>5, <1>6 DEF IInv

LEMMA RowBecomesNoOlder ==
    ASSUME IInv, NEW r \in Hash, NEW y, Kept(y), Becomes(r, y), Counts,
           UNCHANGED <<bin, status, sweep, clock>>, row[r] # Null => NoOlder(row[r], y)
    PROVE  IInv' /\ NoRowOlder
<1>1. IInv' /\ row'[r] = y /\ \A q \in Hash \ {r} : row'[q] = row[q]
  BY RowBecomes
<1>2. ASSUME NEW q \in Hash, row[q] # Null PROVE Crossing(row[q]) \in Int
  BY <1>2, RowKept, Levels, 0 \in Time DEF Kept, Time
<1>3. ASSUME NEW q \in Hash, row[q] # Null, row'[q] # Null PROVE NoOlder(row[q], row'[q])
  <2>1. CASE q = r
    BY <1>1, <1>3, <2>1
  <2>2. CASE q # r
    BY <1>1, <1>2, <1>3, <2>2 DEF NoOlder
  <2> QED BY <2>1, <2>2
<1> QED BY <1>1, <1>3 DEF NoRowOlder

LEMMA ClockTyped == IInv => clock \in Int
BY DEF IInv, Counted, Time

LEMMA EventTyped ==
    ASSUME IInv, NEW x, Kept(x)
    PROVE  EventTime(x, clock) \in Int /\ EventTime(x, clock) >= x.anchor
BY ClockTyped, Times DEF Kept, Time

LEMMA ObserveStep ==
    ASSUME IInv, NEW r \in Hash, Observe(r)
    PROVE  IInv' /\ NoRowOlder
<1> DEFINE x == IF row[r] = Null THEN Fresh(clock) ELSE row[r]
<1>1. Kept(x)
  BY RowKept, FreshRow, ClockTyped
<1>2. Kept(Observed(x, clock)) /\ NoOlder(x, Observed(x, clock))
  BY <1>1, ClockTyped, ObservedRow DEF Kept
<1> QED BY <1>2, RowBecomesNoOlder DEF Observe

LEMMA CreateEdgeStep ==
    ASSUME IInv, NEW r \in Hash, CreateEdge(r)
    PROVE  IInv' /\ NoRowOlder
<1> DEFINE x == IF row[r] = Null THEN Fresh(clock) ELSE row[r]
           t == EventTime(x, clock)
           m == Moved(x, Full, t, FALSE, Null)
           y == IF Active(x) THEN x ELSE [m EXCEPT !.seen = t]
<1>1. Kept(x)
  BY RowKept, FreshRow, ClockTyped
<1>2. t \in Int /\ t >= x.anchor
  BY <1>1, EventTyped
<1>3. Full \in Retention(x, t)..Full
  BY <1>1, <1>2, Levels, LevelsAssumption DEF Kept, Time, Faded
<1>4. Kept(m) /\ NoOlder(x, m)
  <2> HIDE DEF t
  <2> QED BY <1>1, <1>2, <1>3, MovedUp DEF Kept, Reason
<1>5. Kept([m EXCEPT !.seen = t]) /\ NoOlder(x, [m EXCEPT !.seen = t])
  <2> HIDE DEF t, m
  <2> QED BY <1>2, <1>4, SetSeen, SameLifeNoOlder DEF Kept
<1>6. Crossing(x) \in Int
  BY <1>1, Levels, 0 \in Time DEF Kept, Time
<1>7. Kept(y) /\ NoOlder(x, y)
  <2> HIDE DEF x
  <2> QED BY <1>1, <1>5, <1>6 DEF NoOlder
<1>8. Becomes(r, y) /\ Counts /\ UNCHANGED <<bin, status, sweep, clock>>
  BY DEF CreateEdge
<1> HIDE DEF y
<1> QED BY <1>7, <1>8, RowBecomesNoOlder

LEMMA AccessStep ==
    ASSUME IInv, NEW r \in Hash, Access(r)
    PROVE  IInv' /\ NoRowOlder
<1> DEFINE t == EventTime(row[r], clock)
<1>1. Kept(row[r])
  BY RowKept DEF Access, Changed
<1>2. t \in Int /\ t >= row[r].anchor
  BY <1>1, EventTyped
<1>3. PICK y \in Accessed(row[r], t) : Becomes(r, y)
  BY DEF Access
<1> HIDE DEF t
<1>4. Kept(y) /\ NoOlder(row[r], y)
  BY <1>1, <1>2, AccessedRow DEF Kept
<1> QED BY <1>3, <1>4, RowBecomesNoOlder DEF Access, Changed

LEMMA ReinforceStep ==
    ASSUME IInv, NEW r \in Hash, Reinforce(r)
    PROVE  IInv' /\ NoRowOlder
<1> DEFINE t == EventTime(row[r], clock)
<1>1. Kept(row[r])
  BY RowKept DEF Reinforce, Changed
<1>2. t \in Int /\ t >= row[r].anchor
  BY <1>1, EventTyped
<1>3. PICK y \in Reinforced(row[r], t), d \in Protection, stops \in BOOLEAN :
         LET now == AtLeast(clock, y.anchor)
         IN  Becomes(r, IF stops THEN y ELSE [y EXCEPT !.until = now + d, !.seen = now, !.rev = @ + 1])
  BY DEF Reinforce, Stops
<1> HIDE DEF t
<1>4. Kept(y) /\ NoOlder(row[r], y)
  BY <1>1, <1>2, ReinforcedRow DEF Kept
<1> DEFINE now == AtLeast(clock, y.anchor)
           a == [y EXCEPT !.until = now + d]
           b == [a EXCEPT !.seen = now]
           c == [b EXCEPT !.rev = y.rev + 1]
<1>5. now \in Int /\ now + d \in Int /\ y.rev + 1 \in Nat
  BY <1>4, ClockTyped, Columns, LevelsAssumption DEF Kept, AtLeast
<1>6. Becomes(r, IF stops THEN y ELSE c)
  BY <1>3, Zenon
<1> HIDE DEF now
<1>7. a \in Row /\ SameLife(y, a)
  BY <1>4, <1>5, SetUntil DEF Kept
<1> HIDE DEF a
<1>8. b \in Row /\ SameLife(a, b)
  BY <1>5, <1>7, SetSeen
<1> HIDE DEF b
<1>9. c \in Row /\ SameLife(b, c)
  BY <1>5, <1>8, SetRev
<1> HIDE DEF c
<1>10. SameLife(y, c)
  BY <1>7, <1>8, <1>9 DEF SameLife
<1>11. Kept(c) /\ NoOlder(row[r], c)
  BY <1>4, <1>9, <1>10, SameLifeNoOlder
<1>12. Kept(IF stops THEN y ELSE c) /\ NoOlder(row[r], IF stops THEN y ELSE c)
  BY <1>4, <1>11
<1> QED BY <1>6, <1>12, RowBecomesNoOlder DEF Reinforce, Changed

LEMMA RememberForeverStep ==
    ASSUME IInv, NEW r \in Hash, RememberForever(r)
    PROVE  IInv' /\ NoRowOlder
<1> DEFINE t == EventTime(row[r], clock)
<1>1. Kept(row[r]) /\ Crossing(row[r]) \in Int
  BY RowKept, Levels, 0 \in Time DEF RememberForever, Changed, Kept, Time
<1>2. t \in Int /\ t >= row[r].anchor
  BY <1>1, EventTyped
<1>3. PICK y \in Reinforced(row[r], t), stops \in BOOLEAN :
         Becomes(r, IF stops THEN y ELSE Protected(y, 0, TRUE))
  BY DEF RememberForever, Stops
<1> HIDE DEF t
<1>4. Kept(y) /\ NoOlder(row[r], y)
  BY <1>1, <1>2, ReinforcedRow DEF Kept
<1>5. Kept(Protected(y, 0, TRUE)) /\ Crossing(Protected(y, 0, TRUE)) = Crossing(y)
  BY <1>4, ProtectedRow, 0 \in Int, TRUE \in BOOLEAN
<1> DEFINE z == IF stops THEN y ELSE Protected(y, 0, TRUE)
<1>6. Kept(z) /\ NoOlder(row[r], z)
  BY <1>4, <1>5 DEF NoOlder
<1> QED BY <1>3, <1>6, RowBecomesNoOlder DEF RememberForever, Changed

LEMMA WeakenStep ==
    ASSUME IInv, NEW r \in Hash, Weaken(r)
    PROVE  IInv'
<1> DEFINE t == EventTime(row[r], clock)
<1>1. Kept(row[r])
  BY RowKept DEF Weaken, Changed
<1>2. t \in Int
  BY <1>1, EventTyped
<1>3. PICK l \in Weakened(row[r], t) : Becomes(r, Moved(row[r], l, t, FALSE, "weaken"))
  BY DEF Weaken
<1> HIDE DEF t
<1>4. l \in Faded..Full
  BY <1>1, <1>2, Levels, LevelsAssumption DEF Weakened, Kept, Time, Faded
<1>5. Kept(Moved(row[r], l, t, FALSE, "weaken"))
  BY <1>1, <1>2, <1>4, MovedRow DEF Kept, Reason
<1> QED BY <1>3, <1>5, RowBecomes DEF Weaken, Changed

LEMMA FreezeStep ==
    ASSUME IInv, NEW r \in Hash, Freeze(r)
    PROVE  IInv' /\ NoRowOlder
<1> DEFINE t == EventTime(row[r], clock)
           level == Retention(row[r], t)
<1>1. Kept(row[r])
  BY RowKept DEF Freeze, Changed
<1>2. t \in Int /\ t >= row[r].anchor
  BY <1>1, EventTyped
<1>3. Becomes(r, Moved(row[r], level, t, TRUE, "manual"))
  BY DEF Freeze
<1> HIDE DEF t
<1>4. level \in Retention(row[r], t)..Full
  BY <1>1, <1>2, Levels, LevelsAssumption DEF Kept, Time, Faded
<1> HIDE DEF level
<1>5. Kept(Moved(row[r], level, t, TRUE, "manual")) /\ NoOlder(row[r], Moved(row[r], level, t, TRUE, "manual"))
  BY <1>1, <1>2, <1>4, MovedUp DEF Kept, Reason
<1> QED BY <1>3, <1>5, RowBecomesNoOlder DEF Freeze, Changed

LEMMA ForgetStep ==
    ASSUME IInv, NEW r \in Hash, Forget(r)
    PROVE  IInv'
<1>1. Kept(Forgotten(row[r], clock))
  BY RowKept, ClockTyped, ForgottenRow DEF Forget, Changed
<1> QED BY <1>1, RowBecomes DEF Forget, Changed

LEMMA ProtectStep ==
    ASSUME IInv, NEW r \in Hash, Protect(r)
    PROVE  IInv' /\ NoRowOlder
<1>1. PICK d \in Protection : Becomes(r, Protected(row[r], IF d > 0 THEN clock + d ELSE 0, d = 0))
  BY DEF Protect
<1> DEFINE until == IF d > 0 THEN clock + d ELSE 0
           pin == (d = 0)
<1>2. until \in Int /\ pin \in BOOLEAN
  BY ClockTyped, LevelsAssumption
<1>3. Becomes(r, Protected(row[r], until, pin))
  BY <1>1
<1> HIDE DEF until, pin
<1>4. Kept(Protected(row[r], until, pin)) /\ NoOlder(row[r], Protected(row[r], until, pin))
  BY <1>2, RowKept, ProtectedRow DEF Protect, Changed
<1> QED BY <1>3, <1>4, RowBecomesNoOlder DEF Protect, Changed

LEMMA SupersedeStep ==
    ASSUME IInv, NEW r \in Hash, Supersede(r)
    PROVE  IInv' /\ NoRowOlder
<1>1. PICK t \in 0..clock : Becomes(r, MarkedInactive(row[r], t))
  BY DEF Supersede
<1>2. t \in Int
  BY ClockTyped
<1>3. Kept(MarkedInactive(row[r], t)) /\ NoOlder(row[r], MarkedInactive(row[r], t))
  BY <1>2, RowKept, MarkedInactiveRow DEF Supersede, Changed
<1> QED BY <1>1, <1>3, RowBecomesNoOlder DEF Supersede, Changed

LEMMA ReactivateStep ==
    ASSUME IInv, NEW r \in Hash, Reactivate(r)
    PROVE  IInv' /\ NoRowOlder
<1>1. Kept(Reactivated(row[r])) /\ NoOlder(row[r], Reactivated(row[r]))
  BY RowKept, ReactivatedRow DEF Reactivate, Changed
<1> QED BY <1>1, RowBecomesNoOlder DEF Reactivate, Changed

\* Only rows and the tables rows are put aside in change: the rest of IInv stays.
LEMMA TablesChange ==
    ASSUME IInv, Counted', SweptAreFaded', UNCHANGED sweep,
           row' \in [Hash -> Row \cup {Null}], bin' \in [Hash -> Row \cup {Null}],
           status' \in [Hash -> Row \cup {Null}], TablesKept'
    PROVE  IInv'
BY DEF IInv, RowsTyped

LEMMA ForgetByFeedbackStep ==
    ASSUME IInv, NEW r \in Hash, ForgetByFeedback(r)
    PROVE  IInv'
<1>1. row \in [Hash -> Row \cup {Null}] /\ status \in [Hash -> Row \cup {Null}]
      /\ bin \in [Hash -> Row \cup {Null}] /\ TablesKept
  BY DEF IInv, RowsTyped
<1>2. Kept(row[r]) /\ Kept(Forgotten(row[r], clock))
  BY RowKept, ClockTyped, ForgottenRow DEF ForgetByFeedback
<1>3. row' \in [Hash -> Row \cup {Null}] /\ status' \in [Hash -> Row \cup {Null}]
  BY <1>1, <1>2 DEF ForgetByFeedback, Becomes, Kept
<1>4. TablesKept'
  BY <1>1, <1>2, <1>3 DEF ForgetByFeedback, Becomes, TablesKept, Kept
<1>5. Counted' /\ SweptAreFaded'
  BY CountsTyped, SweepStays DEF ForgetByFeedback, Counted, IInv
<1> QED BY <1>1, <1>3, <1>4, <1>5, TablesChange DEF ForgetByFeedback

LEMMA RevertStatusStep ==
    ASSUME IInv, NEW r \in Hash, RevertStatus(r)
    PROVE  IInv'
<1>1. row \in [Hash -> Row \cup {Null}] /\ status \in [Hash -> Row \cup {Null}]
      /\ bin \in [Hash -> Row \cup {Null}] /\ TablesKept
  BY DEF IInv, RowsTyped
<1>2. PICK x \in {row[r], bin[r]} \ {Null} :
         \E seen \in {x.seen, status[r].seen} : Becomes(r, Reverted(x, status[r], seen))
  BY DEF RevertStatus
<1>3. x \in Row /\ Kept(status[r])
  BY <1>1, <1>2, StatusKept DEF RevertStatus
<1>4. PICK seen \in Int : Becomes(r, Reverted(x, status[r], seen))
  BY <1>2, <1>3, Columns DEF Kept
<1>5. Kept(Reverted(x, status[r], seen))
  BY <1>3, <1>4, RevertedRow
<1>6. /\ row' \in [Hash -> Row \cup {Null}] /\ status' \in [Hash -> Row \cup {Null}]
      /\ bin' \in [Hash -> Row \cup {Null}]
  BY <1>1, <1>4, <1>5 DEF RevertStatus, Becomes, Kept
<1>7. \A q \in Hash : row'[q] # Null => OnCalendar(row'[q])
  BY <1>1, <1>4, <1>5 DEF Becomes, TablesKept, Kept
<1>8. \A q \in Hash : (bin'[q] # Null => bin'[q] = bin[q]) /\ (status'[q] # Null => status'[q] = status[q])
  BY <1>1 DEF RevertStatus
<1>9. TablesKept'
  BY <1>1, <1>7, <1>8 DEF TablesKept
<1>10. Counted' /\ SweptAreFaded'
  BY CountsTyped, SweepStays DEF RevertStatus, Counted, IInv
<1> QED BY <1>6, <1>9, <1>10, TablesChange DEF RevertStatus

LEMMA ToBinTables ==
    ASSUME IInv, NEW S, ToBin(S), UNCHANGED status
    PROVE  /\ row' \in [Hash -> Row \cup {Null}] /\ bin' \in [Hash -> Row \cup {Null}]
           /\ status' \in [Hash -> Row \cup {Null}] /\ TablesKept'
           /\ \A q \in Hash : row'[q] = IF q \in S THEN Null ELSE row[q]
<1>1. row \in [Hash -> Row \cup {Null}] /\ bin \in [Hash -> Row \cup {Null}]
      /\ status \in [Hash -> Row \cup {Null}] /\ TablesKept
  BY DEF IInv, RowsTyped
<1>2. \A q \in Hash : /\ row'[q] = IF q \in S THEN Null ELSE row[q]
                      /\ bin'[q] = IF q \in S THEN row[q] ELSE bin[q]
  BY DEF ToBin
<1>3. row' \in [Hash -> Row \cup {Null}] /\ bin' \in [Hash -> Row \cup {Null}]
  BY <1>1 DEF ToBin
<1> QED BY <1>1, <1>2, <1>3 DEF TablesKept

\* Rows that are taken away or stay as they are.
LEMMA RowsStayOrGo ==
    ASSUME IInv, \A q \in Hash : row'[q] = Null \/ row'[q] = row[q]
    PROVE  NoRowOlder
<1> SUFFICES ASSUME NEW q \in Hash, row[q] # Null, row'[q] # Null
             PROVE  NoOlder(row[q], row'[q])
  BY DEF NoRowOlder
<1>1. Crossing(row[q]) \in Int
  BY RowKept, Levels, 0 \in Time DEF Kept, Time
<1> QED BY <1>1 DEF NoOlder

LEMMA DeleteRowStep ==
    ASSUME IInv, NEW r \in Hash, DeleteRow(r)
    PROVE  IInv' /\ NoRowOlder
<1>1. Counted' /\ SweptAreFaded'
  BY CountsTyped, SweepStays DEF DeleteRow, Counted, IInv
<1> QED BY <1>1, ToBinTables, TablesChange, RowsStayOrGo DEF DeleteRow

LEMMA RestoreRowStep ==
    ASSUME IInv, NEW r \in Hash, RestoreRow(r)
    PROVE  IInv'
<1>1. row \in [Hash -> Row \cup {Null}] /\ bin \in [Hash -> Row \cup {Null}]
      /\ status \in [Hash -> Row \cup {Null}] /\ TablesKept
  BY DEF IInv, RowsTyped
<1>2. Kept(bin[r])
  BY BinKept DEF RestoreRow
<1>3. row' \in [Hash -> Row \cup {Null}] /\ bin' \in [Hash -> Row \cup {Null}]
  BY <1>1, <1>2 DEF RestoreRow, Becomes, Kept
<1>4. TablesKept'
  BY <1>1, <1>2 DEF RestoreRow, Becomes, TablesKept, Kept
<1>5. Counted' /\ SweptAreFaded'
  BY CountsTyped, SweepStays DEF RestoreRow, Counted, IInv
<1> QED BY <1>1, <1>3, <1>4, <1>5, TablesChange DEF RestoreRow

LEMMA PurgeRowStep ==
    ASSUME IInv, NEW r \in Hash, PurgeRow(r)
    PROVE  IInv' /\ NoRowOlder
<1>1. row \in [Hash -> Row \cup {Null}] /\ bin \in [Hash -> Row \cup {Null}]
      /\ status \in [Hash -> Row \cup {Null}] /\ TablesKept
  BY DEF IInv, RowsTyped
<1>2. bin' \in [Hash -> Row \cup {Null}] /\ TablesKept'
  BY <1>1 DEF PurgeRow, TablesKept
<1>3. Counted' /\ SweptAreFaded'
  BY CountsTyped, SweepStays DEF PurgeRow, Counted, IInv
<1> QED BY <1>1, <1>2, <1>3, TablesChange, RowsStayOrGo DEF PurgeRow

LEMMA SweepStep ==
    ASSUME IInv, NEW projects \in BOOLEAN, Sweep(projects)
    PROVE  IInv' /\ NoRowOlder
<1>1. row \in [Hash -> Row \cup {Null}] /\ bin \in [Hash -> Row \cup {Null}]
      /\ status \in [Hash -> Row \cup {Null}] /\ sweep \in [Hash -> Row \cup {Null}] /\ TablesKept
  BY DEF IInv, RowsTyped
<1>2. ASSUME NEW q \in Hash
      PROVE  /\ row[q] = Null => row'[q] = Null
             /\ row[q] # Null => Kept(row'[q]) /\ NoOlder(row[q], row'[q])
  <2>1. row'[q] = IF q \in Rows /\ IsDue(row[q], clock) THEN Evaluated(row[q], clock) ELSE row[q]
    BY DEF Sweep, Cycle
  <2>2. CASE row[q] = Null
    BY <2>1, <2>2 DEF Rows
  <2>3. CASE row[q] # Null
    <3>1. Kept(row[q]) /\ Crossing(row[q]) \in Int
      BY <2>3, RowKept, Levels, 0 \in Time DEF Kept, Time
    <3>2. Kept(Evaluated(row[q], clock)) /\ NoOlder(row[q], Evaluated(row[q], clock))
      BY <3>1, ClockTyped, EvaluatedRow
    <3> QED BY <2>1, <2>3, <3>1, <3>2 DEF NoOlder
  <2> QED BY <2>2, <2>3
<1>3. row' \in [Hash -> Row \cup {Null}]
  <2>1. \A q \in Hash : row'[q] \in Row \cup {Null}
    BY <1>2 DEF Kept
  <2> QED BY <2>1 DEF Sweep, Cycle
<1>4. sweep' \in [Hash -> Row \cup {Null}]
  <2>1. \A q \in Hash : row'[q] \in Row \cup {Null}
    BY <1>3
  <2> QED BY <1>1, <2>1 DEF Sweep
<1>5. TablesKept'
  BY <1>1, <1>2 DEF Sweep, TablesKept, Kept
<1>6. Counted'
  BY DEF Sweep, IInv, Counted
<1>7. SweptAreFaded'
  <2>1. CASE projects
    <3>1. \A q \in Hash : sweep'[q] # Null => sweep'[q] = row'[q] /\ Expired(row'[q], clock)
      BY <2>1 DEF Sweep
    <3> QED BY <3>1 DEF Sweep, SweptAreFaded, Expired, Unguarded
  <2>2. CASE ~projects
    BY <2>2, SweepStays DEF Sweep
  <2> QED BY <2>1, <2>2
<1>8. RowsTyped'
  BY <1>1, <1>3, <1>4 DEF Sweep, RowsTyped
<1>9. NoRowOlder
  BY <1>2 DEF NoRowOlder
<1> QED BY <1>5, <1>6, <1>7, <1>8, <1>9 DEF IInv

LEMMA SweepEnds ==
    ASSUME sweep' = NoRows
    PROVE  SweptAreFaded' /\ sweep' \in [Hash -> Row \cup {Null}]
BY DEF SweptAreFaded, NoRows

LEMMA ArchiveStep ==
    ASSUME IInv, Archive
    PROVE  IInv' /\ NoRowOlder
<1>1. ToBin(Archivable) /\ UNCHANGED <<status, clock, bound>> /\ sweep' = NoRows
  BY DEF Archive
<1> HIDE DEF Archivable
<1>2. /\ row' \in [Hash -> Row \cup {Null}] /\ bin' \in [Hash -> Row \cup {Null}]
      /\ status' \in [Hash -> Row \cup {Null}] /\ TablesKept'
      /\ \A q \in Hash : row'[q] = IF q \in Archivable THEN Null ELSE row[q]
  BY <1>1, ToBinTables
<1>3. RowsTyped'
  BY <1>1, <1>2, SweepEnds DEF RowsTyped
<1>4. Counted' /\ SweptAreFaded'
  BY <1>1, SweepEnds DEF IInv, Counted
<1> QED BY <1>2, <1>3, <1>4, RowsStayOrGo DEF IInv

LEMMA CutShortStep ==
    ASSUME IInv, CutShort
    PROVE  IInv' /\ NoRowOlder
<1>1. RowsTyped'
  BY SweepEnds DEF CutShort, IInv, RowsTyped
<1>2. Counted' /\ SweptAreFaded'
  BY CountsTyped, SweepEnds DEF CutShort, Counted, IInv
<1>3. TablesKept'
  BY DEF CutShort, IInv, TablesKept
<1> QED BY <1>1, <1>2, <1>3, RowsStayOrGo DEF IInv, CutShort

\* What has faded is no less faded later.
LEMMA Fades ==
    ASSUME NEW x \in Row, NEW t \in Int, NEW u \in Int, u >= t, Retention(x, t) <= 0
    PROVE  Retention(x, u) <= 0
BY Columns, LevelsAssumption DEF Retention, AtLeast, Faded

LEMMA TickStep ==
    ASSUME IInv, Tick
    PROVE  IInv' /\ NoRowOlder
<1>1. RowsTyped' /\ TablesKept'
  BY DEF Tick, IInv, RowsTyped, TablesKept
<1>2. Counted'
  BY DEF Tick, IInv, Counted, Time
<1>3. SweptAreFaded'
  <2> SUFFICES ASSUME NEW q \in Hash, sweep'[q] # Null
               PROVE  /\ ~Active(sweep[q]) /\ sweep[q].reason = "decay"
                      /\ ~sweep[q].pinned /\ ~sweep[q].permanent
                      /\ bound.setbacks = 0 => Retention(sweep[q], clock') <= 0
    BY DEF SweptAreFaded, Tick
  <2>1. sweep[q] \in Row
    BY DEF IInv, RowsTyped, Tick
  <2>2. clock \in Int /\ clock' \in Int /\ clock' >= clock
    BY ClockTyped DEF Tick
  <2> QED BY <2>1, <2>2, Fades DEF IInv, SweptAreFaded, Tick
<1> QED BY <1>1, <1>2, <1>3, RowsStayOrGo DEF IInv, Tick

LEMMA SetBackStep ==
    ASSUME IInv, SetBack
    PROVE  IInv' /\ NoRowOlder
<1>1. RowsTyped' /\ TablesKept'
  BY DEF SetBack, IInv, RowsTyped, TablesKept
<1>2. bound \in [events : Nat, setbacks : Nat] /\ clock \in Int
  BY DEF IInv, Counted, Time
<1>3. bound' \in [events : Nat, setbacks : Nat] /\ bound'.setbacks # 0 /\ clock' \in Int
  BY <1>2 DEF SetBack
<1>4. SweptAreFaded' /\ Counted'
  BY <1>3 DEF SetBack, IInv, SweptAreFaded, Counted, Active, Time
<1> QED BY <1>1, <1>4, RowsStayOrGo DEF IInv, SetBack

-----------------------------------------------------------------------------
(* The theorems. *)

LEMMA LifecycleInitIInv == LifecycleInit => IInv
<1> SUFFICES ASSUME LifecycleInit PROVE IInv
  OBVIOUS
<1> DEFINE f == Fresh(0)
           a == [f EXCEPT !.permanent = TRUE]
           b == [a EXCEPT !.pinned = TRUE]
           forever == [b EXCEPT !.next = Null]
           c == [f EXCEPT !.since = 0]
           migrated == [c EXCEPT !.reason = "migrated"]
<1>1. Kept(f)
  BY FreshRow, 0 \in Int
<1>2. Kept(forever)
  <2>1. a \in Row
    BY <1>1, SetPermanent DEF Kept
  <2> HIDE DEF a
  <2>2. b \in Row /\ b.pinned
    BY <2>1, SetPinned, TRUE \in BOOLEAN
  <2> HIDE DEF b
  <2>3. forever \in Row /\ forever.next = Null /\ forever.pinned
    BY <2>2, SetNext
  <2> QED BY <2>3 DEF Kept, OnCalendar
<1>3. Kept(migrated)
  <2>1. c \in Row /\ c.since = 0
    BY <1>1, SetSince, 0 \in Int DEF Kept
  <2> HIDE DEF c
  <2>2. migrated \in Row /\ SameLife(c, migrated)
    BY <2>1, SetReason DEF Reason
  <2> QED BY <2>1, <2>2, NullAssumption DEF Kept, OnCalendar, Active, SameLife, Time
<1>4. /\ forever = [Fresh(0) EXCEPT !.permanent = TRUE, !.pinned = TRUE, !.next = Null]
      /\ migrated = [Fresh(0) EXCEPT !.since = 0, !.reason = "migrated"]
  BY Zenon
<1> HIDE DEF forever, migrated
<1>5. row = NoRows \/ row \in [Hash -> {forever, migrated}]
  BY <1>4 DEF LifecycleInit
<1>6. row \in [Hash -> Row \cup {Null}] /\ \A r \in Hash : row[r] # Null => OnCalendar(row[r])
  BY <1>2, <1>3, <1>5 DEF Kept, NoRows
<1>7. NoRows \in [Hash -> Row \cup {Null}] /\ \A r \in Hash : NoRows[r] = Null
  BY DEF NoRows
<1> QED BY <1>6, <1>7 DEF LifecycleInit, IInv, RowsTyped, TablesKept, SweptAreFaded, Counted, Time

\* What weakens a relation is about that relation alone.
LEMMA WeakensStep ==
    ASSUME IInv, NEW r \in Hash, Weakens(r)
    PROVE  IInv' /\ \A q \in Hash \ {r} : row'[q] = row[q]
<1>1. IInv'
  BY WeakenStep, ForgetStep, ForgetByFeedbackStep, RevertStatusStep, RestoreRowStep DEF Weakens
<1>2. row \in [Hash -> Row \cup {Null}]
  BY DEF IInv, RowsTyped
<1>3. ASSUME NEW y, Becomes(r, y) PROVE \A q \in Hash \ {r} : row'[q] = row[q]
  BY <1>2, <1>3 DEF Becomes
<1>4. \E y : Becomes(r, y)
  BY DEF Weakens, Weaken, Forget, ForgetByFeedback, RevertStatus, RestoreRow
<1> QED BY <1>1, <1>3, <1>4

LEMMA EventStep ==
    ASSUME IInv, NEW r \in Hash,
           \/ Observe(r) \/ CreateEdge(r) \/ Access(r) \/ Reinforce(r) \/ RememberForever(r)
           \/ Freeze(r) \/ Protect(r) \/ Supersede(r) \/ Reactivate(r) \/ DeleteRow(r) \/ PurgeRow(r)
    PROVE  IInv' /\ NoRowOlder
BY ObserveStep, CreateEdgeStep, AccessStep, ReinforceStep, RememberForeverStep, FreezeStep,
   ProtectStep, SupersedeStep, ReactivateStep, DeleteRowStep, PurgeRowStep

LEMMA LifecycleStep ==
    ASSUME IInv, [LifecycleNext]_lifecycleVars
    PROVE  /\ IInv'
           /\ NoRowOlder \/ \E r \in Hash : Weakens(r) /\ \A q \in Hash \ {r} : row'[q] = row[q]
<1>1. CASE UNCHANGED lifecycleVars
  <2>1. IInv'
    BY <1>1 DEF lifecycleVars, IInv, RowsTyped, Counted, TablesKept, SweptAreFaded, Active, Retention
  <2> QED BY <1>1, <2>1, RowsStayOrGo DEF lifecycleVars
<1>2. CASE \E projects \in BOOLEAN : Sweep(projects)
  BY <1>2, SweepStep
<1>3. CASE Archive \/ CutShort \/ Tick \/ SetBack
  BY <1>3, ArchiveStep, CutShortStep, TickStep, SetBackStep
<1>4. ASSUME NEW r \in Hash, Weakens(r)
      PROVE  IInv' /\ \E q \in Hash : Weakens(q) /\ \A o \in Hash \ {q} : row'[o] = row[o]
  BY <1>4, WeakensStep
<1>5. ASSUME NEW r \in Hash,
             \/ Observe(r) \/ CreateEdge(r) \/ Access(r) \/ Reinforce(r) \/ RememberForever(r)
             \/ Freeze(r) \/ Protect(r) \/ Supersede(r) \/ Reactivate(r) \/ DeleteRow(r) \/ PurgeRow(r)
      PROVE  IInv' /\ NoRowOlder
  BY <1>5, EventStep
<1> QED BY <1>1, <1>2, <1>3, <1>4, <1>5 DEF LifecycleNext, Weakens

(* The inductive invariant. *)
THEOREM Invariance == LifecycleSpec => []IInv
<1>1. IInv /\ [LifecycleNext]_lifecycleVars => IInv'
  BY LifecycleStep
<1> QED BY <1>1, LifecycleInitIInv, PTL DEF LifecycleSpec

(* The tables have their types, and an active relation that nothing protects for   *)
(* ever is due, at the latest when it has faded: get_due_relation_rows finds it.    *)
THEOREM ScheduleComplete == LifecycleSpec => []ActiveIsScheduled
<1>1. IInv => ActiveIsScheduled
  BY DEF IInv, TablesKept, ActiveIsScheduled, OnTime, OnCalendar, Rows
<1> QED BY <1>1, Invariance, PTL

(* No step but weakening, forgetting and undoing brings the moment closer at which *)
(* a relation has faded, whatever the wall clock does: the policy's times never go *)
(* back behind the anchor of the strength.                                         *)
THEOREM NoneAges == LifecycleSpec => NothingAges
<1>1. IInv /\ [LifecycleNext]_lifecycleVars
      => \A r \in Rows : row'[r] = Null \/ Weakens(r) \/ Crossing(row'[r]) >= Crossing(row[r])
  <2> SUFFICES ASSUME IInv, [LifecycleNext]_lifecycleVars, NEW r \in Hash, row[r] # Null,
                      row'[r] # Null, ~Weakens(r)
               PROVE  Crossing(row'[r]) >= Crossing(row[r])
    BY DEF Rows
  <2>1. Crossing(row[r]) \in Int
    BY RowKept, Levels, 0 \in Time DEF Kept, Time
  <2>2. CASE NoRowOlder
    BY <2>2 DEF NoRowOlder, NoOlder
  <2>3. CASE \E o \in Hash : Weakens(o) /\ \A q \in Hash \ {o} : row'[q] = row[q]
    <3>1. row'[r] = row[r]
      BY <2>3
    <3> QED BY <2>1, <3>1
  <2> QED BY <2>2, <2>3, LifecycleStep
<1> QED BY <1>1, Invariance, PTL DEF LifecycleSpec, NothingAges

(* What the maintenance cycle archives had faded for decay and is still as the     *)
(* cycle found it, although it waited for the storage lock in between.             *)
THEOREM OnlyFadedArchived == LifecycleSpec => ArchivedWereFaded
<1>1. IInv /\ [LifecycleNext]_lifecycleVars
      => (Archive => \A r \in Rows : row'[r] = Null => Forsaken(row[r], sweep[r]))
  <2> SUFFICES ASSUME IInv, Archive, NEW r \in Rows, row'[r] = Null
               PROVE  Forsaken(row[r], sweep[r])
    OBVIOUS
  <2>1. r \in Archivable
    BY DEF Archive, ToBin, Rows
  <2>2. r \in Hash /\ sweep[r] # Null /\ AsFound(row[r], sweep[r])
    BY <2>1 DEF Archivable, Rows
  <2>3. row[r] \in Row /\ sweep[r] \in Row
    BY <2>2 DEF IInv, RowsTyped, Rows
  <2>4. /\ row[r].level = sweep[r].level /\ row[r].anchor = sweep[r].anchor
        /\ row[r].since = sweep[r].since /\ row[r].reason = sweep[r].reason
        /\ row[r].pinned = sweep[r].pinned /\ row[r].permanent = sweep[r].permanent
        /\ row[r].until = sweep[r].until
    BY <2>2 DEF AsFound
  <2>5. /\ ~Active(sweep[r]) /\ sweep[r].reason = "decay"
        /\ ~sweep[r].pinned /\ ~sweep[r].permanent
        /\ bound.setbacks = 0 => Retention(sweep[r], clock) <= 0
    BY <2>2 DEF IInv, SweptAreFaded
  <2>6. Retention(row[r], clock) = Retention(sweep[r], clock)
    BY <2>4 DEF Retention
  <2>7. row[r].until <= sweep[r].until
    BY <2>3, <2>4, Columns
  <2> QED BY <2>4, <2>5, <2>6, <2>7 DEF Forsaken, Active
<1> QED BY <1>1, Invariance, PTL DEF LifecycleSpec, ArchivedWereFaded

===============================================================================
