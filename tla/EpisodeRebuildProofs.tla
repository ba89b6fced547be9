------------------------- MODULE EpisodeRebuildProofs -------------------------
(***************************************************************************)
(* Theorems about EpisodeRebuild for any number of sources, workers,       *)
(* tokens and settings and any bounds.  IInv is inductive: its step is     *)
(* proved once per action, from lemmas that say what each update of a row  *)
(* or of a batch returns.                                                  *)
(***************************************************************************)
EXTENDS EpisodeRebuild, TLAPS

-----------------------------------------------------------------------------
\* Types of rows and batches

\* A row with one column replaced by a value of its type is a row.
LEMMA SetColumn ==
    ASSUME NEW row \in Row
    PROVE  /\ \A x \in Status : [row EXCEPT !.status = x] \in Row
           /\ \A x \in Nat : [row EXCEPT !.desired = x] \in Row
           /\ \A x \in Nat : [row EXCEPT !.built = x] \in Row
           /\ \A x \in Generation \cup {None} : [row EXCEPT !.builtGen = x] \in Row
           /\ \A x \in Claim \cup {None} : [row EXCEPT !.claim = x] \in Row
           /\ \A x \in 0 .. Lease : [row EXCEPT !.lease = x] \in Row
           /\ \A x \in Nat : [row EXCEPT !.due = x] \in Row
           /\ \A x \in Nat : [row EXCEPT !.age = x] \in Row
           /\ \A x \in 0 .. MaxRetry : [row EXCEPT !.retry = x] \in Row
           /\ \A x \in Attempt \cup {None} : [row EXCEPT !.tried = x] \in Row
           /\ \A x \in Nat : [row EXCEPT !.backoff = x] \in Row
BY DEF Row

\* The columns of a row have their types.
LEMMA RowColumns ==
    ASSUME NEW row \in Row
    PROVE  /\ row.status \in Status
           /\ row.desired \in Nat
           /\ row.built \in Nat
           /\ row.claim \in Claim \cup {None}
           /\ row.lease \in 0 .. Lease
           /\ row.due \in Nat
           /\ row.age \in Nat
           /\ row.retry \in 0 .. MaxRetry
           /\ row.tried \in Attempt \cup {None}
           /\ row.backoff \in Nat
BY DEF Row

\* Every update of a row yields a row.
LEMMA RowUpdates ==
    ASSUME NEW row \in Row
    PROVE  /\ \A d \in Nat : Requested(row, d) \in Row
           /\ \A g \in Generation, t \in Token : Claimed(row, g, t) \in Row
           /\ [row EXCEPT !.lease = Lease] \in Row
           /\ row.claim # None => Published(row) \in Row
           /\ Released(row) \in Row
           /\ row.claim # None /\ row.retry < MaxRetry => Failed(row) \in Row
           /\ Later(row) \in Row
<1> USE BoundsAssumption, RowColumns
<1>1. ASSUME NEW d \in Nat PROVE Requested(row, d) \in Row
  <2> DEFINE st == IF row.claim # None /\ row.lease > 0 THEN "running" ELSE "pending"
             ag == IF row.desired <= row.built THEN 0 ELSE row.age
             r1 == [row EXCEPT !.status = st]
             r2 == [r1 EXCEPT !.desired = row.desired + 1]
             r3 == [r2 EXCEPT !.age = ag]
             r4 == [r3 EXCEPT !.due = d]
             r5 == [r4 EXCEPT !.retry = 0]
             r6 == [r5 EXCEPT !.tried = None]
             r7 == [r6 EXCEPT !.backoff = 0]
  <2>1. st \in Status /\ ag \in Nat /\ row.desired + 1 \in Nat /\ 0 \in 0 .. MaxRetry
    BY DEF Status
  <2>2. Requested(row, d) = r7
    BY DEF Requested
  <2> HIDE DEF st, ag, r1, r2, r3, r4, r5, r6, r7
  <2>3. r1 \in Row
    BY <2>1, SetColumn DEF r1
  <2>4. r2 \in Row
    BY <2>1, <2>3, SetColumn DEF r2
  <2>5. r3 \in Row
    BY <2>1, <2>4, SetColumn DEF r3
  <2>6. r4 \in Row
    BY <2>5, SetColumn DEF r4
  <2>7. r5 \in Row
    BY <2>1, <2>6, SetColumn DEF r5
  <2>8. r6 \in Row
    BY <2>7, SetColumn DEF r6
  <2>9. r7 \in Row
    BY <2>8, SetColumn DEF r7
  <2> QED BY <2>2, <2>9
<1>2. ASSUME NEW g \in Generation, NEW t \in Token
      PROVE  Claimed(row, g, t) \in Row
  <2> DEFINE cl == [token |-> t, rev |-> row.desired, gen |-> g]
             re == IF SameAttempt(row, g) THEN row.retry ELSE 0
             ba == IF SameAttempt(row, g) THEN row.backoff ELSE 0
             tr == [rev |-> row.desired, gen |-> g]
             r1 == [row EXCEPT !.status = "running"]
             r2 == [r1 EXCEPT !.claim = cl]
             r3 == [r2 EXCEPT !.lease = Lease]
             r4 == [r3 EXCEPT !.retry = re]
             r5 == [r4 EXCEPT !.backoff = ba]
             r6 == [r5 EXCEPT !.tried = tr]
  <2>1. /\ "running" \in Status /\ cl \in Claim /\ Lease \in 0 .. Lease
        /\ re \in 0 .. MaxRetry /\ ba \in Nat /\ tr \in Attempt
    BY DEF Status, Claim, Attempt
  <2>2. Claimed(row, g, t) = r6
    BY DEF Claimed
  <2> HIDE DEF cl, re, ba, tr, r1, r2, r3, r4, r5, r6
  <2>3. r1 \in Row
    BY <2>1, SetColumn DEF r1
  <2>4. r2 \in Row
    BY <2>1, <2>3, SetColumn DEF r2
  <2>5. r3 \in Row
    BY <2>1, <2>4, SetColumn DEF r3
  <2>6. r4 \in Row
    BY <2>1, <2>5, SetColumn DEF r4
  <2>7. r5 \in Row
    BY <2>1, <2>6, SetColumn DEF r5
  <2>8. r6 \in Row
    BY <2>1, <2>7, SetColumn DEF r6
  <2> QED BY <2>2, <2>8
<1>3. [row EXCEPT !.lease = Lease] \in Row
  BY SetColumn
<1>4. ASSUME row.claim # None PROVE Published(row) \in Row
  <2> DEFINE r1 == [row EXCEPT !.status = "done"]
             r2 == [r1 EXCEPT !.built = row.claim.rev]
             r3 == [r2 EXCEPT !.builtGen = row.claim.gen]
             r4 == [r3 EXCEPT !.claim = None]
             r5 == [r4 EXCEPT !.lease = 0]
             r6 == [r5 EXCEPT !.due = 0]
             r7 == [r6 EXCEPT !.age = 0]
             r8 == [r7 EXCEPT !.retry = 0]
             r9 == [r8 EXCEPT !.tried = None]
             r10 == [r9 EXCEPT !.backoff = 0]
  <2>1. /\ "done" \in Status /\ row.claim.rev \in Nat /\ row.claim.gen \in Generation
        /\ 0 \in 0 .. Lease /\ 0 \in 0 .. MaxRetry
    BY <1>4 DEF Status, Claim
  <2>2. Published(row) = r10
    BY DEF Published
  <2> HIDE DEF r1, r2, r3, r4, r5, r6, r7, r8, r9, r10
  <2>3. r1 \in Row
    BY <2>1, SetColumn DEF r1
  <2>4. r2 \in Row
    BY <2>1, <2>3, SetColumn DEF r2
  <2>5. r3 \in Row
    BY <2>1, <2>4, SetColumn DEF r3
  <2>6. r4 \in Row
    BY <2>1, <2>5, SetColumn DEF r4
  <2>7. r5 \in Row
    BY <2>1, <2>6, SetColumn DEF r5
  <2>8. r6 \in Row
    BY <2>1, <2>7, SetColumn DEF r6
  <2>9. r7 \in Row
    BY <2>1, <2>8, SetColumn DEF r7
  <2>10. r8 \in Row
    BY <2>1, <2>9, SetColumn DEF r8
  <2>11. r9 \in Row
    BY <2>1, <2>10, SetColumn DEF r9
  <2>12. r10 \in Row
    BY <2>1, <2>11, SetColumn DEF r10
  <2> QED BY <2>2, <2>12
<1>5. Released(row) \in Row
  <2> DEFINE r1 == [row EXCEPT !.status = "pending"]
             r2 == [r1 EXCEPT !.claim = None]
             r3 == [r2 EXCEPT !.lease = 0]
  <2>1. "pending" \in Status /\ 0 \in 0 .. Lease
    BY DEF Status
  <2>2. Released(row) = r3
    BY DEF Released
  <2> HIDE DEF r1, r2, r3
  <2>3. r1 \in Row
    BY <2>1, SetColumn DEF r1
  <2>4. r2 \in Row
    BY <2>1, <2>3, SetColumn DEF r2
  <2>5. r3 \in Row
    BY <2>1, <2>4, SetColumn DEF r3
  <2> QED BY <2>2, <2>5
<1>6. ASSUME row.claim # None, row.retry < MaxRetry
      PROVE  Failed(row) \in Row
  <2> DEFINE st == IF row.desired > row.claim.rev THEN "pending" ELSE "failed"
             re == IF row.desired > row.claim.rev THEN 0 ELSE row.retry + 1
             tr == IF row.desired > row.claim.rev THEN None ELSE row.tried
             ba == IF row.desired > row.claim.rev THEN 0 ELSE Backoff[row.retry]
             r1 == [row EXCEPT !.status = st]
             r2 == [r1 EXCEPT !.claim = None]
             r3 == [r2 EXCEPT !.lease = 0]
             r4 == [r3 EXCEPT !.retry = re]
             r5 == [r4 EXCEPT !.tried = tr]
             r6 == [r5 EXCEPT !.backoff = ba]
  <2>1. /\ st \in Status /\ re \in 0 .. MaxRetry /\ tr \in Attempt \cup {None}
        /\ ba \in Nat /\ 0 \in 0 .. Lease
    BY <1>6 DEF Status
  <2>2. Failed(row) = r6
    BY DEF Failed
  <2> HIDE DEF st, re, tr, ba, r1, r2, r3, r4, r5, r6
  <2>3. r1 \in Row
    BY <2>1, SetColumn DEF r1
  <2>4. r2 \in Row
    BY <2>1, <2>3, SetColumn DEF r2
  <2>5. r3 \in Row
    BY <2>1, <2>4, SetColumn DEF r3
  <2>6. r4 \in Row
    BY <2>1, <2>5, SetColumn DEF r4
  <2>7. r5 \in Row
    BY <2>1, <2>6, SetColumn DEF r5
  <2>8. r6 \in Row
    BY <2>1, <2>7, SetColumn DEF r6
  <2> QED BY <2>2, <2>8
<1>7. Later(row) \in Row
  <2> DEFINE ag == IF row.desired > row.built /\ row.age < MaxWait THEN row.age + 1 ELSE row.age
             r1 == [row EXCEPT !.lease = Less(row.lease)]
             r2 == [r1 EXCEPT !.due = Less(row.due)]
             r3 == [r2 EXCEPT !.backoff = Less(row.backoff)]
             r4 == [r3 EXCEPT !.age = ag]
  <2>1. /\ Less(row.lease) \in 0 .. Lease /\ Less(row.due) \in Nat
        /\ Less(row.backoff) \in Nat /\ ag \in Nat
    <3>1. /\ row.lease \in 0 .. Lease /\ row.due \in Nat /\ row.age \in Nat
          /\ row.backoff \in Nat
      BY RowColumns
    <3>2. Less(row.lease) \in 0 .. Lease
      BY <3>1 DEF Less
    <3>3. Less(row.due) \in Nat /\ Less(row.backoff) \in Nat
      BY <3>1 DEF Less
    <3>4. ag \in Nat
      BY <3>1
    <3> QED BY <3>2, <3>3, <3>4
  <2>2. Later(row) = r4
    BY DEF Later
  <2> HIDE DEF ag, r1, r2, r3, r4
  <2>3. r1 \in Row
    BY <2>1, SetColumn DEF r1
  <2>4. r2 \in Row
    BY <2>1, <2>3, SetColumn DEF r2
  <2>5. r3 \in Row
    BY <2>1, <2>4, SetColumn DEF r3
  <2>6. r4 \in Row
    BY <2>1, <2>5, SetColumn DEF r4
  <2> QED BY <2>2, <2>6
<1> QED BY <1>1, <1>2, <1>3, <1>4, <1>5, <1>6, <1>7

\* A batch with one field replaced by a value of its type is a batch.
LEMMA SetField ==
    ASSUME NEW batch \in Batch
    PROVE  /\ \A x \in {"idle", "batch", "claimed", "planning"} :
                 [batch EXCEPT !.pc = x] \in Batch
           /\ \A x \in Generation \cup {None} : [batch EXCEPT !.gen = x] \in Batch
           /\ \A x \in SUBSET Source : [batch EXCEPT !.scope = x] \in Batch
           /\ \A x \in BOOLEAN : [batch EXCEPT !.scoped = x] \in Batch
           /\ \A x \in BOOLEAN : [batch EXCEPT !.urgent = x] \in Batch
           /\ \A x \in 0 .. BatchLimit : [batch EXCEPT !.quota = x] \in Batch
           /\ \A x \in Source \cup {None} : [batch EXCEPT !.src = x] \in Batch
           /\ \A x \in Claim \cup {None} : [batch EXCEPT !.claim = x] \in Batch
           /\ \A x \in Nat \cup {Empty} : [batch EXCEPT !.plan = x] \in Batch
           /\ \A x \in BOOLEAN : [batch EXCEPT !.beating = x] \in Batch
BY DEF Batch

\* Every update of a batch yields a batch.
LEMMA BatchUpdates ==
    ASSUME NEW batch \in Batch
    PROVE  /\ \A s \in Source, c \in Claim :
                 batch.scoped \/ batch.quota > 0 => WithClaim(batch, s, c) \in Batch
           /\ \A p \in Nat \cup {Empty} : WithPlan(batch, p) \in Batch
           /\ [batch EXCEPT !.beating = FALSE] \in Batch
           /\ Dropped(batch) \in Batch
<1>1. ASSUME NEW s \in Source, NEW c \in Claim, batch.scoped \/ batch.quota > 0
      PROVE  WithClaim(batch, s, c) \in Batch
  <2> DEFINE qu == IF batch.scoped THEN batch.quota ELSE batch.quota - 1
             sc == IF batch.scoped THEN batch.scope \ {s} ELSE batch.scope
             b1 == [batch EXCEPT !.pc = "claimed"]
             b2 == [b1 EXCEPT !.src = s]
             b3 == [b2 EXCEPT !.claim = c]
             b4 == [b3 EXCEPT !.quota = qu]
             b5 == [b4 EXCEPT !.scope = sc]
  <2>1. /\ batch.quota \in 0 .. BatchLimit /\ batch.scope \in SUBSET Source
        /\ batch.scoped \in BOOLEAN
    BY DEF Batch
  <2>2. sc \in SUBSET Source
    BY <2>1
  <2>3. qu \in 0 .. BatchLimit
    BY <1>1, <2>1, BoundsAssumption
  <2>4. WithClaim(batch, s, c) = b5
    BY DEF WithClaim
  <2> HIDE DEF qu, sc, b1, b2, b3, b4, b5
  <2>5. b1 \in Batch
    BY SetField DEF b1
  <2>6. b2 \in Batch
    BY <2>5, SetField DEF b2
  <2>7. b3 \in Batch
    BY <2>6, SetField DEF b3
  <2>8. b4 \in Batch
    BY <2>3, <2>7, SetField DEF b4
  <2>9. b5 \in Batch
    BY <2>2, <2>8, SetField DEF b5
  <2> QED BY <2>4, <2>9
<1>2. ASSUME NEW p \in Nat \cup {Empty} PROVE WithPlan(batch, p) \in Batch
  <2> DEFINE b1 == [batch EXCEPT !.pc = "planning"]
             b2 == [b1 EXCEPT !.plan = p]
             b3 == [b2 EXCEPT !.beating = TRUE]
  <2>1. WithPlan(batch, p) = b3
    BY DEF WithPlan
  <2> HIDE DEF b1, b2, b3
  <2>2. b1 \in Batch
    BY SetField DEF b1
  <2>3. b2 \in Batch
    BY <2>2, SetField DEF b2
  <2>4. b3 \in Batch
    BY <2>3, SetField DEF b3
  <2> QED BY <2>1, <2>4
<1>3. [batch EXCEPT !.beating = FALSE] \in Batch
  BY SetField
<1>4. Dropped(batch) \in Batch
  <2> DEFINE b1 == [batch EXCEPT !.pc = "batch"]
             b2 == [b1 EXCEPT !.src = None]
             b3 == [b2 EXCEPT !.claim = None]
             b4 == [b3 EXCEPT !.plan = Empty]
             b5 == [b4 EXCEPT !.beating = FALSE]
  <2>1. Dropped(batch) = b5
    BY DEF Dropped
  <2> HIDE DEF b1, b2, b3, b4, b5
  <2>2. b1 \in Batch
    BY SetField DEF b1
  <2>3. b2 \in Batch
    BY <2>2, SetField DEF b2
  <2>4. b3 \in Batch
    BY <2>3, SetField DEF b3
  <2>5. b4 \in Batch
    BY <2>4, SetField DEF b4
  <2>6. b5 \in Batch
    BY <2>5, SetField DEF b5
  <2> QED BY <2>1, <2>6
<1> QED BY <1>1, <1>2, <1>3, <1>4

\* A worker that starts a batch has a batch.
LEMMA NewBatches ==
    /\ Idle \in Batch
    /\ \A g \in Generation, u \in BOOLEAN :
         [Idle EXCEPT !.pc = "batch", !.gen = g, !.scope = Source,
                      !.urgent = u, !.quota = BatchLimit] \in Batch
    /\ \A g \in Generation, S \in SUBSET Source :
         [Idle EXCEPT !.pc = "batch", !.gen = g, !.scope = S,
                      !.scoped = TRUE, !.urgent = TRUE] \in Batch
<1>1. Idle \in Batch
  BY BoundsAssumption DEF Idle, Batch
<1>2. \A g \in Generation, u \in BOOLEAN :
         [Idle EXCEPT !.pc = "batch", !.gen = g, !.scope = Source,
                      !.urgent = u, !.quota = BatchLimit] \in Batch
  <2> TAKE g \in Generation, u \in BOOLEAN
  <2> DEFINE b1 == [Idle EXCEPT !.pc = "batch"]
             b2 == [b1 EXCEPT !.gen = g]
             b3 == [b2 EXCEPT !.scope = Source]
             b4 == [b3 EXCEPT !.urgent = u]
             b5 == [b4 EXCEPT !.quota = BatchLimit]
  <2>1. [Idle EXCEPT !.pc = "batch", !.gen = g, !.scope = Source,
                     !.urgent = u, !.quota = BatchLimit] = b5
    OBVIOUS
  <2>2. BatchLimit \in 0 .. BatchLimit
    BY BoundsAssumption
  <2> HIDE DEF b1, b2, b3, b4, b5
  <2>3. b1 \in Batch
    BY <1>1, SetField DEF b1
  <2>4. b2 \in Batch
    BY <2>3, SetField DEF b2
  <2>5. b3 \in Batch
    BY <2>4, SetField DEF b3
  <2>6. b4 \in Batch
    BY <2>5, SetField DEF b4
  <2>7. b5 \in Batch
    BY <2>2, <2>6, SetField DEF b5
  <2> QED BY <2>1, <2>7
<1>3. \A g \in Generation, S \in SUBSET Source :
         [Idle EXCEPT !.pc = "batch", !.gen = g, !.scope = S,
                      !.scoped = TRUE, !.urgent = TRUE] \in Batch
  <2> TAKE g \in Generation, S \in SUBSET Source
  <2> DEFINE b1 == [Idle EXCEPT !.pc = "batch"]
             b2 == [b1 EXCEPT !.gen = g]
             b3 == [b2 EXCEPT !.scope = S]
             b4 == [b3 EXCEPT !.scoped = TRUE]
             b5 == [b4 EXCEPT !.urgent = TRUE]
  <2>1. [Idle EXCEPT !.pc = "batch", !.gen = g, !.scope = S,
                     !.scoped = TRUE, !.urgent = TRUE] = b5
    OBVIOUS
  <2> HIDE DEF b1, b2, b3, b4, b5
  <2>3. b1 \in Batch
    BY <1>1, SetField DEF b1
  <2>4. b2 \in Batch
    BY <2>3, SetField DEF b2
  <2>5. b3 \in Batch
    BY <2>4, SetField DEF b3
  <2>6. b4 \in Batch
    BY <2>5, SetField DEF b4
  <2>7. b5 \in Batch
    BY <2>6, SetField DEF b5
  <2> QED BY <2>1, <2>7
<1> QED BY <1>1, <1>2, <1>3

-----------------------------------------------------------------------------
\* What the updates of a row and of a batch change

LEMMA RequestedRow ==
    ASSUME NEW row \in Row, NEW d \in Nat
    PROVE  LET r == Requested(row, d) IN
           /\ r.desired = row.desired + 1 /\ r.built = row.built
           /\ r.builtGen = row.builtGen /\ r.claim = row.claim /\ r.retry = 0
           /\ r.status \in {"running", "pending"}
           /\ r.status = "running" => row.claim # None
BY DEF Requested, Row

LEMMA ClaimedRow ==
    ASSUME NEW row \in Row, NEW g \in Generation, NEW t \in Token
    PROVE  LET r == Claimed(row, g, t) IN
           /\ r.desired = row.desired /\ r.built = row.built
           /\ r.builtGen = row.builtGen /\ r.status = "running"
           /\ r.claim = [token |-> t, rev |-> row.desired, gen |-> g]
           /\ r.retry = IF SameAttempt(row, g) THEN row.retry ELSE 0
           /\ r.tried = [rev |-> row.desired, gen |-> g]
BY DEF Claimed, Row

LEMMA PublishedRow ==
    ASSUME NEW row \in Row
    PROVE  LET r == Published(row) IN
           /\ r.desired = row.desired /\ r.built = row.claim.rev
           /\ r.builtGen = row.claim.gen /\ r.claim = None /\ r.status = "done"
BY DEF Published, Row

LEMMA ReleasedRow ==
    ASSUME NEW row \in Row
    PROVE  LET r == Released(row) IN
           /\ r.desired = row.desired /\ r.built = row.built
           /\ r.builtGen = row.builtGen /\ r.claim = None /\ r.status = "pending"
BY DEF Released, Row

LEMMA FailedRow ==
    ASSUME NEW row \in Row
    PROVE  LET r == Failed(row) IN
           /\ r.desired = row.desired /\ r.built = row.built
           /\ r.builtGen = row.builtGen /\ r.claim = None
           /\ r.status = IF row.desired > row.claim.rev THEN "pending" ELSE "failed"
           /\ r.status = "failed" => r.retry = row.retry + 1 /\ r.tried = row.tried
BY DEF Failed, Row

LEMMA SameRow ==
    ASSUME NEW row \in Row, NEW r,
           r = Later(row) \/ r = [row EXCEPT !.lease = Lease]
    PROVE  /\ r.desired = row.desired /\ r.built = row.built
           /\ r.builtGen = row.builtGen /\ r.claim = row.claim
           /\ r.status = row.status /\ r.retry = row.retry /\ r.tried = row.tried
BY DEF Later, Row

LEMMA BatchContents ==
    ASSUME NEW batch \in Batch
    PROVE  /\ \A s, c : LET b == WithClaim(batch, s, c) IN
                b.pc = "claimed" /\ b.gen = batch.gen /\ b.src = s /\ b.claim = c
           /\ \A p : LET b == WithPlan(batch, p) IN
                /\ b.pc = "planning" /\ b.gen = batch.gen /\ b.src = batch.src
                /\ b.claim = batch.claim /\ b.plan = p
           /\ LET b == [batch EXCEPT !.beating = FALSE] IN
                /\ b.pc = batch.pc /\ b.gen = batch.gen /\ b.src = batch.src
                /\ b.claim = batch.claim /\ b.plan = batch.plan
           /\ LET b == Dropped(batch) IN
                b.pc = "batch" /\ b.gen = batch.gen /\ b.claim = None
BY DEF WithClaim, WithPlan, Dropped, Batch

-----------------------------------------------------------------------------
\* IInv is inductive

LEMMA InitIInv == Init => IInv
<1> SUFFICES ASSUME Init PROVE IInv
  OBVIOUS
<1> USE BoundsAssumption, ValuesAssumption
<1>1. NoRow \in Row
  BY DEF NoRow, Row, Status
<1>2. TypeOK
  <2>1. content \in [Source -> Nat] /\ episodes \in [Source -> Nat \cup {Empty}]
    BY DEF Init
  <2>2. queue \in [Source -> Row] /\ worker \in [Worker -> Batch]
    BY <1>1, NewBatches DEF Init
  <2>3. \A w \in Worker : worker[w].pc = "idle"
    BY DEF Init, Idle
  <2> QED BY <2>1, <2>2, <2>3 DEF Init, TypeOK
<1>3. RevisionsOrdered /\ EpisodesBounded
  BY DEF Init, RevisionsOrdered, Ordered, EpisodesBounded, NoRow
<1>4. PlansCurrent
  BY DEF Init, PlansCurrent, Current, Idle
<1>5. CleanMeansFresh /\ StatusTruthful
  BY DEF Init, CleanMeansFresh, Fresh, StatusTruthful, Truthful, NoRow
<1> QED BY <1>2, <1>3, <1>4, <1>5 DEF IInv

\* The claim of a worker with work in hand is not NULL.
LEMMA ClaimNotNone == ASSUME NEW c \in Claim PROVE c # None
BY ValuesAssumption DEF Claim

LEMMA ChangeSourceStep ==
    ASSUME IInv, NEW s \in Source, ChangeSource(s)
    PROVE  IInv'
<1> DEFINE row == queue[s]
           new == Requested(row, Debounce)
<1>0. /\ row \in Row /\ Debounce \in Nat
      /\ queue' = [queue EXCEPT ![s] = new]
      /\ content' = [content EXCEPT ![s] = @ + 1]
      /\ UNCHANGED <<episodes, generation, worker>>
  BY BoundsAssumption DEF IInv, TypeOK, ChangeSource
<1>1. /\ new.desired = row.desired + 1 /\ new.built = row.built
      /\ new.builtGen = row.builtGen /\ new.claim = row.claim /\ new.retry = 0
      /\ new.status \in {"running", "pending"}
      /\ new.status = "running" => row.claim # None
  BY <1>0, RequestedRow
<1>2. new \in Row
  BY <1>0, RowUpdates
<1> HIDE DEF new
<1>3. /\ queue'[s] = new
      /\ \A x \in Source \ {s} : queue'[x] = queue[x] /\ content'[x] = content[x]
      /\ content'[s] = content[s] + 1
  BY <1>0 DEF IInv, TypeOK
<1>4. TypeOK'
  BY <1>0, <1>2 DEF IInv, TypeOK
<1>5. /\ row.desired \in Nat /\ row.built \in Nat /\ Ordered(row)
      /\ row.claim # None => row.claim.rev \in Nat
  BY <1>0, RowColumns DEF IInv, RevisionsOrdered, Claim
<1>6. Ordered(new) /\ Truthful(new)
  BY <1>1, <1>5, BoundsAssumption DEF Ordered, Truthful
<1>7. RevisionsOrdered' /\ StatusTruthful'
  BY <1>3, <1>6 DEF IInv, RevisionsOrdered, StatusTruthful
<1>8. EpisodesBounded'
  BY <1>0, <1>3 DEF IInv, TypeOK, EpisodesBounded
<1>9. CleanMeansFresh'
  BY <1>0, <1>1, <1>3, <1>5 DEF IInv, CleanMeansFresh, Fresh, View, Ordered
<1>10. PlansCurrent'
  <2> SUFFICES ASSUME NEW w \in Worker PROVE Current(w)'
    BY DEF PlansCurrent
  <2>1. /\ Current(w) /\ worker'[w] = worker[w] /\ generation' = generation
        /\ worker[w].pc \in {"claimed", "planning"} =>
               worker[w].src \in Source /\ worker[w].claim \in Claim
    BY <1>0 DEF IInv, PlansCurrent, TypeOK
  <2>2. CASE worker[w].pc = "planning" /\ worker[w].src = s
    <3>1. ~(new.claim = worker[w].claim /\ new.desired = worker[w].claim.rev)
      BY <1>1, <1>5, <2>1, <2>2, ClaimNotNone DEF Ordered
    <3> QED BY <1>3, <2>1, <2>2, <3>1 DEF Current
  <2>3. CASE worker[w].pc = "planning" /\ worker[w].src # s
    BY <1>3, <2>1, <2>3 DEF Current, View
  <2>4. CASE worker[w].pc # "planning"
    BY <2>1, <2>4 DEF Current
  <2> QED BY <2>2, <2>3, <2>4
<1> QED BY <1>4, <1>7, <1>8, <1>9, <1>10 DEF IInv

\* A worker that does not move stays current if every row that comes to match
\* its claim matched it before.
LEMMA CurrentKept ==
    ASSUME IInv, NEW v \in Worker, worker'[v] = worker[v],
           UNCHANGED <<content, generation>>,
           \A s \in Source :
               (/\ worker[v].pc = "planning" /\ worker[v].src = s
                /\ queue'[s].claim = worker[v].claim
                /\ queue'[s].desired = worker[v].claim.rev)
                 => /\ queue[s].claim = worker[v].claim
                    /\ queue[s].desired = worker[v].claim.rev
    PROVE  Current(v)'
<1>1. /\ Current(v)
      /\ worker[v].pc \in {"claimed", "planning"} =>
             worker[v].src \in Source /\ worker[v].claim \in Claim
  BY DEF IInv, PlansCurrent, TypeOK
<1> QED BY <1>1 DEF Current, View

LEMMA StartBatchStep ==
    ASSUME IInv, NEW w \in Worker, NEW urgent \in BOOLEAN, StartBatch(w, urgent)
    PROVE  IInv'
<1> DEFINE new == [Idle EXCEPT !.pc = "batch", !.gen = generation,
                               !.scope = Source, !.urgent = urgent,
                               !.quota = BatchLimit]
<1>0. /\ worker' = [worker EXCEPT ![w] = new]
      /\ UNCHANGED <<content, episodes, generation, queue>>
      /\ new \in Batch /\ new.pc = "batch" /\ new.gen = generation
  BY NewBatches DEF StartBatch, IInv, TypeOK, Idle
<1> HIDE DEF new
<1>1. worker'[w] = new /\ \A v \in Worker \ {w} : worker'[v] = worker[v]
  BY <1>0 DEF IInv, TypeOK
<1>2. TypeOK'
  BY <1>0, <1>1 DEF IInv, TypeOK
<1>3. PlansCurrent'
  BY <1>0, <1>1, CurrentKept DEF PlansCurrent, Current
<1>4. RevisionsOrdered' /\ StatusTruthful' /\ EpisodesBounded' /\ CleanMeansFresh'
  BY <1>0 DEF IInv, RevisionsOrdered, StatusTruthful, EpisodesBounded,
              CleanMeansFresh, Fresh, View
<1> QED BY <1>2, <1>3, <1>4 DEF IInv

LEMMA StartRebuildStep ==
    ASSUME IInv, NEW w \in Worker, NEW S \in SUBSET Source, StartRebuild(w, S)
    PROVE  IInv'
<1> DEFINE new == [Idle EXCEPT !.pc = "batch", !.gen = generation,
                               !.scope = S, !.scoped = TRUE, !.urgent = TRUE]
           req(s) == Requested(queue[s], 0)
<1>0. /\ worker' = [worker EXCEPT ![w] = new]
      /\ queue' = [s \in Source |-> IF s \in S THEN req(s) ELSE queue[s]]
      /\ UNCHANGED <<content, episodes, generation>>
      /\ new \in Batch /\ new.pc = "batch" /\ new.gen = generation
  BY NewBatches DEF StartRebuild, IInv, TypeOK, Idle
<1> HIDE DEF new
<1>1. /\ worker'[w] = new /\ \A v \in Worker \ {w} : worker'[v] = worker[v]
      /\ \A s \in Source : queue'[s] = IF s \in S THEN req(s) ELSE queue[s]
  BY <1>0 DEF IInv, TypeOK
<1>2. ASSUME NEW s \in Source
      PROVE  /\ req(s) \in Row /\ req(s).desired = queue[s].desired + 1
             /\ req(s).claim = queue[s].claim /\ req(s).built = queue[s].built
             /\ Ordered(req(s)) /\ Truthful(req(s))
             /\ queue[s].desired \in Nat /\ queue[s].built \in Nat
             /\ queue[s].built <= queue[s].desired
             /\ queue[s].claim # None => queue[s].claim.rev <= queue[s].desired
                                         /\ queue[s].claim.rev \in Nat
  <2>1. queue[s] \in Row /\ Ordered(queue[s])
    BY DEF IInv, TypeOK, RevisionsOrdered
  <2>2. /\ queue[s].desired \in Nat /\ queue[s].built \in Nat
        /\ queue[s].claim # None => queue[s].claim.rev \in Nat
    BY <2>1, RowColumns DEF Claim
  <2>3. /\ req(s).desired = queue[s].desired + 1 /\ req(s).built = queue[s].built
        /\ req(s).claim = queue[s].claim /\ req(s).retry = 0
        /\ req(s).status \in {"running", "pending"}
        /\ req(s).status = "running" => queue[s].claim # None
    BY <2>1, RequestedRow
  <2>4. req(s) \in Row
    BY <2>1, RowUpdates
  <2> HIDE DEF req
  <2>5. Ordered(req(s)) /\ Truthful(req(s))
    BY <2>1, <2>2, <2>3, BoundsAssumption DEF Ordered, Truthful
  <2> QED BY <2>1, <2>2, <2>3, <2>4, <2>5 DEF Ordered
<1> HIDE DEF req
<1>3. TypeOK'
  BY <1>0, <1>1, <1>2 DEF IInv, TypeOK
<1>4. RevisionsOrdered' /\ StatusTruthful'
  BY <1>1, <1>2 DEF IInv, RevisionsOrdered, StatusTruthful
<1>5. EpisodesBounded'
  BY <1>0 DEF IInv, EpisodesBounded
<1>6. CleanMeansFresh'
  BY <1>0, <1>1, <1>2 DEF IInv, CleanMeansFresh, Fresh, View
<1>7. PlansCurrent'
  <2>1. Current(w)'
    BY <1>0, <1>1 DEF Current
  <2>2. ASSUME NEW v \in Worker \ {w} PROVE Current(v)'
    <3>1. /\ worker[v].pc = "planning" => worker[v].claim \in Claim
          /\ worker'[v] = worker[v]
      BY <1>1 DEF IInv, TypeOK
    <3>2. ASSUME NEW s \in Source,
                 worker[v].pc = "planning", worker[v].src = s,
                 queue'[s].claim = worker[v].claim,
                 queue'[s].desired = worker[v].claim.rev
          PROVE  /\ queue[s].claim = worker[v].claim
                 /\ queue[s].desired = worker[v].claim.rev
      BY <1>1, <1>2, <3>1, <3>2, ClaimNotNone
    <3> QED BY <1>0, <3>1, <3>2, CurrentKept
  <2> QED BY <2>1, <2>2 DEF PlansCurrent
<1> QED BY <1>3, <1>4, <1>5, <1>6, <1>7 DEF IInv

LEMMA ClaimNextStep ==
    ASSUME IInv, NEW w \in Worker, NEW s \in Source, NEW t \in Token,
           ClaimNext(w, s, t)
    PROVE  IInv'
<1> DEFINE row == queue[s]
           g == worker[w].gen
           new == Claimed(row, g, t)
           taken == WithClaim(worker[w], s, new.claim)
<1>0. /\ row \in Row /\ worker[w] \in Batch /\ worker[w].pc = "batch"
      /\ g = generation /\ g \in Generation
      /\ queue' = [queue EXCEPT ![s] = new]
      /\ worker' = [worker EXCEPT ![w] = taken]
      /\ UNCHANGED <<content, episodes, generation>>
  BY DEF IInv, TypeOK, PlansCurrent, Current, ClaimNext
<1>1. /\ new.desired = row.desired /\ new.built = row.built
      /\ new.builtGen = row.builtGen /\ new.status = "running"
      /\ new.claim = [token |-> t, rev |-> row.desired, gen |-> g]
      /\ new.retry = IF SameAttempt(row, g) THEN row.retry ELSE 0
      /\ new.tried = [rev |-> row.desired, gen |-> g]
  BY <1>0, ClaimedRow
<1>2. new \in Row
  BY <1>0, RowUpdates
<1>3. row.desired \in Nat /\ row.built \in Nat /\ Ordered(row) /\ new.claim \in Claim
  BY <1>0, <1>1, RowColumns DEF IInv, RevisionsOrdered, Claim
<1>4. new.retry < MaxRetry
  <2>1. SameAttempt(row, g) => row.retry < MaxRetry
    BY DEF ClaimNext, Claimable
  <2> QED BY <1>1, <2>1, BoundsAssumption
<1>5. /\ taken \in Batch /\ taken.pc = "claimed" /\ taken.gen = g
      /\ taken.src = s /\ taken.claim = new.claim
  <2> HIDE DEF new
  <2>1. worker[w].scoped \/ worker[w].quota > 0
    BY DEF ClaimNext
  <2>2. taken \in Batch
    BY <1>0, <1>3, <2>1, BatchUpdates
  <2> QED BY <1>0, <2>2, BatchContents
<1>6. \A v \in Worker : worker[v].claim # None => worker[v].claim.token # t
  BY DEF ClaimNext, FreshToken, Unused
<1> HIDE DEF new, taken, g
<1>7. /\ queue'[s] = new /\ \A x \in Source \ {s} : queue'[x] = queue[x]
      /\ worker'[w] = taken /\ \A v \in Worker \ {w} : worker'[v] = worker[v]
  BY <1>0 DEF IInv, TypeOK
<1>8. TypeOK'
  BY <1>0, <1>2, <1>3, <1>5, <1>7 DEF IInv, TypeOK
<1>9. Ordered(new) /\ Truthful(new)
  BY <1>1, <1>3, <1>4, ClaimNotNone DEF Ordered, Truthful
<1>10. RevisionsOrdered' /\ StatusTruthful'
  BY <1>7, <1>9 DEF IInv, RevisionsOrdered, StatusTruthful
<1>11. EpisodesBounded' /\ CleanMeansFresh'
  BY <1>0, <1>1, <1>7 DEF IInv, EpisodesBounded, CleanMeansFresh, Fresh, View
<1>12. PlansCurrent'
  <2>1. Current(w)'
    BY <1>0, <1>1, <1>5, <1>7 DEF Current
  <2>2. ASSUME NEW v \in Worker \ {w} PROVE Current(v)'
    <3>1. /\ worker[v].pc = "planning" => worker[v].claim \in Claim
          /\ worker'[v] = worker[v]
      BY <1>7 DEF IInv, TypeOK
    <3>2. ASSUME NEW x \in Source,
                 worker[v].pc = "planning", worker[v].src = x,
                 queue'[x].claim = worker[v].claim,
                 queue'[x].desired = worker[v].claim.rev
          PROVE  /\ queue[x].claim = worker[v].claim
                 /\ queue[x].desired = worker[v].claim.rev
      BY <1>1, <1>6, <1>7, <3>1, <3>2, ClaimNotNone
    <3> QED BY <1>0, <3>1, <3>2, CurrentKept
  <2> QED BY <2>1, <2>2 DEF PlansCurrent
<1> QED BY <1>8, <1>10, <1>11, <1>12 DEF IInv

LEMMA ReadSourceStep ==
    ASSUME IInv, NEW w \in Worker, ReadSource(w)
    PROVE  IInv'
<1> DEFINE src == worker[w].src
           plan == View(src, worker[w].gen)
           new == WithPlan(worker[w], plan)
<1>0. /\ worker[w] \in Batch /\ worker[w].gen = generation
      /\ src \in Source /\ worker[w].claim \in Claim
      /\ worker[w].claim.gen = generation
      /\ worker' = [worker EXCEPT ![w] = new]
      /\ UNCHANGED <<content, episodes, generation, queue>>
  BY DEF IInv, TypeOK, PlansCurrent, Current, ReadSource
<1>1. plan \in Nat \cup {Empty}
  <2>1. content[src] \in Nat
    BY <1>0 DEF IInv, TypeOK
  <2> QED BY <2>1 DEF View
<1>2. /\ new \in Batch /\ new.pc = "planning" /\ new.gen = worker[w].gen
      /\ new.src = src /\ new.claim = worker[w].claim /\ new.plan = plan
  <2> HIDE DEF plan
  <2>1. new \in Batch
    BY <1>0, <1>1, BatchUpdates
  <2> QED BY <1>0, <2>1, BatchContents
<1> HIDE DEF new
<1>3. worker'[w] = new /\ \A v \in Worker \ {w} : worker'[v] = worker[v]
  BY <1>0 DEF IInv, TypeOK
<1>4. TypeOK'
  BY <1>0, <1>2, <1>3 DEF IInv, TypeOK
<1>5. PlansCurrent'
  <2>1. Current(w)'
    BY <1>0, <1>2, <1>3 DEF Current, View
  <2>2. ASSUME NEW v \in Worker \ {w} PROVE Current(v)'
    BY <1>0, <1>3, CurrentKept
  <2> QED BY <2>1, <2>2 DEF PlansCurrent
<1>6. RevisionsOrdered' /\ StatusTruthful' /\ EpisodesBounded' /\ CleanMeansFresh'
  BY <1>0 DEF IInv, RevisionsOrdered, StatusTruthful, EpisodesBounded,
              CleanMeansFresh, Fresh, View
<1> QED BY <1>4, <1>5, <1>6 DEF IInv

\* A step that only renews leases or lets time pass.
LEMMA SameRowsStep ==
    ASSUME IInv, UNCHANGED <<content, episodes, generation, worker>>,
           queue' \in [Source -> Row],
           \A s \in Source :
               \/ queue'[s] = queue[s]
               \/ queue'[s] = Later(queue[s])
               \/ queue'[s] = [queue[s] EXCEPT !.lease = Lease]
    PROVE  IInv'
<1>1. ASSUME NEW s \in Source
      PROVE  /\ queue'[s].desired = queue[s].desired
             /\ queue'[s].built = queue[s].built
             /\ queue'[s].builtGen = queue[s].builtGen
             /\ queue'[s].claim = queue[s].claim
             /\ queue'[s].status = queue[s].status
             /\ queue'[s].retry = queue[s].retry
             /\ queue'[s].tried = queue[s].tried
  BY SameRow DEF IInv, TypeOK
<1>2. TypeOK'
  BY DEF IInv, TypeOK
<1>3. RevisionsOrdered' /\ StatusTruthful'
  BY <1>1 DEF IInv, RevisionsOrdered, Ordered, StatusTruthful, Truthful
<1>4. EpisodesBounded' /\ CleanMeansFresh'
  BY <1>1 DEF IInv, EpisodesBounded, CleanMeansFresh, Fresh, View
<1>5. PlansCurrent'
  BY <1>1, CurrentKept DEF PlansCurrent
<1> QED BY <1>2, <1>3, <1>4, <1>5 DEF IInv

LEMMA HeartbeatStep ==
    ASSUME IInv, NEW w \in Worker, Heartbeat(w)
    PROVE  IInv'
<1> DEFINE s == worker[w].src
           new == [worker[w] EXCEPT !.beating = FALSE]
<1>0. /\ s \in Source /\ queue[s] \in Row /\ worker[w] \in Batch
      /\ UNCHANGED <<content, episodes, generation>>
  BY DEF IInv, TypeOK, Heartbeat
<1>1. CASE /\ queue' = [queue EXCEPT ![s] = [@ EXCEPT !.lease = Lease]]
           /\ UNCHANGED worker
  <2>1. [queue[s] EXCEPT !.lease = Lease] \in Row
    BY <1>0, RowUpdates
  <2>2. queue' \in [Source -> Row]
    BY <1>1, <2>1 DEF IInv, TypeOK
  <2> QED BY <1>0, <1>1, <2>2, SameRowsStep DEF IInv, TypeOK
<1>2. CASE worker' = [worker EXCEPT ![w] = new] /\ UNCHANGED queue
  <2>1. /\ new \in Batch /\ new.pc = worker[w].pc /\ new.gen = worker[w].gen
        /\ new.src = worker[w].src /\ new.claim = worker[w].claim
        /\ new.plan = worker[w].plan
    BY <1>0, BatchUpdates, BatchContents
  <2> HIDE DEF new
  <2>2. worker'[w] = new /\ \A v \in Worker \ {w} : worker'[v] = worker[v]
    BY <1>2 DEF IInv, TypeOK
  <2>3. TypeOK'
    BY <1>0, <1>2, <2>1, <2>2 DEF IInv, TypeOK
  <2>4. PlansCurrent'
    <3>1. Current(w)'
      BY <1>0, <1>2, <2>1, <2>2 DEF Current, View, IInv, PlansCurrent
    <3>2. ASSUME NEW v \in Worker \ {w} PROVE Current(v)'
      BY <1>0, <1>2, <2>2, CurrentKept
    <3> QED BY <3>1, <3>2 DEF PlansCurrent
  <2>5. RevisionsOrdered' /\ StatusTruthful' /\ EpisodesBounded' /\ CleanMeansFresh'
    BY <1>0, <1>2 DEF IInv, RevisionsOrdered, StatusTruthful, EpisodesBounded,
                      CleanMeansFresh, Fresh, View
  <2> QED BY <2>3, <2>4, <2>5 DEF IInv
<1> QED BY <1>1, <1>2 DEF Heartbeat

LEMMA TickStep ==
    ASSUME IInv, Tick
    PROVE  IInv'
<1>1. \A s \in Source : Later(queue[s]) \in Row
  BY RowUpdates DEF IInv, TypeOK
<1>2. queue' \in [Source -> Row]
  BY <1>1 DEF Tick
<1>3. \A s \in Source : queue'[s] = Later(queue[s])
  BY DEF Tick
<1> QED BY <1>2, <1>3, SameRowsStep DEF Tick

\* A worker that ends its work on the row s, releasing its claim or finding it
\* lost.
LEMMA ReleaseStep ==
    ASSUME IInv, NEW w \in Worker, NEW s \in Source, NEW new \in Row,
           worker[w].pc = "planning", worker[w].src = s,
           worker' = [worker EXCEPT ![w] = Dropped(@)],
           queue' = [queue EXCEPT ![s] = new],
           new.claim = None \/ new = queue[s],
           Ordered(new), Truthful(new),
           UNCHANGED <<content, generation>>,
           episodes' \in [Source -> Nat \cup {Empty}]
    PROVE  TypeOK' /\ RevisionsOrdered' /\ StatusTruthful' /\ PlansCurrent'
<1> DEFINE dropped == Dropped(worker[w])
<1>1. /\ dropped \in Batch /\ dropped.pc = "batch"
      /\ dropped.gen = worker[w].gen /\ dropped.claim = None
      /\ worker[w].gen = generation
  BY BatchUpdates, BatchContents DEF IInv, TypeOK, PlansCurrent, Current
<1> HIDE DEF dropped
<1>2. /\ worker' = [worker EXCEPT ![w] = dropped]
      /\ worker'[w] = dropped /\ \A v \in Worker \ {w} : worker'[v] = worker[v]
      /\ queue'[s] = new /\ \A x \in Source \ {s} : queue'[x] = queue[x]
  BY DEF IInv, TypeOK, dropped
<1>3. TypeOK'
  <2>1. worker' \in [Worker -> Batch] /\ queue' \in [Source -> Row]
    BY <1>1, <1>2 DEF IInv, TypeOK
  <2>2. \A v \in Worker : worker'[v].pc \in {"claimed", "planning"} =>
            worker'[v].src \in Source /\ worker'[v].claim \in Claim
    BY <1>1, <1>2 DEF IInv, TypeOK
  <2> QED BY <2>1, <2>2 DEF IInv, TypeOK
<1>4. RevisionsOrdered' /\ StatusTruthful'
  BY <1>2 DEF IInv, RevisionsOrdered, StatusTruthful
<1>5. PlansCurrent'
  <2>1. Current(w)'
    BY <1>1, <1>2 DEF Current
  <2>2. ASSUME NEW v \in Worker \ {w} PROVE Current(v)'
    <3>1. worker[v].pc = "planning" => worker[v].claim \in Claim
      BY DEF IInv, TypeOK
    <3> QED BY <1>2, <3>1, ClaimNotNone, CurrentKept
  <2> QED BY <2>1, <2>2 DEF PlansCurrent
<1> QED BY <1>3, <1>4, <1>5

LEMMA PublishStep ==
    ASSUME IInv, NEW w \in Worker, Publish(w)
    PROVE  IInv'
<1> DEFINE s == worker[w].src
           row == queue[s]
<1>0. /\ worker[w].pc = "planning" /\ s \in Source /\ row \in Row
      /\ worker[w].claim \in Claim /\ Ordered(row) /\ Truthful(row)
      /\ worker' = [worker EXCEPT ![w] = Dropped(@)]
      /\ UNCHANGED <<content, generation>>
      /\ Current(w) /\ worker[w].plan \in Nat \cup {Empty}
  <2>1. worker[w] \in Batch
    BY DEF IInv, TypeOK
  <2>2. worker[w].plan \in Nat \cup {Empty}
    BY <2>1 DEF Batch
  <2> QED BY <2>2 DEF IInv, TypeOK, RevisionsOrdered, StatusTruthful,
                      PlansCurrent, Publish
<1>1. /\ row.desired \in Nat /\ row.built \in Nat
      /\ row.claim # None => row.claim.rev \in Nat
  BY <1>0, RowColumns DEF Claim
<1>2. CASE /\ HoldsLease(w) /\ Unchanged(w)
           /\ episodes' = [episodes EXCEPT ![s] = worker[w].plan]
           /\ queue' = [queue EXCEPT ![s] = Published(@)]
  <2> DEFINE new == Published(row)
  <2>1. /\ row.claim = worker[w].claim /\ row.claim # None
        /\ row.desired = row.claim.rev
    BY <1>0, <1>2, ClaimNotNone DEF HoldsLease, Unchanged
  <2>2. /\ new.desired = row.desired /\ new.built = row.desired
        /\ new.builtGen = generation /\ new.claim = None /\ new.status = "done"
        /\ new \in Row
    BY <1>0, <2>1, PublishedRow, RowUpdates DEF Current
  <2> HIDE DEF new
  <2>3. Ordered(new) /\ Truthful(new)
    BY <1>1, <2>2 DEF Ordered, Truthful
  <2>4. worker[w].plan = View(s, generation)
    BY <1>0, <2>1 DEF Current
  <2>5. episodes' \in [Source -> Nat \cup {Empty}]
    BY <1>0, <1>2 DEF IInv, TypeOK
  <2>6. queue' = [queue EXCEPT ![s] = new]
    BY <1>2 DEF new
  <2>7. TypeOK' /\ RevisionsOrdered' /\ StatusTruthful' /\ PlansCurrent'
    BY <1>0, <2>2, <2>3, <2>5, <2>6, ReleaseStep DEF IInv
  <2>8. /\ queue'[s] = new /\ \A x \in Source \ {s} : queue'[x] = queue[x]
        /\ episodes'[s] = View(s, generation)
        /\ \A x \in Source \ {s} : episodes'[x] = episodes[x]
    BY <1>0, <1>2, <2>4, <2>6 DEF IInv, TypeOK
  <2>9. CleanMeansFresh'
    BY <1>0, <2>2, <2>8 DEF IInv, CleanMeansFresh, Fresh, View
  <2>10. EpisodesBounded'
    BY <1>0, <2>8 DEF IInv, TypeOK, EpisodesBounded, View
  <2> QED BY <2>7, <2>9, <2>10 DEF IInv
<1>3. CASE /\ HoldsLease(w) /\ ~Unchanged(w)
           /\ queue' = [queue EXCEPT ![s] = Released(@)]
           /\ UNCHANGED episodes
  <2> DEFINE new == Released(row)
  <2>1. /\ row.claim = worker[w].claim /\ row.claim # None
        /\ row.desired # row.claim.rev
    BY <1>0, <1>3, ClaimNotNone DEF HoldsLease, Unchanged
  <2>2. /\ new.desired = row.desired /\ new.built = row.built
        /\ new.builtGen = row.builtGen /\ new.claim = None
        /\ new.status = "pending" /\ new \in Row
    BY <1>0, ReleasedRow, RowUpdates
  <2> HIDE DEF new
  <2>3. Ordered(new) /\ Truthful(new)
    BY <1>0, <1>1, <2>1, <2>2 DEF Ordered, Truthful
  <2>4. queue' = [queue EXCEPT ![s] = new]
    BY <1>3 DEF new
  <2>5. TypeOK' /\ RevisionsOrdered' /\ StatusTruthful' /\ PlansCurrent'
    BY <1>0, <1>3, <2>2, <2>3, <2>4, ReleaseStep DEF IInv, TypeOK
  <2>6. queue'[s] = new /\ \A x \in Source \ {s} : queue'[x] = queue[x]
    BY <1>0, <2>4 DEF IInv, TypeOK
  <2>7. CleanMeansFresh' /\ EpisodesBounded'
    BY <1>0, <1>3, <2>2, <2>6 DEF IInv, CleanMeansFresh, Fresh, View, EpisodesBounded
  <2> QED BY <2>5, <2>7 DEF IInv
<1>4. CASE ~HoldsLease(w) /\ UNCHANGED <<queue, episodes>>
  <2>1. queue' = [queue EXCEPT ![s] = row]
    BY <1>0, <1>4 DEF IInv, TypeOK
  <2>2. TypeOK' /\ RevisionsOrdered' /\ StatusTruthful' /\ PlansCurrent'
    BY <1>0, <1>4, <2>1, ReleaseStep DEF IInv, TypeOK
  <2>3. CleanMeansFresh' /\ EpisodesBounded'
    BY <1>0, <1>4 DEF IInv, CleanMeansFresh, Fresh, View, EpisodesBounded
  <2> QED BY <2>2, <2>3 DEF IInv
<1> QED BY <1>2, <1>3, <1>4 DEF Publish

LEMMA FailStep ==
    ASSUME IInv, NEW w \in Worker, Fail(w)
    PROVE  IInv'
<1> DEFINE s == worker[w].src
           row == queue[s]
           new == IF HoldsLease(w) THEN Failed(row) ELSE row
<1>0. /\ worker[w].pc = "planning" /\ s \in Source /\ row \in Row
      /\ worker[w].claim \in Claim /\ Ordered(row) /\ Truthful(row)
      /\ worker' = [worker EXCEPT ![w] = Dropped(@)]
      /\ UNCHANGED <<content, episodes, generation>>
  BY DEF IInv, TypeOK, RevisionsOrdered, StatusTruthful, Fail
<1>1. /\ row.desired \in Nat /\ row.built \in Nat /\ row.retry \in 0 .. MaxRetry
      /\ row.claim # None => row.claim.rev \in Nat
  BY <1>0, RowColumns DEF Claim
<1>2. queue' = [queue EXCEPT ![s] = new]
  BY <1>0 DEF Fail, IInv, TypeOK
<1>3. /\ new \in Row /\ Ordered(new) /\ Truthful(new)
      /\ new.claim = None \/ new = row
      /\ new.desired = row.desired /\ new.built = row.built
      /\ new.builtGen = row.builtGen
  <2>1. CASE HoldsLease(w)
    <3> DEFINE fr == Failed(row)
    <3>1. row.claim = worker[w].claim /\ row.claim # None
      BY <1>0, <2>1, ClaimNotNone DEF HoldsLease
    <3>2. row.retry < MaxRetry
      BY <1>0, <3>1 DEF Ordered
    <3>3. fr \in Row
      BY <1>0, <3>1, <3>2, RowUpdates
    <3>4. /\ fr.desired = row.desired /\ fr.built = row.built
          /\ fr.builtGen = row.builtGen /\ fr.claim = None
          /\ fr.status = IF row.desired > row.claim.rev THEN "pending" ELSE "failed"
          /\ fr.status = "failed" => fr.retry = row.retry + 1 /\ fr.tried = row.tried
      BY <1>0, FailedRow
    <3> HIDE DEF fr
    <3>5. Ordered(fr)
      BY <1>0, <3>4 DEF Ordered
    <3>6. CASE row.desired > row.claim.rev
      BY <1>0, <1>1, <2>1, <3>1, <3>3, <3>4, <3>5, <3>6 DEF Ordered, Truthful, fr
    <3>7. CASE row.desired = row.claim.rev
      <4>1. row.tried = [rev |-> row.desired, gen |-> row.claim.gen]
        BY <1>0, <3>1, <3>7 DEF Ordered
      <4>2. row.tried # None /\ row.tried.rev = row.desired
        <5>1. row.claim.gen \in Generation
          BY <1>0, <3>1 DEF Claim
        <5> QED BY <1>1, <4>1, <5>1, ValuesAssumption
      <4>3. fr.status = "failed" /\ fr.retry > 0
        BY <1>1, <3>1, <3>4, <3>7
      <4> QED BY <2>1, <3>3, <3>4, <3>5, <4>2, <4>3 DEF Truthful, fr
    <3>8. row.desired > row.claim.rev \/ row.desired = row.claim.rev
      BY <1>0, <1>1, <3>1 DEF Ordered
    <3> QED BY <3>6, <3>7, <3>8
  <2>2. CASE ~HoldsLease(w)
    BY <1>0, <2>2
  <2> QED BY <2>1, <2>2
<1> HIDE DEF new
<1>4. TypeOK' /\ RevisionsOrdered' /\ StatusTruthful' /\ PlansCurrent'
  BY <1>0, <1>2, <1>3, ReleaseStep DEF IInv, TypeOK
<1>5. queue'[s] = new /\ \A x \in Source \ {s} : queue'[x] = queue[x]
  BY <1>0, <1>2 DEF IInv, TypeOK
<1>6. CleanMeansFresh' /\ EpisodesBounded'
  BY <1>0, <1>3, <1>5 DEF IInv, CleanMeansFresh, Fresh, View, EpisodesBounded
<1> QED BY <1>4, <1>6 DEF IInv

\* A worker that ends or loses its batch.
LEMMA IdleStep ==
    ASSUME IInv, NEW w \in Worker, EndBatch(w) \/ Cancel(w)
    PROVE  IInv'
<1>0. /\ worker' = [worker EXCEPT ![w] = Idle]
      /\ UNCHANGED <<content, episodes, generation, queue>>
      /\ Idle \in Batch /\ Idle.pc = "idle"
  BY NewBatches DEF EndBatch, Cancel, Idle
<1>1. worker'[w] = Idle /\ \A v \in Worker \ {w} : worker'[v] = worker[v]
  BY <1>0 DEF IInv, TypeOK
<1>2. TypeOK'
  BY <1>0, <1>1 DEF IInv, TypeOK
<1>3. PlansCurrent'
  BY <1>0, <1>1, CurrentKept DEF PlansCurrent, Current
<1>4. RevisionsOrdered' /\ StatusTruthful' /\ EpisodesBounded' /\ CleanMeansFresh'
  BY <1>0 DEF IInv, RevisionsOrdered, StatusTruthful, EpisodesBounded,
              CleanMeansFresh, Fresh, View
<1> QED BY <1>2, <1>3, <1>4 DEF IInv

LEMMA RestartStep ==
    ASSUME IInv, Restart
    PROVE  IInv'
<1>0. /\ worker' = [w \in Worker |-> Idle] /\ generation' \in Generation
      /\ UNCHANGED <<content, episodes, queue>>
      /\ Idle \in Batch /\ Idle.pc = "idle"
  BY NewBatches DEF Restart, Idle
<1>1. TypeOK'
  BY <1>0 DEF IInv, TypeOK
<1>2. PlansCurrent'
  BY <1>0 DEF PlansCurrent, Current
<1>3. RevisionsOrdered' /\ StatusTruthful' /\ EpisodesBounded' /\ CleanMeansFresh'
  BY <1>0 DEF IInv, RevisionsOrdered, StatusTruthful, EpisodesBounded,
              CleanMeansFresh, Fresh, View
<1> QED BY <1>1, <1>2, <1>3 DEF IInv

LEMMA NextIInv == IInv /\ [Next]_vars => IInv'
<1> SUFFICES ASSUME IInv, [Next]_vars PROVE IInv'
  OBVIOUS
<1>1. CASE \E s \in Source : ChangeSource(s)
  BY <1>1, ChangeSourceStep
<1>2. ASSUME NEW w \in Worker, Step(w) PROVE IInv'
  <2>1. CASE \E urgent \in BOOLEAN : StartBatch(w, urgent)
    BY <2>1, StartBatchStep
  <2>2. CASE \E S \in (SUBSET Source) \ {{}} : StartRebuild(w, S)
    BY <2>2, StartRebuildStep
  <2>3. CASE Claims(w)
    BY <2>3, ClaimNextStep DEF Claims
  <2>4. CASE ReadSource(w)
    BY <2>4, ReadSourceStep
  <2>5. CASE Heartbeat(w)
    BY <2>5, HeartbeatStep
  <2>6. CASE Publish(w)
    BY <2>6, PublishStep
  <2>7. CASE Fail(w)
    BY <2>7, FailStep
  <2>8. CASE EndBatch(w) \/ Cancel(w)
    BY <2>8, IdleStep
  <2> QED BY <1>2, <2>1, <2>2, <2>3, <2>4, <2>5, <2>6, <2>7, <2>8 DEF Step
<1>3. CASE Restart
  BY <1>3, RestartStep
<1>4. CASE Tick
  BY <1>4, TickStep
<1>5. CASE UNCHANGED vars
  BY <1>5 DEF vars, IInv, TypeOK, RevisionsOrdered, StatusTruthful, EpisodesBounded,
              CleanMeansFresh, Fresh, View, PlansCurrent, Current
<1> QED BY <1>1, <1>2, <1>3, <1>4, <1>5 DEF Next

-----------------------------------------------------------------------------
\* Theorems

\* The inductive invariant holds in every reachable state of any instance.
THEOREM Invariance == Spec => []IInv
BY InitIInv, NextIInv, PTL DEF Spec

\* Type correctness: no column of the table and no field of a batch ever leaves
\* its type, whatever order producers, workers, crashes and time take.
THEOREM TypeCorrect == Spec => []TypeOK
<1>1. IInv => TypeOK
  BY DEF IInv
<1> QED BY Invariance, <1>1, PTL

\* No update of a source is lost: a row with nothing left to build describes
\* the paragraphs the source holds now.
THEOREM NoLostUpdate == Spec => []CleanMeansFresh
<1>1. IInv => CleanMeansFresh
  BY DEF IInv
<1> QED BY Invariance, <1>1, PTL

\* The status column never misreports what the queue will do with a row.
THEOREM StatusCorrect == Spec => []StatusTruthful
<1>1. IInv => StatusTruthful
  BY DEF IInv
<1> QED BY Invariance, <1>1, PTL

\* A publish replaces the episodes of one source by a snapshot of it as it is.
LEMMA PublishRefreshes ==
    ASSUME IInv, NEW w \in Worker, Publish(w)
    PROVE  \/ UNCHANGED <<content, episodes, generation>>
           \/ \E s \in Source :
                 /\ episodes' = [episodes EXCEPT ![s] = View(s, generation)]
                 /\ UNCHANGED <<content, generation>>
<1> DEFINE s == worker[w].src
<1>1. /\ s \in Source /\ Current(w) /\ worker[w].pc = "planning"
      /\ UNCHANGED <<content, generation>>
  BY DEF IInv, TypeOK, PlansCurrent, Publish
<1>2. CASE HoldsLease(w) /\ Unchanged(w)
  <2>1. worker[w].plan = View(s, generation)
    BY <1>1, <1>2 DEF HoldsLease, Unchanged, Current
  <2>2. episodes' = [episodes EXCEPT ![s] = worker[w].plan]
    BY <1>2 DEF Publish
  <2> QED BY <1>1, <2>1, <2>2
<1>3. CASE ~(HoldsLease(w) /\ Unchanged(w))
  BY <1>1, <1>3 DEF Publish
<1> QED BY <1>2, <1>3

\* What a step may do to what a reader of episodes sees.
LEMMA VisibleStep ==
    ASSUME IInv, Next
    PROVE  \/ UNCHANGED <<content, episodes, generation>>
           \/ \E s \in Source :
                 /\ content' = [content EXCEPT ![s] = @ + 1]
                 /\ UNCHANGED <<episodes, generation>>
           \/ \E s \in Source :
                 /\ episodes' = [episodes EXCEPT ![s] = View(s, generation)]
                 /\ UNCHANGED <<content, generation>>
           \/ generation' \in Generation /\ UNCHANGED <<content, episodes>>
<1>1. CASE \E s \in Source : ChangeSource(s)
  BY <1>1 DEF ChangeSource
<1>2. ASSUME NEW w \in Worker, Step(w), ~Publish(w)
      PROVE  UNCHANGED <<content, episodes, generation>>
  BY <1>2 DEF Step, StartBatch, StartRebuild, Claims, ClaimNext, ReadSource,
              Heartbeat, Fail, EndBatch, Cancel
<1>3. CASE Restart \/ Tick
  BY <1>3 DEF Restart, Tick
<1> QED BY <1>1, <1>2, <1>3, PublishRefreshes DEF Next

\* The queue implements the promise: hidden behind its rows, leases and workers
\* there is a table of snapshots, each taken of the whole source at one instant.
THEOREM Refinement == Spec => ImplementsEpisodeView
<1>1. Init => Visible!Init
  BY DEF Init, Visible!Init
<1>2. IInv /\ [Next]_vars => [Visible!Next]_Visible!vars
  <2> SUFFICES ASSUME IInv, Next PROVE [Visible!Next]_Visible!vars
    BY DEF vars, Visible!vars
  <2> QED BY VisibleStep DEF Visible!Next, Visible!vars, Visible!Change,
                             Visible!Refresh, Visible!Reconfigure, Visible!View, View
<1> QED BY <1>1, <1>2, Invariance, PTL DEF Spec, ImplementsEpisodeView, Visible!Spec

\* No reader sees the episodes of a source go back to an older version.
THEOREM NoRegression == Spec => EpisodesNeverGoBack
<1> DEFINE Forward == \A s \in Source : episodes[s] # Empty /\ episodes'[s] # Empty
                                            => episodes'[s] >= episodes[s]
<1>1. IInv /\ [Next]_vars => [Forward]_vars
  <2> SUFFICES ASSUME IInv, Next, NEW s \in Source,
                      episodes[s] # Empty, episodes'[s] # Empty
               PROVE  episodes'[s] >= episodes[s]
    OBVIOUS
  <2>1. /\ episodes[s] \in Nat /\ content[s] \in Nat /\ episodes[s] <= content[s]
    BY DEF IInv, TypeOK, EpisodesBounded
  <2>2. episodes'[s] = episodes[s] \/ episodes'[s] = View(s, generation)
    BY VisibleStep DEF IInv, TypeOK
  <2> QED BY <2>1, <2>2 DEF View
<1> QED BY <1>1, Invariance, PTL DEF Spec, EpisodesNeverGoBack

\* A worker that has lost its lease cannot disturb the worker that now holds it,
\* and nothing but the passing of time takes a lease from a worker.
THEOREM LeaseRespected == Spec => LiveClaimRespected
<1> DEFINE Respected ==
        \A s \in Source :
          (/\ queue[s].claim # None /\ queue[s].lease > 0
           /\ queue'[s].claim # queue[s].claim)
             => \E w \in Worker : /\ worker[w].claim = queue[s].claim
                                  /\ worker[w].src = s
                                  /\ worker'[w].claim = None
<1>1. IInv /\ [Next]_vars => [Respected]_vars
  <2> SUFFICES ASSUME IInv, Next, NEW s \in Source,
                      queue[s].claim # None, queue[s].lease > 0,
                      queue'[s].claim # queue[s].claim
               PROVE  \E w \in Worker : /\ worker[w].claim = queue[s].claim
                                        /\ worker[w].src = s
                                        /\ worker'[w].claim = None
    OBVIOUS
  <2>1. queue[s] \in Row
    BY DEF IInv, TypeOK
  <2>2. \A d \in Nat : Requested(queue[s], d).claim = queue[s].claim
    BY <2>1, RequestedRow
  <2>3. Later(queue[s]).claim = queue[s].claim
    BY <2>1, SameRow
  <2>4. [queue[s] EXCEPT !.lease = Lease].claim = queue[s].claim
    BY <2>1, SameRow
  <2>5. ASSUME NEW w \in Worker, Publish(w) \/ Fail(w)
        PROVE  \E v \in Worker : /\ worker[v].claim = queue[s].claim
                                 /\ worker[v].src = s
                                 /\ worker'[v].claim = None
    <3>1. worker' = [worker EXCEPT ![w] = Dropped(@)] /\ worker[w] \in Batch
      BY <2>5 DEF Publish, Fail, IInv, TypeOK
    <3>2. worker'[w].claim = None
      BY <3>1, BatchContents DEF IInv, TypeOK
    <3>3. HoldsLease(w) /\ worker[w].src = s
      BY <2>5 DEF Publish, Fail, IInv, TypeOK
    <3> QED BY <3>2, <3>3 DEF HoldsLease
  <2>6. ~\E x \in Source : ChangeSource(x)
    BY <2>2, BoundsAssumption DEF ChangeSource, IInv, TypeOK
  <2>7. ~Restart /\ ~Tick
    BY <2>3 DEF Restart, Tick
  <2>8. ASSUME NEW w \in Worker, Step(w) PROVE Publish(w) \/ Fail(w)
    <3>1. ~Claims(w)
      BY DEF Claims, ClaimNext, Claimable, IInv, TypeOK
    <3>2. ASSUME NEW S \in SUBSET Source, StartRebuild(w, S) PROVE FALSE
      <4>1. queue'[s] = IF s \in S THEN Requested(queue[s], 0) ELSE queue[s]
        BY <3>2 DEF StartRebuild
      <4> QED BY <2>2, <4>1
    <3>3. ~Heartbeat(w)
      BY <2>4 DEF Heartbeat, IInv, TypeOK
    <3> QED BY <2>8, <3>1, <3>2, <3>3
            DEF Step, StartBatch, ReadSource, EndBatch, Cancel
  <2> QED BY <2>5, <2>6, <2>7, <2>8 DEF Next
<1> QED BY <1>1, Invariance, PTL DEF Spec, LiveClaimRespected
=============================================================================
