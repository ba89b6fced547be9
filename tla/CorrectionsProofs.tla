--------------------------- MODULE CorrectionsProofs ---------------------------
(***************************************************************************)
(* For any claims, paragraphs, delete operations and plans:                *)
(*   no step of ingestion, administration, deletion, correction or         *)
(*   rollback makes two values of a slot active (SlotGuarded): each        *)
(*   operator of the ledger adds no pair of active values, except the two  *)
(*   that bring a detached claim back;                                     *)
(*   what is active or in conflict is supported (FactsAreSupported): each  *)
(*   operator keeps it, and facts are put back for live paragraphs only.   *)
(*   no script of commits changes the profile without the request for its  *)
(*   refresh further on in the script, but those of plans that ask for     *)
(*   none (ChangeIsAsked);                                                 *)
(*   what is recorded as rolled back has been undone, if it was executed   *)
(*   once (RollBackUndoes): nobody mentions a plan's mark before it is     *)
(*   set, nothing detached is supported, a script goes on in its order.    *)
(***************************************************************************)
EXTENDS Corrections, TLAPS

\* The ledger is a function on claims.
Ledger(cl) == cl = [c \in Claim |-> cl[c]]

\* The active values of one slot.
Both(cl, c, d) ==
    c # d /\ Slot[c] = Slot[d] /\ cl[c].status = "active" /\ cl[d].status = "active"

NoNewPair(old, new) == \A c, d \in Claim : Both(new, c, d) => Both(old, c, d)

NoNewPairUnlessDetached(old, new) ==
    \A c, d \in Claim : Both(new, c, d) => Both(old, c, d) \/ old[c].detached \/ old[d].detached

-----------------------------------------------------------------------------
\* upsert_fact_claim asserts a value beside the active ones it does not supersede as conflicted.
LEMMA AssertedPairs ==
    ASSUME NEW cl, NEW c \in Claim, NEW over
    PROVE  Ledger(Asserted(cl, c, over)) /\ NoNewPair(cl, Asserted(cl, c, over))
<1> DEFINE new == Asserted(cl, c, over)
<1>1. Ledger(new)
  BY DEF Ledger, Asserted
<1>2. ASSUME NEW a \in Claim, NEW b \in Claim, Both(new, a, b) PROVE a # c
  <2> SUFFICES ASSUME a = c PROVE FALSE
    OBVIOUS
  <2>1. Rivals(cl, c) \ over = {}
    BY <1>2 DEF Both, Asserted, Entry, Beside
  <2>2. ~(b \in over /\ cl[b].status # "superseded") /\ cl[b].status = "active"
    BY <1>2 DEF Both, Asserted, Entry
  <2>3. b \in Rivals(cl, c)
    BY <1>2, <2>2 DEF Both, Rivals
  <2> QED BY <2>1, <2>2, <2>3
<1>3. ASSUME NEW a \in Claim, NEW b \in Claim, Both(new, a, b) PROVE Both(cl, a, b)
  <2>1. a # c /\ b # c
    <3>1. Both(new, b, a)
      BY <1>3 DEF Both
    <3> QED BY <1>2, <1>3, <3>1
  <2> QED BY <1>3, <2>1 DEF Both, Asserted, Entry
<1> QED BY <1>1, <1>3 DEF NoNewPair

\* retract_fact_claim activates nothing.
LEMMA RetractPairs ==
    ASSUME NEW cl, Ledger(cl), NEW c \in Claim
    PROVE  Ledger(Retract(cl, c)) /\ NoNewPair(cl, Retract(cl, c))
<1> DEFINE new == Retract(cl, c)
<1>1. new = [d \in Claim |-> IF d = c
                             THEN IF cl[c].status = "retracted" THEN cl[c] ELSE Entry("retracted")
                             ELSE cl[d]]
  BY DEF Ledger, Retract
<1> QED BY <1>1 DEF Ledger, NoNewPair, Both, Entry

\* restore_fact_claim restores a claim beside an active value as conflicted.
LEMMA RestorePairs ==
    ASSUME NEW cl, Ledger(cl), NEW c \in Claim
    PROVE  Ledger(Restore(cl, c)) /\ NoNewPair(cl, Restore(cl, c))
<1> DEFINE new == Restore(cl, c)
<1>1. new = [d \in Claim |-> IF d = c
                             THEN IF cl[c].status = Beside(cl, c, {}) THEN cl[c]
                                  ELSE Entry(Beside(cl, c, {}))
                             ELSE cl[d]]
  BY DEF Ledger, Restore
<1>2. Ledger(new)
  BY <1>1 DEF Ledger
<1>3. new[c].status = Beside(cl, c, {}) /\ \A d \in Claim \ {c} : new[d] = cl[d]
  BY <1>1 DEF Entry
<1> HIDE DEF new
<1>4. ASSUME NEW a \in Claim, NEW b \in Claim, Both(new, a, b) PROVE a # c
  <2> SUFFICES ASSUME a = c PROVE FALSE
    OBVIOUS
  <2>1. Rivals(cl, c) = {}
    BY <1>3, <1>4 DEF Both, Beside
  <2>2. b \in Rivals(cl, c)
    BY <1>3, <1>4 DEF Both, Rivals
  <2> QED BY <2>1, <2>2
<1>5. ASSUME NEW a \in Claim, NEW b \in Claim, Both(new, a, b) PROVE Both(cl, a, b)
  <2>1. Both(new, b, a)
    BY <1>5 DEF Both
  <2>2. a # c /\ b # c
    BY <1>4, <1>5, <2>1
  <2> QED BY <1>3, <1>5, <2>2 DEF Both
<1> QED BY <1>2, <1>5 DEF NoNewPair, new

\* Losing a paragraph activates nothing.
LEMMA DetachPairs ==
    ASSUME NEW p
    PROVE  Ledger(Detach(p)) /\ NoNewPair(claim, Detach(p))
BY DEF Ledger, Detach, NoNewPair, Both

\* Its return activates only what is detached.
LEMMA ReattachPairs ==
    ASSUME NEW snap
    PROVE  Ledger(Reattach(snap)) /\ NoNewPairUnlessDetached(claim, Reattach(snap))
<1> DEFINE new == Reattach(snap)
<1>1. Ledger(new)
  BY DEF Ledger, Reattach
<1>2. \A c \in Claim : new[c].status = "active" => claim[c].status = "active" \/ claim[c].detached
  BY DEF Reattach, Entry, Back
<1> HIDE DEF new
<1>3. NoNewPairUnlessDetached(claim, new)
  BY <1>2 DEF NoNewPairUnlessDetached, Both
<1> QED BY <1>1, <1>3 DEF new

\* An update of a fact is one transaction of three calls.
LEMMA UpdatePairs ==
    ASSUME Ledger(claim), NEW c \in Claim, NEW d \in Claim
    PROVE  LET new == Restore(Retract(Asserted(claim, d, {}), c), d)
           IN  Ledger(new) /\ NoNewPair(claim, new)
<1> DEFINE one == Asserted(claim, d, {})
           two == Retract(one, c)
           three == Restore(two, d)
<1>1. Ledger(one) /\ NoNewPair(claim, one)
  BY AssertedPairs
<1> HIDE DEF one
<1>2. Ledger(two) /\ NoNewPair(one, two)
  BY <1>1, RetractPairs
<1> HIDE DEF two
<1>3. Ledger(three) /\ NoNewPair(two, three)
  BY <1>2, RestorePairs
<1> HIDE DEF three
<1>4. NoNewPair(claim, three)
  BY <1>1, <1>2, <1>3 DEF NoNewPair
<1> QED BY <1>3, <1>4 DEF one, two, three

-----------------------------------------------------------------------------
\* What a step does to the ledger.
Guarded == Ledger(claim') /\ NoNewPairUnlessDetached(claim, claim')

LEMMA PairsGuard ==
    ASSUME NEW new, claim' = new, Ledger(new), NoNewPair(claim, new)
    PROVE  Guarded
BY DEF Guarded, NoNewPair, NoNewPairUnlessDetached

LEMMA SameGuard ==
    ASSUME Ledger(claim), claim' = claim
    PROVE  Guarded
BY DEF Guarded, NoNewPairUnlessDetached

\* The administration of facts.
LEMMA AdministrationGuards ==
    ASSUME Ledger(claim), Administration
    PROVE  Guarded
<1>1. CASE \E c \in Claim : CreateFact(c)
  <2>1. PICK c \in Claim : claim' = Asserted(claim, c, {})
    BY <1>1 DEF CreateFact, Administer, Becomes
  <2> QED BY <2>1, AssertedPairs, PairsGuard
<1>2. CASE \E c \in Claim : ClassifyFact(c)
  <2>1. PICK c \in Claim : claim' = [claim EXCEPT ![c] = Entry(@.status)]
    BY <1>2 DEF ClassifyFact, Administer, Becomes
  <2>2. claim' = [d \in Claim |-> IF d = c THEN Entry(claim[c].status) ELSE claim[d]]
    BY <2>1 DEF Ledger
  <2> QED BY <2>2 DEF Guarded, Ledger, NoNewPairUnlessDetached, Both, Entry
<1>3. CASE \E c \in Claim : RetractFact(c)
  <2>1. PICK c \in Claim : claim' = Retract(claim, c)
    BY <1>3 DEF RetractFact, Administer, Becomes
  <2> QED BY <2>1, RetractPairs, PairsGuard
<1>4. CASE \E c \in Claim : RestoreFact(c)
  <2>1. PICK c \in Claim : claim' = Restore(claim, c)
    BY <1>4 DEF RestoreFact, Administer, Becomes
  <2> QED BY <2>1, RestorePairs, PairsGuard
<1>5. CASE \E c, d \in Claim : UpdateFact(c, d)
  <2>1. PICK c \in Claim, d \in Claim :
          \/ claim' = Asserted(claim, d, {c})
          \/ claim' = Restore(Retract(Asserted(claim, d, {}), c), d)
    BY <1>5 DEF UpdateFact, Administer, Becomes
  <2>2. CASE claim' = Asserted(claim, d, {c})
    BY <2>2, AssertedPairs, PairsGuard
  <2>3. CASE claim' = Restore(Retract(Asserted(claim, d, {}), c), d)
    BY <2>3, UpdatePairs, PairsGuard
  <2> QED BY <2>1, <2>2, <2>3
<1> QED BY <1>1, <1>2, <1>3, <1>4, <1>5 DEF Administration

\* Ingestion writes claims for what a paragraph says.
LEMMA WritingGuards ==
    ASSUME Ledger(claim), Writing, \A p \in Paragraph : Says[p] \in Claim, Doing("claims") => Arg \in Paragraph
    PROVE  Guarded
<1>1. CASE WriteClaims
  <2>1. \/ claim' = claim
        \/ \E over : claim' = Asserted(claim, Says[Arg], over)
    BY <1>1 DEF WriteClaims, Becomes
  <2>2. Says[Arg] \in Claim
    BY <1>1 DEF WriteClaims
  <2> QED BY <2>1, <2>2, AssertedPairs, PairsGuard, SameGuard
<1>2. CASE WriteRef \/ Ask
  BY <1>2, SameGuard DEF WriteRef, Ask, Becomes
<1> QED BY <1>1, <1>2 DEF Writing

\* Paragraphs go and come back.
LEMMA DeletionGuards ==
    ASSUME Ledger(claim), Deletion \/ Purging
    PROVE  Guarded
<1>1. CASE \/ \E o \in Op, p \in Paragraph : Delete(o, p)
           \/ \E p \in Paragraph : Purge(p)
  <2>1. \E p \in Paragraph : claim' = Detach(p)
    BY <1>1 DEF Delete, DeleteParagraph, Purge, Becomes
  <2> QED BY <2>1, DetachPairs, PairsGuard
<1>2. CASE \E o \in Op : RestoreDeleted(o)
  <2>1. \E o \in Op : claim' = Reattach(ops[o].facts)
    BY <1>2 DEF RestoreDeleted, Becomes
  <2> QED BY <2>1, ReattachPairs DEF Guarded
<1> QED BY <1>1, <1>2 DEF Deletion, Purging

\* The facts of a plan's target go and come back with the plan.
LEMMA CorrectionGuards ==
    ASSUME Ledger(claim), Executing \/ RollingBack
    PROVE  Guarded
<1>1. CASE MarkFacts \/ \E pl \in Plan, o \in Op : RollBack(pl, o)
  <2>1. \E p : claim' = Detach(p)
    BY <1>1 DEF MarkFacts, RollBack, DeleteParagraph, Corrects, Becomes
  <2> QED BY <2>1, DetachPairs, PairsGuard
<1>2. CASE Unfact
  <2>1. \E snap : claim' = Reattach(snap)
    BY <1>2 DEF Unfact, Corrects, Becomes
  <2> QED BY <2>1, ReattachPairs DEF Guarded
<1>3. CASE \E pl \in Plan : \/ Execute(pl) \/ TextStored(pl) \/ TextFails(pl) \/ Finish(pl)
                            \/ TextGone(pl) \/ RollBackOnly(pl) \/ RollBackFails(pl)
  BY <1>3, SameGuard
     DEF Execute, TextStored, TextFails, Finish, TextGone, RollBackOnly, RollBackFails,
         Embedded, EmbeddingFails, facts
<1>4. CASE \/ MarkMeta \/ Cascade \/ Conclude \/ Uncascade \/ Unmeta
           \/ Ends("rolled", "rolled_back") \/ Ends("unrolled", "rollback_failed")
  BY <1>4, SameGuard DEF MarkMeta, Cascade, Conclude, Uncascade, Unmeta, Ends
<1> QED BY <1>1, <1>2, <1>3, <1>4 DEF Executing, RollingBack

-----------------------------------------------------------------------------
\* The scripts: what is written of a paragraph, and what is done for a plan.
Names == {"meta", "detach", "cascade", "ask", "record",
          "uncascade", "unmeta", "unfact", "rolled", "unrolled"}

Commit == ({"claims", "ref", "ask"} \X Paragraph) \cup (Names \X Plan)

IInv == Ledger(claim) /\ script \in Seq(Commit)

\* A script's first commit leaves a script.
LEMMA ScriptDone ==
    ASSUME script \in Seq(Commit), script # <<>>, Done
    PROVE  script' \in Seq(Commit)
BY DEF Done

\* What is stored of a paragraph.
LEMMA StoreScripts ==
    /\ \A p \in Paragraph : Writes(p) \in Seq(Commit) /\ << <<"ref", p>> >> \in Seq(Commit)
    /\ \A pl \in Plan : Stores(pl) \in Seq(Commit)
<1>1. ASSUME NEW p \in Paragraph PROVE Writes(p) \in Seq(Commit) /\ << <<"ref", p>> >> \in Seq(Commit)
  <2>1. /\ <<"claims", p>> \in Commit /\ <<"ref", p>> \in Commit /\ <<"ask", p>> \in Commit
    BY DEF Commit
  <2> QED BY <2>1 DEF Writes
<1> QED BY <1>1, PlansAssumption DEF Stores

\* The names of the commits of a plan.
LongMark(last) == <<"meta", "detach", "cascade", last>>

LEMMA MarksAre ==
    ASSUME NEW pl \in Plan
    PROVE  \/ kind[pl].refreshes /\ (Marks(pl) = Steps(pl, LongMark("ask")) \/ Marks(pl) = Steps(pl, <<"ask">>))
           \/ /\ ~kind[pl].refreshes
              /\ Marks(pl) = Steps(pl, LongMark("record")) \/ Marks(pl) = Steps(pl, <<"record">>)
BY DEF Marks, LongMark

LongUndo == <<"uncascade", "unmeta", "unfact", "ask", "rolled">>
QuietUndo == <<"uncascade", "unmeta", "unfact", "rolled">>

LEMMA UndoIs ==
    ASSUME NEW pl \in Plan
    PROVE  \/ ~plan[pl].mark.taken /\ (Undo(pl) = Steps(pl, <<"ask", "rolled">>) \/ Undo(pl) = Steps(pl, <<"rolled">>))
           \/ /\ plan[pl].mark.taken /\ Live(Target[pl])
              /\ \/ kind[pl].person /\ Undo(pl) = Steps(pl, LongUndo)
                 \/ ~kind[pl].person /\ Undo(pl) = Steps(pl, QuietUndo)
           \/ Undo(pl) = Steps(pl, <<"unrolled">>)
BY DEF Undo, LongUndo, QuietUndo

\* The scripts of a plan.
LEMMA PlanScripts ==
    ASSUME NEW pl \in Plan
    PROVE  Marks(pl) \in Seq(Commit) /\ Undo(pl) \in Seq(Commit)
<1>1. ASSUME NEW names \in Seq(Names) PROVE Steps(pl, names) \in Seq(Commit)
  <2>1. DOMAIN names = 1 .. Len(names) /\ Len(names) \in Nat
    OBVIOUS
  <2>2. \A i \in DOMAIN names : <<names[i], pl>> \in Commit
    BY <2>1 DEF Commit
  <2>3. Steps(pl, names) \in [1 .. Len(names) -> Commit]
    BY <2>1, <2>2 DEF Steps
  <2> QED BY <2>1, <2>3
<1>2. /\ LongMark("ask") \in Seq(Names) /\ LongMark("record") \in Seq(Names)
      /\ <<"ask">> \in Seq(Names) /\ <<"record">> \in Seq(Names)
      /\ <<"ask", "rolled">> \in Seq(Names) /\ <<"rolled">> \in Seq(Names)
      /\ LongUndo \in Seq(Names) /\ QuietUndo \in Seq(Names) /\ <<"unrolled">> \in Seq(Names)
  BY DEF Names, LongMark, LongUndo, QuietUndo
<1>3. Marks(pl) \in Seq(Commit)
  BY <1>1, <1>2, MarksAre
<1>4. Undo(pl) \in Seq(Commit)
  BY <1>1, <1>2, UndoIs
<1> QED BY <1>3, <1>4

\* Every step leaves a script.
LEMMA ScriptStep ==
    ASSUME script \in Seq(Commit), CorrectionNext
    PROVE  script' \in Seq(Commit)
<1> USE PlansAssumption, SaysAssumption
<1>1. CASE Others
  <2>1. CASE Administration \/ Deletion \/ Purging
    BY <2>1 DEF Administration, CreateFact, ClassifyFact, RetractFact, RestoreFact, UpdateFact,
                Administer, Deletion, Purging, Delete, DeleteParagraph, RestoreDeleted, Purge
  <2>2. CASE Ingestion
    <3>1. CASE \E p \in Ingested : Ingest(p) \/ EmbeddingFails(p)
      BY <3>1 DEF Ingest, EmbeddingFails
    <3>2. CASE \E p \in Ingested : Embedded(p, Writes(p))
      BY <3>2, StoreScripts DEF Embedded
    <3> QED BY <2>2, <3>1, <3>2 DEF Ingestion
  <2>3. CASE Writing
    BY <2>3, ScriptDone DEF Writing, WriteClaims, WriteRef, Ask, Doing
  <2> QED BY <1>1, <2>1, <2>2, <2>3 DEF Others
<1>2. CASE Executing
  <2>1. CASE \E pl \in Plan : Execute(pl)
    BY <2>1, PlanScripts DEF Execute
  <2>2. CASE \E pl \in Plan : TextStored(pl)
    <3>1. PICK pl \in Plan : script' = Stores(pl) \o Marks(pl)
      BY <2>2 DEF TextStored, Embedded
    <3>2. Stores(pl) \in Seq(Commit) /\ Marks(pl) \in Seq(Commit)
      BY PlanScripts, StoreScripts
    <3> QED BY <3>1, <3>2
  <2>3. CASE \E pl \in Plan : TextFails(pl) \/ Finish(pl)
    BY <2>3 DEF TextFails, EmbeddingFails, Finish, facts
  <2>4. CASE MarkMeta \/ MarkFacts \/ Cascade \/ Conclude
    BY <2>4, ScriptDone DEF MarkMeta, MarkFacts, Cascade, Conclude, Doing
  <2> QED BY <1>2, <2>1, <2>2, <2>3, <2>4 DEF Executing
<1>3. CASE RollingBack
  <2>1. CASE \E pl \in Plan : TextGone(pl) \/ RollBackOnly(pl)
    BY <2>1, PlanScripts DEF TextGone, RollBackOnly, Undoing
  <2>2. CASE \/ \E pl \in Plan : RollBackFails(pl)
             \/ \E pl \in Plan, o \in Op : RollBack(pl, o)
    BY <2>2 DEF RollBackFails, RollBack, facts
  <2>3. CASE \/ Uncascade \/ Unmeta \/ Unfact
             \/ Ends("rolled", "rolled_back") \/ Ends("unrolled", "rollback_failed")
    BY <2>3, ScriptDone DEF Uncascade, Unmeta, Unfact, Ends, Doing
  <2> QED BY <1>3, <2>1, <2>2, <2>3 DEF RollingBack
<1>4. CASE Restart
  BY <1>4 DEF Restart, Crash
<1> QED BY <1>1, <1>2, <1>3, <1>4 DEF CorrectionNext

-----------------------------------------------------------------------------
\* Every step guards the slots.
LEMMA StepGuards ==
    ASSUME IInv, CorrectionNext
    PROVE  Guarded
<1> USE DEF IInv
<1>1. CASE Others
  <2>1. CASE Ingestion
    BY <2>1, SameGuard DEF Ingestion, Ingest, Embedded, EmbeddingFails
  <2>2. CASE Writing
    <3>1. Doing("claims") => Arg \in Paragraph
      <4>1. Doing("claims") => Head(script) \in Commit
        BY DEF Doing
      <4> QED BY <4>1 DEF Doing, Arg, Commit, Names
    <3> QED BY <2>2, <3>1, WritingGuards, SaysAssumption
  <2> QED BY <1>1, <2>1, <2>2, AdministrationGuards, DeletionGuards DEF Others
<1>2. CASE Executing \/ RollingBack
  BY <1>2, CorrectionGuards
<1>3. CASE Restart
  BY <1>3, SameGuard DEF Restart, Crash
<1> QED BY <1>1, <1>2, <1>3 DEF CorrectionNext

\* Ledger and script keep their shape.
THEOREM ShapeInvariant == CorrectionSpec => []IInv
<1>1. CorrectionInit => IInv
  BY DEF CorrectionInit, Init, IInv, Ledger
<1>2. IInv /\ [CorrectionNext]_vars => IInv'
  <2> SUFFICES ASSUME IInv, [CorrectionNext]_vars PROVE IInv'
    OBVIOUS
  <2>1. CASE CorrectionNext
    BY <2>1, StepGuards, ScriptStep DEF IInv, Guarded
  <2>2. CASE UNCHANGED vars
    BY <2>2 DEF vars, facts, IInv, Ledger
  <2> QED BY <2>1, <2>2
<1> QED BY <1>1, <1>2, PTL DEF CorrectionSpec

\* No step makes two values of a slot active unless one was detached.
THEOREM SlotsGuarded == CorrectionSpec => SlotGuarded
<1> DEFINE Step ==
      \A c, d \in Claim :
          c # d /\ Slot[c] = Slot[d] /\ claim'[c].status = "active" /\ claim'[d].status = "active" =>
              \/ claim[c].status = "active" /\ claim[d].status = "active"
              \/ claim[c].detached \/ claim[d].detached
<1>1. IInv /\ [CorrectionNext]_vars => [Step]_claim
  <2> SUFFICES ASSUME IInv, [CorrectionNext]_vars PROVE Step \/ claim' = claim
    OBVIOUS
  <2>1. CASE CorrectionNext
    <3>1. NoNewPairUnlessDetached(claim, claim')
      BY <2>1, StepGuards DEF Guarded
    <3> QED BY <3>1 DEF NoNewPairUnlessDetached, Both
  <2>2. CASE UNCHANGED vars
    BY <2>2 DEF vars, facts
  <2> QED BY <2>1, <2>2
<1>2. CorrectionSpec => [][Step]_claim
  BY <1>1, ShapeInvariant, PTL DEF CorrectionSpec
<1> QED BY <1>2 DEF SlotGuarded

-----------------------------------------------------------------------------
\* What the rows of the tables and the records of a run look like.
IsRow(row) == /\ row = [state |-> row.state, change |-> row.change]
              /\ row.state \in {"none", "live", "deleted"}

\* A snapshot of the facts of paragraph p, or of nothing.
IsSnapshot(snap, p) ==
    /\ snap.evidence \subseteq Claim \X {p}
    /\ \A c \in Claims(snap.evidence) : snap.status[c] \in Statuses

IsMark(mark, pl) ==
    /\ mark = [taken |-> mark.taken, change |-> mark.change, facts |-> mark.facts,
               inactive |-> mark.inactive]
    /\ IsSnapshot(mark.facts, Target[pl])

IsRun(r, pl) == r = [step |-> r.step, stored |-> r.stored, mark |-> r.mark] /\ IsMark(r.mark, pl)

IsPlan(r, pl) ==
    r = [status |-> r.status, stored |-> r.stored, mark |-> r.mark] /\ IsMark(r.mark, pl)

IsOp(op) ==
    op.status = "deleted" =>
        /\ op.of \in Paragraph
        /\ IsRow(op.row) /\ op.row.state = "live"
        /\ IsSnapshot(op.facts, op.of)

RowsShaped == \A p \in Paragraph : IsRow(para[p])
RunsShaped == DOMAIN run = Plan /\ \A pl \in Plan : IsRun(run[pl], pl)
PlansShaped == DOMAIN plan = Plan /\ \A pl \in Plan : IsPlan(plan[pl], pl)
OpsShaped == DOMAIN ops = Op /\ \A o \in Op : IsOp(ops[o])

\* Facts are put back for a paragraph that is there.
UndoLive == \A i \in DOMAIN script, pl \in Plan : script[i] = <<"unfact", pl>> => Live(Target[pl])

\* FactsAreSupported without the types.
Held(c) == \E p \in Paragraph : <<c, p>> \in support
Current(entry) == entry.status \in {"active", "conflicted"}

Supported ==
    /\ \A e \in support : Live(e[2]) \/ e[2] \in late
    /\ \A c \in Claim \ vouched : Current(claim[c]) => Held(c)

Shaped ==
    /\ IInv /\ TypeOK /\ RowsShaped /\ OpsShaped
    /\ RunsShaped /\ PlansShaped
    /\ UndoLive /\ Supported

\* A live paragraph stays.
LiveStay == \A p \in Paragraph : Live(p) => Live(p)'

LEMMA SnapshotShaped ==
    ASSUME TypeOK, NEW p \in Paragraph
    PROVE  IsSnapshot(Snapshot(p), p)
<1>1. Evidence(p) \subseteq Claim \X {p}
  BY DEF TypeOK, Evidence
<1>2. \A c \in Claims(Evidence(p)) : c \in Claim
  BY <1>1 DEF Claims
<1>3. \A c \in Claim : claim[c].status \in Statuses
  BY DEF TypeOK
<1> QED BY <1>1, <1>2, <1>3 DEF IsSnapshot, Snapshot

LEMMA NothingShaped ==
    /\ \A p : IsSnapshot(NoSnapshot, p)
    /\ \A pl : IsMark(NoMark, pl) /\ IsRun(NoRun, pl)
BY DEF IsSnapshot, NoSnapshot, Claims, IsMark, NoMark, IsRun, NoRun

\* What a commit is about.
LEMMA Args ==
    ASSUME IInv
    PROVE  /\ Doing("claims") \/ Doing("ref") => Arg \in Paragraph
           /\ \A n \in {"meta", "detach", "cascade", "record", "uncascade", "unmeta", "unfact",
                        "rolled", "unrolled"} : Doing(n) => Arg \in Plan
<1>1. script # <<>> => Head(script) \in Commit
  BY DEF IInv
<1> QED BY <1>1 DEF Doing, Arg, Commit, Names

Requests == {"none", "owed", "asked", "lost", "unasked"}

LEMMA RefreshType ==
    ASSUME NEW cl, NEW asks \in BOOLEAN, Becomes(cl, asks), refresh \in Requests
    PROVE  claim' = cl /\ refresh' \in Requests
BY DEF Becomes, Requests

LEMMA CorrectsType ==
    ASSUME NEW cl, NEW asks, Corrects(cl, asks), refresh \in Requests
    PROVE  claim' = cl /\ refresh' \in Requests
BY DEF Corrects, Becomes, Requests

-----------------------------------------------------------------------------
\* The ledger's operators keep the type of claims.
Entries == [status : Statuses, detached : BOOLEAN]

LEMMA LedgerTypes ==
    ASSUME NEW cl \in [Claim -> Entries], NEW c \in Claim, NEW over
    PROVE  /\ Asserted(cl, c, over) \in [Claim -> Entries]
           /\ Retract(cl, c) \in [Claim -> Entries]
           /\ Restore(cl, c) \in [Claim -> Entries]
<1>1. \A s \in Statuses : Entry(s) \in Entries
  BY DEF Entry, Entries
<1>2. \A o : Beside(cl, c, o) \in Statuses
  BY DEF Beside, Statuses
<1>3. "superseded" \in Statuses /\ "retracted" \in Statuses
  BY DEF Statuses
<1> HIDE DEF Entries
<1>4. Asserted(cl, c, over) \in [Claim -> Entries]
  BY <1>1, <1>2, <1>3 DEF Asserted
<1>5. Retract(cl, c) \in [Claim -> Entries]
  BY <1>1, <1>3 DEF Retract
<1>6. Restore(cl, c) \in [Claim -> Entries]
  BY <1>1, <1>2 DEF Restore
<1> QED BY <1>4, <1>5, <1>6

LEMMA EvidenceTypes ==
    ASSUME claim \in [Claim -> Entries], NEW p
    PROVE  /\ Detach(p) \in [Claim -> Entries]
           /\ \A snap : IsSnapshot(snap, p) => Reattach(snap) \in [Claim -> Entries]
<1>1. Detach(p) \in [Claim -> Entries]
  BY DEF Detach, Entries, Statuses
<1>2. ASSUME NEW snap, IsSnapshot(snap, p) PROVE Reattach(snap) \in [Claim -> Entries]
  <2>1. \A c \in Claim : Entry(claim[c].status) \in Entries
    BY DEF Entry, Entries
  <2>2. \A c \in Claims(snap.evidence) : Entry(snap.status[c]) \in Entries
    BY <1>2 DEF IsSnapshot, Entry, Entries
  <2> HIDE DEF Entries
  <2> QED BY <2>1, <2>2 DEF Reattach
<1> QED BY <1>1, <1>2

\* TypeOK, variable by variable.
LEMMA Types ==
    /\ TypeOK <=> /\ claim \in [Claim -> Entries]
                  /\ support \subseteq Claim \X Paragraph
                  /\ DOMAIN para = Paragraph
                  /\ \A p \in Paragraph : para[p].state \in {"none", "live", "deleted"}
                  /\ ref \cup ingest \cup late \subseteq Paragraph
                  /\ vouched \subseteq Claim
                  /\ refresh \in Requests
BY DEF TypeOK, Entries, Requests

-----------------------------------------------------------------------------
\* What keeps the facts supported: nothing happens to them ...
LEMMA SameSupports ==
    ASSUME TypeOK, Supported, LiveStay, UNCHANGED <<claim, support, late, vouched>>
    PROVE  Supported'
<1>1. \A e \in support : e[2] \in Paragraph
  BY DEF TypeOK
<1> QED BY <1>1 DEF Supported, LiveStay, Held, Current, Live

\* ... an administrator vouches for what becomes current ...
LEMMA VouchSupports ==
    ASSUME Supported, NEW cl, NEW S, claim' = cl, vouched' = vouched \cup S,
           \A c \in Claim \ S : Current(cl[c]) => Current(claim[c]),
           UNCHANGED <<support, late, para>>
    PROVE  Supported'
BY DEF Supported, Held, Live

\* ... a paragraph goes with its evidence ...
LEMMA DetachSupports ==
    ASSUME TypeOK, Supported, NEW p \in Paragraph,
           claim' = Detach(p), support' = support \ Evidence(p),
           UNCHANGED <<late, vouched>>,
           \A q \in Paragraph \ {p} : Live(q) => Live(q)'
    PROVE  Supported'
<1>1. \A e \in support : e = <<e[1], e[2]>> /\ e[1] \in Claim /\ e[2] \in Paragraph
  BY DEF TypeOK
<1>2. \A e \in support' : Live(e[2])' \/ e[2] \in late'
  BY <1>1 DEF Supported, Evidence
<1>3. ASSUME NEW c \in Claim \ vouched, Current(Detach(p)[c])
      PROVE  \E q \in Paragraph : <<c, q>> \in support'
  <2>1. Detach(p)[c] = claim[c]
    BY <1>3 DEF Detach, Current
  <2>2. PICK q \in Paragraph : <<c, q>> \in support
    BY <1>3, <2>1 DEF Supported, Held
  <2>3. CASE <<c, q>> \notin Evidence(p)
    BY <2>2, <2>3
  <2>4. CASE <<c, q>> \in Evidence(p)
    <3>1. c \in Claims(Evidence(p))
      BY <2>4 DEF Claims
    <3>2. c \in Claims(support \ Evidence(p))
      BY <1>3, <2>1, <3>1 DEF Detach, Current
    <3>3. PICK e \in support \ Evidence(p) : c = e[1]
      BY <3>2 DEF Claims
    <3> QED BY <1>1, <3>3
  <2> QED BY <2>3, <2>4
<1> QED BY <1>2, <1>3 DEF Supported, Held

\* ... or comes back with it.
LEMMA ReattachSupports ==
    ASSUME TypeOK, Supported, LiveStay,
           NEW p \in Paragraph, NEW snap, IsSnapshot(snap, p), Live(p)',
           claim' = Reattach(snap), support' = support \cup snap.evidence,
           UNCHANGED <<late, vouched>>
    PROVE  Supported'
<1>1. \A e \in support : e[2] \in Paragraph
  BY DEF TypeOK
<1>2. \A e \in snap.evidence : e = <<e[1], p>> /\ e[2] = p
  BY DEF IsSnapshot
<1>3. \A e \in support' : Live(e[2])' \/ e[2] \in late'
  BY <1>1, <1>2 DEF Supported, LiveStay
<1>4. ASSUME NEW c \in Claim \ vouched, Current(Reattach(snap)[c])
      PROVE  \E q \in Paragraph : <<c, q>> \in support'
  <2>1. CASE c \in Claims(snap.evidence)
    BY <1>2, <2>1 DEF Claims
  <2>2. CASE c \notin Claims(snap.evidence)
    <3>1. Reattach(snap)[c] = claim[c]
      BY <2>2 DEF Reattach
    <3> QED BY <1>4, <3>1 DEF Supported, Held
  <2> QED BY <2>1, <2>2
<1> QED BY <1>3, <1>4 DEF Supported, Held

\* A commit is done, and what is left of the script is still about live paragraphs.
LEMMA TailUndoLive ==
    ASSUME IInv, UndoLive, script # <<>>, Done, LiveStay
    PROVE  UndoLive'
<1>1. /\ Len(script) \in Nat \ {0}
      /\ \A i \in DOMAIN script' : i + 1 \in DOMAIN script /\ script'[i] = script[i + 1]
  BY DEF IInv, Done
<1>2. \A pl \in Plan : Target[pl] \in Paragraph
  BY PlansAssumption
<1> QED BY <1>1, <1>2 DEF UndoLive, LiveStay, Live

\* No script, or the same with no paragraph gone.
LEMMA SameUndoLive ==
    ASSUME UndoLive, script' = <<>> \/ (script' = script /\ LiveStay)
    PROVE  UndoLive'
<1>1. \A pl \in Plan : Target[pl] \in Paragraph
  BY PlansAssumption
<1> QED BY <1>1 DEF UndoLive, LiveStay, Live

-----------------------------------------------------------------------------
\* Updates of rows and runs.
LEMMA RowUpdates ==
    ASSUME NEW row, IsRow(row), NEW s \in {"none", "live", "deleted"}, NEW ch
    PROVE  /\ IsRow([row EXCEPT !.state = s]) /\ [row EXCEPT !.state = s].state = s
           /\ IsRow([row EXCEPT !.change = ch]) /\ [row EXCEPT !.change = ch].state = row.state
           /\ IsRow([state |-> s, change |-> ch])
BY DEF IsRow

LEMMA MarkUpdates ==
    ASSUME NEW pl, NEW mark, IsMark(mark, pl), NEW v
    PROVE  /\ IsMark([mark EXCEPT !.taken = v], pl)
           /\ IsMark([mark EXCEPT !.change = v], pl)
           /\ IsMark([mark EXCEPT !.inactive = v], pl)
           /\ IsSnapshot(v, Target[pl]) => IsMark([mark EXCEPT !.facts = v], pl)
BY DEF IsMark

LEMMA RunUpdates ==
    ASSUME NEW pl, NEW r, IsRun(r, pl), NEW v
    PROVE  /\ IsRun([r EXCEPT !.step = v], pl)
           /\ IsRun([r EXCEPT !.stored = v], pl)
           /\ IsMark(v, pl) => IsRun([r EXCEPT !.mark = v], pl)
BY DEF IsRun

\* A run or a plan is replaced by another.
LEMMA RunReplaced ==
    ASSUME RunsShaped, NEW pl \in Plan, NEW r, IsRun(r, pl), run' = [run EXCEPT ![pl] = r]
    PROVE  RunsShaped'
BY DEF RunsShaped, IsRun, IsMark, IsSnapshot, Claims

LEMMA PlanReplaced ==
    ASSUME PlansShaped, NEW pl \in Plan, NEW r, IsPlan(r, pl), plan' = [plan EXCEPT ![pl] = r]
    PROVE  PlansShaped'
BY DEF PlansShaped, IsPlan, IsMark, IsSnapshot, Claims

LEMMA StatusReplaced ==
    ASSUME PlansShaped, NEW pl \in Plan, NEW s, plan' = [plan EXCEPT ![pl].status = s]
    PROVE  PlansShaped'
<1> DEFINE r == [status |-> s, stored |-> plan[pl].stored, mark |-> plan[pl].mark]
<1>1. IsPlan(plan[pl], pl)
  BY DEF PlansShaped
<1>2. IsPlan(r, pl) /\ [plan[pl] EXCEPT !.status = s] = r
  BY <1>1 DEF IsPlan
<1>3. plan' = [plan EXCEPT ![pl] = r]
  BY <1>2
<1> QED BY <1>2, <1>3, PlanReplaced

\* The parts about plans, and those about facts and paragraphs.
PlansOK == RunsShaped /\ PlansShaped
FactsOK == TypeOK /\ RowsShaped /\ OpsShaped /\ UndoLive /\ Supported

LEMMA SamePlans ==
    ASSUME Shaped, UNCHANGED <<plan, run>>
    PROVE  PlansOK'
BY DEF Shaped, PlansOK, RunsShaped, PlansShaped

LEMMA SameRowsAndOps ==
    ASSUME Shaped
    PROVE  /\ para' = para => RowsShaped' /\ LiveStay
           /\ ops' = ops => OpsShaped'
BY DEF Shaped, RowsShaped, OpsShaped, LiveStay, Live

\* Facts that no step of a plan touches.
LEMMA SameFacts ==
    ASSUME Shaped, UNCHANGED <<claim, support, ref, ops, ingest, refresh, vouched, late>>,
           para' = para \/ (DOMAIN para' = Paragraph /\ RowsShaped' /\ LiveStay), UndoLive'
    PROVE  FactsOK'
<1>1. TypeOK /\ Supported
  BY DEF Shaped
<1>2. RowsShaped' /\ LiveStay /\ OpsShaped'
  BY SameRowsAndOps
<1>3. DOMAIN para' = Paragraph
  BY <1>1 DEF TypeOK
<1>4. TypeOK'
  BY <1>1, <1>2, <1>3 DEF TypeOK, RowsShaped, IsRow
<1>5. Supported'
  BY <1>1, <1>2, SameSupports
<1> QED BY <1>2, <1>4, <1>5 DEF FactsOK

-----------------------------------------------------------------------------
\* What becomes current is the value that is asserted or restored.
LEMMA LedgerCurrent ==
    ASSUME NEW cl \in [Claim -> Entries], NEW c \in Claim, NEW over
    PROVE  /\ \A d \in Claim \ {c} : Current(Asserted(cl, c, over)[d]) => Current(cl[d])
           /\ \A d \in Claim : Current(Retract(cl, c)[d]) => Current(cl[d])
           /\ \A d \in Claim \ {c} : Current(Restore(cl, c)[d]) => Current(cl[d])
<1>1. \A d \in Claim \ {c} : Current(Asserted(cl, c, over)[d]) => Current(cl[d])
  BY DEF Asserted, Entry, Current
<1>2. ASSUME NEW d \in Claim PROVE Current(Retract(cl, c)[d]) => Current(cl[d])
  <2>1. d # c => Retract(cl, c)[d] = cl[d]
    BY DEF Retract
  <2>2. Retract(cl, c)[c].status = "retracted"
    BY DEF Retract, Entry
  <2> QED BY <2>1, <2>2 DEF Current
<1>3. \A d \in Claim \ {c} : Restore(cl, c)[d] = cl[d]
  BY DEF Restore
<1> QED BY <1>1, <1>2, <1>3

\* An administrator's change.
LEMMA AdministerShapes ==
    ASSUME Shaped, NEW cl \in [Claim -> Entries], NEW S \in SUBSET Claim, Administer(cl, S),
           \A c \in Claim \ S : Current(cl[c]) => Current(claim[c])
    PROVE  FactsOK'
<1>1. TypeOK /\ Supported /\ UndoLive
  BY DEF Shaped
<1>2. /\ claim' = cl /\ Becomes(cl, TRUE) /\ vouched' = vouched \cup S
      /\ UNCHANGED <<support, para, ref, ops, ingest, script, late>>
  BY DEF Administer, Becomes
<1>3. RowsShaped' /\ OpsShaped' /\ LiveStay
  BY <1>2, SameRowsAndOps
<1>4. refresh' \in Requests
  BY <1>1, <1>2, RefreshType, Types
<1>5. TypeOK'
  BY <1>1, <1>2, <1>4 DEF TypeOK, Entries, Requests
<1>6. Supported'
  BY <1>1, <1>2, VouchSupports
<1>7. UndoLive'
  BY <1>1, <1>2, <1>3, SameUndoLive
<1> QED BY <1>3, <1>5, <1>6, <1>7 DEF FactsOK

LEMMA AdministrationShapes ==
    ASSUME Shaped, Administration
    PROVE  FactsOK'
<1>1. claim \in [Claim -> Entries]
  BY Types DEF Shaped
<1>2. CASE \E c \in Claim : CreateFact(c)
  <2>1. PICK c \in Claim : Administer(Asserted(claim, c, {}), {c})
    BY <1>2 DEF CreateFact
  <2>2. \A d \in Claim \ {c} : Current(Asserted(claim, c, {})[d]) => Current(claim[d])
    BY <1>1, LedgerCurrent
  <2>3. Asserted(claim, c, {}) \in [Claim -> Entries]
    BY <1>1, LedgerTypes
  <2> QED BY <2>1, <2>2, <2>3, AdministerShapes
<1>3. CASE \E c \in Claim : ClassifyFact(c)
  <2>1. PICK c \in Claim : Administer([claim EXCEPT ![c] = Entry(@.status)], {})
    BY <1>3 DEF ClassifyFact
  <2> DEFINE new == [claim EXCEPT ![c] = Entry(@.status)]
  <2>2. new \in [Claim -> Entries] /\ \A d \in Claim : new[d].status = claim[d].status
    BY <1>1 DEF Entry, Entries
  <2>3. \A d \in Claim \ {} : Current(new[d]) => Current(claim[d])
    BY <2>2 DEF Current
  <2>4. Administer(new, {})
    BY <2>1
  <2> HIDE DEF new
  <2> QED BY <2>2, <2>3, <2>4, AdministerShapes
<1>4. CASE \E c \in Claim : RetractFact(c)
  <2>1. PICK c \in Claim : Administer(Retract(claim, c), {})
    BY <1>4 DEF RetractFact
  <2>2. \A d \in Claim \ {} : Current(Retract(claim, c)[d]) => Current(claim[d])
    BY <1>1, LedgerCurrent
  <2>3. Retract(claim, c) \in [Claim -> Entries]
    BY <1>1, LedgerTypes
  <2> QED BY <2>1, <2>2, <2>3, AdministerShapes
<1>5. CASE \E c \in Claim : RestoreFact(c)
  <2>1. PICK c \in Claim : Administer(Restore(claim, c), {c})
    BY <1>5 DEF RestoreFact
  <2>2. \A d \in Claim \ {c} : Current(Restore(claim, c)[d]) => Current(claim[d])
    BY <1>1, LedgerCurrent
  <2>3. Restore(claim, c) \in [Claim -> Entries]
    BY <1>1, LedgerTypes
  <2> QED BY <2>1, <2>2, <2>3, AdministerShapes
<1>6. CASE \E c, d \in Claim : UpdateFact(c, d)
  <2>1. PICK c \in Claim, d \in Claim : UpdateFact(c, d)
    BY <1>6
  <2>2. CASE Administer(Asserted(claim, d, {c}), {d})
    <3>1. \A b \in Claim \ {d} : Current(Asserted(claim, d, {c})[b]) => Current(claim[b])
      BY <1>1, LedgerCurrent
    <3>2. Asserted(claim, d, {c}) \in [Claim -> Entries]
      BY <1>1, LedgerTypes
    <3> QED BY <2>2, <3>1, <3>2, AdministerShapes
  <2>3. CASE Administer(Restore(Retract(Asserted(claim, d, {}), c), d), {d})
    <3> DEFINE one == Asserted(claim, d, {})
               two == Retract(one, c)
               three == Restore(two, d)
    <3>1. /\ one \in [Claim -> Entries]
          /\ \A b \in Claim \ {d} : Current(one[b]) => Current(claim[b])
      BY <1>1, LedgerTypes, LedgerCurrent
    <3> HIDE DEF one
    <3>2. /\ two \in [Claim -> Entries]
          /\ \A b \in Claim : Current(two[b]) => Current(one[b])
      BY <3>1, LedgerTypes, LedgerCurrent
    <3> HIDE DEF two
    <3>3. /\ three \in [Claim -> Entries]
          /\ \A b \in Claim \ {d} : Current(three[b]) => Current(two[b])
      BY <3>2, LedgerTypes, LedgerCurrent
    <3>4. Administer(three, {d})
      BY <2>3 DEF one, two
    <3> HIDE DEF three
    <3>5. \A b \in Claim \ {d} : Current(three[b]) => Current(claim[b])
      BY <3>1, <3>2, <3>3
    <3> QED BY <3>3, <3>4, <3>5, AdministerShapes
  <2> QED BY <2>1, <2>2, <2>3 DEF UpdateFact
<1> QED BY <1>2, <1>3, <1>4, <1>5, <1>6 DEF Administration

-----------------------------------------------------------------------------
\* The scripts put facts back for live paragraphs only.
LEMMA MarksPutNothingBack ==
    ASSUME NEW pl \in Plan
    PROVE  \A i \in DOMAIN Marks(pl), q \in Plan : Marks(pl)[i] # <<"unfact", q>>
<1>1. ASSUME NEW names, \A i \in DOMAIN names : names[i] # "unfact"
      PROVE  \A i \in DOMAIN Steps(pl, names), q \in Plan : Steps(pl, names)[i] # <<"unfact", q>>
  BY <1>1 DEF Steps
<1>2. /\ \A i \in DOMAIN LongMark("ask") : LongMark("ask")[i] # "unfact"
      /\ \A i \in DOMAIN LongMark("record") : LongMark("record")[i] # "unfact"
      /\ \A i \in DOMAIN <<"ask">> : <<"ask">>[i] # "unfact"
      /\ \A i \in DOMAIN <<"record">> : <<"record">>[i] # "unfact"
  BY DEF LongMark
<1> QED BY <1>1, <1>2, MarksAre

LEMMA UndoPutsBack ==
    ASSUME NEW pl \in Plan, NEW i \in DOMAIN Undo(pl), NEW q \in Plan, Undo(pl)[i] = <<"unfact", q>>
    PROVE  q = pl /\ Live(Target[pl])
<1>1. \A names : \A k \in DOMAIN Steps(pl, names) :
         Steps(pl, names)[k] = <<"unfact", q>> => k \in DOMAIN names /\ names[k] = "unfact" /\ q = pl
  BY DEF Steps
<1>2. /\ \A k \in DOMAIN <<"ask", "rolled">> : <<"ask", "rolled">>[k] # "unfact"
      /\ \A k \in DOMAIN <<"rolled">> : <<"rolled">>[k] # "unfact"
      /\ \A k \in DOMAIN <<"unrolled">> : <<"unrolled">>[k] # "unfact"
  OBVIOUS
<1>3. q = pl
  BY <1>1, UndoIs
<1>4. CASE \E names \in {<<"ask", "rolled">>, <<"rolled">>, <<"unrolled">>} : Undo(pl) = Steps(pl, names)
  BY <1>1, <1>2, <1>4
<1> QED BY <1>3, <1>4, UndoIs

LEMMA ConcatenatedAt ==
    ASSUME NEW S, NEW s \in Seq(S), NEW t \in Seq(S), NEW i \in DOMAIN (s \o t)
    PROVE  \/ i \in DOMAIN s /\ (s \o t)[i] = s[i]
           \/ i - Len(s) \in DOMAIN t /\ (s \o t)[i] = t[i - Len(s)]
<1>1. /\ DOMAIN s = 1 .. Len(s) /\ DOMAIN t = 1 .. Len(t)
      /\ DOMAIN (s \o t) = 1 .. Len(s) + Len(t)
      /\ Len(s) \in Nat /\ Len(t) \in Nat
  OBVIOUS
<1> QED BY <1>1

LEMMA StoresPutNothingBack ==
    ASSUME NEW pl \in Plan
    PROVE  \A i \in DOMAIN (Stores(pl) \o Marks(pl)), q \in Plan :
              (Stores(pl) \o Marks(pl))[i] # <<"unfact", q>>
<1> DEFINE s == Stores(pl)
           m == Marks(pl)
<1>1. s \in Seq(Commit) /\ m \in Seq(Commit)
  BY StoreScripts, PlanScripts
<1>2. \A i \in DOMAIN s, q \in Plan : s[i] # <<"unfact", q>>
  BY DEF Stores, Writes
<1>3. \A i \in DOMAIN m, q \in Plan : m[i] # <<"unfact", q>>
  BY MarksPutNothingBack
<1> HIDE DEF s, m
<1>4. ASSUME NEW i \in DOMAIN (s \o m), NEW q \in Plan PROVE (s \o m)[i] # <<"unfact", q>>
  <2>1. \/ i \in DOMAIN s /\ (s \o m)[i] = s[i]
        \/ i - Len(s) \in DOMAIN m /\ (s \o m)[i] = m[i - Len(s)]
    BY <1>1, ConcatenatedAt
  <2> QED BY <1>2, <1>3, <2>1
<1> QED BY <1>4 DEF s, m

\* The embedding of a paragraph arrives.
LEMMA EmbeddedShapes ==
    ASSUME Shaped, NEW p, NEW commits, Embedded(p, commits),
           \A i \in DOMAIN commits, q \in Plan : commits[i] # <<"unfact", q>>
    PROVE  FactsOK'
<1>1. /\ script' = commits
      /\ UNCHANGED <<claim, support, para, ref, ops, refresh, vouched, late>>
      /\ ingest' \subseteq ingest
  BY DEF Embedded
<1>2. UndoLive'
  BY <1>1 DEF UndoLive
<1>3. TypeOK'
  BY <1>1 DEF Shaped, TypeOK
<1>4. RowsShaped' /\ OpsShaped' /\ LiveStay
  BY <1>1, SameRowsAndOps
<1>5. Supported'
  BY <1>1, <1>4, SameSupports DEF Shaped
<1> QED BY <1>2, <1>3, <1>4, <1>5 DEF FactsOK

\* A paragraph is written; the rest waits for its embedding.
LEMMA AddedShapes ==
    ASSUME Shaped, NEW p \in Paragraph, NEW change, AddParagraph(p, change), UndoLive',
           UNCHANGED <<claim, support, ref, ops, refresh, vouched, late>>
    PROVE  FactsOK'
<1>1. para' = [para EXCEPT ![p] = [state |-> "live", change |-> change]] /\ ingest' = ingest \cup {p}
  BY DEF AddParagraph
<1>2. TypeOK /\ RowsShaped /\ Supported
  BY DEF Shaped
<1>3. RowsShaped' /\ LiveStay /\ DOMAIN para' = Paragraph
  BY <1>1, <1>2 DEF RowsShaped, IsRow, LiveStay, Live, TypeOK
<1>4. TypeOK'
  BY <1>1, <1>2, <1>3 DEF TypeOK, RowsShaped, IsRow
<1>5. OpsShaped'
  BY SameRowsAndOps
<1>6. Supported'
  BY <1>2, <1>3, SameSupports
<1> QED BY <1>3, <1>4, <1>5, <1>6 DEF FactsOK

LEMMA IngestionShapes ==
    ASSUME Shaped, Ingestion
    PROVE  FactsOK'
<1>1. Ingested \subseteq Paragraph
  BY SaysAssumption
<1>2. CASE \E p \in Ingested : Ingest(p)
  <2>1. PICK p \in Ingested : Ingest(p)
    BY <1>2
  <2>2. UndoLive'
    BY <2>1 DEF Ingest, UndoLive
  <2>3. AddParagraph(p, para[p].change) /\ UNCHANGED <<claim, support, ref, ops, refresh, vouched, late>>
    BY <2>1 DEF Ingest
  <2> QED BY <1>1, <2>2, <2>3, AddedShapes
<1>3. CASE \E p \in Ingested : Embedded(p, Writes(p))
  <2>1. PICK p \in Ingested : Embedded(p, Writes(p))
    BY <1>3
  <2>2. \A i \in DOMAIN Writes(p), q \in Plan : Writes(p)[i] # <<"unfact", q>>
    BY DEF Writes
  <2> QED BY <2>1, <2>2, EmbeddedShapes
<1>4. CASE \E p \in Ingested : EmbeddingFails(p)
  <2>1. /\ UNCHANGED <<claim, support, para, ref, ops, script, refresh, vouched, late>>
        /\ ingest' \subseteq ingest
    BY <1>4 DEF EmbeddingFails
  <2>2. RowsShaped' /\ OpsShaped' /\ LiveStay
    BY <2>1, SameRowsAndOps
  <2>3. TypeOK'
    BY <2>1 DEF Shaped, TypeOK
  <2>4. Supported' /\ UndoLive'
    BY <2>1, <2>2, SameSupports, SameUndoLive DEF Shaped
  <2> QED BY <2>2, <2>3, <2>4 DEF FactsOK
<1> QED BY <1>2, <1>3, <1>4 DEF Ingestion

\* Claims are written for what a paragraph says, whether or not it is still there.
LEMMA WriteClaimsSupports ==
    ASSUME Shaped, WriteClaims
    PROVE  TypeOK' /\ Supported'
<1>1. TypeOK /\ Supported /\ Arg \in Paragraph /\ Says[Arg] \in Claim
  BY Args, SaysAssumption DEF Shaped, WriteClaims
<1> DEFINE c == Says[Arg]
<1>2. PICK cl : /\ Becomes(cl, FALSE)
                /\ \/ cl = claim
                   \/ \E over : cl = Asserted(claim, c, over)
  BY DEF WriteClaims
<1>3. /\ support' = support \cup {<<c, Arg>>}
      /\ late' = IF Live(Arg) THEN late ELSE late \cup {Arg}
      /\ UNCHANGED <<para, ref, ingest, vouched>>
  BY DEF WriteClaims, Live
<1> HIDE DEF c
<1>4. claim \in [Claim -> Entries] /\ c \in Claim
  BY <1>1, Types DEF c
<1>5. claim' = cl /\ refresh' \in Requests
  BY <1>1, <1>2, RefreshType, Types
<1>6. cl \in [Claim -> Entries] /\ \A d \in Claim \ {c} : Current(cl[d]) => Current(claim[d])
  BY <1>2, <1>4, LedgerTypes, LedgerCurrent
<1>7. TypeOK'
  BY <1>1, <1>3, <1>4, <1>5, <1>6 DEF TypeOK, Entries, Requests
<1>8. \A e \in support' : Live(e[2])' \/ e[2] \in late'
  BY <1>1, <1>3 DEF Supported, Live
<1>9. \A d \in Claim \ vouched' : Current(claim'[d]) => Held(d)'
  BY <1>1, <1>3, <1>5, <1>6 DEF Supported, Held
<1> QED BY <1>7, <1>8, <1>9 DEF Supported

LEMMA WritingShapes ==
    ASSUME Shaped, Writing
    PROVE  FactsOK'
<1>1. UNCHANGED <<para, ops>> /\ script # <<>> /\ Done
  BY DEF Writing, WriteClaims, WriteRef, Ask, Doing
<1>2. RowsShaped' /\ OpsShaped' /\ LiveStay
  BY <1>1, SameRowsAndOps
<1>3. UndoLive'
  BY <1>1, <1>2, TailUndoLive DEF Shaped
<1>4. CASE WriteRef \/ Ask
  <2>1. Arg \in Paragraph \/ Ask
    BY <1>4, Args DEF WriteRef, Shaped
  <2>2. claim' = claim /\ refresh' \in Requests
    BY <1>4, RefreshType, Types DEF WriteRef, Ask, Shaped
  <2>3. UNCHANGED <<support, late, vouched, ingest>> /\ ref' \subseteq ref \cup Paragraph
    BY <1>4, <2>1 DEF WriteRef, Ask
  <2>4. TypeOK'
    BY <1>1, <2>2, <2>3 DEF TypeOK, Shaped, Requests
  <2>5. Supported'
    BY <1>2, <2>2, <2>3, SameSupports DEF Shaped
  <2> QED BY <1>2, <1>3, <2>4, <2>5 DEF FactsOK
<1> QED BY <1>2, <1>3, <1>4, WriteClaimsSupports DEF Writing, FactsOK

-----------------------------------------------------------------------------
\* A paragraph goes: its facts with it, and its row to another state.
LEMMA GoneShapes ==
    ASSUME Shaped, NEW p \in Paragraph, NEW row, IsRow(row), NEW asks \in BOOLEAN,
           Becomes(Detach(p), asks), support' = support \ Evidence(p),
           para' = [para EXCEPT ![p] = row], ref' \subseteq ref,
           UNCHANGED <<ingest, script, vouched, late>>, OpsShaped', UndoLive'
    PROVE  FactsOK'
<1>1. TypeOK /\ Supported /\ RowsShaped /\ claim \in [Claim -> Entries]
  BY Types DEF Shaped
<1>2. claim' = Detach(p) /\ refresh' \in Requests
  BY <1>1, RefreshType, Types
<1>3. RowsShaped' /\ DOMAIN para' = Paragraph
  BY <1>1 DEF RowsShaped, IsRow, TypeOK
<1>4. \A q \in Paragraph \ {p} : Live(q) => Live(q)'
  BY <1>1 DEF Live, TypeOK
<1>5. Detach(p) \in [Claim -> Entries]
  BY <1>1, EvidenceTypes
<1>6. TypeOK'
  BY <1>1, <1>2, <1>3, <1>5 DEF TypeOK, Entries, Requests, RowsShaped, IsRow
<1>7. Supported'
  BY <1>1, <1>2, <1>4, DetachSupports
<1> QED BY <1>3, <1>6, <1>7 DEF FactsOK

\* A deletion records a snapshot.
LEMMA DeleteParagraphShapes ==
    ASSUME Shaped, NEW o \in Op, NEW p \in Paragraph, DeleteParagraph(o, p),
           UNCHANGED <<ingest, script, vouched, late>>
    PROVE  FactsOK'
<1>1. TypeOK /\ RowsShaped /\ OpsShaped
  BY DEF Shaped
<1>2. UndoLive'
  BY DEF DeleteParagraph, UndoLive
<1> DEFINE op == [status |-> "deleted", of |-> p, row |-> para[p], ref |-> p \in ref,
                  facts |-> Snapshot(p)]
<1>3. IsOp(op)
  <2>1. IsSnapshot(Snapshot(p), p)
    BY <1>1, SnapshotShaped
  <2>2. IsRow(para[p]) /\ para[p].state = "live"
    BY <1>1 DEF DeleteParagraph, RowsShaped
  <2> HIDE DEF IsSnapshot
  <2> QED BY <2>1, <2>2 DEF IsOp
<1>4. OpsShaped'
  <2>1. ops' = [ops EXCEPT ![o] = op]
    BY DEF DeleteParagraph
  <2> HIDE DEF op
  <2>2. \A a \in Op : IsOp(ops'[a])
    BY <1>1, <1>3, <2>1 DEF OpsShaped
  <2>3. DOMAIN ops' = Op
    BY <1>1, <2>1 DEF OpsShaped
  <2> QED BY <2>2, <2>3 DEF OpsShaped, IsOp, IsRow, IsSnapshot, Claims
<1>5. IsRow([para[p] EXCEPT !.state = "deleted"])
  BY <1>1, RowUpdates DEF RowsShaped
<1>6. para' = [para EXCEPT ![p] = [para[p] EXCEPT !.state = "deleted"]]
  BY DEF DeleteParagraph
<1>7. /\ Becomes(Detach(p), TRUE) /\ support' = support \ Evidence(p) /\ ref' \subseteq ref
  BY DEF DeleteParagraph
<1> QED BY <1>2, <1>4, <1>5, <1>6, <1>7, GoneShapes

\* The row and the facts of an operation come back.
LEMMA RestoreDeletedShapes ==
    ASSUME Shaped, NEW o \in Op, RestoreDeleted(o)
    PROVE  FactsOK'
<1>1. TypeOK /\ RowsShaped /\ OpsShaped /\ Supported /\ claim \in [Claim -> Entries]
  BY Types DEF Shaped
<1>2. PICK p, row, snap :
           /\ p \in Paragraph
           /\ IsRow(row) /\ row.state = "live" /\ IsSnapshot(snap, p)
           /\ p = ops[o].of /\ row = ops[o].row /\ snap = ops[o].facts
  BY <1>1 DEF OpsShaped, IsOp, RestoreDeleted
<1>3. /\ Becomes(Reattach(snap), TRUE)
      /\ support' = support \cup snap.evidence
      /\ para' = [para EXCEPT ![p] = row]
      /\ ref' \subseteq ref \cup {p}
      /\ ops' = [ops EXCEPT ![o] = [NoOp EXCEPT !.status = "restored"]]
      /\ UNCHANGED <<ingest, script, vouched, late>>
      /\ script = <<>>
  BY <1>2 DEF RestoreDeleted
<1>4. RowsShaped' /\ LiveStay /\ DOMAIN para' = Paragraph /\ Live(p)'
  BY <1>1, <1>2, <1>3 DEF RowsShaped, IsRow, LiveStay, Live, TypeOK
<1>5. claim' = Reattach(snap) /\ refresh' \in Requests
  BY <1>1, <1>3, RefreshType, Types
<1>6. Reattach(snap) \in [Claim -> Entries]
  BY <1>1, <1>2, EvidenceTypes
<1>7. snap.evidence \subseteq Claim \X Paragraph
  BY <1>2 DEF IsSnapshot
<1>8. TypeOK'
  BY <1>1, <1>2, <1>3, <1>4, <1>5, <1>6, <1>7 DEF TypeOK, Entries, Requests, RowsShaped, IsRow
<1>9. Supported'
  BY <1>1, <1>2, <1>3, <1>4, <1>5, ReattachSupports
<1>10. OpsShaped'
  <2>1. [NoOp EXCEPT !.status = "restored"].status = "restored"
    BY DEF NoOp
  <2>2. \A a \in Op : IsOp(ops'[a])
    BY <1>1, <1>3, <2>1 DEF OpsShaped, IsOp
  <2>3. DOMAIN ops' = Op
    BY <1>1, <1>3 DEF OpsShaped
  <2> QED BY <2>2, <2>3 DEF OpsShaped, IsOp, IsRow, IsSnapshot, Claims
<1>11. UndoLive'
  BY <1>3 DEF UndoLive
<1> QED BY <1>4, <1>8, <1>9, <1>10, <1>11 DEF FactsOK

LEMMA DeletionShapes ==
    ASSUME Shaped, Deletion \/ Purging
    PROVE  FactsOK'
<1>1. CASE \E o \in Op, p \in Paragraph : Delete(o, p)
  BY <1>1, DeleteParagraphShapes DEF Delete
<1>2. CASE \E o \in Op : RestoreDeleted(o)
  BY <1>2, RestoreDeletedShapes
<1>3. CASE \E p \in Paragraph : Purge(p)
  <2>1. PICK p \in Paragraph : Purge(p)
    BY <1>3
  <2>2. IsRow(NoRow)
    BY DEF IsRow, NoRow
  <2>3. /\ Becomes(Detach(p), FALSE) /\ support' = support \ Evidence(p)
        /\ para' = [para EXCEPT ![p] = NoRow] /\ ref' \subseteq ref
        /\ UNCHANGED <<ingest, script, vouched, late>> /\ ops' = ops /\ script = <<>>
    BY <2>1 DEF Purge
  <2>4. OpsShaped' /\ UndoLive'
    BY <2>3, SameRowsAndOps DEF UndoLive
  <2> QED BY <2>2, <2>3, <2>4, GoneShapes
<1> QED BY <1>1, <1>2, <1>3 DEF Deletion, Purging

-----------------------------------------------------------------------------
\* A plan starts, or a failed one starts again.
LEMMA ExecuteShapes ==
    ASSUME Shaped, NEW pl \in Plan, Execute(pl)
    PROVE  FactsOK' /\ PlansOK'
<1>1. RunsShaped /\ PlansShaped
  BY DEF Shaped
<1>2. PICK step : run' = [run EXCEPT ![pl].step = step]
  BY DEF Execute
<1>3. RunsShaped'
  <2>1. IsRun([run[pl] EXCEPT !.step = step], pl)
    BY <1>1, RunUpdates DEF RunsShaped
  <2>2. run' = [run EXCEPT ![pl] = [run[pl] EXCEPT !.step = step]]
    BY <1>2
  <2> QED BY <1>1, <2>1, <2>2, RunReplaced
<1>4. PlansShaped'
  BY <1>1, StatusReplaced DEF Execute
<1>5. UNCHANGED <<claim, support, ref, ops, refresh, vouched, late>>
  BY DEF Execute
<1>6. CASE script' = Marks(pl) /\ UNCHANGED <<para, ingest>>
  <2>1. UndoLive'
    BY <1>6, MarksPutNothingBack DEF UndoLive
  <2> QED BY <1>3, <1>4, <1>5, <1>6, <2>1, SameFacts DEF PlansOK
<1>7. CASE AddParagraph(Text[pl], None) /\ UNCHANGED script
  <2>1. script = <<>>
    BY DEF Execute, Going
  <2>2. UndoLive' /\ Text[pl] \in Paragraph
    BY <1>7, <2>1, PlansAssumption DEF UndoLive
  <2>3. FactsOK'
    BY <1>5, <1>7, <2>2, AddedShapes
  <2> QED BY <1>3, <1>4, <2>3 DEF PlansOK
<1> QED BY <1>6, <1>7 DEF Execute

\* Its text is stored, or is not; it is over.
LEMMA TextStoredShapes ==
    ASSUME Shaped, NEW pl \in Plan, TextStored(pl)
    PROVE  FactsOK' /\ PlansOK'
<1>1. RunsShaped /\ PlansShaped
  BY DEF Shaped
<1> DEFINE one == [run[pl] EXCEPT !.step = "marks"]
           two == [one EXCEPT !.stored = TRUE]
<1>2. IsRun(one, pl)
  BY <1>1, RunUpdates DEF RunsShaped
<1>3. IsRun(two, pl)
  <2> HIDE DEF one
  <2> QED BY <1>2, RunUpdates
<1>4. run' = [run EXCEPT ![pl] = two]
  BY DEF TextStored
<1> HIDE DEF two
<1>5. RunsShaped'
  BY <1>1, <1>3, <1>4, RunReplaced
<1>6. PlansShaped'
  BY <1>1 DEF TextStored, PlansShaped
<1>7. FactsOK'
  <2>1. Embedded(Text[pl], Stores(pl) \o Marks(pl))
    BY DEF TextStored
  <2> QED BY <2>1, StoresPutNothingBack, EmbeddedShapes
<1> QED BY <1>5, <1>6, <1>7 DEF PlansOK

LEMMA FailedShapes ==
    ASSUME Shaped, NEW pl \in Plan, Failed(pl)
    PROVE  PlansOK'
<1>1. RunsShaped /\ PlansShaped /\ IsRun(NoRun, pl)
  BY NothingShaped DEF Shaped
<1>2. RunsShaped'
  BY <1>1, RunReplaced DEF Failed
<1>3. PlansShaped'
  BY <1>1, StatusReplaced DEF Failed
<1> QED BY <1>2, <1>3 DEF PlansOK

LEMMA RecordsShapes ==
    ASSUME Shaped, NEW pl \in Plan, NEW did, Records(pl, did)
    PROVE  PlansOK'
<1> DEFINE r == Recorded(pl, IF did THEN "executed" ELSE "failed")
<1>1. RunsShaped /\ PlansShaped /\ IsRun(NoRun, pl) /\ IsMark(run[pl].mark, pl)
  BY NothingShaped DEF Shaped, RunsShaped, IsRun
<1>2. IsPlan(r, pl)
  BY <1>1 DEF IsPlan, Recorded
<1>3. plan' = [plan EXCEPT ![pl] = r] /\ run' = [run EXCEPT ![pl] = NoRun]
  BY DEF Records
<1> HIDE DEF r
<1>4. RunsShaped' /\ PlansShaped'
  BY <1>1, <1>2, <1>3, RunReplaced, PlanReplaced
<1> QED BY <1>4 DEF PlansOK

LEMMA StoppedShapes ==
    ASSUME Shaped, NEW pl \in Plan, TextFails(pl) \/ Finish(pl)
    PROVE  FactsOK' /\ PlansOK'
<1>1. FactsOK'
  <2>1. /\ UNCHANGED <<claim, support, para, ref, ops, script, refresh, vouched, late>>
        /\ ingest' \subseteq ingest
    BY DEF TextFails, EmbeddingFails, Finish, facts
  <2>2. RowsShaped' /\ OpsShaped' /\ LiveStay
    BY <2>1, SameRowsAndOps
  <2>3. TypeOK'
    BY <2>1 DEF Shaped, TypeOK
  <2>4. Supported' /\ UndoLive'
    BY <2>1, <2>2, SameSupports, SameUndoLive DEF Shaped
  <2> QED BY <2>2, <2>3, <2>4 DEF FactsOK
<1>2. CASE Failed(pl)
  BY <1>1, <1>2, FailedShapes
<1>3. CASE Records(pl, TRUE)
  BY <1>1, <1>3, RecordsShapes
<1> QED BY <1>2, <1>3 DEF TextFails, Finish

\* The mark of a plan, commit by commit.
LEMMA MarkShapes ==
    ASSUME Shaped, MarkMeta \/ MarkFacts \/ Cascade
    PROVE  FactsOK' /\ PlansOK'
<1>1. TypeOK /\ RowsShaped /\ RunsShaped /\ PlansShaped /\ IInv
  BY DEF Shaped
<1>2. PICK pl \in Plan : pl = Arg
  BY <1>1, Args DEF MarkMeta, MarkFacts, Cascade
<1>3. Target[pl] \in Paragraph /\ IsRun(run[pl], pl) /\ IsMark(run[pl].mark, pl)
  BY <1>1, PlansAssumption DEF RunsShaped, IsRun
<1>4. script # <<>> /\ Done /\ PlansShaped'
  BY <1>1 DEF MarkMeta, MarkFacts, Cascade, Doing, PlansShaped
<1>5. CASE MarkMeta
  <2> DEFINE row == [para[Target[pl]] EXCEPT !.change = pl]
             one == [run[pl].mark EXCEPT !.taken = TRUE]
             two == [one EXCEPT !.change = para[Target[pl]].change]
             r == [run[pl] EXCEPT !.mark = two]
  <2>1. para' = [para EXCEPT ![Target[pl]] = row]
    BY <1>2, <1>5 DEF MarkMeta
  <2>2. IsRow(row) /\ row.state = para[Target[pl]].state
    BY <1>1, <1>3, RowUpdates DEF RowsShaped
  <2>3. run' = [run EXCEPT ![pl] = r]
    BY <1>2, <1>5 DEF MarkMeta
  <2> HIDE DEF row
  <2>4. RowsShaped' /\ LiveStay /\ DOMAIN para' = Paragraph
    BY <1>1, <1>3, <2>1, <2>2 DEF RowsShaped, IsRow, LiveStay, Live, TypeOK
  <2>5. UndoLive'
    BY <1>1, <1>4, <2>4, TailUndoLive DEF Shaped
  <2>6. IsMark(one, pl)
    BY <1>3, MarkUpdates
  <2> HIDE DEF one
  <2>7. IsMark(two, pl)
    BY <2>6, MarkUpdates
  <2> HIDE DEF two
  <2>8. IsRun(r, pl)
    BY <1>3, <2>7, RunUpdates
  <2> HIDE DEF r
  <2>9. RunsShaped'
    BY <1>1, <2>3, <2>8, RunReplaced
  <2>10. UNCHANGED <<claim, support, ref, ops, ingest, refresh, vouched, late>>
    BY <1>5 DEF MarkMeta
  <2>11. FactsOK'
    BY <2>4, <2>5, <2>10, SameFacts
  <2> QED BY <1>4, <2>9, <2>11 DEF PlansOK
<1>6. CASE MarkFacts
  <2> DEFINE mark == [run[pl].mark EXCEPT !.facts = Snapshot(Target[pl])]
             r == [run[pl] EXCEPT !.mark = mark]
  <2>1. run' = [run EXCEPT ![pl] = r]
    BY <1>2, <1>6 DEF MarkFacts
  <2>2. IsMark(mark, pl)
    <3>1. IsSnapshot(Snapshot(Target[pl]), Target[pl])
      BY <1>1, <1>3, SnapshotShaped
    <3> QED BY <1>3, <3>1, MarkUpdates
  <2> HIDE DEF mark
  <2>3. IsRun(r, pl)
    BY <1>3, <2>2, RunUpdates
  <2> HIDE DEF r
  <2>4. RunsShaped'
    BY <1>1, <2>1, <2>3, RunReplaced
  <2>5. /\ Corrects(Detach(Target[pl]), kind[pl].refreshes) /\ support' = support \ Evidence(Target[pl])
        /\ UNCHANGED <<para, ref, ops, ingest, vouched, late>>
    BY <1>2, <1>6 DEF MarkFacts
  <2>6. RowsShaped' /\ OpsShaped' /\ LiveStay
    BY <2>5, SameRowsAndOps
  <2>7. UndoLive'
    BY <1>1, <1>4, <2>6, TailUndoLive DEF Shaped
  <2>8. claim' = Detach(Target[pl]) /\ refresh' \in Requests
    BY <1>1, <2>5, CorrectsType, Types
  <2>9. Detach(Target[pl]) \in [Claim -> Entries]
    BY <1>1, Types, EvidenceTypes
  <2>10. TypeOK'
    BY <1>1, <2>5, <2>8, <2>9 DEF TypeOK, Entries, Requests
  <2>11. Supported'
    BY <1>1, <1>3, <2>5, <2>6, <2>8, DetachSupports DEF Shaped, LiveStay
  <2>12. FactsOK'
    BY <2>6, <2>7, <2>10, <2>11 DEF FactsOK
  <2> QED BY <1>4, <2>4, <2>12 DEF PlansOK
<1>7. CASE Cascade
  <2>1. PICK v : run' = [run EXCEPT ![pl].mark.inactive = v]
    BY <1>2, <1>7 DEF Cascade
  <2> DEFINE mark == [run[pl].mark EXCEPT !.inactive = v]
             r == [run[pl] EXCEPT !.mark = mark]
  <2>2. run' = [run EXCEPT ![pl] = r]
    BY <2>1
  <2>3. IsMark(mark, pl)
    BY <1>3, MarkUpdates
  <2> HIDE DEF mark
  <2>4. IsRun(r, pl)
    BY <1>3, <2>3, RunUpdates
  <2> HIDE DEF r
  <2>5. RunsShaped'
    BY <1>1, <2>2, <2>4, RunReplaced
  <2>6. UNCHANGED <<claim, support, para, ref, ops, ingest, refresh, vouched, late>>
    BY <1>7 DEF Cascade
  <2>7. UndoLive'
    BY <1>1, <1>4, <2>6, SameRowsAndOps, TailUndoLive DEF Shaped
  <2>8. FactsOK'
    BY <2>6, <2>7, SameFacts
  <2> QED BY <1>4, <2>5, <2>8 DEF PlansOK
<1> QED BY <1>5, <1>6, <1>7

\* What ends a script: what it has done is recorded.
LEMMA OverShapes ==
    ASSUME Shaped, script # <<>>, Done, Over,
           UNCHANGED <<claim, support, para, ref, ops, ingest, vouched, late>>
    PROVE  FactsOK'
<1>1. TypeOK /\ IInv /\ Supported
  BY DEF Shaped
<1>2. RowsShaped' /\ OpsShaped' /\ LiveStay
  BY SameRowsAndOps
<1>3. UndoLive'
  BY <1>1, <1>2, TailUndoLive DEF Shaped
<1>4. TypeOK'
  BY <1>1 DEF TypeOK, Over
<1>5. Supported'
  BY <1>1, <1>2, SameSupports
<1> QED BY <1>2, <1>3, <1>4, <1>5 DEF FactsOK

LEMMA ConcludeShapes ==
    ASSUME Shaped, Conclude
    PROVE  FactsOK' /\ PlansOK'
<1>1. Arg \in Plan
  BY Args DEF Shaped, Conclude
<1>2. PlansOK'
  BY <1>1, RecordsShapes DEF Conclude
<1>3. FactsOK'
  BY OverShapes DEF Conclude, Doing
<1> QED BY <1>2, <1>3

LEMMA ExecutingShapes ==
    ASSUME Shaped, Executing
    PROVE  FactsOK' /\ PlansOK'
BY ExecuteShapes, TextStoredShapes, StoppedShapes, MarkShapes, ConcludeShapes DEF Executing

-----------------------------------------------------------------------------
\* A rollback begins: the text goes, or nothing is left of it.
LEMMA RollBackShapes ==
    ASSUME Shaped, NEW pl \in Plan, NEW o \in Op, RollBack(pl, o)
    PROVE  FactsOK' /\ PlansOK'
<1>1. RunsShaped /\ PlansShaped /\ Text[pl] \in Paragraph
  BY PlansAssumption DEF Shaped
<1>2. FactsOK'
  BY <1>1, DeleteParagraphShapes DEF RollBack
<1>3. IsRun([run[pl] EXCEPT !.step = "delete"], pl)
  BY <1>1, RunUpdates DEF RunsShaped
<1>4. run' = [run EXCEPT ![pl] = [run[pl] EXCEPT !.step = "delete"]] /\ plan' = plan
  BY DEF RollBack
<1>5. RunsShaped' /\ PlansShaped'
  BY <1>1, <1>3, <1>4, RunReplaced DEF PlansShaped
<1> QED BY <1>2, <1>5 DEF PlansOK

LEMMA UndoingShapes ==
    ASSUME Shaped, NEW pl \in Plan, TextGone(pl) \/ RollBackOnly(pl)
    PROVE  FactsOK' /\ PlansOK'
<1>1. RunsShaped /\ PlansShaped
  BY DEF Shaped
<1>2. Undoing(pl) /\ UNCHANGED <<claim, support, para, ref, ops, ingest, refresh, vouched, late>>
  BY DEF TextGone, RollBackOnly
<1>3. IsRun([run[pl] EXCEPT !.step = "undo"], pl)
  BY <1>1, RunUpdates DEF RunsShaped
<1>4. run' = [run EXCEPT ![pl] = [run[pl] EXCEPT !.step = "undo"]] /\ plan' = plan
  BY <1>2 DEF Undoing
<1>5. RunsShaped' /\ PlansShaped'
  BY <1>1, <1>3, <1>4, RunReplaced DEF PlansShaped
<1>6. UndoLive'
  <2>1. script' = Undo(pl) /\ para' = para
    BY <1>2 DEF Undoing
  <2> QED BY <2>1, UndoPutsBack DEF UndoLive, Live
<1>7. FactsOK'
  BY <1>2, <1>6, SameFacts
<1> QED BY <1>5, <1>7 DEF PlansOK

LEMMA RollBackFailsShapes ==
    ASSUME Shaped, NEW pl \in Plan, RollBackFails(pl)
    PROVE  FactsOK' /\ PlansOK'
<1>1. UNCHANGED facts /\ run' = run /\ plan' = [plan EXCEPT ![pl].status = "rollback_failed"]
  BY DEF RollBackFails
<1>2. RunsShaped' /\ PlansShaped'
  BY <1>1, StatusReplaced DEF Shaped, RunsShaped
<1>3. UndoLive'
  BY <1>1 DEF Shaped, UndoLive, Live, facts
<1>4. FactsOK'
  BY <1>1, <1>3, SameFacts DEF facts
<1> QED BY <1>2, <1>4 DEF PlansOK

\* Its commits: the mark is taken off, and the facts come back.
LEMMA UnmarkShapes ==
    ASSUME Shaped, Uncascade \/ Unmeta \/ Unfact
    PROVE  FactsOK' /\ PlansOK'
<1>1. TypeOK /\ RowsShaped /\ Supported /\ UndoLive /\ PlansShaped /\ IInv
  BY DEF Shaped
<1>2. UNCHANGED <<plan, run>> /\ script # <<>> /\ Done
  BY DEF Uncascade, Unmeta, Unfact, Doing, corrections
<1>3. PlansOK'
  BY <1>2, SamePlans
<1>4. PICK pl \in Plan : pl = Arg
  BY <1>1, Args DEF Uncascade, Unmeta, Unfact
<1>5. Target[pl] \in Paragraph /\ IsSnapshot(plan[pl].mark.facts, Target[pl])
  BY <1>1, PlansAssumption DEF PlansShaped, IsPlan, IsMark
<1>6. CASE Uncascade
  <2>1. UNCHANGED <<claim, support, para, ref, ops, ingest, refresh, vouched, late>>
    BY <1>6 DEF Uncascade
  <2>2. UndoLive'
    BY <1>1, <1>2, <2>1, SameRowsAndOps, TailUndoLive
  <2> QED BY <1>3, <2>1, <2>2, SameFacts
<1>7. CASE Unmeta
  <2>1. PICK ch : para' = [para EXCEPT ![Target[pl]].change = ch]
    BY <1>4, <1>7 DEF Unmeta
  <2> DEFINE row == [para[Target[pl]] EXCEPT !.change = ch]
  <2>2. para' = [para EXCEPT ![Target[pl]] = row]
    BY <2>1
  <2>3. IsRow(row) /\ row.state = para[Target[pl]].state
    BY <1>1, <1>5, RowUpdates DEF RowsShaped
  <2> HIDE DEF row
  <2>4. RowsShaped' /\ LiveStay /\ DOMAIN para' = Paragraph
    BY <1>1, <1>5, <2>2, <2>3 DEF RowsShaped, IsRow, LiveStay, Live, TypeOK
  <2>5. UndoLive'
    BY <1>1, <1>2, <2>4, TailUndoLive
  <2>6. UNCHANGED <<claim, support, ref, ops, ingest, refresh, vouched, late>>
    BY <1>7 DEF Unmeta
  <2> QED BY <1>3, <2>4, <2>5, <2>6, SameFacts
<1>8. CASE Unfact
  <2>1. PICK snap : snap = plan[pl].mark.facts
    OBVIOUS
  <2>2. /\ Corrects(Reattach(snap), kind[pl].person) /\ support' = support \cup snap.evidence
        /\ UNCHANGED <<para, ref, ops, ingest, vouched, late>>
    BY <1>4, <1>8, <2>1 DEF Unfact
  <2>3. RowsShaped' /\ OpsShaped' /\ LiveStay
    BY <2>2, SameRowsAndOps
  <2>4. UndoLive'
    BY <1>1, <1>2, <2>3, TailUndoLive
  <2>5. Live(Target[pl])
    <3>1. script[1] = Head(script) /\ 1 \in DOMAIN script /\ Head(script) \in Commit
      BY <1>1, <1>2 DEF IInv
    <3>2. Head(script) = <<"unfact", pl>>
      BY <1>4, <1>8, <3>1 DEF Unfact, Doing, Arg, Commit, Names
    <3> QED BY <1>1, <3>1, <3>2 DEF UndoLive
  <2>6. claim' = Reattach(snap) /\ refresh' \in Requests
    BY <1>1, <2>2, CorrectsType, Types
  <2>7. Reattach(snap) \in [Claim -> Entries]
    BY <1>1, <1>5, <2>1, Types, EvidenceTypes
  <2>8. snap.evidence \subseteq Claim \X Paragraph
    BY <1>5, <2>1 DEF IsSnapshot
  <2>9. TypeOK'
    BY <1>1, <2>2, <2>6, <2>7, <2>8 DEF TypeOK, Entries, Requests
  <2>10. Supported'
    BY <1>1, <1>5, <2>1, <2>2, <2>3, <2>5, <2>6, ReattachSupports DEF LiveStay
  <2>11. FactsOK'
    BY <2>3, <2>4, <2>9, <2>10 DEF FactsOK
  <2> QED BY <1>3, <2>11
<1> QED BY <1>6, <1>7, <1>8

LEMMA EndsShapes ==
    ASSUME Shaped, NEW step \in {"rolled", "unrolled"}, NEW status, Ends(step, status)
    PROVE  FactsOK' /\ PlansOK'
<1>1. RunsShaped /\ PlansShaped /\ IInv
  BY DEF Shaped
<1>2. PICK pl \in Plan : pl = Arg
  BY <1>1, Args DEF Ends
<1>3. plan' = [plan EXCEPT ![pl].status = status] /\ run' = [run EXCEPT ![pl] = NoRun]
  BY <1>2 DEF Ends
<1>4. PlansOK'
  BY <1>1, <1>3, NothingShaped, RunReplaced, StatusReplaced DEF PlansOK
<1>5. FactsOK'
  BY OverShapes DEF Ends, Doing
<1> QED BY <1>4, <1>5

LEMMA RollingBackShapes ==
    ASSUME Shaped, RollingBack
    PROVE  FactsOK' /\ PlansOK'
BY RollBackShapes, UndoingShapes, RollBackFailsShapes, UnmarkShapes, EndsShapes DEF RollingBack

LEMMA RestartShapes ==
    ASSUME Shaped, Restart
    PROVE  FactsOK' /\ PlansOK'
<1>1. /\ UNCHANGED <<claim, support, para, ref, ops, vouched, late>>
      /\ ingest' = {} /\ script' = <<>> /\ plan' = plan
      /\ run' = [pl \in Plan |-> NoRun]
  BY DEF Restart, Crash
<1>2. RowsShaped' /\ OpsShaped' /\ LiveStay
  BY <1>1, SameRowsAndOps
<1>3. TypeOK'
  BY <1>1 DEF Shaped, TypeOK, Restart, Crash
<1>4. Supported' /\ UndoLive'
  BY <1>1, <1>2, SameSupports, SameUndoLive DEF Shaped
<1>5. PlansShaped'
  BY <1>1 DEF Shaped, PlansShaped
<1>6. RunsShaped'
  <2>1. \A pl \in Plan : IsRun(run'[pl], pl)
    BY <1>1, NothingShaped
  <2>2. DOMAIN run' = Plan
    BY <1>1
  <2> QED BY <2>1, <2>2 DEF RunsShaped, IsRun, IsMark, IsSnapshot, Claims
<1> QED BY <1>2, <1>3, <1>4, <1>5, <1>6 DEF FactsOK, PlansOK

-----------------------------------------------------------------------------
LEMMA ShapedInit == CorrectionInit => Shaped
<1> SUFFICES ASSUME CorrectionInit PROVE Shaped
  OBVIOUS
<1>1. Init /\ PlansShaped /\ RunsShaped
  <2>1. \A pl \in Plan : IsMark(NoMark, pl) /\ IsRun(NoRun, pl)
    BY NothingShaped
  <2>2. \A pl \in Plan : IsPlan([status |-> "awaiting", stored |-> FALSE, mark |-> NoMark], pl)
    BY <2>1 DEF IsPlan
  <2> QED BY <2>1, <2>2 DEF CorrectionInit, PlansShaped, RunsShaped
<1>2. IInv
  BY <1>1 DEF Init, IInv, Ledger
<1>3. TypeOK
  BY <1>1 DEF Init, TypeOK, Entry, Statuses, NoRow
<1>4. RowsShaped /\ OpsShaped
  BY <1>1 DEF Init, RowsShaped, OpsShaped, IsRow, NoRow, IsOp, NoOp
<1>5. UndoLive /\ Supported
  BY <1>1 DEF Init, UndoLive, Supported, Current, Entry
<1> QED BY <1>1, <1>2, <1>3, <1>4, <1>5 DEF Shaped

\* Every step keeps the shape, and the facts supported.
LEMMA ShapedStep ==
    ASSUME Shaped, CorrectionNext
    PROVE  Shaped'
<1>1. IInv'
  BY StepGuards, ScriptStep DEF Shaped, IInv, Guarded
<1>2. CASE Others
  <2>1. PlansOK'
    BY <1>2, SamePlans DEF Others, corrections
  <2>2. FactsOK'
    BY <1>2, AdministrationShapes, IngestionShapes, WritingShapes, DeletionShapes DEF Others
  <2> QED BY <1>1, <2>1, <2>2 DEF Shaped, FactsOK, PlansOK
<1>3. CASE Executing \/ RollingBack \/ Restart
  <2>1. FactsOK' /\ PlansOK'
    BY <1>3, ExecutingShapes, RollingBackShapes, RestartShapes
  <2> QED BY <1>1, <2>1 DEF Shaped, FactsOK, PlansOK
<1> QED BY <1>2, <1>3 DEF CorrectionNext

\* The shape is inductive.
LEMMA ShapedAlways == CorrectionSpec => []Shaped
<1>1. CorrectionInit => Shaped
  BY ShapedInit
<1>2. Shaped /\ [CorrectionNext]_vars => Shaped'
  <2> SUFFICES ASSUME Shaped, [CorrectionNext]_vars PROVE Shaped'
    OBVIOUS
  <2>1. CASE CorrectionNext
    BY <2>1, ShapedStep
  <2>2. CASE UNCHANGED vars
    <3>1. IInv' /\ UNCHANGED <<claim, support, para, ops, script, vouched, late, plan, run>>
      BY <2>2 DEF vars, facts, corrections, Shaped, IInv, Ledger
    <3>2. RowsShaped' /\ OpsShaped' /\ LiveStay /\ PlansOK'
      BY <3>1, SameRowsAndOps, SamePlans
    <3>3. TypeOK' /\ UndoLive' /\ Supported'
      BY <2>2, <3>1, <3>2, SameUndoLive, SameSupports DEF Shaped, TypeOK, vars, facts
    <3> QED BY <3>1, <3>2, <3>3 DEF Shaped, PlansOK
  <2> QED BY <2>1, <2>2
<1> QED BY <1>1, <1>2, PTL DEF CorrectionSpec

\* What is active or in conflict is supported by a paragraph that is there, or an
\* administrator vouched for it, for any claims, paragraphs, operations and plans.
THEOREM FactsHeld == CorrectionSpec => []FactsAreSupported
<1>1. Shaped => FactsAreSupported
  BY DEF Shaped, Supported, Held, Current, Live, FactsAreSupported
<1> QED BY <1>1, ShapedAlways, PTL

-----------------------------------------------------------------------------
(* What changes the profile is followed, in its script, by the request for a refresh, *)
(* but in the scripts of plans that ask for none.                                     *)

Owes(commit) ==
    \/ commit[1] = "claims"
    \/ commit[1] = "detach" /\ kind[commit[2]].refreshes
    \/ commit[1] = "unfact" /\ kind[commit[2]].person

AsksAfter(s, k) == \E j \in DOMAIN s : j > k /\ s[j][1] = "ask"

AskFollows(s) == \A i \in DOMAIN s : Owes(s[i]) => AsksAfter(s, i)

Asked == AskFollows(script) /\ ChangeIsAsked

\* A script goes on.
LEMMA TailFollows ==
    ASSUME script \in Seq(Commit), script # <<>>, Done, AskFollows(script)
    PROVE  /\ AskFollows(script')
           /\ Owes(Head(script)) => AsksAfter(script', 0)
           /\ Head(script)[1] # "ask" /\ AsksAfter(script, 0) => AsksAfter(script', 0)
<1>1. /\ script' = Tail(script) /\ Len(script) \in Nat \ {0} /\ DOMAIN script = 1 .. Len(script)
      /\ DOMAIN script' = 1 .. Len(script) - 1 /\ Head(script) = script[1]
      /\ \A i \in DOMAIN script' : script'[i] = script[i + 1]
  BY DEF Done
<1>2. ASSUME NEW i \in Nat, AsksAfter(script, i + 1) PROVE AsksAfter(script', i)
  <2>1. PICK j \in DOMAIN script : j > i + 1 /\ script[j][1] = "ask"
    BY <1>2 DEF AsksAfter
  <2>2. j - 1 \in DOMAIN script' /\ j - 1 > i /\ script'[j - 1] = script[j]
    BY <1>1, <2>1
  <2> QED BY <2>1, <2>2 DEF AsksAfter
<1>3. AskFollows(script')
  <2> SUFFICES ASSUME NEW i \in DOMAIN script', Owes(script'[i]) PROVE AsksAfter(script', i)
    BY DEF AskFollows
  <2>1. i + 1 \in DOMAIN script /\ Owes(script[i + 1]) /\ i \in Nat
    BY <1>1
  <2> QED BY <1>2, <2>1 DEF AskFollows
<1>4. Owes(Head(script)) => AsksAfter(script', 0)
  BY <1>1, <1>2 DEF AskFollows
<1>5. ASSUME Head(script)[1] # "ask", AsksAfter(script, 0) PROVE AsksAfter(script, 1)
  BY <1>1, <1>5 DEF AsksAfter
<1> QED BY <1>2, <1>3, <1>4, <1>5

\* New scripts.
LEMMA PlanFollows ==
    ASSUME NEW pl \in Plan
    PROVE  AskFollows(Marks(pl)) /\ AskFollows(Undo(pl))
<1>1. ASSUME NEW names, NEW k \in DOMAIN names, names[k] = "ask",
             \A i \in DOMAIN names : Owes(<<names[i], pl>>) => i < k
      PROVE  AskFollows(Steps(pl, names))
  BY <1>1 DEF AskFollows, AsksAfter, Steps
<1>2. ASSUME NEW names, \A i \in DOMAIN names : ~Owes(<<names[i], pl>>)
      PROVE  AskFollows(Steps(pl, names))
  BY <1>2 DEF AskFollows, Steps
<1>3. /\ \A n \in Names : Owes(<<n, pl>>) => n \in {"detach", "unfact"}
      /\ ~kind[pl].refreshes => ~Owes(<<"detach", pl>>)
      /\ ~kind[pl].person => ~Owes(<<"unfact", pl>>)
  BY DEF Owes, Names
<1>4. AskFollows(Steps(pl, LongMark("ask")))
  <2> DEFINE n == LongMark("ask")
  <2>1. DOMAIN n = 1 .. 4 /\ n[4] = "ask" /\ \A i \in DOMAIN n : n[i] \in Names
    BY DEF LongMark, Names
  <2> HIDE DEF n
  <2>2. \A i \in DOMAIN n : Owes(<<n[i], pl>>) => i < 4
    BY <1>3, <2>1
  <2>3. AskFollows(Steps(pl, n))
    BY <1>1, <2>1, <2>2
  <2> QED BY <2>3 DEF n
<1>5. ASSUME ~kind[pl].refreshes PROVE AskFollows(Steps(pl, LongMark("record")))
  <2> DEFINE n == LongMark("record")
  <2>1. \A i \in DOMAIN n : n[i] \in Names /\ n[i] # "unfact"
    BY DEF LongMark, Names
  <2> HIDE DEF n
  <2>2. AskFollows(Steps(pl, n))
    BY <1>2, <1>3, <1>5, <2>1
  <2> QED BY <2>2 DEF n
<1>6. AskFollows(Steps(pl, LongUndo))
  <2> DEFINE n == LongUndo
  <2>1. DOMAIN n = 1 .. 5 /\ n[4] = "ask" /\ n[5] = "rolled" /\ \A i \in DOMAIN n : n[i] \in Names
    BY DEF LongUndo, Names
  <2> HIDE DEF n
  <2>2. \A i \in DOMAIN n : Owes(<<n[i], pl>>) => i < 4
    BY <1>3, <2>1
  <2>3. AskFollows(Steps(pl, n))
    BY <1>1, <2>1, <2>2
  <2> QED BY <2>3 DEF n
<1>7. ASSUME ~kind[pl].person PROVE AskFollows(Steps(pl, QuietUndo))
  <2> DEFINE n == QuietUndo
  <2>1. \A i \in DOMAIN n : n[i] \in Names /\ n[i] # "detach"
    BY DEF QuietUndo, Names
  <2> HIDE DEF n
  <2>2. AskFollows(Steps(pl, n))
    BY <1>2, <1>3, <1>7, <2>1
  <2> QED BY <2>2 DEF n
<1>8. /\ AskFollows(Steps(pl, <<"ask">>)) /\ AskFollows(Steps(pl, <<"record">>))
      /\ AskFollows(Steps(pl, <<"unrolled">>)) /\ AskFollows(Steps(pl, <<"rolled">>))
      /\ AskFollows(Steps(pl, <<"ask", "rolled">>))
  BY DEF AskFollows, Owes, Steps
<1> QED BY <1>4, <1>5, <1>6, <1>7, <1>8, MarksAre, UndoIs

LEMMA Joined ==
    ASSUME NEW S, NEW s \in Seq(S), NEW t \in Seq(S)
    PROVE  /\ DOMAIN (s \o t) = 1 .. Len(s) + Len(t) /\ DOMAIN t = 1 .. Len(t) /\ Len(t) \in Nat
           /\ DOMAIN s = 1 .. Len(s) /\ Len(s) \in Nat
           /\ \A i \in DOMAIN s : (s \o t)[i] = s[i] /\ i \in DOMAIN (s \o t)
           /\ \A i \in DOMAIN t : (s \o t)[i + Len(s)] = t[i] /\ i + Len(s) \in DOMAIN (s \o t)
OBVIOUS

LEMMA JoinedFollow ==
    ASSUME NEW s \in Seq(Commit), NEW t \in Seq(Commit), AskFollows(s), AskFollows(t)
    PROVE  AskFollows(s \o t)
<1> DEFINE r == s \o t
           k == Len(s)
<1>1. /\ DOMAIN r = 1 .. k + Len(t) /\ DOMAIN t = 1 .. Len(t) /\ Len(t) \in Nat
      /\ DOMAIN s = 1 .. k /\ k \in Nat
      /\ \A i \in DOMAIN s : r[i] = s[i] /\ i \in DOMAIN r
      /\ \A i \in DOMAIN t : r[i + k] = t[i] /\ i + k \in DOMAIN r
  BY Joined
<1> HIDE DEF r, k
<1>2. ASSUME NEW i \in DOMAIN r, Owes(r[i]) PROVE AsksAfter(r, i)
  <2>1. CASE i \in DOMAIN s
    <3>1. PICK j \in DOMAIN s : j > i /\ s[j][1] = "ask"
      BY <1>1, <1>2, <2>1 DEF AskFollows, AsksAfter
    <3> QED BY <1>1, <3>1 DEF AsksAfter
  <2>2. CASE i \notin DOMAIN s
    <3>1. i - k \in DOMAIN t /\ r[i] = t[i - k]
      <4>1. i \in Nat /\ i > k /\ i <= k + Len(t)
        BY <1>1, <2>2
      <4>2. i - k \in DOMAIN t /\ (i - k) + k = i
        BY <1>1, <4>1
      <4> QED BY <1>1, <4>2
    <3>2. PICK j \in DOMAIN t : j > i - k /\ t[j][1] = "ask"
      BY <1>2, <3>1 DEF AskFollows, AsksAfter
    <3>3. j + k \in DOMAIN r /\ j + k > i /\ r[j + k][1] = "ask"
      BY <1>1, <3>2
    <3> QED BY <3>3 DEF AsksAfter
  <2> QED BY <2>1, <2>2
<1> QED BY <1>2 DEF AskFollows, r

LEMMA StoresFollow ==
    /\ \A p : AskFollows(Writes(p))
    /\ \A pl \in Plan : AskFollows(Stores(pl))
<1>1. ASSUME NEW p PROVE AskFollows(Writes(p))
  <2>1. DOMAIN Writes(p) = 1 .. 3 /\ Writes(p)[3] = <<"ask", p>>
    BY DEF Writes
  <2>2. ~Owes(<<"ask", p>>)
    BY DEF Owes
  <2> QED BY <2>1, <2>2 DEF AskFollows, AsksAfter
<1>2. ASSUME NEW pl \in Plan PROVE AskFollows(<< <<"ref", Text[pl]>> >>)
  BY DEF AskFollows, Owes
<1> QED BY <1>1, <1>2 DEF Stores

\* Between scripts, nothing but a purge leaves the profile behind.
LEMMA OwedLate ==
    ASSUME ChangeIsAsked, script = <<>>, refresh = "owed"
    PROVE  late # {}
BY DEF ChangeIsAsked

LEMMA SettledAsked ==
    ASSUME kind' = kind, AskFollows(script'), refresh' # "owed"
    PROVE  Asked'
BY DEF Asked, ChangeIsAsked, AskFollows, AsksAfter, Owes

LEMMA LateAsked ==
    ASSUME kind' = kind, AskFollows(script'), refresh' = "owed" => late' # {}
    PROVE  Asked'
BY DEF Asked, ChangeIsAsked, AskFollows, AsksAfter, Owes

LEMMA BecomesAsks ==
    ASSUME NEW cl, Becomes(cl, TRUE)
    PROVE  refresh' # "owed"
BY DEF Becomes

LEMMA SameAsked ==
    ASSUME kind' = kind, Asked, UNCHANGED <<script, refresh, late>>
    PROVE  Asked'
BY DEF Asked, ChangeIsAsked, AskFollows, AsksAfter, Owes

\* A new script, between two.
LEMMA StartedAsked ==
    ASSUME kind' = kind, Asked, script = <<>>, UNCHANGED <<refresh, late>>, AskFollows(script')
    PROVE  Asked'
BY OwedLate, LateAsked DEF Asked

\* A commit that changes the profile, and one that leaves it alone.
LEMMA CommitAsked ==
    ASSUME kind' = kind, IInv, Asked, script # <<>>, Done, late \subseteq late',
           Owes(Head(script)) \/ (Head(script)[1] # "ask" /\ (refresh' = "owed" => refresh = "owed"))
    PROVE  Asked'
<1>1. /\ AskFollows(script')
      /\ Owes(Head(script)) => AsksAfter(script', 0)
      /\ Head(script)[1] # "ask" /\ AsksAfter(script, 0) => AsksAfter(script', 0)
  BY TailFollows DEF IInv, Asked
<1>2. AsksAfter(script', 0) => \E i \in DOMAIN script' : script'[i][1] = "ask"
  BY DEF AsksAfter
<1>3. (\E i \in DOMAIN script : script[i][1] = "ask") => AsksAfter(script, 0)
  BY DEF IInv, AsksAfter
<1>4. ChangeIsAsked'
  BY <1>1, <1>2, <1>3 DEF Asked, ChangeIsAsked
<1> QED BY <1>1, <1>4 DEF Asked, AskFollows, AsksAfter, Owes

LEMMA EmbeddedAsked ==
    ASSUME kind' = kind, Asked, NEW p, NEW commits, AskFollows(commits), Embedded(p, commits)
    PROVE  Asked'
<1>1. script = <<>> /\ script' = commits /\ UNCHANGED <<refresh, late>>
  BY DEF Embedded
<1> QED BY <1>1, StartedAsked

\* A purge takes unasked only what rests on a paragraph that was not live when its
\* claim was written.
LEMMA PurgeAsked ==
    ASSUME kind' = kind, Shaped, Asked, NEW p \in Paragraph, Purge(p)
    PROVE  Asked'
<1>1. /\ script = <<>> /\ para[p].state = "deleted" /\ Becomes(Detach(p), FALSE)
      /\ UNCHANGED <<script, late>>
  BY DEF Purge
<1>2. ASSUME late = {} PROVE Evidence(p) = {}
  BY <1>1, <1>2 DEF Shaped, Supported, Live, Evidence
<1>3. ASSUME Evidence(p) = {} PROVE Shown(Detach(p)) = Shown(claim)
  BY <1>3 DEF Detach, Claims, Shown
<1>4. refresh' = "owed" => late' # {}
  BY <1>1, <1>2, <1>3, OwedLate DEF Becomes, Asked
<1>5. AskFollows(script')
  BY <1>1 DEF Asked
<1> QED BY <1>4, <1>5, LateAsked

LEMMA OthersAsked ==
    ASSUME kind' = kind, Shaped, Asked, Others
    PROVE  Asked'
<1>1. CASE Administration
  <2>1. script' = script /\ \E cl : Becomes(cl, TRUE)
    BY <1>1 DEF Administration, CreateFact, ClassifyFact, RetractFact, RestoreFact, UpdateFact, Administer
  <2>2. AskFollows(script') /\ refresh' # "owed"
    BY <2>1, BecomesAsks DEF Asked, AskFollows, AsksAfter
  <2> QED BY <2>2, SettledAsked
<1>2. CASE Deletion
  <2>1. script' = script /\ \E cl : Becomes(cl, TRUE)
    BY <1>2 DEF Deletion, Delete, DeleteParagraph, RestoreDeleted
  <2>2. AskFollows(script') /\ refresh' # "owed"
    BY <2>1, BecomesAsks DEF Asked, AskFollows, AsksAfter
  <2> QED BY <2>2, SettledAsked
<1>3. CASE Purging
  BY <1>3, PurgeAsked DEF Purging
<1>4. CASE Ingestion
  <2>1. CASE \E p \in Ingested : Ingest(p) \/ EmbeddingFails(p)
    BY <2>1, SameAsked DEF Ingest, EmbeddingFails
  <2>2. CASE \E p \in Ingested : Embedded(p, Writes(p))
    BY <2>2, StoresFollow, EmbeddedAsked
  <2> QED BY <1>4, <2>1, <2>2 DEF Ingestion
<1>5. CASE Writing
  <2>1. CASE WriteClaims
    <3>1. late \subseteq late' /\ Done /\ script # <<>> /\ Owes(Head(script))
      BY <2>1 DEF WriteClaims, Doing, Owes
    <3> QED BY <3>1, CommitAsked DEF Shaped
  <2>2. CASE WriteRef
    <3>1. UNCHANGED <<refresh, late>> /\ Done /\ script # <<>> /\ Head(script)[1] # "ask"
      BY <2>2 DEF WriteRef, Doing
    <3> QED BY <3>1, CommitAsked DEF Shaped
  <2>3. CASE Ask
    <3>1. refresh' # "owed" /\ Done /\ script # <<>>
      BY <2>3, BecomesAsks DEF Ask, Doing
    <3>2. AskFollows(script')
      BY <3>1, TailFollows DEF Shaped, IInv, Asked
    <3> QED BY <3>1, <3>2, SettledAsked
  <2> QED BY <1>5, <2>1, <2>2, <2>3 DEF Writing
<1> QED BY <1>1, <1>2, <1>3, <1>4, <1>5 DEF Others

LEMMA ExecutingAsked ==
    ASSUME kind' = kind, Shaped, Asked, Executing
    PROVE  Asked'
<1>1. CASE \E pl \in Plan : Execute(pl)
  <2>1. PICK pl \in Plan : Execute(pl)
    BY <1>1
  <2>2. script = <<>> /\ UNCHANGED <<refresh, late>> /\ (script' = Marks(pl) \/ script' = script)
    BY <2>1 DEF Execute, Going
  <2> QED BY <2>2, PlanFollows, StartedAsked, SameAsked
<1>2. CASE \E pl \in Plan : TextStored(pl)
  <2>1. PICK pl \in Plan : Embedded(Text[pl], Stores(pl) \o Marks(pl))
    BY <1>2 DEF TextStored
  <2>2. /\ Stores(pl) \in Seq(Commit) /\ Marks(pl) \in Seq(Commit)
        /\ AskFollows(Stores(pl)) /\ AskFollows(Marks(pl))
    BY StoreScripts, StoresFollow, PlanScripts, PlanFollows
  <2>3. AskFollows(Stores(pl) \o Marks(pl))
    BY <2>2, JoinedFollow
  <2> QED BY <2>1, <2>3, EmbeddedAsked
<1>3. CASE \E pl \in Plan : TextFails(pl) \/ Finish(pl)
  BY <1>3, SameAsked DEF TextFails, EmbeddingFails, Finish, facts
<1>4. CASE MarkMeta \/ Cascade
  <2>1. UNCHANGED <<refresh, late>> /\ Done /\ script # <<>> /\ Head(script)[1] # "ask"
    BY <1>4 DEF MarkMeta, Cascade, Doing
  <2> QED BY <2>1, CommitAsked DEF Shaped
<1>5. CASE MarkFacts
  <2>1. /\ late' = late /\ Done /\ script # <<>> /\ Head(script)[1] = "detach" /\ Head(script)[2] = Arg
        /\ Corrects(Detach(Target[Arg]), kind[Arg].refreshes)
    BY <1>5 DEF MarkFacts, Doing, Arg
  <2>2. CASE kind[Arg].refreshes
    <3>1. Owes(Head(script))
      BY <2>1, <2>2 DEF Owes
    <3> QED BY <2>1, <3>1, CommitAsked DEF Shaped
  <2>3. CASE ~kind[Arg].refreshes
    <3>1. refresh' = "owed" => refresh = "owed"
      BY <2>1, <2>3 DEF Corrects, Becomes
    <3> QED BY <2>1, <3>1, CommitAsked DEF Shaped
  <2> QED BY <2>2, <2>3
<1>6. CASE Conclude
  <2>1. late' = late /\ Done /\ script # <<>> /\ Head(script)[1] # "ask" /\ (refresh' = "owed" => refresh = "owed")
    BY <1>6 DEF Conclude, Doing, Over
  <2> QED BY <2>1, CommitAsked DEF Shaped
<1> QED BY <1>1, <1>2, <1>3, <1>4, <1>5, <1>6 DEF Executing

LEMMA RollingBackAsked ==
    ASSUME kind' = kind, Shaped, Asked, RollingBack
    PROVE  Asked'
<1>1. CASE \E pl \in Plan : TextGone(pl) \/ RollBackOnly(pl)
  <2>1. PICK pl \in Plan : script = <<>> /\ UNCHANGED <<refresh, late>> /\ script' = Undo(pl)
    BY <1>1 DEF TextGone, RollBackOnly, Going, Undoing
  <2> QED BY <2>1, PlanFollows, StartedAsked
<1>2. CASE \E pl \in Plan : RollBackFails(pl)
  BY <1>2, SameAsked DEF RollBackFails, facts
<1>3. CASE \E pl \in Plan, o \in Op : RollBack(pl, o)
  <2>1. script' = script /\ \E cl : Becomes(cl, TRUE)
    BY <1>3 DEF RollBack, DeleteParagraph
  <2>2. AskFollows(script') /\ refresh' # "owed"
    BY <2>1, BecomesAsks DEF Asked, AskFollows, AsksAfter
  <2> QED BY <2>2, SettledAsked
<1>4. CASE Uncascade \/ Unmeta
  <2>1. UNCHANGED <<refresh, late>> /\ Done /\ script # <<>> /\ Head(script)[1] # "ask"
    BY <1>4 DEF Uncascade, Unmeta, Doing
  <2> QED BY <2>1, CommitAsked DEF Shaped
<1>5. CASE Unfact
  <2>1. /\ late' = late /\ Done /\ script # <<>> /\ Head(script)[1] = "unfact" /\ Head(script)[2] = Arg
        /\ Corrects(Reattach(plan[Arg].mark.facts), kind[Arg].person)
    BY <1>5 DEF Unfact, Doing, Arg
  <2>2. CASE kind[Arg].person
    <3>1. Owes(Head(script))
      BY <2>1, <2>2 DEF Owes
    <3> QED BY <2>1, <3>1, CommitAsked DEF Shaped
  <2>3. CASE ~kind[Arg].person
    <3>1. refresh' = "owed" => refresh = "owed"
      BY <2>1, <2>3 DEF Corrects, Becomes
    <3> QED BY <2>1, <3>1, CommitAsked DEF Shaped
  <2> QED BY <2>2, <2>3
<1>6. ASSUME NEW step \in {"rolled", "unrolled"}, NEW status, Ends(step, status) PROVE Asked'
  <2>1. /\ refresh' = "owed" => refresh = "owed"
        /\ late' = late /\ Done /\ script # <<>> /\ Head(script)[1] # "ask"
    BY <1>6 DEF Ends, Doing, Over
  <2> QED BY <2>1, CommitAsked DEF Shaped
<1> QED BY <1>1, <1>2, <1>3, <1>4, <1>5, <1>6 DEF RollingBack

(* Whoever changes what the profile shows, an ingestion, a correction with a        *)
(* refresh operation or the rollback of one made for a person, has the request for  *)
(* its refresh among the commits it makes before the next await.                    *)
THEOREM ChangesAsked == CorrectionSpec => []ChangeIsAsked
<1>1. CorrectionInit => Asked
  BY DEF CorrectionInit, Init, Asked, AskFollows, ChangeIsAsked
<1>2. Shaped /\ Asked /\ [CorrectionNext]_vars => Asked'
  <2> SUFFICES ASSUME Shaped, Asked, [CorrectionNext]_vars PROVE Asked'
    OBVIOUS
  <2>1. CASE UNCHANGED vars
    BY <2>1, SameAsked DEF vars, facts
  <2>2. CASE Restart /\ kind' = kind
    <3>1. script' = <<>> /\ refresh' # "owed"
      BY <2>2 DEF Restart, Crash
    <3> QED BY <2>2, <3>1, SettledAsked DEF AskFollows
  <2> QED BY <2>1, <2>2, OthersAsked, ExecutingAsked, RollingBackAsked DEF CorrectionNext
<1>3. Asked => ChangeIsAsked
  BY DEF Asked
<1> QED BY <1>1, <1>2, <1>3, ShapedAlways, PTL DEF CorrectionSpec
-----------------------------------------------------------------------------
(* A plan that is executed once leaves nothing when it is rolled back. *)

\* This is still to be done about a plan or a paragraph, in the script that runs.
Ahead(x, name) == \E i \in DOMAIN script : script[i] = <<name, x>>

\* The commits of a rollback are about one plan, and what records how a script has ended
\* is its last.
UndoName == {"uncascade", "unmeta", "unfact", "ask", "rolled"}

RollsLast ==
    \A i \in DOMAIN script :
        /\ script[i][1] \in {"rolled", "unrolled", "record"} => i = Len(script)
        /\ \A pl \in Plan : script[i] = <<"rolled", pl>> =>
              \A j \in DOMAIN script : \E n \in UndoName : script[j] = <<n, pl>>

MetaOnce ==
    \A i, j \in DOMAIN script : script[i][1] = "meta" /\ script[j][1] = "meta" => i = j

\* A claim is detached only while nothing supports it.
Attached == \A c \in Claim : claim[c].detached => ~Held(c)

\* No row, snapshot or mark says that the plan has superseded a paragraph.
Unmentioned(pl) ==
    /\ \A p \in Paragraph : para[p].change # pl
    /\ \A o \in Op : ops[o].status = "deleted" => ops[o].row.change # pl
    /\ \A q \in Plan : run[q].mark.change # pl /\ plan[q].mark.change # pl

\* Nothing has been stored for the plan.
Unstored(pl) ==
    /\ run[pl].step = "none"
    /\ para[Text[pl]].state = "none" /\ Text[pl] \notin ref
    /\ \A o \in Op : ops[o].status = "deleted" => ops[o].of # Text[pl]
    /\ ~Ahead(Text[pl], "ref")

Unexecuted(pl) == plan[pl].status = "awaiting" => Unstored(pl)

Unmarked(pl) ==
    plan[pl].status = "awaiting" \/ run[pl].step = "text" \/ Ahead(pl, "meta") => Unmentioned(pl)

UnderWay(pl) == Ahead(pl, "meta") \/ Ahead(pl, "record") => run[pl].step = "marks"

OwnMark(pl) == run[pl].mark.change # pl /\ plan[pl].mark.change # pl

Stored(pl) ==
    /\ run[pl].step = "marks" => run[pl].stored
    /\ plan[pl].status = "executed" => plan[pl].stored

\* The rollback of a plan, as far as it has come.
Undone(pl) ==
    LET mark == plan[pl].mark IN
    Ahead(pl, "rolled") =>
        /\ ~Live(Text[pl])
        /\ mark.taken =>
              /\ Ahead(pl, "uncascade") \/ (Target[pl] \in inactive => mark.inactive)
              /\ Ahead(pl, "unmeta") \/ para[Target[pl]].change = mark.change
              /\ \/ Ahead(pl, "unfact")
                 \/ /\ mark.facts.evidence \subseteq support
                    /\ \A c \in Claims(mark.facts.evidence) : ~claim[c].detached

\* The text is deleted and stays so while the rollback awaits its clean-up.
TextStaysGone == \A pl \in Plan : run[pl].step = "delete" => ~Live(Text[pl])

Fine(pl) ==
    /\ Unexecuted(pl) /\ Unmarked(pl) /\ UnderWay(pl)
    /\ OwnMark(pl) /\ Stored(pl) /\ Undone(pl)

Undoable ==
    /\ RollsLast /\ MetaOnce /\ Attached /\ TextStaysGone
    /\ \A pl \in Plan \ repeated : Fine(pl)

-----------------------------------------------------------------------------
\* A script goes on.
LEMMA TailScript ==
    ASSUME IInv, RollsLast, MetaOnce, script # <<>>, Done
    PROVE  /\ RollsLast' /\ MetaOnce'
           /\ \A x, n : Ahead(x, n)' => Ahead(x, n)
           /\ \A x, n : Ahead(x, n) /\ Head(script) # <<n, x>> => Ahead(x, n)'
           /\ Head(script)[1] = "meta" => \A x : ~Ahead(x, "meta")'
<1>1. /\ script' = Tail(script) /\ Len(script) \in Nat \ {0} /\ DOMAIN script = 1 .. Len(script)
      /\ DOMAIN script' = 1 .. Len(script) - 1 /\ Head(script) = script[1]
      /\ Len(script') = Len(script) - 1
      /\ \A i \in DOMAIN script' : i \in Nat /\ script'[i] = script[i + 1] /\ i + 1 \in DOMAIN script
  BY DEF Done, IInv
<1>2. RollsLast'
  <2>1. ASSUME NEW i \in DOMAIN script', script'[i][1] \in {"rolled", "unrolled", "record"}
        PROVE  i = Len(script')
    <3>1. i + 1 = Len(script)
      BY <1>1, <2>1 DEF RollsLast
    <3> QED BY <1>1, <3>1
  <2>2. ASSUME NEW pl \in Plan, NEW i \in DOMAIN script', script'[i] = <<"rolled", pl>>
        PROVE  \A j \in DOMAIN script' : \E n \in UndoName : script'[j] = <<n, pl>>
    <3>1. \A j \in DOMAIN script : \E n \in UndoName : script[j] = <<n, pl>>
      BY <1>1, <2>2 DEF RollsLast
    <3> QED BY <1>1, <3>1
  <2> QED BY <2>1, <2>2 DEF RollsLast
<1>3. MetaOnce'
  <2> SUFFICES ASSUME NEW i \in DOMAIN script', NEW j \in DOMAIN script',
                      script'[i][1] = "meta", script'[j][1] = "meta"
               PROVE  i = j
    BY DEF MetaOnce
  <2>1. i + 1 = j + 1
    BY <1>1 DEF MetaOnce
  <2> QED BY <1>1, <2>1
<1>4. \A x, n : Ahead(x, n)' => Ahead(x, n)
  BY <1>1 DEF Ahead
<1>5. ASSUME NEW x, NEW n, Ahead(x, n), Head(script) # <<n, x>> PROVE Ahead(x, n)'
  <2>1. PICK i \in DOMAIN script : script[i] = <<n, x>>
    BY <1>5 DEF Ahead
  <2>2. i # 1 /\ i \in Nat
    BY <1>1, <1>5, <2>1
  <2>3. i - 1 \in DOMAIN script' /\ (i - 1) + 1 = i
    BY <1>1, <2>2
  <2>4. script'[i - 1] = <<n, x>>
    BY <1>1, <2>1, <2>3
  <2> QED BY <2>3, <2>4 DEF Ahead
<1>6. ASSUME Head(script)[1] = "meta", NEW x, Ahead(x, "meta")' PROVE FALSE
  <2>1. PICK i \in DOMAIN script' : script'[i] = <<"meta", x>>
    BY <1>6 DEF Ahead
  <2>2. i + 1 = 1
    BY <1>1, <1>6, <2>1 DEF MetaOnce
  <2> QED BY <1>1, <2>2
<1> QED BY <1>2, <1>3, <1>4, <1>5, <1>6

\* What a commit is: the head of the script.
LEMMA HeadIs ==
    ASSUME IInv, NEW n, Doing(n)
    PROVE  script # <<>> /\ Head(script) = <<n, Arg>> /\ Ahead(Arg, n)
<1>1. /\ script # <<>> /\ Head(script) \in Commit /\ Head(script)[1] = n
      /\ 1 \in DOMAIN script /\ script[1] = Head(script)
  BY DEF IInv, Doing
<1> QED BY <1>1 DEF Commit, Arg, Ahead

\* The script of a rollback is about its plan.
LEMMA RollingHead ==
    ASSUME IInv, RollsLast, script # <<>>, NEW pl \in Plan, Ahead(pl, "rolled")
    PROVE  \E n \in UndoName : Head(script) = <<n, pl>>
<1>1. 1 \in DOMAIN script /\ Head(script) = script[1]
  BY DEF IInv
<1>2. PICK k \in DOMAIN script : script[k] = <<"rolled", pl>>
  BY DEF Ahead
<1>3. \A j \in DOMAIN script : \E n \in UndoName : script[j] = <<n, pl>>
  BY <1>2 DEF RollsLast
<1> QED BY <1>1, <1>3

\* The commit that ends a rollback, or records an execution, is all that is left of its script.
LEMMA LastCommit ==
    ASSUME IInv, RollsLast, script # <<>>, Head(script)[1] \in {"rolled", "unrolled", "record"}
    PROVE  /\ Done => script' = <<>>
           /\ \A x, n : Ahead(x, n) => Head(script)[1] = n
<1>1. Len(script) \in Nat \ {0} /\ DOMAIN script = 1 .. Len(script) /\ Head(script) = script[1]
  BY DEF IInv
<1>2. Len(script) = 1
  BY <1>1 DEF RollsLast
<1>3. Done => script' = <<>>
  BY <1>2 DEF Done, IInv
<1> QED BY <1>1, <1>2, <1>3 DEF Ahead

\* A script of an execution of q: it marks once, is recorded last, and rolls nothing back.
MarksOnly(s, q) ==
    /\ \A i \in DOMAIN s : /\ s[i][1] # "rolled" /\ s[i][1] # "unrolled"
                           /\ s[i][1] = "meta" => s[i] = <<"meta", q>>
                           /\ s[i][1] = "record" => s[i] = <<"record", q>> /\ i = Len(s)
    /\ \A i, j \in DOMAIN s : s[i][1] = "meta" /\ s[j][1] = "meta" => i = j

\* The script of a marked target is one; it refers to no paragraph.
LEMMA MarksOnlyMark ==
    ASSUME NEW pl \in Plan
    PROVE  MarksOnly(Marks(pl), pl) /\ \A i \in DOMAIN Marks(pl) : Marks(pl)[i][1] # "ref"
<1> DEFINE Harmless(n) == n # "rolled" /\ n # "unrolled" /\ n # "ref"
<1>1. ASSUME NEW names, NEW k, Len(Steps(pl, names)) = k,
             \A i \in DOMAIN names : /\ Harmless(names[i])
                                     /\ names[i] = "meta" => i = 1
                                     /\ names[i] = "record" => i = k
      PROVE  /\ MarksOnly(Steps(pl, names), pl)
             /\ \A i \in DOMAIN Steps(pl, names) : Steps(pl, names)[i][1] # "ref"
  <2>1. /\ DOMAIN Steps(pl, names) = DOMAIN names
        /\ \A i \in DOMAIN names : Steps(pl, names)[i] = <<names[i], pl>>
    BY DEF Steps
  <2> QED BY <1>1, <2>1 DEF MarksOnly
<1>2. ASSUME NEW last \in {"ask", "record"}
      PROVE  /\ MarksOnly(Steps(pl, LongMark(last)), pl)
             /\ \A i \in DOMAIN Steps(pl, LongMark(last)) : Steps(pl, LongMark(last))[i][1] # "ref"
  <2> DEFINE long == LongMark(last)
  <2>1. Len(Steps(pl, long)) = 4
    BY DEF LongMark, Steps
  <2>2. \A i \in DOMAIN long : Harmless(long[i]) /\ (long[i] = "meta" => i = 1) /\ (long[i] = "record" => i = 4)
    BY DEF LongMark
  <2> HIDE DEF long, Harmless
  <2>3. /\ MarksOnly(Steps(pl, long), pl)
        /\ \A i \in DOMAIN Steps(pl, long) : Steps(pl, long)[i][1] # "ref"
    BY <1>1, <2>1, <2>2
  <2> QED BY <2>3 DEF long
<1>3. ASSUME NEW last \in {"ask", "record"}
      PROVE  /\ MarksOnly(Steps(pl, <<last>>), pl)
             /\ \A i \in DOMAIN Steps(pl, <<last>>) : Steps(pl, <<last>>)[i][1] # "ref"
  <2> DEFINE short == <<last>>
  <2>1. Len(Steps(pl, short)) = 1
    BY DEF Steps
  <2>2. \A i \in DOMAIN short : Harmless(short[i]) /\ (short[i] = "meta" => i = 1) /\ (short[i] = "record" => i = 1)
    OBVIOUS
  <2> HIDE DEF short, Harmless
  <2>3. /\ MarksOnly(Steps(pl, short), pl)
        /\ \A i \in DOMAIN Steps(pl, short) : Steps(pl, short)[i][1] # "ref"
    BY <1>1, <2>1, <2>2
  <2> QED BY <2>3 DEF short
<1>4. Marks(pl) \in {Steps(pl, LongMark("ask")), Steps(pl, LongMark("record")),
                    Steps(pl, <<"ask">>), Steps(pl, <<"record">>)}
  BY MarksAre
<1> QED BY <1>2, <1>3, <1>4

\* What is stored of paragraph p: it refers to no other.
Written(s, p) ==
    \A i \in DOMAIN s : /\ s[i][1] \in {"claims", "ref", "ask"}
                        /\ \A t : s[i] = <<"ref", t>> => t = p

LEMMA StoresWritten ==
    /\ \A p : Written(Writes(p), p)
    /\ \A pl \in Plan : Written(Stores(pl), Text[pl])
<1>1. ASSUME NEW p PROVE Written(Writes(p), p) /\ Written(<< <<"ref", p>> >>, p)
  <2>1. /\ DOMAIN Writes(p) = 1 .. 3 /\ Writes(p)[1] = <<"claims", p>>
        /\ Writes(p)[2] = <<"ref", p>> /\ Writes(p)[3] = <<"ask", p>>
    BY DEF Writes
  <2>2. \A i \in 1 .. 3 : i = 1 \/ i = 2 \/ i = 3
    OBVIOUS
  <2>3. Written(Writes(p), p)
    BY <2>1, <2>2 DEF Written
  <2>4. Written(<< <<"ref", p>> >>, p)
    BY DEF Written
  <2> QED BY <2>3, <2>4
<1> QED BY <1>1 DEF Stores

\* So is a script of what is stored, alone or before the marks.
LEMMA MarksOnlyWritten ==
    ASSUME NEW s, NEW p, Written(s, p), NEW q
    PROVE  MarksOnly(s, q) /\ \A i \in DOMAIN s : \A t : s[i] = <<"ref", t>> => t = p
BY DEF MarksOnly, Written

LEMMA MarksOnlyJoined ==
    ASSUME NEW w \in Seq(Commit), NEW more \in Seq(Commit), NEW p, Written(w, p), NEW q, MarksOnly(more, q),
           \A i \in DOMAIN more : more[i][1] # "ref"
    PROVE  /\ MarksOnly(w \o more, q)
           /\ \A i \in DOMAIN (w \o more) : \A t : (w \o more)[i] = <<"ref", t>> => t = p
<1> DEFINE s == w \o more
           k == Len(w)
<1>1. /\ \A i \in DOMAIN s : \/ i \in DOMAIN w /\ s[i] = w[i]
                             \/ i - k \in DOMAIN more /\ s[i] = more[i - k]
      /\ \A i \in DOMAIN s : i \in Nat
      /\ k \in Nat /\ Len(more) \in Nat /\ Len(s) = k + Len(more)
  <2>1. /\ DOMAIN s = 1 .. k + Len(more) /\ Len(more) \in Nat /\ k \in Nat /\ Len(s) = k + Len(more)
    OBVIOUS
  <2>2. ASSUME NEW i \in DOMAIN s
        PROVE  \/ i \in DOMAIN w /\ s[i] = w[i]
               \/ i - k \in DOMAIN more /\ s[i] = more[i - k]
    BY ConcatenatedAt
  <2> QED BY <2>1, <2>2
<1> HIDE DEF s, k
<1>2. \A i \in DOMAIN w : /\ w[i][1] \notin {"rolled", "unrolled", "meta", "record"}
                          /\ \A t : w[i] = <<"ref", t>> => t = p
  BY DEF Written
<1>3. ASSUME NEW i \in DOMAIN s
      PROVE  /\ s[i][1] # "rolled" /\ s[i][1] # "unrolled" /\ (s[i][1] = "meta" => s[i] = <<"meta", q>>)
             /\ s[i][1] = "record" => s[i] = <<"record", q>> /\ i = Len(s)
  <2>1. CASE i \in DOMAIN w /\ s[i] = w[i]
    BY <1>2, <2>1
  <2>2. CASE i - k \in DOMAIN more /\ s[i] = more[i - k]
    <3>1. s[i][1] = "record" => i - k = Len(more)
      BY <2>2 DEF MarksOnly
    <3>2. i - k = Len(more) => i = Len(s)
      BY <1>1
    <3> QED BY <2>2, <3>1, <3>2 DEF MarksOnly
  <2> QED BY <1>1, <2>1, <2>2
<1>4. ASSUME NEW i \in DOMAIN s, NEW j \in DOMAIN s, s[i][1] = "meta", s[j][1] = "meta" PROVE i = j
  <2>1. /\ i - k \in DOMAIN more /\ s[i] = more[i - k]
        /\ j - k \in DOMAIN more /\ s[j] = more[j - k]
    BY <1>1, <1>2, <1>4
  <2>2. i - k = j - k
    BY <1>4, <2>1 DEF MarksOnly
  <2> QED BY <1>1, <2>2
<1>5. \A i \in DOMAIN s : \A t : s[i] = <<"ref", t>> => t = p
  BY <1>1, <1>2
<1> QED BY <1>3, <1>4, <1>5 DEF MarksOnly, s

\* While it runs, no rollback does, and only its plan marks.
LEMMA MarksOnlyScript ==
    ASSUME NEW q, MarksOnly(script', q)
    PROVE  /\ RollsLast' /\ MetaOnce' /\ \A x : ~Ahead(x, "rolled")'
           /\ \A x : Ahead(x, "meta")' \/ Ahead(x, "record")' => x = q
<1>1. \A i \in DOMAIN script' : /\ script'[i][1] # "rolled" /\ script'[i][1] # "unrolled"
                                /\ script'[i][1] = "meta" => script'[i] = <<"meta", q>>
                                /\ script'[i][1] = "record" => script'[i] = <<"record", q>> /\ i = Len(script')
  BY DEF MarksOnly
<1>2. ASSUME NEW i \in DOMAIN script', NEW x, script'[i] = <<"rolled", x>> PROVE FALSE
  <2>1. script'[i][1] = "rolled"
    BY <1>2
  <2> QED BY <1>1, <2>1
<1>3. RollsLast'
  <2>1. ASSUME NEW i \in DOMAIN script', script'[i][1] \in {"rolled", "unrolled", "record"} PROVE i = Len(script')
    BY <1>1, <2>1
  <2> QED BY <1>2, <2>1 DEF RollsLast
<1>4. \A x : ~Ahead(x, "rolled")'
  BY <1>2 DEF Ahead
<1>5. ASSUME NEW x, NEW n \in {"meta", "record"}, Ahead(x, n)' PROVE x = q
  <2>1. PICK i \in DOMAIN script' : script'[i] = <<n, x>>
    BY <1>5 DEF Ahead
  <2>2. script'[i] = <<n, q>>
    BY <1>1, <1>5, <2>1
  <2> QED BY <2>1, <2>2
<1>6. MetaOnce'
  BY DEF MarksOnly, MetaOnce
<1> QED BY <1>3, <1>4, <1>5, <1>6

\* The script of a rollback begins.
LEMMA UndoScript ==
    ASSUME NEW pl \in Plan, script' = Undo(pl)
    PROVE  /\ RollsLast' /\ MetaOnce' /\ \A x : ~Ahead(x, "meta")' /\ ~Ahead(x, "ref")' /\ ~Ahead(x, "record")'
           /\ \A x : Ahead(x, "rolled")' =>
                 /\ x = pl
                 /\ plan[pl].mark.taken =>
                       Ahead(pl, "uncascade")' /\ Ahead(pl, "unmeta")' /\ Ahead(pl, "unfact")'
<1>1. ASSUME NEW names, NEW k \in Nat, DOMAIN names = 1 .. k, Len(script') = k, script' = Steps(pl, names),
             \A i \in 1 .. k : names[i] \notin {"meta", "ref", "record"},
             \A i \in 1 .. k : /\ names[i] = "rolled" \/ names[i] = "unrolled" => i = k
                               /\ names[i] = "rolled" => \A j \in 1 .. k : names[j] \in UndoName
      PROVE  /\ RollsLast' /\ MetaOnce' /\ \A x : ~Ahead(x, "meta")' /\ ~Ahead(x, "ref")' /\ ~Ahead(x, "record")'
             /\ \A x, n : Ahead(x, n)' => x = pl
             /\ \A i \in 1 .. k : Ahead(pl, names[i])'
             /\ \A x, n : Ahead(x, n)' => \E i \in 1 .. k : names[i] = n
    <2>1. DOMAIN script' = 1 .. k /\ \A i \in 1 .. k : script'[i] = <<names[i], pl>>
      BY <1>1 DEF Steps
    <2>2. RollsLast'
      BY <1>1, <2>1 DEF RollsLast
    <2>3. MetaOnce'
      BY <1>1, <2>1 DEF MetaOnce
    <2>4. \A x, n : Ahead(x, n)' => x = pl /\ \E i \in 1 .. k : names[i] = n
      BY <2>1 DEF Ahead
    <2>5. \A i \in 1 .. k : Ahead(pl, names[i])'
      BY <2>1 DEF Ahead
    <2> QED BY <1>1, <2>2, <2>3, <2>4, <2>5
<1>2. ASSUME NEW names, NEW k \in Nat, DOMAIN names = 1 .. k, Len(Steps(pl, names)) = k, script' = Steps(pl, names),
             \A i \in 1 .. k : /\ names[i] \in UndoName
                               /\ names[i] = "rolled" => i = k
      PROVE  /\ RollsLast' /\ MetaOnce' /\ \A x : ~Ahead(x, "meta")' /\ ~Ahead(x, "ref")' /\ ~Ahead(x, "record")'
             /\ \A x, n : Ahead(x, n)' => x = pl
             /\ \A i \in 1 .. k : Ahead(pl, names[i])'
  <2>1. \A n \in UndoName : n \notin {"meta", "ref", "record", "unrolled"}
    BY DEF UndoName
  <2> QED BY <1>1, <1>2, <2>1
<1>3. CASE ~plan[pl].mark.taken /\ \E names \in {<<"ask", "rolled">>, <<"rolled">>} : script' = Steps(pl, names)
  <2>1. PICK names \in {<<"ask", "rolled">>, <<"rolled">>} : script' = Steps(pl, names)
    BY <1>3
  <2>2. PICK k \in {1, 2} : DOMAIN names = 1 .. k /\ Len(Steps(pl, names)) = k
    BY <2>1 DEF Steps
  <2>3. \A i \in 1 .. k : names[i] \in UndoName /\ (names[i] = "rolled" => i = k)
    BY <2>1, <2>2 DEF UndoName
  <2> QED BY <1>2, <1>3, <2>1, <2>2, <2>3
<1>4. CASE \E names \in {LongUndo, QuietUndo} : script' = Steps(pl, names)
  <2>1. PICK names \in {LongUndo, QuietUndo} : script' = Steps(pl, names)
    BY <1>4
  <2>2. PICK k \in {4, 5} : /\ DOMAIN names = 1 .. k /\ Len(Steps(pl, names)) = k
                            /\ \A i \in 1 .. k : names[i] \in UndoName /\ (names[i] = "rolled" => i = k)
    <3>1. /\ DOMAIN LongUndo = 1 .. 5 /\ Len(Steps(pl, LongUndo)) = 5
          /\ DOMAIN QuietUndo = 1 .. 4 /\ Len(Steps(pl, QuietUndo)) = 4
      BY DEF LongUndo, QuietUndo, Steps
    <3>2. \A i \in 1 .. 5 : LongUndo[i] \in UndoName /\ (LongUndo[i] = "rolled" => i = 5)
      BY DEF LongUndo, UndoName
    <3>3. \A i \in 1 .. 4 : QuietUndo[i] \in UndoName /\ (QuietUndo[i] = "rolled" => i = 4)
      BY DEF QuietUndo, UndoName
    <3> QED BY <2>1, <3>1, <3>2, <3>3
  <2>3. names[1] = "uncascade" /\ names[2] = "unmeta" /\ names[3] = "unfact"
    BY <2>1 DEF LongUndo, QuietUndo
  <2>4. /\ RollsLast' /\ MetaOnce' /\ \A x : ~Ahead(x, "meta")' /\ ~Ahead(x, "ref")' /\ ~Ahead(x, "record")'
        /\ \A x, n : Ahead(x, n)' => x = pl
        /\ \A i \in 1 .. k : Ahead(pl, names[i])'
    BY <1>2, <2>1, <2>2
  <2>5. Ahead(pl, "uncascade")' /\ Ahead(pl, "unmeta")' /\ Ahead(pl, "unfact")'
    <3>1. 1 \in 1 .. k /\ 2 \in 1 .. k /\ 3 \in 1 .. k
      BY <2>2
    <3> QED BY <2>3, <2>4, <3>1
  <2> QED BY <2>4, <2>5
<1>5. CASE script' = Steps(pl, <<"unrolled">>)
  <2> DEFINE names == <<"unrolled">>
  <2>1. DOMAIN names = 1 .. 1 /\ Len(Steps(pl, names)) = 1
    BY DEF Steps
  <2>2. /\ \A i \in 1 .. 1 : names[i] \notin {"meta", "ref", "record"} /\ names[i] # "rolled"
        /\ \A i \in 1 .. 1 : /\ names[i] = "rolled" \/ names[i] = "unrolled" => i = 1
                             /\ names[i] = "rolled" => \A j \in 1 .. 1 : names[j] \in UndoName
    OBVIOUS
  <2>3. script' = Steps(pl, names) /\ Len(script') = 1 /\ 1 \in Nat
    BY <1>5, <2>1
  <2> HIDE DEF names
  <2>4. /\ RollsLast' /\ MetaOnce' /\ \A x : ~Ahead(x, "meta")' /\ ~Ahead(x, "ref")' /\ ~Ahead(x, "record")'
        /\ \A x, n : Ahead(x, n)' => \E i \in 1 .. 1 : names[i] = n
    BY <1>1, <2>1, <2>2, <2>3
  <2> QED BY <2>2, <2>4
<1> QED BY <1>3, <1>4, <1>5, UndoIs

-----------------------------------------------------------------------------
\* A claim that is detached has no support: nothing becomes detached, and no support comes ...
LEMMA StaysAttached ==
    ASSUME Attached, support' \subseteq support,
           \A c \in Claim : claim'[c].detached => claim[c].detached
    PROVE  Attached'
BY DEF Attached, Held

\* ... what is detached has lost its last paragraph ...
LEMMA DetachAttached ==
    ASSUME TypeOK, Attached, NEW p, claim' = Detach(p), support' = support \ Evidence(p)
    PROVE  Attached'
<1> SUFFICES ASSUME NEW c \in Claim, claim'[c].detached, NEW q \in Paragraph, <<c, q>> \in support'
             PROVE  FALSE
  BY DEF Attached, Held
<1>1. c \in Claims(support \ Evidence(p))
  BY DEF Claims
<1>2. claim'[c] = claim[c]
  BY <1>1 DEF Detach
<1> QED BY <1>2 DEF Attached, Held

\* ... and what a snapshot supports again is attached.
LEMMA ReattachAttached ==
    ASSUME TypeOK, Attached, NEW p \in Paragraph, NEW snap, IsSnapshot(snap, p),
           claim' = Reattach(snap), support' = support \cup snap.evidence
    PROVE  Attached' /\ \A c \in Claims(snap.evidence) : ~claim'[c].detached
<1>1. \A e \in snap.evidence : e = <<e[1], p>> /\ e[1] \in Claim
  BY DEF IsSnapshot
<1>2. ASSUME NEW c \in Claims(snap.evidence) PROVE c \in Claim /\ ~claim'[c].detached
  <2>1. PICK e \in snap.evidence : e = <<c, p>> /\ c \in Claim
    BY <1>1, <1>2 DEF Claims
  <2>2. CASE e \in support
    <3>1. ~claim[c].detached
      BY <2>1, <2>2 DEF Attached, Held
    <3> QED BY <2>1, <3>1 DEF Reattach, Entry
  <2>3. CASE e \notin support
    BY <2>1, <2>3 DEF Reattach, Entry
  <2> QED BY <2>1, <2>2, <2>3
<1>3. ASSUME NEW c \in Claim, claim'[c].detached, NEW q \in Paragraph, <<c, q>> \in support'
      PROVE  FALSE
  <2>1. c \notin Claims(snap.evidence)
    BY <1>2, <1>3
  <2>2. claim'[c] = claim[c]
    BY <2>1 DEF Reattach
  <2>3. <<c, q>> \in support
    BY <1>3, <2>1 DEF Claims
  <2> QED BY <1>3, <2>2, <2>3 DEF Attached, Held
<1> QED BY <1>2, <1>3 DEF Attached, Held

\* What asserts, retracts or restores a claim detaches none.
LEMMA LedgerAttached ==
    ASSUME NEW cl, Ledger(cl), NEW c \in Claim, NEW over
    PROVE  /\ \A d \in Claim : Asserted(cl, c, over)[d].detached => cl[d].detached /\ d # c
           /\ \A d \in Claim : Retract(cl, c)[d].detached => cl[d].detached
           /\ \A d \in Claim : Restore(cl, c)[d].detached => cl[d].detached
<1>1. \A d \in Claim : Asserted(cl, c, over)[d].detached => cl[d].detached /\ d # c
  BY DEF Asserted, Entry
<1>2. Retract(cl, c) = [d \in Claim |-> IF d = c
                             THEN IF cl[c].status = "retracted" THEN cl[c] ELSE Entry("retracted")
                             ELSE cl[d]]
  BY DEF Ledger, Retract
<1>3. Restore(cl, c) = [d \in Claim |-> IF d = c
                             THEN IF cl[c].status = Beside(cl, c, {}) THEN cl[c]
                                  ELSE Entry(Beside(cl, c, {}))
                             ELSE cl[d]]
  BY DEF Ledger, Restore
<1> QED BY <1>1, <1>2, <1>3 DEF Entry

\* Facts are administered.
LEMMA AdministrationAttached ==
    ASSUME Shaped, Attached, Administration
    PROVE  Attached'
<1>1. Ledger(claim)
  BY DEF Shaped, IInv
<1>2. support' = support
  BY DEF Administration, CreateFact, ClassifyFact, RetractFact, RestoreFact, UpdateFact, Administer
<1>3. ASSUME NEW c \in Claim, CreateFact(c) PROVE \A d \in Claim : claim'[d].detached => claim[d].detached
  <2>1. claim' = Asserted(claim, c, {})
    BY <1>3 DEF CreateFact, Administer, Becomes
  <2> QED BY <1>1, <2>1, LedgerAttached
<1>4. ASSUME NEW c \in Claim, ClassifyFact(c) PROVE \A d \in Claim : claim'[d].detached => claim[d].detached
  <2>1. claim' = [claim EXCEPT ![c] = Entry(@.status)]
    BY <1>4 DEF ClassifyFact, Administer, Becomes
  <2>2. claim' = [d \in Claim |-> IF d = c THEN Entry(claim[c].status) ELSE claim[d]]
    BY <1>1, <2>1 DEF Ledger
  <2> QED BY <2>2 DEF Entry
<1>5. ASSUME NEW c \in Claim, RetractFact(c) PROVE \A d \in Claim : claim'[d].detached => claim[d].detached
  <2>1. claim' = Retract(claim, c)
    BY <1>5 DEF RetractFact, Administer, Becomes
  <2> QED BY <1>1, <2>1, LedgerAttached
<1>6. ASSUME NEW c \in Claim, RestoreFact(c) PROVE \A d \in Claim : claim'[d].detached => claim[d].detached
  <2>1. claim' = Restore(claim, c)
    BY <1>6 DEF RestoreFact, Administer, Becomes
  <2> QED BY <1>1, <2>1, LedgerAttached
<1>7. ASSUME NEW c \in Claim, NEW d \in Claim, UpdateFact(c, d)
      PROVE  \A e \in Claim : claim'[e].detached => claim[e].detached
  <2> DEFINE one == Asserted(claim, d, {})
             two == Retract(one, c)
  <2>1. claim' = Asserted(claim, d, {c}) \/ claim' = Restore(two, d)
    BY <1>7 DEF UpdateFact, Administer, Becomes
  <2>2. Ledger(one) /\ \A e \in Claim : one[e].detached => claim[e].detached
    BY <1>1, AssertedPairs, LedgerAttached
  <2> HIDE DEF one
  <2>3. Ledger(two) /\ \A e \in Claim : two[e].detached => one[e].detached
    BY <2>2, RetractPairs, LedgerAttached
  <2> HIDE DEF two
  <2>4. \A e \in Claim : Restore(two, d)[e].detached => two[e].detached
    BY <2>3, LedgerAttached
  <2>5. \A e \in Claim : Asserted(claim, d, {c})[e].detached => claim[e].detached
    BY <1>1, LedgerAttached
  <2> QED BY <2>1, <2>2, <2>3, <2>4, <2>5
<1>8. \A d \in Claim : claim'[d].detached => claim[d].detached
  BY <1>3, <1>4, <1>5, <1>6, <1>7 DEF Administration
<1> QED BY <1>2, <1>8, StaysAttached

\* A claim that is written has the paragraph that says it.
LEMMA WriteClaimsAttached ==
    ASSUME Shaped, Attached, WriteClaims
    PROVE  Attached'
<1>1. Ledger(claim) /\ Arg \in Paragraph /\ Says[Arg] \in Claim
  BY Args, SaysAssumption DEF Shaped, WriteClaims, IInv
<1>2. PICK p \in Paragraph, s \in Claim : p = Arg /\ s = Says[Arg]
  BY <1>1
<1>3. support' = support \cup {<<s, p>>}
  BY <1>2 DEF WriteClaims
<1>4. PICK over : claim' = IF <<s, p>> \in support /\ over = {} THEN claim ELSE Asserted(claim, s, over)
  BY <1>2 DEF WriteClaims, Becomes
<1>5. \A c \in Claim : claim'[c].detached => claim[c].detached
  BY <1>1, <1>4, LedgerAttached
<1>6. ~claim'[s].detached
  <2>1. CASE <<s, p>> \in support
    BY <1>5, <2>1 DEF Attached, Held
  <2>2. CASE <<s, p>> \notin support
    BY <1>1, <1>4, <2>2, LedgerAttached
  <2> QED BY <2>1, <2>2
<1>7. ASSUME NEW c \in Claim, claim'[c].detached, NEW q \in Paragraph, <<c, q>> \in support'
      PROVE  FALSE
  <2>1. <<c, q>> \in support
    BY <1>3, <1>6, <1>7
  <2> QED BY <1>5, <1>7, <2>1 DEF Attached, Held
<1> QED BY <1>7 DEF Attached, Held

\* Facts of a paragraph come back with their evidence.
LEMMA RestoreDeletedAttached ==
    ASSUME Shaped, Attached, NEW o \in Op, RestoreDeleted(o)
    PROVE  Attached'
<1>1. ops[o].of \in Paragraph /\ IsSnapshot(ops[o].facts, ops[o].of)
  BY DEF Shaped, OpsShaped, IsOp, RestoreDeleted
<1>2. claim' = Reattach(ops[o].facts) /\ support' = support \cup ops[o].facts.evidence
  BY DEF RestoreDeleted, Becomes
<1> QED BY <1>1, <1>2, ReattachAttached DEF Shaped

\* A rollback brings back what its plan took.
LEMMA UnfactAttached ==
    ASSUME Shaped, Attached, NEW pl \in Plan, Arg = pl, Unfact
    PROVE  /\ Attached'
           /\ plan[pl].mark.facts.evidence \subseteq support'
           /\ \A c \in Claims(plan[pl].mark.facts.evidence) : ~claim'[c].detached
<1>1. PICK snap : snap = plan[pl].mark.facts
  OBVIOUS
<1>2. Target[pl] \in Paragraph /\ IsSnapshot(snap, Target[pl])
  BY <1>1, PlansAssumption DEF Shaped, PlansShaped, IsPlan, IsMark
<1>3. claim' = Reattach(snap) /\ support' = support \cup snap.evidence
  BY <1>1 DEF Unfact, Corrects, Becomes
<1> QED BY <1>1, <1>2, <1>3, ReattachAttached DEF Shaped

\* No step detaches a claim that keeps its support.
LEMMA StepAttached ==
    ASSUME Shaped, Attached, CorrectionNext
    PROVE  Attached'
<1>1. ASSUME UNCHANGED <<claim, support>> PROVE Attached'
  BY <1>1, StaysAttached
<1>2. CASE Others
  <2>1. CASE Ingestion
    BY <1>1, <2>1 DEF Ingestion, Ingest, Embedded, EmbeddingFails
  <2>2. CASE Writing
    <3>1. CASE WriteRef \/ Ask
      BY <1>1, <3>1 DEF WriteRef, Ask, Becomes
    <3> QED BY <2>2, <3>1, WriteClaimsAttached DEF Writing
  <2>3. CASE \/ \E o \in Op, p \in Paragraph : Delete(o, p)
             \/ \E p \in Paragraph : Purge(p)
    <3>1. \E p \in Paragraph : claim' = Detach(p) /\ support' = support \ Evidence(p)
      BY <2>3 DEF Delete, DeleteParagraph, Purge, Becomes
    <3> QED BY <3>1, DetachAttached DEF Shaped
  <2> QED BY <1>2, <2>1, <2>2, <2>3, AdministrationAttached, RestoreDeletedAttached
          DEF Others, Deletion, Purging
<1>3. CASE MarkFacts \/ \E pl \in Plan, o \in Op : RollBack(pl, o)
  <2>1. \E p : claim' = Detach(p) /\ support' = support \ Evidence(p)
    BY <1>3 DEF MarkFacts, RollBack, DeleteParagraph, Corrects, Becomes
  <2> QED BY <2>1, DetachAttached DEF Shaped
<1>4. CASE Unfact
  <2>1. Arg \in Plan
    BY <1>4, Args DEF Shaped, Unfact
  <2> QED BY <1>4, <2>1, UnfactAttached
<1>5. CASE \E pl \in Plan : \/ Execute(pl) \/ TextStored(pl) \/ TextFails(pl) \/ Finish(pl)
                            \/ TextGone(pl) \/ RollBackOnly(pl) \/ RollBackFails(pl)
  BY <1>1, <1>5
     DEF Execute, TextStored, TextFails, Finish, TextGone, RollBackOnly, RollBackFails,
         Embedded, EmbeddingFails, facts
<1>6. CASE \/ MarkMeta \/ Cascade \/ Conclude \/ Uncascade \/ Unmeta
           \/ Ends("rolled", "rolled_back") \/ Ends("unrolled", "rollback_failed") \/ Restart
  BY <1>1, <1>6 DEF MarkMeta, Cascade, Conclude, Uncascade, Unmeta, Ends, Restart, Crash
<1> QED BY <1>2, <1>3, <1>4, <1>5, <1>6 DEF CorrectionNext, Executing, RollingBack

-----------------------------------------------------------------------------
\* A plan that is as it was.
LEMMA StaysFine ==
    ASSUME NEW pl \in Plan, Fine(pl), plan'[pl] = plan[pl],
           run'[pl].step = run[pl].step, run'[pl].stored = run[pl].stored,
           run'[pl].mark.change = run[pl].mark.change,
           Unstored(pl) => Unstored(pl)', Unmentioned(pl) => Unmentioned(pl)',
           Ahead(pl, "meta")' => Ahead(pl, "meta"), Ahead(pl, "record")' => Ahead(pl, "record"),
           ~Ahead(pl, "rolled")' \/ Undone(pl)'
    PROVE  Fine(pl)'
BY DEF Fine, Unexecuted, Unmarked, UnderWay, OwnMark, Stored, Undone

\* Between two scripts, nobody's plan moves.
LEMMA IdleFine ==
    ASSUME Shaped, Undoable, script = <<>>, script' = <<>>, UNCHANGED <<run, plan, repeated>>,
           \A pl \in Plan : Unstored(pl) => Unstored(pl)',
           \A pl \in Plan : Unmentioned(pl) => Unmentioned(pl)'
    PROVE  RollsLast' /\ MetaOnce' /\ \A pl \in Plan \ repeated' : Fine(pl)'
<1>1. RollsLast' /\ MetaOnce'
  BY DEF RollsLast, MetaOnce
<1>2. \A x, n : ~Ahead(x, n)'
  BY DEF Ahead
<1> QED BY <1>1, <1>2, StaysFine DEF Undoable

\* Administration touches no plan.
LEMMA AdministrationUndoable ==
    ASSUME Shaped, Undoable, Administration, UNCHANGED corrections
    PROVE  Undoable'
<1>1. script = <<>> /\ UNCHANGED <<script, para, ref, ops, plan, run, repeated>>
  BY DEF Administration, CreateFact, ClassifyFact, RetractFact, RestoreFact, UpdateFact, Administer, corrections
<1>2. \A x, n : ~Ahead(x, n)'
  BY <1>1 DEF Ahead
<1>3. \A pl \in Plan : (Unstored(pl) => Unstored(pl)') /\ (Unmentioned(pl) => Unmentioned(pl)')
  BY <1>1, <1>2 DEF Unstored, Unmentioned
<1>4. RollsLast' /\ MetaOnce' /\ \A pl \in Plan \ repeated' : Fine(pl)'
  BY <1>1, <1>3, IdleFine
<1>5. TextStaysGone'
  BY <1>1 DEF Undoable, TextStaysGone, Live
<1>6. Attached'
  BY AdministrationAttached DEF Undoable
<1> QED BY <1>4, <1>5, <1>6 DEF Undoable

\* A text is nobody else's paragraph.
LEMMA Texts ==
    \A pl \in Plan : /\ Text[pl] \in Paragraph /\ Text[pl] \notin Ingested /\ Target[pl] \in Paragraph
                     /\ \A q \in Plan : Text[pl] = Text[q] => pl = q
BY PlansAssumption

\* A paragraph is ingested.
LEMMA IngestionUndoable ==
    ASSUME Shaped, Undoable, Ingestion, UNCHANGED corrections, Attached'
    PROVE  Undoable'
<1>1. TypeOK /\ RowsShaped /\ Ingested \subseteq Paragraph
  BY SaysAssumption DEF Shaped
<1>2. script = <<>> /\ UNCHANGED <<ref, ops, plan, run, repeated>>
  BY DEF Ingestion, Ingest, Embedded, EmbeddingFails, corrections
<1>3. CASE \E p \in Ingested : Ingest(p)
  <2>1. PICK p \in Ingested : para' = [para EXCEPT ![p] = [state |-> "live", change |-> para[p].change]]
    BY <1>3 DEF Ingest, AddParagraph
  <2>2. /\ script' = <<>>
        /\ \A q \in Paragraph : para'[q].change = para[q].change
        /\ \A q \in Paragraph \ {p} : para'[q] = para[q]
    BY <1>1, <1>2, <1>3, <2>1 DEF TypeOK, Ingest
  <2>3. \A x, n : ~Ahead(x, n)'
    BY <2>2 DEF Ahead
  <2>4. \A pl \in Plan : (Unstored(pl) => Unstored(pl)') /\ (Unmentioned(pl) => Unmentioned(pl)')
    BY <1>2, <2>2, <2>3, Texts DEF Unstored, Unmentioned
  <2>5. TextStaysGone'
    BY <1>2, <2>2, Texts DEF Undoable, TextStaysGone, Live
  <2> QED BY <1>2, <2>2, <2>4, <2>5, IdleFine DEF Undoable
<1>4. CASE \E p \in Ingested : EmbeddingFails(p)
  <2>1. UNCHANGED <<script, para>>
    BY <1>4 DEF EmbeddingFails
  <2>2. \A x, n : ~Ahead(x, n)'
    BY <1>2, <2>1 DEF Ahead
  <2>3. \A pl \in Plan : (Unstored(pl) => Unstored(pl)') /\ (Unmentioned(pl) => Unmentioned(pl)')
    BY <1>2, <2>1, <2>2 DEF Unstored, Unmentioned
  <2>4. TextStaysGone'
    BY <1>2, <2>1 DEF Undoable, TextStaysGone, Live
  <2> QED BY <1>2, <2>1, <2>3, <2>4, IdleFine DEF Undoable
<1>5. CASE \E p \in Ingested : Embedded(p, Writes(p))
  <2>1. PICK p \in Ingested : script' = Writes(p) /\ para' = para
    BY <1>5 DEF Embedded
  <2>3. /\ \A q : MarksOnly(script', q)
        /\ \A t : Ahead(t, "ref")' => t = p
    <3>1. Written(script', p)
      BY <2>1, StoresWritten
    <3>2. \A i \in DOMAIN script' : \A t : script'[i] = <<"ref", t>> => t = p
      BY <3>1 DEF Written
    <3> QED BY <3>1, <3>2, MarksOnlyWritten DEF Ahead
  <2>4. RollsLast' /\ MetaOnce' /\ \A x : ~Ahead(x, "rolled")' /\ ~Ahead(x, "meta")' /\ ~Ahead(x, "record")'
    <3>1. MarksOnly(script', 1) /\ MarksOnly(script', 2)
      BY <2>3
    <3> QED BY <3>1, MarksOnlyScript
  <2>5. \A pl \in Plan : (Unstored(pl) => Unstored(pl)') /\ (Unmentioned(pl) => Unmentioned(pl)')
    BY <1>2, <2>1, <2>3, Texts DEF Unstored, Unmentioned
  <2>6. \A pl \in Plan \ repeated' : Fine(pl)'
    BY <1>2, <2>4, <2>5, StaysFine DEF Undoable
  <2>7. TextStaysGone'
    BY <1>2, <2>1 DEF Undoable, TextStaysGone, Live
  <2> QED BY <2>4, <2>6, <2>7 DEF Undoable
<1> QED BY <1>3, <1>4, <1>5 DEF Ingestion

\* A paragraph is deleted, for a delete request or a rollback.
LEMMA DeleteKeepsOut ==
    ASSUME Shaped, NEW o \in Op, NEW p \in Paragraph, DeleteParagraph(o, p), script' = script,
           plan' = plan,
           \A q \in Plan : \/ run'[q].step = run[q].step
                           \/ p = Text[q],
           \A q \in Plan : run'[q].mark = run[q].mark
    PROVE  /\ \A pl \in Plan : (Unstored(pl) => Unstored(pl)') /\ (Unmentioned(pl) => Unmentioned(pl)')
           /\ para'[p].state = "deleted" /\ \A q \in Paragraph \ {p} : para'[q] = para[q]
<1>1. TypeOK /\ RowsShaped /\ OpsShaped
  BY DEF Shaped
<1>2. /\ para[p].state = "live" /\ script = <<>> /\ ref' \subseteq ref
      /\ para' = [para EXCEPT ![p].state = "deleted"]
      /\ ops' = [ops EXCEPT ![o] = [status |-> "deleted", of |-> p, row |-> para[p],
                                    ref |-> p \in ref, facts |-> Snapshot(p)]]
  BY DEF DeleteParagraph
<1>3. /\ \A q \in Paragraph : para'[q].change = para[q].change
      /\ para'[p].state = "deleted" /\ \A q \in Paragraph \ {p} : para'[q] = para[q]
  BY <1>1, <1>2 DEF TypeOK, RowsShaped, IsRow
<1>4. /\ \A a \in Op \ {o} : ops'[a] = ops[a]
      /\ ops'[o].of = p /\ ops'[o].row = para[p]
  BY <1>1, <1>2 DEF OpsShaped
<1>5. \A x, n : ~Ahead(x, n)'
  BY <1>2 DEF Ahead
<1>6. \A pl \in Plan : Unstored(pl) => Unstored(pl)'
  BY <1>2, <1>3, <1>4, <1>5, Texts DEF Unstored
<1>7. \A pl \in Plan : Unmentioned(pl) => Unmentioned(pl)'
  BY <1>3, <1>4 DEF Unmentioned
<1> QED BY <1>3, <1>6, <1>7

\* A paragraph is deleted, restored or purged.
LEMMA DeletionUndoable ==
    ASSUME Shaped, Undoable, Purging \/ (Unlocked /\ Deletion), UNCHANGED corrections, Attached'
    PROVE  Undoable'
<1>1. TypeOK /\ RowsShaped /\ OpsShaped
  BY DEF Shaped
<1>2. script = <<>> /\ UNCHANGED <<script, plan, run, repeated>>
  BY DEF Purging, Purge, Deletion, Delete, DeleteParagraph, RestoreDeleted, corrections
<1>3. \A x, n : ~Ahead(x, n)'
  BY <1>2 DEF Ahead
<1>4. CASE \E o \in Op, p \in Paragraph : Delete(o, p)
  <2>1. PICK o \in Op, p \in Paragraph : DeleteParagraph(o, p)
    BY <1>4 DEF Delete
  <2>2. /\ \A pl \in Plan : (Unstored(pl) => Unstored(pl)') /\ (Unmentioned(pl) => Unmentioned(pl)')
        /\ para'[p].state = "deleted" /\ \A q \in Paragraph \ {p} : para'[q] = para[q]
    BY <1>2, <2>1, DeleteKeepsOut
  <2>4. TextStaysGone'
    BY <1>2, <2>2, Texts DEF Undoable, TextStaysGone, Live
  <2> QED BY <1>2, <2>2, <2>4, IdleFine DEF Undoable
<1>5. CASE Unlocked /\ \E o \in Op : RestoreDeleted(o)
  <2>1. PICK o \in Op : RestoreDeleted(o)
    BY <1>5
  <2>2. /\ ops[o].status = "deleted" /\ ops[o].of \in Paragraph
        /\ ops' = [ops EXCEPT ![o] = [NoOp EXCEPT !.status = "restored"]]
        /\ para' = [para EXCEPT ![ops[o].of] = ops[o].row]
        /\ ref' \subseteq ref \cup {ops[o].of}
    BY <1>1, <2>1 DEF RestoreDeleted, OpsShaped, IsOp
  <2>3. /\ \A a \in Op \ {o} : ops'[a] = ops[a]
        /\ ops'[o].status = "restored"
        /\ \A q \in Paragraph \ {ops[o].of} : para'[q] = para[q]
        /\ para'[ops[o].of] = ops[o].row
    BY <1>1, <2>2 DEF OpsShaped, TypeOK, NoOp
  <2>4. ASSUME NEW pl \in Plan, Unstored(pl) PROVE Unstored(pl)'
    BY <1>2, <1>3, <2>2, <2>3, <2>4, Texts DEF Unstored
  <2>5. ASSUME NEW pl \in Plan, Unmentioned(pl) PROVE Unmentioned(pl)'
    BY <1>2, <2>2, <2>3, <2>5 DEF Unmentioned
  <2>6. TextStaysGone'
    BY <1>2, <1>5 DEF Unlocked, TextStaysGone
  <2> QED BY <1>2, <2>4, <2>5, <2>6, IdleFine DEF Undoable
<1>6. CASE Purging
  <2>1. PICK p \in Paragraph : para' = [para EXCEPT ![p] = NoRow] /\ UNCHANGED <<ref, ops>>
    BY <1>6 DEF Purging, Purge
  <2>2. /\ \A q \in Paragraph \ {p} : para'[q] = para[q]
        /\ para'[p].state = "none" /\ para'[p].change = None
    BY <1>1, <2>1 DEF TypeOK, NoRow
  <2>3. ASSUME NEW pl \in Plan, Unstored(pl) PROVE Unstored(pl)'
    BY <1>2, <1>3, <2>1, <2>2, <2>3, Texts DEF Unstored
  <2>4. ASSUME NEW pl \in Plan, Unmentioned(pl) PROVE Unmentioned(pl)'
    BY <1>2, <2>1, <2>2, <2>4, NamesAssumption DEF Unmentioned
  <2>5. TextStaysGone'
    BY <1>2, <2>2, Texts DEF Undoable, TextStaysGone, Live
  <2> QED BY <1>2, <2>3, <2>4, <2>5, IdleFine DEF Undoable
<1> QED BY <1>4, <1>5, <1>6 DEF Deletion

-----------------------------------------------------------------------------
\* A commit of a script that runs is made.
LEMMA CommitScript ==
    ASSUME Shaped, Undoable, NEW n, Doing(n), Done
    PROVE  /\ RollsLast' /\ MetaOnce'
           /\ \A x, m : Ahead(x, m)' => Ahead(x, m)
           /\ \A x, m : Ahead(x, m) /\ (m # n \/ x # Arg) => Ahead(x, m)'
           /\ \A pl \in Plan : Ahead(pl, "rolled") => n \in UndoName /\ Arg = pl
           /\ n = "meta" => \A x : ~Ahead(x, "meta")'
           /\ Ahead(Arg, n)
<1>1. IInv /\ RollsLast /\ MetaOnce
  BY DEF Shaped, Undoable
<1>2. script # <<>> /\ Head(script) = <<n, Arg>> /\ Ahead(Arg, n)
  BY <1>1, HeadIs
<1>3. ASSUME NEW pl \in Plan, Ahead(pl, "rolled") PROVE n \in UndoName /\ Arg = pl
  <2>1. \E m \in UndoName : Head(script) = <<m, pl>>
    BY <1>1, <1>2, <1>3, RollingHead
  <2> QED BY <1>2, <2>1
<1>4. /\ RollsLast' /\ MetaOnce'
      /\ \A x, m : Ahead(x, m)' => Ahead(x, m)
      /\ \A x, m : Ahead(x, m) /\ Head(script) # <<m, x>> => Ahead(x, m)'
      /\ Head(script)[1] = "meta" => \A x : ~Ahead(x, "meta")'
  BY <1>1, <1>2, TailScript
<1>5. \A x, m : Ahead(x, m) /\ (m # n \/ x # Arg) => Ahead(x, m)'
  BY <1>2, <1>4
<1> QED BY <1>2, <1>3, <1>4, <1>5

\* Ingestion writes the claims of a paragraph and its reference, and asks for the refresh.
LEMMA WritingUndoable ==
    ASSUME Shaped, Undoable, Writing, UNCHANGED corrections, Attached'
    PROVE  Undoable'
<1>1. UNCHANGED <<para, ops, plan, run, repeated, inactive>>
  BY DEF Writing, WriteClaims, WriteRef, Ask, corrections
<1>2. TextStaysGone'
  BY <1>1 DEF Undoable, TextStaysGone, Live
<1>3. CASE WriteClaims \/ WriteRef
  <2>1. PICK n \in {"claims", "ref"} : Doing(n) /\ Done
    BY <1>3 DEF WriteClaims, WriteRef
  <2>2. /\ RollsLast' /\ MetaOnce'
        /\ \A x, m : Ahead(x, m)' => Ahead(x, m)
        /\ \A pl \in Plan : ~Ahead(pl, "rolled")
    BY <2>1, CommitScript DEF UndoName
  <2>3. ASSUME NEW pl \in Plan, Unstored(pl) PROVE Unstored(pl)'
    <3>1. CASE WriteClaims
      BY <1>1, <2>2, <2>3, <3>1 DEF Unstored, WriteClaims
    <3>2. CASE WriteRef
      <4>1. ref' = ref \cup {Arg} /\ Ahead(Arg, "ref")
        BY <3>2, CommitScript DEF WriteRef
      <4> QED BY <1>1, <2>2, <2>3, <4>1 DEF Unstored
    <3> QED BY <1>3, <3>1, <3>2
  <2>4. \A pl \in Plan : Unmentioned(pl) => Unmentioned(pl)'
    BY <1>1 DEF Unmentioned
  <2>5. \A pl \in Plan \ repeated' : Fine(pl)'
    BY <1>1, <2>2, <2>3, <2>4, StaysFine DEF Undoable
  <2> QED BY <1>2, <2>2, <2>5 DEF Undoable
<1>4. CASE Ask
  <2>1. Doing("ask") /\ Done /\ UNCHANGED <<claim, support, ref>>
    BY <1>4 DEF Ask, Becomes
  <2>2. /\ RollsLast' /\ MetaOnce'
        /\ \A x, m : Ahead(x, m)' => Ahead(x, m)
        /\ \A x, m : Ahead(x, m) /\ m # "ask" => Ahead(x, m)'
    BY <2>1, CommitScript
  <2>3. \A pl \in Plan : (Unstored(pl) => Unstored(pl)') /\ (Unmentioned(pl) => Unmentioned(pl)')
    BY <1>1, <2>1, <2>2 DEF Unstored, Unmentioned
  <2>4. ASSUME NEW pl \in Plan, Undone(pl) PROVE Undone(pl)'
    BY <1>1, <2>1, <2>2, <2>4 DEF Undone, Live
  <2>5. \A pl \in Plan \ repeated' : Fine(pl)'
    BY <1>1, <2>2, <2>3, <2>4, StaysFine DEF Undoable, Fine
  <2> QED BY <1>2, <2>2, <2>5 DEF Undoable
<1> QED BY <1>3, <1>4 DEF Writing

\* The target of a plan is marked: the plan's mark is nobody else's.
LEMMA MarkMetaUndoable ==
    ASSUME Shaped, Undoable, MarkMeta, Attached'
    PROVE  Undoable'
<1>1. TypeOK /\ RowsShaped /\ RunsShaped /\ Arg \in Plan /\ Doing("meta") /\ Done
  BY Args DEF Shaped, MarkMeta
<1>2. PICK q \in Plan : q = Arg
  BY <1>1
<1>3. UNCHANGED <<claim, support, ref, ops, plan, inactive, repeated>>
  BY DEF MarkMeta
<1>4. PICK t \in Paragraph : t = Target[q]
  BY Texts
<1>5. para' = [para EXCEPT ![t].change = q]
  BY <1>2, <1>4 DEF MarkMeta
<1>6. /\ para'[t].change = q /\ \A p \in Paragraph \ {t} : para'[p] = para[p]
      /\ \A p \in Paragraph : para'[p].state = para[p].state
  BY <1>1, <1>5 DEF TypeOK, RowsShaped, IsRow
<1>7. /\ \A pl \in Plan \ {q} : run'[pl] = run[pl]
      /\ run'[q].step = run[q].step /\ run'[q].stored = run[q].stored
      /\ run'[q].mark.change = para[t].change
  <2>1. run' = [run EXCEPT ![q].mark.taken = TRUE, ![q].mark.change = para[t].change]
    BY <1>2, <1>4 DEF MarkMeta
  <2>2. DOMAIN run = Plan /\ IsRun(run[q], q)
    BY <1>1 DEF RunsShaped
  <2> QED BY <2>1, <2>2 DEF IsRun, IsMark
<1>8. /\ RollsLast' /\ MetaOnce' /\ Ahead(q, "meta")
      /\ \A x, m : Ahead(x, m)' => Ahead(x, m)
      /\ \A x : ~Ahead(x, "meta")'
      /\ \A pl \in Plan : ~Ahead(pl, "rolled")
  BY <1>1, <1>2, CommitScript DEF UndoName
<1>9. \A pl \in Plan : Unstored(pl) => Unstored(pl)'
  BY <1>3, <1>6, <1>7, <1>8, Texts DEF Unstored
<1>10. \A pl \in Plan \ {q} : Unmentioned(pl) => Unmentioned(pl)'
  BY <1>3, <1>6, <1>7 DEF Unmentioned
<1>11. \A pl \in Plan \ (repeated \cup {q}) : Fine(pl)'
  BY <1>3, <1>7, <1>8, <1>9, <1>10, StaysFine DEF Undoable
<1>12. ASSUME q \notin repeated PROVE Fine(q)'
  <2>1. Unmentioned(q) /\ run[q].step = "marks" /\ plan[q].status # "awaiting" /\ Fine(q)
    BY <1>8, <1>12 DEF Undoable, Fine, Unmarked, UnderWay, Unexecuted, Unstored
  <2>2. run'[q].mark.change # q /\ plan'[q].mark.change # q
    BY <1>3, <1>7, <2>1 DEF Unmentioned
  <2> QED BY <1>3, <1>7, <1>8, <2>1, <2>2
          DEF Fine, Unexecuted, Unmarked, UnderWay, OwnMark, Stored, Undone
<1>13. TextStaysGone'
  BY <1>6, <1>7, Texts DEF Undoable, TextStaysGone, Live
<1> QED BY <1>3, <1>8, <1>11, <1>12, <1>13 DEF Undoable

\* Its facts and its relation are taken.
LEMMA MarkFactsUndoable ==
    ASSUME Shaped, Undoable, MarkFacts \/ Cascade, Attached'
    PROVE  Undoable'
<1>1. PICK n \in {"detach", "cascade"} : Doing(n) /\ Done
  BY DEF MarkFacts, Cascade
<1>2. RunsShaped /\ Arg \in Plan
  BY Args DEF Shaped, MarkFacts, Cascade
<1>3. PICK q \in Plan : q = Arg
  BY <1>2
<1>4. UNCHANGED <<para, ref, ops, plan, repeated>>
  BY DEF MarkFacts, Cascade
<1>5. \A pl \in Plan : /\ run'[pl].step = run[pl].step /\ run'[pl].stored = run[pl].stored
                       /\ run'[pl].mark.change = run[pl].mark.change
  <2>1. \/ run' = [run EXCEPT ![q].mark.facts = Snapshot(Target[q])]
        \/ run' = [run EXCEPT ![q].mark.inactive = Target[q] \in inactive]
    BY <1>3 DEF MarkFacts, Cascade
  <2>2. DOMAIN run = Plan /\ \A pl \in Plan : IsRun(run[pl], pl)
    BY <1>2 DEF RunsShaped
  <2>3. run[q] = [step |-> run[q].step, stored |-> run[q].stored, mark |-> run[q].mark]
        /\ run[q].mark = [taken |-> run[q].mark.taken, change |-> run[q].mark.change,
                          facts |-> run[q].mark.facts, inactive |-> run[q].mark.inactive]
    BY <2>2 DEF IsRun, IsMark
  <2>4. CASE run' = [run EXCEPT ![q].mark.facts = Snapshot(Target[q])]
    BY <2>2, <2>3, <2>4
  <2>5. CASE run' = [run EXCEPT ![q].mark.inactive = Target[q] \in inactive]
    BY <2>2, <2>3, <2>5
  <2> QED BY <2>1, <2>4, <2>5
<1>6. /\ RollsLast' /\ MetaOnce'
      /\ \A x, m : Ahead(x, m)' => Ahead(x, m)
      /\ \A pl \in Plan : ~Ahead(pl, "rolled")
  BY <1>1, CommitScript DEF UndoName
<1>7. \A pl \in Plan : (Unstored(pl) => Unstored(pl)') /\ (Unmentioned(pl) => Unmentioned(pl)')
  BY <1>4, <1>5, <1>6 DEF Unstored, Unmentioned
<1>8. \A pl \in Plan \ repeated' : Fine(pl)'
  BY <1>4, <1>5, <1>6, <1>7, StaysFine DEF Undoable
<1>9. TextStaysGone'
  BY <1>4, <1>5 DEF Undoable, TextStaysGone, Live
<1> QED BY <1>6, <1>8, <1>9 DEF Undoable

\* The text of a plan is stored; an execution that finds it stored is a repeated one.
LEMMA ExecuteUndoable ==
    ASSUME Shaped, Undoable, NEW q \in Plan, Execute(q), Attached'
    PROVE  Undoable'
<1>1. TypeOK /\ DOMAIN run = Plan /\ DOMAIN plan = Plan /\ Text[q] \in Paragraph
      /\ IsRun(run[q], q) /\ IsPlan(plan[q], q)
  BY Texts DEF Shaped, RunsShaped, PlansShaped
<1>2. script = <<>> /\ run[q].step = "none" /\ UNCHANGED <<ref, ops>>
  BY DEF Execute, Going
<1>3. \A pl \in Plan \ {q} : run'[pl] = run[pl] /\ plan'[pl] = plan[pl]
  BY <1>1 DEF Execute
<1>4. /\ run'[q].step \in {"marks", "text"} /\ run'[q].mark = run[q].mark
      /\ plan'[q].status = "executing" /\ plan'[q].mark = plan[q].mark
  BY <1>1 DEF Execute, IsRun, IsPlan
<1>5. \A pl \in Plan : run'[pl].mark = run[pl].mark /\ plan'[pl].mark = plan[pl].mark
  BY <1>3, <1>4
<1>6. repeated \subseteq repeated' /\ (plan[q].status # "awaiting" => q \in repeated')
  BY DEF Execute
<1>7. CASE Text[q] \in ref
  <2>1. script' = Marks(q) /\ UNCHANGED para
    BY <1>7 DEF Execute
  <2>2. /\ RollsLast' /\ MetaOnce' /\ \A x : ~Ahead(x, "rolled")' /\ ~Ahead(x, "ref")'
        /\ \A x : Ahead(x, "meta")' \/ Ahead(x, "record")' => x = q
    <3>1. MarksOnly(script', q) /\ \A i \in DOMAIN script' : script'[i][1] # "ref"
      BY <2>1, MarksOnlyMark
    <3> QED BY <3>1, MarksOnlyScript DEF Ahead
  <2>3. q \in repeated'
    BY <1>6, <1>7 DEF Undoable, Fine, Unexecuted, Unstored
  <2>4. \A pl \in Plan \ {q} : (Unstored(pl) => Unstored(pl)') /\ (Unmentioned(pl) => Unmentioned(pl)')
    BY <1>2, <1>3, <1>5, <2>1, <2>2 DEF Unstored, Unmentioned
  <2>5. \A pl \in Plan \ repeated' : Fine(pl)'
    BY <1>3, <1>6, <2>2, <2>3, <2>4, StaysFine DEF Undoable
  <2>6. TextStaysGone'
    BY <1>3, <1>4, <2>1 DEF Undoable, TextStaysGone, Live
  <2> QED BY <2>2, <2>5, <2>6 DEF Undoable
<1>8. CASE Text[q] \notin ref
  <2>1. script' = <<>> /\ para' = [para EXCEPT ![Text[q]] = [state |-> "live", change |-> None]]
    BY <1>2, <1>8 DEF Execute, AddParagraph
  <2>2. /\ para'[Text[q]].change = None
        /\ \A p \in Paragraph \ {Text[q]} : para'[p] = para[p]
    BY <1>1, <2>1 DEF TypeOK
  <2>3. \A x, n : ~Ahead(x, n)'
    BY <2>1 DEF Ahead
  <2>4. RollsLast' /\ MetaOnce'
    BY <2>1 DEF RollsLast, MetaOnce
  <2>5. \A pl \in Plan : Unmentioned(pl) => Unmentioned(pl)'
    BY <1>2, <1>5, <2>2, NamesAssumption DEF Unmentioned
  <2>6. \A pl \in Plan \ {q} : Unstored(pl) => Unstored(pl)'
    BY <1>2, <1>3, <2>2, <2>3, Texts DEF Unstored
  <2>7. \A pl \in Plan \ (repeated' \cup {q}) : Fine(pl)'
    BY <1>3, <1>6, <2>3, <2>5, <2>6, StaysFine DEF Undoable
  <2>8. ASSUME q \notin repeated' PROVE Fine(q)'
    <3>1. Fine(q) /\ Unmentioned(q)
      BY <1>6, <2>8 DEF Undoable, Fine, Unmarked
    <3>2. run'[q].step = "text"
      BY <1>1, <1>8 DEF Execute, IsRun
    <3> QED BY <1>4, <2>3, <2>5, <3>1, <3>2
            DEF Fine, Unexecuted, Unmarked, UnderWay, OwnMark, Stored, Undone
  <2>9. TextStaysGone'
    BY <1>3, <1>4, <2>2, Texts DEF Undoable, TextStaysGone, Live
  <2> QED BY <2>4, <2>7, <2>8, <2>9 DEF Undoable
<1> QED BY <1>7, <1>8

\* Its script of commits begins.
LEMMA TextStoredUndoable ==
    ASSUME Shaped, Undoable, NEW q \in Plan, TextStored(q), Attached'
    PROVE  Undoable'
<1>1. TypeOK /\ DOMAIN run = Plan /\ IsRun(run[q], q) /\ Text[q] \in Paragraph
  BY Texts DEF Shaped, RunsShaped
<1>2. script = <<>> /\ run[q].step = "text" /\ UNCHANGED <<para, ref, ops, plan, repeated>>
  BY DEF TextStored, Going, Embedded
<1>3. \A pl \in Plan \ {q} : run'[pl] = run[pl]
  BY <1>1 DEF TextStored
<1>4. run'[q].step = "marks" /\ run'[q].stored = TRUE /\ run'[q].mark = run[q].mark
  <2>1. run' = [run EXCEPT ![q].step = "marks", ![q].stored = TRUE]
    BY DEF TextStored
  <2> QED BY <1>1, <2>1 DEF IsRun
<1>5. \A pl \in Plan : run'[pl].mark = run[pl].mark
  BY <1>3, <1>4
<1>6. /\ RollsLast' /\ MetaOnce' /\ \A x : ~Ahead(x, "rolled")'
      /\ \A x : Ahead(x, "meta")' \/ Ahead(x, "record")' => x = q
      /\ \A x : Ahead(x, "ref")' => x = Text[q]
  <2>1. script' = Stores(q) \o Marks(q)
    BY DEF TextStored, Embedded
  <2>2. Stores(q) \in Seq(Commit) /\ Marks(q) \in Seq(Commit)
    BY PlanScripts, StoreScripts
  <2>3. MarksOnly(Marks(q), q) /\ \A i \in DOMAIN Marks(q) : Marks(q)[i][1] # "ref"
    BY MarksOnlyMark
  <2>4. MarksOnly(script', q) /\ \A i \in DOMAIN script' : \A t : script'[i] = <<"ref", t>> => t = Text[q]
    BY <2>1, <2>2, <2>3, StoresWritten, MarksOnlyJoined
  <2> QED BY <2>4, MarksOnlyScript DEF Ahead
<1>7. \A pl \in Plan : Unmentioned(pl) => Unmentioned(pl)'
  BY <1>2, <1>5 DEF Unmentioned
<1>8. \A pl \in Plan \ {q} : Unstored(pl) => Unstored(pl)'
  BY <1>2, <1>3, <1>6, Texts DEF Unstored
<1>9. \A pl \in Plan \ (repeated' \cup {q}) : Fine(pl)'
  BY <1>2, <1>3, <1>6, <1>7, <1>8, StaysFine DEF Undoable
<1>10. ASSUME q \notin repeated PROVE Fine(q)'
  <2>1. Fine(q) /\ Unmentioned(q) /\ plan[q].status # "awaiting"
    BY <1>2, <1>10 DEF Undoable, Fine, Unmarked, Unexecuted, Unstored
  <2> QED BY <1>2, <1>4, <1>6, <1>7, <2>1
          DEF Fine, Unexecuted, Unmarked, UnderWay, OwnMark, Stored, Undone
<1>11. TextStaysGone'
  BY <1>2, <1>3, <1>4 DEF Undoable, TextStaysGone, Live
<1> QED BY <1>2, <1>6, <1>9, <1>10, <1>11 DEF Undoable

\* An execution is over: it has failed, or what it has done is recorded.
LEMMA StoppedUndoable ==
    ASSUME Shaped, Undoable, NEW q \in Plan, TextFails(q) \/ Finish(q), Attached'
    PROVE  Undoable'
<1>1. DOMAIN run = Plan /\ DOMAIN plan = Plan /\ IsRun(run[q], q) /\ IsPlan(plan[q], q)
  BY DEF Shaped, RunsShaped, PlansShaped
<1>2. script = <<>> /\ run[q].step \in {"text", "marks"} /\ UNCHANGED <<script, para, ref, ops, repeated>>
  BY DEF TextFails, EmbeddingFails, Finish, Failed, Records, Going, facts
<1>3. /\ run' = [run EXCEPT ![q] = NoRun]
      /\ \/ plan' = [plan EXCEPT ![q].status = "failed"]
         \/ plan' = [plan EXCEPT ![q] = Recorded(q, "executed")] /\ run[q].step = "marks"
  BY DEF TextFails, Finish, Failed, Records, Going
<1>4. \A pl \in Plan \ {q} : run'[pl] = run[pl] /\ plan'[pl] = plan[pl]
  BY <1>1, <1>3
<1>5. run'[q].step = "none" /\ run'[q].mark.change = None
  BY <1>1, <1>3 DEF NoRun, NoMark
<1>6. \/ plan'[q].status = "failed" /\ plan'[q].mark = plan[q].mark
      \/ /\ plan'[q].status = "executed" /\ run[q].step = "marks"
         /\ plan'[q].stored = run[q].stored /\ plan'[q].mark = run[q].mark
  BY <1>1, <1>3 DEF Recorded, IsPlan
<1>7. RollsLast' /\ MetaOnce' /\ \A x, n : ~Ahead(x, n)'
  BY <1>2 DEF RollsLast, MetaOnce, Ahead
<1>8. ASSUME NEW pl \in Plan, Unmentioned(pl) PROVE Unmentioned(pl)'
  <2>1. run'[q].mark.change # pl /\ plan'[q].mark.change # pl
    BY <1>5, <1>6, <1>8, NamesAssumption DEF Unmentioned
  <2> QED BY <1>2, <1>4, <1>8, <2>1 DEF Unmentioned
<1>9. \A pl \in Plan \ {q} : Unstored(pl) => Unstored(pl)'
  BY <1>2, <1>4, <1>7 DEF Unstored
<1>10. \A pl \in Plan \ (repeated' \cup {q}) : Fine(pl)'
  BY <1>2, <1>4, <1>7, <1>8, <1>9, StaysFine DEF Undoable
<1>11. ASSUME q \notin repeated PROVE Fine(q)'
  <2>1. OwnMark(q) /\ Stored(q)
    BY <1>11 DEF Undoable, Fine
  <2>2. OwnMark(q)' /\ Stored(q)'
    BY <1>5, <1>6, <2>1, NamesAssumption DEF OwnMark, Stored
  <2> QED BY <1>5, <1>6, <1>7, <2>2 DEF Fine, Unexecuted, Unmarked, UnderWay, Undone
<1>12. TextStaysGone'
  BY <1>2, <1>4, <1>5 DEF Undoable, TextStaysGone, Live
<1> QED BY <1>2, <1>7, <1>10, <1>11, <1>12 DEF Undoable

\* The execution of a plan with nobody to refresh is recorded by its last commit.
LEMMA ConcludeUndoable ==
    ASSUME Shaped, Undoable, Conclude, Attached'
    PROVE  Undoable'
<1>1. IInv /\ RunsShaped /\ PlansShaped /\ Arg \in Plan /\ Doing("record") /\ Done
  BY Args DEF Shaped, Conclude
<1>2. PICK q \in Plan : q = Arg
  BY <1>1
<1>3. PICK s \in {"executed", "failed"} :
         /\ plan' = [plan EXCEPT ![q] = Recorded(q, s)]
         /\ run' = [run EXCEPT ![q] = NoRun]
         /\ UNCHANGED <<para, ref, ops, repeated>>
  BY <1>2 DEF Conclude, Records
<1>4. \A pl \in Plan \ {q} : run'[pl] = run[pl] /\ plan'[pl] = plan[pl]
  BY <1>1, <1>3 DEF RunsShaped, PlansShaped
<1>5. /\ run'[q].step = "none" /\ run'[q].mark.change = None
      /\ plan'[q].status = s /\ plan'[q].mark = run[q].mark /\ plan'[q].stored = run[q].stored
  BY <1>1, <1>3 DEF RunsShaped, PlansShaped, Recorded, NoRun, NoMark
<1>6. script' = <<>> /\ Ahead(q, "record")
  <2>1. script # <<>> /\ Head(script)[1] = "record"
    BY <1>1 DEF Doing
  <2>2. Ahead(q, "record")
    BY <1>1, <1>2, HeadIs
  <2> QED BY <1>1, <2>1, <2>2, LastCommit DEF Undoable
<1>7. RollsLast' /\ MetaOnce' /\ \A x, m : ~Ahead(x, m)'
  BY <1>6 DEF RollsLast, MetaOnce, Ahead
<1>8. ASSUME NEW pl \in Plan, Unmentioned(pl) PROVE Unmentioned(pl)'
  <2>1. run'[q].mark.change # pl /\ plan'[q].mark.change # pl
    BY <1>5, <1>8, NamesAssumption DEF Unmentioned
  <2> QED BY <1>3, <1>4, <1>8, <2>1 DEF Unmentioned
<1>9. \A pl \in Plan \ {q} : Unstored(pl) => Unstored(pl)'
  BY <1>3, <1>4, <1>7 DEF Unstored
<1>10. \A pl \in Plan \ (repeated' \cup {q}) : Fine(pl)'
  BY <1>3, <1>4, <1>7, <1>8, <1>9, StaysFine DEF Undoable
<1>11. ASSUME q \notin repeated PROVE Fine(q)'
  <2>1. OwnMark(q) /\ run[q].stored
    BY <1>6, <1>11 DEF Undoable, Fine, UnderWay, Stored
  <2>2. OwnMark(q)' /\ Stored(q)'
    BY <1>5, <2>1, NamesAssumption DEF OwnMark, Stored
  <2> QED BY <1>5, <1>7, <2>2 DEF Fine, Unexecuted, Unmarked, UnderWay, Undone
<1>12. TextStaysGone'
  BY <1>3, <1>4, <1>5 DEF Undoable, TextStaysGone, Live
<1> QED BY <1>3, <1>7, <1>10, <1>11, <1>12 DEF Undoable

-----------------------------------------------------------------------------
\* The text of a plan is deleted.
LEMMA RollBackUndoable ==
    ASSUME Shaped, Undoable, NEW q \in Plan, NEW o \in Op, RollBack(q, o), Attached'
    PROVE  Undoable'
<1>1. DOMAIN run = Plan /\ IsRun(run[q], q) /\ Text[q] \in Paragraph
  BY Texts DEF Shaped, RunsShaped
<1>2. /\ script = <<>> /\ script' = script /\ run[q].step = "none" /\ plan[q].status = "executed"
      /\ UNCHANGED <<plan, repeated>> /\ DeleteParagraph(o, Text[q])
  BY DEF RollBack, Going
<1>3. \A pl \in Plan \ {q} : run'[pl] = run[pl]
  BY <1>1 DEF RollBack
<1>4. run'[q].step = "delete" /\ run'[q].stored = run[q].stored /\ run'[q].mark = run[q].mark
  BY <1>1 DEF RollBack, IsRun
<1>5. /\ \A pl \in Plan : (Unstored(pl) => Unstored(pl)') /\ (Unmentioned(pl) => Unmentioned(pl)')
      /\ para'[Text[q]].state = "deleted" /\ \A p \in Paragraph \ {Text[q]} : para'[p] = para[p]
  <2>1. \A pl \in Plan : run'[pl].mark = run[pl].mark
    BY <1>3, <1>4
  <2>2. \A pl \in Plan : run'[pl].step = run[pl].step \/ Text[q] = Text[pl]
    BY <1>3
  <2> QED BY <1>1, <1>2, <2>1, <2>2, DeleteKeepsOut
<1>6. RollsLast' /\ MetaOnce' /\ \A x, n : ~Ahead(x, n)'
  BY <1>2 DEF RollsLast, MetaOnce, Ahead
<1>7. \A pl \in Plan \ (repeated' \cup {q}) : Fine(pl)'
  BY <1>2, <1>3, <1>5, <1>6, StaysFine DEF Undoable
<1>8. ASSUME q \notin repeated PROVE Fine(q)'
  <2>1. OwnMark(q) /\ Stored(q)
    BY <1>8 DEF Undoable, Fine
  <2> QED BY <1>2, <1>4, <1>6, <2>1
          DEF Fine, Unexecuted, Unmarked, UnderWay, OwnMark, Stored, Undone
<1>9. TextStaysGone'
  BY <1>2, <1>3, <1>5, Texts DEF Undoable, TextStaysGone, Live
<1> QED BY <1>2, <1>6, <1>7, <1>8, <1>9 DEF Undoable

\* It is gone, or there was none.
LEMMA UndoingUndoable ==
    ASSUME Shaped, Undoable, NEW q \in Plan, TextGone(q) \/ RollBackOnly(q), Attached'
    PROVE  Undoable'
<1>1. DOMAIN run = Plan /\ IsRun(run[q], q) /\ Text[q] \in Paragraph
  BY Texts DEF Shaped, RunsShaped
<1>2. /\ script = <<>> /\ script' = Undo(q) /\ run[q].step \in {"none", "delete"}
      /\ UNCHANGED <<claim, support, para, ref, ops, plan, inactive, repeated>>
  BY DEF TextGone, RollBackOnly, Going, Undoing
<1>3. \A pl \in Plan \ {q} : run'[pl] = run[pl]
  BY <1>1 DEF TextGone, RollBackOnly, Undoing
<1>4. run'[q].step = "undo" /\ run'[q].stored = run[q].stored /\ run'[q].mark = run[q].mark
  BY <1>1 DEF TextGone, RollBackOnly, Undoing, IsRun
<1>5. /\ RollsLast' /\ MetaOnce' /\ \A x : ~Ahead(x, "meta")' /\ ~Ahead(x, "ref")' /\ ~Ahead(x, "record")'
      /\ \A x : Ahead(x, "rolled")' =>
            /\ x = q
            /\ plan[q].mark.taken =>
                  Ahead(q, "uncascade")' /\ Ahead(q, "unmeta")' /\ Ahead(q, "unfact")'
  BY <1>2, UndoScript
<1>6. \A pl \in Plan : run'[pl].mark = run[pl].mark
  BY <1>3, <1>4
<1>7. \A pl \in Plan : Unmentioned(pl) => Unmentioned(pl)'
  BY <1>2, <1>6 DEF Unmentioned
<1>8. \A pl \in Plan \ {q} : Unstored(pl) => Unstored(pl)'
  BY <1>2, <1>3, <1>5 DEF Unstored
<1>9. \A pl \in Plan \ (repeated' \cup {q}) : Fine(pl)'
  BY <1>2, <1>3, <1>5, <1>7, <1>8, StaysFine DEF Undoable
<1>10. ASSUME q \notin repeated PROVE Fine(q)'
  <2>1. Fine(q)
    BY <1>10 DEF Undoable
  <2>2. ~Live(Text[q])
    <3>1. CASE TextGone(q)
      BY <3>1 DEF TextGone, Going, Undoable, TextStaysGone
    <3>2. CASE RollBackOnly(q)
      BY <2>1, <3>2 DEF RollBackOnly, HasText, Fine, Stored, Live
    <3> QED BY <3>1, <3>2
  <2>3. Undone(q)'
    BY <1>2, <1>5, <2>2 DEF Undone, Live
  <2>4. plan[q].status # "awaiting"
    <3>1. CASE TextGone(q)
      BY <2>1, <3>1 DEF TextGone, Going, Fine, Unexecuted, Unstored
    <3>2. CASE RollBackOnly(q)
      BY <3>2 DEF RollBackOnly
    <3> QED BY <3>1, <3>2
  <2> QED BY <1>2, <1>4, <1>5, <2>1, <2>3, <2>4
          DEF Fine, Unexecuted, Unmarked, UnderWay, OwnMark, Stored
<1>11. TextStaysGone'
  BY <1>2, <1>3, <1>4 DEF Undoable, TextStaysGone, Live
<1> QED BY <1>2, <1>5, <1>9, <1>10, <1>11 DEF Undoable

\* A rollback fails before it has undone anything.
LEMMA RollBackFailsUndoable ==
    ASSUME Shaped, Undoable, NEW q \in Plan, RollBackFails(q), Attached'
    PROVE  Undoable'
<1>1. DOMAIN plan = Plan /\ IsPlan(plan[q], q)
  BY DEF Shaped, PlansShaped
<1>2. /\ script = <<>> /\ run[q].step \in {"none", "delete"}
      /\ UNCHANGED <<script, para, ref, ops, run, repeated>>
  BY DEF RollBackFails, facts
<1>3. \A pl \in Plan \ {q} : plan'[pl] = plan[pl]
  BY <1>1 DEF RollBackFails
<1>4. plan'[q].status = "rollback_failed" /\ plan'[q].mark = plan[q].mark
  BY <1>1 DEF RollBackFails, IsPlan
<1>5. RollsLast' /\ MetaOnce' /\ \A x, n : ~Ahead(x, n)'
  BY <1>2 DEF RollsLast, MetaOnce, Ahead
<1>6. \A pl \in Plan : plan'[pl].mark = plan[pl].mark
  BY <1>3, <1>4
<1>7. \A pl \in Plan : (Unstored(pl) => Unstored(pl)') /\ (Unmentioned(pl) => Unmentioned(pl)')
  BY <1>2, <1>5, <1>6 DEF Unstored, Unmentioned
<1>8. \A pl \in Plan \ (repeated' \cup {q}) : Fine(pl)'
  BY <1>2, <1>3, <1>5, <1>7, StaysFine DEF Undoable
<1>9. ASSUME q \notin repeated PROVE Fine(q)'
  <2>1. OwnMark(q) /\ Stored(q)
    BY <1>9 DEF Undoable, Fine
  <2> QED BY <1>2, <1>4, <1>5, <2>1
          DEF Fine, Unexecuted, Unmarked, UnderWay, OwnMark, Stored, Undone
<1>10. TextStaysGone'
  BY <1>2 DEF Undoable, TextStaysGone, Live
<1> QED BY <1>2, <1>5, <1>8, <1>9, <1>10 DEF Undoable

\* Another plan is none of a rollback's business.
LEMMA OthersFine ==
    ASSUME Shaped, Undoable, NEW q \in Plan, NEW pl \in Plan \ repeated, pl # q, NEW n,
           Doing(n), Done, Arg = q, run'[pl] = run[pl], plan'[pl] = plan[pl],
           UNCHANGED <<ref, ops>>, \A p \in Paragraph : para'[p].state = para[p].state,
           Unmentioned(pl) => Unmentioned(pl)'
    PROVE  Fine(pl)'
<1>1. /\ \A x, m : Ahead(x, m)' => Ahead(x, m)
      /\ ~Ahead(pl, "rolled")
  BY CommitScript
<1>2. Unstored(pl) => Unstored(pl)'
  BY <1>1, Texts DEF Unstored
<1> QED BY <1>1, <1>2, StaysFine DEF Undoable

\* What remains is undone, commit by commit.
LEMMA UndoneUndoable ==
    ASSUME Shaped, Undoable, Uncascade \/ Unmeta \/ Unfact, Attached'
    PROVE  Undoable'
<1>1. TypeOK /\ RowsShaped /\ Arg \in Plan
  BY Args DEF Shaped, Uncascade, Unmeta, Unfact
<1>2. PICK q \in Plan : q = Arg
  BY <1>1
<1>3. PICK n \in {"uncascade", "unmeta", "unfact"} :
         /\ Doing(n) /\ Done
         /\ n = "uncascade" => Uncascade
         /\ n = "unmeta" => Unmeta
         /\ n = "unfact" => Unfact
  BY DEF Uncascade, Unmeta, Unfact
<1>4. UNCHANGED <<ref, ops, plan, run, repeated>>
  BY DEF Uncascade, Unmeta, Unfact, corrections
<1>5. /\ \A p \in Paragraph : para'[p].state = para[p].state
      /\ n # "unmeta" => para' = para
      /\ n = "unmeta" => /\ para'[Target[q]].change = plan[q].mark.change
                         /\ \A p \in Paragraph \ {Target[q]} : para'[p] = para[p]
  <2>1. CASE n = "unmeta"
    <3>1. para' = [para EXCEPT ![Target[q]].change = plan[q].mark.change]
      BY <1>2, <1>3, <2>1 DEF Unmeta
    <3> QED BY <1>1, <2>1, <3>1, Texts DEF TypeOK, RowsShaped, IsRow
  <2>2. CASE n # "unmeta"
    BY <1>3, <2>2 DEF Uncascade, Unfact
  <2> QED BY <2>1, <2>2
<1>6. /\ RollsLast' /\ MetaOnce'
      /\ \A x, m : Ahead(x, m)' => Ahead(x, m)
      /\ \A x, m : Ahead(x, m) /\ m # n => Ahead(x, m)'
  BY <1>3, CommitScript
<1>7. ASSUME NEW pl \in Plan, Unmentioned(pl) PROVE Unmentioned(pl)'
  <2>1. \A p \in Paragraph : para'[p].change # pl
    BY <1>5, <1>7 DEF Unmentioned
  <2> QED BY <1>4, <1>7, <2>1 DEF Unmentioned
<1>8. \A pl \in Plan \ (repeated' \cup {q}) : Fine(pl)'
  <2>1. ASSUME NEW pl \in Plan \ repeated, pl # q PROVE Fine(pl)'
    BY <1>2, <1>3, <1>4, <1>5, <1>7, <2>1, OthersFine
  <2> QED BY <1>4, <2>1
<1>9. ASSUME q \notin repeated PROVE Fine(q)'
  <2>1. Fine(q)
    BY <1>9 DEF Undoable
  <2>2. Unstored(q) => Unstored(q)'
    BY <1>4, <1>5, <1>6, Texts DEF Unstored
  <2>3. Undone(q)'
    <3> DEFINE mark == plan[q].mark
    <3> SUFFICES ASSUME Ahead(q, "rolled")'
                 PROVE  /\ ~Live(Text[q])'
                        /\ mark.taken =>
                              /\ Ahead(q, "uncascade")' \/ (Target[q] \in inactive' => mark.inactive)
                              /\ Ahead(q, "unmeta")' \/ para'[Target[q]].change = mark.change
                              /\ \/ Ahead(q, "unfact")'
                                 \/ /\ mark.facts.evidence \subseteq support'
                                    /\ \A c \in Claims(mark.facts.evidence) : ~claim'[c].detached
      BY <1>4 DEF Undone, Claims
    <3>1. /\ ~Live(Text[q])
          /\ mark.taken =>
                /\ Ahead(q, "uncascade") \/ (Target[q] \in inactive => mark.inactive)
                /\ Ahead(q, "unmeta") \/ para[Target[q]].change = mark.change
                /\ \/ Ahead(q, "unfact")
                   \/ /\ mark.facts.evidence \subseteq support
                      /\ \A c \in Claims(mark.facts.evidence) : ~claim[c].detached
      BY <1>6, <2>1 DEF Fine, Undone
    <3>2. ~Live(Text[q])'
      BY <1>5, <3>1, Texts DEF Live
    <3>3. CASE n = "uncascade"
      <4>1. UNCHANGED <<claim, support, para>> /\ (Target[q] \in inactive' => mark.inactive)
        BY <1>2, <1>3, <3>3 DEF Uncascade
      <4> HIDE DEF mark
      <4> QED BY <1>6, <3>1, <3>2, <3>3, <4>1
    <3>4. CASE n = "unmeta"
      <4>1. UNCHANGED <<claim, support, inactive>> /\ para'[Target[q]].change = mark.change
        BY <1>3, <1>5, <3>4 DEF Unmeta, corrections
      <4> HIDE DEF mark
      <4> QED BY <1>6, <3>1, <3>2, <3>4, <4>1
    <3>5. CASE n = "unfact"
      <4>1. UNCHANGED <<para, inactive>>
        BY <1>3, <3>5 DEF Unfact, corrections
      <4>2. /\ mark.facts.evidence \subseteq support'
            /\ \A c \in Claims(mark.facts.evidence) : ~claim'[c].detached
        <5>1. Attached
          BY DEF Undoable
        <5> QED BY <1>2, <1>3, <3>5, <5>1, UnfactAttached
      <4> HIDE DEF mark
      <4> QED BY <1>6, <3>1, <3>2, <3>5, <4>1, <4>2
    <3> QED BY <3>3, <3>4, <3>5
  <2> QED BY <1>4, <1>6, <1>7, <2>1, <2>2, <2>3, StaysFine
<1>10. TextStaysGone'
  BY <1>4, <1>5, Texts DEF Undoable, TextStaysGone, Live
<1> QED BY <1>4, <1>6, <1>8, <1>9, <1>10 DEF Undoable

\* A rollback is over.
LEMMA EndsUndoable ==
    ASSUME Shaped, Undoable, NEW n \in {"rolled", "unrolled"},
           NEW s \in {"rolled_back", "rollback_failed"}, Ends(n, s), Attached'
    PROVE  Undoable'
<1>1. IInv /\ RunsShaped /\ PlansShaped /\ Arg \in Plan /\ Doing(n) /\ Done
  BY Args DEF Shaped, Ends
<1>2. PICK q \in Plan : q = Arg
  BY <1>1
<1>3. /\ run' = [run EXCEPT ![q] = NoRun] /\ plan' = [plan EXCEPT ![q].status = s]
      /\ UNCHANGED <<para, ref, ops, repeated>>
  BY <1>2 DEF Ends
<1>4. \A pl \in Plan \ {q} : run'[pl] = run[pl] /\ plan'[pl] = plan[pl]
  BY <1>1, <1>3 DEF RunsShaped, PlansShaped
<1>5. /\ run'[q].step = "none" /\ run'[q].mark.change = None
      /\ plan'[q].status = s /\ plan'[q].mark = plan[q].mark
  BY <1>1, <1>3 DEF RunsShaped, PlansShaped, IsPlan, NoRun, NoMark
<1>6. script' = <<>>
  <2>1. script # <<>> /\ Head(script)[1] = n
    BY <1>1 DEF Doing
  <2> QED BY <1>1, <2>1, LastCommit DEF Undoable
<1>7. RollsLast' /\ MetaOnce' /\ \A x, m : ~Ahead(x, m)'
  BY <1>6 DEF RollsLast, MetaOnce, Ahead
<1>8. ASSUME NEW pl \in Plan, Unmentioned(pl) PROVE Unmentioned(pl)'
  <2>1. run'[q].mark.change # pl /\ plan'[q].mark.change # pl
    BY <1>5, <1>8, NamesAssumption DEF Unmentioned
  <2> QED BY <1>3, <1>4, <1>8, <2>1 DEF Unmentioned
<1>9. \A pl \in Plan \ {q} : Unstored(pl) => Unstored(pl)'
  BY <1>3, <1>4, <1>7 DEF Unstored
<1>10. \A pl \in Plan \ (repeated' \cup {q}) : Fine(pl)'
  BY <1>3, <1>4, <1>7, <1>8, <1>9, StaysFine DEF Undoable
<1>11. ASSUME q \notin repeated PROVE Fine(q)'
  <2>1. OwnMark(q)
    BY <1>11 DEF Undoable, Fine
  <2> QED BY <1>5, <1>7, <2>1, NamesAssumption
          DEF Fine, Unexecuted, Unmarked, UnderWay, OwnMark, Stored, Undone
<1>12. TextStaysGone'
  BY <1>3, <1>4, <1>5 DEF Undoable, TextStaysGone, Live
<1> QED BY <1>3, <1>7, <1>10, <1>11, <1>12 DEF Undoable

\* The process dies: what ran is forgotten, what is recorded is not.
LEMMA RestartUndoable ==
    ASSUME Shaped, Undoable, Restart, Attached'
    PROVE  Undoable'
<1>1. script' = <<>> /\ UNCHANGED <<para, ref, ops, plan, repeated>>
  BY DEF Restart, Crash
<1>2. \A pl \in Plan : run'[pl].step = "none" /\ run'[pl].mark.change = None
  BY DEF Restart, NoRun, NoMark
<1>3. RollsLast' /\ MetaOnce' /\ \A x, m : ~Ahead(x, m)'
  BY <1>1 DEF RollsLast, MetaOnce, Ahead
<1>4. ASSUME NEW pl \in Plan \ repeated PROVE Fine(pl)'
  <2>1. Fine(pl)
    BY <1>4 DEF Undoable
  <2>2. plan[pl].status = "awaiting" => Unstored(pl)' /\ Unmentioned(pl)'
    BY <1>1, <1>2, <1>3, <2>1, NamesAssumption
       DEF Fine, Unexecuted, Unmarked, Unstored, Unmentioned
  <2> QED BY <1>1, <1>2, <1>3, <2>1, <2>2, NamesAssumption
          DEF Fine, Unexecuted, Unmarked, UnderWay, OwnMark, Stored, Undone
<1>5. TextStaysGone'
  BY <1>2 DEF TextStaysGone
<1> QED BY <1>1, <1>3, <1>4, <1>5 DEF Undoable

\* A rolled-back plan executed once has left nothing: the last commit of its script is
\* reached with all the others made.
UndoneWhenRecorded(pl) ==
    plan'[pl].status = "rolled_back" /\ plan[pl].status # "rolled_back" =>
        LET mark == plan[pl].mark IN
        /\ para'[Text[pl]].state # "live"
        /\ mark.taken =>
              /\ para'[Target[pl]].change # pl
              /\ mark.facts.evidence \subseteq support'
              /\ Target[pl] \in inactive' => mark.inactive
              /\ \A c \in Claims(mark.facts.evidence) : ~claim'[c].detached

\* Only the last commit of a rollback records it.
LEMMA RecordedByItsEnd ==
    ASSUME Shaped, CorrectionNext, NEW pl \in Plan,
           plan'[pl].status = "rolled_back", plan[pl].status # "rolled_back"
    PROVE  Ends("rolled", "rolled_back") /\ Arg = pl
<1>1. DOMAIN plan = Plan /\ \A q \in Plan : IsPlan(plan[q], q)
  BY DEF Shaped, PlansShaped
<1>2. ASSUME NEW q \in Plan, NEW s, s # "rolled_back", plan' = [plan EXCEPT ![q].status = s] PROVE FALSE
  BY <1>1, <1>2 DEF IsPlan
<1>3. plan' # plan
  OBVIOUS
<1>4. ~Others
  BY <1>3 DEF Others, corrections
<1>5. ~Executing
  <2>1. ASSUME NEW q \in Plan, Execute(q) \/ TextFails(q) PROVE FALSE
    BY <1>2, <2>1 DEF Execute, TextFails, Failed
  <2>2. ASSUME NEW q \in Plan, NEW did, Records(q, did) PROVE FALSE
    <3>1. PICK s \in {"executed", "failed"} : plan' = [plan EXCEPT ![q] = Recorded(q, s)]
      BY <2>2 DEF Records
    <3> QED BY <1>1, <3>1 DEF Recorded
  <2>4. ASSUME NEW q \in Plan, Finish(q) PROVE FALSE
    BY <1>2, <2>2, <2>4 DEF Finish, Failed
  <2>5. ~Conclude
    <3>1. Conclude => Arg \in Plan
      BY Args DEF Shaped, Conclude
    <3> QED BY <2>2, <3>1 DEF Conclude
  <2>3. ~(MarkMeta \/ MarkFacts \/ Cascade) /\ \A q \in Plan : ~TextStored(q)
    BY <1>3 DEF MarkMeta, MarkFacts, Cascade, TextStored
  <2> QED BY <2>1, <2>3, <2>4, <2>5 DEF Executing
<1>6. ~Restart
  BY <1>3 DEF Restart
<1>7. RollingBack => Ends("rolled", "rolled_back")
  <2>1. ASSUME NEW q \in Plan, RollBackFails(q) PROVE FALSE
    BY <1>2, <2>1 DEF RollBackFails
  <2>2. ASSUME NEW q \in Plan, TextGone(q) \/ RollBackOnly(q) \/ \E o \in Op : RollBack(q, o) PROVE FALSE
    BY <1>3, <2>2 DEF TextGone, RollBackOnly, RollBack, Undoing
  <2>3. ~(Uncascade \/ Unmeta \/ Unfact)
    BY <1>3 DEF Uncascade, Unmeta, Unfact, corrections
  <2>4. ~Ends("unrolled", "rollback_failed")
    <3>1. Ends("unrolled", "rollback_failed") => Arg \in Plan
      BY Args DEF Shaped, Ends
    <3> QED BY <1>2, <3>1 DEF Ends
  <2> QED BY <2>1, <2>2, <2>3, <2>4 DEF RollingBack
<1>8. Ends("rolled", "rolled_back")
  BY <1>4, <1>5, <1>6, <1>7 DEF CorrectionNext
<1>9. Arg = pl
  <2>1. Arg \in Plan /\ plan' = [plan EXCEPT ![Arg].status = "rolled_back"]
    BY <1>8, Args DEF Shaped, Ends
  <2> QED BY <1>1, <2>1
<1> QED BY <1>8, <1>9

\* At first nothing has been executed.
LEMMA UndoableInit == CorrectionInit => Undoable
<1> SUFFICES ASSUME CorrectionInit PROVE Undoable
  OBVIOUS
<1>1. script = <<>> /\ \A x, n : ~Ahead(x, n)
  BY DEF CorrectionInit, Init, Ahead
<1>2. RollsLast /\ MetaOnce
  BY <1>1 DEF RollsLast, MetaOnce
<1>3. Attached
  BY DEF CorrectionInit, Init, Entry, Attached
<1>4. TextStaysGone
  BY DEF CorrectionInit, NoRun, TextStaysGone
<1>5. ASSUME NEW pl \in Plan PROVE Fine(pl)
  <2>1. /\ run = [q \in Plan |-> NoRun] /\ NoRun.step = "none" /\ NoRun.mark.change = None
        /\ plan = [q \in Plan |-> [status |-> "awaiting", stored |-> FALSE, mark |-> NoMark]]
        /\ NoMark.change = None
    BY DEF CorrectionInit, NoRun, NoMark
  <2>2. /\ para = [p \in Paragraph |-> NoRow] /\ NoRow.state = "none" /\ NoRow.change = None
        /\ ref = {} /\ \A o \in Op : ops[o].status = "none"
    BY DEF CorrectionInit, Init, NoRow, NoOp
  <2>3. Unstored(pl)
    BY <1>1, <2>1, <2>2, Texts DEF Unstored
  <2>4. Unmentioned(pl)
    BY <2>1, <2>2, NamesAssumption DEF Unmentioned
  <2> QED BY <1>1, <2>1, <2>3, <2>4, NamesAssumption
          DEF Fine, Unexecuted, Unmarked, UnderWay, OwnMark, Stored, Undone
<1> QED BY <1>2, <1>3, <1>4, <1>5 DEF Undoable

\* Every step keeps it.
LEMMA UndoableStep ==
    ASSUME Shaped, Undoable, CorrectionNext
    PROVE  Undoable'
<1>1. Attached'
  BY StepAttached DEF Undoable
<1>2. CASE Others
  BY <1>1, <1>2, AdministrationUndoable, IngestionUndoable, WritingUndoable, DeletionUndoable DEF Others
<1>3. CASE Executing
  BY <1>1, <1>3, ExecuteUndoable, TextStoredUndoable, StoppedUndoable, MarkMetaUndoable, MarkFactsUndoable,
     ConcludeUndoable
     DEF Executing
<1>4. CASE RollingBack
  <2>1. CASE Ends("rolled", "rolled_back") \/ Ends("unrolled", "rollback_failed")
    BY <1>1, <2>1, EndsUndoable
  <2> QED BY <1>1, <1>4, <2>1, RollBackUndoable, UndoingUndoable, RollBackFailsUndoable, UndoneUndoable
          DEF RollingBack
<1>5. CASE Restart
  BY <1>1, <1>5, RestartUndoable
<1> QED BY <1>2, <1>3, <1>4, <1>5 DEF CorrectionNext

\* A plan that is executed once can be undone in every reachable state.
LEMMA UndoableAlways == CorrectionSpec => []Undoable
<1>1. Undoable /\ Shaped /\ [CorrectionNext]_vars => Undoable'
  <2> SUFFICES ASSUME Undoable, Shaped, [CorrectionNext]_vars PROVE Undoable'
    OBVIOUS
  <2>1. CASE CorrectionNext
    BY <2>1, UndoableStep
  <2>2. CASE UNCHANGED vars
    BY <2>2 DEF vars, facts, corrections, Undoable, RollsLast, MetaOnce, Attached, Held, TextStaysGone,
                Fine, Unexecuted, Unmarked, UnderWay, OwnMark, Stored, Undone, Unstored, Unmentioned,
                Live, Ahead, Claims
  <2> QED BY <2>1, <2>2
<1> QED BY <1>1, UndoableInit, ShapedAlways, PTL DEF CorrectionSpec

\* A rollback that is recorded as done has taken the plan's text and mark away and put its
\* target's facts back (correction_admin_service.py:273-472).
THEOREM RollBacksUndo == CorrectionSpec => RollBackUndoes
<1> DEFINE Step == \A pl \in Plan \ repeated : UndoneWhenRecorded(pl)
<1>1. Undoable /\ Shaped /\ [CorrectionNext]_vars => [Step]_vars
  <2> SUFFICES ASSUME Undoable, Shaped, CorrectionNext, NEW pl \in Plan \ repeated,
                      plan'[pl].status = "rolled_back", plan[pl].status # "rolled_back"
               PROVE  UndoneWhenRecorded(pl)
    BY DEF UndoneWhenRecorded
  <2>1. Ends("rolled", "rolled_back") /\ Arg = pl /\ Doing("rolled") /\ IInv /\ RollsLast
    BY RecordedByItsEnd DEF Ends, Shaped, Undoable
  <2>2. script # <<>> /\ Head(script)[1] = "rolled" /\ Ahead(pl, "rolled")
    BY <2>1, HeadIs DEF Doing
  <2>3. \A x, n : Ahead(x, n) => n = "rolled"
    BY <2>1, <2>2, LastCommit
  <2>4. Fine(pl) /\ UNCHANGED <<claim, support, para, inactive>>
    BY <2>1 DEF Undoable, Ends
  <2> DEFINE mark == plan[pl].mark
  <2>5. /\ ~Live(Text[pl]) /\ mark.change # pl
        /\ mark.taken =>
              /\ Target[pl] \in inactive => mark.inactive
              /\ para[Target[pl]].change = mark.change
              /\ mark.facts.evidence \subseteq support
              /\ \A c \in Claims(mark.facts.evidence) : ~claim[c].detached
    BY <2>2, <2>3, <2>4 DEF Fine, Undone, OwnMark
  <2> HIDE DEF mark
  <2>6. /\ para'[Text[pl]].state # "live"
        /\ mark.taken =>
              /\ para'[Target[pl]].change # pl
              /\ mark.facts.evidence \subseteq support'
              /\ Target[pl] \in inactive' => mark.inactive
              /\ \A c \in Claims(mark.facts.evidence) : ~claim'[c].detached
    BY <2>4, <2>5 DEF Live
  <2> QED BY <2>6 DEF UndoneWhenRecorded, mark
<1>2. CorrectionSpec => [][Step]_vars
  BY <1>1, UndoableAlways, ShapedAlways, PTL DEF CorrectionSpec
<1> QED BY <1>2 DEF RollBackUndoes, UndoneWhenRecorded
====
