------------------------------ MODULE Corrections ------------------------------
(***************************************************************************)
(* Corrections of the memory (correction_admin_service.py): a plan stores  *)
(* a new text and marks the paragraph it corrects as superseded, which     *)
(* takes that paragraph's facts away; a rollback deletes the text and puts *)
(* the paragraph back.  Plans run beside everything that FactClaims lets   *)
(* happen to facts and paragraphs.                                         *)
(*                                                                         *)
(* A plan has one text and one target, a text belongs to one plan, and an  *)
(* execution is over within the five minutes after which another may claim *)
(* it.  A plan is executed in scripts of commits between awaits: that of   *)
(* the embedding, and that of the profile's refresh.  What it has done is  *)
(* recorded only when it is over.  The cascade is the relation that rests  *)
(* on the target alone, which is deleted with it; shared relations get a   *)
(* mark as in FeedbackTasks.                                               *)
(*                                                                         *)
(* Only a plan made for a person stores its text as a person fact, and     *)
(* asks for the person's refresh when it is rolled back; it has a refresh  *)
(* operation unless the planner names other persons only, which is left    *)
(* out.  A plan made for a memory has one if the planner says so.  Without *)
(* it the facts of a person's paragraph change and nobody is told.         *)
(***************************************************************************)
EXTENDS FactClaims

CONSTANTS
    Plan,
    Text,     \* the paragraph a plan stores
    Target,   \* the paragraph it marks as superseded
    Kinds     \* bound on the kinds of plans

ASSUME PlansAssumption ==
    /\ Text \in [Plan -> Paragraph \ Ingested]
    /\ Target \in [Plan -> Paragraph]
    /\ \A pl \in Plan : Text[pl] # Target[pl]
    /\ \A pl, q \in Plan : Text[pl] = Text[q] => pl = q

ASSUME KindsAssumption ==
    Kinds \subseteq {k \in [refreshes : BOOLEAN, person : BOOLEAN] : k.person => k.refreshes}

\* No plan has the name for what no plan has changed.
ASSUME NamesAssumption == None \notin Plan

VARIABLES
    kind,      \* of plans: has it a refresh operation for the person, is it made for one
    plan,      \* memory_fuzzy_modify_plans: status and recorded execution
    run,       \* what the running execution or rollback of a plan waits for, and has done
    inactive,  \* paragraphs whose relation is inactive
    repeated   \* history: plans that were executed more than once

corrections == <<plan, run, inactive, repeated>>
vars == <<facts, kind, corrections>>

NoMark == [taken |-> FALSE, change |-> None, facts |-> NoSnapshot, inactive |-> FALSE]
NoRun == [step |-> "none", stored |-> FALSE, mark |-> NoMark]

CorrectionInit ==
    /\ Init
    /\ kind \in [Plan -> Kinds]
    /\ plan = [pl \in Plan |-> [status |-> "awaiting", stored |-> FALSE, mark |-> NoMark]]
    /\ run = [pl \in Plan |-> NoRun]
    /\ inactive = {} /\ repeated = {}

-----------------------------------------------------------------------------
\* Executing a plan.

Live(p) == para[p].state = "live"

Steps(pl, names) == [i \in DOMAIN names |-> <<names[i], pl>>]

\* Mutant: the profile is left to the text's ingestion.
MarksUnasked(pl) ==
    Steps(pl, IF Live(Target[pl]) THEN <<"meta", "detach", "cascade", "record">>
              ELSE <<"record">>)

\* ingest_text: what is not a person fact has no claims.
Stores(pl) == IF kind[pl].person THEN Writes(Text[pl]) ELSE << <<"ref", Text[pl]>> >>

\* _mark_fuzzy_modify_target_superseded; then refresh_person_profile is awaited, or the
\* execution is recorded at once.
Marks(pl) ==
    LET last == IF kind[pl].refreshes THEN "ask" ELSE "record" IN
    Steps(pl, IF Live(Target[pl]) THEN <<"meta", "detach", "cascade", last>> ELSE <<last>>)

Going(pl, step) == script = <<>> /\ run[pl].step = step

\* claim_fuzzy_modify_plan; a text that has an external reference is not stored again.
Execute(pl) ==
    LET known == Text[pl] \in ref IN
    /\ Going(pl, "none")
    /\ plan[pl].status \in {"awaiting", "failed", "executing"}
    /\ plan' = [plan EXCEPT ![pl].status = "executing"]
    /\ run' = [run EXCEPT ![pl].step = IF known THEN "marks" ELSE "text"]
    /\ repeated' = IF plan[pl].status = "awaiting" THEN repeated ELSE repeated \cup {pl}
    /\ \/ known /\ script' = Marks(pl) /\ UNCHANGED <<para, ingest>>
       \/ ~known /\ AddParagraph(Text[pl], None) /\ UNCHANGED script
    /\ UNCHANGED <<claim, support, ref, ops, refresh, vouched, late, events, inactive>>

TextStored(pl) ==
    /\ Going(pl, "text")
    /\ Embedded(Text[pl], Stores(pl) \o Marks(pl))
    /\ run' = [run EXCEPT ![pl].step = "marks", ![pl].stored = TRUE]
    /\ UNCHANGED <<plan, inactive, repeated>>

\* The call raises; what was recorded of an earlier execution stays.
Failed(pl) ==
    /\ plan' = [plan EXCEPT ![pl].status = "failed"]
    /\ run' = [run EXCEPT ![pl] = NoRun]
    /\ UNCHANGED <<inactive, repeated>>

TextFails(pl) == Going(pl, "text") /\ EmbeddingFails(Text[pl]) /\ Failed(pl)

MarkMeta ==
    /\ Doing("meta") /\ Done
    /\ para' = [para EXCEPT ![Target[Arg]].change = Arg]
    /\ run' = [run EXCEPT ![Arg].mark.taken = TRUE,
                          ![Arg].mark.change = para[Target[Arg]].change]
    /\ UNCHANGED <<claim, support, ref, ops, ingest, refresh, vouched, late, events,
                   plan, inactive, repeated>>

\* What a plan changes is owed to the profile if it will ask.
Corrects(cl, asks) ==
    IF asks \/ Shown(cl) = Shown(claim) \/ refresh = "asked" THEN Becomes(cl, FALSE)
    ELSE claim' = cl /\ refresh' = "unasked"

MarkFacts ==
    /\ Doing("detach") /\ Done
    /\ run' = [run EXCEPT ![Arg].mark.facts = Snapshot(Target[Arg])]
    /\ Corrects(Detach(Target[Arg]), kind[Arg].refreshes)
    /\ support' = support \ Evidence(Target[Arg])
    /\ UNCHANGED <<para, ref, ops, ingest, vouched, late, events, plan, inactive, repeated>>

\* _execute_fuzzy_modify_paragraph_cascade.
Cascade ==
    /\ Doing("cascade") /\ Done
    /\ run' = [run EXCEPT ![Arg].mark.inactive = Target[Arg] \in inactive]
    /\ inactive' = inactive \cup {Target[Arg]}
    /\ UNCHANGED <<claim, support, para, ref, ops, ingest, refresh, vouched, late, events,
                   plan, repeated>>

\* What an execution has done is recorded, and that it failed if it did nothing.
Recorded(pl, status) == [status |-> status, stored |-> run[pl].stored, mark |-> run[pl].mark]

Records(pl, did) ==
    /\ plan' = [plan EXCEPT ![pl] = Recorded(pl, IF did THEN "executed" ELSE "failed")]
    /\ run' = [run EXCEPT ![pl] = NoRun]
    /\ UNCHANGED <<inactive, repeated>>

\* The profile is refreshed, or that fails.
Finish(pl) ==
    /\ Going(pl, "marks")
    /\ Records(pl, TRUE) \/ Failed(pl)
    /\ UNCHANGED facts

\* The end of what runs without an await.
Over == refresh' = IF refresh = "asked" THEN "none" ELSE refresh

\* There is no profile to refresh.
Conclude ==
    /\ Doing("record") /\ Done
    /\ Over
    /\ Records(Arg, run[Arg].stored \/ run[Arg].mark.taken)
    /\ UNCHANGED <<claim, support, para, ref, ops, ingest, vouched, late, events>>

-----------------------------------------------------------------------------
\* Rolling it back.

\* _storage_cleanup_lock: held by a deletion until its clean-up has been tried.
Unlocked == \A pl \in Plan : run[pl].step # "delete"

\* What is left after the text is gone.  The relation of a dead target is gone too.
Undo(pl) ==
    LET marked == plan[pl].mark.taken
        asks == kind[pl].person
    IN  Steps(pl, IF marked /\ ~Live(Target[pl]) THEN <<"unrolled">>
                  ELSE IF marked /\ asks THEN <<"uncascade", "unmeta", "unfact", "ask", "rolled">>
                  ELSE IF marked THEN <<"uncascade", "unmeta", "unfact", "rolled">>
                  ELSE IF asks THEN <<"ask", "rolled">>
                  ELSE <<"rolled">>)

Undoing(pl) ==
    /\ run' = [run EXCEPT ![pl].step = "undo"]
    /\ script' = Undo(pl)
    /\ UNCHANGED <<plan, inactive, repeated>>

HasText(pl) == plan[pl].stored /\ para[Text[pl]].state # "none"

RollBack(pl, o) ==
    /\ Going(pl, "none") /\ Unlocked
    /\ plan[pl].status = "executed" /\ HasText(pl)
    /\ DeleteParagraph(o, Text[pl])
    /\ run' = [run EXCEPT ![pl].step = "delete"]
    /\ UNCHANGED <<ingest, script, vouched, late, events, plan, inactive, repeated>>

\* The text is deleted and cleaned up.
TextGone(pl) ==
    /\ Going(pl, "delete")
    /\ Undoing(pl)
    /\ UNCHANGED <<claim, support, para, ref, ops, ingest, refresh, vouched, late, events>>

RollBackOnly(pl) ==
    /\ Going(pl, "none")
    /\ plan[pl].status = "executed" /\ ~HasText(pl)
    /\ Undoing(pl)
    /\ UNCHANGED <<claim, support, para, ref, ops, ingest, refresh, vouched, late, events>>

\* There is nothing to delete (also for a second request while the first waits),
\* or the deletion raises.
RollBackFails(pl) ==
    /\ script = <<>> /\ run[pl].step \in {"none", "delete"}
    /\ plan[pl].status = "executed" /\ HasText(pl)
    /\ Live(Text[pl]) => Unlocked
    /\ plan' = [plan EXCEPT ![pl].status = "rollback_failed"]
    /\ UNCHANGED <<facts, run, inactive, repeated>>

Uncascade ==
    /\ Doing("uncascade") /\ Done
    /\ inactive' = IF plan[Arg].mark.inactive THEN inactive \cup {Target[Arg]}
                   ELSE inactive \ {Target[Arg]}
    /\ UNCHANGED <<claim, support, para, ref, ops, ingest, refresh, vouched, late, events,
                   plan, run, repeated>>

\* Mutant: what was there before is merged into what is there.
UnmetaMerged ==
    /\ Doing("unmeta") /\ Done
    /\ para' = [para EXCEPT ![Target[Arg]].change =
                    IF plan[Arg].mark.change = None THEN @ ELSE plan[Arg].mark.change]
    /\ UNCHANGED <<claim, support, ref, ops, ingest, refresh, vouched, late, events, corrections>>

Unmeta ==
    /\ Doing("unmeta") /\ Done
    /\ para' = [para EXCEPT ![Target[Arg]].change = plan[Arg].mark.change]
    /\ UNCHANGED <<claim, support, ref, ops, ingest, refresh, vouched, late, events, corrections>>

Unfact ==
    /\ Doing("unfact") /\ Done
    /\ Corrects(Reattach(plan[Arg].mark.facts), kind[Arg].person)
    /\ support' = support \cup plan[Arg].mark.facts.evidence
    /\ UNCHANGED <<para, ref, ops, ingest, vouched, late, events, corrections>>

Ends(step, status) ==
    /\ Doing(step)
    /\ Done
    /\ Over
    /\ plan' = [plan EXCEPT ![Arg].status = status]
    /\ run' = [run EXCEPT ![Arg] = NoRun]
    /\ UNCHANGED <<claim, support, para, ref, ops, ingest, vouched, late, events,
                   inactive, repeated>>

-----------------------------------------------------------------------------
Executing ==
    \/ \E pl \in Plan : Execute(pl) \/ TextStored(pl) \/ TextFails(pl) \/ Finish(pl)
    \/ MarkMeta \/ MarkFacts \/ Cascade \/ Conclude

RollingBack ==
    \/ \E pl \in Plan : TextGone(pl) \/ RollBackOnly(pl) \/ RollBackFails(pl)
    \/ \E pl \in Plan, o \in Op : RollBack(pl, o)
    \/ Uncascade \/ Unmeta \/ Unfact
    \/ Ends("rolled", "rolled_back") \/ Ends("unrolled", "rollback_failed")

\* The process dies and starts again.
Restart ==
    /\ Crash
    /\ run' = [pl \in Plan |-> NoRun]
    /\ UNCHANGED <<plan, inactive, repeated>>

Others ==
    /\ Administration \/ Ingestion \/ Writing \/ Purging \/ (Unlocked /\ Deletion)
    /\ UNCHANGED corrections

CorrectionNext == (Others \/ Executing \/ RollingBack \/ Restart) /\ UNCHANGED kind

CorrectionSpec == CorrectionInit /\ [][CorrectionNext]_vars

-----------------------------------------------------------------------------
\* A plan executed once leaves nothing when it is rolled back, whatever has happened
\* to facts and paragraphs in between: its text is gone, its mark is off the target,
\* and the target's facts are supported by it again and none is missing for the lack
\* of it (correction_admin_service.py:273-472).  Executed again after a failure, a
\* plan has recorded its own mark as what was there before, and does not undo it.
RollBackUndoes ==
    [][\A pl \in Plan \ repeated :
          plan'[pl].status = "rolled_back" /\ plan[pl].status # "rolled_back" =>
              LET mark == plan[pl].mark IN
              /\ para'[Text[pl]].state # "live"
              /\ mark.taken =>
                    /\ para'[Target[pl]].change # pl
                    /\ mark.facts.evidence \subseteq support'
                    /\ Target[pl] \in inactive' => mark.inactive
                    /\ \A c \in Claims(mark.facts.evidence) : ~claim'[c].detached]_vars

\* Whoever changes what the profile shows asks for its refresh before the next await,
\* also a correction with a refresh operation, whether its text is stored again or not,
\* and the rollback of one made for a person.  Other corrections do not ask, nor do
\* their rollbacks (correction_admin_service.py:679-680, 1051-1055, 440-451).  A crash
\* loses a request, and the purge of a paragraph that was deleted before its claim was
\* written takes the claim away unasked.
ChangeIsAsked ==
    refresh = "owed" => late # {} \/ \E i \in DOMAIN script : script[i][1] = "ask"
=============================================================================
