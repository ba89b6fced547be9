----------------------------- MODULE EpisodeView -----------------------------
(***************************************************************************)
(* What episode materialisation promises, with no queue, lease or worker:  *)
(* the episodes of a source change only by being replaced, in one step, by *)
(* a snapshot of everything the source holds at that instant, computed     *)
(* under the settings in force at that instant.                            *)
(***************************************************************************)
EXTENDS Naturals

CONSTANTS
    Source,         \* paragraph sources (chat streams, persons, imports)
    Generation,     \* segmentation settings, identified by their hash
    Materialised,   \* Materialised[g]: sources the policy of g builds episodes for
    Empty           \* the snapshot of a source with no episodes

VARIABLES
    content,        \* content[s]: version of the live paragraphs of s
    episodes,       \* episodes[s]: the version the published episodes were cut from
    generation      \* the settings in force

vars == <<content, episodes, generation>>

\* A complete snapshot of s under the settings g.
View(s, g) == IF s \in Materialised[g] THEN content[s] ELSE Empty

Init ==
    /\ content = [s \in Source |-> 0]
    /\ episodes = [s \in Source |-> Empty]
    /\ generation \in Generation

\* Paragraphs of s are added, edited, deleted or revived.
Change(s) ==
    /\ content' = [content EXCEPT ![s] = @ + 1]
    /\ UNCHANGED <<episodes, generation>>

\* The episodes of s become a snapshot of s as it is now.
Refresh(s) ==
    /\ episodes' = [episodes EXCEPT ![s] = View(s, generation)]
    /\ UNCHANGED <<content, generation>>

Reconfigure ==
    /\ generation' \in Generation
    /\ UNCHANGED <<content, episodes>>

Next == Reconfigure \/ \E s \in Source : Change(s) \/ Refresh(s)

Spec == Init /\ [][Next]_vars
=============================================================================
