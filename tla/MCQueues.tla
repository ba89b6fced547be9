-------------------------------- MODULE MCQueues --------------------------------
(***************************************************************************)
(* For TLC: the queue of writes that arrive while the host starts          *)
(* (HostRuntime), or the queue of profiles to refresh (ProfileRefresh).    *)
(* The one is a file of the plugin process, the other a table which loops  *)
(* of the published kernel serve; neither reads the other, so that one of  *)
(* them at a time is enough.                                               *)
(***************************************************************************)
EXTENDS HostRuntime, ProfileRefresh

VARIABLE queue

Writes == queue = "writes" /\ UNCHANGED <<queue, profileVars>>

Profiles == queue = "profiles" /\ UNCHANGED <<queue, vars>>

\* The values of evidence are interchangeable: one to start with is enough.
QueuesInit ==
    /\ queue \in {"writes", "profiles"}
    /\ Init /\ ProfileInit
    /\ evidence \in [Person -> {0}]
    /\ queue = "profiles" => enabled

QueuesNext == (Writes /\ Next) \/ (Profiles /\ ProfileNext)

queueVars == <<queue, vars, profileVars>>

\* Each keeps its fairness: as the queue never changes, to be fair to one of two
\* actions of different queues is to be fair to both.
QueuesSpec ==
    /\ QueuesInit /\ [][QueuesNext]_queueVars
    /\ \A p \in Person : WF_queueVars((Writes /\ Start) \/ (Profiles /\ Enqueue(p)))
    /\ WF_queueVars(Writes /\ StartupStep)
    /\ WF_queueVars(Writes /\ ShutdownStep)
    /\ \A r \in Write : SF_queueVars(Writes /\ RequestStep(r) /\ req[r].pc # "new")
    /\ \A w \in Loop : WF_queueVars(Profiles /\ (Fetch(w) \/ Claim(w) \/ Refresh(w)))
===============================================================================
