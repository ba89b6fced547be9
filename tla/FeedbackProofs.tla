----------------------------- MODULE FeedbackProofs -----------------------------
(***************************************************************************)
(* What FeedbackTasks promises, for any tasks, relations and               *)
(* administrators: AppliedIsForgotten, DerivedIsAsked, UndoneLeavesNoTrace.*)
(*                                                                         *)
(* The hard part is the last one.  A task saves, with its plan, the mark   *)
(* each relation had before it (prev) and the relations that were active   *)
(* (before); a rollback puts both back.  That is right only if the tasks   *)
(* on a relation are undone newest first, and neither the marks nor the    *)
(* plans say by themselves which task is newer: after a few rollbacks      *)
(* marks are those of tasks that were marked over long ago.  So the        *)
(* invariant asserts that an order exists (Ordering): a set older of pairs *)
(* of tasks that the marks, the saved marks and every rollback under way   *)
(* agree with.  Applying a task puts it on top of all others, nothing else *)
(* changes the order.                                                      *)
(*                                                                         *)
(* Nothing in the code makes the order of rollbacks that of the tasks.  So *)
(* all this is said of the relations that are not tangled: tasks were at   *)
(* work on them one at a time and were rolled back newest first.  Tasks    *)
(* and rollbacks themselves may come in any order.                         *)
(*                                                                         *)
(* Beside it: whoever holds a relation down will put it back (HeldDown), a *)
(* mark is that of a task in effect or on its way (MarksStand), the texts  *)
(* and corrected relations follow the state of their task (TracesKept), and*)
(* whoever changed a relation has yet to ask for a rebuild or has asked    *)
(* (AskedFor).  These hold for the relations on which no task was claimed  *)
(* twice or ended halfway (Smooth, Undisturbed).                           *)
(*                                                                         *)
(* The step lemmas come in three layers: what any step that concerns one   *)
(* task keeps (StepOf ... XKept), what any step of the loop or of an       *)
(* administrator keeps (LoopStep, AdminStep and those that cite them), and *)
(* one lemma per action.                                                   *)
(***************************************************************************)
EXTENDS FeedbackTasks, TLAPS

LoopPhase == {"classify", "ingest", "relate", "compensate", "mark", "derive", "plan", "final"}
AdminPhase == {"restore", "delete", "clean", "unmark", "askagain", "close"}

Prev == SUBSET (Relation \X (Task \cup {None}))

TaskRow ==
    [status : {None, "pending", "running", "skipped", "applied", "error"},
     last_error : {None, "classify", "ingest", "raised"}, attempts : Nat, lapsed : BOOLEAN,
     plan : PlanType, rollback : {None, "running", "rolled_back", "error"}, known : BOOLEAN]

ProcRow ==
    [task : Task \cup {None}, phase : {"idle"} \cup LoopPhase \cup AdminPhase, kind : {None, "reject", "correct"},
     before : SUBSET Relation, prev : Prev, existed : BOOLEAN]

Typed ==
    /\ task \in [Task -> TaskRow]
    /\ active \in SUBSET Relation /\ asked \in SUBSET Relation /\ fix \in SUBSET Task
    /\ tangled \in SUBSET Relation
    /\ marks \in [Relation -> Task \cup {None}]
    /\ stored \in [Task -> {"no", "partly", "yes"}]
    /\ proc \in [Actor -> ProcRow]
    /\ crashes \in Nat

Busy(a) == proc[a].phase # "idle"
LoopOn(t) == Busy(Loop) /\ Mine(Loop) = t
LoopIn(phases) == proc[Loop].phase \in phases

After == LoopPhase \ {"classify"}
Marked == {"derive", "plan", "final"}

\* Who is busy, with what, and what its row says meanwhile.
RolesKept ==
    /\ \A a \in Actor : ~Busy(a) => proc[a] = Idle
    /\ \A a \in Actor : Busy(a) => Mine(a) \in Task
    /\ Busy(Loop) => LoopIn(LoopPhase) /\ task[Mine(Loop)].status = "running"
    /\ \A a \in Admin : Busy(a) =>
          /\ proc[a].phase \in AdminPhase
          /\ task[Mine(a)].rollback = "running" /\ ~task[Mine(a)].lapsed
    /\ \A t \in Task : task[t].rollback # None => task[t].status = "applied"
    /\ \A t \in Task : task[t].status = "running" => task[t].attempts > 0

\* The relations of t of which something can be said.
On(t) == Targets[t] \ tangled

Meet(t, u) == On(t) \cap On(u) # {}

Apart == \A a, b \in Actor : a # b /\ Busy(a) /\ Busy(b) => Mine(a) # Mine(b) /\ ~Meet(Mine(a), Mine(b))

\* In effect, at least in part; in effect.
Stands(t) == task[t].status = "applied" /\ task[t].rollback # "rolled_back"
Settled(t) == task[t].status = "applied" /\ task[t].rollback = None

Owned(prev) == \A m \in prev : m[2] # None => m[1] \in Targets[m[2]]

MarksOwned == \A r \in Relation : marks[r] # None => r \in Targets[marks[r]]

PlanKept(t) ==
    LET plan == task[t].plan
    IN  /\ {m[1] : m \in plan.prev} = Targets[t] /\ Owned(plan.prev)
        /\ plan.before \subseteq Targets[t]
        /\ active \cap On(t) \subseteq plan.before

PlansKept == \A t \in Task : Stands(t) => PlanKept(t)

SettledForgot ==
    \A t \in Task : Settled(t) =>
        /\ \A r \in On(t) : r \notin active /\ marks[r] # None
        /\ task[t].plan.kind = "correct" => stored[t] = "yes"

\* What the loop knows of the task it applies.
LoopKnows ==
    LET t == Mine(Loop)
        p == proc[Loop]
    IN
    /\ LoopIn(After) =>
          /\ active \cap On(t) = {} /\ p.before \subseteq Targets[t]
          /\ \A u \in Task : Settled(u) => p.before \cap On(u) = {}
          /\ \A u \in Task : Stands(u) => p.before \cap On(u) \subseteq task[u].plan.before
    /\ LoopIn({"ingest", "relate", "compensate"}) => p.kind = "correct"
    /\ LoopIn({"mark"} \cup Marked) /\ p.kind = "correct" => stored[t] = "yes"
    /\ LoopIn(Marked) =>
          /\ \A r \in On(t) : marks[r] = t
          /\ {m[1] : m \in p.prev} = Targets[t] /\ Owned(p.prev)
          /\ \A m \in p.prev : m[2] = None => \A u \in Task : ~(Settled(u) /\ m[1] \in On(u))
    /\ LoopIn({"plan", "final"}) => active \cap Targets[t] = asked \cap Targets[t]
    /\ LoopIn({"final"}) => task[t].plan = [kind |-> p.kind, before |-> p.before, prev |-> p.prev, existed |-> p.existed]

\* The tasks in effect are undone newest first.  older: pairs of tasks.
MarksTop(older) ==
    \A r \in Relation, t, u \in Task :
        marks[r] = t /\ Stands(t) /\ Settled(u) /\ u # t /\ r \in On(u) => <<u, t>> \in older

PrevsBelow(older) ==
    \A t, u \in Task : Stands(t) /\ Settled(u) /\ <<u, t>> \in older =>
        /\ task[t].plan.before \cap On(u) = {}
        /\ \A m \in task[t].plan.prev : m[1] \in On(u) =>
              /\ m[2] # None
              /\ Stands(m[2]) /\ <<m[2], t>> \in older /\ u # m[2] => <<u, m[2]>> \in older

LoopBelow(older) ==
    LoopIn(Marked) => \A m \in proc[Loop].prev, u \in Task : 
        m[2] # None /\ Settled(u) /\ m[1] \in On(u) /\ Stands(m[2]) /\ u # m[2] => <<u, m[2]>> \in older

UndoTop(older) ==
    \A a \in Admin, u \in Task : Busy(a) /\ Stands(u) /\ u # Mine(a) /\ Meet(u, Mine(a)) => Settled(u) /\ <<u, Mine(a)>> \in older

Antisymmetric(older) == \A t, u \in Task : ~(<<t, u>> \in older /\ <<u, t>> \in older)

\* Untangled relations where every task went through at the first attempt or is still on it.
Abandoned(t) == task[t].status = "running" /\ ~LoopOn(t)

Smooth(r) ==
    /\ r \notin tangled
    /\ \A t \in Task : r \in Targets[t] =>
        task[t].attempts <= 1 /\ ~(task[t].status = "error" /\ task[t].last_error = "raised")

PrevsStand(older) ==
    \A t \in Task : Stands(t) => \A m \in task[t].plan.prev : Smooth(m[1]) /\ m[2] # None =>
        (Stands(m[2]) /\ <<m[2], t>> \in older) \/ Abandoned(m[2])

Ordered(older) ==
    /\ Antisymmetric(older) /\ MarksTop(older) /\ PrevsBelow(older) /\ LoopBelow(older)
    /\ UndoTop(older) /\ PrevsStand(older)

Ordering == \E older \in SUBSET (Task \X Task) : Ordered(older)

LoopPrevs ==
    LoopIn(Marked) => \A m \in proc[Loop].prev : (Smooth(m[1]) /\ m[2] # None) => Stands(m[2]) \/ Abandoned(m[2])

MarkStands(t) == Stands(t) \/ Abandoned(t) \/ (LoopOn(t) /\ LoopIn(Marked))

MarksStand == \A r \in Relation : Smooth(r) /\ marks[r] # None => MarkStands(marks[r])

\* Whoever holds a relation down will put it back.
Holds(t, r) ==
    \/ Stands(t) /\ r \in task[t].plan.before
    \/ Abandoned(t)
    \/ LoopOn(t) /\ LoopIn(After) /\ r \in proc[Loop].before

HeldDown ==
    \A r \in Relation : Smooth(r) /\ r \notin active => \E t \in Task : r \in Targets[t] /\ Holds(t, r)

\* What a correction wrote, while all goes well at the first attempt.
Blank(t) == stored[t] = "no" /\ (t \in fix <=> task[t].known)

TraceKept(t) ==
    /\ task[t].status \in {None, "pending"} \/ task[t].rollback = "rolled_back" => Blank(t)
    /\ LoopOn(t) =>
          /\ LoopIn({"classify", "ingest"}) => Blank(t)
          /\ LoopIn(After) => (proc[Loop].existed <=> task[t].known)
          /\ LoopIn({"mark"} \cup Marked) /\ proc[Loop].kind # "correct" => Blank(t)
    /\ Stands(t) =>
          /\ task[t].plan.existed <=> task[t].known
          /\ task[t].plan.kind # "correct" => Blank(t)
    /\ \A a \in Admin : Mine(a) = t =>
          /\ proc[a].phase = "clean" => stored[t] = "no" /\ (t \in fix => task[t].known)
          /\ proc[a].phase \in {"unmark", "askagain", "close"} => Blank(t)

TracesKept == \A t \in Task : task[t].attempts <= 1 => TraceKept(t)

\* What derives from a relation.
Asking(t) ==
    \/ task[t].rollback = "running" \/ Abandoned(t)
    \/ LoopOn(t) /\ ~LoopIn({"classify", "plan", "final"})

Agree(r) == r \in active <=> r \in asked

Undisturbed(r) ==
    \A t \in Task : r \in Targets[t] => task[t].attempts <= 1 /\ "error" \notin {task[t].status, task[t].rollback}

AskedFor ==
    \A r \in Relation : Undisturbed(r) => Agree(r) \/ \E t \in Task : r \in Targets[t] /\ Asking(t)

\* What an administrator has achieved so far.
UndoKept(a) ==
    LET t == Mine(a)
        p == proc[a].phase
    IN  /\ p \in AdminPhase \ {"restore"} => task[t].plan.before \cap On(t) \subseteq active
        /\ p \in {"askagain", "close"} => \A r \in Targets[t] : Smooth(r) => marks[r] # t
        /\ p = "close" => \A r \in Targets[t] : Agree(r)

UndosKept == \A a \in Admin : UndoKept(a)

IInv ==
    /\ Typed /\ RolesKept /\ Apart /\ MarksOwned /\ PlansKept /\ SettledForgot /\ LoopKnows
    /\ Ordering
    /\ LoopPrevs /\ MarksStand /\ UndosKept /\ HeldDown /\ TracesKept /\ AskedFor

-----------------------------------------------------------------------------

\* The loop is no administrator and None is no task.
LEMMA Names == None \notin Task /\ Loop \notin Admin /\ Loop \in Actor /\ Actor = Admin \cup {Loop}
BY NamesAssumption DEF None, Loop, Actor

(* What a step leaves alone. *)

OnlyOf(t) ==
    /\ \A u \in Task : u # t => task'[u] = task[u] /\ stored'[u] = stored[u] /\ (u \in fix' <=> u \in fix)
    /\ \A r \in Relation : r \notin Targets[t] =>
          marks'[r] = marks[r] /\ (r \in active' <=> r \in active) /\ (r \in asked' <=> r \in asked)

OnlyBy(a) == \A b \in Actor : b # a => proc'[b] = proc[b]

StepOf(t) ==
    /\ OnlyOf(t)
    /\ \A b \in Actor : proc'[b] = proc[b] \/ {proc[b].task, proc'[b].task} \subseteq {t, None}
    /\ task'[t].attempts \in Nat /\ task'[t].attempts >= task[t].attempts
    /\ task[t].status = "error" => task'[t].status = "error" /\ task'[t].last_error = task[t].last_error
    /\ tangled \subseteq tangled'

Owns(a, t) == Runs(a) /\ Busy(a) /\ Mine(a) = t /\ OnlyBy(a)

\* Marks, relations and requests stay as they are.
Quiet == marks' = marks /\ active' = active /\ asked' = asked

\* No task begins or ends to be in effect, none is abandoned or disturbed; a rollback may begin.
Calm ==
    /\ \A t \in Task : (Stands(t)' <=> Stands(t)) /\ (Settled(t)' => Settled(t))
    /\ \A t \in Task : Stands(t) => task'[t].plan = task[t].plan
    /\ tangled \subseteq tangled'
    /\ \A r \in Relation : Smooth(r)' => Smooth(r)
    /\ \A r \in Relation, t \in Task : Smooth(r)' /\ r \in Targets[t] /\ Abandoned(t) => Abandoned(t)'

Steady == Calm /\ \A t \in Task : Settled(t) => Settled(t)'

\* Attempts and failures are not taken back.
LEMMA SmoothBefore ==
    ASSUME Typed, NEW t \in Task, StepOf(t)
    PROVE  \A r \in Relation : Smooth(r)' => Smooth(r)
<1> SUFFICES ASSUME NEW r \in Relation
             PROVE  Smooth(r)' => Smooth(r)
  OBVIOUS
<1>1. \A u \in Task : u # t => task'[u] = task[u]
  BY DEF StepOf, OnlyOf
<1>2. task[t].attempts \in Nat /\ task'[t].attempts \in Nat /\ task'[t].attempts >= task[t].attempts
  BY DEF StepOf, Typed, TaskRow
<1>3. task[t].status = "error" => task'[t].status = "error" /\ task'[t].last_error = task[t].last_error
  BY DEF StepOf
<1>4. ASSUME Smooth(r)', NEW u \in Task, r \in Targets[u]
      PROVE  task[u].attempts <= 1 /\ ~(task[u].status = "error" /\ task[u].last_error = "raised")
  <2>1. task'[u].attempts <= 1 /\ ~(task'[u].status = "error" /\ task'[u].last_error = "raised")
    BY <1>4 DEF Smooth
  <2>2. CASE u = t
    BY <2>1, <2>2, <1>2, <1>3
  <2>3. CASE u # t
    BY <2>1, <2>3, <1>1
  <2> QED
    BY <2>2, <2>3
<1>5. Smooth(r)' => r \notin tangled
  BY DEF Smooth, StepOf
<1> QED
  BY <1>4, <1>5 DEF Smooth

\* A step that concerns one task leaves what is said of the others.
LEMMA OthersSame ==
    ASSUME Typed, RolesKept, NEW t \in Task, StepOf(t), NEW u \in Task, u # t
    PROVE  /\ (Stands(u)' <=> Stands(u)) /\ (Settled(u)' <=> Settled(u)) /\ task'[u] = task[u]
           /\ (LoopOn(u)' <=> LoopOn(u)) /\ (LoopOn(u) => proc'[Loop] = proc[Loop])
           /\ (Abandoned(u)' <=> Abandoned(u))
           /\ \A r \in Relation : (Holds(u, r)' <=> Holds(u, r))
           /\ (Asking(u)' <=> Asking(u))
<1>1. task'[u] = task[u]
  BY DEF StepOf, OnlyOf
<1>2. proc'[Loop] = proc[Loop] \/ {proc[Loop].task, proc'[Loop].task} \subseteq {t, None}
  BY Names DEF StepOf
<1>3. (LoopOn(u)' <=> LoopOn(u)) /\ (LoopOn(u) => proc'[Loop] = proc[Loop])
  BY <1>2, Names DEF LoopOn, Busy, Mine
<1> QED
  BY <1>1, <1>3 DEF Stands, Settled, Abandoned, Holds, Asking, LoopIn

\* The order is kept by a step that moves neither plans nor effects, if it keeps marks and rollbacks in order.
LEMMA OrderingCalm ==
    ASSUME Typed, PlansKept, LoopKnows, Calm, NEW older \in SUBSET (Task \X Task), Ordered(older),
           LoopIn(Marked)' => LoopIn(Marked) /\ proc'[Loop].prev = proc[Loop].prev,
           MarksTop(older)', UndoTop(older)'
    PROVE  Ordering'
<1>2. Antisymmetric(older)
  BY DEF Ordered
<1>4. PrevsBelow(older)'
  <2> SUFFICES ASSUME NEW t \in Task, NEW u \in Task, Stands(t)', Settled(u)', <<u, t>> \in older
               PROVE  /\ task'[t].plan.before \cap On(u)' = {}
                      /\ \A m \in task'[t].plan.prev : m[1] \in On(u)' =>
                            /\ m[2] # None
                            /\ Stands(m[2])' /\ <<m[2], t>> \in older /\ u # m[2] => <<u, m[2]>> \in older
    BY DEF PrevsBelow
  <2>1. Stands(t) /\ Settled(u) /\ task'[t].plan = task[t].plan
    BY DEF Calm
  <2>2. \A m \in task[t].plan.prev : m[2] # None => m[2] \in Task
    BY DEF Typed, TaskRow, PlanType
  <2> QED
    BY <2>1, <2>2 DEF Ordered, PrevsBelow, Calm, On
<1>5. LoopBelow(older)'
  <2> SUFFICES ASSUME LoopIn(Marked)', NEW m \in proc'[Loop].prev, NEW u \in Task,
                      m[2] # None, Settled(u)', m[1] \in On(u)', Stands(m[2])', u # m[2]
               PROVE  <<u, m[2]>> \in older
    BY DEF LoopBelow
  <2>1. LoopIn(Marked) /\ m \in proc[Loop].prev
    OBVIOUS
  <2>2. m[2] \in Task
    BY <2>1, Names DEF Typed, ProcRow, Prev
  <2> QED
    BY <2>1, <2>2 DEF Ordered, LoopBelow, Calm, On
<1>7. PrevsStand(older)'
  <2> SUFFICES ASSUME NEW t \in Task, Stands(t)', NEW m \in task'[t].plan.prev, Smooth(m[1])', m[2] # None
               PROVE  (Stands(m[2])' /\ <<m[2], t>> \in older) \/ Abandoned(m[2])'
    BY DEF PrevsStand
  <2>1. Stands(t) /\ task'[t].plan = task[t].plan
    BY DEF Calm
  <2>2. m \in task[t].plan.prev /\ m[1] \in Relation /\ m[2] \in Task /\ m[1] \in Targets[m[2]]
    BY <2>1 DEF Typed, TaskRow, PlanType, PlansKept, PlanKept, Owned
  <2>3. Smooth(m[1])
    BY <2>2 DEF Calm
  <2>4. (Stands(m[2]) /\ <<m[2], t>> \in older) \/ Abandoned(m[2])
    BY <2>1, <2>2, <2>3 DEF Ordered, PrevsStand
  <2> QED
    BY <2>2, <2>4 DEF Calm
<1> QED
  BY <1>2, <1>4, <1>5, <1>7 DEF Ordering, Ordered, Antisymmetric

\* In particular by one that changes no mark and starts no rollback.
LEMMA OrderingKept ==
    ASSUME Typed, PlansKept, Ordering, LoopKnows, Steady, marks' = marks,
           LoopIn(Marked)' => LoopIn(Marked) /\ proc'[Loop].prev = proc[Loop].prev,
           \A a \in Admin : Busy(a)' => Busy(a) /\ Mine(a)' = Mine(a)
    PROVE  Ordering'
<1>1. PICK older \in SUBSET (Task \X Task) : Ordered(older)
  BY DEF Ordering
<1>2. MarksTop(older)'
  BY <1>1 DEF Ordered, MarksTop, Steady, Calm, On
<1>3. UndoTop(older)'
  BY <1>1 DEF Ordered, UndoTop, Steady, Calm, Meet, On
<1> QED
  BY <1>1, <1>2, <1>3, OrderingCalm DEF Steady

\* Two actors work on different tasks and, but where they are tangled, on disjoint relations.
LEMMA Untouched ==
    ASSUME Typed, RolesKept, Apart, NEW a \in Actor, NEW b \in Actor, a # b, Owns(a, Mine(a)), Busy(b), StepOf(Mine(a))
    PROVE  /\ Mine(a) \in Task /\ Mine(b) \in Task /\ Mine(b) # Mine(a) /\ proc'[b] = proc[b] /\ proc[b].phase \in Awaits
           /\ task'[Mine(b)] = task[Mine(b)] /\ stored'[Mine(b)] = stored[Mine(b)] /\ (Mine(b) \in fix' <=> Mine(b) \in fix)
           /\ Targets[Mine(b)] \subseteq Relation
           /\ \A r \in On(Mine(b)) : marks'[r] = marks[r] /\ (r \in active' <=> r \in active)
<1>1. Mine(a) \in Task /\ Mine(b) \in Task /\ proc'[b] = proc[b] /\ proc[b].phase \in Awaits
  BY DEF RolesKept, Owns, OnlyBy, Runs
<1>2. Mine(b) # Mine(a) /\ On(Mine(a)) \cap On(Mine(b)) = {}
  BY DEF Apart, Meet, Owns
<1>3. Targets[Mine(b)] \subseteq Relation
  BY <1>1, TargetsAssumption
<1>4. \A r \in On(Mine(b)) : r \in Relation /\ r \notin Targets[Mine(a)]
  BY <1>2, <1>3 DEF On
<1> QED
  BY <1>1, <1>2, <1>3, <1>4 DEF StepOf, OnlyOf

\* Nobody new is at work.
LEMMA ApartKept ==
    ASSUME Apart, tangled \subseteq tangled', \A a \in Actor : Busy(a)' => Busy(a) /\ Mine(a)' = Mine(a)
    PROVE  Apart'
BY DEF Apart, Meet, On

\* The marks of one task's relations are checked, the others stay.
LEMMA MarksOwnedKept ==
    ASSUME MarksOwned, NEW t \in Task, StepOf(t), \A r \in Targets[t] : marks'[r] # None => r \in Targets[marks'[r]]
    PROVE  MarksOwned'
BY DEF MarksOwned, StepOf, OnlyOf

\* The relations of t are only activated if those in effect agree.
LEMMA PlansKeptKept ==
    ASSUME Typed, RolesKept, PlansKept, NEW t \in Task, StepOf(t),
           \A r \in Targets[t], u \in Task :
              r \notin tangled /\ r \in active' /\ r \in Targets[u] /\ Stands(u) => r \in active \/ r \in task[u].plan.before,
           Stands(t)' => (PlanKept(t)' \/ (Stands(t) /\ task'[t].plan = task[t].plan))
    PROVE  PlansKept'
<1> SUFFICES ASSUME NEW u \in Task, Stands(u)'
             PROVE  PlanKept(u)'
  BY DEF PlansKept
<1>1. CASE u = t /\ PlanKept(t)'
  BY <1>1
<1>2. CASE Stands(u) /\ task'[u].plan = task[u].plan
  <2>1. PlanKept(u)
    BY <1>2 DEF PlansKept
  <2>2. active' \cap On(u)' \subseteq task[u].plan.before
    <3> SUFFICES ASSUME NEW r \in active', r \in On(u)'
                 PROVE  r \in task[u].plan.before
      OBVIOUS
    <3>1. r \in Relation /\ r \in Targets[u] /\ r \in On(u) /\ r \notin tangled
      BY TargetsAssumption DEF On, StepOf
    <3>2. r \in active \/ r \in task[u].plan.before
      BY <1>2, <3>1 DEF StepOf, OnlyOf
    <3> QED
      BY <1>2, <2>1, <3>1, <3>2 DEF PlanKept
  <2> QED
    BY <1>2, <2>1, <2>2 DEF PlanKept
<1>3. u # t => Stands(u) /\ task'[u] = task[u]
  BY OthersSame
<1> QED
  BY <1>1, <1>2, <1>3

\* No relation of a task in effect comes back but its own, at its rollback.
LEMMA SettledKept ==
    ASSUME Typed, RolesKept, SettledForgot, NEW t \in Task, StepOf(t),
           \A r \in Targets[t], u \in Task :
              r \notin tangled /\ r \in Targets[u] /\ Settled(u) /\ u # t => (r \in active' => r \in active) /\ (marks'[r] = None => marks[r] = None),
           Settled(t)' => \/ /\ \A r \in On(t) : r \notin active' /\ marks'[r] # None
                             /\ task'[t].plan.kind = "correct" => stored'[t] = "yes"
                          \/ Settled(t) /\ Quiet /\ task'[t].plan = task[t].plan /\ stored'[t] = stored[t]
    PROVE  SettledForgot'
<1> SUFFICES ASSUME NEW u \in Task, Settled(u)'
             PROVE  /\ \A r \in On(u)' : r \notin active' /\ marks'[r] # None
                    /\ task'[u].plan.kind = "correct" => stored'[u] = "yes"
  BY DEF SettledForgot
<1>1. CASE u = t
  BY <1>1 DEF SettledForgot, Quiet, On, StepOf
<1>2. CASE u # t
  <2>1. Settled(u) /\ task'[u] = task[u] /\ stored'[u] = stored[u]
    BY <1>2, OthersSame DEF StepOf, OnlyOf
  <2>2. \A r \in On(u)' : r \in Relation /\ r \in Targets[u] /\ r \in On(u) /\ r \notin tangled
    BY TargetsAssumption DEF On, StepOf
  <2> QED
    BY <1>2, <2>1, <2>2 DEF SettledForgot, StepOf, OnlyOf
<1> QED
  BY <1>1, <1>2

\* What to check of a step that concerns t for it to be calm.
LEMMA CalmStep ==
    ASSUME Typed, RolesKept, NEW t \in Task, StepOf(t),
           Stands(t)' <=> Stands(t), Settled(t)' => Settled(t), Stands(t) => task'[t].plan = task[t].plan,
           \A r \in Targets[t] : Smooth(r)' /\ Abandoned(t) => Abandoned(t)'
    PROVE  Calm
<1>1. ASSUME NEW u \in Task
      PROVE  /\ Stands(u)' <=> Stands(u)
             /\ Settled(u)' => Settled(u)
             /\ Stands(u) => task'[u].plan = task[u].plan
             /\ \A r \in Targets[u] : Smooth(r)' /\ Abandoned(u) => Abandoned(u)'
  <2>1. CASE u = t
    BY <2>1
  <2>2. CASE u # t
    BY <2>2, OthersSame
  <2> QED
    BY <2>1, <2>2
<1>2. \A r \in Relation : Smooth(r)' => Smooth(r)
  BY SmoothBefore
<1> QED
  BY <1>1, <1>2 DEF Calm, StepOf

\* The same for a step that starts no rollback.
LEMMA SteadyStep ==
    ASSUME Typed, RolesKept, NEW t \in Task, StepOf(t),
           Stands(t)' <=> Stands(t), Settled(t)' <=> Settled(t), Stands(t) => task'[t].plan = task[t].plan,
           \A r \in Targets[t] : Smooth(r)' /\ Abandoned(t) => Abandoned(t)'
    PROVE  Steady
<1>1. Calm
  BY CalmStep
<1>2. \A u \in Task : u # t => (Settled(u)' <=> Settled(u))
  BY OthersSame
<1> QED
  BY <1>1, <1>2 DEF Steady

\* The marks the loop has replaced are still those of tasks in effect.
LEMMA LoopPrevsKept ==
    ASSUME Typed, LoopPrevs, LoopKnows, Calm, LoopIn(Marked)' => LoopIn(Marked) /\ proc'[Loop].prev = proc[Loop].prev
    PROVE  LoopPrevs'
<1> SUFFICES ASSUME LoopIn(Marked)', NEW m \in proc'[Loop].prev, Smooth(m[1])', m[2] # None
             PROVE  Stands(m[2])' \/ Abandoned(m[2])'
  BY DEF LoopPrevs
<1>1. LoopIn(Marked) /\ m \in proc[Loop].prev /\ m[1] \in Relation /\ m[2] \in Task
  BY Names DEF Typed, ProcRow, Prev
<1>2. m[1] \in Targets[m[2]]
  BY <1>1 DEF LoopKnows, Owned
<1>3. Smooth(m[1])
  BY <1>1 DEF Calm
<1>4. Stands(m[2]) \/ Abandoned(m[2])
  BY <1>1, <1>3 DEF LoopPrevs
<1> QED
  BY <1>1, <1>2, <1>4 DEF Calm

\* What to check of the marks of t.
LEMMA MarksStandKept ==
    ASSUME Typed, RolesKept, MarksOwned, MarksStand, NEW t \in Task, StepOf(t), marks' \in [Relation -> Task \cup {None}],
           \A r \in Targets[t], m \in Task : Smooth(r)' /\ marks'[r] = m =>
              MarkStands(m)' \/ (marks[r] = m /\ (m = t /\ MarkStands(t) => MarkStands(t)'))
    PROVE  MarksStand'
<1>1. \A u \in Task : u # t => (MarkStands(u)' <=> MarkStands(u))
  <2> SUFFICES ASSUME NEW u \in Task, u # t PROVE MarkStands(u)' <=> MarkStands(u)
    OBVIOUS
  <2>1. /\ (Stands(u)' <=> Stands(u)) /\ (Abandoned(u)' <=> Abandoned(u))
        /\ (LoopOn(u)' <=> LoopOn(u)) /\ (LoopOn(u) => proc'[Loop] = proc[Loop])
    BY OthersSame
  <2> QED
    BY <2>1 DEF MarkStands, LoopIn
<1>2. SUFFICES ASSUME NEW r \in Relation, NEW m \in Task, Smooth(r)', marks'[r] = m
               PROVE  MarkStands(m)'
  BY Names DEF MarksStand
<1>3. Smooth(r)
  BY <1>2, SmoothBefore
<1>4. ASSUME marks[r] = m, m = t /\ MarkStands(t) => MarkStands(t)'
      PROVE  MarkStands(m)'
  <2>1. MarkStands(m)
    BY <1>3, <1>4, Names DEF MarksStand
  <2> QED
    BY <2>1, <1>1, <1>4
<1>5. CASE r \in Targets[t]
  BY <1>2, <1>4, <1>5
<1>6. CASE r \notin Targets[t]
  <2>1. marks'[r] = marks[r] /\ marks[r] # t
    BY <1>2, <1>6, Names DEF StepOf, OnlyOf, MarksOwned
  <2> QED
    BY <2>1, <1>2, <1>4
<1> QED
  BY <1>5, <1>6

\* What to check of the relations t holds down.
LEMMA HeldKept ==
    ASSUME Typed, RolesKept, HeldDown, NEW t \in Task, StepOf(t),
           \A r \in Targets[t] : Smooth(r)' /\ r \notin active' =>
              Holds(t, r)' \/ (r \notin active /\ (Holds(t, r) => Holds(t, r)'))
    PROVE  HeldDown'
<1> SUFFICES ASSUME NEW r \in Relation, Smooth(r)', r \notin active'
             PROVE  \E u \in Task : r \in Targets[u] /\ Holds(u, r)'
  BY DEF HeldDown
<1>1. CASE r \in Targets[t] /\ Holds(t, r)'
  BY <1>1
<1>2. CASE r \notin active /\ (r \in Targets[t] => (Holds(t, r) => Holds(t, r)'))
  <2>1. PICK u \in Task : r \in Targets[u] /\ Holds(u, r)
    BY <1>2, SmoothBefore DEF HeldDown
  <2>2. u # t => Holds(u, r)'
    BY <2>1, OthersSame
  <2> QED
    BY <2>1, <2>2, <1>2
<1>3. r \notin Targets[t] => r \notin active
  BY DEF StepOf, OnlyOf
<1> QED
  BY <1>1, <1>2, <1>3

\* What to check of the requests for the relations of t.
LEMMA AskedKept ==
    ASSUME Typed, RolesKept, AskedFor, NEW t \in Task, StepOf(t),
           \A r \in Targets[t] : Undisturbed(r)' =>
              \/ Agree(r)' \/ Asking(t)'
              \/ /\ task[t].rollback = "error" => task'[t].rollback = "error"
                 /\ Agree(r) => Agree(r)'
                 /\ ~Asking(t)
    PROVE  AskedFor'
<1> SUFFICES ASSUME NEW r \in Relation, Undisturbed(r)'
             PROVE  Agree(r)' \/ \E u \in Task : r \in Targets[u] /\ Asking(u)'
  BY DEF AskedFor
<1>1. \A u \in Task : u # t => (Asking(u)' <=> Asking(u)) /\ task'[u] = task[u]
  BY OthersSame
<1>2. CASE r \notin Targets[t]
  <2>1. Undisturbed(r)
    BY <1>1, <1>2 DEF Undisturbed
  <2>2. Agree(r) => Agree(r)'
    BY <1>2 DEF Agree, StepOf, OnlyOf
  <2>3. Agree(r) \/ \E u \in Task : r \in Targets[u] /\ Asking(u)
    BY <2>1 DEF AskedFor
  <2> QED
    BY <1>1, <1>2, <2>2, <2>3
<1>3. CASE /\ r \in Targets[t] /\ (task[t].rollback = "error" => task'[t].rollback = "error")
           /\ Agree(r) => Agree(r)'
           /\ ~Asking(t)
  <2>1. task'[t].attempts <= 1 /\ "error" \notin {task'[t].status, task'[t].rollback}
    BY <1>3 DEF Undisturbed
  <2>2. task[t].attempts <= 1 /\ "error" \notin {task[t].status, task[t].rollback}
    <3>1. task[t].attempts \in Nat
      BY DEF Typed, TaskRow
    <3> QED
      BY <2>1, <1>3, <3>1 DEF StepOf
  <2>3. Undisturbed(r)
    BY <1>1, <2>2 DEF Undisturbed
  <2>4. Agree(r) \/ \E u \in Task : r \in Targets[u] /\ Asking(u)
    BY <2>3 DEF AskedFor
  <2> QED
    BY <1>1, <1>3, <2>4
<1> QED
  BY <1>2, <1>3

\* What to check of the text of t.
LEMMA TracesStep ==
    ASSUME Typed, RolesKept, TracesKept, NEW t \in Task, StepOf(t), task'[t].attempts <= 1 => TraceKept(t)'
    PROVE  TracesKept'
<1> SUFFICES ASSUME NEW u \in Task, u # t, task'[u].attempts <= 1
             PROVE  TraceKept(u)'
  BY DEF TracesKept
<1>1. /\ (Stands(u)' <=> Stands(u)) /\ task'[u] = task[u]
      /\ (LoopOn(u)' <=> LoopOn(u)) /\ (LoopOn(u) => proc'[Loop] = proc[Loop])
  BY OthersSame
<1>2. TraceKept(u)
  BY <1>1 DEF TracesKept
<1>3. stored'[u] = stored[u] /\ (u \in fix' <=> u \in fix)
  BY DEF StepOf, OnlyOf
<1>4. Blank(u)' <=> Blank(u)
  BY <1>1, <1>3 DEF Blank
<1>5. \A a \in Admin : Mine(a)' = u => Mine(a) = u /\ proc'[a] = proc[a]
  BY Names DEF StepOf, Mine
<1>6. \A a \in Admin : Mine(a)' = u =>
          /\ proc'[a].phase = "clean" => stored'[u] = "no" /\ (u \in fix' => task'[u].known)
          /\ proc'[a].phase \in {"unmark", "askagain", "close"} => Blank(u)'
  BY <1>1, <1>2, <1>3, <1>4, <1>5 DEF TraceKept
<1>7. LoopOn(u)' =>
          /\ LoopIn({"classify", "ingest"})' => Blank(u)'
          /\ LoopIn(After)' => (proc'[Loop].existed <=> task'[u].known)
          /\ LoopIn({"mark"} \cup Marked)' /\ proc'[Loop].kind # "correct" => Blank(u)'
  BY <1>1, <1>2, <1>4 DEF TraceKept, LoopIn
<1> QED
  BY <1>1, <1>2, <1>4, <1>6, <1>7 DEF TraceKept

\* A step of somebody else leaves the loop its knowledge.
LEMMA LoopKnowsKept ==
    ASSUME LoopKnows, RolesKept, proc'[Loop] = proc[Loop], tangled \subseteq tangled',
           Busy(Loop) => /\ task'[Mine(Loop)] = task[Mine(Loop)] /\ stored'[Mine(Loop)] = stored[Mine(Loop)]
                         /\ Targets[Mine(Loop)] \subseteq Relation
                         /\ \A r \in On(Mine(Loop))' : marks'[r] = marks[r] /\ (r \in active' <=> r \in active)
                         /\ LoopIn({"plan", "final"}) => active' = active /\ asked' = asked,
           \A u \in Task : (Settled(u)' => Settled(u)) /\ (Stands(u)' => Stands(u) /\ task'[u].plan = task[u].plan)
    PROVE  LoopKnows'
<1>1. CASE ~Busy(Loop)
  BY <1>1 DEF LoopKnows, LoopIn, Busy, After, Marked, LoopPhase
<1>2. CASE Busy(Loop)
  <2>1. Mine(Loop)' = Mine(Loop)
    BY DEF Mine
  <2>2. \A ph : LoopIn(ph)' <=> LoopIn(ph)
    BY DEF LoopIn
  <2>3. \A u \in Task : On(u)' \subseteq On(u)
    BY DEF On
  <2>4. On(Mine(Loop))' \subseteq On(Mine(Loop))
    BY <2>1 DEF On
  <2> DEFINE t == Mine(Loop)
             p == proc[Loop]
  <2>5. LoopIn(After) =>
          /\ active' \cap On(t)' = {} /\ p.before \subseteq Targets[t]
          /\ \A u \in Task : Settled(u)' => p.before \cap On(u)' = {}
          /\ \A u \in Task : Stands(u)' => p.before \cap On(u)' \subseteq task'[u].plan.before
    BY <1>2, <2>3, <2>4 DEF LoopKnows
  <2>6. LoopIn(Marked) =>
          /\ \A r \in On(t)' : marks'[r] = t
          /\ {m[1] : m \in p.prev} = Targets[t] /\ Owned(p.prev)
          /\ \A m \in p.prev : m[2] = None => \A u \in Task : ~(Settled(u)' /\ m[1] \in On(u)')
    BY <1>2, <2>3, <2>4 DEF LoopKnows
  <2>7. LoopIn({"plan", "final"}) => active' \cap Targets[t] = asked' \cap Targets[t]
    BY <1>2 DEF LoopKnows
  <2> QED
    BY <1>2, <2>1, <2>2, <2>5, <2>6, <2>7 DEF LoopKnows
<1> QED
  BY <1>1, <1>2

\* A step of somebody else leaves an administrator what it achieved.
LEMMA UndoKeptKept ==
    ASSUME NEW b \in Admin, UndoKept(b), RolesKept, proc'[b] = proc[b], \A r \in Relation : Smooth(r)' => Smooth(r),
           tangled \subseteq tangled',
           Busy(b) => /\ task'[Mine(b)].plan = task[Mine(b)].plan
                      /\ Targets[Mine(b)] \subseteq Relation
                      /\ \A r \in On(Mine(b))' : marks'[r] = marks[r] /\ (r \in active' <=> r \in active)
                      /\ proc[b].phase = "close" => active' = active /\ asked' = asked
    PROVE  UndoKept(b)'
<1>1. CASE ~Busy(b)
  BY <1>1 DEF UndoKept, Busy, AdminPhase
<1>2. CASE Busy(b)
  <2>1. Mine(b)' = Mine(b)
    BY DEF Mine
  <2>2. \A r \in On(Mine(b))' : r \in On(Mine(b))
    BY <2>1 DEF On
  <2>3. \A r \in Targets[Mine(b)] : Smooth(r)' => Smooth(r) /\ r \in On(Mine(b))'
    BY <1>2, <2>1 DEF Smooth, On
  <2> QED
    BY <1>2, <2>1, <2>2, <2>3 DEF UndoKept, Agree
<1> QED
  BY <1>1, <1>2

\* What every step of the loop keeps.
LEMMA LoopStep ==
    ASSUME IInv, Owns(Loop, Mine(Loop)), StepOf(Mine(Loop)), Busy(Loop)' => Mine(Loop)' = Mine(Loop)
    PROVE  /\ Mine(Loop) \in Task /\ task[Mine(Loop)].status = "running" /\ task[Mine(Loop)].rollback = None
           /\ \A a \in Admin : proc'[a] = proc[a] /\ (Busy(a)' <=> Busy(a)) /\ Mine(a)' = Mine(a)
           /\ Apart' /\ UndosKept'
           /\ \A a \in Admin : Mine(a) # Mine(Loop)
<1>1. Mine(Loop) \in Task /\ task[Mine(Loop)].status = "running"
  BY Names DEF IInv, RolesKept, Owns
<1>2. task[Mine(Loop)].rollback = None
  BY <1>1 DEF IInv, RolesKept
<1>3. \A a \in Admin : proc'[a] = proc[a] /\ (Busy(a)' <=> Busy(a)) /\ Mine(a)' = Mine(a)
  BY Names DEF Owns, OnlyBy, Busy, Mine
<1>4. Apart'
  <2>1. \A a \in Actor : Busy(a)' => Busy(a) /\ Mine(a)' = Mine(a)
    BY <1>3, Names DEF Owns
  <2> QED
    BY <2>1, ApartKept DEF IInv, StepOf
<1>5. ASSUME NEW a \in Admin PROVE UndoKept(a)'
  <2>1. \A r \in Relation : Smooth(r)' => Smooth(r)
    BY <1>1, SmoothBefore DEF IInv
  <2>2. ASSUME Busy(a)
        PROVE  /\ task'[Mine(a)].plan = task[Mine(a)].plan
               /\ Targets[Mine(a)] \subseteq Relation
               /\ \A r \in On(Mine(a))' : marks'[r] = marks[r] /\ (r \in active' <=> r \in active)
               /\ proc[a].phase = "close" => active' = active /\ asked' = asked
    <3>1. /\ task'[Mine(a)] = task[Mine(a)] /\ Targets[Mine(a)] \subseteq Relation /\ proc[a].phase \in Awaits
          /\ \A r \in On(Mine(a)) : marks'[r] = marks[r] /\ (r \in active' <=> r \in active)
      BY <2>2, Untouched, Names DEF IInv
    <3>2. \A r \in On(Mine(a))' : r \in On(Mine(a))
      BY <1>3 DEF On, StepOf
    <3> QED
      BY <3>1, <3>2 DEF Awaits
  <2> QED
    BY <1>3, <2>1, <2>2, UndoKeptKept DEF IInv, UndosKept, StepOf
<1>6. \A a \in Admin : Mine(a) # Mine(Loop)
  <2> SUFFICES ASSUME NEW a \in Admin, Mine(a) = Mine(Loop) PROVE FALSE
    OBVIOUS
  <2>1. Busy(a)
    BY <1>1, Names DEF IInv, RolesKept, Mine, Idle
  <2> QED
    BY <1>2, <2>1 DEF IInv, RolesKept, None
<1> QED
  BY <1>1, <1>2, <1>3, <1>4, <1>5, <1>6 DEF UndosKept

\* What every step of an administrator keeps.
LEMMA AdminStep ==
    ASSUME IInv, NEW a \in Admin, NEW t \in Task, Mine(a) = t, Owns(a, Mine(a)), StepOf(Mine(a)),
           Busy(a)' => Mine(a)' = Mine(a), task'[t].plan = task[t].plan, ~Settled(t)'
    PROVE  /\ Mine(a) \in Task /\ task[Mine(a)].rollback = "running" /\ task[Mine(a)].status = "applied"
           /\ \A b \in Actor : Busy(b)' => Busy(b) /\ Mine(b)' = Mine(b)
           /\ \A b \in Actor : b # a => proc'[b] = proc[b] /\ Mine(b) # Mine(a)
           /\ proc'[Loop] = proc[Loop]
           /\ Apart' /\ LoopKnows'
           /\ UndoKept(a)' => UndosKept'
<1>1. Mine(a) \in Task /\ task[Mine(a)].rollback = "running"
  BY Names DEF IInv, RolesKept, Owns
<1>2. task[Mine(a)].status = "applied"
  BY <1>1 DEF IInv, RolesKept, None
<1>3. \A b \in Actor : b # a => proc'[b] = proc[b]
  BY DEF Owns, OnlyBy
<1>4. proc'[Loop] = proc[Loop]
  BY <1>3, Names
<1>5. \A b \in Actor : Busy(b)' => Busy(b) /\ Mine(b)' = Mine(b)
  BY <1>3, Names DEF Owns, Busy, Mine
<1>6. Apart'
  BY <1>5, ApartKept DEF IInv, StepOf
<1>7. \A b \in Actor : b # a => Mine(b) # Mine(a)
  <2> SUFFICES ASSUME NEW b \in Actor, b # a, Mine(b) = Mine(a) PROVE FALSE
    OBVIOUS
  <2>1. Busy(b)
    BY <1>1, Names DEF IInv, RolesKept, Mine, Idle
  <2> QED
    BY <2>1, Untouched, Names DEF IInv
<1>8. LoopKnows'
  <2>1. Busy(Loop) => /\ task'[Mine(Loop)] = task[Mine(Loop)] /\ stored'[Mine(Loop)] = stored[Mine(Loop)]
                      /\ Targets[Mine(Loop)] \subseteq Relation
                      /\ \A r \in On(Mine(Loop))' : marks'[r] = marks[r] /\ (r \in active' <=> r \in active)
                      /\ LoopIn({"plan", "final"}) => active' = active /\ asked' = asked
    <3> SUFFICES ASSUME Busy(Loop)
                 PROVE  /\ task'[Mine(Loop)] = task[Mine(Loop)] /\ stored'[Mine(Loop)] = stored[Mine(Loop)]
                        /\ Targets[Mine(Loop)] \subseteq Relation
                        /\ \A r \in On(Mine(Loop))' : marks'[r] = marks[r] /\ (r \in active' <=> r \in active)
                        /\ LoopIn({"plan", "final"}) => active' = active /\ asked' = asked
      OBVIOUS
    <3>1. /\ task'[Mine(Loop)] = task[Mine(Loop)] /\ stored'[Mine(Loop)] = stored[Mine(Loop)]
          /\ Targets[Mine(Loop)] \subseteq Relation /\ proc[Loop].phase \in Awaits
          /\ \A r \in On(Mine(Loop)) : marks'[r] = marks[r] /\ (r \in active' <=> r \in active)
      BY Untouched, Names DEF IInv
    <3>2. Mine(Loop)' = Mine(Loop)
      BY <1>4 DEF Mine
    <3>3. \A r \in On(Mine(Loop))' : r \in On(Mine(Loop))
      BY <3>2 DEF On, StepOf
    <3> QED
      BY <3>1, <3>3 DEF Awaits, LoopIn
  <2>2. \A u \in Task : (Settled(u)' => Settled(u)) /\ (Stands(u)' => Stands(u) /\ task'[u].plan = task[u].plan)
    <3> SUFFICES ASSUME NEW u \in Task
                 PROVE  (Settled(u)' => Settled(u)) /\ (Stands(u)' => Stands(u) /\ task'[u].plan = task[u].plan)
      OBVIOUS
    <3>1. Stands(t)
      BY <1>1, <1>2 DEF Stands
    <3>2. CASE u = t
      BY <3>1, <3>2
    <3>3. CASE u # t
      BY <1>1, <3>3, OthersSame DEF IInv
    <3> QED
      BY <3>2, <3>3
  <2> QED
    BY <1>4, <2>1, <2>2, LoopKnowsKept DEF IInv, StepOf
<1>9. ASSUME NEW b \in Admin, b # a PROVE UndoKept(b)'
  <2>1. \A r \in Relation : Smooth(r)' => Smooth(r)
    BY <1>1, SmoothBefore DEF IInv
  <2>2. ASSUME Busy(b)
        PROVE  /\ task'[Mine(b)].plan = task[Mine(b)].plan
               /\ Targets[Mine(b)] \subseteq Relation
               /\ \A r \in On(Mine(b))' : marks'[r] = marks[r] /\ (r \in active' <=> r \in active)
               /\ proc[b].phase = "close" => active' = active /\ asked' = asked
    <3>1. /\ task'[Mine(b)] = task[Mine(b)] /\ Targets[Mine(b)] \subseteq Relation /\ proc[b].phase \in Awaits
          /\ \A r \in On(Mine(b)) : marks'[r] = marks[r] /\ (r \in active' <=> r \in active)
      BY <1>9, <2>2, Untouched, Names DEF IInv
    <3>2. Mine(b)' = Mine(b)
      BY <1>3, <1>9, Names DEF Mine
    <3>3. \A r \in On(Mine(b))' : r \in On(Mine(b))
      BY <3>2 DEF On, StepOf
    <3> QED
      BY <3>1, <3>3 DEF Awaits
  <2> QED
    BY <1>3, <1>9, <2>1, <2>2, Names, UndoKeptKept DEF IInv, UndosKept, StepOf
<1> QED
  BY <1>1, <1>2, <1>3, <1>4, <1>5, <1>6, <1>7, <1>8, <1>9 DEF UndosKept
\* The loop goes on with its task.
LEMMA LoopStays ==
    ASSUME IInv, NEW t \in Task, Mine(Loop) = t, Owns(Loop, t), StepOf(t),
           \A r \in Targets[t] : r \in active' => r \in active,
           proc'[Loop].task = t, LoopIn(LoopPhase)',
           task'[t].status = "running", task'[t].rollback = None, task'[t].attempts = task[t].attempts
    PROVE  /\ RolesKept' /\ Apart' /\ UndosKept' /\ PlansKept' /\ Steady
           /\ LoopOn(t) /\ LoopOn(t)'
           /\ ~Stands(t) /\ ~Stands(t)' /\ ~Settled(t) /\ ~Settled(t)' /\ ~Abandoned(t) /\ ~Abandoned(t)'
           /\ task[t].status = "running" /\ task[t].rollback = None
           /\ \A a \in Admin : proc'[a] = proc[a] /\ (Busy(a)' <=> Busy(a)) /\ Mine(a)' = Mine(a) /\ Mine(a) # t
<1>1. Busy(Loop) /\ Busy(Loop)' /\ Mine(Loop)' = Mine(Loop)
  BY DEF Owns, Busy, Mine, LoopIn, LoopPhase
<1>2. /\ task[t].status = "running" /\ task[t].rollback = None
      /\ \A a \in Admin : proc'[a] = proc[a] /\ (Busy(a)' <=> Busy(a)) /\ Mine(a)' = Mine(a)
      /\ Apart' /\ UndosKept'
      /\ \A a \in Admin : Mine(a) # t
  BY <1>1, LoopStep
<1>3. LoopOn(t) /\ LoopOn(t)'
  BY <1>1 DEF LoopOn
<1>4. ~Stands(t) /\ ~Stands(t)' /\ ~Settled(t) /\ ~Settled(t)' /\ ~Abandoned(t) /\ ~Abandoned(t)'
  BY <1>2, <1>3 DEF Stands, Settled, Abandoned
<1>5. Steady
  BY <1>4, SteadyStep DEF IInv
<1>6. RolesKept'
  <2>1. \A u \in Task : u # t => task'[u] = task[u]
    BY DEF StepOf, OnlyOf
  <2>2. \A u \in Task : task'[u].rollback # None => task'[u].status = "applied"
    BY <2>1 DEF IInv, RolesKept
  <2>3. \A u \in Task : task'[u].status = "running" => task'[u].attempts > 0
    BY <2>1, <1>2 DEF IInv, RolesKept
  <2>4. \A a \in Actor : ~Busy(a)' => proc'[a] = Idle
    BY <1>1, <1>2, Names DEF IInv, RolesKept
  <2>5. \A a \in Actor : Busy(a)' => Mine(a)' \in Task
    BY <1>1, <1>2, Names DEF IInv, RolesKept
  <2>6. \A a \in Admin : Busy(a)' =>
          /\ proc'[a].phase \in AdminPhase
          /\ task'[Mine(a)'].rollback = "running" /\ ~task'[Mine(a)'].lapsed
    BY <1>2, <2>1, Names DEF IInv, RolesKept
  <2> QED
    BY <1>1, <2>2, <2>3, <2>4, <2>5, <2>6 DEF RolesKept
<1>7. PlansKept'
  BY <1>4, PlansKeptKept DEF IInv
<1> QED
  BY <1>2, <1>3, <1>4, <1>5, <1>6, <1>7

\* It changes no mark.
LEMMA LoopGoesOn ==
    ASSUME IInv, NEW t \in Task, Mine(Loop) = t, Owns(Loop, t), StepOf(t), marks' = marks,
           \A r \in Targets[t] : r \in active' => r \in active,
           proc'[Loop].task = t, LoopIn(LoopPhase)', proc'[Loop].prev = proc[Loop].prev,
           task'[t].status = "running", task'[t].rollback = None, task'[t].attempts = task[t].attempts,
           LoopIn(Marked)' <=> LoopIn(Marked)
    PROVE  /\ RolesKept' /\ Apart' /\ MarksOwned' /\ PlansKept' /\ SettledForgot' /\ Ordering'
           /\ LoopPrevs' /\ MarksStand' /\ UndosKept'
<1>1. /\ RolesKept' /\ Apart' /\ UndosKept' /\ PlansKept' /\ Steady
      /\ LoopOn(t) /\ LoopOn(t)'
      /\ ~Stands(t) /\ ~Stands(t)' /\ ~Settled(t) /\ ~Settled(t)' /\ ~Abandoned(t) /\ ~Abandoned(t)'
      /\ \A a \in Admin : proc'[a] = proc[a] /\ (Busy(a)' <=> Busy(a)) /\ Mine(a)' = Mine(a)
  BY LoopStays
<1>2. MarksOwned'
  BY DEF IInv, MarksOwned
<1>3. SettledForgot'
  BY <1>1, SettledKept DEF IInv
<1>4. LoopIn(Marked)' => LoopIn(Marked) /\ proc'[Loop].prev = proc[Loop].prev
  OBVIOUS
<1>5. Ordering'
  BY <1>1, <1>4, OrderingKept DEF IInv
<1>6. LoopPrevs'
  BY <1>1, <1>4, LoopPrevsKept DEF IInv, Steady
<1>7. MarksStand'
  <2>1. MarkStands(t) => MarkStands(t)'
    BY <1>1 DEF MarkStands
  <2> QED
    BY <2>1, MarksStandKept DEF IInv, Typed
<1> QED
  BY <1>1, <1>2, <1>3, <1>5, <1>6, <1>7

\* Nor a relation.
LEMMA LoopMoves ==
    ASSUME IInv, NEW t \in Task, Mine(Loop) = t, Owns(Loop, t), StepOf(t), marks' = marks, active' = active,
           proc'[Loop].task = t, LoopIn(LoopPhase)',
           proc'[Loop].before = proc[Loop].before, proc'[Loop].prev = proc[Loop].prev,
           task'[t].status = "running", task'[t].rollback = None, task'[t].attempts = task[t].attempts,
           LoopIn(Marked)' <=> LoopIn(Marked), LoopIn(After)' <=> LoopIn(After)
    PROVE  /\ RolesKept' /\ Apart' /\ MarksOwned' /\ PlansKept' /\ SettledForgot' /\ Ordering'
           /\ LoopPrevs' /\ MarksStand' /\ UndosKept' /\ HeldDown'
<1>1. /\ RolesKept' /\ Apart' /\ MarksOwned' /\ PlansKept' /\ SettledForgot' /\ Ordering'
      /\ LoopPrevs' /\ MarksStand' /\ UndosKept'
  BY LoopGoesOn
<1>2. LoopOn(t) /\ LoopOn(t)' /\ ~Stands(t) /\ ~Stands(t)' /\ ~Abandoned(t) /\ ~Abandoned(t)'
  BY LoopStays
<1>3. HeldDown'
  <2>1. \A r \in Targets[t] : Holds(t, r) => Holds(t, r)'
    BY <1>2 DEF Holds
  <2> QED
    BY <2>1, HeldKept DEF IInv
<1> QED
  BY <1>1, <1>3

\* The text of the task the loop is on.
LEMMA LoopTrace ==
    ASSUME NEW t \in Task, task'[t].status = "running", task'[t].rollback = None, \A a \in Admin : Mine(a)' # t,
           LoopIn({"classify", "ingest"})' => Blank(t)',
           LoopIn(After)' => (proc'[Loop].existed <=> task'[t].known),
           LoopIn({"mark"} \cup Marked)' /\ proc'[Loop].kind # "correct" => Blank(t)'
    PROVE  TraceKept(t)'
<1>1. ~Stands(t)'
  BY DEF Stands
<1> QED
  BY <1>1 DEF TraceKept, None

\* Types of the records the steps build.
LEMMA PhaseTyped ==
    ASSUME proc \in [Actor -> ProcRow], NEW a \in Actor, NEW ph \in {"idle"} \cup LoopPhase \cup AdminPhase
    PROVE  [proc EXCEPT ![a].phase = ph] \in [Actor -> ProcRow]
BY DEF ProcRow

\* It goes on from one phase to the next.
LEMMA LoopGoes ==
    ASSUME IInv, NEW t \in Task, Mine(Loop) = t, task[t].status = "running", LoopIn(After), Runs(Loop),
           NEW ph \in After \ {"ingest"}, proc' = [proc EXCEPT ![Loop].phase = ph], LoopIn(Marked) <=> ph \in Marked,
           UNCHANGED <<active, marks, tangled, crashes>>,
           task' \in [Task -> TaskRow], stored' \in [Task -> {"no", "partly", "yes"}], fix' \in SUBSET Task, asked' \in SUBSET Relation,
           OnlyOf(t),
           task'[t].status = "running", task'[t].rollback = task[t].rollback, task'[t].known = task[t].known,
           task'[t].attempts = task[t].attempts,
           proc[Loop].kind # "correct" /\ Blank(t) => Blank(t)'
    PROVE  /\ Typed' /\ RolesKept' /\ Apart' /\ MarksOwned' /\ PlansKept' /\ SettledForgot' /\ Ordering'
           /\ LoopPrevs' /\ MarksStand' /\ UndosKept' /\ HeldDown' /\ TracesKept'
           /\ StepOf(t) /\ LoopOn(t)' /\ proc'[Loop] = [proc[Loop] EXCEPT !.phase = ph] /\ proc'[Loop].phase = ph
<1>1. /\ Owns(Loop, t) /\ LoopOn(t) /\ LoopOn(t)' /\ proc'[Loop].task = t
      /\ proc'[Loop] = [proc[Loop] EXCEPT !.phase = ph] /\ proc'[Loop].phase = ph
  BY Names DEF Owns, OnlyBy, LoopOn, Busy, Mine, IInv, Typed, ProcRow, LoopIn, After, LoopPhase
<1>2. StepOf(t)
  BY <1>1 DEF StepOf, IInv, Typed, TaskRow
<1>3. Typed'
  <2>1. proc' \in [Actor -> ProcRow]
    BY Names, PhaseTyped DEF IInv, Typed, After
  <2> QED
    BY <2>1 DEF IInv, Typed
<1>4. task[t].rollback = None /\ \A a \in Admin : Mine(a) # t /\ Mine(a)' # t
  BY <1>1, <1>2, LoopStep DEF LoopOn
<1>5. /\ LoopIn(LoopPhase)' /\ LoopIn(After)'
      /\ proc'[Loop].before = proc[Loop].before /\ proc'[Loop].prev = proc[Loop].prev
      /\ proc'[Loop].kind = proc[Loop].kind /\ proc'[Loop].existed = proc[Loop].existed
      /\ LoopIn(Marked)' <=> LoopIn(Marked)
  BY <1>1, Names DEF Typed, LoopIn, After, IInv, ProcRow
<1>6. /\ RolesKept' /\ Apart' /\ MarksOwned' /\ PlansKept' /\ SettledForgot' /\ Ordering'
      /\ LoopPrevs' /\ MarksStand' /\ UndosKept' /\ HeldDown'
  BY <1>1, <1>2, <1>4, <1>5, LoopMoves
<1>7. TracesKept'
  <2>1. ASSUME task[t].attempts <= 1 PROVE TraceKept(t)'
    <3>1. /\ LoopIn(After) => (proc[Loop].existed <=> task[t].known)
          /\ LoopIn({"classify", "ingest"}) => Blank(t)
          /\ LoopIn({"mark"} \cup Marked) /\ proc[Loop].kind # "correct" => Blank(t)
      BY <1>1, <2>1 DEF IInv, TracesKept, TraceKept
    <3>2. LoopIn({"ingest", "relate", "compensate"}) => proc[Loop].kind = "correct"
      BY DEF IInv, LoopKnows
    <3>3. LoopIn(After)' => (proc'[Loop].existed <=> task'[t].known)
      BY <1>5, <3>1
    <3>4. LoopIn({"mark"} \cup Marked)' /\ proc'[Loop].kind # "correct" => Blank(t)'
      BY <1>5, <3>1, <3>2 DEF LoopIn, After, LoopPhase, Marked
    <3>5. ~LoopIn({"classify", "ingest"})'
      BY <1>1 DEF LoopIn, After
    <3> QED
      BY <1>4, <3>3, <3>4, <3>5, LoopTrace
  <2> QED
    BY <1>2, <2>1, TracesStep DEF IInv
<1> QED
  BY <1>1, <1>2, <1>3, <1>6, <1>7

\* Nothing but the phase changes.
LEMMA IngestKnownKeeps == ASSUME IInv, IngestKnown PROVE IInv'
<1>1. PICK t \in Task : Mine(Loop) = t /\ task[t].status = "running" /\ Busy(Loop) /\ Runs(Loop)
  BY Names DEF IngestKnown, At, IInv, RolesKept, Busy
<1>2. /\ proc[Loop].phase = "ingest"
      /\ proc' = [proc EXCEPT ![Loop].phase = "compensate"]
      /\ UNCHANGED <<task, active, marks, stored, fix, asked, tangled, crashes>>
  BY <1>1 DEF IngestKnown, At, Goto, Mine
<1>3. LoopIn(After) /\ "compensate" \in After \ {"ingest"} /\ (LoopIn(Marked) <=> "compensate" \in Marked)
  BY <1>2 DEF LoopIn, After, LoopPhase, Marked
<1>4. /\ task' \in [Task -> TaskRow] /\ stored' \in [Task -> {"no", "partly", "yes"}] /\ fix' \in SUBSET Task /\ asked' \in SUBSET Relation
      /\ OnlyOf(t)
      /\ task'[t].status = "running" /\ task'[t].rollback = task[t].rollback /\ task'[t].known = task[t].known
      /\ task'[t].attempts = task[t].attempts
      /\ proc[Loop].kind # "correct" /\ Blank(t) => Blank(t)'
  BY <1>1, <1>2 DEF OnlyOf, Blank, IInv, Typed, TaskRow
<1>5. /\ Typed' /\ RolesKept' /\ Apart' /\ MarksOwned' /\ PlansKept' /\ SettledForgot' /\ Ordering'
      /\ LoopPrevs' /\ MarksStand' /\ UndosKept' /\ HeldDown' /\ TracesKept'
      /\ StepOf(t) /\ LoopOn(t)' /\ proc'[Loop] = [proc[Loop] EXCEPT !.phase = "compensate"] /\ proc'[Loop].phase = "compensate"
  BY <1>1, <1>2, <1>3, <1>4, LoopGoes
<1>6. LoopKnows'
  BY <1>1, <1>2, <1>5 DEF IInv, Typed, LoopKnows, LoopIn, After, Marked, LoopPhase, Settled, Stands, LoopOn, On
<1>7. AskedFor'
  <2>1. Asking(t)'
    BY <1>5 DEF Asking, LoopIn
  <2> QED
    BY <1>5, <2>1, AskedKept DEF IInv
<1> QED
  BY <1>5, <1>6, <1>7 DEF IInv

\* The text and its relation appear; the task corrects, so nothing is said of either yet.
LEMMA IngestTextKeeps == ASSUME IInv, IngestText PROVE IInv'
<1>1. PICK t \in Task : Mine(Loop) = t /\ task[t].status = "running" /\ Busy(Loop) /\ Runs(Loop)
  BY Names DEF IngestText, At, IInv, RolesKept, Busy
<1>2. /\ proc[Loop].phase = "ingest"
      /\ proc' = [proc EXCEPT ![Loop].phase = "relate"]
      /\ stored' = [stored EXCEPT ![t] = "partly"] /\ fix' = fix \cup {t}
      /\ UNCHANGED <<task, active, marks, asked, tangled, crashes>>
  BY <1>1 DEF IngestText, At, Goto, Mine
<1>3. LoopIn(After) /\ "relate" \in After \ {"ingest"} /\ (LoopIn(Marked) <=> "relate" \in Marked)
  BY <1>2 DEF LoopIn, After, LoopPhase, Marked
<1>4. /\ task' \in [Task -> TaskRow] /\ stored' \in [Task -> {"no", "partly", "yes"}] /\ fix' \in SUBSET Task /\ asked' \in SUBSET Relation
      /\ OnlyOf(t)
      /\ task'[t].status = "running" /\ task'[t].rollback = task[t].rollback /\ task'[t].known = task[t].known
      /\ task'[t].attempts = task[t].attempts
      /\ proc[Loop].kind # "correct" /\ Blank(t) => Blank(t)'
  <2>1. proc[Loop].kind = "correct"
    BY <1>2 DEF IInv, LoopKnows, LoopIn
  <2> QED
    BY <1>1, <1>2, <2>1 DEF OnlyOf, IInv, Typed, TaskRow
<1>5. /\ Typed' /\ RolesKept' /\ Apart' /\ MarksOwned' /\ PlansKept' /\ SettledForgot' /\ Ordering'
      /\ LoopPrevs' /\ MarksStand' /\ UndosKept' /\ HeldDown' /\ TracesKept'
      /\ StepOf(t) /\ LoopOn(t)' /\ proc'[Loop] = [proc[Loop] EXCEPT !.phase = "relate"] /\ proc'[Loop].phase = "relate"
  BY <1>1, <1>2, <1>3, <1>4, LoopGoes
<1>6. LoopKnows'
  BY <1>1, <1>2, <1>5 DEF IInv, Typed, LoopKnows, LoopIn, After, Marked, LoopPhase, Settled, Stands, LoopOn, On
<1>7. AskedFor'
  <2>1. Asking(t)'
    BY <1>5 DEF Asking, LoopIn
  <2> QED
    BY <1>5, <2>1, AskedKept DEF IInv
<1> QED
  BY <1>5, <1>6, <1>7 DEF IInv

\* Only the text appears, and the correction is about to be compensated.
LEMMA IngestTextAloneKeeps == ASSUME IInv, IngestTextAlone PROVE IInv'
<1>1. PICK t \in Task : Mine(Loop) = t /\ task[t].status = "running" /\ Busy(Loop) /\ Runs(Loop)
  BY Names DEF IngestTextAlone, At, IInv, RolesKept, Busy
<1>2. /\ proc[Loop].phase = "ingest"
      /\ proc' = [proc EXCEPT ![Loop].phase = "compensate"]
      /\ stored' = [stored EXCEPT ![t] = "yes"]
      /\ UNCHANGED <<task, active, marks, fix, asked, tangled, crashes>>
  BY <1>1 DEF IngestTextAlone, At, Goto, Mine
<1>3. LoopIn(After) /\ "compensate" \in After \ {"ingest"} /\ (LoopIn(Marked) <=> "compensate" \in Marked)
  BY <1>2 DEF LoopIn, After, LoopPhase, Marked
<1>4. /\ task' \in [Task -> TaskRow] /\ stored' \in [Task -> {"no", "partly", "yes"}] /\ fix' \in SUBSET Task /\ asked' \in SUBSET Relation
      /\ OnlyOf(t)
      /\ task'[t].status = "running" /\ task'[t].rollback = task[t].rollback /\ task'[t].known = task[t].known
      /\ task'[t].attempts = task[t].attempts
      /\ proc[Loop].kind # "correct" /\ Blank(t) => Blank(t)'
  <2>1. proc[Loop].kind = "correct"
    BY <1>2 DEF IInv, LoopKnows, LoopIn
  <2> QED
    BY <1>1, <1>2, <2>1 DEF OnlyOf, IInv, Typed, TaskRow
<1>5. /\ Typed' /\ RolesKept' /\ Apart' /\ MarksOwned' /\ PlansKept' /\ SettledForgot' /\ Ordering'
      /\ LoopPrevs' /\ MarksStand' /\ UndosKept' /\ HeldDown' /\ TracesKept'
      /\ StepOf(t) /\ LoopOn(t)' /\ proc'[Loop] = [proc[Loop] EXCEPT !.phase = "compensate"] /\ proc'[Loop].phase = "compensate"
  BY <1>1, <1>2, <1>3, <1>4, LoopGoes
<1>6. LoopKnows'
  BY <1>1, <1>2, <1>5 DEF IInv, Typed, LoopKnows, LoopIn, After, Marked, LoopPhase, Settled, Stands, LoopOn, On
<1>7. AskedFor'
  <2>1. Asking(t)'
    BY <1>5 DEF Asking, LoopIn
  <2> QED
    BY <1>5, <2>1, AskedKept DEF IInv
<1> QED
  BY <1>5, <1>6, <1>7 DEF IInv

\* The text is complete before anything is marked.
LEMMA IngestReferenceKeeps == ASSUME IInv, IngestReference PROVE IInv'
<1>1. PICK t \in Task : Mine(Loop) = t /\ task[t].status = "running" /\ Busy(Loop) /\ Runs(Loop)
  BY Names DEF IngestReference, At, IInv, RolesKept, Busy
<1>2. /\ proc[Loop].phase = "relate"
      /\ proc' = [proc EXCEPT ![Loop].phase = "mark"]
      /\ stored' = [stored EXCEPT ![t] = "yes"]
      /\ UNCHANGED <<task, active, marks, fix, asked, tangled, crashes>>
  BY <1>1 DEF IngestReference, At, Goto, Mine
<1>3. LoopIn(After) /\ "mark" \in After \ {"ingest"} /\ (LoopIn(Marked) <=> "mark" \in Marked)
  BY <1>2 DEF LoopIn, After, LoopPhase, Marked
<1>4. /\ task' \in [Task -> TaskRow] /\ stored' \in [Task -> {"no", "partly", "yes"}] /\ fix' \in SUBSET Task /\ asked' \in SUBSET Relation
      /\ OnlyOf(t)
      /\ task'[t].status = "running" /\ task'[t].rollback = task[t].rollback /\ task'[t].known = task[t].known
      /\ task'[t].attempts = task[t].attempts
      /\ proc[Loop].kind # "correct" /\ Blank(t) => Blank(t)'
  <2>1. proc[Loop].kind = "correct"
    BY <1>2 DEF IInv, LoopKnows, LoopIn
  <2> QED
    BY <1>1, <1>2, <2>1 DEF OnlyOf, IInv, Typed, TaskRow
<1>5. /\ Typed' /\ RolesKept' /\ Apart' /\ MarksOwned' /\ PlansKept' /\ SettledForgot' /\ Ordering'
      /\ LoopPrevs' /\ MarksStand' /\ UndosKept' /\ HeldDown' /\ TracesKept'
      /\ StepOf(t) /\ LoopOn(t)' /\ proc'[Loop] = [proc[Loop] EXCEPT !.phase = "mark"] /\ proc'[Loop].phase = "mark"
  BY <1>1, <1>2, <1>3, <1>4, LoopGoes
<1>6. LoopKnows'
  BY <1>1, <1>2, <1>5 DEF IInv, Typed, LoopKnows, LoopIn, After, Marked, LoopPhase, Settled, Stands, LoopOn, On
<1>7. AskedFor'
  <2>1. Asking(t)'
    BY <1>5 DEF Asking, LoopIn
  <2> QED
    BY <1>5, <2>1, AskedKept DEF IInv
<1> QED
  BY <1>5, <1>6, <1>7 DEF IInv

\* Once the loop has asked, requests and relations agree.
LEMMA DeriveKeeps == ASSUME IInv, Derive PROVE IInv'
<1>1. PICK t \in Task : Mine(Loop) = t /\ task[t].status = "running" /\ Busy(Loop) /\ Runs(Loop)
  BY Names DEF Derive, At, IInv, RolesKept, Busy
<1>2. /\ proc[Loop].phase = "derive"
      /\ proc' = [proc EXCEPT ![Loop].phase = "plan"]
      /\ asked' = (asked \ Targets[t]) \cup (active \cap Targets[t])
      /\ UNCHANGED <<task, active, marks, stored, fix, tangled, crashes>>
  BY <1>1 DEF Derive, Ask, At, Goto, Mine
<1>3. LoopIn(After) /\ "plan" \in After \ {"ingest"} /\ (LoopIn(Marked) <=> "plan" \in Marked)
  BY <1>2 DEF LoopIn, After, LoopPhase, Marked
<1>4. /\ task' \in [Task -> TaskRow] /\ stored' \in [Task -> {"no", "partly", "yes"}] /\ fix' \in SUBSET Task /\ asked' \in SUBSET Relation
      /\ OnlyOf(t)
      /\ task'[t].status = "running" /\ task'[t].rollback = task[t].rollback /\ task'[t].known = task[t].known
      /\ task'[t].attempts = task[t].attempts
      /\ proc[Loop].kind # "correct" /\ Blank(t) => Blank(t)'
  BY <1>1, <1>2 DEF OnlyOf, Blank, IInv, Typed, TaskRow
<1>5. /\ Typed' /\ RolesKept' /\ Apart' /\ MarksOwned' /\ PlansKept' /\ SettledForgot' /\ Ordering'
      /\ LoopPrevs' /\ MarksStand' /\ UndosKept' /\ HeldDown' /\ TracesKept'
      /\ StepOf(t) /\ LoopOn(t)' /\ proc'[Loop] = [proc[Loop] EXCEPT !.phase = "plan"] /\ proc'[Loop].phase = "plan"
  BY <1>1, <1>2, <1>3, <1>4, LoopGoes
<1>6. LoopKnows'
  BY <1>1, <1>2, <1>5 DEF IInv, Typed, LoopKnows, LoopIn, After, Marked, LoopPhase, Settled, Stands, LoopOn, On
<1>7. AskedFor'
  <2>1. \A r \in Targets[t] : Agree(r)'
    BY <1>2 DEF Agree
  <2> QED
    BY <1>5, <2>1, AskedKept DEF IInv
<1> QED
  BY <1>5, <1>6, <1>7 DEF IInv

\* The plan says what the loop knows.
LEMMA SavePlanKeeps == ASSUME IInv, SavePlan PROVE IInv'
<1>1. PICK t \in Task : Mine(Loop) = t /\ task[t].status = "running" /\ Busy(Loop) /\ Runs(Loop)
  BY Names DEF SavePlan, At, IInv, RolesKept, Busy
<1>2. /\ proc[Loop].phase = "plan"
      /\ proc' = [proc EXCEPT ![Loop].phase = "final"]
      /\ task' = [task EXCEPT ![t].plan =
                    [kind |-> proc[Loop].kind, before |-> proc[Loop].before,
                     prev |-> proc[Loop].prev, existed |-> proc[Loop].existed]]
      /\ UNCHANGED <<active, marks, stored, fix, asked, tangled, crashes>>
  BY <1>1 DEF SavePlan, At, Goto, Mine
<1>3. LoopIn(After) /\ "final" \in After \ {"ingest"} /\ (LoopIn(Marked) <=> "final" \in Marked)
  BY <1>2 DEF LoopIn, After, LoopPhase, Marked
<1>4. /\ task' \in [Task -> TaskRow] /\ stored' \in [Task -> {"no", "partly", "yes"}] /\ fix' \in SUBSET Task /\ asked' \in SUBSET Relation
      /\ OnlyOf(t)
      /\ task'[t].status = "running" /\ task'[t].rollback = task[t].rollback /\ task'[t].known = task[t].known
      /\ task'[t].attempts = task[t].attempts
      /\ proc[Loop].kind # "correct" /\ Blank(t) => Blank(t)'
  <2>1. [kind |-> proc[Loop].kind, before |-> proc[Loop].before,
         prev |-> proc[Loop].prev, existed |-> proc[Loop].existed] \in PlanType
    BY Names DEF IInv, Typed, ProcRow, PlanType, Prev
  <2> QED
    BY <1>1, <1>2, <2>1 DEF OnlyOf, Blank, IInv, Typed, TaskRow
<1>5. /\ Typed' /\ RolesKept' /\ Apart' /\ MarksOwned' /\ PlansKept' /\ SettledForgot' /\ Ordering'
      /\ LoopPrevs' /\ MarksStand' /\ UndosKept' /\ HeldDown' /\ TracesKept'
      /\ StepOf(t) /\ LoopOn(t)' /\ proc'[Loop] = [proc[Loop] EXCEPT !.phase = "final"] /\ proc'[Loop].phase = "final"
  BY <1>1, <1>2, <1>3, <1>4, LoopGoes
<1>6. LoopKnows'
  BY <1>1, <1>2, <1>5 DEF IInv, Typed, LoopKnows, LoopIn, After, Marked, LoopPhase, Settled, Stands, LoopOn, On
<1>7. AskedFor'
  <2>1. active \cap Targets[t] = asked \cap Targets[t]
    BY <1>1, <1>2 DEF IInv, LoopKnows, LoopIn
  <2>2. \A r \in Targets[t] : Agree(r)'
    BY <1>2, <2>1 DEF Agree
  <2> QED
    BY <1>5, <2>2, AskedKept DEF IInv
<1> QED
  BY <1>5, <1>6, <1>7 DEF IInv

\* The loop ends its task.
LEMMA LoopLeaves ==
    ASSUME IInv, NEW t \in Task, Mine(Loop) = t, Owns(Loop, t), StepOf(t), proc'[Loop] = Idle,
           task'[t].status # "running", task'[t].rollback = None
    PROVE  /\ task[t].status = "running" /\ task[t].rollback = None /\ ~Stands(t) /\ ~Settled(t) /\ ~Abandoned(t)
           /\ ~Abandoned(t)' /\ ~LoopOn(t)' /\ LoopOn(t)
           /\ \A a \in Admin : proc'[a] = proc[a] /\ (Busy(a)' <=> Busy(a)) /\ Mine(a)' = Mine(a) /\ Mine(a) # t
           /\ RolesKept' /\ Apart' /\ UndosKept' /\ LoopKnows' /\ LoopPrevs'
           /\ ~LoopIn(Marked)'
<1>1. ~Busy(Loop)' /\ ~LoopOn(t)' /\ LoopOn(t)
  BY DEF Busy, Idle, LoopOn, Owns
<1>2. /\ task[t].status = "running" /\ task[t].rollback = None
      /\ \A a \in Admin : proc'[a] = proc[a] /\ (Busy(a)' <=> Busy(a)) /\ Mine(a)' = Mine(a)
      /\ Apart' /\ UndosKept'
      /\ \A a \in Admin : Mine(a) # t
  BY <1>1, LoopStep
<1>3. ~Stands(t) /\ ~Settled(t) /\ ~Abandoned(t) /\ ~Abandoned(t)'
  BY <1>1, <1>2 DEF Stands, Settled, Abandoned
<1>4. RolesKept'
  <2>1. \A u \in Task : u # t => task'[u] = task[u]
    BY DEF StepOf, OnlyOf
  <2>2. \A u \in Task : task'[u].rollback # None => task'[u].status = "applied"
    BY <2>1 DEF IInv, RolesKept
  <2>3. \A u \in Task : task'[u].status = "running" => task'[u].attempts > 0
    BY <2>1, <1>2 DEF IInv, RolesKept
  <2>4. \A a \in Actor : ~Busy(a)' => proc'[a] = Idle
    BY <1>1, <1>2, Names DEF IInv, RolesKept
  <2>5. \A a \in Actor : Busy(a)' => Mine(a)' \in Task
    BY <1>1, <1>2, Names DEF IInv, RolesKept
  <2>6. \A a \in Admin : Busy(a)' =>
          /\ proc'[a].phase \in AdminPhase
          /\ task'[Mine(a)'].rollback = "running" /\ ~task'[Mine(a)'].lapsed
    BY <1>2, <2>1, Names DEF IInv, RolesKept
  <2> QED
    BY <1>1, <2>2, <2>3, <2>4, <2>5, <2>6 DEF RolesKept
<1>5. LoopKnows' /\ LoopPrevs' /\ ~LoopIn(Marked)'
  BY DEF LoopKnows, LoopPrevs, LoopIn, Idle, After, Marked, LoopPhase
<1> QED
  BY <1>1, <1>2, <1>3, <1>4, <1>5

\* It ends its task without effect.
LEMMA LoopGivesUp ==
    ASSUME IInv, NEW t \in Task, Mine(Loop) = t, Owns(Loop, t), StepOf(t), proc'[Loop] = Idle,
           task'[t].status \in {"skipped", "error"}, task'[t].rollback = None, marks' = marks, ~LoopIn(Marked),
           \A r \in Targets[t] : r \in active' => r \in active \/ (LoopIn(After) /\ r \in proc[Loop].before)
    PROVE  /\ RolesKept' /\ Apart' /\ MarksOwned' /\ PlansKept' /\ SettledForgot' /\ LoopKnows' /\ Ordering'
           /\ LoopPrevs' /\ MarksStand' /\ UndosKept' /\ TracesKept'
           /\ ~Stands(t) /\ ~Abandoned(t) /\ LoopOn(t) /\ task[t].rollback = None
<1>1. /\ task[t].status = "running" /\ task[t].rollback = None /\ ~Stands(t) /\ ~Settled(t) /\ ~Abandoned(t)
      /\ ~Abandoned(t)' /\ ~LoopOn(t)' /\ LoopOn(t)
      /\ \A a \in Admin : proc'[a] = proc[a] /\ (Busy(a)' <=> Busy(a)) /\ Mine(a)' = Mine(a) /\ Mine(a) # t
      /\ RolesKept' /\ Apart' /\ UndosKept' /\ LoopKnows' /\ LoopPrevs'
      /\ ~LoopIn(Marked)'
  BY LoopLeaves
<1>2. ~Stands(t)' /\ ~Settled(t)'
  BY DEF Stands, Settled
<1>3. Steady
  BY <1>1, <1>2, SteadyStep DEF IInv
<1>4. MarksOwned'
  BY DEF IInv, MarksOwned
<1>5. \A u \in Task : /\ Settled(u) /\ LoopIn(After) => proc[Loop].before \cap On(u) = {}
                      /\ Stands(u) /\ LoopIn(After) => proc[Loop].before \cap On(u) \subseteq task[u].plan.before
  BY DEF IInv, LoopKnows
<1>6. PlansKept'
  BY <1>2, <1>5, PlansKeptKept DEF IInv, On
<1>7. SettledForgot'
  BY <1>2, <1>5, SettledKept DEF IInv, On
<1>8. Ordering'
  BY <1>1, <1>3, OrderingKept DEF IInv
<1>9. MarksStand'
  <2>1. ~MarkStands(t)
    BY <1>1 DEF MarkStands
  <2> QED
    BY <2>1, MarksStandKept DEF IInv, Typed
<1>10. TracesKept'
  <2>1. TraceKept(t)'
    BY <1>1, <1>2 DEF TraceKept, None
  <2> QED
    BY <2>1, TracesStep DEF IInv
<1> QED
  BY <1>1, <1>4, <1>6, <1>7, <1>8, <1>9, <1>10

\* The row of a task the loop ended.
LEMMA EndTyped ==
    ASSUME task \in [Task -> TaskRow], NEW t \in Task, NEW status \in {"skipped", "applied", "error"},
           NEW error \in {None, "classify", "ingest", "raised"}
    PROVE  [task EXCEPT ![t].status = status, ![t].last_error = error] \in [Task -> TaskRow]
<1> DEFINE x == [task[t] EXCEPT !.status = status, !.last_error = error]
<1>1. x \in TaskRow
  <2>1. task[t] \in TaskRow
    OBVIOUS
  <2> QED
    BY <2>1 DEF TaskRow
<1>2. [task EXCEPT ![t].status = status, ![t].last_error = error] = [task EXCEPT ![t] = x]
  OBVIOUS
<1> QED
  BY <1>1, <1>2

\* An idle actor.
LEMMA IdleTyped == Idle \in ProcRow
BY Names DEF Idle, ProcRow, Prev, None

\* Nothing was changed, so nothing is held down.
LEMMA ClassifyNothingKeeps == ASSUME IInv, ClassifyNothing PROVE IInv'
<1>1. PICK t \in Task : Mine(Loop) = t /\ task[t].status = "running" /\ Busy(Loop) /\ Runs(Loop)
  BY Names DEF ClassifyNothing, At, IInv, RolesKept, Busy
<1>2. /\ proc[Loop].phase \in {"classify"}
      /\ proc' = [proc EXCEPT ![Loop] = Idle] /\ active' = active
      /\ UNCHANGED <<marks, stored, fix, asked, tangled, crashes>>
  BY <1>1 DEF ClassifyNothing, At, End, Leave, Mine
<1>3. PICK status \in {"skipped", "error"}, error \in {None, "classify", "ingest", "raised"} :
          /\ task' = [task EXCEPT ![t].status = status, ![t].last_error = error]
          /\ error \in {None, "classify"} /\ (error = None <=> status = "skipped")
  BY <1>1 DEF ClassifyNothing, End, Mine, None
<1>4. Owns(Loop, t) /\ LoopOn(t) /\ proc'[Loop] = Idle
  BY <1>1, <1>2, Names DEF Owns, OnlyBy, LoopOn, Busy, Mine, IInv, Typed
<1>5. /\ task'[t].status = status /\ task'[t].last_error = error
      /\ task'[t].attempts = task[t].attempts /\ task'[t].rollback = None /\ task'[t].lapsed = task[t].lapsed
  BY <1>1, <1>3, Names DEF IInv, Typed, TaskRow, RolesKept
<1>6. StepOf(t)
  BY <1>1, <1>2, <1>3, <1>4, <1>5 DEF StepOf, OnlyOf, IInv, Typed, TaskRow, Mine, Idle
<1>7. Typed'
  <2>1. proc' \in [Actor -> ProcRow]
    BY <1>2, Names, IdleTyped DEF IInv, Typed
  <2>2. task' \in [Task -> TaskRow]
    BY <1>3, EndTyped DEF IInv, Typed
  <2> QED
    BY <1>1, <1>2, <2>1, <2>2 DEF IInv, Typed, ProcRow
<1>8. /\ RolesKept' /\ Apart' /\ MarksOwned' /\ PlansKept' /\ SettledForgot' /\ LoopKnows' /\ Ordering'
      /\ LoopPrevs' /\ MarksStand' /\ UndosKept' /\ TracesKept'
      /\ ~Stands(t) /\ ~Abandoned(t) /\ LoopOn(t) /\ task[t].rollback = None
  <2>1. ~LoopIn(Marked)
    BY <1>2 DEF LoopIn, Marked
  <2>2. \A r \in Targets[t] : r \in active' => r \in active \/ (LoopIn(After) /\ r \in proc[Loop].before)
    BY <1>2 DEF LoopIn, After, LoopPhase
  <2> QED
    BY <1>1, <1>2, <1>4, <1>5, <1>6, <2>1, <2>2, LoopGivesUp
<1>9. HeldDown'
  <2>1. \A r \in Targets[t] : ~Holds(t, r)
    BY <1>2, <1>8 DEF Holds, LoopIn, After
  <2> QED
    BY <1>2, <1>6, <2>1, HeldKept DEF IInv
<1>10. AskedFor'
  <2>1. ~Asking(t)
    BY <1>2, <1>8 DEF Asking, LoopIn, None
  <2>2. \A r \in Targets[t] : Agree(r) => Agree(r)'
    BY <1>2 DEF Agree
  <2> QED
    BY <1>5, <1>6, <1>8, <2>1, <2>2, AskedKept DEF IInv, None
<1> QED
  BY <1>7, <1>8, <1>9, <1>10 DEF IInv

\* The relations stay down: the task is no longer smooth.
LEMMA IngestRaisesKeeps == ASSUME IInv, IngestRaises PROVE IInv'
<1>1. PICK t \in Task : Mine(Loop) = t /\ task[t].status = "running" /\ Busy(Loop) /\ Runs(Loop)
  BY Names DEF IngestRaises, IInv, RolesKept, Busy
<1>2. /\ proc[Loop].phase \in {"ingest", "relate"}
      /\ proc' = [proc EXCEPT ![Loop] = Idle] /\ active' = active
      /\ UNCHANGED <<marks, stored, fix, asked, tangled, crashes>>
  BY <1>1 DEF IngestRaises, At, End, Leave, Mine
<1>3. PICK status \in {"skipped", "error"}, error \in {None, "classify", "ingest", "raised"} :
          /\ task' = [task EXCEPT ![t].status = status, ![t].last_error = error]
          /\ status = "error" /\ error = "raised"
  BY <1>1 DEF IngestRaises, End, Mine, None
<1>4. Owns(Loop, t) /\ LoopOn(t) /\ proc'[Loop] = Idle
  BY <1>1, <1>2, Names DEF Owns, OnlyBy, LoopOn, Busy, Mine, IInv, Typed
<1>5. /\ task'[t].status = status /\ task'[t].last_error = error
      /\ task'[t].attempts = task[t].attempts /\ task'[t].rollback = None /\ task'[t].lapsed = task[t].lapsed
  BY <1>1, <1>3, Names DEF IInv, Typed, TaskRow, RolesKept
<1>6. StepOf(t)
  BY <1>1, <1>2, <1>3, <1>4, <1>5 DEF StepOf, OnlyOf, IInv, Typed, TaskRow, Mine, Idle
<1>7. Typed'
  <2>1. proc' \in [Actor -> ProcRow]
    BY <1>2, Names, IdleTyped DEF IInv, Typed
  <2>2. task' \in [Task -> TaskRow]
    BY <1>3, EndTyped DEF IInv, Typed
  <2> QED
    BY <1>1, <1>2, <2>1, <2>2 DEF IInv, Typed, ProcRow
<1>8. /\ RolesKept' /\ Apart' /\ MarksOwned' /\ PlansKept' /\ SettledForgot' /\ LoopKnows' /\ Ordering'
      /\ LoopPrevs' /\ MarksStand' /\ UndosKept' /\ TracesKept'
      /\ ~Stands(t) /\ ~Abandoned(t) /\ LoopOn(t) /\ task[t].rollback = None
  <2>1. ~LoopIn(Marked)
    BY <1>2 DEF LoopIn, Marked
  <2>2. \A r \in Targets[t] : r \in active' => r \in active \/ (LoopIn(After) /\ r \in proc[Loop].before)
    BY <1>2 DEF LoopIn, After, LoopPhase
  <2> QED
    BY <1>1, <1>2, <1>4, <1>5, <1>6, <2>1, <2>2, LoopGivesUp
<1>9. HeldDown'
  <2>1. \A r \in Targets[t] : ~Smooth(r)'
    BY <1>3, <1>5 DEF Smooth
  <2> QED
    BY <1>6, <2>1, HeldKept DEF IInv
<1>10. AskedFor'
  <2>1. \A r \in Targets[t] : ~Undisturbed(r)'
    BY <1>3, <1>5 DEF Undisturbed
  <2> QED
    BY <1>6, <2>1, AskedKept DEF IInv
<1> QED
  BY <1>7, <1>8, <1>9, <1>10 DEF IInv

\* What was active before is active again; no task in effect had forgotten it.
LEMMA CompensateKeeps == ASSUME IInv, Compensate PROVE IInv'
<1>1. PICK t \in Task : Mine(Loop) = t /\ task[t].status = "running" /\ Busy(Loop) /\ Runs(Loop)
  BY Names DEF Compensate, At, IInv, RolesKept, Busy
<1>2. /\ proc[Loop].phase \in {"compensate"}
      /\ proc' = [proc EXCEPT ![Loop] = Idle] /\ active' = (active \ Targets[t]) \cup proc[Loop].before
      /\ UNCHANGED <<marks, stored, fix, asked, tangled, crashes>>
  BY <1>1 DEF Compensate, At, End, Leave, Mine
<1>3. PICK status \in {"skipped", "error"}, error \in {None, "classify", "ingest", "raised"} :
          /\ task' = [task EXCEPT ![t].status = status, ![t].last_error = error]
          /\ status = "error" /\ error = "ingest"
  BY <1>1 DEF Compensate, End, Mine, None
<1>4. Owns(Loop, t) /\ LoopOn(t) /\ proc'[Loop] = Idle
  BY <1>1, <1>2, Names DEF Owns, OnlyBy, LoopOn, Busy, Mine, IInv, Typed
<1>5. /\ task'[t].status = status /\ task'[t].last_error = error
      /\ task'[t].attempts = task[t].attempts /\ task'[t].rollback = None /\ task'[t].lapsed = task[t].lapsed
  BY <1>1, <1>3, Names DEF IInv, Typed, TaskRow, RolesKept
<1>6. StepOf(t)
  <2>1. proc[Loop].before \subseteq Targets[t]
    BY <1>1, <1>2 DEF IInv, LoopKnows, LoopIn, After, LoopPhase
  <2> QED
    BY <1>1, <1>2, <1>3, <1>4, <1>5, <2>1 DEF StepOf, OnlyOf, IInv, Typed, TaskRow, Mine, Idle
<1>7. Typed'
  <2>1. proc' \in [Actor -> ProcRow]
    BY <1>2, Names, IdleTyped DEF IInv, Typed
  <2>2. task' \in [Task -> TaskRow]
    BY <1>3, EndTyped DEF IInv, Typed
  <2> QED
    BY <1>1, <1>2, <2>1, <2>2, Names DEF IInv, Typed, ProcRow
<1>8. /\ RolesKept' /\ Apart' /\ MarksOwned' /\ PlansKept' /\ SettledForgot' /\ LoopKnows' /\ Ordering'
      /\ LoopPrevs' /\ MarksStand' /\ UndosKept' /\ TracesKept'
      /\ ~Stands(t) /\ ~Abandoned(t) /\ LoopOn(t) /\ task[t].rollback = None
  <2>1. ~LoopIn(Marked)
    BY <1>2 DEF LoopIn, Marked
  <2>2. \A r \in Targets[t] : r \in active' => r \in active \/ (LoopIn(After) /\ r \in proc[Loop].before)
    BY <1>2 DEF LoopIn, After, LoopPhase
  <2> QED
    BY <1>1, <1>2, <1>4, <1>5, <1>6, <2>1, <2>2, LoopGivesUp
<1>9. HeldDown'
  <2>1. active \cap On(t) = {} /\ proc[Loop].before \subseteq Targets[t]
    BY <1>1, <1>2 DEF IInv, LoopKnows, LoopIn, After, LoopPhase
  <2>2. \A r \in Targets[t] : Smooth(r)' /\ r \notin active' => r \notin active /\ ~Holds(t, r)
    BY <1>2, <1>8, <2>1 DEF Holds, Smooth, On
  <2> QED
    BY <1>6, <2>2, HeldKept DEF IInv
<1>10. AskedFor'
  <2>1. \A r \in Targets[t] : ~Undisturbed(r)'
    BY <1>3, <1>5 DEF Undisturbed
  <2> QED
    BY <1>6, <2>1, AskedKept DEF IInv
<1> QED
  BY <1>7, <1>8, <1>9, <1>10 DEF IInv

\* The relations go down and the loop remembers which were active.
LEMMA ClassifyApplyKeeps == ASSUME IInv, ClassifyApply PROVE IInv'
<1>1. PICK t \in Task : Mine(Loop) = t /\ task[t].status = "running" /\ Busy(Loop) /\ Runs(Loop)
  BY Names DEF ClassifyApply, At, IInv, RolesKept, Busy
<1>2. PICK kind \in {"reject", "correct"} :
          /\ proc[Loop].phase = "classify"
          /\ proc' = [proc EXCEPT ![Loop] = [@ EXCEPT
                     !.kind = kind, !.before = active \cap Targets[t], !.existed = t \in fix,
                     !.phase = IF kind = "correct" THEN "ingest" ELSE "mark"]]
          /\ active' = active \ Targets[t]
          /\ UNCHANGED <<task, marks, stored, fix, asked, tangled, crashes>>
  BY <1>1 DEF ClassifyApply, At, Mine
<1> DEFINE x == [proc[Loop] EXCEPT
                     !.kind = kind, !.before = active \cap Targets[t], !.existed = t \in fix,
                     !.phase = IF kind = "correct" THEN "ingest" ELSE "mark"]
<1>3. /\ x \in ProcRow /\ proc' = [proc EXCEPT ![Loop] = x] /\ proc'[Loop] = x
      /\ proc'[Loop].task = t /\ proc'[Loop].kind = kind /\ proc'[Loop].before = active \cap Targets[t]
      /\ proc'[Loop].prev = proc[Loop].prev /\ (proc'[Loop].existed <=> t \in fix)
      /\ proc'[Loop].phase = IF kind = "correct" THEN "ingest" ELSE "mark"
  <2>1. proc[Loop] \in ProcRow /\ proc[Loop].task = t
    BY <1>1, Names DEF IInv, Typed, Mine
  <2>2. x \in ProcRow /\ x.task = t /\ x.kind = kind /\ x.before = active \cap Targets[t]
        /\ x.prev = proc[Loop].prev /\ (x.existed <=> t \in fix)
        /\ x.phase = IF kind = "correct" THEN "ingest" ELSE "mark"
    <3>1. active \cap Targets[t] \in SUBSET Relation /\ (t \in fix) \in BOOLEAN
      BY DEF IInv, Typed
    <3>2. (IF kind = "correct" THEN "ingest" ELSE "mark") \in LoopPhase
      BY DEF LoopPhase
    <3> DEFINE ph == IF kind = "correct" THEN "ingest" ELSE "mark"
               b == active \cap Targets[t]
               e == t \in fix
    <3>3. ph \in LoopPhase /\ b \in SUBSET Relation /\ e \in BOOLEAN
      BY <3>1, <3>2
    <3> HIDE DEF ph, b, e
    <3>4. x = [proc[Loop] EXCEPT !.kind = kind, !.before = b, !.existed = e, !.phase = ph]
      BY DEF ph, b, e, x
    <3>5. x \in ProcRow /\ x.task = t /\ x.kind = kind /\ x.before = b /\ x.prev = proc[Loop].prev /\ x.existed = e /\ x.phase = ph
      BY <2>1, <3>3, <3>4 DEF ProcRow
    <3> QED
      BY <3>5 DEF ph, b, e
  <2>3. proc' = [proc EXCEPT ![Loop] = x] /\ proc'[Loop] = x
    BY <1>2, Names DEF IInv, Typed
  <2> QED
    BY <2>2, <2>3
<1> HIDE DEF x
<1>4. Owns(Loop, t) /\ LoopOn(t)
  BY <1>1, <1>3, Names DEF Owns, OnlyBy, LoopOn, IInv, Typed
<1>5. StepOf(t)
  BY <1>1, <1>2, <1>3, <1>4 DEF StepOf, OnlyOf, IInv, Typed, TaskRow, Mine, Owns, OnlyBy
<1>6. Typed'
  <2>1. proc' \in [Actor -> ProcRow]
    BY <1>3 DEF IInv, Typed
  <2> QED
    BY <1>2, <2>1 DEF IInv, Typed
<1>7. LoopIn(LoopPhase)' /\ LoopIn(After)' /\ ~LoopIn(Marked)' /\ ~LoopIn(Marked) /\ ~LoopIn(After)
  BY <1>2, <1>3 DEF LoopIn, LoopPhase, After, Marked
<1>8. task[t].rollback = None /\ \A a \in Admin : Mine(a) # t /\ proc'[a] = proc[a]
  <2>1. Busy(Loop)' => Mine(Loop)' = Mine(Loop)
    BY <1>1, <1>3 DEF Mine
  <2> QED
    BY <1>1, <1>4, <1>5, <2>1, LoopStep
<1>9. /\ RolesKept' /\ Apart' /\ MarksOwned' /\ PlansKept' /\ SettledForgot' /\ Ordering'
      /\ LoopPrevs' /\ MarksStand' /\ UndosKept'
  BY <1>1, <1>2, <1>3, <1>4, <1>5, <1>7, <1>8, LoopGoesOn
<1>10. LoopOn(t)' /\ ~Stands(t) /\ ~Abandoned(t) /\ ~Stands(t)' /\ ~Settled(t)'
  BY <1>1, <1>2, <1>3, <1>4, <1>5, <1>7, <1>8, LoopStays
<1>11. LoopKnows'
  <2>1. active' \cap On(t)' = {} /\ proc'[Loop].before \subseteq Targets[t]
    BY <1>2, <1>3 DEF On
  <2>2. \A u \in Task : Settled(u)' => proc'[Loop].before \cap On(u)' = {}
    BY <1>2, <1>3 DEF IInv, SettledForgot, Settled, On
  <2>3. \A u \in Task : Stands(u)' => proc'[Loop].before \cap On(u)' \subseteq task'[u].plan.before
    BY <1>2, <1>3 DEF IInv, PlansKept, PlanKept, Stands, On
  <2>4. proc'[Loop].kind = "correct" => ~LoopIn({"mark"} \cup Marked)'
    BY <1>3 DEF LoopIn, Marked
  <2>5. LoopIn({"ingest", "relate", "compensate"})' => proc'[Loop].kind = "correct"
    BY <1>2, <1>3 DEF LoopIn
  <2>6. Mine(Loop)' = t
    BY <1>3 DEF Mine
  <2> QED
    BY <1>7, <2>1, <2>2, <2>3, <2>4, <2>5, <2>6 DEF LoopKnows, LoopIn, Marked
<1>12. HeldDown'
  <2>1. \A r \in Targets[t] : r \notin active \/ Holds(t, r)'
    BY <1>3, <1>7, <1>10 DEF Holds
  <2>2. \A r \in Targets[t] : ~Holds(t, r)
    BY <1>7, <1>10 DEF Holds
  <2> QED
    BY <1>2, <1>5, <2>1, <2>2, HeldKept DEF IInv
<1>13. TracesKept'
  <2>1. ASSUME task[t].attempts <= 1 PROVE TraceKept(t)'
    <3>1. Blank(t)
      BY <1>2, <1>4, <2>1 DEF IInv, TracesKept, TraceKept, LoopIn
    <3>2. Blank(t)' /\ (proc'[Loop].existed <=> task'[t].known)
      BY <1>2, <1>3, <3>1 DEF Blank
    <3>3. task'[t].status = "running" /\ task'[t].rollback = None /\ \A a \in Admin : Mine(a)' # t
      BY <1>1, <1>2, <1>8 DEF Mine
    <3> QED
      BY <3>2, <3>3, LoopTrace
  <2> QED
    BY <1>2, <1>5, <2>1, TracesStep DEF IInv
<1>14. AskedFor'
  <2>1. Asking(t)'
    BY <1>3, <1>10 DEF Asking, LoopIn
  <2> QED
    BY <1>5, <2>1, AskedKept DEF IInv
<1> QED
  BY <1>6, <1>9, <1>11, <1>12, <1>13, <1>14 DEF IInv

\* The marks go to this task, and the old ones are those of tasks in effect or abandoned.
LEMMA MarkStaleKeeps == ASSUME IInv, MarkStale PROVE IInv'
<1>1. PICK t \in Task : Mine(Loop) = t /\ task[t].status = "running" /\ Busy(Loop) /\ Runs(Loop)
  BY Names DEF MarkStale, At, IInv, RolesKept, Busy
<1>2. /\ proc[Loop].phase = "mark"
      /\ marks' = [r \in Relation |-> IF r \in Targets[t] THEN t ELSE marks[r]]
      /\ proc' = [proc EXCEPT ![Loop].phase = "derive", ![Loop].prev = {<<r, marks[r]>> : r \in Targets[t]}]
      /\ UNCHANGED <<task, active, stored, fix, asked, tangled, crashes>>
  BY <1>1 DEF MarkStale, At, Mine
<1> DEFINE prev == {<<r, marks[r]>> : r \in Targets[t]}
           x == [proc[Loop] EXCEPT !.phase = "derive", !.prev = prev]
<1>3. Targets[t] \subseteq Relation
  BY TargetsAssumption
<1>4. /\ x \in ProcRow /\ proc' = [proc EXCEPT ![Loop] = x] /\ proc'[Loop] = x
      /\ x.task = t /\ x.phase = "derive" /\ x.prev = prev /\ x.kind = proc[Loop].kind
      /\ x.before = proc[Loop].before /\ x.existed = proc[Loop].existed
  <2>1. proc[Loop] \in ProcRow /\ proc[Loop].task = t
    BY <1>1, Names DEF IInv, Typed, Mine
  <2>2. prev \in Prev
    BY <1>3 DEF Prev, IInv, Typed
  <2> HIDE DEF prev
  <2>3. /\ x \in ProcRow /\ x.task = t /\ x.phase = "derive" /\ x.prev = prev /\ x.kind = proc[Loop].kind
        /\ x.before = proc[Loop].before /\ x.existed = proc[Loop].existed
    BY <2>1, <2>2 DEF ProcRow, LoopPhase
  <2>4. proc' = [proc EXCEPT ![Loop] = x]
    BY <1>2 DEF prev
  <2> QED
    BY <2>3, <2>4, Names DEF IInv, Typed
<1> HIDE DEF x
<1>5. Owns(Loop, t) /\ LoopOn(t)
  BY <1>1, <1>4, Names DEF Owns, OnlyBy, LoopOn, IInv, Typed
<1>6. StepOf(t)
  BY <1>1, <1>2, <1>4, <1>5 DEF StepOf, OnlyOf, IInv, Typed, TaskRow, Mine, Owns, OnlyBy
<1>7. Typed'
  <2>1. proc' \in [Actor -> ProcRow]
    BY <1>4 DEF IInv, Typed
  <2>2. marks' \in [Relation -> Task \cup {None}]
    BY <1>2 DEF IInv, Typed
  <2> QED
    BY <1>2, <2>1, <2>2 DEF IInv, Typed
<1>8. LoopIn(LoopPhase)' /\ LoopIn(Marked)' /\ LoopIn(After)' /\ ~LoopIn(Marked) /\ LoopIn(After)
      /\ ~LoopIn({"plan", "final"})' /\ ~LoopIn({"final"})' /\ ~LoopIn({"classify", "plan", "final"})'
      /\ ~LoopIn({"ingest", "relate", "compensate"})' /\ ~LoopIn({"classify", "ingest"})' /\ LoopIn({"mark"} \cup Marked)
  BY <1>2, <1>4 DEF LoopIn, LoopPhase, After, Marked
<1>9. task[t].rollback = None
  BY <1>1 DEF IInv, RolesKept
<1>10. /\ RolesKept' /\ Apart' /\ UndosKept' /\ PlansKept' /\ Steady
       /\ LoopOn(t) /\ LoopOn(t)'
       /\ ~Stands(t) /\ ~Stands(t)' /\ ~Settled(t) /\ ~Settled(t)' /\ ~Abandoned(t) /\ ~Abandoned(t)'
       /\ \A a \in Admin : proc'[a] = proc[a] /\ (Busy(a)' <=> Busy(a)) /\ Mine(a)' = Mine(a) /\ Mine(a) # t
  BY <1>1, <1>2, <1>4, <1>5, <1>6, <1>8, <1>9, LoopStays
<1>11. MarksOwned'
  BY <1>2, <1>3, <1>6, MarksOwnedKept DEF IInv
<1>12. SettledForgot'
  BY <1>2, <1>3, <1>6, <1>10, Names, SettledKept DEF IInv
<1>13. /\ {m[1] : m \in prev} = Targets[t] /\ Owned(prev)
       /\ \A m \in prev :
             m[1] \in Relation /\ m[1] \in Targets[t] /\ m[2] = marks[m[1]] /\ (m[2] # None => m[2] \in Task)
  <2>1. \A m \in prev :
           m[1] \in Relation /\ m[1] \in Targets[t] /\ m[2] = marks[m[1]] /\ (m[2] # None => m[2] \in Task)
    BY <1>3 DEF IInv, Typed
  <2>2. {m[1] : m \in prev} = Targets[t]
    <3>1. ASSUME NEW r \in Targets[t] PROVE r \in {m[1] : m \in prev}
      <4>1. <<r, marks[r]>> \in prev /\ r = <<r, marks[r]>>[1]
        OBVIOUS
      <4> QED
        BY <4>1
    <3> QED
      BY <2>1, <3>1
  <2> QED
    BY <2>1, <2>2 DEF Owned, IInv, MarksOwned
<1> HIDE DEF prev
<1>14. LoopKnows'
  <2>1. /\ active \cap On(t) = {} /\ proc[Loop].before \subseteq Targets[t]
        /\ \A u \in Task : Settled(u) => proc[Loop].before \cap On(u) = {}
        /\ \A u \in Task : Stands(u) => proc[Loop].before \cap On(u) \subseteq task[u].plan.before
        /\ proc[Loop].kind = "correct" => stored[t] = "yes"
    BY <1>1, <1>8 DEF IInv, LoopKnows
  <2>2. \A m \in prev : m[2] = None => \A u \in Task : ~(Settled(u) /\ m[1] \in On(u))
    BY <1>13 DEF IInv, SettledForgot
  <2>3. Mine(Loop)' = t
    BY <1>4 DEF Mine
  <2>4. \A r \in On(t) : marks'[r] = t
    BY <1>2, <1>3 DEF On
  <2>5. \A u \in Task : (Settled(u)' <=> Settled(u)) /\ (Stands(u)' <=> Stands(u))
    BY <1>10 DEF Steady, Calm
  <2> QED
    BY <1>2, <1>4, <1>8, <1>13, <2>1, <2>2, <2>3, <2>4, <2>5 DEF LoopKnows, On
<1>15. Ordering'
  <2>1. PICK older \in SUBSET (Task \X Task) : Ordered(older)
    BY DEF IInv, Ordering
  <2>2. \A u \in Task : (Settled(u)' <=> Settled(u)) /\ (Stands(u)' <=> Stands(u))
    BY <1>10 DEF Steady, Calm
  <2>3. MarksTop(older)'
    <3> SUFFICES ASSUME NEW r \in Relation, NEW v \in Task, NEW u \in Task,
                        marks'[r] = v, Stands(v)', Settled(u)', u # v, r \in On(u)'
                 PROVE  <<u, v>> \in older
      BY DEF MarksTop
    <3>1. v # t
      BY <1>10
    <3>2. marks[r] = v
      BY <1>2, <3>1
    <3> QED
      BY <1>2, <2>1, <2>2, <3>2 DEF Ordered, MarksTop, On
  <2>4. PrevsBelow(older)'
    <3> SUFFICES ASSUME NEW v \in Task, NEW u \in Task, Stands(v)', Settled(u)', <<u, v>> \in older
                 PROVE  /\ task'[v].plan.before \cap On(u)' = {}
                        /\ \A m \in task'[v].plan.prev : m[1] \in On(u)' =>
                              /\ m[2] # None
                              /\ Stands(m[2])' /\ <<m[2], v>> \in older /\ u # m[2] => <<u, m[2]>> \in older
      BY DEF PrevsBelow
    <3>1. \A m \in task[v].plan.prev : m[2] # None => m[2] \in Task
      BY DEF IInv, Typed, TaskRow, PlanType
    <3> QED
      BY <1>2, <2>1, <2>2, <3>1 DEF Ordered, PrevsBelow, On
  <2>5. LoopBelow(older)'
    <3> SUFFICES ASSUME NEW m \in prev, NEW u \in Task, m[2] # None, Settled(u)', m[1] \in On(u)', Stands(m[2])', u # m[2]
                 PROVE  <<u, m[2]>> \in older
      BY <1>4 DEF LoopBelow
    <3> QED
      BY <1>2, <1>13, <2>1, <2>2 DEF Ordered, MarksTop, On
  <2>6. UndoTop(older)'
    BY <1>2, <1>10, <2>1, <2>2 DEF Ordered, UndoTop, Meet, On
  <2>7. PrevsStand(older)'
    <3> SUFFICES ASSUME NEW v \in Task, Stands(v)', NEW m \in task'[v].plan.prev, Smooth(m[1])', m[2] # None
                 PROVE  (Stands(m[2])' /\ <<m[2], v>> \in older) \/ Abandoned(m[2])'
      BY DEF PrevsStand
    <3>1. Stands(v) /\ task'[v] = task[v]
      BY <1>2, <2>2
    <3>2. m \in task[v].plan.prev /\ m[1] \in Relation /\ m[2] \in Task /\ m[1] \in Targets[m[2]]
      BY <3>1 DEF IInv, Typed, TaskRow, PlanType, PlansKept, PlanKept, Owned
    <3>3. Smooth(m[1])
      BY <1>10, <3>2 DEF Steady, Calm
    <3>4. (Stands(m[2]) /\ <<m[2], v>> \in older) \/ Abandoned(m[2])
      BY <2>1, <3>1, <3>2, <3>3 DEF Ordered, PrevsStand
    <3> QED
      BY <1>10, <3>2, <3>4 DEF Steady, Calm
  <2> QED
    BY <2>1, <2>3, <2>4, <2>5, <2>6, <2>7 DEF Ordering, Ordered, Antisymmetric
<1>16. LoopPrevs'
  <2> SUFFICES ASSUME NEW m \in prev, Smooth(m[1])', m[2] # None
               PROVE  Stands(m[2])' \/ Abandoned(m[2])'
    BY <1>4 DEF LoopPrevs
  <2>1. m[1] \in Relation /\ m[2] \in Task /\ m[2] = marks[m[1]]
    BY <1>13
  <2>2. Smooth(m[1]) /\ m[1] \in Targets[m[2]]
    BY <1>10, <1>13, <2>1 DEF Steady, Calm, Owned
  <2>3. MarkStands(m[2])
    BY <2>1, <2>2 DEF IInv, MarksStand
  <2>4. Stands(m[2]) \/ Abandoned(m[2])
    BY <1>8, <2>3 DEF MarkStands
  <2> QED
    BY <1>10, <2>1, <2>2, <2>4 DEF Steady, Calm
<1>17. MarksStand'
  <2>1. MarkStands(t)'
    BY <1>8, <1>10 DEF MarkStands
  <2>2. \A r \in Targets[t] : marks'[r] = t
    BY <1>2, <1>3
  <2> QED
    BY <1>6, <1>7, <2>1, <2>2, MarksStandKept DEF IInv, Typed
<1>18. HeldDown'
  <2>1. \A r \in Targets[t] : Holds(t, r) => Holds(t, r)'
    BY <1>4, <1>8, <1>10 DEF Holds
  <2> QED
    BY <1>2, <1>6, <2>1, HeldKept DEF IInv
<1>19. TracesKept'
  <2>1. ASSUME task[t].attempts <= 1 PROVE TraceKept(t)'
    <3>1. /\ LoopIn(After) => (proc[Loop].existed <=> task[t].known)
          /\ LoopIn({"mark"} \cup Marked) /\ proc[Loop].kind # "correct" => Blank(t)
      BY <1>10, <2>1 DEF IInv, TracesKept, TraceKept
    <3>2. (proc'[Loop].kind # "correct" => Blank(t)') /\ (proc'[Loop].existed <=> task'[t].known)
      BY <1>2, <1>4, <1>8, <3>1 DEF Blank
    <3>3. task'[t].status = "running" /\ task'[t].rollback = None /\ \A a \in Admin : Mine(a)' # t
      BY <1>1, <1>2, <1>9, <1>10
    <3> QED
      BY <1>8, <3>2, <3>3, LoopTrace
  <2> QED
    BY <1>2, <1>6, <2>1, TracesStep DEF IInv
<1>20. AskedFor'
  <2>1. Asking(t)'
    BY <1>8, <1>10 DEF Asking
  <2> QED
    BY <1>6, <2>1, AskedKept DEF IInv
<1> QED
  BY <1>7, <1>10, <1>11, <1>12, <1>14, <1>15, <1>16, <1>17, <1>18, <1>19, <1>20 DEF IInv

\* The task comes into effect, newer than all others.
LEMMA ApplyKeeps == ASSUME IInv, Apply PROVE IInv'
<1>1. PICK t \in Task : Mine(Loop) = t /\ task[t].status = "running" /\ Busy(Loop) /\ Runs(Loop)
  BY Names DEF Apply, At, IInv, RolesKept, Busy
<1>2. /\ proc[Loop].phase = "final"
      /\ task' = [task EXCEPT ![t].status = "applied", ![t].last_error = None]
      /\ proc' = [proc EXCEPT ![Loop] = Idle]
      /\ UNCHANGED <<active, marks, stored, fix, asked, tangled, crashes>>
  BY <1>1 DEF Apply, At, End, Leave, Mine
<1>3. task[t].rollback = None
  BY <1>1 DEF IInv, RolesKept
<1>4. Owns(Loop, t) /\ LoopOn(t) /\ proc'[Loop] = Idle
  BY <1>1, <1>2, Names DEF Owns, OnlyBy, LoopOn, IInv, Typed
<1>5. /\ task'[t].status = "applied" /\ task'[t].rollback = None /\ task'[t].plan = task[t].plan
      /\ task'[t].attempts = task[t].attempts /\ task'[t].known = task[t].known
  BY <1>1, <1>2, <1>3 DEF IInv, Typed, TaskRow
<1>6. StepOf(t)
  BY <1>1, <1>2, <1>4, <1>5 DEF StepOf, OnlyOf, IInv, Typed, TaskRow, Mine, Idle, Owns, OnlyBy
<1>7. Typed'
  <2>1. proc' \in [Actor -> ProcRow]
    BY <1>2, IdleTyped DEF IInv, Typed
  <2>2. task' \in [Task -> TaskRow]
    BY <1>2, EndTyped DEF IInv, Typed
  <2> QED
    BY <1>2, <2>1, <2>2 DEF IInv, Typed
<1>8. /\ ~Stands(t) /\ ~Settled(t) /\ ~Abandoned(t)
      /\ ~Abandoned(t)' /\ ~LoopOn(t)'
      /\ \A a \in Admin : proc'[a] = proc[a] /\ (Busy(a)' <=> Busy(a)) /\ Mine(a)' = Mine(a) /\ Mine(a) # t
      /\ RolesKept' /\ Apart' /\ UndosKept' /\ LoopKnows' /\ LoopPrevs'
      /\ ~LoopIn(Marked)'
  BY <1>1, <1>4, <1>5, <1>6, LoopLeaves
<1>9. Stands(t)' /\ Settled(t)'
  BY <1>5 DEF Stands, Settled, None
<1>10. \A u \in Task : u # t => /\ (Stands(u)' <=> Stands(u)) /\ (Settled(u)' <=> Settled(u))
                                 /\ task'[u] = task[u] /\ (Abandoned(u)' <=> Abandoned(u))
  BY <1>6, OthersSame DEF IInv
<1> DEFINE p == proc[Loop]
<1>11. /\ active \cap On(t) = {} /\ p.before \subseteq Targets[t]
       /\ \A u \in Task : Settled(u) => p.before \cap On(u) = {}
       /\ p.kind = "correct" => stored[t] = "yes"
       /\ \A r \in On(t) : marks[r] = t
       /\ {m[1] : m \in p.prev} = Targets[t] /\ Owned(p.prev)
       /\ \A m \in p.prev : m[2] = None => \A u \in Task : ~(Settled(u) /\ m[1] \in On(u))
       /\ active \cap Targets[t] = asked \cap Targets[t]
       /\ task[t].plan = [kind |-> p.kind, before |-> p.before, prev |-> p.prev, existed |-> p.existed]
  BY <1>1, <1>2 DEF IInv, LoopKnows, LoopIn, After, Marked, LoopPhase
<1>12. task[t].plan.kind = p.kind /\ task[t].plan.before = p.before /\ task[t].plan.prev = p.prev /\ task[t].plan.existed = p.existed
  BY <1>11
<1> HIDE DEF p
<1>13. MarksOwned'
  BY <1>2 DEF IInv, MarksOwned
<1>14. PlansKept'
  <2>1. PlanKept(t)'
    BY <1>2, <1>5, <1>11, <1>12 DEF PlanKept, On
  <2> QED
    BY <1>2, <1>6, <2>1, PlansKeptKept DEF IInv
<1>15. SettledForgot'
  <2>1. \A r \in On(t) : r \notin active' /\ marks'[r] # None
    BY <1>2, <1>11, Names
  <2>2. task'[t].plan.kind = "correct" => stored'[t] = "yes"
    BY <1>2, <1>5, <1>11, <1>12
  <2> QED
    BY <1>2, <1>6, <2>1, <2>2, SettledKept DEF IInv
<1>16. Ordering'
  <2>1. PICK older \in SUBSET (Task \X Task) : Ordered(older)
    BY DEF IInv, Ordering
  <2> DEFINE newer == {q \in older : q[1] # t /\ q[2] # t} \cup {<<u, t>> : u \in Task \ {t}}
  <2>2. newer \in SUBSET (Task \X Task)
    OBVIOUS
  <2>3. \A u, v \in Task : <<u, v>> \in newer <=> (u # t /\ (v = t \/ <<u, v>> \in older))
    <3> SUFFICES ASSUME NEW u \in Task, NEW v \in Task
                 PROVE  <<u, v>> \in newer <=> (u # t /\ (v = t \/ <<u, v>> \in older))
      OBVIOUS
    <3>1. CASE v = t
      BY <3>1
    <3>2. CASE v # t
      BY <3>2
    <3> QED
      BY <3>1, <3>2
  <2> HIDE DEF newer
  <2>4. Antisymmetric(newer)
    BY <2>1, <2>3 DEF Ordered, Antisymmetric
  <2>5. MarksTop(newer)'
    <3> SUFFICES ASSUME NEW r \in Relation, NEW v \in Task, NEW u \in Task,
                        marks[r] = v, Stands(v)', Settled(u)', u # v, r \in On(u)'
                 PROVE  <<u, v>> \in newer
      BY <1>2 DEF MarksTop
    <3>1. CASE v = t
      BY <2>3, <3>1
    <3>2. CASE v # t /\ u # t
      BY <1>2, <1>10, <2>1, <2>3, <3>2 DEF Ordered, MarksTop, On
    <3>3. CASE v # t /\ u = t
      BY <1>2, <1>11, <3>3 DEF On
    <3> QED
      BY <3>1, <3>2, <3>3
  <2>6. PrevsBelow(newer)'
    <3> SUFFICES ASSUME NEW v \in Task, NEW u \in Task, Stands(v)', Settled(u)', <<u, v>> \in newer
                 PROVE  /\ task'[v].plan.before \cap On(u)' = {}
                        /\ \A m \in task'[v].plan.prev : m[1] \in On(u)' =>
                              /\ m[2] # None
                              /\ Stands(m[2])' /\ <<m[2], v>> \in newer /\ u # m[2] => <<u, m[2]>> \in newer
      BY DEF PrevsBelow
    <3>1. u # t /\ Settled(u)
      BY <1>10, <2>3
    <3>2. CASE v = t
      <4>1. task'[v].plan.before \cap On(u)' = {}
        BY <1>2, <1>5, <1>11, <1>12, <3>1, <3>2 DEF On
      <4>2. ASSUME NEW m \in task'[v].plan.prev, m[1] \in On(u)'
            PROVE  /\ m[2] # None
                   /\ Stands(m[2])' /\ <<m[2], v>> \in newer /\ u # m[2] => <<u, m[2]>> \in newer
        <5>1. m \in p.prev
          BY <1>5, <1>12, <3>2, <4>2
        <5>2. m[2] # None
          BY <1>2, <1>11, <3>1, <4>2, <5>1 DEF On
        <5>3. m[2] \in Task
          BY <5>1, <5>2, Names DEF p, IInv, Typed, ProcRow, Prev
        <5>4. ASSUME Stands(m[2])', <<m[2], v>> \in newer, u # m[2]
              PROVE  <<u, m[2]>> \in newer
          <6>1. m[2] # t /\ Stands(m[2])
            BY <1>10, <2>3, <5>3, <5>4
          <6>2. LoopIn(Marked)
            BY <1>2 DEF LoopIn, Marked
          <6>3. <<u, m[2]>> \in older
            BY <1>2, <2>1, <3>1, <4>2, <5>1, <5>2, <5>4, <6>1, <6>2 DEF Ordered, LoopBelow, p, On
          <6> QED
            BY <2>3, <3>1, <5>3, <6>3
        <5> QED
          BY <5>2, <5>4
      <4> QED
        BY <4>1, <4>2
    <3>3. CASE v # t
      <4>1. Stands(v) /\ task'[v] = task[v] /\ <<u, v>> \in older
        BY <1>10, <2>3, <3>3
      <4>2. \A m \in task[v].plan.prev : m[2] # None => m[2] \in Task
        BY DEF IInv, Typed, TaskRow, PlanType
      <4>3. task[v].plan.before \cap On(u)' = {}
        BY <1>2, <2>1, <3>1, <4>1 DEF Ordered, PrevsBelow, On
      <4>4. ASSUME NEW m \in task[v].plan.prev, m[1] \in On(u)'
            PROVE  /\ m[2] # None
                   /\ Stands(m[2])' /\ <<m[2], v>> \in newer /\ u # m[2] => <<u, m[2]>> \in newer
        <5>1. /\ m[2] # None
              /\ Stands(m[2]) /\ <<m[2], v>> \in older /\ u # m[2] => <<u, m[2]>> \in older
          BY <1>2, <2>1, <3>1, <4>1, <4>4 DEF Ordered, PrevsBelow, On
        <5> QED
          BY <1>10, <2>3, <3>1, <3>3, <4>2, <4>4, <5>1
      <4> QED
        BY <4>1, <4>3, <4>4
    <3> QED
      BY <3>2, <3>3
  <2>7. LoopBelow(newer)'
    BY <1>8 DEF LoopBelow
  <2>8. UndoTop(newer)'
    <3> SUFFICES ASSUME NEW a \in Admin, NEW u \in Task, Busy(a)', Stands(u)', u # Mine(a)', Meet(u, Mine(a))'
                 PROVE  Settled(u)' /\ <<u, Mine(a)'>> \in newer
      BY DEF UndoTop
    <3>1. Busy(a) /\ Mine(a)' = Mine(a) /\ Mine(a) # t /\ Mine(a) \in Task
      BY <1>8, Names DEF IInv, RolesKept
    <3>2. u # t
      <4>1. ~Meet(Mine(Loop), Mine(a))
        BY <1>1, <3>1, Names DEF IInv, Apart
      <4> QED
        BY <1>1, <1>2, <3>1, <4>1 DEF Meet, On
    <3> QED
      BY <1>2, <1>10, <2>1, <2>3, <3>1, <3>2 DEF Ordered, UndoTop, Meet, On
  <2>9. PrevsStand(newer)'
    <3> SUFFICES ASSUME NEW v \in Task, Stands(v)', NEW m \in task'[v].plan.prev, Smooth(m[1])', m[2] # None
                 PROVE  (Stands(m[2])' /\ <<m[2], v>> \in newer) \/ Abandoned(m[2])'
      BY DEF PrevsStand
    <3>1. m[1] \in Relation /\ m[2] \in Task
      BY <1>7 DEF Typed, TaskRow, PlanType
    <3>2. Smooth(m[1])
      BY <1>6, <3>1, SmoothBefore DEF IInv
    <3>3. CASE v = t
      <4>1. m \in p.prev
        BY <1>5, <1>12, <3>3
      <4>2. Stands(m[2]) \/ Abandoned(m[2])
        BY <1>2, <3>2, <4>1 DEF IInv, LoopPrevs, LoopIn, Marked, p
      <4>3. m[2] # t
        BY <1>8, <4>2
      <4> QED
        BY <1>10, <2>3, <3>1, <3>3, <4>2, <4>3
    <3>4. CASE v # t
      <4>1. Stands(v) /\ m \in task[v].plan.prev
        BY <1>10, <3>4
      <4>2. (Stands(m[2]) /\ <<m[2], v>> \in older) \/ Abandoned(m[2])
        BY <2>1, <3>2, <4>1 DEF Ordered, PrevsStand
      <4>3. m[2] # t
        BY <1>8, <4>2
      <4> QED
        BY <1>10, <2>3, <3>1, <3>4, <4>2, <4>3
    <3> QED
      BY <3>3, <3>4
  <2> QED
    BY <2>2, <2>4, <2>5, <2>6, <2>7, <2>8, <2>9 DEF Ordering, Ordered, Antisymmetric
<1>17. MarksStand'
  <2>1. MarkStands(t)'
    BY <1>9 DEF MarkStands
  <2> QED
    BY <1>2, <1>6, <1>7, <2>1, MarksStandKept DEF IInv, Typed
<1>18. HeldDown'
  <2>1. \A r \in Targets[t] : Holds(t, r) => Holds(t, r)'
    BY <1>5, <1>8, <1>9, <1>12 DEF Holds, p
  <2> QED
    BY <1>2, <1>6, <2>1, HeldKept DEF IInv
<1>19. TracesKept'
  <2>1. ASSUME task[t].attempts <= 1 PROVE TraceKept(t)'
    <3>1. (p.existed <=> task[t].known) /\ (p.kind # "correct" => Blank(t))
      BY <1>2, <1>4, <2>1 DEF IInv, TracesKept, TraceKept, LoopIn, After, Marked, LoopPhase, p
    <3>2. (task'[t].plan.existed <=> task'[t].known) /\ (task'[t].plan.kind # "correct" => Blank(t)')
      BY <1>2, <1>5, <1>12, <3>1 DEF Blank
    <3> QED
      BY <1>5, <1>8, <3>2 DEF TraceKept, None
  <2> QED
    BY <1>5, <1>6, <2>1, TracesStep DEF IInv
<1>20. AskedFor'
  <2>1. \A r \in Targets[t] : Agree(r)'
    BY <1>2, <1>11 DEF Agree
  <2> QED
    BY <1>6, <2>1, AskedKept DEF IInv
<1> QED
  BY <1>7, <1>8, <1>13, <1>14, <1>15, <1>16, <1>17, <1>18, <1>19, <1>20 DEF IInv
(* Steps of tasks that nobody works on. *)

\* Nobody works on a task that neither runs nor is being rolled back.
LEMMA NotServed ==
    ASSUME Typed, RolesKept, NEW t \in Task, task[t].status # "running",
           task[t].rollback = "running" => task[t].lapsed
    PROVE  \A a \in Actor : Mine(a) # t
<1> SUFFICES ASSUME NEW a \in Actor, Mine(a) = t PROVE FALSE
  OBVIOUS
<1>1. Busy(a)
  BY Names DEF RolesKept, Mine, Idle
<1>2. CASE a = Loop
  BY <1>1, <1>2 DEF RolesKept
<1>3. CASE a \in Admin
  BY <1>1, <1>3 DEF RolesKept
<1> QED
  BY <1>2, <1>3, Names

\* Only the row of a task that nobody works on changes.
LEMMA RowStep ==
    ASSUME IInv, NEW t \in Task, \A a \in Actor : Mine(a) # t,
           task' \in [Task -> TaskRow], UNCHANGED <<active, marks, stored, fix, asked, proc, tangled, crashes>>,
           \A u \in Task : u # t => task'[u] = task[u],
           task'[t].rollback = task[t].rollback, task'[t].plan = task[t].plan, task'[t].known = task[t].known,
           task'[t].attempts = task[t].attempts, task'[t].last_error = task[t].last_error,
           task'[t].status = task[t].status \/ (task[t].status = None /\ task'[t].status = "pending")
    PROVE  IInv'
<1>1. Typed'
  BY DEF IInv, Typed
<1>2. StepOf(t)
  BY DEF StepOf, OnlyOf, IInv, Typed, TaskRow, None
<1>3. /\ \A ph : LoopIn(ph)' <=> LoopIn(ph)
      /\ \A a \in Actor : (Busy(a)' <=> Busy(a)) /\ Mine(a)' = Mine(a) /\ proc'[a] = proc[a]
      /\ ~LoopOn(t) /\ ~LoopOn(t)'
  BY Names DEF LoopIn, Busy, Mine, LoopOn
<1>4. /\ Stands(t)' <=> Stands(t)
      /\ Settled(t)' <=> Settled(t)
      /\ Abandoned(t)' <=> Abandoned(t)
  BY <1>3 DEF Stands, Settled, Abandoned, None
<1>5. Steady
  BY <1>2, <1>4, SteadyStep DEF IInv
<1>6. RolesKept'
  <2>1. task'[t].rollback # None => task'[t].status = "applied"
    BY DEF IInv, RolesKept, None
  <2>2. task'[t].status = "running" => task'[t].attempts > 0
    BY DEF IInv, RolesKept
  <2> QED
    BY <1>3, <2>1, <2>2, Names DEF IInv, RolesKept
<1>7. Apart'
  BY <1>3, ApartKept DEF IInv
<1>8. MarksOwned'
  BY DEF IInv, MarksOwned
<1>9. PlansKept'
  BY <1>2, <1>4, PlansKeptKept DEF IInv
<1>10. SettledForgot'
  BY <1>2, <1>4, SettledKept DEF IInv, Quiet
<1>11. LoopKnows'
  <2>1. \A u \in Task : (Settled(u)' => Settled(u)) /\ (Stands(u)' => Stands(u) /\ task'[u].plan = task[u].plan)
    BY <1>5 DEF Steady, Calm
  <2>2. Busy(Loop) => task'[Mine(Loop)] = task[Mine(Loop)] /\ Targets[Mine(Loop)] \subseteq Relation
    BY Names, TargetsAssumption DEF IInv, RolesKept
  <2> QED
    BY <1>3, <2>1, <2>2, Names, LoopKnowsKept DEF IInv
<1>12. Ordering'
  BY <1>3, <1>5, Names, OrderingKept DEF IInv
<1>13. LoopPrevs'
  BY <1>3, <1>5, LoopPrevsKept DEF IInv, Steady
<1>14. MarksStand'
  <2>1. MarkStands(t) => MarkStands(t)'
    BY <1>3, <1>4 DEF MarkStands
  <2> QED
    BY <1>1, <1>2, <2>1, MarksStandKept DEF IInv, Typed
<1>15. UndosKept'
  <2> SUFFICES ASSUME NEW a \in Admin PROVE UndoKept(a)'
    BY DEF UndosKept
  <2>1. \A r \in Relation : Smooth(r)' => Smooth(r)
    BY <1>5 DEF Steady, Calm
  <2>2. ASSUME Busy(a)
        PROVE  /\ task'[Mine(a)].plan = task[Mine(a)].plan
               /\ Targets[Mine(a)] \subseteq Relation
    <3>1. Mine(a) \in Task /\ Mine(a) # t
      BY <2>2, Names DEF IInv, RolesKept
    <3> QED
      BY <3>1, TargetsAssumption
  <2> QED
    BY <1>3, <2>1, <2>2, Names, UndoKeptKept DEF IInv, UndosKept
<1>16. HeldDown'
  <2>1. \A r \in Targets[t] : Holds(t, r) => Holds(t, r)'
    BY <1>3, <1>4 DEF Holds
  <2> QED
    BY <1>2, <2>1, HeldKept DEF IInv
<1>17. TracesKept'
  <2>1. ASSUME task[t].attempts <= 1 PROVE TraceKept(t)'
    <3>1. TraceKept(t)
      BY <2>1 DEF IInv, TracesKept
    <3>2. Blank(t)' <=> Blank(t)
      BY DEF Blank
    <3>3. \A a \in Admin : Mine(a)' # t
      BY <1>3, Names
    <3> QED
      BY <1>3, <1>4, <3>1, <3>2, <3>3 DEF TraceKept, None
  <2> QED
    BY <1>2, <2>1, TracesStep DEF IInv
<1>18. AskedFor'
  <2>1. Asking(t)' <=> Asking(t)
    BY <1>3, <1>4 DEF Asking
  <2>2. \A r \in Targets[t] : Agree(r) => Agree(r)'
    BY DEF Agree
  <2> QED
    BY <1>2, <2>1, <2>2, AskedKept DEF IInv
<1> QED
  BY <1>1, <1>6, <1>7, <1>8, <1>9, <1>10, <1>11, <1>12, <1>13, <1>14, <1>15, <1>16, <1>17, <1>18 DEF IInv

\* A new row.
LEMMA EnqueueKeeps == ASSUME IInv, NEW t \in Task, Enqueue(t) PROVE IInv'
<1>1. task[t].status = None /\ task[t].rollback = None
  BY DEF Enqueue, IInv, RolesKept, None
<1>2. \A a \in Actor : Mine(a) # t
  BY <1>1, NotServed DEF IInv, None
<1>3. task' \in [Task -> TaskRow]
  BY DEF Enqueue, IInv, Typed, TaskRow
<1>4. /\ UNCHANGED <<active, marks, stored, fix, asked, proc, tangled, crashes>>
      /\ \A u \in Task : u # t => task'[u] = task[u]
      /\ task'[t].rollback = task[t].rollback /\ task'[t].plan = task[t].plan /\ task'[t].known = task[t].known
      /\ task'[t].attempts = task[t].attempts /\ task'[t].last_error = task[t].last_error
      /\ task'[t].status = "pending"
  BY DEF Enqueue, IInv, Typed, TaskRow
<1> QED
  BY <1>1, <1>2, <1>3, <1>4, RowStep

\* A lease ends, of a task that nobody works on.
LEMMA LapseKeeps == ASSUME "slow" \notin Faults, IInv, NEW t \in Task, Lapse(t) PROVE IInv'
<1>1. \A a \in Actor : Mine(a) # t
  BY DEF Lapse, Served, Mine
<1>2. task' \in [Task -> TaskRow]
  <2>1. task' = [task EXCEPT ![t].lapsed = TRUE]
    BY DEF Lapse
  <2> DEFINE x == [task[t] EXCEPT !.lapsed = TRUE]
  <2>2. task[t] \in TaskRow
    BY DEF IInv, Typed
  <2>3. x \in TaskRow
    BY <2>2 DEF TaskRow
  <2> HIDE DEF x
  <2>4. task' = [task EXCEPT ![t] = x]
    BY <2>1 DEF x
  <2> QED
    BY <2>3, <2>4 DEF IInv, Typed
<1>3. /\ UNCHANGED <<active, marks, stored, fix, asked, proc, tangled, crashes>>
      /\ \A u \in Task : u # t => task'[u] = task[u]
      /\ task'[t].rollback = task[t].rollback /\ task'[t].plan = task[t].plan /\ task'[t].known = task[t].known
      /\ task'[t].attempts = task[t].attempts /\ task'[t].last_error = task[t].last_error
      /\ task'[t].status = task[t].status
  BY DEF Lapse, IInv, Typed, TaskRow
<1> QED
  BY <1>1, <1>2, <1>3, RowStep

\* A claim of an abandoned task is its second: its relations are no longer smooth.
LEMMA ClaimKeeps == ASSUME IInv, NEW t \in Task, Claim(t) PROVE IInv'
<1>1. /\ proc[Loop] = Idle /\ ~Busy(Loop)
      /\ task[t].status \in {"pending", "running"}
      /\ proc' = [proc EXCEPT ![Loop] = [Idle EXCEPT !.task = t, !.phase = "classify"]]
      /\ task' = [task EXCEPT ![t].status = "running", ![t].lapsed = FALSE, ![t].attempts = @ + 1]
      /\ UNCHANGED <<active, marks, stored, fix, asked, crashes>>
      /\ tangled' = tangled \cup Contested(t)
  BY Names DEF Claim, At, Due, IInv, RolesKept, Busy
<1>2. task[t].rollback = None /\ task[t].attempts \in Nat /\ ~Stands(t) /\ ~Settled(t) /\ ~LoopOn(t)
  BY <1>1 DEF IInv, RolesKept, Typed, TaskRow, Stands, Settled, LoopOn
<1>3. /\ task' \in [Task -> TaskRow]
      /\ task'[t].status = "running" /\ task'[t].rollback = None /\ task'[t].attempts = task[t].attempts + 1
      /\ task'[t].known = task[t].known
      /\ \A u \in Task : u # t => task'[u] = task[u]
  BY <1>1, <1>2 DEF IInv, Typed, TaskRow
<1>4. /\ proc' \in [Actor -> ProcRow] /\ proc'[Loop].task = t /\ proc'[Loop].phase = "classify"
      /\ \A a \in Admin : proc'[a] = proc[a]
  <2>1. [Idle EXCEPT !.task = t, !.phase = "classify"] \in ProcRow
    BY IdleTyped DEF ProcRow, LoopPhase
  <2>2. [Idle EXCEPT !.task = t, !.phase = "classify"].task = t
    BY DEF Idle
  <2>3. [Idle EXCEPT !.task = t, !.phase = "classify"].phase = "classify"
    BY DEF Idle
  <2> QED
    BY <1>1, <2>1, <2>2, <2>3, Names DEF IInv, Typed
<1>5. Typed'
  BY <1>1, <1>3, <1>4, TargetsAssumption DEF IInv, Typed, Contested
<1>6. /\ Busy(Loop)' /\ Mine(Loop)' = t /\ LoopOn(t)' /\ LoopIn({"classify"})'
      /\ ~LoopIn(After)' /\ ~LoopIn(Marked)' /\ ~LoopIn({"mark"} \cup Marked)'
      /\ ~LoopIn({"plan", "final"})' /\ ~LoopIn({"ingest", "relate", "compensate"})' /\ ~LoopIn({"final"})'
      /\ \A a \in Admin : (Busy(a)' <=> Busy(a)) /\ Mine(a)' = Mine(a)
  BY <1>4 DEF Busy, Mine, LoopOn, LoopIn, After, Marked
<1>7. StepOf(t)
  <2>1. \A b \in Actor : proc'[b] = proc[b] \/ {proc[b].task, proc'[b].task} \subseteq {t, None}
    BY <1>1, <1>4, Names DEF Idle
  <2> QED
    BY <1>1, <1>2, <1>3, <2>1 DEF StepOf, OnlyOf
<1>8. ~Stands(t)' /\ ~Settled(t)' /\ ~Abandoned(t)'
  BY <1>3, <1>6 DEF Stands, Settled, Abandoned
<1>9. task[t].status = "running" => task'[t].attempts > 1
  BY <1>2, <1>3 DEF IInv, RolesKept
<1>10. Steady
  <2>1. \A r \in Targets[t] : ~(Smooth(r)' /\ Abandoned(t))
    BY <1>2, <1>3, <1>9 DEF Smooth, Abandoned
  <2> QED
    BY <1>2, <1>7, <1>8, <2>1, SteadyStep DEF IInv
<1>11. \A a \in Admin : Busy(a) => Mine(a) # t /\ Mine(a) \in Task
  BY <1>2, Names DEF IInv, RolesKept, None
<1>12. RolesKept'
  <2>1. \A a \in Admin : Busy(a)' =>
          /\ proc'[a].phase \in AdminPhase
          /\ task'[Mine(a)'].rollback = "running" /\ ~task'[Mine(a)'].lapsed
    BY <1>3, <1>4, <1>6, <1>11 DEF IInv, RolesKept
  <2>2. \A a \in Actor : (~Busy(a)' => proc'[a] = Idle) /\ (Busy(a)' => Mine(a)' \in Task)
    BY <1>4, <1>6, <1>11, Names DEF IInv, RolesKept
  <2>3. \A u \in Task : task'[u].rollback # None => task'[u].status = "applied"
    BY <1>3 DEF IInv, RolesKept
  <2>4. \A u \in Task : task'[u].status = "running" => task'[u].attempts > 0
    BY <1>2, <1>3 DEF IInv, RolesKept
  <2>5. LoopIn(LoopPhase)' /\ task'[t].status = "running"
    BY <1>3, <1>6 DEF LoopIn, LoopPhase
  <2> QED
    BY <1>6, <2>1, <2>2, <2>3, <2>4, <2>5 DEF RolesKept
<1>13. Apart'
  <2>1. ASSUME NEW a \in Admin, Busy(a) PROVE Mine(a) # t /\ ~Meet(t, Mine(a))' /\ ~Meet(Mine(a), t)'
    <3>1. Mine(a) \in Task \ {t} /\ Served(Mine(a))
      BY <1>11, <2>1, Names DEF Served, Mine
    <3>2. Targets[t] \cap Targets[Mine(a)] \subseteq tangled'
      BY <1>1, <3>1 DEF Contested
    <3>3. Mine(a)' = Mine(a)
      BY <1>6, <2>1
    <3> QED
      BY <3>1, <3>2, <3>3 DEF Meet, On
  <2>2. \A a \in Admin : Busy(a)' => Busy(a) /\ Mine(a)' = Mine(a)
    BY <1>6
  <2> SUFFICES ASSUME NEW a \in Actor, NEW b \in Actor, a # b, Busy(a)', Busy(b)'
               PROVE  Mine(a)' # Mine(b)' /\ ~Meet(Mine(a), Mine(b))'
    BY DEF Apart
  <2>3. CASE a = Loop
    BY <1>6, <2>1, <2>2, <2>3, Names DEF Meet, On
  <2>4. CASE b = Loop
    BY <1>6, <2>1, <2>2, <2>4, Names DEF Meet, On
  <2>5. CASE a # Loop /\ b # Loop
    <3>1. Mine(a) # Mine(b) /\ ~Meet(Mine(a), Mine(b)) /\ Mine(a)' = Mine(a) /\ Mine(b)' = Mine(b)
      BY <2>2, <2>5, Names DEF IInv, Apart
    <3> QED
      BY <1>1, <3>1 DEF Meet, On
  <2> QED
    BY <2>3, <2>4, <2>5
<1>14. MarksOwned'
  BY <1>1 DEF IInv, MarksOwned
<1>15. PlansKept'
  BY <1>1, <1>7, <1>8, PlansKeptKept DEF IInv
<1>16. SettledForgot'
  BY <1>1, <1>7, <1>8, SettledKept DEF IInv
<1>17. LoopKnows' /\ LoopPrevs'
  BY <1>6 DEF LoopKnows, LoopPrevs
<1>18. Ordering'
  BY <1>1, <1>6, <1>10, OrderingKept DEF IInv
<1>19. \A r \in Targets[t] : Smooth(r)' => task[t].status = "pending"
  BY <1>1, <1>2, <1>3, <1>9 DEF Smooth
<1>20. MarksStand'
  <2>1. \A r \in Targets[t] : Smooth(r)' => ~MarkStands(t)
    BY <1>2, <1>19 DEF MarkStands, Abandoned
  <2> QED
    BY <1>1, <1>5, <1>7, <2>1, MarksStandKept DEF IInv, Typed
<1>21. UndosKept'
  <2> SUFFICES ASSUME NEW a \in Admin PROVE UndoKept(a)'
    BY DEF UndosKept
  <2>1. \A r \in Relation : Smooth(r)' => Smooth(r)
    BY <1>10 DEF Steady, Calm
  <2>2. ASSUME Busy(a)
        PROVE  /\ task'[Mine(a)].plan = task[Mine(a)].plan
               /\ Targets[Mine(a)] \subseteq Relation
    <3>1. Mine(a) \in Task /\ Mine(a) # t
      BY <1>11, <2>2, Names DEF IInv, RolesKept
    <3> QED
      BY <1>3, <3>1, TargetsAssumption
  <2> QED
    BY <1>1, <1>4, <2>1, <2>2, UndoKeptKept DEF IInv, UndosKept
<1>22. HeldDown'
  <2>1. \A r \in Targets[t] : Smooth(r)' => ~Holds(t, r)
    BY <1>2, <1>19 DEF Holds, Abandoned
  <2> QED
    BY <1>1, <1>7, <2>1, HeldKept DEF IInv
<1>23. TracesKept'
  <2>1. ASSUME task'[t].attempts <= 1 PROVE TraceKept(t)'
    <3>1. task[t].status = "pending" /\ task[t].attempts <= 1
      BY <1>1, <1>2, <1>3, <1>9, <2>1
    <3>2. Blank(t)
      BY <3>1 DEF IInv, TracesKept, TraceKept
    <3>3. Blank(t)'
      BY <1>1, <1>3, <3>2 DEF Blank
    <3>4. \A a \in Admin : Mine(a)' # t
      BY <1>6, <1>11, Names DEF IInv, RolesKept, Mine, Idle
    <3> QED
      BY <1>3, <1>6, <3>3, <3>4, LoopTrace
  <2> QED
    BY <1>7, <2>1, TracesStep DEF IInv
<1>24. AskedFor'
  <2>1. \A r \in Targets[t] : Undisturbed(r)' => task[t].status = "pending"
    BY <1>1, <1>2, <1>3, <1>9 DEF Undisturbed
  <2>2. task[t].status = "pending" => ~Asking(t)
    BY <1>2 DEF Asking, Abandoned, None
  <2>3. \A r \in Targets[t] : Agree(r) => Agree(r)'
    BY <1>1 DEF Agree
  <2> QED
    BY <1>2, <1>7, <2>1, <2>2, <2>3, AskedKept DEF IInv, None
<1> QED
  BY <1>5, <1>12, <1>13, <1>14, <1>15, <1>16, <1>17, <1>18, <1>20, <1>21, <1>22, <1>23, <1>24 DEF IInv

\* Whoever was at work leaves a task abandoned or a rollback running.
LEMMA CrashKeeps == ASSUME IInv, Crash PROVE IInv'
<1>1. proc' = [a \in Actor |-> Idle] /\ crashes' = crashes + 1 /\ UNCHANGED <<task, active, marks, stored, fix, asked, tangled>>
  BY DEF Crash
<1>2. /\ \A a \in Actor : proc'[a] = Idle /\ ~Busy(a)' /\ Mine(a)' = None
      /\ \A ph : LoopIn(ph)' <=> "idle" \in ph
      /\ \A t \in Task : ~LoopOn(t)'
  BY <1>1, Names DEF Busy, Mine, LoopIn, LoopOn, Idle
<1>3. Typed'
  BY <1>1, IdleTyped DEF IInv, Typed
<1>4. ~LoopIn(Marked)' /\ ~LoopIn(After)' /\ ~LoopIn({"plan", "final"})' /\ ~LoopIn({"final"})'
      /\ ~LoopIn({"mark"} \cup Marked)' /\ ~LoopIn({"ingest", "relate", "compensate"})'
  BY <1>2 DEF Marked, After, LoopPhase
<1>5. \A t \in Task : /\ (Stands(t)' <=> Stands(t)) /\ (Settled(t)' <=> Settled(t))
                      /\ LoopOn(t) => Abandoned(t)'
                      /\ Abandoned(t) => Abandoned(t)'
  BY <1>1, <1>2, Names DEF Stands, Settled, Abandoned, LoopOn, IInv, RolesKept
<1>6. \A r \in Relation : Smooth(r)' <=> Smooth(r)
  BY <1>1 DEF Smooth
<1>7. Steady
  BY <1>1, <1>5, <1>6 DEF Steady, Calm
<1>8. RolesKept'
  BY <1>1, <1>2, Names DEF IInv, RolesKept
<1>9. Apart' /\ LoopKnows' /\ LoopPrevs'
  BY <1>2, <1>4 DEF Apart, LoopKnows, LoopPrevs
<1>10. MarksOwned' /\ SettledForgot' /\ PlansKept'
  BY <1>1, <1>5 DEF IInv, MarksOwned, SettledForgot, PlansKept, PlanKept, On
<1>11. Ordering'
  BY <1>1, <1>2, <1>4, <1>7, Names, OrderingKept DEF IInv
<1>12. MarksStand'
  <2>1. \A t \in Task : MarkStands(t) => MarkStands(t)'
    BY <1>5 DEF MarkStands
  <2>2. \A r \in Relation : marks[r] # None => marks[r] \in Task
    BY DEF IInv, Typed
  <2> QED
    BY <1>1, <1>6, <2>1, <2>2 DEF IInv, MarksStand
<1>13. UndosKept'
  BY <1>2, Names DEF UndosKept, UndoKept, AdminPhase, Idle
<1>14. HeldDown'
  <2>1. \A t \in Task, r \in Relation : Holds(t, r) => Holds(t, r)'
    BY <1>1, <1>5 DEF Holds
  <2> QED
    BY <1>1, <1>6, <2>1 DEF IInv, HeldDown
<1>15. TracesKept'
  <2> SUFFICES ASSUME NEW t \in Task, task[t].attempts <= 1 PROVE TraceKept(t)'
    BY <1>1 DEF TracesKept
  <2>1. TraceKept(t) /\ (Blank(t)' <=> Blank(t))
    BY <1>1 DEF IInv, TracesKept, Blank
  <2>2. \A a \in Admin : Mine(a)' # t
    BY <1>2, Names
  <2> QED
    BY <1>1, <1>2, <1>5, <2>1, <2>2 DEF TraceKept
<1>16. AskedFor'
  <2>1. \A t \in Task : Asking(t) => Asking(t)'
    BY <1>1, <1>5 DEF Asking
  <2>2. \A r \in Relation : (Undisturbed(r)' <=> Undisturbed(r)) /\ (Agree(r)' <=> Agree(r))
    BY <1>1 DEF Undisturbed, Agree
  <2> QED
    BY <2>1, <2>2 DEF IInv, AskedFor
<1> QED
  BY <1>3, <1>8, <1>9, <1>10, <1>11, <1>12, <1>13, <1>14, <1>15, <1>16 DEF IInv

\* Every other task in effect on the relations of t is older, but where the rollback tangles them.
LEMMA StartRollbackKeeps == ASSUME IInv, NEW a \in Admin, NEW t \in Task, StartRollback(a, t) PROVE IInv'
<1>1. /\ proc[a] = Idle /\ ~Busy(a) /\ MayRollBack(t) /\ a # Loop
      /\ proc' = [proc EXCEPT ![a] = [Idle EXCEPT !.task = t, !.phase = "restore"]]
      /\ task' = [task EXCEPT ![t].rollback = "running", ![t].lapsed = FALSE]
      /\ UNCHANGED <<active, marks, stored, fix, asked, crashes>>
      /\ tangled' = tangled \cup OutOfTurn(t)
  BY Names DEF StartRollback, At, IInv, RolesKept, Busy
<1>2. task[t].status = "applied" /\ task[t].rollback # "rolled_back" /\ Stands(t)
      /\ \A b \in Actor : Mine(b) # t
  <2>1. task[t].status = "applied" /\ task[t].rollback # "rolled_back" /\ (task[t].rollback = "running" => task[t].lapsed)
    BY <1>1 DEF MayRollBack, None
  <2> QED
    BY <2>1, NotServed DEF IInv, Stands
<1>3. /\ task' \in [Task -> TaskRow]
      /\ task'[t].status = "applied" /\ task'[t].rollback = "running" /\ ~task'[t].lapsed
      /\ task'[t].plan = task[t].plan /\ task'[t].known = task[t].known /\ task'[t].attempts = task[t].attempts
      /\ \A u \in Task : u # t => task'[u] = task[u]
  <2> DEFINE x == [task[t] EXCEPT !.rollback = "running", !.lapsed = FALSE]
  <2>1. task[t] \in TaskRow
    BY DEF IInv, Typed
  <2>2. /\ x \in TaskRow /\ x.status = "applied" /\ x.rollback = "running" /\ x.lapsed = FALSE
        /\ x.plan = task[t].plan /\ x.known = task[t].known /\ x.attempts = task[t].attempts
    BY <1>2, <2>1 DEF TaskRow
  <2> HIDE DEF x
  <2>3. task' = [task EXCEPT ![t] = x]
    BY <1>1 DEF x
  <2> QED
    BY <2>2, <2>3 DEF IInv, Typed
<1>4. /\ proc' \in [Actor -> ProcRow] /\ proc'[a].task = t /\ proc'[a].phase = "restore"
      /\ \A b \in Actor : b # a => proc'[b] = proc[b]
  <2>1. [Idle EXCEPT !.task = t, !.phase = "restore"] \in ProcRow
    BY IdleTyped DEF ProcRow, AdminPhase
  <2>2. [Idle EXCEPT !.task = t, !.phase = "restore"].task = t
    BY DEF Idle
  <2>3. [Idle EXCEPT !.task = t, !.phase = "restore"].phase = "restore"
    BY DEF Idle
  <2> QED
    BY <1>1, <2>1, <2>2, <2>3, Names DEF IInv, Typed
<1>5. Typed'
  BY <1>1, <1>3, <1>4, TargetsAssumption DEF IInv, Typed, OutOfTurn
<1>6. /\ Busy(a)' /\ Mine(a)' = t /\ proc'[Loop] = proc[Loop]
      /\ \A b \in Actor : b # a => (Busy(b)' <=> Busy(b)) /\ Mine(b)' = Mine(b)
      /\ \A ph : LoopIn(ph)' <=> LoopIn(ph)
  BY <1>1, <1>4, Names DEF Busy, Mine, LoopIn
<1>7. StepOf(t)
  <2>1. \A b \in Actor : proc'[b] = proc[b] \/ {proc[b].task, proc'[b].task} \subseteq {t, None}
    BY <1>1, <1>4 DEF Idle
  <2>2. task[t].attempts \in Nat
    BY DEF IInv, Typed, TaskRow
  <2> QED
    BY <1>1, <1>2, <1>3, <2>1, <2>2 DEF StepOf, OnlyOf
<1>8. Stands(t)' /\ ~Settled(t)' /\ ~Abandoned(t) /\ ~LoopOn(t) /\ ~LoopOn(t)'
  BY <1>2, <1>3, <1>6, Names DEF Stands, Settled, Abandoned, LoopOn, None
<1>9. Calm
  BY <1>2, <1>3, <1>7, <1>8, CalmStep DEF IInv
<1>10. \A u \in Task : \A r \in Targets[t] \cap Targets[u] : u # t /\ r \notin tangled' =>
          /\ task[u].status # "running" /\ task[u].rollback \notin {"running", "error"}
          /\ Settled(u) => marks[r] = t
  BY <1>1 DEF OutOfTurn, Settled
<1>11. RolesKept'
  <2>1. \A b \in Admin : Busy(b)' =>
          /\ proc'[b].phase \in AdminPhase
          /\ task'[Mine(b)'].rollback = "running" /\ ~task'[Mine(b)'].lapsed
    <3> SUFFICES ASSUME NEW b \in Admin, Busy(b)'
                 PROVE  /\ proc'[b].phase \in AdminPhase
                        /\ task'[Mine(b)'].rollback = "running" /\ ~task'[Mine(b)'].lapsed
      OBVIOUS
    <3>1. CASE b = a
      BY <1>3, <1>4, <1>6, <3>1 DEF AdminPhase
    <3>2. CASE b # a
      BY <1>2, <1>3, <1>4, <1>6, <3>2, Names DEF IInv, RolesKept
    <3> QED
      BY <3>1, <3>2
  <2>2. \A b \in Actor : (~Busy(b)' => proc'[b] = Idle) /\ (Busy(b)' => Mine(b)' \in Task)
    BY <1>4, <1>6, Names DEF IInv, RolesKept
  <2>3. \A u \in Task : task'[u].rollback # None => task'[u].status = "applied"
    BY <1>3 DEF IInv, RolesKept
  <2>4. \A u \in Task : task'[u].status = "running" => task'[u].attempts > 0
    BY <1>3 DEF IInv, RolesKept
  <2>5. Busy(Loop)' => LoopIn(LoopPhase)' /\ task'[Mine(Loop)'].status = "running"
    BY <1>1, <1>2, <1>3, <1>6, Names DEF IInv, RolesKept
  <2> QED
    BY <2>1, <2>2, <2>3, <2>4, <2>5 DEF RolesKept
<1>12. \A b \in Actor : Busy(b) => Mine(b) \in Task /\ Mine(b) # t /\ ~Meet(t, Mine(b))' /\ ~Meet(Mine(b), t)'
  <2> SUFFICES ASSUME NEW b \in Actor, Busy(b)
               PROVE  Mine(b) \in Task /\ Mine(b) # t /\ ~Meet(t, Mine(b))' /\ ~Meet(Mine(b), t)'
    OBVIOUS
  <2>1. Mine(b) \in Task /\ Mine(b) # t /\ (task[Mine(b)].status = "running" \/ task[Mine(b)].rollback = "running")
    BY <1>2, Names DEF IInv, RolesKept
  <2>2. Mine(b)' = Mine(b)
    BY <1>1, <1>6
  <2>3. Targets[t] \cap Targets[Mine(b)] \subseteq tangled'
    BY <1>10, <2>1
  <2> QED
    BY <2>1, <2>2, <2>3 DEF Meet, On
<1>13. Apart'
  <2> SUFFICES ASSUME NEW b \in Actor, NEW c \in Actor, b # c, Busy(b)', Busy(c)'
               PROVE  Mine(b)' # Mine(c)' /\ ~Meet(Mine(b), Mine(c))'
    BY DEF Apart
  <2>1. CASE b = a
    BY <1>6, <1>12, <2>1, Names DEF Meet, On
  <2>2. CASE c = a
    BY <1>6, <1>12, <2>2, Names DEF Meet, On
  <2>3. CASE b # a /\ c # a
    <3>1. Mine(b) # Mine(c) /\ ~Meet(Mine(b), Mine(c)) /\ Mine(b)' = Mine(b) /\ Mine(c)' = Mine(c)
      BY <1>6, <2>3 DEF IInv, Apart
    <3> QED
      BY <1>1, <3>1 DEF Meet, On
  <2> QED
    BY <2>1, <2>2, <2>3
<1>14. MarksOwned'
  BY <1>1 DEF IInv, MarksOwned
<1>15. PlansKept'
  BY <1>1, <1>2, <1>3, <1>7, PlansKeptKept DEF IInv
<1>16. SettledForgot'
  BY <1>1, <1>7, <1>8, SettledKept DEF IInv
<1>17. LoopKnows'
  <2>1. \A u \in Task : (Settled(u)' => Settled(u)) /\ (Stands(u)' => Stands(u) /\ task'[u].plan = task[u].plan)
    BY <1>9 DEF Calm
  <2>2. Busy(Loop) => task'[Mine(Loop)] = task[Mine(Loop)] /\ Targets[Mine(Loop)] \subseteq Relation
    BY <1>3, <1>12, Names, TargetsAssumption
  <2> QED
    BY <1>1, <1>6, <2>1, <2>2, LoopKnowsKept DEF IInv
<1>18. Ordering'
  <2>1. PICK older \in SUBSET (Task \X Task) : Ordered(older)
    BY DEF IInv, Ordering
  <2>2. MarksTop(older)'
    BY <1>1, <1>9, <2>1 DEF Calm, Ordered, MarksTop, On
  <2>3. UndoTop(older)'
    <3> SUFFICES ASSUME NEW b \in Admin, NEW u \in Task, Busy(b)', Stands(u)', u # Mine(b)', Meet(u, Mine(b))'
                 PROVE  Settled(u)' /\ <<u, Mine(b)'>> \in older
      BY DEF UndoTop
    <3>1. CASE b = a
      <4>1. PICK r \in Targets[t] \cap Targets[u] : r \notin tangled'
        BY <1>6, <3>1 DEF Meet, On
      <4>2. u # t /\ Stands(u) /\ r \in Relation /\ r \in On(u)
        BY <1>1, <1>6, <1>9, <3>1, <4>1, TargetsAssumption DEF Calm, On
      <4>3. task[u].rollback = None /\ task'[u] = task[u] /\ Settled(u)
        BY <1>3, <1>10, <4>1, <4>2 DEF IInv, Typed, TaskRow, Stands, Settled
      <4>4. <<u, t>> \in older
        BY <1>2, <1>10, <2>1, <4>1, <4>2, <4>3 DEF Ordered, MarksTop
      <4> QED
        BY <1>6, <3>1, <4>3, <4>4 DEF Settled
    <3>2. CASE b # a
      <4>1. Busy(b) /\ Mine(b)' = Mine(b) /\ Stands(u) /\ u # Mine(b)
        BY <1>6, <1>9, <3>2, Names DEF Calm
      <4>2. u # t /\ Meet(u, Mine(b))
        BY <1>1, <1>12, <4>1, Names DEF Meet, On
      <4>3. Settled(u) /\ <<u, Mine(b)>> \in older
        BY <2>1, <4>1, <4>2 DEF Ordered, UndoTop
      <4> QED
        BY <1>3, <4>1, <4>2, <4>3 DEF Settled
    <3> QED
      BY <3>1, <3>2
  <2> QED
    BY <1>6, <1>9, <2>1, <2>2, <2>3, OrderingCalm DEF IInv
<1>19. LoopPrevs'
  BY <1>6, <1>9, LoopPrevsKept DEF IInv
<1>20. MarksStand'
  <2>1. MarkStands(t)'
    BY <1>8 DEF MarkStands
  <2> QED
    BY <1>1, <1>5, <1>7, <2>1, MarksStandKept DEF IInv, Typed
<1>21. UndosKept'
  <2> SUFFICES ASSUME NEW b \in Admin PROVE UndoKept(b)'
    BY DEF UndosKept
  <2>1. CASE b = a
    BY <1>4, <2>1 DEF UndoKept
  <2>2. CASE b # a
    <3>1. \A r \in Relation : Smooth(r)' => Smooth(r)
      BY <1>9 DEF Calm
    <3>2. ASSUME Busy(b)
          PROVE  /\ task'[Mine(b)].plan = task[Mine(b)].plan
                 /\ Targets[Mine(b)] \subseteq Relation
      <4>1. Mine(b) \in Task /\ Mine(b) # t
        BY <1>12, <3>2, Names
      <4> QED
        BY <1>3, <4>1, TargetsAssumption
    <3> QED
      BY <1>1, <1>4, <2>2, <3>1, <3>2, Names, UndoKeptKept DEF IInv, UndosKept
  <2> QED
    BY <2>1, <2>2
<1>22. HeldDown'
  <2>1. \A r \in Targets[t] : Holds(t, r) => Holds(t, r)'
    BY <1>3, <1>8 DEF Holds
  <2> QED
    BY <1>1, <1>7, <2>1, HeldKept DEF IInv
<1>23. TracesKept'
  <2>1. ASSUME task'[t].attempts <= 1 PROVE TraceKept(t)'
    <3>1. TraceKept(t) /\ (Blank(t)' <=> Blank(t))
      BY <1>1, <1>3, <2>1 DEF IInv, TracesKept, Blank
    <3>2. \A b \in Admin : Mine(b)' = t => proc'[b].phase = "restore"
      BY <1>2, <1>4, <1>6, Names
    <3> QED
      BY <1>2, <1>3, <1>8, <3>1, <3>2 DEF TraceKept, None
  <2> QED
    BY <1>7, <2>1, TracesStep DEF IInv
<1>24. AskedFor'
  <2>1. Asking(t)'
    BY <1>3 DEF Asking
  <2> QED
    BY <1>7, <2>1, AskedKept DEF IInv
<1> QED
  BY <1>5, <1>11, <1>13, <1>14, <1>15, <1>16, <1>17, <1>18, <1>19, <1>20, <1>21, <1>22, <1>23, <1>24 DEF IInv

(* An administrator goes on with the rollback. *)

\* It goes on with its task.
LEMMA AdminStays ==
    ASSUME IInv, NEW a \in Admin, NEW t \in Task, Mine(a) = t, Owns(a, t), StepOf(t), task' = task,
           proc'[a].task = t, proc'[a].phase \in AdminPhase
    PROVE  /\ RolesKept' /\ Apart' /\ LoopKnows' /\ LoopPrevs' /\ Steady /\ AskedFor'
           /\ task[t].status = "applied" /\ task[t].rollback = "running"
           /\ Stands(t) /\ Stands(t)' /\ ~Settled(t) /\ ~Settled(t)' /\ ~Abandoned(t) /\ ~LoopOn(t) /\ ~LoopOn(t)'
           /\ \A b \in Actor : b # a => proc'[b] = proc[b] /\ Mine(b)' # t
           /\ \A b \in Actor : Busy(b)' => Busy(b) /\ Mine(b)' = Mine(b)
           /\ proc'[Loop] = proc[Loop]
           /\ UndoKept(a)' => UndosKept'
<1>1. Busy(a)' /\ Mine(a)' = t
  BY DEF Busy, Mine, AdminPhase
<1>2. ~Settled(t)' /\ task[t].rollback = "running"
  BY Names DEF Settled, None, IInv, RolesKept, Owns
<1>3. /\ task[t].status = "applied"
      /\ \A b \in Actor : Busy(b)' => Busy(b) /\ Mine(b)' = Mine(b)
      /\ \A b \in Actor : b # a => proc'[b] = proc[b] /\ Mine(b) # t
      /\ proc'[Loop] = proc[Loop] /\ Apart' /\ LoopKnows'
      /\ UndoKept(a)' => UndosKept'
  BY <1>1, <1>2, AdminStep
<1>4. \A b \in Actor : b # a => Mine(b)' # t
  BY <1>3 DEF Mine
<1>5. /\ Stands(t) /\ Stands(t)' /\ ~Settled(t) /\ ~Abandoned(t) /\ ~LoopOn(t) /\ ~LoopOn(t)'
  BY <1>2, <1>3, <1>4, Names DEF Stands, Settled, Abandoned, LoopOn, None
<1>6. Steady
  BY <1>2, <1>5, SteadyStep DEF IInv
<1>7. LoopPrevs'
  BY <1>3, <1>6, LoopPrevsKept DEF IInv, Steady, LoopIn
<1>8. RolesKept'
  BY <1>1, <1>3, Names DEF IInv, RolesKept, Busy, Mine, LoopIn
<1>9. AskedFor'
  <2>1. Asking(t)'
    BY <1>2 DEF Asking
  <2> QED
    BY <2>1, AskedKept DEF IInv
<1> QED
  BY <1>2, <1>3, <1>4, <1>5, <1>6, <1>7, <1>8, <1>9

\* It changes no mark.
LEMMA AdminGoesOn ==
    ASSUME IInv, NEW a \in Admin, NEW t \in Task, Mine(a) = t, Owns(a, t), StepOf(t), task' = task, marks' = marks,
           proc'[a].task = t, proc'[a].phase \in AdminPhase
    PROVE  /\ RolesKept' /\ Apart' /\ MarksOwned' /\ LoopKnows' /\ Ordering' /\ LoopPrevs' /\ MarksStand' /\ AskedFor'
<1>1. /\ RolesKept' /\ Apart' /\ LoopKnows' /\ LoopPrevs' /\ Steady /\ AskedFor' /\ Stands(t)'
      /\ \A b \in Actor : Busy(b)' => Busy(b) /\ Mine(b)' = Mine(b)
      /\ proc'[Loop] = proc[Loop]
  BY AdminStays
<1>2. MarksOwned'
  BY DEF IInv, MarksOwned
<1>3. Ordering'
  BY <1>1, Names, OrderingKept DEF IInv, LoopIn
<1>4. MarksStand'
  <2>1. MarkStands(t)'
    BY <1>1 DEF MarkStands
  <2> QED
    BY <2>1, MarksStandKept DEF IInv, Typed
<1> QED
  BY <1>1, <1>2, <1>3, <1>4

\* It changes no relation either.
LEMMA AdminMoves ==
    ASSUME IInv, NEW a \in Admin, NEW t \in Task, Mine(a) = t, Owns(a, t), StepOf(t), task' = task, marks' = marks, active' = active,
           proc'[a].task = t, proc'[a].phase \in AdminPhase
    PROVE  PlansKept' /\ SettledForgot' /\ HeldDown'
<1>1. Stands(t) /\ Stands(t)' /\ ~Settled(t)' /\ ~Abandoned(t) /\ ~LoopOn(t)
  BY AdminStays
<1>2. PlansKept'
  BY <1>1, PlansKeptKept DEF IInv
<1>3. SettledForgot'
  BY <1>1, SettledKept DEF IInv
<1>4. HeldDown'
  <2>1. \A r \in Targets[t] : Holds(t, r) => Holds(t, r)'
    BY <1>1 DEF Holds
  <2> QED
    BY <2>1, HeldKept DEF IInv
<1> QED
  BY <1>2, <1>3, <1>4

\* The text of the task that is rolled back.
LEMMA AdminTrace ==
    ASSUME NEW a \in Admin, NEW t \in Task, task'[t].status = "applied", task'[t].rollback = "running", ~LoopOn(t)',
           \A b \in Actor : b # a => Mine(b)' # t,
           task'[t].plan.existed <=> task'[t].known,
           task'[t].plan.kind # "correct" => Blank(t)',
           proc'[a].phase = "clean" => stored'[t] = "no" /\ (t \in fix' => task'[t].known),
           proc'[a].phase \in {"unmark", "askagain", "close"} => Blank(t)'
    PROVE  TraceKept(t)'
BY Names DEF TraceKept, None

\* Below those in effect: what the plan of a rollback puts back.
LEMMA RollbackPlan ==
    ASSUME IInv, NEW a \in Admin, NEW t \in Task, Mine(a) = t, Busy(a)
    PROVE  /\ Stands(t) /\ ~Settled(t) /\ PlanKept(t)
           /\ \A u \in Task : Settled(u) /\ Meet(u, t) =>
                 /\ task[t].plan.before \cap On(u) = {}
                 /\ \A m \in task[t].plan.prev : m[1] \in On(u) => m[2] # None
           /\ \A u \in Task : Stands(u) /\ u # t /\ Meet(u, t) => Settled(u)
<1>1. task[t].rollback = "running" /\ task[t].status = "applied"
  BY Names DEF IInv, RolesKept, None
<1>2. Stands(t) /\ ~Settled(t) /\ PlanKept(t)
  BY <1>1 DEF IInv, PlansKept, Stands, Settled, None
<1>3. PICK older \in SUBSET (Task \X Task) : Ordered(older)
  BY DEF IInv, Ordering
<1>4. \A u \in Task : Stands(u) /\ u # t /\ Meet(u, t) => Settled(u) /\ <<u, t>> \in older
  BY <1>3 DEF Ordered, UndoTop
<1>5. \A u \in Task : Settled(u) => Stands(u) /\ u # t
  BY <1>2 DEF Settled, Stands, None
<1> QED
  BY <1>2, <1>3, <1>4, <1>5 DEF Ordered, PrevsBelow

\* What the plan puts back was put down by no task that is still in effect.
LEMMA RestoreForgottenKeeps == ASSUME IInv, NEW a \in Admin, RestoreForgotten(a) PROVE IInv'
<1>1. PICK t \in Task : Mine(a) = t /\ Busy(a) /\ Runs(a)
  BY Names DEF RestoreForgotten, At, IInv, RolesKept, Busy
<1> DEFINE ph == IF task[t].plan.kind = "correct" THEN "delete" ELSE "unmark"
<1>2. /\ proc[a].phase = "restore" /\ ph \in AdminPhase \ {"restore"}
      /\ proc' = [proc EXCEPT ![a].phase = ph]
      /\ active' = (active \ Targets[t]) \cup task[t].plan.before
      /\ UNCHANGED <<task, marks, stored, fix, asked, tangled, crashes>>
  BY <1>1 DEF RestoreForgotten, At, Goto, Mine, Plan, AdminPhase
<1>3. ph \in {"delete", "unmark"} /\ (ph = "unmark" <=> task[t].plan.kind # "correct")
  OBVIOUS
<1> HIDE DEF ph
<1>4. Owns(a, t) /\ proc'[a].task = t /\ proc'[a].phase = ph
  BY <1>1, <1>2, Names DEF Owns, OnlyBy, Mine, IInv, Typed, ProcRow
<1>5. /\ Stands(t) /\ ~Settled(t) /\ PlanKept(t)
      /\ \A u \in Task : Settled(u) /\ Meet(u, t) => task[t].plan.before \cap On(u) = {}
      /\ \A u \in Task : Stands(u) /\ u # t /\ Meet(u, t) => Settled(u)
  BY <1>1, RollbackPlan
<1>6. task[t].plan.before \subseteq Targets[t] /\ active \cap On(t) \subseteq task[t].plan.before /\ Targets[t] \subseteq Relation
  BY <1>5, TargetsAssumption DEF PlanKept
<1>7. StepOf(t)
  BY <1>1, <1>2, <1>4, <1>6 DEF StepOf, OnlyOf, IInv, Typed, TaskRow, Mine, Owns, OnlyBy
<1>8. Typed'
  <2>1. proc' \in [Actor -> ProcRow]
    BY <1>2, Names, PhaseTyped DEF IInv, Typed
  <2> QED
    BY <1>2, <1>6, <2>1 DEF IInv, Typed
<1>9. /\ RolesKept' /\ Apart' /\ MarksOwned' /\ LoopKnows' /\ Ordering' /\ LoopPrevs' /\ MarksStand' /\ AskedFor'
  BY <1>1, <1>2, <1>4, <1>7, AdminGoesOn
<1>10. /\ task[t].status = "applied" /\ task[t].rollback = "running"
       /\ Stands(t)' /\ ~Settled(t)' /\ ~Abandoned(t) /\ ~LoopOn(t) /\ ~LoopOn(t)'
       /\ \A b \in Actor : b # a => Mine(b)' # t
       /\ UndoKept(a)' => UndosKept'
  BY <1>1, <1>2, <1>4, <1>7, AdminStays
<1>11. \A r \in Targets[t], u \in Task : r \notin tangled /\ r \in active' /\ r \in Targets[u] => ~Settled(u) /\ r \in task[t].plan.before
  BY <1>2, <1>5, <1>6 DEF Meet, On
<1>12. PlansKept'
  <2>1. \A r \in Targets[t], u \in Task :
           r \notin tangled /\ r \in active' /\ r \in Targets[u] /\ Stands(u) => r \in active \/ r \in task[u].plan.before
    BY <1>5, <1>11 DEF Meet, On
  <2> QED
    BY <1>2, <1>5, <1>7, <2>1, PlansKeptKept DEF IInv
<1>13. SettledForgot'
  BY <1>2, <1>7, <1>10, <1>11, SettledKept DEF IInv
<1>14. UndosKept'
  <2>1. UndoKept(a)'
    BY <1>1, <1>2, <1>3, <1>4 DEF UndoKept, Mine, On
  <2> QED
    BY <1>10, <2>1
<1>15. HeldDown'
  <2>1. \A r \in Targets[t] : Smooth(r)' /\ r \notin active' => r \notin active /\ ~Holds(t, r)
    BY <1>2, <1>6, <1>10 DEF Holds, Smooth, On
  <2> QED
    BY <1>7, <2>1, HeldKept DEF IInv
<1>16. TracesKept'
  <2>1. ASSUME task[t].attempts <= 1 PROVE TraceKept(t)'
    <3>1. (task[t].plan.existed <=> task[t].known) /\ (task[t].plan.kind # "correct" => Blank(t))
      BY <1>5, <2>1 DEF IInv, TracesKept, TraceKept
    <3>2. Blank(t)' <=> Blank(t)
      BY <1>2 DEF Blank
    <3> QED
      BY <1>2, <1>3, <1>4, <1>10, <3>1, <3>2, AdminTrace
  <2> QED
    BY <1>2, <1>7, <2>1, TracesStep DEF IInv
<1> QED
  BY <1>8, <1>9, <1>12, <1>13, <1>14, <1>15, <1>16 DEF IInv

\* The text goes and its relation with it, unless others support that.
LEMMA DeleteTextKeeps == ASSUME IInv, NEW a \in Admin, DeleteText(a) PROVE IInv'
<1>1. PICK t \in Task : Mine(a) = t /\ Busy(a) /\ Runs(a)
  BY Names DEF DeleteText, At, IInv, RolesKept, Busy
<1>2. /\ proc[a].phase = "delete" /\ stored[t] # "no"
      /\ proc' = [proc EXCEPT ![a].phase = "clean"]
      /\ stored' = [stored EXCEPT ![t] = "no"]
      /\ fix' = IF task[t].known THEN fix ELSE fix \ {t}
      /\ UNCHANGED <<task, active, marks, asked, tangled, crashes>>
  BY <1>1 DEF DeleteText, At, Goto, Mine
<1>3. Owns(a, t) /\ proc'[a].task = t /\ proc'[a].phase = "clean"
  BY <1>1, <1>2, Names DEF Owns, OnlyBy, Mine, IInv, Typed, ProcRow
<1>4. StepOf(t)
  BY <1>1, <1>2, <1>3 DEF StepOf, OnlyOf, IInv, Typed, TaskRow, Mine, Owns, OnlyBy
<1>5. Typed'
  <2>1. proc' \in [Actor -> ProcRow]
    BY <1>2, Names, PhaseTyped DEF IInv, Typed, AdminPhase
  <2>2. fix' \in SUBSET Task
    BY <1>2 DEF IInv, Typed
  <2> QED
    BY <1>2, <2>1, <2>2 DEF IInv, Typed
<1>6. /\ RolesKept' /\ Apart' /\ MarksOwned' /\ LoopKnows' /\ Ordering' /\ LoopPrevs' /\ MarksStand' /\ AskedFor'
      /\ PlansKept' /\ SettledForgot' /\ HeldDown'
  BY <1>1, <1>2, <1>3, <1>4, AdminGoesOn, AdminMoves DEF AdminPhase
<1>7. /\ task[t].status = "applied" /\ task[t].rollback = "running" /\ Stands(t) /\ ~LoopOn(t)'
      /\ \A b \in Actor : b # a => Mine(b)' # t
      /\ UndoKept(a)' => UndosKept'
  BY <1>1, <1>2, <1>3, <1>4, AdminStays DEF AdminPhase
<1>8. UndosKept'
  <2>1. task[t].plan.before \cap On(t) \subseteq active
    BY <1>1, <1>2 DEF IInv, UndosKept, UndoKept, AdminPhase
  <2>2. UndoKept(a)'
    BY <1>2, <1>3, <2>1 DEF UndoKept, Mine, On
  <2> QED
    BY <1>7, <2>2
<1>9. TracesKept'
  <2>1. ASSUME task[t].attempts <= 1 PROVE TraceKept(t)'
    <3>1. (task[t].plan.existed <=> task[t].known) /\ task[t].plan.kind = "correct"
      BY <1>2, <1>7, <2>1 DEF IInv, TracesKept, TraceKept, Blank
    <3>2. stored'[t] = "no" /\ (t \in fix' => task[t].known)
      BY <1>2 DEF IInv, Typed
    <3> QED
      BY <1>2, <1>3, <1>7, <3>1, <3>2, AdminTrace
  <2> QED
    BY <1>2, <1>4, <2>1, TracesStep DEF IInv
<1> QED
  BY <1>5, <1>6, <1>8, <1>9 DEF IInv

\* The corrected relation is back if it was there before.
LEMMA RevertCorrectedKeeps == ASSUME IInv, NEW a \in Admin, RevertCorrected(a) PROVE IInv'
<1>1. PICK t \in Task : Mine(a) = t /\ Busy(a) /\ Runs(a)
  BY Names DEF RevertCorrected, At, IInv, RolesKept, Busy
<1>2. /\ proc[a].phase = "clean"
      /\ proc' = [proc EXCEPT ![a].phase = "unmark"]
      /\ fix' = IF task[t].plan.existed THEN fix \cup {t} ELSE fix
      /\ UNCHANGED <<task, active, marks, stored, asked, tangled, crashes>>
  BY <1>1 DEF RevertCorrected, At, Goto, Mine, Plan
<1>3. Owns(a, t) /\ proc'[a].task = t /\ proc'[a].phase = "unmark"
  BY <1>1, <1>2, Names DEF Owns, OnlyBy, Mine, IInv, Typed, ProcRow
<1>4. StepOf(t)
  BY <1>1, <1>2, <1>3 DEF StepOf, OnlyOf, IInv, Typed, TaskRow, Mine, Owns, OnlyBy
<1>5. Typed'
  <2>1. proc' \in [Actor -> ProcRow]
    BY <1>2, Names, PhaseTyped DEF IInv, Typed, AdminPhase
  <2>2. fix' \in SUBSET Task
    BY <1>2 DEF IInv, Typed
  <2> QED
    BY <1>2, <2>1, <2>2 DEF IInv, Typed
<1>6. /\ RolesKept' /\ Apart' /\ MarksOwned' /\ LoopKnows' /\ Ordering' /\ LoopPrevs' /\ MarksStand' /\ AskedFor'
      /\ PlansKept' /\ SettledForgot' /\ HeldDown'
  BY <1>1, <1>2, <1>3, <1>4, AdminGoesOn, AdminMoves DEF AdminPhase
<1>7. /\ task[t].status = "applied" /\ task[t].rollback = "running" /\ Stands(t) /\ ~LoopOn(t)'
      /\ \A b \in Actor : b # a => Mine(b)' # t
      /\ UndoKept(a)' => UndosKept'
  BY <1>1, <1>2, <1>3, <1>4, AdminStays DEF AdminPhase
<1>8. UndosKept'
  <2>1. task[t].plan.before \cap On(t) \subseteq active
    BY <1>1, <1>2 DEF IInv, UndosKept, UndoKept, AdminPhase
  <2>2. UndoKept(a)'
    BY <1>2, <1>3, <2>1 DEF UndoKept, Mine, On
  <2> QED
    BY <1>7, <2>2
<1>9. TracesKept'
  <2>1. ASSUME task[t].attempts <= 1 PROVE TraceKept(t)'
    <3>1. (task[t].plan.existed <=> task[t].known) /\ stored[t] = "no" /\ (t \in fix => task[t].known)
      BY <1>1, <1>2, <1>7, <2>1 DEF IInv, TracesKept, TraceKept
    <3>2. t \in fix' <=> task[t].known
      BY <1>2, <3>1
    <3>3. Blank(t)'
      BY <1>2, <3>1, <3>2 DEF Blank
    <3> QED
      BY <1>2, <1>3, <1>7, <3>1, <3>3, AdminTrace
  <2> QED
    BY <1>2, <1>4, <2>1, TracesStep DEF IInv
<1> QED
  BY <1>5, <1>6, <1>8, <1>9 DEF IInv

\* Once the administrator has asked, requests and relations agree.
LEMMA AskAgainKeeps == ASSUME IInv, NEW a \in Admin, AskAgain(a) PROVE IInv'
<1>1. PICK t \in Task : Mine(a) = t /\ Busy(a) /\ Runs(a)
  BY Names DEF AskAgain, At, IInv, RolesKept, Busy
<1>2. /\ proc[a].phase = "askagain"
      /\ proc' = [proc EXCEPT ![a].phase = "close"]
      /\ asked' = (asked \ Targets[t]) \cup (active \cap Targets[t])
      /\ UNCHANGED <<task, active, marks, stored, fix, tangled, crashes>>
  BY <1>1 DEF AskAgain, Ask, At, Goto, Mine
<1>3. Owns(a, t) /\ proc'[a].task = t /\ proc'[a].phase = "close"
  BY <1>1, <1>2, Names DEF Owns, OnlyBy, Mine, IInv, Typed, ProcRow
<1>4. StepOf(t)
  BY <1>1, <1>2, <1>3 DEF StepOf, OnlyOf, IInv, Typed, TaskRow, Mine, Owns, OnlyBy
<1>5. Typed'
  <2>1. proc' \in [Actor -> ProcRow]
    BY <1>2, Names, PhaseTyped DEF IInv, Typed, AdminPhase
  <2> QED
    BY <1>2, <2>1 DEF IInv, Typed
<1>6. /\ RolesKept' /\ Apart' /\ MarksOwned' /\ LoopKnows' /\ Ordering' /\ LoopPrevs' /\ MarksStand' /\ AskedFor'
      /\ PlansKept' /\ SettledForgot' /\ HeldDown'
  BY <1>1, <1>2, <1>3, <1>4, AdminGoesOn, AdminMoves DEF AdminPhase
<1>7. /\ task[t].status = "applied" /\ task[t].rollback = "running" /\ Stands(t) /\ ~LoopOn(t)'
      /\ \A b \in Actor : b # a => Mine(b)' # t
      /\ UndoKept(a)' => UndosKept'
  BY <1>1, <1>2, <1>3, <1>4, AdminStays DEF AdminPhase
<1>8. UndosKept'
  <2>1. task[t].plan.before \cap On(t) \subseteq active /\ \A r \in Targets[t] : Smooth(r) => marks[r] # t
    BY <1>1, <1>2 DEF IInv, UndosKept, UndoKept, AdminPhase
  <2>2. \A r \in Targets[t] : Agree(r)' /\ (Smooth(r)' => Smooth(r))
    BY <1>2 DEF Agree, Smooth
  <2>3. UndoKept(a)'
    BY <1>1, <1>2, <1>3, <2>1, <2>2 DEF UndoKept, Mine, On
  <2> QED
    BY <1>7, <2>3
<1>9. TracesKept'
  <2>1. ASSUME task[t].attempts <= 1 PROVE TraceKept(t)'
    <3>1. (task[t].plan.existed <=> task[t].known) /\ Blank(t)
      BY <1>1, <1>2, <1>7, <2>1 DEF IInv, TracesKept, TraceKept
    <3>2. Blank(t)'
      BY <1>2, <3>1 DEF Blank
    <3> QED
      BY <1>2, <1>3, <1>7, <3>1, <3>2, AdminTrace
  <2> QED
    BY <1>2, <1>4, <2>1, TracesStep DEF IInv
<1> QED
  BY <1>5, <1>6, <1>8, <1>9 DEF IInv

\* The mark put back is that of an older task in effect, or none.
LEMMA UnmarkKeeps == ASSUME IInv, NEW a \in Admin, Unmark(a) PROVE IInv'
<1>1. PICK t \in Task : Mine(a) = t /\ Busy(a) /\ Runs(a)
  BY Names DEF Unmark, At, IInv, RolesKept, Busy
<1>2. /\ proc[a].phase = "unmark"
      /\ proc' = [proc EXCEPT ![a].phase = "askagain"]
      /\ marks' = [r \in Relation |-> IF marks[r] = t /\ r \in Targets[t]
                                      THEN (CHOOSE m \in task[t].plan.prev : m[1] = r)[2] ELSE marks[r]]
      /\ UNCHANGED <<task, active, stored, fix, asked, tangled, crashes>>
  BY <1>1 DEF Unmark, Unmarked, At, Goto, Mine, Plan
<1>3. Owns(a, t) /\ proc'[a].task = t /\ proc'[a].phase = "askagain"
  BY <1>1, <1>2, Names DEF Owns, OnlyBy, Mine, IInv, Typed, ProcRow
<1>4. /\ Stands(t) /\ ~Settled(t) /\ PlanKept(t)
      /\ \A u \in Task : Settled(u) /\ Meet(u, t) => \A m \in task[t].plan.prev : m[1] \in On(u) => m[2] # None
  BY <1>1, RollbackPlan
<1>5. \A m \in task[t].plan.prev : m[1] \in Relation /\ m[1] \in Targets[t] /\ m[2] \in Task \cup {None}
                                   /\ (m[2] # None => m[2] \in Task /\ m[1] \in Targets[m[2]])
  BY <1>4, Names DEF PlanKept, Owned, IInv, Typed, TaskRow, PlanType
\* A mark either stays or goes back to the one it replaced.
<1>6. /\ \A r \in Relation : r \notin Targets[t] \/ marks[r] # t => marks'[r] = marks[r]
      /\ \A r \in Targets[t] : marks[r] = t => \E m \in task[t].plan.prev : m[1] = r /\ marks'[r] = m[2]
  <2>1. ASSUME NEW r \in Targets[t], marks[r] = t
        PROVE  \E m \in task[t].plan.prev : m[1] = r /\ marks'[r] = m[2]
    <3>1. \E m \in task[t].plan.prev : m[1] = r
      BY <1>4 DEF PlanKept
    <3>2. marks'[r] = (CHOOSE m \in task[t].plan.prev : m[1] = r)[2]
      BY <1>2, <2>1, TargetsAssumption
    <3> QED
      BY <3>1, <3>2
  <2> QED
    BY <1>2, <2>1
<1>7. StepOf(t)
  BY <1>1, <1>2, <1>3, <1>6 DEF StepOf, OnlyOf, IInv, Typed, TaskRow, Mine, Owns, OnlyBy
<1>8. Typed'
  <2>1. proc' \in [Actor -> ProcRow]
    BY <1>2, Names, PhaseTyped DEF IInv, Typed, AdminPhase
  <2>2. \A r \in Relation : marks'[r] \in Task \cup {None}
    BY <1>5, <1>6 DEF IInv, Typed
  <2>3. marks' \in [Relation -> Task \cup {None}]
    <3>1. marks' = [r \in Relation |-> marks'[r]]
      BY <1>2
    <3> QED
      BY <2>2, <3>1
  <2> QED
    BY <1>2, <2>1, <2>3 DEF IInv, Typed
<1>9. /\ RolesKept' /\ Apart' /\ LoopKnows' /\ LoopPrevs' /\ Steady /\ AskedFor'
      /\ task[t].status = "applied" /\ task[t].rollback = "running"
      /\ Stands(t)' /\ ~Settled(t)' /\ ~Abandoned(t) /\ ~LoopOn(t) /\ ~LoopOn(t)'
      /\ \A b \in Actor : b # a => Mine(b)' # t
      /\ \A b \in Actor : Busy(b)' => Busy(b) /\ Mine(b)' = Mine(b)
      /\ proc'[Loop] = proc[Loop]
      /\ UndoKept(a)' => UndosKept'
  BY <1>1, <1>2, <1>3, <1>7, AdminStays DEF AdminPhase
<1>10. MarksOwned'
  <2>1. \A r \in Targets[t] : marks'[r] # None => r \in Targets[marks'[r]]
    BY <1>5, <1>6, TargetsAssumption DEF IInv, MarksOwned
  <2> QED
    BY <1>7, <2>1, MarksOwnedKept DEF IInv
<1>11. PlansKept'
  BY <1>2, <1>4, <1>7, PlansKeptKept DEF IInv
<1>12. SettledForgot'
  <2>1. \A r \in Targets[t], u \in Task :
           r \notin tangled /\ r \in Targets[u] /\ Settled(u) /\ u # t => (marks'[r] = None => marks[r] = None)
    BY <1>4, <1>6, TargetsAssumption DEF Meet, On
  <2> QED
    BY <1>2, <1>7, <1>9, <2>1, SettledKept DEF IInv
<1>13. PICK older \in SUBSET (Task \X Task) : Ordered(older)
  BY DEF IInv, Ordering
<1>14. \A u \in Task : Stands(u) /\ u # t /\ Meet(u, t) => Settled(u) /\ <<u, t>> \in older
  BY <1>1, <1>13 DEF Ordered, UndoTop
<1>15. Ordering'
  <2>1. MarksTop(older)'
    <3> SUFFICES ASSUME NEW r \in Relation, NEW v \in Task, NEW u \in Task,
                        marks'[r] = v, Stands(v)', Settled(u)', u # v, r \in On(u)'
                 PROVE  <<u, v>> \in older
      BY DEF MarksTop
    <3>1. Stands(v) /\ Settled(u) /\ u # t
      BY <1>9 DEF Steady, Calm
    <3>2. CASE marks[r] = v
      BY <1>2, <1>13, <3>1, <3>2 DEF Ordered, MarksTop, On
    <3>3. CASE marks[r] # v
      <4>1. r \in Targets[t] /\ marks[r] = t
        BY <1>6, <3>3
      <4>2. PICK m \in task[t].plan.prev : m[1] = r /\ v = m[2]
        BY <1>6, <4>1
      <4>3. <<u, t>> \in older
        BY <1>2, <1>14, <3>1, <4>1 DEF Meet, On, Settled, Stands, None
      <4>4. r \in Targets[v] /\ v # t
        BY <1>5, <3>3, <4>1, <4>2, Names
      <4>5. <<v, t>> \in older
        BY <1>2, <1>14, <3>1, <4>1, <4>4 DEF Meet, On
      <4> QED
        BY <1>2, <1>4, <1>13, <3>1, <4>2, <4>3, <4>5 DEF Ordered, PrevsBelow, On
    <3> QED
      BY <3>2, <3>3
  <2>2. UndoTop(older)'
    BY <1>9, <1>13, Names DEF Ordered, UndoTop, Steady, Calm, Meet, On
  <2> QED
    BY <1>9, <1>13, <2>1, <2>2, OrderingCalm DEF IInv, Steady, LoopIn
\* The mark put back is that of a task in effect, or of an abandoned one; never of this one.
<1>16. \A m \in task[t].plan.prev : Smooth(m[1]) /\ m[2] # None => m[2] # t /\ (Stands(m[2]) \/ Abandoned(m[2]))
  BY <1>4, <1>5, <1>9, <1>13 DEF Ordered, PrevsStand, Antisymmetric
<1>17. \A r \in Targets[t] : (Smooth(r)' => Smooth(r)) /\ r \in Relation
  BY <1>9, TargetsAssumption DEF Steady, Calm
<1>18. MarksStand'
  <2>1. ASSUME NEW r \in Targets[t], NEW v \in Task, Smooth(r)', marks'[r] = v, marks[r] # v
        PROVE  MarkStands(v)'
    <3>1. marks[r] = t /\ Smooth(r)
      BY <1>6, <1>17, <2>1
    <3>2. PICK m \in task[t].plan.prev : m[1] = r /\ v = m[2]
      BY <1>6, <2>1, <3>1
    <3>3. Stands(v) \/ Abandoned(v)
      BY <1>16, <2>1, <3>1, <3>2, Names
    <3>4. r \in Targets[v]
      BY <1>5, <2>1, <3>2, Names
    <3> QED
      BY <1>9, <1>17, <2>1, <3>3, <3>4 DEF MarkStands, Steady, Calm
  <2>2. MarkStands(t)'
    BY <1>9 DEF MarkStands
  <2> QED
    BY <1>7, <1>8, <2>1, <2>2, MarksStandKept DEF IInv, Typed
<1>19. UndosKept'
  <2>1. task[t].plan.before \cap On(t) \subseteq active
    BY <1>1, <1>2 DEF IInv, UndosKept, UndoKept, AdminPhase
  <2>2. \A r \in Targets[t] : Smooth(r)' => marks'[r] # t
    BY <1>6, <1>16, <1>17, Names
  <2>3. UndoKept(a)'
    BY <1>2, <1>3, <2>1, <2>2 DEF UndoKept, Mine, On
  <2> QED
    BY <1>9, <2>3
<1>20. HeldDown'
  <2>1. \A r \in Targets[t] : Holds(t, r) => Holds(t, r)'
    BY <1>2, <1>9 DEF Holds
  <2> QED
    BY <1>2, <1>7, <2>1, HeldKept DEF IInv
<1>21. TracesKept'
  <2>1. ASSUME task[t].attempts <= 1 PROVE TraceKept(t)'
    <3>1. (task[t].plan.existed <=> task[t].known) /\ Blank(t)
      BY <1>1, <1>2, <1>4, <2>1 DEF IInv, TracesKept, TraceKept
    <3>2. Blank(t)'
      BY <1>2, <3>1 DEF Blank
    <3> QED
      BY <1>2, <1>3, <1>9, <3>1, <3>2, AdminTrace
  <2> QED
    BY <1>2, <1>7, <2>1, TracesStep DEF IInv
<1> QED
  BY <1>8, <1>9, <1>10, <1>11, <1>12, <1>15, <1>18, <1>19, <1>20, <1>21 DEF IInv
(* A rollback ends. *)

\* The row of a task whose rollback ended.
LEMMA RollbackTyped ==
    ASSUME task \in [Task -> TaskRow], NEW t \in Task, NEW status \in {"rolled_back", "error"},
           task' = [task EXCEPT ![t].rollback = status]
    PROVE  /\ task' \in [Task -> TaskRow] /\ task'[t].rollback = status
           /\ task'[t].status = task[t].status /\ task'[t].last_error = task[t].last_error
           /\ task'[t].plan = task[t].plan /\ task'[t].known = task[t].known /\ task'[t].attempts = task[t].attempts
           /\ \A u \in Task : u # t => task'[u] = task[u]
<1> DEFINE x == [task[t] EXCEPT !.rollback = status]
<1>1. /\ x \in TaskRow /\ x.rollback = status /\ x.status = task[t].status /\ x.last_error = task[t].last_error
      /\ x.plan = task[t].plan /\ x.known = task[t].known /\ x.attempts = task[t].attempts
  <2>1. task[t] \in TaskRow
    OBVIOUS
  <2> QED
    BY <2>1 DEF TaskRow
<1> HIDE DEF x
<1>2. task' = [task EXCEPT ![t] = x]
  BY DEF x
<1> QED
  BY <1>1, <1>2

\* The administrator is done.
LEMMA AdminLeaves ==
    ASSUME IInv, NEW a \in Admin, NEW t \in Task, Mine(a) = t, Busy(a), Runs(a), NEW status \in {"rolled_back", "error"},
           task' = [task EXCEPT ![t].rollback = status], proc' = [proc EXCEPT ![a] = Idle],
           UNCHANGED <<active, marks, stored, fix, asked, tangled, crashes>>
    PROVE  /\ Typed' /\ RolesKept' /\ Apart' /\ MarksOwned' /\ SettledForgot' /\ PlansKept' /\ LoopKnows' /\ UndosKept'
           /\ StepOf(t) /\ Owns(a, t)
           /\ task[t].rollback = "running" /\ task[t].status = "applied"
           /\ Stands(t) /\ ~Settled(t) /\ ~Settled(t)' /\ ~Abandoned(t) /\ ~LoopOn(t) /\ ~LoopOn(t)'
           /\ \A b \in Actor : Mine(b)' # t
           /\ \A b \in Actor : Busy(b)' => Busy(b) /\ Mine(b)' = Mine(b) /\ b # a
           /\ proc'[Loop] = proc[Loop]
<1>1. /\ task' \in [Task -> TaskRow] /\ task'[t].rollback = status
      /\ task'[t].status = task[t].status /\ task'[t].last_error = task[t].last_error
      /\ task'[t].plan = task[t].plan /\ task'[t].known = task[t].known /\ task'[t].attempts = task[t].attempts
      /\ \A u \in Task : u # t => task'[u] = task[u]
  BY RollbackTyped DEF IInv, Typed
<1>2. Typed'
  <2>1. proc' \in [Actor -> ProcRow]
    BY IdleTyped DEF IInv, Typed
  <2> QED
    BY <1>1, <2>1 DEF IInv, Typed
<1>3. Owns(a, t) /\ proc'[a] = Idle /\ ~Busy(a)' /\ Mine(a)' = None
  BY Names DEF Owns, OnlyBy, IInv, Typed, Busy, Mine, Idle
<1>4. StepOf(t)
  BY <1>1, <1>3 DEF StepOf, OnlyOf, IInv, Typed, TaskRow, Mine, Idle, Owns, OnlyBy
<1>5. ~Settled(t)'
  BY <1>1, Names DEF Settled, None
<1>6. /\ task[t].rollback = "running" /\ task[t].status = "applied"
      /\ \A b \in Actor : Busy(b)' => Busy(b) /\ Mine(b)' = Mine(b)
      /\ \A b \in Actor : b # a => proc'[b] = proc[b] /\ Mine(b) # t
      /\ proc'[Loop] = proc[Loop]
      /\ Apart' /\ LoopKnows'
      /\ UndoKept(a)' => UndosKept'
  BY <1>1, <1>3, <1>4, <1>5, AdminStep
<1>7. \A b \in Actor : Mine(b)' # t
  BY <1>3, <1>6, Names DEF Mine
<1>8. Stands(t) /\ ~Settled(t) /\ ~Abandoned(t) /\ ~LoopOn(t) /\ ~LoopOn(t)'
  BY <1>6, <1>7, Names DEF Stands, Settled, Abandoned, LoopOn, None
<1>9. UndosKept'
  BY <1>3, <1>6 DEF UndoKept, AdminPhase, Idle
<1>10. RolesKept'
  <2>1. \A b \in Actor : (~Busy(b)' => proc'[b] = Idle) /\ (Busy(b)' => Mine(b)' \in Task)
    BY <1>3, <1>6, Names DEF IInv, RolesKept, Busy
  <2>2. Busy(Loop)' => LoopIn(LoopPhase)' /\ task'[Mine(Loop)'].status = "running"
    BY <1>1, <1>6, Names DEF IInv, RolesKept, LoopIn
  <2>3. \A b \in Admin : Busy(b)' =>
          /\ proc'[b].phase \in AdminPhase
          /\ task'[Mine(b)'].rollback = "running" /\ ~task'[Mine(b)'].lapsed
    BY <1>1, <1>3, <1>6, Names DEF IInv, RolesKept
  <2>4. \A u \in Task : task'[u].rollback # None => task'[u].status = "applied"
    BY <1>1, <1>6 DEF IInv, RolesKept
  <2>5. \A u \in Task : task'[u].status = "running" => task'[u].attempts > 0
    BY <1>1 DEF IInv, RolesKept
  <2> QED
    BY <2>1, <2>2, <2>3, <2>4, <2>5 DEF RolesKept
<1>11. MarksOwned'
  BY DEF IInv, MarksOwned
<1>12. SettledForgot'
  BY <1>4, <1>5, SettledKept DEF IInv
<1>13. PlansKept'
  BY <1>1, <1>4, <1>8, PlansKeptKept DEF IInv
<1>14. \A b \in Actor : Busy(b)' => b # a
  BY <1>3
<1> QED
  BY <1>2, <1>3, <1>4, <1>5, <1>6, <1>7, <1>8, <1>9, <1>10, <1>11, <1>12, <1>13, <1>14

\* The rollback ends in error.
LEMMA RollbackFails ==
    ASSUME IInv, NEW a \in Admin, NEW t \in Task, Mine(a) = t, Busy(a), Runs(a),
           task' = [task EXCEPT ![t].rollback = "error"], proc' = [proc EXCEPT ![a] = Idle],
           UNCHANGED <<active, marks, stored, fix, asked, tangled, crashes>>
    PROVE  IInv'
<1>1. /\ Typed' /\ RolesKept' /\ Apart' /\ MarksOwned' /\ SettledForgot' /\ PlansKept' /\ LoopKnows' /\ UndosKept'
      /\ StepOf(t)
      /\ task[t].rollback = "running" /\ task[t].status = "applied"
      /\ Stands(t) /\ ~Settled(t) /\ ~Settled(t)' /\ ~Abandoned(t) /\ ~LoopOn(t) /\ ~LoopOn(t)'
      /\ \A b \in Actor : Mine(b)' # t
      /\ \A b \in Actor : Busy(b)' => Busy(b) /\ Mine(b)' = Mine(b)
      /\ proc'[Loop] = proc[Loop]
  BY AdminLeaves
<1>2. /\ task'[t].status = "applied" /\ task'[t].rollback = "error" /\ task'[t].plan = task[t].plan
      /\ task'[t].known = task[t].known /\ task'[t].attempts = task[t].attempts
  BY <1>1, RollbackTyped DEF IInv, Typed
<1>3. Stands(t)'
  BY <1>2 DEF Stands
<1>4. Steady
  BY <1>1, <1>2, <1>3, SteadyStep DEF IInv
<1>5. Ordering'
  BY <1>1, <1>4, Names, OrderingKept DEF IInv, LoopIn
<1>6. LoopPrevs'
  BY <1>1, <1>4, LoopPrevsKept DEF IInv, Steady, LoopIn
<1>7. MarksStand'
  <2>1. MarkStands(t)'
    BY <1>3 DEF MarkStands
  <2> QED
    BY <1>1, <2>1, MarksStandKept DEF IInv, Typed
<1>8. HeldDown'
  <2>1. \A r \in Targets[t] : Holds(t, r) => Holds(t, r)'
    BY <1>1, <1>2, <1>3 DEF Holds
  <2> QED
    BY <1>1, <2>1, HeldKept DEF IInv
<1>9. TracesKept'
  <2>1. ASSUME task[t].attempts <= 1 PROVE TraceKept(t)'
    <3>1. (task[t].plan.existed <=> task[t].known) /\ (task[t].plan.kind # "correct" => Blank(t))
      BY <1>1, <2>1 DEF IInv, TracesKept, TraceKept
    <3>2. Blank(t)' <=> Blank(t)
      BY <1>2 DEF Blank
    <3> QED
      BY <1>1, <1>2, <3>1, <3>2, Names DEF TraceKept, None
  <2> QED
    BY <1>1, <1>2, <2>1, TracesStep DEF IInv
<1>10. AskedFor'
  <2>1. \A r \in Targets[t] : ~Undisturbed(r)'
    BY <1>2 DEF Undisturbed
  <2> QED
    BY <1>1, <2>1, AskedKept DEF IInv
<1> QED
  BY <1>1, <1>5, <1>6, <1>7, <1>8, <1>9, <1>10 DEF IInv

\* The text was gone: an error.
LEMMA DeleteNothingKeeps == ASSUME IInv, NEW a \in Admin, DeleteNothing(a) PROVE IInv'
<1>1. PICK t \in Task : Mine(a) = t /\ Busy(a) /\ Runs(a)
  BY Names DEF DeleteNothing, At, IInv, RolesKept, Busy
<1> QED
  BY <1>1, RollbackFails DEF DeleteNothing, EndRollback, Leave

\* The clean-up raised: an error.
LEMMA CleanupRaisesKeeps == ASSUME IInv, NEW a \in Admin, CleanupRaises(a) PROVE IInv'
<1>1. PICK t \in Task : Mine(a) = t /\ Busy(a) /\ Runs(a)
  BY Names DEF CleanupRaises, At, IInv, RolesKept, Busy
<1> QED
  BY <1>1, RollbackFails DEF CleanupRaises, EndRollback, Leave

\* The task is no longer in effect; it holds nothing down and no mark is its own.
LEMMA CloseRollbackKeeps == ASSUME IInv, NEW a \in Admin, CloseRollback(a) PROVE IInv'
<1>1. PICK t \in Task : Mine(a) = t /\ Busy(a) /\ Runs(a)
  BY Names DEF CloseRollback, At, IInv, RolesKept, Busy
<1>2. /\ proc[a].phase = "close"
      /\ task' = [task EXCEPT ![t].rollback = "rolled_back"] /\ proc' = [proc EXCEPT ![a] = Idle]
      /\ UNCHANGED <<active, marks, stored, fix, asked, tangled, crashes>>
  BY <1>1 DEF CloseRollback, EndRollback, Leave, At, Mine
<1>3. /\ Typed' /\ RolesKept' /\ Apart' /\ MarksOwned' /\ SettledForgot' /\ PlansKept' /\ LoopKnows' /\ UndosKept'
      /\ StepOf(t)
      /\ task[t].rollback = "running" /\ task[t].status = "applied"
      /\ Stands(t) /\ ~Settled(t) /\ ~Settled(t)' /\ ~Abandoned(t) /\ ~LoopOn(t) /\ ~LoopOn(t)'
      /\ \A b \in Actor : Mine(b)' # t
      /\ \A b \in Actor : Busy(b)' => Busy(b) /\ Mine(b)' = Mine(b) /\ b # a
      /\ proc'[Loop] = proc[Loop]
  BY <1>1, <1>2, AdminLeaves
<1>4. /\ task'[t].status = "applied" /\ task'[t].rollback = "rolled_back" /\ task'[t].plan = task[t].plan
      /\ task'[t].known = task[t].known /\ task'[t].attempts = task[t].attempts
  BY <1>2, <1>3, RollbackTyped DEF IInv, Typed
<1>5. ~Stands(t)' /\ ~Abandoned(t)'
  BY <1>4 DEF Stands, Abandoned
<1>6. \A u \in Task : u # t => /\ (Stands(u)' <=> Stands(u)) /\ (Settled(u)' <=> Settled(u)) /\ task'[u] = task[u]
                                /\ (Abandoned(u)' <=> Abandoned(u))
  BY <1>3, OthersSame DEF IInv
<1>7. \A r \in Relation : Smooth(r)' => Smooth(r)
  BY <1>3, SmoothBefore DEF IInv
<1>8. /\ task[t].plan.before \cap On(t) \subseteq active
      /\ \A r \in Targets[t] : (Smooth(r) => marks[r] # t) /\ Agree(r)
  BY <1>1, <1>2 DEF IInv, UndosKept, UndoKept, AdminPhase
<1>9. Targets[t] \subseteq Relation
  BY TargetsAssumption
<1>10. Ordering'
  <2>1. PICK older \in SUBSET (Task \X Task) : Ordered(older)
    BY DEF IInv, Ordering
  <2>2. Antisymmetric(older)
    BY <2>1 DEF Ordered
  <2>3. MarksTop(older)'
    BY <1>2, <1>3, <1>5, <1>6, <2>1 DEF Ordered, MarksTop, On
  <2>4. PrevsBelow(older)'
    <3> SUFFICES ASSUME NEW v \in Task, NEW u \in Task, Stands(v)', Settled(u)', <<u, v>> \in older
                 PROVE  /\ task'[v].plan.before \cap On(u)' = {}
                        /\ \A m \in task'[v].plan.prev : m[1] \in On(u)' =>
                              /\ m[2] # None
                              /\ Stands(m[2])' /\ <<m[2], v>> \in older /\ u # m[2] => <<u, m[2]>> \in older
      BY DEF PrevsBelow
    <3>1. Stands(v) /\ Settled(u) /\ task'[v] = task[v]
      BY <1>3, <1>5, <1>6
    <3>2. \A m \in task[v].plan.prev : m[2] # None => m[2] \in Task
      BY DEF IInv, Typed, TaskRow, PlanType
    <3> QED
      BY <1>2, <1>5, <1>6, <2>1, <3>1, <3>2 DEF Ordered, PrevsBelow, On
  <2>5. LoopBelow(older)'
    <3> SUFFICES ASSUME LoopIn(Marked)', NEW m \in proc'[Loop].prev, NEW u \in Task,
                        m[2] # None, Settled(u)', m[1] \in On(u)', Stands(m[2])', u # m[2]
                 PROVE  <<u, m[2]>> \in older
      BY DEF LoopBelow
    <3>1. LoopIn(Marked) /\ m \in proc[Loop].prev
      BY <1>3 DEF LoopIn
    <3>2. m[2] \in Task
      BY <3>1, Names DEF IInv, Typed, ProcRow, Prev
    <3> QED
      BY <1>2, <1>3, <1>5, <1>6, <2>1, <3>1, <3>2 DEF Ordered, LoopBelow, On
  <2>6. UndoTop(older)'
    <3> SUFFICES ASSUME NEW b \in Admin, NEW u \in Task, Busy(b)', Stands(u)', u # Mine(b)', Meet(u, Mine(b))'
                 PROVE  Settled(u)' /\ <<u, Mine(b)'>> \in older
      BY DEF UndoTop
    <3>1. Busy(b) /\ Mine(b)' = Mine(b) /\ u # t /\ Stands(u)
      BY <1>3, <1>5, <1>6, Names
    <3> QED
      BY <1>2, <1>6, <2>1, <3>1 DEF Ordered, UndoTop, Meet, On
  <2>7. PrevsStand(older)'
    <3> SUFFICES ASSUME NEW v \in Task, Stands(v)', NEW m \in task'[v].plan.prev, Smooth(m[1])', m[2] # None
                 PROVE  (Stands(m[2])' /\ <<m[2], v>> \in older) \/ Abandoned(m[2])'
      BY DEF PrevsStand
    <3>1. Stands(v) /\ v # t /\ m \in task[v].plan.prev
      BY <1>5, <1>6
    <3>2. m[1] \in Relation /\ m[2] \in Task /\ m[1] \in Targets[m[2]] /\ m[1] \in Targets[v]
      BY <3>1 DEF IInv, Typed, TaskRow, PlanType, PlansKept, PlanKept, Owned
    <3>3. (Stands(m[2]) /\ <<m[2], v>> \in older) \/ Abandoned(m[2])
      BY <1>7, <2>1, <3>1, <3>2 DEF Ordered, PrevsStand
    <3>4. m[2] # t
      <4> SUFFICES ASSUME m[2] = t PROVE FALSE
        OBVIOUS
      <4>1. <<t, v>> \in older
        BY <1>3, <3>3
      <4>2. <<v, t>> \in older
        BY <1>1, <1>2, <1>3, <2>1, <3>1, <3>2 DEF Ordered, UndoTop, Meet, On, Smooth
      <4> QED
        BY <2>2, <4>1, <4>2 DEF Antisymmetric
    <3> QED
      BY <1>6, <3>2, <3>3, <3>4
  <2> QED
    BY <2>2, <2>3, <2>4, <2>5, <2>6, <2>7 DEF Ordering, Ordered, Antisymmetric
<1>11. LoopPrevs'
  <2> SUFFICES ASSUME LoopIn(Marked)', NEW m \in proc'[Loop].prev, Smooth(m[1])', m[2] # None
               PROVE  Stands(m[2])' \/ Abandoned(m[2])'
    BY DEF LoopPrevs
  <2>1. LoopIn(Marked) /\ m \in proc[Loop].prev /\ Busy(Loop)
    BY <1>3 DEF LoopIn, Marked, Busy
  <2>2. m[1] \in Relation /\ m[2] \in Task
    BY <2>1, Names DEF IInv, Typed, ProcRow, Prev
  <2>3. m[1] \in Targets[m[2]] /\ m[1] \in Targets[Mine(Loop)]
    BY <2>1 DEF IInv, LoopKnows, Owned
  <2>4. Stands(m[2]) \/ Abandoned(m[2])
    BY <1>7, <2>1, <2>2 DEF IInv, LoopPrevs
  <2>5. m[2] # t
    BY <1>1, <1>2, <2>1, <2>3, Names DEF IInv, Apart, Meet, On, Smooth
  <2> QED
    BY <1>6, <2>2, <2>4, <2>5
<1>12. MarksStand'
  <2>1. \A r \in Targets[t] : Smooth(r)' => marks[r] # t
    BY <1>7, <1>8, <1>9
  <2> QED
    BY <1>2, <1>3, <2>1, MarksStandKept DEF IInv, Typed
<1>13. HeldDown'
  <2>1. \A r \in Targets[t] : Smooth(r)' /\ r \notin active => ~Holds(t, r)
    BY <1>2, <1>3, <1>8 DEF Holds, Smooth, On
  <2> QED
    BY <1>2, <1>3, <2>1, HeldKept DEF IInv
<1>14. TracesKept'
  <2>1. ASSUME task[t].attempts <= 1 PROVE TraceKept(t)'
    <3>1. Blank(t)
      BY <1>1, <1>2, <2>1 DEF IInv, TracesKept, TraceKept
    <3>2. Blank(t)'
      BY <1>2, <1>4, <3>1 DEF Blank
    <3> QED
      BY <1>3, <1>5, <3>2, Names DEF TraceKept
  <2> QED
    BY <1>3, <1>4, <2>1, TracesStep DEF IInv
<1>15. AskedFor'
  <2>1. \A r \in Targets[t] : Agree(r)'
    BY <1>2, <1>8 DEF Agree
  <2> QED
    BY <1>3, <2>1, AskedKept DEF IInv
<1> QED
  BY <1>3, <1>10, <1>11, <1>12, <1>13, <1>14, <1>15 DEF IInv

-----------------------------------------------------------------------------
\* Init: nothing has happened, and known says which corrected relations exist.
LEMMA InitKeeps == ASSUME Init PROVE IInv
<1>1. PICK known \in SUBSET Task : InitWith(known)
  BY DEF Init
<1>2. \A t \in Task : /\ task[t] = [status |-> None, last_error |-> None, attempts |-> 0, lapsed |-> FALSE, plan |-> NoPlan,
                                    rollback |-> None, known |-> t \in known]
                      /\ stored[t] = "no"
  BY <1>1 DEF InitWith
<1>3. \A t \in Task : /\ task[t].status = None /\ task[t].rollback = None /\ task[t].attempts = 0 /\ task[t].last_error = None
                      /\ task[t].plan = NoPlan /\ task[t].lapsed = FALSE /\ (task[t].known <=> t \in known)
  <2> SUFFICES ASSUME NEW t \in Task
               PROVE  /\ task[t].status = None /\ task[t].rollback = None /\ task[t].attempts = 0 /\ task[t].last_error = None
                      /\ task[t].plan = NoPlan /\ task[t].lapsed = FALSE /\ (task[t].known <=> t \in known)
    OBVIOUS
  <2> DEFINE k == t \in known
  <2> HIDE DEF k
  <2>1. task[t] = [status |-> None, last_error |-> None, attempts |-> 0, lapsed |-> FALSE, plan |-> NoPlan,
                   rollback |-> None, known |-> k]
    BY <1>2 DEF k
  <2>2. /\ task[t].status = None /\ task[t].rollback = None /\ task[t].attempts = 0 /\ task[t].last_error = None
        /\ task[t].plan = NoPlan /\ task[t].lapsed = FALSE /\ task[t].known = k
    BY <2>1
  <2> QED
    BY <2>2 DEF k
<1>4. \A a \in Actor : proc[a] = Idle /\ ~Busy(a) /\ Mine(a) = None
  BY <1>1 DEF InitWith, Busy, Mine, Idle
<1>5. /\ active = Relation /\ asked = Relation /\ fix = known /\ tangled = {} /\ crashes = 0
      /\ \A r \in Relation : marks[r] = None
  BY <1>1 DEF InitWith
<1>6. Typed
  <2>1. NoPlan \in PlanType
    BY DEF NoPlan, PlanType, None
  <2>2. task \in [Task -> TaskRow]
    <3>1. ASSUME NEW t \in Task PROVE task[t] \in TaskRow
      <4> DEFINE k == t \in known
      <4>1. k \in BOOLEAN
        OBVIOUS
      <4>2. task[t] = [status |-> None, last_error |-> None, attempts |-> 0, lapsed |-> FALSE, plan |-> NoPlan,
                       rollback |-> None, known |-> k]
        BY <1>2
      <4> HIDE DEF k
      <4> QED
        BY <2>1, <4>1, <4>2 DEF TaskRow
    <3> QED
      BY <1>1, <3>1 DEF InitWith
  <2>3. proc \in [Actor -> ProcRow]
    BY <1>1, IdleTyped DEF InitWith
  <2> QED
    BY <1>1, <2>2, <2>3 DEF InitWith, Typed
<1>7. \A ph : LoopIn(ph) <=> "idle" \in ph
  BY <1>4, Names DEF LoopIn, Idle
<1>8. ~LoopIn(Marked) /\ ~LoopIn(After) /\ ~LoopIn({"plan", "final"}) /\ ~LoopIn({"final"})
      /\ ~LoopIn({"mark"} \cup Marked) /\ ~LoopIn({"ingest", "relate", "compensate"})
  BY <1>7 DEF Marked, After, LoopPhase
<1>9. \A t \in Task : ~Stands(t) /\ ~Settled(t) /\ ~LoopOn(t)
  BY <1>3, <1>4, Names DEF Stands, Settled, LoopOn, None
<1>10. RolesKept
  BY <1>3, <1>4, Names DEF RolesKept, None
<1>11. Apart /\ MarksOwned /\ PlansKept /\ SettledForgot /\ LoopKnows /\ LoopPrevs /\ MarksStand /\ UndosKept
  <2>1. UndosKept
    BY <1>4, Names DEF UndosKept, UndoKept, AdminPhase, Idle
  <2> QED
    BY <1>4, <1>5, <1>8, <1>9, <2>1 DEF Apart, MarksOwned, PlansKept, SettledForgot, LoopKnows, LoopPrevs, MarksStand
<1>12. Ordering
  <2>1. Ordered({})
    BY <1>4, <1>8, <1>9, Names DEF Ordered, Antisymmetric, MarksTop, PrevsBelow, LoopBelow, UndoTop, PrevsStand
  <2> QED
    BY <2>1 DEF Ordering
<1>13. HeldDown /\ AskedFor
  BY <1>5 DEF HeldDown, AskedFor, Agree
<1>14. TracesKept
  <2>1. \A t \in Task : Blank(t)
    BY <1>2, <1>3, <1>5 DEF Blank
  <2>2. \A a \in Admin, t \in Task : Mine(a) # t
    BY <1>4, Names
  <2> QED
    BY <1>9, <2>1, <2>2 DEF TracesKept, TraceKept
<1> QED
  BY <1>6, <1>10, <1>11, <1>12, <1>13, <1>14 DEF IInv

\* Nothing happens.
LEMMA StutterKeeps == ASSUME IInv, UNCHANGED vars PROVE IInv'
<1>1. /\ task' = task /\ active' = active /\ marks' = marks /\ stored' = stored
      /\ fix' = fix /\ asked' = asked /\ proc' = proc /\ tangled' = tangled /\ crashes' = crashes
  BY DEF vars
<1>2. Typed' /\ RolesKept' /\ Apart' /\ MarksOwned' /\ PlansKept' /\ SettledForgot'
  BY <1>1 DEF IInv, Typed, RolesKept, Apart, MarksOwned, PlansKept, PlanKept, SettledForgot, Stands, Settled, Busy, Mine, LoopIn, Meet, On
<1>3. \A t \in Task : /\ (Stands(t)' <=> Stands(t)) /\ (Settled(t)' <=> Settled(t))
                      /\ (LoopOn(t)' <=> LoopOn(t)) /\ (Abandoned(t)' <=> Abandoned(t)) /\ (Blank(t)' <=> Blank(t))
  BY <1>1 DEF Stands, Settled, LoopOn, Abandoned, Blank, Busy, Mine
<1>4. /\ \A ph : LoopIn(ph)' <=> LoopIn(ph)
      /\ \A a \in Actor : (Busy(a)' <=> Busy(a)) /\ Mine(a)' = Mine(a)
      /\ Actor = Admin \cup {Loop}
  BY <1>1 DEF LoopIn, Busy, Mine, Actor
<1>5. \A r \in Relation : (Smooth(r)' <=> Smooth(r)) /\ (Undisturbed(r)' <=> Undisturbed(r)) /\ (Agree(r)' <=> Agree(r))
  BY <1>1 DEF Smooth, Undisturbed, Agree
<1>6. Steady
  BY <1>1, <1>3, <1>5 DEF Steady, Calm
<1>7. LoopKnows'
  BY <1>1, <1>4, Names, TargetsAssumption, LoopKnowsKept, <1>3 DEF IInv, RolesKept
<1>8. Ordering'
  BY <1>1, <1>4, <1>6, OrderingKept DEF IInv
<1>9. LoopPrevs'
  BY <1>1, <1>4, <1>6, LoopPrevsKept DEF IInv, Steady
<1>10. MarksStand'
  BY <1>1, <1>3, <1>4, <1>5 DEF IInv, Typed, MarksStand, MarkStands
<1>11. UndosKept'
  <2> SUFFICES ASSUME NEW a \in Admin PROVE UndoKept(a)'
    BY DEF UndosKept
  <2>1. UndoKept(a)
    BY DEF IInv, UndosKept
  <2> QED
    BY <1>1, <2>1 DEF UndoKept, Mine, Smooth, Agree, On
<1>12. HeldDown'
  BY <1>1, <1>3, <1>4, <1>5 DEF IInv, HeldDown, Holds
<1>13. TracesKept'
  BY <1>1, <1>3, <1>4 DEF IInv, TracesKept, TraceKept
<1>14. AskedFor'
  BY <1>1, <1>3, <1>4, <1>5 DEF IInv, AskedFor, Asking
<1> QED
  BY <1>2, <1>7, <1>8, <1>9, <1>10, <1>11, <1>12, <1>13, <1>14 DEF IInv

\* Every step keeps the invariant.
LEMMA StepKeeps == ASSUME "slow" \notin Faults, IInv, [Next]_vars PROVE IInv'
<1>1. ASSUME NEW t \in Task, Enqueue(t) \/ Claim(t) \/ Lapse(t) PROVE IInv'
  BY <1>1, EnqueueKeeps, ClaimKeeps, LapseKeeps
<1>2. ASSUME Process PROVE IInv'
  BY <1>2, ClassifyNothingKeeps, ClassifyApplyKeeps, IngestKnownKeeps, IngestTextKeeps, IngestTextAloneKeeps,
     IngestReferenceKeeps, IngestRaisesKeeps, CompensateKeeps, MarkStaleKeeps, DeriveKeeps, SavePlanKeeps, ApplyKeeps DEF Process
<1>3. ASSUME NEW a \in Admin, RollBack(a) PROVE IInv'
  BY <1>3, RestoreForgottenKeeps, DeleteTextKeeps, DeleteNothingKeeps, CleanupRaisesKeeps,
     RevertCorrectedKeeps, UnmarkKeeps, AskAgainKeeps, CloseRollbackKeeps DEF RollBack
<1>4. ASSUME NEW a \in Admin, NEW t \in Task, StartRollback(a, t) PROVE IInv'
  BY <1>4, StartRollbackKeeps
<1>5. ASSUME Crash PROVE IInv'
  BY <1>5, CrashKeeps
<1>6. ASSUME UNCHANGED vars PROVE IInv'
  BY <1>6, StutterKeeps
<1> QED
  BY <1>1, <1>2, <1>3, <1>4, <1>5, <1>6 DEF Next

\* The inductive invariant holds for ever, when a rollback ends within its lease.
THEOREM Invariance ==
    ASSUME "slow" \notin Faults
    PROVE  Spec => []IInv
<1>1. Init => IInv
  BY InitKeeps
<1>2. IInv /\ [Next]_vars => IInv'
  BY StepKeeps
<1> QED
  BY <1>1, <1>2, PTL DEF Spec

\* A task that claims to be applied has forgotten its relations, left a mark on their
\* paragraphs and saved which mark is to be put back, except where two tasks were at
\* work at once or rolled back out of order (_apply_feedback_decision,
\* finalize_feedback_task).
THEOREM AppliedHolds ==
    ASSUME "slow" \notin Faults
    PROVE  Spec => []AppliedIsForgotten
<1>1. ASSUME IInv PROVE AppliedIsForgotten
  <2>1. TypeOK
    <3>1. \A t \in Task :
            /\ task[t].status \in {None, "pending", "running", "skipped", "applied", "error"}
            /\ task[t].rollback \in {None, "running", "rolled_back", "error"}
            /\ task[t].plan \in PlanType
            /\ task[t].rollback # None => task[t].status = "applied"
      BY <1>1 DEF IInv, Typed, TaskRow, RolesKept
    <3>2. \A a \in Actor : proc[a].task \in Task \cup {None}
      BY <1>1 DEF IInv, Typed, ProcRow
    <3> QED
      BY <1>1, <3>1, <3>2 DEF TypeOK, IInv, Typed
  <2>2. ASSUME NEW t \in Task, task[t].status = "applied", task[t].rollback = None
        PROVE  /\ \A r \in Targets[t] \ tangled : r \notin active /\ marks[r] # None
               /\ {m[1] : m \in task[t].plan.prev} = Targets[t]
               /\ task[t].plan.kind = "correct" => stored[t] = "yes"
    <3>1. Stands(t) /\ Settled(t)
      BY <2>2 DEF Stands, Settled, None
    <3> QED
      BY <1>1, <3>1 DEF IInv, PlansKept, PlanKept, SettledForgot, On
  <2> QED
    BY <2>1, <2>2 DEF AppliedIsForgotten
<1>2. Spec => []IInv
  BY Invariance
<1> QED
  BY <1>1, <1>2, PTL

\* What derives from the relations of an applied or rolled back task was asked to be
\* rebuilt after their last change (the enqueues at the end of _process_feedback_task
\* and of _rollback_feedback_task).
THEOREM DerivedHolds ==
    ASSUME "slow" \notin Faults
    PROVE  Spec => []DerivedIsAsked
<1>1. ASSUME IInv PROVE DerivedIsAsked
  <2> SUFFICES ASSUME AtRest, NEW t \in Task,
                      \A u \in Task : Touch(t, u) => task[u].attempts <= 1 /\ "error" \notin {task[u].status, task[u].rollback},
                      NEW r \in Targets[t]
               PROVE  Agree(r)
    BY DEF DerivedIsAsked, Agree
  <2>1. r \in Relation
    BY TargetsAssumption
  <2>2. Undisturbed(r)
    BY DEF Undisturbed, Touch
  <2>3. \A u \in Task : ~Asking(u)
    BY Names DEF AtRest, Asking, Abandoned, LoopOn, Busy, Idle
  <2> QED
    BY <1>1, <2>1, <2>2, <2>3 DEF IInv, AskedFor
<1>2. Spec => []IInv
  BY Invariance
<1> QED
  BY <1>1, <1>2, PTL

\* When every task on a relation ended without effect or was rolled back, what they
\* wrote is gone, and the relation and its mark are as before if they were rolled back
\* last first (_rollback_feedback_task over the plan of _apply_feedback_decision).
THEOREM UndoneHolds ==
    ASSUME "slow" \notin Faults
    PROVE  Spec => []UndoneLeavesNoTrace
<1>1. ASSUME IInv PROVE UndoneLeavesNoTrace
  <2> SUFFICES ASSUME AtRest, NEW r \in Relation,
                      \A t \in Task : r \in Targets[t] => Undone(t) /\ task[t].attempts <= 1
               PROVE  /\ r \notin tangled => r \in active /\ marks[r] = None
                      /\ \A t \in Task : r \in Targets[t] /\ task[t].rollback = "rolled_back" =>
                            stored[t] = "no" /\ (t \in fix <=> task[t].known)
    BY DEF UndoneLeavesNoTrace
  <2>1. r \notin tangled => Smooth(r)
    BY Names DEF Smooth, Undone, None
  <2>2. \A t \in Task : ~LoopOn(t) /\ ~Abandoned(t) /\ (r \in Targets[t] => ~Stands(t))
    BY Names DEF AtRest, Undone, LoopOn, Abandoned, Stands, Busy, Idle, None
  <2>3. r \notin tangled => r \in active
    BY <1>1, <2>1, <2>2 DEF IInv, HeldDown, Holds
  <2>4. r \notin tangled => marks[r] = None
    <3> SUFFICES ASSUME r \notin tangled, marks[r] # None PROVE FALSE
      OBVIOUS
    <3>1. marks[r] \in Task /\ r \in Targets[marks[r]] /\ MarkStands(marks[r])
      BY <1>1, <2>1 DEF IInv, Typed, MarksOwned, MarksStand
    <3> QED
      BY <2>2, <3>1 DEF MarkStands
  <2>5. ASSUME NEW t \in Task, r \in Targets[t], task[t].rollback = "rolled_back"
        PROVE  stored[t] = "no" /\ (t \in fix <=> task[t].known)
    BY <1>1, <2>5 DEF IInv, TracesKept, TraceKept, Blank
  <2> QED
    BY <2>3, <2>4, <2>5
<1>2. Spec => []IInv
  BY Invariance
<1> QED
  BY <1>1, <1>2, PTL
==============================================================================
