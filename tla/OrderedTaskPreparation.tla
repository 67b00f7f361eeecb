----------------------- MODULE OrderedTaskPreparation ------------------------
(***************************************************************************)
(* OrderedTaskPreparation of trinity/_utils/datastructures.py: tasks that   *)
(* each depend on one other task are handed out in dependency order, each   *)
(* once its own prerequisites are complete.  The header stitcher, the block *)
(* body syncer and the block importer are each built on one.                *)
(*                                                                         *)
(* Only ready_tasks() and wait_add_tasks() can suspend.  The other calls are *)
(* synchronous loops; a loop is spelled out in steps, and while one is under *)
(* way (Quiet is false) no other call starts.  _roots is given by the parent *)
(* links it is built from: what it computes from them is module RootTracker. *)
(***************************************************************************)
EXTENDS Integers, FiniteSets, Sequences, Functions

CONSTANTS
  Tasks,         \* task ids
  Dep,           \* dependency_extractor: the id a task depends on
  Prereqs,       \* the prerequisites every task has
  Adders,        \* coroutines that call wait_add_tasks()
  Dangling,      \* accept_dangling_tasks
  MaxDepth,      \* max_depth
  MaxTasks,      \* max_tasks; 0 stands for None
  MaxCall,       \* the most tasks one call registers
  MaxResults,    \* the largest max_results the consumer asks for
  LateRegister,  \* may a task be registered below which tasks are already tracked?
  AheadDeclare,  \* may a task be declared finished before what it depends on was
                 \* handed out?
  Redeclare      \* may a task be declared finished again once it was pruned? A
                 \* bound for trackers without max_tasks

ASSUME OTPAssumption ==
  /\ IsFiniteSet(Tasks)
  /\ DOMAIN Dep = Tasks
  /\ \A t \in Tasks : Dep[t] # t
  /\ IsFiniteSet(Prereqs)
  /\ MaxDepth \in Nat
  /\ MaxTasks \in Nat
  /\ MaxCall \in Nat \ {0}
  /\ MaxResults \in Nat \ {0}
  /\ {Dangling, LateRegister, AheadDeclare, Redeclare} \subseteq BOOLEAN

VARIABLES
  tasks,      \* the keys of _tasks
  finished,   \* _completed_prereqs of the tasks
  unready,    \* _unready
  ready,      \* _ready_tasks
  declared,   \* _declared_finished
  yielded,    \* _last_yielded_tasks
  toRegister, \* what the register_tasks() call under way has left
  marking,    \* qualified_tasks of the _mark_complete() call under way
  toPrune,    \* the _prune_finished() calls ready_tasks() has left
  consumer,   \* is a ready_tasks() call under way?
  adder,      \* idle, asleep in wait_add_tasks(), or woken by the event
  retry,      \* what MissingDependency left of a call, until its caller retries
  \* history: tasks ever put in _ready_tasks, those of them still tracked, tasks
  \* ever declared finished, and those that had all their prerequisites when
  \* their dependency was declared
  emitted, out, everDeclared, overtaken

history == <<emitted, out, everDeclared, overtaken>>
vars == <<tasks, finished, unready, ready, declared, yielded, toRegister, marking, toPrune,
          consumer, adder, retry, history>>

\* The shape of the state; ready_tasks() yields no more than it was asked for.
TypeOK ==
  /\ tasks \subseteq Tasks
  /\ finished \in [Tasks -> SUBSET Prereqs]
  /\ unready \subseteq Tasks
  /\ ready \in Seq(Tasks)
  /\ declared \subseteq Tasks
  /\ yielded \in Seq(Tasks) /\ Len(yielded) <= MaxResults
  /\ toRegister \subseteq Tasks
  /\ marking \in Seq(Tasks)
  /\ toPrune \in Seq(Tasks)
  /\ consumer \in {"idle", "waiting"}
  /\ adder \in [Adders -> {"idle", "asleep", "woken"}]
  /\ retry \subseteq Tasks
  /\ emitted \subseteq Tasks
  /\ out \subseteq Tasks
  /\ everDeclared \subseteq Tasks
  /\ overtaken \subseteq Tasks

Init ==
  /\ tasks = {}
  /\ finished = [t \in Tasks |-> {}]
  /\ unready = {}
  /\ ready = <<>>
  /\ declared = {}
  /\ yielded = <<>>
  /\ toRegister = {}
  /\ marking = <<>>
  /\ toPrune = <<>>
  /\ consumer = "idle"
  /\ adder = [a \in Adders |-> "idle"]
  /\ retry = {}
  /\ emitted = {}
  /\ out = {}
  /\ everDeclared = {}
  /\ overtaken = {}

-----------------------------------------------------------------------------
Quiet == toRegister = {} /\ marking = <<>> /\ toPrune = <<>>

Tree == INSTANCE Forest WITH Nodes <- Tasks, parent <- [t \in tasks |-> Dep[t]]

Children(t) == {c \in tasks : Dep[c] = t}

IsComplete(t) == finished[t] = Prereqs

NumTasks == Len(ready) + Cardinality(unready)

IsReady(t) == Dep[t] \in declared \/ Dep[t] \in tasks \ unready

\* The orders in which the members of a set can be listed
Orders(S) == {f \in [1 .. Cardinality(S) -> S] : Range(f) = S /\ IsInjective(f)}

-----------------------------------------------------------------------------
(* set_finished_dependency() *)

\* t may have children that wait for it, if it was pruned or they dangled before:
\* none of them is looked at.
set_finished_dependency(t) ==
  /\ Quiet
  /\ t \notin tasks
  /\ Redeclare \/ t \notin everDeclared
  /\ AheadDeclare \/ Dep[t] \notin unready \cup Range(ready)
  /\ tasks' = tasks \cup {t}
  /\ declared' = declared \cup {t}
  /\ finished' = [finished EXCEPT ![t] = Prereqs]
  /\ everDeclared' = everDeclared \cup {t}
  /\ overtaken' = overtaken \cup {c \in Children(t) : IsComplete(c) /\ c \in unready}
  /\ UNCHANGED <<unready, ready, yielded, toRegister, marking, toPrune, consumer, adder,
                 retry, emitted, out>>

-----------------------------------------------------------------------------
(* register_tasks() and wait_add_tasks() *)

\* Mutant of FreshOf: duplicates are not filtered out.
FreshOfAll(ts) == ts

\* With ignore_duplicates, tasks that are tracked already are dropped from the
\* call.  Without it such a call is rejected and changes nothing.
FreshOf(ts) == ts \ tasks

Acceptable(ts) == ~LateRegister => \A t \in ts \ tasks : Children(t) = {}

\* Called directly where there is no limit, or to retry what wait_add_tasks() had
\* room for: a tracker has one producer, so no other call comes in between.
register_tasks(ts) ==
  /\ Quiet
  /\ MaxTasks = 0 \/ ts \subseteq retry
  /\ Acceptable(ts)
  /\ toRegister' = FreshOf(ts)
  /\ retry' = {}
  /\ UNCHANGED <<tasks, finished, unready, ready, declared, yielded, marking, toPrune,
                 consumer, adder, history>>

\* Mutant of RegisterOne: a task without prerequisites is left to finish_prereq().
RegisterOneUnchecked(t) ==
  /\ marking = <<>>
  /\ t \in toRegister
  /\ Dangling \/ Dep[t] \in tasks
  /\ tasks' = tasks \cup {t}
  /\ finished' = [finished EXCEPT ![t] = {}]
  /\ unready' = unready \cup {t}
  /\ toRegister' = toRegister \ {t}
  /\ UNCHANGED <<ready, declared, yielded, marking, toPrune, consumer, adder, retry, history>>

\* One round of the loop: the caller lists the tasks in any order
RegisterOne(t) ==
  /\ marking = <<>>
  /\ t \in toRegister
  /\ Dangling \/ Dep[t] \in tasks
  /\ tasks' = tasks \cup {t}
  /\ finished' = [finished EXCEPT ![t] = {}]
  /\ unready' = unready \cup {t}
  /\ marking' = IF Prereqs = {} /\ IsReady(t) THEN <<t>> ELSE <<>>
  /\ toRegister' = toRegister \ {t}
  /\ UNCHANGED <<ready, declared, yielded, toPrune, consumer, adder, retry, history>>

\* MissingDependency ends the call; the tasks before it stay registered
RegisterMissing(t) ==
  /\ marking = <<>>
  /\ t \in toRegister
  /\ ~Dangling /\ Dep[t] \notin tasks
  /\ toRegister' = {}
  /\ retry' = toRegister
  /\ UNCHANGED <<tasks, finished, unready, ready, declared, yielded, marking, toPrune,
                 consumer, adder, history>>

\* Mutant of HasRoom: the limit itself still counts as room.
HasRoomAtLimit == MaxTasks = 0 \/ NumTasks <= MaxTasks

HasRoom == MaxTasks = 0 \/ NumTasks < MaxTasks

wait_add_tasks(a, ts) ==
  /\ Quiet
  /\ adder[a] \in {"idle", "woken"}
  /\ HasRoom
  /\ Acceptable(ts)
  /\ adder' = [adder EXCEPT ![a] = "idle"]
  /\ toRegister' = FreshOf(ts)
  /\ retry' = {}
  /\ UNCHANGED <<tasks, finished, unready, ready, declared, yielded, marking, toPrune,
                 consumer, history>>

\* Without room the call clears the event and waits for it
WaitForRoom(a) ==
  /\ Quiet
  /\ adder[a] \in {"idle", "woken"}
  /\ ~HasRoom
  /\ adder' = [adder EXCEPT ![a] = "asleep"]
  /\ UNCHANGED <<tasks, finished, unready, ready, declared, yielded, toRegister, marking,
                 toPrune, consumer, retry, history>>

CancelWait(a) ==
  /\ Quiet
  /\ adder[a] # "idle"
  /\ adder' = [adder EXCEPT ![a] = "idle"]
  /\ UNCHANGED <<tasks, finished, unready, ready, declared, yielded, toRegister, marking,
                 toPrune, consumer, retry, history>>

-----------------------------------------------------------------------------
(* finish_prereq() and the propagation of readiness *)

\* Mutant of finish_prereq: it does not ask whether the dependency is ready.
finish_prereq_eager(p, t) ==
  /\ Quiet
  /\ t \in tasks \cap unready
  /\ p \notin finished[t]
  /\ finished' = [finished EXCEPT ![t] = @ \cup {p}]
  /\ marking' = IF finished[t] \cup {p} = Prereqs THEN <<t>> ELSE <<>>
  /\ UNCHANGED <<tasks, unready, ready, declared, yielded, toRegister, toPrune, consumer,
                 adder, retry, history>>

finish_prereq(p, t) ==
  /\ Quiet
  /\ t \in tasks \cap unready
  /\ p \notin finished[t]
  /\ finished' = [finished EXCEPT ![t] = @ \cup {p}]
  /\ marking' = IF finished[t] \cup {p} = Prereqs /\ IsReady(t) THEN <<t>> ELSE <<>>
  /\ UNCHANGED <<tasks, unready, ready, declared, yielded, toRegister, toPrune, consumer,
                 adder, retry, history>>

\* Mutant of Qualified: nothing is propagated.
QualifiedNone(t) == {}

Qualified(t) == {c \in Children(t) : IsComplete(c) /\ c \in unready}

\* _mark_one_task_complete() for the first qualified task.  A level of the
\* breadth-first walk is worked off before the next one: that is a queue.
MarkOne ==
  /\ marking # <<>>
  /\ LET t == Head(marking) IN
       /\ ready' = Append(ready, t)
       /\ unready' = unready \ {t}
       /\ \E kids \in Orders(Qualified(t)) : marking' = Tail(marking) \o kids
       /\ emitted' = emitted \cup {t}
       /\ out' = out \cup {t}
       /\ overtaken' = overtaken \ {t}
  /\ UNCHANGED <<tasks, finished, declared, yielded, toRegister, toPrune, consumer, adder,
                 retry, everDeclared>>

-----------------------------------------------------------------------------
(* ready_tasks().  A call that is cancelled is the tracker's last one: its *)
(* callers are the main loops of the services that own it.                *)

\* Every task of the last batch is given to _prune_finished() twice
ready_tasks ==
  /\ Quiet
  /\ consumer = "idle"
  /\ consumer' = "waiting"
  /\ toPrune' = [i \in 1 .. 2 * Len(yielded) |-> yielded[(i + 1) \div 2]]
  /\ UNCHANGED <<tasks, finished, unready, ready, declared, yielded, toRegister, marking,
                 adder, retry, history>>

PruneDue(t) == t \in tasks /\ Tree!Depth(t) - MaxDepth > 0

\* The root above t when it is due, else nothing
Prunable(t) ==
  IF PruneDue(t) THEN {{r} : r \in {m \in Tree!Path(t) : ~Tree!HasParent(m)}} ELSE {{}}

\* Mutant of PruneOne: the pruned task stays in _declared_finished.
PruneOneDeclared ==
  /\ toPrune # <<>>
  /\ toPrune' = Tail(toPrune)
  /\ \E gone \in Prunable(Head(toPrune)) :
       /\ tasks' = tasks \ gone
       /\ out' = out \ gone
  /\ UNCHANGED <<finished, unready, ready, declared, yielded, toRegister, marking, consumer,
                 adder, retry, emitted, everDeclared,
                 overtaken>>

\* _prune_finished() and _prune(); _unready is not touched
PruneOne ==
  /\ toPrune # <<>>
  /\ toPrune' = Tail(toPrune)
  /\ \E gone \in Prunable(Head(toPrune)) :
       /\ tasks' = tasks \ gone
       /\ declared' = declared \ gone
       /\ out' = out \ gone
  /\ UNCHANGED <<finished, unready, ready, yielded, toRegister, marking, consumer, adder,
                 retry, emitted, everDeclared,
                 overtaken>>

\* Mutants of WakeAdders: the event is not set; only one waiting call resumes.
WakeAddersNone == UNCHANGED adder

WakeAddersOne ==
  IF \E a \in Adders : adder[a] = "asleep"
    THEN \E a \in Adders : adder[a] = "asleep" /\ adder' = [adder EXCEPT ![a] = "woken"]
    ELSE UNCHANGED adder

\* _ready_count_dropped.set() resumes all that wait for it.  The event is
\* cleared before every wait, so its value does not matter otherwise.
WakeAdders ==
  adder' = [a \in Adders |-> IF adder[a] = "asleep" THEN "woken" ELSE adder[a]]

ready_tasks_return(n) ==
  /\ Quiet
  /\ consumer = "waiting"
  /\ ready # <<>>
  /\ LET k == IF n <= Len(ready) THEN n ELSE Len(ready) IN
       /\ yielded' = SubSeq(ready, 1, k)
       /\ ready' = SubSeq(ready, k + 1, Len(ready))
  /\ WakeAdders
  /\ consumer' = "idle"
  /\ UNCHANGED <<tasks, finished, unready, declared, toRegister, marking, toPrune, retry, history>>

-----------------------------------------------------------------------------
Calls == {ts \in SUBSET Tasks : ts # {} /\ Cardinality(ts) <= MaxCall}

Next ==
  \/ \E t \in Tasks : set_finished_dependency(t)
  \/ \E ts \in Calls : register_tasks(ts)
  \/ \E t \in Tasks : RegisterOne(t)
  \/ \E t \in Tasks : RegisterMissing(t)
  \/ \E a \in Adders, ts \in Calls : wait_add_tasks(a, ts)
  \/ \E a \in Adders : WaitForRoom(a)
  \/ \E a \in Adders : CancelWait(a)
  \/ \E p \in Prereqs, t \in Tasks : finish_prereq(p, t)
  \/ MarkOne
  \/ ready_tasks
  \/ PruneOne
  \/ \E n \in 1 .. MaxResults : ready_tasks_return(n)

Spec == Init /\ [][Next]_vars

\* The event loop finishes every synchronous loop and resumes woken calls; the
\* consumer keeps calling ready_tasks(), and whoever fetches what the tasks
\* need goes on until it has it.
Progress ==
  /\ WF_vars(\E t \in Tasks : RegisterOne(t) \/ RegisterMissing(t))
  /\ WF_vars(MarkOne)
  /\ WF_vars(PruneOne)
  /\ SF_vars(ready_tasks)
  /\ SF_vars(\E n \in 1 .. MaxResults : ready_tasks_return(n))
  /\ \A t \in Tasks : SF_vars(\E p \in Prereqs : finish_prereq(p, t))

FairSpec == Spec /\ Progress

-----------------------------------------------------------------------------
(* Properties *)

\* A task is ready once its prerequisites are complete and its dependency is
\* ready: between calls, none that is so still waits among the unready.
ReadyIsHandedOut ==
  Quiet => \A t \in tasks \cap unready : IsComplete(t) => ~IsReady(t)

\* No ready task is overlooked: between calls, a task whose prerequisites are
\* all finished and whose dependency is ready is in the ready queue or beyond,
\* unless it is declared finished itself or had them all before its dependency was.
\* finish_prereq(), register_tasks() and _mark_complete() must propagate readiness
\* to every descendant that was waiting for it, in whatever order tasks are
\* registered, completed, pruned and declared.
NothingStuck ==
  Quiet => \A t \in (tasks \cap unready) \ (declared \cup overtaken) : IsComplete(t) => ~IsReady(t)

\* A task is put in the ready queue at most once while it is tracked, however
\* often it is registered again: no task that waits to become ready was put
\* there already, and _mark_complete() never walks over a task twice.
EmittedOnce ==
  /\ unready \cap out = {}
  /\ Range(marking) \subseteq unready
  /\ IsInjective(marking)

\* Tasks come out after what they depend on: the dependency of every task that
\* was ever put in the ready queue was put there before, or declared finished.
DependencyFirst == \A t \in emitted : Dep[t] \in emitted \cup everDeclared

\* Pruning forgets only what was handed out or declared finished: the tasks that
\* num_unready() counts are tracked, so that finish_prereq() accepts them.
Tracked == unready \cup declared \cup out \subseteq tasks

\* wait_add_tasks() looks at the limit once per call: the pipeline holds fewer
\* than max_tasks tasks, plus those of one call.
Bounded == MaxTasks # 0 => NumTasks <= MaxTasks - 1 + MaxCall

\* No lost wake-up: a wait_add_tasks() call that is still waiting for the event
\* has no room, however the event was set and cleared by others in between.
NoForgottenAdder == \A a \in Adders : adder[a] = "asleep" => ~HasRoom

\* A caller that waits for room gets another look at the limit, as long as the
\* consumer comes back and prerequisites arrive, unless a task that can not become
\* ready takes the room: one of a fork whose root was pruned, or one that was
\* overtaken by the declaration of its dependency.
Stranded == {t \in unready : Dep[t] \notin tasks \/ t \in overtaken}

AdderResumes ==
  \A a \in Adders : adder[a] = "asleep" ~> (adder[a] # "asleep" \/ Stranded # {})
=============================================================================
