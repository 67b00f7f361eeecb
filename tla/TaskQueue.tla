------------------------------ MODULE TaskQueue ------------------------------
(***************************************************************************)
(* TaskQueue of trinity/_utils/datastructures.py: a priority queue of      *)
(* pending tasks with a limit on the tasks that are not completed yet.     *)
(* Producers call add(), consumers call get() and complete().  All run as  *)
(* coroutines of one event loop, so code between two awaits is atomic:     *)
(* while `running` names an adder, its loop is executing and no other      *)
(* coroutine takes a step.                                                 *)
(*                                                                         *)
(* The asyncio.Lock _full_lock is used as an event: add() acquires it when *)
(* the queue is full and waits for complete(), or for another add(), to    *)
(* release it.                                                             *)
(***************************************************************************)
EXTENDS Integers, FiniteSets, Sequences

CONSTANTS
  Tasks,            \* the tasks that may be queued
  Rank,             \* order_fn: the priority of a task, lowest first
  Adders,           \* coroutines that call add()
  MaxSize,          \* maxsize; 0 means no limit
  MaxResults,       \* the largest max_results a consumer asks for
  BatchIds,         \* batch ids; bounds the batches checked out at one time
  SharedTasks,      \* may two adders try to add the same task at once?
  None

ASSUME TaskQueueAssumption ==
  /\ IsFiniteSet(Tasks)
  /\ Rank \in [Tasks -> Nat]
  /\ None \notin Adders
  /\ MaxSize \in Nat
  /\ MaxResults \in Nat \ {0}
  /\ SharedTasks \in BOOLEAN

VARIABLES
  tasks,       \* _tasks: added and not completed
  openQueue,   \* _open_queue: entries <<task, copy>>, copy tells equal tasks apart
  inProgress,  \* _in_progress: batch id -> the tasks of the batch, {} if unknown
  fullLock,    \* _full_lock: free, held, or passing: unlocked, first waiter woken
  waiters,     \* adders waiting for _full_lock, in FIFO order
  running,     \* the adder whose loop is executing, or None
  pc,          \* where each adder is: idle, loop, put, wait
  remaining,   \* remaining: tasks an adder has still to queue
  queueing,    \* queueing: the slice an adder is inserting
  toPut,       \* the part of the slice that is not in _open_queue yet
  returning,   \* batches whose complete() call is under way
  todo,        \* their incomplete tasks that are not back in _open_queue yet
  done         \* their completed tasks, still in _tasks

lockVars == <<fullLock, waiters>>
addVars == <<running, pc, remaining, queueing, toPut>>
completeVars == <<returning, todo, done>>
vars == <<tasks, openQueue, inProgress, lockVars, addVars, completeVars>>

Copies == 0 .. MaxSize
Entries == Tasks \X Copies

VarTypes ==
  /\ tasks \subseteq Tasks
  /\ openQueue \subseteq Entries
  /\ inProgress \in [BatchIds -> SUBSET Tasks]
  /\ fullLock \in {"free", "held", "passing"}
  /\ waiters \in Seq(Adders)
  /\ running \in Adders \cup {None}
  /\ pc \in [Adders -> {"idle", "loop", "put", "wait"}]
  /\ remaining \in [Adders -> SUBSET Tasks]
  /\ queueing \in [Adders -> SUBSET Tasks]
  /\ toPut \in [Adders -> SUBSET Tasks]
  /\ returning \subseteq BatchIds
  /\ todo \in [BatchIds -> SUBSET Tasks]
  /\ done \in [BatchIds -> SUBSET Tasks]

\* What an add() call still has to do at each of its places: nothing is left
\* when it has returned, and a slice is under way only inside the put loop.
AddShape ==
  \A a \in Adders :
    /\ pc[a] = "idle" => remaining[a] = {}
    /\ pc[a] # "put" => queueing[a] = {}
    /\ toPut[a] \subseteq queueing[a]

\* The shape of the state, whatever the coroutines do; an add() that has
\* returned has inserted all its tasks.
TypeOK == VarTypes /\ AddShape

Init ==
  /\ tasks = {}
  /\ openQueue = {}
  /\ inProgress = [b \in BatchIds |-> {}]
  /\ fullLock = "free"
  /\ waiters = <<>>
  /\ running = None
  /\ pc = [a \in Adders |-> "idle"]
  /\ remaining = [a \in Adders |-> {}]
  /\ queueing = [a \in Adders |-> {}]
  /\ toPut = [a \in Adders |-> {}]
  /\ returning = {}
  /\ todo = [b \in BatchIds |-> {}]
  /\ done = [b \in BatchIds |-> {}]

-----------------------------------------------------------------------------
(* The open queue *)

OpenTasks == {e[1] : e \in openQueue}

QueueFull == MaxSize # 0 /\ Cardinality(openQueue) >= MaxSize

\* asyncio.Queue.put_nowait of one task
Put(t) ==
  \E c \in Copies :
    /\ <<t, c>> \notin openQueue
    /\ \A d \in Copies : d < c => <<t, d>> \in openQueue
    /\ openQueue' = openQueue \cup {<<t, c>>}

\* The subsets of S that hold its n first elements by rank
FirstOf(S, n, rank) ==
  {F \in SUBSET S : /\ Cardinality(F) = n
                    /\ \A x \in F, y \in S \ F : rank[x] <= rank[y]}

-----------------------------------------------------------------------------
(* The lock *)

HasRoom(ts) == MaxSize = 0 \/ Cardinality(ts) < MaxSize

\* asyncio.Lock.release: unlock and resolve the future of the first waiter
Release ==
  /\ fullLock' = IF waiters = <<>> THEN "free" ELSE "passing"
  /\ UNCHANGED waiters

\* the closing lines of add() and complete(), ts being the new _tasks
ReleaseIfRoom(ts) ==
  IF fullLock = "held" /\ Cardinality(ts) < MaxSize THEN Release ELSE UNCHANGED lockVars

-----------------------------------------------------------------------------
(* add() *)

\* Tasks some add() call has taken and not put in _tasks yet
Pending(a) == remaining[a] \cup queueing[a]

Add(a, ts) ==
  /\ running = None
  /\ pc[a] = "idle"
  /\ ts \cap tasks = {}
  /\ ~SharedTasks => \A o \in Adders : ts \cap Pending(o) = {}
  /\ running' = a
  /\ pc' = [pc EXCEPT ![a] = "loop"]
  /\ remaining' = [remaining EXCEPT ![a] = ts]
  /\ UNCHANGED <<tasks, openQueue, inProgress, lockVars, queueing, toPut, completeVars>>

\* Mutant of AddSlice: the slice ignores the tasks that are already queued
AddSliceWhole(a) ==
  /\ running = a /\ pc[a] = "loop" /\ remaining[a] # {} /\ HasRoom(tasks)
  /\ LET size == IF MaxSize < Cardinality(remaining[a]) THEN MaxSize ELSE Cardinality(remaining[a])
     IN  \E slice \in FirstOf(remaining[a], size, Rank) :
           /\ queueing' = [queueing EXCEPT ![a] = slice]
           /\ toPut' = [toPut EXCEPT ![a] = slice]
           /\ remaining' = [remaining EXCEPT ![a] = @ \ slice]
  /\ pc' = [pc EXCEPT ![a] = "put"]
  /\ UNCHANGED <<tasks, openQueue, inProgress, lockVars, running, completeVars>>

\* there is room: take the slice of the highest priority that fits
AddSlice(a) ==
  /\ running = a
  /\ pc[a] = "loop"
  /\ remaining[a] # {}
  /\ HasRoom(tasks)
  /\ LET slots == IF MaxSize = 0 THEN Cardinality(remaining[a])
                                 ELSE MaxSize - Cardinality(tasks)
         size == IF slots < Cardinality(remaining[a]) THEN slots
                                                      ELSE Cardinality(remaining[a])
     IN  \E slice \in FirstOf(remaining[a], size, Rank) :
           /\ queueing' = [queueing EXCEPT ![a] = slice]
           /\ toPut' = [toPut EXCEPT ![a] = slice]
           /\ remaining' = [remaining EXCEPT ![a] = @ \ slice]
  /\ pc' = [pc EXCEPT ![a] = "put"]
  /\ UNCHANGED <<tasks, openQueue, inProgress, lockVars, running, completeVars>>

\* the queue is full: acquire the lock at once, or join its waiters
AddFull(a) ==
  /\ running = a
  /\ pc[a] = "loop"
  /\ remaining[a] # {}
  /\ ~HasRoom(tasks)
  /\ IF fullLock = "free" /\ waiters = <<>>
     THEN /\ fullLock' = "held"
          /\ UNCHANGED <<waiters, running, pc>>
     ELSE /\ waiters' = Append(waiters, a)
          /\ pc' = [pc EXCEPT ![a] = "wait"]
          /\ running' = None
          /\ UNCHANGED fullLock
  /\ UNCHANGED <<tasks, openQueue, inProgress, remaining, queueing, toPut, completeVars>>

\* the first waiter resumes and owns the lock
AddWake(a) ==
  /\ running = None
  /\ pc[a] = "wait"
  /\ fullLock = "passing"
  /\ waiters # <<>> /\ Head(waiters) = a
  /\ fullLock' = "held"
  /\ waiters' = Tail(waiters)
  /\ running' = a
  /\ pc' = [pc EXCEPT ![a] = "loop"]
  /\ UNCHANGED <<tasks, openQueue, inProgress, remaining, queueing, toPut, completeVars>>

\* put the next task of the slice; in priority order
AddPut(a) ==
  /\ running \in {a, None}
  /\ pc[a] = "put"
  /\ toPut[a] # {}
  /\ ~QueueFull
  /\ running' = a
  /\ \E t \in toPut[a] :
       /\ \A u \in toPut[a] : Rank[t] <= Rank[u]
       /\ Put(t)
       /\ toPut' = [toPut EXCEPT ![a] = @ \ {t}]
  /\ UNCHANGED <<tasks, inProgress, lockVars, pc, remaining, queueing, completeVars>>

\* the put blocks: other coroutines run
AddBlock(a) ==
  /\ running = a
  /\ pc[a] = "put"
  /\ toPut[a] # {}
  /\ QueueFull
  /\ running' = None
  /\ UNCHANGED <<tasks, openQueue, inProgress, lockVars, pc, remaining, queueing, toPut, completeVars>>

\* Mutant of AddUpdate: an adder that leaves room does not wake the next one
AddUpdateSilent(a) ==
  /\ running = a /\ pc[a] = "put" /\ toPut[a] = {}
  /\ tasks' = tasks \cup queueing[a]
  /\ queueing' = [queueing EXCEPT ![a] = {}]
  /\ pc' = [pc EXCEPT ![a] = "loop"]
  /\ UNCHANGED <<openQueue, inProgress, lockVars, running, remaining, toPut, completeVars>>

\* the whole slice is in the open queue
AddUpdate(a) ==
  /\ running = a
  /\ pc[a] = "put"
  /\ toPut[a] = {}
  /\ tasks' = tasks \cup queueing[a]
  /\ queueing' = [queueing EXCEPT ![a] = {}]
  /\ ReleaseIfRoom(tasks')
  /\ pc' = [pc EXCEPT ![a] = "loop"]
  /\ UNCHANGED <<openQueue, inProgress, running, remaining, toPut, completeVars>>

\* Mutant of AddReturn: add() returns after one slice
AddReturnEarly(a) ==
  /\ running = a /\ pc[a] = "loop"
  /\ running' = None
  /\ pc' = [pc EXCEPT ![a] = "idle"]
  /\ UNCHANGED <<tasks, openQueue, inProgress, lockVars, remaining, queueing, toPut, completeVars>>

AddReturn(a) ==
  /\ running = a
  /\ pc[a] = "loop"
  /\ remaining[a] = {}
  /\ running' = None
  /\ pc' = [pc EXCEPT ![a] = "idle"]
  /\ UNCHANGED <<tasks, openQueue, inProgress, lockVars, remaining, queueing, toPut, completeVars>>

\* the caller of add() is cancelled while it waits: asyncio.Lock.acquire
\* leaves the queue of waiters and passes a wake-up on
CancelAdd(a) ==
  /\ running = None
  /\ pc[a] = "wait"
  /\ \E k \in 1 .. Len(waiters) :
       /\ waiters[k] = a
       /\ waiters' = SubSeq(waiters, 1, k - 1) \o SubSeq(waiters, k + 1, Len(waiters))
  /\ fullLock' = CASE fullLock = "held" -> "held"
                   [] fullLock # "held" /\ waiters' # <<>> -> "passing"
                   [] OTHER -> "free"
  /\ pc' = [pc EXCEPT ![a] = "idle"]
  /\ remaining' = [remaining EXCEPT ![a] = {}]
  /\ UNCHANGED <<tasks, openQueue, inProgress, running, queueing, toPut, completeVars>>

\* the caller of add() is cancelled while a put blocks: what it has put stays
CancelPut(a) ==
  /\ running = None
  /\ pc[a] = "put"
  /\ pc' = [pc EXCEPT ![a] = "idle"]
  /\ remaining' = [remaining EXCEPT ![a] = {}]
  /\ queueing' = [queueing EXCEPT ![a] = {}]
  /\ toPut' = [toPut EXCEPT ![a] = {}]
  /\ UNCHANGED <<tasks, openQueue, inProgress, lockVars, running, completeVars>>

-----------------------------------------------------------------------------
(* get() and complete() *)

\* Mutant of Get: tasks are handed out in any order
GetUnordered(b, max_results) ==
  /\ running = None /\ openQueue # {} /\ inProgress[b] = {} /\ b \notin returning
  /\ \E batch \in SUBSET openQueue :
       /\ Cardinality(batch) \in 1 .. max_results
       /\ openQueue' = openQueue \ batch
       /\ inProgress' = [inProgress EXCEPT ![b] = {e[1] : e \in batch}]
  /\ UNCHANGED <<tasks, lockVars, addVars, completeVars>>

\* get(max_results), and get_nowait when the queue is not empty; b is the
\* next id of _id_generator, any id no outstanding call uses
Get(b, max_results) ==
  /\ running = None
  /\ openQueue # {}
  /\ inProgress[b] = {} /\ b \notin returning
  /\ LET available == Cardinality(openQueue)
         size == IF max_results < available THEN max_results ELSE available
     IN  \E batch \in FirstOf(openQueue, size, [e \in Entries |-> Rank[e[1]]]) :
           /\ openQueue' = openQueue \ batch
           /\ inProgress' = [inProgress EXCEPT ![b] = {e[1] : e \in batch}]
  /\ UNCHANGED <<tasks, lockVars, addVars, completeVars>>

\* Mutant of PutBack: incomplete tasks are not put back
PutBackSkipped(b, rest, completed) ==
  /\ \E t \in rest : todo' = [todo EXCEPT ![b] = rest \ {t}]
  /\ done' = [done EXCEPT ![b] = completed]
  /\ returning' = returning \cup {b}
  /\ UNCHANGED <<tasks, openQueue, lockVars>>

\* put the incomplete task t of rest back, and yield
PutBack(b, rest, completed) ==
  /\ ~QueueFull
  /\ \E t \in rest : Put(t) /\ todo' = [todo EXCEPT ![b] = rest \ {t}]
  /\ done' = [done EXCEPT ![b] = completed]
  /\ returning' = returning \cup {b}
  /\ UNCHANGED <<tasks, lockVars>>

\* Mutant of Finish: completing tasks does not release the lock
FinishSilent(b, completed) ==
  /\ tasks' = tasks \ completed
  /\ done' = [done EXCEPT ![b] = {}]
  /\ returning' = returning \ {b}
  /\ UNCHANGED <<openQueue, todo, lockVars>>

\* nothing (more) to put back
Finish(b, completed) ==
  /\ tasks' = tasks \ completed
  /\ ReleaseIfRoom(tasks')
  /\ done' = [done EXCEPT ![b] = {}]
  /\ returning' = returning \ {b}
  /\ UNCHANGED <<openQueue, todo>>

\* Mutant of CompleteStart: the batch stays in _in_progress
CompleteStartKeeps(b, completed) ==
  /\ running = None /\ inProgress[b] # {} /\ b \notin returning
  /\ LET incomplete == inProgress[b] \ completed
     IN  (incomplete = {} /\ Finish(b, completed)) \/ PutBack(b, incomplete, completed)
  /\ UNCHANGED <<inProgress, addVars>>

\* the batch is popped and its first incomplete task put back
CompleteStart(b, completed) ==
  /\ running = None
  /\ inProgress[b] # {}
  /\ inProgress' = [inProgress EXCEPT ![b] = {}]
  /\ LET incomplete == inProgress[b] \ completed
     IN  (incomplete = {} /\ Finish(b, completed)) \/ PutBack(b, incomplete, completed)
  /\ UNCHANGED addVars

\* the batch is popped and the first put blocks
CompleteBlock(b, completed) ==
  /\ running = None
  /\ inProgress[b] \ completed # {}
  /\ QueueFull
  /\ inProgress' = [inProgress EXCEPT ![b] = {}]
  /\ todo' = [todo EXCEPT ![b] = inProgress[b] \ completed]
  /\ done' = [done EXCEPT ![b] = completed]
  /\ returning' = returning \cup {b}
  /\ UNCHANGED <<tasks, openQueue, lockVars, addVars>>

\* the call resumes after sleep(0), or after its put stops blocking
CompleteResume(b) ==
  /\ running = None
  /\ b \in returning
  /\ \/ PutBack(b, todo[b], done[b])
     \/ todo[b] = {} /\ Finish(b, done[b])
  /\ UNCHANGED <<inProgress, addVars>>

\* the coroutine is cancelled at an await of complete()
CancelComplete(b) ==
  /\ running = None
  /\ b \in returning
  /\ returning' = returning \ {b}
  /\ todo' = [todo EXCEPT ![b] = {}]
  /\ done' = [done EXCEPT ![b] = {}]
  /\ UNCHANGED <<tasks, openQueue, inProgress, lockVars, addVars>>

-----------------------------------------------------------------------------
Adding(a) == AddSlice(a) \/ AddFull(a) \/ AddWake(a) \/ AddPut(a) \/ AddUpdate(a) \/ AddReturn(a)

Completing(b) == (\E completed \in SUBSET inProgress[b] : CompleteStart(b, completed)) \/ CompleteResume(b)

Next ==
  \/ \E a \in Adders : (\E ts \in (SUBSET Tasks) \ {{}} : Add(a, ts)) \/ Adding(a) \/ CancelAdd(a)
  \/ \E b \in BatchIds : (\E n \in 1 .. MaxResults : Get(b, n)) \/ Completing(b)

Spec == Init /\ [][Next]_vars

\* The steps in which a put blocks, which AlwaysRoom excludes while callers
\* coordinate (~SharedTasks), and the cancellation of consumers
AllNext ==
  \/ Next
  \/ \E a \in Adders : AddBlock(a) \/ CancelPut(a)
  \/ \E b \in BatchIds : (\E completed \in SUBSET inProgress[b] : CompleteBlock(b, completed))
                         \/ CancelComplete(b)

AllSpec == Init /\ [][AllNext]_vars

\* Fairness: the event loop keeps a queue of ready coroutines and runs each of
\* them, though others run in between (hence SF); consumers take pending tasks
\* and, time and again, complete some task of their batch.
Progress(b) == \E completed \in (SUBSET inProgress[b]) \ {{}} : CompleteStart(b, completed)

FairSpec ==
  /\ Spec
  /\ \A a \in Adders : SF_vars(Adding(a))
  /\ SF_vars(\E b \in BatchIds : Get(b, 1))
  /\ \A b \in BatchIds : SF_vars(CompleteResume(b)) /\ SF_vars(Progress(b))

-----------------------------------------------------------------------------
(* Properties *)

CheckedOut(b) == inProgress[b] \cup todo[b]

\* A task is in one place only: it is not pending while a consumer has it, and
\* no two consumers have it (get() hands a task to one consumer, complete()
\* returns it before anybody else can take it).  Holds when callers do not add
\* a task that another caller is still adding.
OneCheckout ==
  /\ \A b \in BatchIds : CheckedOut(b) \cap OpenTasks = {}
  /\ \A b, c \in BatchIds : b # c => CheckedOut(b) \cap CheckedOut(c) = {}

\* No task is forgotten: whatever add() inserted and complete() did not remove
\* is pending, checked out, or being settled by a complete() under way.
NothingLost ==
  tasks \subseteq OpenTasks \cup UNION {CheckedOut(b) \cup done[b] : b \in BatchIds}

\* The limit on tasks that are not completed is never exceeded, whatever add()
\* calls interleave at the lock.
Capacity == MaxSize # 0 => Cardinality(tasks) <= MaxSize

\* complete() always finds room to put an incomplete task back, and add()
\* never blocks inside put(): the comment in complete() expects as much.
AlwaysRoom ==
  /\ \A b \in BatchIds : CheckedOut(b) # {} => ~QueueFull
  /\ \A a \in Adders : toPut[a] # {} => ~QueueFull

\* No lost wake-up: when there is room and adders wait for the lock, the first
\* of them has been woken (release() is not missed in add() or complete(), and
\* a cancelled waiter passes its wake-up on).
NoLostWakeup ==
  running = None /\ waiters # <<>> /\ HasRoom(tasks) => fullLock = "passing"

\* A full queue does not block an add() for ever: it is woken after some task
\* is completed, although the lock it waits for has no owner.
AddWoken == \A a \in Adders : pc[a] = "wait" ~> pc[a] # "wait"

\* TaskQueue implements the pool its docstring describes: a task that is in the
\* open queue is pending, and one that is in _tasks only is checked out.
Pool ==
  INSTANCE TaskPool WITH
    status <- [t \in Tasks |-> IF t \in OpenTasks THEN "pending"
                               ELSE IF t \in tasks THEN "taken" ELSE "absent"]

ImplementsPool == Pool!Spec
=============================================================================
