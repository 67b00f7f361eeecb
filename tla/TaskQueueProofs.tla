--------------------------- MODULE TaskQueueProofs ---------------------------
(* Proofs about TaskQueue. *)
EXTENDS TaskQueue, FiniteSetTheorems, TLAPS

\* put_nowait keeps the open queue a set of entries.
LEMMA PutType ==
  ASSUME VarTypes, NEW t \in Tasks, Put(t)
  PROVE  openQueue' \subseteq Entries
BY DEF VarTypes, Put, Entries

\* Releasing the lock keeps its type.
LEMMA ReleaseType ==
  ASSUME VarTypes, NEW ts, ReleaseIfRoom(ts)
  PROVE  /\ fullLock' \in {"free", "held", "passing"}
         /\ waiters' \in Seq(Adders)
BY DEF VarTypes, ReleaseIfRoom, Release, lockVars

\* One step of PutBack and of Finish keeps the variables they assign in type.
LEMMA PutBackType ==
  ASSUME VarTypes, NEW b \in BatchIds, NEW rest \in SUBSET Tasks,
         NEW completed \in SUBSET Tasks, PutBack(b, rest, completed)
  PROVE  /\ openQueue' \subseteq Entries
         /\ todo' \in [BatchIds -> SUBSET Tasks]
         /\ done' \in [BatchIds -> SUBSET Tasks]
         /\ returning' \subseteq BatchIds
         /\ UNCHANGED <<tasks, fullLock, waiters>>
<1>1. PICK t \in rest : Put(t) /\ todo' = [todo EXCEPT ![b] = rest \ {t}]
  BY DEF PutBack
<1>2. openQueue' \subseteq Entries
  BY <1>1, PutType
<1> QED
  BY <1>1, <1>2 DEF PutBack, VarTypes, lockVars

LEMMA FinishType ==
  ASSUME VarTypes, NEW b \in BatchIds, NEW completed \in SUBSET Tasks, Finish(b, completed)
  PROVE  /\ tasks' \subseteq Tasks
         /\ fullLock' \in {"free", "held", "passing"}
         /\ waiters' \in Seq(Adders)
         /\ done' \in [BatchIds -> SUBSET Tasks]
         /\ returning' \subseteq BatchIds
         /\ UNCHANGED <<openQueue, todo>>
<1>1. ReleaseIfRoom(tasks')
  BY DEF Finish
<1> QED
  BY <1>1, ReleaseType DEF Finish, VarTypes

\* Every step keeps the types.
LEMMA TypesStep ==
  ASSUME VarTypes, [AllNext]_vars
  PROVE  VarTypes'
<1>1. ASSUME NEW a \in Adders, NEW ts \in SUBSET Tasks, Add(a, ts) PROVE VarTypes'
  BY <1>1 DEF Add, VarTypes, lockVars, completeVars
<1>2. ASSUME NEW a \in Adders, AddSlice(a) PROVE VarTypes'
  BY <1>2 DEF AddSlice, FirstOf, VarTypes, lockVars, completeVars
<1>3. ASSUME NEW a \in Adders, AddFull(a) PROVE VarTypes'
  <2>1. /\ fullLock' \in {"free", "held", "passing"}
        /\ waiters' \in Seq(Adders)
        /\ pc' \in [Adders -> {"idle", "loop", "put", "wait"}]
        /\ running' \in Adders \cup {None}
    <3>1. CASE fullLock = "free" /\ waiters = <<>>
      BY <1>3, <3>1 DEF AddFull, VarTypes
    <3>2. CASE ~(fullLock = "free" /\ waiters = <<>>)
      <4>1. /\ waiters' = Append(waiters, a)
            /\ pc' = [pc EXCEPT ![a] = "wait"]
            /\ running' = None
            /\ fullLock' = fullLock
        BY <1>3, <3>2 DEF AddFull
      <4>2. waiters' \in Seq(Adders)
        BY <4>1 DEF VarTypes
      <4> QED BY <4>1, <4>2 DEF VarTypes
    <3> QED BY <3>1, <3>2
  <2> QED
    BY <1>3, <2>1 DEF AddFull, VarTypes, completeVars
<1>4. ASSUME NEW a \in Adders, AddWake(a) PROVE VarTypes'
  BY <1>4 DEF AddWake, VarTypes, completeVars
<1>5. ASSUME NEW a \in Adders, AddPut(a) PROVE VarTypes'
  <2>1. PICK t \in toPut[a] : Put(t) /\ toPut' = [toPut EXCEPT ![a] = @ \ {t}]
    BY <1>5 DEF AddPut
  <2>2. openQueue' \subseteq Entries
    BY <2>1, PutType DEF VarTypes
  <2> QED
    BY <1>5, <2>1, <2>2 DEF AddPut, VarTypes, lockVars, completeVars
<1>6. ASSUME NEW a \in Adders, AddBlock(a) PROVE VarTypes'
  BY <1>6 DEF AddBlock, VarTypes, lockVars, completeVars
<1>7. ASSUME NEW a \in Adders, AddUpdate(a) PROVE VarTypes'
  <2>1. ReleaseIfRoom(tasks')
    BY <1>7 DEF AddUpdate
  <2> QED
    BY <1>7, <2>1, ReleaseType DEF AddUpdate, VarTypes, completeVars
<1>8. ASSUME NEW a \in Adders, AddReturn(a) PROVE VarTypes'
  BY <1>8 DEF AddReturn, VarTypes, lockVars, completeVars
<1>9. ASSUME NEW a \in Adders, CancelAdd(a) PROVE VarTypes'
  <2>1. PICK k \in 1 .. Len(waiters) :
          waiters' = SubSeq(waiters, 1, k - 1) \o SubSeq(waiters, k + 1, Len(waiters))
    BY <1>9 DEF CancelAdd
  <2>2. waiters' \in Seq(Adders)
    BY <2>1 DEF VarTypes
  <2>3. fullLock' \in {"free", "held", "passing"}
    BY <1>9 DEF CancelAdd
  <2> QED
    BY <1>9, <2>2, <2>3 DEF CancelAdd, VarTypes, completeVars
<1>10. ASSUME NEW a \in Adders, CancelPut(a) PROVE VarTypes'
  BY <1>10 DEF CancelPut, VarTypes, lockVars, completeVars
<1>11. ASSUME NEW b \in BatchIds, NEW n \in 1 .. MaxResults, Get(b, n) PROVE VarTypes'
  <2>1. PICK batch \in SUBSET openQueue :
          /\ openQueue' = openQueue \ batch
          /\ inProgress' = [inProgress EXCEPT ![b] = {e[1] : e \in batch}]
    BY <1>11 DEF Get, FirstOf
  <2>2. {e[1] : e \in batch} \subseteq Tasks
    BY <2>1 DEF VarTypes, Entries
  <2> QED
    BY <1>11, <2>1, <2>2 DEF Get, VarTypes, lockVars, addVars, completeVars
<1>12. ASSUME NEW b \in BatchIds, NEW completed \in SUBSET inProgress[b], CompleteStart(b, completed)
       PROVE VarTypes'
  <2> DEFINE incomplete == inProgress[b] \ completed
  <2>1. incomplete \in SUBSET Tasks /\ completed \in SUBSET Tasks
    BY DEF VarTypes
  <2>2. inProgress' \in [BatchIds -> SUBSET Tasks] /\ UNCHANGED addVars
    BY <1>12 DEF CompleteStart, VarTypes
  <2>3. CASE Finish(b, completed)
    BY <2>1, <2>2, <2>3, FinishType DEF VarTypes, addVars
  <2>4. CASE PutBack(b, incomplete, completed)
    BY <2>1, <2>2, <2>4, PutBackType DEF VarTypes, addVars
  <2> QED
    BY <1>12, <2>3, <2>4 DEF CompleteStart
<1>13. ASSUME NEW b \in BatchIds, CompleteResume(b) PROVE VarTypes'
  <2>1. todo[b] \in SUBSET Tasks /\ done[b] \in SUBSET Tasks
    BY DEF VarTypes
  <2>2. CASE PutBack(b, todo[b], done[b])
    BY <1>13, <2>1, <2>2, PutBackType DEF CompleteResume, VarTypes, addVars
  <2>3. CASE Finish(b, done[b])
    BY <1>13, <2>1, <2>3, FinishType DEF CompleteResume, VarTypes, addVars
  <2> QED
    BY <1>13, <2>2, <2>3 DEF CompleteResume
<1>14. ASSUME NEW b \in BatchIds, CancelComplete(b) PROVE VarTypes'
  BY <1>14 DEF CancelComplete, VarTypes, lockVars, addVars
<1>15. ASSUME NEW b \in BatchIds, NEW completed \in SUBSET inProgress[b], CompleteBlock(b, completed)
       PROVE VarTypes'
  BY <1>15 DEF CompleteBlock, VarTypes, lockVars, addVars
<1>16. CASE UNCHANGED vars
  BY <1>16 DEF vars, VarTypes, lockVars, addVars, completeVars
<1> QED
  BY <1>1, <1>2, <1>3, <1>4, <1>5, <1>6, <1>7, <1>8, <1>9, <1>10, <1>11, <1>12, <1>13, <1>14, <1>15, <1>16
  DEF AllNext, Next, Adding, Completing

\* Every step keeps track of what each add() call has left to do.
LEMMA ShapeStep ==
  ASSUME VarTypes, AddShape, [AllNext]_vars
  PROVE  AddShape'
<1>1. ASSUME NEW a \in Adders, NEW ts \in SUBSET Tasks, Add(a, ts) PROVE AddShape'
  BY <1>1 DEF Add, VarTypes, AddShape
<1>2. ASSUME NEW a \in Adders, AddSlice(a) PROVE AddShape'
  BY <1>2 DEF AddSlice, VarTypes, AddShape, FirstOf
<1>3. ASSUME NEW a \in Adders, AddFull(a) PROVE AddShape'
  BY <1>3 DEF AddFull, VarTypes, AddShape
<1>4. ASSUME NEW a \in Adders, AddWake(a) PROVE AddShape'
  BY <1>4 DEF AddWake, VarTypes, AddShape
<1>5. ASSUME NEW a \in Adders, AddPut(a) PROVE AddShape'
  BY <1>5 DEF AddPut, VarTypes, AddShape
<1>6. ASSUME NEW a \in Adders, AddBlock(a) PROVE AddShape'
  BY <1>6 DEF AddBlock, VarTypes, AddShape
<1>7. ASSUME NEW a \in Adders, AddUpdate(a) PROVE AddShape'
  BY <1>7 DEF AddUpdate, VarTypes, AddShape
<1>8. ASSUME NEW a \in Adders, AddReturn(a) PROVE AddShape'
  BY <1>8 DEF AddReturn, VarTypes, AddShape
<1>9. ASSUME NEW a \in Adders, CancelAdd(a) PROVE AddShape'
  BY <1>9 DEF CancelAdd, VarTypes, AddShape
<1>10. ASSUME NEW a \in Adders, CancelPut(a) PROVE AddShape'
  BY <1>10 DEF CancelPut, VarTypes, AddShape
<1>11. CASE UNCHANGED addVars
  BY <1>11 DEF addVars, AddShape
<1> QED
  BY <1>1, <1>2, <1>3, <1>4, <1>5, <1>6, <1>7, <1>8, <1>9, <1>10, <1>11
  DEF AllNext, Next, Adding, Completing, Get, CompleteStart, CompleteBlock, CompleteResume, CancelComplete, vars

\* The type invariant: in every interleaving of add(), get() and complete(), for
\* any tasks, producers, batches and limit, every variable keeps its shape and
\* an add() that has returned has inserted all its tasks.
THEOREM TypeCorrect == AllSpec => []TypeOK
<1>1. Init => TypeOK
  BY DEF Init, TypeOK, VarTypes, AddShape
<1>2. TypeOK /\ [AllNext]_vars => TypeOK'
  BY TypesStep, ShapeStep DEF TypeOK
<1> QED
  BY <1>1, <1>2, PTL DEF AllSpec

-----------------------------------------------------------------------------
(***************************************************************************)
(* The inductive invariant behind OneCheckout, Capacity, AlwaysRoom and    *)
(* NoLostWakeup, for callers that do not add a task another caller is      *)
(* still adding (~SharedTasks).                                            *)
(***************************************************************************)

\* The adder inside its loop is the running coroutine; a waiting one has work.
Turn ==
  \A a \in Adders :
    /\ pc[a] \in {"loop", "put"} => running = a
    /\ pc[a] = "wait" => remaining[a] # {}

\* What the adders still have to add is new, and each task is one adder's.
Apart ==
  \A a \in Adders :
    /\ Pending(a) \cap tasks = {}
    /\ remaining[a] \cap queueing[a] = {}
    /\ \A o \in Adders : o # a => Pending(a) \cap Pending(o) = {}

\* The open queue has no duplicates and holds added tasks, or the part of the
\* running adder's slice that it has already put there.
OpenOnce ==
  /\ \A e \in openQueue : e[2] = 0
  /\ \A e \in openQueue : e[1] \in tasks \/ \E a \in Adders : e[1] \in queueing[a] \ toPut[a]

\* The tasks of a batch: checked out, being put back, or being completed
Held(b) == inProgress[b] \cup todo[b] \cup done[b]

Settling ==
  \A b \in BatchIds :
    /\ b \notin returning => todo[b] = {} /\ done[b] = {}
    /\ b \in returning => inProgress[b] = {}
    /\ todo[b] \cap done[b] = {}

HeldOnce ==
  \A b \in BatchIds :
    /\ Held(b) \subseteq tasks
    /\ \A e \in openQueue : e[1] \notin Held(b)
    /\ \A c \in BatchIds : c # b => Held(b) \cap Held(c) = {}

\* The slice under way fits into the queue.
Fits ==
  MaxSize # 0 =>
    /\ Cardinality(tasks) <= MaxSize
    /\ \A a \in Adders : Cardinality(tasks \cup queueing[a]) <= MaxSize

\* The lock is held while there is room only by an adder that is about to fill it.
LockBusy ==
  /\ waiters # <<>> => fullLock # "free" /\ MaxSize # 0
  /\ fullLock = "held" /\ Cardinality(tasks) < MaxSize =>
       \E a \in Adders : running = a /\ (pc[a] = "put" \/ (pc[a] = "loop" /\ remaining[a] # {}))

Inv == VarTypes /\ AddShape /\ Turn /\ Apart /\ OpenOnce /\ Settling /\ HeldOnce /\ Fits /\ LockBusy

-----------------------------------------------------------------------------
(* Room in the open queue *)

\* The open queue, which has no duplicates, is no larger than any set of tasks
\* that contains its tasks, and smaller when the set has one more.
LEMMA OpenSize ==
  ASSUME VarTypes, OpenOnce, NEW S \in SUBSET Tasks, \A e \in openQueue : e[1] \in S
  PROVE  Cardinality(openQueue) \in Nat /\ Cardinality(openQueue) <= Cardinality(S)
<1> DEFINE f == [e \in openQueue |-> e[1]]
<1>1. IsFiniteSet(S)
  BY FS_Subset, TaskQueueAssumption
<1>2. \A e \in openQueue : e = <<e[1], 0>>
  BY DEF VarTypes, Entries, OpenOnce
<1>3. f \in [openQueue -> S]
  OBVIOUS
<1>4. \A x, y \in openQueue : f[x] = f[y] => x = y
  BY <1>2
<1>5. f \in Injection(openQueue, S)
  BY <1>3, <1>4 DEF Injection, IsInjective
<1> QED
  BY <1>1, <1>5, FS_Injection, FS_CardinalityType

LEMMA OpenBelow ==
  ASSUME VarTypes, OpenOnce, NEW S \in SUBSET Tasks, NEW x \in S,
         \A e \in openQueue : e[1] \in S \ {x},
         MaxSize # 0, Cardinality(S) <= MaxSize
  PROVE  ~QueueFull
<1>1. IsFiniteSet(S) /\ Cardinality(S) \in Nat
  BY FS_Subset, FS_CardinalityType, TaskQueueAssumption
<1>2. Cardinality(S \ {x}) = Cardinality(S) - 1
  BY <1>1, FS_RemoveElement
<1>3. Cardinality(openQueue) \in Nat /\ Cardinality(openQueue) <= Cardinality(S \ {x})
  BY OpenSize
<1> QED
  BY <1>1, <1>2, <1>3, TaskQueueAssumption DEF QueueFull

\* There is room for every task of the slice under way ...
LEMMA RoomToPut ==
  ASSUME Inv, NEW a \in Adders, toPut[a] # {}
  PROVE  ~QueueFull
<1>1. CASE MaxSize = 0
  BY <1>1 DEF QueueFull
<1>2. CASE MaxSize # 0
  <2> DEFINE S == tasks \cup queueing[a]
  <2>1. PICK x \in toPut[a] : TRUE
    OBVIOUS
  <2>2. \A o \in Adders : o # a => queueing[o] = {}
    BY DEF Inv, Turn, AddShape, VarTypes
  <2>3. \A e \in openQueue : e[1] \in S \ {x}
    BY <2>1, <2>2 DEF Inv, OpenOnce, Apart, Pending, AddShape
  <2>4. x \in S /\ S \in SUBSET Tasks
    BY <2>1 DEF Inv, AddShape, VarTypes
  <2>5. Cardinality(S) <= MaxSize
    BY <1>2 DEF Inv, Fits
  <2> QED
    BY <1>2, <2>3, <2>4, <2>5, OpenBelow DEF Inv
<1> QED
  BY <1>1, <1>2

\* ... and for every task that a consumer has and may put back.
LEMMA RoomToReturn ==
  ASSUME Inv, NEW b \in BatchIds, CheckedOut(b) # {}
  PROVE  ~QueueFull
<1>1. CASE MaxSize = 0
  BY <1>1 DEF QueueFull
<1>2. CASE MaxSize # 0
  <2>1. PICK x \in CheckedOut(b) : TRUE
    OBVIOUS
  <2>2. /\ x \in tasks
        /\ \A e \in openQueue : e[1] # x
    BY <2>1 DEF Inv, HeldOnce, Held, CheckedOut
  <2>3. CASE \E a \in Adders : queueing[a] # {}
    <3>1. PICK a \in Adders : queueing[a] # {}
      BY <2>3
    <3>2. \A o \in Adders : o # a => queueing[o] = {}
      BY <3>1 DEF Inv, Turn, AddShape, VarTypes
    <3>3. \A e \in openQueue : e[1] \in (tasks \cup queueing[a]) \ {x}
      BY <2>2, <3>2 DEF Inv, OpenOnce
    <3> QED
      BY <1>2, <2>2, <3>3, OpenBelow DEF Inv, VarTypes, Fits
  <2>4. CASE \A a \in Adders : queueing[a] = {}
    <3>1. \A e \in openQueue : e[1] \in tasks \ {x}
      BY <2>2, <2>4 DEF Inv, OpenOnce
    <3> QED
      BY <1>2, <2>2, <3>1, OpenBelow DEF Inv, VarTypes, Fits
  <2> QED
    BY <2>3, <2>4
<1> QED
  BY <1>1, <1>2

-----------------------------------------------------------------------------
(* The steps *)

\* A task that is not in the open queue is put there as its only copy.
LEMMA PutFresh ==
  ASSUME VarTypes, NEW t \in Tasks, \A e \in openQueue : e[1] # t, Put(t)
  PROVE  openQueue' = openQueue \cup {<<t, 0>>}
<1>1. PICK c \in Copies : /\ \A d \in Copies : d < c => <<t, d>> \in openQueue
                          /\ openQueue' = openQueue \cup {<<t, c>>}
  BY DEF Put
<1>2. c = 0
  <2>1. <<t, 0>> \notin openQueue
    OBVIOUS
  <2> QED
    BY <1>1, <2>1, TaskQueueAssumption DEF Copies
<1> QED
  BY <1>1, <1>2

\* No put blocks, so nobody is cancelled at one either.
LEMMA NoBlock ==
  ASSUME Inv
  PROVE  /\ \A a \in Adders : ~AddBlock(a) /\ ~CancelPut(a)
         /\ \A b \in BatchIds : \A completed : ~CompleteBlock(b, completed)
<1>1. ASSUME NEW a \in Adders PROVE ~AddBlock(a)
  BY RoomToPut DEF AddBlock
<1>2. ASSUME NEW a \in Adders PROVE ~CancelPut(a)
  BY TaskQueueAssumption DEF CancelPut, Inv, Turn
<1>3. ASSUME NEW b \in BatchIds, NEW completed PROVE ~CompleteBlock(b, completed)
  BY RoomToReturn DEF CompleteBlock, CheckedOut
<1> QED
  BY <1>1, <1>2, <1>3

LEMMA StepAdd ==
  ASSUME ~SharedTasks, Inv, NEW a \in Adders, NEW ts \in (SUBSET Tasks) \ {{}}, Add(a, ts)
  PROVE  Turn' /\ Apart' /\ OpenOnce' /\ Settling' /\ HeldOnce' /\ Fits' /\ LockBusy'
<1>1. /\ running = None /\ pc[a] = "idle" /\ ts \cap tasks = {}
      /\ \A o \in Adders : ts \cap (remaining[o] \cup queueing[o]) = {}
      /\ running' = a
      /\ pc' = [pc EXCEPT ![a] = "loop"]
      /\ remaining' = [remaining EXCEPT ![a] = ts]
      /\ UNCHANGED <<tasks, openQueue, inProgress, fullLock, waiters, queueing, toPut, returning, todo, done>>
  BY DEF Add, Pending, lockVars, completeVars
<1>2. Turn'
  BY <1>1, TaskQueueAssumption DEF Inv, Turn, VarTypes
<1>3. Apart'
  BY <1>1 DEF Inv, Apart, Pending, VarTypes, AddShape
<1>4. OpenOnce' /\ Settling' /\ HeldOnce' /\ Fits'
  BY <1>1 DEF Inv, OpenOnce, Settling, HeldOnce, Held, Fits
<1>5. LockBusy'
  BY <1>1, TaskQueueAssumption DEF Inv, LockBusy, VarTypes
<1> QED
  BY <1>2, <1>3, <1>4, <1>5

LEMMA StepSlice ==
  ASSUME Inv, NEW a \in Adders, AddSlice(a)
  PROVE  Turn' /\ Apart' /\ OpenOnce' /\ Settling' /\ HeldOnce' /\ Fits' /\ LockBusy'
<1>1. PICK slice \in SUBSET remaining[a] :
        /\ queueing' = [queueing EXCEPT ![a] = slice]
        /\ toPut' = [toPut EXCEPT ![a] = slice]
        /\ remaining' = [remaining EXCEPT ![a] = @ \ slice]
        /\ MaxSize # 0 => /\ Cardinality(slice) <= MaxSize - Cardinality(tasks)
                          /\ Cardinality(slice) \in Nat
  <2>1. Cardinality(remaining[a]) \in Nat /\ Cardinality(tasks) \in Nat
    BY FS_Subset, FS_CardinalityType, TaskQueueAssumption DEF Inv, VarTypes
  <2>2. \A S \in SUBSET Tasks : Cardinality(S) \in Nat
    BY FS_Subset, FS_CardinalityType, TaskQueueAssumption
  <2>3. remaining[a] \in SUBSET Tasks
    BY DEF Inv, VarTypes
  <2> DEFINE slots == IF MaxSize = 0 THEN Cardinality(remaining[a])
                                     ELSE MaxSize - Cardinality(tasks)
             size == IF slots < Cardinality(remaining[a]) THEN slots
                                                          ELSE Cardinality(remaining[a])
  <2>4. PICK slice \in FirstOf(remaining[a], size, Rank) :
          /\ queueing' = [queueing EXCEPT ![a] = slice]
          /\ toPut' = [toPut EXCEPT ![a] = slice]
          /\ remaining' = [remaining EXCEPT ![a] = @ \ slice]
    BY DEF AddSlice
  <2>5. slice \in SUBSET remaining[a] /\ Cardinality(slice) = size
    BY DEF FirstOf
  <2>6. MaxSize # 0 => size <= MaxSize - Cardinality(tasks)
    BY <2>1, TaskQueueAssumption
  <2>7. Cardinality(slice) \in Nat
    BY <2>2, <2>3, <2>5
  <2> HIDE DEF size
  <2> QED
    BY <2>4, <2>5, <2>6, <2>7
<1>2. /\ running = a /\ pc[a] = "loop"
      /\ pc' = [pc EXCEPT ![a] = "put"]
      /\ UNCHANGED <<tasks, openQueue, inProgress, fullLock, waiters, running, returning, todo, done>>
  BY DEF AddSlice, lockVars, completeVars
<1>3. queueing[a] = {}
  BY <1>2 DEF Inv, AddShape
<1>4. Turn'
  BY <1>1, <1>2, TaskQueueAssumption DEF Inv, Turn, VarTypes
<1>5. Apart'
  BY <1>1, <1>2, <1>3 DEF Inv, Apart, Pending, VarTypes
<1>6. OpenOnce'
  BY <1>1, <1>2, <1>3 DEF Inv, OpenOnce, VarTypes
<1>7. Settling' /\ HeldOnce'
  BY <1>2 DEF Inv, Settling, HeldOnce, Held
<1>8. Fits'
  <2> SUFFICES ASSUME MaxSize # 0, NEW o \in Adders
               PROVE  /\ Cardinality(tasks) <= MaxSize
                      /\ Cardinality(tasks \cup queueing'[o]) <= MaxSize
    BY <1>2 DEF Fits
  <2>1. CASE o # a
    BY <1>1, <2>1 DEF Inv, Fits, VarTypes
  <2>2. CASE o = a
    <3>1. queueing'[o] = slice
      BY <1>1, <2>2 DEF Inv, VarTypes
    <3>2. slice \cap tasks = {} /\ slice \subseteq Tasks
      BY <1>1 DEF Inv, Apart, Pending, VarTypes
    <3>3. IsFiniteSet(slice) /\ IsFiniteSet(tasks)
      BY <3>2, FS_Subset, TaskQueueAssumption DEF Inv, VarTypes
    <3>4. tasks \cap slice = {}
      BY <3>2
    <3>5. Cardinality(tasks) \in Nat
      BY <3>3, FS_CardinalityType
    <3>6. Cardinality(tasks \cup slice)
            = Cardinality(tasks) + Cardinality(slice) - Cardinality(tasks \cap slice)
      BY <3>3, FS_Union
    <3>7. Cardinality(tasks \cap slice) = 0
      BY <3>4, FS_EmptySet
    <3>8. Cardinality(tasks \cup slice) <= MaxSize
      BY <1>1, <3>5, <3>6, <3>7, TaskQueueAssumption
    <3> QED
      BY <3>1, <3>8 DEF Inv, Fits
  <2> QED
    BY <2>1, <2>2
<1>9. LockBusy'
  BY <1>1, <1>2 DEF Inv, LockBusy, VarTypes
<1> QED
  BY <1>4, <1>5, <1>6, <1>7, <1>8, <1>9

LEMMA StepFull ==
  ASSUME Inv, NEW a \in Adders, AddFull(a)
  PROVE  Turn' /\ Apart' /\ OpenOnce' /\ Settling' /\ HeldOnce' /\ Fits' /\ LockBusy'
<1>1. /\ running = a /\ pc[a] = "loop" /\ remaining[a] # {}
      /\ MaxSize # 0 /\ ~(Cardinality(tasks) < MaxSize)
      /\ UNCHANGED <<tasks, openQueue, inProgress, remaining, queueing, toPut, returning, todo, done>>
  BY DEF AddFull, HasRoom, completeVars
<1>2. Apart' /\ OpenOnce' /\ Settling' /\ HeldOnce' /\ Fits'
  BY <1>1 DEF Inv, Apart, Pending, OpenOnce, Settling, HeldOnce, Held, Fits
<1>3. Turn'
  BY <1>1, TaskQueueAssumption DEF Inv, Turn, VarTypes, AddFull
<1>4. LockBusy'
  <2>1. CASE fullLock = "free" /\ waiters = <<>>
    BY <1>1, <2>1 DEF Inv, LockBusy, AddFull
  <2>2. CASE ~(fullLock = "free" /\ waiters = <<>>)
    <3>1. fullLock # "free"
      BY <2>2 DEF Inv, LockBusy
    <3> QED
      BY <1>1, <2>2, <3>1 DEF Inv, LockBusy, AddFull
  <2> QED
    BY <2>1, <2>2
<1> QED
  BY <1>2, <1>3, <1>4

LEMMA StepWake ==
  ASSUME Inv, NEW a \in Adders, AddWake(a)
  PROVE  Turn' /\ Apart' /\ OpenOnce' /\ Settling' /\ HeldOnce' /\ Fits' /\ LockBusy'
<1>1. /\ running = None /\ pc[a] = "wait" /\ fullLock = "passing" /\ waiters # <<>>
      /\ fullLock' = "held" /\ running' = a
      /\ pc' = [pc EXCEPT ![a] = "loop"]
      /\ UNCHANGED <<tasks, openQueue, inProgress, remaining, queueing, toPut, returning, todo, done>>
  BY DEF AddWake, completeVars
<1>2. Apart' /\ OpenOnce' /\ Settling' /\ HeldOnce' /\ Fits'
  BY <1>1 DEF Inv, Apart, Pending, OpenOnce, Settling, HeldOnce, Held, Fits
<1>3. Turn'
  BY <1>1, TaskQueueAssumption DEF Inv, Turn, VarTypes
<1>4. LockBusy'
  BY <1>1 DEF Inv, LockBusy, Turn, VarTypes
<1> QED
  BY <1>2, <1>3, <1>4

LEMMA StepPut ==
  ASSUME Inv, NEW a \in Adders, AddPut(a)
  PROVE  Turn' /\ Apart' /\ OpenOnce' /\ Settling' /\ HeldOnce' /\ Fits' /\ LockBusy'
<1>1. PICK t \in toPut[a] : Put(t) /\ toPut' = [toPut EXCEPT ![a] = @ \ {t}]
  BY DEF AddPut
<1>2. /\ pc[a] = "put" /\ running' = a
      /\ UNCHANGED <<tasks, inProgress, fullLock, waiters, pc, remaining, queueing, returning, todo, done>>
  BY DEF AddPut, lockVars, completeVars
<1>3. running = a
  BY <1>2 DEF Inv, Turn
<1>4. t \in queueing[a] /\ t \in Tasks /\ t \notin tasks
  BY DEF Inv, AddShape, VarTypes, Apart, Pending
<1>5. \A o \in Adders : o # a => queueing[o] = {}
  BY <1>2, <1>3 DEF Inv, Turn, AddShape, VarTypes
<1>6. \A e \in openQueue : e[1] # t
  BY <1>4, <1>5 DEF Inv, OpenOnce
<1>7. openQueue' = openQueue \cup {<<t, 0>>}
  BY <1>1, <1>4, <1>6, PutFresh DEF Inv
<1>8. OpenOnce'
  <2>1. \A e \in openQueue' : e[2] = 0
    BY <1>7 DEF Inv, OpenOnce
  <2>2. t \in queueing'[a] \ toPut'[a]
    BY <1>1, <1>2, <1>4 DEF Inv, VarTypes
  <2>3. \A o \in Adders : queueing[o] \ toPut[o] \subseteq queueing'[o] \ toPut'[o]
    BY <1>1, <1>2 DEF Inv, VarTypes
  <2>4. \A e \in openQueue' : e[1] \in tasks' \/ \E o \in Adders : e[1] \in queueing'[o] \ toPut'[o]
    BY <1>2, <1>7, <2>2, <2>3 DEF Inv, OpenOnce
  <2> QED
    BY <2>1, <2>4 DEF OpenOnce
<1>9. Settling' /\ HeldOnce'
  <2>1. \A b \in BatchIds : t \notin Held(b)
    BY <1>4 DEF Inv, HeldOnce
  <2>2. Settling'
    BY <1>2 DEF Inv, Settling
  <2>3. \A b \in BatchIds : Held(b)' = Held(b)
    BY <1>2 DEF Held
  <2>4. \A b \in BatchIds : \A e \in openQueue' : e[1] \notin Held(b)
    BY <1>7, <2>1 DEF Inv, HeldOnce
  <2>5. HeldOnce'
    BY <1>2, <2>3, <2>4 DEF Inv, HeldOnce
  <2> QED
    BY <2>2, <2>5
<1>10. Turn' /\ Apart' /\ Fits' /\ LockBusy'
  BY <1>2, <1>3 DEF Inv, Turn, Apart, Pending, Fits, LockBusy
<1> QED
  BY <1>8, <1>9, <1>10

LEMMA StepUpdate ==
  ASSUME Inv, NEW a \in Adders, AddUpdate(a)
  PROVE  Turn' /\ Apart' /\ OpenOnce' /\ Settling' /\ HeldOnce' /\ Fits' /\ LockBusy'
<1>1. /\ running = a /\ pc[a] = "put" /\ toPut[a] = {}
      /\ tasks' = tasks \cup queueing[a]
      /\ queueing' = [queueing EXCEPT ![a] = {}]
      /\ ReleaseIfRoom(tasks')
      /\ pc' = [pc EXCEPT ![a] = "loop"]
      /\ UNCHANGED <<openQueue, inProgress, running, remaining, toPut, returning, todo, done>>
  BY DEF AddUpdate, completeVars
<1>2. Turn'
  BY <1>1 DEF Inv, Turn, VarTypes
<1>3. Apart'
  BY <1>1 DEF Inv, Apart, Pending, VarTypes
<1>4. OpenOnce'
  BY <1>1 DEF Inv, OpenOnce, VarTypes
<1>5. Settling' /\ HeldOnce'
  <2>1. Settling'
    BY <1>1 DEF Inv, Settling
  <2>2. \A b \in BatchIds : Held(b)' = Held(b)
    BY <1>1 DEF Held
  <2>3. HeldOnce'
    BY <1>1, <2>2 DEF Inv, HeldOnce
  <2> QED
    BY <2>1, <2>3
<1>6. Fits'
  <2>1. \A o \in Adders : queueing'[o] = {}
    BY <1>1 DEF Inv, Turn, AddShape, VarTypes
  <2> QED
    BY <1>1, <2>1 DEF Inv, Fits
<1>7. LockBusy'
  <2>1. MaxSize = 0 => waiters = <<>>
    BY DEF Inv, LockBusy
  <2>2. CASE fullLock = "held" /\ Cardinality(tasks') < MaxSize
    BY <1>1, <2>1, <2>2 DEF Inv, LockBusy, ReleaseIfRoom, Release
  <2>3. CASE ~(fullLock = "held" /\ Cardinality(tasks') < MaxSize)
    BY <1>1, <2>3 DEF Inv, LockBusy, ReleaseIfRoom, lockVars
  <2> QED
    BY <2>2, <2>3
<1> QED
  BY <1>2, <1>3, <1>4, <1>5, <1>6, <1>7

LEMMA StepReturn ==
  ASSUME Inv, NEW a \in Adders, AddReturn(a)
  PROVE  Turn' /\ Apart' /\ OpenOnce' /\ Settling' /\ HeldOnce' /\ Fits' /\ LockBusy'
<1>1. /\ running = a /\ pc[a] = "loop" /\ remaining[a] = {}
      /\ running' = None
      /\ pc' = [pc EXCEPT ![a] = "idle"]
      /\ UNCHANGED <<tasks, openQueue, inProgress, fullLock, waiters, remaining, queueing, toPut, returning, todo, done>>
  BY DEF AddReturn, lockVars, completeVars
<1>2. Apart' /\ OpenOnce' /\ Settling' /\ HeldOnce' /\ Fits'
  BY <1>1 DEF Inv, Apart, Pending, OpenOnce, Settling, HeldOnce, Held, Fits
<1>3. Turn'
  BY <1>1, TaskQueueAssumption DEF Inv, Turn, VarTypes
<1>4. LockBusy'
  BY <1>1 DEF Inv, LockBusy
<1> QED
  BY <1>2, <1>3, <1>4

LEMMA StepCancelAdd ==
  ASSUME Inv, NEW a \in Adders, CancelAdd(a)
  PROVE  Turn' /\ Apart' /\ OpenOnce' /\ Settling' /\ HeldOnce' /\ Fits' /\ LockBusy'
<1>1. /\ running = None /\ pc[a] = "wait"
      /\ pc' = [pc EXCEPT ![a] = "idle"]
      /\ remaining' = [remaining EXCEPT ![a] = {}]
      /\ UNCHANGED <<tasks, openQueue, inProgress, running, queueing, toPut, returning, todo, done>>
  BY DEF CancelAdd, completeVars
<1>2. waiters # <<>>
  BY DEF CancelAdd, Inv, VarTypes
<1>3. fullLock # "free" /\ MaxSize # 0
  BY <1>2 DEF Inv, LockBusy
<1>4. /\ waiters' # <<>> => fullLock' # "free"
      /\ fullLock' = "held" => fullLock = "held"
  BY <1>3 DEF CancelAdd
<1>5. OpenOnce' /\ Settling' /\ HeldOnce' /\ Fits'
  BY <1>1 DEF Inv, OpenOnce, Settling, HeldOnce, Held, Fits
<1>6. Apart'
  BY <1>1 DEF Inv, Apart, Pending, VarTypes
<1>7. Turn'
  BY <1>1 DEF Inv, Turn, VarTypes
<1>8. LockBusy'
  BY <1>1, <1>3, <1>4, TaskQueueAssumption DEF Inv, LockBusy
<1> QED
  BY <1>5, <1>6, <1>7, <1>8

LEMMA StepGet ==
  ASSUME Inv, NEW b \in BatchIds, NEW n \in 1 .. MaxResults, Get(b, n)
  PROVE  Turn' /\ Apart' /\ OpenOnce' /\ Settling' /\ HeldOnce' /\ Fits' /\ LockBusy'
<1>1. PICK batch \in SUBSET openQueue :
        /\ openQueue' = openQueue \ batch
        /\ inProgress' = [inProgress EXCEPT ![b] = {e[1] : e \in batch}]
  BY DEF Get, FirstOf
<1>2. /\ running = None /\ inProgress[b] = {} /\ b \notin returning
      /\ UNCHANGED <<tasks, fullLock, waiters, running, pc, remaining, queueing, toPut, returning, todo, done>>
  BY DEF Get, lockVars, addVars, completeVars
<1>3. Turn' /\ Apart' /\ Fits' /\ LockBusy'
  BY <1>2 DEF Inv, Turn, Apart, Pending, Fits, LockBusy
<1>4. OpenOnce'
  BY <1>1, <1>2 DEF Inv, OpenOnce
<1>5. Settling'
  BY <1>1, <1>2 DEF Inv, Settling, VarTypes
<1>6. HeldOnce'
  <2>1. \A e \in openQueue : e = <<e[1], 0>>
    BY DEF Inv, VarTypes, Entries, OpenOnce
  <2>2. \A e \in openQueue' : e[1] \notin {x[1] : x \in batch}
    BY <1>1, <2>1
  <2>3. \A o \in Adders : queueing[o] = {}
    BY <1>2, TaskQueueAssumption DEF Inv, Turn, AddShape, VarTypes
  <2>4. {x[1] : x \in batch} \subseteq tasks
    BY <1>1, <2>3 DEF Inv, OpenOnce
  <2>5. \A c \in BatchIds : Held(c) \cap {x[1] : x \in batch} = {}
    BY <1>1 DEF Inv, HeldOnce
  <2>6. \A c \in BatchIds : Held(c)' = IF c = b THEN {x[1] : x \in batch} ELSE Held(c)
    BY <1>1, <1>2 DEF Inv, Settling, Held, VarTypes
  <2>7. \A c \in BatchIds : Held(c)' \subseteq tasks
    BY <2>4, <2>6 DEF Inv, HeldOnce
  <2>8. \A c \in BatchIds : \A e \in openQueue' : e[1] \notin Held(c)'
    BY <1>1, <2>2, <2>6 DEF Inv, HeldOnce
  <2>9. \A c, d \in BatchIds : c # d => Held(c)' \cap Held(d)' = {}
    BY <2>5, <2>6 DEF Inv, HeldOnce
  <2> QED
    BY <1>2, <2>7, <2>8, <2>9 DEF HeldOnce
<1> QED
  BY <1>3, <1>4, <1>5, <1>6

\* Putting one checked-out task of b back; rest is what b has, todo or batch
LEMMA StepPutBack ==
  ASSUME Inv, NEW b \in BatchIds, NEW rest, NEW completed,
         rest \cup completed \subseteq Held(b), rest \cap completed = {},
         PutBack(b, rest, completed), running = None, UNCHANGED addVars,
         inProgress' = [inProgress EXCEPT ![b] = {}]
  PROVE  Turn' /\ Apart' /\ OpenOnce' /\ Settling' /\ HeldOnce' /\ Fits' /\ LockBusy'
<1>1. PICK t \in rest : Put(t) /\ todo' = [todo EXCEPT ![b] = rest \ {t}]
  BY DEF PutBack
<1>2. /\ done' = [done EXCEPT ![b] = completed]
      /\ returning' = returning \cup {b}
      /\ UNCHANGED <<tasks, fullLock, waiters, running, pc, remaining, queueing, toPut>>
  BY DEF PutBack, lockVars, addVars
<1>3. t \in tasks /\ t \in Tasks /\ \A e \in openQueue : e[1] # t
  BY DEF Inv, HeldOnce, VarTypes
<1>4. openQueue' = openQueue \cup {<<t, 0>>}
  BY <1>1, <1>3, PutFresh DEF Inv
<1>5. Turn' /\ Apart' /\ Fits' /\ LockBusy'
  BY <1>2 DEF Inv, Turn, Apart, Pending, Fits, LockBusy
<1>6. OpenOnce'
  BY <1>2, <1>3, <1>4 DEF Inv, OpenOnce
<1>7. Settling'
  <2>1. \A c \in BatchIds : c # b => /\ todo'[c] = todo[c] /\ done'[c] = done[c]
                                     /\ inProgress'[c] = inProgress[c]
                                     /\ c \in returning' <=> c \in returning
    BY <1>1, <1>2 DEF Inv, VarTypes
  <2>2. \A c \in BatchIds : c # b => /\ c \notin returning' => todo'[c] = {} /\ done'[c] = {}
                                     /\ c \in returning' => inProgress'[c] = {}
                                     /\ todo'[c] \cap done'[c] = {}
    BY <2>1 DEF Inv, Settling
  <2>3. /\ b \in returning' /\ inProgress'[b] = {}
        /\ todo'[b] = rest \ {t} /\ done'[b] = completed
    BY <1>1, <1>2 DEF Inv, VarTypes
  <2> QED
    BY <2>2, <2>3 DEF Settling
<1>8. HeldOnce'
  <2>1. Held(b)' = (rest \ {t}) \cup completed
    BY <1>1, <1>2 DEF Inv, Held, VarTypes
  <2>2. \A c \in BatchIds : c # b => Held(c)' = Held(c)
    BY <1>1, <1>2 DEF Inv, Held, VarTypes
  <2>3. Held(b)' \subseteq Held(b) \ {t}
    BY <2>1
  <2>4. \A c \in BatchIds : Held(c)' \subseteq Held(c) \ {t}
    BY <2>2, <2>3 DEF Inv, HeldOnce
  <2> QED
    BY <1>2, <1>4, <2>4 DEF Inv, HeldOnce
<1> QED
  BY <1>5, <1>6, <1>7, <1>8

\* The end of complete(): the completed tasks leave the queue
LEMMA StepFinish ==
  ASSUME Inv, NEW b \in BatchIds, NEW completed, completed \subseteq Held(b), todo[b] = {},
         Finish(b, completed), UNCHANGED addVars, running = None,
         inProgress' = [inProgress EXCEPT ![b] = {}],
         Held(b) \subseteq completed
  PROVE  Turn' /\ Apart' /\ OpenOnce' /\ Settling' /\ HeldOnce' /\ Fits' /\ LockBusy'
<1>1. /\ tasks' = tasks \ completed
      /\ ReleaseIfRoom(tasks')
      /\ done' = [done EXCEPT ![b] = {}]
      /\ returning' = returning \ {b}
      /\ UNCHANGED <<openQueue, todo, running, pc, remaining, queueing, toPut>>
  BY DEF Finish, addVars
<1>2. Turn' /\ Apart'
  BY <1>1 DEF Inv, Turn, Apart, Pending
<1>3. OpenOnce'
  BY <1>1 DEF Inv, OpenOnce, HeldOnce
<1>4. Settling'
  BY <1>1 DEF Inv, Settling, VarTypes
<1>5. HeldOnce'
  <2>1. Held(b)' = {}
    BY <1>1 DEF Inv, Held, VarTypes
  <2>2. \A c \in BatchIds : c # b => Held(c)' = Held(c) /\ Held(c) \cap completed = {}
    <3> SUFFICES ASSUME NEW c \in BatchIds, c # b
                 PROVE  Held(c)' = Held(c) /\ Held(c) \cap completed = {}
      OBVIOUS
    <3>1. Held(c)' = Held(c)
      BY <1>1 DEF Inv, Held, VarTypes
    <3>2. Held(c) \cap Held(b) = {}
      BY DEF Inv, HeldOnce
    <3> QED
      BY <3>1, <3>2
  <2>3. \A c \in BatchIds : Held(c)' \subseteq tasks'
    BY <1>1, <2>1, <2>2 DEF Inv, HeldOnce
  <2>4. \A c \in BatchIds : Held(c)' \subseteq Held(c)
    BY <2>1, <2>2
  <2>5. \A c \in BatchIds : \A e \in openQueue' : e[1] \notin Held(c)'
    BY <1>1, <2>4 DEF Inv, HeldOnce
  <2>6. \A c, d \in BatchIds : c # d => Held(c)' \cap Held(d)' = {}
    BY <2>4 DEF Inv, HeldOnce
  <2> QED
    BY <2>3, <2>5, <2>6 DEF HeldOnce
<1>6. Fits'
  <2>1. \A S \in SUBSET Tasks : IsFiniteSet(S) /\ Cardinality(S) \in Nat
    BY FS_Subset, FS_CardinalityType, TaskQueueAssumption
  <2>2. \A S, T \in SUBSET Tasks : S \subseteq T => Cardinality(S) <= Cardinality(T)
    BY <2>1, FS_Subset
  <2>3. /\ tasks \in SUBSET Tasks /\ tasks' \in SUBSET Tasks /\ tasks' \subseteq tasks
        /\ \A o \in Adders : queueing[o] \in SUBSET Tasks
    BY <1>1 DEF Inv, VarTypes
  <2>4. Cardinality(tasks') <= Cardinality(tasks)
    BY <2>2, <2>3
  <2>5. \A o \in Adders : /\ tasks' \cup queueing[o] \in SUBSET Tasks
                          /\ tasks \cup queueing[o] \in SUBSET Tasks
                          /\ tasks' \cup queueing[o] \subseteq tasks \cup queueing[o]
    BY <2>3
  <2>6. \A o \in Adders : Cardinality(tasks' \cup queueing[o]) <= Cardinality(tasks \cup queueing[o])
    BY <2>2, <2>5
  <2>7. /\ Cardinality(tasks) \in Nat /\ Cardinality(tasks') \in Nat
        /\ \A o \in Adders : /\ Cardinality(tasks' \cup queueing[o]) \in Nat
                             /\ Cardinality(tasks \cup queueing[o]) \in Nat
    BY <2>1, <2>3, <2>5
  <2>8. MaxSize # 0 => Cardinality(tasks) <= MaxSize
    BY DEF Inv, Fits
  <2>9. MaxSize # 0 => Cardinality(tasks') <= MaxSize
    BY <2>4, <2>7, <2>8, TaskQueueAssumption
  <2>10. ASSUME MaxSize # 0, NEW o \in Adders
         PROVE  Cardinality(tasks' \cup queueing[o]) <= MaxSize
    <3>1. Cardinality(tasks \cup queueing[o]) <= MaxSize
      BY <2>10 DEF Inv, Fits
    <3>2. /\ Cardinality(tasks' \cup queueing[o]) <= Cardinality(tasks \cup queueing[o])
          /\ Cardinality(tasks' \cup queueing[o]) \in Nat
          /\ Cardinality(tasks \cup queueing[o]) \in Nat
      BY <2>6, <2>7
    <3> QED
      BY <3>1, <3>2, TaskQueueAssumption
  <2> QED
    BY <1>1, <2>9, <2>10 DEF Fits
<1>7. LockBusy'
  <2>1. MaxSize = 0 => waiters = <<>>
    BY DEF Inv, LockBusy
  <2>2. CASE fullLock = "held" /\ Cardinality(tasks') < MaxSize
    BY <1>1, <2>1, <2>2 DEF Inv, LockBusy, ReleaseIfRoom, Release
  <2>3. CASE ~(fullLock = "held" /\ Cardinality(tasks') < MaxSize)
    BY <1>1, <2>3 DEF Inv, LockBusy, ReleaseIfRoom, lockVars
  <2> QED
    BY <2>2, <2>3
<1> QED
  BY <1>2, <1>3, <1>4, <1>5, <1>6, <1>7

LEMMA StepCompleteStart ==
  ASSUME Inv, NEW b \in BatchIds, NEW completed \in SUBSET inProgress[b], CompleteStart(b, completed)
  PROVE  Turn' /\ Apart' /\ OpenOnce' /\ Settling' /\ HeldOnce' /\ Fits' /\ LockBusy'
<1> DEFINE incomplete == inProgress[b] \ completed
<1>1. /\ running = None /\ UNCHANGED addVars
      /\ inProgress' = [inProgress EXCEPT ![b] = {}]
  BY DEF CompleteStart
<1>2. todo[b] = {} /\ Held(b) = inProgress[b]
  BY DEF CompleteStart, Inv, Settling, Held
<1>3. CASE incomplete = {} /\ Finish(b, completed)
  BY <1>1, <1>2, <1>3, StepFinish
<1>4. CASE PutBack(b, incomplete, completed)
  <2>1. incomplete \cup completed \subseteq Held(b) /\ incomplete \cap completed = {}
    BY <1>2
  <2> HIDE DEF incomplete
  <2> QED
    BY <1>1, <1>4, <2>1, StepPutBack
<1> QED
  BY <1>3, <1>4 DEF CompleteStart

LEMMA StepCompleteResume ==
  ASSUME Inv, NEW b \in BatchIds, CompleteResume(b)
  PROVE  Turn' /\ Apart' /\ OpenOnce' /\ Settling' /\ HeldOnce' /\ Fits' /\ LockBusy'
<1>1. running = None /\ b \in returning /\ inProgress' = inProgress /\ UNCHANGED addVars
  BY DEF CompleteResume
<1>2. inProgress[b] = {} /\ todo[b] \cap done[b] = {}
  BY <1>1 DEF Inv, Settling
<1>3. inProgress' = [inProgress EXCEPT ![b] = {}]
  BY <1>1, <1>2 DEF Inv, VarTypes
<1>4. CASE PutBack(b, todo[b], done[b])
  <2>1. todo[b] \cup done[b] \subseteq Held(b)
    BY DEF Held
  <2> QED
    BY <1>1, <1>2, <1>3, <1>4, <2>1, StepPutBack
<1>5. CASE todo[b] = {} /\ Finish(b, done[b])
  <2>1. done[b] \subseteq Held(b) /\ Held(b) \subseteq done[b]
    BY <1>2, <1>5 DEF Held
  <2> QED
    BY <1>1, <1>3, <1>5, <2>1, StepFinish
<1> QED
  BY <1>4, <1>5 DEF CompleteResume

LEMMA StepCancelComplete ==
  ASSUME Inv, NEW b \in BatchIds, CancelComplete(b)
  PROVE  Turn' /\ Apart' /\ OpenOnce' /\ Settling' /\ HeldOnce' /\ Fits' /\ LockBusy'
<1>1. /\ returning' = returning \ {b}
      /\ todo' = [todo EXCEPT ![b] = {}]
      /\ done' = [done EXCEPT ![b] = {}]
      /\ UNCHANGED <<tasks, openQueue, inProgress, fullLock, waiters, running, pc, remaining, queueing, toPut>>
  BY DEF CancelComplete, lockVars, addVars
<1>2. Turn' /\ Apart' /\ Fits' /\ LockBusy' /\ OpenOnce'
  BY <1>1 DEF Inv, Turn, Apart, Pending, Fits, LockBusy, OpenOnce
<1>3. Settling'
  BY <1>1 DEF Inv, Settling, VarTypes
<1>4. HeldOnce'
  <2>1. \A c \in BatchIds : Held(c)' \subseteq Held(c)
    BY <1>1 DEF Inv, Held, VarTypes
  <2> QED
    BY <1>1, <2>1 DEF Inv, HeldOnce
<1> QED
  BY <1>2, <1>3, <1>4

\* Every step of coordinated callers keeps the invariant.
LEMMA InvStep ==
  ASSUME ~SharedTasks, Inv, [AllNext]_vars
  PROVE  Inv'
<1>1. VarTypes' /\ AddShape'
  BY TypesStep, ShapeStep DEF Inv
<1>2. Turn' /\ Apart' /\ OpenOnce' /\ Settling' /\ HeldOnce' /\ Fits' /\ LockBusy'
  <2>1. CASE UNCHANGED vars
    BY <2>1 DEF vars, lockVars, addVars, completeVars, Inv, Turn, Apart, Pending, OpenOnce,
                Settling, HeldOnce, Held, Fits, LockBusy
  <2>2. CASE AllNext
    BY <2>2, NoBlock, StepAdd, StepSlice, StepFull, StepWake, StepPut, StepUpdate, StepReturn,
       StepCancelAdd, StepGet, StepCompleteStart, StepCompleteResume, StepCancelComplete
    DEF AllNext, Next, Adding, Completing
  <2> QED
    BY <2>1, <2>2
<1> QED
  BY <1>1, <1>2 DEF Inv

LEMMA InvInit == Init => Inv
<1> SUFFICES ASSUME Init PROVE Inv
  OBVIOUS
<1>1. VarTypes /\ AddShape /\ Turn /\ Apart /\ OpenOnce /\ Settling /\ HeldOnce
  <2>1. VarTypes
    BY TaskQueueAssumption DEF Init, VarTypes
  <2>2. AddShape /\ Turn
    BY TaskQueueAssumption DEF Init, AddShape, Turn
  <2>3. Apart /\ OpenOnce
    BY DEF Init, Apart, Pending, OpenOnce
  <2>4. Settling /\ HeldOnce
    BY DEF Init, Settling, HeldOnce, Held
  <2> QED
    BY <2>1, <2>2, <2>3, <2>4
<1>2. Fits
  BY FS_EmptySet, TaskQueueAssumption DEF Init, Fits
<1>3. LockBusy
  BY DEF Init, LockBusy
<1> QED
  BY <1>1, <1>2, <1>3 DEF Inv

\* What the queue promises follows from the invariant.
LEMMA InvSafe == Inv => OneCheckout /\ Capacity /\ AlwaysRoom /\ NoLostWakeup
<1> SUFFICES ASSUME Inv PROVE OneCheckout /\ Capacity /\ AlwaysRoom /\ NoLostWakeup
  OBVIOUS
<1>1. OneCheckout
  BY DEF Inv, HeldOnce, Held, OneCheckout, CheckedOut, OpenTasks
<1>2. Capacity
  BY DEF Inv, Fits, Capacity
<1>3. AlwaysRoom
  BY RoomToPut, RoomToReturn DEF AlwaysRoom
<1>4. NoLostWakeup
  BY TaskQueueAssumption DEF Inv, LockBusy, VarTypes, NoLostWakeup, HasRoom
<1> QED
  BY <1>1, <1>2, <1>3, <1>4

LEMMA InvAlways == ~SharedTasks /\ AllSpec => []Inv
<1>1. CASE ~SharedTasks
  <2>1. Inv /\ [AllNext]_vars => Inv'
    BY <1>1, InvStep
  <2> QED
    BY <2>1, InvInit, PTL DEF AllSpec
<1>2. CASE SharedTasks
  BY <1>2
<1> QED
  BY <1>1, <1>2, TaskQueueAssumption

\* Coordinated callers, cancelled or not: a task is in one place only.  No two
\* get() calls have it and none has it while it is pending.
THEOREM CheckedOutOnce == ~SharedTasks /\ AllSpec => []OneCheckout
BY InvAlways, InvSafe, PTL

\* The limit is never exceeded, and complete() always finds room for the tasks
\* it puts back: with coordinated callers the QueueFull that the comment in
\* complete() reports cannot happen.
THEOREM RoomKept == ~SharedTasks /\ AllSpec => [](Capacity /\ AlwaysRoom)
BY InvAlways, InvSafe, PTL

\* No wake-up is lost between complete(), add() and the cancellation of either.
THEOREM WakeupKept == ~SharedTasks /\ AllSpec => []NoLostWakeup
BY InvAlways, InvSafe, PTL
=============================================================================
