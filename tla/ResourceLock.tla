---------------------------- MODULE ResourceLock -----------------------------
(***************************************************************************)
(* ResourceLock (p2p/resource_lock.py): a lock per resource, made when it is *)
(* first asked for and thrown away when nobody uses it any more.  Lock      *)
(* objects are numbered in the order they are made, so that a caller that    *)
(* still waits for a lock that was thrown away can be told from one that     *)
(* waits for its successor.                                                  *)
(***************************************************************************)
EXTENDS Integers, FiniteSets

CONSTANTS
  Callers, Resources,
  MaxLocks            \* bound: lock objects made in a behaviour

ASSUME ResourceLockAssumption ==
  MaxLocks \in Nat /\ IsFiniteSet(Callers)

VARIABLES
  locks,    \* _locks: the number of each resource's lock object, 0 for none
  refs,     \* _reference_counts
  made,     \* lock objects made so far
  pc,       \* of each caller: "out", "wait" or "in" the context manager
  wants,    \* the resource a caller asks for
  object    \* the lock object it entered `async with` on

vars == <<locks, refs, made, pc, wants, object>>

\* The shape of the state; a reference count does not go below zero.
TypeOK ==
  /\ locks \in [Resources -> Nat]
  /\ refs \in [Resources -> Nat]
  /\ made \in Nat
  /\ pc \in [Callers -> {"out", "wait", "in"}]
  /\ wants \in [Callers -> Resources]
  /\ object \in [Callers -> Nat]

Init ==
  /\ locks = [r \in Resources |-> 0]
  /\ refs = [r \in Resources |-> 0]
  /\ made = 0
  /\ pc = [c \in Callers |-> "out"]
  /\ wants \in [Callers -> Resources]
  /\ object = [c \in Callers |-> 0]

locked(n) == \E c \in Callers : pc[c] = "in" /\ object[c] = n

is_locked(r) == locks[r] # 0 /\ locked(locks[r])

-----------------------------------------------------------------------------
\* The lock of r before and after lock() looked for it
Fetch(r) ==
  IF locks[r] # 0 THEN UNCHANGED <<locks, made>>
  ELSE /\ made < MaxLocks
       /\ made' = made + 1
       /\ locks' = [locks EXCEPT ![r] = made']

\* Mutant of lock: the reference is only counted once the lock is had.
lock_uncounted(c, r) ==
  /\ pc[c] = "out"
  /\ Fetch(r)
  /\ wants' = [wants EXCEPT ![c] = r]
  /\ object' = [object EXCEPT ![c] = locks'[r]]
  /\ pc' = [pc EXCEPT ![c] = "wait"]
  /\ refs' = IF locked(locks'[r]) THEN refs ELSE [refs EXCEPT ![r] = @ + 1]

lock(c, r) ==
  /\ pc[c] = "out"
  /\ Fetch(r)
  /\ wants' = [wants EXCEPT ![c] = r]
  /\ object' = [object EXCEPT ![c] = locks'[r]]
  /\ pc' = [pc EXCEPT ![c] = "wait"]
  /\ refs' = [refs EXCEPT ![r] = @ + 1]

Enter(c) ==
  /\ pc[c] = "wait"
  /\ ~locked(object[c])
  /\ pc' = [pc EXCEPT ![c] = "in"]
  /\ UNCHANGED <<locks, refs, made, wants, object>>

\* Mutant of Leave: the lock is never thrown away.
LeaveKeeps(c) ==
  /\ pc[c] # "out"
  /\ pc' = [pc EXCEPT ![c] = "out"]
  /\ refs' = [refs EXCEPT ![wants[c]] = @ - 1]
  /\ UNCHANGED <<locks, made, wants, object>>

\* The end of the context manager, also by cancellation while waiting
Leave(c) ==
  /\ pc[c] # "out"
  /\ pc' = [pc EXCEPT ![c] = "out"]
  /\ refs' = [refs EXCEPT ![wants[c]] = @ - 1]
  /\ locks' = IF refs[wants[c]] - 1 <= 0 THEN [locks EXCEPT ![wants[c]] = 0] ELSE locks
  /\ UNCHANGED <<made, wants, object>>

Next ==
  \E c \in Callers :
    \/ \E r \in Resources : lock(c, r)
    \/ Enter(c)
    \/ Leave(c)

Spec == Init /\ [][Next]_vars

-----------------------------------------------------------------------------
\* Two callers are never inside for one resource: a lock object is not replaced
\* while anybody holds it or waits for it.
MutualExclusion ==
  \A c, d \in Callers : pc[c] = "in" /\ pc[d] = "in" /\ wants[c] = wants[d] => c = d

\* No lock is kept for a resource that nobody uses.
NoLeak ==
  \A r \in Resources : locks[r] # 0 => \E c \in Callers : pc[c] # "out" /\ wants[c] = r
=============================================================================
