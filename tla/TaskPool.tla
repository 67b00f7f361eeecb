------------------------------ MODULE TaskPool -------------------------------
(***************************************************************************)
(* What TaskQueue (trinity/_utils/datastructures.py, docstring at line 99) *)
(* promises its users, without the queue, the lock, the batches or the     *)
(* coroutines: every task is absent, pending, or checked out by one        *)
(* consumer; the number of tasks that are not completed is limited.        *)
(***************************************************************************)
EXTENDS Integers, FiniteSets

CONSTANTS Tasks, Rank, MaxSize, MaxResults

VARIABLE status   \* of each task: absent, pending, taken

Known == {t \in Tasks : status[t] # "absent"}

\* status after the tasks of ts move to s
Move(ts, s) == status' = [t \in Tasks |-> IF t \in ts THEN s ELSE status[t]]

Init == status = [t \in Tasks |-> "absent"]

\* one task of an add() call enters the queue
Insert ==
  /\ MaxSize # 0 => Cardinality(Known) < MaxSize
  /\ \E t \in Tasks : status[t] = "absent" /\ Move({t}, "pending")

\* a consumer checks out tasks no pending task precedes in priority
Take ==
  \E ts \in SUBSET Tasks :
    /\ Cardinality(ts) \in 1 .. MaxResults
    /\ \A t \in ts : status[t] = "pending"
    /\ \A t \in ts, u \in Tasks \ ts : status[u] = "pending" => Rank[t] <= Rank[u]
    /\ Move(ts, "taken")

\* complete() returns one abandoned task of a batch
Abandon == \E t \in Tasks : status[t] = "taken" /\ Move({t}, "pending")

\* complete() removes the completed tasks of a batch
Complete ==
  \E ts \in SUBSET Tasks :
    /\ ts # {}
    /\ \A t \in ts : status[t] = "taken"
    /\ Move(ts, "absent")

Next == Insert \/ Take \/ Abandon \/ Complete

Spec == Init /\ [][Next]_status
=============================================================================
