------------------------- MODULE ResourceLockProofs --------------------------
(***************************************************************************)
(* Mutual exclusion of ResourceLock for any callers and resources.  The      *)
(* reference count of a resource is the number of callers in its context     *)
(* manager, so a lock object is deleted only after the last of them, and all *)
(* of them use the one that is in the table.                                 *)
(***************************************************************************)
EXTENDS ResourceLock, FiniteSetTheorems, TLAPS

Users(r) == {c \in Callers : pc[c] # "out" /\ wants[c] = r}

Counted == \A r \in Resources : refs[r] = Cardinality(Users(r))

\* The users of a resource share the object in the table
Shared ==
  \A c \in Callers : pc[c] # "out" => object[c] = locks[wants[c]] /\ object[c] # 0

\* Different resources have different lock objects
Distinct ==
  /\ \A r \in Resources : locks[r] <= made
  /\ \A r, q \in Resources : locks[r] = locks[q] /\ locks[r] # 0 => r = q

IInv == TypeOK /\ Counted /\ Shared /\ Distinct /\ MutualExclusion /\ NoLeak

LEMMA UsersFinite ==
  ASSUME NEW r \in Resources
  PROVE  IsFiniteSet(Users(r)) /\ Cardinality(Users(r)) \in Nat
<1>1. Users(r) \subseteq Callers
  BY DEF Users
<1> QED BY <1>1, ResourceLockAssumption, FS_Subset, FS_CardinalityType

LEMMA LockStep ==
  ASSUME IInv, NEW c \in Callers, NEW r \in Resources, lock(c, r)
  PROVE  IInv'
<1>1. /\ pc[c] = "out"
      /\ wants' = [wants EXCEPT ![c] = r]
      /\ object' = [object EXCEPT ![c] = locks'[r]]
      /\ pc' = [pc EXCEPT ![c] = "wait"]
      /\ refs' = [refs EXCEPT ![r] = @ + 1]
  BY DEF lock
<1>2. \/ locks[r] # 0 /\ locks' = locks /\ made' = made
      \/ locks[r] = 0 /\ made' = made + 1 /\ locks' = [locks EXCEPT ![r] = made + 1]
  BY DEF lock, Fetch
<1>3. TypeOK'
  BY <1>1, <1>2 DEF IInv, TypeOK
<1>4. Counted'
  <2>1. Users(r)' = Users(r) \cup {c} /\ c \notin Users(r)
    BY <1>1 DEF Users, IInv, TypeOK
  <2>2. Cardinality(Users(r)') = Cardinality(Users(r)) + 1
    BY <2>1, UsersFinite, FS_AddElement
  <2>3. \A q \in Resources : q # r => Users(q)' = Users(q)
    BY <1>1 DEF Users, IInv, TypeOK
  <2> QED BY <1>1, <2>2, <2>3 DEF Counted, IInv, TypeOK
<1>5. \A d \in Callers : pc[d] # "out" => locks'[wants[d]] = locks[wants[d]]
  BY <1>2 DEF IInv, TypeOK, Shared
<1>6. locks'[r] # 0
  BY <1>2 DEF IInv, TypeOK
<1>7. Shared'
  BY <1>1, <1>5, <1>6 DEF IInv, TypeOK, Shared
<1>8. Distinct'
  BY <1>2 DEF IInv, TypeOK, Distinct
<1>9. MutualExclusion'
  BY <1>1 DEF IInv, TypeOK, MutualExclusion
<1>10. NoLeak'
  BY <1>1, <1>2 DEF IInv, TypeOK, NoLeak
<1> QED BY <1>3, <1>4, <1>7, <1>8, <1>9, <1>10 DEF IInv

LEMMA EnterStep ==
  ASSUME IInv, NEW c \in Callers, Enter(c)
  PROVE  IInv'
<1>1. /\ pc[c] = "wait"
      /\ \A d \in Callers : ~(pc[d] = "in" /\ object[d] = object[c])
      /\ pc' = [pc EXCEPT ![c] = "in"]
      /\ UNCHANGED <<locks, refs, made, wants, object>>
  BY DEF Enter, locked
<1>2. TypeOK' /\ Shared' /\ Distinct' /\ NoLeak'
  BY <1>1 DEF IInv, TypeOK, Shared, Distinct, NoLeak
<1>3. \A q \in Resources : Users(q)' = Users(q)
  BY <1>1 DEF Users, IInv, TypeOK
<1>4. Counted'
  BY <1>1, <1>3 DEF Counted, IInv
<1>5. MutualExclusion'
  BY <1>1 DEF IInv, TypeOK, MutualExclusion, Shared
<1> QED BY <1>2, <1>4, <1>5 DEF IInv

LEMMA LeaveStep ==
  ASSUME IInv, NEW c \in Callers, Leave(c)
  PROVE  IInv'
<1> DEFINE r == wants[c]
<1>1. /\ pc[c] # "out"
      /\ pc' = [pc EXCEPT ![c] = "out"]
      /\ refs' = [refs EXCEPT ![r] = @ - 1]
      /\ locks' = IF refs[r] - 1 <= 0 THEN [locks EXCEPT ![r] = 0] ELSE locks
      /\ UNCHANGED <<made, wants, object>>
  BY DEF Leave
<1>2. r \in Resources
  BY DEF IInv, TypeOK
<1>3. /\ Users(r)' = Users(r) \ {c} /\ c \in Users(r)
      /\ \A q \in Resources : q # r => Users(q)' = Users(q)
  BY <1>1 DEF Users, IInv, TypeOK
<1>4. /\ IsFiniteSet(Users(r)')
      /\ Cardinality(Users(r)') = Cardinality(Users(r)) - 1
  BY <1>2, <1>3, UsersFinite, FS_RemoveElement
<1>5. Cardinality(Users(r)') \in Nat
  BY <1>4, FS_CardinalityType
<1>6. refs[r] = Cardinality(Users(r)) /\ refs[r] - 1 = Cardinality(Users(r)')
  BY <1>2, <1>4 DEF IInv, Counted
<1>7. TypeOK'
  BY <1>1, <1>2, <1>5, <1>6 DEF IInv, TypeOK
<1>8. Counted'
  BY <1>1, <1>2, <1>3, <1>6 DEF IInv, Counted, TypeOK
<1>9. refs[r] - 1 <= 0 <=> Users(r)' = {}
  BY <1>4, <1>5, <1>6, FS_EmptySet
<1>10. \A d \in Callers : d # c /\ pc[d] # "out" => locks'[wants[d]] = locks[wants[d]]
  BY <1>1, <1>2, <1>9 DEF IInv, TypeOK, Users
<1>11. Shared'
  BY <1>1, <1>10 DEF IInv, TypeOK, Shared
<1>12. Distinct'
  BY <1>1, <1>2 DEF IInv, TypeOK, Distinct
<1>13. MutualExclusion'
  BY <1>1 DEF IInv, TypeOK, MutualExclusion
<1>14. NoLeak'
  <2> SUFFICES ASSUME NEW q \in Resources, locks'[q] # 0
               PROVE  \E d \in Callers : pc'[d] # "out" /\ wants'[d] = q
    BY DEF NoLeak
  <2>1. CASE q = r
    <3>1. Users(r)' # {}
      BY <1>1, <1>2, <1>9, <2>1 DEF IInv, TypeOK
    <3> QED BY <1>1, <2>1, <3>1 DEF Users
  <2>2. CASE q # r
    <3>1. locks'[q] = locks[q]
      BY <1>1, <2>2 DEF IInv, TypeOK
    <3> QED BY <1>1, <2>2, <3>1 DEF IInv, TypeOK, NoLeak
  <2> QED BY <2>1, <2>2
<1> QED BY <1>7, <1>8, <1>11, <1>12, <1>13, <1>14 DEF IInv

LEMMA InvAlways == Spec => []IInv
<1>1. Init => IInv
  <2> SUFFICES ASSUME Init PROVE IInv
    OBVIOUS
  <2>1. \A r \in Resources : Users(r) = {}
    BY DEF Init, Users
  <2>2. Counted
    BY <2>1, FS_EmptySet DEF Init, Counted
  <2> QED BY <2>2 DEF Init, IInv, TypeOK, Shared, Distinct, MutualExclusion, NoLeak
<1>2. IInv /\ [Next]_vars => IInv'
  <2> SUFFICES ASSUME IInv, [Next]_vars PROVE IInv'
    OBVIOUS
  <2>1. CASE UNCHANGED vars
    <3>1. \A q \in Resources : Users(q)' = Users(q)
      BY <2>1 DEF Users, vars
    <3> QED BY <2>1, <3>1
          DEF vars, IInv, TypeOK, Counted, Shared, Distinct, MutualExclusion, NoLeak
  <2> QED BY <2>1, LockStep, EnterStep, LeaveStep DEF Next
<1> QED BY <1>1, <1>2, PTL DEF Spec

\* The table keeps its types; in particular no count goes below zero, whatever
\* calls to lock() are cancelled.
THEOREM TypeCorrect == Spec => []TypeOK
<1>1. IInv => TypeOK
  BY DEF IInv
<1> QED BY <1>1, InvAlways, PTL

\* lock() never lets two callers in for one resource.
THEOREM Exclusive == Spec => []MutualExclusion
<1>1. IInv => MutualExclusion
  BY DEF IInv
<1> QED BY <1>1, InvAlways, PTL

\* The finally clause of lock() leaves no lock behind that nobody uses.
THEOREM NoLockLeaks == Spec => []NoLeak
<1>1. IInv => NoLeak
  BY DEF IInv
<1> QED BY <1>1, InvAlways, PTL
=============================================================================
