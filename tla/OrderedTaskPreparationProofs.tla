-------------------- MODULE OrderedTaskPreparationProofs ---------------------
(***************************************************************************)
(* Proofs about OrderedTaskPreparation, for any tasks, dependencies and     *)
(* bounds: its type invariant, the order in which it hands tasks out, that  *)
(* it overlooks none, and the back-pressure of wait_add_tasks().            *)
(***************************************************************************)
EXTENDS OrderedTaskPreparation, FiniteSetTheorems, TLAPS

-----------------------------------------------------------------------------
(* Sequences *)

\* The first element of a sequence without repetitions and the rest of it.
LEMMA EmptyRange == Range(<<>>) = {}
BY DEF Range

LEMMA TailRange ==
  ASSUME NEW S, NEW s \in Seq(S), s # <<>>
  PROVE  /\ Head(s) \in Range(s)
         /\ Range(Tail(s)) \subseteq Range(s)
         /\ Range(s) \subseteq Range(Tail(s)) \cup {Head(s)}
         /\ IsInjective(s) => IsInjective(Tail(s)) /\ Head(s) \notin Range(Tail(s))
<1>1. Head(s) = s[1] /\ 1 \in DOMAIN s /\ Len(s) \in Nat /\ Len(s) >= 1
  OBVIOUS
<1>2. DOMAIN Tail(s) = 1 .. Len(s) - 1 /\ \A i \in 1 .. Len(s) - 1 : Tail(s)[i] = s[i + 1]
  OBVIOUS
<1>3. DOMAIN s = 1 .. Len(s)
  OBVIOUS
<1>4. \A i \in 1 .. Len(s) - 1 : i + 1 \in DOMAIN s
  BY <1>1, <1>3
<1>5. \A i \in DOMAIN s : i = 1 \/ (i - 1 \in 1 .. Len(s) - 1 /\ (i - 1) + 1 = i)
  BY <1>1, <1>3
<1>6. Range(s) \subseteq Range(Tail(s)) \cup {Head(s)}
  <2>1. SUFFICES ASSUME NEW i \in DOMAIN s, s[i] # Head(s) PROVE s[i] \in Range(Tail(s))
    BY DEF Range
  <2>2. i - 1 \in 1 .. Len(s) - 1 /\ (i - 1) + 1 = i
    BY <1>1, <1>5, <2>1
  <2>3. Tail(s)[i - 1] = s[i]
    BY <1>2, <2>2
  <2>. QED  BY <1>2, <2>2, <2>3 DEF Range
<1>7. Range(Tail(s)) \subseteq Range(s)
  BY <1>2, <1>4 DEF Range
<1>8. ASSUME IsInjective(s) PROVE IsInjective(Tail(s)) /\ Head(s) \notin Range(Tail(s))
  <2>1. \A i \in 1 .. Len(s) - 1 : i + 1 # 1
    BY <1>1
  <2>2. Head(s) \notin Range(Tail(s))
    BY <1>1, <1>2, <1>4, <1>8, <2>1 DEF Range, IsInjective
  <2>3. \A i, j \in 1 .. Len(s) - 1 : i + 1 = j + 1 => i = j
    BY <1>1
  <2>4. IsInjective(Tail(s))
    BY <1>2, <1>4, <1>8, <2>3 DEF IsInjective
  <2>. QED  BY <2>2, <2>4
<1>. QED  BY <1>1, <1>6, <1>7, <1>8 DEF Range

\* The elements of a concatenation.
LEMMA ConcatRange ==
  ASSUME NEW S, NEW s \in Seq(S), NEW t \in Seq(S)
  PROVE  /\ s \o t \in Seq(S)
         /\ \A x : x \in Range(s \o t) <=> x \in Range(s) \/ x \in Range(t)
         /\ IsInjective(s) /\ IsInjective(t) /\ Range(s) \cap Range(t) = {} =>
              IsInjective(s \o t)
<1>1. /\ Len(s) \in Nat /\ Len(t) \in Nat
      /\ DOMAIN s = 1 .. Len(s) /\ DOMAIN t = 1 .. Len(t)
      /\ s \o t \in Seq(S) /\ Len(s \o t) = Len(s) + Len(t)
      /\ DOMAIN (s \o t) = 1 .. Len(s) + Len(t)
  OBVIOUS
<1>2. \A i \in 1 .. Len(s) : (s \o t)[i] = s[i]
  BY <1>1
<1>3. \A i \in 1 .. Len(t) : (s \o t)[Len(s) + i] = t[i]
  BY <1>1
<1>4. \A i \in 1 .. Len(s) + Len(t) :
        \/ i \in 1 .. Len(s)
        \/ (i - Len(s) \in 1 .. Len(t) /\ Len(s) + (i - Len(s)) = i)
  BY <1>1
<1>5. \A i \in 1 .. Len(s) + Len(t) :
        \/ i \in 1 .. Len(s) /\ (s \o t)[i] = s[i]
        \/ i - Len(s) \in 1 .. Len(t) /\ (s \o t)[i] = t[i - Len(s)]
  BY <1>2, <1>3, <1>4
<1>6. Range(s \o t) \subseteq Range(s) \cup Range(t)
  BY <1>1, <1>5 DEF Range
<1>7. \A i \in 1 .. Len(s) : i \in 1 .. Len(s) + Len(t)
  BY <1>1
<1>8. \A i \in 1 .. Len(t) : Len(s) + i \in 1 .. Len(s) + Len(t)
  BY <1>1
<1>9. Range(s) \subseteq Range(s \o t)
  BY <1>1, <1>2, <1>7 DEF Range
<1>10. Range(t) \subseteq Range(s \o t)
  BY <1>1, <1>3, <1>8 DEF Range
<1>11. ASSUME IsInjective(s), IsInjective(t), Range(s) \cap Range(t) = {}
       PROVE  IsInjective(s \o t)
  <2>1. SUFFICES ASSUME NEW i \in 1 .. Len(s) + Len(t), NEW j \in 1 .. Len(s) + Len(t),
                        (s \o t)[i] = (s \o t)[j]
                 PROVE  i = j
    BY <1>1 DEF IsInjective
  <2>2. CASE i \in 1 .. Len(s) /\ j \in 1 .. Len(s)
    BY <1>1, <1>2, <1>11, <2>1, <2>2 DEF IsInjective
  <2>3. CASE i - Len(s) \in 1 .. Len(t) /\ j - Len(s) \in 1 .. Len(t)
    <3>1. i - Len(s) = j - Len(s)
      <4>1. (s \o t)[i] = t[i - Len(s)] /\ (s \o t)[j] = t[j - Len(s)]
        BY <1>1, <1>3, <1>4, <2>3
      <4>. QED  BY <1>1, <1>11, <2>1, <2>3, <4>1 DEF IsInjective
    <3>. QED  BY <1>1, <3>1
  <2>4. CASE i \in 1 .. Len(s) /\ j - Len(s) \in 1 .. Len(t)
    <3>1. (s \o t)[i] = s[i] /\ (s \o t)[j] = t[j - Len(s)]
      BY <1>1, <1>2, <1>3, <1>4, <2>4
    <3>. QED  BY <1>1, <1>11, <2>1, <2>4, <3>1 DEF Range
  <2>5. CASE i - Len(s) \in 1 .. Len(t) /\ j \in 1 .. Len(s)
    <3>1. (s \o t)[j] = s[j] /\ (s \o t)[i] = t[i - Len(s)]
      BY <1>1, <1>2, <1>3, <1>4, <2>5
    <3>. QED  BY <1>1, <1>11, <2>1, <2>5, <3>1 DEF Range
  <2>. QED  BY <1>4, <2>2, <2>3, <2>4, <2>5
<1>. QED  BY <1>1, <1>6, <1>9, <1>10, <1>11

\* A sequence without repetitions split in two.
LEMMA SplitRange ==
  ASSUME NEW S, NEW s \in Seq(S), NEW k \in Nat, k <= Len(s), IsInjective(s)
  PROVE  /\ \A x : \/ x \notin Range(s)
                   \/ x \in Range(SubSeq(s, 1, k))
                   \/ x \in Range(SubSeq(s, k + 1, Len(s)))
         /\ \A x : x \in Range(SubSeq(s, 1, k)) =>
                     x \in Range(s) /\ x \notin Range(SubSeq(s, k + 1, Len(s)))
         /\ \A x : x \in Range(SubSeq(s, k + 1, Len(s))) => x \in Range(s)
         /\ IsInjective(SubSeq(s, k + 1, Len(s)))
<1>. DEFINE y == SubSeq(s, 1, k)
            z == SubSeq(s, k + 1, Len(s))
<1>1. /\ Len(s) \in Nat /\ DOMAIN s = 1 .. Len(s)
      /\ DOMAIN y = 1 .. k /\ \A i \in 1 .. k : y[i] = s[i]
      /\ DOMAIN z = 1 .. Len(s) - k
      /\ \A i \in 1 .. Len(s) - k : z[i] = s[k + i]
  OBVIOUS
<1>. HIDE DEF y, z
<1>2. \A i \in 1 .. Len(s) - k : k + i \in 1 .. Len(s)
  BY <1>1
<1>3. \A i \in 1 .. k : i \in 1 .. Len(s)
  BY <1>1
<1>4. \A i \in 1 .. k, j \in 1 .. Len(s) - k : i <= k + j /\ i # k + j
  BY <1>1
<1>5. \A i, j \in 1 .. Len(s) - k : (k + i = k + j => i = j) /\ (i <= j => k + i <= k + j)
  BY <1>1
<1>6. Range(y) \subseteq Range(s) /\ Range(z) \subseteq Range(s)
  <2>1. \A i \in DOMAIN y : y[i] \in Range(s)
    BY <1>1, <1>3 DEF Range
  <2>2. \A i \in DOMAIN z : z[i] \in Range(s)
    BY <1>1, <1>2 DEF Range
  <2>. QED  BY <2>1, <2>2 DEF Range
<1>7. \A x \in Range(s) : x \in Range(y) \/ x \in Range(z)
  <2>1. SUFFICES ASSUME NEW i \in 1 .. Len(s) PROVE s[i] \in Range(y) \/ s[i] \in Range(z)
    BY <1>1 DEF Range
  <2>2. CASE i \in 1 .. k
    BY <1>1, <2>2 DEF Range
  <2>3. CASE i \notin 1 .. k
    <3>1. i - k \in 1 .. Len(s) - k /\ k + (i - k) = i
      BY <1>1, <2>3
    <3>2. z[i - k] = s[i]
      BY <1>1, <3>1
    <3>. QED  BY <1>1, <3>1, <3>2 DEF Range
  <2>. QED  BY <2>2, <2>3
<1>8. \A i \in 1 .. k, j \in 1 .. Len(s) - k : y[i] # z[j]
  BY <1>1, <1>2, <1>3, <1>4 DEF IsInjective
<1>9. Range(y) \cap Range(z) = {}
  <2>1. SUFFICES ASSUME NEW x \in Range(y), x \in Range(z) PROVE FALSE
    OBVIOUS
  <2>2. PICK i \in 1 .. k : x = y[i]
    BY <1>1 DEF Range
  <2>3. PICK j \in 1 .. Len(s) - k : x = z[j]
    BY <1>1, <2>1 DEF Range
  <2>. QED  BY <1>8, <2>2, <2>3
<1>10. \A i, j \in 1 .. Len(s) - k : z[i] = z[j] => i = j
  <2>1. SUFFICES ASSUME NEW i \in 1 .. Len(s) - k, NEW j \in 1 .. Len(s) - k, z[i] = z[j]
                 PROVE  i = j
    OBVIOUS
  <2>2. k + i \in DOMAIN s /\ k + j \in DOMAIN s /\ s[k + i] = s[k + j]
    BY <1>1, <1>2, <2>1
  <2>3. k + i = k + j
    BY <2>2 DEF IsInjective
  <2>. QED  BY <1>5, <2>3
<1>11. IsInjective(z)
  BY <1>1, <1>10 DEF IsInjective
<1>. QED  BY <1>6, <1>7, <1>9, <1>11 DEF y, z

-----------------------------------------------------------------------------
(* Types *)

\* What Orders and Prunable return.
LEMMA OrdersType ==
  ASSUME NEW S, S \subseteq Tasks, NEW f \in Orders(S)
  PROVE  f \in Seq(Tasks) /\ Range(f) = S /\ IsInjective(f)
<1>1. IsFiniteSet(S)
  BY OTPAssumption, FS_Subset
<1>2. Cardinality(S) \in Nat
  BY <1>1, FS_CardinalityType
<1>3. f \in [1 .. Cardinality(S) -> Tasks] /\ Range(f) = S /\ IsInjective(f)
  BY DEF Orders
<1>. QED  BY <1>2, <1>3

LEMMA TypesInit == Init => TypeOK
  BY OTPAssumption DEF Init, TypeOK

LEMMA TypesStep ==
  ASSUME TypeOK, [Next]_vars
  PROVE  TypeOK'
<1>. USE OTPAssumption
<1>1. ASSUME NEW t \in Tasks, set_finished_dependency(t) PROVE TypeOK'
  BY <1>1 DEF set_finished_dependency, Children, TypeOK
<1>2. ASSUME NEW ts \in Calls, register_tasks(ts) PROVE TypeOK'
  BY <1>2 DEF register_tasks, FreshOf, Calls, TypeOK, history
<1>3. ASSUME NEW t \in Tasks, RegisterOne(t) PROVE TypeOK'
  <2>1. marking' \in Seq(Tasks)
    <3>1. <<t>> \in Seq(Tasks) /\ <<>> \in Seq(Tasks)
      OBVIOUS
    <3>2. marking' = <<t>> \/ marking' = <<>>
      BY <1>3 DEF RegisterOne
    <3>. QED  BY <3>1, <3>2
  <2>2. finished' \in [Tasks -> SUBSET Prereqs]
    BY <1>3 DEF RegisterOne, TypeOK
  <2>. QED  BY <1>3, <2>1, <2>2 DEF RegisterOne, TypeOK, history
<1>4. ASSUME NEW t \in Tasks, RegisterMissing(t) PROVE TypeOK'
  BY <1>4 DEF RegisterMissing, TypeOK, history
<1>5. ASSUME NEW a \in Adders, NEW ts \in Calls, wait_add_tasks(a, ts) PROVE TypeOK'
  BY <1>5 DEF wait_add_tasks, FreshOf, Calls, TypeOK, history
<1>6. ASSUME NEW a \in Adders, WaitForRoom(a) PROVE TypeOK'
  BY <1>6 DEF WaitForRoom, TypeOK, history
<1>7. ASSUME NEW a \in Adders, CancelWait(a) PROVE TypeOK'
  BY <1>7 DEF CancelWait, TypeOK, history
<1>8. ASSUME NEW p \in Prereqs, NEW t \in Tasks, finish_prereq(p, t) PROVE TypeOK'
  <2>1. marking' \in Seq(Tasks)
    <3>1. <<t>> \in Seq(Tasks) /\ <<>> \in Seq(Tasks)
      OBVIOUS
    <3>2. marking' = <<t>> \/ marking' = <<>>
      BY <1>8 DEF finish_prereq
    <3>. QED  BY <3>1, <3>2
  <2>2. finished' \in [Tasks -> SUBSET Prereqs]
    BY <1>8 DEF finish_prereq, TypeOK
  <2>. QED  BY <1>8, <2>1, <2>2 DEF finish_prereq, TypeOK, history
<1>9. ASSUME MarkOne PROVE TypeOK'
  <2>1. PICK kids \in Orders(Qualified(Head(marking))) : marking' = Tail(marking) \o kids
    BY <1>9 DEF MarkOne
  <2>2. Head(marking) \in Tasks /\ Tail(marking) \in Seq(Tasks)
    BY <1>9 DEF MarkOne, TypeOK
  <2>3. Qualified(Head(marking)) \subseteq Tasks
    BY DEF Qualified, Children, TypeOK
  <2>4. kids \in Seq(Tasks)
    BY <2>1, <2>3, OrdersType
  <2>5. marking' \in Seq(Tasks)
    BY <2>1, <2>2, <2>4, ConcatRange
  <2>6. ready' \in Seq(Tasks)
    BY <1>9, <2>2 DEF MarkOne, TypeOK
  <2>. QED  BY <1>9, <2>2, <2>5, <2>6 DEF MarkOne, TypeOK
<1>10. ASSUME ready_tasks PROVE TypeOK'
  <2>1. Len(yielded) \in Nat /\ \A i \in 1 .. Len(yielded) : yielded[i] \in Tasks
    BY DEF TypeOK
  <2>2. \A i \in 1 .. 2 * Len(yielded) : (i + 1) \div 2 \in 1 .. Len(yielded)
    BY <2>1
  <2>3. toPrune' \in [1 .. 2 * Len(yielded) -> Tasks]
    BY <1>10, <2>1, <2>2 DEF ready_tasks
  <2>4. toPrune' \in Seq(Tasks)
    BY <2>1, <2>3
  <2>. QED  BY <1>10, <2>4 DEF ready_tasks, TypeOK, history
<1>11. ASSUME PruneOne PROVE TypeOK'
  <2>1. toPrune' \in Seq(Tasks)
    BY <1>11 DEF PruneOne, TypeOK
  <2>. QED  BY <1>11, <2>1 DEF PruneOne, TypeOK
<1>12. ASSUME NEW n \in 1 .. MaxResults, ready_tasks_return(n) PROVE TypeOK'
  <2>1. PICK k \in Nat : /\ k <= Len(ready) /\ k <= MaxResults
                         /\ yielded' = SubSeq(ready, 1, k)
                         /\ ready' = SubSeq(ready, k + 1, Len(ready))
    <3>1. Len(ready) \in Nat /\ n \in Nat /\ n <= MaxResults
      BY DEF TypeOK
    <3>2. CASE n <= Len(ready)
      BY <1>12, <3>1, <3>2 DEF ready_tasks_return
    <3>3. CASE ~(n <= Len(ready))
      BY <1>12, <3>1, <3>3 DEF ready_tasks_return
    <3>. QED  BY <3>2, <3>3
  <2>2. yielded' \in Seq(Tasks) /\ Len(yielded') = k /\ ready' \in Seq(Tasks)
    BY <2>1 DEF TypeOK
  <2>3. Len(yielded') <= MaxResults
    BY <2>1, <2>2
  <2>4. adder' \in [Adders -> {"idle", "asleep", "woken"}]
    BY <1>12 DEF ready_tasks_return, WakeAdders, TypeOK
  <2>. QED  BY <1>12, <2>2, <2>3, <2>4 DEF ready_tasks_return, TypeOK, history
<1>13. ASSUME UNCHANGED vars PROVE TypeOK'
  BY <1>13 DEF vars, history, TypeOK
<1>. QED
  BY <1>1, <1>2, <1>3, <1>4, <1>5, <1>6, <1>7, <1>8, <1>9, <1>10, <1>11, <1>12, <1>13 DEF Next

\* The type invariant holds in every behaviour of the tracker.
THEOREM TypeCorrect == Spec => []TypeOK
  BY TypesInit, TypesStep, PTL DEF Spec

-----------------------------------------------------------------------------
(* The order of the tasks, whatever order they are registered and declared in *)

Kept ==
  /\ declared \cup out \subseteq tasks
  /\ unready \cap out = {}
  /\ toRegister \cap tasks = {}
  /\ toPrune # <<>> => toRegister = {} /\ marking = <<>>

\* What _mark_complete() walks over can be made ready, and is all that can; what
\* follows the task at its head is there because its dependency was made ready
Marking ==
  /\ Range(marking) \subseteq unready \cap tasks
  /\ IsInjective(marking)
  /\ \A t \in Range(marking) : IsReady(t)
  /\ marking # <<>> => \A t \in Range(Tail(marking)) : Dep[t] \notin unready
  /\ \A t \in (tasks \cap unready) \ (declared \cup overtaken) :
       IsComplete(t) /\ IsReady(t) => t \in Range(marking)

Past ==
  /\ declared \subseteq everDeclared
  /\ tasks \ unready \subseteq emitted \cup everDeclared
  /\ DependencyFirst

OrderInv == TypeOK /\ Kept /\ Marking /\ Past

\* A walk over one task or none
LEMMA ShortWalk ==
  ASSUME NEW t
  PROVE  /\ Range(<<t>>) = {t} /\ IsInjective(<<t>>) /\ Range(Tail(<<t>>)) = {}
         /\ Range(<<>>) = {} /\ IsInjective(<<>>)
<1>1. Range(<<t>>) = {t} /\ IsInjective(<<t>>) /\ Range(<<>>) = {} /\ IsInjective(<<>>)
  BY DEF Range, IsInjective
<1>2. Tail(<<t>>) = <<>>
  OBVIOUS
<1>. QED  BY <1>1, <1>2

LEMMA DeclareOrder ==
  ASSUME OrderInv, NEW t \in Tasks, set_finished_dependency(t)
  PROVE  OrderInv'
<1>. USE OTPAssumption
<1>1. /\ toRegister = {} /\ marking = <<>> /\ toPrune = <<>>
      /\ t \notin tasks
      /\ tasks' = tasks \cup {t}
      /\ declared' = declared \cup {t}
      /\ finished' = [finished EXCEPT ![t] = Prereqs]
      /\ everDeclared' = everDeclared \cup {t}
      /\ overtaken' = overtaken \cup {c \in Children(t) : IsComplete(c) /\ c \in unready}
      /\ unready' = unready /\ toRegister' = toRegister /\ marking' = marking
      /\ toPrune' = toPrune /\ emitted' = emitted /\ out' = out
  BY DEF set_finished_dependency, Quiet
<1>2. TypeOK'
  BY TypesStep DEF OrderInv, Next
<1>3. Kept' /\ Past'
  BY <1>1 DEF OrderInv, Kept, Past, DependencyFirst
<1>4. Range(marking') = {} /\ IsInjective(marking')
  BY <1>1, ShortWalk
<1>5. ASSUME NEW c \in (tasks' \cap unready') \ (declared' \cup overtaken'),
             IsComplete(c)', IsReady(c)'
      PROVE  FALSE
  <2>1. c \in tasks /\ c # t /\ c \in Tasks /\ c \in unready
        /\ c \notin declared /\ c \notin overtaken
    BY <1>1, <1>5 DEF OrderInv, TypeOK
  <2>2. IsComplete(c)
    BY <1>1, <1>5, <2>1 DEF IsComplete, OrderInv, TypeOK
  <2>3. CASE Dep[c] = t
    BY <1>1, <1>5, <2>1, <2>2, <2>3 DEF Children
  <2>4. CASE Dep[c] # t
    <3>1. IsReady(c)
      BY <1>1, <1>5, <2>4 DEF IsReady
    <3>. QED  BY <1>1, <1>4, <2>1, <2>2, <3>1 DEF OrderInv, Marking
  <2>. QED  BY <2>3, <2>4
<1>6. Marking'
  BY <1>1, <1>4, <1>5 DEF Marking
<1>. QED  BY <1>2, <1>3, <1>6 DEF OrderInv

\* Steps that change no task: the calls that start, suspend or return.
LEMMA CallOrder ==
  ASSUME OrderInv, TypeOK',
         UNCHANGED <<tasks, finished, unready, declared, marking, history>>,
         toRegister' \cap tasks = {},
         toPrune' # <<>> => toRegister' = {} /\ marking = <<>>
  PROVE  OrderInv'
<1>1. Kept' /\ Past'
  BY DEF OrderInv, Kept, Past, DependencyFirst, history
<1>2. Marking'
  BY DEF OrderInv, Marking, IsComplete, IsReady, history
<1>. QED  BY <1>1, <1>2 DEF OrderInv

\* A step that starts a walk over t, or none, once t's prerequisites have changed
LEMMA StartOrder ==
  ASSUME OrderInv, TypeOK', NEW t \in Tasks,
         marking = <<>>, toPrune = <<>>, t \notin out,
         tasks' = tasks \cup {t}, unready' = unready \cup {t},
         \A c \in Tasks \ {t} : finished'[c] = finished[c],
         marking' = IF IsComplete(t)' /\ IsReady(t) THEN <<t>> ELSE <<>>,
         toRegister' \cap tasks' = {}, t \in unready \/ t \notin tasks,
         UNCHANGED <<declared, toPrune, history>>
  PROVE  OrderInv'
<1>1. Kept' /\ Past'
  BY DEF OrderInv, Kept, Past, DependencyFirst, history
<1>2. Dep[t] # t
  BY OTPAssumption
<1>3. \A c \in Tasks : IsReady(c)' <=> IsReady(c)
  BY <1>2 DEF IsReady, history
<1>4. \A c \in Tasks \ {t} : IsComplete(c)' <=> IsComplete(c)
  BY DEF IsComplete
<1>5. ASSUME NEW c \in (tasks' \cap unready') \ (declared' \cup overtaken'),
             IsComplete(c)', IsReady(c)', c # t
      PROVE  FALSE
  <2>1. c \in tasks /\ c \in unready /\ c \in Tasks /\ c \notin declared /\ c \notin overtaken
    BY <1>5 DEF OrderInv, TypeOK, history
  <2>2. IsComplete(c) /\ IsReady(c)
    BY <1>3, <1>4, <1>5, <2>1
  <2>. QED  BY <2>1, <2>2, EmptyRange DEF OrderInv, Marking
<1>6. Marking'
  <2>1. CASE IsComplete(t)' /\ IsReady(t)
    <3>1. marking' = <<t>>
      BY <2>1
    <3>2. Range(marking') = {t} /\ IsInjective(marking') /\ Range(Tail(marking')) = {}
      BY <3>1, ShortWalk
    <3>. QED  BY <1>3, <1>5, <2>1, <3>2 DEF Marking
  <2>2. CASE ~(IsComplete(t)' /\ IsReady(t))
    <3>1. marking' = <<>>
      BY <2>2
    <3>2. Range(marking') = {} /\ IsInjective(marking')
      BY <3>1, ShortWalk
    <3>. QED  BY <1>3, <1>5, <2>2, <3>1, <3>2 DEF Marking
  <2>. QED  BY <2>1, <2>2
<1>. QED  BY <1>1, <1>6 DEF OrderInv

LEMMA RegisterOrder ==
  ASSUME OrderInv, NEW t \in Tasks, RegisterOne(t)
  PROVE  OrderInv'
<1>1. /\ marking = <<>> /\ t \in toRegister
      /\ tasks' = tasks \cup {t} /\ unready' = unready \cup {t}
      /\ finished' = [finished EXCEPT ![t] = {}]
      /\ marking' = IF Prereqs = {} /\ IsReady(t) THEN <<t>> ELSE <<>>
      /\ toRegister' = toRegister \ {t}
      /\ UNCHANGED <<declared, toPrune, history>>
  BY DEF RegisterOne
<1>2. TypeOK'
  BY TypesStep DEF OrderInv, Next
<1>3. /\ t \notin tasks /\ t \notin out /\ toPrune = <<>>
      /\ toRegister' \cap tasks' = {}
  BY <1>1 DEF OrderInv, Kept
<1>4. (\A c \in Tasks \ {t} : finished'[c] = finished[c]) /\ finished'[t] = {}
  BY <1>1 DEF OrderInv, TypeOK
<1>5. IsComplete(t)' <=> Prereqs = {}
  BY <1>4 DEF IsComplete
<1>6. marking' = IF IsComplete(t)' /\ IsReady(t) THEN <<t>> ELSE <<>>
  BY <1>1, <1>5
<1>. QED  BY <1>1, <1>2, <1>3, <1>4, <1>6, StartOrder

LEMMA FinishOrder ==
  ASSUME OrderInv, NEW p \in Prereqs, NEW t \in Tasks, finish_prereq(p, t)
  PROVE  OrderInv'
<1>1. /\ toRegister = {} /\ marking = <<>> /\ toPrune = <<>> /\ t \in tasks \cap unready
      /\ finished' = [finished EXCEPT ![t] = finished[t] \cup {p}]
      /\ marking' = IF finished[t] \cup {p} = Prereqs /\ IsReady(t) THEN <<t>> ELSE <<>>
      /\ UNCHANGED <<tasks, unready, toRegister, declared, toPrune, history>>
  BY DEF finish_prereq, Quiet
<1>2. TypeOK'
  BY TypesStep DEF OrderInv, Next
<1>3. (\A c \in Tasks \ {t} : finished'[c] = finished[c]) /\ finished'[t] = finished[t] \cup {p}
  BY <1>1 DEF OrderInv, TypeOK
<1>4. IsComplete(t)' <=> finished[t] \cup {p} = Prereqs
  BY <1>3 DEF IsComplete
<1>5. marking' = IF IsComplete(t)' /\ IsReady(t) THEN <<t>> ELSE <<>>
  BY <1>1, <1>4
<1>6. /\ t \notin out /\ tasks' = tasks \cup {t} /\ unready' = unready \cup {t}
      /\ toRegister' \cap tasks' = {} /\ t \in unready
  BY <1>1 DEF OrderInv, Kept
<1>. QED  BY <1>1, <1>2, <1>3, <1>5, <1>6, StartOrder

LEMMA MarkOrder ==
  ASSUME OrderInv, MarkOne
  PROVE  OrderInv'
<1>. DEFINE t == Head(marking)
<1>1. PICK kids \in Orders(Qualified(t)) : marking' = Tail(marking) \o kids
  BY DEF MarkOne
<1>2. /\ marking # <<>>
      /\ unready' = unready \ {t}
      /\ emitted' = emitted \cup {t} /\ out' = out \cup {t} /\ overtaken' = overtaken \ {t}
      /\ tasks' = tasks /\ finished' = finished /\ declared' = declared
      /\ toRegister' = toRegister /\ toPrune' = toPrune /\ everDeclared' = everDeclared
  BY DEF MarkOne
<1>3. TypeOK'
  BY TypesStep DEF OrderInv, Next
<1>4. /\ t \in Range(marking)
      /\ Range(Tail(marking)) \subseteq Range(marking)
      /\ Range(marking) \subseteq Range(Tail(marking)) \cup {t}
      /\ IsInjective(Tail(marking)) /\ t \notin Range(Tail(marking))
      /\ Tail(marking) \in Seq(Tasks)
  <2>1. marking \in Seq(Tasks) /\ IsInjective(marking)
    BY DEF OrderInv, TypeOK, Marking
  <2>2. Tail(marking) \in Seq(Tasks)
    BY <1>2, <2>1
  <2>. QED  BY <1>2, <2>1, <2>2, TailRange
<1>5. Qualified(t) \subseteq Tasks
  BY DEF Qualified, Children, OrderInv, TypeOK
<1>6. kids \in Seq(Tasks) /\ Range(kids) = Qualified(t) /\ IsInjective(kids)
  BY <1>1, <1>5, OrdersType
<1>7. /\ Range(marking') = Range(Tail(marking)) \cup Qualified(t)
      /\ marking' \in Seq(Tasks)
  <2>1. /\ \A x : x \in Range(Tail(marking) \o kids) <=> x \in Range(Tail(marking)) \/ x \in Range(kids)
        /\ Tail(marking) \o kids \in Seq(Tasks)
    BY <1>4, <1>6, ConcatRange
  <2>. QED  BY <1>1, <1>6, <2>1
<1>8. t \in unready /\ t \in tasks /\ t \in Tasks /\ IsReady(t) /\ Dep[t] # t
  BY <1>4, OTPAssumption DEF OrderInv, Marking, TypeOK
<1>9. Kept'
  BY <1>2, <1>8 DEF OrderInv, Kept
<1>10. Past'
  <2>1. Dep[t] \in emitted \cup everDeclared
    BY <1>8 DEF IsReady, OrderInv, Past
  <2>. QED  BY <1>2, <2>1 DEF OrderInv, Past, DependencyFirst
<1>11. Marking'
  <2>. HIDE DEF t
  <2>1. \A c \in Qualified(t) : c \in tasks /\ Dep[c] = t /\ IsComplete(c) /\ c \in unready /\ c # t
    BY <1>8 DEF Qualified, Children
  <2>2. \A c \in Range(Tail(marking)) : c \in unready /\ c \in tasks /\ c \in Tasks /\ IsReady(c)
    BY <1>4 DEF OrderInv, Marking, TypeOK
  <2>3. \A c \in Range(Tail(marking)) : Dep[c] \notin unready
    BY <1>2 DEF OrderInv, Marking
  <2>4. IsInjective(marking')
    <3>1. Range(Tail(marking)) \cap Range(kids) = {}
      BY <1>6, <1>8, <2>1, <2>3
    <3>. QED  BY <1>1, <1>4, <1>6, <3>1, ConcatRange
  <2>5. Range(marking') \subseteq unready' \cap tasks'
    BY <1>2, <1>4, <1>7, <2>1, <2>2
  <2>6. \A c \in Tasks : IsReady(c)' <=> IsReady(c) \/ Dep[c] = t
    BY <1>2, <1>8 DEF IsReady
  <2>7. \A c \in Range(marking') : IsReady(c)'
    BY <1>5, <1>7, <2>1, <2>2, <2>6
  <2>8. \A c \in Range(marking') : Dep[c] \notin unready'
    BY <1>2, <1>7, <2>1, <2>3
  <2>9. marking' # <<>> => Range(Tail(marking')) \subseteq Range(marking')
    BY <1>7, TailRange
  <2>10. ASSUME NEW c \in (tasks' \cap unready') \ (declared' \cup overtaken'),
                IsComplete(c)', IsReady(c)'
         PROVE  c \in Range(marking')
    <3>1. /\ c \in tasks /\ c \in unready /\ c # t /\ c \in Tasks
          /\ c \notin declared /\ c \notin overtaken
      BY <1>2, <2>10 DEF OrderInv, TypeOK
    <3>2. IsComplete(c) /\ (IsReady(c) \/ Dep[c] = t)
      BY <1>2, <2>6, <2>10, <3>1 DEF IsComplete
    <3>3. CASE IsReady(c)
      BY <1>4, <1>7, <3>1, <3>2, <3>3 DEF OrderInv, Marking
    <3>4. CASE Dep[c] = t
      BY <1>7, <3>1, <3>2, <3>4 DEF Qualified, Children
    <3>. QED  BY <3>2, <3>3, <3>4
  <2>. QED  BY <2>4, <2>5, <2>7, <2>8, <2>9, <2>10 DEF Marking
<1>. QED  BY <1>3, <1>9, <1>10, <1>11 DEF OrderInv

LEMMA PruneOrder ==
  ASSUME OrderInv, PruneOne
  PROVE  OrderInv'
<1>1. PICK gone : tasks' = tasks \ gone /\ declared' = declared \ gone /\ out' = out \ gone
  BY DEF PruneOne
<1>2. /\ toPrune # <<>>
      /\ finished' = finished /\ unready' = unready /\ toRegister' = toRegister
      /\ marking' = marking /\ emitted' = emitted /\ everDeclared' = everDeclared
      /\ overtaken' = overtaken
  BY DEF PruneOne
<1>3. TypeOK'
  BY TypesStep DEF OrderInv, Next
<1>4. toRegister = {} /\ marking = <<>>
  BY <1>2 DEF OrderInv, Kept
<1>5. Kept' /\ Past'
  BY <1>1, <1>2, <1>4 DEF OrderInv, Kept, Past, DependencyFirst
<1>6. Marking'
  <2>1. Range(marking') = {} /\ Range(marking) = {} /\ IsInjective(marking')
    BY <1>2, <1>4, ShortWalk
  <2>2. \A c : (IsReady(c)' => IsReady(c)) /\ (IsComplete(c)' <=> IsComplete(c))
    BY <1>1, <1>2 DEF IsReady, IsComplete
  <2>. QED  BY <1>1, <1>2, <1>4, <2>1, <2>2 DEF OrderInv, Marking
<1>. QED  BY <1>3, <1>5, <1>6 DEF OrderInv

LEMMA OrderInit == Init => OrderInv
<1>. SUFFICES ASSUME Init PROVE OrderInv
  OBVIOUS
<1>1. TypeOK
  BY TypesInit
<1>2. Range(<<>>) = {} /\ IsInjective(<<>>)
  BY ShortWalk
<1>3. Kept /\ Past
  BY DEF Init, Kept, Past, DependencyFirst
<1>4. Marking
  BY <1>2 DEF Init, Marking
<1>. QED  BY <1>1, <1>3, <1>4 DEF OrderInv

LEMMA OrderStep ==
  ASSUME OrderInv, [Next]_vars
  PROVE  OrderInv'
<1>1. TypeOK'
  BY TypesStep DEF OrderInv
<1>2. ASSUME NEW ts \in Calls, register_tasks(ts) PROVE OrderInv'
  BY <1>1, <1>2, CallOrder DEF register_tasks, FreshOf, Quiet
<1>3. ASSUME NEW t \in Tasks, RegisterMissing(t) PROVE OrderInv'
  BY <1>1, <1>3, CallOrder DEF RegisterMissing, OrderInv, Kept
<1>4. ASSUME NEW a \in Adders, NEW ts \in Calls, wait_add_tasks(a, ts) PROVE OrderInv'
  BY <1>1, <1>4, CallOrder DEF wait_add_tasks, FreshOf, Quiet
<1>5. ASSUME NEW a \in Adders, WaitForRoom(a) \/ CancelWait(a) PROVE OrderInv'
  BY <1>1, <1>5, CallOrder DEF WaitForRoom, CancelWait, OrderInv, Kept
<1>6. ASSUME ready_tasks PROVE OrderInv'
  BY <1>1, <1>6, CallOrder DEF ready_tasks, Quiet
<1>7. ASSUME NEW n \in 1 .. MaxResults, ready_tasks_return(n) PROVE OrderInv'
  BY <1>1, <1>7, CallOrder DEF ready_tasks_return, Quiet
<1>8. ASSUME UNCHANGED vars PROVE OrderInv'
  BY <1>1, <1>8, CallOrder DEF vars, OrderInv, Kept
<1>. QED
  BY <1>2, <1>3, <1>4, <1>5, <1>6, <1>7, <1>8, DeclareOrder, RegisterOrder, FinishOrder,
     MarkOrder, PruneOrder DEF Next

LEMMA OrderAlways == Spec => []OrderInv
  BY OrderInit, OrderStep, PTL DEF Spec

\* In whatever order tasks are registered, completed, pruned and declared finished,
\* no task that could be handed out is overlooked by register_tasks(),
\* finish_prereq() and _mark_complete(), except by a declaration that comes after it.
THEOREM NoneOverlooked == Spec => []NothingStuck
<1>1. OrderInv => NothingStuck
  <2>1. SUFFICES ASSUME OrderInv, Quiet,
                        NEW t \in (tasks \cap unready) \ (declared \cup overtaken),
                        IsComplete(t), IsReady(t)
                 PROVE  FALSE
    BY DEF NothingStuck
  <2>2. t \in Range(marking)
    BY <2>1 DEF OrderInv, Marking
  <2>. QED  BY <2>1, <2>2, EmptyRange DEF Quiet
<1>. QED  BY <1>1, OrderAlways, PTL

\* A tracked task enters the ready queue at most once, whatever the callers do.
THEOREM HandedOutOnce == Spec => []EmittedOnce
<1>1. OrderInv => EmittedOnce
  BY DEF OrderInv, EmittedOnce, Kept, Marking
<1>. QED  BY <1>1, OrderAlways, PTL

\* A task is handed out after its dependency was, or was declared finished.
THEOREM InDependencyOrder == Spec => []DependencyFirst
<1>1. OrderInv => DependencyFirst
  BY DEF OrderInv, Past
<1>. QED  BY <1>1, OrderAlways, PTL

-----------------------------------------------------------------------------
(* What pruning forgets, for callers that keep to the order: no task is        *)
(* registered below which others are tracked, nor declared finished before its *)
(* dependency was handed out.                                                  *)

InOrder == ~LateRegister /\ ~AheadDeclare

Apart ==
  /\ unready \subseteq tasks
  /\ declared \cap unready = {}
  /\ Range(ready) \subseteq tasks \ unready

\* A task is past unready, and past the ready queue, only after its dependency
Upward ==
  \A t \in tasks \ unready :
    /\ Dep[t] \in tasks => Dep[t] \notin unready
    /\ t \notin Range(ready) => Dep[t] \notin Range(ready)

QueueOrder ==
  /\ IsInjective(ready)
  /\ \A i, j \in DOMAIN ready : i <= j => ready[j] # Dep[ready[i]]

\* What depends on a task that a register_tasks() call has left was registered by
\* the same call
Registering == \A t \in toRegister : Children(t) \subseteq unready

\* Tasks are pruned above tasks that have left the ready queue
Pruning ==
  /\ consumer = "idle" => Range(yielded) \subseteq tasks \ (unready \cup Range(ready))
  /\ \A t \in Range(toPrune) \cap tasks : t \notin unready \cup Range(ready)
  /\ toPrune # <<>> => consumer = "waiting"

Inv == OrderInv /\ Apart /\ Upward /\ QueueOrder /\ Registering /\ Pruning

\* The steps about one task each, with what they leave alone.
LEMMA DeclareStep ==
  ASSUME Inv, InOrder, NEW t \in Tasks, set_finished_dependency(t)
  PROVE  Inv'
<1>. USE OTPAssumption
<1>1. /\ toRegister = {} /\ toPrune = <<>>
      /\ t \notin tasks
      /\ Dep[t] \notin unready \cup Range(ready) /\ Dep[t] # t
      /\ tasks' = tasks \cup {t}
      /\ declared' = declared \cup {t}
      /\ unready' = unready /\ ready' = ready /\ yielded' = yielded
      /\ toRegister' = toRegister /\ toPrune' = toPrune /\ consumer' = consumer
  BY DEF set_finished_dependency, Quiet, InOrder
<1>2. OrderInv'
  BY OrderStep DEF Inv, Next
<1>3. unready \subseteq tasks /\ Range(ready) \subseteq tasks \ unready
  BY DEF Inv, Apart
<1>4. Range(ready') = Range(ready) /\ Range(toPrune') = {} /\ Range(yielded') = Range(yielded)
  BY <1>1 DEF Range
<1>5. Apart'
  BY <1>1, <1>3, <1>4 DEF Inv, Apart
<1>6. Upward'
  BY <1>1, <1>3, <1>4 DEF Inv, Upward
<1>7. QueueOrder'
  BY <1>1 DEF Inv, QueueOrder, IsInjective
<1>8. Registering'
  BY <1>1 DEF Registering
<1>9. Pruning'
  BY <1>1, <1>3, <1>4 DEF Inv, Pruning
<1>. QED  BY <1>2, <1>5, <1>6, <1>7, <1>8, <1>9 DEF Inv

\* Steps that change no task: the calls that start or suspend, and finish_prereq().
LEMMA CallStep ==
  ASSUME Inv, OrderInv',
         UNCHANGED <<tasks, unready, ready, declared, yielded, toPrune, consumer>>,
         \A t \in toRegister' : Children(t) \subseteq unready
  PROVE  Inv'
<1>1. Apart' /\ Upward' /\ QueueOrder'
  BY DEF Inv, Apart, Upward, QueueOrder, Range, IsInjective
<1>2. Registering'
  BY DEF Registering, Children
<1>3. Pruning'
  BY DEF Inv, Pruning, Range
<1>. QED  BY <1>1, <1>2, <1>3 DEF Inv

LEMMA RegisterStep ==
  ASSUME Inv, NEW t \in Tasks, RegisterOne(t)
  PROVE  Inv'
<1>. USE OTPAssumption
<1>1. /\ t \in toRegister
      /\ tasks' = tasks \cup {t}
      /\ unready' = unready \cup {t}
      /\ toRegister' = toRegister \ {t}
      /\ ready' = ready /\ declared' = declared /\ yielded' = yielded /\ toPrune' = toPrune
      /\ consumer' = consumer
      /\ Dep[t] # t
  BY DEF RegisterOne
<1>2. OrderInv'
  BY OrderStep DEF Inv, Next
<1>3. unready \cup declared \subseteq tasks /\ Range(ready) \subseteq tasks \ unready
  BY DEF Inv, Apart, OrderInv, Kept
<1>4. t \notin tasks /\ \A c \in tasks : Dep[c] = t => c \in unready
  BY <1>1 DEF Inv, OrderInv, Kept, Registering, Children
<1>5. toPrune = <<>>
  BY <1>1 DEF Inv, OrderInv, Kept
<1>6. Range(ready') = Range(ready) /\ Range(toPrune') = {} /\ Range(yielded') = Range(yielded)
  BY <1>1, <1>5 DEF Range
<1>7. Apart'
  BY <1>1, <1>3, <1>4, <1>6 DEF Inv, Apart
<1>8. Upward'
  BY <1>1, <1>3, <1>4, <1>6 DEF Inv, Upward
<1>9. QueueOrder'
  BY <1>1 DEF Inv, QueueOrder, IsInjective
<1>10. Registering'
  BY <1>1, <1>3, <1>4 DEF Inv, Registering, Children
<1>11. Pruning'
  BY <1>1, <1>3, <1>4, <1>5, <1>6 DEF Inv, Pruning
<1>. QED  BY <1>2, <1>7, <1>8, <1>9, <1>10, <1>11 DEF Inv

LEMMA MarkStep ==
  ASSUME Inv, MarkOne
  PROVE  Inv'
<1>. USE OTPAssumption
<1>1. PICK t : t = Head(marking)
  OBVIOUS
<1>2. /\ marking # <<>>
      /\ ready' = Append(ready, t)
      /\ unready' = unready \ {t}
      /\ tasks' = tasks /\ declared' = declared /\ yielded' = yielded
      /\ toRegister' = toRegister /\ toPrune' = toPrune /\ consumer' = consumer
  BY <1>1 DEF MarkOne
<1>3. OrderInv'
  BY OrderStep DEF Inv, Next
<1>4. t \in Range(marking)
  BY <1>1, <1>2, TailRange DEF Inv, OrderInv, TypeOK
<1>5. t \in unready /\ t \in tasks /\ t \in Tasks /\ IsReady(t) /\ Dep[t] # t
      /\ t \notin declared /\ t \notin Range(ready)
  BY <1>4 DEF Inv, OrderInv, Marking, Apart, TypeOK
<1>6. toPrune = <<>>
  BY <1>2 DEF Inv, OrderInv, Kept
<1>7. /\ Range(ready') = Range(ready) \cup {t}
      /\ Len(ready) \in Nat /\ DOMAIN ready = 1 .. Len(ready)
      /\ DOMAIN ready' = 1 .. Len(ready) + 1
      /\ \A i \in 1 .. Len(ready) : ready'[i] = ready[i]
      /\ ready'[Len(ready) + 1] = t
  <2>1. ready \in Seq(Tasks)
    BY DEF Inv, OrderInv, TypeOK
  <2>2. ready' = ready \o <<t>> /\ <<t>> \in Seq(Tasks) /\ Range(<<t>>) = {t}
    <3>1. ready' = ready \o <<t>>
      BY <1>2, <1>5, <2>1
    <3>2. <<t>> \in Seq(Tasks)
      BY <1>5
    <3>3. Range(<<t>>) = {t}
      BY DEF Range
    <3>. QED  BY <3>1, <3>2, <3>3
  <2>3. \A x : x \in Range(ready \o <<t>>) <=> x \in Range(ready) \/ x \in Range(<<t>>)
    BY <2>1, <2>2, ConcatRange
  <2>4. Range(ready') = Range(ready) \cup {t}
    BY <2>2, <2>3
  <2>. QED  BY <1>2, <2>1, <2>4
<1>8. Apart'
  BY <1>2, <1>5, <1>7 DEF Inv, Apart
<1>9. Dep[t] \in tasks /\ Dep[t] \notin unready
  BY <1>5 DEF IsReady, Inv, OrderInv, Kept, Apart
<1>10. Upward'
  <2>1. ASSUME NEW c \in tasks' \ unready', Dep[c] \in tasks' PROVE Dep[c] \notin unready'
    BY <1>2, <1>9, <2>1 DEF Inv, Upward
  <2>2. ASSUME NEW c \in tasks' \ unready', c \notin Range(ready') PROVE Dep[c] \notin Range(ready')
    <3>1. c \in tasks \ unready /\ c \notin Range(ready) /\ c # t
      BY <1>2, <1>5, <1>7, <2>2
    <3>2. Dep[c] \notin Range(ready)
      BY <3>1 DEF Inv, Upward
    <3>3. Dep[c] # t
      BY <1>5, <3>1 DEF Inv, Upward
    <3>. QED  BY <1>7, <3>2, <3>3
  <2>. QED  BY <2>1, <2>2 DEF Upward
<1>11. QueueOrder'
  <2>1. \A i \in 1 .. Len(ready) : ready[i] \in Range(ready) /\ ready[i] # t
    BY <1>5, <1>7 DEF Range
  <2>2. \A i \in 1 .. Len(ready) : Dep[ready[i]] # t
    BY <1>5, <2>1 DEF Inv, Apart, Upward
  <2>3. \A i \in 1 .. Len(ready) + 1 : i \in 1 .. Len(ready) \/ i = Len(ready) + 1
    BY <1>7
  <2>4. IsInjective(ready')
    BY <1>7, <2>1, <2>3 DEF Inv, QueueOrder, IsInjective
  <2>5. ASSUME NEW i \in DOMAIN ready', NEW j \in DOMAIN ready', i <= j
        PROVE  ready'[j] # Dep[ready'[i]]
    <3>1. CASE i \in 1 .. Len(ready) /\ j \in 1 .. Len(ready)
      BY <1>7, <2>5, <3>1 DEF Inv, QueueOrder
    <3>2. CASE i \in 1 .. Len(ready) /\ j = Len(ready) + 1
      BY <1>7, <2>2, <3>2
    <3>3. CASE i = Len(ready) + 1
      <4>1. j = Len(ready) + 1
        BY <1>7, <2>5, <3>3
      <4>. QED  BY <1>5, <1>7, <3>3, <4>1
    <3>. QED  BY <1>7, <2>3, <3>1, <3>2, <3>3
  <2>. QED  BY <2>4, <2>5 DEF QueueOrder
<1>12. Registering'
  <2>1. \A r \in toRegister : r \notin tasks
    BY DEF Inv, OrderInv, Kept
  <2>2. \A r \in toRegister : Dep[t] # r
    BY <1>9, <2>1
  <2>. QED  BY <1>2, <2>2 DEF Inv, Registering, Children
<1>13. Pruning'
  <2>1. consumer = "idle" => t \notin Range(yielded)
    BY <1>5 DEF Inv, Pruning
  <2>2. Range(toPrune') = {}
    BY <1>2, <1>6, EmptyRange
  <2>3. Range(yielded') = Range(yielded)
    BY <1>2 DEF Range
  <2>. QED  BY <1>2, <1>6, <1>7, <2>1, <2>2, <2>3 DEF Inv, Pruning
<1>. QED
  BY <1>3, <1>8, <1>10, <1>11, <1>12, <1>13 DEF Inv

LEMMA AskStep ==
  ASSUME Inv, ready_tasks
  PROVE  Inv'
<1>1. /\ toRegister = {}
      /\ consumer = "idle" /\ consumer' = "waiting"
      /\ toPrune' = [i \in 1 .. 2 * Len(yielded) |-> yielded[(i + 1) \div 2]]
      /\ tasks' = tasks /\ unready' = unready /\ ready' = ready
      /\ declared' = declared /\ yielded' = yielded /\ toRegister' = toRegister
  BY DEF ready_tasks, Quiet
<1>2. OrderInv'
  BY OrderStep DEF Inv, Next
<1>3. Apart' /\ Upward' /\ QueueOrder'
  BY <1>1 DEF Inv, Apart, Upward, QueueOrder, Range
<1>4. Registering'
  BY <1>1 DEF Registering
<1>5. Pruning'
  <2>1. Len(yielded) \in Nat /\ DOMAIN yielded = 1 .. Len(yielded)
    BY DEF Inv, OrderInv, TypeOK
  <2>2. \A i \in 1 .. 2 * Len(yielded) : (i + 1) \div 2 \in 1 .. Len(yielded)
    BY <2>1
  <2>3. Range(toPrune') \subseteq Range(yielded)
    BY <1>1, <2>1, <2>2 DEF Range
  <2>4. Range(ready') = Range(ready)
    BY <1>1 DEF Range
  <2>. QED  BY <1>1, <2>3, <2>4 DEF Inv, Pruning
<1>. QED  BY <1>2, <1>3, <1>4, <1>5 DEF Inv

\* What is pruned has left the ready queue: the tasks that have are closed under
\* dependencies, and the path above a task is the least such set.
LEMMA PrunedTask ==
  ASSUME Inv, NEW h \in Range(toPrune), NEW gone \in Prunable(h)
  PROVE  gone \cap (unready \cup Range(ready)) = {}
<1>1. CASE ~PruneDue(h)
  BY <1>1 DEF Prunable
<1>2. CASE PruneDue(h)
  <2>1. PICK r \in Tree!Path(h) : gone = {r}
    BY <1>2 DEF Prunable
  <2>. DEFINE S == tasks \ (unready \cup Range(ready))
  <2>2. h \in S
    BY <1>2 DEF PruneDue, Inv, Pruning
  <2>3. \A x \in S : Dep[x] \in tasks => Dep[x] \in S
    BY DEF Inv, Upward
  <2>4. Tree!Present = tasks
    BY DEF Tree!Present
  <2>5. \A x \in S : Tree!HasParent(x) => [t \in tasks |-> Dep[t]][x] \in S
    BY <2>3, <2>4 DEF Tree!HasParent
  <2>6. S \in SUBSET Tree!Present
    BY <2>4
  <2>7. r \in S
    <3>. HIDE DEF S
    <3>. QED  BY <2>2, <2>5, <2>6 DEF Tree!Path
  <2>. QED  BY <2>1, <2>7
<1>. QED  BY <1>1, <1>2

LEMMA PruneStep ==
  ASSUME Inv, PruneOne
  PROVE  Inv'
<1>. DEFINE h == Head(toPrune)
<1>1. PICK gone \in Prunable(h) : tasks' = tasks \ gone /\ declared' = declared \ gone
  BY DEF PruneOne
<1>2. /\ toPrune # <<>> /\ toPrune' = Tail(toPrune)
      /\ unready' = unready /\ ready' = ready /\ yielded' = yielded
      /\ toRegister' = toRegister /\ consumer' = consumer
  BY DEF PruneOne
<1>3. OrderInv'
  BY OrderStep DEF Inv, Next
<1>4. h \in Range(toPrune) /\ Range(toPrune') \subseteq Range(toPrune)
  BY <1>2, TailRange DEF Inv, OrderInv, TypeOK
<1>5. gone \cap (unready \cup Range(ready)) = {}
  BY <1>1, <1>4, PrunedTask
<1>6. consumer = "waiting" /\ toRegister = {}
  BY <1>2 DEF Inv, Pruning, OrderInv, Kept
<1>7. Range(ready') = Range(ready)
  BY <1>2 DEF Range
<1>8. Apart'
  BY <1>1, <1>2, <1>5, <1>7 DEF Inv, Apart
<1>9. Upward'
  BY <1>1, <1>2, <1>7 DEF Inv, Upward
<1>10. QueueOrder'
  BY <1>2 DEF Inv, QueueOrder, IsInjective
<1>11. Registering'
  BY <1>2, <1>6 DEF Registering
<1>12. Pruning'
  BY <1>1, <1>2, <1>4, <1>6, <1>7 DEF Inv, Pruning
<1>. QED
  BY <1>3, <1>8, <1>9, <1>10, <1>11, <1>12 DEF Inv

LEMMA YieldStep ==
  ASSUME Inv, NEW n \in 1 .. MaxResults, ready_tasks_return(n)
  PROVE  Inv'
<1>. USE OTPAssumption
<1>1. /\ toRegister = {} /\ toPrune = <<>>
      /\ consumer = "waiting" /\ consumer' = "idle"
      /\ tasks' = tasks /\ unready' = unready /\ declared' = declared
      /\ toRegister' = toRegister /\ toPrune' = toPrune
  BY DEF ready_tasks_return, Quiet
<1>2. OrderInv'
  BY OrderStep DEF Inv, Next
<1>3. PICK k \in Nat : /\ k <= Len(ready)
                       /\ yielded' = SubSeq(ready, 1, k)
                       /\ ready' = SubSeq(ready, k + 1, Len(ready))
  <2>1. Len(ready) \in Nat /\ n \in Nat
    BY DEF Inv, OrderInv, TypeOK
  <2>2. CASE n <= Len(ready)
    BY <2>1, <2>2 DEF ready_tasks_return
  <2>3. CASE ~(n <= Len(ready))
    BY <2>1, <2>3 DEF ready_tasks_return
  <2>. QED  BY <2>2, <2>3
<1>4. /\ Range(yielded') \subseteq Range(ready) /\ Range(ready') \subseteq Range(ready)
      /\ \A x \in Range(ready) : x \in Range(yielded') \/ x \in Range(ready')
      /\ IsInjective(ready') /\ Range(yielded') \cap Range(ready') = {}
      /\ \A i \in DOMAIN ready' : k + i \in DOMAIN ready /\ ready'[i] = ready[k + i]
      /\ \A i \in DOMAIN yielded' : i \in DOMAIN ready /\ yielded'[i] = ready[i]
      /\ \A i \in DOMAIN yielded', j \in DOMAIN ready' : i <= k + j
      /\ \A i, j \in DOMAIN ready' : i <= j => k + i <= k + j
  <2>1. ready \in Seq(Tasks) /\ IsInjective(ready)
    BY DEF Inv, OrderInv, TypeOK, QueueOrder
  <2>. DEFINE y == SubSeq(ready, 1, k)
              z == SubSeq(ready, k + 1, Len(ready))
  <2>2. /\ \A x : x \in Range(ready) <=> x \in Range(y) \/ x \in Range(z)
        /\ \A x : ~(x \in Range(y) /\ x \in Range(z))
        /\ IsInjective(z)
    BY <1>3, <2>1, SplitRange
  <2>3. /\ \A i \in DOMAIN z : k + i \in DOMAIN ready /\ z[i] = ready[k + i]
        /\ \A i \in DOMAIN y : i \in DOMAIN ready /\ y[i] = ready[i]
        /\ \A i \in DOMAIN y, j \in DOMAIN z : i <= k + j
        /\ \A i, j \in DOMAIN z : i <= j => k + i <= k + j
    <3>1. /\ Len(ready) \in Nat /\ DOMAIN ready = 1 .. Len(ready)
          /\ DOMAIN y = 1 .. k /\ \A i \in 1 .. k : y[i] = ready[i]
          /\ DOMAIN z = 1 .. Len(ready) - k
          /\ \A i \in 1 .. Len(ready) - k : z[i] = ready[k + i]
      BY <1>3, <2>1
    <3>. HIDE DEF y, z
    <3>. QED  BY <1>3, <3>1
  <2>4. yielded' = y /\ ready' = z
    BY <1>3
  <2>. HIDE DEF y, z
  <2>. QED  BY <2>2, <2>3, <2>4
<1>5. \A x \in Range(yielded') : Dep[x] \notin Range(ready')
  <2>1. \A i \in DOMAIN yielded', j \in DOMAIN ready' : ready'[j] # Dep[yielded'[i]]
    <3>. SUFFICES ASSUME NEW i \in DOMAIN yielded', NEW j \in DOMAIN ready'
                  PROVE  ready'[j] # Dep[yielded'[i]]
      OBVIOUS
    <3>1. /\ i \in DOMAIN ready /\ k + j \in DOMAIN ready /\ i <= k + j
          /\ yielded'[i] = ready[i] /\ ready'[j] = ready[k + j]
      BY <1>4
    <3>. QED  BY <3>1 DEF Inv, QueueOrder
  <2>. QED  BY <2>1 DEF Range
<1>6. Apart'
  BY <1>1, <1>4 DEF Inv, Apart
<1>7. Upward'
  BY <1>1, <1>4, <1>5 DEF Inv, Upward
<1>8. QueueOrder'
  <2>1. ASSUME NEW i \in DOMAIN ready', NEW j \in DOMAIN ready', i <= j
        PROVE  ready'[j] # Dep[ready'[i]]
    <3>1. /\ k + i \in DOMAIN ready /\ k + j \in DOMAIN ready /\ k + i <= k + j
          /\ ready'[i] = ready[k + i] /\ ready'[j] = ready[k + j]
      BY <1>4, <2>1
    <3>. QED  BY <3>1 DEF Inv, QueueOrder
  <2>. QED  BY <1>4, <2>1 DEF QueueOrder
<1>9. Registering'
  BY <1>1 DEF Registering
<1>10. Pruning'
  <2>1. Range(toPrune') = {}
    BY <1>1, EmptyRange
  <2>2. Range(yielded') \subseteq tasks' \ (unready' \cup Range(ready'))
    BY <1>1, <1>4 DEF Inv, Apart
  <2>. QED  BY <1>1, <2>1, <2>2 DEF Pruning
<1>. QED
  BY <1>2, <1>6, <1>7, <1>8, <1>9, <1>10 DEF Inv

LEMMA InvInit == Init => Inv
<1>. SUFFICES ASSUME Init PROVE Inv
  OBVIOUS
<1>1. OrderInv
  BY OrderInit
<1>2. Range(<<>>) = {} /\ IsInjective(<<>>)
  BY ShortWalk
<1>3. Apart /\ Upward /\ Registering /\ QueueOrder /\ Pruning
  BY <1>2 DEF Init, Apart, Upward, Registering, QueueOrder, Pruning
<1>. QED  BY <1>1, <1>3 DEF Inv

LEMMA InvStep ==
  ASSUME Inv, InOrder, [Next]_vars
  PROVE  Inv'
<1>0. OrderInv'
  BY OrderStep DEF Inv
<1>1. ASSUME NEW ts \in Calls, Acceptable(ts), toRegister' = FreshOf(ts)
      PROVE  \A t \in toRegister' : Children(t) \subseteq unready
  BY <1>1 DEF Acceptable, FreshOf, InOrder
<1>2. ASSUME NEW ts \in Calls, register_tasks(ts) PROVE Inv'
  BY <1>0, <1>1, <1>2, CallStep DEF register_tasks
<1>3. ASSUME NEW t \in Tasks, RegisterMissing(t) PROVE Inv'
  BY <1>0, <1>3, CallStep DEF RegisterMissing
<1>4. ASSUME NEW a \in Adders, NEW ts \in Calls, wait_add_tasks(a, ts) PROVE Inv'
  BY <1>0, <1>1, <1>4, CallStep DEF wait_add_tasks
<1>5. ASSUME NEW a \in Adders, WaitForRoom(a) \/ CancelWait(a) PROVE Inv'
  BY <1>0, <1>5, CallStep DEF WaitForRoom, CancelWait, Inv, Registering
<1>6. ASSUME NEW p \in Prereqs, NEW t \in Tasks, finish_prereq(p, t) PROVE Inv'
  BY <1>0, <1>6, CallStep DEF finish_prereq, Inv, Registering
<1>7. ASSUME UNCHANGED vars PROVE Inv'
  BY <1>0, <1>7, CallStep DEF vars, Inv, Registering
<1>. QED
  BY <1>2, <1>3, <1>4, <1>5, <1>6, <1>7, DeclareStep, RegisterStep, MarkStep, AskStep,
     PruneStep, YieldStep DEF Next

LEMMA InvAlways == InOrder /\ Spec => []Inv
<1>1. CASE InOrder
  <2>1. Inv /\ [Next]_vars => Inv'
    BY <1>1, InvStep
  <2>. QED  BY InvInit, <2>1, PTL DEF Spec
<1>2. CASE ~InOrder
  BY <1>2
<1>. QED  BY <1>1, <1>2

\* With callers that keep to the order, pruning forgets no task that is pending.
THEOREM PendingTracked == InOrder /\ Spec => []Tracked
<1>1. Inv => Tracked
  BY DEF Inv, OrderInv, Kept, Apart, Tracked
<1>. QED  BY <1>1, InvAlways, PTL

-----------------------------------------------------------------------------
(* Back-pressure: how the steps change the number of tasks in the pipeline *)

LEMMA Counts ==
  ASSUME TypeOK
  PROVE  /\ Len(ready) \in Nat /\ Cardinality(unready) \in Nat /\ NumTasks \in Nat
         /\ IsFiniteSet(unready)
         /\ IsFiniteSet(toRegister) /\ Cardinality(toRegister) \in Nat
<1>1. IsFiniteSet(unready) /\ IsFiniteSet(toRegister)
  BY OTPAssumption, FS_Subset DEF TypeOK
<1>2. Cardinality(unready) \in Nat /\ Cardinality(toRegister) \in Nat
  BY <1>1, FS_CardinalityType
<1>3. Len(ready) \in Nat
  BY DEF TypeOK
<1>. QED  BY <1>1, <1>2, <1>3 DEF NumTasks

\* A step that lets the count drop is the return of ready_tasks().
LEMMA CountKept ==
  ASSUME TypeOK, [Next]_vars, ~(\E n \in 1 .. MaxResults : ready_tasks_return(n))
  PROVE  NumTasks' >= NumTasks
<1>0. Len(ready) \in Nat /\ Cardinality(unready) \in Nat /\ IsFiniteSet(unready)
  BY Counts
<1>1. ASSUME ready' = ready, unready' = unready PROVE NumTasks' >= NumTasks
  BY <1>0, <1>1 DEF NumTasks
<1>2. ASSUME NEW t \in Tasks, RegisterOne(t) PROVE NumTasks' >= NumTasks
  <2>1. ready' = ready /\ unready' = unready \cup {t}
    BY <1>2 DEF RegisterOne
  <2>2. Cardinality(unready \cup {t}) =
          IF t \in unready THEN Cardinality(unready) ELSE Cardinality(unready) + 1
    BY <1>0, FS_AddElement
  <2>3. /\ Cardinality(unready \cup {t}) \in Nat
        /\ Cardinality(unready \cup {t}) >= Cardinality(unready)
    BY <1>0, <2>2
  <2>. QED  BY <1>0, <2>1, <2>3 DEF NumTasks
<1>3. ASSUME MarkOne PROVE NumTasks' >= NumTasks
  <2>. DEFINE t == Head(marking)
  <2>1. ready' = Append(ready, t) /\ unready' = unready \ {t}
    BY <1>3 DEF MarkOne
  <2>2. Len(ready') = Len(ready) + 1
    BY <2>1 DEF TypeOK
  <2>3. /\ Cardinality(unready \ {t}) \in Nat
        /\ Cardinality(unready \ {t}) >= Cardinality(unready) - 1
    <3>1. Cardinality(unready \ {t}) =
            IF t \in unready THEN Cardinality(unready) - 1 ELSE Cardinality(unready)
      BY <1>0, FS_RemoveElement
    <3>2. IsFiniteSet(unready \ {t})
      BY <1>0, FS_RemoveElement
    <3>3. Cardinality(unready \ {t}) \in Nat
      BY <3>2, FS_CardinalityType
    <3>. QED  BY <1>0, <3>1, <3>3
  <2>. QED  BY <1>0, <2>1, <2>2, <2>3 DEF NumTasks
<1>4. \/ \E t \in Tasks : RegisterOne(t)
      \/ MarkOne
      \/ ready' = ready /\ unready' = unready
  BY DEF Next, vars, set_finished_dependency, register_tasks, RegisterMissing, wait_add_tasks,
         WaitForRoom, CancelWait, finish_prereq, ready_tasks, PruneOne
<1>. QED  BY <1>1, <1>2, <1>3, <1>4

\* No wake-up is lost: every wait_add_tasks() call that has found no room is
\* resumed by the step that makes room.
THEOREM AddersAwake == Spec => []NoForgottenAdder
<1>1. Init => NoForgottenAdder
  BY DEF Init, NoForgottenAdder
<1>2. ASSUME TypeOK, TypeOK', NoForgottenAdder, [Next]_vars PROVE NoForgottenAdder'
  <2>1. SUFFICES ASSUME NEW a \in Adders, adder'[a] = "asleep" PROVE ~HasRoom'
    BY DEF NoForgottenAdder
  <2>2. CASE \E n \in 1 .. MaxResults : ready_tasks_return(n)
    BY <1>2, <2>1, <2>2 DEF ready_tasks_return, WakeAdders, TypeOK
  <2>3. CASE ~(\E n \in 1 .. MaxResults : ready_tasks_return(n))
    <3>1. NumTasks' >= NumTasks /\ NumTasks \in Nat /\ NumTasks' \in Nat /\ MaxTasks \in Nat
      <4>1. NumTasks' \in Nat
        <5>0. unready' \subseteq Tasks /\ ready' \in Seq(Tasks)
          BY <1>2 DEF TypeOK
        <5>1. IsFiniteSet(unready') /\ Len(ready') \in Nat
          BY <5>0, OTPAssumption, FS_Subset
        <5>2. Cardinality(unready') \in Nat
          BY <5>1, FS_CardinalityType
        <5>. QED  BY <5>1, <5>2 DEF NumTasks
      <4>. QED  BY <1>2, <2>3, <4>1, CountKept, Counts, OTPAssumption
    <3>2. ~HasRoom
      <4>1. CASE adder[a] = "asleep"
        BY <1>2, <4>1 DEF NoForgottenAdder
      <4>2. CASE adder[a] # "asleep"
        <5>1. WaitForRoom(a)
          BY <1>2, <2>1, <2>3, <4>2
             DEF Next, vars, history, set_finished_dependency, register_tasks, RegisterOne,
                 RegisterMissing, wait_add_tasks, WaitForRoom, CancelWait, finish_prereq,
                 MarkOne, ready_tasks, PruneOne, TypeOK
        <5>. QED  BY <5>1 DEF WaitForRoom
      <4>. QED  BY <4>1, <4>2
    <3>. QED  BY <3>1, <3>2 DEF HasRoom
  <2>. QED  BY <2>2, <2>3
<1>. QED  BY <1>1, <1>2, TypeCorrect, PTL DEF Spec

=============================================================================
