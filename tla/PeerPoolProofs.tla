--------------------------- MODULE PeerPoolProofs ----------------------------
(***************************************************************************)
(* For any number of attempts, nodes and slots: the pool never exceeds its  *)
(* limit and never holds two sessions with one node, whenever connections   *)
(* end.  The inductive invariant says what the handshake lock protects: an  *)
(* attempt to dial that is past the check finds its node still unconnected. *)
(***************************************************************************)
EXTENDS PeerPool, FiniteSetTheorems, TLAPS

\* A session joins the pool at most once
NotYet == \A s \in connected : pc[s] \in {"boot", "done"}

\* No session with the node of a dialling attempt is in the pool
Alone ==
  \A s \in Sessions \ Inbound :
    pc[s] \in {"attempt", "dial", "start", "ready"} =>
      \A t \in connected : NodeOf[t] # NodeOf[s]

IInv == TypeOK /\ NotYet /\ Alone /\ OneSessionPerNode /\ WithinLimit

\* The places of the attempts and the lock after a step
Places ==
  /\ pc' \in [Sessions -> {"new", "lock", "done"} \cup Locked]
  /\ holder' \in [Nodes -> Sessions \cup {None}]
  /\ \A t \in Sessions : pc'[t] \in Locked <=> holder'[NodeOf[t]] = t

\* What a step may do to the places of the attempts and to the lock
LEMMA GotoType ==
  ASSUME TypeOK, NEW s \in Sessions, NEW p \in {"new", "lock", "done"} \cup Locked,
         pc' = [pc EXCEPT ![s] = p],
         \/ holder' = holder /\ (p \in Locked <=> pc[s] \in Locked)
         \/ p \in Locked /\ pc[s] \notin Locked /\ holder[NodeOf[s]] = None
              /\ holder' = [holder EXCEPT ![NodeOf[s]] = s]
         \/ p \notin Locked /\ (pc[s] \in Locked \/ holder[NodeOf[s]] = None)
              /\ holder' = [holder EXCEPT ![NodeOf[s]] = None]
  PROVE  Places
<1>0. /\ pc \in [Sessions -> {"new", "lock", "done"} \cup Locked]
      /\ holder \in [Nodes -> Sessions \cup {None}]
      /\ \A t \in Sessions : pc[t] \in Locked <=> holder[NodeOf[t]] = t
      /\ NodeOf \in [Sessions -> Nodes]
      /\ None \notin Sessions
  BY PeerPoolAssumption DEF TypeOK
<1>1. pc' \in [Sessions -> {"new", "lock", "done"} \cup Locked]
  BY <1>0
<1>2. holder' \in [Nodes -> Sessions \cup {None}]
  BY <1>0
<1>3. ASSUME NEW t \in Sessions
      PROVE  pc'[t] \in Locked <=> holder'[NodeOf[t]] = t
  <2>1. CASE holder' = holder /\ (p \in Locked <=> pc[s] \in Locked)
    BY <1>0, <2>1
  <2>2. CASE p \in Locked /\ pc[s] \notin Locked /\ holder[NodeOf[s]] = None
               /\ holder' = [holder EXCEPT ![NodeOf[s]] = s]
    BY <1>0, <2>2
  <2>3. CASE p \notin Locked /\ (pc[s] \in Locked \/ holder[NodeOf[s]] = None)
               /\ holder' = [holder EXCEPT ![NodeOf[s]] = None]
    BY <1>0, <2>3
  <2> QED BY <2>1, <2>2, <2>3
<1> QED BY <1>1, <1>2, <1>3 DEF Places

\* The steps of an attempt, with those of a connection that ends too early
AnyAttempt(s) == Attempt(s) \/ StartHangs(s) \/ AddRaises(s)

\* Every step of an attempt keeps the types
LEMMA AttemptType ==
  ASSUME TypeOK, NEW s \in Sessions, AnyAttempt(s)
  PROVE  TypeOK'
<1> USE PeerPoolAssumption
<1>1. CASE connect_to_node(s) \/ receive_handshake(s) \/ Dial(s) \/ connect(s) \/ StartHangs(s)
  <2>1. PICK p \in {"lock", "dial", "start", "hung"} :
        /\ pc' = [pc EXCEPT ![s] = p] /\ (p \in Locked <=> pc[s] \in Locked)
        /\ UNCHANGED <<pool, holder, life, watched, connected, subscription, registered, listening>>
    BY <1>1 DEF connect_to_node, receive_handshake, Dial, connect, StartHangs, Goto, Locked
  <2>2. Places
    BY <2>1, GotoType DEF Locked, Places
  <2> QED BY <2>1, <2>2 DEF TypeOK, Places
<1>2. CASE LockInVain(s) \/ ConnectFails(s) \/ StartFails(s) \/ Booted(s)
  <2>1. /\ pc' = [pc EXCEPT ![s] = "done"]
        /\ pc[s] \in Locked \/ holder[NodeOf[s]] = None
        /\ holder' = [holder EXCEPT ![NodeOf[s]] = None]
        /\ UNCHANGED <<pool, life, watched, connected, subscription, registered, listening>>
    BY <1>2 DEF LockInVain, ConnectFails, StartFails, Booted, Goto, Leave, Free, Locked
  <2>2. Places
    BY <2>1, GotoType DEF Locked, Places
  <2> QED BY <2>1, <2>2 DEF TypeOK, Places
<1>3. CASE EnterLock(s)
  <2>1. PICK p \in {"start", "attempt"} :
        /\ pc' = [pc EXCEPT ![s] = p]
        /\ pc[s] \notin Locked /\ holder[NodeOf[s]] = None
        /\ holder' = [holder EXCEPT ![NodeOf[s]] = s]
        /\ UNCHANGED <<pool, life, watched, connected, subscription, registered, listening>>
    BY <1>3 DEF EnterLock, Goto, Free, Locked
  <2>2. Places
    BY <2>1, GotoType DEF Locked, Places
  <2> QED BY <2>1, <2>2 DEF TypeOK, Places
<1>4. CASE _start_peer(s)
  <2>1. /\ pc' = [pc EXCEPT ![s] = "ready"] /\ pc[s] = "start"
        /\ life' = [life EXCEPT ![s] = "running"]
        /\ UNCHANGED <<pool, holder, watched, connected, subscription, registered, listening>>
    BY <1>4 DEF _start_peer, Goto
  <2>2. Places
    BY <2>1, GotoType DEF Locked, Places
  <2> QED BY <2>1, <2>2 DEF TypeOK, Places
<1>5. CASE Refuse(s)
  <2>1. /\ pc' = [pc EXCEPT ![s] = "done"] /\ pc[s] = "ready"
        /\ holder' = [holder EXCEPT ![NodeOf[s]] = None]
        /\ life' = [life EXCEPT ![s] = "over"]
        /\ UNCHANGED <<pool, watched, connected, subscription, registered, listening>>
    BY <1>5 DEF Refuse, Goto, Leave
  <2>2. Places
    BY <2>1, GotoType DEF Locked, Places
  <2> QED BY <2>1, <2>2 DEF TypeOK, Places
<1>6. CASE _add_peer(s)
  <2>1. /\ pc' = [pc EXCEPT ![s] = "boot"] /\ pc[s] = "ready"
        /\ connected' = connected \cup {s} /\ watched' = watched \cup {s}
        /\ registered' \in [Subscribers -> SUBSET Sessions]
        /\ listening' \in [Sessions -> SUBSET Subscribers]
        /\ UNCHANGED <<pool, holder, life, subscription>>
    BY <1>6 DEF _add_peer, Goto, TypeOK, Current
  <2>2. Places
    BY <2>1, GotoType DEF Locked, Places
  <2> QED BY <2>1, <2>2 DEF TypeOK, Places
<1>7. CASE AddRaises(s)
  <2>1. /\ pc' = [pc EXCEPT ![s] = "done"] /\ pc[s] = "ready"
        /\ holder' = [holder EXCEPT ![NodeOf[s]] = None]
        /\ connected' = connected \cup {s} /\ watched' = watched \cup {s}
        /\ registered' \in [Subscribers -> SUBSET Sessions]
        /\ UNCHANGED <<pool, life, subscription, listening>>
    BY <1>7 DEF AddRaises, Goto, Leave, TypeOK, Current
  <2>2. Places
    BY <2>1, GotoType DEF Locked, Places
  <2> QED BY <2>1, <2>2 DEF TypeOK, Places
<1>8. CASE BootTimeout(s)
  <2>1. /\ pc' = [pc EXCEPT ![s] = "done"] /\ pc[s] = "boot"
        /\ holder' = [holder EXCEPT ![NodeOf[s]] = None]
        /\ connected' \subseteq connected
        /\ life' = [life EXCEPT ![s] = "ending"]
        /\ registered' \in [Subscribers -> SUBSET Sessions]
        /\ UNCHANGED <<pool, watched, subscription, listening>>
    BY <1>8 DEF BootTimeout, Finish, Goto, Leave, TypeOK, Current
  <2>2. Places
    BY <2>1, GotoType DEF Locked, Places
  <2> QED BY <2>1, <2>2 DEF TypeOK, Places
<1> QED BY <1>1, <1>2, <1>3, <1>4, <1>5, <1>6, <1>7, <1>8 DEF AnyAttempt, Attempt

\* So does every step
LEMMA TypeStep == TypeOK /\ [EarlyNext]_vars => TypeOK'
<1> SUFFICES ASSUME TypeOK, [EarlyNext]_vars PROVE TypeOK'
  OBVIOUS
<1> USE PeerPoolAssumption
<1>1. CASE \E s \in Sessions : AnyAttempt(s)
  BY <1>1, AttemptType
<1>2. ASSUME NEW s \in Sessions, PeerEnds(s) \/ PeerEndsEarly(s) PROVE TypeOK'
  <2>1. /\ connected' \subseteq connected
        /\ life' = [life EXCEPT ![s] = "ending"]
        /\ registered' \in [Subscribers -> SUBSET Sessions]
        /\ UNCHANGED <<pool, pc, holder, watched, subscription, listening>>
    BY <1>2 DEF PeerEnds, PeerEndsEarly, Finish, TypeOK, Current
  <2> QED BY <2>1 DEF TypeOK
<1>3. ASSUME NEW s \in Sessions, PeerOver(s) PROVE TypeOK'
  BY <1>3 DEF PeerOver, TypeOK
<1>4. ASSUME NEW u \in Subscribers, subscribe(u) PROVE TypeOK'
  BY <1>4 DEF subscribe, TypeOK
<1>5. ASSUME NEW u \in Subscribers, unsubscribe(u) PROVE TypeOK'
  BY <1>5 DEF unsubscribe, TypeOK
<1>6. ASSUME NEW u \in Subscribers, SubscribeRaises(u) PROVE TypeOK'
  <2>1. /\ registered' \in [Subscribers -> SUBSET Sessions]
        /\ listening' \in [Sessions -> SUBSET Subscribers]
        /\ subscription' = [subscription EXCEPT ![u] = "on"]
        /\ UNCHANGED <<pool, pc, holder, life, watched, connected>>
    BY <1>6 DEF SubscribeRaises, TypeOK
  <2> QED BY <2>1 DEF TypeOK
<1>7. CASE StopPool
  BY <1>7 DEF StopPool, TypeOK
<1>8. CASE UNCHANGED vars
  BY <1>8 DEF vars, TypeOK
<1> QED
  BY <1>1, <1>2, <1>3, <1>4, <1>5, <1>6, <1>7, <1>8 DEF EarlyNext, Next, AnyAttempt

\* The state keeps its shape, and a node's lock is held by the one attempt for
\* that node that is inside it (BasePeerPool.lock_node_for_handshake).
THEOREM TypeCorrect == EarlySpec => []TypeOK
<1>1. Init => TypeOK
  BY PeerPoolAssumption DEF Init, TypeOK, Locked
<1> QED BY <1>1, TypeStep, PTL DEF EarlySpec

-----------------------------------------------------------------------------
\* A step that only takes peers out of the pool, and moves no attempt before
\* "boot" except to its end, keeps the invariant
LEMMA Shrink ==
  ASSUME IInv, TypeOK', connected' \subseteq connected,
         \A s \in Sessions :
           \/ pc'[s] = pc[s] \/ pc'[s] = "done"
           \/ s \notin connected /\ pc[s] \in {"new", "attempt", "dial", "start"}
                /\ (pc'[s] \in {"attempt", "dial", "start", "ready"} =>
                       pc[s] \in {"attempt", "dial", "start", "ready"})
           \/ s \notin connected /\ pc[s] = "lock"
                /\ (s \in Inbound \/ ~is_connected_to_node(NodeOf[s]))
  PROVE  IInv'
<1>1. NotYet' /\ OneSessionPerNode'
  BY DEF IInv, NotYet, OneSessionPerNode, TypeOK
<1>2. Alone'
  BY DEF IInv, Alone, TypeOK, is_connected_to_node
<1>3. WithinLimit'
  <2>1. IsFiniteSet(connected)
    BY PeerPoolAssumption, FS_Subset DEF IInv, TypeOK
  <2>2. /\ IsFiniteSet(connected') /\ Cardinality(connected') <= Cardinality(connected)
        /\ Cardinality(connected) \in Nat /\ Cardinality(connected') \in Nat
    BY <2>1, FS_Subset, FS_CardinalityType
  <2> QED BY <2>2, PeerPoolAssumption DEF IInv, WithinLimit
<1> QED BY <1>1, <1>2, <1>3 DEF IInv

\* A step that adds a peer keeps it: the peer passed the checks and holds the lock
LEMMA Grow ==
  ASSUME IInv, TypeOK', NEW s \in Sessions, pc[s] = "ready", ~Refused(s),
         connected' = connected \cup {s},
         \E p \in {"boot", "done"} : pc' = [pc EXCEPT ![s] = p]
  PROVE  IInv'
<1>1. /\ s \notin connected
      /\ \A t \in connected : NodeOf[t] # NodeOf[s]
      /\ ~is_full
  BY DEF IInv, NotYet, Alone, Refused, is_connected_to_node, TypeOK
<1>2. OneSessionPerNode'
  BY <1>1 DEF IInv, OneSessionPerNode
<1>3. NotYet'
  BY DEF IInv, NotYet, TypeOK
<1>4. Alone'
  <2> SUFFICES ASSUME NEW t \in Sessions \ Inbound,
                      pc'[t] \in {"attempt", "dial", "start", "ready"},
                      NEW r \in connected'
               PROVE  NodeOf[r] # NodeOf[t]
    BY DEF Alone
  <2>1. t # s /\ pc[t] = pc'[t]
    BY DEF IInv, TypeOK
  <2>2. CASE r \in connected
    BY <2>1, <2>2 DEF IInv, Alone
  <2>3. CASE r = s
    <3>1. holder[NodeOf[s]] = s /\ holder[NodeOf[t]] = t
      BY <2>1 DEF IInv, TypeOK, Locked
    <3> QED BY <2>1, <2>3, <3>1
  <2> QED BY <2>2, <2>3
<1>5. WithinLimit'
  <2>1. IsFiniteSet(connected)
    BY PeerPoolAssumption, FS_Subset DEF IInv, TypeOK
  <2>2. Cardinality(connected) \in Nat
    BY <2>1, FS_CardinalityType
  <2>3. Cardinality(connected \cup {s}) = Cardinality(connected) + 1
    BY <1>1, <2>1, FS_AddElement
  <2> QED BY <1>1, <2>2, <2>3, PeerPoolAssumption DEF is_full, WithinLimit
<1> QED BY <1>2, <1>3, <1>4, <1>5 DEF IInv

LEMMA InvAttempt ==
  ASSUME IInv, TypeOK', NEW s \in Sessions, AnyAttempt(s)
  PROVE  IInv'
<1>0. /\ pc \in [Sessions -> {"new", "lock", "done"} \cup Locked]
      /\ s \in connected => pc[s] \in {"boot", "done"}
  BY DEF IInv, TypeOK, NotYet
<1>1. CASE connect_to_node(s) \/ receive_handshake(s) \/ LockInVain(s)
  <2>1. /\ connected' = connected
        /\ \/ pc[s] = "new" /\ pc' = [pc EXCEPT ![s] = "lock"]
           \/ pc' = [pc EXCEPT ![s] = "done"]
    BY <1>1 DEF connect_to_node, receive_handshake, LockInVain, Goto, Leave
  <2> QED BY <1>0, <2>1, Shrink
<1>2. CASE EnterLock(s)
  <2>1. /\ connected' = connected
        /\ s \in Inbound \/ ~is_connected_to_node(NodeOf[s])
        /\ pc[s] = "lock"
        /\ \E p \in {"start", "attempt"} : pc' = [pc EXCEPT ![s] = p]
    BY <1>2 DEF EnterLock, Free, Goto
  <2> QED BY <1>0, <2>1, Shrink
<1>3. CASE Dial(s) \/ connect(s) \/ _start_peer(s) \/ StartHangs(s)
  <2>1. /\ connected' = connected
        /\ pc[s] \in {"attempt", "dial", "start"}
        /\ \E p \in {"dial", "start", "ready", "hung"} : pc' = [pc EXCEPT ![s] = p]
    BY <1>3 DEF Dial, connect, _start_peer, StartHangs, Goto
  <2> QED BY <1>0, <2>1, Shrink
<1>4. CASE ConnectFails(s) \/ StartFails(s) \/ Refuse(s) \/ Booted(s) \/ BootTimeout(s)
  <2>1. connected' \subseteq connected /\ pc' = [pc EXCEPT ![s] = "done"]
    BY <1>4 DEF ConnectFails, StartFails, Refuse, Booted, BootTimeout, Finish, Goto, Leave
  <2> QED BY <1>0, <2>1, Shrink
<1>5. CASE _add_peer(s) \/ AddRaises(s)
  <2>1. /\ pc[s] = "ready" /\ ~Refused(s)
        /\ connected' = connected \cup {s}
        /\ \E p \in {"boot", "done"} : pc' = [pc EXCEPT ![s] = p]
    BY <1>5 DEF _add_peer, AddRaises, Goto, Leave
  <2> QED BY <2>1, Grow
<1> QED BY <1>1, <1>2, <1>3, <1>4, <1>5 DEF AnyAttempt, Attempt

LEMMA InvStep == IInv /\ [EarlyNext]_vars => IInv'
<1> SUFFICES ASSUME IInv, [EarlyNext]_vars PROVE IInv'
  OBVIOUS
<1>1. TypeOK'
  BY TypeStep DEF IInv
<1>2. CASE \E s \in Sessions : AnyAttempt(s)
  BY <1>1, <1>2, InvAttempt
<1>3. CASE ~\E s \in Sessions : AnyAttempt(s)
  <2>1. connected' \subseteq connected /\ pc' = pc
    BY <1>3 DEF EarlyNext, Next, AnyAttempt, vars, PeerEnds, PeerEndsEarly, Finish, PeerOver,
                subscribe, SubscribeRaises, unsubscribe, StopPool
  <2> QED BY <1>1, <2>1, Shrink
<1> QED BY <1>2, <1>3

LEMMA InvAlways == EarlySpec => []IInv
<1>1. Init => TypeOK
  BY PeerPoolAssumption DEF Init, TypeOK, Locked
<1>2. Init => IInv
  <2>1. Cardinality({}) = 0
    BY FS_EmptySet
  <2> QED BY <1>1, <2>1, PeerPoolAssumption
        DEF Init, IInv, NotYet, Alone, OneSessionPerNode, WithinLimit
<1> QED BY <1>2, InvStep, PTL DEF EarlySpec

\* However many attempts run at once, add_inbound_peer() and add_outbound_peer()
\* never fill the pool beyond max_peers.
THEOREM LimitKept == EarlySpec => []WithinLimit
<1>1. IInv => WithinLimit
  BY DEF IInv
<1> QED BY <1>1, InvAlways, PTL

\* The handshake lock and the checks made inside it never let two sessions with
\* one node into the pool, also when both sides dial at once.
THEOREM OneSession == EarlySpec => []OneSessionPerNode
<1>1. IInv => OneSessionPerNode
  BY DEF IInv
<1> QED BY <1>1, InvAlways, PTL
=============================================================================
