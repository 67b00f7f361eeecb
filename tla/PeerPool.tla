------------------------------ MODULE PeerPool -------------------------------
(***************************************************************************)
(* BasePeerPool (p2p/peer_pool.py) with the part of BasePeer, Connection and *)
(* the server that decides which peers it holds.  Each connection attempt,  *)
(* dialled by connect_to_node() or accepted by receive_handshake(), is a    *)
(* coroutine of its own and makes one session.  Attempts for one node are   *)
(* kept apart by the node's handshake lock; everything between two awaits   *)
(* is one step.                                                             *)
(***************************************************************************)
EXTENDS Integers, FiniteSets

CONSTANTS
  Sessions,     \* the connection attempts
  Nodes, IPs,
  NodeOf,       \* the remote node of each session
  IpOf,         \* the address of each node
  Inbound,      \* the sessions that were dialled by the remote
  Subscribers,
  max_peers,
  MaxDials,     \* MAX_CONCURRENT_CONNECTION_ATTEMPTS
  None

ASSUME PeerPoolAssumption ==
  /\ NodeOf \in [Sessions -> Nodes]
  /\ IpOf \in [Nodes -> IPs]
  /\ Inbound \subseteq Sessions
  /\ max_peers \in Nat /\ MaxDials \in Nat
  /\ None \notin Sessions
  /\ IsFiniteSet(Sessions)

VARIABLES
  pool,         \* whether the pool's service runs
  pc,           \* where each attempt is
  holder,       \* the attempt that has a node's handshake lock, or None
  life,         \* each peer: run() not reached, running, past its finally
                \* clause ("ending"), its manager finished ("over")
  watched,      \* peers that have _peer_finished as a finished callback
  connected,    \* connected_nodes
  subscription, \* of each subscriber: not yet, on, off
  registered,   \* the peers each subscriber was told of
  listening     \* the _subscribers of each peer

vars == <<pool, pc, holder, life, watched, connected,
          subscription, registered, listening>>

\* The attempts that are inside the handshake lock
Locked == {"attempt", "dial", "start", "ready", "boot", "hung"}

\* The shape of the state; the lock of a node is held by an attempt for that node.
TypeOK ==
  /\ pool \in {"running", "stopped"}
  /\ pc \in [Sessions -> {"new", "lock", "done"} \cup Locked]
  /\ holder \in [Nodes -> Sessions \cup {None}]
  /\ life \in [Sessions -> {"none", "running", "ending", "over"}]
  /\ watched \subseteq Sessions
  /\ connected \subseteq Sessions
  /\ subscription \in [Subscribers -> {"new", "on", "off"}]
  /\ registered \in [Subscribers -> SUBSET Sessions]
  /\ listening \in [Sessions -> SUBSET Subscribers]
  /\ \A s \in Sessions : pc[s] \in Locked <=> holder[NodeOf[s]] = s

Init ==
  /\ pool = "running"
  /\ pc = [s \in Sessions |-> "new"]
  /\ holder = [n \in Nodes |-> None]
  /\ life = [s \in Sessions |-> "none"]
  /\ watched = {}
  /\ connected = {}
  /\ subscription = [u \in Subscribers |-> "new"]
  /\ registered = [u \in Subscribers |-> {}]
  /\ listening = [s \in Sessions |-> {}]

Goto(s, place) == pc' = [pc EXCEPT ![s] = place]

\* The attempt is over and leaves the handshake lock
Leave(s) ==
  /\ Goto(s, "done")
  /\ holder' = [holder EXCEPT ![NodeOf[s]] = None]

is_full == Cardinality(connected) >= max_peers

is_connected_to_node(n) == \E s \in connected : NodeOf[s] = n

\* True for an address with two connected nodes, too
is_valid_connection_candidate(n) ==
  Cardinality({s \in connected : IpOf[NodeOf[s]] = IpOf[n]}) <= 2

Current == {u \in Subscribers : subscription[u] = "on"}

-----------------------------------------------------------------------------
(* An attempt up to a started peer *)

connect_to_node(s) ==
  /\ s \notin Inbound
  /\ pc[s] = "new"
  /\ pool = "running" /\ ~is_full
  /\ Goto(s, "lock")
  /\ UNCHANGED <<pool, holder, life, watched, connected, subscription, registered, listening>>

\* The handshake of an inbound connection is over before the lock is asked for
receive_handshake(s) ==
  /\ s \in Inbound
  /\ pc[s] = "new"
  /\ Goto(s, "lock")
  /\ UNCHANGED <<pool, holder, life, watched, connected, subscription, registered, listening>>

Free(s) == pc[s] = "lock" /\ holder[NodeOf[s]] = None

\* Already connected: connect_to_node() returns
LockInVain(s) ==
  /\ Free(s)
  /\ s \notin Inbound /\ is_connected_to_node(NodeOf[s])
  /\ Leave(s)
  /\ UNCHANGED <<pool, life, watched, connected, subscription, registered, listening>>

EnterLock(s) ==
  /\ Free(s)
  /\ s \in Inbound \/ ~is_connected_to_node(NodeOf[s])
  /\ holder' = [holder EXCEPT ![NodeOf[s]] = s]
  /\ Goto(s, IF s \in Inbound THEN "start" ELSE "attempt")
  /\ UNCHANGED <<pool, life, watched, connected, subscription, registered, listening>>

\* _connection_attempt_lock is a semaphore over the dials
Dial(s) ==
  /\ pc[s] = "attempt"
  /\ Cardinality({t \in Sessions : pc[t] = "dial"}) < MaxDials
  /\ Goto(s, "dial")
  /\ UNCHANGED <<pool, holder, life, watched, connected, subscription, registered, listening>>

\* connect() returns a peer; when already connected it raises IneligiblePeer
connect(s) ==
  /\ pc[s] = "dial"
  /\ ~is_connected_to_node(NodeOf[s])
  /\ Goto(s, "start")
  /\ UNCHANGED <<pool, holder, life, watched, connected, subscription, registered, listening>>

ConnectFails(s) ==
  /\ pc[s] = "dial"
  /\ Leave(s)
  /\ UNCHANGED <<pool, life, watched, connected, subscription, registered, listening>>

_start_peer(s) ==
  /\ pc[s] = "start"
  /\ pool = "running"
  /\ life' = [life EXCEPT ![s] = "running"]
  /\ Goto(s, "ready")
  /\ UNCHANGED <<pool, holder, watched, connected, subscription, registered, listening>>

\* Mutant of StartFails: the lock is kept.
StartFailsLocked(s) ==
  /\ pc[s] = "start"
  /\ Goto(s, "done")
  /\ UNCHANGED <<pool, holder, life, watched, connected, subscription, registered, listening>>

\* A timeout, or the pool is no longer running
StartFails(s) ==
  /\ pc[s] = "start"
  /\ Leave(s)
  /\ UNCHANGED <<pool, life, watched, connected, subscription, registered, listening>>

\* The connection ends while its behaviors are applied: run_behaviors() is
\* cancelled, and run_peer() waits for behaviors_applied without a time limit
StartHangs(s) ==
  /\ pc[s] = "start"
  /\ Goto(s, "hung")
  /\ UNCHANGED <<pool, holder, life, watched, connected, subscription, registered, listening>>

-----------------------------------------------------------------------------
(* add_inbound_peer() and add_outbound_peer() after the peer has started *)

\* More than DIAL_IN_OUT_RATIO (3/4) of the peers dialled us
TooManyInbound ==
  LET total == Cardinality(connected)
  IN  total > 1 /\ 4 * Cardinality(connected \cap Inbound) > 3 * total

\* Mutants of Refused: the pool is not checked again after the start; an
\* inbound peer is not checked against the connected ones.
RefusedIfStopped(s) ==
  IF s \in Inbound
    THEN \/ is_connected_to_node(NodeOf[s])
         \/ ~is_valid_connection_candidate(NodeOf[s])
         \/ TooManyInbound
    ELSE pool # "running"

RefusedIfFull(s) ==
  IF s \in Inbound
    THEN is_full \/ ~is_valid_connection_candidate(NodeOf[s]) \/ TooManyInbound
    ELSE is_full \/ pool # "running"

Refused(s) ==
  IF s \in Inbound
    THEN \/ is_connected_to_node(NodeOf[s])
         \/ is_full
         \/ ~is_valid_connection_candidate(NodeOf[s])
         \/ TooManyInbound
    ELSE is_full \/ pool # "running"

\* peer.disconnect(): the peer is stopped; it was never in the pool
Refuse(s) ==
  /\ pc[s] = "ready" /\ Refused(s)
  /\ life' = [life EXCEPT ![s] = "over"]
  /\ Leave(s)
  /\ UNCHANGED <<pool, watched, connected, subscription, registered, listening>>

\* Mutant of _add_peer: the subscribers are told, the callback is left out.
_add_peer_unwatched(s) ==
  /\ pc[s] = "ready" /\ ~Refused(s) /\ life[s] # "over"
  /\ connected' = connected \cup {s}
  /\ registered' = [u \in Subscribers |->
                      IF u \in Current THEN registered[u] \cup {s} ELSE registered[u]]
  /\ listening' = [listening EXCEPT ![s] = Current]
  /\ Goto(s, "boot")
  /\ UNCHANGED <<pool, holder, life, watched, subscription>>

\* _add_peer() and start_protocol_streams()
_add_peer(s) ==
  /\ pc[s] = "ready" /\ ~Refused(s) /\ life[s] # "over"
  /\ connected' = connected \cup {s}
  /\ watched' = watched \cup {s}
  /\ registered' = [u \in Subscribers |->
                      IF u \in Current THEN registered[u] \cup {s} ELSE registered[u]]
  /\ listening' = [listening EXCEPT ![s] = Current]
  /\ Goto(s, "boot")
  /\ UNCHANGED <<pool, holder, life, subscription>>

\* add_subscriber() or start_protocol_streams() raises LifecycleError; the peer
\* is in connected_nodes by then, and the first subscriber knows of it
AddRaises(s) ==
  /\ pc[s] = "ready" /\ ~Refused(s) /\ life[s] = "over"
  /\ connected' = connected \cup {s}
  /\ watched' = watched \cup {s}
  /\ \/ /\ Current = {}
        /\ UNCHANGED registered
     \/ \E u \in Current : registered' = [registered EXCEPT ![u] = @ \cup {s}]
  /\ Leave(s)
  /\ UNCHANGED <<pool, life, subscription, listening>>

-----------------------------------------------------------------------------
(* The end of a peer *)

\* The finally clause of run(): each finished callback, here _peer_finished()
Finish(s) ==
  /\ life' = [life EXCEPT ![s] = "ending"]
  /\ connected' = connected \ ({s} \cap watched)
  /\ registered' = [u \in Subscribers |->
                      IF u \in Current THEN registered[u] \ ({s} \cap watched)
                                       ELSE registered[u]]

\* The remote or disconnect_from_peer() ends a peer of the pool, or the
\* connection is lost
PeerEnds(s) ==
  /\ life[s] = "running"
  /\ s \in watched
  /\ Finish(s)
  /\ UNCHANGED <<pool, pc, holder, watched, subscription, listening>>

\* The same for a peer that has started and is not in the pool yet
PeerEndsEarly(s) ==
  /\ life[s] = "running"
  /\ s \notin watched
  /\ Finish(s)
  /\ UNCHANGED <<pool, pc, holder, watched, subscription, listening>>

PeerOver(s) ==
  /\ life[s] = "ending"
  /\ life' = [life EXCEPT ![s] = "over"]
  /\ UNCHANGED <<pool, pc, holder, watched, connected, subscription, registered, listening>>

\* The boot manager finishes, by itself or with its peer
Booted(s) ==
  /\ pc[s] = "boot"
  /\ Leave(s)
  /\ UNCHANGED <<pool, life, watched, connected, subscription, registered, listening>>

BootTimeout(s) ==
  /\ pc[s] = "boot"
  /\ life[s] = "running"
  /\ Finish(s)
  /\ Leave(s)
  /\ UNCHANGED <<pool, watched, subscription, listening>>

-----------------------------------------------------------------------------
(* Subscribers, and the end of the pool *)

\* Mutant of subscribe: only peers that join later are registered.
subscribe_later(u) ==
  /\ subscription[u] = "new"
  /\ \A s \in connected : life[s] # "over"
  /\ subscription' = [subscription EXCEPT ![u] = "on"]
  /\ listening' = [s \in Sessions |->
                     IF s \in connected THEN listening[s] \cup {u} ELSE listening[s]]
  /\ UNCHANGED <<pool, pc, holder, life, watched, connected, registered>>

subscribe(u) ==
  /\ subscription[u] = "new"
  /\ \A s \in connected : life[s] # "over"
  /\ subscription' = [subscription EXCEPT ![u] = "on"]
  /\ registered' = [registered EXCEPT ![u] = @ \cup connected]
  /\ listening' = [s \in Sessions |->
                     IF s \in connected THEN listening[s] \cup {u} ELSE listening[s]]
  /\ UNCHANGED <<pool, pc, holder, life, watched, connected>>

\* add_subscriber() raises LifecycleError for a peer in the pool that is over: the
\* subscriber knows of it and of those before it, and remains subscribed
SubscribeRaises(u) ==
  /\ subscription[u] = "new"
  /\ \E s \in connected, before \in SUBSET connected :
       /\ life[s] = "over" /\ \A t \in before : life[t] # "over"
       /\ registered' = [registered EXCEPT ![u] = @ \cup before \cup {s}]
       /\ listening' = [t \in Sessions |->
                          IF t \in before THEN listening[t] \cup {u} ELSE listening[t]]
  /\ subscription' = [subscription EXCEPT ![u] = "on"]
  /\ UNCHANGED <<pool, pc, holder, life, watched, connected>>

unsubscribe(u) ==
  /\ subscription[u] = "on"
  /\ subscription' = [subscription EXCEPT ![u] = "off"]
  /\ listening' = [s \in Sessions |->
                     IF s \in connected THEN listening[s] \ {u} ELSE listening[s]]
  /\ UNCHANGED <<pool, pc, holder, life, watched, connected, registered>>

StopPool ==
  /\ pool = "running"
  /\ pool' = "stopped"
  /\ UNCHANGED <<pc, holder, life, watched, connected, subscription, registered, listening>>

-----------------------------------------------------------------------------
Attempt(s) ==
  \/ connect_to_node(s) \/ receive_handshake(s)
  \/ LockInVain(s) \/ EnterLock(s)
  \/ Dial(s) \/ connect(s) \/ ConnectFails(s)
  \/ _start_peer(s) \/ StartFails(s)
  \/ Refuse(s) \/ _add_peer(s)
  \/ Booted(s) \/ BootTimeout(s)

\* Connections end only once their peers are in the pool
Next ==
  \/ \E s \in Sessions : Attempt(s) \/ PeerEnds(s) \/ PeerOver(s)
  \/ \E u \in Subscribers : subscribe(u) \/ unsubscribe(u)
  \/ StopPool

Spec == Init /\ [][Next]_vars

\* Connections end at any time
EarlyNext ==
  \/ Next
  \/ \E s \in Sessions : StartHangs(s) \/ PeerEndsEarly(s) \/ AddRaises(s)
  \/ \E u \in Subscribers : SubscribeRaises(u)

EarlySpec == Init /\ [][EarlyNext]_vars

\* Dials, starts and boots have time limits; locks are handed on in FIFO order,
\* so a waiting attempt that could have the lock again and again gets it.
Fairness ==
  \A s \in Sessions :
    /\ SF_vars(LockInVain(s) \/ EnterLock(s))
    /\ SF_vars(Dial(s))
    /\ WF_vars(connect(s) \/ ConnectFails(s))
    /\ WF_vars(_start_peer(s) \/ StartFails(s))
    /\ WF_vars(Refuse(s) \/ _add_peer(s) \/ AddRaises(s))
    /\ WF_vars(Booted(s) \/ BootTimeout(s))

FairSpec == Spec /\ Fairness

EarlyFairSpec == EarlySpec /\ Fairness

-----------------------------------------------------------------------------
(* Properties *)

\* "maintains connections to up-to max_peers": concurrent attempts never fill the
\* pool beyond its limit.
WithinLimit == Cardinality(connected) <= max_peers

\* The pool never holds two sessions with one node, also when both sides dial at
\* the same time.
OneSessionPerNode ==
  \A s, t \in connected : NodeOf[s] = NodeOf[t] => s = t

\* A peer whose run() is past its finished callbacks is not in connected_nodes.
NoDeadPeer == \A s \in connected : life[s] = "running"

\* A subscriber knows of exactly the peers in the pool, and hears each of them.
SubscribersAgree ==
  \A u \in Current : /\ registered[u] = connected
                     /\ \A s \in connected : u \in listening[s]

\* Every attempt ends and leaves the node's lock, so the node can be tried again.
AttemptEnds == \A s \in Sessions : pc[s] = "lock" ~> pc[s] = "done"
=============================================================================
