---------------------------- MODULE QueeningQueue ----------------------------
(***************************************************************************)
(* QueeningQueue of trinity/sync/beam/queen.py over two WaitingPeers queues *)
(* (trinity/sync/common/peers.py), with what its users do to peers: the     *)
(* loop for urgent nodes borrows the queen and takes knights, predictive    *)
(* downloads and backfill take peasants, and whoever took a peer inserts it *)
(* again.  Speeds change between calls, so a comparison of two peers may go *)
(* either way, and so may the choice of the fastest in a queue.             *)
(***************************************************************************)
EXTENDS Integers, FiniteSets, FiniteSetsExt

CONSTANTS
  Peers,
  MaxKnights,   \* bound: the largest desired_knights
  None

VARIABLES
  status,    \* of each peer: alive, ending (its service is cancelled) or dead
  member,    \* of each peer: new, in (registered), gone (deregistered)
  queen,     \* _queen_peer
  knights,   \* _knights: how often each peer is in it
  peasants,  \* _peasants
  timers,    \* calls of _insert_peer(peer) that loop.call_later() will make
  hand,      \* peers taken as knights or peasants and not inserted again
  desired,   \* _desired_knights
  updated,   \* _queen_updated
  getter,    \* the urgent loop: idle, asleep in get_queen_peer(), or using
  borrowed   \* the queen the urgent loop uses, or None

vars == <<status, member, queen, knights, peasants, timers, hand, desired, updated, getter, borrowed>>

Nobody == [p \in Peers |-> 0]

Init ==
  /\ status = [p \in Peers |-> "alive"]
  /\ member = [p \in Peers |-> "new"]
  /\ queen = None /\ borrowed = None
  /\ knights = Nobody /\ peasants = Nobody /\ timers = Nobody /\ hand = Nobody
  /\ desired = 0
  /\ updated = "no"
  /\ getter = "idle"

-----------------------------------------------------------------------------
(* WaitingPeers *)

\* A service that is cancelled runs until it has finished, and the transport is
\* open until the connection closes it.
is_alive(p) == status[p] # "dead"

In(q) == {p \in Peers : q[p] > 0}
AliveIn(q) == {p \in In(q) : is_alive(p)}
DeadIn(q) == In(q) \ AliveIn(q)

qsize(q) == MapThenSumSet(LAMBDA p : q[p], Peers)

put_nowait(q, S) == [p \in Peers |-> IF p \in S THEN q[p] + 1 ELSE q[p]]
Take(q, S) == [p \in Peers |-> IF p \in S THEN q[p] - 1 ELSE q[p]]

\* Popping n peers: the fastest that are alive, as many as there are, and the
\* dead ones that were before them; a pop that finds nobody drops all the dead.
pop_nowait(q, n) ==
  {<<S, D>> \in (SUBSET AliveIn(q)) \X (SUBSET DeadIn(q)) :
     IF n > Cardinality(AliveIn(q))
       THEN S = AliveIn(q) /\ D = DeadIn(q)
       ELSE Cardinality(S) = n /\ (n = 0 => D = {})}

-----------------------------------------------------------------------------
(* Insertion *)

\* The answers _should_be_queen() may give
_should_be_queen(p) ==
  IF queen = None \/ queen = p \/ ~is_alive(queen) THEN {TRUE} ELSE BOOLEAN

\* The queues after p was put among the peasants and, if knights are short, a
\* peasant promoted
Demote(p, ks, ps) ==
  LET all == put_nowait(ps, {p})
  IN  IF qsize(ks) < desired
        THEN \E pop \in pop_nowait(all, 1) :
               /\ peasants' = Take(all, pop[1] \cup pop[2])
               /\ knights' = put_nowait(ks, pop[1])
        ELSE peasants' = all /\ knights' = ks

\* Mutants of Crown: the former queen is not inserted again; the waiting
\* get_queen_peer() is told only when there was a queen before.
CrownForgets(p, ks, ps) ==
  /\ queen' = p
  /\ updated' = IF queen = p THEN updated ELSE "yes"
  /\ knights' = ks /\ peasants' = ps

CrownSilent(p, ks, ps) ==
  /\ queen' = p
  /\ updated' = IF queen \in {p, None} THEN updated ELSE "yes"
  /\ IF queen \notin {p, None} /\ is_alive(queen)
       THEN Demote(queen, ks, ps)
       ELSE knights' = ks /\ peasants' = ps

Crown(p, ks, ps) ==
  /\ queen' = p
  /\ updated' = IF queen = p THEN updated ELSE "yes"
  /\ IF queen \notin {p, None} /\ is_alive(queen)
       THEN Demote(queen, ks, ps)
       ELSE knights' = ks /\ peasants' = ps

_insert_peer(p, ks, ps) ==
  IF is_alive(p)
    THEN \E better \in _should_be_queen(p) :
           IF better THEN Crown(p, ks, ps) ELSE Demote(p, ks, ps) /\ UNCHANGED <<queen, updated>>
    ELSE knights' = ks /\ peasants' = ps /\ UNCHANGED <<queen, updated>>

\* insert_peer(p, delay) by whoever took p: with no delay, or because it should
\* be queen, p is inserted at once.
insert_peer(p) ==
  /\ hand[p] > 0
  /\ hand' = Take(hand, {p})
  /\ \/ _insert_peer(p, knights, peasants) /\ UNCHANGED timers
     \/ /\ is_alive(p) /\ FALSE \in _should_be_queen(p)
        /\ timers' = put_nowait(timers, {p})
        /\ UNCHANGED <<queen, knights, peasants, updated>>
  /\ UNCHANGED <<status, member, desired, getter, borrowed>>

\* loop.call_later() calls _insert_peer(p)
Elapsed(p) ==
  /\ timers[p] > 0
  /\ timers' = Take(timers, {p})
  /\ _insert_peer(p, knights, peasants)
  /\ UNCHANGED <<status, member, hand, desired, getter, borrowed>>

-----------------------------------------------------------------------------
(* Peers come and go *)

\* The queue may be told of a peer whose connection is lost already.
register_peer(p) ==
  /\ member[p] = "new"
  /\ member' = [member EXCEPT ![p] = "in"]
  /\ _insert_peer(p, knights, peasants)
  /\ UNCHANGED <<status, timers, hand, desired, getter, borrowed>>

\* The peer is told to disconnect, or its connection is cancelled.
Ends(p) ==
  /\ status[p] = "alive"
  /\ status' = [status EXCEPT ![p] = "ending"]
  /\ UNCHANGED <<member, queen, knights, peasants, timers, hand, desired, updated, getter, borrowed>>

\* The transport is closed, be it by the remote before anybody is told.
Dies(p) ==
  /\ is_alive(p)
  /\ status' = [status EXCEPT ![p] = "dead"]
  /\ UNCHANGED <<member, queen, knights, peasants, timers, hand, desired, updated, getter, borrowed>>

\* The pool tells of the end of a peer when its run() leaves: is_alive may be
\* true for a while after that.
deregister_peer(p) ==
  /\ member[p] = "in" /\ status[p] # "alive"
  /\ member' = [member EXCEPT ![p] = "gone"]
  /\ queen' = IF queen = p THEN None ELSE queen
  /\ UNCHANGED <<status, knights, peasants, timers, hand, desired, updated, getter, borrowed>>

-----------------------------------------------------------------------------
(* The urgent loop *)

\* The popped knights, and after them peasants if the knights are too few, are
\* asked along with the queen; the other knights become peasants.
pop_knights(all) ==
  \E ks \in pop_nowait(all, desired) :
  \E ps \in pop_nowait(peasants, desired - Cardinality(ks[1])) :
    /\ hand' = put_nowait(hand, ks[1] \cup ps[1])
    /\ knights' = Nobody
    /\ peasants' = put_nowait(Take(peasants, ps[1] \cup ps[2]), AliveIn(all) \ ks[1])

\* get_queen_peer() returns q, and the knights are popped without an await
\* between.
StartUrgent(q, all) ==
  /\ borrowed' = q /\ getter' = "using"
  /\ pop_knights(all)

\* One stretch of get_queen_peer(): there is a queen, or the fastest knight
\* becomes queen, or the loop waits for the event, whose flag is down then.
Seek(flag) ==
  \/ /\ queen # None
     /\ StartUrgent(queen, knights)
     /\ queen' = queen /\ updated' = flag
  \/ /\ queen = None
     /\ \E pop \in pop_nowait(knights, 1), q \in AliveIn(knights) :
          /\ pop[1] = {q}
          /\ StartUrgent(q, Take(knights, pop[1] \cup pop[2]))
          /\ queen' = q /\ updated' = "yes"
  \/ /\ queen = None /\ AliveIn(knights) = {}
     /\ getter' = "asleep"
     /\ knights' = Nobody /\ updated' = "no"
     /\ UNCHANGED <<queen, peasants, hand, borrowed>>

get_queen_peer ==
  /\ getter = "idle"
  /\ Seek(updated)
  /\ UNCHANGED <<status, member, timers, desired>>

\* The event was set: the flag is cleared and the loop looks again.
WakeGetter ==
  /\ getter = "asleep" /\ updated = "yes"
  /\ Seek("no")
  /\ UNCHANGED <<status, member, timers, desired>>

penalize_queen(p) ==
  IF queen = p
    THEN timers' = put_nowait(timers, {p}) /\ queen' = None
    ELSE UNCHANGED <<queen, timers>>

\* A request fails, is cancelled or brings nothing: the peer, be it the
\* borrowed queen or one that was taken, is penalised if it is queen now.
RequestFails(p) ==
  /\ p = borrowed \/ hand[p] > 0
  /\ penalize_queen(p)
  /\ UNCHANGED <<status, member, knights, peasants, hand, desired, updated, getter, borrowed>>

EndUrgent ==
  /\ getter = "using"
  /\ getter' = "idle" /\ borrowed' = None
  /\ UNCHANGED <<status, member, queen, knights, peasants, timers, hand, desired, updated>>

\* An urgent request that took long asks for one knight more, or for fewer if
\* peers have left; a timer asks for one less.
Spread(n) == n = desired - 1 \/ (getter = "using" /\ n # desired /\ n <= desired + 1)

\* Peasants are promoted while knights are short.
set_desired_knight_count(n) ==
  /\ desired' = n
  /\ \E pop \in pop_nowait(peasants, Max({0, n - qsize(knights)})) :
       /\ peasants' = Take(peasants, pop[1] \cup pop[2])
       /\ knights' = put_nowait(knights, pop[1])
  /\ UNCHANGED <<status, member, queen, timers, hand, updated, getter, borrowed>>

-----------------------------------------------------------------------------
(* Predictive downloads and backfill *)

\* One round of pop_fastest_peasant(): the fastest peasant that is alive becomes
\* queen, or waits for its active request to end, or is handed out.
pop_fastest_peasant ==
  /\ \E pop \in pop_nowait(peasants, 1), p \in Peers :
       LET ps == Take(peasants, pop[1] \cup pop[2])
       IN  /\ pop[1] = {p}
           /\ \/ /\ TRUE \in _should_be_queen(p)
                 /\ Crown(p, knights, ps)
                 /\ UNCHANGED <<hand, timers>>
              \/ /\ FALSE \in _should_be_queen(p)
                 /\ peasants' = ps
                 /\ \/ timers' = put_nowait(timers, {p}) /\ UNCHANGED hand
                    \/ hand' = put_nowait(hand, {p}) /\ UNCHANGED timers
                 /\ UNCHANGED <<queen, knights, updated>>
  /\ UNCHANGED <<status, member, desired, getter, borrowed>>

\* Backfill does not insert a peer whose connection was lost.
ConnectionLost(p) ==
  /\ hand[p] > 0 /\ status[p] # "alive"
  /\ hand' = Take(hand, {p})
  /\ UNCHANGED <<status, member, queen, knights, peasants, timers, desired, updated, getter, borrowed>>

Next ==
  \/ \E p \in Peers : register_peer(p) \/ Ends(p) \/ Dies(p) \/ deregister_peer(p)
  \/ \E p \in Peers : insert_peer(p) \/ Elapsed(p) \/ RequestFails(p) \/ ConnectionLost(p)
  \/ get_queen_peer \/ WakeGetter \/ EndUrgent
  \/ \E n \in 0 .. MaxKnights : Spread(n) /\ set_desired_knight_count(n)
  \/ pop_fastest_peasant

Spec == Init /\ [][Next]_vars

-----------------------------------------------------------------------------
(* Properties *)

Places(p) ==
  (IF queen = p THEN 1 ELSE 0) + knights[p] + peasants[p] + timers[p] + hand[p]

\* A registered peer that serves is in exactly one place: queen, knight,
\* peasant, behind a timer or in the hands of one user.  It is neither lost nor
\* asked twice, although the queen is only borrowed and may be replaced or
\* penalised while she is asked.  One that ends or has left is never in two
\* places, though a timer or a user may insert it, and crown it, once more.
OnePlace ==
  \A p \in Peers :
    /\ Places(p) <= 1
    /\ member[p] = "in" /\ status[p] = "alive" => Places(p) = 1

\* get_queen_peer() does not sleep through a coronation: if there is a queen,
\* the event it waits for is set.
NoMissedQueen == getter = "asleep" /\ queen # None => updated = "yes"
=============================================================================
