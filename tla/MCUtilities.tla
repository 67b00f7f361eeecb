----------------------------- MODULE MCUtilities -----------------------------
(***************************************************************************)
(* The small self-contained components in one run: `which` says which one   *)
(* a behaviour is about, and the others do not move.                        *)
(***************************************************************************)
EXTENDS ResourceLock, TLC

CONSTANTS
  Nodes, Objs, MaxDepth,                         \* of RootTracker
  Takers, Capacity, MaxTake, MaxDebt, MaxTime,   \* of TokenBucket
  Peers, MaxKnights, None,                       \* of QueeningQueue
  n5, n6, n7, n8, n9,                            \* of RoutingTable
  h1, h2, h3, h4, h5                             \* of OrderedTaskPreparation

VARIABLES
  which,
  parent, children, roots, depth, heap, cache, broken,
  now, tokens, last, asleep, wake, asked, granted,
  status, member, queen, knights, peasants, timers, hand, desired, updated, getter, borrowed,
  buckets, replacement_caches, bucket_update_order,
  tasks, finished, unready, ready, declared, yielded, toRegister, marking, toPrune,
  consumer, adder, retry, emitted, out, everDeclared, overtaken

\* Four nodes compete for the two places of one bucket; another has one node.
NodeIds == {n5, n6, n7, n8, n9}
Buckets == {1, 2}
BucketOf == [n \in NodeIds |-> IF n = n9 THEN 2 ELSE 1]
bucket_size == 2

\* A chain of headers with a fork
Headers == {h1, h2, h3, h4, h5}
HeaderParent == [h \in Headers |->
                   CASE h = h1 -> None [] h = h2 -> h1 [] h = h3 -> h2
                     [] h = h4 -> h3 [] h = h5 -> h2]

Tracker == INSTANCE RootTracker
Bucket == INSTANCE TokenBucket
Queue == INSTANCE QueeningQueue
Table == INSTANCE RoutingTable

\* As the header stitcher of trinity/sync/common/headers.py sets it up, with a
\* smaller depth
Stitcher == INSTANCE OrderedTaskPreparation WITH
  Tasks <- Headers, Dep <- HeaderParent, Prereqs <- {}, Adders <- {}, Dangling <- TRUE,
  MaxDepth <- 1, MaxTasks <- 0, MaxCall <- 2, MaxResults <- 2,
  LateRegister <- TRUE, AheadDeclare <- TRUE, Redeclare <- FALSE

trackerVars == <<parent, children, roots, depth, heap, cache, broken>>
bucketVars == <<now, tokens, last, asleep, wake, asked, granted>>

queueVars ==
  <<status, member, queen, knights, peasants, timers, hand, desired, updated, getter, borrowed>>
tableVars == <<buckets, replacement_caches, bucket_update_order>>
stitcherVars ==
  <<tasks, finished, unready, ready, declared, yielded, toRegister, marking, toPrune,
    consumer, adder, retry, emitted, out, everDeclared, overtaken>>

Components == {"lock", "tracker", "bucket", "queue", "table", "stitcher"}

MCInit ==
  /\ which \in Components
  /\ Init /\ Tracker!Init /\ Bucket!Init /\ Queue!Init /\ Table!Init /\ Stitcher!Init
  /\ which # "lock" => wants = [c \in Callers |-> CHOOSE r \in Resources : TRUE]

Lock ==
  /\ which = "lock" /\ Next
  /\ UNCHANGED <<which, trackerVars, bucketVars, queueVars, tableVars, stitcherVars>>
Roots ==
  /\ which = "tracker" /\ Tracker!Next
  /\ UNCHANGED <<which, vars, bucketVars, queueVars, tableVars, stitcherVars>>
Tokens ==
  /\ which = "bucket" /\ Bucket!Next
  /\ UNCHANGED <<which, vars, trackerVars, queueVars, tableVars, stitcherVars>>
Queens ==
  /\ which = "queue" /\ Queue!Next
  /\ UNCHANGED <<which, vars, trackerVars, bucketVars, tableVars, stitcherVars>>
Routes ==
  /\ which = "table" /\ Table!Next
  /\ UNCHANGED <<which, vars, trackerVars, bucketVars, queueVars, stitcherVars>>
Stitch ==
  /\ which = "stitcher" /\ Stitcher!Next
  /\ UNCHANGED <<which, vars, trackerVars, bucketVars, queueVars, tableVars>>

MCNext == Lock \/ Roots \/ Tokens \/ Queens \/ Routes \/ Stitch

MCSpec ==
  MCInit /\ [][MCNext]_<<which, vars, trackerVars, bucketVars, queueVars, tableVars,
                          stitcherVars>>

\* The nodes of the forest are interchangeable, and so are the peers.
MCSymmetry == Permutations(Nodes) \cup Permutations(Peers)

\* Every node has the root and depth its parents give it (RootTracker.get_root)
RootsCorrect == Tracker!RootsCorrect

\* No cached root is stale (RootTracker.get_root after add and prune)
CacheFresh == Tracker!CacheFresh

\* No internal check of TreeRoot and RootTracker fails
NeverBroken == Tracker!NeverBroken

\* TokenBucket grants no more than its capacity and what was refilled
RateLimit == Bucket!RateLimit

\* No TokenBucket.take_nowait() overtakes a take() that sleeps
NoOvertaking == Bucket!NoOvertaking

\* A registered peer that serves is queen, knight, peasant, delayed or in use, in
\* one place, and no peer is in two (QueeningQueue)
OnePlace == Queue!OnePlace

\* QueeningQueue.get_queen_peer() does not sleep through a coronation
NoMissedQueen == Queue!NoMissedQueen

\* Nodes wait in a replacement cache only beside a full bucket, each listed once
\* (KademliaRoutingTable.update and remove)
PlacesFilled == Table!PlacesFilled

\* KademliaRoutingTable.bucket_update_order is of the non-empty buckets
OrderCoversTable == Table!OrderCoversTable

\* A node leaves the KademliaRoutingTable only by its own remove()
NoSilentEviction == Table!NoSilentEviction

\* The header stitcher overlooks no header that can be handed out
\* (OrderedTaskPreparation with tasks that come in any order)
NothingStuck == Stitcher!NothingStuck
=============================================================================
