# Trinity in TLA+

Trinity is an Ethereum client in Python. This directory holds TLA+ modules that
model parts of it, TLC configurations that check them on small instances, and
TLAPS proofs of what holds for every size. Paths below are relative to `src/`.
`PROJECT.json` maps each definition to the lines it models, and lists the runs,
the mutations that each property detects, the findings and the hazards.

To check a module: `tlc -config MCTaskQueue.cfg MCTaskQueue`. To check the
proofs: `tlapm TaskQueueProofs.tla`.

## 1. The system

The client runs as several processes (`docs/guides/architecture.rst`): a main
process, a database process and a networking process. Inside a process, most
code is coroutines of one asyncio (or trio) event loop. Code between two
`await`s is therefore atomic, and every `await` is a place where others run and
where the caller may be cancelled. The modules take this as their grain.

| Part | State | Operations | What is hard |
|---|---|---|---|
| `TaskQueue` (`trinity/_utils/datastructures.py`) | pending and checked-out tasks, a lock used as an event | `add`, `get`, `complete` | producers blocked at the limit, cancellations, put-backs |
| `OrderedTaskPreparation` (same file) | tasks, prerequisites, ready queue | `register_tasks`, `wait_add_tasks`, `finish_prereq`, `ready_tasks`, `set_finished_dependency` | out-of-order arrival, forks, pruning, lost wake-ups |
| `RootTracker` (`trinity/_utils/tree_root.py`) | shared mutable root objects, a cache | `add`, `get_root`, `prune` | extensions of extensions, stale cache |
| Exchange (`p2p/exchange/`) | lock, pending request, queue per request | `get_result`, message handler | late, repeated, wrong or no answers |
| Peer pool (`p2p/peer_pool.py`) | connected peers, handshake locks, subscribers | dial, accept, start, add, remove | simultaneous dials, peers that end at a bad time |
| `ResourceLock` (`p2p/resource_lock.py`) | locks and reference counts | `lock` | deletion while others arrive |
| `TokenBucket` (`p2p/token_bucket.py`) | balance, time of last refill | `take`, `take_nowait` | takers that overlap while asleep |
| `QueeningQueue` (`trinity/sync/beam/queen.py`) | queen, knights, peasants, timers | insert, crown, penalise, pop | the queen is borrowed and may be replaced meanwhile |
| Routing table (`p2p/kademlia.py`) | buckets, replacement caches, update order | `update`, `remove` | places wasted or used twice, silent eviction |
| Header sync (`trinity/sync/common/headers.py`) | skeleton, meat queue, stitcher | fetch, fill, stitch | back pressure between the three |
| Body and receipt sync, import (`trinity/sync/full/chain.py`) | two task queues and two trackers | download, persist, import | each error path must return peer and tasks once |
| Beam sync (`trinity/sync/beam/`) | node queues, backfill trackers, gap syncer | request nodes, pause, pivot | shared events, pause against set-up |
| Multiplexer, connection, handshake (`p2p/`) | queues per protocol, handler tasks | stream, dispatch, close | full queues, close with messages left |
| Discovery (`p2p/discovery.py`) | bonds, channels | ping, bond, lookup | lost and crossing pongs |
| Event-bus proxies, new blocks, transaction pool, database (`trinity/protocol/common`, `trinity/components/builtin`, `trinity/db`) | tables of peers, blocks, seen transactions; batches | join and leave, broadcast, relay, batch | tables read before an `await` and written after it |

The first nine rows are modelled. They are what the others are built from: the
body, receipt, header-meat and beam syncers each own `TaskQueue`s; the stitcher
and the block trackers are `OrderedTaskPreparation`s, whose forks are followed by
a `RootTracker`; every request of a syncer goes through an exchange with a peer
of the pool; the pool serialises handshakes with a `ResourceLock` and dials at
the rate a `TokenBucket` allows; the beam syncer draws peers from a
`QueeningQueue`, and discovery keeps its nodes in the routing table. `PROJECT.json` lists every part, with the reason
for each one that has no module.

## 2. Modules

| Module | Models | Notes |
|---|---|---|
| `TaskQueue` | `TaskQueue` | `running` names the producer whose loop executes; `fullLock = "passing"` is a released asyncio lock whose first waiter is woken and has not run |
| `TaskPool` | what `TaskQueue` promises | status of each task: absent, pending, taken; `TaskQueue` implements it |
| `OrderedTaskPreparation` | `OrderedTaskPreparation` | synchronous loops are spelled out in steps; while one runs (`~Quiet`) no other call starts |
| `Forest` | parent links with paths, roots and depths | reference for `RootTracker`, and the forest `OrderedTaskPreparation` prunes |
| `RootTracker` | `RootTracker`, `TreeRoot` | `heap` holds the shared `TreeRoot` objects, dropped when nothing refers to them |
| `Exchange` | `BaseExchange`, `ExchangeManager.get_result`, `ResponseCandidateStream` | a payload is the kind of request it would satisfy |
| `PeerPool` | `BasePeerPool`, and of peers, connections and the server what decides on membership | one session per attempt |
| `ResourceLock`, `TokenBucket` | the classes of that name | time of the bucket is an integer; the rate is one token per tick |
| `QueeningQueue` | `QueeningQueue`, `WaitingPeers`, and what their users do with a peer | each queue counts how often a peer is in it; which of two peers is faster is a free choice |
| `RoutingTable` | `KademliaRoutingTable` | a distance is the bucket it selects |

`MC*` modules give constants their values. `MCUtilities` explores `ResourceLock`,
`RootTracker`, `TokenBucket`, `QueeningQueue`, `RoutingTable` and the header
stitcher's `OrderedTaskPreparation` in separate behaviours: `which`, chosen at
the start, says whose steps are taken. `*Proofs` modules hold the theorems.

Each action is one whole stretch of code between awaits, or one iteration of a
synchronous loop. In `TaskQueue`, `Add`, `AddSlice`, `AddFull`, `AddWake`,
`AddPut`, `AddUpdate` and `AddReturn` are the steps of `add()`; `CompleteStart`
and `CompleteResume` are those of `complete()`. In `PeerPool`, an attempt moves
through `lock`, `attempt`, `dial`, `start`, `ready`, `boot`, `done`.
Operators beside an action with a longer name (`AddSliceWhole`, `PutBackSkipped`,
`CloseGeneratorKeeps`) are altered forms of it. They are used only to show that a
property notices the difference.

### Two next-state relations

Two modules separate what callers are expected to do from what the code permits.

* `TaskQueue!Next` covers callers whose consumers are not cancelled. `AllNext`
  adds the cancellation of `complete()` and steps in which a put blocks.
  `SharedTasks` says whether two producers may add one task at the same time.
* `PeerPool!Next` lets a connection end only once its peer is in the pool.
  `EarlyNext` lets it end at any time, and start-up hang, or `_add_peer()` and
  `subscribe()` raise, accordingly.

The passing runs use the first relation, the findings need the second, and the
safety theorems are proved for the second wherever they hold there.

`OrderedTaskPreparation` has switches for what its callers do instead:

* `LateRegister`: a task is registered although tracked tasks depend on it. The
  stitcher does this, because its headers come in any order (run `utilities`).
  The block syncers do not: they get headers from the stitcher in order, and the
  stitcher does not send imported ones again (`trinity/sync/common/headers.py:332`).
* `AheadDeclare`: a task is declared finished while the task it depends on is not
  ready, or still in the ready queue. The block syncers declare blocks whose
  headers are in the database, and those of their ancestors were handed out
  before. The stitcher's run permits it.
* `Redeclare`: a task that was pruned is declared finished again.

A declaration may come late in every run. After `MissingDependency` the block
syncers declare the parent of their first header (`trinity/sync/full/chain.py:247`),
which may have been pruned while a child of it on a fork is still tracked.
`set_finished_dependency()` looks at no child, so a child that is complete by
then stays where it is. The history variable `overtaken` remembers such tasks,
and run `otp_late_declaration` records the case as a finding. The syncers then
register the batch again without waiting for room (`chain.py:256`); `retry` holds
the tasks that may be registered so. A tracker has one producer there, so no
other registration comes in between.

`InOrder` is neither `LateRegister` nor `AheadDeclare`. Only the proof of
`Tracked` needs it.

## 3. Runs

Passing runs, with the distinct states explored:

| Run | States | Instance | Shows |
|---|---|---|---|
| `task_queue` | 25 257 | 4 tasks, 2 producers, 2 batches, limit 2 | no task in two places or lost, room for every put-back, no lost wake-up, blocked producers wake, implements `TaskPool` |
| `otp_blocks` | 32 568 | chain with a fork of 5 tasks, 2 prerequisites, limit 2, depth 1, 2 producers, late declarations | each task handed out once, after its dependency, none overlooked that its dependency's declaration has not overtaken; pruning forgets no pending task; waiting producers resume |
| `exchange` | 30 096 | 2 callers, 2 kinds, 2 messages queued | one request in flight, owned lock, every call ends |
| `peer_pool` | 450 137 | 4 attempts for 3 nodes, 2 slots, 1 dial at a time, 1 subscriber | limit, one session per node, no dead peer, subscribers agree with the pool |
| `peer_pool_live` | 2 774 | a smaller set of attempts | every attempt ends |
| `utilities` | 105 417 | 3 callers and 2 locks; forests of 4 nodes; bucket of 2 tokens, 5 ticks; 3 peers, up to 2 knights; 5 nodes in 2 buckets of 2; a stitcher of 5 headers in any order | mutual exclusion, no leaked lock; roots, depths and cache equal the reference; rate never exceeded, nobody overtakes a sleeper; a live peer is in one place and no peer in two, no coronation is missed; replacements wait only beside a full bucket, no silent eviction; the stitcher overlooks no header |

Runs that show the code departing from its own documentation:

| Run | What happens |
|---|---|
| `task_queue_one_checkout` | two producers blocked with the same task both insert it; it is checked out twice |
| `task_queue_cancelled_complete` | a consumer cancelled inside `complete()` leaves tasks that nobody can pick up |
| `otp_late_declaration` | a pruned parent is declared finished again; a complete task of a fork below it is ready by the docstring, and nothing hands it out |
| `exchange_requesting` | after a timeout `is_requesting` stays true with no request in flight |
| `peer_pool_dead_peer` | a peer that ends just before `_add_peer()` stays in the pool |
| `peer_pool_hang` | a connection that ends while its behaviors are applied leaves the attempt waiting, inside the node's lock |

### Bounds

* `TaskQueue`: the limit (2) is below the number of tasks (4), so producers
  block; two batches and two results per `get()` let consumers compete and put
  several tasks back.
* `OrderedTaskPreparation`: five tasks are the smallest tree with a fork, a
  branch deeper than `MaxDepth` and tasks left to arrive after pruning. `MaxCall`
  bounds one registration, `Redeclare` the trackers that have no task limit.
* `Exchange`: `MaxMessages` bounds a queue. Two messages allow a wrong or late
  one before a right one.
* `PeerPool`: three nodes compete for two slots, and one node is dialled by both
  sides. Sessions are used once; a reconnection is another session.
* `RootTracker`: four nodes allow a fork below an extended root; `Objs` bounds the
  live `TreeRoot` objects, which four nodes cannot exceed.
* `TokenBucket`: `MaxTime` and `MaxDebt` bound the clock and the negative balance;
  two takers of up to two tokens overlap within them. `MaxLocks` bounds the lock
  objects ever made.
* `QueeningQueue`: three peers can be queen, knight and peasant at once, or queen
  and two knights. A peer that is told to end still counts as alive until its
  connection is closed (`status = "ending"`), so that a timer may insert it, or
  crown it, once more after it was deregistered. `MaxKnights` bounds `_desired_knights`, which the code bounds
  by the number of peers.
* `RoutingTable`: four nodes for a bucket of two fill both the bucket and the
  replacement cache; a second bucket gives the update order something to order.

Deadlock checking is off where the system may really stop: a pool whose sessions
are used up, a stream that has ended, a clock at its bound.

### Fairness

* `TaskQueue`: the event loop keeps running ready coroutines (strong fairness of
  each producer's steps and of a suspended `complete()`). Consumers keep calling
  `get()`, and of each batch complete at least one task time and again. Without
  the latter a full queue legitimately stays full.
* `OrderedTaskPreparation`: synchronous loops end, the consumer keeps calling
  `ready_tasks()`, and whoever fetches prerequisites goes on until it has them.
  `AdderResumes` allows a producer to sleep on once a task is `Stranded`: one
  whose fork was pruned, or that its dependency's declaration has overtaken,
  never becomes ready, and still counts towards the limit.
* `Exchange`: the event loop serves a free lock and an abandoned generator, and
  the time for an answer expires. The time limit on the lock is not assumed.
* `PeerPool`: dials, starts and boots have time limits in the code, and locks are
  handed on in FIFO order.

## 4. Proofs

Proved for every value of the constants that meets the named `ASSUME`:

| Module | Theorems | Under |
|---|---|---|
| `TaskQueueProofs` | `TypeCorrect` | `AllSpec` |
| | `CheckedOutOnce`, `RoomKept`, `WakeupKept` | `AllSpec`, `~SharedTasks` |
| `OrderedTaskPreparationProofs` | `TypeCorrect`, `NoneOverlooked`, `HandedOutOnce`, `InDependencyOrder`, `AddersAwake` | `Spec` |
| | `PendingTracked` | `Spec`, `InOrder` |
| `PeerPoolProofs` | `TypeCorrect`, `LimitKept`, `OneSession` | `EarlySpec` |
| `ResourceLockProofs` | `TypeCorrect`, `Exclusive`, `NoLockLeaks` | `Spec` |

The inductive invariants:

* **TaskQueue.** `OneCheckout` alone is not inductive: an `add()` that has passed
  the duplicate check must still be about tasks that nobody else has (`Apart`),
  the open queue has no duplicate and holds only added tasks or part of the
  running slice (`OpenOnce`), a batch is held once while it is settled
  (`Settling`, `HeldOnce`). `AlwaysRoom` follows by counting: the slice under way
  fits (`Fits`), so the open queue together with what is checked out is at most
  `_tasks`. For wake-ups, the lock is held with room to spare only by a producer
  that is about to fill it (`LockBusy`).
* **OrderedTaskPreparation.** Whatever the order of the calls: what is declared
  or handed out is tracked and a call registers no tracked task (`Kept`); the walk
  of `_mark_complete()` has in hand exactly the tasks that could be made ready, and
  follows dependencies that were (`Marking`); what is not unready was handed out or
  declared (`Past`). `Tracked` needs more, and the contract: a task leaves
  `_unready` and the ready queue only after its dependency (`Apart`, `Upward`,
  `QueueOrder`), what depends on a task that a call has yet to register is still
  unready (`Registering`), and pruning works above tasks that have left the ready queue
  (`Pruning`).
* **PeerPool.** What the handshake lock protects: an attempt to dial that is past
  its check finds its node still unconnected (`Alone`), and a session joins at
  most once (`NotYet`). Inbound attempts are checked right before they are added.
* **ResourceLock.** The reference count is the number of callers inside
  (`Counted`), who all use the object in the table (`Shared`), which is no other
  resource's (`Distinct`).

Only model-checked: liveness and everything that needs fairness; `NothingLost`,
`ImplementsPool`, `Bounded`; the modules `Exchange`, `RootTracker`
(whose reference is a closure over paths, which needs induction), `TokenBucket`,
`QueeningQueue` and `RoutingTable`;
`NoDeadPeer` and `SubscribersAgree`.

## 5. Abstractions

* Priorities are ranks, tasks are model values, payloads are kinds. Logging,
  statistics and metrics are left out.
* `OrderedTaskPreparation` uses `Forest` for what its `_roots` computes; that
  `RootTracker` computes the same is run `utilities`.
* `Exchange` models the queue, lock and generator of one request type. Validation
  and normalisation either accept or reject.
* `PeerPool` does not model the blacklist or the discovery backends. The limit of
  nodes per address is in its guards; no run has enough nodes to reach it.
* The sources of libraries (asyncio locks, events, queues) are modelled from
  how the code uses them; such definitions are marked external.

## 6. Plan

In order of importance; each stage adds modules and, where stated, proofs.

1. **Beam requests.** `BeamDownloader` on top of the `TaskQueue` contract and the
   `QueeningQueue` (an urgent caller is woken for data that is stored; a queen is
   found while peers are idle).
2. **Gap and backfill.** `Pauser` and `BodyChainGapSyncer` (a paused syncer does
   not work, a resumed one does; the gap chosen has its headers), the prefix
   trackers of `BeamStateBackfill`.
3. **Compositions.** Body, receipt and import sync as producer and consumer of
   `TaskQueue` and `OrderedTaskPreparation`, discharging `~SharedTasks` and
   `InOrder` from the callers' code; skeleton, meat and stitcher of header sync
   with their back pressure; the pivot.
4. **Connections.** Multiplexer, connection and handshake, joined to `PeerPool`.
5. **Discovery.** Bonds with lost and crossing pongs; fork identifiers as a pure algorithm.
6. **Tables behind the event bus.** Peer proxies, new blocks, transaction pool and
   its filter, database batches.
7. **Proofs to add.** `ImplementsPool` and `NothingLost` over `Spec`, `Bounded`,
   the bucket's `RateLimit`, `OnePlace`, `PlacesFilled`.

The number of runs stays small: small components share a run as in `MCUtilities`,
and safety and liveness of a component are checked in one run where its state
space permits.

## 7. Not modelled

Encryption, framing and encodings (`p2p/transport.py`, `p2p/auth.py`,
`p2p/ecies.py`, the protocol definitions) have no control worth checking.
Execution of blocks belongs to py-evm. JSON-RPC, HTTP, command line, metrics and
the small built-in components are input and output. The network database is a
server that handles one SQL query at a time. The remaining parts are in the plan.

## 8. Hazards to look at with the modules that are planned

`PROJECT.json` lists the hazards that come first. These follow:

* `trinity/sync/beam/backfill.py:613`: the target root changes while requests
  for the old trie are active.
* `trinity/sync/beam/chain.py:525`: the gap is cut to a maximal size and
  extended by one block; off by one asks for a header that is not in the
  database.
* `trinity/sync/beam/service.py:131`: a pivot cancels one BeamSyncer and starts
  the next without waiting for the first to end.
* `trinity/sync/beam/importer.py:612`: a failed import is not answered; the
  requester waits until the pivot cancels it.
* `trinity/sync/common/headers.py:1019`: a new skeleton registers headers that
  the stitcher may have seen, pruned or still be waiting for from an earlier
  skeleton.
* `trinity/sync/full/chain.py:759`: transaction and receipt tries are written
  when they arrive, the block when its turn comes; after a restart in between,
  what is skipped is decided from what the database holds.
* `p2p/multiplexer.py:291`: streaming stops as soon as the transport closes,
  with messages such as Disconnect still queued.
* `p2p/connection.py:255`: the feeding task gives the connection two seconds to
  be cancelled before it ends and takes the connection down with an error.
* `p2p/handshake.py:371`: errors before the multiplexer exists must still close
  the transport.
* `p2p/asyncio_utils.py:63`: two tasks finish in one turn of the event loop and
  wait_first() treats it as an internal error, hiding theirs.
* `p2p/discovery.py:398`: the ping is sent before the channel for the pong is
  registered, so an early pong is dropped.
* `p2p/discovery.py:407`: a bond that times out must decide whether the node
  stays in the table; a late pong may follow.
* `trinity/components/builtin/tx_pool/pool.py:144`: a full internal queue makes
  the handler of peer messages wait for the relay loop.
* `trinity/protocol/common/peer_pool_event_bus.py:369`: the peer leaves while
  its proxy is being started, and the lookup that follows raises.
* `trinity/db/manager.py:233`: a client disappears in the middle of a batch:
  nothing of it may be committed.
* `trinity/protocol/common/monitors.py:60`: a tip that arrives while a
  subscriber works must wake it again, once.
* `trinity/sync/light/service.py:148`: a late reply races the timeout of the
  waiting future.
* `p2p/exchange/candidate_stream.py:132`: the time of the last response is
  overwritten by a further message while an earlier one is normalised in a
  thread.
