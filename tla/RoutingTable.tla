---------------------------- MODULE RoutingTable -----------------------------
(***************************************************************************)
(* KademliaRoutingTable of p2p/kademlia.py: bounded buckets of nodes by     *)
(* distance, most recent first, a replacement cache beside each bucket, and *)
(* the order in which buckets were updated.  A distance is given by the     *)
(* bucket it selects.                                                       *)
(***************************************************************************)
EXTENDS Integers, Sequences, SequencesExt

CONSTANTS
  NodeIds,     \* without center_node_id
  Buckets,     \* bucket indices
  BucketOf,    \* compute_log_distance(center_node_id, node_id) - 1
  bucket_size

VARIABLES
  buckets,             \* deque(maxlen = bucket_size) for each index
  replacement_caches,  \* deque for each index
  bucket_update_order

tableVars == <<buckets, replacement_caches, bucket_update_order>>

Init ==
  /\ buckets = [b \in Buckets |-> <<>>]
  /\ replacement_caches = [b \in Buckets |-> <<>>]
  /\ bucket_update_order = <<>>

-----------------------------------------------------------------------------
\* deque.appendleft: a deque with a maximal length drops its last element
appendleft(s, n) == <<n>> \o (IF Len(s) < bucket_size THEN s ELSE Front(s))

\* The changes to the bucket and the cache of n, at its index
At(n, bucket, cache) ==
  /\ buckets' = [buckets EXCEPT ![BucketOf[n]] = bucket]
  /\ replacement_caches' = [replacement_caches EXCEPT ![BucketOf[n]] = cache]

update_bucket_unchecked(n) ==
  LET b == BucketOf[n]
  IN  /\ At(n, appendleft(RemoveFirst(buckets[b], n), n), RemoveFirst(replacement_caches[b], n))
      /\ bucket_update_order' = <<b>> \o RemoveFirst(bucket_update_order, b)

\* Mutant: off by one, a full bucket takes one more node.
is_bucket_full_late(b) == Len(buckets[b]) > bucket_size

is_bucket_full(b) == Len(buckets[b]) >= bucket_size

\* The eviction candidate that is returned is the last node of the full bucket.
update(n) ==
  LET b == BucketOf[n]
  IN  IF Contains(buckets[b], n) \/ ~is_bucket_full(b)
        THEN update_bucket_unchecked(n)
        ELSE /\ At(n, buckets[b], <<n>> \o RemoveFirst(replacement_caches[b], n))
             /\ UNCHANGED bucket_update_order

\* Mutant: nobody takes the place.
ReplacedNever(bucket, cache) == <<bucket, cache>>

\* The bucket and the cache once a node has left the bucket: the newest
\* replacement takes the last place.
Replaced(bucket, cache) ==
  IF cache = <<>> THEN <<bucket, cache>> ELSE <<Append(bucket, Head(cache)), Tail(cache)>>

\* Mutant: the order keeps buckets that are empty.
OrderAfterKeeps(b, bucket) == bucket_update_order

OrderAfter(b, bucket) ==
  IF bucket = <<>> THEN RemoveFirst(bucket_update_order, b) ELSE bucket_update_order

remove(n) ==
  LET b == BucketOf[n]
      cached == replacement_caches[b]
      after == IF Contains(buckets[b], n)
                 THEN Replaced(RemoveFirst(buckets[b], n), cached)
                 ELSE <<buckets[b], cached>>
  IN  /\ At(n, after[1], IF Contains(cached, n) THEN RemoveFirst(after[2], n) ELSE after[2])
      /\ bucket_update_order' = OrderAfter(b, after[1])

Next == \E n \in NodeIds : update(n) \/ remove(n)

Spec == Init /\ [][Next]_tableVars

-----------------------------------------------------------------------------
(* Properties *)

Known(n) == Contains(buckets[BucketOf[n]], n) \/ Contains(replacement_caches[BucketOf[n]], n)

\* No place is wasted and none used twice: nodes wait in a replacement cache
\* only while the bucket is full, and a node is listed once, in the bucket or in
\* the cache.
PlacesFilled ==
  \A b \in Buckets :
    /\ replacement_caches[b] # <<>> => Len(buckets[b]) = bucket_size
    /\ IsInjective(buckets[b] \o replacement_caches[b])

\* The buckets that get_least_recently_updated_log_distance() chooses from are
\* the non-empty ones, each once.
OrderCoversTable ==
  /\ ToSet(bucket_update_order) = {b \in Buckets : buckets[b] # <<>>}
  /\ IsInjective(bucket_update_order)

\* A node leaves the table only when it is removed itself: neither update() of
\* another node nor its promotion pushes it out.
NoSilentEviction ==
  [][\A n \in NodeIds : Known(n) /\ ~Known(n)' => remove(n)]_tableVars
=============================================================================
