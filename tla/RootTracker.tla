----------------------------- MODULE RootTracker -----------------------------
(***************************************************************************)
(* RootTracker, Tree and TreeRoot of trinity/_utils/tree_root.py.  A       *)
(* TreeRoot is a mutable object that many nodes share: the heap maps an     *)
(* object to its fields.  The ValidationErrors that report a broken         *)
(* structure set `broken`; those that reject a call (adding a node twice,   *)
(* pruning a node that is no root) are guards.                              *)
(***************************************************************************)
EXTENDS Integers, FiniteSets

CONSTANTS
  Nodes,   \* node ids
  Objs,    \* TreeRoot objects, 1 .. n: as many as can be live at one time
  MaxDepth \* bound on the original depths, which grow as the tree moves on

VARIABLES
  parent,    \* _tree._parents
  children,  \* _tree._children; {} for a missing key
  roots,     \* _roots: node -> object
  depth,     \* _original_depth_to_root
  heap,      \* object -> the fields of the TreeRoot
  cache,     \* _cache: node -> <<root, depth>>
  broken     \* "no", or "yes" once an internal check has failed

vars == <<parent, children, roots, depth, heap, cache, broken>>

F == INSTANCE Forest

Null == [root |-> 0, offset |-> 0, extends |-> 0, more |-> 0]

\* TreeRoot(n)
NewRoot(n) == [Null EXCEPT !.root = n]

IsExtension(h, o) == h[o].extends # 0

\* _get_true_root: the last object of the chain and the depth added on the way
TrueRoot(h, o) ==
  LET chain[k \in 0 .. Cardinality(Objs)] ==
        IF k = 0 THEN <<o, 0>>
        ELSE LET c == chain[k - 1]
             IN  IF IsExtension(h, c[1]) THEN <<h[c[1]].extends, c[2] + h[c[1]].more>> ELSE c
  IN  chain[Cardinality(Objs)]

NodeId(h, o) == h[TrueRoot(h, o)[1]].root
DepthOffset(h, o) == LET t == TrueRoot(h, o) IN h[t[1]].offset + t[2]

\* The objects in use: those of the nodes, and those they extend
Live(h, rs) ==
  {rs[n] : n \in DOMAIN rs} \cup {h[rs[n]].extends : n \in {m \in DOMAIN rs : IsExtension(h, rs[m])}}

Collected(h, rs) == [o \in Objs |-> IF o \in Live(h, rs) THEN h[o] ELSE Null]

Fresh == CHOOSE o \in Objs : /\ o \notin Live(heap, roots)
                             /\ \A q \in Objs : q < o => q \in Live(heap, roots)

Without(f, n) == [m \in DOMAIN f \ {n} |-> f[m]]
With(f, n, v) == [m \in DOMAIN f \cup {n} |-> IF m = n THEN v ELSE f[m]]

Init ==
  /\ parent = <<>>
  /\ children = [n \in Nodes |-> {}]
  /\ roots = <<>>
  /\ depth = <<>>
  /\ heap = [o \in Objs |-> Null]
  /\ cache = <<>>
  /\ broken = "no"

-----------------------------------------------------------------------------
\* Mutant of NewRootOf: a fork extends its parent's TreeRoot with one level too many
NewRootOfDeeper(n, p, kids) ==
  IF p \in DOMAIN parent
  THEN IF Cardinality(kids) > 1
       THEN [obj |-> Fresh, dep |-> depth[p] + 1,
             hp |-> [heap EXCEPT ![Fresh] = [NewRoot(n) EXCEPT !.extends = roots[p], !.more = 1]]]
       ELSE [obj |-> roots[p], dep |-> depth[p] + 1, hp |-> heap]
  ELSE [obj |-> Fresh, dep |-> 0, hp |-> [heap EXCEPT ![Fresh] = NewRoot(n)]]

\* _get_new_root: the object and the original depth of a node n with parent p,
\* kids being p's children with n among them, and the heap after it
NewRootOf(n, p, kids) ==
  IF p \in DOMAIN parent
  THEN IF Cardinality(kids) > 1
       THEN [obj |-> Fresh, dep |-> depth[p] + 1,
             hp |-> [heap EXCEPT ![Fresh] = [NewRoot(n) EXCEPT !.extends = roots[p]]]]
       ELSE [obj |-> roots[p], dep |-> depth[p] + 1, hp |-> heap]
  ELSE [obj |-> Fresh, dep |-> 0, hp |-> [heap EXCEPT ![Fresh] = NewRoot(n)]]

\* _link_children: the root objects of the node's children extend its own
LinkOK(h, kids) ==
  /\ \A c \in kids : DepthOffset(h, roots[c]) + depth[c] = 0
  /\ \A c \in kids : ~IsExtension(h, roots[c])
  /\ \A c, d \in kids : roots[c] = roots[d] => c = d

LinkChildren(h, obj, dep, kids) ==
  [o \in Objs |->
     IF \E c \in kids : roots[c] = o
     THEN LET c == CHOOSE c \in kids : roots[c] = o
          IN  [h[o] EXCEPT !.extends = obj, !.more = dep + 1 - depth[c]]
     ELSE h[o]]

\* Mutant of add: the cache survives
addCached(n, p) ==
  /\ n \notin DOMAIN parent /\ ~F!Loops(n, p)
  /\ p \in DOMAIN parent => depth[p] < MaxDepth
  /\ parent' = With(parent, n, p)
  /\ children' = [children EXCEPT ![p] = @ \cup {n}]
  /\ LET new == NewRootOf(n, p, children'[p])
     IN  /\ roots' = With(roots, n, new.obj)
         /\ depth' = With(depth, n, new.dep)
         /\ heap' = LinkChildren(new.hp, new.obj, new.dep, children[n])
  /\ UNCHANGED <<broken, cache>>

add(n, p) ==
  /\ n \notin DOMAIN parent
  /\ ~F!Loops(n, p)
  /\ p \in DOMAIN parent => depth[p] < MaxDepth
  /\ parent' = With(parent, n, p)
  /\ children' = [children EXCEPT ![p] = @ \cup {n}]
  /\ LET new == NewRootOf(n, p, children'[p])
     IN  /\ roots' = With(roots, n, new.obj)
         /\ depth' = With(depth, n, new.dep)
         /\ heap' = LinkChildren(new.hp, new.obj, new.dep, children[n])
         /\ broken' = IF LinkOK(new.hp, children[n]) THEN broken ELSE "yes"
  /\ cache' = <<>>

get_root(n) ==
  /\ n \in DOMAIN roots
  /\ LET answer == IF n \in DOMAIN cache
                   THEN cache[n]
                   ELSE <<NodeId(heap, roots[n]), depth[n] + DepthOffset(heap, roots[n])>>
     IN  /\ cache' = With(cache, n, answer)
         /\ broken' = IF F!HasParent(answer[1]) THEN "yes" ELSE broken
  /\ UNCHANGED <<parent, children, roots, depth, heap>>

\* The checks of prune, prune_to and _prune: kids lose their parent n
PruneOK(n, r, kids) ==
  /\ NodeId(heap, r) = n
  /\ ~IsExtension(heap, r)
  /\ \A c \in kids :
       IF IsExtension(heap, roots[c])
       THEN heap[roots[c]].root = c /\ heap[roots[c]].extends = r
       ELSE roots[c] = r /\ heap[r].root = n
  /\ \A c, d \in kids : roots[c] = roots[d] => c = d

\* Mutant of PruneRoots: the depth of a fork is not reduced
PruneRootsKeep(r, kids) ==
  [o \in Objs |->
     IF \E c \in kids : roots[c] = o
     THEN LET c == CHOOSE c \in kids : roots[c] = o
          IN  IF IsExtension(heap, o)
              THEN [heap[o] EXCEPT !.extends = 0, !.more = 0, !.offset = heap[o].more]
              ELSE [heap[o] EXCEPT !.root = c, !.offset = @ - 1]
     ELSE heap[o]]

\* TreeRoot._prune for the root object of every child
PruneRoots(r, kids) ==
  [o \in Objs |->
     IF \E c \in kids : roots[c] = o
     THEN LET c == CHOOSE c \in kids : roots[c] = o
          IN  IF IsExtension(heap, o)
              THEN [heap[o] EXCEPT !.extends = 0, !.more = 0,
                                   !.offset = DepthOffset(heap, r) - 1 + heap[o].more]
              ELSE [heap[o] EXCEPT !.root = c, !.offset = @ - 1]
     ELSE heap[o]]

prune(n) ==
  /\ n \in DOMAIN parent
  /\ ~F!HasParent(n)
  /\ LET r == roots[n]
         kids == children[n]
         h == PruneRoots(r, kids)
     IN  /\ roots' = Without(roots, n)
         /\ heap' = Collected(h, roots')
         /\ broken' = IF PruneOK(n, r, kids) /\ \A c \in kids : NodeId(h, roots[c]) = c
                      THEN broken ELSE "yes"
  /\ children' = [children EXCEPT ![parent[n]] = @ \ {n}]
  /\ parent' = Without(parent, n)
  /\ depth' = Without(depth, n)
  /\ cache' = <<>>

Next ==
  \/ \E n, p \in Nodes : add(n, p)
  \/ \E n \in Nodes : get_root(n)
  \/ \E n \in Nodes : prune(n)

Spec == Init /\ [][Next]_vars

-----------------------------------------------------------------------------
(* Properties *)

\* The mutable, shared TreeRoots give every node the root and the depth that
\* following the parents one by one would give, however the tree was built.
RootsCorrect ==
  \A n \in DOMAIN parent :
    /\ NodeId(heap, roots[n]) = F!Root(n)
    /\ depth[n] + DepthOffset(heap, roots[n]) = F!Depth(n)

\* A cached answer is never stale: add() and prune() empty the cache.
CacheFresh ==
  \A n \in DOMAIN cache : n \in DOMAIN parent /\ cache[n] = <<F!Root(n), F!Depth(n)>>

\* None of the internal checks of TreeRoot and RootTracker ever fails when
\* callers prune roots only: a TreeRoot is never extended twice, and a pruned
\* root's children have it, or an extension of it, as their root.
NeverBroken == broken = "no"

=============================================================================
