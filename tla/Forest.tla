------------------------------- MODULE Forest --------------------------------
(***************************************************************************)
(* What RootTracker (trinity/_utils/tree_root.py) promises: a forest that  *)
(* is built one edge at a time in any order, pruned at the roots, and asked *)
(* for the root of a node and the depth below it.  Nodes know only their    *)
(* parent, which may be absent.                                             *)
(***************************************************************************)
EXTENDS Integers, FiniteSets

CONSTANT Nodes

VARIABLE parent   \* node -> its parent, for the nodes that are present

Present == DOMAIN parent

HasParent(n) == n \in Present /\ parent[n] \in Present

\* n and the nodes above it: the least set with n that is closed under parents
Path(n) ==
  {m \in Present :
     \A S \in SUBSET Present :
       n \in S /\ (\A x \in S : HasParent(x) => parent[x] \in S) => m \in S}

Root(n) == CHOOSE m \in Path(n) : ~HasParent(m)

Depth(n) == Cardinality(Path(n)) - 1

\* n is p or above p, so that n may not become p's child
Loops(n, p) == p = n \/ (p \in Present /\ \E m \in Path(p) : m = n \/ parent[m] = n)

Init == parent = <<>>

Add ==
  \E n \in Nodes \ Present, p \in Nodes :
    parent' = [m \in Present \cup {n} |-> IF m = n THEN p ELSE parent[m]]

Prune ==
  \E n \in Present :
    /\ ~HasParent(n)
    /\ parent' = [m \in Present \ {n} |-> parent[m]]

Next == Add \/ Prune

Spec == Init /\ [][Next]_parent
=============================================================================
