----------------------------- MODULE ImageGraph -----------------------------
(***************************************************************************)
(* The graph of images every other module works on: the nodes dib builds   *)
(* from the Dockerfiles it finds, with an edge from the image named in a   *)
(* FROM instruction to the image of the Dockerfile that names it.          *)
(*                                                                         *)
(* dag.Node keeps both directions of an edge as ordered slices, filled by  *)
(* AddChild, and newGraphFromNodes takes the nodes without parents as the  *)
(* roots.  A node may list the same parent twice (two FROM lines of one    *)
(* Dockerfile), so Parents and Children are sequences, not sets.           *)
(***************************************************************************)
EXTENDS Naturals, Sequences, FiniteSets

CONSTANTS
    Nodes,      \* the images
    Parents,    \* Parents[n]: node.parents, in the order AddChild appended
    Children,   \* Children[n]: node.children, likewise
    Roots       \* dag.nodes: the nodes the walks start from

\* The elements of a slice.
Elements(s) == {s[i] : i \in DOMAIN s}

ParentsOf(n) == Elements(Parents[n])
ChildrenOf(n) == Elements(Children[n])

-----------------------------------------------------------------------------

ASSUME GraphType ==
    /\ IsFiniteSet(Nodes)
    /\ Parents \in [Nodes -> Seq(Nodes)]
    /\ Children \in [Nodes -> Seq(Nodes)]
    /\ Roots \in Seq(Nodes)

\* AddChild appends to both slices at once.
ASSUME EdgesAgree ==
    \A p, n \in Nodes : n \in ChildrenOf(p) <=> p \in ParentsOf(n)

\* newGraphFromNodes: "If an image has no parents in the DAG, we can consider
\* it root".
ASSUME RootsAreParentless ==
    \A n \in Nodes : n \in Elements(Roots) <=> ParentsOf(n) = {}

\* The graph is a DAG, stated without paths: every non-empty set of nodes has
\* a member with no parent in the set.  Nothing in the code checks it; a cycle
\* of FROM instructions has no root and is listed among the hazards.
ASSUME Acyclic ==
    \A S \in SUBSET Nodes :
        S # {} => \E n \in S : ParentsOf(n) \cap S = {}

=============================================================================
