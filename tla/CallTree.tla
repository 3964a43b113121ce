------------------------------ MODULE CallTree ------------------------------
(***************************************************************************)
(* The calls of Node.walkAsyncErr: a node with several parents is walked   *)
(* once per path from a root.  walkAsyncErr does nothing before it makes   *)
(* its calls, so which calls there are is known from the graph.            *)
(***************************************************************************)
EXTENDS ImageGraph

CONSTANTS
    Calls,      \* the calls of walkAsyncErr: one per path from a root
    NodeOf,     \* NodeOf[c]: the node call c is made on
    SubCalls,   \* SubCalls[c]: the calls c makes, one per child
    RootCalls   \* the calls WalkAsyncErr makes, one per root

ASSUME CallsType ==
    /\ IsFiniteSet(Calls)
    /\ NodeOf \in [Calls -> Nodes]
    /\ SubCalls \in [Calls -> SUBSET Calls]
    /\ RootCalls \in SUBSET Calls

\* The loops over d.nodes and over n.children.
ASSUME CallsFollowGraph ==
    /\ {NodeOf[c] : c \in RootCalls} = Elements(Roots)
    /\ \A c \in Calls :
        /\ {NodeOf[s] : s \in SubCalls[c]} = ChildrenOf(NodeOf[c])
        /\ Cardinality(SubCalls[c]) = Len(Children[NodeOf[c]])

\* The calls that make call c: every call is made by WalkAsyncErr or by one
\* other call.
Callers(c) == {d \in Calls : c \in SubCalls[d]}

ASSUME CallsAreATree ==
    \A c \in Calls :
        IF c \in RootCalls THEN Callers(c) = {} ELSE \E d \in Calls : Callers(c) = {d}

=============================================================================
