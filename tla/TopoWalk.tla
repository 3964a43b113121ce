------------------------------ MODULE TopoWalk ------------------------------
(***************************************************************************)
(* What dag.WalkParallel promises to the visitors it runs, without the     *)
(* mutexes and condition variables it uses to keep the promise: every node *)
(* is visited exactly once, in parallel, and "before processing a node it  *)
(* waits for every parent node to be completed".                           *)
(*                                                                         *)
(* WalkParallel is shown to implement this module; RebuildGraph builds the *)
(* visitor of `dib build` on top of it.                                    *)
(***************************************************************************)
EXTENDS ImageGraph

VARIABLE status     \* status[n]: where the walk is with node n

TypeOK == status \in [Nodes -> {"waiting", "visiting", "visited"}]

ParentsVisited(n) == \A p \in ParentsOf(n) : status[p] = "visited"

-----------------------------------------------------------------------------

Init == status = [n \in Nodes |-> "waiting"]

\* The visitor function is called on n.
Visit(n) ==
    /\ status[n] = "waiting"
    /\ ParentsVisited(n)
    /\ status' = [status EXCEPT ![n] = "visiting"]

\* The visitor function returns.
Leave(n) ==
    /\ status[n] = "visiting"
    /\ status' = [status EXCEPT ![n] = "visited"]

AllVisited == \A n \in Nodes : status[n] = "visited"

Next == \E n \in Nodes : Visit(n) \/ Leave(n)

Spec ==
    /\ Init
    /\ [][Next]_status
    /\ \A n \in Nodes : WF_status(Visit(n)) /\ WF_status(Leave(n))

=============================================================================
