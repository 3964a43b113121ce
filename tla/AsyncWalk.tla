----------------------------- MODULE AsyncWalk ------------------------------
(***************************************************************************)
(* dag.WalkAsyncErr: Node.walkAsyncErr calls itself for every child in a   *)
(* goroutine of an errgroup, next to the goroutine that runs the visitor,  *)
(* and waits for its group.  A node with several parents is walked once    *)
(* per path from a root, all of them at the same time; only the sync.Map   *)
(* of createUniqueVisitorErr keeps the visitor from running once per path, *)
(* and it is read and written in two steps.                                *)
(*                                                                         *)
(* The visitor is the refExistsMapForTag of module Plan or the one of      *)
(* module Retag; here it may return an error or not.                       *)
(***************************************************************************)
EXTENDS CallTree

VARIABLES
    call,       \* call[c]: "none", "spawned", "waiting" in errG.Wait, "returned"
    visitor,    \* visitor[c]: where the goroutine is that runs the visitor for c;
                \* in the end it has "returned", or the node was "ignored"
    visited,    \* the sync.Map of createUniqueVisitorErr
    failed,     \* the calls whose errgroup has recorded an error
    result      \* what WalkAsyncErr has returned

walkVars == <<call, visitor, visited, failed, result>>

WalkTypeOK ==
    /\ call \in [Calls -> {"none", "spawned", "waiting", "returned"}]
    /\ visitor \in [Calls -> {"none", "load", "store", "visit", "ignored", "returned"}]
    /\ visited \in SUBSET Nodes
    /\ failed \in SUBSET Calls
    /\ result \in {"none", "ok", "error"}

-----------------------------------------------------------------------------

\* WalkAsyncErr has spawned a goroutine for each root.  The order in which it
\* does so makes no difference: a goroutine may start at any time after.
WalkInit ==
    /\ call = [c \in Calls |-> IF c \in RootCalls THEN "spawned" ELSE "none"]
    /\ visitor = [c \in Calls |-> "none"]
    /\ visited = {}
    /\ failed = {}
    /\ result = "none"

\* The goroutine of walkAsyncErr runs: it spawns the visitor and a goroutine
\* for each child, and waits for all of them.
Start(c) ==
    /\ call[c] = "spawned"
    /\ call' = [d \in Calls |-> CASE d = c -> "waiting"
                                  [] d \in SubCalls[c] -> "spawned"
                                  [] OTHER -> call[d]]
    /\ visitor' = [visitor EXCEPT ![c] = "load"]
    /\ UNCHANGED <<visited, failed, result>>

\* visited.Load(node): a node that is there is ignored, without an error.
Load(c) ==
    /\ visitor[c] = "load"
    /\ visitor' = [visitor EXCEPT ![c] =
                        IF NodeOf[c] \in visited THEN "ignored" ELSE "store"]
    /\ UNCHANGED <<call, visited, failed, result>>

\* A visitor that marks the children together with the node.
Store_Children(c) ==
    /\ visitor[c] = "store"
    /\ visited' = visited \cup {NodeOf[c]} \cup ChildrenOf(NodeOf[c])
    /\ visitor' = [visitor EXCEPT ![c] = "visit"]
    /\ UNCHANGED <<call, failed, result>>

\* visited.Store(node), and the visitor is called.
Store(c) ==
    /\ visitor[c] = "store"
    /\ visited' = visited \cup {NodeOf[c]}
    /\ visitor' = [visitor EXCEPT ![c] = "visit"]
    /\ UNCHANGED <<call, failed, result>>

\* A visitor that is called again for as long as it fails.
EndVisit_Retries(c, err) ==
    /\ visitor[c] = "visit"
    /\ visitor' = [visitor EXCEPT ![c] = IF err THEN "store" ELSE "returned"]
    /\ UNCHANGED <<call, visited, failed, result>>

\* The visitor returns; its errgroup records the error.
EndVisit(c, err) ==
    /\ visitor[c] = "visit"
    /\ visitor' = [visitor EXCEPT ![c] = "returned"]
    /\ failed' = IF err THEN failed \cup {c} ELSE failed
    /\ UNCHANGED <<call, visited, result>>

VisitorEnded(c) == visitor[c] \in {"ignored", "returned"}

\* The visitor and the calls on the children have returned.
GroupEnded(c) ==
    /\ VisitorEnded(c)
    /\ \A s \in SubCalls[c] : call[s] = "returned"

\* A group that returns its visitor's error and drops those of the children.
Return_DropsChildren(c) ==
    /\ call[c] = "waiting"
    /\ GroupEnded(c)
    /\ call' = [call EXCEPT ![c] = "returned"]
    /\ UNCHANGED <<visitor, visited, failed, result>>

\* errG.Wait returns the group's first error, which the group of the caller
\* records in its turn.
Return(c) ==
    /\ call[c] = "waiting"
    /\ GroupEnded(c)
    /\ call' = [call EXCEPT ![c] = "returned"]
    /\ failed' = IF c \in failed THEN failed \cup Callers(c) ELSE failed
    /\ UNCHANGED <<visitor, visited, result>>

\* The errG.Wait of WalkAsyncErr.
EndWalk ==
    /\ result = "none"
    /\ \A c \in RootCalls : call[c] = "returned"
    /\ result' = IF RootCalls \cap failed = {} THEN "ok" ELSE "error"
    /\ UNCHANGED <<call, visitor, visited, failed>>

-----------------------------------------------------------------------------

\* What goes on around the visitor on call c.
Around(c) == Start(c) \/ Load(c) \/ Store(c) \/ Return(c)

WalkGoroutine(c) == Around(c) \/ \E err \in BOOLEAN : EndVisit(c, err)

WalkReturned == result # "none" /\ UNCHANGED walkVars

WalkNext == (\E c \in Calls : WalkGoroutine(c)) \/ EndWalk \/ WalkReturned

\* Goroutines that can run do, and the visitor returns.
WalkFairness == (\A c \in Calls : WF_walkVars(WalkGoroutine(c))) /\ WF_walkVars(EndWalk)

WalkSpec == WalkInit /\ [][WalkNext]_walkVars /\ WalkFairness

-----------------------------------------------------------------------------
(* Properties                                                              *)

\* The calls whose visitor runs.
Visiting == {c \in Calls : visitor[c] = "visit"}

\* errgroup nested in errgroup: when WalkAsyncErr returns nothing runs any
\* more, so refExistsMapForTag may read what its visitors wrote without a lock.
NothingRunsAfterReturn ==
    result # "none" => \A c \in Calls : call[c] = "returned" /\ VisitorEnded(c)

\* When WalkAsyncErr returns, a visitor has run to its end on every node,
\* although each goroutine leaves it to another as soon as it finds the node in
\* the map, before that other has begun.
EveryNodeVisited ==
    result # "none" =>
        \A n \in Nodes : \E c \in Calls : NodeOf[c] = n /\ visitor[c] = "returned"

\* WalkAsyncErr returns nil only if every visitor has: no error is lost on its
\* way up the groups.
NoErrorLost == result = "ok" => failed = {}

\* WalkAsyncErr returns.
WalkReturns == <>(result # "none")

=============================================================================
