---------------------------- MODULE WalkParallel ----------------------------
(***************************************************************************)
(* dag.WalkParallel with its goroutines, mutexes and condition variables.  *)
(*                                                                         *)
(* The caller walks the graph depth-first (Node.walk) and spawns one       *)
(* goroutine per node the first time it meets it.  A goroutine holds the   *)
(* mutex of its own node for its whole life: while it waits for its        *)
(* parents, while the visitor runs and while it broadcasts.  To wait for a *)
(* parent it locks the parent's mutex as well, and Cond.Wait releases only *)
(* that one.                                                               *)
(***************************************************************************)
EXTENDS ImageGraph

CONSTANT Free       \* the owner of a mutex nobody holds
ASSUME FreeAssumption == Free \notin Nodes

VARIABLES
    todo,       \* the call stack of walk: the nodes it still has to enter
    visited,    \* the sync.Map of createUniqueVisitor
    pc,         \* pc[n]: where the goroutine of n is
    idx,        \* idx[n]: its position in the loop over node.Parents()
    owner,      \* owner[n]: who holds the mutex n.waitCond.L
    done,       \* done[n]: the field node.done
    joined      \* waitGroup.Wait() has returned

vars == <<todo, visited, pc, idx, owner, done, joined>>

PC == {"idle",      \* no goroutine yet
       "start",     \* spawned, about to lock its own mutex
       "loop",      \* at the head of the loop over the parents
       "check",     \* holds the parent's mutex, about to test parent.done
       "wait",      \* found it false, about to call parent.waitCond.Wait()
       "asleep",    \* in the notify list, the parent's mutex released
       "woken",     \* notified, has to lock the parent's mutex again
       "visit",     \* the visitor runs
       "broadcast", \* node.done is set, Broadcast is next
       "unlock",    \* the deferred Unlock is next
       "exited"}

TypeOK ==
    /\ todo \in Seq(Nodes)
    /\ visited \in SUBSET Nodes
    /\ pc \in [Nodes -> PC]
    /\ idx \in [Nodes -> Nat \ {0}]
    /\ \A n \in Nodes : idx[n] <= Len(Parents[n]) + 1
    /\ owner \in [Nodes -> Nodes \cup {Free}]
    /\ done \in [Nodes -> BOOLEAN]
    /\ joined \in BOOLEAN

-----------------------------------------------------------------------------

\* The parent a goroutine is locking, testing or waiting for.
Awaited(n) == Parents[n][idx[n]]

\* The goroutines in the notify list of n's condition variable.
Waiters(n) == {m \in Nodes : pc[m] = "asleep" /\ Awaited(m) = n}

Goto(n, label) == pc' = [pc EXCEPT ![n] = label]
Lock(n, mutex) == owner[mutex] = Free /\ owner' = [owner EXCEPT ![mutex] = n]
Unlock(mutex) == owner' = [owner EXCEPT ![mutex] = Free]

Init ==
    /\ todo = Roots
    /\ visited = {}
    /\ pc = [n \in Nodes |-> "idle"]
    /\ idx = [n \in Nodes |-> 1]
    /\ owner = [n \in Nodes |-> Free]
    /\ done = [n \in Nodes |-> FALSE]
    /\ joined = FALSE

-----------------------------------------------------------------------------
(* The caller: Node.walk over every root with the unique visitor.  walk     *)
(* goes on to the children of a node whether or not the visitor ignored it. *)

\* A visitor that spawns a goroutine for a node unless one is running.
Spawn_IfNotRunning(n) ==
    /\ visited' = visited \cup {n}
    /\ IF pc[n] \in {"idle", "exited"}
       THEN pc' = [pc EXCEPT ![n] = "start"] /\ idx' = [idx EXCEPT ![n] = 1]
       ELSE UNCHANGED <<pc, idx>>

Spawn(n) ==
    /\ visited' = visited \cup {n}
    /\ IF n \in visited
       THEN UNCHANGED <<pc, idx>>
       ELSE Goto(n, "start") /\ UNCHANGED idx

Walk ==
    /\ todo # <<>>
    /\ Spawn(Head(todo))
    /\ todo' = Children[Head(todo)] \o Tail(todo)
    /\ UNCHANGED <<owner, done, joined>>

\* waitGroup.Wait() returns once every goroutine it counted has ended.
Join ==
    /\ todo = <<>>
    /\ ~joined
    /\ \A n \in visited : pc[n] = "exited"
    /\ joined' = TRUE
    /\ UNCHANGED <<todo, visited, pc, idx, owner, done>>

-----------------------------------------------------------------------------
(* The goroutine of node n.                                                *)

LockSelf(n) ==
    /\ pc[n] = "start"
    /\ Lock(n, n)
    /\ Goto(n, "loop")
    /\ UNCHANGED <<todo, visited, idx, done, joined>>

LockParent(n) ==
    /\ pc[n] = "loop"
    /\ idx[n] <= Len(Parents[n])
    /\ Lock(n, Awaited(n))
    /\ Goto(n, "check")
    /\ UNCHANGED <<todo, visited, idx, done, joined>>

\* A loop that stops at the first parent that is done.
ParentDone_Break(n) ==
    /\ pc[n] = "check"
    /\ done[Awaited(n)]
    /\ Unlock(Awaited(n))
    /\ idx' = [idx EXCEPT ![n] = Len(Parents[n]) + 1]
    /\ Goto(n, "loop")
    /\ UNCHANGED <<todo, visited, done, joined>>

\* parent.done: leave the inner loop and unlock the parent.
ParentDone(n) ==
    /\ pc[n] = "check"
    /\ done[Awaited(n)]
    /\ Unlock(Awaited(n))
    /\ idx' = [idx EXCEPT ![n] = @ + 1]
    /\ Goto(n, "loop")
    /\ UNCHANGED <<todo, visited, done, joined>>

ParentNotDone(n) ==
    /\ pc[n] = "check"
    /\ ~done[Awaited(n)]
    /\ Goto(n, "wait")
    /\ UNCHANGED <<todo, visited, idx, owner, done, joined>>

\* A wait that sleeps with the parent's mutex held.
Wait_KeepsLock(n) ==
    /\ pc[n] = "wait"
    /\ Goto(n, "asleep")
    /\ UNCHANGED <<todo, visited, idx, owner, done, joined>>

\* Cond.Wait: join the notify list, then unlock.  The goroutine is in the
\* list before the mutex is free, so the two are one step.
Wait(n) ==
    /\ pc[n] = "wait"
    /\ Unlock(Awaited(n))
    /\ Goto(n, "asleep")
    /\ UNCHANGED <<todo, visited, idx, done, joined>>

\* Cond.Wait locks the mutex again before it returns to the inner loop.
Relock(n) ==
    /\ pc[n] = "woken"
    /\ Lock(n, Awaited(n))
    /\ Goto(n, "check")
    /\ UNCHANGED <<todo, visited, idx, done, joined>>

BeginVisit(n) ==
    /\ pc[n] = "loop"
    /\ idx[n] > Len(Parents[n])
    /\ Goto(n, "visit")
    /\ UNCHANGED <<todo, visited, idx, owner, done, joined>>

\* The visitor returns: node.done = true.
EndVisit(n) ==
    /\ pc[n] = "visit"
    /\ done' = [done EXCEPT ![n] = TRUE]
    /\ Goto(n, "broadcast")
    /\ UNCHANGED <<todo, visited, idx, owner, joined>>

Broadcast(n) ==
    /\ pc[n] = "broadcast"
    /\ pc' = [m \in Nodes |->
                IF m = n THEN "unlock"
                ELSE IF m \in Waiters(n) THEN "woken" ELSE pc[m]]
    /\ UNCHANGED <<todo, visited, idx, owner, done, joined>>

Exit(n) ==
    /\ pc[n] = "unlock"
    /\ Unlock(n)
    /\ Goto(n, "exited")
    /\ UNCHANGED <<todo, visited, idx, done, joined>>

-----------------------------------------------------------------------------

Goroutine(n) ==
    \/ LockSelf(n)
    \/ LockParent(n)
    \/ ParentDone(n)
    \/ ParentNotDone(n)
    \/ Wait(n)
    \/ Relock(n)
    \/ BeginVisit(n)
    \/ EndVisit(n)
    \/ Broadcast(n)
    \/ Exit(n)

Caller == Walk \/ Join

\* WalkParallel has returned; the process goes on elsewhere.
Returned == joined /\ UNCHANGED vars

Next == Caller \/ (\E n \in Nodes : Goroutine(n)) \/ Returned

\* The Go scheduler runs every goroutine that can run, a mutex is handed over
\* in finite time, and a visitor returns (build and test commands end).
Fairness == WF_vars(Caller) /\ \A n \in Nodes : WF_vars(Goroutine(n))

Spec == Init /\ [][Next]_vars /\ Fairness

-----------------------------------------------------------------------------
(* Properties                                                              *)

\* dag.go:78: when the visitor runs on a node, every parent is completed,
\* however the goroutines were spawned and the mutexes handed over.
ParentsCompletedFirst ==
    \A n \in Nodes :
        pc[n] = "visit" => \A p \in ParentsOf(n) : done[p]

\* No wakeup is lost (dag.go:90-100): a goroutine that tested parent.done and
\* sleeps will still be notified, because the Broadcast of the node it sleeps
\* on is yet to come.  It rests on every goroutine holding its own mutex when
\* it sets done: a child cannot be between its test and its Wait then.
NoLostWakeup ==
    \A n \in Nodes :
        pc[n] = "asleep" => pc[Awaited(n)] \notin {"unlock", "exited"}

\* What a goroutine needs in order to take its next step.
CanStep(n) ==
    \/ pc[n] = "start" /\ owner[n] = Free
    \/ pc[n] = "loop" /\ (idx[n] > Len(Parents[n]) \/ owner[Awaited(n)] = Free)
    \/ pc[n] = "woken" /\ owner[Awaited(n)] = Free
    \/ pc[n] \in {"check", "wait", "visit", "broadcast", "unlock"}

\* Every goroutine holds its own mutex while it locks its parents' mutexes,
\* yet the goroutines never wait for each other in a circle: until every one
\* of them has ended, one can take a step or the caller can.
NeverStuck ==
    \/ todo # <<>>
    \/ \A n \in visited : pc[n] = "exited"
    \/ \E n \in Nodes : CanStep(n)

\* WalkParallel does not return before the visitor has returned on every node
\* of the graph: RebuildGraph closes the reports channel right after it.
ReturnsWhenAllDone ==
    joined => \A n \in Nodes : done[n]

\* The walk as its callers see it.
status ==
    [n \in Nodes |-> IF pc[n] = "visit" THEN "visiting"
                     ELSE IF done[n] THEN "visited" ELSE "waiting"]

Abstract == INSTANCE TopoWalk WITH status <- status

\* The goroutines, mutexes and condition variables implement the promise:
\* every node visited once, after its parents, and all of them eventually.
ImplementsTopoWalk == Abstract!Spec

=============================================================================
