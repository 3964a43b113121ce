------------------------- MODULE WalkParallelProofs -------------------------
(***************************************************************************)
(* Proofs about WalkParallel, for every finite DAG.                        *)
(***************************************************************************)
EXTENDS WalkParallel, TLAPS

\* The elements of a slice are its values at the indices 1..Len.
LEMMA ElementsOfSeq ==
    ASSUME NEW S, NEW s \in Seq(S)
    PROVE  Elements(s) = {s[i] : i \in 1..Len(s)}
BY DEF Elements

\* The element at a valid index of node.Parents() is a parent, and a node.
LEMMA ParentAt ==
    ASSUME NEW n \in Nodes, NEW i \in 1..Len(Parents[n])
    PROVE  Parents[n][i] \in Nodes /\ Parents[n][i] \in ParentsOf(n)
<1>1. Parents[n] \in Seq(Nodes)
    BY GraphType
<1>2. QED
    BY <1>1, ElementsOfSeq DEF ParentsOf

\* Every parent is met by the loop over node.Parents().
LEMMA ParentIndex ==
    ASSUME NEW n \in Nodes, NEW p \in ParentsOf(n)
    PROVE  \E i \in 1..Len(Parents[n]) : p = Parents[n][i]
<1>1. Parents[n] \in Seq(Nodes)
    BY GraphType
<1>2. QED
    BY <1>1, ElementsOfSeq DEF ParentsOf

\* The parents of an image are images of the graph.
LEMMA ParentsAreNodes == \A n \in Nodes : ParentsOf(n) \subseteq Nodes
<1>1. SUFFICES ASSUME NEW n \in Nodes, NEW p \in ParentsOf(n) PROVE p \in Nodes
    OBVIOUS
<1>2. PICK i \in 1..Len(Parents[n]) : p = Parents[n][i]
    BY ParentIndex
<1>3. QED
    BY <1>2, ParentAt

\* No image is its own parent.
LEMMA NotOwnParent ==
    ASSUME NEW n \in Nodes
    PROVE  n \notin ParentsOf(n)
<1>1. {n} \in SUBSET Nodes /\ {n} # {}
    OBVIOUS
<1>2. PICK m \in {n} : ParentsOf(m) \cap {n} = {}
    BY <1>1, Acyclic
<1>3. QED
    BY <1>2

\* The loop over node.Parents() runs over nodes other than the node itself.
LEMMA OtherParents ==
    /\ \A n \in Nodes : Len(Parents[n]) \in Nat
    /\ \A n \in Nodes : \A i \in 1..Len(Parents[n]) :
        Parents[n][i] \in Nodes /\ Parents[n][i] # n
<1>1. \A n \in Nodes : Len(Parents[n]) \in Nat
    BY GraphType
<1>2. ASSUME NEW n \in Nodes, NEW i \in 1..Len(Parents[n])
      PROVE  Parents[n][i] \in Nodes /\ Parents[n][i] # n
    BY ParentAt, NotOwnParent
<1>3. QED
    BY <1>1, <1>2

-----------------------------------------------------------------------------

\* A goroutine that has locked its own mutex and not unlocked it yet.
Holding == {"loop", "check", "wait", "asleep", "woken", "visit", "broadcast",
            "unlock"}

\* The inductive invariant, one conjunct per idea.

\* Goroutines are spawned for the nodes the unique visitor has stored.
SpawnedInv == \A n \in Nodes : pc[n] = "idle" <=> n \notin visited

\* The loop has waited for the parents before its position, and is inside its
\* body exactly at the labels that use Awaited(n).
LoopInv ==
    /\ \A n \in Nodes : \A i \in 1..(idx[n] - 1) : done[Parents[n][i]]
    /\ \A n \in Nodes :
        pc[n] \in {"check", "wait", "asleep", "woken"} => idx[n] <= Len(Parents[n])
    /\ \A n \in Nodes :
        pc[n] \in {"visit", "broadcast", "unlock", "exited"} => idx[n] = Len(Parents[n]) + 1

DoneInv ==
    \A n \in Nodes : done[n] <=> pc[n] \in {"broadcast", "unlock", "exited"}

\* Who holds the mutex of m: the goroutine of m, for its whole life, or the
\* goroutine of a child between its lock and its unlock or wait.
OwnerInv ==
    /\ \A m \in Nodes : owner[m] = m <=> pc[m] \in Holding
    /\ \A m, n \in Nodes :
        m # n => (owner[m] = n <=> pc[n] \in {"check", "wait"} /\ Awaited(n) = m)

\* The outcome of a test of parent.done stands while the parent's mutex is
\* held, and a goroutine stays in the notify list until the Broadcast.
TestInv == \A n \in Nodes : pc[n] = "wait" => ~done[Awaited(n)]

\* A node walk has not met yet is on its stack, or below nodes not met yet.
CoverInv ==
    \A n \in Nodes \ visited :
        \/ n \in Elements(todo)
        \/ ParentsOf(n) # {} /\ \A p \in ParentsOf(n) : p \notin visited

JoinInv == joined => todo = <<>> /\ \A n \in visited : pc[n] = "exited"

IInv ==
    /\ TypeOK
    /\ SpawnedInv
    /\ LoopInv
    /\ DoneInv
    /\ OwnerInv
    /\ TestInv
    /\ NoLostWakeup
    /\ CoverInv
    /\ JoinInv

-----------------------------------------------------------------------------
(* A lemma about the stack of walk.                                        *)

\* Replacing the head of the stack by the head's children loses nothing else.
LEMMA StackStep ==
    ASSUME NEW s \in Seq(Nodes), s # <<>>, NEW t \in Seq(Nodes)
    PROVE  /\ t \o Tail(s) \in Seq(Nodes)
           /\ Elements(t) \subseteq Elements(t \o Tail(s))
           /\ Elements(s) \subseteq Elements(t \o Tail(s)) \cup {Head(s)}
<1>1. Tail(s) \in Seq(Nodes) /\ t \o Tail(s) \in Seq(Nodes)
    OBVIOUS
<1>2. Len(t \o Tail(s)) = Len(t) + Len(s) - 1
    OBVIOUS
<1>3. ASSUME NEW i \in 1..Len(t)
      PROVE  t[i] \in Elements(t \o Tail(s))
    <2>1. (t \o Tail(s))[i] = t[i] /\ i \in 1..Len(t \o Tail(s))
        BY <1>1, <1>2
    <2>2. QED
        BY <2>1, <1>1, ElementsOfSeq
<1>4. ASSUME NEW i \in 2..Len(s)
      PROVE  s[i] \in Elements(t \o Tail(s))
    <2>1. Tail(s)[i - 1] = s[i] /\ i - 1 \in 1..Len(Tail(s))
        OBVIOUS
    <2>2. (t \o Tail(s))[Len(t) + (i - 1)] = s[i]
        BY <2>1, <1>1
    <2>3. Len(t) + (i - 1) \in 1..Len(t \o Tail(s))
        BY <1>2
    <2>4. QED
        BY <2>2, <2>3, <1>1, ElementsOfSeq
<1>5. Elements(t) = {t[i] : i \in 1..Len(t)}
    BY ElementsOfSeq
<1>6. Elements(s) = {s[i] : i \in 1..Len(s)}
    BY ElementsOfSeq
<1>7. ASSUME NEW i \in 1..Len(s)
      PROVE  s[i] \in Elements(t \o Tail(s)) \cup {Head(s)}
    <2>1. CASE i = 1
        BY <2>1
    <2>2. CASE i # 1
        BY <2>2, <1>4
    <2>3. QED
        BY <2>1, <2>2
<1>8. QED
    BY <1>1, <1>3, <1>5, <1>6, <1>7

-----------------------------------------------------------------------------
(* The inductive invariant.                                                *)

\* The invariant holds before the first step of the walk.
LEMMA IInvInit == Init => IInv
<1> SUFFICES ASSUME Init PROVE IInv
    OBVIOUS
<1>1. TypeOK
    <2>1. \A n \in Nodes : idx[n] = 1 /\ 1 <= Len(Parents[n]) + 1
        BY OtherParents DEF Init
    <2>2. todo \in Seq(Nodes)
        BY GraphType DEF Init
    <2>3. idx \in [Nodes -> Nat \ {0}] /\ owner \in [Nodes -> Nodes \cup {Free}]
        BY DEF Init
    <2>4. pc \in [Nodes -> PC] /\ done \in [Nodes -> BOOLEAN]
        BY DEF Init, PC
    <2>5. visited \in SUBSET Nodes /\ joined \in BOOLEAN
        BY DEF Init
    <2>6. QED
        BY <2>1, <2>2, <2>3, <2>4, <2>5 DEF TypeOK
<1>2. SpawnedInv /\ LoopInv /\ DoneInv /\ TestInv /\ NoLostWakeup /\ JoinInv
    BY DEF Init, SpawnedInv, LoopInv, DoneInv, TestInv, NoLostWakeup, JoinInv
<1>3. OwnerInv
    BY FreeAssumption DEF Init, OwnerInv, Holding
<1>4. CoverInv
    BY RootsAreParentless DEF Init, CoverInv
<1>5. QED
    BY <1>1, <1>2, <1>3, <1>4 DEF IInv

\* The steps of walk: a spawn, and the children pushed on the stack.
LEMMA WalkKeepsIInv == IInv /\ Walk => IInv'
<1> SUFFICES ASSUME IInv, Walk PROVE IInv'
    OBVIOUS
<1> USE DEF IInv, TypeOK
<1> DEFINE h == Head(todo)
<1>1. h \in Nodes /\ todo \in Seq(Nodes) /\ todo # <<>>
    BY DEF Walk
<1>2. Children[h] \in Seq(Nodes)
    BY <1>1, GraphType
<1>3. todo' = Children[h] \o Tail(todo) /\ visited' = visited \cup {h}
    BY DEF Walk, Spawn
<1>4. /\ todo' \in Seq(Nodes)
      /\ ChildrenOf(h) \subseteq Elements(todo')
      /\ Elements(todo) \subseteq Elements(todo') \cup {h}
    BY <1>1, <1>2, <1>3, StackStep DEF ChildrenOf
<1>5. TypeOK'
    BY <1>1, <1>4 DEF Walk, Spawn, Goto, PC
<1>6. SpawnedInv'
    BY <1>1 DEF SpawnedInv, Walk, Spawn, Goto
<1>7. UNCHANGED <<idx, owner, done>>
    BY DEF Walk, Spawn
<1>8. \A m \in Nodes : pc'[m] = pc[m] \/ (pc[m] = "idle" /\ pc'[m] = "start")
    BY <1>1 DEF SpawnedInv, Walk, Spawn, Goto
<1>9. LoopInv' /\ DoneInv' /\ TestInv'
    BY <1>7, <1>8 DEF LoopInv, DoneInv, TestInv, Awaited
<1>a. OwnerInv'
    BY <1>7, <1>8 DEF OwnerInv, Holding, Awaited
<1>b. NoLostWakeup'
    BY <1>7, <1>8, OtherParents DEF NoLostWakeup, LoopInv, Awaited
<1>10. CoverInv'
    <2>1. SUFFICES ASSUME NEW n \in Nodes \ visited', n \notin Elements(todo')
                   PROVE  ParentsOf(n) # {} /\ \A p \in ParentsOf(n) : p \notin visited'
        BY DEF CoverInv
    <2>2. n \notin visited /\ n # h /\ n \notin Elements(todo)
        BY <1>3, <1>4, <2>1
    <2>3. ParentsOf(n) # {} /\ \A p \in ParentsOf(n) : p \notin visited
        BY <2>2 DEF CoverInv
    <2>4. h \notin ParentsOf(n)
        BY <1>1, <1>4, <2>1, EdgesAgree
    <2>5. QED
        BY <1>3, <2>3, <2>4
<1>11. JoinInv'
    BY <1>1 DEF JoinInv, Walk
<1>12. QED
    BY <1>5, <1>6, <1>9, <1>a, <1>b, <1>10, <1>11

\* The return of waitGroup.Wait() and the stuttering steps.
LEMMA JoinKeepsIInv == IInv /\ (Join \/ UNCHANGED vars) => IInv'
<1> SUFFICES ASSUME IInv, Join \/ UNCHANGED vars PROVE IInv'
    OBVIOUS
<1>1. UNCHANGED <<todo, visited, pc, idx, owner, done>>
    BY DEF Join, vars
<1>2. joined' \in BOOLEAN /\ JoinInv'
    <2>1. CASE Join
        BY <1>1, <2>1 DEF JoinInv, Join
    <2>2. CASE UNCHANGED vars
        BY <2>2 DEF IInv, TypeOK, JoinInv, vars
    <2>3. QED
        BY <2>1, <2>2
<1>3. QED
    BY <1>1, <1>2 DEF IInv, TypeOK, SpawnedInv, LoopInv, DoneInv, OwnerInv,
        TestInv, NoLostWakeup, CoverInv, JoinInv, Awaited

\* What no step of a goroutine disturbs: the walk of the caller.
LEMMA GoroutineKeepsWalk ==
    ASSUME NEW n \in Nodes, IInv, Goroutine(n)
    PROVE  SpawnedInv' /\ CoverInv' /\ JoinInv'
<1> USE DEF IInv, TypeOK
<1>1. UNCHANGED <<todo, visited, joined>>
    BY DEF Goroutine, LockSelf, LockParent, ParentDone, ParentNotDone, Wait,
        Relock, BeginVisit, EndVisit, Broadcast, Exit
<1>2. pc[n] \notin {"idle", "exited"} /\ pc'[n] # "idle"
    BY DEF Goroutine, LockSelf, LockParent, ParentDone, ParentNotDone, Wait,
        Relock, BeginVisit, EndVisit, Broadcast, Exit, Goto
<1>3. \A m \in Nodes \ {n} : pc'[m] = pc[m] \/ (pc[m] = "asleep" /\ pc'[m] = "woken")
    <2>1. CASE Broadcast(n)
        BY <2>1 DEF Broadcast, Waiters
    <2>2. CASE ~Broadcast(n)
        BY <2>2 DEF Goroutine, LockSelf, LockParent, ParentDone, ParentNotDone,
            Wait, Relock, BeginVisit, EndVisit, Exit, Goto
    <2>3. QED
        BY <2>1, <2>2
<1>4. SpawnedInv'
    BY <1>1, <1>2, <1>3 DEF SpawnedInv
<1>5. CoverInv'
    BY <1>1 DEF CoverInv
<1>6. JoinInv'
    BY <1>1, <1>2, <1>3 DEF JoinInv, SpawnedInv
<1>7. QED
    BY <1>4, <1>5, <1>6


\* Locking its own mutex keeps the invariants of the goroutines.
LEMMA LockSelfKeeps ==
    ASSUME NEW n \in Nodes, IInv, LockSelf(n)
    PROVE  TypeOK' /\ LoopInv' /\ DoneInv' /\ OwnerInv' /\ TestInv' /\ NoLostWakeup'
<1> USE DEF IInv, TypeOK, LockSelf, Goto
<1>1. TypeOK'
    BY OtherParents DEF PC, Lock, Unlock, Awaited, LoopInv
<1>2. LoopInv'
    BY OtherParents DEF LoopInv, Awaited, Waiters
<1>3. DoneInv'
    BY DEF DoneInv, Waiters
<1>4. OwnerInv'
    BY OtherParents, FreeAssumption DEF OwnerInv, LoopInv, Holding, Awaited, Lock, Unlock, Waiters
<1>5. TestInv'
    BY OtherParents DEF TestInv, LoopInv, OwnerInv, Holding, Awaited, Waiters
<1>6. NoLostWakeup'
    BY OtherParents DEF NoLostWakeup, TestInv, DoneInv, LoopInv, Awaited, Waiters
<1>7. QED
    BY <1>1, <1>2, <1>3, <1>4, <1>5, <1>6

\* Locking the mutex of the next parent keeps the invariants of the goroutines.
LEMMA LockParentKeeps ==
    ASSUME NEW n \in Nodes, IInv, LockParent(n)
    PROVE  TypeOK' /\ LoopInv' /\ DoneInv' /\ OwnerInv' /\ TestInv' /\ NoLostWakeup'
<1> USE DEF IInv, TypeOK, LockParent, Goto
<1>1. TypeOK'
    BY OtherParents DEF PC, Lock, Unlock, Awaited, LoopInv
<1>2. LoopInv'
    BY OtherParents DEF LoopInv, Awaited, Waiters
<1>3. DoneInv'
    BY DEF DoneInv, Waiters
<1>4. OwnerInv'
    BY OtherParents, FreeAssumption DEF OwnerInv, LoopInv, Holding, Awaited, Lock, Unlock, Waiters
<1>5. TestInv'
    BY OtherParents DEF TestInv, LoopInv, OwnerInv, Holding, Awaited, Waiters
<1>6. NoLostWakeup'
    BY OtherParents DEF NoLostWakeup, TestInv, DoneInv, LoopInv, Awaited, Waiters
<1>7. QED
    BY <1>1, <1>2, <1>3, <1>4, <1>5, <1>6

\* Leaving the wait for a parent that is done keeps the invariants of the goroutines.
LEMMA ParentDoneKeeps ==
    ASSUME NEW n \in Nodes, IInv, ParentDone(n)
    PROVE  TypeOK' /\ LoopInv' /\ DoneInv' /\ OwnerInv' /\ TestInv' /\ NoLostWakeup'
<1> USE DEF IInv, TypeOK, ParentDone, Goto
<1>1. TypeOK'
    BY OtherParents DEF PC, Lock, Unlock, Awaited, LoopInv
<1>2. LoopInv'
    <2>1. idx[n] \in 1..Len(Parents[n]) /\ Len(Parents[n]) \in Nat
        BY OtherParents DEF LoopInv
    <2>2. \A i \in 1..idx[n] : done[Parents[n][i]]
        BY <2>1 DEF LoopInv, Awaited
    <2>3. idx'[n] - 1 = idx[n] /\ done' = done
        BY <2>1
    <2>4. \A m \in Nodes \ {n} : idx'[m] = idx[m] /\ pc'[m] = pc[m]
        OBVIOUS
    <2>5. \A m \in Nodes : \A i \in 1..(idx'[m] - 1) : done'[Parents[m][i]]
        <3>1. TAKE m \in Nodes
        <3>2. CASE m = n
            BY <2>2, <2>3, <3>2
        <3>3. CASE m # n
            BY <2>3, <2>4, <3>3 DEF LoopInv
        <3>4. QED
            BY <3>2, <3>3
    <2>6. pc'[n] = "loop"
        OBVIOUS
    <2>7. QED
        BY <2>4, <2>5, <2>6 DEF LoopInv
<1>3. DoneInv'
    BY DEF DoneInv, Waiters
<1>4. OwnerInv'
    BY OtherParents, FreeAssumption DEF OwnerInv, LoopInv, Holding, Awaited, Lock, Unlock, Waiters
<1>5. TestInv'
    BY OtherParents DEF TestInv, LoopInv, OwnerInv, Holding, Awaited, Waiters
<1>6. NoLostWakeup'
    BY OtherParents DEF NoLostWakeup, TestInv, DoneInv, LoopInv, Awaited, Waiters
<1>7. QED
    BY <1>1, <1>2, <1>3, <1>4, <1>5, <1>6

\* Finding a parent not done keeps the invariants of the goroutines.
LEMMA ParentNotDoneKeeps ==
    ASSUME NEW n \in Nodes, IInv, ParentNotDone(n)
    PROVE  TypeOK' /\ LoopInv' /\ DoneInv' /\ OwnerInv' /\ TestInv' /\ NoLostWakeup'
<1> USE DEF IInv, TypeOK, ParentNotDone, Goto
<1>1. TypeOK'
    BY OtherParents DEF PC, Lock, Unlock, Awaited, LoopInv
<1>2. LoopInv'
    BY OtherParents DEF LoopInv, Awaited, Waiters
<1>3. DoneInv'
    BY DEF DoneInv, Waiters
<1>4. OwnerInv'
    BY OtherParents, FreeAssumption DEF OwnerInv, LoopInv, Holding, Awaited, Lock, Unlock, Waiters
<1>5. TestInv'
    BY OtherParents DEF TestInv, LoopInv, OwnerInv, Holding, Awaited, Waiters
<1>6. NoLostWakeup'
    BY OtherParents DEF NoLostWakeup, TestInv, DoneInv, LoopInv, Awaited, Waiters
<1>7. QED
    BY <1>1, <1>2, <1>3, <1>4, <1>5, <1>6

\* Joining the notify list keeps the invariants of the goroutines.
LEMMA WaitKeeps ==
    ASSUME NEW n \in Nodes, IInv, Wait(n)
    PROVE  TypeOK' /\ LoopInv' /\ DoneInv' /\ OwnerInv' /\ TestInv' /\ NoLostWakeup'
<1> USE DEF IInv, TypeOK, Wait, Goto
<1>1. TypeOK'
    BY OtherParents DEF PC, Lock, Unlock, Awaited, LoopInv
<1>2. LoopInv'
    BY OtherParents DEF LoopInv, Awaited, Waiters
<1>3. DoneInv'
    BY DEF DoneInv, Waiters
<1>4. OwnerInv'
    BY OtherParents, FreeAssumption DEF OwnerInv, LoopInv, Holding, Awaited, Lock, Unlock, Waiters
<1>5. TestInv'
    BY OtherParents DEF TestInv, LoopInv, OwnerInv, Holding, Awaited, Waiters
<1>6. NoLostWakeup'
    BY OtherParents DEF NoLostWakeup, TestInv, DoneInv, LoopInv, Awaited, Waiters
<1>7. QED
    BY <1>1, <1>2, <1>3, <1>4, <1>5, <1>6

\* Locking again after a notification keeps the invariants of the goroutines.
LEMMA RelockKeeps ==
    ASSUME NEW n \in Nodes, IInv, Relock(n)
    PROVE  TypeOK' /\ LoopInv' /\ DoneInv' /\ OwnerInv' /\ TestInv' /\ NoLostWakeup'
<1> USE DEF IInv, TypeOK, Relock, Goto
<1>1. TypeOK'
    BY OtherParents DEF PC, Lock, Unlock, Awaited, LoopInv
<1>2. LoopInv'
    BY OtherParents DEF LoopInv, Awaited, Waiters
<1>3. DoneInv'
    BY DEF DoneInv, Waiters
<1>4. OwnerInv'
    BY OtherParents, FreeAssumption DEF OwnerInv, LoopInv, Holding, Awaited, Lock, Unlock, Waiters
<1>5. TestInv'
    BY OtherParents DEF TestInv, LoopInv, OwnerInv, Holding, Awaited, Waiters
<1>6. NoLostWakeup'
    BY OtherParents DEF NoLostWakeup, TestInv, DoneInv, LoopInv, Awaited, Waiters
<1>7. QED
    BY <1>1, <1>2, <1>3, <1>4, <1>5, <1>6

\* Calling the visitor keeps the invariants of the goroutines.
LEMMA BeginVisitKeeps ==
    ASSUME NEW n \in Nodes, IInv, BeginVisit(n)
    PROVE  TypeOK' /\ LoopInv' /\ DoneInv' /\ OwnerInv' /\ TestInv' /\ NoLostWakeup'
<1> USE DEF IInv, TypeOK, BeginVisit, Goto
<1>1. TypeOK'
    BY OtherParents DEF PC, Lock, Unlock, Awaited, LoopInv
<1>2. LoopInv'
    BY OtherParents DEF LoopInv, Awaited, Waiters
<1>3. DoneInv'
    BY DEF DoneInv, Waiters
<1>4. OwnerInv'
    BY OtherParents, FreeAssumption DEF OwnerInv, LoopInv, Holding, Awaited, Lock, Unlock, Waiters
<1>5. TestInv'
    BY OtherParents DEF TestInv, LoopInv, OwnerInv, Holding, Awaited, Waiters
<1>6. NoLostWakeup'
    BY OtherParents DEF NoLostWakeup, TestInv, DoneInv, LoopInv, Awaited, Waiters
<1>7. QED
    BY <1>1, <1>2, <1>3, <1>4, <1>5, <1>6

\* Setting done keeps the invariants of the goroutines.
LEMMA EndVisitKeeps ==
    ASSUME NEW n \in Nodes, IInv, EndVisit(n)
    PROVE  TypeOK' /\ LoopInv' /\ DoneInv' /\ OwnerInv' /\ TestInv' /\ NoLostWakeup'
<1> USE DEF IInv, TypeOK, EndVisit, Goto
<1>1. TypeOK'
    BY OtherParents DEF PC, Lock, Unlock, Awaited, LoopInv
<1>2. LoopInv'
    BY OtherParents DEF LoopInv, Awaited, Waiters
<1>3. DoneInv'
    BY DEF DoneInv, Waiters
<1>4. OwnerInv'
    BY OtherParents, FreeAssumption DEF OwnerInv, LoopInv, Holding, Awaited, Lock, Unlock, Waiters
<1>5. TestInv'
    BY OtherParents DEF TestInv, LoopInv, OwnerInv, Holding, Awaited, Waiters
<1>6. NoLostWakeup'
    BY OtherParents DEF NoLostWakeup, TestInv, DoneInv, LoopInv, Awaited, Waiters
<1>7. QED
    BY <1>1, <1>2, <1>3, <1>4, <1>5, <1>6

\* Notifying the children that wait keeps the invariants of the goroutines.
LEMMA BroadcastKeeps ==
    ASSUME NEW n \in Nodes, IInv, Broadcast(n)
    PROVE  TypeOK' /\ LoopInv' /\ DoneInv' /\ OwnerInv' /\ TestInv' /\ NoLostWakeup'
<1> USE DEF IInv, TypeOK, Broadcast, Goto
<1>1. TypeOK'
    BY OtherParents DEF PC, Lock, Unlock, Awaited, LoopInv
<1>2. LoopInv'
    BY OtherParents DEF LoopInv, Awaited, Waiters
<1>3. DoneInv'
    BY DEF DoneInv, Waiters
<1>4. OwnerInv'
    BY OtherParents, FreeAssumption DEF OwnerInv, LoopInv, Holding, Awaited, Lock, Unlock, Waiters
<1>5. TestInv'
    BY OtherParents DEF TestInv, LoopInv, OwnerInv, Holding, Awaited, Waiters
<1>6. NoLostWakeup'
    BY OtherParents DEF NoLostWakeup, TestInv, DoneInv, LoopInv, Awaited, Waiters
<1>7. QED
    BY <1>1, <1>2, <1>3, <1>4, <1>5, <1>6

\* The deferred unlock keeps the invariants of the goroutines.
LEMMA ExitKeeps ==
    ASSUME NEW n \in Nodes, IInv, Exit(n)
    PROVE  TypeOK' /\ LoopInv' /\ DoneInv' /\ OwnerInv' /\ TestInv' /\ NoLostWakeup'
<1> USE DEF IInv, TypeOK, Exit, Goto
<1>1. TypeOK'
    BY OtherParents DEF PC, Lock, Unlock, Awaited, LoopInv
<1>2. LoopInv'
    BY OtherParents DEF LoopInv, Awaited, Waiters
<1>3. DoneInv'
    BY DEF DoneInv, Waiters
<1>4. OwnerInv'
    BY OtherParents, FreeAssumption DEF OwnerInv, LoopInv, Holding, Awaited, Lock, Unlock, Waiters
<1>5. TestInv'
    BY OtherParents DEF TestInv, LoopInv, OwnerInv, Holding, Awaited, Waiters
<1>6. NoLostWakeup'
    BY OtherParents DEF NoLostWakeup, TestInv, DoneInv, LoopInv, Awaited, Waiters
<1>7. QED
    BY <1>1, <1>2, <1>3, <1>4, <1>5, <1>6

\* One step of one goroutine.
LEMMA GoroutineKeepsIInv ==
    ASSUME NEW n \in Nodes, IInv, Goroutine(n)
    PROVE  IInv'
<1>1. SpawnedInv' /\ CoverInv' /\ JoinInv'
    BY GoroutineKeepsWalk
<1>2. CASE LockSelf(n)
    BY <1>1, <1>2, LockSelfKeeps DEF IInv
<1>3. CASE LockParent(n)
    BY <1>1, <1>3, LockParentKeeps DEF IInv
<1>4. CASE ParentDone(n)
    BY <1>1, <1>4, ParentDoneKeeps DEF IInv
<1>5. CASE ParentNotDone(n)
    BY <1>1, <1>5, ParentNotDoneKeeps DEF IInv
<1>6. CASE Wait(n)
    BY <1>1, <1>6, WaitKeeps DEF IInv
<1>7. CASE Relock(n)
    BY <1>1, <1>7, RelockKeeps DEF IInv
<1>8. CASE BeginVisit(n)
    BY <1>1, <1>8, BeginVisitKeeps DEF IInv
<1>9. CASE EndVisit(n)
    BY <1>1, <1>9, EndVisitKeeps DEF IInv
<1>10. CASE Broadcast(n)
    BY <1>1, <1>10, BroadcastKeeps DEF IInv
<1>11. CASE Exit(n)
    BY <1>1, <1>11, ExitKeeps DEF IInv
<1>12. QED
    BY <1>2, <1>3, <1>4, <1>5, <1>6, <1>7, <1>8, <1>9, <1>10, <1>11 DEF Goroutine

\* The invariant is inductive: the conjuncts of IInv are what the properties
\* below need in order to be preserved by every interleaving.
THEOREM IInvInvariant == Spec => []IInv
<1>1. IInv /\ [Next]_vars => IInv'
    BY WalkKeepsIInv, JoinKeepsIInv, GoroutineKeepsIInv DEF Next, Caller, Returned
<1>2. QED
    BY IInvInit, <1>1, PTL DEF Spec

-----------------------------------------------------------------------------
(* What the invariant gives the callers of WalkParallel.                   *)

\* Every variable keeps its type: indices stay in the parents' slices and
\* mutexes are held by goroutines of the walk.
THEOREM TypeCorrect == Spec => []TypeOK
BY IInvInvariant, PTL DEF IInv

\* Before the visitor runs on a node, the visitor has returned on each of its
\* parents (dag.go:78), in every DAG and under every schedule.
THEOREM ParentsFirst == Spec => []ParentsCompletedFirst
<1>1. IInv => ParentsCompletedFirst
    <2>1. SUFFICES ASSUME IInv, NEW n \in Nodes, pc[n] = "visit", NEW p \in ParentsOf(n)
                   PROVE  done[p]
        BY DEF ParentsCompletedFirst
    <2>2. PICK i \in 1..Len(Parents[n]) : p = Parents[n][i]
        BY ParentIndex
    <2>3. idx[n] - 1 = Len(Parents[n])
        BY <2>1, OtherParents DEF IInv, LoopInv
    <2>4. QED
        BY <2>1, <2>2, <2>3 DEF IInv, LoopInv
<1>2. QED
    BY <1>1, IInvInvariant, PTL

\* No goroutine sleeps on a node whose Broadcast is over.
THEOREM WakeupsAreKept == Spec => []NoLostWakeup
BY IInvInvariant, PTL DEF IInv

\* When walk's stack is empty it has met every node of the graph.
LEMMA AllNodesMet ==
    ASSUME IInv, todo = <<>>
    PROVE  visited = Nodes
<1>1. Nodes \ visited \in SUBSET Nodes
    OBVIOUS
<1>2. SUFFICES ASSUME Nodes \ visited # {} PROVE FALSE
    BY DEF IInv, TypeOK
<1>3. PICK n \in Nodes \ visited : ParentsOf(n) \cap (Nodes \ visited) = {}
    BY <1>1, <1>2, Acyclic
<1>4. n \notin Elements(todo)
    BY DEF Elements
<1>5. PICK p \in ParentsOf(n) : p \notin visited
    BY <1>3, <1>4 DEF IInv, CoverInv
<1>6. p \in Nodes
    BY <1>3, ParentsAreNodes
<1>7. QED
    BY <1>3, <1>5, <1>6

\* WalkParallel never returns while a node is not done.
THEOREM ReturnImpliesDone == Spec => []ReturnsWhenAllDone
<1>1. IInv => ReturnsWhenAllDone
    BY AllNodesMet DEF IInv, JoinInv, DoneInv, ReturnsWhenAllDone
<1>2. QED
    BY <1>1, IInvInvariant, PTL

\* The goroutines of a DAG never block each other for good: take, among the
\* nodes whose goroutine has not ended, one whose parents' goroutines have.
\* It can step, or the holder of the mutex it needs can.
THEOREM DeadlockFree == Spec => []NeverStuck
<1>1. IInv => NeverStuck
    <2>1. SUFFICES ASSUME IInv, todo = <<>>, \E n \in visited : pc[n] # "exited"
                   PROVE  \E n \in Nodes : CanStep(n)
        BY DEF NeverStuck
    <2>2. visited = Nodes
        BY <2>1, AllNodesMet
    <2> DEFINE Alive == {n \in Nodes : pc[n] # "exited"}
    <2>3. PICK n \in Alive : ParentsOf(n) \cap Alive = {}
        BY <2>1, <2>2, Acyclic
    <2>4. n \in Nodes /\ pc[n] \in PC \ {"idle", "exited"}
        BY <2>1, <2>2, <2>3 DEF IInv, TypeOK, SpawnedInv
    <2>5. CASE pc[n] \in {"check", "wait", "visit", "broadcast", "unlock"}
        BY <2>4, <2>5 DEF CanStep
    <2>6. CASE pc[n] = "start"
        <3>1. CASE owner[n] = Free
            BY <2>4, <2>6, <3>1 DEF CanStep
        <3>2. CASE owner[n] # Free
            <4>1. PICK m \in Nodes : owner[n] = m
                BY <2>1, <2>4, <3>2 DEF IInv, TypeOK
            <4>2. m # n
                BY <2>1, <2>4, <2>6, <4>1 DEF IInv, OwnerInv, Holding
            <4>3. pc[m] \in {"check", "wait"}
                BY <2>1, <2>4, <4>1, <4>2 DEF IInv, OwnerInv
            <4>4. QED
                BY <4>3 DEF CanStep
        <3>3. QED
            BY <3>1, <3>2
    <2>7. CASE pc[n] = "loop" /\ idx[n] > Len(Parents[n])
        BY <2>4, <2>7 DEF CanStep
    <2>8. CASE pc[n] \in {"loop", "asleep", "woken"} /\ idx[n] <= Len(Parents[n])
        <3>1. idx[n] \in 1..Len(Parents[n])
            BY <2>1, <2>4, <2>8, OtherParents DEF IInv, TypeOK
        <3>2. Awaited(n) \in Nodes /\ Awaited(n) \in ParentsOf(n)
            BY <2>4, <3>1, ParentAt DEF Awaited
        <3>3. pc[Awaited(n)] = "exited"
            BY <2>3, <3>2
        <3>4. pc[n] # "asleep"
            BY <2>1, <2>4, <3>3 DEF IInv, NoLostWakeup
        <3>5. CASE owner[Awaited(n)] = Free
            BY <2>4, <2>8, <3>4, <3>5 DEF CanStep
        <3>6. CASE owner[Awaited(n)] # Free
            <4>1. PICK m \in Nodes : owner[Awaited(n)] = m
                BY <2>1, <3>2, <3>6 DEF IInv, TypeOK
            <4>2. m # Awaited(n)
                BY <2>1, <3>2, <3>3, <4>1 DEF IInv, OwnerInv, Holding
            <4>3. pc[m] \in {"check", "wait"}
                BY <2>1, <3>2, <4>1, <4>2 DEF IInv, OwnerInv
            <4>4. QED
                BY <4>3 DEF CanStep
        <3>7. QED
            BY <3>5, <3>6
    <2>9. pc[n] \in {"asleep", "woken"} => idx[n] <= Len(Parents[n])
        BY <2>1, <2>4 DEF IInv, LoopInv
    <2>10. idx[n] <= Len(Parents[n]) \/ idx[n] > Len(Parents[n])
        BY <2>1, <2>4, OtherParents DEF IInv, TypeOK
    <2>11. QED
        BY <2>4, <2>5, <2>6, <2>7, <2>8, <2>9, <2>10 DEF PC
<1>2. QED
    BY <1>1, IInvInvariant, PTL

\* The refinement, safety part: read through status, the walk starts where
\* TopoWalk starts and each of its steps is a step of TopoWalk or a stutter.
\* In particular a node is visited once (dag.go:69, createUniqueVisitor).
THEOREM ImplementsTopoWalkSafety ==
    Spec => Abstract!Init /\ [][Abstract!Next]_status
<1>1. Init => Abstract!Init
    BY DEF Init, Abstract!Init, status
<1>2. IInv /\ ParentsCompletedFirst /\ ParentsCompletedFirst' /\ [Next]_vars
        => [Abstract!Next]_status
    <2> SUFFICES ASSUME IInv, ParentsCompletedFirst', [Next]_vars
                 PROVE  [Abstract!Next]_status
        OBVIOUS
    <2>1. CASE Caller \/ UNCHANGED vars
        <3>1. done' = done /\ \A n \in Nodes : pc'[n] = "visit" <=> pc[n] = "visit"
            BY <2>1 DEF Caller, Walk, Spawn, Goto, Join, vars, IInv, TypeOK, SpawnedInv
        <3>2. QED
            BY <3>1 DEF status
    <2>2. ASSUME NEW n \in Nodes, Goroutine(n)
          PROVE  [Abstract!Next]_status
        <3> USE DEF IInv, TypeOK, Goto
        <3>1. CASE BeginVisit(n)
            <4>1. pc'[n] = "visit" /\ pc[n] = "loop" /\ done' = done
                BY <3>1 DEF BeginVisit
            <4>2. \A m \in Nodes \ {n} : pc'[m] = pc[m]
                BY <3>1 DEF BeginVisit
            <4>3. \A p \in ParentsOf(n) : p \in Nodes /\ done[p]
                <5>1. \A p \in ParentsOf(n) : done'[p]
                    BY <4>1 DEF ParentsCompletedFirst
                <5>2. \A p \in ParentsOf(n) : p \in Nodes
                    BY ParentsAreNodes
                <5>3. QED
                    BY <4>1, <5>1, <5>2
            <4>4. ~done[n] /\ \A m \in Nodes : pc[m] = "visit" => ~done[m]
                BY <4>1 DEF DoneInv
            <4>5. status[n] = "waiting" /\ \A p \in ParentsOf(n) : status[p] = "visited"
                BY <4>1, <4>3, <4>4 DEF status
            <4>6. status' = [status EXCEPT ![n] = "visiting"]
                BY <4>1, <4>2, <4>4 DEF status
            <4>7. QED
                BY <4>5, <4>6 DEF Abstract!Next, Abstract!Visit,
                    Abstract!ParentsVisited, Abstract!ParentsOf, Abstract!Elements,
                    ParentsOf, Elements
        <3>2. CASE EndVisit(n)
            <4>1. pc[n] = "visit" /\ pc'[n] = "broadcast" /\ done'[n]
                BY <3>2 DEF EndVisit
            <4>2. \A m \in Nodes \ {n} : pc'[m] = pc[m] /\ done'[m] = done[m]
                BY <3>2 DEF EndVisit
            <4>3. status[n] = "visiting"
                BY <4>1 DEF status, DoneInv
            <4>4. status' = [status EXCEPT ![n] = "visited"]
                BY <4>1, <4>2 DEF status
            <4>5. QED
                BY <4>3, <4>4 DEF Abstract!Next, Abstract!Leave
        <3>3. CASE ~BeginVisit(n) /\ ~EndVisit(n)
            <4>1. done' = done
                BY <2>2, <3>3 DEF Goroutine, LockSelf, LockParent, ParentDone,
                    ParentNotDone, Wait, Relock, Broadcast, Exit
            <4>2. \A m \in Nodes : pc'[m] = "visit" <=> pc[m] = "visit"
                <5>1. CASE Broadcast(n)
                    BY <5>1 DEF Broadcast, Waiters
                <5>2. CASE ~Broadcast(n)
                    BY <2>2, <3>3, <5>2 DEF Goroutine, LockSelf, LockParent,
                        ParentDone, ParentNotDone, Wait, Relock, Exit
                <5>3. QED
                    BY <5>1, <5>2
            <4>3. QED
                BY <4>1, <4>2 DEF status
        <3>4. QED
            BY <3>1, <3>2, <3>3
    <2>3. QED
        BY <2>1, <2>2 DEF Next, Returned
<1>3. QED
    BY <1>1, <1>2, IInvInvariant, ParentsFirst, PTL DEF Spec

=============================================================================
