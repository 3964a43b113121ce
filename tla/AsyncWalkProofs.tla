-------------------------- MODULE AsyncWalkProofs --------------------------
(***************************************************************************)
(* Proofs about AsyncWalk and about Plan and Retag, which walk that way,   *)
(* for every graph and its tree of calls.                                  *)
(***************************************************************************)
EXTENDS Plan, Retag, TLAPS

\* The elements of a slice are its values at the indices 1..Len.
LEMMA ElementsOfSeq ==
    ASSUME NEW S, NEW s \in Seq(S)
    PROVE  Elements(s) = {s[i] : i \in 1..Len(s)}
BY DEF Elements

\* The parents of an image are images of the graph.
LEMMA ParentsAreNodes == \A n \in Nodes : ParentsOf(n) \subseteq Nodes
BY GraphType DEF ParentsOf, Elements

-----------------------------------------------------------------------------

\* How a call and its visitor go together, and what a call that has returned
\* leaves behind.
CallsInv ==
    \A c \in Calls :
        /\ call[c] \in {"none", "spawned"} <=> visitor[c] = "none"
        /\ call[c] \in {"none", "spawned"} => \A s \in SubCalls[c] : call[s] = "none"
        /\ call[c] = "returned" => GroupEnded(c)
        /\ call[c] = "returned" /\ c \in failed => Callers(c) \subseteq failed

\* What an entry of the sync.Map stands for.
VisitedInv ==
    /\ \A c \in Calls : visitor[c] = "ignored" => NodeOf[c] \in visited
    /\ \A n \in visited :
        \E c \in Calls : NodeOf[c] = n /\ visitor[c] \in {"visit", "returned"}

\* What WalkAsyncErr has seen of the root calls when it returns.
ResultInv ==
    /\ result # "none" => \A c \in RootCalls : call[c] = "returned"
    /\ result = "ok" => RootCalls \cap failed = {}

WalkInv == WalkTypeOK /\ CallsInv /\ VisitedInv /\ ResultInv

-----------------------------------------------------------------------------
(* Lemmas about the calls.                                                 *)

\* A call is made on a child of the node its caller was made on.
LEMMA CallerIsParent ==
    ASSUME NEW c \in Calls, NEW d \in Calls, c \in SubCalls[d]
    PROVE  NodeOf[d] \in ParentsOf(NodeOf[c])
<1>1. NodeOf[c] \in ChildrenOf(NodeOf[d])
    BY CallsFollowGraph
<1>2. QED
    BY <1>1, CallsType, EdgesAgree

\* A call WalkAsyncErr does not make has a caller.
LEMMA HasACaller ==
    ASSUME NEW c \in Calls \ RootCalls
    PROVE  Callers(c) # {}
BY CallsAreATree DEF Callers

\* In any set of calls, one is a root's or its caller is outside the set: the
\* calls of callers go up an acyclic graph.
LEMMA TopCall ==
    ASSUME NEW U \in SUBSET Calls, U # {}
    PROVE  \E c \in U : c \in RootCalls \/ \E d \in Callers(c) : d \notin U
<1> DEFINE S == {NodeOf[c] : c \in U}
<1>1. S \in SUBSET Nodes /\ S # {}
    BY CallsType
<1>2. PICK n \in S : ParentsOf(n) \cap S = {}
    BY <1>1, Acyclic
<1>3. PICK c \in U : NodeOf[c] = n
    BY <1>2
<1>4. CASE c \in RootCalls
    BY <1>4
<1>5. CASE c \notin RootCalls
    <2>1. PICK d \in Callers(c) : TRUE
        BY <1>5, HasACaller
    <2>2. d \in Calls /\ NodeOf[d] \in ParentsOf(n)
        BY <1>3, <2>1, CallerIsParent DEF Callers
    <2>3. d \notin U
        BY <1>2, <2>2
    <2>4. QED
        BY <2>1, <2>3
<1>6. QED
    BY <1>4, <1>5

\* Every node is walked.
LEMMA EveryNodeCalled ==
    ASSUME NEW n \in Nodes
    PROVE  \E c \in Calls : NodeOf[c] = n
<1> DEFINE S == {m \in Nodes : \A c \in Calls : NodeOf[c] # m}
<1>1. SUFFICES ASSUME S # {} PROVE FALSE
    OBVIOUS
<1>2. PICK m \in S : ParentsOf(m) \cap S = {}
    BY <1>1, Acyclic
<1>3. CASE ParentsOf(m) = {}
    <2>1. m \in Elements(Roots)
        BY <1>2, <1>3, RootsAreParentless
    <2>2. m \in {NodeOf[c] : c \in RootCalls}
        BY <2>1, CallsFollowGraph
    <2>3. QED
        BY <1>2, <2>2, CallsType
<1>4. CASE ParentsOf(m) # {}
    <2>1. PICK p \in ParentsOf(m) : TRUE
        BY <1>4
    <2>2. p \in Nodes /\ p \notin S
        BY <1>2, <2>1, ParentsAreNodes
    <2>3. PICK c \in Calls : NodeOf[c] = p
        BY <2>2
    <2>4. m \in ChildrenOf(NodeOf[c])
        BY <2>1, <2>2, <2>3, EdgesAgree
    <2>5. m \in {NodeOf[s] : s \in SubCalls[c]}
        BY <2>4, CallsFollowGraph
    <2>6. QED
        BY <1>2, <2>5, CallsType
<1>5. QED
    BY <1>3, <1>4

\* When the calls on the roots have returned, all of them have: one that has
\* not would have a caller that has not.
LEMMA AllReturned ==
    ASSUME WalkInv, \A c \in RootCalls : call[c] = "returned"
    PROVE  \A c \in Calls : call[c] = "returned" /\ VisitorEnded(c)
<1> DEFINE U == {c \in Calls : call[c] # "returned"}
<1>1. U = {}
    <2>1. SUFFICES ASSUME U # {} PROVE FALSE
        OBVIOUS
    <2>2. PICK c \in U : c \in RootCalls \/ \E d \in Callers(c) : d \notin U
        BY <2>1, TopCall
    <2>3. PICK d \in Calls : c \in SubCalls[d] /\ call[d] = "returned"
        BY <2>2 DEF Callers
    <2>4. GroupEnded(d)
        BY <2>3 DEF WalkInv, CallsInv
    <2>5. QED
        BY <2>2, <2>3, <2>4 DEF GroupEnded
<1>2. QED
    BY <1>1 DEF WalkInv, CallsInv, GroupEnded

-----------------------------------------------------------------------------
(* The inductive invariant of the walk.                                    *)

\* The invariant holds when the roots' goroutines are spawned.
LEMMA WalkInvInit == WalkInit => WalkInv
<1> SUFFICES ASSUME WalkInit PROVE WalkInv
    OBVIOUS
<1>1. \A c \in Calls : \A s \in SubCalls[c] : s \in Calls /\ s \notin RootCalls
    BY CallsType, CallsAreATree DEF Callers
<1>2. WalkTypeOK /\ VisitedInv /\ ResultInv
    BY CallsType DEF WalkInit, WalkTypeOK, VisitedInv, ResultInv
<1>3. CallsInv
    BY <1>1 DEF WalkInit, CallsInv
<1>4. QED
    BY <1>2, <1>3 DEF WalkInv

\* Nothing moves once WalkAsyncErr has returned.
LEMMA StillAfterReturn ==
    ASSUME WalkInv, NEW c \in Calls,
           call[c] # "returned" \/ ~VisitorEnded(c)
    PROVE  result = "none"
BY AllReturned DEF WalkInv, ResultInv, WalkTypeOK

\* A goroutine that starts keeps the invariant: it alone calls its children.
LEMMA StartKeeps ==
    ASSUME WalkInv, NEW c \in Calls, Start(c)
    PROVE  WalkInv'
<1>1. result = "none" /\ result' = "none"
    BY StillAfterReturn DEF Start
<1>2. /\ call[c] = "spawned" /\ visitor[c] = "none"
      /\ visitor' = [visitor EXCEPT ![c] = "load"]
      /\ visited' = visited /\ failed' = failed
    BY DEF Start, WalkInv, CallsInv
<1>3. \A s \in SubCalls[c] : s \in Calls /\ call[s] = "none" /\ s # c
    BY <1>2, CallsType DEF WalkInv, CallsInv
<1>4. /\ call'[c] = "waiting"
      /\ \A d \in SubCalls[c] : call'[d] = "spawned"
      /\ \A d \in Calls : d # c /\ d \notin SubCalls[c] => call'[d] = call[d]
      /\ call' \in [Calls -> {"none", "spawned", "waiting", "returned"}]
    BY <1>3 DEF Start, WalkInv, WalkTypeOK
<1>5. /\ visitor'[c] = "load"
      /\ \A d \in Calls : d # c => visitor'[d] = visitor[d]
      /\ visitor' \in [Calls -> {"none", "load", "store", "visit", "ignored", "returned"}]
    BY <1>2 DEF WalkInv, WalkTypeOK
<1>6. WalkTypeOK'
    BY <1>1, <1>2, <1>4, <1>5 DEF WalkInv, WalkTypeOK
<1>7. \A d \in Calls : call[d] = "returned" => \A s \in SubCalls[d] : s # c /\ s \notin SubCalls[c]
    BY <1>2, <1>3 DEF WalkInv, CallsInv, GroupEnded
<1>8. \A d \in Calls : d # c => \A s \in SubCalls[d] : s \notin SubCalls[c]
    <2>1. SUFFICES ASSUME NEW d \in Calls, d # c, NEW s \in SubCalls[d], s \in SubCalls[c]
                   PROVE  FALSE
        OBVIOUS
    <2>2. s \in Calls /\ {c, d} \subseteq Callers(s)
        BY <2>1, <1>3 DEF Callers
    <2>3. QED
        BY <2>1, <2>2, CallsAreATree DEF Callers
<1>9. CallsInv'
    <2>1. SUFFICES ASSUME NEW d \in Calls
                   PROVE  /\ call'[d] \in {"none", "spawned"} <=> visitor'[d] = "none"
                          /\ call'[d] \in {"none", "spawned"} =>
                                \A s \in SubCalls[d] : call'[s] = "none"
                          /\ call'[d] = "returned" => GroupEnded(d)'
                          /\ call'[d] = "returned" /\ d \in failed' => Callers(d) \subseteq failed'
        BY DEF CallsInv
    <2>2. SubCalls[d] \subseteq Calls
        BY CallsType
    <2>3. call'[d] \in {"none", "spawned"} <=> visitor'[d] = "none"
        BY <1>2, <1>3, <1>4, <1>5 DEF WalkInv, CallsInv
    <2>4. call'[d] \in {"none", "spawned"} => \A s \in SubCalls[d] : call'[s] = "none"
        <3>1. SUFFICES ASSUME call'[d] \in {"none", "spawned"}, NEW s \in SubCalls[d]
                       PROVE  call'[s] = "none"
            OBVIOUS
        <3>2. d # c /\ call[d] \in {"none", "spawned"}
            BY <3>1, <1>3, <1>4
        <3>3. call[s] = "none" /\ s # c /\ s \notin SubCalls[c]
            BY <3>1, <3>2, <1>2, <1>8 DEF WalkInv, CallsInv
        <3>4. QED
            BY <2>2, <3>3, <1>4
    <2>5. call'[d] = "returned" =>
            /\ d # c /\ call[d] = "returned"
            /\ \A s \in SubCalls[d] : call'[s] = call[s]
        BY <2>2, <1>3, <1>4, <1>7
    <2>6. call'[d] = "returned" => GroupEnded(d)'
        BY <2>5, <1>5 DEF WalkInv, CallsInv, GroupEnded, VisitorEnded
    <2>7. QED
        BY <2>3, <2>4, <2>5, <2>6, <1>2 DEF WalkInv, CallsInv
<1>10. VisitedInv'
    BY <1>2, <1>5 DEF WalkInv, VisitedInv
<1>11. QED
    BY <1>1, <1>6, <1>9, <1>10 DEF WalkInv, ResultInv

\* Looking a node up, recording it and visiting it keep the invariant.
LEMMA VisitorKeeps ==
    ASSUME WalkInv, NEW c \in Calls,
           Load(c) \/ Store(c) \/ (\E err \in BOOLEAN : EndVisit(c, err))
    PROVE  WalkInv'
<1>1. /\ visitor[c] \in {"load", "store", "visit"}
      /\ call' = call /\ result' = result
    BY DEF Load, Store, EndVisit
<1>2. result = "none" /\ ~VisitorEnded(c)
    BY <1>1, StillAfterReturn DEF VisitorEnded
<1>3. /\ visitor'[c] \in {"store", "visit", "ignored", "returned"}
      /\ \A d \in Calls : d # c => visitor'[d] = visitor[d]
      /\ visitor' \in [Calls -> {"none", "load", "store", "visit", "ignored", "returned"}]
    BY DEF Load, Store, EndVisit, WalkInv, WalkTypeOK
<1>4. NodeOf[c] \in Nodes
    BY CallsType
<1>5. failed \subseteq failed' /\ failed' \subseteq failed \cup {c}
    BY DEF Load, Store, EndVisit
<1>6. WalkTypeOK'
    BY <1>1, <1>3, <1>4, <1>5 DEF Load, Store, EndVisit, WalkInv, WalkTypeOK
<1>7. call[c] # "returned"
    BY <1>2 DEF WalkInv, CallsInv, GroupEnded
<1>8. CallsInv'
    BY <1>1, <1>2, <1>3, <1>5, <1>7 DEF WalkInv, CallsInv, GroupEnded, VisitorEnded
<1>9. VisitedInv'
    <2>1. CASE Load(c)
        BY <2>1, <1>3 DEF Load, WalkInv, VisitedInv
    <2>2. CASE Store(c)
        BY <2>2, <1>3, <1>4 DEF Store, WalkInv, WalkTypeOK, VisitedInv
    <2>3. CASE \E err \in BOOLEAN : EndVisit(c, err)
        BY <2>3, <1>3 DEF EndVisit, WalkInv, WalkTypeOK, VisitedInv
    <2>4. QED
        BY <2>1, <2>2, <2>3
<1>10. ResultInv'
    BY <1>1, <1>2 DEF ResultInv
<1>11. QED
    BY <1>6, <1>8, <1>9, <1>10 DEF WalkInv

\* A group that ends passes its error on.
LEMMA ReturnKeeps ==
    ASSUME WalkInv, NEW c \in Calls, Return(c)
    PROVE  WalkInv'
<1>1. /\ call[c] = "waiting" /\ GroupEnded(c) /\ visitor' = visitor /\ visited' = visited
      /\ result' = result
    BY DEF Return
<1>2. result = "none"
    BY <1>1, StillAfterReturn
<1>3. /\ call'[c] = "returned"
      /\ \A d \in Calls : d # c => call'[d] = call[d]
      /\ call' \in [Calls -> {"none", "spawned", "waiting", "returned"}]
    BY DEF Return, WalkInv, WalkTypeOK
<1>4. /\ failed' = IF c \in failed THEN failed \cup Callers(c) ELSE failed
      /\ Callers(c) \subseteq Calls
    BY DEF Return, Callers
<1>5. WalkTypeOK'
    BY <1>1, <1>3, <1>4 DEF WalkInv, WalkTypeOK
<1>6. \A d \in Callers(c) : d \in Calls /\ call[d] = "waiting" /\ d # c
    <2>1. SUFFICES ASSUME NEW d \in Calls, c \in SubCalls[d]
                   PROVE  call[d] = "waiting" /\ d # c
        BY DEF Callers
    <2>2. call[d] \notin {"none", "spawned", "returned"}
        BY <1>1, <2>1 DEF WalkInv, CallsInv, GroupEnded
    <2>3. d # c
        BY <1>1, <2>1 DEF GroupEnded
    <2>4. QED
        BY <2>2, <2>3 DEF WalkInv, WalkTypeOK
<1>7. CallsInv'
    <2>1. SUFFICES ASSUME NEW d \in Calls
                   PROVE  /\ call'[d] \in {"none", "spawned"} <=> visitor'[d] = "none"
                          /\ call'[d] \in {"none", "spawned"} =>
                                \A s \in SubCalls[d] : call'[s] = "none"
                          /\ call'[d] = "returned" => GroupEnded(d)'
                          /\ call'[d] = "returned" /\ d \in failed' => Callers(d) \subseteq failed'
        BY DEF CallsInv
    <2>2. SubCalls[d] \subseteq Calls
        BY CallsType
    <2>3. /\ call'[d] \in {"none", "spawned"} <=> visitor'[d] = "none"
          /\ call'[d] \in {"none", "spawned"} => \A s \in SubCalls[d] : call'[s] = "none"
        BY <1>1, <1>3, <2>2 DEF WalkInv, CallsInv
    <2>4. call'[d] = "returned" => GroupEnded(d)'
        BY <1>1, <1>3, <2>2 DEF WalkInv, CallsInv, GroupEnded, VisitorEnded
    <2>5. call'[d] = "returned" /\ d \in failed' => Callers(d) \subseteq failed'
        <3>1. CASE d = c
            BY <3>1, <1>4, <1>6
        <3>2. CASE d # c
            BY <3>2, <1>3, <1>4, <1>6 DEF WalkInv, CallsInv
        <3>3. QED
            BY <3>1, <3>2
    <2>6. QED
        BY <2>3, <2>4, <2>5
<1>8. QED
    BY <1>1, <1>2, <1>5, <1>7 DEF WalkInv, VisitedInv, ResultInv

\* WalkAsyncErr returning, and stuttering, keep the invariant.
LEMMA EndKeeps == WalkInv /\ (EndWalk \/ UNCHANGED walkVars) => WalkInv'
<1>1. ASSUME WalkInv, EndWalk
      PROVE  WalkInv'
    BY <1>1 DEF EndWalk, WalkInv, WalkTypeOK, CallsInv, VisitedInv, ResultInv, GroupEnded, VisitorEnded
<1>2. ASSUME WalkInv, UNCHANGED walkVars
      PROVE  WalkInv'
    BY <1>2 DEF walkVars, WalkInv, WalkTypeOK, CallsInv, VisitedInv, ResultInv, GroupEnded, VisitorEnded
<1>3. QED
    BY <1>1, <1>2

\* The invariant is inductive.
THEOREM WalkInvariant == WalkSpec => []WalkInv
<1>1. WalkInv /\ [WalkNext]_walkVars => WalkInv'
    BY StartKeeps, VisitorKeeps, ReturnKeeps, EndKeeps
        DEF WalkNext, WalkGoroutine, Around, WalkReturned
<1>2. QED
    BY WalkInvInit, <1>1, PTL DEF WalkSpec

-----------------------------------------------------------------------------
(* What WalkAsyncErr gives its callers.                                    *)

\* Every variable keeps its type.
THEOREM WalkTypeCorrect == WalkSpec => []WalkTypeOK
BY WalkInvariant, PTL DEF WalkInv

\* WalkAsyncErr leaves no goroutine behind (dag.go:65, node.go:92).
THEOREM NothingLeftRunning == WalkSpec => []NothingRunsAfterReturn
<1>1. WalkInv => NothingRunsAfterReturn
    BY AllReturned DEF WalkInv, ResultInv, NothingRunsAfterReturn
<1>2. QED
    BY <1>1, WalkInvariant, PTL

\* When WalkAsyncErr returns, each node has had its visit.
LEMMA AllVisited == WalkInv => EveryNodeVisited
<1>1. ASSUME WalkInv, result # "none", NEW n \in Nodes
      PROVE  \E c \in Calls : NodeOf[c] = n /\ visitor[c] = "returned"
    <2>1. \A c \in Calls : visitor[c] \in {"ignored", "returned"}
        BY <1>1, AllReturned DEF WalkInv, ResultInv, VisitorEnded
    <2>2. PICK c \in Calls : NodeOf[c] = n
        BY EveryNodeCalled
    <2>3. CASE visitor[c] = "returned"
        BY <2>2, <2>3
    <2>4. CASE visitor[c] = "ignored"
        <3>1. n \in visited
            BY <1>1, <2>2, <2>4 DEF WalkInv, VisitedInv
        <3>2. QED
            BY <1>1, <2>1, <3>1 DEF WalkInv, VisitedInv
    <2>5. QED
        BY <2>1, <2>3, <2>4
<1>2. QED
    BY <1>1 DEF EveryNodeVisited

\* The races of createUniqueVisitorErr never leave a node without a visit.
THEOREM NoNodeForgotten == WalkSpec => []EveryNodeVisited
BY AllVisited, WalkInvariant, PTL

\* When WalkAsyncErr returns nil, no group has recorded an error.
LEMMA NoErrorLeft == WalkInv => NoErrorLost
<1>1. ASSUME WalkInv, result = "ok", failed # {}
      PROVE  FALSE
    <2>1. \A c \in Calls : call[c] = "returned"
        BY <1>1, AllReturned DEF WalkInv, ResultInv
    <2>2. failed \in SUBSET Calls
        BY <1>1 DEF WalkInv, WalkTypeOK
    <2>3. PICK c \in failed : c \in RootCalls \/ \E d \in Callers(c) : d \notin failed
        BY <1>1, <2>2, TopCall
    <2>4. c \notin RootCalls
        BY <1>1, <2>3 DEF WalkInv, ResultInv
    <2>5. Callers(c) \subseteq failed
        BY <1>1, <2>1, <2>2, <2>3 DEF WalkInv, CallsInv
    <2>6. QED
        BY <2>3, <2>4, <2>5
<1>2. QED
    BY <1>1 DEF NoErrorLost

\* An error of any visitor, on any path, reaches the caller of WalkAsyncErr.
THEOREM ErrorsReachTheCaller == WalkSpec => []NoErrorLost
BY NoErrorLeft, WalkInvariant, PTL

-----------------------------------------------------------------------------
(* The inductive invariant of Plan.                                        *)

\* The answers are of the registry, as it was then or is now.
AnswersInv ==
    /\ before \subseteq tags
    /\ \A c \in Calls :
        /\ answer[c] = TRUE => NodeOf[c] \in tags
        /\ NodeOf[c] \in before => answer[c] # FALSE
        /\ visitor[c] = "returned" => c \in failed \/ refExistsMap[NodeOf[c]] # Absent
    /\ \A n \in Nodes :
        /\ refExistsMap[n] = TRUE => n \in tags
        /\ n \in before => refExistsMap[n] # FALSE

\* The sequential walks start when WalkAsyncErr has returned nil, unless there is
\* nothing to ask.
PhasesInv ==
    /\ phase = "exists" => seen = {}
    /\ phase \in {"check", "tests"} \/ (phase = "done" /\ ~force) => result = "ok"
    /\ phase = "force" => force

\* What a sequential walk has still to enter: the roots, and the children of the
\* nodes it has entered.
ToEnterInv ==
    /\ Elements(Roots) \subseteq seen \cup Elements(todo)
    /\ \A n \in seen : ChildrenOf(n) \subseteq seen \cup Elements(todo)

\* What is decided for the images a walk has seen.
DecidedInv ==
    /\ phase = "force" => \A n \in seen : needsRebuild[n]
    /\ phase = "check" => \A n \in seen : needsRebuild[n] \/ n \in tags
    /\ phase \in {"tests", "done"} => \A n \in Nodes : needsRebuild[n] \/ n \in tags
    /\ ~force => \A n \in before : ~needsRebuild[n]

PlanInv ==
    /\ WalkInv
    /\ PlanTypeOK
    /\ AnswersInv
    /\ PhasesInv
    /\ ToEnterInv
    /\ DecidedInv

-----------------------------------------------------------------------------
(* The steps of Plan.                                                      *)

\* Entering a node replaces it by its children.
LEMMA EnterElements ==
    ASSUME todo \in Seq(Nodes), todo # <<>>, Enter
    PROVE  /\ Node \in Nodes /\ todo' \in Seq(Nodes)
           /\ Elements(todo) = {Node} \cup Elements(Tail(todo))
           /\ Elements(todo') = ChildrenOf(Node) \cup Elements(Tail(todo))
<1>1. /\ Node \in Nodes /\ Tail(todo) \in Seq(Nodes) /\ Children[Node] \in Seq(Nodes)
      /\ Node = todo[1] /\ Len(todo) >= 1 /\ Len(Tail(todo)) = Len(todo) - 1
      /\ \A i \in 1..Len(Tail(todo)) : Tail(todo)[i] = todo[i + 1]
    BY GraphType DEF Node
<1>2. todo' = Children[Node] \o Tail(todo) /\ todo' \in Seq(Nodes)
    BY <1>1 DEF Enter
<1>3. Elements(todo) = {Node} \cup Elements(Tail(todo))
    <2>1. Elements(todo) = {todo[i] : i \in 1..Len(todo)} /\ Len(todo) \in Nat
        BY ElementsOfSeq
    <2>2. Elements(Tail(todo)) = {Tail(todo)[i] : i \in 1..Len(Tail(todo))}
        BY <1>1, ElementsOfSeq
    <2>3. \A i \in 1..Len(todo) : i = 1 \/ (i - 1 \in 1..Len(Tail(todo)) /\ todo[i] = Tail(todo)[i - 1])
        BY <1>1, <2>1
    <2>4. \A i \in 1..Len(Tail(todo)) : i + 1 \in 1..Len(todo)
        BY <1>1, <2>1
    <2>5. Elements(todo) \subseteq {Node} \cup Elements(Tail(todo))
        BY <1>1, <2>1, <2>2, <2>3
    <2>6. {Node} \cup Elements(Tail(todo)) \subseteq Elements(todo)
        BY <1>1, <2>1, <2>2, <2>4
    <2>7. QED
        BY <2>5, <2>6
<1>4. Elements(todo') = ChildrenOf(Node) \cup Elements(Tail(todo))
    <2> DEFINE s == Children[Node]
               t == Tail(todo)
    <2>1. s \in Seq(Nodes) /\ t \in Seq(Nodes) /\ Len(s) \in Nat /\ Len(t) \in Nat
        BY <1>1
    <2> HIDE DEF s, t
    <2>2. /\ s \o t \in Seq(Nodes) /\ Len(s \o t) = Len(s) + Len(t)
          /\ \A i \in 1..Len(s) : (s \o t)[i] = s[i]
          /\ \A i \in 1..Len(t) : (s \o t)[Len(s) + i] = t[i]
          /\ \A i \in 1..Len(s \o t) : i \notin 1..Len(s) => i - Len(s) \in 1..Len(t)
        BY <2>1
    <2>3. /\ Elements(s \o t) = {(s \o t)[i] : i \in 1..Len(s \o t)}
          /\ Elements(s) = {s[i] : i \in 1..Len(s)}
          /\ Elements(t) = {t[i] : i \in 1..Len(t)}
        BY <2>1, <2>2, ElementsOfSeq
    <2>4. ASSUME NEW i \in 1..Len(s \o t) PROVE (s \o t)[i] \in Elements(s) \cup Elements(t)
        <3>1. CASE i \in 1..Len(s)
            BY <2>2, <2>3, <3>1
        <3>2. CASE i \notin 1..Len(s)
            <4>1. i - Len(s) \in 1..Len(t) /\ Len(s) + (i - Len(s)) = i
                BY <2>1, <2>2, <3>2
            <4>2. (s \o t)[i] = t[i - Len(s)]
                BY <2>2, <4>1
            <4>3. QED
                BY <2>3, <4>1, <4>2
        <3>3. QED
            BY <3>1, <3>2
    <2>5. \A i \in 1..Len(s) : s[i] \in Elements(s \o t)
        BY <2>1, <2>2, <2>3
    <2>6. \A i \in 1..Len(t) : t[i] \in Elements(s \o t)
        <3>1. ASSUME NEW i \in 1..Len(t) PROVE t[i] \in Elements(s \o t)
            <4>1. Len(s) + i \in 1..Len(s \o t)
                BY <2>1, <2>2
            <4>2. QED
                BY <2>2, <2>3, <4>1
        <3>2. QED
            BY <3>1
    <2>7. Elements(s \o t) = Elements(s) \cup Elements(t)
        BY <2>3, <2>4, <2>5, <2>6
    <2>8. QED
        BY <1>2, <2>7 DEF s, t, ChildrenOf
<1>5. QED
    BY <1>1, <1>2, <1>3, <1>4

\* A sequential walk that has nothing more to enter has seen every node: one it
\* has not seen would have a parent it has not seen.
LEMMA AllSeen ==
    ASSUME ToEnterInv, PlanTypeOK, todo = <<>>
    PROVE  seen = Nodes
<1> DEFINE U == Nodes \ seen
<1>1. SUFFICES ASSUME U # {} PROVE FALSE
    BY DEF PlanTypeOK
<1>2. PICK n \in U : ParentsOf(n) \cap U = {}
    BY <1>1, Acyclic
<1>3. Elements(todo) = {}
    BY DEF Elements
<1>4. CASE ParentsOf(n) = {}
    BY <1>2, <1>3, <1>4, RootsAreParentless DEF ToEnterInv
<1>5. CASE ParentsOf(n) # {}
    <2>1. PICK p \in ParentsOf(n) : p \in Nodes /\ p \in seen
        BY <1>2, <1>5, ParentsAreNodes
    <2>2. n \in ChildrenOf(p)
        BY <1>2, <2>1, EdgesAgree
    <2>3. QED
        BY <1>2, <1>3, <2>1, <2>2 DEF ToEnterInv
<1>6. QED
    BY <1>4, <1>5

\* Entering a node keeps count of what is to be entered.
LEMMA EnterKeeps ==
    ASSUME ToEnterInv, PlanTypeOK, todo # <<>>, Enter
    PROVE  ToEnterInv' /\ Node \in Nodes /\ todo' \in Seq(Nodes) /\ seen' = seen \cup {Node}
<1>1. /\ Node \in Nodes /\ todo' \in Seq(Nodes)
      /\ Elements(todo) = {Node} \cup Elements(Tail(todo))
      /\ Elements(todo)' = ChildrenOf(Node) \cup Elements(Tail(todo))
    BY EnterElements DEF PlanTypeOK
<1>2. seen' = seen \cup {Node}
    BY DEF Enter
<1>3. QED
    BY <1>1, <1>2 DEF ToEnterInv

\* A walk begins with the roots.
LEMMA GoToKeeps ==
    ASSUME NEW next, GoTo(next)
    PROVE  ToEnterInv' /\ todo' \in Seq(Nodes) /\ seen' = {} /\ phase' = next
BY GraphType DEF GoTo, ToEnterInv

\* The invariant holds when Plan begins.
LEMMA PlanInvInit == PlanInit => PlanInv
<1> SUFFICES ASSUME PlanInit PROVE PlanInv
    OBVIOUS
<1>1. WalkInv
    BY WalkInvInit DEF PlanInit
<1>2. PlanTypeOK
    BY <1>1, GraphType DEF PlanInit, PlanTypeOK, WalkInv
<1>3. AnswersInv
    BY AbsentAssumption, CallsType DEF PlanInit, WalkInit, AnswersInv
<1>4. PhasesInv /\ ToEnterInv /\ DecidedInv
    BY DEF PlanInit, PhasesInv, ToEnterInv, DecidedInv
<1>5. QED
    BY <1>1, <1>2, <1>3, <1>4 DEF PlanInv

\* The walk around the visitor brings no answer.
LEMMA AskingKeeps ==
    ASSUME PlanInv, NEW c \in Calls, AskingWalk(c)
    PROVE  PlanInv'
<1>1. /\ phase = "exists" /\ Around(c)
      /\ UNCHANGED <<answer, refExistsMap, force, noTests, before, tags, phase, todo, seen,
                     needsRebuild, needsTests>>
    BY DEF AskingWalk, options, flags
<1>2. WalkInv'
    BY <1>1, StartKeeps, VisitorKeeps, ReturnKeeps DEF PlanInv, Around
<1>3. /\ failed \subseteq failed' /\ result' = result
      /\ \A d \in Calls : visitor'[d] = "returned" => visitor[d] = "returned"
    BY <1>1 DEF Around, Start, Load, Store, Return, PlanInv, WalkInv, WalkTypeOK
<1>4. PlanTypeOK'
    BY <1>1, <1>2 DEF PlanInv, PlanTypeOK, WalkInv
<1>5. AnswersInv'
    BY <1>1, <1>3 DEF PlanInv, AnswersInv
<1>6. PhasesInv' /\ ToEnterInv' /\ DecidedInv'
    BY <1>1, <1>3 DEF PlanInv, PhasesInv, ToEnterInv, DecidedInv
<1>7. QED
    BY <1>2, <1>4, <1>5, <1>6 DEF PlanInv

\* An answer is of the registry as it is then.
LEMMA AnswerKeeps ==
    ASSUME PlanInv, NEW c \in Calls, RefExists(c)
    PROVE  PlanInv'
<1>1. /\ phase = "exists" /\ answer' = [answer EXCEPT ![c] = NodeOf[c] \in tags]
      /\ UNCHANGED <<call, visitor, visited, failed, result, refExistsMap, force, noTests,
                     before, tags, phase, todo, seen, needsRebuild, needsTests>>
    BY DEF RefExists, walkVars, options, flags
<1>2. WalkInv'
    BY <1>1, EndKeeps DEF PlanInv, walkVars
<1>3. \A d \in Calls : answer'[d] = IF d = c THEN NodeOf[c] \in tags ELSE answer[d]
    BY <1>1 DEF PlanInv, PlanTypeOK
<1>4. answer' \in [Calls -> BOOLEAN \cup {NoAnswer}]
    BY <1>1 DEF PlanInv, PlanTypeOK
<1>5. PlanTypeOK'
    BY <1>1, <1>2, <1>4 DEF PlanInv, PlanTypeOK, WalkInv
<1>6. AnswersInv'
    <2>1. ASSUME NEW d \in Calls
          PROVE  /\ answer'[d] = TRUE => NodeOf[d] \in tags
                 /\ NodeOf[d] \in before => answer'[d] # FALSE
        <3>1. CASE d = c
            <4>1. answer'[d] = (NodeOf[d] \in tags)
                BY <1>3, <3>1
            <4>2. NodeOf[d] \in before => NodeOf[d] \in tags
                BY DEF PlanInv, AnswersInv
            <4>3. QED
                BY <4>1, <4>2
        <3>2. CASE d # c
            BY <1>3, <3>2 DEF PlanInv, AnswersInv
        <3>3. QED
            BY <3>1, <3>2
    <2>2. QED
        BY <1>1, <2>1 DEF PlanInv, AnswersInv
<1>7. PhasesInv' /\ ToEnterInv' /\ DecidedInv'
    BY <1>1 DEF PlanInv, PhasesInv, ToEnterInv, DecidedInv
<1>8. QED
    BY <1>2, <1>5, <1>6, <1>7 DEF PlanInv

\* The visitor returns with an error, or with its answer in the map.
LEMMA RecordKeeps ==
    ASSUME PlanInv, NEW c \in Calls, RefExistsFails(c) \/ Record(c)
    PROVE  PlanInv'
<1>1. /\ phase = "exists"
      /\ UNCHANGED <<answer, force, noTests, before, tags, phase, todo, seen, needsRebuild,
                     needsTests>>
      /\ \/ EndVisit(c, TRUE) /\ refExistsMap' = refExistsMap
         \/ /\ EndVisit(c, FALSE) /\ answer[c] # NoAnswer
            /\ refExistsMap' = [refExistsMap EXCEPT ![NodeOf[c]] = answer[c]]
    BY DEF RefExistsFails, Record, options, flags
<1>2. WalkInv'
    BY <1>1, VisitorKeeps DEF PlanInv
<1>3. /\ result' = result /\ failed \subseteq failed'
      /\ \A d \in Calls \ {c} : visitor'[d] = visitor[d]
      /\ EndVisit(c, TRUE) => c \in failed'
    BY <1>1 DEF EndVisit, PlanInv, WalkInv, WalkTypeOK
<1>4. \A d \in Calls : NodeOf[d] \in Nodes
    BY CallsType
<1>5. /\ refExistsMap' \in [Nodes -> BOOLEAN \cup {Absent}]
      /\ \A n \in Nodes :
            \/ refExistsMap'[n] = refExistsMap[n]
            \/ n = NodeOf[c] /\ refExistsMap'[n] = answer[c] /\ answer[c] \in BOOLEAN
      /\ c \in failed' \/ refExistsMap'[NodeOf[c]] # Absent
    <2>1. CASE EndVisit(c, TRUE) /\ refExistsMap' = refExistsMap
        BY <1>3, <2>1 DEF PlanInv, PlanTypeOK
    <2>2. CASE answer[c] # NoAnswer /\ refExistsMap' = [refExistsMap EXCEPT ![NodeOf[c]] = answer[c]]
        <3>1. answer[c] \in BOOLEAN
            BY <2>2 DEF PlanInv, PlanTypeOK
        <3>2. refExistsMap \in [Nodes -> BOOLEAN \cup {Absent}]
            BY DEF PlanInv, PlanTypeOK
        <3>3. refExistsMap' \in [Nodes -> BOOLEAN \cup {Absent}]
            BY <1>4, <2>2, <3>1, <3>2
        <3>4. \A n \in Nodes : refExistsMap'[n] = IF n = NodeOf[c] THEN answer[c] ELSE refExistsMap[n]
            BY <2>2, <3>2
        <3>5. refExistsMap'[NodeOf[c]] = answer[c] /\ answer[c] # Absent
            BY <1>4, <3>1, <3>4, AbsentAssumption
        <3>6. QED
            BY <3>1, <3>3, <3>4, <3>5
    <2>3. QED
        BY <1>1, <2>1, <2>2
<1>6. PlanTypeOK'
    BY <1>1, <1>2, <1>5 DEF PlanInv, PlanTypeOK, WalkInv
<1>7. AnswersInv'
    <2>1. ASSUME NEW n \in Nodes
          PROVE  /\ refExistsMap'[n] = TRUE => n \in tags
                 /\ n \in before => refExistsMap'[n] # FALSE
        <3>1. CASE refExistsMap'[n] = refExistsMap[n]
            BY <3>1 DEF PlanInv, AnswersInv
        <3>2. CASE n = NodeOf[c] /\ refExistsMap'[n] = answer[c]
            BY <3>2 DEF PlanInv, AnswersInv
        <3>3. QED
            BY <1>5, <3>1, <3>2
    <2>2. ASSUME NEW d \in Calls, visitor'[d] = "returned"
          PROVE  d \in failed' \/ refExistsMap'[NodeOf[d]] # Absent
        <3>1. CASE d = c
            BY <1>5, <3>1
        <3>2. CASE d # c
            <4>1. d \in failed \/ refExistsMap[NodeOf[d]] # Absent
                BY <1>3, <2>2, <3>2 DEF PlanInv, AnswersInv
            <4>2. NodeOf[d] \in Nodes
                BY <1>4
            <4>3. QED
                BY <1>3, <1>5, <4>1, <4>2, AbsentAssumption
        <3>3. QED
            BY <3>1, <3>2
    <2>3. QED
        BY <1>1, <2>1, <2>2 DEF PlanInv, AnswersInv
<1>8. PhasesInv' /\ ToEnterInv' /\ DecidedInv'
    BY <1>1, <1>3 DEF PlanInv, PhasesInv, ToEnterInv, DecidedInv
<1>9. QED
    BY <1>2, <1>6, <1>7, <1>8 DEF PlanInv

\* Plan goes on only when WalkAsyncErr has returned nil; another run of dib adds
\* a tag.
LEMMA OutsideKeeps ==
    ASSUME PlanInv, EndExists \/ (\E n \in Nodes : OtherRun(n)) \/ UNCHANGED planVars
    PROVE  PlanInv'
<1>1. CASE EndExists
    <2>1. /\ phase = "exists" /\ EndWalk
          /\ phase' = IF result' = "ok" THEN "check" ELSE "error"
          /\ UNCHANGED <<answer, refExistsMap, force, noTests, before, tags, todo, seen,
                         needsRebuild, needsTests, failed, visitor>>
        BY <1>1 DEF EndExists, EndWalk, options, flags
    <2>2. WalkInv'
        BY <2>1, EndKeeps DEF PlanInv
    <2>3. seen = {}
        BY <2>1 DEF PlanInv, PhasesInv
    <2>4. PlanTypeOK' /\ AnswersInv' /\ PhasesInv' /\ ToEnterInv'
        BY <2>1, <2>2 DEF PlanInv, PlanTypeOK, WalkInv, AnswersInv, PhasesInv, ToEnterInv
    <2>5. DecidedInv'
        BY <2>1, <2>3 DEF PlanInv, DecidedInv
    <2>6. QED
        BY <2>2, <2>4, <2>5 DEF PlanInv
<1>2. CASE \E n \in Nodes : OtherRun(n)
    <2>1. /\ tags \subseteq tags' /\ tags' \subseteq Nodes
          /\ UNCHANGED <<call, visitor, visited, failed, result, answer, refExistsMap, force,
                         noTests, before, phase, todo, seen, needsRebuild, needsTests>>
        BY <1>2 DEF OtherRun, asking, walkVars, options, flags, PlanInv, PlanTypeOK
    <2>2. WalkInv'
        BY <2>1, EndKeeps DEF PlanInv, walkVars
    <2>3. PlanTypeOK' /\ AnswersInv' /\ PhasesInv' /\ ToEnterInv' /\ DecidedInv'
        BY <2>1, <2>2 DEF PlanInv, PlanTypeOK, WalkInv, AnswersInv, PhasesInv, ToEnterInv,
            DecidedInv
    <2>4. QED
        BY <2>2, <2>3 DEF PlanInv
<1>3. CASE UNCHANGED planVars
    <2>1. UNCHANGED <<call, visitor, visited, failed, result, answer, refExistsMap, force,
                      noTests, before, tags, phase, todo, seen, needsRebuild, needsTests>>
        BY <1>3 DEF planVars, asking, walkVars, options, flags
    <2>2. WalkInv'
        BY <2>1, EndKeeps DEF PlanInv, walkVars
    <2>3. PlanTypeOK' /\ AnswersInv' /\ PhasesInv' /\ ToEnterInv' /\ DecidedInv'
        BY <2>1, <2>2 DEF PlanInv, PlanTypeOK, WalkInv, AnswersInv, PhasesInv, ToEnterInv,
            DecidedInv
    <2>4. QED
        BY <2>2, <2>3 DEF PlanInv
<1>4. QED
    BY <1>1, <1>2, <1>3

\* The steps of a sequential walk change nothing that the registry has answered.
LEMMA SequentialKeeps ==
    ASSUME PlanInv, Sequential,
           PhasesInv', ToEnterInv', DecidedInv',
           UNCHANGED <<asking, options, tags>>,
           todo' \in Seq(Nodes), seen' \in SUBSET Nodes,
           phase' \in {"force", "check", "tests", "done", "error"},
           needsRebuild' \in [Nodes -> BOOLEAN], needsTests' \in [Nodes -> BOOLEAN]
    PROVE  PlanInv'
<1>1. UNCHANGED <<call, visitor, visited, failed, result, answer, refExistsMap, force,
                  noTests, before, tags>>
    BY DEF asking, walkVars, options
<1>2. WalkInv'
    BY <1>1, EndKeeps DEF PlanInv, walkVars
<1>3. PlanTypeOK' /\ AnswersInv'
    BY <1>1, <1>2 DEF PlanInv, PlanTypeOK, WalkInv, AnswersInv
<1>4. QED
    BY <1>2, <1>3 DEF PlanInv

\* The walk of --force-rebuild.
LEMMA ForceKeeps ==
    ASSUME PlanInv, ForceRebuild \/ EndForce
    PROVE  PlanInv'
<1>1. CASE ForceRebuild
    <2>1. /\ phase = "force" /\ phase' = "force" /\ todo # <<>> /\ Enter
          /\ UNCHANGED <<asking, options, tags>>
          /\ force /\ force' = force /\ result' = result
        BY <1>1 DEF ForceRebuild, PlanInv, PhasesInv, options, asking, walkVars
    <2>2. ToEnterInv' /\ Node \in Nodes /\ todo' \in Seq(Nodes) /\ seen' = seen \cup {Node}
        BY <2>1, EnterKeeps DEF PlanInv
    <2>3. /\ needsRebuild \in [Nodes -> BOOLEAN] /\ needsTests \in [Nodes -> BOOLEAN]
          /\ noTests \in BOOLEAN /\ seen \in SUBSET Nodes /\ \A n \in seen : needsRebuild[n]
        BY <2>1 DEF PlanInv, PlanTypeOK, DecidedInv
    <2>4. /\ needsRebuild' \in [Nodes -> BOOLEAN] /\ needsTests' \in [Nodes -> BOOLEAN]
          /\ \A n \in seen' : needsRebuild'[n]
        <3>1. CASE Node \in seen
            BY <1>1, <2>2, <2>3, <3>1 DEF ForceRebuild, flags
        <3>2. CASE Node \notin seen
            <4>1. /\ needsRebuild' = [needsRebuild EXCEPT ![Node] = TRUE]
                  /\ needsTests' = [needsTests EXCEPT ![Node] = ~noTests]
                BY <1>1, <3>2 DEF ForceRebuild
            <4>2. QED
                BY <2>2, <2>3, <4>1
        <3>3. QED
            BY <3>1, <3>2
    <2>5. PhasesInv' /\ DecidedInv'
        BY <2>1, <2>4 DEF PhasesInv, DecidedInv
    <2>6. seen' \in SUBSET Nodes
        BY <2>2, <2>3
    <2>7. QED
        BY <1>1, <2>1, <2>2, <2>4, <2>5, <2>6, SequentialKeeps DEF Sequential
<1>2. CASE EndForce
    <2>1. /\ phase = "force" /\ phase' = "done" /\ todo = <<>>
          /\ UNCHANGED <<asking, options, tags, todo, seen, needsRebuild, needsTests>>
          /\ force /\ force' = force
        BY <1>2 DEF EndForce, PlanInv, PhasesInv, flags, options
    <2>2. seen = Nodes
        BY <2>1, AllSeen DEF PlanInv
    <2>3. PhasesInv' /\ DecidedInv'
        BY <2>1, <2>2 DEF PlanInv, PhasesInv, DecidedInv
    <2>4. ToEnterInv'
        BY <2>1 DEF PlanInv, ToEnterInv
    <2>5. QED
        BY <1>2, <2>1, <2>3, <2>4, SequentialKeeps DEF Sequential, PlanInv, PlanTypeOK
<1>3. QED
    BY <1>1, <1>2

\* checkNeedsRebuild.
LEMMA CheckKeeps ==
    ASSUME PlanInv, Check \/ EndCheck
    PROVE  PlanInv'
<1>1. CASE Check
    <2>1. /\ phase = "check" /\ todo # <<>> /\ UNCHANGED <<asking, options, tags>>
          /\ UNCHANGED <<force, before, refExistsMap, result>> /\ result = "ok"
        BY <1>1 DEF Check, PlanInv, PhasesInv, options, asking, walkVars
    <2>2. CASE Node \notin seen /\ refExistsMap[Node] = Absent
        <3>1. phase' = "error" /\ UNCHANGED <<todo, seen, needsRebuild, needsTests>>
            BY <1>1, <2>2 DEF Check, flags
        <3>2. PhasesInv' /\ DecidedInv' /\ ToEnterInv'
            BY <2>1, <3>1 DEF PlanInv, PhasesInv, DecidedInv, ToEnterInv
        <3>3. QED
            BY <1>1, <2>1, <3>1, <3>2, SequentialKeeps DEF Sequential, PlanInv, PlanTypeOK
    <2>3. CASE ~(Node \notin seen /\ refExistsMap[Node] = Absent)
        <3>1. /\ Enter /\ phase' = phase /\ needsTests' = needsTests
              /\ needsRebuild' = [needsRebuild EXCEPT ![Node] =
                                    needsRebuild[Node] \/ (Node \notin seen /\ ~refExistsMap[Node])]
            BY <1>1, <2>3 DEF Check
        <3>2. ToEnterInv' /\ Node \in Nodes /\ todo' \in Seq(Nodes) /\ seen' = seen \cup {Node}
            BY <2>1, <3>1, EnterKeeps DEF PlanInv
        <3>3. needsRebuild \in [Nodes -> BOOLEAN] /\ seen \in SUBSET Nodes
            BY DEF PlanInv, PlanTypeOK
        <3>4. Node \notin seen => refExistsMap[Node] \in BOOLEAN
            BY <2>3, <3>2 DEF PlanInv, PlanTypeOK
        <3>5. /\ needsRebuild' \in [Nodes -> BOOLEAN]
              /\ \A n \in Nodes \ {Node} : needsRebuild'[n] = needsRebuild[n]
              /\ Node \in seen => needsRebuild'[Node] = needsRebuild[Node]
              /\ Node \notin seen => needsRebuild'[Node] = (needsRebuild[Node] \/ ~refExistsMap[Node])
            BY <3>1, <3>2, <3>3, <3>4
        <3>6. ASSUME NEW n \in seen' PROVE needsRebuild'[n] \/ n \in tags
            <4>1. CASE n \in seen
                BY <2>1, <3>3, <3>5, <4>1 DEF PlanInv, DecidedInv
            <4>2. CASE n \notin seen
                <5>1. n = Node /\ needsRebuild'[Node] = (needsRebuild[Node] \/ ~refExistsMap[Node])
                    BY <3>2, <3>5, <4>2
                <5>2. refExistsMap[Node] = TRUE => Node \in tags
                    BY <3>2 DEF PlanInv, AnswersInv
                <5>3. refExistsMap[Node] \in BOOLEAN
                    BY <3>4, <4>2, <5>1
                <5>4. QED
                    BY <5>1, <5>2, <5>3
            <4>3. QED
                BY <4>1, <4>2
        <3>7. ASSUME ~force, NEW n \in before PROVE ~needsRebuild'[n]
            <4>1. n \in Nodes /\ ~needsRebuild[n] /\ refExistsMap[n] # FALSE
                BY <3>7 DEF PlanInv, PlanTypeOK, DecidedInv, AnswersInv
            <4>2. CASE n # Node \/ Node \in seen
                BY <3>5, <4>1, <4>2
            <4>3. CASE n = Node /\ Node \notin seen
                BY <3>4, <3>5, <4>1, <4>3
            <4>4. QED
                BY <4>2, <4>3
        <3>8. PhasesInv' /\ DecidedInv'
            BY <2>1, <3>1, <3>6, <3>7 DEF PhasesInv, DecidedInv
        <3>9. seen' \in SUBSET Nodes
            BY <3>2, <3>3
        <3>10. QED
            BY <1>1, <2>1, <3>1, <3>2, <3>5, <3>8, <3>9, SequentialKeeps
                DEF Sequential, PlanInv, PlanTypeOK
    <2>4. QED
        BY <2>2, <2>3
<1>2. CASE EndCheck
    <2>1. /\ phase = "check" /\ todo = <<>> /\ GoTo(IF noTests THEN "done" ELSE "tests")
          /\ UNCHANGED <<asking, options, tags, needsRebuild, needsTests>>
          /\ UNCHANGED <<force, before, result>> /\ result = "ok"
        BY <1>2 DEF EndCheck, PlanInv, PhasesInv, flags, options, asking, walkVars
    <2>2. seen = Nodes
        BY <2>1, AllSeen DEF PlanInv
    <2>3. ToEnterInv' /\ todo' \in Seq(Nodes) /\ seen' = {} /\ phase' \in {"done", "tests"}
        BY <2>1, GoToKeeps
    <2>4. PhasesInv' /\ DecidedInv'
        BY <2>1, <2>2, <2>3 DEF PlanInv, PhasesInv, DecidedInv
    <2>5. QED
        BY <1>2, <2>1, <2>3, <2>4, SequentialKeeps DEF Sequential, PlanInv, PlanTypeOK
<1>3. QED
    BY <1>1, <1>2

\* The walk that enables the tests.
LEMMA TestsKeep ==
    ASSUME PlanInv, EnableTests \/ EndTests
    PROVE  PlanInv'
<1>1. CASE EnableTests
    <2>1. /\ phase = "tests" /\ phase' = "tests" /\ todo # <<>> /\ Enter
          /\ UNCHANGED <<asking, options, tags, needsRebuild>>
          /\ UNCHANGED <<force, before, result>> /\ result = "ok"
          /\ needsTests' = [needsTests EXCEPT ![Node] =
                                needsTests[Node] \/ (Node \notin seen /\ needsRebuild[Node])]
        BY <1>1 DEF EnableTests, PlanInv, PhasesInv, options, asking, walkVars
    <2>2. ToEnterInv' /\ Node \in Nodes /\ todo' \in Seq(Nodes) /\ seen' = seen \cup {Node}
        BY <2>1, EnterKeeps DEF PlanInv
    <2>3. seen' \in SUBSET Nodes /\ needsTests' \in [Nodes -> BOOLEAN]
        BY <2>1, <2>2 DEF PlanInv, PlanTypeOK
    <2>4. PhasesInv' /\ DecidedInv'
        BY <2>1 DEF PlanInv, PhasesInv, DecidedInv
    <2>5. QED
        BY <1>1, <2>1, <2>2, <2>3, <2>4, SequentialKeeps DEF Sequential, PlanInv, PlanTypeOK
<1>2. CASE EndTests
    <2>1. /\ phase = "tests" /\ phase' = "done"
          /\ UNCHANGED <<asking, options, tags, todo, seen, needsRebuild, needsTests>>
          /\ UNCHANGED <<force, before, result>> /\ result = "ok"
        BY <1>2 DEF EndTests, PlanInv, PhasesInv, flags, options, asking, walkVars
    <2>2. PhasesInv' /\ DecidedInv' /\ ToEnterInv'
        BY <2>1 DEF PlanInv, PhasesInv, DecidedInv, ToEnterInv
    <2>3. QED
        BY <1>2, <2>1, <2>2, SequentialKeeps DEF Sequential, PlanInv, PlanTypeOK
<1>3. QED
    BY <1>1, <1>2

\* The invariant of Plan.
THEOREM PlanInvariant == PlanSpec => []PlanInv
<1>1. PlanInv /\ [PlanNext]_planVars => PlanInv'
    <2> SUFFICES ASSUME PlanInv, [PlanNext]_planVars PROVE PlanInv'
        OBVIOUS
    <2>1. ASSUME NEW c \in Calls, Asking(c) PROVE PlanInv'
        BY <2>1, AskingKeeps, AnswerKeeps, RecordKeeps DEF Asking
    <2>2. CASE Sequential
        BY <2>2, ForceKeeps, CheckKeeps, TestsKeep DEF Sequential
    <2>3. CASE EndExists \/ (\E n \in Nodes : OtherRun(n)) \/ PlanReturned \/ UNCHANGED planVars
        BY <2>3, OutsideKeeps DEF PlanReturned
    <2>4. QED
        BY <2>1, <2>2, <2>3 DEF PlanNext
<1>2. QED
    BY PlanInvInit, <1>1, PTL DEF PlanSpec

\* refExistsMapForTag is a WalkAsyncErr: every step of Plan is a step of the walk or
\* leaves it alone, so what is proved of the walk is true of it.
THEOREM PlanIsAWalk == PlanSpec => WalkInit /\ [][WalkNext]_walkVars
<1>1. PlanInit => WalkInit
    BY DEF PlanInit
<1>2. [PlanNext]_planVars => [WalkNext]_walkVars
    <2>1. SUFFICES ASSUME [PlanNext]_planVars PROVE WalkNext \/ UNCHANGED walkVars
        OBVIOUS
    <2>2. ASSUME NEW c \in Calls, Asking(c) PROVE WalkNext \/ UNCHANGED walkVars
        BY <2>2 DEF Asking, AskingWalk, RefExists, RefExistsFails, Record, WalkNext, WalkGoroutine
    <2>3. CASE EndExists
        BY <2>3 DEF EndExists, WalkNext
    <2>4. CASE Sequential \/ (\E n \in Nodes : OtherRun(n)) \/ PlanReturned \/ UNCHANGED planVars
        BY <2>4 DEF Sequential, ForceRebuild, EndForce, Check, EndCheck, EnableTests, EndTests,
            OtherRun, PlanReturned, planVars, asking
    <2>5. QED
        BY <2>1, <2>2, <2>3, <2>4 DEF PlanNext
<1>3. QED
    BY <1>1, <1>2, PTL DEF PlanSpec

\* Every variable keeps its type.
THEOREM PlanTypeCorrect == PlanSpec => []PlanTypeOK
BY PlanInvariant, PTL DEF PlanInv

\* When WalkAsyncErr has returned nil there is an answer for every image, although
\* a goroutine may leave the question to another: checkNeedsRebuild never finds
\* one missing.  dib/plan.go:55.
THEOREM AnswersAreThere == PlanSpec => []EveryAnswerKnown
<1>1. PlanInv => EveryAnswerKnown
    <2> SUFFICES ASSUME PlanInv, phase \in {"check", "tests"}, NEW n \in Nodes
                 PROVE  refExistsMap[n] # Absent
        BY DEF EveryAnswerKnown
    <2>1. result = "ok"
        BY DEF PlanInv, PhasesInv
    <2>2. failed = {}
        BY <2>1, NoErrorLeft DEF PlanInv, NoErrorLost
    <2>3. PICK c \in Calls : NodeOf[c] = n /\ visitor[c] = "returned"
        BY <2>1, AllVisited DEF PlanInv, EveryNodeVisited
    <2>4. QED
        BY <2>2, <2>3 DEF PlanInv, AnswersInv
<1>2. QED
    BY <1>1, PlanInvariant, PTL

\* An image that is not rebuilt has its tag in the registry: the walks see every
\* image, and the registry loses no tag.  dib/plan.go:42.
THEOREM UnbuiltArePublished == PlanSpec => []NothingLeftOut
<1>1. PlanInv => NothingLeftOut
    BY DEF PlanInv, DecidedInv, NothingLeftOut
<1>2. QED
    BY <1>1, PlanInvariant, PTL

\* An image that was published before Plan began is not built again, whatever
\* other runs publish meanwhile.  dib/plan.go:60.
THEOREM PublishedAreNotBuilt == PlanSpec => []NoNeedlessRebuild
<1>1. PlanInv => NoNeedlessRebuild
    BY DEF PlanInv, DecidedInv, NoNeedlessRebuild
<1>2. QED
    BY <1>1, PlanInvariant, PTL

-----------------------------------------------------------------------------
(* Retag.                                                                  *)

\* What the tags refer to before and after the version tag is set.
TagsInv ==
    \A n \in Nodes :
        /\ rebuilt[n] => registry[n]["dev"] = "new"
        /\ ~rebuilt[n] => registry[n]["hash"] = "new"

\* The tags a visitor has left behind it.
ProgressInv ==
    \A c \in Calls :
        /\ pos[c] >= 2 => registry[NodeOf[c]]["hash"] = "new"
        /\ \A i \in DOMAIN Released(NodeOf[c]) :
            pos[c] >= i + 2 => registry[NodeOf[c]][Released(NodeOf[c])[i]] = "new"

\* A visitor returns nil when its node has all of its tags.
EndsDone ==
    \A c \in Calls : visitor[c] = "returned" => c \in failed \/ retagDone[NodeOf[c]]

\* There is an entry for every image.
RegistryInv == DOMAIN registry = Nodes

RetagInv ==
    /\ RetagTypeOK
    /\ WalkInv
    /\ RegistryInv
    /\ TagsInv
    /\ ProgressInv
    /\ EndsDone
    /\ DoneMeansTagged
    /\ ReleasedHaveVersion

\* The released tags are tags of the image, and not those of CurrentRef.
LEMMA ReleasedTags ==
    ASSUME NEW n \in Nodes, release \in BOOLEAN
    PROVE  /\ Len(Released(n)) \in Nat
           /\ DOMAIN Released(n) = 1..Len(Released(n))
           /\ \A i \in DOMAIN Released(n) :
                release /\ Released(n)[i] \in Tags(n) \ {"dev", "hash"}
<1> DEFINE S == STRING \cup {Placeholder}
<1>1. ExtraTags[n] \in Seq(STRING)
    BY ExtraTagsAssumption
<1>2. ExtraTags[n] \in Seq(S) /\ <<Placeholder>> \in Seq(S)
    BY <1>1
<1>3. Elements(ExtraTags[n]) = {ExtraTags[n][i] : i \in 1..Len(ExtraTags[n])}
    BY <1>1, ElementsOfSeq
<1>4. CASE ~release
    BY <1>4 DEF Released
<1>5. CASE release
    <2>1. Released(n) = <<Placeholder>> \o ExtraTags[n]
        BY <1>5 DEF Released
    <2>2. /\ Len(Released(n)) = 1 + Len(ExtraTags[n])
          /\ DOMAIN Released(n) = 1..Len(Released(n))
          /\ Released(n)[1] = Placeholder
          /\ \A i \in 2..Len(Released(n)) :
                i - 1 \in 1..Len(ExtraTags[n]) /\ Released(n)[i] = ExtraTags[n][i - 1]
        BY <1>2, <2>1
    <2>3. ASSUME NEW i \in DOMAIN Released(n)
          PROVE  Released(n)[i] \in {Placeholder} \cup Elements(ExtraTags[n])
        BY <1>3, <2>2
    <2>4. \A t \in {Placeholder} \cup Elements(ExtraTags[n]) : t \notin {"dev", "hash"}
        BY PlaceholderAssumption, ExtraTagsAssumption
    <2>5. QED
        BY <1>1, <1>5, <2>2, <2>3, <2>4 DEF Tags
<1>6. QED
    BY <1>4, <1>5


\* Before Retag.
LEMMA RetagInvInit == RetagInit => RetagInv
<1> SUFFICES ASSUME RetagInit PROVE RetagInv
    OBVIOUS
<1>1. release \in BOOLEAN /\ rebuilt \in [Nodes -> BOOLEAN]
    BY DEF RetagInit
<1>2. pos = [c \in Calls |-> 0] /\ retagDone = [n \in Nodes |-> FALSE]
    BY DEF RetagInit
<1>3. \A c \in Calls : NodeOf[c] \in Nodes /\ visitor[c] = "none"
    BY CallsType DEF RetagInit, WalkInit
<1>4. WalkInv /\ WalkTypeOK
    BY WalkInvInit DEF RetagInit, WalkInv
<1>5. ASSUME NEW n \in Nodes
      PROVE  /\ registry[n] \in [Tags(n) -> Builds]
             /\ registry[n]["dev"] = IF rebuilt[n] THEN "new" ELSE "none"
             /\ ~rebuilt[n] => registry[n]["hash"] = "new"
             /\ \A t \in Tags(n) \ {"dev", "hash"} : registry[n][t] = "old"
    <2>1. PICK forced \in BOOLEAN : registry[n] = [t \in Tags(n) |->
               CASE t = "dev" -> IF rebuilt[n] THEN "new" ELSE "none"
                 [] t = "hash" -> IF ~rebuilt[n] THEN "new"
                                  ELSE IF forced THEN "old" ELSE "none"
                 [] OTHER -> "old"]
        BY DEF RetagInit
    <2>2. {"dev", "hash"} \subseteq Tags(n)
        BY DEF Tags
    <2>3. QED
        BY <2>1, <2>2 DEF Builds
<1>6. \A c \in Calls : Len(Released(NodeOf[c])) \in Nat
                       /\ DOMAIN Released(NodeOf[c]) = 1..Len(Released(NodeOf[c]))
    BY <1>1, <1>3, ReleasedTags
<1>7. RetagTypeOK
    BY <1>1, <1>2, <1>4, <1>5, <1>6 DEF RetagTypeOK
<1>8. TagsInv /\ ReleasedHaveVersion
    BY <1>5 DEF TagsInv, ReleasedHaveVersion
<1>9. ProgressInv
    BY <1>2, <1>6 DEF ProgressInv
<1>10. EndsDone /\ DoneMeansTagged
    BY <1>2, <1>3 DEF EndsDone, DoneMeansTagged
<1>11. RegistryInv
    BY DEF RetagInit, RegistryInv
<1>12. QED
    BY <1>4, <1>7, <1>8, <1>9, <1>10, <1>11 DEF RetagInv

\* The walk goes on, the tags stay.
LEMMA WalkKeeps ==
    ASSUME RetagInv, UNCHANGED <<pos, release, rebuilt, retagDone, registry>>,
           (\E c \in Calls : Around(c)) \/ EndWalk \/ UNCHANGED walkVars
    PROVE  RetagInv'
<1>1. WalkInv'
    <2>1. WalkInv /\ UNCHANGED walkVars => WalkInv'
        BY EndKeeps DEF walkVars
    <2>2. QED
        BY <2>1, StartKeeps, VisitorKeeps, ReturnKeeps, EndKeeps DEF RetagInv, Around
<1>2. RetagTypeOK'
    BY <1>1 DEF RetagInv, RetagTypeOK, WalkInv, Released, Tags
<1>3. TagsInv' /\ ProgressInv' /\ DoneMeansTagged' /\ ReleasedHaveVersion'
    BY DEF RetagInv, TagsInv, ProgressInv, DoneMeansTagged, ReleasedHaveVersion, IsReleased, Released, Tags
<1>4. EndsDone'
    <2>1. failed \subseteq failed'
        BY DEF Around, Start, Load, Store, Return, EndWalk, walkVars
    <2>2. \A c \in Calls : visitor'[c] = "returned" => visitor[c] = "returned"
        BY DEF Around, Start, Load, Store, Return, EndWalk, walkVars,
            RetagInv, WalkInv, WalkTypeOK
    <2>3. QED
        BY <2>1, <2>2 DEF RetagInv, EndsDone
<1>5. QED
    BY <1>1, <1>2, <1>3, <1>4 DEF RetagInv, RegistryInv

\* A visitor that returns, with an error or with its image done.
LEMMA EndVisitKeeps ==
    ASSUME RetagInv, NEW c \in Calls, NEW err \in BOOLEAN, EndVisit(c, err),
           UNCHANGED <<pos, release, rebuilt, registry>>,
           \/ err /\ retagDone' = retagDone
           \/ retagDone[NodeOf[c]] /\ retagDone' = retagDone
           \/ /\ retagDone' = [retagDone EXCEPT ![NodeOf[c]] = TRUE]
              /\ registry[NodeOf[c]]["hash"] = "new" /\ IsReleased(NodeOf[c])
    PROVE  RetagInv'
<1>1. WalkInv'
    BY VisitorKeeps DEF RetagInv
<1>2. NodeOf[c] \in Nodes
    BY CallsType
<1>3. /\ retagDone' \in [Nodes -> BOOLEAN]
      /\ \A n \in Nodes : retagDone[n] => retagDone'[n]
      /\ \A n \in Nodes : retagDone'[n] =>
            retagDone[n] \/ (registry[n]["hash"] = "new" /\ IsReleased(n))
      /\ ~err => retagDone'[NodeOf[c]]
    BY <1>2 DEF RetagInv, RetagTypeOK
<1>4. RetagTypeOK'
    BY <1>1, <1>3 DEF RetagInv, RetagTypeOK, WalkInv, Released, Tags
<1>5. TagsInv' /\ ProgressInv' /\ ReleasedHaveVersion'
    BY DEF RetagInv, TagsInv, ProgressInv, ReleasedHaveVersion, Released, Tags
<1>6. DoneMeansTagged'
    BY <1>3 DEF RetagInv, DoneMeansTagged, IsReleased, Released
<1>7. EndsDone'
    <2>1. /\ \A d \in Calls : d # c => visitor'[d] = visitor[d]
          /\ failed \subseteq failed' /\ (err => c \in failed')
        BY DEF EndVisit, RetagInv, WalkInv, WalkTypeOK
    <2>2. \A d \in Calls : NodeOf[d] \in Nodes
        BY CallsType
    <2>3. QED
        BY <1>3, <2>1, <2>2 DEF RetagInv, EndsDone
<1>8. QED
    BY <1>1, <1>4, <1>5, <1>6, <1>7 DEF RetagInv, RegistryInv

\* A visitor that goes on to its next tag, with one tag of its image on this
\* run's build or no tag changed.
LEMMA AdvanceKeeps ==
    ASSUME RetagInv, NEW c \in Calls, visitor[c] = "visit",
           pos[c] <= 1 + Len(Released(NodeOf[c])), Advance(c),
           UNCHANGED <<walkVars, release, rebuilt, retagDone>>,
           \/ registry' = registry
           \/ \E t \in Tags(NodeOf[c]) \ {"dev"} :
                /\ registry' = [registry EXCEPT ![NodeOf[c]][t] = "new"]
                /\ t # "hash" => release /\ registry[NodeOf[c]]["hash"] = "new",
           pos[c] = 1 => registry'[NodeOf[c]]["hash"] = "new",
           \A i \in DOMAIN Released(NodeOf[c]) :
                pos[c] = i + 1 => registry'[NodeOf[c]][Released(NodeOf[c])[i]] = "new"
    PROVE  RetagInv'
<1>1. WalkInv'
    BY EndKeeps DEF RetagInv, walkVars
<1>2. \A d \in Calls : NodeOf[d] \in Nodes
    BY CallsType
<1>3. /\ pos' \in [Calls -> Nat] /\ pos'[c] = pos[c] + 1 /\ pos[c] \in Nat
      /\ \A d \in Calls : d # c => pos'[d] = pos[d]
    BY DEF Advance, RetagInv, RetagTypeOK
<1>4. \A n \in Nodes : /\ Len(Released(n)) \in Nat
                       /\ DOMAIN Released(n) = 1..Len(Released(n))
                       /\ \A i \in DOMAIN Released(n) : Released(n)[i] \in Tags(n) \ {"dev", "hash"}
    BY ReleasedTags DEF RetagInv, RetagTypeOK
<1>5. UNCHANGED <<release, rebuilt, retagDone, visitor, failed>>
    BY DEF walkVars
<1>6. /\ \A n \in Nodes : registry'[n] \in [Tags(n) -> Builds]
      /\ \A n \in Nodes : \A t \in Tags(n) :
            /\ registry[n][t] = "new" => registry'[n][t] = "new"
            /\ registry'[n][t] # registry[n][t] =>
                /\ t # "dev" /\ registry'[n][t] = "new"
                /\ t # "hash" => release /\ registry[n]["hash"] = "new"
    <2>1. \A n \in Nodes : registry[n] \in [Tags(n) -> Builds]
        BY DEF RetagInv, RetagTypeOK
    <2>2. ASSUME NEW n \in Nodes, NEW t \in Tags(NodeOf[c]) \ {"dev"},
                 registry' = [registry EXCEPT ![NodeOf[c]][t] = "new"]
          PROVE  /\ registry'[n] \in [Tags(n) -> Builds]
                 /\ \A u \in Tags(n) :
                        registry'[n][u] = IF n = NodeOf[c] /\ u = t THEN "new" ELSE registry[n][u]
        <3>1. n \in DOMAIN registry /\ NodeOf[c] \in DOMAIN registry
            BY <1>2 DEF RetagInv, RegistryInv
        <3>2. QED
            BY <1>2, <2>1, <2>2, <3>1 DEF Builds
    <2>3. CASE registry' = registry
        BY <2>1, <2>3
    <2>4. CASE \E t \in Tags(NodeOf[c]) \ {"dev"} :
                /\ registry' = [registry EXCEPT ![NodeOf[c]][t] = "new"]
                /\ t # "hash" => release /\ registry[NodeOf[c]]["hash"] = "new"
        <3>1. PICK t \in Tags(NodeOf[c]) \ {"dev"} :
                /\ registry' = [registry EXCEPT ![NodeOf[c]][t] = "new"]
                /\ t # "hash" => release /\ registry[NodeOf[c]]["hash"] = "new"
            BY <2>4
        <3>2. \A n \in Nodes :
                /\ registry'[n] \in [Tags(n) -> Builds]
                /\ \A u \in Tags(n) :
                    registry'[n][u] = IF n = NodeOf[c] /\ u = t THEN "new" ELSE registry[n][u]
            BY <2>2, <3>1
        <3>3. QED
            BY <3>1, <3>2
    <2>5. QED
        BY <2>3, <2>4
<1>7. \A n \in Nodes : {"dev", "hash"} \subseteq Tags(n)
    BY DEF Tags
<1>8. RetagTypeOK'
    <2>1. \A d \in Calls : pos'[d] <= 2 + Len(Released(NodeOf[d]))
        <3>1. ASSUME NEW d \in Calls, d # c PROVE pos'[d] <= 2 + Len(Released(NodeOf[d]))
            BY <1>3, <3>1 DEF RetagInv, RetagTypeOK
        <3>2. Len(Released(NodeOf[c])) \in Nat
            BY <1>2, <1>4
        <3>3. pos'[c] <= 2 + Len(Released(NodeOf[c]))
            BY <1>3, <3>2
        <3>4. QED
            BY <3>1, <3>3
    <2>2. \A n \in Nodes : registry'[n] \in [Tags(n) -> Builds]
        BY <1>6
    <2>3. WalkTypeOK' /\ pos' \in [Calls -> Nat]
        BY <1>1, <1>3 DEF WalkInv
    <2>4. QED
        BY <1>5, <2>1, <2>2, <2>3 DEF RetagInv, RetagTypeOK, Released
<1>9. TagsInv'
    BY <1>5, <1>6, <1>7 DEF RetagInv, TagsInv
<1>10. ProgressInv'
    <2> SUFFICES ASSUME NEW d \in Calls
                 PROVE  /\ pos'[d] >= 2 => registry'[NodeOf[d]]["hash"] = "new"
                        /\ \A i \in DOMAIN Released(NodeOf[d]) :
                            pos'[d] >= i + 2 => registry'[NodeOf[d]][Released(NodeOf[d])[i]] = "new"
        BY <1>5 DEF ProgressInv, Released
    <2>1. /\ pos[d] >= 2 => registry'[NodeOf[d]]["hash"] = "new"
          /\ \A i \in DOMAIN Released(NodeOf[d]) :
                pos[d] >= i + 2 => registry'[NodeOf[d]][Released(NodeOf[d])[i]] = "new"
        BY <1>2, <1>4, <1>6, <1>7 DEF RetagInv, ProgressInv
    <2>2. CASE d = c
        BY <1>2, <1>3, <1>4, <2>1, <2>2
    <2>3. CASE d # c
        BY <1>3, <2>1, <2>3
    <2>4. QED
        BY <2>2, <2>3
<1>11. EndsDone'
    BY <1>5 DEF RetagInv, EndsDone
<1>12. DoneMeansTagged'
    <2> SUFFICES ASSUME NEW n \in Nodes, retagDone[n]
                 PROVE  /\ registry'[n]["hash"] = "new"
                        /\ \A i \in DOMAIN Released(n) : registry'[n][Released(n)[i]] = "new"
        BY <1>5 DEF DoneMeansTagged, IsReleased, Released
    <2>1. QED
        BY <1>4, <1>6, <1>7 DEF RetagInv, DoneMeansTagged, IsReleased
<1>13. ReleasedHaveVersion'
    BY <1>5, <1>6, <1>7 DEF RetagInv, ReleasedHaveVersion, Tags
<1>14. RegistryInv'
    BY DEF RetagInv, RegistryInv
<1>15. QED
    BY <1>1, <1>8, <1>9, <1>10, <1>11, <1>12, <1>13, <1>14 DEF RetagInv

\* One tag: an error ends the visit, anything else sets the tag.
LEMMA TagKeeps ==
    ASSUME RetagInv, NEW c \in Calls, visitor[c] = "visit", NEW from \in {"dev", "hash"},
           NEW to \in Tags(NodeOf[c]) \ {"dev"}, Tag(c, from, to),
           pos[c] <= 1 + Len(Released(NodeOf[c])),
           registry[NodeOf[c]][from] = "new",
           to # "hash" => release /\ registry[NodeOf[c]]["hash"] = "new",
           pos[c] = 1 => to = "hash",
           \A i \in DOMAIN Released(NodeOf[c]) : pos[c] = i + 1 => to = Released(NodeOf[c])[i]
    PROVE  RetagInv'
<1>1. CASE EndVisit(c, TRUE) /\ UNCHANGED <<pos, release, rebuilt, retagDone, registry>>
    BY <1>1, EndVisitKeeps
<1>2. CASE /\ registry' = [registry EXCEPT ![NodeOf[c]][to] = registry[NodeOf[c]][from]]
           /\ Advance(c)
           /\ UNCHANGED <<walkVars, release, rebuilt, retagDone>>
    <2>1. registry' = [registry EXCEPT ![NodeOf[c]][to] = "new"]
        BY <1>2
    <2>2. registry'[NodeOf[c]][to] = "new"
        BY <2>1, CallsType DEF RetagInv, RetagTypeOK, RegistryInv
    <2>3. QED
        BY <1>2, <2>1, <2>2, AdvanceKeeps
<1>3. QED
    BY <1>1, <1>2 DEF Tag

\* Every step of the visitor.
LEMMA VisitKeeps ==
    ASSUME RetagInv, NEW c \in Calls, TestDone(c) \/ TagVersion(c) \/ TagRelease(c) \/ Finish(c)
    PROVE  RetagInv'
<1> DEFINE n == NodeOf[c]
<1>1. /\ n \in Nodes /\ visitor[c] = "visit" /\ pos[c] \in Nat
      /\ Len(Released(n)) \in Nat /\ DOMAIN Released(n) = 1..Len(Released(n))
      /\ \A i \in DOMAIN Released(n) : release /\ Released(n)[i] \in Tags(n) \ {"dev", "hash"}
    BY ReleasedTags, CallsType DEF TestDone, TagVersion, TagRelease, Finish, RetagInv, RetagTypeOK
<1>2. CASE TestDone(c)
    <2>1. CASE retagDone[n]
        <3>1. EndVisit(c, FALSE) /\ UNCHANGED <<pos, release, rebuilt, retagDone, registry>>
            BY <1>2, <2>1 DEF TestDone
        <3>2. QED
            BY <2>1, <3>1, EndVisitKeeps
    <2>2. CASE ~retagDone[n]
        <3>1. /\ pos[c] = 0 /\ Advance(c)
              /\ UNCHANGED <<walkVars, release, rebuilt, retagDone, registry>>
            BY <1>2, <2>2 DEF TestDone
        <3>2. QED
            BY <1>1, <3>1, AdvanceKeeps
    <2>3. QED
        BY <2>1, <2>2
<1>3. CASE TagVersion(c)
    <2>1. pos[c] = 1 /\ \A i \in DOMAIN Released(n) : pos[c] # i + 1
        BY <1>1, <1>3 DEF TagVersion
    <2>2. CASE rebuilt[n]
        <3>1. Tag(c, "dev", "hash") /\ registry[n]["dev"] = "new"
            BY <1>1, <1>3, <2>2 DEF TagVersion, RetagInv, TagsInv
        <3>2. "hash" \in Tags(n) \ {"dev"}
            BY DEF Tags
        <3>3. QED
            BY <1>1, <2>1, <3>1, <3>2, TagKeeps
    <2>3. CASE ~rebuilt[n]
        <3>1. /\ Advance(c) /\ registry[n]["hash"] = "new"
              /\ UNCHANGED <<walkVars, release, rebuilt, retagDone, registry>>
            BY <1>1, <1>3, <2>3 DEF TagVersion, RetagInv, TagsInv
        <3>2. QED
            BY <1>1, <2>1, <3>1, AdvanceKeeps
    <2>4. QED
        BY <2>2, <2>3
<1>4. CASE TagRelease(c)
    <2>1. pos[c] - 1 \in DOMAIN Released(n) /\ Tag(c, "hash", Released(n)[pos[c] - 1])
        BY <1>4 DEF TagRelease
    <2>2. pos[c] >= 2 /\ pos[c] <= 1 + Len(Released(n))
        BY <1>1, <2>1
    <2>3. registry[n]["hash"] = "new"
        BY <2>2 DEF RetagInv, ProgressInv
    <2>4. \A i \in DOMAIN Released(n) : pos[c] = i + 1 => i = pos[c] - 1
        BY <1>1
    <2>5. Released(n)[pos[c] - 1] \in Tags(n) \ {"dev"} /\ release
        BY <1>1, <2>1
    <2>6. QED
        BY <1>1, <2>1, <2>2, <2>3, <2>4, <2>5, TagKeeps
<1>5. CASE Finish(c)
    <2>1. registry[n]["hash"] = "new" /\ IsReleased(n)
        BY <1>1, <1>5 DEF Finish, RetagInv, ProgressInv, IsReleased
    <2>2. QED
        BY <1>5, <2>1, EndVisitKeeps DEF Finish
<1>6. QED
    BY <1>2, <1>3, <1>4, <1>5

\* The invariant of Retag.
THEOREM RetagInvariant == RetagSpec => []RetagInv
<1>1. RetagInv /\ [RetagNext]_retagVars => RetagInv'
    <2> SUFFICES ASSUME RetagInv, [RetagNext]_retagVars PROVE RetagInv'
        OBVIOUS
    <2>1. ASSUME NEW c \in Calls, RetagGoroutine(c) PROVE RetagInv'
        BY <2>1, WalkKeeps, VisitKeeps DEF RetagGoroutine, TaggingWalk
    <2>2. CASE EndRetag
        BY <2>2, WalkKeeps DEF EndRetag
    <2>3. CASE UNCHANGED retagVars
        BY <2>3, WalkKeeps DEF retagVars
    <2>4. QED
        BY <2>1, <2>2, <2>3 DEF RetagNext, RetagReturned
<1>2. QED
    BY RetagInvInit, <1>1, PTL DEF RetagSpec

\* So is Retag a WalkAsyncErr, with the tags as what its visitor does.
THEOREM RetagIsAWalk == RetagSpec => WalkInit /\ [][WalkNext]_walkVars
<1>1. RetagInit => WalkInit
    BY DEF RetagInit
<1>2. [RetagNext]_retagVars => [WalkNext]_walkVars
    <2>1. SUFFICES ASSUME [RetagNext]_retagVars PROVE WalkNext \/ UNCHANGED walkVars
        OBVIOUS
    <2>2. ASSUME NEW c \in Calls, RetagGoroutine(c) PROVE WalkNext \/ UNCHANGED walkVars
        <3>1. CASE TaggingWalk(c)
            BY <3>1 DEF TaggingWalk, WalkNext, WalkGoroutine
        <3>2. ASSUME NEW err \in BOOLEAN, EndVisit(c, err) PROVE WalkNext
            BY <3>2 DEF WalkNext, WalkGoroutine
        <3>3. CASE TestDone(c) \/ Finish(c)
            BY <3>2, <3>3 DEF TestDone, Finish
        <3>4. ASSUME NEW from, NEW to, Tag(c, from, to)
              PROVE  WalkNext \/ UNCHANGED walkVars
            BY <3>2, <3>4 DEF Tag
        <3>5. CASE TagVersion(c) \/ TagRelease(c)
            BY <3>4, <3>5 DEF TagVersion, TagRelease
        <3>6. QED
            BY <2>2, <3>1, <3>3, <3>5 DEF RetagGoroutine
    <2>3. CASE EndRetag
        BY <2>3 DEF EndRetag, WalkNext
    <2>4. CASE RetagReturned \/ UNCHANGED retagVars
        BY <2>4 DEF RetagReturned, retagVars
    <2>5. QED
        BY <2>1, <2>2, <2>3, <2>4 DEF RetagNext
<1>3. QED
    BY <1>1, <1>2, PTL DEF RetagSpec

\* Every variable keeps its type.
THEOREM RetagTypeCorrect == RetagSpec => []RetagTypeOK
BY RetagInvariant, PTL DEF RetagInv

\* An image with RetagDone has its tags, whichever goroutine has set them, so the
\* other goroutine may return.  dib/tag.go:16.
THEOREM DoneImagesAreTagged == RetagSpec => []DoneMeansTagged
BY RetagInvariant, PTL DEF RetagInv

\* No tag that --release moves is ever ahead of the version tag.  dib/tag.go:23-44.
THEOREM ReleasesHaveVersions == RetagSpec => []ReleasedHaveVersion
BY RetagInvariant, PTL DEF RetagInv

\* Retag returns nil only when every image has its tags, although a goroutine may
\* leave an image to another that has not begun, and that one may fail.
\* dib/tag.go:13, dag/dag.go:147.
THEOREM SuccessTagsAll == RetagSpec => []SuccessMeansTagged
<1>1. RetagInv => SuccessMeansTagged
    <2> SUFFICES ASSUME RetagInv, result = "ok", NEW n \in Nodes
                 PROVE  registry[n]["hash"] = "new" /\ IsReleased(n)
        BY DEF SuccessMeansTagged
    <2>1. failed = {}
        BY NoErrorLeft DEF RetagInv, NoErrorLost
    <2>2. PICK c \in Calls : NodeOf[c] = n /\ visitor[c] = "returned"
        BY AllVisited DEF RetagInv, EveryNodeVisited
    <2>3. retagDone[n]
        BY <2>1, <2>2 DEF RetagInv, EndsDone
    <2>4. QED
        BY <2>3 DEF RetagInv, DoneMeansTagged
<1>2. QED
    BY <1>1, RetagInvariant, PTL

=============================================================================
