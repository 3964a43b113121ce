------------------------- MODULE RebuildGraphProofs -------------------------
(***************************************************************************)
(* Proofs about RebuildGraph, for every finite DAG, every set of images    *)
(* Plan may mark, and every capacity of the limiter.                       *)
(***************************************************************************)
EXTENDS RebuildGraph, TLAPS, FiniteSetTheorems

\* The parents of an image are images of the graph.
LEMMA ParentsAreNodes == \A n \in Nodes : ParentsOf(n) \subseteq Nodes
BY GraphType DEF ParentsOf, Elements

\* No image is its own parent.
LEMMA NotOwnParent ==
    ASSUME NEW n \in Nodes
    PROVE  n \notin ParentsOf(n)
<1>1. \E m \in {n} : ParentsOf(m) \cap {n} = {}
    BY Acyclic
<1>2. QED
    BY <1>1

-----------------------------------------------------------------------------

\* The labels of buildNode while it holds a permit.
Permit == {"replace", "prepare", "build", "reset", "release"}

\* The labels before the outcome of an image is known.
Undecided == {"acquire", "tests"} \cup Permit

\* The visitor runs while the walk visits, and only after the parents' visits.
WalkInv ==
    \A n \in Nodes :
        /\ status[n] = "waiting" <=> pc[n] = "idle"
        /\ status[n] = "visited" => pc[n] = "leave"
        /\ pc[n] # "idle" => \A p \in ParentsOf(n) : status[p] = "visited"

PermitInv == limiter = Cardinality(InBuildNode)

\* An image on its way to an outcome has not failed, and no parent of it has.
\* Parents no longer change, because their visits are over.
HealthyInv ==
    \A n \in Nodes :
        /\ pc[n] = "idle" => ~rebuildFailed[n]
        /\ pc[n] \in Undecided =>
            /\ Concerned(n)
            /\ ~rebuildFailed[n]
            /\ \A p \in ParentsOf(n) : ~rebuildFailed[p]

\* Plan asks for tests only on images it rebuilds.
PlanInv == \A n \in Nodes : needsTests[n] => needsRebuild[n]

\* What the local report says before the outcome is known.
LocalInv ==
    \A n \in Nodes :
        /\ pc[n] \in {"idle", "acquire", "replace", "prepare", "build"} =>
            buildReport[n].build = "skipped"
        /\ pc[n] = "tests" => buildReport[n].build = "success"
        /\ pc[n] \in {"reset", "release"} =>
            buildReport[n].build = "error" \/ n \in built

\* A build that is reported as a success has happened.
BuiltInv == \A n \in Nodes : buildReport[n].build = "success" => n \in built

\* What the local report says once the outcome is known.
OutcomeInv ==
    \A n \in Nodes : pc[n] \in {"send", "leave"} /\ Concerned(n) =>
        \/ /\ rebuildFailed[n]
           /\ buildReport[n].build = "error"
        \/ /\ rebuildFailed[n]
           /\ buildReport[n].build = "skipped"
           /\ \E p \in ParentsOf(n) : rebuildFailed[p]
        \/ /\ ~rebuildFailed[n]
           /\ buildReport[n].build = "success"
           /\ needsTests[n] => buildReport[n].tests \in {"passed", "failed"}

\* An image Plan left alone never counts as failed.
UnconcernedInv == \A n \in Nodes : rebuildFailed[n] => Concerned(n)

\* Only images that are reported are sent.
SendInv == \A n \in Nodes : pc[n] = "send" => Concerned(n)

\* The reports received are those of the images past their Send.
ReportsInv ==
    /\ \A r \in reports : /\ pc[r[1]] = "leave"
                          /\ Concerned(r[1])
                          /\ r[2] = buildReport[r[1]]
    /\ \A n \in Nodes : pc[n] = "leave" /\ Concerned(n) =>
                            <<n, buildReport[n]>> \in reports

DockerfileInv ==
    /\ \A n \in Nodes : pc[n] \in {"prepare", "build"} => dockerfile[n] = ParentsOf(n)
    /\ DockerfilesRestored

CloseInv == /\ closed => \A n \in Nodes : status[n] = "visited"
            /\ returned => closed

IInv ==
    /\ TypeOK
    /\ WalkInv
    /\ PermitInv
    /\ HealthyInv
    /\ PlanInv
    /\ LocalInv
    /\ BuiltInv
    /\ OutcomeInv
    /\ SendInv
    /\ UnconcernedInv
    /\ ReportsInv
    /\ DockerfileInv
    /\ CloseInv

-----------------------------------------------------------------------------
(* The inductive invariant is kept by every action.                        *)

\* A step that moves one image within buildNode, or outside it, keeps the
\* permits; entering takes one and leaving gives one back.
LEMMA PermitStep ==
    ASSUME NEW n \in Nodes, TypeOK, PermitInv,
           \A m \in Nodes \ {n} : pc'[m] = pc[m]
    PROVE  /\ (pc[n] \in Permit <=> pc'[n] \in Permit) /\ limiter' = limiter
                => PermitInv'
           /\ pc[n] \notin Permit /\ pc'[n] \in Permit /\ limiter' = limiter + 1
                => PermitInv'
           /\ pc[n] \in Permit /\ pc'[n] \notin Permit /\ limiter' = limiter - 1
                => PermitInv'
<1>1. IsFiniteSet(InBuildNode)
    BY GraphType, FS_Subset DEF InBuildNode
<1>2. Cardinality(InBuildNode) \in Nat
    BY <1>1, FS_CardinalityType
<1>3. ASSUME pc[n] \in Permit <=> pc'[n] \in Permit
      PROVE  InBuildNode' = InBuildNode
    BY <1>3 DEF InBuildNode, Permit
<1>4. ASSUME pc[n] \notin Permit, pc'[n] \in Permit
      PROVE  Cardinality(InBuildNode') = Cardinality(InBuildNode) + 1
    <2>1. InBuildNode' = InBuildNode \cup {n} /\ n \notin InBuildNode
        BY <1>4 DEF InBuildNode, Permit
    <2>2. QED
        BY <1>1, <2>1, FS_AddElement
<1>5. ASSUME pc[n] \in Permit, pc'[n] \notin Permit
      PROVE  Cardinality(InBuildNode') = Cardinality(InBuildNode) - 1
    <2>1. InBuildNode' = InBuildNode \ {n} /\ n \in InBuildNode
        BY <1>5 DEF InBuildNode, Permit
    <2>2. QED
        BY <1>1, <2>1, FS_RemoveElement
<1>6. QED
    BY <1>2, <1>3, <1>4, <1>5 DEF PermitInv

\* Filling in a field of a report gives a report.
LEMMA ReportFields ==
    \A r \in Report :
        /\ [r EXCEPT !.build = "error"] \in Report
        /\ [r EXCEPT !.build = "success"] \in Report
        /\ \A t \in {"passed", "failed"} : [r EXCEPT !.tests = t] \in Report
BY DEF Report

\* While an image is in buildNode at least one permit is taken.
LEMMA PermitTaken ==
    ASSUME NEW n \in Nodes, PermitInv, pc[n] \in Permit, limiter \in Nat
    PROVE  limiter > 0
<1>1. IsFiniteSet(InBuildNode) /\ InBuildNode # {}
    BY GraphType, FS_Subset DEF InBuildNode, Permit
<1>2. QED
    BY <1>1, FS_CardinalityType, FS_EmptySet DEF PermitInv

\* The invariant holds when RebuildGraph starts.
LEMMA IInvInit == Init => IInv
<1> SUFFICES ASSUME Init PROVE IInv
    OBVIOUS
<1> USE DEF Init, Walk!Init
<1>1. TypeOK
    <2>1. limiter \in 0..Concurrency
        BY ConcurrencyAssumption
    <2>2. needsRebuild \in [Nodes -> BOOLEAN] /\ needsTests \in [Nodes -> BOOLEAN]
        OBVIOUS
    <2>3. [build |-> "skipped", tests |-> "skipped"] \in Report
        BY DEF Report
    <2>4. QED
        BY <2>1, <2>2, <2>3 DEF TypeOK, PC
<1>2. WalkInv /\ HealthyInv /\ PlanInv /\ LocalInv /\ BuiltInv
    BY DEF WalkInv, HealthyInv, Undecided, Permit, PlanInv, LocalInv, BuiltInv
<1>3. PermitInv
    <2>1. InBuildNode = {}
        BY DEF InBuildNode
    <2>2. QED
        BY <2>1, FS_EmptySet DEF PermitInv
<1>4. OutcomeInv /\ SendInv /\ UnconcernedInv /\ ReportsInv
    BY DEF OutcomeInv, SendInv, UnconcernedInv, ReportsInv
<1>5. DockerfileInv /\ CloseInv
    BY DEF DockerfileInv, DockerfilesRestored, CloseInv
<1>6. QED
    BY <1>1, <1>2, <1>3, <1>4, <1>5 DEF IInv

\* Entering the visitor keeps the invariant.
LEMMA BeginKeeps ==
    ASSUME NEW n \in Nodes, IInv, Begin(n)
    PROVE  IInv'
<1>0. TypeOK /\ \A m \in Nodes : ParentsOf(m) \subseteq Nodes \ {m}
    BY ParentsAreNodes, NotOwnParent DEF IInv
<1>1. /\ status[n] = "waiting" /\ pc[n] = "idle" /\ ~rebuildFailed[n]
      /\ \A p \in ParentsOf(n) : status[p] = "visited"
      /\ buildReport[n].build = "skipped"
    BY <1>0 DEF Begin, Walk!Visit, Walk!ParentsVisited, Walk!ParentsOf, Walk!Elements,
        ParentsOf, Elements, IInv, WalkInv, HealthyInv, LocalInv
<1>2. /\ status' = [status EXCEPT ![n] = "visiting"]
      /\ \A m \in Nodes \ {n} : /\ pc'[m] = pc[m]
                                /\ status'[m] = status[m]
                                /\ rebuildFailed'[m] = rebuildFailed[m]
      /\ status'[n] = "visiting"
      /\ UNCHANGED <<needsRebuild, needsTests, limiter, dockerfile, writeFailed, built,
                     buildReport, reports, closed, returned>>
    BY <1>0 DEF Begin, Walk!Visit, Goto, TypeOK, flags, files, channel
<1>3. \A m \in Nodes : Concerned(m)' = Concerned(m)
    BY <1>2 DEF Concerned
<1>4. pc' \in [Nodes -> PC] /\ rebuildFailed' \in [Nodes -> BOOLEAN]
    BY <1>0 DEF Begin, Goto, TypeOK, PC
<1>5. \/ ~Concerned(n) /\ pc'[n] = "leave" /\ ~rebuildFailed'[n]
      \/ Concerned(n) /\ ParentFailed(n) /\ pc'[n] = "send" /\ rebuildFailed'[n]
      \/ /\ Concerned(n) /\ needsRebuild[n] /\ ~ParentFailed(n)
         /\ pc'[n] = "acquire" /\ ~rebuildFailed'[n]
    <2>1. needsTests[n] => needsRebuild[n]
        BY DEF IInv, PlanInv
    <2>2. QED
        BY <1>0, <1>1, <2>1 DEF Begin, Goto, TypeOK, Concerned
<1>6. \A p \in ParentsOf(n) : rebuildFailed'[p] = rebuildFailed[p]
    BY <1>0, <1>2
<1>7. TypeOK'
    BY <1>0, <1>2, <1>4 DEF TypeOK
<1>8. WalkInv'
    BY <1>0, <1>1, <1>2, <1>5 DEF IInv, WalkInv
<1>9. PermitInv'
    BY <1>0, <1>1, <1>2, <1>5, PermitStep DEF IInv, Permit
<1>10. HealthyInv'
    <2>1. SUFFICES ASSUME NEW m \in Nodes
                   PROVE  /\ pc'[m] = "idle" => ~rebuildFailed'[m]
                          /\ pc'[m] \in Undecided =>
                                /\ Concerned(m)'
                                /\ ~rebuildFailed'[m]
                                /\ \A p \in ParentsOf(m) : ~rebuildFailed'[p]
        BY DEF HealthyInv
    <2>2. CASE m = n
        BY <1>3, <1>5, <1>6, <2>2 DEF Undecided, Permit, ParentFailed
    <2>3. CASE m # n
        <3>1. \A p \in ParentsOf(m) : pc[m] # "idle" => p # n
            BY <1>1 DEF IInv, WalkInv
        <3>2. QED
            BY <1>0, <1>2, <1>3, <2>3, <3>1 DEF IInv, HealthyInv, Undecided, Permit
    <2>4. QED
        BY <2>2, <2>3
<1>11. PlanInv' /\ UnconcernedInv' /\ SendInv'
    BY <1>2, <1>3, <1>5 DEF IInv, PlanInv, UnconcernedInv, SendInv
<1>12. LocalInv' /\ BuiltInv'
    BY <1>1, <1>2, <1>5 DEF IInv, LocalInv, BuiltInv
<1>13. OutcomeInv'
    <2>1. \A m \in Nodes : rebuildFailed[m] => rebuildFailed'[m]
        BY <1>1, <1>2
    <2>2. SUFFICES ASSUME NEW m \in Nodes, pc'[m] \in {"send", "leave"}, Concerned(m)'
                   PROVE  \/ rebuildFailed'[m] /\ buildReport'[m].build = "error"
                          \/ /\ rebuildFailed'[m]
                             /\ buildReport'[m].build = "skipped"
                             /\ \E p \in ParentsOf(m) : rebuildFailed'[p]
                          \/ /\ ~rebuildFailed'[m]
                             /\ buildReport'[m].build = "success"
                             /\ needsTests'[m] =>
                                    buildReport'[m].tests \in {"passed", "failed"}
        BY DEF OutcomeInv
    <2>3. CASE m = n
        BY <1>1, <1>2, <1>3, <1>5, <1>6, <2>2, <2>3 DEF ParentFailed
    <2>4. CASE m # n
        BY <1>0, <1>2, <1>3, <2>1, <2>2, <2>4 DEF IInv, OutcomeInv
    <2>5. QED
        BY <2>3, <2>4
<1>14. ReportsInv'
    BY <1>0, <1>1, <1>2, <1>3, <1>5 DEF IInv, ReportsInv, TypeOK
<1>15. DockerfileInv'
    BY <1>1, <1>2, <1>5 DEF IInv, DockerfileInv, DockerfilesRestored
<1>16. CloseInv'
    BY <1>1, <1>2 DEF IInv, CloseInv
<1>17. QED
    BY <1>7, <1>8, <1>9, <1>10, <1>11, <1>12, <1>13, <1>14, <1>15, <1>16 DEF IInv

\* Taking a permit keeps the invariant.
LEMMA AcquireKeeps ==
    ASSUME NEW n \in Nodes, IInv, Acquire(n)
    PROVE  IInv'
<1> USE DEF Acquire, Goto, flags, files, channel
<1>0. TypeOK /\ \A m \in Nodes : ParentsOf(m) \subseteq Nodes \ {m}
    BY ParentsAreNodes, NotOwnParent DEF IInv
<1>1. TypeOK'
    BY <1>0, ConcurrencyAssumption DEF TypeOK, PC, Report
<1>2. WalkInv'
    BY <1>0 DEF IInv, WalkInv, TypeOK
<1>3. PermitInv'
    BY <1>0, PermitStep DEF IInv, TypeOK, Permit
<1>4. HealthyInv'
    BY <1>0 DEF IInv, HealthyInv, WalkInv, TypeOK, Undecided, Permit, Concerned
<1>5. PlanInv' /\ UnconcernedInv' /\ SendInv'
    BY <1>0 DEF IInv, PlanInv, UnconcernedInv, SendInv, HealthyInv, TypeOK, Undecided, Permit, Concerned
<1>6. LocalInv' /\ BuiltInv'
    BY <1>0 DEF IInv, LocalInv, BuiltInv, TypeOK, Report
<1>7. OutcomeInv'
    BY <1>0 DEF IInv, OutcomeInv, WalkInv, LocalInv, HealthyInv, PlanInv, Concerned,
        Undecided, Permit, TypeOK, Report
<1>8. ReportsInv'
    BY <1>0 DEF IInv, ReportsInv, WalkInv, TypeOK, Concerned
<1>9. DockerfileInv'
    BY <1>0 DEF IInv, DockerfileInv, DockerfilesRestored, TypeOK
<1>10. CloseInv'
    BY <1>0 DEF IInv, CloseInv, WalkInv, TypeOK
<1>11. QED
    BY <1>1, <1>2, <1>3, <1>4, <1>5, <1>6, <1>7, <1>8, <1>9, <1>10 DEF IInv

\* Editing the Dockerfile, whether or not every write succeeds, keeps the invariant.
LEMMA ReplaceRefsKeeps ==
    ASSUME NEW n \in Nodes, IInv, ReplaceRefs(n)
    PROVE  IInv'
<1> USE DEF ReplaceRefs, Goto, flags, files, channel, Fail
<1>0. TypeOK /\ \A m \in Nodes : ParentsOf(m) \subseteq Nodes \ {m}
    BY ParentsAreNodes, NotOwnParent DEF IInv
<1>1. TypeOK'
    <2>0. /\ [buildReport[n] EXCEPT !.build = "error"] \in Report
          /\ [buildReport[n] EXCEPT !.build = "success"] \in Report
        <3>1. buildReport[n] \in Report
            BY <1>0 DEF TypeOK
        <3>2. QED
            BY <3>1, ReportFields
    <2>1. buildReport' \in [Nodes -> Report]
        BY <1>0, <2>0 DEF TypeOK
    <2>2. pc' \in [Nodes -> PC] /\ dockerfile' \in [Nodes -> SUBSET Nodes]
        BY <1>0 DEF TypeOK, PC
    <2>3. QED
        BY <1>0, <2>1, <2>2 DEF TypeOK
<1>2. WalkInv'
    BY <1>0 DEF IInv, WalkInv, TypeOK
<1>3. PermitInv'
    BY <1>0, PermitStep DEF IInv, TypeOK, Permit
<1>4. HealthyInv'
    BY <1>0 DEF IInv, HealthyInv, WalkInv, TypeOK, Undecided, Permit, Concerned
<1>5. PlanInv' /\ UnconcernedInv' /\ SendInv'
    BY <1>0 DEF IInv, PlanInv, UnconcernedInv, SendInv, HealthyInv, TypeOK, Undecided, Permit, Concerned
<1>6. LocalInv' /\ BuiltInv'
    BY <1>0 DEF IInv, LocalInv, BuiltInv, TypeOK, Report
<1>7. OutcomeInv'
    BY <1>0 DEF IInv, OutcomeInv, WalkInv, LocalInv, HealthyInv, PlanInv, Concerned,
        Undecided, Permit, TypeOK, Report
<1>8. ReportsInv'
    BY <1>0 DEF IInv, ReportsInv, WalkInv, TypeOK, Concerned
<1>9. DockerfileInv'
    BY <1>0 DEF IInv, DockerfileInv, DockerfilesRestored, TypeOK
<1>10. CloseInv'
    BY <1>0 DEF IInv, CloseInv, WalkInv, TypeOK
<1>11. QED
    BY <1>1, <1>2, <1>3, <1>4, <1>5, <1>6, <1>7, <1>8, <1>9, <1>10 DEF IInv

\* Creating the log file keeps the invariant.
LEMMA PrepareKeeps ==
    ASSUME NEW n \in Nodes, IInv, Prepare(n)
    PROVE  IInv'
<1> USE DEF Prepare, Goto, flags, files, channel, Fail
<1>0. TypeOK /\ \A m \in Nodes : ParentsOf(m) \subseteq Nodes \ {m}
    BY ParentsAreNodes, NotOwnParent DEF IInv
<1>1. TypeOK'
    <2>0. /\ [buildReport[n] EXCEPT !.build = "error"] \in Report
          /\ [buildReport[n] EXCEPT !.build = "success"] \in Report
        <3>1. buildReport[n] \in Report
            BY <1>0 DEF TypeOK
        <3>2. QED
            BY <3>1, ReportFields
    <2>1. buildReport' \in [Nodes -> Report]
        BY <1>0, <2>0 DEF TypeOK
    <2>2. pc' \in [Nodes -> PC] /\ dockerfile' \in [Nodes -> SUBSET Nodes]
        BY <1>0 DEF TypeOK, PC
    <2>3. QED
        BY <1>0, <2>1, <2>2 DEF TypeOK
<1>2. WalkInv'
    BY <1>0 DEF IInv, WalkInv, TypeOK
<1>3. PermitInv'
    BY <1>0, PermitStep DEF IInv, TypeOK, Permit
<1>4. HealthyInv'
    BY <1>0 DEF IInv, HealthyInv, WalkInv, TypeOK, Undecided, Permit, Concerned
<1>5. PlanInv' /\ UnconcernedInv' /\ SendInv'
    BY <1>0 DEF IInv, PlanInv, UnconcernedInv, SendInv, HealthyInv, TypeOK, Undecided, Permit, Concerned
<1>6. LocalInv' /\ BuiltInv'
    BY <1>0 DEF IInv, LocalInv, BuiltInv, TypeOK, Report
<1>7. OutcomeInv'
    BY <1>0 DEF IInv, OutcomeInv, WalkInv, LocalInv, HealthyInv, PlanInv, Concerned,
        Undecided, Permit, TypeOK, Report
<1>8. ReportsInv'
    BY <1>0 DEF IInv, ReportsInv, WalkInv, TypeOK, Concerned
<1>9. DockerfileInv'
    BY <1>0 DEF IInv, DockerfileInv, DockerfilesRestored, TypeOK
<1>10. CloseInv'
    BY <1>0 DEF IInv, CloseInv, WalkInv, TypeOK
<1>11. QED
    BY <1>1, <1>2, <1>3, <1>4, <1>5, <1>6, <1>7, <1>8, <1>9, <1>10 DEF IInv

\* Building the image keeps the invariant.
LEMMA BuildKeeps ==
    ASSUME NEW n \in Nodes, IInv, Build(n)
    PROVE  IInv'
<1> USE DEF Build, Goto, flags, files, channel, Fail
<1>0. TypeOK /\ \A m \in Nodes : ParentsOf(m) \subseteq Nodes \ {m}
    BY ParentsAreNodes, NotOwnParent DEF IInv
<1>1. TypeOK'
    BY <1>0, ConcurrencyAssumption DEF TypeOK, PC, Report
<1>2. WalkInv'
    BY <1>0 DEF IInv, WalkInv, TypeOK
<1>3. PermitInv'
    BY <1>0, PermitStep DEF IInv, TypeOK, Permit
<1>4. HealthyInv'
    BY <1>0 DEF IInv, HealthyInv, WalkInv, TypeOK, Undecided, Permit, Concerned
<1>5. PlanInv' /\ UnconcernedInv' /\ SendInv'
    BY <1>0 DEF IInv, PlanInv, UnconcernedInv, SendInv, HealthyInv, TypeOK, Undecided, Permit, Concerned
<1>6. LocalInv' /\ BuiltInv'
    BY <1>0 DEF IInv, LocalInv, BuiltInv, TypeOK, Report
<1>7. OutcomeInv'
    BY <1>0 DEF IInv, OutcomeInv, WalkInv, LocalInv, HealthyInv, PlanInv, Concerned,
        Undecided, Permit, TypeOK, Report
<1>8. ReportsInv'
    BY <1>0 DEF IInv, ReportsInv, WalkInv, TypeOK, Concerned
<1>9. DockerfileInv'
    BY <1>0 DEF IInv, DockerfileInv, DockerfilesRestored, TypeOK
<1>10. CloseInv'
    BY <1>0 DEF IInv, CloseInv, WalkInv, TypeOK
<1>11. QED
    BY <1>1, <1>2, <1>3, <1>4, <1>5, <1>6, <1>7, <1>8, <1>9, <1>10 DEF IInv

\* Restoring the Dockerfile, as far as the writes succeed, keeps the invariant.
LEMMA ResetRefsKeeps ==
    ASSUME NEW n \in Nodes, IInv, ResetRefs(n)
    PROVE  IInv'
<1> USE DEF ResetRefs, Goto, flags, files, channel
<1>0. TypeOK /\ \A m \in Nodes : ParentsOf(m) \subseteq Nodes \ {m}
    BY ParentsAreNodes, NotOwnParent DEF IInv
<1>1. TypeOK'
    <2>0. /\ [buildReport[n] EXCEPT !.build = "error"] \in Report
          /\ [buildReport[n] EXCEPT !.build = "success"] \in Report
        <3>1. buildReport[n] \in Report
            BY <1>0 DEF TypeOK
        <3>2. QED
            BY <3>1, ReportFields
    <2>1. buildReport' \in [Nodes -> Report]
        BY <1>0, <2>0 DEF TypeOK
    <2>2. pc' \in [Nodes -> PC] /\ dockerfile' \in [Nodes -> SUBSET Nodes]
        BY <1>0 DEF TypeOK, PC
    <2>3. QED
        BY <1>0, <2>1, <2>2 DEF TypeOK
<1>2. WalkInv'
    BY <1>0 DEF IInv, WalkInv, TypeOK
<1>3. PermitInv'
    BY <1>0, PermitStep DEF IInv, TypeOK, Permit
<1>4. HealthyInv'
    BY <1>0 DEF IInv, HealthyInv, WalkInv, TypeOK, Undecided, Permit, Concerned
<1>5. PlanInv' /\ UnconcernedInv' /\ SendInv'
    BY <1>0 DEF IInv, PlanInv, UnconcernedInv, SendInv, HealthyInv, TypeOK, Undecided, Permit, Concerned
<1>6. LocalInv' /\ BuiltInv'
    BY <1>0 DEF IInv, LocalInv, BuiltInv, TypeOK, Report
<1>7. OutcomeInv'
    BY <1>0 DEF IInv, OutcomeInv, WalkInv, LocalInv, HealthyInv, PlanInv, Concerned,
        Undecided, Permit, TypeOK, Report
<1>8. ReportsInv'
    BY <1>0 DEF IInv, ReportsInv, WalkInv, TypeOK, Concerned
<1>9. DockerfileInv'
    BY <1>0 DEF IInv, DockerfileInv, DockerfilesRestored, TypeOK
<1>10. CloseInv'
    BY <1>0 DEF IInv, CloseInv, WalkInv, TypeOK
<1>11. QED
    BY <1>1, <1>2, <1>3, <1>4, <1>5, <1>6, <1>7, <1>8, <1>9, <1>10 DEF IInv

\* Giving the permit back and recording the outcome keeps the invariant.
LEMMA ReleaseKeeps ==
    ASSUME NEW n \in Nodes, IInv, Release(n)
    PROVE  IInv'
<1> USE DEF Release, Goto, flags, files, channel
<1>0. TypeOK /\ \A m \in Nodes : ParentsOf(m) \subseteq Nodes \ {m}
    BY ParentsAreNodes, NotOwnParent DEF IInv
<1>1. TypeOK'
    <2>0. /\ [buildReport[n] EXCEPT !.build = "error"] \in Report
          /\ [buildReport[n] EXCEPT !.build = "success"] \in Report
        <3>1. buildReport[n] \in Report
            BY <1>0 DEF TypeOK
        <3>2. QED
            BY <3>1, ReportFields
    <2>1. buildReport' \in [Nodes -> Report]
        BY <1>0, <2>0 DEF TypeOK
    <2>2. limiter' \in 0..Concurrency
        <3>1. limiter > 0
            BY <1>0, PermitTaken DEF IInv, TypeOK, Permit
        <3>2. QED
            BY <1>0, <3>1, ConcurrencyAssumption DEF TypeOK
    <2>3. pc' \in [Nodes -> PC] /\ rebuildFailed' \in [Nodes -> BOOLEAN]
        BY <1>0 DEF TypeOK, PC
    <2>4. QED
        BY <1>0, <2>1, <2>2, <2>3 DEF TypeOK
<1>2. WalkInv'
    BY <1>0 DEF IInv, WalkInv, TypeOK
<1>3. PermitInv'
    BY <1>0, PermitStep DEF IInv, TypeOK, Permit
<1>4. HealthyInv'
    BY <1>0 DEF IInv, HealthyInv, WalkInv, TypeOK, Undecided, Permit, Concerned
<1>5. PlanInv' /\ UnconcernedInv' /\ SendInv'
    BY <1>0 DEF IInv, PlanInv, UnconcernedInv, SendInv, HealthyInv, TypeOK, Undecided, Permit, Concerned
<1>6. LocalInv' /\ BuiltInv'
    BY <1>0 DEF IInv, LocalInv, BuiltInv, TypeOK, Report
<1>7. OutcomeInv'
    <2>1. ~rebuildFailed[n] /\ needsTests \in [Nodes -> BOOLEAN]
        BY <1>0 DEF IInv, HealthyInv, Undecided, Permit, TypeOK
    <2>2. \/ rebuildFailed'[n] /\ buildReport'[n].build = "error"
          \/ /\ ~rebuildFailed'[n] /\ buildReport'[n].build = "success"
             /\ pc'[n] = (IF needsTests[n] THEN "tests" ELSE "send")
        BY <1>0, <2>1 DEF TypeOK, Report
    <2>3. \A m \in Nodes \ {n} :
            /\ pc'[m] = pc[m] /\ buildReport'[m] = buildReport[m]
            /\ rebuildFailed'[m] = rebuildFailed[m]
        BY <1>0 DEF TypeOK
    <2>4. \A m \in Nodes : rebuildFailed[m] => rebuildFailed'[m]
        BY <1>0 DEF TypeOK
    <2>5. \A m \in Nodes : needsTests'[m] = needsTests[m] /\ Concerned(m)' = Concerned(m)
        BY DEF Concerned
    <2>6. SUFFICES ASSUME NEW m \in Nodes, pc'[m] \in {"send", "leave"}, Concerned(m)'
                   PROVE  \/ rebuildFailed'[m] /\ buildReport'[m].build = "error"
                          \/ /\ rebuildFailed'[m]
                             /\ buildReport'[m].build = "skipped"
                             /\ \E p \in ParentsOf(m) : rebuildFailed'[p]
                          \/ /\ ~rebuildFailed'[m]
                             /\ buildReport'[m].build = "success"
                             /\ needsTests'[m] =>
                                    buildReport'[m].tests \in {"passed", "failed"}
        BY DEF OutcomeInv
    <2>7. CASE m = n
        BY <2>2, <2>5, <2>6, <2>7
    <2>8. CASE m # n
        <3> HIDE DEF Release, Goto, flags, files, channel
        <3>1. ParentsOf(m) \subseteq Nodes
            BY <1>0
        <3>2. QED
            BY <2>3, <2>4, <2>5, <2>6, <2>8, <3>1 DEF IInv, OutcomeInv
    <2>9. QED
        BY <2>7, <2>8
<1>8. ReportsInv'
    BY <1>0 DEF IInv, ReportsInv, WalkInv, TypeOK, Concerned
<1>9. DockerfileInv'
    BY <1>0 DEF IInv, DockerfileInv, DockerfilesRestored, TypeOK
<1>10. CloseInv'
    BY <1>0 DEF IInv, CloseInv, WalkInv, TypeOK
<1>11. QED
    BY <1>1, <1>2, <1>3, <1>4, <1>5, <1>6, <1>7, <1>8, <1>9, <1>10 DEF IInv

\* Running the tests keeps the invariant.
LEMMA TestKeeps ==
    ASSUME NEW n \in Nodes, IInv, Test(n)
    PROVE  IInv'
<1> USE DEF Test, Goto, flags, files, channel
<1>0. TypeOK /\ \A m \in Nodes : ParentsOf(m) \subseteq Nodes \ {m}
    BY ParentsAreNodes, NotOwnParent DEF IInv
<1>1. TypeOK'
    BY <1>0, ConcurrencyAssumption DEF TypeOK, PC, Report
<1>2. WalkInv'
    BY <1>0 DEF IInv, WalkInv, TypeOK
<1>3. PermitInv'
    BY <1>0, PermitStep DEF IInv, TypeOK, Permit
<1>4. HealthyInv'
    BY <1>0 DEF IInv, HealthyInv, WalkInv, TypeOK, Undecided, Permit, Concerned
<1>5. PlanInv' /\ UnconcernedInv' /\ SendInv'
    BY <1>0 DEF IInv, PlanInv, UnconcernedInv, SendInv, HealthyInv, TypeOK, Undecided, Permit, Concerned
<1>6. LocalInv' /\ BuiltInv'
    BY <1>0 DEF IInv, LocalInv, BuiltInv, TypeOK, Report
<1>7. OutcomeInv'
    BY <1>0 DEF IInv, OutcomeInv, WalkInv, LocalInv, HealthyInv, PlanInv, Concerned,
        Undecided, Permit, TypeOK, Report
<1>8. ReportsInv'
    BY <1>0 DEF IInv, ReportsInv, WalkInv, TypeOK, Concerned
<1>9. DockerfileInv'
    BY <1>0 DEF IInv, DockerfileInv, DockerfilesRestored, TypeOK
<1>10. CloseInv'
    BY <1>0 DEF IInv, CloseInv, WalkInv, TypeOK
<1>11. QED
    BY <1>1, <1>2, <1>3, <1>4, <1>5, <1>6, <1>7, <1>8, <1>9, <1>10 DEF IInv

\* Sending the report keeps the invariant.
LEMMA SendKeeps ==
    ASSUME NEW n \in Nodes, IInv, Send(n)
    PROVE  IInv'
<1> USE DEF Send, Goto, flags, files, channel
<1>0. TypeOK /\ \A m \in Nodes : ParentsOf(m) \subseteq Nodes \ {m}
    BY ParentsAreNodes, NotOwnParent DEF IInv
<1>1. TypeOK'
    BY <1>0, ConcurrencyAssumption DEF TypeOK, PC, Report
<1>2. WalkInv'
    BY <1>0 DEF IInv, WalkInv, TypeOK
<1>3. PermitInv'
    BY <1>0, PermitStep DEF IInv, TypeOK, Permit
<1>4. HealthyInv'
    BY <1>0 DEF IInv, HealthyInv, WalkInv, TypeOK, Undecided, Permit, Concerned
<1>5. PlanInv' /\ UnconcernedInv' /\ SendInv'
    BY <1>0 DEF IInv, PlanInv, UnconcernedInv, SendInv, HealthyInv, TypeOK, Undecided, Permit, Concerned
<1>6. LocalInv' /\ BuiltInv'
    BY <1>0 DEF IInv, LocalInv, BuiltInv, TypeOK, Report
<1>7. OutcomeInv'
    BY <1>0 DEF IInv, OutcomeInv, WalkInv, LocalInv, HealthyInv, PlanInv, Concerned,
        Undecided, Permit, TypeOK, Report
<1>8. ReportsInv'
    <2>1. Concerned(n)
        BY <1>0 DEF IInv, SendInv
    <2>2. \A m \in Nodes : Concerned(m)' = Concerned(m) /\ buildReport'[m] = buildReport[m]
        BY DEF Concerned
    <2>3. pc'[n] = "leave" /\ \A m \in Nodes \ {n} : pc'[m] = pc[m]
        BY <1>0 DEF TypeOK
    <2>4. \A r \in reports' : r \in Nodes \X Report /\ (r \in reports \/ r = <<n, buildReport[n]>>)
        BY <1>0 DEF TypeOK
    <2>5. \A r \in reports' : /\ pc'[r[1]] = "leave"
                               /\ Concerned(r[1])'
                               /\ r[2] = buildReport'[r[1]]
        BY <2>1, <2>2, <2>3, <2>4 DEF IInv, ReportsInv
    <2>6. \A m \in Nodes : pc'[m] = "leave" /\ Concerned(m)' =>
                <<m, buildReport'[m]>> \in reports'
        BY <2>2, <2>3 DEF IInv, ReportsInv
    <2>7. QED
        BY <2>5, <2>6 DEF ReportsInv
<1>9. DockerfileInv'
    BY <1>0 DEF IInv, DockerfileInv, DockerfilesRestored, TypeOK
<1>10. CloseInv'
    BY <1>0 DEF IInv, CloseInv, WalkInv, TypeOK
<1>11. QED
    BY <1>1, <1>2, <1>3, <1>4, <1>5, <1>6, <1>7, <1>8, <1>9, <1>10 DEF IInv

\* Returning to the walk keeps the invariant.
LEMMA LeaveKeeps ==
    ASSUME NEW n \in Nodes, IInv, Leave(n)
    PROVE  IInv'
<1> USE DEF Leave, Goto, flags, files, channel, Walk!Leave
<1>0. TypeOK /\ \A m \in Nodes : ParentsOf(m) \subseteq Nodes \ {m}
    BY ParentsAreNodes, NotOwnParent DEF IInv
<1>1. TypeOK'
    BY <1>0, ConcurrencyAssumption DEF TypeOK, PC, Report
<1>2. WalkInv'
    BY <1>0 DEF IInv, WalkInv, TypeOK
<1>3. PermitInv'
    BY <1>0, PermitStep DEF IInv, TypeOK, Permit
<1>4. HealthyInv'
    BY <1>0 DEF IInv, HealthyInv, WalkInv, TypeOK, Undecided, Permit, Concerned
<1>5. PlanInv' /\ UnconcernedInv' /\ SendInv'
    BY <1>0 DEF IInv, PlanInv, UnconcernedInv, SendInv, HealthyInv, TypeOK, Undecided, Permit, Concerned
<1>6. LocalInv' /\ BuiltInv'
    BY <1>0 DEF IInv, LocalInv, BuiltInv, TypeOK, Report
<1>7. OutcomeInv'
    BY <1>0 DEF IInv, OutcomeInv, WalkInv, LocalInv, HealthyInv, PlanInv, Concerned,
        Undecided, Permit, TypeOK, Report
<1>8. ReportsInv'
    BY <1>0 DEF IInv, ReportsInv, WalkInv, TypeOK, Concerned
<1>9. DockerfileInv'
    BY <1>0 DEF IInv, DockerfileInv, DockerfilesRestored, TypeOK
<1>10. CloseInv'
    BY <1>0 DEF IInv, CloseInv, WalkInv, TypeOK
<1>11. QED
    BY <1>1, <1>2, <1>3, <1>4, <1>5, <1>6, <1>7, <1>8, <1>9, <1>10 DEF IInv

\* Closing the channel, returning the report and stuttering keep the invariant.
LEMMA CallerKeeps == IInv /\ (Close \/ Return \/ UNCHANGED vars) => IInv'
<1> SUFFICES ASSUME IInv, Close \/ Return \/ UNCHANGED vars PROVE IInv'
    OBVIOUS
<1>1. UNCHANGED <<status, pc, needsRebuild, needsTests, rebuildFailed, limiter,
                  dockerfile, writeFailed, built, buildReport, reports>>
    BY DEF Close, Return, vars, flags, files, channel
<1>2. closed' \in BOOLEAN /\ returned' \in BOOLEAN /\ CloseInv'
    <2>1. CASE Close
        BY <1>1, <2>1 DEF IInv, TypeOK, CloseInv, Close, Walk!AllVisited
    <2>2. CASE Return
        BY <1>1, <2>2 DEF IInv, TypeOK, CloseInv, Return
    <2>3. CASE UNCHANGED vars
        BY <1>1, <2>3 DEF IInv, TypeOK, CloseInv, vars, channel
    <2>4. QED
        BY <2>1, <2>2, <2>3
<1>3. TypeOK' /\ WalkInv' /\ PermitInv' /\ HealthyInv' /\ PlanInv'
    BY <1>1, <1>2 DEF IInv, TypeOK, WalkInv, PermitInv, InBuildNode, HealthyInv,
        PlanInv, Concerned
<1>4. LocalInv' /\ BuiltInv' /\ OutcomeInv' /\ SendInv' /\ UnconcernedInv' /\ ReportsInv'
    BY <1>1 DEF IInv, LocalInv, BuiltInv, OutcomeInv, SendInv, UnconcernedInv, ReportsInv, Concerned
<1>5. DockerfileInv'
    BY <1>1 DEF IInv, DockerfileInv, DockerfilesRestored
<1>6. QED
    BY <1>2, <1>3, <1>4, <1>5 DEF IInv

\* The invariant is inductive: no step of any visitor breaks it for its own
\* image or for another one.
THEOREM IInvInvariant == Spec => []IInv
<1>1. IInv /\ [Next]_vars => IInv'
    <2> SUFFICES ASSUME IInv, [Next]_vars PROVE IInv'
        OBVIOUS
    <2>1. ASSUME NEW n \in Nodes, Visitor(n) PROVE IInv'
        BY <2>1, BeginKeeps, AcquireKeeps, ReplaceRefsKeeps, PrepareKeeps, BuildKeeps,
            ResetRefsKeeps, ReleaseKeeps, TestKeeps, SendKeeps, LeaveKeeps DEF Visitor
    <2>2. CASE Close \/ Return \/ UNCHANGED vars
        BY <2>2, CallerKeeps
    <2>3. QED
        BY <2>1, <2>2 DEF Next, Done
<1>2. QED
    BY IInvInit, <1>1, PTL DEF Spec

-----------------------------------------------------------------------------
(* What the invariant says of a run of `dib build`.                        *)

\* Every variable keeps its type; the limiter's channel is never over its
\* capacity and a permit is never given back twice.
THEOREM TypeCorrect == Spec => []TypeOK
BY IInvInvariant, PTL DEF IInv

\* A build never starts on a base image this run failed to build or has not
\* built yet, and its Dockerfile names the bases just built (build.go:106-199).
THEOREM BasesAreAvailable == Spec => []BasesAvailable
<1>1. IInv => BasesAvailable
    <2>1. SUFFICES ASSUME IInv, NEW n \in Nodes, pc[n] = "build"
                   PROVE  /\ \A p \in ParentsOf(n) : needsRebuild[p] => p \in built
                          /\ dockerfile[n] = ParentsOf(n)
        BY DEF BasesAvailable
    <2>2. ASSUME NEW p \in ParentsOf(n), needsRebuild[p]
          PROVE  p \in built
        <3>1. p \in Nodes /\ status[p] = "visited" /\ ~rebuildFailed[p]
            BY <2>1, ParentsAreNodes DEF IInv, WalkInv, HealthyInv, Undecided, Permit
        <3>2. pc[p] = "leave" /\ Concerned(p)
            BY <2>1, <2>2, <3>1 DEF IInv, WalkInv, Concerned
        <3>3. buildReport[p].build = "success"
            BY <2>1, <3>1, <3>2 DEF IInv, OutcomeInv
        <3>4. QED
            BY <2>1, <3>1, <3>3 DEF IInv, BuiltInv
    <2>3. QED
        BY <2>1, <2>2 DEF IInv, DockerfileInv
<1>2. QED
    BY <1>1, IInvInvariant, PTL

\* The builds running at once are the permits taken, at most --rate-limit.
THEOREM BuildsAreBounded == Spec => []PermitsBounded
<1>1. IInv => PermitsBounded
    BY ConcurrencyAssumption DEF IInv, TypeOK, PermitInv, PermitsBounded
<1>2. QED
    BY <1>1, IInvInvariant, PTL

\* Unless a write to it has failed, a Dockerfile is edited on disk only
\* while its image is in buildNode, whatever else fails there.
THEOREM DockerfilesAreRestored == Spec => []DockerfilesRestored
BY IInvInvariant, PTL DEF IInv, DockerfileInv

\* No visitor ever sends on the closed channel (build.go:172), which would
\* end the program with a panic.
THEOREM ChannelIsSafe == Spec => []NoSendAfterClose
<1>1. IInv => NoSendAfterClose
    BY DEF IInv, CloseInv, WalkInv, NoSendAfterClose
<1>2. QED
    BY <1>1, IInvInvariant, PTL

\* The reports are complete when RebuildGraph returns them: one for each image
\* Plan marked, none for the others.
THEOREM ReportsAreComplete == Spec => []ReportsComplete
<1>1. IInv => ReportsComplete
    <2>1. SUFFICES ASSUME IInv, returned, NEW n \in Nodes
                   PROVE  Cardinality({r \in reports : r[1] = n})
                            = (IF Concerned(n) THEN 1 ELSE 0)
        BY DEF ReportsComplete
    <2>2. pc[n] = "leave"
        BY <2>1 DEF IInv, CloseInv, WalkInv
    <2>3. \A r \in reports : r = <<r[1], r[2]>>
        BY <2>1 DEF IInv, TypeOK
    <2>4. CASE Concerned(n)
        <3>1. {r \in reports : r[1] = n} = {<<n, buildReport[n]>>}
            BY <2>1, <2>2, <2>3, <2>4 DEF IInv, ReportsInv
        <3>2. QED
            BY <2>4, <3>1, FS_Singleton
    <2>5. CASE ~Concerned(n)
        <3>1. {r \in reports : r[1] = n} = {}
            BY <2>1, <2>5 DEF IInv, ReportsInv
        <3>2. QED
            BY <2>5, <3>1, FS_EmptySet
    <2>6. QED
        BY <2>4, <2>5
<1>2. QED
    BY <1>1, IInvInvariant, PTL

\* A failed parent has reported before any child of it is skipped.
THEOREM SkipsAreExplained == Spec => []SkippedAfterParent
<1>1. IInv => SkippedAfterParent
    <2>1. SUFFICES ASSUME IInv, NEW r \in reports, r[2].build = "skipped"
                   PROVE  \E s \in reports :
                            s[1] \in ParentsOf(r[1]) /\ s[2].build \in {"skipped", "error"}
        BY DEF SkippedAfterParent
    <2>2. /\ r[1] \in Nodes /\ pc[r[1]] = "leave" /\ Concerned(r[1])
          /\ buildReport[r[1]].build = "skipped"
        BY <2>1 DEF IInv, TypeOK, ReportsInv
    <2>3. PICK p \in ParentsOf(r[1]) : rebuildFailed[p]
        BY <2>1, <2>2 DEF IInv, OutcomeInv
    <2>4. p \in Nodes /\ status[p] = "visited"
        BY <2>1, <2>2, ParentsAreNodes DEF IInv, WalkInv
    <2>5. pc[p] = "leave" /\ Concerned(p)
        BY <2>1, <2>3, <2>4 DEF IInv, WalkInv, UnconcernedInv
    <2>6. buildReport[p].build \in {"skipped", "error"}
        BY <2>1, <2>3, <2>4, <2>5 DEF IInv, OutcomeInv
    <2>7. <<p, buildReport[p]>> \in reports
        BY <2>1, <2>4, <2>5 DEF IInv, ReportsInv
    <2>8. QED
        BY <2>6, <2>7
<1>2. QED
    BY <1>1, IInvInvariant, PTL

\* The gate before Retag is sound: a failure anywhere, however far below it
\* images were skipped, is seen by CheckError.  Among the images that failed,
\* the graph has one without a failed parent, and that one reported an error.
THEOREM CheckErrorIsSound == Spec => []GateIsSound
<1>1. IInv => GateIsSound
    <2>1. SUFFICES ASSUME IInv, returned, ~CheckError
                   PROVE  /\ \A n \in Nodes : needsRebuild[n] => n \in built
                          /\ \A n \in Nodes : needsTests[n] =>
                                \E r \in reports : r[1] = n /\ r[2].tests = "passed"
        BY DEF GateIsSound
    <2>2. \A n \in Nodes : pc[n] = "leave"
        BY <2>1 DEF IInv, CloseInv, WalkInv
    <2>3. ASSUME NEW n \in Nodes, Concerned(n)
          PROVE  <<n, buildReport[n]>> \in reports /\ buildReport[n].build # "error"
                    /\ buildReport[n].tests # "failed"
        BY <2>1, <2>2, <2>3 DEF IInv, ReportsInv, CheckError
    <2> DEFINE Failed == {n \in Nodes : rebuildFailed[n]}
    <2>4. Failed = {}
        <3>1. SUFFICES ASSUME Failed # {} PROVE FALSE
            OBVIOUS
        <3>2. PICK n \in Failed : ParentsOf(n) \cap Failed = {}
            BY <3>1, Acyclic
        <3>3. n \in Nodes /\ Concerned(n) /\ \A p \in ParentsOf(n) : ~rebuildFailed[p]
            BY <2>1, <3>2, ParentsAreNodes DEF IInv, UnconcernedInv
        <3>4. buildReport[n].build = "error"
            BY <2>1, <2>2, <3>2, <3>3 DEF IInv, OutcomeInv
        <3>5. QED
            BY <2>3, <3>3, <3>4
    <2>5. ASSUME NEW n \in Nodes, needsRebuild[n]
          PROVE  n \in built
        BY <2>1, <2>2, <2>4, <2>5 DEF IInv, OutcomeInv, BuiltInv, Concerned
    <2>6. ASSUME NEW n \in Nodes, needsTests[n]
          PROVE  \E r \in reports : r[1] = n /\ r[2].tests = "passed"
        <3>1. Concerned(n) /\ ~rebuildFailed[n]
            BY <2>4, <2>6 DEF Concerned
        <3>2. buildReport[n].tests = "passed"
            BY <2>1, <2>2, <2>3, <2>6, <3>1 DEF IInv, OutcomeInv
        <3>3. QED
            BY <2>3, <3>1, <3>2
    <2>7. QED
        BY <2>5, <2>6
<1>2. QED
    BY <1>1, IInvInvariant, PTL

\* Whatever the limit, the visitors that wait for a permit never keep those that
\* hold one from giving it back: of the images the walk has not left, take one whose
\* parents it has left.  It can be visited, or its visitor is at work; and if that
\* one waits for a permit, a visitor that holds one can go on.
THEOREM LimiterIsNoDeadlock == Spec => []NeverStuck
<1>1. IInv => NeverStuck
    <2> DEFINE Open == {n \in Nodes : status[n] # "visited"}
    <2>1. SUFFICES ASSUME IInv, ~closed, Open # {}
                   PROVE  \E n \in Nodes : CanStep(n)
        BY DEF NeverStuck, Walk!AllVisited
    <2>2. PICK n \in Open : ParentsOf(n) \cap Open = {}
        BY <2>1, Acyclic
    <2>3. n \in Nodes /\ status[n] \in {"waiting", "visiting"} /\ pc[n] \in PC
        BY <2>1, <2>2 DEF IInv, TypeOK
    <2>4. CASE status[n] = "waiting"
        <3>1. \A p \in ParentsOf(n) : status[p] = "visited"
            BY <2>2, ParentsAreNodes
        <3>2. Walk!ParentsVisited(n)
            BY <3>1 DEF Walk!ParentsVisited, Walk!ParentsOf, Walk!Elements, ParentsOf, Elements
        <3>3. QED
            BY <2>3, <2>4, <3>2 DEF CanStep
    <2>5. CASE status[n] = "visiting" /\ pc[n] # "acquire"
        <3>1. pc[n] # "idle"
            BY <2>1, <2>3, <2>5 DEF IInv, WalkInv
        <3>2. QED
            BY <2>1, <2>3, <2>5, <3>1 DEF CanStep, PC
    <2>6. CASE pc[n] = "acquire"
        <3>1. CASE limiter < Concurrency
            BY <2>3, <2>6, <3>1 DEF CanStep
        <3>2. CASE ~(limiter < Concurrency)
            <4>1. limiter > 0
                BY <2>1, <3>2, ConcurrencyAssumption DEF IInv, TypeOK
            <4>2. InBuildNode # {}
                BY <2>1, <4>1, FS_EmptySet DEF IInv, PermitInv
            <4>3. PICK m \in Nodes : pc[m] \in Permit
                BY <4>2 DEF InBuildNode, Permit
            <4>4. QED
                BY <4>3 DEF CanStep, Permit
        <3>3. QED
            BY <3>1, <3>2
    <2>7. QED
        BY <2>3, <2>4, <2>5, <2>6
<1>2. QED
    BY <1>1, IInvInvariant, PTL

\* The visitors interleave as the walk allows and in no other way: every step of
\* RebuildGraph is a step of TopoWalk, which WalkParallel implements, or leaves
\* the walk alone.
THEOREM FollowsTopoWalk == Spec => Walk!Init /\ [][Walk!Next]_status
<1>1. Init => Walk!Init
    BY DEF Init
<1>2. [Next]_vars => [Walk!Next]_status
    <2>1. SUFFICES ASSUME [Next]_vars PROVE Walk!Next \/ UNCHANGED status
        OBVIOUS
    <2>2. ASSUME NEW n \in Nodes, Begin(n) \/ Leave(n) PROVE Walk!Next
        BY <2>2 DEF Begin, Leave, Walk!Next
    <2>3. ASSUME NEW n \in Nodes,
                 \/ Acquire(n) \/ ReplaceRefs(n) \/ Prepare(n) \/ Build(n) \/ ResetRefs(n)
                 \/ Release(n) \/ Test(n) \/ Send(n)
          PROVE  UNCHANGED status
        BY <2>3 DEF Acquire, ReplaceRefs, Prepare, Build, ResetRefs, Release, Test, Send
    <2>4. CASE Close \/ Return \/ Done \/ UNCHANGED vars
        BY <2>4 DEF Close, Return, Done, vars
    <2>5. QED
        BY <2>1, <2>2, <2>3, <2>4 DEF Next, Visitor
<1>3. QED
    BY <1>1, <1>2, PTL DEF Spec

=============================================================================
