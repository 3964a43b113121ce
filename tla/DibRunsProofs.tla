--------------------------- MODULE DibRunsProofs ----------------------------
(***************************************************************************)
(* Proofs about DibRuns when runs exclude each other, for any number of    *)
(* runs, every graph, and every point at which a run fails or crashes.     *)
(***************************************************************************)
EXTENDS DibRuns, TLAPS

\* The parents of an image are images of the graph.
LEMMA ParentsAreNodes == \A n \in Nodes : ParentsOf(n) \subseteq Nodes
BY GraphType DEF ParentsOf, Elements

\* A run has the registry to itself while it is active.
OneActive ==
    \A q, r \in Runs : phase[q] \in Active /\ phase[r] \in Active => q = r

\* Nothing has happened to the images of a run before its builds.
NotBegun ==
    \A r \in Runs : phase[r] \in {"idle", "plan"} =>
        /\ \A n \in Nodes : image[r][n] = "waiting"
        /\ phase[r] = "idle" => unplanned[r] = Nodes /\ needsRebuild[r] = {}
        /\ unplanned[r] \cap needsRebuild[r] = {}

\* What Plan has found out stays true until the run itself changes it.
PlanInv ==
    \A r \in Runs : phase[r] \in Active =>
        /\ phase[r] # "plan" => unplanned[r] = {}
        /\ \A n \in Nodes \ (unplanned[r] \cup needsRebuild[r]) : final[n] # None
        /\ \A n \in needsRebuild[r] :
            ~force[r] /\ image[r][n] \in {"waiting", "built"} \cup Untagged => final[n] = None

\* The dev tag of an image is on the build the run has made and tested.
BuildInv ==
    \A r \in Runs : phase[r] \in Active =>
        /\ \A n \in Nodes : image[r][n] = "built" => n \in needsRebuild[r]
        /\ \A n \in needsRebuild[r] :
            /\ image[r][n] \in {"built", "ready", "versioned", "tagged"} => dev[n] = r
            /\ image[r][n] \in {"ready", "versioned", "tagged"} => <<r, n>> \in passed

\* Where Retag is with an image.
RetagInv ==
    \A r \in Runs :
        /\ phase[r] = "build" => \A n \in Nodes :
            image[r][n] \in {"waiting", "built"} \cup Untagged
        /\ phase[r] = "retag" => \A n \in Nodes :
            /\ image[r][n] \in {"ready", "versioned", "tagged", "refused"}
            /\ image[r][n] \in {"versioned", "tagged"} => final[n] # None
            /\ image[r][n] = "versioned" => release[r]
            /\ image[r][n] = "tagged" /\ release[r] => latest[n] = final[n]

IInv ==
    /\ TypeOK
    /\ OneActive
    /\ NotBegun
    /\ PlanInv
    /\ BuildInv
    /\ RetagInv
    /\ VersionsAreTested
    /\ LatestIsTested

-----------------------------------------------------------------------------

\* Before any run.
LEMMA IInvInit == Init => IInv
BY RunsAssumption DEF Init, IInv, TypeOK, OneActive, NotBegun, PlanInv, BuildInv, RetagInv,
    VersionsAreTested, LatestIsTested, Builds, Active, Ended, Untagged

\* A run other than the active one does not care what the active one does.
LEMMA OthersIdle ==
    ASSUME IInv, NEW r \in Runs, phase[r] \in Active, NEW q \in Runs, q # r
    PROVE  phase[q] \notin Active
BY DEF IInv, OneActive

\* Starting a run.
LEMMA StartKeeps ==
    ASSUME Exclusive, IInv, NEW r \in Runs, Start(r)
    PROVE  IInv'
<1>1. /\ phase[r] = "idle" /\ \A q \in Runs : phase[q] \notin Active
      /\ phase' = [phase EXCEPT ![r] = "plan"]
      /\ UNCHANGED <<force, release, noRetag, unplanned, needsRebuild, image, dev, final,
                     latest, base, passed>>
    BY DEF Start, Goto, options, planning, registry
<1>2. phase'[r] = "plan" /\ \A q \in Runs : q # r => phase'[q] = phase[q]
    BY <1>1 DEF IInv, TypeOK
<1>3. TypeOK'
    BY <1>1 DEF IInv, TypeOK, Active
<1>4. OneActive' /\ NotBegun'
    BY <1>1, <1>2 DEF IInv, OneActive, NotBegun
<1>5. PlanInv' /\ BuildInv' /\ RetagInv'
    BY <1>1, <1>2 DEF IInv, NotBegun, PlanInv, BuildInv, RetagInv, Active
<1>6. VersionsAreTested' /\ LatestIsTested'
    BY <1>1, <1>2 DEF IInv, VersionsAreTested, LatestIsTested
<1>7. QED
    BY <1>3, <1>4, <1>5, <1>6 DEF IInv

\* Asking the registry for one image.
LEMMA AskKeeps ==
    ASSUME IInv, NEW r \in Runs, NEW n \in Nodes, Ask(r, n)
    PROVE  IInv'
<1>1. /\ phase[r] = "plan" /\ n \in unplanned[r]
      /\ unplanned' = [unplanned EXCEPT ![r] = @ \ {n}]
      /\ needsRebuild' = IF force[r] \/ final[n] = None
                         THEN [needsRebuild EXCEPT ![r] = @ \cup {n}] ELSE needsRebuild
      /\ UNCHANGED <<phase, force, release, noRetag, image, dev, final, latest, base, passed>>
    BY DEF Ask, options, registry
<1>2. /\ unplanned'[r] = unplanned[r] \ {n}
      /\ needsRebuild'[r] = IF force[r] \/ final[n] = None
                            THEN needsRebuild[r] \cup {n} ELSE needsRebuild[r]
      /\ \A q \in Runs : q # r =>
            unplanned'[q] = unplanned[q] /\ needsRebuild'[q] = needsRebuild[q]
    BY <1>1 DEF IInv, TypeOK
<1>3. TypeOK'
    BY <1>1 DEF IInv, TypeOK
<1>4. NotBegun'
    BY <1>1, <1>2 DEF IInv, NotBegun
<1>5. PlanInv'
    BY <1>1, <1>2 DEF IInv, PlanInv
<1>6. BuildInv'
    BY <1>1, <1>2 DEF IInv, NotBegun, BuildInv
<1>7. QED
    BY <1>1, <1>3, <1>4, <1>5, <1>6 DEF IInv, OneActive, RetagInv, VersionsAreTested,
        LatestIsTested

\* A run that turns from one part of doBuild to the next, or ends.
LEMMA PhaseKeeps ==
    ASSUME IInv, NEW r \in Runs,
           PlanFails(r) \/ EndPlan(r) \/ Gate(r) \/ EndRetag(r) \/ Crash(r)
    PROVE  IInv'
<1>1. /\ phase[r] \in Active
      /\ UNCHANGED <<force, release, noRetag, unplanned, needsRebuild, image, dev, final,
                     latest, base, passed>>
    BY DEF PlanFails, EndPlan, Gate, EndRetag, Crash, Active, options, planning, registry
<1>2. /\ \A q \in Runs : q # r => phase'[q] = phase[q]
      /\ \/ phase'[r] \in Ended
         \/ phase[r] = "plan" /\ unplanned[r] = {} /\ phase'[r] = "build"
         \/ phase[r] = "build" /\ Visited(r) /\ ~CheckError(r) /\ phase'[r] = "retag"
      /\ phase' \in [Runs -> {"idle"} \cup Active \cup Ended]
    BY DEF PlanFails, EndPlan, Gate, EndRetag, Crash, Goto, Ended, Active, IInv, TypeOK
<1>3. TypeOK'
    BY <1>1, <1>2 DEF IInv, TypeOK
<1>4. \A q \in Runs : q # r => phase'[q] \notin Active
    BY <1>1, <1>2, OthersIdle
<1>5. OneActive' /\ NotBegun'
    BY <1>1, <1>2, <1>4 DEF IInv, OneActive, NotBegun, Active, Ended
<1>6. PlanInv' /\ BuildInv'
    BY <1>1, <1>2, <1>4 DEF IInv, PlanInv, BuildInv, Active, Ended
<1>7. RetagInv'
    <2>1. ASSUME phase'[r] = "build", NEW n \in Nodes
          PROVE  image[r][n] = "waiting"
        BY <1>2, <2>1 DEF IInv, NotBegun, Ended
    <2>2. ASSUME phase'[r] = "retag", NEW n \in Nodes
          PROVE  image[r][n] = "ready"
        BY <1>2, <2>2 DEF IInv, RetagInv, Visited, CheckError, Untagged, Ended
    <2>3. QED
        BY <1>1, <1>4, <2>1, <2>2 DEF RetagInv, Active
<1>8. VersionsAreTested' /\ LatestIsTested'
    BY <1>1, <1>2 DEF IInv, VersionsAreTested, LatestIsTested, Active, Ended
<1>9. QED
    BY <1>3, <1>5, <1>6, <1>7, <1>8 DEF IInv

\* An image of the build whose state changes: what the change has to be for
\* the invariant to be kept.
LEMMA VisitKeeps ==
    ASSUME IInv, NEW r \in Runs, NEW n \in Nodes,
           NEW state \in {"built", "ready", "failed", "testsfailed"},
           phase[r] = "build", image[r][n] \in {"waiting", "built"},
           Mark(r, n, state),
           UNCHANGED <<phase, options, planning, final, latest>>,
           dev' \in [Nodes -> Builds], \A m \in Nodes : m # n => dev'[m] = dev[m],
           base' \in [Runs -> [Nodes -> [Nodes -> Builds]]],
           passed \subseteq passed', passed' \in SUBSET (Runs \X Nodes),
           state = "built" => n \in needsRebuild[r],
           n \in needsRebuild[r] /\ state \in {"built", "ready"} => dev'[n] = r,
           n \in needsRebuild[r] /\ state = "ready" => <<r, n>> \in passed'
    PROVE  IInv'
<1>1. UNCHANGED <<force, release, noRetag, unplanned, needsRebuild>>
    BY DEF options, planning
<1>2. /\ image'[r][n] = state
      /\ \A m \in Nodes : m # n => image'[r][m] = image[r][m]
      /\ \A q \in Runs : q # r => image'[q] = image[q]
      /\ image' \in [Runs -> [Nodes -> {"waiting", "built", "ready", "failed", "testsfailed",
                                        "versioned", "tagged", "refused"}]]
    <2>1. image' = [image EXCEPT ![r][n] = state]
        BY DEF Mark
    <2>2. QED
        BY <2>1 DEF IInv, TypeOK
<1>3. \A q \in Runs : q # r => phase[q] \notin Active
    BY OthersIdle DEF Active
<1>4. TypeOK'
    BY <1>1, <1>2 DEF IInv, TypeOK
<1>5. NotBegun' /\ OneActive'
    <2>1. \A q \in Runs : phase[q] \in {"idle", "plan"} => image'[q] = image[q]
        BY <1>2
    <2>2. QED
        BY <1>1, <2>1 DEF IInv, NotBegun, OneActive
<1>6. PlanInv'
    <2>1. ASSUME NEW m \in needsRebuild[r], ~force[r],
                 image'[r][m] \in {"waiting", "built"} \cup Untagged
          PROVE  final[m] = None
        <3>1. phase[r] \in Active /\ m \in Nodes
            BY DEF Active, IInv, TypeOK
        <3>2. image[r][m] \in {"waiting", "built"} \cup Untagged
            BY <1>2, <2>1, <3>1
        <3>3. QED
            BY <2>1, <3>1, <3>2 DEF IInv, PlanInv
    <2>2. /\ unplanned[r] = {}
          /\ \A m \in Nodes \ (unplanned[r] \cup needsRebuild[r]) : final[m] # None
        BY DEF Active, IInv, PlanInv
    <2>3. QED
        BY <1>1, <1>3, <2>1, <2>2 DEF PlanInv
<1>7. BuildInv'
    <2>1. ASSUME NEW m \in needsRebuild[r]
          PROVE  /\ image'[r][m] \in {"built", "ready", "versioned", "tagged"} => dev'[m] = r
                 /\ image'[r][m] \in {"ready", "versioned", "tagged"} => <<r, m>> \in passed'
        <3>1. phase[r] \in Active /\ m \in Nodes
            BY DEF Active, IInv, TypeOK
        <3>2. CASE m = n
            BY <1>2, <3>2
        <3>3. CASE m # n
            BY <1>2, <3>1, <3>3 DEF IInv, BuildInv
        <3>4. QED
            BY <3>2, <3>3
    <2>2. \A m \in Nodes : image'[r][m] = "built" => m \in needsRebuild[r]
        BY <1>2 DEF IInv, BuildInv, Active
    <2>3. QED
        BY <1>1, <1>3, <2>1, <2>2 DEF BuildInv
<1>8. RetagInv'
    <2>1. \A m \in Nodes : image'[r][m] \in {"waiting", "built"} \cup Untagged
        BY <1>2 DEF IInv, RetagInv, Untagged
    <2>2. QED
        BY <1>3, <2>1 DEF RetagInv, Active
<1>9. VersionsAreTested' /\ LatestIsTested'
    BY <1>1 DEF IInv, VersionsAreTested, LatestIsTested
<1>10. QED
    BY <1>4, <1>5, <1>6, <1>7, <1>8, <1>9 DEF IInv

\* An image that is not rebuilt, because it need not or cannot be.
LEMMA SkipKeeps ==
    ASSUME IInv, NEW r \in Runs, NEW n \in Nodes, Skip(r, n)
    PROVE  IInv'
<1>1. /\ phase[r] = "build" /\ image[r][n] = "waiting"
      /\ UNCHANGED <<phase, options, planning, dev, final, latest, base, passed>>
    BY DEF Skip, CanVisit, registry
<1>2. PICK state \in {"ready", "failed"} :
            Mark(r, n, state) /\ (n \in needsRebuild[r] => state = "failed")
    BY DEF Skip
<1>3. QED
    BY <1>1, <1>2, VisitKeeps DEF IInv, TypeOK

\* An image that is built from its parents' references, or is not.
LEMMA BuildKeeps ==
    ASSUME IInv, NEW r \in Runs, NEW n \in Nodes, Build(r, n)
    PROVE  IInv'
<1>1. /\ phase[r] = "build" /\ image[r][n] = "waiting" /\ n \in needsRebuild[r]
      /\ UNCHANGED <<phase, options, planning, final, latest, passed>>
    BY DEF Build, CanVisit
<1>2. CASE Mark(r, n, "failed") /\ UNCHANGED <<dev, base>>
    BY <1>1, <1>2, VisitKeeps DEF IInv, TypeOK
<1>3. CASE /\ dev' = [dev EXCEPT ![n] = r]
           /\ base' = [base EXCEPT ![r][n] =
                [p \in Nodes |-> IF p \in ParentsOf(n) THEN CurrentRef(r, p) ELSE None]]
           /\ Mark(r, n, "built")
    <2>1. [p \in Nodes |-> IF p \in ParentsOf(n) THEN CurrentRef(r, p) ELSE None]
            \in [Nodes -> Builds]
        BY DEF CurrentRef, Builds, IInv, TypeOK
    <2>2. base' \in [Runs -> [Nodes -> [Nodes -> Builds]]]
        BY <1>3, <2>1 DEF IInv, TypeOK
    <2>3. /\ dev' \in [Nodes -> Builds] /\ dev'[n] = r
          /\ \A m \in Nodes : m # n => dev'[m] = dev[m]
        BY <1>3 DEF IInv, TypeOK, Builds
    <2>4. QED
        BY <1>1, <1>3, <2>2, <2>3, VisitKeeps DEF IInv, TypeOK
<1>4. QED
    BY <1>2, <1>3 DEF Build

\* An image whose tests pass or fail.
LEMMA TestKeeps ==
    ASSUME IInv, NEW r \in Runs, NEW n \in Nodes, Test(r, n)
    PROVE  IInv'
<1>1. /\ phase[r] = "build" /\ image[r][n] = "built"
      /\ UNCHANGED <<phase, options, planning, dev, final, latest, base>>
    BY DEF Test, registry
<1>2. n \in needsRebuild[r] /\ dev[n] = r
    BY <1>1 DEF IInv, BuildInv, Active
<1>3. CASE Mark(r, n, "testsfailed") /\ UNCHANGED passed
    BY <1>1, <1>3, VisitKeeps DEF IInv, TypeOK
<1>4. CASE Mark(r, n, "ready") /\ passed' = passed \cup {<<dev[n], n>>}
    <2>1. /\ passed \subseteq passed' /\ passed' \in SUBSET (Runs \X Nodes)
          /\ <<r, n>> \in passed'
        BY <1>2, <1>4 DEF IInv, TypeOK
    <2>2. dev' \in [Nodes -> Builds] /\ base' \in [Runs -> [Nodes -> [Nodes -> Builds]]]
        BY <1>1 DEF IInv, TypeOK
    <2>3. UNCHANGED <<phase, options, planning, final, latest>>
        BY <1>1
    <2>4. QED
        BY <1>1, <1>2, <1>4, <2>1, <2>2, <2>3, VisitKeeps
<1>5. QED
    BY <1>3, <1>4 DEF Test

-----------------------------------------------------------------------------

\* An image whose state changes while a run tags, and the tags with it.
LEMMA RetagKeeps ==
    ASSUME IInv, NEW r \in Runs, NEW n \in Nodes,
           NEW state \in {"versioned", "tagged", "refused"},
           phase[r] = "retag",
           image[r][n] \in {"ready", "versioned"},
           Mark(r, n, state),
           UNCHANGED <<phase, options, planning, dev, base, passed>>,
           final' \in [Nodes -> Builds], \A m \in Nodes : m # n => final'[m] = final[m],
           latest' \in [Nodes -> Builds], \A m \in Nodes : m # n => latest'[m] = latest[m],
           final[n] # None => final'[n] # None,
           state \in {"versioned", "tagged"} => final'[n] # None,
           state = "versioned" => release[r],
           state = "tagged" /\ release[r] => latest'[n] = final'[n],
           final'[n] = final[n] \/ <<final'[n], n>> \in passed,
           latest'[n] = latest[n] \/ (latest'[n] = final'[n] /\ release[r])
    PROVE  IInv'
<1>1. UNCHANGED <<force, release, noRetag, unplanned, needsRebuild>>
    BY DEF options, planning
<1>2. /\ image'[r][n] = state
      /\ \A m \in Nodes : m # n => image'[r][m] = image[r][m]
      /\ \A q \in Runs : q # r => image'[q] = image[q]
      /\ image' \in [Runs -> [Nodes -> {"waiting", "built", "ready", "failed", "testsfailed",
                                        "versioned", "tagged", "refused"}]]
    <2>1. image' = [image EXCEPT ![r][n] = state]
        BY DEF Mark
    <2>2. QED
        BY <2>1 DEF IInv, TypeOK
<1>3. \A q \in Runs : q # r => phase[q] \notin Active
    BY OthersIdle DEF Active
<1>4. TypeOK'
    BY <1>1, <1>2 DEF IInv, TypeOK
<1>5. NotBegun' /\ OneActive'
    <2>1. \A q \in Runs : phase[q] \in {"idle", "plan"} => image'[q] = image[q]
        BY <1>2
    <2>2. QED
        BY <1>1, <2>1 DEF IInv, NotBegun, OneActive
<1>6. PlanInv'
    <2>1. ASSUME NEW m \in needsRebuild[r], ~force[r],
                 image'[r][m] \in {"waiting", "built"} \cup Untagged
          PROVE  final'[m] = None
        <3>1. phase[r] \in Active /\ m \in Nodes
            BY DEF Active, IInv, TypeOK
        <3>2. m # n
            BY <1>2, <2>1 DEF Untagged
        <3>3. image[r][m] \in {"waiting", "built"} \cup Untagged /\ final'[m] = final[m]
            BY <1>2, <2>1, <3>1, <3>2
        <3>4. QED
            BY <2>1, <3>1, <3>3 DEF IInv, PlanInv
    <2>2. unplanned[r] = {}
        BY DEF Active, IInv, PlanInv
    <2>3. \A m \in Nodes \ (unplanned[r] \cup needsRebuild[r]) : final'[m] # None
        BY DEF Active, IInv, PlanInv
    <2>4. QED
        BY <1>1, <1>3, <2>1, <2>2, <2>3 DEF PlanInv
<1>7. BuildInv'
    <2>1. ASSUME NEW m \in needsRebuild[r]
          PROVE  /\ image'[r][m] \in {"built", "ready", "versioned", "tagged"} => dev[m] = r
                 /\ image'[r][m] \in {"ready", "versioned", "tagged"} => <<r, m>> \in passed
        <3>1. phase[r] \in Active /\ m \in Nodes
            BY DEF Active, IInv, TypeOK
        <3>2. image'[r][m] \in {"built", "ready", "versioned", "tagged"}
                => image[r][m] \in {"built", "ready", "versioned", "tagged"}
            BY <1>2, <3>1
        <3>3. image'[r][m] \in {"ready", "versioned", "tagged"}
                => image[r][m] \in {"ready", "versioned", "tagged"}
            BY <1>2, <3>1
        <3>4. QED
            BY <3>1, <3>2, <3>3 DEF IInv, BuildInv
    <2>2. \A m \in Nodes : image'[r][m] = "built" => m \in needsRebuild[r]
        BY <1>2 DEF IInv, BuildInv, Active
    <2>3. QED
        BY <1>1, <1>3, <2>1, <2>2 DEF BuildInv
<1>8. RetagInv'
    <2>1. ASSUME NEW m \in Nodes
          PROVE  /\ image'[r][m] \in {"ready", "versioned", "tagged", "refused"}
                 /\ image'[r][m] \in {"versioned", "tagged"} => final'[m] # None
                 /\ image'[r][m] = "versioned" => release[r]
                 /\ image'[r][m] = "tagged" /\ release[r] => latest'[m] = final'[m]
        <3>1. CASE m = n
            BY <1>2, <3>1
        <3>2. CASE m # n
            BY <1>2, <3>2 DEF IInv, RetagInv
        <3>3. QED
            BY <3>1, <3>2
    <2>2. QED
        BY <1>1, <1>3, <2>1 DEF RetagInv, Active
<1>9. VersionsAreTested'
    BY DEF IInv, VersionsAreTested
<1>10. LatestIsTested'
    <2>1. ASSUME NEW m \in Nodes, latest'[m] # None
          PROVE  <<latest'[m], m>> \in passed
        <3>1. CASE latest'[m] = latest[m]
            BY <2>1, <3>1 DEF IInv, LatestIsTested
        <3>2. CASE latest'[m] # latest[m]
            BY <1>9, <2>1, <3>2 DEF VersionsAreTested
        <3>3. QED
            BY <3>1, <3>2
    <2>2. ASSUME NEW m \in Nodes, latest'[m] # None
          PROVE  \E q \in Runs : release[q] /\ phase[q] # "idle"
        BY <2>2 DEF IInv, LatestIsTested
    <2>3. QED
        BY <1>1, <2>1, <2>2 DEF LatestIsTested
<1>11. QED
    BY <1>4, <1>5, <1>6, <1>7, <1>8, <1>9, <1>10 DEF IInv

\* The version tag of an image: of the run's own build, or the one Plan found.
LEMMA TagVersionKeeps ==
    ASSUME IInv, NEW r \in Runs, NEW n \in Nodes, TagVersion(r, n)
    PROVE  IInv'
<1>1. /\ phase[r] = "retag"
      /\ image[r][n] \in Untagged
      /\ final' = IF n \in needsRebuild[r] THEN [final EXCEPT ![n] = dev[n]] ELSE final
      /\ UNCHANGED <<phase, options, planning, dev, latest, base, passed>>
    BY DEF TagVersion
<1>2. PICK state \in {"versioned", "tagged"} :
            Mark(r, n, state) /\ (state = "versioned" <=> release[r])
    BY DEF TagVersion
<1>3. image[r][n] = "ready"
    BY <1>1 DEF IInv, RetagInv, Untagged
<1>4. CASE n \in needsRebuild[r]
    <2>1. dev[n] = r /\ <<r, n>> \in passed
        BY <1>1, <1>3, <1>4 DEF IInv, BuildInv, Active
    <2>2. /\ final' \in [Nodes -> Builds] /\ final'[n] = r
          /\ \A m \in Nodes : m # n => final'[m] = final[m]
        BY <1>1, <1>4, <2>1 DEF IInv, TypeOK, Builds
    <2>3. r # None
        BY RunsAssumption
    <2>4. QED
        BY <1>1, <1>2, <1>3, <2>1, <2>2, <2>3, RetagKeeps DEF IInv, TypeOK
<1>5. CASE n \notin needsRebuild[r]
    <2>1. final[n] # None
        BY <1>1, <1>5 DEF IInv, PlanInv, Active
    <2>2. final' = final /\ latest' = latest
        BY <1>1, <1>5
    <2>3. UNCHANGED <<phase, options, planning, dev, base, passed>>
        BY <1>1
    <2>4. final' \in [Nodes -> Builds] /\ latest' \in [Nodes -> Builds]
        BY <2>2 DEF IInv, TypeOK
    <2>5. QED
        BY <1>1, <1>2, <1>3, <2>1, <2>2, <2>3, <2>4, RetagKeeps
<1>6. QED
    BY <1>4, <1>5

\* The placeholder tag, where the version tag is.
LEMMA TagLatestKeeps ==
    ASSUME IInv, NEW r \in Runs, NEW n \in Nodes, TagLatest(r, n)
    PROVE  IInv'
<1>1. /\ phase[r] = "retag"
      /\ image[r][n] = "versioned"
      /\ latest' = [latest EXCEPT ![n] = final[n]]
      /\ Mark(r, n, "tagged")
      /\ UNCHANGED <<phase, options, planning, dev, final, base, passed>>
    BY DEF TagLatest
<1>2. /\ latest' \in [Nodes -> Builds] /\ latest'[n] = final[n]
      /\ \A m \in Nodes : m # n => latest'[m] = latest[m]
    BY <1>1 DEF IInv, TypeOK
<1>3. final[n] # None /\ release[r]
    BY <1>1 DEF IInv, RetagInv
<1>4. QED
    BY <1>1, <1>2, <1>3, RetagKeeps DEF IInv, TypeOK

\* A tag that the registry refuses.
LEMMA TagFailsKeeps ==
    ASSUME IInv, NEW r \in Runs, NEW n \in Nodes, TagFails(r, n)
    PROVE  IInv'
<1>1. /\ phase[r] = "retag"
      /\ image[r][n] \in Untagged \cup {"versioned"}
      /\ Mark(r, n, "refused")
      /\ UNCHANGED <<phase, options, planning, dev, final, latest, base, passed>>
    BY DEF TagFails, registry
<1>2. image[r][n] \in {"ready", "versioned"}
    BY <1>1 DEF IInv, RetagInv, Untagged
<1>3. QED
    BY <1>1, <1>2, RetagKeeps DEF IInv, TypeOK

-----------------------------------------------------------------------------

\* The invariant of every specification of runs that exclude each other.
THEOREM IInvInvariant == Exclusive => (Spec => []IInv)
<1> SUFFICES ASSUME Exclusive PROVE Spec => []IInv
    OBVIOUS
<1>1. Init => IInv
    BY IInvInit
<1>2. IInv /\ [Next]_vars => IInv'
    <2> SUFFICES ASSUME IInv, [Next]_vars PROVE IInv'
        OBVIOUS
    <2>1. CASE UNCHANGED vars
        BY <2>1 DEF vars, options, planning, registry, IInv, TypeOK, OneActive, NotBegun,
            PlanInv, BuildInv, RetagInv, VersionsAreTested, LatestIsTested
    <2>2. ASSUME NEW r \in Runs, Run(r) PROVE IInv'
        <3>1. CASE Start(r)
            BY <3>1, StartKeeps
        <3>2. CASE PlanFails(r) \/ EndPlan(r) \/ Gate(r) \/ EndRetag(r)
            BY <3>2, PhaseKeeps
        <3>3. ASSUME NEW n \in Nodes,
                     \/ Ask(r, n)
                     \/ Skip(r, n) \/ Build(r, n) \/ Test(r, n)
                     \/ TagVersion(r, n) \/ TagLatest(r, n) \/ TagFails(r, n)
              PROVE  IInv'
            BY <3>3, AskKeeps, SkipKeeps, BuildKeeps, TestKeeps, TagVersionKeeps,
                TagLatestKeeps, TagFailsKeeps
        <3>4. QED
            BY <2>2, <3>1, <3>2, <3>3 DEF Run
    <2>3. ASSUME NEW r \in Runs, Crash(r) PROVE IInv'
        BY <2>3, PhaseKeeps
    <2>4. QED
        BY <2>1, <2>2, <2>3 DEF Next, Over
<1>3. QED
    BY <1>1, <1>2, PTL DEF Spec

\* Types.
THEOREM TypeCorrect == Exclusive => (Spec => []TypeOK)
<1>1. IInv => TypeOK
    BY DEF IInv
<1>2. QED
    BY <1>1, IInvInvariant, PTL

\* A version tag is always on a build that has passed its tests, whatever runs
\* failed or were killed before.
THEOREM VersionsWereTested == Exclusive => (Spec => []VersionsAreTested)
<1>1. IInv => VersionsAreTested
    BY DEF IInv
<1>2. QED
    BY <1>1, IInvInvariant, PTL

\* So is the placeholder tag.
THEOREM LatestWasTested == Exclusive => (Spec => []LatestIsTested)
<1>1. IInv => LatestIsTested
    BY DEF IInv
<1>2. QED
    BY <1>1, IInvInvariant, PTL

\* A run that returns nil leaves every image tagged, though earlier runs may
\* have stopped between any two tags.
THEOREM SuccessIsComplete == Exclusive => (Spec => SuccessCompletes)
<1> DEFINE Complete == \A r \in Runs : phase[r] = "retag" /\ phase'[r] = "ok" =>
                \A n \in Nodes : final[n] # None /\ (release[r] => latest[n] = final[n])
<1> SUFFICES ASSUME Exclusive PROVE Spec => SuccessCompletes
    OBVIOUS
<1>1. IInv /\ [Next]_vars => [Complete]_vars
    <2> SUFFICES ASSUME IInv, Next, NEW q \in Runs, phase[q] = "retag", phase'[q] = "ok",
                        NEW n \in Nodes
                 PROVE  final[n] # None /\ (release[q] => latest[n] = final[n])
        BY DEF Complete
    <2>1. EndRetag(q)
        <3>1. ASSUME NEW r \in Runs, Run(r) \/ Crash(r) PROVE EndRetag(q)
            <4>1. phase'[q] # phase[q]
                OBVIOUS
            <4>2. r = q
                BY <3>1, <4>1 DEF Run, Start, PlanFails, EndPlan, Gate, EndRetag, Ask, Skip,
                    Build, Test, TagVersion, TagLatest, TagFails, Crash, Goto, IInv, TypeOK
            <4>3. QED
                BY <3>1, <4>1, <4>2 DEF Run, Start, PlanFails, EndPlan, Gate, Ask, Skip,
                    Build, Test, TagVersion, TagLatest, TagFails, Crash, Goto, IInv, TypeOK
        <3>2. QED
            BY <3>1 DEF Next, Over, vars
    <2>2. image[q][n] = "tagged"
        BY <2>1 DEF EndRetag, Goto, IInv, TypeOK
    <2>3. QED
        BY <2>2 DEF IInv, RetagInv
<1>2. QED
    BY <1>1, IInvInvariant, PTL DEF Spec, SuccessCompletes

\* Without --force-rebuild, a version tag is never moved.
THEOREM VersionsAreKept == Exclusive => (Spec => VersionsStay)
<1> DEFINE Kept == \A n \in Nodes : final[n] # None /\ final'[n] # final[n] =>
                \E r \in Runs : phase[r] = "retag" /\ force[r]
<1> SUFFICES ASSUME Exclusive PROVE Spec => VersionsStay
    OBVIOUS
<1>1. IInv /\ [Next]_vars => [Kept]_vars
    <2> SUFFICES ASSUME IInv, Next, NEW n \in Nodes, final[n] # None, final'[n] # final[n]
                 PROVE  \E r \in Runs : phase[r] = "retag" /\ force[r]
        BY DEF Kept
    <2>1. PICK r \in Runs, m \in Nodes : TagVersion(r, m)
        BY DEF Next, Over, vars, registry, Run, Start, PlanFails, EndPlan, Gate, EndRetag, Ask,
            Skip, Build, Test, TagLatest, TagFails, Crash
    <2>2. m = n /\ n \in needsRebuild[r]
        BY <2>1 DEF TagVersion, IInv, TypeOK
    <2>3. phase[r] = "retag" /\ image[r][n] \in Untagged
        BY <2>1, <2>2 DEF TagVersion
    <2>4. force[r]
        BY <2>2, <2>3 DEF IInv, PlanInv, Active
    <2>5. QED
        BY <2>3, <2>4
<1>2. QED
    BY <1>1, IInvInvariant, PTL DEF Spec, VersionsStay

-----------------------------------------------------------------------------
(* From which builds the builds are, when nobody stops a run that tags.      *)

\* A version tag is on the build of a run only once that run tags.
Fresh ==
    \A r \in Runs : phase[r] \in {"idle", "plan", "build"} => \A n \in Nodes : final[n] # r

\* --force-rebuild leaves no image out.
Forced == \A r \in Runs : force[r] => unplanned[r] \cup needsRebuild[r] = Nodes

\* A build with a version tag is from a build of each parent.
Sourced ==
    \A n \in Nodes : final[n] # None =>
        \A m \in ParentsOf(n) : base[final[n]][n][m] # None

\* What the active run has built is from the builds the parents' version tags
\* will be on when it has ended.
Made == {"built", "ready", "testsfailed", "versioned", "tagged"}
BuiltInv ==
    \A r \in Runs : phase[r] \in {"build", "retag"} =>
        \A n \in needsRebuild[r] :
            /\ image[r][n] \in Made =>
                /\ dev[n] = r
                /\ \A m \in ParentsOf(n) :
                    base[r][n][m] = IF m \in needsRebuild[r] THEN r ELSE final[m]
            /\ image[r][n] \in {"versioned", "tagged"} => final[n] = r

\* The image of a version tag is from the images of its parents' version tags.
FromVersions(n) ==
    \A m \in ParentsOf(n) : base[final[n]][n][m] = final[m]

\* As long as no run was stopped while it tagged, that holds when no run tags,
\* and at any time for the images the run leaves alone, whose parents it leaves
\* alone too.
Settled ==
    (\A q \in Runs : phase[q] # "partial") =>
        /\ (\A q \in Runs : phase[q] # "retag") =>
            \A n \in Nodes : final[n] # None => FromVersions(n)
        /\ \A r \in Runs : phase[r] = "retag" =>
            \A n \in Nodes \ needsRebuild[r] :
                FromVersions(n) /\ ParentsOf(n) \cap needsRebuild[r] = {}

BasesInv == Fresh /\ Forced /\ Sourced /\ BuiltInv /\ Settled

-----------------------------------------------------------------------------

\* A run that is started, and a run that asks.
LEMMA PlanSettles ==
    ASSUME Exclusive, IInv, BasesInv, NEW r \in Runs, Start(r) \/ \E n \in Nodes : Ask(r, n)
    PROVE  BasesInv'
<1>1. UNCHANGED <<force, image, dev, final, base>>
    BY DEF Start, Ask, options, planning, registry
<1>2. /\ \A q \in Runs : q # r => phase'[q] = phase[q] /\ needsRebuild'[q] = needsRebuild[q]
      /\ phase[r] \in {"idle", "plan"} /\ phase'[r] = "plan"
      /\ \A q \in Runs : force[q] =>
            unplanned'[q] \cup needsRebuild'[q] = unplanned[q] \cup needsRebuild[q]
    <2>1. CASE Start(r)
        BY <2>1 DEF Start, Goto, planning, IInv, TypeOK
    <2>2. ASSUME NEW n \in Nodes, Ask(r, n)
          PROVE  /\ phase[r] = "plan" /\ phase' = phase
                 /\ \A q \in Runs : q # r =>
                        needsRebuild'[q] = needsRebuild[q] /\ unplanned'[q] = unplanned[q]
                 /\ force[r] =>
                        unplanned'[r] \cup needsRebuild'[r] = unplanned[r] \cup needsRebuild[r]
        <3>1. n \in unplanned[r] /\ unplanned'[r] = unplanned[r] \ {n}
            BY <2>2 DEF Ask, IInv, TypeOK
        <3>2. force[r] => needsRebuild'[r] = needsRebuild[r] \cup {n}
            BY <2>2 DEF Ask, IInv, TypeOK
        <3>3. QED
            BY <2>2, <3>1, <3>2 DEF Ask, IInv, TypeOK
    <2>3. QED
        BY <2>1, <2>2
<1>3. Fresh' /\ Forced' /\ Sourced'
    BY <1>1, <1>2 DEF BasesInv, Fresh, Forced, Sourced
<1>4. BuiltInv'
    BY <1>1, <1>2 DEF BasesInv, BuiltInv
<1>5. Settled'
    <2>1. /\ (\A q \in Runs : phase'[q] # "partial") => (\A q \in Runs : phase[q] # "partial")
          /\ (\A q \in Runs : phase'[q] # "retag") => (\A q \in Runs : phase[q] # "retag")
        BY <1>2
    <2>2. UNCHANGED <<final, base>>
        BY <1>1
    <2>3. \A q \in Runs : phase'[q] = "retag" =>
            phase[q] = "retag" /\ needsRebuild'[q] = needsRebuild[q]
        BY <1>2
    <2>4. QED
        BY <2>1, <2>2, <2>3 DEF BasesInv, Settled, FromVersions
<1>6. QED
    BY <1>3, <1>4, <1>5 DEF BasesInv

\* A run that turns from one part of doBuild to the next, or ends.  When it begins
\* to tag, an image that it leaves alone has parents that it leaves alone: the
\* build of such a parent would be missing in the registry, or all be forced.
LEMMA PhaseSettles ==
    ASSUME IInv, BasesInv, NEW r \in Runs,
           PlanFails(r) \/ EndPlan(r) \/ Gate(r) \/ EndRetag(r) \/ Crash(r)
    PROVE  BasesInv'
<1>1. /\ phase[r] \in Active
      /\ UNCHANGED <<force, release, noRetag, unplanned, needsRebuild, image, dev, final,
                     latest, base, passed>>
    BY DEF PlanFails, EndPlan, Gate, EndRetag, Crash, Active, options, planning, registry
<1>2. /\ \A q \in Runs : q # r => phase'[q] = phase[q]
      /\ \/ phase[r] # "retag" /\ phase'[r] \in {"ok", "error", "crashed"}
         \/ phase[r] = "plan" /\ unplanned[r] = {} /\ phase'[r] = "build"
         \/ phase[r] = "build" /\ Visited(r) /\ ~CheckError(r) /\ phase'[r] = "retag"
         \/ phase[r] = "retag" /\ phase'[r] = "partial"
         \/ /\ phase[r] = "retag" /\ phase'[r] = "ok"
            /\ \A n \in Nodes : image[r][n] = "tagged"
    BY DEF PlanFails, EndPlan, Gate, EndRetag, Crash, Goto, Active, IInv, TypeOK
<1>3. \A q \in Runs : q # r => phase[q] \notin Active /\ phase'[q] \notin Active
    BY <1>1, <1>2, OthersIdle
<1>4. Fresh'
    BY <1>1, <1>2 DEF BasesInv, Fresh
<1>5. Forced' /\ Sourced'
    BY <1>1 DEF BasesInv, Forced, Sourced
<1>6. BuiltInv'
    <2>1. ASSUME phase'[r] = "build", NEW n \in needsRebuild[r]
          PROVE  image[r][n] = "waiting"
        BY <1>2, <2>1 DEF IInv, NotBegun, TypeOK
    <2>2. QED
        BY <1>1, <1>2, <1>3, <2>1 DEF BasesInv, BuiltInv, Active, Made
<1>7. ASSUME phase[r] = "build", phase'[r] = "retag", NEW n \in Nodes \ needsRebuild[r],
             \A q \in Runs : phase[q] # "partial"
      PROVE  FromVersions(n) /\ ParentsOf(n) \cap needsRebuild[r] = {}
    <2>1. unplanned[r] = {} /\ final[n] # None
        BY <1>7 DEF IInv, PlanInv, Active
    <2>2. ~force[r]
        BY <1>7, <2>1 DEF BasesInv, Forced
    <2>3. FromVersions(n)
        BY <1>3, <1>7, <2>1 DEF BasesInv, Settled, Active
    <2>4. ASSUME NEW m \in ParentsOf(n), m \in needsRebuild[r] PROVE FALSE
        <3>1. image[r][m] = "ready"
            BY <1>2, <1>7, <2>4 DEF IInv, TypeOK, RetagInv, Visited, CheckError, Untagged
        <3>2. final[m] = None
            BY <1>7, <2>2, <2>4, <3>1 DEF IInv, PlanInv, Active, Untagged
        <3>3. QED
            BY <2>1, <2>3, <2>4, <3>2 DEF FromVersions, BasesInv, Sourced
    <2>5. QED
        BY <2>3, <2>4
<1>8. ASSUME phase[r] = "retag", phase'[r] = "ok", NEW n \in Nodes,
             \A q \in Runs : phase[q] # "partial"
      PROVE  FromVersions(n)
    <2>1. CASE n \notin needsRebuild[r]
        BY <1>8, <2>1 DEF BasesInv, Settled
    <2>2. CASE n \in needsRebuild[r]
        <3>1. /\ image[r][n] = "tagged" /\ final[n] = r
              /\ \A m \in ParentsOf(n) :
                    base[r][n][m] = IF m \in needsRebuild[r] THEN r ELSE final[m]
            BY <1>2, <1>8, <2>2 DEF BasesInv, BuiltInv, Made
        <3>2. \A m \in needsRebuild[r] : final[m] = r
            BY <1>2, <1>8 DEF BasesInv, BuiltInv, IInv, TypeOK
        <3>3. QED
            BY <3>1, <3>2 DEF FromVersions
    <2>3. QED
        BY <2>1, <2>2
<1>9. Settled'
    <2> SUFFICES ASSUME \A q \in Runs : phase'[q] # "partial" PROVE
            /\ (\A q \in Runs : phase'[q] # "retag") =>
                \A n \in Nodes : final[n] # None => FromVersions(n)
            /\ \A q \in Runs : phase'[q] = "retag" =>
                \A n \in Nodes \ needsRebuild[q] :
                    FromVersions(n) /\ ParentsOf(n) \cap needsRebuild[q] = {}
        BY <1>1 DEF Settled, FromVersions
    <2>1. \A q \in Runs : phase[q] # "partial"
        BY <1>1, <1>2 DEF Active
    <2>2. \A q \in Runs : phase'[q] = "retag" => q = r /\ phase[r] = "build"
        BY <1>1, <1>2, <1>3 DEF Active
    <2>3. ASSUME \A q \in Runs : phase'[q] # "retag", NEW n \in Nodes, final[n] # None
          PROVE  FromVersions(n)
        <3>1. CASE phase[r] = "retag"
            BY <1>2, <1>8, <2>1, <3>1
        <3>2. CASE phase[r] # "retag"
            BY <1>3, <2>1, <2>3, <3>2 DEF BasesInv, Settled, Active
        <3>3. QED
            BY <3>1, <3>2
    <2>4. QED
        BY <1>7, <2>1, <2>2, <2>3
<1>10. QED
    BY <1>4, <1>5, <1>6, <1>9 DEF BasesInv

\* An image of the build whose state changes: if it is built, from the parents'
\* current references.
LEMMA VisitSettles ==
    ASSUME IInv, BasesInv, NEW r \in Runs, NEW n \in Nodes,
           NEW state \in {"built", "ready", "failed", "testsfailed"},
           phase[r] = "build",
           Mark(r, n, state),
           UNCHANGED <<phase, options, planning, final>>,
           \/ /\ UNCHANGED <<dev, base>>
              /\ image[r][n] \in Made \/ state = "failed" \/ n \notin needsRebuild[r]
           \/ /\ dev' = [dev EXCEPT ![n] = r]
              /\ base' = [base EXCEPT ![r][n] =
                    [m \in Nodes |-> IF m \in ParentsOf(n) THEN CurrentRef(r, m) ELSE None]]
              /\ \A m \in ParentsOf(n) \cap needsRebuild[r] : dev[m] = r
    PROVE  BasesInv'
<1>1. UNCHANGED <<force, unplanned, needsRebuild>>
    BY DEF options, planning
<1>2. /\ image'[r][n] = state
      /\ \A m \in Nodes : m # n => image'[r][m] = image[r][m]
    BY DEF Mark, IInv, TypeOK
<1>3. \A q \in Runs : q # r => phase[q] \notin Active
    BY OthersIdle DEF Active
<1>4. /\ \A q \in Runs, m \in Nodes : q # r \/ m # n => base'[q][m] = base[q][m]
      /\ \A m \in Nodes : m # n => dev'[m] = dev[m]
    BY DEF IInv, TypeOK
<1>5. \A m \in Nodes : final[m] # r
    BY DEF BasesInv, Fresh
<1>6. \A m \in Nodes : final[m] # None => final[m] \in Runs /\ base'[final[m]][m] = base[final[m]][m]
    BY <1>4, <1>5 DEF IInv, TypeOK, Builds
<1>7. Fresh' /\ Forced' /\ Sourced'
    BY <1>1, <1>6 DEF BasesInv, Fresh, Forced, Sourced
<1>8. BuiltInv'
    <2> SUFFICES ASSUME NEW k \in needsRebuild[r]
                 PROVE  /\ image'[r][k] \in Made =>
                            /\ dev'[k] = r
                            /\ \A m \in ParentsOf(k) : base'[r][k][m] =
                                IF m \in needsRebuild[r] THEN r ELSE final[m]
                        /\ image'[r][k] \notin {"versioned", "tagged"}
        BY <1>1, <1>3 DEF BuiltInv, Active
    <2>1. k \in Nodes /\ image[r][k] \notin {"versioned", "tagged"}
        BY DEF IInv, TypeOK, RetagInv, Untagged
    <2>2. CASE k # n
        BY <1>2, <1>4, <2>1, <2>2 DEF BasesInv, BuiltInv
    <2>3. CASE /\ k = n /\ UNCHANGED <<dev, base>>
               /\ image[r][n] \in Made \/ state = "failed" \/ n \notin needsRebuild[r]
        BY <1>2, <2>1, <2>3 DEF BasesInv, BuiltInv, Made
    <2>4. CASE /\ k = n
               /\ dev' = [dev EXCEPT ![n] = r]
               /\ base' = [base EXCEPT ![r][n] =
                    [m \in Nodes |-> IF m \in ParentsOf(n) THEN CurrentRef(r, m) ELSE None]]
               /\ \A m \in ParentsOf(n) \cap needsRebuild[r] : dev[m] = r
        <3>1. base'[r][n] = [m \in Nodes |-> IF m \in ParentsOf(n) THEN CurrentRef(r, m) ELSE None]
            BY <2>4 DEF IInv, TypeOK
        <3>2. \A m \in ParentsOf(n) : base'[r][n][m] = CurrentRef(r, m)
            BY <3>1, ParentsAreNodes
        <3>3. dev'[n] = r /\ image'[r][n] \notin {"versioned", "tagged"}
            BY <1>2, <2>4 DEF IInv, TypeOK
        <3>4. QED
            BY <2>4, <3>2, <3>3 DEF CurrentRef
    <2>5. QED
        BY <2>2, <2>3, <2>4
<1>9. Settled'
    <2>1. \A k \in Nodes : final[k] # None => (FromVersions(k)' <=> FromVersions(k))
        BY <1>6 DEF FromVersions
    <2>2. \A q \in Runs : phase[q] # "retag"
        BY <1>3 DEF Active
    <2>3. QED
        BY <1>1, <2>1, <2>2 DEF BasesInv, Settled
<1>10. QED
    BY <1>7, <1>8, <1>9 DEF BasesInv


\* An image whose state changes while a run tags: if its version tag moves, it is
\* to the run's own build.
LEMMA TagsSettle ==
    ASSUME IInv, BasesInv, NEW r \in Runs, NEW n \in Nodes,
           NEW state \in {"versioned", "tagged", "refused"},
           phase[r] = "retag", image[r][n] \in {"ready", "versioned"},
           Mark(r, n, state),
           UNCHANGED <<phase, options, planning, dev, base>>,
           \/ final' = final
           \/ n \in needsRebuild[r] /\ final' = [final EXCEPT ![n] = r],
           state \in {"versioned", "tagged"} /\ n \in needsRebuild[r] => final'[n] = r
    PROVE  BasesInv'
<1>1. UNCHANGED <<force, unplanned, needsRebuild>>
    BY DEF options, planning
<1>2. /\ image'[r][n] = state
      /\ \A m \in Nodes : m # n => image'[r][m] = image[r][m]
    BY DEF Mark, IInv, TypeOK
<1>3. \A q \in Runs : q # r => phase[q] \notin Active
    BY OthersIdle DEF Active
<1>4. /\ \A m \in Nodes : final'[m] = final[m] \/ (m = n /\ n \in needsRebuild[r] /\ final'[m] = r)
      /\ \A m \in Nodes \ needsRebuild[r] : final'[m] = final[m]
    BY DEF IInv, TypeOK
<1>5. Fresh' /\ Forced'
    BY <1>1, <1>4 DEF BasesInv, Fresh, Forced
<1>6. \A m \in Nodes \ needsRebuild[r] : final[m] # None
    BY DEF IInv, PlanInv, Active
<1>7. Sourced'
    <2> SUFFICES ASSUME NEW k \in Nodes, final'[k] # None, NEW m \in ParentsOf(k)
                 PROVE  base[final'[k]][k][m] # None
        BY DEF Sourced
    <2>1. CASE final'[k] = final[k]
        BY <2>1 DEF BasesInv, Sourced
    <2>2. CASE k = n /\ n \in needsRebuild[r] /\ final'[k] = r
        <3>1. base[r][n][m] = IF m \in needsRebuild[r] THEN r ELSE final[m]
            BY <2>2 DEF BasesInv, BuiltInv, Made
        <3>2. r # None /\ (m \notin needsRebuild[r] => final[m] # None)
            BY <1>6, RunsAssumption, ParentsAreNodes
        <3>3. QED
            BY <2>2, <3>1, <3>2
    <2>3. QED
        BY <1>4, <2>1, <2>2
<1>8. BuiltInv'
    <2> SUFFICES ASSUME NEW k \in needsRebuild[r]
                 PROVE  /\ image'[r][k] \in Made =>
                            /\ dev[k] = r
                            /\ \A m \in ParentsOf(k) : base[r][k][m] =
                                IF m \in needsRebuild[r] THEN r ELSE final'[m]
                        /\ image'[r][k] \in {"versioned", "tagged"} => final'[k] = r
        BY <1>1, <1>3 DEF BuiltInv, Active
    <2>1. k \in Nodes /\ (image'[r][k] \in Made => image[r][k] \in Made)
        BY <1>2 DEF Made, IInv, TypeOK
    <2>2. image'[r][k] \in Made =>
            /\ dev[k] = r
            /\ \A m \in ParentsOf(k) : base[r][k][m] = IF m \in needsRebuild[r] THEN r ELSE final[m]
        BY <2>1 DEF BasesInv, BuiltInv
    <2>3. \A m \in ParentsOf(k) : m \notin needsRebuild[r] => final'[m] = final[m]
        BY <1>4, <2>1, ParentsAreNodes
    <2>4. image'[r][k] \in {"versioned", "tagged"} => final'[k] = r
        <3>1. CASE k = n
            BY <1>2, <3>1
        <3>2. CASE k # n
            BY <1>2, <1>4, <2>1, <3>2 DEF BasesInv, BuiltInv
        <3>3. QED
            BY <3>1, <3>2
    <2>5. QED
        BY <2>2, <2>3, <2>4
<1>9. Settled'
    <2> SUFFICES ASSUME \A q \in Runs : phase[q] # "partial", NEW k \in Nodes \ needsRebuild[r]
                 PROVE  /\ \A m \in ParentsOf(k) : base[final'[k]][k][m] = final'[m]
                        /\ ParentsOf(k) \cap needsRebuild[r] = {}
        BY <1>1, <1>3 DEF Settled, FromVersions, Active
    <2>1. FromVersions(k) /\ ParentsOf(k) \cap needsRebuild[r] = {}
        BY DEF BasesInv, Settled
    <2>2. \A m \in ParentsOf(k) \cup {k} : final'[m] = final[m]
        BY <1>4, <2>1, ParentsAreNodes
    <2>3. QED
        BY <2>1, <2>2 DEF FromVersions
<1>10. QED
    BY <1>5, <1>7, <1>8, <1>9 DEF BasesInv

\* An image that is built, or not: its parents have been built by now.
LEMMA BuildSettles ==
    ASSUME IInv, BasesInv, NEW r \in Runs, NEW n \in Nodes, Build(r, n)
    PROVE  BasesInv'
<1>1. /\ phase[r] = "build"
      /\ \A m \in ParentsOf(n) : image[r][m] \notin {"waiting", "built", "failed"}
      /\ UNCHANGED <<phase, options, planning, final>>
    BY DEF Build, CanVisit
<1>2. \A m \in ParentsOf(n) \cap needsRebuild[r] : dev[m] = r
    <2> SUFFICES ASSUME NEW m \in ParentsOf(n), m \in needsRebuild[r] PROVE dev[m] = r
        OBVIOUS
    <2>1. m \in Nodes
        BY ParentsAreNodes
    <2>2. image[r][m] \in Made
        BY <1>1, <2>1 DEF IInv, TypeOK, RetagInv, Untagged, Made
    <2>3. QED
        BY <1>1, <2>2 DEF BasesInv, BuiltInv
<1>3. CASE Mark(r, n, "failed") /\ UNCHANGED <<dev, base>>
    BY <1>1, <1>3, VisitSettles
<1>4. CASE /\ dev' = [dev EXCEPT ![n] = r]
           /\ base' = [base EXCEPT ![r][n] =
                [m \in Nodes |-> IF m \in ParentsOf(n) THEN CurrentRef(r, m) ELSE None]]
           /\ Mark(r, n, "built")
    BY <1>1, <1>2, <1>4, VisitSettles
<1>5. QED
    BY <1>3, <1>4 DEF Build

\* The tags of one image.
LEMMA RetagSettles ==
    ASSUME IInv, BasesInv, NEW r \in Runs, NEW n \in Nodes,
           TagVersion(r, n) \/ TagLatest(r, n) \/ TagFails(r, n)
    PROVE  BasesInv'
<1>1. /\ phase[r] = "retag" /\ image[r][n] \in {"ready", "versioned"}
      /\ UNCHANGED <<phase, options, planning, dev, base>>
    BY DEF TagVersion, TagLatest, TagFails, registry, Untagged, IInv, RetagInv
<1>2. CASE TagVersion(r, n)
    <2>1. PICK state \in {"versioned", "tagged"} : Mark(r, n, state)
        BY <1>2 DEF TagVersion
    <2>2. n \in needsRebuild[r] => final' = [final EXCEPT ![n] = r] /\ final'[n] = r
        <3>1. n \in needsRebuild[r] /\ image[r][n] = "ready" => dev[n] = r
            BY <1>1 DEF IInv, BuildInv, Active
        <3>2. image[r][n] = "ready"
            BY <1>1, <1>2 DEF TagVersion, Untagged
        <3>3. QED
            BY <1>2, <3>1, <3>2 DEF TagVersion, IInv, TypeOK
    <2>3. n \notin needsRebuild[r] => final' = final
        BY <1>2 DEF TagVersion
    <2>4. QED
        BY <1>1, <2>1, <2>2, <2>3, TagsSettle
<1>3. CASE TagLatest(r, n)
    <2>1. Mark(r, n, "tagged") /\ final' = final /\ image[r][n] = "versioned"
        BY <1>3 DEF TagLatest
    <2>2. n \in needsRebuild[r] => final[n] = r
        BY <1>1, <2>1 DEF BasesInv, BuiltInv
    <2>3. QED
        BY <1>1, <2>1, <2>2, TagsSettle
<1>4. CASE TagFails(r, n)
    <2>1. Mark(r, n, "refused") /\ final' = final
        BY <1>4 DEF TagFails, registry
    <2>2. QED
        BY <1>1, <2>1, TagsSettle
<1>5. QED
    BY <1>2, <1>3, <1>4

\* Unless a run is stopped while it tags, the image somebody pulls is from the
\* parent somebody pulls.  dib/build.go:192, dib/tag.go:20.
THEOREM BasesAreFromVersions == Exclusive => (Spec => []BasesAreVersions)
<1> SUFFICES ASSUME Exclusive PROVE Spec => []BasesAreVersions
    OBVIOUS
<1>1. Init => BasesInv
    BY RunsAssumption DEF Init, BasesInv, Fresh, Forced, Sourced, BuiltInv, Settled
<1>2. IInv /\ BasesInv /\ [Next]_vars => BasesInv'
    <2> SUFFICES ASSUME IInv, BasesInv, [Next]_vars PROVE BasesInv'
        OBVIOUS
    <2>1. CASE UNCHANGED vars
        BY <2>1 DEF vars, options, planning, registry, BasesInv, Fresh, Forced, Sourced, BuiltInv,
            Settled, FromVersions
    <2>2. ASSUME NEW r \in Runs, Run(r) \/ Crash(r) PROVE BasesInv'
        <3>1. CASE Start(r) \/ \E n \in Nodes : Ask(r, n)
            BY <3>1, PlanSettles
        <3>2. CASE PlanFails(r) \/ EndPlan(r) \/ Gate(r) \/ EndRetag(r) \/ Crash(r)
            BY <3>2, PhaseSettles
        <3>3. ASSUME NEW n \in Nodes, Skip(r, n) PROVE BasesInv'
            <4>1. /\ phase[r] = "build"
                  /\ UNCHANGED <<phase, options, planning, final, dev, base>>
                BY <3>3 DEF Skip, CanVisit, registry
            <4>2. PICK state \in {"ready", "failed"} :
                    Mark(r, n, state) /\ (state = "failed" \/ n \notin needsRebuild[r])
                BY <3>3 DEF Skip
            <4>3. QED
                BY <4>1, <4>2, VisitSettles
        <3>4. ASSUME NEW n \in Nodes, Build(r, n) PROVE BasesInv'
            BY <3>4, BuildSettles
        <3>5. ASSUME NEW n \in Nodes, Test(r, n) PROVE BasesInv'
            <4>1. /\ phase[r] = "build" /\ image[r][n] \in Made
                  /\ UNCHANGED <<phase, options, planning, final, dev, base>>
                BY <3>5 DEF Test, registry, Made
            <4>2. PICK state \in {"ready", "testsfailed"} : Mark(r, n, state)
                BY <3>5 DEF Test
            <4>3. QED
                BY <4>1, <4>2, VisitSettles
        <3>6. ASSUME NEW n \in Nodes, TagVersion(r, n) \/ TagLatest(r, n) \/ TagFails(r, n)
              PROVE  BasesInv'
            BY <3>6, RetagSettles
        <3>7. QED
            BY <2>2, <3>1, <3>2, <3>3, <3>4, <3>5, <3>6 DEF Run
    <2>3. QED
        BY <2>1, <2>2 DEF Next, Over
<1>3. BasesInv => BasesAreVersions
    BY DEF BasesInv, Settled, FromVersions, BasesAreVersions
<1>4. QED
    BY <1>1, <1>2, <1>3, IInvInvariant, PTL DEF Spec

=============================================================================
