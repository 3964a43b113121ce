------------------------- MODULE BuildCommandProofs -------------------------
(***************************************************************************)
(* Proofs about GossTests and BuildCommand, for any set of images and any  *)
(* set of options.                                                         *)
(***************************************************************************)
EXTENDS BuildCommand, TLAPS

\* The phases before the build, and after it.
Early == {"host", "graph", "runners", "connect", "plan", "builder"}
Promoting == {"retag", "ok", "error"}

\* A build of a local BuildKit, which Retag is not called for.
LocalBuildkit == opts.localOnly /\ opts.backend = "buildkit"

\* What the phase says of the images.
PhaseInv ==
    /\ phase \in Early => \A n \in Images : image[n] = "waiting" /\ test[n] = "idle"
    /\ phase \notin Early \cup {"error"} => opts.backend # "other"
    /\ phase \in {"report", "gate"} => \A n \in Images : image[n] \in {"done", "failed"}
    /\ phase \in {"tagger", "retag"} =>
        /\ ~opts.noRetag
        /\ \A n \in Images : image[n] \in {"done", "tagged", "refused"}
    /\ phase = "retag" => ~LocalBuildkit
    /\ phase = "ok" => \/ opts.noRetag
                       \/ LocalBuildkit
                       \/ \A n \in Images : image[n] = "tagged"
    /\ \A n \in Images : image[n] \in {"tagged", "refused"} => phase \in Promoting

\* The executor is that of the options, and an image is done when its test has
\* passed.
RunnerInv ==
    /\ opts.tests = "goss" /\ phase \notin {"host", "graph", "runners", "error"} =>
        executor # "none"
    /\ executor = "kubernetes" => ~opts.localOnly
    /\ executor = "dgoss" => Docker
    /\ executor = "containerd" => ~Docker
    /\ \A n \in Images :
        /\ image[n] \in {"waiting", "built"} => test[n] = "idle"
        /\ image[n] = "built" => Docker /\ opts.push /\ ~opts.dryRun
        /\ image[n] \in {"done", "tagged", "refused"} /\ n \in needsRebuild =>
            opts.tests = "off" \/ test[n] = "passed"

\* The builds of Docker are on the host.
HostInv ==
    \A n \in needsRebuild :
        Docker /\ ~opts.dryRun /\ image[n] \notin {"waiting", "failed"} =>
            store["local"]["dev"][n] = "new"

\* Where the tagger works there is this run's build.
TargetInv ==
    \A n \in needsRebuild \ unseen :
        image[n] \in {"pushed", "done", "tagged", "refused"} /\ ~opts.dryRun /\ ~Unpushed
            /\ ~LocalBuildkit => store[Target]["dev"][n] = "new"

\* What Retag has done.
TagsInv ==
    /\ \A n \in needsRebuild :
        image[n] = "tagged" /\ ~opts.dryRun =>
            store[Target]["version"][n] = store[Target]["dev"][n]
    /\ \A n \in Images, s \in Stores :
        store[s]["version"][n] = "new" =>
            /\ phase \in Promoting /\ opts.backend # "other"
            /\ s = Target /\ ~opts.dryRun /\ ~LocalBuildkit /\ n \in needsRebuild
            /\ image[n] \in {"tagged", "refused"}
            /\ store[s]["dev"][n] = "new"

StoreInv == HostInv /\ TargetInv /\ TagsInv

\* A test that has ended well has been answered.
AnswerInv ==
    \A n \in configured :
        Reliable(n) /\ test[n] \in {"export", "passed"} =>
            \/ test[n] = "export" /\ n \in testError
            \/ \E b \in Builds : <<n, b>> \in validated

\* What goss has answered for is what the executor still finds.
FoundInv ==
    \A n \in Images, b \in Builds :
        <<n, b>> \in validated => test[n] # "idle" /\ b # "none" /\ b = Found(n)

-----------------------------------------------------------------------------
(* Types                                                                   *)

\* What Set does to the stores.
LEMMA SetStore ==
    ASSUME TypeOK, NEW s \in Stores, NEW t \in Tags, NEW n \in Images, NEW b \in Builds,
           Set(s, t, n, b)
    PROVE  /\ store' \in [Stores -> [Tags -> [Images -> Builds]]]
           /\ changed' \in SUBSET Stores
           /\ \A r \in Stores, u \in Tags, m \in Images :
                store'[r][u][m] = IF r = s /\ u = t /\ m = n THEN b ELSE store[r][u][m]
    BY DEF Set, TypeOK

\* The steps of RunTest keep the types, and start no test anew.
LEMMA TestStepTypes ==
    ASSUME TestTypeOK, NEW n \in Images, TestStep(n)
    PROVE  TestTypeOK' /\ test[n] # "idle" /\ test'[n] # "idle"
<1> USE DEF TestTypeOK, testing, outcome, To, Try
<1>1. CASE Prepare(n)
    BY <1>1 DEF Prepare
<1>2. CASE StartContainer(n)
    BY <1>2 DEF StartContainer
<1>3. CASE CheckSocketRootless(n)
    BY <1>3 DEF CheckSocketRootless
<1>4. CASE CheckSocketRootful(n)
    BY <1>4 DEF CheckSocketRootful
<1>5. CASE RunContainer(n)
    BY <1>5 DEF RunContainer
<1>6. CASE LosePod(n)
    BY <1>6 DEF LosePod
<1>7. CASE Export(n)
    BY <1>7 DEF Export
<1>8. QED
    BY <1>1, <1>2, <1>3, <1>4, <1>5, <1>6, <1>7 DEF TestStep

LEMMA ValidateTypes ==
    ASSUME TestTypeOK, NEW n \in Images, NEW b \in Builds, Validate(n, b)
    PROVE  TestTypeOK'
    BY DEF TestTypeOK, testing, outcome, To, Validate

LEMMA FoundType ==
    ASSUME TypeOK, NEW n \in Images
    PROVE  Found(n) \in Builds
    BY DEF TypeOK, Found, Stores, Tags

\* The next step of the whole program.
LEMMA TypesKeep ==
    ASSUME TypeOK, [Next]_vars
    PROVE  TypeOK'
<1> USE DEF TypeOK, testVars, walk, stores, Mark, Phases
<1>1. CASE UNCHANGED vars
    BY <1>1 DEF vars, TestTypeOK, testing, outcome
<1>2. ASSUME UNCHANGED testVars PROVE TestTypeOK'
    BY <1>2 DEF TestTypeOK, testing, outcome
<1>3. CASE FindHost \/ GenerateGraph \/ Connect \/ MakeBuilder \/ EndBuild \/ GenerateReport
           \/ Gate \/ ChooseTagger \/ EndRetag
    BY <1>2, <1>3 DEF FindHost, GenerateGraph, Connect, Step, MakeBuilder, EndBuild,
        GenerateReport, Gate, ChooseTagger, EndRetag, Fail
<1>4. CASE MakeRunners
    <2>1. UNCHANGED <<rootless, configured, test, outcome, opts, walk, stores>>
          /\ phase' \in {"connect", "error"}
          /\ executor' \in {executor, "dgoss", "containerd", "kubernetes"}
        BY <1>4 DEF MakeRunners, ExecutorFor
    <2>2. QED
        BY <2>1 DEF TestTypeOK, outcome
<1>5. CASE MakePlan
    BY <1>2, <1>5 DEF MakePlan, Fail
<1>6. ASSUME NEW n \in Images, SkipImage(n) PROVE TypeOK'
    BY <1>2, <1>6 DEF SkipImage
<1>7. ASSUME NEW n \in Images, BuildImage(n) PROVE TypeOK'
    <2>1. TestTypeOK' /\ opts' = opts /\ phase' = phase /\ needsRebuild' = needsRebuild
        BY <1>2, <1>7 DEF BuildImage
    <2>2. CASE Docker /\ DockerBuild(n)
        <3>1. CASE Set("local", "dev", n, "new")
            BY <2>1, <2>2, <3>1, SetStore DEF DockerBuild, Stores, Tags, Builds
        <3>2. CASE UNCHANGED stores
            BY <2>1, <2>2, <3>2 DEF DockerBuild
        <3>3. QED
            BY <2>2, <3>1, <3>2 DEF DockerBuild
    <2>3. CASE BuildctlLocal(n)
        <3>1. CASE Set("local", "dev", n, "new")
            BY <2>1, <2>3, <3>1, SetStore DEF BuildctlLocal, BuildFails, Stores, Tags, Builds
        <3>2. CASE UNCHANGED stores
            BY <2>1, <2>3, <3>2 DEF BuildctlLocal, BuildFails
        <3>3. CASE store' = [s \in Stores |-> [store[s] EXCEPT !["dev"][n] = "new"]]
                   /\ changed' = Stores
            <4>1. store' \in [Stores -> [Tags -> [Images -> Builds]]]
                <5>1. \A s \in Stores :
                        [store[s] EXCEPT !["dev"][n] = "new"] \in [Tags -> [Images -> Builds]]
                    BY DEF Builds, Tags
                <5>2. QED
                    BY <3>3, <5>1
            <4>2. image' \in [Images -> {"waiting", "built", "pushed", "done", "failed",
                                        "tagged", "refused"}] /\ unseen' \in SUBSET Images
                BY <2>3 DEF BuildctlLocal, BuildFails
            <4>3. QED
                BY <2>1, <3>3, <4>1, <4>2
        <3>4. QED
            BY <2>3, <3>1, <3>2, <3>3 DEF BuildctlLocal, BuildFails
    <2>4. CASE BuildctlPod(n)
        <3>1. CASE Set("registry", "dev", n, "new")
            BY <2>1, <2>4, <3>1, SetStore DEF BuildctlPod, BuildFails, Stores, Tags, Builds
        <3>2. CASE UNCHANGED stores
            BY <2>1, <2>4, <3>2 DEF BuildctlPod, BuildFails
        <3>3. QED
            BY <2>4, <3>1, <3>2 DEF BuildctlPod, BuildFails
    <2>5. CASE BuildFails(n)
        BY <2>1, <2>5 DEF BuildFails
    <2>6. QED
        BY <1>7, <2>2, <2>3, <2>4, <2>5 DEF BuildImage, BuildkitBuild
<1>8. ASSUME NEW n \in Images, DockerPush(n) PROVE TypeOK'
    <2>1. CASE Set("registry", "dev", n, "new")
        BY <1>2, <1>8, <2>1, SetStore DEF DockerPush, Stores, Tags, Builds
    <2>2. CASE UNCHANGED stores
        BY <1>2, <1>8, <2>2 DEF DockerPush
    <2>3. QED
        BY <1>8, <2>1, <2>2 DEF DockerPush
<1>9. ASSUME NEW n \in Images, BeginTest(n) \/ EndTest(n) PROVE TypeOK'
    <2>1. TestTypeOK'
        BY <1>2, <1>9 DEF BeginTest, EndTest, StartTest, TestTypeOK, testing, outcome, To
    <2>2. QED
        BY <1>9, <2>1 DEF BeginTest, EndTest
<1>10. ASSUME NEW n \in Images, TestImage(n) PROVE TypeOK'
    <2>1. TestTypeOK'
        BY <1>10, TestStepTypes, ValidateTypes, FoundType DEF TestImage
    <2>2. QED
        BY <1>10, <2>1 DEF TestImage
<1>11. ASSUME NEW n \in Images, RetagImage(n) PROVE TypeOK'
    <2>1. CASE Set(Target, "version", n, store[Target]["dev"][n])
        <3>1. Target \in Stores /\ store[Target]["dev"][n] \in Builds
            BY DEF Target, Stores, Tags
        <3>2. QED
            BY <1>2, <1>11, <2>1, <3>1, SetStore DEF RetagImage, Tags
    <2>2. CASE UNCHANGED stores
        BY <1>2, <1>11, <2>2 DEF RetagImage
    <2>3. QED
        BY <1>11, <2>1, <2>2 DEF RetagImage
<1>12. QED
    BY <1>1, <1>3, <1>4, <1>5, <1>6, <1>7, <1>8, <1>9, <1>10, <1>11
    DEF Next, DoBuild, Visit, Returned

\* The type invariant of GossTests and BuildCommand.
THEOREM TypeCorrect == Spec => []TypeOK
<1>1. Init => TypeOK
    BY OptionSetsAssumption, EarlierStoresAssumption
    DEF Init, TestInit, TypeOK, TestTypeOK, Phases, Builds, Stores, Tags
<1>2. QED
    BY <1>1, TypesKeep, PTL DEF Spec

-----------------------------------------------------------------------------
(* What the steps do                                                       *)

\* The steps of doBuild that change nothing but the phase.
PhaseStep ==
    \/ FindHost \/ GenerateGraph \/ Connect \/ MakeBuilder \/ EndBuild \/ GenerateReport
    \/ Gate \/ ChooseTagger \/ EndRetag

LEMMA PhaseStepEffect ==
    ASSUME TypeOK, PhaseInv, PhaseStep
    PROVE  /\ UNCHANGED <<executor, rootless, configured, test, testError, validated, lost>>
           /\ UNCHANGED <<opts, needsRebuild, image, unseen, store, changed>>
           /\ phase' \notin {"host", "graph", "runners", "error"} =>
                phase \notin {"host", "graph", "runners", "error"}
           /\ phase \in Promoting => phase' \in Promoting
           /\ PhaseInv'
<1> USE DEF PhaseStep, PhaseInv, Early, Promoting, LocalBuildkit, testVars, testing, outcome, walk,
        stores, Fail
<1>1. CASE FindHost
    BY <1>1 DEF FindHost
<1>2. CASE GenerateGraph \/ Connect
    BY <1>2 DEF GenerateGraph, Connect, Step
<1>3. CASE MakeBuilder
    BY <1>3 DEF MakeBuilder
<1>4. CASE EndBuild
    BY <1>4 DEF EndBuild
<1>5. CASE GenerateReport
    BY <1>5 DEF GenerateReport
<1>6. CASE Gate
    BY <1>6 DEF Gate
<1>7. CASE ChooseTagger
    BY <1>7 DEF ChooseTagger
<1>8. CASE EndRetag
    BY <1>8 DEF EndRetag, TypeOK
<1>9. QED
    BY <1>1, <1>2, <1>3, <1>4, <1>5, <1>6, <1>7, <1>8

\* What a build does to the images, the stores and the history.
LEMMA BuildEffect ==
    ASSUME TypeOK, NEW n \in Images, BuildImage(n)
    PROVE  /\ phase = "build" /\ image[n] = "waiting" /\ n \in needsRebuild
           /\ UNCHANGED <<executor, rootless, configured, test, testError, validated, lost>>
           /\ UNCHANGED <<opts, phase, needsRebuild>>
           /\ image'[n] \in {"built", "pushed", "failed"}
           /\ \A m \in Images \ {n} : image'[m] = image[m]
           /\ \A s \in Stores, m \in Images : store'[s]["version"][m] = store[s]["version"][m]
           /\ \A s \in Stores, m \in Images \ {n} : store'[s]["dev"][m] = store[s]["dev"][m]
           /\ image'[n] = "built" => Docker /\ opts.push /\ ~opts.dryRun
           /\ Docker /\ ~opts.dryRun /\ image'[n] # "failed" =>
                store'["local"]["dev"][n] = "new"
           /\ image'[n] = "pushed" /\ n \notin unseen' /\ ~opts.dryRun /\ ~Unpushed
                /\ ~(opts.localOnly /\ ~Docker) => store'[Target]["dev"][n] = "new"
           /\ unseen \subseteq unseen'
           /\ opts.localOnly /\ ~opts.push /\ "registry" \in changed' => "registry" \in changed
<1> USE DEF TypeOK
<1>1. /\ phase = "build" /\ image[n] = "waiting" /\ n \in needsRebuild
      /\ UNCHANGED <<executor, rootless, configured, test, testError, validated, lost>>
      /\ UNCHANGED <<opts, phase, needsRebuild>>
    BY DEF BuildImage, testVars, testing, outcome
<1>2. /\ "local" \in Stores /\ "registry" \in Stores /\ "local" # "registry"
      /\ "dev" \in Tags /\ "version" \in Tags /\ "dev" # "version" /\ "new" \in Builds
    BY DEF Stores, Tags, Builds
<1>3. CASE Docker /\ DockerBuild(n)
    <2>1. CASE Set("local", "dev", n, "new")
        BY <1>1, <1>2, <1>3, <2>1, SetStore DEF DockerBuild, Mark, Docker, Unpushed, Target, Set
    <2>2. CASE UNCHANGED stores /\ (opts.dryRun \/ Mark(n, "failed"))
        BY <1>1, <1>2, <1>3, <2>2 DEF DockerBuild, Mark, stores
    <2>3. QED
        BY <1>3, <2>1, <2>2 DEF DockerBuild
<1>4. CASE ~Docker /\ BuildFails(n)
    BY <1>1, <1>2, <1>4 DEF BuildFails, Mark, stores
<1>5. CASE ~Docker /\ opts.localOnly /\ BuildctlLocal(n)
    <2>1. CASE Set("local", "dev", n, "new")
        BY <1>1, <1>2, <1>4, <1>5, <2>1, SetStore DEF BuildctlLocal, BuildFails, Mark, stores, Set
    <2>2. CASE BuildFails(n)
        BY <1>4, <1>5, <2>2
    <2>3. CASE /\ Pushes
               /\ store' = [s \in Stores |-> [store[s] EXCEPT !["dev"][n] = "new"]]
               /\ changed' = Stores
               /\ Mark(n, "pushed") /\ UNCHANGED unseen
        <3>1. \A s \in Stores, t \in Tags, m \in Images :
                store'[s][t][m] = IF t = "dev" /\ m = n THEN "new" ELSE store[s][t][m]
            BY <2>3
        <3>2. QED
            BY <1>1, <1>2, <1>5, <2>3, <3>1 DEF Mark, Pushes
    <2>4. QED
        BY <1>5, <2>1, <2>2, <2>3 DEF BuildctlLocal
<1>6. CASE ~Docker /\ ~opts.localOnly /\ BuildctlPod(n)
    <2>1. CASE Set("registry", "dev", n, "new") /\ Mark(n, "pushed") /\ UNCHANGED unseen
        BY <1>1, <1>2, <1>6, <2>1, SetStore DEF Mark, Target, Set
    <2>2. CASE BuildFails(n)
        BY <1>4, <1>6, <2>2
    <2>3. CASE Mark(n, "pushed") /\ unseen' = unseen \cup {n} /\ UNCHANGED stores
        BY <1>1, <1>2, <1>6, <2>3 DEF Mark, stores
    <2>4. QED
        BY <1>6, <2>1, <2>2, <2>3 DEF BuildctlPod
<1>7. QED
    BY <1>3, <1>4, <1>5, <1>6 DEF BuildImage, BuildkitBuild

-----------------------------------------------------------------------------
(* The invariants, one after the other                                     *)

LEMMA PhaseKeeps ==
    ASSUME TypeOK, PhaseInv, [Next]_vars
    PROVE  PhaseInv'
<1> USE DEF TypeOK, PhaseInv, Early, Promoting, LocalBuildkit, Mark
<1>1. CASE UNCHANGED vars
    BY <1>1 DEF vars, testVars, walk
<1>2. CASE PhaseStep
    BY <1>2, PhaseStepEffect
<1>3. CASE MakeRunners
    BY <1>3 DEF MakeRunners, walk
<1>4. CASE MakePlan
    BY <1>4 DEF MakePlan, Fail, testVars
<1>5. ASSUME NEW n \in Images, SkipImage(n) PROVE PhaseInv'
    BY <1>5 DEF SkipImage
<1>6. ASSUME NEW n \in Images, BuildImage(n) PROVE PhaseInv'
    BY <1>6, BuildEffect
<1>7. ASSUME NEW n \in Images, DockerPush(n) PROVE PhaseInv'
    BY <1>7 DEF DockerPush
<1>8. ASSUME NEW n \in Images, BeginTest(n) \/ EndTest(n) PROVE PhaseInv'
    BY <1>8 DEF BeginTest, EndTest
<1>9. ASSUME NEW n \in Images, TestImage(n) PROVE PhaseInv'
    BY <1>9 DEF TestImage, walk
<1>10. ASSUME NEW n \in Images, RetagImage(n) PROVE PhaseInv'
    BY <1>10 DEF RetagImage
<1>11. QED
    BY <1>1, <1>2, <1>3, <1>4, <1>5, <1>6, <1>7, <1>8, <1>9, <1>10
    DEF Next, DoBuild, Visit, Returned, PhaseStep

LEMMA RunnerKeeps ==
    ASSUME TypeOK, TypeOK', PhaseInv, RunnerInv, [Next]_vars
    PROVE  RunnerInv'
<1> USE DEF TypeOK, TestTypeOK, RunnerInv, Mark, Docker
<1>1. CASE UNCHANGED vars
    BY <1>1 DEF vars, testVars, testing, walk
<1>2. CASE PhaseStep
    BY <1>2, PhaseStepEffect DEF PhaseInv
<1>3. CASE MakeRunners
    BY <1>3 DEF MakeRunners, ExecutorFor, walk, PhaseInv, Early
<1>4. CASE MakePlan
    BY <1>4 DEF MakePlan, Fail, testVars, testing, PhaseInv, Early
<1>5. ASSUME NEW n \in Images, SkipImage(n) PROVE RunnerInv'
    BY <1>5 DEF SkipImage, testVars, testing
<1>6. ASSUME NEW n \in Images, BuildImage(n) PROVE RunnerInv'
    BY <1>6, BuildEffect
<1>7. ASSUME NEW n \in Images, DockerPush(n) PROVE RunnerInv'
    BY <1>7 DEF DockerPush, testVars, testing
<1>8. ASSUME NEW n \in Images, BeginTest(n) PROVE RunnerInv'
    BY <1>8 DEF BeginTest, StartTest, To, testVars, testing
<1>9. ASSUME NEW n \in Images, EndTest(n) PROVE RunnerInv'
    BY <1>9 DEF EndTest, testVars, testing
<1>10. ASSUME NEW n \in Images, TestImage(n) PROVE RunnerInv'
    <2>1. UNCHANGED testing /\ (\A m \in Images \ {n} : test'[m] = test[m])
        BY <1>10 DEF TestImage, TestStep, Prepare, StartContainer, CheckSocketRootless,
            CheckSocketRootful, RunContainer, LosePod, Export, Validate, Try, To
    <2>2. QED
        BY <1>10, <2>1 DEF TestImage, walk, testing
<1>11. ASSUME NEW n \in Images, RetagImage(n) PROVE RunnerInv'
    <2>1. image[n] = "done"
        BY <1>11 DEF RetagImage, PhaseInv
    <2>2. QED
        BY <1>11, <2>1 DEF RetagImage, testVars, testing
<1>12. QED
    BY <1>1, <1>2, <1>3, <1>4, <1>5, <1>6, <1>7, <1>8, <1>9, <1>10, <1>11
    DEF Next, DoBuild, Visit, Returned, PhaseStep

\* A visitor that goes on without touching the stores.
LEMMA MarkKeeps ==
    ASSUME TypeOK, StoreInv, NEW n \in Images, NEW state \in {"pushed", "done", "failed"},
           UNCHANGED <<opts, phase, needsRebuild, unseen, store>>,
           image[n] \notin {"tagged", "refused"}, Mark(n, state),
           state = "failed" \/ image[n] = "pushed" \/ n \notin needsRebuild
    PROVE  StoreInv'
<1> USE DEF TypeOK, Mark, Docker, Unpushed, LocalBuildkit, Target, Promoting
<1>1. HostInv'
    BY DEF StoreInv, HostInv
<1>2. TargetInv'
    BY DEF StoreInv, TargetInv
<1>3. TagsInv'
    BY DEF StoreInv, TagsInv
<1>4. QED
    BY <1>1, <1>2, <1>3 DEF StoreInv

LEMMA StoreKeeps ==
    ASSUME TypeOK, TypeOK', PhaseInv, RunnerInv, StoreInv, [Next]_vars
    PROVE  StoreInv'
<1> USE DEF TypeOK, Mark, Docker, Unpushed, LocalBuildkit, Target, Promoting
<1>0. /\ "local" \in Stores /\ "registry" \in Stores /\ "local" # "registry"
      /\ "dev" \in Tags /\ "version" \in Tags /\ "dev" # "version" /\ "new" \in Builds
      /\ Target \in Stores
    BY DEF Stores, Tags, Builds
<1>1. CASE UNCHANGED vars
    BY <1>1 DEF vars, walk, stores, StoreInv, HostInv, TargetInv, TagsInv
<1>2. CASE PhaseStep
    BY <1>2, PhaseStepEffect DEF StoreInv, HostInv, TargetInv, TagsInv
<1>3. CASE MakeRunners
    BY <1>3 DEF MakeRunners, walk, stores, StoreInv, HostInv, TargetInv, TagsInv
<1>4. CASE MakePlan
    BY <1>0, <1>4 DEF MakePlan, Fail, stores, PhaseInv, Early, StoreInv, HostInv, TargetInv, TagsInv
<1>5. ASSUME NEW n \in Images, SkipImage(n) PROVE StoreInv'
    BY <1>5, MarkKeeps DEF SkipImage, stores
<1>6. ASSUME NEW n \in Images, BuildImage(n) PROVE StoreInv'
    <2>1. HostInv'
        <3>1. ASSUME NEW m \in needsRebuild, Docker, ~opts.dryRun,
                     image'[m] \notin {"waiting", "failed"}
              PROVE  store'["local"]["dev"][m] = "new"
            <4>1. CASE m = n
                BY <1>6, <3>1, <4>1, BuildEffect
            <4>2. CASE m # n
                BY <1>0, <1>6, <3>1, <4>2, BuildEffect DEF StoreInv, HostInv
            <4>3. QED
                BY <4>1, <4>2
        <3>2. UNCHANGED <<opts, needsRebuild>>
            BY <1>6, BuildEffect
        <3>3. QED
            BY <3>1, <3>2 DEF HostInv
    <2>2. opts.backend \in {"docker", "buildkit"}
        BY <1>6, BuildEffect, OptionSetsAssumption DEF PhaseInv, Early, Options
    <2>3. TargetInv'
        BY <1>0, <1>6, <2>2, BuildEffect DEF StoreInv, TargetInv
    <2>4. TagsInv'
        <3>1. \A m \in Images, s \in Stores : store[s]["version"][m] # "new"
            BY <1>6 DEF BuildImage, StoreInv, TagsInv
        <3>2. /\ image'[n] \in {"built", "pushed", "failed"}
              /\ UNCHANGED <<opts, phase, needsRebuild>>
              /\ \A m \in Images \ {n} : image'[m] = image[m]
              /\ \A s \in Stores, m \in Images : store'[s]["version"][m] = store[s]["version"][m]
              /\ \A s \in Stores, m \in Images \ {n} : store'[s]["dev"][m] = store[s]["dev"][m]
            BY <1>6, BuildEffect
        <3>3. ASSUME NEW m \in needsRebuild, image'[m] = "tagged", ~opts.dryRun
              PROVE  store'[Target]["version"][m] = store'[Target]["dev"][m]
            <4>1. m \in Images /\ m # n
                BY <3>2, <3>3
            <4>2. image[m] = "tagged"
                BY <3>2, <3>3, <4>1
            <4>3. store[Target]["version"][m] = store[Target]["dev"][m]
                BY <3>3, <4>2 DEF StoreInv, TagsInv
            <4>4. QED
                BY <1>0, <3>2, <4>1, <4>3
        <3>4. ASSUME NEW m \in Images, NEW s \in Stores, store'[s]["version"][m] = "new"
              PROVE  FALSE
            BY <3>1, <3>2, <3>4
        <3>5. QED
            BY <3>2, <3>3, <3>4 DEF TagsInv
    <2>5. QED
        BY <2>1, <2>3, <2>4 DEF StoreInv
<1>7. ASSUME NEW n \in Images, DockerPush(n) PROVE StoreInv'
    <2>1. CASE Set("registry", "dev", n, "new") /\ Mark(n, "pushed")
        <3>1. Docker /\ image[n] = "built" /\ UNCHANGED <<opts, phase, needsRebuild, unseen>>
            BY <1>7 DEF DockerPush, RunnerInv
        <3>2. \A r \in Stores, u \in Tags, m \in Images :
                store'[r][u][m] = IF r = "registry" /\ u = "dev" /\ m = n THEN "new" ELSE store[r][u][m]
            BY <1>0, <2>1, SetStore
        <3>3. HostInv'
            BY <1>0, <2>1, <3>1, <3>2 DEF StoreInv, HostInv
        <3>4. TargetInv'
            <4>1. ASSUME NEW m \in needsRebuild \ unseen, ~opts.dryRun, ~Unpushed, ~LocalBuildkit,
                         image'[m] \in {"pushed", "done", "tagged", "refused"}
                  PROVE  store'[Target]["dev"][m] = "new"
                <5>1. CASE m # n
                    BY <1>0, <2>1, <3>1, <3>2, <4>1, <5>1 DEF StoreInv, TargetInv
                <5>2. CASE m = n /\ opts.localOnly
                    <6>1. store["local"]["dev"][n] = "new"
                        BY <3>1, <4>1, <5>2 DEF StoreInv, HostInv
                    <6>2. QED
                        BY <1>0, <3>2, <5>2, <6>1
                <5>3. CASE m = n /\ ~opts.localOnly
                    BY <1>0, <2>1, <3>1, <3>2, <4>1, <5>3
                <5>4. QED
                    BY <5>1, <5>2, <5>3
            <4>2. QED
                BY <3>1, <4>1 DEF TargetInv
        <3>5. TagsInv'
            BY <1>0, <2>1, <3>1, <3>2 DEF StoreInv, TagsInv
        <3>6. QED
            BY <3>3, <3>4, <3>5 DEF StoreInv
    <2>2. CASE Mark(n, "failed") /\ UNCHANGED stores
        BY <1>7, <2>2, MarkKeeps DEF DockerPush, stores
    <2>3. QED
        BY <1>7, <2>1, <2>2 DEF DockerPush
<1>8. ASSUME NEW n \in Images, BeginTest(n) PROVE StoreInv'
    <2>1. CASE Mark(n, "done")
        BY <1>8, <2>1, MarkKeeps DEF BeginTest, stores
    <2>2. CASE UNCHANGED image
        BY <1>8, <2>2 DEF BeginTest, stores, StoreInv, HostInv, TargetInv, TagsInv
    <2>3. QED
        BY <1>8, <2>1, <2>2 DEF BeginTest
<1>9. ASSUME NEW n \in Images, EndTest(n) PROVE StoreInv'
    <2>1. /\ image[n] = "pushed"
          /\ Mark(n, "done") \/ Mark(n, "failed")
          /\ UNCHANGED <<opts, phase, needsRebuild, unseen, store>>
        BY <1>9 DEF EndTest, stores
    <2>2. QED
        BY <2>1, MarkKeeps
<1>10. ASSUME NEW n \in Images, TestImage(n) PROVE StoreInv'
    BY <1>10 DEF TestImage, walk, stores, StoreInv, HostInv, TargetInv, TagsInv
<1>11. ASSUME NEW n \in Images, RetagImage(n) PROVE StoreInv'
    <2>1. /\ phase = "retag" /\ image[n] = "done" /\ ~LocalBuildkit /\ opts.backend # "other"
          /\ UNCHANGED <<opts, phase, needsRebuild, unseen>>
        BY <1>11 DEF RetagImage, PhaseInv, Early
    <2>2. CASE /\ n \in needsRebuild /\ ~opts.dryRun
               /\ Set(Target, "version", n, store[Target]["dev"][n]) /\ Mark(n, "tagged")
        <3>1. store[Target]["dev"][n] \in Builds
            BY <1>0
        <3>2. \A r \in Stores, u \in Tags, m \in Images :
                store'[r][u][m] = IF r = Target /\ u = "version" /\ m = n
                                  THEN store[Target]["dev"][n] ELSE store[r][u][m]
            BY <1>0, <2>2, <3>1, SetStore
        <3>3. HostInv'
            BY <1>0, <2>1, <2>2, <3>2 DEF StoreInv, HostInv
        <3>4. TargetInv'
            BY <1>0, <2>1, <2>2, <3>2 DEF StoreInv, TargetInv
        <3>5. TagsInv'
            BY <1>0, <2>1, <2>2, <3>2 DEF StoreInv, TagsInv
        <3>6. QED
            BY <3>3, <3>4, <3>5 DEF StoreInv
    <2>3. CASE /\ UNCHANGED stores
               /\ Mark(n, "refused") \/ (Mark(n, "tagged") /\ (n \notin needsRebuild \/ opts.dryRun))
        <3>1. HostInv'
            BY <2>1, <2>3 DEF stores, StoreInv, HostInv
        <3>2. TargetInv'
            BY <2>1, <2>3 DEF stores, StoreInv, TargetInv
        <3>3. ASSUME NEW m \in needsRebuild, image'[m] = "tagged", ~opts.dryRun
              PROVE  store[Target]["version"][m] = store[Target]["dev"][m]
            BY <1>0, <2>1, <2>3, <3>3 DEF StoreInv, TagsInv
        <3>4. \A m \in Images : image[m] \in {"tagged", "refused"} => image'[m] \in {"tagged", "refused"}
            BY <2>1, <2>3
        <3>5. TagsInv'
            BY <2>1, <2>3, <3>3, <3>4 DEF stores, StoreInv, TagsInv, Target, LocalBuildkit
        <3>6. QED
            BY <3>1, <3>2, <3>5 DEF StoreInv
    <2>4. QED
        BY <1>11, <2>2, <2>3 DEF RetagImage
<1>12. QED
    BY <1>1, <1>2, <1>3, <1>4, <1>5, <1>6, <1>7, <1>8, <1>9, <1>10, <1>11
    DEF Next, DoBuild, Visit, Returned, PhaseStep

\* The steps of a test answer for it.
LEMMA TestAnswers ==
    ASSUME TestTypeOK, AnswerInv, NEW n \in Images,
           TestStep(n) \/ (\E b \in Builds : Validate(n, b))
    PROVE  AnswerInv'
<1> USE DEF TestTypeOK, AnswerInv, Reliable, To, Try, testing, outcome
<1>1. CASE Prepare(n)
    BY <1>1 DEF Prepare
<1>2. CASE StartContainer(n)
    BY <1>2 DEF StartContainer
<1>3. CASE CheckSocketRootless(n)
    BY <1>3 DEF CheckSocketRootless
<1>4. CASE CheckSocketRootful(n)
    BY <1>4 DEF CheckSocketRootful
<1>5. CASE RunContainer(n)
    BY <1>5 DEF RunContainer
<1>6. CASE LosePod(n)
    BY <1>6 DEF LosePod
<1>7. CASE Export(n)
    BY <1>7 DEF Export
<1>8. ASSUME NEW b \in Builds, Validate(n, b) PROVE AnswerInv'
    BY <1>8 DEF Validate
<1>9. QED
    BY <1>1, <1>2, <1>3, <1>4, <1>5, <1>6, <1>7, <1>8 DEF TestStep

LEMMA AnswerKeeps ==
    ASSUME TypeOK, PhaseInv, AnswerInv, [Next]_vars
    PROVE  AnswerInv'
<1> USE DEF TypeOK, TestTypeOK
<1>1. CASE UNCHANGED testVars
    BY <1>1 DEF testVars, testing, outcome, AnswerInv, Reliable
<1>2. CASE PhaseStep
    BY <1>2, PhaseStepEffect DEF AnswerInv, Reliable
<1>3. CASE MakeRunners
    BY <1>3 DEF MakeRunners, PhaseInv, Early, AnswerInv
<1>4. ASSUME NEW n \in Images, BuildImage(n) PROVE UNCHANGED testVars
    BY <1>4 DEF BuildImage
<1>5. ASSUME NEW n \in Images, BeginTest(n) PROVE AnswerInv'
    <2>1. CASE StartTest(n)
        BY <2>1 DEF StartTest, To, testing, outcome, AnswerInv, Reliable
    <2>2. QED
        BY <1>1, <1>5, <2>1 DEF BeginTest
<1>6. ASSUME NEW n \in Images, TestImage(n) PROVE AnswerInv'
    BY <1>6, TestAnswers, FoundType DEF TestImage
<1>7. QED
    BY <1>1, <1>2, <1>3, <1>4, <1>5, <1>6
    DEF Next, DoBuild, Visit, Returned, PhaseStep, vars, MakePlan, SkipImage, DockerPush, EndTest,
        RetagImage

LEMMA FoundKeeps ==
    ASSUME TypeOK, TypeOK', PhaseInv, RunnerInv, FoundInv, [Next]_vars
    PROVE  FoundInv'
<1> USE DEF TypeOK, TestTypeOK
<1>0. /\ "local" \in Stores /\ "registry" \in Stores /\ "dev" \in Tags /\ "version" \in Tags
      /\ "dev" # "version" /\ "new" \in Builds
    BY DEF Stores, Tags, Builds
<1>1. CASE UNCHANGED testVars /\ UNCHANGED store
    BY <1>1 DEF testVars, testing, outcome, FoundInv, Found
<1>2. CASE PhaseStep
    BY <1>2, PhaseStepEffect DEF FoundInv, Found
<1>3. CASE MakeRunners
    BY <1>3 DEF MakeRunners, PhaseInv, Early, FoundInv, outcome
<1>4. ASSUME NEW n \in Images, test[n] = "idle", UNCHANGED testVars,
             \A s \in Stores, m \in Images \ {n} : store'[s]["dev"][m] = store[s]["dev"][m]
      PROVE  FoundInv'
    BY <1>0, <1>4 DEF testVars, testing, outcome, FoundInv, Found
<1>5. ASSUME NEW n \in Images, BuildImage(n) PROVE FoundInv'
    <2>1. test[n] = "idle" /\ UNCHANGED testVars
        BY <1>5 DEF BuildImage, RunnerInv
    <2>2. QED
        BY <1>4, <1>5, <2>1, BuildEffect
<1>6. ASSUME NEW n \in Images, DockerPush(n) PROVE FoundInv'
    <2>1. test[n] = "idle" /\ UNCHANGED testVars
        BY <1>6 DEF DockerPush, RunnerInv
    <2>2. CASE Set("registry", "dev", n, "new")
        BY <1>0, <1>4, <2>1, <2>2, SetStore
    <2>3. QED
        BY <1>1, <1>6, <2>1, <2>2 DEF DockerPush, stores
<1>7. ASSUME NEW n \in Images, BeginTest(n) PROVE FoundInv'
    <2>1. CASE StartTest(n)
        BY <1>7, <2>1 DEF BeginTest, StartTest, To, testing, outcome, stores, FoundInv, Found
    <2>2. QED
        BY <1>1, <1>7, <2>1 DEF BeginTest, stores
<1>8. ASSUME NEW n \in Images, TestImage(n) PROVE FoundInv'
    <2>1. UNCHANGED store /\ UNCHANGED executor
        BY <1>8 DEF TestImage, stores, TestStep, Prepare, StartContainer, CheckSocketRootless,
            CheckSocketRootful, RunContainer, LosePod, Export, Validate, Try, testing
    <2>2. CASE TestStep(n)
        <3>1. validated' = validated
            BY <2>2 DEF TestStep, Prepare, StartContainer, CheckSocketRootless,
                CheckSocketRootful, RunContainer, LosePod, Export, Try, outcome
        <3>2. \A m \in Images : test[m] # "idle" => test'[m] # "idle"
            BY <2>2 DEF TestStep, Prepare, StartContainer, CheckSocketRootless,
                CheckSocketRootful, RunContainer, LosePod, Export, Try, To
        <3>3. QED
            BY <2>1, <3>1, <3>2 DEF FoundInv, Found
    <2>3. CASE Validate(n, Found(n))
        BY <2>1, <2>3 DEF Validate, To, FoundInv, Found
    <2>4. QED
        BY <1>8, <2>2, <2>3 DEF TestImage
<1>9. ASSUME NEW n \in Images, RetagImage(n) PROVE FoundInv'
    <2>1. UNCHANGED testVars
        BY <1>9 DEF RetagImage
    <2>2. \A s \in Stores, m \in Images : store'[s]["dev"][m] = store[s]["dev"][m]
        <3>1. CASE Set(Target, "version", n, store[Target]["dev"][n])
            <4>1. Target \in Stores /\ store[Target]["dev"][n] \in Builds
                BY <1>0 DEF Target
            <4>2. QED
                BY <1>0, <3>1, <4>1, SetStore
        <3>2. QED
            BY <1>9, <3>1 DEF RetagImage, stores
    <2>3. QED
        BY <1>0, <2>1, <2>2 DEF testVars, testing, outcome, FoundInv, Found
<1>10. QED
    BY <1>1, <1>2, <1>3, <1>5, <1>6, <1>7, <1>8, <1>9
    DEF Next, DoBuild, Visit, Returned, PhaseStep, vars, stores, MakePlan, SkipImage, EndTest

\* The registry is asked only.
LEMMA LocalKeeps ==
    ASSUME TypeOK, RunnerInv, LocalOnlyStaysLocal, [Next]_vars
    PROVE  LocalOnlyStaysLocal'
<1> USE DEF LocalOnlyStaysLocal
<1>1. CASE UNCHANGED <<opts, changed>>
    BY <1>1
<1>2. ASSUME NEW n \in Images, BuildImage(n) PROVE LocalOnlyStaysLocal'
    BY <1>2, BuildEffect
<1>3. ASSUME NEW n \in Images, DockerPush(n) PROVE LocalOnlyStaysLocal'
    BY <1>3 DEF DockerPush, RunnerInv
<1>4. ASSUME NEW n \in Images, RetagImage(n) PROVE LocalOnlyStaysLocal'
    BY <1>1, <1>4 DEF RetagImage, Set, Target, stores
<1>5. QED
    BY <1>1, <1>2, <1>3, <1>4
    DEF Next, DoBuild, Visit, Returned, vars, stores, FindHost, GenerateGraph, MakeRunners,
        Connect, Step, MakePlan, MakeBuilder, EndBuild, GenerateReport, Gate, ChooseTagger,
        EndRetag, SkipImage, BeginTest, TestImage, EndTest

-----------------------------------------------------------------------------
(* The theorems                                                            *)

IInv == TypeOK /\ PhaseInv /\ RunnerInv /\ StoreInv /\ AnswerInv /\ FoundInv /\ LocalOnlyStaysLocal

LEMMA IInvHolds == Spec => []IInv
<1>1. Init => IInv
    <2> SUFFICES ASSUME Init PROVE IInv
        OBVIOUS
    <2> USE DEF Init, TestInit
    <2>1. TypeOK
        BY OptionSetsAssumption, EarlierStoresAssumption
        DEF TypeOK, TestTypeOK, Phases, Builds, Stores, Tags
    <2>2. PhaseInv /\ RunnerInv
        BY DEF PhaseInv, RunnerInv, Early
    <2>3. StoreInv
        <3>1. \A s \in Stores, n \in Images : store[s]["version"][n] \in {"none", "old"}
            BY EarlierStoresAssumption DEF Tags
        <3>2. QED
            BY <3>1 DEF StoreInv, HostInv, TargetInv, TagsInv
    <2>4. AnswerInv /\ FoundInv /\ LocalOnlyStaysLocal
        BY DEF AnswerInv, FoundInv, LocalOnlyStaysLocal
    <2>5. QED
        BY <2>1, <2>2, <2>3, <2>4 DEF IInv
<1>2. IInv /\ [Next]_vars => IInv'
    BY TypesKeep, PhaseKeeps, RunnerKeeps, StoreKeeps, AnswerKeeps, FoundKeeps, LocalKeeps DEF IInv
<1>3. QED
    BY <1>1, <1>2, PTL DEF Spec

\* A local build without --push never changes the registry, whatever the backend,
\* the tests and the tagger.  cmd/build.go:220, buildkit/builder.go:259.
THEOREM LocalBuildsStayLocal == Spec => []LocalOnlyStaysLocal
    BY IInvHolds, PTL DEF IInv

\* A test that has passed was answered by goss, where the executor waits for it.
\* goss/runner.go:72-101.
THEOREM PassedWasAnswered == Spec => []PassedWasValidated
<1>1. IInv => PassedWasValidated
    BY DEF IInv, AnswerInv, PassedWasValidated
<1>2. QED
    BY <1>1, IInvHolds, PTL

\* Success means that every image that had to be rebuilt has its version tag on
\* this run's build.  cmd/build.go:200-256.
THEOREM SuccessTagsTheBuild == Spec => []SuccessMeansVersion
<1>1. IInv => SuccessMeansVersion
    <2> SUFFICES ASSUME IInv, phase = "ok", ~opts.dryRun, ~opts.noRetag, ~Unpushed, ~LocalBuildkit,
                        NEW n \in needsRebuild \ unseen
                 PROVE  store[Target]["version"][n] = "new"
        BY DEF SuccessMeansVersion, LocalBuildkit
    <2>1. n \in Images /\ image[n] = "tagged"
        BY DEF IInv, PhaseInv, TypeOK
    <2>2. store[Target]["dev"][n] = "new"
        BY <2>1 DEF IInv, StoreInv, TargetInv
    <2>3. QED
        BY <2>1, <2>2 DEF IInv, StoreInv, TagsInv
<1>2. QED
    BY <1>1, IInvHolds, PTL

\* A version tag is on this run's build only if goss has found that build good,
\* for every executor that waits for goss and whatever earlier runs have left in
\* the stores - except that containerd runs an image of the host it does not pull
\* anew (TestsStale).  cmd/build.go:209, goss/runner.go:143,
\* goss/executor_containerd.go:57-67.
THEOREM VersionsWereAnswered == Spec => []VersionsWereValidated
<1>1. IInv => VersionsWereValidated
    <2> SUFFICES ASSUME IInv, NEW n \in configured, NEW s \in Stores, opts.tests = "goss",
                        Reliable(n), ~TestsStale(n), store[s]["version"][n] = "new"
                 PROVE  <<n, "new">> \in validated
        BY DEF VersionsWereValidated
    <2>1. /\ n \in Images /\ s = Target /\ ~opts.dryRun /\ ~LocalBuildkit /\ n \in needsRebuild
          /\ image[n] \in {"tagged", "refused"} /\ store[s]["dev"][n] = "new"
          /\ opts.backend # "other"
        BY DEF IInv, TypeOK, TestTypeOK, StoreInv, TagsInv
    <2>2. PICK b \in Builds : <<n, b>> \in validated
        BY <2>1 DEF IInv, RunnerInv, AnswerInv
    <2>3. b # "none" /\ b = Found(n)
        BY <2>1, <2>2 DEF IInv, FoundInv
    <2>4. CASE executor = "kubernetes"
        BY <2>1, <2>2, <2>3, <2>4 DEF IInv, RunnerInv, Found, Target
    <2>5. CASE executor = "dgoss"
        <3>1. store["local"]["dev"][n] = "new"
            BY <2>1, <2>5 DEF IInv, RunnerInv, StoreInv, HostInv
        <3>2. QED
            BY <2>2, <2>3, <2>5, <3>1 DEF Found
    <2>6. CASE executor = "containerd"
        BY <2>2, <2>3, <2>6 DEF TestsStale, Builds
    <2>7. QED
        BY <2>4, <2>5, <2>6 DEF Reliable
<1>2. QED
    BY <1>1, IInvHolds, PTL

=============================================================================
