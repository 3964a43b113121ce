---------------------------- MODULE BuildCommand ----------------------------
(***************************************************************************)
(* One run of `dib build` (cmd/build.go: buildAction, doBuild) under every *)
(* combination of its options: which backend builds, where the images go,  *)
(* what the tests run on and which store is retagged.  The options are     *)
(* read in many places, and the stores must agree in the end.              *)
(*                                                                         *)
(* The graph, the plan, the build and the retagging have modules of their  *)
(* own; here each is a step per image on images that do not depend on one  *)
(* another, and any call may fail.  An image reference stands for two      *)
(* tags, dev-<hash> ("dev") and <hash> ("version"), each in two stores:    *)
(* "local" is that of the Docker daemon or of the BuildKit worker on the   *)
(* host, "registry" that of --registry-url.                                *)
(***************************************************************************)
EXTENDS GossTests, Naturals

CONSTANTS
    OptionSets,     \* the options of the runs that are checked
    EarlierStores   \* what earlier runs, with whatever options, may have left in the stores

Options ==
    [backend : {"docker", "buildkit", "other"}, localOnly : BOOLEAN, push : BOOLEAN,
     dryRun : BOOLEAN, force : BOOLEAN, noRetag : BOOLEAN,
     tests : {"off", "none", "goss"},   \* --no-tests; the runners of include_tests
     kubernetes : BOOLEAN]              \* goss.executor.kubernetes.enabled

ASSUME OptionSetsAssumption == OptionSets \subseteq Options

Stores == {"local", "registry"}
Tags == {"dev", "version"}

ASSUME EarlierStoresAssumption ==
    EarlierStores \subseteq [Stores -> [Tags -> [Images -> {"none", "old"}]]]

VARIABLES
    opts,           \* the options of this run
    phase,          \* where doBuild is, or "ok" or "error" when it has returned
    store,          \* store[s][t][n]: the build tag t of image n refers to in store s
    needsRebuild,   \* the images Plan has marked
    image,          \* image[n]: what RebuildGraph and Retag have done with image n
    changed,        \* history: the stores in which dib has changed a tag
    unseen          \* history: builds reported as done by a watch that has ended

vars == <<testVars, opts, phase, store, needsRebuild, image, changed, unseen>>
walk == <<needsRebuild, image, unseen>>
stores == <<store, changed>>

Phases == {"host", "graph", "runners", "connect", "plan", "builder", "build", "report",
           "gate", "tagger", "retag"}

TypeOK ==
    /\ TestTypeOK
    /\ opts \in OptionSets
    /\ phase \in Phases \cup {"ok", "error"}
    /\ store \in [Stores -> [Tags -> [Images -> Builds]]]
    /\ needsRebuild \in SUBSET Images
    /\ image \in [Images -> {"waiting", "built", "pushed", "done", "failed", "tagged", "refused"}]
    /\ changed \in SUBSET Stores
    /\ unseen \in SUBSET Images

\* The host may have images of earlier runs as well as the registry: those of a
\* build with --local-only stay in the Docker daemon or in the containerd of the
\* BuildKit worker.  A dev tag without the version tag is from a run whose tests
\* failed, that had --no-retag, or that has no tagger.
Init ==
    /\ TestInit
    /\ opts \in OptionSets
    /\ phase = "host"
    /\ store \in EarlierStores
    /\ needsRebuild = {}
    /\ image = [n \in Images |-> "waiting"]
    /\ changed = {}
    /\ unseen = {}

Fail == phase' = "error"
Mark(n, state) == image' = [image EXCEPT ![n] = state]

\* Tag t of image n in store s is set to a build.
Set(s, t, n, build) ==
    /\ store' = [store EXCEPT ![s][t][n] = build]
    /\ changed' = changed \cup {s}

\* A step of doBuild that calls something that may fail, and then returns.
Step(from, next) ==
    /\ phase = from
    /\ phase' \in {next, "error"}
    /\ UNCHANGED <<testVars, opts, walk, stores>>

-----------------------------------------------------------------------------
(* Before the build                                                        *)

\* getBuildkitHost: buildAction pings a BuildKit on the host, and takes that of
\* the build pods without asking.
HostFound(ping) == opts.backend # "buildkit" \/ ~opts.localOnly \/ ping

\* buildAction and checkRequirements, which warns of commands that are missing
\* and ends dib for a test runner it does not know.
FindHost ==
    /\ phase = "host"
    /\ \E ping, known \in BOOLEAN :
        phase' = IF HostFound(ping) /\ (opts.tests = "off" \/ known) THEN "graph" ELSE "error"
    /\ UNCHANGED <<testVars, opts, walk, stores>>

GenerateGraph == Step("graph", "runners")

\* GetBuildkitWorkerType: the type of the worker, if it answers with a known one.
WorkerTypes == {"oci", "containerd", "error"}

\* getTestRunners and CreateTestRunner.  Without a Kubernetes client, and with a
\* BuildKit whose worker is not on containerd, dib ends.
MakeRunners ==
    /\ phase = "runners"
    /\ \E client \in BOOLEAN, worker \in WorkerTypes :
        LET choice == ExecutorFor(opts.backend, opts.localOnly, opts.kubernetes)
            made == \/ choice = "dgoss"
                    \/ choice = "kubernetes" /\ client
                    \/ choice = "containerd" /\ worker = "containerd"
        IN  IF opts.tests # "goss" THEN phase' = "connect" /\ UNCHANGED executor
            ELSE IF made THEN phase' = "connect" /\ executor' = choice
            ELSE phase' = "error" /\ UNCHANGED executor
    /\ UNCHANGED <<rootless, configured, test, outcome, opts, walk, stores>>

Connect == Step("connect", "plan")

\* Plan: the registry is asked also when the build is local.
MakePlan ==
    /\ phase = "plan"
    /\ \/ /\ needsRebuild' = {n \in Images : opts.force \/ store["registry"]["version"][n] = "none"}
          /\ phase' = "builder"
       \/ /\ ~opts.force
          /\ Fail /\ UNCHANGED needsRebuild
    /\ UNCHANGED <<testVars, opts, image, unseen, stores>>

\* NewBuilder of BuildKit: for a build on the host it needs nothing, for build
\* pods a cluster and one storage for the contexts, of which it makes a client.
NewBuilder(cluster, storages, client) ==
    opts.localOnly \/ (cluster /\ Cardinality(storages) = 1 /\ client)

\* The builder of the backend, if there is one.
MakeBuilder ==
    /\ phase = "builder"
    /\ \E buildctl, cluster, client \in BOOLEAN, storages \in SUBSET {"azure", "s3"} :
        phase' = IF \/ opts.backend = "docker"
                    \/ opts.backend = "buildkit" /\ buildctl /\ NewBuilder(cluster, storages, client)
                 THEN "build" ELSE "error"
    /\ UNCHANGED <<testVars, opts, walk, stores>>

-----------------------------------------------------------------------------
(* RebuildGraph                                                            *)

Docker == opts.backend = "docker"

\* Where the tags go that Retag sets: localOnly takes the docker tagger.
Target == IF opts.localOnly THEN "local" ELSE "registry"

\* The visitor of an image that is not rebuilt.
SkipImage(n) ==
    /\ phase = "build"
    /\ image[n] = "waiting"
    /\ n \notin needsRebuild
    /\ Mark(n, "done")
    /\ UNCHANGED <<testVars, opts, phase, needsRebuild, unseen, stores>>

\* `docker build` puts the image in the daemon; with --dry-run it is not run.
DockerBuild(n) ==
    /\ \/ IF opts.dryRun
          THEN Mark(n, "pushed") /\ UNCHANGED stores
          ELSE Set("local", "dev", n, "new") /\ Mark(n, IF opts.push THEN "built" ELSE "pushed")
       \/ Mark(n, "failed") /\ UNCHANGED stores
    /\ UNCHANGED unseen

\* An option that pushes by default.
Pushes_Always == TRUE

\* generateBuildctlArgs: whether the output of buildctl has push=true.
Pushes == ~opts.localOnly \/ opts.push

\* generateBuildctlArgs and buildKitFile: the reference must parse and, for a
\* build on the host, the Dockerfile be there.
ArgsMade(parsed, file) == parsed /\ (opts.localOnly => file)

\* buildPod: docker_config_secret must be set, both overrides be YAML.
PodMade(secret, container, template) == secret /\ container /\ template

BuildFails(n) == Mark(n, "failed") /\ UNCHANGED <<stores, unseen>>

\* buildctl on the host: the image is unpacked in the worker's store, and pushed
\* by the same command.
BuildctlLocal(n) ==
    \/ /\ Pushes
       /\ store' = [s \in Stores |-> [store[s] EXCEPT !["dev"][n] = "new"]]
       /\ changed' = Stores
       /\ Mark(n, "pushed") /\ UNCHANGED unseen
    \/ /\ Set("local", "dev", n, "new")
       /\ Mark(n, IF Pushes THEN "failed" ELSE "pushed") /\ UNCHANGED unseen
    \/ BuildFails(n)

\* buildctl in a pod always pushes, and its own store goes with the pod.  The
\* last case is a watch that ends before the pod (PodExecutors).
BuildctlPod(n) ==
    \/ Set("registry", "dev", n, "new") /\ Mark(n, "pushed") /\ UNCHANGED unseen
    \/ BuildFails(n)
    \/ Mark(n, "pushed") /\ unseen' = unseen \cup {n} /\ UNCHANGED stores

\* Build of the BuildKit builder.  The context of a build on the host is where it
\* is; that of a pod is uploaded (RemoteContext).
BuildkitBuild(n) ==
    \E sent, parsed, file, secret, container, template \in BOOLEAN :
        IF ~(ArgsMade(parsed, file) /\ (opts.localOnly \/ sent)) THEN BuildFails(n)
        ELSE IF opts.localOnly THEN BuildctlLocal(n)
        ELSE IF PodMade(secret, container, template) THEN BuildctlPod(n)
        ELSE BuildFails(n)

\* buildNode.  The builder of BuildKit is not given --dry-run.
BuildImage(n) ==
    /\ phase = "build"
    /\ image[n] = "waiting"
    /\ n \in needsRebuild
    /\ IF Docker THEN DockerBuild(n) ELSE BuildkitBuild(n)
    /\ UNCHANGED <<testVars, opts, phase, needsRebuild>>

\* `docker push`, the second command of the docker builder.
DockerPush(n) ==
    /\ phase = "build"
    /\ image[n] = "built"
    /\ \/ Set("registry", "dev", n, "new") /\ Mark(n, "pushed")
       \/ Mark(n, "failed") /\ UNCHANGED stores
    /\ UNCHANGED <<testVars, opts, phase, needsRebuild, unseen>>

\* The visitor goes on to the tests of an image it has built, or returns.
BeginTest(n) ==
    /\ phase = "build"
    /\ image[n] = "pushed"
    /\ IF opts.tests = "off"
       THEN Mark(n, "done") /\ UNCHANGED testVars
       ELSE StartTest(n) /\ UNCHANGED image
    /\ UNCHANGED <<opts, phase, needsRebuild, unseen, stores>>

\* The build the executor finds under the dev tag: Docker looks in its own store
\* first, containerd nowhere else, Kubernetes always pulls.
Found(n) ==
    IF executor = "containerd" \/ (executor = "dgoss" /\ store["local"]["dev"][n] # "none")
    THEN store["local"]["dev"][n] ELSE store["registry"]["dev"][n]

\* The steps of the test, with goss's answer for the build it finds.
TestImage(n) ==
    /\ phase = "build"
    /\ image[n] = "pushed"
    /\ TestStep(n) \/ Validate(n, Found(n))
    /\ UNCHANGED <<opts, phase, walk, stores>>

\* A visitor that runs a failed test once more, and again.
EndTest_Retries(n) ==
    /\ phase = "build"
    /\ image[n] = "pushed"
    /\ \/ test[n] = "passed" /\ Mark(n, "done") /\ UNCHANGED testVars
       \/ test[n] = "failed" /\ To(n, "idle") /\ UNCHANGED <<testing, outcome, image>>
    /\ UNCHANGED <<opts, phase, needsRebuild, unseen, stores>>

\* testImage has returned: its error is in the report of the image.
EndTest(n) ==
    /\ phase = "build"
    /\ image[n] = "pushed"
    /\ test[n] \in {"passed", "failed"}
    /\ Mark(n, IF test[n] = "passed" THEN "done" ELSE "failed")
    /\ UNCHANGED <<testVars, opts, phase, needsRebuild, unseen, stores>>

\* The channel of the reports is closed when every visitor has returned.
EndBuild ==
    /\ phase = "build"
    /\ \A n \in Images : image[n] \in {"done", "failed"}
    /\ phase' = "report"
    /\ UNCHANGED <<testVars, opts, walk, stores>>

-----------------------------------------------------------------------------
(* After the build                                                         *)

\* report.Generate does nothing without reports; its own error comes before
\* those of the images.
GenerateReport ==
    /\ phase = "report"
    /\ \/ phase' = "gate"
       \/ needsRebuild # {} /\ Fail
    /\ UNCHANGED <<testVars, opts, walk, stores>>

\* CheckError, then --no-retag.
Gate ==
    /\ phase = "gate"
    /\ phase' = IF \E n \in Images : image[n] = "failed" THEN "error"
                ELSE IF opts.noRetag THEN "ok" ELSE "tagger"
    /\ UNCHANGED <<testVars, opts, walk, stores>>

\* The tagger: a local BuildKit has none, and dib ends after a warning about
\* its worker, or with an error when the worker does not answer.
ChooseTagger ==
    /\ phase = "tagger"
    /\ IF opts.localOnly /\ opts.backend = "buildkit"
       THEN \E buildctl \in BOOLEAN, worker \in WorkerTypes :
                phase' = IF buildctl /\ worker # "error" THEN "ok" ELSE "error"
       ELSE phase' = "retag"
    /\ UNCHANGED <<testVars, opts, walk, stores>>

\* A tagger that is always the registry.
RetagImage_InRegistry(n) ==
    /\ phase = "retag"
    /\ image[n] \in {"done", "failed"}
    /\ LET dev == store["registry"]["dev"][n]
       IN  \/ dev # "none" /\ Set("registry", "version", n, dev) /\ Mark(n, "tagged")
           \/ Mark(n, "refused") /\ UNCHANGED stores
    /\ UNCHANGED <<testVars, opts, phase, needsRebuild, unseen>>

\* Retag of one image: the version tag is made to refer to what the dev tag
\* refers to in the target store - whatever that is.
RetagImage(n) ==
    /\ phase = "retag"
    /\ image[n] \in {"done", "failed"}
    /\ LET dev == store[Target]["dev"][n]
       IN  \/ /\ n \notin needsRebuild \/ opts.dryRun
              /\ Mark(n, "tagged") /\ UNCHANGED stores
           \/ /\ n \in needsRebuild /\ ~opts.dryRun /\ dev # "none"
              /\ Set(Target, "version", n, dev) /\ Mark(n, "tagged")
           \/ /\ n \in needsRebuild /\ ~opts.dryRun
              /\ Mark(n, "refused") /\ UNCHANGED stores
    /\ UNCHANGED <<testVars, opts, phase, needsRebuild, unseen>>

EndRetag ==
    /\ phase = "retag"
    /\ \A n \in Images : image[n] \in {"tagged", "refused"}
    /\ phase' = IF \E n \in Images : image[n] = "refused" THEN "error" ELSE "ok"
    /\ UNCHANGED <<testVars, opts, walk, stores>>

-----------------------------------------------------------------------------

Visit(n) == SkipImage(n) \/ BuildImage(n) \/ DockerPush(n) \/ BeginTest(n) \/ TestImage(n) \/ EndTest(n)

DoBuild ==
    \/ FindHost \/ GenerateGraph \/ MakeRunners \/ Connect \/ MakePlan \/ MakeBuilder
    \/ EndBuild \/ GenerateReport \/ Gate \/ ChooseTagger \/ EndRetag

Returned == phase \in {"ok", "error"} /\ UNCHANGED vars

Next ==
    \/ DoBuild
    \/ \E n \in Images : Visit(n) \/ RetagImage(n)
    \/ Returned

\* Every call returns, and every goroutine is scheduled.
Fairness ==
    /\ WF_vars(DoBuild)
    /\ \A n \in Images : WF_vars(Visit(n)) /\ WF_vars(RetagImage(n))

Spec == Init /\ [][Next]_vars /\ Fairness

-----------------------------------------------------------------------------
(* Properties                                                              *)

\* With --local-only and without --push the registry is asked and never changed,
\* whatever the backend, the tests and the tagger.  cmd/build.go:83-86.
LocalOnlyStaysLocal ==
    opts.localOnly /\ ~opts.push => "registry" \notin changed

\* A docker build whose images stay on the host while the registry is retagged:
\* neither --local-only nor --push.
Unpushed == Docker /\ ~opts.localOnly /\ ~opts.push

\* When dib returns nil, each image it had to rebuild has its version tag on
\* this run's build, in the store Retag works on.  Not with --dry-run and
\* --no-retag, which say so; nor with a local BuildKit, for which cmd/build.go:224
\* announces it; nor for a build whose images never leave the host.
SuccessMeansVersion ==
    phase = "ok" /\ ~opts.dryRun /\ ~opts.noRetag /\ ~Unpushed
        /\ ~(opts.localOnly /\ opts.backend = "buildkit")
    => \A n \in needsRebuild \ unseen : store[Target]["version"][n] = "new"

\* `ctr run` does not pull, and a build in a pod leaves the host as it is: what
\* containerd tests then is the image an earlier run has left there, if any, and
\* never the build that Retag promotes.
TestsStale(n) == executor = "containerd" /\ Found(n) = "old"

\* A version tag is on this run's build only if goss has found that build good,
\* where goss is asked for, the image has a goss.yaml and the executor waits for
\* goss: from the option to the runner, the executor, the gate and the tagger.
\* Old images of Docker or of the registry make no difference; one in containerd
\* does, and is excluded by TestsStale.
\* README.md:16: "ensure the tests pass before promoting images to production".
VersionsWereValidated ==
    \A n \in configured, s \in Stores :
        opts.tests = "goss" /\ Reliable(n) /\ ~TestsStale(n) /\ store[s]["version"][n] = "new"
            => <<n, "new">> \in validated

\* cmd/build.go:63-64, the help of --dry-run: "Simulate what would happen without
\* actually doing anything dangerous".  It does not hold for BuildKit.
DryRunIsHarmless == opts.dryRun => changed = {}

\* dib returns.
BuildEnds == <>(phase \in {"ok", "error"})

=============================================================================
