# dib, verified

A TLA+ development about [dib](../src/README.md), a tool that builds a tree of
container images: it finds the Dockerfiles of a repository, hashes every image
together with its ancestors, builds what the registry does not have, tests it,
and promotes it. The modules describe the Go code under `src/`; TLC checks them
on small instances, and TLAPS proves the properties that matter most for every
value of the constants.

* [The system](#the-system): its parts, their state, how they interact, what is hard
* [The modules](#the-modules): which module models which code, and how
* [The runs](#the-runs): what TLC checks, the bounds, the fairness
* [The proofs](#the-proofs): what is proved, from what, along which argument
* [Where code and documentation differ](#where-code-and-documentation-differ)
* [What is not modelled](#what-is-not-modelled)
* [The plan](#the-plan)

## The system

`dib build` is one process that runs the steps of `doBuild` (`cmd/build.go`) one
after the other. Concurrency is inside the steps, between runs of dib that use
the same registry, and between dib and the Kubernetes API server.

    Dockerfiles -> GenerateDAG -> Plan -> RebuildGraph -> CheckError -> Retag
                      graph,      ask the    build and      the gate    promote
                      hashes      registry   test

| Part | State | Operations | Uses / used by |
|---|---|---|---|
| Image graph (`dag/node.go`, `image.go`) | parents and children of every node, roots; `NeedsRebuild`, `NeedsTests`, `RetagDone` of every image | `AddChild`, the walks | everything below |
| Parallel walk (`dag.WalkParallel`) | per node a mutex, a condition variable and `done`; a WaitGroup | one goroutine per node, which waits for the parents' | `RebuildGraph` |
| Asynchronous walk (`dag.WalkAsyncErr`) | a sync.Map of visited nodes, nested errgroups | one goroutine per path to a node | `Plan`, `Retag` |
| Generation (`dib.GenerateDAG`) | a map from directories to nodes, the graph, the hashes | walk the directories, link, collect the roots, hash by levels | input of everything |
| Planning (`Builder.Plan`) | a sync.Map of the registry's answers | ask, mark, select tests | registry; `WalkAsyncErr`, `WalkErr`, `Walk` |
| Rebuild (`Builder.RebuildGraph`) | the Dockerfiles on disk, the permits of the rate limiter, the reports channel | wait, edit, build, reset, test, report | `WalkParallel`, builder, test runners |
| Report (`report/report.go`) | the list of reports | `WithError`, `CheckError` | the gate in front of `Retag` |
| Retagging (`dib.Retag`) | the tags in the registry, `RetagDone` | version tag, placeholder tag, extra tags | `WalkAsyncErr`, registry or Docker |
| Pod monitor (`kubernetes/pod.go`) | two unbuffered channels, a timer, a watch | turn events into a signal and an outcome | both executors below |
| Kubernetes executors (`exec/kubernetes.go`, `goss/executor_kubernetes.go`) | the pod, two goroutines each | create, wait, run goss or stream logs, delete | BuildKit builder, goss runner |
| Remote build context (`buildcontext/remote.go`) | an archive inside the context directory, the Dockerfiles next to it | list, archive, upload, remove | BuildKit builder; its leftovers are hashed by the next run |
| Test runners (`goss/`, `dib/test.go`) | the container or pod of each test, the JUnit report | choose an executor, run goss, export | `testImage`; all tests of a run overlap |
| Build command (`cmd/build.go`) | the options, and the tags in two stores, that of the host and that of the registry | choose host, runners, builder and tagger; the gate | everything above |
| Docker and BuildKit builders, registry client | the tags they set | build, push, tag | the build command and the rebuild |
| Shell, storage clients, listing, rendering, metadata, configuration | none of their own | commands, requests, output | the steps above |

What is hard about it, and what makes each part correct:

* **Parallel walk.** A goroutine holds its node's mutex for its whole life and
  takes its parents' one by one. Parents must come before children, no wakeup may
  be lost, the locks must not form a circle, and the walk must end.
* **Asynchronous walk.** The visited check is a `Load` and a `Store`, so two
  goroutines may both visit a node. Still no node may be forgotten, no error may be
  lost, and nothing may run on after the return.
* **Generation.** Go ranges over maps in any order, Dockerfiles may be skipped,
  reuse names or share directories, and a node with parents on several levels
  is hashed several times. The graph must be consistent and the hashes, which are
  the registry's tags, must not depend on any order.
* **Planning.** Other runs publish tags while this one asks. An image that is left
  out must be in the registry; one that was there from the start must not be
  rebuilt.
* **Rebuild.** Writes, builds and tests fail anywhere. Bases must be built and
  referred to before a build starts, Dockerfiles must be restored, permits given
  back, and the reports must be complete enough for the gate to be sound.
* **Retagging and the whole run.** Runs fail or crash between two tags and are
  started again. Tags must only ever be on tested builds, and a run that
  succeeds must complete what the others left.
* **One run and its options.** Where an image is built, where it is pushed, where its
  tests look for it and what is retagged is decided in four places by four rules.
  Success must mean that the version tags are on this run's builds, that goss has
  found these very builds good, and that a local build has stayed local.
* **The working copy.** The build edits Dockerfiles and writes archives among the
  files whose hash is the tag, while neighbours are listed and archived, and it may be
  killed at any time. What is uploaded must be what was hashed, and the next run
  must find what this one found.
* **Pods.** Events come late, repeatedly or never; the watch may end. What the
  caller returns must be explained by what has happened, the pod must be deleted, and
  the caller must return.

The full list of hazards, each with its line and the properties that cover it,
is `hazards` in `PROJECT.json`.

## The modules

Every definition that models code is listed in `PROJECT.json` (`map`) with the
lines it stands for. Operators named `Action_Something` are variants of `Action`
with a plausible bug; no specification uses them. Each is there to show that a
property notices the bug (`mutants`).

| Module | Code | State and actions |
|---|---|---|
| `ImageGraph` | `dag/node.go` | constants: nodes, ordered parent and child slices, roots, and the assumptions about them |
| `TopoWalk` | the promise of `WalkParallel` | abstract: a node is waiting, visiting or done; visits start when all parents are done |
| `WalkParallel` | `dag/dag.go:77-145`, `dag/node.go:15-58` | `todo`/`visited`: the sequential spawner; `pc`, `idx`: each goroutine and its place in the parent loop; `owner`: the mutexes; `done`, `joined`. One action per lock, unlock, wait, notify and visit |
| `RebuildGraph` | `dib/build.go:45-228`, `ratelimit/`, `report/report.go`, `dockerfile/dockerfile.go` | over `TopoWalk`'s order: the visitor with the permits, the references in each Dockerfile, the outcome of each image, the reports channel, and the gate |
| `GenerateDAG` | `dib/generate_dag.go` | one phase per loop, one step per iteration; each `range` over a map picks any remaining key |
| `CallTree` | `dag/node.go:78-93` | constants: the tree of recursive calls over a graph, one call per path |
| `AsyncWalk` | `dag/dag.go:52-66,147-167`, `dag/node.go:78-93` | `call`: the errgroup goroutines; `visitor`: the unique visitor with `Load` and `Store` apart; `visited`, `failed`, `result` |
| `Plan` | `dib/plan.go` | extends `AsyncWalk` for the lookups, then the sequential walks; `tags` is the registry, to which `OtherRun` publishes |
| `Retag` | `dib/tag.go` | extends `AsyncWalk`; `pos`: where each visitor is between the tags; `registry`: the build each tag refers to |
| `DibRuns` | `cmd/build.go:145-256` | several runs on one registry: `phase` of each run, what has become of each image in it, the three tags of each image, `base` and `passed` as history; `Crash` anywhere |
| `GossTests` | `goss/runner.go`, `goss/executor_dgoss.go`, `goss/executor_containerd.go`, `dib/test.go` | `executor`; `test`: where RunTest is for each image; `testError`; `validated` and `lost` as history. One action per call that may fail |
| `BuildCommand` | `cmd/build.go:88-256`, `docker/builder.go`, `buildkit/builder.go`, `registry/` | extends `GossTests`; `opts`: the options; `phase`: where `doBuild` is; `store`: the build each tag refers to, on the host and in the registry; one step per call |
| `RemoteContext` | `buildcontext/remote.go`, `dib/build.go:175-228`, `dockerfile/dockerfile.go` | `refs`: the references in each Dockerfile; `archives`: those on the disk; `stage`: each visitor from the edit to the reset; `listed`, `entries`, `uploaded`: the archive of each; `hash`, `versions`: what ties one run to the next; `forces`, `truncated`: history of `--force-rebuild` and of failed Closes |
| `PodMonitor` | `kubernetes/pod.go` | the goroutine (`monitor`, `running`, `timer`), the pod and the watch it observes; an unbuffered send is a state the goroutine stays in until its receiver takes the value |
| `PodExecutors` | `exec/kubernetes.go`, `goss/executor_kubernetes.go`, `kubernetes/exec.go` | extends `PodMonitor` with its two callers: `main` for the caller, `helper` for its goroutine |
| `*Proofs` | | the theorems about the module of that name; `AsyncWalkProofs` holds those about `AsyncWalk`, `Plan` and `Retag`, `BuildCommandProofs` and `PodExecutorsProofs` those about the modules these extend |
| `MC*` | | graphs, trees and bounds for TLC |

How they compose: `RebuildGraph` instantiates `TopoWalk`, the abstraction
`WalkParallel` is shown to implement, so its visitors interleave as the walk
allows; the refinement is `WalkParallel!Abstract == INSTANCE TopoWalk WITH status <-
status`, where `status` is computed from the goroutines' program counters. `Plan` and
`Retag` extend `AsyncWalk` and add what their visitors do; all definitions of the walk that
they have a counterpart of begin with its name (`WalkInit` and `PlanInit`). That each of these
modules takes no step its walk does not allow is proved (`FollowsTopoWalk`, `PlanIsAWalk`,
`RetagIsAWalk`).
`DibRuns` takes the three walks by their effect on the registry: one step per
image for every question, build, test and tag. Each of the modules below it shows
what that step takes for granted: that planning has an answer for every image
(`EveryAnswerKnown`), that the gate is sound (`GateIsSound`), that an image with
`RetagDone` is tagged (`DoneMeansTagged`). `BuildCommand` does the same for one run
and looks at what `DibRuns` leaves out: the options, the two stores and the test
runners; `DibRuns` looks at what it leaves out: parents, other runs and crashes.
`RemoteContext` puts `PrepareContext` inside `buildNode` and several runs on one disk.

What is abstracted: names, file contents and tags are model values; a hash is a
term (`TermHash`), so that two hashes are equal only if they were computed from the
same things; a build, a test or a request to a server is a step that succeeds or
fails, either way at any time; the edits of a Dockerfile are the set of parents
whose references it holds, and in `RemoteContext` the reference to each parent; an image
in a store is "none", "old" or "new", by the run that has built it, and an earlier run may have
left one anywhere (`EarlierStores`); the hour of the pod monitor is `Hour` ticks.

## The runs

Nine runs pass and three show a disagreement between code and documentation.

| Run | Module | Distinct states | Question |
|---|---|---|---|
| `walk_parallel` | `MCWalkParallel` | 7 thousand | are parents first, locks free of circles, and is it a `TopoWalk`? |
| `rebuild_graph` | `MCRebuildGraph` | 298 thousand | is every build started from its bases, every file restored, every failure reported? |
| `generate_dag` | `MCGenerateDAG` | 2 thousand | do the orders of Go's maps show in the graph or in the hashes? |
| `plan` | `MCPlan` | 238 thousand | is the plan right while others publish? |
| `retag` | `MCRetag` | 270 thousand | do success and `RetagDone` mean what they say, with two goroutines on one image? |
| `dib_runs` | `MCDibRuns` | 261 thousand | are tags always on tested builds, and does a later run complete an earlier one? |
| `pod_executors` | `MCPodExecutors` | 378 thousand | is what the caller returns explained, the pod deleted, and does the caller return? |
| `build_command` | `MCBuildCommand` | 1.3 million | under which options does success mean that the tested build has its version tag? |
| `remote_context` | `MCRemoteContext` | 2.0 million | is what is uploaded what was hashed, and what does a run leave on the disk? |

The properties, each stated in words above its definition:

* `walk_parallel`: `ParentsCompletedFirst`, `NeverStuck` (until all goroutines have
  ended, one can take a step: no circle of locks and no sleeper nobody wakes),
  `ImplementsTopoWalk` (the refinement, its liveness included: the walk ends).
* `rebuild_graph`: `BasesAvailable`, `PermitsBounded`, `DockerfilesRestored`,
  `NoSendAfterClose`, `ReportsComplete`, `GateIsSound` (if `CheckError` finds nothing,
  every image that had to be built and tested was), `RebuildTerminates`.
* `generate_dag`: `GraphIsConsistent`, `HashIsReference` (the levels compute the
  recursive definition), `GenerateTerminates`.
* `plan`: `EveryAnswerKnown`, `NothingLeftOut`, `NoNeedlessRebuild`, `PlanReturns`.
* `retag`: `DoneMeansTagged`, `SuccessMeansTagged`, `ReleasedHaveVersion`,
  `RetagReturns`.
* `dib_runs`: `VersionsAreTested`, `LatestIsTested`, `BasesAreVersions`,
  `SuccessCompletes`, `VersionsStay`.
* `pod_executors`: `SuccessIsExplained`, `FailureIsExplained`, `ReadyIsReceived`,
  `PodIsDeleted`, `CallerReturns`.
* `build_command`: `LocalOnlyStaysLocal`, `SuccessMeansVersion`,
  `VersionsWereValidated` (from the option through runner, executor, report and gate to
  the tagger: a version tag on this run's build means goss has found it good, unless
  containerd has tested an image of an earlier run),
  `BuildEnds`.
* `remote_context`: `ArchiveIsHashed` (what is uploaded is what was hashed, or a part of it
  if a Close has failed), `SpoiledIsNested`, `WorkingCopyRestored`, `SecondRunIsIdle`,
  `OneCrashHeals`.

Type invariants are theorems for every module of the code, and no run repeats them. `NeverStuck` of
`RebuildGraph` is a theorem too; on the run's instance it is what TLC's check for deadlock
looks at.

### Bounds, and why they are enough

* `walk_parallel`: five nodes. The bottom node has four parent entries, one parent
  twice, as a Dockerfile with two stages from one image gives; a second root is
  spawned after the node it is a parent of. Longer chains and more roots repeat what
  is there, and the proofs cover them.
* `rebuild_graph`: three roots compete for two permits, so that a goroutine waits
  for a permit and another one takes it; the last image has one parent that is a
  root and one below another image, so that a failure can reach it on one side, on both,
  directly or through a skip. `NeedsRebuild` and `NeedsTests` start with any
  value `Plan` can leave, and every write, build and test may fail.
* `generate_dag`: a tree of five Dockerfiles with an image that is reached on levels
  two, three and four, and that names one parent twice, and trees with each kind of
  rejection. The number of orders of the maps bounds the size.
* `plan` and `retag`: two roots with one child, the smallest graph on which two
  goroutines handle one image, one of them between the `Load` and the `Store` of the
  other; the child has an extra tag in `retag` and may be published by another run in
  `plan`. What the walk promises on longer paths is proved (`AsyncWalkProofs`).
* `dib_runs`: one image and its child, two runs, every combination of flags, a
  failure or crash at every step. A third run adds nothing to safety: what it finds is
  a registry, and two runs already leave every registry that can be left. The proofs
  are for any number of runs and any graph.
* `pod_executors`: `Hour = 2` lets an event come after some of the hour has passed;
  `MaxUpdates = 2` gives one change before and one after a phase; `MaxEvents = 2` lets
  a phase and a deletion wait together for the goroutine. The proofs do not depend
  on the three numbers.

* `build_command`: two images, so that one can fail where the other does not and two
  tests overlap, as they must for the containers to have one name; images that depend
  on each other are for `rebuild_graph` and `dib_runs`. `AllOptions` drops the options
  that have no effect on each other: what an unknown backend would push, the
  executor of tests that are not run, `--force-rebuild` together with what comes after
  the build. `SomeStores` are what earlier runs may have left: version tags in the registry or
  not, image by image, dev tags there or not, and either of them on the host or not. The proofs are
  for all options, all such stores and any number of images.
* `remote_context`: a base with two images from it, which are built at the same time.
  The layouts are the ways two directories can be to each other: apart (`Flat`), the
  children in the parent's (`ChildrenInParent`, as `docs/quickstart.md` advises), one
  neighbour in the other's (`Neighbours`), and the parent in the child's
  (`ParentInChild`). The base may have its version tag already (`Published`), so that
  an image is built from a released base. `MaxEvents = 3` bounds runs, failing file operations
  and killed runs together: three runs of which any number builds, forces, fails or leaves
  out the tags, or two with one mishap, as a killed run and the one that mends it. Three
  events are enough for TLC to find `OneCrashHeals` violated without its condition on failed
  operations, on `--force-rebuild` or on the layout; a second killed run would take five.
  The proofs are for any number of all three.

Deadlock is checked in every run. A model that has ended keeps taking an explicit
step that changes nothing (`Returned`, `Done`, `Over`).

### Fairness, and why the code justifies it

* Every goroutine is weakly fair (`WF_vars(Goroutine(c))`, `WF_vars(Visitor(n))`,
  `WF_vars(Caller)`): the Go scheduler runs every goroutine that can run. Weak fairness
  is enough since a mutex that is free may be taken by any contender, and which
  one takes it does not matter to termination in a graph without cycles.
* In `RebuildGraph` this includes that a build, a test and a write end. The code has
  no timeout for them; a build that hangs hangs dib. Likewise an answer
  of the registry, or an error in its place, in `Plan` and `Retag`.
* In `PodExecutors` the goroutines, the caller and the clock are fair. The pod, goss,
  the log stream and the API server's watch are not: a pod may stay pending for
  ever, and the caller must return all the same. `CallerReturns` relies on
  `MaxUpdates`, that events stop at some time, which is the point of the finding below.
* In `BuildCommand`, `doBuild` itself is fair (`WF_vars(DoBuild)`), and so is what
  goes on for each image (`Visit(n)`, `RetagImage(n)`): the commands and requests it
  waits for end.
* `OtherRun`, `Crash` and all failures are never forced to happen.
* `DibRuns` and `RemoteContext` have no fairness: they are about safety; that a run ends
  is for its parts.

## The proofs

`tlapm` checks the eight modules `*Proofs`. `theorems` in `PROJECT.json` lists the
results a reader should know of.

Assumptions. `ImageGraph` assumes a finite graph with sequences of parents and
children (`GraphType`), that an edge is in both (`EdgesAgree`), that the
roots are the nodes without parents (`RootsAreParentless`), and that the graph has no
cycle (`Acyclic`, stated without paths: every non-empty set of nodes has a member with
no parent in it). `GenerateDAGProofs!GraphConsistent` proves the second and the
third of what the code builds. The fourth is an assumption about the Dockerfiles; see
the observations below. `CallTree` assumes that the calls are the tree the recursion
makes. Other assumptions give constants their type: `Concurrency` is positive, `Hour`
is positive, `None` is not a run, and no released tag is named like a hash.

Each module has an inductive invariant `IInv`, a conjunction of named parts, and
lemmas `...Keeps` for the actions.

* **`WalkParallelProofs`**: `TypeCorrect`, `ParentsFirst`, `WakeupsAreKept`,
  `DeadlockFree`, `ReturnImpliesDone`, and `ImplementsTopoWalkSafety`, that every step
  is a step of `TopoWalk` or leaves its status alone. `IInv` says who owns which mutex
  at which program counter, that the parents before `idx` are done, and that a
  sleeper's parent has not begun its broadcast, since it cannot set `done` without
  the mutex the sleeper gave back only by going to sleep. Freedom from
  deadlock follows by taking a minimal node, in the order of `Acyclic`, among those
  whose goroutine has not ended: all its parents have ended, so nothing it waits for
  is held.
* **`RebuildGraphProofs`**: `BasesAreAvailable`, `BuildsAreBounded`,
  `DockerfilesAreRestored`, `ChannelIsSafe`, `ReportsAreComplete`,
  `SkipsAreExplained`, `CheckErrorIsSound`, `LimiterIsNoDeadlock`, `FollowsTopoWalk`. `IInv` ties the permits to the set of
  goroutines between acquire and release (a cardinality argument), a Dockerfile's
  references to the program counter of its goroutine, and each outcome to its
  report. Soundness of the gate is an induction over the acyclic graph: a minimal
  skipped image would need a failed or skipped parent. Freedom from deadlock takes a minimal
  image the walk has not left: its visitor can go on or waits for a permit, and who
  holds a permit waits for nothing.
* **`GenerateDAGProofs`**: `NamesAreUnique`, `GraphConsistent`, `HashesAreTheReference`. The
  last says that on an acyclic graph the levels of `computeHashes` arrive at the hashes defined
  by recursion over the ancestors, for every order and every hash function. Its invariant
  is about sets closed downwards: if every node that is still to be hashed is in such a set,
  every hash outside of it is final. So in the end the hashes satisfy the equation of the
  recursive function `Reference`, and it has no other solution: an image on which two
  of them disagree has a parent on which they do.
* **`AsyncWalkProofs`**, first of `AsyncWalk`: `NothingLeftRunning`, `NoNodeForgotten`,
  `ErrorsReachTheCaller`. A call returns after its sub-calls; a node that is in the visited map
  has a visitor that has begun; and a failure climbs the tree of calls. These facts (`WalkInv`)
  are part of the invariants of the two modules below.

  Then of `Plan`: `AnswersAreThere`, `UnbuiltArePublished`, `PublishedAreNotBuilt`. `PlanInv`
  says that an answer in the map is of the registry as it was at the time (`AnswersInv`): tags
  only appear, so "there" stays true, and no answer about an image that was there from the
  start is "missing". A visitor that has returned has failed or stored an answer, and the walk
  has had a visitor on every node. The sequential walks are covered by `ToEnterInv`: the roots and
  the children of what has been seen are seen or on the stack, so a walk whose stack is empty
  has seen every image.

  Then of `Retag`: `DoneImagesAreTagged`, `ReleasesHaveVersions`, `SuccessTagsAll`. `RetagInv`
  says which tags a visitor has behind it at each position; tags only ever turn to this
  run's build, so what one goroutine has set the other cannot undo. A visitor that has returned
  has an error recorded or `RetagDone` set, and the walk's theorems say that each node has one
  and that no error is lost: together, success means that every image is tagged.
* **`DibRunsProofs`**: `VersionsWereTested`, `LatestWasTested`, `SuccessIsComplete`,
  `VersionsAreKept` and `BasesAreFromVersions`, all of the form `Exclusive => (Spec => ...)`, for any number
  of runs. Without exclusion `LatestIsTested` is false, see the observations.
  `IInv` says that while a run builds, the dev tag of an image it has tested is
  its own build. `BasesAreFromVersions` has an invariant of its own (`BasesInv`): when a
  run begins to tag, an image it leaves alone has only parents it leaves alone, since
  one it rebuilds was missing in the registry, and no image there is from a missing
  one.
* **`PodExecutorsProofs`**: `SuccessExplained`, `FailureExplained`, `ReadyReceived`,
  `PodDeleted`. The heart of `IInv` is about the queue of events: an event about
  the end of the pod is about its fate, and comes before an event about its deletion;
  as long as the goroutine listens to an open watch, a pod that has ended has its
  event in the queue. So the first final event the goroutine meets is the truth.
* **`BuildCommandProofs`**: `LocalBuildsStayLocal`, `PassedWasAnswered`,
  `SuccessTagsTheBuild`, `VersionsWereAnswered`, for all options and any number of images.
  `IInv` has a part for each of the rules that must agree: what the phase says of the
  images, which executor the options have led to, in which store this run's build is,
  what the tests have answered for, and that the executor would still find the
  build it has answered for (`FoundInv`). The last theorem needs all of
  them: a version tag is on this run's build only after the gate, so the test has
  passed; for an executor that waits this means that goss has answered for the
  build found; and what Docker or Kubernetes finds is what the tagger takes, whatever
  earlier runs have left. What containerd finds may be an image of an earlier run: that is
  the exclusion `TestsStale`, and without it the theorem is false.
* **`RemoteContextProofs`**: `TagsAreTrue`, `OnlyNestedAreSpoiled`, `NothingLeftBehind`,
  `CrashHeals` and `NothingRebuiltTwice`, an action property; for every graph, every layout of
  the directories, and any number of runs, faults and crashes. The hashes are those of the
  disk when the run began (`HashInv`: `Began` are the references the Dockerfiles had then,
  `Left` the archives that were there), and `FilesInv` compares them, stage by stage, with
  what is in the directory of an image with only descendants inside: its descendants wait
  for it, so the only edit is its own and the only new archive is its own. The archive
  is named after the hash, so it would overwrite one that was hashed if the hash could be
  computed from an archive named after itself; `ArchivesInv` says it is not, since a hash is
  made of what was there before. `RestoredInv` and `PackingInv` are the clean-up: as
  long as nothing fails, a Dockerfile is edited only while its visitor works and an archive is
  there only for its visitor to send. A Close that fails takes entries out of an
  archive and adds none, so `TagsAreTrue` keeps one inclusion for it. `CrashHeals` needs to look
  at more than one run (`HealInv`): the references a killed run leaves are those the next run
  would write, since the ancestors have kept their hashes and both runs force rebuilds or
  neither does, and the image is rebuilt, since its version tags are of the clean
  Dockerfile. That `Hashes`, a recursive function, satisfies its equation
  follows from `Acyclic` without an induction: the largest set of images with a solution
  has all images in it (`SolutionExists`), and two solutions agree (`SolutionsAgree`).

All invariants and action properties that the passing runs check are theorems. Only model-checked
is liveness (TLAPS does not prove fairness arguments): `RebuildTerminates`,
`GenerateTerminates`, `PlanReturns`, `RetagReturns`, `CallerReturns`, `BuildEnds`, and the
liveness half of `ImplementsTopoWalk`.

## Where code and documentation differ

Three runs end in a counterexample, each to a sentence of the repository:

* `pod_watch_ends`: `kubernetes/pod.go:22` says that nil is sent on errChan "on
  success". When the watch ends (the API server ends every watch after some time),
  errChan is closed and its receiver takes the zero value for a success: the pod is
  deleted and the build counts as done.
* `dry_run`: the help of `--dry-run` (`cmd/build.go:64`) promises to "simulate what would
  happen without actually doing anything dangerous". The BuildKit builder, which is the
  default, is not given the option: it builds, and pushes from the pods it builds in.
* `goss_rootful`: "dib runs a container from the image to test, and injects the goss
  binary and configuration, then execute the test itself" (`docs/tests.md:10`). As root
  the containerd executor tests the error of its socket check the wrong way round
  (`executor_containerd.go:122`) and returns nil without having run anything: the tests of
  every image pass.

Observations the models make plain, for which there is no run:

* `WalkAsyncErr` may run the visitor on one node twice, at the same time, because of
  the `Load` and `Store` apart; its comment says once. `Plan` and `Retag` are written so
  that this is harmless, which is what their properties show. It does not stop at
  the first error either, as its comment says, but starts the visitors that are left.
* Nothing looks for cycles of FROM instructions. A cycle without a root above it is
  left out of every walk, silently; one below a root keeps `computeHashes` from ending; and an image that
  is below both a root and such a lost cycle waits for ever in `WalkParallel`.
* Two runs on the same sources at the same time share the tag `dev-<hash>`, and the first
  can promote the second's build, whose tests have not ended: with `Exclusive = FALSE`
  TLC finds `LatestIsTested` violated.
* Two Dockerfiles in one directory (`Dockerfile`, `test.Dockerfile`): the map of
  `generate_dag.go` is keyed by directory, and one replaces the other without a word,
  though `cmd/root.go:53` says every one will be added.
* The hour of `pod.go:23` is one without events: the timer is made anew for each.
* A killed build leaves a reference to a dev tag in the Dockerfile. In a flat layout the
  next successful run removes it, as its `ResetFile` looks for the same reference
  (`OneCrashHeals`). Not so when the killed run had `--force-rebuild`, its base was in the
  registry, and the next run does not force: the base is not rebuilt, the reset looks for
  `base:<hash>`, and `base:dev-<hash>` stays: the child is then published under the hash of
  the edited Dockerfile, and only another forced run builds it again. The other way round
  it is `base:<hash>` that stays. With the children's directories inside the parent's the parent's
  hash has changed, the next run looks for another tag, and the reference stays for good.
  Two crashes are not healed in any layout.
* `createArchive` drops the errors of its three Closes (`remote.go:114-128`), in which the
  compressed data is flushed: on a full disk it returns nil, and an archive that is cut off is uploaded
  and handed to BuildKit under the tag of the whole context. `ArchiveIsHashed` says that this is
  the only way the two can differ.
* An archive that `createArchive` fails on stays, since the `defer` that removes archives
  comes after it; it is hashed by every later run.
* Where a neighbour's directory is inside another, an archive may hold the neighbour's
  edited Dockerfile or half-written archive, or fail because a file has changed or gone
  (`ArchiveIsHashed` and `SpoiledIsNested` are about all other layouts).
* A docker build with neither `--push` nor `--local-only` stays on the host while the
  registry is retagged: the version tag goes to whatever the dev tag there refers to.
  `SuccessMeansVersion` leaves this combination out (`Unpushed`).
* `docker --dry-run` with tests fails at the first image that no earlier run has built.
* The containerd executor runs the image the host has and does not pull. A build in a pod
  never leaves its image there, so what is tested after one is an image of an earlier
  `--local-only` build under the same dev tag, if there is one. When goss finds it good, the
  build in the registry gets the version tag without having been tested
  (`TestsStale`, which `VersionsWereValidated` excludes).
* Every containerd test has the container name `goss-test`: of two that overlap one is
  refused and its image fails.
* With an empty `include_tests` there is no test runner, and every test passes.
* A goss test whose pod ends first, after the hour of its `sleep 1h`, counts as passed.
* A child and its parent may be released by different runs after one that was
  interrupted between their tags: `BasesAreVersions` excludes this, since the code
  does not.

## What is not modelled

* In `DibRuns`: `--dry-run`, `--local-only` and `--no-tests`, which are in `BuildCommand`.
* In `BuildCommand`: `--build-arg`, `--file`, `--target`, `--compression` and the other
  options that do not change where an image goes; a failure to write the log files.
* In `RemoteContext`: the release tags and tests, which leave the disk as it is, `.dockerignore`, which the hash respects and the archive does not; edits of
  the sources between runs and version tags that other machines set meanwhile; a write of a Dockerfile that
  fails halfway, which is in `RebuildGraph`; the hour a presigned URL is good for.
* A reference a user has pinned by hand to a parent's current tag, which `ResetFile`
  turns into the placeholder; the ARG lines that hashing removes; a hash that collides.
* `--rate-limit 0`, on which the first build blocks for ever; `Concurrency` is positive.
* Cancelled contexts: `main` executes the commands without a context that could be
  cancelled.
* `dag.WalkInDepth`, which has no caller outside the tests.
* How arguments, labels, pods and reports are put together and printed; the command
  line and the configuration; the inside of the clients of S3, Azure, the registry and
  git: input and output without a state of their own. The components in
  `PROJECT.json` say so one by one.
* The ignore patterns and the custom hash list: part of the abstract hash.

## The plan

Done, in this order: the walks and the rebuild they carry; generation; planning and
retagging; several runs; pods; the test runners; one run under all its options; the
working copy; and proofs of all the invariants and action properties. What is left, in
the order of importance:

1. The promises of the walk as an abstract specification of its own (every node visited at
   least once, nothing running after the return), and `AsyncWalk` shown to implement it; and
   that `AsyncWalk` cannot be stuck, which needs a call without open sub-calls in every
   finite set of calls, the dual of `Acyclic`.
2. What holds of `DibRuns` without `Exclusive`. None of its five properties does, TLC shows; what
   remains to be stated is how two runs must overlap for a tag to be wrong.
3. The edits of a Dockerfile as operators on sequences of references, with the ARG lines
   and references that are a prefix of one another: when is the reset the inverse?
