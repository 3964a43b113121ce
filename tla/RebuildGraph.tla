---------------------------- MODULE RebuildGraph ----------------------------
(***************************************************************************)
(* Builder.RebuildGraph: the visitor of `dib build` on top of the parallel *)
(* walk, the rate limiter its builds share, the Dockerfiles it edits and   *)
(* restores, and the channel its build reports are sent on.                *)
(*                                                                         *)
(* The walk itself is TopoWalk, which WalkParallel implements.             *)
(***************************************************************************)
EXTENDS ImageGraph

CONSTANT Concurrency    \* --rate-limit: the capacity of the limiter's channel

\* With a capacity of 0 the first Acquire blocks for ever.
ASSUME ConcurrencyAssumption == Concurrency \in Nat \ {0}

VARIABLES
    status,         \* the walk
    pc,             \* pc[n]: where the visitor is on image n
    needsRebuild,   \* the image's NeedsRebuild, set by Plan
    needsTests,     \* the image's NeedsTests, set by Plan
    rebuildFailed,  \* the image's RebuildFailed
    limiter,        \* how many permits are taken
    dockerfile,     \* dockerfile[n]: the parents whose placeholder reference
                    \* is replaced by a CurrentRef in n's Dockerfile on disk
    writeFailed,    \* history: the images a write to whose Dockerfile has failed
    built,          \* the images builder.Build has succeeded for
    buildReport,    \* buildReport[n]: the visitor's local buildReport
    reports,        \* what RebuildGraph has received: res.BuildReports
    closed,         \* buildReportsChan is closed
    returned        \* RebuildGraph has returned the report

flags == <<needsRebuild, needsTests>>
files == <<dockerfile, writeFailed, built>>
channel == <<reports, closed, returned>>
vars == <<status, pc, flags, rebuildFailed, limiter, files, buildReport, channel>>

PC == {"idle", "acquire", "replace", "prepare", "build", "reset", "release",
       "tests", "send", "leave"}

Report == [build : {"skipped", "success", "error"},
           tests : {"skipped", "passed", "failed"}]

TypeOK ==
    /\ status \in [Nodes -> {"waiting", "visiting", "visited"}]
    /\ pc \in [Nodes -> PC]
    /\ needsRebuild \in [Nodes -> BOOLEAN]
    /\ needsTests \in [Nodes -> BOOLEAN]
    /\ rebuildFailed \in [Nodes -> BOOLEAN]
    /\ limiter \in 0..Concurrency
    /\ dockerfile \in [Nodes -> SUBSET Nodes]
    /\ writeFailed \in SUBSET Nodes
    /\ built \in SUBSET Nodes
    /\ buildReport \in [Nodes -> Report]
    /\ reports \in SUBSET (Nodes \X Report)
    /\ closed \in BOOLEAN
    /\ returned \in BOOLEAN

Walk == INSTANCE TopoWalk

Goto(n, label) == pc' = [pc EXCEPT ![n] = label]

\* Images Plan leaves alone are not reported.
Concerned(n) == needsRebuild[n] \/ needsTests[n]

\* The visitor is in buildNode, between Acquire and the deferred Release.
InBuildNode == {n \in Nodes :
    pc[n] \in {"replace", "prepare", "build", "reset", "release"}}

\* Report.CheckError: what stops `dib build` before it retags.
CheckError == \E r \in reports : r[2].build = "error" \/ r[2].tests = "failed"

-----------------------------------------------------------------------------

\* Plan marks any set of images: with --force-rebuild all of them, otherwise
\* those whose hash is not a tag of the registry.  It asks for tests exactly
\* on the images it rebuilds, or with --no-tests on none.
Init ==
    /\ Walk!Init
    /\ pc = [n \in Nodes |-> "idle"]
    /\ needsRebuild \in [Nodes -> BOOLEAN]
    /\ needsTests \in {needsRebuild, [n \in Nodes |-> FALSE]}
    /\ rebuildFailed = [n \in Nodes |-> FALSE]
    /\ limiter = 0
    /\ dockerfile = [n \in Nodes |-> {}]
    /\ writeFailed = {}
    /\ built = {}
    /\ buildReport = [n \in Nodes |-> [build |-> "skipped", tests |-> "skipped"]]
    /\ reports = {}
    /\ closed = FALSE
    /\ returned = FALSE

-----------------------------------------------------------------------------
(* The visitor.                                                            *)

ParentFailed(n) == \E p \in ParentsOf(n) : rebuildFailed[p]

\* A visitor that does not look at its parents.
Begin_IgnoresParents(n) ==
    /\ Walk!Visit(n)
    /\ Goto(n, CASE ~Concerned(n) -> "leave"
                 [] needsRebuild[n] -> "acquire"
                 [] OTHER -> "tests")
    /\ UNCHANGED <<flags, rebuildFailed, limiter, files, buildReport, channel>>

\* A visitor that returns below a parent that failed without a report.
Begin_SkipsSilently(n) ==
    /\ Walk!Visit(n)
    /\ LET skipped == Concerned(n) /\ ParentFailed(n)
       IN  /\ rebuildFailed' = [rebuildFailed EXCEPT ![n] = skipped]
           /\ Goto(n, CASE ~Concerned(n) \/ skipped -> "leave"
                        [] needsRebuild[n] -> "acquire"
                        [] OTHER -> "tests")
    /\ UNCHANGED <<flags, limiter, files, buildReport, channel>>

\* What the visitor does before it builds or tests: nothing on an image that
\* needs neither, and a skipped report below a parent that failed.
Begin(n) ==
    /\ Walk!Visit(n)
    /\ \/ /\ ~Concerned(n)
          /\ rebuildFailed' = [rebuildFailed EXCEPT ![n] = FALSE]
          /\ Goto(n, "leave")
       \/ /\ Concerned(n) /\ ParentFailed(n)
          /\ rebuildFailed' = [rebuildFailed EXCEPT ![n] = TRUE]
          /\ Goto(n, "send")
       \/ /\ Concerned(n) /\ ~ParentFailed(n)
          /\ Goto(n, IF needsRebuild[n] THEN "acquire" ELSE "tests")
          /\ UNCHANGED rebuildFailed
    /\ UNCHANGED <<flags, limiter, files, buildReport, channel>>

\* A limiter whose channel has room for one more.
Acquire_OffByOne(n) ==
    /\ pc[n] = "acquire"
    /\ limiter <= Concurrency
    /\ limiter' = limiter + 1
    /\ Goto(n, "replace")
    /\ UNCHANGED <<status, flags, rebuildFailed, files, buildReport, channel>>

\* rateLimiter.Acquire: a send on a channel of capacity Concurrency.
Acquire(n) ==
    /\ pc[n] = "acquire"
    /\ limiter < Concurrency
    /\ limiter' = limiter + 1
    /\ Goto(n, "replace")
    /\ UNCHANGED <<status, flags, rebuildFailed, files, buildReport, channel>>

\* buildNode returns an error; WithError fills it into the report.
Fail(n) == buildReport' = [buildReport EXCEPT ![n].build = "error"]

\* ReplaceInFile writes the file once per parent, in any order; when a write
\* fails it leaves the earlier ones, and the deferred ResetFile is not set up.
ReplaceRefs(n) ==
    /\ pc[n] = "replace"
    /\ \/ /\ dockerfile' = [dockerfile EXCEPT ![n] = ParentsOf(n)]
          /\ Goto(n, "prepare")
          /\ UNCHANGED <<writeFailed, buildReport>>
       \/ /\ \E replaced \in SUBSET ParentsOf(n) :
                /\ replaced # ParentsOf(n)
                /\ dockerfile' = [dockerfile EXCEPT ![n] = replaced]
          /\ writeFailed' = writeFailed \cup {n}
          /\ Fail(n)
          /\ Goto(n, "release")
    /\ UNCHANGED <<status, flags, rebuildFailed, limiter, built, channel>>

\* The deferred ResetFile set up after MkdirAll and Create.
Prepare_NoReset(n) ==
    /\ pc[n] = "prepare"
    /\ \/ Goto(n, "build") /\ UNCHANGED buildReport
       \/ Goto(n, "release") /\ Fail(n)
    /\ UNCHANGED <<status, flags, rebuildFailed, limiter, files, channel>>

\* MkdirAll of the report directory and Create of the image's log file.
Prepare(n) ==
    /\ pc[n] = "prepare"
    /\ \/ Goto(n, "build") /\ UNCHANGED buildReport
       \/ Goto(n, "reset") /\ Fail(n)
    /\ UNCHANGED <<status, flags, rebuildFailed, limiter, files, channel>>

\* builder.Build with the tag CurrentRef.
Build(n) ==
    /\ pc[n] = "build"
    /\ \/ built' = built \cup {n} /\ UNCHANGED buildReport
       \/ Fail(n) /\ UNCHANGED built
    /\ Goto(n, "reset")
    /\ UNCHANGED <<status, flags, rebuildFailed, limiter, dockerfile, writeFailed, channel>>

\* The deferred ResetFile, whose failure is only a warning.
ResetRefs(n) ==
    /\ pc[n] = "reset"
    /\ \/ dockerfile' = [dockerfile EXCEPT ![n] = {}] /\ UNCHANGED writeFailed
       \/ /\ \E left \in (SUBSET dockerfile[n]) \ {{}} :
                dockerfile' = [dockerfile EXCEPT ![n] = left]
          /\ writeFailed' = writeFailed \cup {n}
    /\ Goto(n, "release")
    /\ UNCHANGED <<status, flags, rebuildFailed, limiter, built, buildReport, channel>>

\* A visitor that reports a failed build without the error.
Release_DropsError(n) ==
    /\ pc[n] = "release"
    /\ limiter' = limiter - 1
    /\ rebuildFailed' = [rebuildFailed EXCEPT ![n] = buildReport[n].build = "error"]
    /\ buildReport' = [buildReport EXCEPT ![n].build =
                            IF @ = "error" THEN "skipped" ELSE "success"]
    /\ Goto(n, IF needsTests[n] /\ ~rebuildFailed'[n] THEN "tests" ELSE "send")
    /\ UNCHANGED <<status, flags, files, channel>>

\* A visitor that builds again for as long as the build fails.
Release_Retries(n) ==
    /\ pc[n] = "release"
    /\ limiter' = limiter - 1
    /\ IF buildReport[n].build = "error"
       THEN /\ buildReport' = [buildReport EXCEPT ![n].build = "skipped"]
            /\ Goto(n, "acquire")
       ELSE /\ buildReport' = [buildReport EXCEPT ![n].build = "success"]
            /\ Goto(n, IF needsTests[n] THEN "tests" ELSE "send")
    /\ UNCHANGED <<status, flags, rebuildFailed, files, channel>>

\* The deferred Release, and the visitor's reaction to what buildNode returned.
Release(n) ==
    /\ pc[n] = "release"
    /\ limiter' = limiter - 1
    /\ IF buildReport[n].build = "error"
       THEN /\ rebuildFailed' = [rebuildFailed EXCEPT ![n] = TRUE]
            /\ Goto(n, "send")
            /\ UNCHANGED buildReport
       ELSE /\ buildReport' = [buildReport EXCEPT ![n].build = "success"]
            /\ Goto(n, IF needsTests[n] THEN "tests" ELSE "send")
            /\ UNCHANGED rebuildFailed
    /\ UNCHANGED <<status, flags, files, channel>>

\* testImage: the runners together pass or fail.
Test(n) ==
    /\ pc[n] = "tests"
    /\ \E result \in {"passed", "failed"} :
        buildReport' = [buildReport EXCEPT ![n].tests = result]
    /\ Goto(n, "send")
    /\ UNCHANGED <<status, flags, rebuildFailed, limiter, files, channel>>

\* buildReportsChan is unbuffered: the visitor and RebuildGraph meet.
Send(n) ==
    /\ pc[n] = "send"
    /\ ~closed
    /\ reports' = reports \cup {<<n, buildReport[n]>>}
    /\ Goto(n, "leave")
    /\ UNCHANGED <<status, flags, rebuildFailed, limiter, files, buildReport,
                   closed, returned>>

\* The visitor returns to the walk.
Leave(n) ==
    /\ pc[n] = "leave"
    /\ Walk!Leave(n)
    /\ UNCHANGED <<pc, flags, rebuildFailed, limiter, files, buildReport, channel>>

Visitor(n) ==
    \/ Begin(n)
    \/ Acquire(n)
    \/ ReplaceRefs(n)
    \/ Prepare(n)
    \/ Build(n)
    \/ ResetRefs(n)
    \/ Release(n)
    \/ Test(n)
    \/ Send(n)
    \/ Leave(n)

-----------------------------------------------------------------------------
(* The goroutine that walks, and RebuildGraph itself.                      *)

\* A channel closed when the roots are visited.
Close_Early ==
    /\ \A i \in DOMAIN Roots : status[Roots[i]] = "visited"
    /\ ~closed
    /\ closed' = TRUE
    /\ UNCHANGED <<status, pc, flags, rebuildFailed, limiter, files, buildReport,
                   reports, returned>>

\* close(buildReportsChan), after WalkParallel has returned.
Close ==
    /\ Walk!AllVisited
    /\ ~closed
    /\ closed' = TRUE
    /\ UNCHANGED <<status, pc, flags, rebuildFailed, limiter, files, buildReport,
                   reports, returned>>

\* The range over the channel ends, and the report is returned.
Return ==
    /\ closed
    /\ ~returned
    /\ returned' = TRUE
    /\ UNCHANGED <<status, pc, flags, rebuildFailed, limiter, files, buildReport,
                   reports, closed>>

Done == returned /\ UNCHANGED vars

Next == (\E n \in Nodes : Visitor(n)) \/ Close \/ Return \/ Done

\* Goroutines that can run do, commands end, and a permit that stays free is
\* taken in the end: an image acquires once, so contention ends.
Fairness ==
    /\ \A n \in Nodes : WF_vars(Visitor(n))
    /\ WF_vars(Close)
    /\ WF_vars(Return)

Spec == Init /\ [][Next]_vars /\ Fairness

-----------------------------------------------------------------------------
(* Properties                                                              *)

\* build.go:106-115, 190-199: when builder.Build runs on an image, every base
\* image this run had to rebuild has been built, and every reference to a base
\* image in the Dockerfile on disk is the one just built.
BasesAvailable ==
    \A n \in Nodes : pc[n] = "build" =>
        /\ \A p \in ParentsOf(n) : needsRebuild[p] => p \in built
        /\ dockerfile[n] = ParentsOf(n)

\* channel.go: however many goroutines the walk spawns and whichever way their
\* builds end, no more than --rate-limit of them are in buildNode, and the
\* permits taken are exactly theirs.
PermitsBounded ==
    /\ limiter = Cardinality(InBuildNode)
    /\ Cardinality(InBuildNode) <= Concurrency

\* A Dockerfile on disk differs from the user's only while its own build is
\* running, unless a write to it has failed: whatever else fails, MkdirAll,
\* Create and Build included, it is put back.
DockerfilesRestored ==
    \A n \in Nodes :
        dockerfile[n] # {} => pc[n] \in {"prepare", "build", "reset"} \/ n \in writeFailed

\* What a visitor needs in order to take its next step.
CanStep(n) ==
    \/ status[n] = "waiting" /\ Walk!ParentsVisited(n)
    \/ pc[n] = "acquire" /\ limiter < Concurrency
    \/ pc[n] = "send" /\ ~closed
    \/ pc[n] = "leave" /\ status[n] = "visiting"
    \/ pc[n] \in {"replace", "prepare", "build", "reset", "release", "tests"}

\* The limiter and the walk never wait for each other: visitors hold permits while
\* others wait for their parents and for permits, yet until RebuildGraph has
\* closed the channel a visitor can take a step, or all have returned and it can
\* close it (build.go:172, 184-185).
NeverStuck ==
    closed \/ Walk!AllVisited \/ \E n \in Nodes : CanStep(n)

\* build.go:172: no visitor is left that could send on the closed channel.
NoSendAfterClose ==
    closed => \A n \in Nodes : pc[n] = "leave" /\ status[n] = "visited"

\* Every image Plan marked is reported once, whether it was built, failed or
\* was skipped, and no other image is.
ReportsComplete ==
    returned =>
        \A n \in Nodes :
            Cardinality({r \in reports : r[1] = n}) = (IF Concerned(n) THEN 1 ELSE 0)

\* An image is reported as skipped only after a parent was reported as failed
\* or skipped: at any moment the reports explain themselves.
SkippedAfterParent ==
    \A r \in reports :
        r[2].build = "skipped" =>
            \E s \in reports :
                s[1] \in ParentsOf(r[1]) /\ s[2].build \in {"skipped", "error"}

\* What CheckError stands for (build.go cmd, 209): when it finds nothing, every
\* image that needed a rebuild is built and every image that needed tests has
\* passed them.  Skipped images are no error to CheckError; that none is left
\* is because some image above them failed.
GateIsSound ==
    returned /\ ~CheckError =>
        /\ \A n \in Nodes : needsRebuild[n] => n \in built
        /\ \A n \in Nodes : needsTests[n] =>
            \E r \in reports : r[1] = n /\ r[2].tests = "passed"

\* RebuildGraph returns, whatever fails.
RebuildTerminates == <>returned

=============================================================================
