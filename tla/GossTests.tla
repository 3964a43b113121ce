----------------------------- MODULE GossTests ------------------------------
(***************************************************************************)
(* The tests of the images (pkg/dib/test.go, pkg/goss): the runner that    *)
(* CreateTestRunner makes for a run of `dib build`, and the tests of all   *)
(* images, which run at the same time as their visitors do - the rate      *)
(* limiter is for builds only.                                             *)
(*                                                                         *)
(* A test ends with nil or an error; testImage cannot tell "passed" from   *)
(* "had nothing to run".  The history variables say what has happened, for *)
(* the properties here and in BuildCommand.                                *)
(***************************************************************************)
EXTENDS FiniteSets

CONSTANT Images     \* the images of the run

VARIABLES
    executor,       \* the executor of the goss runner, "none" without a runner
    rootless,       \* whether dib runs as another user than root
    configured,     \* the images with a goss.yaml next to their Dockerfile
    test,           \* test[n]: where RunTest is for image n, or its outcome
    testError,      \* the images for which Execute has returned an error
    validated,      \* history: the images and builds goss has found good
    lost            \* history: the images whose pod was lost before goss answered

testing == <<executor, rootless, configured>>
outcome == <<testError, validated, lost>>
testVars == <<testing, test, outcome>>

\* What an image reference can refer to: no image, one of an earlier run, or
\* this run's.
Builds == {"none", "old", "new"}

TestTypeOK ==
    /\ executor \in {"none", "dgoss", "containerd", "kubernetes"}
    /\ rootless \in BOOLEAN
    /\ configured \in SUBSET Images
    /\ test \in [Images -> {"idle", "prepare", "execute", "matched", "running", "export",
                            "passed", "failed"}]
    /\ testError \in SUBSET Images
    /\ validated \in SUBSET (Images \X Builds)
    /\ lost \in SUBSET Images

TestInit ==
    /\ executor = "none"
    /\ rootless \in BOOLEAN
    /\ configured \in SUBSET Images
    /\ test = [n \in Images |-> "idle"]
    /\ testError = {}
    /\ validated = {}
    /\ lost = {}

To(n, stage) == test' = [test EXCEPT ![n] = stage]

\* A step of the host that may fail: the error, if any, is Execute's.
Try(n, ok, next) ==
    /\ IF ok
       THEN To(n, next) /\ UNCHANGED testError
       ELSE To(n, "export") /\ testError' = testError \cup {n}
    /\ UNCHANGED <<testing, validated, lost>>

-----------------------------------------------------------------------------
(* testImage and RunTest                                                   *)

\* CreateTestRunner: Kubernetes wins over the backend, unless the build is
\* local; BuildKit needs a worker on containerd, or there is no runner and dib
\* stops.
ExecutorFor(backend, localOnly, kubernetes) ==
    IF kubernetes /\ ~localOnly THEN "kubernetes"
    ELSE IF backend = "docker" THEN "dgoss" ELSE "containerd"

\* testImage: without a runner, or without a goss.yaml, there is no error.
StartTest(n) ==
    /\ test[n] = "idle"
    /\ To(n, IF executor # "none" /\ n \in configured THEN "prepare" ELSE "passed")
    /\ UNCHANGED <<testing, outcome>>

\* The directory of the reports is made and goss.yaml looked up once more; an
\* error here is RunTest's, without a report.
Prepare(n) ==
    /\ test[n] = "prepare"
    /\ \E ok \in BOOLEAN : To(n, IF ok THEN "execute" ELSE "failed")
    /\ UNCHANGED <<testing, outcome>>

\* Execute of the dgoss and of the Kubernetes executor start right away.
StartContainer(n) ==
    /\ test[n] = "execute"
    /\ executor \in {"dgoss", "kubernetes"}
    /\ To(n, "running")
    /\ UNCHANGED <<testing, outcome>>

\* IsContainerdSocketMatchingBuildkitWorker: an answer that is no match or cannot
\* be had - no socket, no ctr, no buildctl, no worker - or a match.
SocketAnswers == {"match", "mismatch", "error"}

\* Execute of the containerd executor looks for goss and, as another user than
\* root, for rootlesskit's child; then it compares the containerd behind the
\* socket with that of the BuildKit worker.  Without root, anything but a match
\* is an error.
CheckSocketRootless(n) ==
    /\ test[n] = "execute"
    /\ executor = "containerd" /\ rootless
    /\ \E found \in BOOLEAN, answer \in SocketAnswers :
        Try(n, found /\ answer = "match", "matched")

\* With root, an error of the check is Execute's error, and no error, match or
\* not, makes Execute return nil: lines 122-128 test err the wrong way round,
\* and the command that would run the test is never reached.
CheckSocketRootful(n) ==
    /\ test[n] = "execute"
    /\ executor = "containerd" /\ ~rootless
    /\ \E found \in BOOLEAN, answer \in SocketAnswers :
        Try(n, found /\ answer # "error", "export")

\* The containers of `ctr run` all have the name goss-test.
NameTaken(n) == \E m \in Images \ {n} : test[m] = "running"

\* `nsenter ... ctr run ... goss-test`: containerd refuses a container whose
\* name is taken, by the test of another image.
RunContainer(n) ==
    /\ test[n] = "matched"
    /\ Try(n, ~NameTaken(n), "running")

\* goss answers for the build that the reference of image n refers to: a test
\* failure, or no image to run, is Execute's error.
Validate(n, build) ==
    /\ test[n] = "running"
    /\ To(n, "export")
    /\ \/ /\ build # "none"
          /\ validated' = validated \cup {<<n, build>>} /\ UNCHANGED testError
       \/ testError' = testError \cup {n} /\ UNCHANGED validated
    /\ UNCHANGED <<testing, lost>>

\* The pod of the Kubernetes executor is lost, or its watch ends or its hour is
\* over before goss has answered: an error or nil (PodExecutors).
LosePod(n) ==
    /\ test[n] = "running"
    /\ executor = "kubernetes"
    /\ To(n, "export")
    /\ \/ testError' = testError \cup {n}
       \/ UNCHANGED testError
    /\ lost' = lost \cup {n}
    /\ UNCHANGED <<testing, validated>>

\* A RunTest that returns the error of the export only.
Export_DropsTestError(n) ==
    /\ test[n] = "export"
    /\ \E ok \in BOOLEAN : To(n, IF ok THEN "passed" ELSE "failed")
    /\ UNCHANGED <<testing, outcome>>

\* exportJunitReport, whose error hides that of the test, and the end of RunTest.
Export(n) ==
    /\ test[n] = "export"
    /\ \E ok \in BOOLEAN : To(n, IF ok /\ n \notin testError THEN "passed" ELSE "failed")
    /\ UNCHANGED <<testing, outcome>>

\* What RunTest does after testImage has called it, but for goss's answer.
TestStep(n) ==
    \/ Prepare(n) \/ StartContainer(n)
    \/ CheckSocketRootless(n) \/ CheckSocketRootful(n) \/ RunContainer(n)
    \/ LosePod(n) \/ Export(n)

-----------------------------------------------------------------------------
(* Properties                                                              *)

\* The tests that run goss and wait for its answer: those of dgoss, those of
\* containerd without root, and those of Kubernetes whose pod is not lost.
Reliable(n) ==
    \/ executor = "dgoss"
    \/ executor = "containerd" /\ rootless
    \/ executor = "kubernetes" /\ n \notin lost

\* A test that has passed on an image with a goss.yaml is one that goss has
\* answered: of the early returns, errors and refused containers in between none
\* is reported as a success.  runner.go:72-101, executor_containerd.go:39-133.
PassedWasValidated ==
    \A n \in configured :
        Reliable(n) /\ test[n] = "passed" => \E b \in Builds : <<n, b>> \in validated

\* docs/tests.md:10-11: "dib runs a container from the image to test, and
\* injects the goss binary and configuration, then execute the test itself".
\* It does not hold: see CheckSocketRootful.
PassedMeansTested ==
    \A n \in configured :
        executor = "containerd" /\ test[n] = "passed" =>
            \E b \in Builds : <<n, b>> \in validated

=============================================================================
