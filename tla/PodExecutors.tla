---------------------------- MODULE PodExecutors -----------------------------
(***************************************************************************)
(* The two callers of MonitorPod: ApplyWithWriters (pkg/exec/kubernetes.go),*)
(* which runs a BuildKit build in a pod, and Execute                       *)
(* (pkg/goss/executor_kubernetes.go), which runs goss tests in one.        *)
(*                                                                         *)
(* Each has a goroutine that waits for the pod to be ready.  That of a     *)
(* build prints the logs; that of a test copies goss.yaml into the pod,    *)
(* runs goss there, and sends the outcome on an errChan of its own, from   *)
(* which the caller receives in a select with MonitorPod's.                *)
(***************************************************************************)
EXTENDS PodMonitor

VARIABLES
    user,           \* "build" or "test"
    main,           \* where the caller is
    answer,         \* what the caller has received, or what failed before
    created,        \* what Create returned
    deleteFailed,   \* Delete returned an error, which is ignored
    helper,         \* where the goroutine is
    goss            \* what goss said

callers == <<user, main, answer, created, deleteFailed>>
vars == <<podVars, callers, helper, goss>>

\* The test goroutine stands in its send.
Sends == {"send passed", "send failed"}

CallersTypeOK ==
    /\ user \in {"build", "test"}
    /\ main \in {"watch", "create", "select", "delete", "stop", "returned"}
    /\ answer \in {"none", "setup", "closed", "passed", "not passed"} \cup Outcomes
    /\ created \in {"none", "ok", "error"}
    /\ deleteFailed \in BOOLEAN
    /\ helper \in {"none", "wait", "logs", "get", "copy", "exec"} \cup Sends \cup {"ended"}
    /\ goss \in {"none", "passed", "failed"}

TypeOK == PodTypeOK /\ CallersTypeOK

\* The caller returns nil: for a nil and for the zero value of a closed channel.
Ok == answer \in {"nil", "closed", "passed"}

-----------------------------------------------------------------------------

Init ==
    /\ PodInit
    /\ user \in {"build", "test"}
    /\ main = "watch"
    /\ answer = "none"
    /\ created = "none"
    /\ deleteFailed = FALSE
    /\ helper = "none"
    /\ goss = "none"

-----------------------------------------------------------------------------
(* The caller.                                                             *)

\* The pod is put together, the watch is opened, and the goroutines are
\* started; an error of the first two returns at once.
Watch ==
    /\ main = "watch"
    /\ \/ /\ StartMonitor
          /\ helper' = "wait"
          /\ main' = "create"
          /\ UNCHANGED answer
       \/ /\ answer' = "setup"
          /\ main' = "returned"
          /\ UNCHANGED <<podVars, helper>>
    /\ UNCHANGED <<user, created, deleteFailed, goss>>

\* An error of Create returns without a Delete; the pod may be there all the
\* same if the answer was lost.
Create ==
    /\ main = "create"
    /\ \/ /\ CreatePod
          /\ created' = "ok"
          /\ main' = "select"
          /\ UNCHANGED answer
       \/ /\ CreatePod \/ UNCHANGED podVars
          /\ created' = "error"
          /\ answer' = "setup"
          /\ main' = "stop"
    /\ UNCHANGED <<user, deleteFailed, helper, goss>>

\* A caller that returns an error before it has set up the Delete.
FromMonitor_ReturnsEarly ==
    /\ main = "select"
    /\ \E value \in Outcomes \cup {"closed"} : ReceiveOutcome(value) /\ answer' = value
    /\ main' = IF answer' \in {"nil", "closed"} THEN "delete" ELSE "stop"
    /\ UNCHANGED <<user, created, deleteFailed, helper, goss>>

\* MonitorPod's errChan.
FromMonitor ==
    /\ main = "select"
    /\ \E value \in Outcomes \cup {"closed"} : ReceiveOutcome(value) /\ answer' = value
    /\ main' = "delete"
    /\ UNCHANGED <<user, created, deleteFailed, helper, goss>>

\* The test goroutine's errChan, in the select of Execute.
FromHelper ==
    /\ main = "select"
    /\ helper \in Sends
    /\ answer' = IF helper = "send passed" THEN "passed" ELSE "not passed"
    /\ helper' = "ended"
    /\ main' = "delete"
    /\ UNCHANGED <<podVars, user, created, deleteFailed, goss>>

\* The deferred Delete, which does nothing to a pod that is gone.
Delete ==
    /\ main = "delete"
    /\ \/ /\ IF Exists THEN DeletePod ELSE UNCHANGED podVars
          /\ UNCHANGED deleteFailed
       \/ deleteFailed' = TRUE /\ UNCHANGED podVars
    /\ main' = "stop"
    /\ UNCHANGED <<user, answer, created, helper, goss>>

Stop ==
    /\ main = "stop"
    /\ StopWatch
    /\ main' = "returned"
    /\ UNCHANGED <<user, answer, created, deleteFailed, helper, goss>>

Caller == Watch \/ Create \/ FromMonitor \/ FromHelper \/ Delete \/ Stop

-----------------------------------------------------------------------------
(* The goroutine that waits for the pod.                                   *)

Ready ==
    /\ helper = "wait"
    /\ ReceiveReady
    /\ helper' = IF user = "build" THEN "logs" ELSE "get"
    /\ UNCHANGED <<callers, goss>>

\* PrintPodLogs returns at the end of the stream or at an error.
LogsEnd ==
    /\ helper = "logs"
    /\ helper' = "ended"
    /\ UNCHANGED <<podVars, callers, goss>>

\* An error of the steps of a test, which all of them may have.
StepFails ==
    /\ helper \in {"get", "copy"}
    /\ helper' = "send failed"
    /\ UNCHANGED <<podVars, callers, goss>>

\* Pods(...).Get
Get ==
    /\ helper = "get"
    /\ Exists
    /\ helper' = "copy"
    /\ UNCHANGED <<podVars, callers, goss>>

\* CopyToContainer
Copy ==
    /\ helper = "copy"
    /\ pod = "Running"
    /\ helper' = "exec"
    /\ UNCHANGED <<podVars, callers, goss>>

\* A goroutine that takes the end of the command for a success.
Exec_IgnoresError ==
    /\ helper = "exec"
    /\ \/ pod = "Running" /\ goss' = "passed"
       \/ goss' = "failed"
    /\ helper' = "send passed"
    /\ UNCHANGED <<podVars, callers>>

\* Exec of goss validate: an error if goss fails or the container is gone.
Exec ==
    /\ helper = "exec"
    /\ \/ pod = "Running" /\ goss' = "passed" /\ helper' = "send passed"
       \/ goss' = "failed" /\ helper' = "send failed"
    /\ UNCHANGED <<podVars, callers>>

Helper == Ready \/ LogsEnd \/ StepFails \/ Get \/ Copy \/ Exec

-----------------------------------------------------------------------------

\* What is left of the goroutines may stay where it is: the process goes on.
Over == main = "returned" /\ UNCHANGED vars

Others == UNCHANGED <<callers, helper, goss>>

Next ==
    \/ Cluster /\ Others
    \/ Monitor /\ Others
    \/ Tick /\ Others
    \/ Caller
    \/ Helper
    \/ Over

\* The caller and the goroutines run when they can, the API server answers the
\* caller, time passes.  Nothing is expected of the pod, nor of goss.
Fairness ==
    /\ WF_vars(Monitor /\ Others)
    /\ WF_vars(Tick /\ Others)
    /\ WF_vars(Caller)
    /\ WF_vars(Ready)

Spec == Init /\ [][Next]_vars /\ Fairness

-----------------------------------------------------------------------------
(* Properties                                                              *)

\* A caller returns nil only if its pod has succeeded or its tests have passed,
\* as long as the watch lasts.  A watch that ends counts as a success too.
SuccessIsExplained ==
    Ok => \/ watch = "ended"
          \/ fate = "Succeeded"
          \/ user = "test" /\ goss = "passed"

\* The errors name what has happened: no event of an earlier state of the pod,
\* and not dib's own Delete, is ever taken for a failure.
FailureIsExplained ==
    /\ answer = "deleted" => fate = "deleted"
    /\ answer = "failed" => fate = "Failed"
    /\ answer = "timeout" => elapsed >= Hour

\* readyChan is unbuffered and read once: the goroutine never stands in a send
\* nobody will receive, which would keep it from the outcome, and the caller
\* with it.
ReadyIsReceived == monitor = "ready" => helper = "wait"

\* When the caller has returned its pod is gone, however the pod and the caller
\* ended, unless the API server refused to delete it, or Create has returned an
\* error - also when only its answer was lost, and the pod is there.
PodIsDeleted ==
    main = "returned" /\ created = "ok" /\ ~deleteFailed => ~Exists

\* The caller returns, also when the pod never starts or never ends, or goss
\* hangs: as long as the events stop at some time.
CallerReturns == <>(main = "returned")

\* pod.go:22: "When the pod reached completion, nil is sent to errChan on
\* success, or an error if the pod failed."
SuccessMeansCompletion == user = "build" /\ Ok => fate = "Succeeded"

=============================================================================
