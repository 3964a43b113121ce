----------------------------- MODULE PodMonitor ------------------------------
(***************************************************************************)
(* MonitorPod (pkg/kubernetes/pod.go): the goroutine that turns the events *)
(* of a watch on one pod into a signal on readyChan and an outcome on      *)
(* errChan, with the cluster and the watch it observes.                    *)
(*                                                                         *)
(* Both channels are unbuffered: the goroutine stands in a send until its  *)
(* receiver, a goroutine of module PodExecutors, takes the value.  Both    *)
(* are closed when it returns, and a receiver of a closed channel goes on  *)
(* with the zero value, which is nil for errChan.                          *)
(*                                                                         *)
(* The context is never cancelled: main runs the commands without one.     *)
(***************************************************************************)
EXTENDS Naturals, Sequences

CONSTANTS
    Hour,           \* the timeout, in ticks
    MaxUpdates,     \* bound: changes of the pod's status that keep its phase
    MaxEvents       \* bound: events on their way

ASSUME HourAssumption == Hour \in Nat \ {0}
ASSUME BoundsAssumption == MaxUpdates \in Nat /\ MaxEvents \in Nat \ {0}

VARIABLES
    pod,            \* the pod in the cluster
    fate,           \* history: how the pod ended, if not by dib's own Delete
    updates,        \* how many changes that keep the phase are left
    watch,          \* the watch
    events,         \* the events the watch has not delivered
    monitor,        \* where the goroutine is
    running,        \* its local running
    timer,          \* the age of the timer of the present select
    elapsed         \* history: the time since MonitorPod was called

cluster == <<pod, fate, updates>>
stream == <<watch, events>>
clock == <<timer, elapsed>>
podVars == <<cluster, stream, monitor, running, clock>>

Phases == {"Pending", "Running", "Succeeded", "Failed"}

\* "other" is an event that is not about a pod, or about a phase of no interest.
Events == Phases \cup {"Deleted", "other"}

\* What the goroutine sends on errChan: nil, or the error named.
Outcomes == {"nil", "deleted", "failed", "timeout"}

PodTypeOK ==
    /\ pod \in Phases \cup {"absent", "Deleted"}
    /\ fate \in {"none", "Succeeded", "Failed", "deleted"}
    /\ updates \in 0..MaxUpdates
    /\ watch \in {"none", "open", "ended", "stopped"}
    /\ events \in Seq(Events)
    /\ monitor \in {"none", "select", "ready"} \cup Outcomes \cup {"closing", "ended"}
    /\ running \in BOOLEAN
    /\ timer \in 0..Hour
    /\ elapsed \in 0..(Hour + 1)

PodInit ==
    /\ pod = "absent"
    /\ fate = "none"
    /\ updates = MaxUpdates
    /\ watch = "none"
    /\ events = <<>>
    /\ monitor = "none"
    /\ running = FALSE
    /\ timer = 0
    /\ elapsed = 0

-----------------------------------------------------------------------------
(* The cluster and the watch.                                              *)

\* The API server tells the watch about a change.
Notify(e) ==
    IF watch = "open" THEN events' = Append(events, e) ELSE UNCHANGED events

Exists == pod \in Phases

\* What the kubelet may report next; a short run never shows as Running.
NextPhases == CASE pod = "Pending" -> {"Running", "Succeeded", "Failed"}
                [] pod = "Running" -> {"Succeeded", "Failed"}
                [] OTHER -> {}

PodAdvances ==
    /\ Len(events) < MaxEvents
    /\ \E next \in NextPhases :
        /\ pod' = next
        /\ fate' = IF next = "Running" THEN fate ELSE next
        /\ Notify(next)
    /\ UNCHANGED <<updates, watch, monitor, running, clock>>

\* A container that waits for its image again, a condition that changes, or
\* an event about something else.
PodUpdates ==
    /\ Exists
    /\ updates > 0
    /\ Len(events) < MaxEvents
    /\ updates' = updates - 1
    /\ \E e \in {pod, "other"} : Notify(e)
    /\ UNCHANGED <<pod, fate, watch, monitor, running, clock>>

\* Somebody else deletes the pod: an eviction, a drained node, a user.
PodIsLost ==
    /\ Exists
    /\ Len(events) < MaxEvents
    /\ pod' = "Deleted"
    /\ fate' = IF fate = "none" THEN "deleted" ELSE fate
    /\ Notify("Deleted")
    /\ UNCHANGED <<updates, watch, monitor, running, clock>>

\* The API server ends the watch, or the connection breaks: what has not
\* arrived by then may be lost.
WatchEnds ==
    /\ watch = "open"
    /\ watch' = "ended"
    /\ \E k \in 0..Len(events) : events' = SubSeq(events, 1, k)
    /\ UNCHANGED <<cluster, monitor, running, clock>>

Cluster == PodAdvances \/ PodUpdates \/ PodIsLost \/ WatchEnds

-----------------------------------------------------------------------------
(* The goroutine.                                                          *)

\* Every Running event is a signal.
Reaction_Always(e) ==
    CASE e = "Deleted" -> "deleted"
      [] e = "Running" -> "ready"
      [] e = "Succeeded" -> "nil"
      [] e = "Failed" -> "failed"
      [] OTHER -> "select"

\* A phase that is neither running nor a success is a failure.
Reaction_PendingFails(e) ==
    CASE e = "Deleted" -> "deleted"
      [] e = "Running" -> IF running THEN "select" ELSE "ready"
      [] e = "Succeeded" -> "nil"
      [] e \in {"Failed", "Pending"} -> "failed"
      [] OTHER -> "select"

\* What the goroutine does next after an event.
Reaction(e) ==
    CASE e = "Deleted" -> "deleted"
      [] e = "Running" -> IF running THEN "select" ELSE "ready"
      [] e = "Succeeded" -> "nil"
      [] e = "Failed" -> "failed"
      [] OTHER -> "select"

\* One event.  A select that is entered again has a new timer.
Receive ==
    /\ monitor = "select"
    /\ events # <<>>
    /\ events' = Tail(events)
    /\ monitor' = Reaction(Head(events))
    /\ running' = (running \/ Head(events) = "Running")
    /\ timer' = 0
    /\ UNCHANGED <<cluster, watch, elapsed>>

\* ResultChan is closed: the goroutine returns and sends nothing.  The first of
\* its deferred calls closes readyChan.
WatchClosed ==
    /\ monitor = "select"
    /\ watch = "stopped" \/ (watch = "ended" /\ events = <<>>)
    /\ monitor' = "closing"
    /\ UNCHANGED <<cluster, stream, running, clock>>

\* A timeout that is only logged.
Timeout_Continues ==
    /\ monitor = "select"
    /\ timer = Hour
    /\ timer' = 0
    /\ UNCHANGED <<cluster, stream, monitor, running, elapsed>>

\* time.After
Timeout ==
    /\ monitor = "select"
    /\ timer = Hour
    /\ monitor' = "timeout"
    /\ UNCHANGED <<cluster, stream, running, clock>>

\* The second deferred call closes errChan.
CloseErrChan ==
    /\ monitor = "closing"
    /\ monitor' = "ended"
    /\ UNCHANGED <<cluster, stream, running, clock>>

Monitor == Receive \/ WatchClosed \/ Timeout \/ CloseErrChan

\* Time passes, but not past a timer that is due.
Tick ==
    /\ monitor \notin {"none", "ended"}
    /\ timer < Hour
    /\ timer' = timer + 1
    /\ elapsed' = IF elapsed <= Hour THEN elapsed + 1 ELSE elapsed
    /\ UNCHANGED <<cluster, stream, monitor, running>>

-----------------------------------------------------------------------------
(* The ends of the channels and the watch that the callers hold.           *)

\* Watch and MonitorPod: the watch is open before the pod is created.
StartMonitor ==
    /\ watch' = "open"
    /\ monitor' = "select"
    /\ UNCHANGED <<cluster, events, running, clock>>

\* <-readyChan
ReceiveReady ==
    \/ /\ monitor = "ready"
       /\ monitor' = "select"
       /\ timer' = 0
       /\ UNCHANGED <<cluster, stream, running, elapsed>>
    \/ monitor \in {"closing", "ended"} /\ UNCHANGED podVars

\* <-errChan, with the value received.
ReceiveOutcome(value) ==
    \/ /\ monitor \in Outcomes
       /\ value = monitor
       /\ monitor' = "closing"
       /\ UNCHANGED <<cluster, stream, running, clock>>
    \/ monitor = "ended" /\ value = "closed" /\ UNCHANGED podVars

\* Pods(...).Create
CreatePod ==
    /\ pod' = "Pending"
    /\ Notify("Pending")
    /\ UNCHANGED <<fate, updates, watch, monitor, running, clock>>

\* Pods(...).Delete
DeletePod ==
    /\ pod' = "Deleted"
    /\ Notify("Deleted")
    /\ UNCHANGED <<fate, updates, watch, monitor, running, clock>>

\* The deferred watcher.Stop
StopWatch ==
    /\ watch' = IF watch = "open" THEN "stopped" ELSE watch
    /\ UNCHANGED <<cluster, events, monitor, running, clock>>

=============================================================================
