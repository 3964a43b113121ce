------------------------- MODULE PodExecutorsProofs -------------------------
(***************************************************************************)
(* Proofs about PodExecutors, for every timeout and every number of events *)
(* and updates.                                                            *)
(***************************************************************************)
EXTENDS PodExecutors, TLAPS

\* Everything before the caller's own Delete.
Before == {"watch", "create", "select", "delete"}

\* The phases in which a pod has ended.
Final == {"Succeeded", "Failed"}

\* The goroutine has not sent an outcome, and may still read events.
Listening == monitor \in {"select", "ready"}

\* The order of what the caller does.
CallerInv ==
    /\ main = "watch" => watch = "none"
    /\ watch = "none" <=> monitor = "none"
    /\ watch = "none" <=> helper = "none"
    /\ watch = "none" => events = <<>>
    /\ watch = "stopped" => main = "returned"
    /\ main \in {"watch", "create"} => pod = "absent" /\ answer = "none"
    /\ main = "select" => answer = "none"
    /\ pod \in {"absent", "Pending", "Running"} => fate = "none"
    /\ pod \in Final => fate = pod
    /\ main \in {"watch", "create"} => created = "none"
    /\ main \in {"select", "delete"} => created = "ok"
    /\ created = "ok" => pod # "absent"
    /\ main \in {"stop", "returned"} /\ created = "ok" /\ ~deleteFailed => pod = "Deleted"

\* The signal on readyChan is sent once, to a receiver that waits for it.
ReadyInv ==
    /\ monitor = "ready" => running /\ helper = "wait"
    /\ running \/ helper \in {"none", "wait"} \/ monitor \in {"closing", "ended"}

\* What the goroutine sends has happened.
OutcomeInv ==
    /\ monitor = "nil" => fate = "Succeeded"
    /\ monitor = "failed" => fate = "Failed"
    /\ monitor = "deleted" => fate = "deleted" \/ main \notin Before
    /\ monitor = "timeout" => elapsed >= Hour
    /\ monitor \in {"closing", "ended"} /\ main \in {"create", "select"} => watch = "ended"
    /\ timer <= elapsed

\* What the caller has received has happened.
AnswerInv ==
    /\ answer = "nil" => fate = "Succeeded"
    /\ answer = "failed" => fate = "Failed"
    /\ answer = "deleted" => fate = "deleted"
    /\ answer = "timeout" => elapsed >= Hour
    /\ answer = "closed" => watch = "ended"
    /\ answer = "passed" => user = "test" /\ goss = "passed" /\ helper = "ended"
    /\ helper = "send passed" => user = "test" /\ goss = "passed"
    /\ helper \in {"get", "copy", "exec", "send failed"} => user = "test"

\* The events on their way are about what has happened, and an event about the
\* end of the pod comes before one about its deletion.
EventsInv ==
    /\ \A i \in 1..Len(events) : events[i] \in Final => fate = events[i]
    /\ \A i \in 1..Len(events) :
        events[i] = "Deleted" /\ Listening /\ main \in Before =>
            fate = "deleted" \/ \E j \in 1..(i - 1) : events[j] \in Final
    /\ Listening /\ watch = "open" /\ fate \in Final =>
        \E i \in 1..Len(events) : events[i] \in Final

IInv == TypeOK /\ CallerInv /\ ReadyInv /\ OutcomeInv /\ AnswerInv /\ EventsInv

-----------------------------------------------------------------------------

\* What the steps below need of the types.
LEMMA Types ==
    ASSUME TypeOK
    PROVE  /\ events \in Seq(Events)
           /\ Len(events) \in Nat
           /\ fate \in {"none", "Succeeded", "Failed", "deleted"}
           /\ timer \in Nat /\ elapsed \in Nat
           /\ pod \in Phases \cup {"absent", "Deleted"}
           /\ user \in {"build", "test"}
<1>1. PodTypeOK /\ user \in {"build", "test"}
    BY DEF TypeOK, CallersTypeOK
<1>2. events \in Seq(Events)
    BY <1>1 DEF PodTypeOK
<1>3. timer \in 0..Hour /\ elapsed \in 0..(Hour + 1)
    BY <1>1 DEF PodTypeOK
<1>4. fate \in {"none", "Succeeded", "Failed", "deleted"}
    BY <1>1 DEF PodTypeOK
<1>5. pod \in Phases \cup {"absent", "Deleted"}
    BY <1>1 DEF PodTypeOK
<1>6. QED
    BY <1>1, <1>2, <1>3, <1>4, <1>5, HourAssumption

\* The invariant holds at the start.
LEMMA IInvInit == Init => IInv
<1> SUFFICES ASSUME Init PROVE IInv
    OBVIOUS
<1> USE DEF Init, PodInit
<1>1. TypeOK
    <2>1. MaxUpdates \in 0..MaxUpdates /\ 0 \in 0..Hour /\ 0 \in 0..(Hour + 1)
        BY HourAssumption, BoundsAssumption
    <2>2. events \in Seq(Events)
        OBVIOUS
    <2>3. PodTypeOK
        BY <2>1, <2>2 DEF PodTypeOK
    <2>4. QED
        BY <2>3 DEF TypeOK, CallersTypeOK
<1>2. CallerInv /\ ReadyInv
    BY DEF CallerInv, ReadyInv, Final
<1>3. OutcomeInv /\ AnswerInv
    BY DEF OutcomeInv, AnswerInv
<1>4. EventsInv
    BY DEF EventsInv, Listening, Final
<1>5. QED
    BY <1>1, <1>2, <1>3, <1>4 DEF IInv

\* A step that tells the watch about a change of the pod keeps what is said of
\* the events.
LEMMA NotifyKeeps ==
    ASSUME IInv, NEW e \in Events, Notify(e),
           e \in Final => fate' = e,
           fate \in Final \cup {"deleted"} => fate' = fate,
           fate' \in Final => fate' \in {fate, e},
           e = "Deleted" /\ main' \in Before => fate' \in Final \cup {"deleted"},
           main' \in Before => main \in Before,
           UNCHANGED <<watch, monitor>>
    PROVE  EventsInv'
<1>1. events \in Seq(Events) /\ Len(events) \in Nat
    BY Types DEF IInv
<1>2. "deleted" \notin Final /\ "Deleted" \notin Final
    BY DEF Final
<1>3. \A i \in 1..Len(events) : events[i] \in Final => fate' = events[i]
    BY DEF IInv, EventsInv
<1>4. CASE watch = "open"
    <2>1. /\ events' = Append(events, e)
          /\ Len(events') = Len(events) + 1
          /\ \A i \in 1..Len(events) : events'[i] = events[i]
          /\ events'[Len(events) + 1] = e
        BY <1>1, <1>4 DEF Notify
    <2>2. \A i \in 1..Len(events') : events'[i] \in Final => fate' = events'[i]
        BY <1>1, <1>3, <2>1
    <2>3. ASSUME NEW i \in 1..Len(events'), events'[i] = "Deleted", Listening, main' \in Before
          PROVE  fate' = "deleted" \/ \E j \in 1..(i - 1) : events'[j] \in Final
        <3>1. CASE i = Len(events) + 1
            <4>1. e = "Deleted" /\ (fate \in Final => \E j \in 1..Len(events) : events[j] \in Final)
                BY <1>4, <2>1, <2>3, <3>1 DEF IInv, EventsInv
            <4>2. fate \in Final \/ fate' = "deleted"
                BY <1>2, <2>3, <4>1
            <4>3. QED
                BY <1>1, <2>1, <3>1, <4>1, <4>2
        <3>2. CASE i # Len(events) + 1
            <4>1. i \in 1..Len(events) /\ events[i] = "Deleted"
                BY <1>1, <2>1, <2>3, <3>2
            <4>2. fate = "deleted" \/ \E j \in 1..(i - 1) : events[j] \in Final
                BY <2>3, <4>1 DEF IInv, EventsInv
            <4>3. QED
                BY <1>1, <2>1, <4>1, <4>2
        <3>3. QED
            BY <3>1, <3>2
    <2>4. Listening /\ fate' \in Final => \E i \in 1..Len(events') : events'[i] \in Final
        <3>1. CASE e \in Final
            BY <1>1, <2>1, <3>1
        <3>2. CASE e \notin Final
            BY <1>1, <1>4, <2>1, <3>2 DEF IInv, EventsInv
        <3>3. QED
            BY <3>1, <3>2
    <2>5. QED
        BY <2>2, <2>3, <2>4 DEF EventsInv, Listening
<1>5. CASE watch # "open"
    <2>1. events' = events
        BY <1>5 DEF Notify
    <2>2. QED
        BY <1>3, <1>5, <2>1 DEF IInv, EventsInv, Listening
<1>6. QED
    BY <1>4, <1>5

\* A step that changes neither the events nor the pod, and leaves the goroutine
\* listening only if it was, keeps what is said of the events.
LEMMA SilentKeeps ==
    ASSUME IInv, UNCHANGED <<events, fate>>,
           Listening' => Listening \/ events = <<>>,
           main' \in Before => main \in Before,
           Listening' /\ watch' = "open" => (Listening /\ watch = "open") \/ fate \notin Final
    PROVE  EventsInv'
<1>1. events \in Seq(Events) /\ Len(events) \in Nat
    BY Types DEF IInv
<1>2. events = <<>> => Len(events) = 0
    OBVIOUS
<1>3. \A i \in 1..Len(events') : events'[i] \in Final => fate' = events'[i]
    BY DEF IInv, EventsInv
<1>4. \A i \in 1..Len(events') :
        events'[i] = "Deleted" /\ Listening' /\ main' \in Before =>
            fate' = "deleted" \/ \E j \in 1..(i - 1) : events'[j] \in Final
    BY <1>1, <1>2 DEF IInv, EventsInv
<1>5. Listening' /\ watch' = "open" /\ fate' \in Final =>
        \E i \in 1..Len(events') : events'[i] \in Final
    BY <1>1, <1>2 DEF IInv, EventsInv, Final, CallerInv
<1>6. QED
    BY <1>3, <1>4, <1>5 DEF EventsInv

\* What a step may do to the variables of module PodMonitor.
PodStep ==
    \/ Cluster
    \/ Monitor
    \/ Tick
    \/ StartMonitor
    \/ ReceiveReady
    \/ \E value \in Outcomes \cup {"closed"} : ReceiveOutcome(value)
    \/ CreatePod
    \/ DeletePod
    \/ StopWatch
    \/ UNCHANGED podVars

\* Such a step keeps their types.
LEMMA PodTypes ==
    ASSUME PodTypeOK, PodStep
    PROVE  PodTypeOK'
<1> DEFINE Queue == events' \in Seq(Events)
           Clock == timer' \in 0..Hour /\ elapsed' \in 0..(Hour + 1)
           Pod == /\ pod' \in Phases \cup {"absent", "Deleted"}
                  /\ fate' \in {"none", "Succeeded", "Failed", "deleted"}
                  /\ updates' \in 0..MaxUpdates
           Goroutine == /\ watch' \in {"none", "open", "ended", "stopped"}
                        /\ monitor' \in {"none", "select", "ready"} \cup Outcomes \cup {"closing", "ended"}
                        /\ running' \in BOOLEAN
<1>1. events \in Seq(Events)
    BY DEF PodTypeOK
<1>2. timer \in 0..Hour /\ elapsed \in 0..(Hour + 1)
    BY DEF PodTypeOK
<1>3. ASSUME NEW e \in Events, Notify(e) PROVE Queue
    BY <1>1, <1>3 DEF Notify
<1>4. UNCHANGED events => Queue
    BY <1>1
<1>5. UNCHANGED clock => Clock
    BY <1>2 DEF clock
<1>6. UNCHANGED cluster => Pod
    BY DEF PodTypeOK, cluster
<1>7. UNCHANGED <<watch, monitor, running>> => Goroutine
    BY DEF PodTypeOK
<1>8. Queue /\ Clock /\ Pod /\ Goroutine => PodTypeOK'
    BY DEF PodTypeOK
<1>9. Hour \in Nat /\ 0 \in 0..Hour
    BY HourAssumption
<1> HIDE DEF Queue, Clock, Pod, Goroutine
<1>10. CASE PodAdvances
    <2>1. Queue
        BY <1>3, <1>10 DEF PodAdvances, NextPhases, Events, Phases
    <2>2. Pod
        BY <1>10 DEF PodAdvances, NextPhases, Phases, PodTypeOK, Pod
    <2>3. QED
        BY <1>5, <1>7, <1>8, <1>10, <2>1, <2>2 DEF PodAdvances
<1>11. CASE PodUpdates
    <2>1. Queue
        BY <1>3, <1>11 DEF PodUpdates, Exists, Events
    <2>2. Pod
        BY <1>11, BoundsAssumption DEF PodUpdates, PodTypeOK, Pod
    <2>3. QED
        BY <1>5, <1>7, <1>8, <1>11, <2>1, <2>2 DEF PodUpdates
<1>12. CASE PodIsLost
    <2>1. Queue
        BY <1>3, <1>12 DEF PodIsLost, Events
    <2>2. Pod
        BY <1>12 DEF PodIsLost, PodTypeOK, Pod
    <2>3. QED
        BY <1>5, <1>7, <1>8, <1>12, <2>1, <2>2 DEF PodIsLost
<1>13. CASE WatchEnds
    <2>1. PICK k \in 0..Len(events) : events' = SubSeq(events, 1, k)
        BY <1>13 DEF WatchEnds
    <2>2. Queue
        BY <1>1, <2>1 DEF Queue
    <2>3. Goroutine
        BY <1>13 DEF WatchEnds, PodTypeOK, Goroutine
    <2>4. QED
        BY <1>5, <1>6, <1>8, <1>13, <2>2, <2>3 DEF WatchEnds
<1>14. CASE Receive
    <2>1. Queue
        BY <1>1, <1>14 DEF Receive, Queue
    <2>2. Reaction(Head(events)) \in {"select", "ready"} \cup Outcomes
        BY DEF Reaction, Outcomes
    <2>3. Goroutine
        BY <1>14, <2>2 DEF Receive, PodTypeOK, Goroutine
    <2>4. Clock
        BY <1>2, <1>9, <1>14 DEF Receive, Clock
    <2>5. QED
        BY <1>6, <1>8, <1>14, <2>1, <2>3, <2>4 DEF Receive
<1>15. CASE WatchClosed \/ Timeout \/ CloseErrChan \/ StartMonitor
    <2>1. Goroutine
        BY <1>15 DEF WatchClosed, Timeout, CloseErrChan, StartMonitor, stream, PodTypeOK, Goroutine, Outcomes
    <2>2. QED
        BY <1>4, <1>5, <1>6, <1>8, <1>15, <2>1
           DEF WatchClosed, Timeout, CloseErrChan, StartMonitor, stream
<1>16. CASE Tick
    <2>1. Clock
        BY <1>2, <1>9, <1>16 DEF Tick, Clock
    <2>2. QED
        BY <1>4, <1>6, <1>7, <1>8, <1>16, <2>1 DEF Tick, stream
<1>17. CASE UNCHANGED podVars
    BY <1>4, <1>5, <1>6, <1>7, <1>8, <1>17 DEF podVars, stream
<1>18. CASE ReceiveReady
    <2>1. SUFFICES ASSUME monitor = "ready", monitor' = "select", timer' = 0,
                          UNCHANGED <<cluster, stream, running, elapsed>>
                   PROVE  PodTypeOK'
        BY <1>17, <1>18 DEF ReceiveReady
    <2>2. Goroutine
        BY <2>1 DEF PodTypeOK, Goroutine, stream
    <2>3. Clock
        BY <1>2, <1>9, <2>1 DEF Clock
    <2>4. QED
        BY <1>4, <1>6, <1>8, <2>1, <2>2, <2>3 DEF stream
<1>19. ASSUME NEW value, ReceiveOutcome(value) PROVE PodTypeOK'
    <2>1. SUFFICES ASSUME monitor' = "closing", UNCHANGED <<cluster, stream, running, clock>>
                   PROVE  PodTypeOK'
        BY <1>17, <1>19 DEF ReceiveOutcome
    <2>2. Goroutine
        BY <2>1 DEF PodTypeOK, Goroutine, stream
    <2>3. QED
        BY <1>4, <1>5, <1>6, <1>8, <2>1, <2>2 DEF stream
<1>20. CASE CreatePod \/ DeletePod
    <2>1. Queue
        BY <1>3, <1>20 DEF CreatePod, DeletePod, Events, Phases
    <2>2. Pod
        BY <1>20 DEF CreatePod, DeletePod, PodTypeOK, Pod, Phases
    <2>3. QED
        BY <1>5, <1>7, <1>8, <1>20, <2>1, <2>2 DEF CreatePod, DeletePod
<1>21. CASE StopWatch
    <2>1. Goroutine
        BY <1>21 DEF StopWatch, PodTypeOK, Goroutine
    <2>2. QED
        BY <1>4, <1>5, <1>6, <1>8, <1>21, <2>1 DEF StopWatch
<1>22. QED
    BY <1>10, <1>11, <1>12, <1>13, <1>14, <1>15, <1>16, <1>17, <1>18, <1>19, <1>20, <1>21
       DEF PodStep, Cluster, Monitor

\* The types hold throughout.
LEMMA TypesKept ==
    ASSUME TypeOK, [Next]_vars
    PROVE  TypeOK'
<1>1. PodTypeOK /\ CallersTypeOK
    BY DEF TypeOK
<1>2. PodStep
    BY DEF Next, PodStep, Others, Caller, Watch, Create, FromMonitor, FromHelper, Delete, Stop,
           Helper, Ready, LogsEnd, StepFails, Get, Copy, Exec, Over, vars
<1>3. PodTypeOK'
    BY <1>1, <1>2, PodTypes
<1>4. CASE Others
    <2>1. UNCHANGED <<user, main, answer, created, deleteFailed, helper, goss>>
        BY <1>4 DEF Others, callers
    <2>2. CallersTypeOK'
        <3> USE <1>1, <2>1 DEF CallersTypeOK
        <3>1. /\ user' \in {"build", "test"}
              /\ main' \in {"watch", "create", "select", "delete", "stop", "returned"}
              /\ deleteFailed' \in BOOLEAN
            OBVIOUS
        <3>2. /\ created' \in {"none", "ok", "error"}
              /\ goss' \in {"none", "passed", "failed"}
            OBVIOUS
        <3>3. answer' \in {"none", "setup", "closed", "passed", "not passed"} \cup Outcomes
            OBVIOUS
        <3>4. helper' \in {"none", "wait", "logs", "get", "copy", "exec"} \cup Sends \cup {"ended"}
            OBVIOUS
        <3>5. QED
            BY <3>1, <3>2, <3>3, <3>4
    <2>3. QED
        BY <1>3, <2>2 DEF TypeOK
<1>5. CASE Caller
    BY <1>1, <1>3, <1>5
       DEF Caller, Watch, Create, FromMonitor, FromHelper, Delete, Stop, TypeOK, CallersTypeOK, Sends
<1>6. CASE Helper
    BY <1>1, <1>3, <1>6
       DEF Helper, Ready, LogsEnd, StepFails, Get, Copy, Exec, callers, TypeOK, CallersTypeOK, Sends
<1>7. CASE UNCHANGED vars
    BY <1>4, <1>7 DEF vars, Others
<1>8. QED
    BY <1>4, <1>5, <1>6, <1>7 DEF Next, Over

\* What the cluster does keeps the invariant.
LEMMA ClusterKeeps ==
    ASSUME IInv, Cluster, Others
    PROVE  CallerInv' /\ ReadyInv' /\ OutcomeInv' /\ AnswerInv' /\ EventsInv'
<1>0. UNCHANGED <<user, main, answer, created, deleteFailed, helper, goss>>
    BY DEF Others, callers
<1> USE <1>0 DEF cluster, stream, clock
<1>1. CASE PodAdvances
    <2> USE <1>1 DEF IInv, PodAdvances, Notify, NextPhases
    <2>1. CallerInv'
        BY DEF CallerInv, Final
    <2>2. ReadyInv'
        BY DEF CallerInv, ReadyInv
    <2>3. OutcomeInv'
        BY DEF CallerInv, OutcomeInv, Before
    <2>4. AnswerInv'
        BY DEF CallerInv, AnswerInv, OutcomeInv
    <2>5. EventsInv'
        <3>1. PICK next \in NextPhases : /\ pod' = next /\ Notify(next)
                                         /\ fate' = IF next = "Running" THEN fate ELSE next
            OBVIOUS
        <3>2. next \in {"Running", "Succeeded", "Failed"} /\ fate = "none"
            BY DEF CallerInv
        <3>3. QED
            BY <3>1, <3>2, NotifyKeeps DEF Events, Phases, Final
    <2>6. QED
        BY <2>1, <2>2, <2>3, <2>4, <2>5
<1>2. CASE PodUpdates
    <2> USE <1>2 DEF IInv, PodUpdates, Notify, Exists
    <2>1. CallerInv'
        BY DEF CallerInv, Phases
    <2>2. ReadyInv'
        BY DEF CallerInv, ReadyInv
    <2>3. OutcomeInv'
        BY DEF CallerInv, OutcomeInv, Before
    <2>4. AnswerInv'
        BY DEF CallerInv, AnswerInv, OutcomeInv
    <2>5. EventsInv'
        <3>1. PICK e \in {pod, "other"} : Notify(e)
            OBVIOUS
        <3>2. e \in Events /\ e # "Deleted" /\ (e \in Final => fate = e)
            BY DEF CallerInv, Events, Phases, Final
        <3>3. QED
            BY <3>1, <3>2, NotifyKeeps DEF Final
    <2>6. QED
        BY <2>1, <2>2, <2>3, <2>4, <2>5
<1>3. CASE PodIsLost
    <2> USE <1>3 DEF IInv, PodIsLost, Notify, Exists
    <2>1. CallerInv'
        BY DEF CallerInv, Phases, Final
    <2>2. ReadyInv'
        BY DEF CallerInv, ReadyInv
    <2>3. OutcomeInv'
        BY DEF CallerInv, OutcomeInv, Before
    <2>4. AnswerInv'
        BY DEF CallerInv, AnswerInv, OutcomeInv
    <2>5. EventsInv'
        <3>1. "Deleted" \in Events \ Final
            BY DEF Events, Phases, Final
        <3>2. fate' \in Final \cup {"deleted"} /\ (fate \in Final \cup {"deleted"} => fate' = fate)
            BY Types DEF Final
        <3>3. fate' \in Final => fate' = fate
            BY DEF Final
        <3>4. QED
            BY <3>1, <3>2, <3>3, NotifyKeeps
    <2>6. QED
        BY <2>1, <2>2, <2>3, <2>4, <2>5
<1>4. CASE WatchEnds
    <2> USE <1>4 DEF IInv, WatchEnds
    <2>1. CallerInv'
        BY DEF CallerInv
    <2>2. ReadyInv'
        BY DEF CallerInv, ReadyInv
    <2>3. OutcomeInv'
        BY DEF CallerInv, OutcomeInv, Before
    <2>4. AnswerInv'
        BY DEF CallerInv, AnswerInv, OutcomeInv
    <2>5. EventsInv'
        BY DEF EventsInv, Listening
    <2>6. QED
        BY <2>1, <2>2, <2>3, <2>4, <2>5
<1>5. QED
    BY <1>1, <1>2, <1>3, <1>4 DEF Cluster

\* What the goroutine does keeps the invariant.
LEMMA MonitorKeeps ==
    ASSUME IInv, Monitor, Others
    PROVE  CallerInv' /\ ReadyInv' /\ OutcomeInv' /\ AnswerInv' /\ EventsInv'
<1>0. UNCHANGED <<user, main, answer, created, deleteFailed, helper, goss>>
    BY DEF Others, callers
<1> USE <1>0 DEF cluster, stream, clock
<1>1. CASE Receive
    <2> USE <1>1 DEF IInv, Receive, Reaction
    <2>1. CallerInv'
        BY DEF CallerInv
    <2>2. ReadyInv'
        BY DEF CallerInv, ReadyInv
    <2>3. OutcomeInv'
        <3>1. events \in Seq(Events) /\ 1 \in 1..Len(events) /\ Head(events) = events[1]
            BY Types
        <3>2. /\ events[1] \in Final => fate = events[1]
              /\ events[1] = "Deleted" /\ main \in Before => fate = "deleted"
            BY <3>1 DEF EventsInv, Listening
        <3>3. elapsed \in Nat
            BY Types
        <3>4. QED
            BY <3>1, <3>2, <3>3 DEF OutcomeInv, Final
    <2>4. AnswerInv'
        BY DEF CallerInv, AnswerInv, OutcomeInv
    <2>5. EventsInv'
        <3>1. /\ events \in Seq(Events) /\ Len(events) \in Nat \ {0}
              /\ Len(events') = Len(events) - 1
              /\ \A i \in 1..Len(events') : events'[i] = events[i + 1]
            BY Types
        <3>2. Listening' => events[1] \notin Final /\ Listening
            BY <3>1 DEF Listening, Final
        <3>3. \A i \in 1..Len(events') : events'[i] \in Final => fate' = events'[i]
            BY <3>1 DEF EventsInv
        <3>4. ASSUME NEW i \in 1..Len(events'), events'[i] = "Deleted", Listening', main' \in Before
              PROVE  fate' = "deleted" \/ \E j \in 1..(i - 1) : events'[j] \in Final
            <4>1. i + 1 \in 1..Len(events) /\ events[i + 1] = "Deleted"
                BY <3>1, <3>4
            <4>2. fate = "deleted" \/ \E j \in 1..i : events[j] \in Final
                BY <3>1, <3>2, <3>4, <4>1 DEF EventsInv
            <4>3. ASSUME NEW j \in 1..i, events[j] \in Final
                  PROVE  j - 1 \in 1..(i - 1) /\ events'[j - 1] \in Final
                BY <3>1, <3>2, <3>4, <4>3
            <4>4. QED
                BY <4>2, <4>3
        <3>5. ASSUME Listening', watch' = "open", fate' \in Final
              PROVE  \E i \in 1..Len(events') : events'[i] \in Final
            <4>1. PICK i \in 1..Len(events) : events[i] \in Final
                BY <3>2, <3>5 DEF EventsInv
            <4>2. i - 1 \in 1..Len(events') /\ events'[i - 1] \in Final
                BY <3>1, <3>2, <3>5, <4>1
            <4>3. QED
                BY <4>2
        <3>6. QED
            BY <3>3, <3>4, <3>5 DEF EventsInv
    <2>6. QED
        BY <2>1, <2>2, <2>3, <2>4, <2>5
<1>2. CASE WatchClosed
    <2> USE <1>2 DEF IInv, WatchClosed
    <2>1. CallerInv'
        BY DEF CallerInv
    <2>2. ReadyInv'
        BY DEF CallerInv, ReadyInv
    <2>3. OutcomeInv'
        BY DEF CallerInv, OutcomeInv, Before
    <2>4. AnswerInv'
        BY DEF CallerInv, AnswerInv, OutcomeInv
    <2>5. EventsInv'
        BY SilentKeeps DEF Listening, Before, Final, CallerInv
    <2>6. QED
        BY <2>1, <2>2, <2>3, <2>4, <2>5
<1>3. CASE Timeout
    <2> USE <1>3 DEF IInv, Timeout
    <2>1. CallerInv'
        BY DEF CallerInv
    <2>2. ReadyInv'
        BY DEF CallerInv, ReadyInv
    <2>3. OutcomeInv'
        BY DEF CallerInv, OutcomeInv, Before
    <2>4. AnswerInv'
        BY DEF CallerInv, AnswerInv, OutcomeInv
    <2>5. EventsInv'
        BY SilentKeeps DEF Listening, Before, Final, CallerInv
    <2>6. QED
        BY <2>1, <2>2, <2>3, <2>4, <2>5
<1>4. CASE CloseErrChan
    <2> USE <1>4 DEF IInv, CloseErrChan
    <2>1. CallerInv'
        BY DEF CallerInv
    <2>2. ReadyInv'
        BY DEF CallerInv, ReadyInv
    <2>3. OutcomeInv'
        BY DEF CallerInv, OutcomeInv, Before
    <2>4. AnswerInv'
        BY DEF CallerInv, AnswerInv, OutcomeInv
    <2>5. EventsInv'
        BY SilentKeeps DEF Listening, Before, Final, CallerInv
    <2>6. QED
        BY <2>1, <2>2, <2>3, <2>4, <2>5
<1>5. QED
    BY <1>1, <1>2, <1>3, <1>4 DEF Monitor

\* What the caller does keeps the invariant.
LEMMA CallerKeeps ==
    ASSUME IInv, Caller
    PROVE  CallerInv' /\ ReadyInv' /\ OutcomeInv' /\ AnswerInv' /\ EventsInv'
<1> USE DEF podVars, cluster, stream, clock, callers
<1>1. CASE Watch
    <2> USE <1>1 DEF IInv, Watch, StartMonitor
    <2>1. CallerInv'
        BY DEF CallerInv
    <2>2. ReadyInv'
        BY DEF CallerInv, ReadyInv
    <2>3. OutcomeInv'
        BY DEF CallerInv, OutcomeInv, Before
    <2>4. AnswerInv'
        BY DEF CallerInv, AnswerInv, OutcomeInv
    <2>5. EventsInv'
        BY SilentKeeps DEF Listening, Before, Final, CallerInv
    <2>6. QED
        BY <2>1, <2>2, <2>3, <2>4, <2>5
<1>2. CASE Create
    <2> USE <1>2 DEF IInv, Create, CreatePod, Notify
    <2>1. CallerInv'
        BY DEF CallerInv, Final
    <2>2. ReadyInv'
        BY DEF CallerInv, ReadyInv
    <2>3. OutcomeInv'
        BY DEF CallerInv, OutcomeInv, Before
    <2>4. AnswerInv'
        BY DEF CallerInv, AnswerInv, OutcomeInv
    <2>5. EventsInv'
        <3>1. CASE CreatePod
            BY <3>1, NotifyKeeps DEF Events, Phases, Final, Before, CallerInv
        <3>2. CASE UNCHANGED podVars
            BY <3>2, SilentKeeps DEF Listening, Before
        <3>3. QED
            BY <3>1, <3>2
    <2>6. QED
        BY <2>1, <2>2, <2>3, <2>4, <2>5
<1>3. CASE FromMonitor
    <2> USE <1>3 DEF IInv, FromMonitor, ReceiveOutcome
    <2>1. CallerInv'
        BY DEF CallerInv, Outcomes
    <2>2. ReadyInv'
        BY DEF CallerInv, ReadyInv
    <2>3. OutcomeInv'
        BY DEF CallerInv, OutcomeInv, Before
    <2>4. AnswerInv'
        BY DEF CallerInv, AnswerInv, OutcomeInv, Outcomes, Before
    <2>5. EventsInv'
        BY SilentKeeps DEF Listening, Before, Final, CallerInv
    <2>6. QED
        BY <2>1, <2>2, <2>3, <2>4, <2>5
<1>4. CASE FromHelper
    <2> USE <1>4 DEF IInv, FromHelper, Sends
    <2>1. CallerInv'
        BY DEF CallerInv
    <2>2. ReadyInv'
        BY DEF CallerInv, ReadyInv
    <2>3. OutcomeInv'
        BY DEF CallerInv, OutcomeInv, Before
    <2>4. AnswerInv'
        BY DEF CallerInv, AnswerInv, OutcomeInv
    <2>5. EventsInv'
        BY SilentKeeps DEF Listening, Before, Final, CallerInv
    <2>6. QED
        BY <2>1, <2>2, <2>3, <2>4, <2>5
<1>5. CASE Delete
    <2> USE <1>5 DEF IInv, Delete, DeletePod, Notify, Exists
    <2>1. CallerInv'
        BY Types DEF CallerInv, Final
    <2>2. ReadyInv'
        BY DEF CallerInv, ReadyInv
    <2>3. OutcomeInv'
        BY DEF CallerInv, OutcomeInv, Before
    <2>4. AnswerInv'
        BY DEF CallerInv, AnswerInv, OutcomeInv
    <2>5. EventsInv'
        <3>1. CASE DeletePod
            BY <3>1, NotifyKeeps DEF Events, Final, Before
        <3>2. CASE UNCHANGED podVars
            BY <3>2, SilentKeeps DEF Listening, Before
        <3>3. QED
            BY <3>1, <3>2
    <2>6. QED
        BY <2>1, <2>2, <2>3, <2>4, <2>5
<1>6. CASE Stop
    <2> USE <1>6 DEF IInv, Stop, StopWatch
    <2>1. CallerInv'
        BY DEF CallerInv
    <2>2. ReadyInv'
        BY DEF CallerInv, ReadyInv
    <2>3. OutcomeInv'
        BY DEF CallerInv, OutcomeInv, Before
    <2>4. AnswerInv'
        BY DEF CallerInv, AnswerInv, OutcomeInv
    <2>5. EventsInv'
        BY SilentKeeps DEF Listening, Before, Final, CallerInv
    <2>6. QED
        BY <2>1, <2>2, <2>3, <2>4, <2>5
<1>7. QED
    BY <1>1, <1>2, <1>3, <1>4, <1>5, <1>6 DEF Caller

\* What the goroutine that waits for the pod does keeps the invariant.
LEMMA HelperKeeps ==
    ASSUME IInv, Helper
    PROVE  CallerInv' /\ ReadyInv' /\ OutcomeInv' /\ AnswerInv' /\ EventsInv'
<1> USE DEF podVars, cluster, stream, clock, callers
<1>1. CASE Ready
    <2> USE <1>1 DEF IInv, Ready, ReceiveReady
    <2>1. CallerInv'
        BY DEF CallerInv
    <2>2. ReadyInv'
        BY DEF CallerInv, ReadyInv
    <2>3. OutcomeInv'
        BY Types DEF OutcomeInv, ReadyInv
    <2>4. AnswerInv'
        BY Types DEF AnswerInv
    <2>5. EventsInv'
        BY SilentKeeps DEF Listening, Before, Final, CallerInv
    <2>6. QED
        BY <2>1, <2>2, <2>3, <2>4, <2>5
<1>2. CASE LogsEnd
    <2> USE <1>2 DEF IInv, LogsEnd
    <2>1. CallerInv'
        BY DEF CallerInv
    <2>2. ReadyInv'
        BY DEF CallerInv, ReadyInv
    <2>3. OutcomeInv'
        BY DEF CallerInv, OutcomeInv, Before
    <2>4. AnswerInv'
        BY DEF CallerInv, AnswerInv, OutcomeInv
    <2>5. EventsInv'
        BY SilentKeeps DEF Listening, Before, Final, CallerInv
    <2>6. QED
        BY <2>1, <2>2, <2>3, <2>4, <2>5
<1>3. CASE StepFails
    <2> USE <1>3 DEF IInv, StepFails
    <2>1. CallerInv'
        BY DEF CallerInv
    <2>2. ReadyInv'
        BY DEF CallerInv, ReadyInv
    <2>3. OutcomeInv'
        BY DEF CallerInv, OutcomeInv, Before
    <2>4. AnswerInv'
        BY DEF CallerInv, AnswerInv, OutcomeInv
    <2>5. EventsInv'
        BY SilentKeeps DEF Listening, Before, Final, CallerInv
    <2>6. QED
        BY <2>1, <2>2, <2>3, <2>4, <2>5
<1>4. CASE Get
    <2> USE <1>4 DEF IInv, Get
    <2>1. CallerInv'
        BY DEF CallerInv
    <2>2. ReadyInv'
        BY DEF CallerInv, ReadyInv
    <2>3. OutcomeInv'
        BY DEF CallerInv, OutcomeInv, Before
    <2>4. AnswerInv'
        BY DEF CallerInv, AnswerInv, OutcomeInv
    <2>5. EventsInv'
        BY SilentKeeps DEF Listening, Before, Final, CallerInv
    <2>6. QED
        BY <2>1, <2>2, <2>3, <2>4, <2>5
<1>5. CASE Copy
    <2> USE <1>5 DEF IInv, Copy
    <2>1. CallerInv'
        BY DEF CallerInv
    <2>2. ReadyInv'
        BY DEF CallerInv, ReadyInv
    <2>3. OutcomeInv'
        BY DEF CallerInv, OutcomeInv, Before
    <2>4. AnswerInv'
        BY DEF CallerInv, AnswerInv, OutcomeInv
    <2>5. EventsInv'
        BY SilentKeeps DEF Listening, Before, Final, CallerInv
    <2>6. QED
        BY <2>1, <2>2, <2>3, <2>4, <2>5
<1>6. CASE Exec
    <2> USE <1>6 DEF IInv, Exec
    <2>1. CallerInv'
        BY DEF CallerInv
    <2>2. ReadyInv'
        BY DEF CallerInv, ReadyInv
    <2>3. OutcomeInv'
        BY DEF CallerInv, OutcomeInv, Before
    <2>4. AnswerInv'
        BY DEF CallerInv, AnswerInv, OutcomeInv
    <2>5. EventsInv'
        BY SilentKeeps DEF Listening, Before, Final, CallerInv
    <2>6. QED
        BY <2>1, <2>2, <2>3, <2>4, <2>5
<1>7. QED
    BY <1>1, <1>2, <1>3, <1>4, <1>5, <1>6 DEF Helper

\* The passing of time keeps the invariant.
LEMMA TickKeeps ==
    ASSUME IInv, Tick, Others
    PROVE  CallerInv' /\ ReadyInv' /\ OutcomeInv' /\ AnswerInv' /\ EventsInv'
<1>0. UNCHANGED <<user, main, answer, created, deleteFailed, helper, goss>>
    BY DEF Others, callers
<1>1. UNCHANGED <<pod, fate, updates, watch, events, monitor, running>>
    BY DEF Tick, cluster, stream
<1>2. /\ timer \in Nat /\ elapsed \in Nat /\ Hour \in Nat
      /\ timer < Hour /\ timer' = timer + 1
      /\ elapsed' = IF elapsed <= Hour THEN elapsed + 1 ELSE elapsed
    BY Types, HourAssumption DEF IInv, Tick
<1>3. elapsed >= Hour => elapsed' >= Hour
    BY <1>2
<1>4. CallerInv' /\ ReadyInv'
    BY <1>0, <1>1 DEF IInv, CallerInv, ReadyInv
<1>5. timer' <= elapsed'
    BY <1>2 DEF IInv, OutcomeInv
<1>6. OutcomeInv'
    BY <1>0, <1>1, <1>3, <1>5 DEF IInv, OutcomeInv
<1>7. AnswerInv'
    BY <1>0, <1>1, <1>3 DEF IInv, AnswerInv
<1>8. EventsInv'
    BY <1>0, <1>1, SilentKeeps DEF Listening
<1>9. QED
    BY <1>4, <1>6, <1>7, <1>8

\* A step that changes nothing keeps the invariant.
LEMMA StutterKeeps ==
    ASSUME IInv, UNCHANGED vars
    PROVE  CallerInv' /\ ReadyInv' /\ OutcomeInv' /\ AnswerInv' /\ EventsInv'
<1>1. UNCHANGED <<pod, fate, watch, events, monitor, running, timer, elapsed>>
    BY DEF vars, podVars, cluster, stream, clock
<1>2. UNCHANGED <<user, main, answer, created, deleteFailed, helper, goss>>
    BY DEF vars, callers
<1>3. CallerInv' /\ ReadyInv'
    BY <1>1, <1>2 DEF IInv, CallerInv, ReadyInv
<1>4. OutcomeInv'
    BY <1>1, <1>2 DEF IInv, OutcomeInv
<1>5. AnswerInv'
    BY <1>1, <1>2 DEF IInv, AnswerInv
<1>6. EventsInv'
    BY <1>1, <1>2, SilentKeeps DEF Listening
<1>7. QED
    BY <1>3, <1>4, <1>5, <1>6

\* The invariant holds throughout.
THEOREM IInvInvariant == Spec => []IInv
<1>1. ASSUME IInv, [Next]_vars PROVE IInv'
    <2>1. TypeOK'
        BY <1>1, TypesKept DEF IInv
    <2>2. CallerInv' /\ ReadyInv' /\ OutcomeInv' /\ AnswerInv' /\ EventsInv'
        BY <1>1, ClusterKeeps, MonitorKeeps, TickKeeps, CallerKeeps, HelperKeeps, StutterKeeps DEF Next, Over
    <2>3. QED
        BY <2>1, <2>2 DEF IInv
<1>2. QED
    BY IInvInit, <1>1, PTL DEF Spec

\* The variables keep their types.
THEOREM TypeCorrect == Spec => []TypeOK
<1>1. IInv => TypeOK
    BY DEF IInv
<1>2. QED
    BY <1>1, IInvInvariant, PTL

\* pkg/exec/kubernetes.go:34 and pkg/goss/executor_kubernetes.go:39: nil is
\* returned for a pod that succeeded, for tests that passed, or when the watch
\* has ended, and for no other reason.
THEOREM SuccessExplained == Spec => []SuccessIsExplained
<1>1. IInv => SuccessIsExplained
    BY DEF IInv, AnswerInv, SuccessIsExplained, Ok
<1>2. QED
    BY <1>1, IInvInvariant, PTL

\* pkg/kubernetes/pod.go:52-89: the errors are about what has happened to the
\* pod before the caller deleted it.
THEOREM FailureExplained == Spec => []FailureIsExplained
<1>1. IInv => FailureIsExplained
    BY DEF IInv, AnswerInv, FailureIsExplained
<1>2. QED
    BY <1>1, IInvInvariant, PTL

\* pkg/kubernetes/pod.go:70: the send on readyChan has a receiver.
THEOREM ReadyReceived == Spec => []ReadyIsReceived
<1>1. IInv => ReadyIsReceived
    BY DEF IInv, ReadyInv, ReadyIsReceived
<1>2. QED
    BY <1>1, IInvInvariant, PTL

\* The deferred Delete of both callers runs on every way out.
THEOREM PodDeleted == Spec => []PodIsDeleted
<1>1. IInv => PodIsDeleted
    BY DEF IInv, CallerInv, PodIsDeleted, Exists, Phases
<1>2. QED
    BY <1>1, IInvInvariant, PTL

=============================================================================
