------------------------------ MODULE DibRuns -------------------------------
(***************************************************************************)
(* Several runs of `dib build` (cmd/build.go, doBuild) on the same sources *)
(* and the same registry: a job that crashes or fails and is started       *)
(* again, a job for a branch next to a job for another branch that has not *)
(* changed these images.  The hashes are the same in all of them, and so   *)
(* are the tags; what differs is which run's build a tag refers to.        *)
(*                                                                         *)
(* Inside a run the walks are those of Plan, RebuildGraph and Retag with   *)
(* one step per image for each thing they do to the registry.              *)
(***************************************************************************)
EXTENDS ImageGraph

CONSTANTS
    Runs,       \* the runs; run r's build of image n is called r
    None,       \* the tag is not in the registry
    Exclusive   \* whether a run starts only when no other is on

ASSUME RunsAssumption == None \notin Runs
ASSUME ExclusiveAssumption == Exclusive \in BOOLEAN

VARIABLES
    phase,          \* phase[r]: where doBuild is
    force, release, noRetag,    \* by run: its flags
    unplanned,      \* unplanned[r]: the images Plan has still to ask about
    needsRebuild,   \* needsRebuild[r]: the images Plan has marked
    image,          \* image[r][n]: what has become of image n in run r
    dev, final, latest,     \* the tags dev-<hash>, <hash> and placeholder of
                            \* each image: the run whose build they refer to
    base,           \* base[r][n][p]: the build of p that r's build of n is from
    passed          \* the builds that have passed their tests: run and image

options == <<force, release, noRetag>>
planning == <<unplanned, needsRebuild>>
registry == <<dev, final, latest>>
vars == <<phase, options, planning, image, registry, base, passed>>

Builds == Runs \cup {None}
Active == {"plan", "build", "retag"}
Ended == {"ok", "error", "partial", "crashed"}

TypeOK ==
    /\ phase \in [Runs -> {"idle"} \cup Active \cup Ended]
    /\ force \in [Runs -> BOOLEAN]
    /\ release \in [Runs -> BOOLEAN]
    /\ noRetag \in [Runs -> BOOLEAN]
    /\ unplanned \in [Runs -> SUBSET Nodes]
    /\ needsRebuild \in [Runs -> SUBSET Nodes]
    /\ image \in [Runs -> [Nodes -> {"waiting", "built", "ready", "failed", "testsfailed",
                                     "versioned", "tagged", "refused"}]]
    /\ dev \in [Nodes -> Builds]
    /\ final \in [Nodes -> Builds]
    /\ latest \in [Nodes -> Builds]
    /\ base \in [Runs -> [Nodes -> [Nodes -> Builds]]]
    /\ passed \in SUBSET (Runs \X Nodes)

-----------------------------------------------------------------------------

Init ==
    /\ phase = [r \in Runs |-> "idle"]
    /\ force \in [Runs -> BOOLEAN]
    /\ release \in [Runs -> BOOLEAN]
    /\ noRetag \in [Runs -> BOOLEAN]
    /\ unplanned = [r \in Runs |-> Nodes]
    /\ needsRebuild = [r \in Runs |-> {}]
    /\ image = [r \in Runs |-> [n \in Nodes |-> "waiting"]]
    /\ dev = [n \in Nodes |-> None]
    /\ final = [n \in Nodes |-> None]
    /\ latest = [n \in Nodes |-> None]
    /\ base = [r \in Runs |-> [n \in Nodes |-> [p \in Nodes |-> None]]]
    /\ passed = {}

Goto(r, next) == phase' = [phase EXCEPT ![r] = next]
Mark(r, n, state) == image' = [image EXCEPT ![r][n] = state]

\* A job is started.
Start(r) ==
    /\ phase[r] = "idle"
    /\ Exclusive => \A q \in Runs : phase[q] \notin Active
    /\ Goto(r, "plan")
    /\ UNCHANGED <<options, planning, image, registry, base, passed>>

-----------------------------------------------------------------------------
(* Plan                                                                    *)

\* A Plan that rebuilds everything.
Ask_Always(r, n) ==
    /\ phase[r] = "plan"
    /\ n \in unplanned[r]
    /\ unplanned' = [unplanned EXCEPT ![r] = @ \ {n}]
    /\ needsRebuild' = [needsRebuild EXCEPT ![r] = @ \cup {n}]
    /\ UNCHANGED <<phase, options, image, registry, base, passed>>

\* One image: asked for in any order, and not at all with --force-rebuild.
Ask(r, n) ==
    /\ phase[r] = "plan"
    /\ n \in unplanned[r]
    /\ unplanned' = [unplanned EXCEPT ![r] = @ \ {n}]
    /\ needsRebuild' = IF force[r] \/ final[n] = None
                       THEN [needsRebuild EXCEPT ![r] = @ \cup {n}]
                       ELSE needsRebuild
    /\ UNCHANGED <<phase, options, image, registry, base, passed>>

\* The registry does not answer, or no builder can be made for the backend.
PlanFails(r) ==
    /\ phase[r] = "plan"
    /\ Goto(r, "error")
    /\ UNCHANGED <<options, planning, image, registry, base, passed>>

EndPlan(r) ==
    /\ phase[r] = "plan"
    /\ unplanned[r] = {}
    /\ Goto(r, "build")
    /\ UNCHANGED <<options, planning, image, registry, base, passed>>

-----------------------------------------------------------------------------
(* RebuildGraph                                                            *)

\* The walk has come to image n: its parents are done.
CanVisit(r, n) ==
    /\ phase[r] = "build"
    /\ image[r][n] = "waiting"
    /\ \A p \in ParentsOf(n) : image[r][p] \notin {"waiting", "built"}

\* A reference to a parent that does not depend on whether it is rebuilt.
CurrentRef_Version(r, p) == final[p]

\* CurrentRef of a parent, which the Dockerfile refers to during the build.
CurrentRef(r, p) == IF p \in needsRebuild[r] THEN dev[p] ELSE final[p]

\* An image that is not marked, or is below one whose build has failed.
Skip(r, n) ==
    /\ CanVisit(r, n)
    /\ \/ n \notin needsRebuild[r] /\ Mark(r, n, "ready")
       \/ /\ n \in needsRebuild[r]
          /\ \E p \in ParentsOf(n) : image[r][p] = "failed"
          /\ Mark(r, n, "failed")
    /\ UNCHANGED <<phase, options, planning, registry, base, passed>>

\* builder.Build pushes the image with its dev tag, or fails.
Build(r, n) ==
    /\ CanVisit(r, n)
    /\ n \in needsRebuild[r]
    /\ \A p \in ParentsOf(n) : image[r][p] # "failed"
    /\ \/ /\ dev' = [dev EXCEPT ![n] = r]
          /\ base' = [base EXCEPT ![r][n] =
                        [p \in Nodes |-> IF p \in ParentsOf(n) THEN CurrentRef(r, p) ELSE None]]
          /\ Mark(r, n, "built")
       \/ Mark(r, n, "failed") /\ UNCHANGED <<dev, base>>
    /\ UNCHANGED <<phase, options, planning, final, latest, passed>>

\* The tests run on what the dev tag refers to by now.
Test(r, n) ==
    /\ phase[r] = "build"
    /\ image[r][n] = "built"
    /\ \/ Mark(r, n, "ready") /\ passed' = passed \cup {<<dev[n], n>>}
       \/ Mark(r, n, "testsfailed") /\ UNCHANGED passed
    /\ UNCHANGED <<phase, options, planning, registry, base>>

\* Report.CheckError and --no-retag, after every report has come in.
Visited(r) == \A n \in Nodes : image[r][n] \notin {"waiting", "built"}
CheckError(r) == \E n \in Nodes : image[r][n] \in {"failed", "testsfailed"}

\* A gate that looks at the builds and not at the tests.
Gate_IgnoresTests(r) ==
    /\ phase[r] = "build"
    /\ Visited(r)
    /\ Goto(r, IF \E n \in Nodes : image[r][n] = "failed" THEN "error"
               ELSE IF noRetag[r] THEN "ok" ELSE "retag")
    /\ UNCHANGED <<options, planning, image, registry, base, passed>>

\* RebuildGraph has returned: an error of report.Generate or of CheckError
\* ends the run, and so does --no-retag.
Gate(r) ==
    /\ phase[r] = "build"
    /\ Visited(r)
    /\ \E generated \in BOOLEAN :
        Goto(r, IF ~generated \/ CheckError(r) THEN "error"
                ELSE IF noRetag[r] THEN "ok" ELSE "retag")
    /\ UNCHANGED <<options, planning, image, registry, base, passed>>

-----------------------------------------------------------------------------
(* Retag                                                                   *)

\* Retag takes every image, whatever has become of it: the gate is all there is.
Untagged == {"ready", "failed", "testsfailed"}

\* A visitor that goes on to the placeholder tag without looking at --release.
TagVersion_Releases(r, n) ==
    /\ phase[r] = "retag"
    /\ image[r][n] \in Untagged
    /\ final' = IF n \in needsRebuild[r] THEN [final EXCEPT ![n] = dev[n]] ELSE final
    /\ Mark(r, n, "versioned")
    /\ UNCHANGED <<phase, options, planning, dev, latest, base, passed>>

\* The version tag of an image that was built.
TagVersion(r, n) ==
    /\ phase[r] = "retag"
    /\ image[r][n] \in Untagged
    /\ final' = IF n \in needsRebuild[r] THEN [final EXCEPT ![n] = dev[n]] ELSE final
    /\ Mark(r, n, IF release[r] THEN "versioned" ELSE "tagged")
    /\ UNCHANGED <<phase, options, planning, dev, latest, base, passed>>

\* The placeholder tag.
TagLatest(r, n) ==
    /\ phase[r] = "retag"
    /\ image[r][n] = "versioned"
    /\ latest' = [latest EXCEPT ![n] = final[n]]
    /\ Mark(r, n, "tagged")
    /\ UNCHANGED <<phase, options, planning, dev, final, base, passed>>

\* The registry refuses a tag: the visitor of this image stops.
TagFails(r, n) ==
    /\ phase[r] = "retag"
    /\ image[r][n] \in Untagged \cup {"versioned"}
    /\ Mark(r, n, "refused")
    /\ UNCHANGED <<phase, options, planning, registry, base, passed>>

\* A Retag that reports success as soon as one image is tagged.
EndRetag_OneIsEnough(r) ==
    /\ phase[r] = "retag"
    /\ \E n \in Nodes : image[r][n] = "tagged"
    /\ Goto(r, "ok")
    /\ UNCHANGED <<options, planning, image, registry, base, passed>>

\* Every visitor has returned; the error of any is the error of the run.
EndRetag(r) ==
    /\ phase[r] = "retag"
    /\ \A n \in Nodes : image[r][n] \in {"tagged", "refused"}
    /\ Goto(r, IF \E n \in Nodes : image[r][n] = "refused" THEN "partial" ELSE "ok")
    /\ UNCHANGED <<options, planning, image, registry, base, passed>>

-----------------------------------------------------------------------------

\* The process is killed; the registry stays as it is.  Between two tags that
\* is the same to the registry as an error of Retag.
Crash(r) ==
    /\ phase[r] \in Active
    /\ Goto(r, IF phase[r] = "retag" THEN "partial" ELSE "crashed")
    /\ UNCHANGED <<options, planning, image, registry, base, passed>>

Run(r) ==
    \/ Start(r)
    \/ PlanFails(r) \/ EndPlan(r) \/ Gate(r) \/ EndRetag(r)
    \/ \E n \in Nodes :
        \/ Ask(r, n)
        \/ Skip(r, n) \/ Build(r, n) \/ Test(r, n)
        \/ TagVersion(r, n) \/ TagLatest(r, n) \/ TagFails(r, n)

\* No run is left.
Over == (\A r \in Runs : phase[r] \in Ended) /\ UNCHANGED vars

Next == (\E r \in Runs : Run(r) \/ Crash(r)) \/ Over

\* Only safety is stated here: that a run ends is for the modules of its parts.
Spec == Init /\ [][Next]_vars

-----------------------------------------------------------------------------
(* Properties                                                              *)

\* A version tag, once it is there, refers to a build that has passed its
\* tests: later runs take it for a reason not to build or test the image.
VersionsAreTested ==
    \A n \in Nodes : final[n] # None => <<final[n], n>> \in passed

\* So does the placeholder tag, and only after a run with --release.
\* README.md:16: "ensure the tests pass before promoting images to production".
LatestIsTested ==
    \A n \in Nodes : latest[n] # None =>
        <<latest[n], n>> \in passed /\ \E r \in Runs : release[r] /\ phase[r] # "idle"

\* When a run returns nil, every image has its version tag, and with --release
\* its placeholder tag refers to the same build, however many runs before it
\* have crashed or failed between two tags.
SuccessCompletes ==
    [][\A r \in Runs : phase[r] = "retag" /\ phase'[r] = "ok" =>
        \A n \in Nodes : final[n] # None /\ (release[r] => latest[n] = final[n])]_vars

\* A version tag that refers to one build is moved to another by a run with
\* --force-rebuild only.
VersionsStay ==
    [][\A n \in Nodes : final[n] # None /\ final'[n] # final[n] =>
        \E r \in Runs : phase[r] = "retag" /\ force[r]]_vars

\* Unless a run was interrupted while it tagged, the builds that version tags
\* refer to are built from one another: the image somebody pulls is from the
\* parent somebody pulls.
BasesAreVersions ==
    (\A r \in Runs : phase[r] \in {"idle", "ok", "error", "crashed"}) =>
        \A n \in Nodes : final[n] # None =>
            \A p \in ParentsOf(n) : base[final[n]][n][p] = final[p]

=============================================================================
