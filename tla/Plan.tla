-------------------------------- MODULE Plan --------------------------------
(***************************************************************************)
(* Builder.Plan: which images are rebuilt and tested.  refExistsMapForTag  *)
(* asks the registry for the tag of every image, as the visitor of an      *)
(* AsyncWalk; checkNeedsRebuild and the loop that enables the tests walk   *)
(* the graph one node after the other and read what it left.               *)
(*                                                                         *)
(* The registry is shared: another run of dib may publish the tag of an    *)
(* image while this one is asking.                                         *)
(***************************************************************************)
EXTENDS AsyncWalk

CONSTANTS
    Published,  \* the images whose tag another run may publish meanwhile
    Absent,     \* refExistsMap has no entry
    NoAnswer    \* the visitor has no answer of the registry

ASSUME PublishedAssumption == Published \subseteq Nodes
ASSUME AbsentAssumption == Absent \notin BOOLEAN /\ NoAnswer \notin BOOLEAN

VARIABLES
    answer,         \* answer[c]: refAlreadyExists in the visitor on call c
    refExistsMap,   \* by image: its reference is of the image's own name
    force, noTests, \* --force-rebuild, --no-tests
    tags, before,   \* the images whose tag is in the registry; those whose tag
                    \* was when Plan began (a history variable)
    phase,          \* which walk is on, or how Plan has ended
    todo, seen,     \* a sequential walk: the nodes to enter, the sync.Map
    needsRebuild, needsTests

asking == <<walkVars, answer, refExistsMap>>
flags == <<needsRebuild, needsTests>>
options == <<force, noTests, before>>
planVars == <<asking, options, tags, phase, todo, seen, flags>>

PlanTypeOK ==
    /\ WalkTypeOK
    /\ answer \in [Calls -> BOOLEAN \cup {NoAnswer}]
    /\ refExistsMap \in [Nodes -> BOOLEAN \cup {Absent}]
    /\ force \in BOOLEAN /\ noTests \in BOOLEAN
    /\ tags \in SUBSET Nodes /\ before \in SUBSET Nodes
    /\ phase \in {"force", "exists", "check", "tests", "done", "error"}
    /\ todo \in Seq(Nodes)
    /\ seen \in SUBSET Nodes
    /\ needsRebuild \in [Nodes -> BOOLEAN]
    /\ needsTests \in [Nodes -> BOOLEAN]

-----------------------------------------------------------------------------

PlanInit ==
    /\ WalkInit
    /\ answer = [c \in Calls |-> NoAnswer]
    /\ refExistsMap = [n \in Nodes |-> Absent]
    /\ force \in BOOLEAN /\ noTests \in BOOLEAN
    /\ tags \in SUBSET Nodes /\ before = tags
    /\ phase = IF force THEN "force" ELSE "exists"
    /\ todo = Roots
    /\ seen = {}
    /\ needsRebuild = [n \in Nodes |-> FALSE]
    /\ needsTests = [n \in Nodes |-> FALSE]

\* Another run of dib finishes an image.
OtherRun(n) ==
    /\ phase \notin {"done", "error"}
    /\ n \in Published \ tags
    /\ tags' = tags \cup {n}
    /\ UNCHANGED <<asking, options, phase, todo, seen, flags>>

-----------------------------------------------------------------------------
(* refExistsMapForTag                                                      *)

AskingWalk(c) ==
    /\ phase = "exists"
    /\ Around(c)
    /\ UNCHANGED <<answer, refExistsMap, options, tags, phase, todo, seen, flags>>

\* registry.RefExists answers.
RefExists(c) ==
    /\ phase = "exists"
    /\ visitor[c] = "visit"
    /\ answer[c] = NoAnswer
    /\ answer' = [answer EXCEPT ![c] = NodeOf[c] \in tags]
    /\ UNCHANGED <<walkVars, refExistsMap, options, tags, phase, todo, seen, flags>>

\* registry.RefExists returns an error, and so does the visitor.
RefExistsFails(c) ==
    /\ phase = "exists"
    /\ answer[c] = NoAnswer
    /\ EndVisit(c, TRUE)
    /\ UNCHANGED <<answer, refExistsMap, options, tags, phase, todo, seen, flags>>

\* A map that holds the answers the wrong way round.
Record_Missing(c) ==
    /\ phase = "exists"
    /\ answer[c] # NoAnswer
    /\ refExistsMap' = [refExistsMap EXCEPT ![NodeOf[c]] = ~answer[c]]
    /\ EndVisit(c, FALSE)
    /\ UNCHANGED <<answer, options, tags, phase, todo, seen, flags>>

\* refExistsMap.Store, and the visitor returns.
Record(c) ==
    /\ phase = "exists"
    /\ answer[c] # NoAnswer
    /\ refExistsMap' = [refExistsMap EXCEPT ![NodeOf[c]] = answer[c]]
    /\ EndVisit(c, FALSE)
    /\ UNCHANGED <<answer, options, tags, phase, todo, seen, flags>>

\* WalkAsyncErr returns: Plan goes on, or gives up.
EndExists ==
    /\ phase = "exists"
    /\ EndWalk
    /\ phase' = IF result' = "ok" THEN "check" ELSE "error"
    /\ UNCHANGED <<answer, refExistsMap, options, tags, todo, seen, flags>>

-----------------------------------------------------------------------------
(* The sequential walks.  A node that has been seen is not visited again,  *)
(* but its children are entered again.                                     *)

Node == Head(todo)

Enter ==
    /\ todo' = Children[Node] \o Tail(todo)
    /\ seen' = seen \cup {Node}

\* The walk of one phase ends and that of the next begins.
GoTo(next) == phase' = next /\ todo' = Roots /\ seen' = {}

\* --force-rebuild: every image is rebuilt, whatever the registry holds.
ForceRebuild ==
    /\ phase = "force"
    /\ todo # <<>>
    /\ Enter
    /\ IF Node \in seen
       THEN UNCHANGED flags
       ELSE /\ needsRebuild' = [needsRebuild EXCEPT ![Node] = TRUE]
            /\ needsTests' = [needsTests EXCEPT ![Node] = ~noTests]
    /\ UNCHANGED <<asking, options, tags, phase>>

EndForce ==
    /\ phase = "force"
    /\ todo = <<>>
    /\ phase' = "done"
    /\ UNCHANGED <<asking, options, tags, todo, seen, flags>>

\* A check that goes below an image only if the image is rebuilt.
Check_PrunesBuilt ==
    /\ phase = "check"
    /\ todo # <<>>
    /\ refExistsMap[Node] # Absent
    /\ seen' = seen \cup {Node}
    /\ todo' = (IF refExistsMap[Node] THEN <<>> ELSE Children[Node]) \o Tail(todo)
    /\ needsRebuild' = [needsRebuild EXCEPT ![Node] = @ \/ ~refExistsMap[Node]]
    /\ UNCHANGED <<asking, options, tags, phase, needsTests>>

\* checkNeedsRebuild.  "could not check if %s exists" ends WalkErr at once.
Check ==
    /\ phase = "check"
    /\ todo # <<>>
    /\ IF Node \notin seen /\ refExistsMap[Node] = Absent
       THEN phase' = "error" /\ UNCHANGED <<todo, seen, flags>>
       ELSE /\ Enter
            /\ needsRebuild' = [needsRebuild EXCEPT ![Node] =
                                    @ \/ (Node \notin seen /\ ~refExistsMap[Node])]
            /\ UNCHANGED <<phase, needsTests>>
    /\ UNCHANGED <<asking, options, tags>>

EndCheck ==
    /\ phase = "check"
    /\ todo = <<>>
    /\ GoTo(IF noTests THEN "done" ELSE "tests")
    /\ UNCHANGED <<asking, options, tags, flags>>

\* Tests on the images that are rebuilt.
EnableTests ==
    /\ phase = "tests"
    /\ todo # <<>>
    /\ Enter
    /\ needsTests' = [needsTests EXCEPT ![Node] = @ \/ (Node \notin seen /\ needsRebuild[Node])]
    /\ UNCHANGED <<asking, options, tags, phase, needsRebuild>>

\* A walk that starts again instead of ending.
EndTests_Restarts ==
    /\ phase = "tests"
    /\ todo = <<>>
    /\ GoTo("tests")
    /\ UNCHANGED <<asking, options, tags, flags>>

EndTests ==
    /\ phase = "tests"
    /\ todo = <<>>
    /\ phase' = "done"
    /\ UNCHANGED <<asking, options, tags, todo, seen, flags>>

-----------------------------------------------------------------------------

Asking(c) == AskingWalk(c) \/ RefExists(c) \/ RefExistsFails(c) \/ Record(c)

Sequential ==
    \/ ForceRebuild \/ EndForce
    \/ Check \/ EndCheck
    \/ EnableTests \/ EndTests

PlanReturned == phase \in {"done", "error"} /\ UNCHANGED planVars

PlanNext ==
    \/ \E c \in Calls : Asking(c)
    \/ EndExists
    \/ Sequential
    \/ \E n \in Nodes : OtherRun(n)
    \/ PlanReturned

\* The goroutines run, the registry answers or fails; other runs need not.
PlanFairness ==
    /\ \A c \in Calls : WF_planVars(Asking(c))
    /\ WF_planVars(EndExists)
    /\ WF_planVars(Sequential)

PlanSpec == PlanInit /\ [][PlanNext]_planVars /\ PlanFairness

-----------------------------------------------------------------------------
(* Properties                                                              *)

\* plan.go:55-58: the error of checkNeedsRebuild never shows: once the walk
\* over the registry has returned without an error there is an answer for every
\* image, whichever goroutine got it.
EveryAnswerKnown ==
    phase \in {"check", "tests"} => \A n \in Nodes : refExistsMap[n] # Absent

\* An image is left out of the build only if its tag is in the registry, where
\* its children and Retag will look for it.
NothingLeftOut ==
    phase = "done" => \A n \in Nodes : needsRebuild[n] \/ n \in tags

\* An image whose tag was in the registry before Plan asked is not rebuilt, save
\* with --force-rebuild: tags only appear, so the later of two answers can only
\* save a rebuild or repeat the earlier one.
NoNeedlessRebuild ==
    phase = "done" /\ ~force => \A n \in before : ~needsRebuild[n]

\* Plan returns.
PlanReturns == <>(phase \in {"done", "error"})

=============================================================================
