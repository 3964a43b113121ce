------------------------------- MODULE Retag --------------------------------
(***************************************************************************)
(* dib.Retag: after the builds and the tests, every image is given its     *)
(* version tag, and with --release the placeholder tag and the extra tags  *)
(* of its label.  It is an AsyncWalk, so two goroutines may retag the same *)
(* image at the same time, and the first error does not stop the others.   *)
(***************************************************************************)
EXTENDS AsyncWalk

CONSTANTS
    Placeholder,    \* the placeholder tag
    ExtraTags       \* ExtraTags[n]: Image.ExtraTags

\* A hash is no name somebody would give a tag.
ASSUME PlaceholderAssumption == Placeholder \notin {"dev", "hash"}
ASSUME ExtraTagsAssumption ==
    /\ ExtraTags \in [Nodes -> Seq(STRING)]
    /\ \A n \in Nodes : Elements(ExtraTags[n]) \cap {"dev", "hash"} = {}

VARIABLES
    pos,            \* pos[c]: how far the visitor on call c is, see below
    release,        \* --release
    rebuilt,        \* Image.NeedsRebuild: set by Plan, not reset by the build
    retagDone,      \* the image's RetagDone
    registry        \* registry[n][t]: the build tag t of image n refers to

retagVars == <<walkVars, pos, release, rebuilt, retagDone, registry>>

\* "dev" and "hash" stand for the tags of CurrentRef: dev-<hash> and <hash>.
Tags(n) == {"dev", "hash", Placeholder} \cup Elements(ExtraTags[n])

\* This run's build of the image, an earlier one, or no such tag.
Builds == {"new", "old", "none"}

\* The tags --release moves, in the order of the code.
Released(n) == IF release THEN <<Placeholder>> \o ExtraTags[n] ELSE <<>>

\* pos[c] = 0: about to test RetagDone; 1: about to set the version tag;
\* i + 1: about to set the i-th of the released tags.
RetagTypeOK ==
    /\ WalkTypeOK
    /\ pos \in [Calls -> Nat]
    /\ \A c \in Calls : pos[c] <= 2 + Len(Released(NodeOf[c]))
    /\ release \in BOOLEAN
    /\ rebuilt \in [Nodes -> BOOLEAN]
    /\ retagDone \in [Nodes -> BOOLEAN]
    /\ \A n \in Nodes : registry[n] \in [Tags(n) -> Builds]

-----------------------------------------------------------------------------

\* RebuildGraph has succeeded.  An image it built has its dev tag, and its
\* version tag is missing or, with --force-rebuild, of an earlier build; any
\* other image has its version tag.  The other tags are of earlier releases.
\* With --force-rebuild every image is built.
RetagInit ==
    /\ WalkInit
    /\ pos = [c \in Calls |-> 0]
    /\ release \in BOOLEAN
    /\ rebuilt \in [Nodes -> BOOLEAN]
    /\ retagDone = [n \in Nodes |-> FALSE]
    /\ \E forced \in BOOLEAN :
        /\ forced => \A n \in Nodes : rebuilt[n]
        /\ registry = [n \in Nodes |-> [t \in Tags(n) |->
               CASE t = "dev" -> IF rebuilt[n] THEN "new" ELSE "none"
                 [] t = "hash" -> IF ~rebuilt[n] THEN "new"
                                  ELSE IF forced THEN "old" ELSE "none"
                 [] OTHER -> "old"]]

TaggingWalk(c) ==
    /\ Around(c)
    /\ UNCHANGED <<pos, release, rebuilt, retagDone, registry>>

Advance(c) == pos' = [pos EXCEPT ![c] = @ + 1]

\* tagger.Tag: the tag to of the image refers to what the tag from does, which
\* must exist; the registry may refuse.
Tag(c, from, to) ==
    LET n == NodeOf[c] IN
    \/ /\ registry[n][from] # "none"
       /\ registry' = [registry EXCEPT ![n][to] = registry[n][from]]
       /\ Advance(c)
       /\ UNCHANGED <<walkVars, release, rebuilt, retagDone>>
    \/ /\ EndVisit(c, TRUE)
       /\ UNCHANGED <<pos, release, rebuilt, retagDone, registry>>

\* A visitor that sets RetagDone first.
TestDone_Sets(c) ==
    /\ visitor[c] = "visit"
    /\ pos[c] = 0
    /\ retagDone' = [retagDone EXCEPT ![NodeOf[c]] = TRUE]
    /\ Advance(c)
    /\ UNCHANGED <<walkVars, release, rebuilt, registry>>

\* if img.RetagDone
TestDone(c) ==
    /\ visitor[c] = "visit"
    /\ pos[c] = 0
    /\ IF retagDone[NodeOf[c]]
       THEN EndVisit(c, FALSE) /\ UNCHANGED pos
       ELSE Advance(c) /\ UNCHANGED walkVars
    /\ UNCHANGED <<release, rebuilt, retagDone, registry>>

\* The version tag, unless it is the one in use (current != final).
TagVersion(c) ==
    /\ visitor[c] = "visit"
    /\ pos[c] = 1
    /\ IF rebuilt[NodeOf[c]]
       THEN Tag(c, "dev", "hash")
       ELSE Advance(c) /\ UNCHANGED <<walkVars, release, rebuilt, retagDone, registry>>

\* The released tags set from the reference in use, before the version tag.
TagRelease_First(c) ==
    LET tags == Released(NodeOf[c]) IN
    /\ visitor[c] = "visit"
    /\ pos[c] \in DOMAIN tags
    /\ Tag(c, IF rebuilt[NodeOf[c]] THEN "dev" ELSE "hash", tags[pos[c]])

\* The placeholder tag, and the extra tags in their order.
TagRelease(c) ==
    LET tags == Released(NodeOf[c]) IN
    /\ visitor[c] = "visit"
    /\ pos[c] - 1 \in DOMAIN tags
    /\ Tag(c, "hash", tags[pos[c] - 1])

\* img.RetagDone = true
Finish(c) ==
    /\ visitor[c] = "visit"
    /\ pos[c] = 2 + Len(Released(NodeOf[c]))
    /\ retagDone' = [retagDone EXCEPT ![NodeOf[c]] = TRUE]
    /\ EndVisit(c, FALSE)
    /\ UNCHANGED <<pos, release, rebuilt, registry>>

EndRetag ==
    /\ EndWalk
    /\ UNCHANGED <<pos, release, rebuilt, retagDone, registry>>

-----------------------------------------------------------------------------

RetagGoroutine(c) ==
    TaggingWalk(c) \/ TestDone(c) \/ TagVersion(c) \/ TagRelease(c) \/ Finish(c)

RetagReturned == result # "none" /\ UNCHANGED retagVars

RetagNext == (\E c \in Calls : RetagGoroutine(c)) \/ EndRetag \/ RetagReturned

\* The goroutines run, the registry answers or refuses.
RetagFairness == (\A c \in Calls : WF_retagVars(RetagGoroutine(c))) /\ WF_retagVars(EndRetag)

RetagSpec == RetagInit /\ [][RetagNext]_retagVars /\ RetagFairness

-----------------------------------------------------------------------------
(* Properties                                                              *)

\* What is left to do on an image once its version tag is right.
IsReleased(n) == \A i \in DOMAIN Released(n) : registry[n][Released(n)[i]] = "new"

\* RetagDone is set on an image whose tags are all set, whichever of its two
\* goroutines set them: the other one may take it as a reason to return.
DoneMeansTagged ==
    \A n \in Nodes : retagDone[n] => registry[n]["hash"] = "new" /\ IsReleased(n)

\* Retag returns nil only when every image has its tags.
SuccessMeansTagged ==
    result = "ok" => \A n \in Nodes : registry[n]["hash"] = "new" /\ IsReleased(n)

\* At any moment, and whatever Retag leaves behind after an error, a tag that
\* --release moves refers to a build that has its version tag, or to what it
\* referred to before: users of the placeholder tag never get a build that a
\* later run would not find and would build again.
ReleasedHaveVersion ==
    \A n \in Nodes : \A t \in Tags(n) \ {"dev", "hash"} :
        registry[n][t] = "new" => release /\ registry[n]["hash"] = "new"

\* Retag returns.
RetagReturns == <>(result # "none")

=============================================================================
