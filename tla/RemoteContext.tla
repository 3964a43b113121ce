--------------------------- MODULE RemoteContext ----------------------------
(***************************************************************************)
(* The working copy during builds on a remote BuildKit: buildNode          *)
(* (pkg/dib/build.go:175) edits an image's Dockerfile, PrepareContext      *)
(* (pkg/buildcontext/remote.go) packs its context directory into an        *)
(* archive in that same directory, uploads the archive and removes it, and *)
(* the Dockerfile is reset at the end.  Context directories may contain    *)
(* one another - docs/quickstart.md advises it for child images - and what *)
(* is on the disk when a run starts is hashed into the tags.               *)
(*                                                                         *)
(* Several runs follow one another on one working copy, whose sources stay *)
(* as they are.  Inside a run the images are visited in the order of       *)
(* TopoWalk, all that are ready at the same time: what --rate-limit allows *)
(* is part of that.                                                        *)
(***************************************************************************)
EXTENDS ImageGraph

CONSTANTS
    Layouts,    \* which context directories are inside which, for each layout
    Published,  \* the images that have their version tags at first, for each choice
    MaxEvents   \* bound: runs on the working copy, file operations that fail and
                \* runs that are killed, all together

ASSUME LayoutsAssumption == Layouts \subseteq [Nodes -> SUBSET Nodes]
ASSUME PublishedAssumption == Published \subseteq SUBSET Nodes
ASSUME BoundsAssumption == MaxEvents \in Nat

VARIABLES
    inside,     \* inside[n]: the images with their directory inside that of n
    refs,       \* refs[n][p]: the reference to parent p in the Dockerfile of n
    archives,   \* the archives on the disk: image, tag, and partial or whole
    versions,   \* the images and hashes the registry has a version tag for
    runs,       \* the number of runs so far
    phase,      \* "idle" before the first run, "on", or how the last one ended
    hash,       \* hash[n]: what GenerateDAG has hashed for image n
    needs,      \* needsRebuild: the images Plan has marked
    forces,     \* history: what --force-rebuild is in this run and, once a run has
                \* been killed, what it has been from that run on
    stage,      \* stage[n]: where the visitor of image n is
    listed,     \* listed[n]: the files createArchive has still to write
    entries,    \* entries[n]: the files written to the archive
    truncated,  \* history: the images whose archive of this run was not flushed
    uploaded,   \* uploaded[n]: the uploaded archives of n, for their tags
    faults, crashes,    \* history: how many there have been
    spoiled     \* history: the images of which a file was not as listed

disk == <<refs, archives>>
plan == <<inside, versions, runs, phase, hash, needs, forces>>
archiving == <<listed, entries, truncated>>
history == <<faults, crashes, spoiled>>
vars == <<disk, plan, stage, archiving, uploaded, history>>

-----------------------------------------------------------------------------
(* Files and references                                                    *)

\* References are tuples: "name:latest", "name:dev-<hash>", "name:<hash>".
Placeholder == <<"placeholder">>

\* Image.CurrentRef; its tag is also in the name of the archive.
CurrentRef(n) == <<IF n \in needs THEN "dev" ELSE "version", hash[n]>>

\* The files below the context directory of n, with their contents: the
\* Dockerfiles, and the archives that are there.
Context(n) == {n} \cup inside[n]
Files(n) ==
    {<<<<"Dockerfile", m>>, refs[m]>> : m \in Context(n)} \cup
    {<<<<"archive", a[1], a[2]>>, <<a[3]>>>> : a \in {b \in archives : b[1] \in Context(n)}}

\* computeNodeHash: the files of the context and the hashes of the parents.
Hashes ==
    LET h[n \in Nodes] == [files |-> Files(n), bases |-> {h[p] : p \in ParentsOf(n)}]
    IN  h

\* ReplaceInFile and ResetFile with the references to the parents: they replace
\* what they find, and leave anything else.
Replaced(content) ==
    [p \in DOMAIN content |-> IF content[p] = Placeholder THEN CurrentRef(p) ELSE content[p]]
ResetRefs(content) ==
    [p \in DOMAIN content |-> IF content[p] = CurrentRef(p) THEN Placeholder ELSE content[p]]

\* A working copy as it is checked out.
Clean(n) == [p \in ParentsOf(n) |-> Placeholder]

-----------------------------------------------------------------------------

Working == {"replaced", "listed", "writing", "whole", "uploaded", "unsent", "removed",
            "built", "broken"}
Ended == {"done", "failed"}
Stages == {"waiting"} \cup Working \cup Ended

Events == runs + faults + crashes

TypeOK ==
    /\ inside \in Layouts
    /\ \A n \in Nodes : DOMAIN refs[n] = ParentsOf(n)
    /\ \A a \in archives : a[1] \in Nodes /\ a[3] \in {"partial", "whole"}
    /\ phase \in {"idle", "on", "ok", "kept", "error", "crashed"}
    /\ needs \in SUBSET Nodes
    /\ forces \in SUBSET BOOLEAN
    /\ stage \in [Nodes -> Stages]
    /\ truncated \in SUBSET Nodes
    /\ runs \in Nat /\ faults \in Nat /\ crashes \in Nat
    /\ Events <= MaxEvents
    /\ spoiled \in SUBSET Nodes

\* The registry has version tags from runs on other checkouts of these sources.
Init ==
    /\ inside \in Layouts
    /\ refs = [n \in Nodes |-> Clean(n)]
    /\ archives = {}
    /\ \E published \in Published : versions = {<<n, Hashes[n]>> : n \in published}
    /\ runs = 0
    /\ phase = "idle"
    /\ hash = Hashes
    /\ needs = {}
    /\ forces = {}
    /\ stage = [n \in Nodes |-> "waiting"]
    /\ listed = [n \in Nodes |-> {}]
    /\ entries = [n \in Nodes |-> {}]
    /\ truncated = {}
    /\ uploaded = [n \in Nodes |-> {}]
    /\ faults = 0
    /\ crashes = 0
    /\ spoiled = {}

To(n, next) == stage' = [stage EXCEPT ![n] = next]

\* A file operation fails; the disk stays as it is.
Fault == Events < MaxEvents /\ faults' = faults + 1 /\ UNCHANGED <<disk, crashes, spoiled>>

\* A visitor of image n in a run that is on.
At(n, here) == phase = "on" /\ stage[n] = here

\* A run begins: GenerateDAG hashes what is on the disk; Plan marks what is not
\* in the registry, or everything with --force-rebuild.
Start ==
    /\ phase # "on"
    /\ Events < MaxEvents
    /\ runs' = runs + 1
    /\ phase' = "on"
    /\ hash' = Hashes
    /\ \E force \in BOOLEAN :
        /\ needs' = {n \in Nodes : force \/ <<n, hash'[n]>> \notin versions}
        /\ forces' = {force} \cup (IF crashes = 0 THEN {} ELSE forces)
    /\ stage' = [n \in Nodes |-> "waiting"]
    /\ listed' = [n \in Nodes |-> {}]
    /\ entries' = [n \in Nodes |-> {}]
    /\ truncated' = {}
    /\ uploaded' = [n \in Nodes |-> {}]
    /\ UNCHANGED <<inside, disk, versions, history>>

\* The walk has come to n: its parents are done.
CanVisit(n) == At(n, "waiting") /\ \A p \in ParentsOf(n) : stage[p] \in Ended

\* An image that is not rebuilt, or whose parent has failed.
Skip(n) ==
    /\ CanVisit(n)
    /\ \/ n \notin needs /\ To(n, "done")
       \/ n \in needs /\ (\E p \in ParentsOf(n) : stage[p] = "failed") /\ To(n, "failed")
    /\ UNCHANGED <<disk, plan, archiving, uploaded, history>>

-----------------------------------------------------------------------------
(* buildNode                                                               *)

\* A walk that does not wait for the parents.
Replace_Early(n) ==
    /\ At(n, "waiting")
    /\ n \in needs
    /\ refs' = [refs EXCEPT ![n] = Replaced(@)]
    /\ To(n, "replaced")
    /\ UNCHANGED <<archives, plan, archiving, uploaded, history>>

\* ReplaceInFile; its error ends buildNode before the reset is deferred.
Replace(n) ==
    /\ CanVisit(n)
    /\ n \in needs
    /\ \A p \in ParentsOf(n) : stage[p] # "failed"
    /\ \/ /\ refs' = [refs EXCEPT ![n] = Replaced(@)]
          /\ To(n, "replaced")
          /\ UNCHANGED <<archives, history>>
       \/ Fault /\ To(n, "failed")
    /\ UNCHANGED <<plan, archiving, uploaded>>

\* A listing made after the archive has been created.
List_WithArchive(n) ==
    /\ At(n, "replaced")
    /\ listed' = [listed EXCEPT ![n] =
                    Files(n) \cup {<<<<"archive", n, CurrentRef(n)>>, <<"partial">>>>}]
    /\ To(n, "listed")
    /\ UNCHANGED <<disk, plan, entries, truncated, uploaded, history>>

\* The log file is made, and filepath.Walk collects the files of the context.
List(n) ==
    /\ At(n, "replaced")
    /\ \/ /\ listed' = [listed EXCEPT ![n] = Files(n)]
          /\ To(n, "listed")
          /\ UNCHANGED <<disk, history>>
       \/ Fault /\ To(n, "broken") /\ UNCHANGED listed
    /\ UNCHANGED <<plan, entries, truncated, uploaded>>

\* The archive of n in this run.
Archive(n, state) == <<n, CurrentRef(n), state>>
Others(n) == archives \ {Archive(n, "partial"), Archive(n, "whole")}

\* os.Create, in the directory that was just listed.
Create(n) ==
    /\ At(n, "listed")
    /\ \/ /\ archives' = Others(n) \cup {Archive(n, "partial")}
          /\ To(n, "writing")
          /\ UNCHANGED <<refs, history>>
       \/ Fault /\ To(n, "broken")
    /\ UNCHANGED <<plan, archiving, uploaded>>

\* writeTarArchive of one file, in any order of the map.  The size is that of
\* the listing: a file that has changed since is an error unless it has the same
\* size, one that is gone always is; the archive is left behind.
WriteEntry(n) ==
    /\ At(n, "writing")
    /\ \E file \in listed[n] :
        /\ listed' = [listed EXCEPT ![n] = @ \ {file}]
        /\ \/ /\ file \in Files(n)
              /\ entries' = [entries EXCEPT ![n] = @ \cup {file}]
              /\ UNCHANGED <<stage, faults, spoiled>>
           \/ \E now \in Files(n) \ {file} :
                /\ now[1] = file[1]
                /\ entries' = [entries EXCEPT ![n] = @ \cup {now}]
                /\ spoiled' = spoiled \cup {n}
                /\ UNCHANGED <<stage, faults>>
           \/ /\ file \notin Files(n)
              /\ To(n, "broken")
              /\ spoiled' = spoiled \cup {n}
              /\ UNCHANGED <<entries, faults>>
           \/ /\ Fault
              /\ To(n, "broken")
              /\ UNCHANGED entries
    /\ UNCHANGED <<disk, plan, truncated, uploaded, crashes>>

\* The deferred Close of the two writers and of the file, which write what they
\* still hold.  Their errors are dropped: createArchive returns nil, and what has
\* not been written is missing in the archive that is uploaded.
Close(n) ==
    /\ At(n, "writing")
    /\ listed[n] = {}
    /\ To(n, "whole")
    /\ \/ /\ archives' = Others(n) \cup {Archive(n, "whole")}
          /\ UNCHANGED <<refs, archiving, history>>
       \/ /\ Fault
          /\ \E lost \in SUBSET entries[n] : entries' = [entries EXCEPT ![n] = @ \ lost]
          /\ truncated' = truncated \cup {n}
          /\ UNCHANGED listed
    /\ UNCHANGED <<plan, uploaded>>

\* UploadFile.
Upload(n) ==
    /\ At(n, "whole")
    /\ \/ uploaded' = [uploaded EXCEPT ![n] = @ \cup {entries[n]}] /\ To(n, "uploaded")
       \/ To(n, "unsent") /\ UNCHANGED uploaded
    /\ UNCHANGED <<disk, plan, archiving, history>>

\* A removal when the upload has failed only.
Remove_IfUnsent(n) ==
    /\ phase = "on"
    /\ stage[n] \in {"uploaded", "unsent"}
    /\ To(n, IF stage[n] = "uploaded" THEN "removed" ELSE "broken")
    /\ archives' = IF stage[n] = "unsent" THEN Others(n) ELSE archives
    /\ UNCHANGED <<refs, plan, archiving, uploaded, history>>

\* The deferred os.Remove, whose error is logged.
Remove(n) ==
    /\ phase = "on"
    /\ stage[n] \in {"uploaded", "unsent"}
    /\ To(n, IF stage[n] = "uploaded" THEN "removed" ELSE "broken")
    /\ \/ archives' = Others(n) /\ UNCHANGED <<refs, history>>
       \/ Fault
    /\ UNCHANGED <<plan, archiving, uploaded>>

\* PresignedURL, the pod and what BuildKit makes of the archive.
Build(n) ==
    /\ At(n, "removed")
    /\ \E ok \in BOOLEAN : To(n, IF ok THEN "built" ELSE "broken")
    /\ UNCHANGED <<disk, plan, archiving, uploaded, history>>

\* A reset of the Dockerfile after a successful build only.
Reset_IfBuilt(n) ==
    /\ phase = "on"
    /\ stage[n] \in {"built", "broken"}
    /\ refs' = IF stage[n] = "built" THEN [refs EXCEPT ![n] = ResetRefs(@)] ELSE refs
    /\ To(n, IF stage[n] = "built" THEN "done" ELSE "failed")
    /\ UNCHANGED <<archives, plan, archiving, uploaded, history>>

\* A reset of those Dockerfiles only that had the placeholder.
Reset_IfReplaced(n) ==
    /\ phase = "on"
    /\ stage[n] \in {"built", "broken"}
    /\ To(n, IF stage[n] = "built" THEN "done" ELSE "failed")
    /\ refs' = IF <<<<"Dockerfile", n>>, Clean(n)>> \in hash[n].files
               THEN [refs EXCEPT ![n] = ResetRefs(@)] ELSE refs
    /\ UNCHANGED <<archives, plan, archiving, uploaded, history>>

\* The deferred ResetFile, whose error is a warning.
Reset(n) ==
    /\ phase = "on"
    /\ stage[n] \in {"built", "broken"}
    /\ To(n, IF stage[n] = "built" THEN "done" ELSE "failed")
    /\ \/ refs' = [refs EXCEPT ![n] = ResetRefs(@)] /\ UNCHANGED <<archives, history>>
       \/ Fault
    /\ UNCHANGED <<plan, archiving, uploaded>>

-----------------------------------------------------------------------------

\* dib is killed; the disk stays as it is.
Killed == Events < MaxEvents /\ crashes' = crashes + 1 /\ phase' = "crashed"

Crash ==
    /\ phase = "on"
    /\ Killed
    /\ UNCHANGED <<inside, versions, runs, hash, needs, forces, disk, stage, archiving, uploaded,
                   faults, spoiled>>

\* Retag sets the version tags one by one, in an order of its own: an error, or
\* the end of dib, leaves those that were first.  With --dry-run it sets none
\* and returns nil; with --no-retag it is not called.
Retag ==
    \/ \E tagged \in SUBSET needs :
        /\ versions' = versions \cup {<<n, hash[n]>> : n \in tagged}
        /\ \/ tagged = needs /\ phase' = "ok" /\ UNCHANGED crashes
           \/ phase' = "error" /\ UNCHANGED crashes
           \/ Killed
    \/ phase' = "kept" /\ UNCHANGED <<versions, crashes>>

\* When all visitors have returned: CheckError, and Retag if there is none.
End ==
    /\ phase = "on"
    /\ \A n \in Nodes : stage[n] \in Ended
    /\ IF \E n \in Nodes : stage[n] = "failed"
       THEN phase' = "error" /\ UNCHANGED <<versions, crashes>>
       ELSE Retag
    /\ UNCHANGED <<inside, runs, hash, needs, forces, disk, stage, archiving, uploaded,
                   faults, spoiled>>

Over == phase # "on" /\ Events = MaxEvents /\ UNCHANGED vars

Visit(n) ==
    \/ Skip(n) \/ Replace(n) \/ List(n) \/ Create(n) \/ WriteEntry(n) \/ Close(n)
    \/ Upload(n) \/ Remove(n) \/ Build(n) \/ Reset(n)

Next == Start \/ (\E n \in Nodes : Visit(n)) \/ End \/ Crash \/ Over

\* Only safety is stated here: that a run ends is for RebuildGraph.
Spec == Init /\ [][Next]_vars

-----------------------------------------------------------------------------
(* Properties                                                              *)

\* The descendants of n, and the images whose directory has only those of
\* descendants inside.
Descendants(n) ==
    {m \in Nodes \ {n} :
        \A S \in SUBSET Nodes : n \in S /\ (\A x \in S : ChildrenOf(x) \subseteq S) => m \in S}
WellNested(n) == inside[n] \subseteq Descendants(n)

\* Nothing but descendants inside, what is uploaded for an image is what its tag
\* is the hash of, with the references to its parents replaced in its own
\* Dockerfile and nowhere else: never the edited Dockerfile or the archive of
\* another image that is being built.  An archive that was not flushed has less
\* in it, and nothing else.  docs/index.md: the tag is "a checksum of all the
\* files in the context".
Hashed(n) ==
    {IF f[1] = <<"Dockerfile", n>> THEN <<f[1], Replaced(f[2])>> ELSE f : f \in hash[n].files}
ArchiveIsHashed ==
    \A n \in Nodes : WellNested(n) =>
        \A sent \in uploaded[n] :
            sent \subseteq Hashed(n) /\ (n \notin truncated => sent = Hashed(n))

\* A file is found changed or gone between the listing and the archive only where
\* a directory has other images than descendants inside: then the build may fail
\* for no other reason than the build of a neighbour.
SpoiledIsNested == \A n \in spoiled : ~WellNested(n)

\* An image whose visitor is not at work has left its Dockerfile as it was and no
\* archive, unless a file operation has failed, a run was killed, or a neighbour
\* has spoiled its archive.
WorkingCopyRestored ==
    faults = 0 /\ crashes = 0 =>
        \A n \in Nodes \ spoiled : stage[n] \notin Working =>
            refs[n] = Clean(n) /\ \A a \in archives : a[1] # n

\* A run after one that has tagged its images rebuilds nothing, unless it has
\* --force-rebuild: no file operation had failed and no run was killed, but any
\* number of builds may have failed before, tags been left out or rebuilds forced.
SecondRunIsIdle ==
    [][phase = "ok" /\ phase' = "on" /\ forces' = {FALSE} /\ faults = 0 /\ crashes = 0
        => needs' = {}]_vars

\* Where no directory is inside another, the references that one killed run has
\* left in Dockerfiles are gone as soon as a run has built all it had to: its
\* ResetFile finds the same references, if that run and those since the killed
\* one have --force-rebuild as that one had.  Otherwise they may stay, as they do
\* with directories inside one another: see the README.
OneCrashHeals ==
    (\A n \in Nodes : stage[n] = "done")
        /\ faults = 0 /\ crashes <= 1 /\ forces # BOOLEAN /\ (\A n \in Nodes : inside[n] = {})
    => \A n \in Nodes : refs[n] = Clean(n)

=============================================================================
