------------------------- MODULE RemoteContextProofs -------------------------
(***************************************************************************)
(* Proofs about RemoteContext, for every finite DAG, all layouts of the    *)
(* context directories, and any number of runs, of file operations that    *)
(* fail and of runs that are killed.                                       *)
(***************************************************************************)
EXTENDS RemoteContext, TLAPS

\* The entry of an archive in the listing of a context.
ArchiveFile(a) == <<<<"archive", a[1], a[2]>>, <<a[3]>>>>

\* What ReplaceInFile leaves in a Dockerfile it finds clean.
RefOf(n) == [p \in ParentsOf(n) |-> CurrentRef(p)]

\* The archives of the run that is on, and those earlier runs have left.
Own(n) == {Archive(n, "partial"), Archive(n, "whole")}
IsOwn(a) == a[2] = CurrentRef(a[1])
Left == {a \in archives : ~IsOwn(a)}

\* The references in the Dockerfile of n when the run began.
Began(n) == (CHOOSE f \in hash[n].files : f[1] = <<"Dockerfile", n>>)[2]
Fresh(n) == Began(n) = Clean(n)

\* A hash of image n that is computed from an archive named after it.
Holds(h, n) ==
    \E f \in h.files : \E kind \in {"dev", "version"} : f[1] = <<"archive", n, <<kind, h>>>>

\* The ancestors of n.
Above(n) ==
    {a \in Nodes : \A S \in SUBSET Nodes :
        ParentsOf(n) \subseteq S /\ (\A x \in S : ParentsOf(x) \subseteq S) => a \in S}

-----------------------------------------------------------------------------
(* The inductive invariant, one conjunct per idea.                         *)

\* The variables are functions on the images.
ShapeInv ==
    /\ refs = [n \in Nodes |-> refs[n]]
    /\ \A n \in Nodes : refs[n] = [p \in ParentsOf(n) |-> refs[n][p]]
    /\ listed = [n \in Nodes |-> listed[n]]
    /\ entries = [n \in Nodes |-> entries[n]]
    /\ uploaded = [n \in Nodes |-> uploaded[n]]

\* Parents first.
EdgeInv ==
    \A n \in Nodes : stage[n] # "waiting" => \A p \in ParentsOf(n) : stage[p] \in Ended

\* One archive has a name, and no hash is computed from the archive that is named
\* after it: the name of a new archive is never in use.
ArchivesInv ==
    /\ \A a \in archives :
        /\ a = <<a[1], a[2], a[3]>>
        /\ a[2] = <<a[2][1], a[2][2]>> /\ a[2][1] \in {"dev", "version"}
        /\ ~Holds(a[2][2], a[1])
    /\ \A a, b \in archives : a[1] = b[1] /\ a[2] = b[2] => a = b
    /\ \A n \in Nodes : ~Holds(hash[n], n)

\* An archive of this run is on the disk only after it has been created.
OwnInv ==
    \A a \in archives : IsOwn(a) => stage[a[1]] \notin {"waiting", "replaced", "listed"}

\* The hashes are of the disk as it was when the run began: the archives that
\* were there still are.
HashInv ==
    \A n \in Nodes :
        hash[n] = [files |-> {<<<<"Dockerfile", m>>, Began(m)>> : m \in Context(n)} \cup
                             {ArchiveFile(a) : a \in {b \in Left : b[1] \in Context(n)}},
                   bases |-> {hash[p] : p \in ParentsOf(n)}]

\* How far the archive of a well nested image is from what has been hashed.
FilesInv ==
    \A n \in Nodes : WellNested(n) =>
        /\ stage[n] = "waiting" => Files(n) = hash[n].files
        /\ stage[n] \in {"replaced", "listed"} => Files(n) = Hashed(n)
        /\ stage[n] \in {"waiting", "replaced", "listed"} => entries[n] = {}
        /\ stage[n] = "listed" => listed[n] = Hashed(n)
        /\ stage[n] = "writing" => Hashed(n) \subseteq Files(n)
                                   /\ listed[n] \cup entries[n] = Hashed(n)
        /\ stage[n] = "whole" => entries[n] \subseteq Hashed(n)
        /\ stage[n] = "whole" /\ n \notin truncated => entries[n] = Hashed(n)
        /\ stage[n] \in {"waiting", "replaced", "listed", "writing"} => n \notin truncated

\* Only a run that was killed has visitors at work and is not on.
PhaseInv ==
    /\ phase \notin {"on", "crashed"} => \A n \in Nodes : stage[n] \notin Working
    /\ phase = "crashed" => crashes # 0
    /\ phase = "idle" => crashes = 0
    /\ phase \in {"ok", "kept", "error"} => \A n \in Nodes : stage[n] \in Ended
    /\ phase \in {"ok", "kept"} => \A n \in Nodes : stage[n] = "done"

\* A run that has not come to Retag.
Unfinished == \E n \in Nodes : stage[n] # "done"

\* What Plan has found out stays true until Retag, or all images are marked.
NeedsInv ==
    /\ crashes = 0 => forces # BOOLEAN
    /\ phase # "idle" =>
        /\ \A n \in Nodes \ needs : <<n, hash[n]>> \in versions
        /\ phase = "ok" => \A n \in Nodes : <<n, hash[n]>> \in versions
        /\ forces # {}
        /\ forces = {TRUE} => needs = Nodes
        /\ forces = {FALSE} /\ (phase = "on" \/ Unfinished) =>
                \A n \in needs : <<n, hash[n]>> \notin versions

\* The stages between the creation and the removal of the archive.
Packing == {"writing", "whole", "uploaded", "unsent"}

\* While no file operation has failed, an archive of this run is there for its
\* visitor to pack and send, or the visitor has given up on it.
PackingInv ==
    faults = 0 => \A a \in archives : IsOwn(a) =>
        \/ stage[a[1]] \in Packing
        \/ a[1] \in spoiled /\ stage[a[1]] \in {"broken", "failed"}

\* While nothing has gone wrong: the Dockerfiles at work are edited and no other,
\* and an archive that is left is a spoiled one.
RestoredInv ==
    faults = 0 /\ crashes = 0 =>
        /\ \A n \in Nodes : refs[n] = IF stage[n] \in Working THEN RefOf(n) ELSE Clean(n)
        /\ \A n \in Nodes : Fresh(n)
        /\ \A a \in Left : a[1] \in spoiled

\* No directory is inside another, and one run at most was killed, with the
\* --force-rebuild of those after it.
Apart == \A n \in Nodes : inside[n] = {}
Healing == Apart /\ faults = 0 /\ crashes <= 1 /\ forces # BOOLEAN

\* The version tags of n are of its clean Dockerfile.
CleanVersions(n) ==
    \A v \in versions : v[1] = n =>
        \A f \in v[2].files : f[1] = <<"Dockerfile", n>> => f[2] = Clean(n)

\* Then a Dockerfile the killed run has left edited has the references that every
\* run would put there: its ancestors are as they were, so are their hashes and
\* version tags, and the image itself is rebuilt until a run has built them all.
HealInv ==
    Healing =>
        /\ \A n \in Nodes :
            \/ refs[n] = Clean(n) /\ stage[n] \notin Working
            \/ refs[n] = RefOf(n) /\ stage[n] \in Working
            \/ refs[n] = RefOf(n) /\ ~Fresh(n) /\ stage[n] \in {"waiting", "failed"}
        /\ phase = "crashed" => \A n \in Nodes : Fresh(n)
        /\ \A n \in Nodes : ~Fresh(n) => \A a \in Above(n) : Fresh(a)
        /\ \A n \in Nodes : ~Fresh(n) => n \in needs
        /\ \A n \in Nodes :
            (crashes = 0 \/ phase = "crashed" \/ (~Fresh(n) /\ (phase = "on" \/ Unfinished)))
                => CleanVersions(n)

IInv ==
    /\ TypeOK
    /\ ShapeInv
    /\ EdgeInv
    /\ ArchivesInv
    /\ OwnInv
    /\ HashInv
    /\ FilesInv
    /\ PhaseInv
    /\ NeedsInv
    /\ PackingInv
    /\ RestoredInv
    /\ HealInv
    /\ ArchiveIsHashed
    /\ SpoiledIsNested

-----------------------------------------------------------------------------
(* What Hashes computes.  A recursive function is a CHOOSE of a solution of *)
(* its equation: that there is one, and only one, follows from Acyclic.     *)

\* h satisfies the equation on the images of D.
Solves(D, h) ==
    \A n \in D :
        /\ ParentsOf(n) \subseteq D
        /\ h[n] = [files |-> Files(n), bases |-> {h[p] : p \in ParentsOf(n)}]

\* The parents of an image are images of the graph.
LEMMA ParentsAreNodes == \A n \in Nodes : ParentsOf(n) \subseteq Nodes
BY GraphType DEF ParentsOf, Elements

\* Two solutions agree where both are defined: an image on which they do not has
\* a parent on which they do not.
LEMMA SolutionsAgree ==
    ASSUME NEW D \in SUBSET Nodes, NEW E \in SUBSET Nodes, NEW h, NEW k,
           Solves(D, h), Solves(E, k)
    PROVE  \A n \in D \cap E : h[n] = k[n]
<1> DEFINE S == {n \in D \cap E : h[n] # k[n]}
<1>1. SUFFICES ASSUME S # {} PROVE FALSE
    OBVIOUS
<1>2. PICK n \in S : ParentsOf(n) \cap S = {}
    BY <1>1, Acyclic
<1>3. \A p \in ParentsOf(n) : h[p] = k[p]
    BY <1>2 DEF Solves
<1>4. {h[p] : p \in ParentsOf(n)} = {k[p] : p \in ParentsOf(n)}
    BY <1>3
<1>5. h[n] = k[n]
    BY <1>4 DEF Solves
<1>6. QED
    BY <1>5

\* The largest set with a solution has all images in it.
LEMMA SolutionExists == \E h : h = [n \in Nodes |-> [files |-> Files(n), bases |-> {h[p] : p \in ParentsOf(n)}]]
<1> DEFINE Solved == {n \in Nodes : \E D \in SUBSET Nodes : n \in D /\ \E h : Solves(D, h)}
           Value(n, v) == \E D \in SUBSET Nodes : n \in D /\ \E h : Solves(D, h) /\ v = h[n]
           g == [n \in Solved |-> CHOOSE v : Value(n, v)]
<1>1. ASSUME NEW D \in SUBSET Nodes, NEW h, Solves(D, h), NEW n \in D
      PROVE  n \in Solved /\ g[n] = h[n]
    <2>1. n \in Solved /\ Value(n, h[n])
        BY <1>1
    <2>2. Value(n, g[n])
        BY <2>1
    <2>3. PICK E \in SUBSET Nodes : n \in E /\ \E k : Solves(E, k) /\ g[n] = k[n]
        BY <2>2
    <2>4. PICK k : Solves(E, k) /\ g[n] = k[n]
        BY <2>3
    <2>5. h[n] = k[n]
        BY <1>1, <2>3, <2>4, SolutionsAgree
    <2>6. QED
        BY <2>1, <2>4, <2>5
<1>2. g = [n \in Solved |-> g[n]] /\ Solved \subseteq Nodes
    OBVIOUS
<1> HIDE DEF g
<1>3. Solves(Solved, g)
    <2>1. SUFFICES ASSUME NEW n \in Solved
                   PROVE  /\ ParentsOf(n) \subseteq Solved
                          /\ g[n] = [files |-> Files(n), bases |-> {g[p] : p \in ParentsOf(n)}]
        BY DEF Solves
    <2>2. PICK D \in SUBSET Nodes : n \in D /\ \E h : Solves(D, h)
        BY <2>1
    <2>3. PICK h : Solves(D, h)
        BY <2>2
    <2>4. /\ ParentsOf(n) \subseteq D
          /\ h[n] = [files |-> Files(n), bases |-> {h[p] : p \in ParentsOf(n)}]
        BY <2>2, <2>3 DEF Solves
    <2>5. \A m \in D : m \in Solved /\ g[m] = h[m]
        <3>1. ASSUME NEW m \in D PROVE m \in Solved /\ g[m] = h[m]
            BY <1>1, <2>3
        <3>2. QED
            BY <3>1
    <2>6. {g[p] : p \in ParentsOf(n)} = {h[p] : p \in ParentsOf(n)}
        BY <2>4, <2>5
    <2>7. QED
        BY <2>2, <2>4, <2>5, <2>6
<1>4. ASSUME NEW m \in Nodes, ParentsOf(m) \subseteq Solved, m \notin Solved
      PROVE  FALSE
    <2> DEFINE k == [n \in Solved \cup {m} |->
                        IF n = m THEN [files |-> Files(m), bases |-> {g[p] : p \in ParentsOf(m)}]
                                 ELSE g[n]]
    <2>1. /\ \A n \in Solved : k[n] = g[n]
          /\ k[m] = [files |-> Files(m), bases |-> {g[p] : p \in ParentsOf(m)}]
        BY <1>4
    <2> HIDE DEF k
    <2>2. ASSUME NEW n \in Solved \cup {m}
          PROVE  ParentsOf(n) \subseteq Solved /\ {k[p] : p \in ParentsOf(n)} = {g[p] : p \in ParentsOf(n)}
        <3>1. ParentsOf(n) \subseteq Solved
            BY <1>3, <1>4 DEF Solves
        <3>2. QED
            BY <2>1, <3>1
    <2>3. Solves(Solved \cup {m}, k)
        BY <1>3, <2>1, <2>2 DEF Solves
    <2>4. Solved \cup {m} \in SUBSET Nodes
        BY <1>2, <1>4
    <2>5. QED
        BY <1>4, <2>3, <2>4
<1>5. Solved = Nodes
    <2>1. SUFFICES ASSUME Nodes \ Solved # {} PROVE FALSE
        BY <1>2
    <2>2. PICK m \in Nodes \ Solved : ParentsOf(m) \cap (Nodes \ Solved) = {}
        BY <2>1, Acyclic
    <2>3. QED
        BY <1>4, <2>2, ParentsAreNodes
<1> HIDE DEF Solved
<1>6. g = [n \in Nodes |-> g[n]] /\ Solves(Nodes, g)
    BY <1>2, <1>3, <1>5
<1>7. QED
    BY <1>6 DEF Solves

\* What GenerateDAG hashes is the files of the context and the parents' hashes.
LEMMA HashesSolve == Solves(Nodes, Hashes)
<1>1. Hashes = [n \in Nodes |-> [files |-> Files(n), bases |-> {Hashes[p] : p \in ParentsOf(n)}]]
    BY SolutionExists, Zenon DEF Hashes
<1>2. QED
    BY <1>1, ParentsAreNodes DEF Solves

\* Hashes is the only solution.
LEMMA HashesAreThese ==
    ASSUME NEW D \in SUBSET Nodes, NEW h, Solves(D, h)
    PROVE  \A n \in D : Hashes[n] = h[n]
BY HashesSolve, SolutionsAgree

-----------------------------------------------------------------------------
(* What is in a context directory.                                         *)

\* A Dockerfile is in the listing of a context with the references it has.
LEMMA DockerfilesOf ==
    ASSUME NEW n \in Nodes, NEW m, NEW f, f[1] = <<"Dockerfile", m>>
    PROVE  f \in Files(n) <=> m \in Context(n) /\ f = <<<<"Dockerfile", m>>, refs[m]>>
<1>1. \A a \in archives : ArchiveFile(a)[1] # <<"Dockerfile", m>>
    BY DEF ArchiveFile
<1>2. Files(n) = {<<<<"Dockerfile", x>>, refs[x]>> : x \in Context(n)} \cup
                 {ArchiveFile(a) : a \in {b \in archives : b[1] \in Context(n)}}
    BY DEF Files, ArchiveFile
<1>3. QED
    BY <1>1, <1>2

\* So is an archive with its state.
LEMMA ArchivesOf ==
    ASSUME NEW n \in Nodes, NEW x, NEW r, NEW f, f[1] = <<"archive", x, r>>
    PROVE  f \in Files(n) <=> \E a \in archives : a[1] = x /\ a[2] = r /\ x \in Context(n) /\ f = ArchiveFile(a)
<1>1. \A m : <<<<"Dockerfile", m>>, refs[m]>>[1] # <<"archive", x, r>>
    OBVIOUS
<1>2. Files(n) = {<<<<"Dockerfile", m>>, refs[m]>> : m \in Context(n)} \cup
                 {ArchiveFile(a) : a \in {b \in archives : b[1] \in Context(n)}}
    BY DEF Files, ArchiveFile
<1>3. \A a : ArchiveFile(a)[1] = <<"archive", x, r>> <=> a[1] = x /\ a[2] = r
    BY DEF ArchiveFile
<1>4. QED
    BY <1>1, <1>2, <1>3

\* Two files of a context have different names.
LEMMA NamesDiffer ==
    ASSUME ArchivesInv, NEW n \in Nodes, NEW f \in Files(n), NEW g \in Files(n), f[1] = g[1]
    PROVE  f = g
<1>1. CASE \E m \in Context(n) : f = <<<<"Dockerfile", m>>, refs[m]>>
    BY <1>1, DockerfilesOf
<1>2. CASE \E a \in archives : f = ArchiveFile(a)
    <2>1. PICK a \in archives : f = ArchiveFile(a)
        BY <1>2
    <2>2. f[1] = <<"archive", a[1], a[2]>>
        BY <2>1 DEF ArchiveFile
    <2>3. PICK b \in archives : b[1] = a[1] /\ b[2] = a[2] /\ g = ArchiveFile(b)
        <3>1. g[1] = <<"archive", a[1], a[2]>>
            BY <2>2
        <3>2. QED
            BY <3>1, ArchivesOf
    <2>4. QED
        BY <2>1, <2>3 DEF ArchivesInv
<1>3. QED
    BY <1>1, <1>2 DEF Files, ArchiveFile

\* The listing of a context changes only with what is in it.
LEMMA FilesStay ==
    ASSUME NEW n \in Nodes, inside' = inside,
           \A m \in Context(n) : refs'[m] = refs[m],
           \A a : a[1] \in Context(n) => (a \in archives' <=> a \in archives)
    PROVE  Files(n)' = Files(n)
<1>1. Context(n)' = Context(n)
    BY DEF Context
<1>2. {<<<<"Dockerfile", m>>, refs'[m]>> : m \in Context(n)} = {<<<<"Dockerfile", m>>, refs[m]>> : m \in Context(n)}
    OBVIOUS
<1>3. {a \in archives' : a[1] \in Context(n)} = {a \in archives : a[1] \in Context(n)}
    OBVIOUS
<1>4. QED
    BY <1>1, <1>2, <1>3 DEF Files

\* The Dockerfile of an image is found in the listing of its context.
LEMMA DockerfileFound ==
    ASSUME NEW n \in Nodes, NEW F, F = Files(n)
    PROVE  (CHOOSE f \in F : f[1] = <<"Dockerfile", n>>)[2] = refs[n]
<1> DEFINE d == <<<<"Dockerfile", n>>, refs[n]>>
<1>1. n \in Context(n)
    BY DEF Context
<1>2. ASSUME NEW f, f[1] = <<"Dockerfile", n>>
      PROVE  f \in F <=> f = d
    BY <1>1, <1>2, DockerfilesOf
<1>3. d[1] = <<"Dockerfile", n>> /\ d[2] = refs[n]
    OBVIOUS
<1> HIDE DEF d
<1>4. (CHOOSE f \in F : f[1] = <<"Dockerfile", n>>) = d
    BY <1>2, <1>3
<1>5. QED
    BY <1>3, <1>4

-----------------------------------------------------------------------------
(* The initial states.                                                     *)

\* The invariant holds on a working copy as it is checked out.
LEMMA InitHolds == Init => IInv
<1> SUFFICES ASSUME Init PROVE IInv
    OBVIOUS
<1>1. TypeOK
    BY BoundsAssumption DEF Init, TypeOK, Events, Stages, Clean
<1>2. ShapeInv /\ EdgeInv /\ OwnInv /\ NeedsInv /\ PhaseInv /\ PackingInv
    BY ParentsAreNodes DEF Init, ShapeInv, EdgeInv, OwnInv, NeedsInv, PhaseInv, PackingInv, Clean,
        Working, Ended
<1>3. /\ \A n \in Nodes : hash[n] = [files |-> Files(n), bases |-> {hash[p] : p \in ParentsOf(n)}]
      /\ \A n \in Nodes : hash[n].files = Files(n)
    <2>1. hash = Hashes
        BY DEF Init
    <2>2. \A n \in Nodes : Hashes[n] = [files |-> Files(n), bases |-> {Hashes[p] : p \in ParentsOf(n)}]
        BY HashesSolve DEF Solves
    <2>3. \A n \in Nodes : hash[n] = [files |-> Files(n), bases |-> {hash[p] : p \in ParentsOf(n)}]
        BY <2>1, <2>2
    <2>4. ASSUME NEW n \in Nodes PROVE hash[n].files = Files(n)
        <3>1. hash[n] = [files |-> Files(n), bases |-> {hash[p] : p \in ParentsOf(n)}]
            BY <2>3
        <3>2. QED
            BY <3>1
    <2>5. QED
        BY <2>3, <2>4
<1>4. archives = {} /\ Left = {} /\ \A n \in Nodes : refs[n] = Clean(n)
    BY DEF Init, Left
<1>5. \A n \in Nodes : Context(n) \subseteq Nodes
    BY <1>1, LayoutsAssumption DEF TypeOK, Context
<1>6. \A n \in Nodes : Began(n) = Clean(n)
    BY <1>3, <1>4, DockerfileFound DEF Began
<1>7. HashInv
    <2>1. SUFFICES ASSUME NEW n \in Nodes
                   PROVE  Files(n) = {<<<<"Dockerfile", m>>, Began(m)>> : m \in Context(n)}
                                        \cup {ArchiveFile(a) : a \in {b \in Left : b[1] \in Context(n)}}
        BY <1>3 DEF HashInv
    <2>2. Files(n) = {<<<<"Dockerfile", m>>, refs[m]>> : m \in Context(n)}
        BY <1>4 DEF Files
    <2>3. \A m \in Context(n) : refs[m] = Began(m)
        BY <1>4, <1>5, <1>6
    <2>4. QED
        BY <1>4, <2>2, <2>3
<1>8. ArchivesInv
    <2>1. \A n \in Nodes : ~Holds(hash[n], n)
        BY <1>3, <1>4, ArchivesOf DEF Holds
    <2>2. QED
        BY <1>4, <2>1 DEF ArchivesInv
<1>9. FilesInv /\ ArchiveIsHashed /\ SpoiledIsNested
    BY <1>3 DEF Init, FilesInv, ArchiveIsHashed, SpoiledIsNested
<1>10. RestoredInv
    BY <1>4, <1>6 DEF Init, RestoredInv, Working, Fresh
<1>11. HealInv
    <2>1. PICK published \in SUBSET Nodes : versions = {<<n, Hashes[n]>> : n \in published}
        BY PublishedAssumption DEF Init
    <2>2. ASSUME NEW n \in Nodes, NEW v \in versions, v[1] = n,
                 NEW f \in v[2].files, f[1] = <<"Dockerfile", n>>
          PROVE  f[2] = Clean(n)
        <3>1. v[2] = hash[n]
            BY <2>1, <2>2 DEF Init
        <3>2. f \in Files(n)
            BY <1>3, <2>2, <3>1
        <3>3. QED
            BY <1>4, <2>2, <3>2, DockerfilesOf
    <2>3. \A n \in Nodes : CleanVersions(n)
        BY <2>2 DEF CleanVersions
    <2>4. QED
        BY <1>4, <1>6, <2>3 DEF Init, HealInv, Working, Fresh
<1>12. QED
    BY <1>1, <1>2, <1>7, <1>8, <1>9, <1>10, <1>11 DEF IInv

-----------------------------------------------------------------------------
(* A step of one visitor.                                                  *)

\* What all of them have in common.
OnlyAt(n) ==
    /\ phase = "on" /\ UNCHANGED plan
    /\ stage[n] \notin Ended /\ stage'[n] # "waiting" /\ stage' \in [Nodes -> Stages]
    /\ \A p \in ParentsOf(n) : stage[p] \in Ended
    /\ \A k \in Nodes \ {n} :
        /\ stage'[k] = stage[k] /\ refs'[k] = refs[k] /\ listed'[k] = listed[k]
        /\ entries'[k] = entries[k] /\ uploaded'[k] = uploaded[k]
    /\ \/ archives' = archives
       \/ archives' = Others(n)
       \/ \E state \in {"partial", "whole"} : archives' = Others(n) \cup {Archive(n, state)}
    /\ stage'[n] \in {"replaced", "listed"} =>
        archives' = archives /\ stage[n] \in {"waiting", "replaced"}
    /\ faults' \in Nat /\ faults <= faults' /\ crashes' = crashes /\ Events' <= MaxEvents
    /\ spoiled \subseteq spoiled' /\ spoiled' \subseteq spoiled \cup {n}
    /\ truncated \subseteq truncated' /\ truncated' \subseteq truncated \cup {n}

\* Visitors change nothing but what is their image's own.
LEMMA VisitIsLocal ==
    ASSUME TypeOK, ShapeInv, EdgeInv, NEW n \in Nodes, Visit(n)
    PROVE  OnlyAt(n) /\ ShapeInv'
<1> USE DEF TypeOK, ShapeInv, EdgeInv, OnlyAt, At, To, plan, disk, archiving, history, Events,
            Stages, Working, Ended
<1>1. MaxEvents \in Nat
    BY BoundsAssumption
<1>2. CASE Skip(n)
    <2>1. UNCHANGED <<disk, plan, archiving, uploaded, history>>
        BY <1>2 DEF Skip
    <2>2. /\ phase = "on" /\ stage[n] = "waiting" /\ \A p \in ParentsOf(n) : stage[p] \in Ended
          /\ \E next \in {"done", "failed"} : stage' = [stage EXCEPT ![n] = next]
        BY <1>2 DEF Skip, CanVisit
    <2>3. QED
        BY <1>1, <2>1, <2>2
<1>3. CASE Replace(n)
    BY <1>1, <1>3 DEF Replace, CanVisit, Fault, Replaced
<1>4. CASE List(n)
    BY <1>1, <1>4 DEF List, Fault
<1>5. CASE Create(n)
    BY <1>1, <1>5 DEF Create, Fault
<1>6. CASE WriteEntry(n)
    <2>1. /\ phase = "on" /\ stage[n] = "writing"
          /\ UNCHANGED <<refs, archives, plan, truncated, uploaded, crashes>>
        BY <1>6 DEF WriteEntry
    <2>2. PICK file \in listed[n] :
            /\ listed' = [listed EXCEPT ![n] = @ \ {file}]
            /\ \/ /\ entries' = [entries EXCEPT ![n] = @ \cup {file}]
                  /\ UNCHANGED <<stage, faults, spoiled>>
               \/ \E now \in Files(n) \ {file} :
                    /\ entries' = [entries EXCEPT ![n] = @ \cup {now}]
                    /\ spoiled' = spoiled \cup {n}
                    /\ UNCHANGED <<stage, faults>>
               \/ /\ stage' = [stage EXCEPT ![n] = "broken"]
                  /\ spoiled' = spoiled \cup {n}
                  /\ UNCHANGED <<entries, faults>>
               \/ /\ stage' = [stage EXCEPT ![n] = "broken"]
                  /\ Events < MaxEvents /\ faults' = faults + 1
                  /\ UNCHANGED <<entries, spoiled>>
        BY <1>6 DEF WriteEntry, Fault
    <2>3. /\ stage' = stage \/ stage' = [stage EXCEPT ![n] = "broken"]
          /\ listed' = [k \in Nodes |-> listed'[k]] /\ entries' = [k \in Nodes |-> entries'[k]]
          /\ \A k \in Nodes \ {n} : listed'[k] = listed[k] /\ entries'[k] = entries[k]
        BY <2>2
    <2>4. spoiled' = spoiled \/ spoiled' = spoiled \cup {n}
        BY <2>2
    <2>5. faults' = faults \/ (Events < MaxEvents /\ faults' = faults + 1)
        BY <2>2
    <2>6. QED
        BY <1>1, <2>1, <2>3, <2>4, <2>5
<1>7. CASE Close(n)
    <2>1. /\ phase = "on" /\ stage[n] = "writing" /\ stage' = [stage EXCEPT ![n] = "whole"]
          /\ UNCHANGED <<refs, listed, plan, uploaded, crashes, spoiled>>
        BY <1>7 DEF Close, Fault
    <2>2. \/ archives' = archives
          \/ archives' = Others(n) \cup {Archive(n, "whole")}
        BY <1>7 DEF Close, Fault
    <2>3. entries' = entries \/ \E lost : entries' = [entries EXCEPT ![n] = entries[n] \ lost]
        BY <1>7 DEF Close
    <2>4. truncated' = truncated \/ truncated' = truncated \cup {n}
        BY <1>7 DEF Close
    <2>5. faults' = faults \/ (Events < MaxEvents /\ faults' = faults + 1)
        BY <1>7 DEF Close, Fault
    <2>6. /\ entries' = [k \in Nodes |-> entries'[k]]
          /\ \A k \in Nodes \ {n} : entries'[k] = entries[k]
        BY <2>3
    <2>7. stage' \in [Nodes -> Stages] /\ stage'[n] = "whole"
        BY <2>1
    <2>8. faults' \in Nat /\ faults <= faults' /\ Events' <= MaxEvents
        BY <1>1, <2>1, <2>5
    <2>9. OnlyAt(n)
        BY <2>1, <2>2, <2>4, <2>6, <2>7, <2>8
    <2>10. ShapeInv'
        BY <2>1, <2>6
    <2>11. QED
        BY <2>9, <2>10
<1>8. CASE Upload(n)
    BY <1>1, <1>8 DEF Upload
<1>9. CASE Remove(n)
    BY <1>1, <1>9 DEF Remove, Fault
<1>10. CASE Build(n)
    BY <1>1, <1>10 DEF Build
<1>11. CASE Reset(n)
    <2>1. /\ phase = "on" /\ stage[n] \in {"built", "broken"}
          /\ UNCHANGED <<plan, archiving, uploaded>>
          /\ stage' = [stage EXCEPT ![n] = IF stage[n] = "built" THEN "done" ELSE "failed"]
        BY <1>11 DEF Reset
    <2>2. UNCHANGED <<archives, crashes, spoiled>>
        BY <1>11 DEF Reset, Fault
    <2>3. refs' = refs \/ refs' = [refs EXCEPT ![n] = ResetRefs(refs[n])]
        BY <1>11 DEF Reset, Fault
    <2>4. faults' = faults \/ (Events < MaxEvents /\ faults' = faults + 1)
        BY <1>11 DEF Reset, Fault
    <2>5. OnlyAt(n)
        BY <1>1, <2>1, <2>2, <2>3, <2>4
    <2>6. ShapeInv'
        BY <2>1, <2>3 DEF ResetRefs
    <2>7. QED
        BY <2>5, <2>6
<1>12. QED
    BY <1>2, <1>3, <1>4, <1>5, <1>6, <1>7, <1>8, <1>9, <1>10, <1>11 DEF Visit

-----------------------------------------------------------------------------
(* What stays as it is when one visitor takes a step.                      *)

\* The archives of this run are those its visitors make; the others stay.
LEMMA ArchivesLeft ==
    ASSUME NEW n \in Nodes, OnlyAt(n)
    PROVE  /\ Left' = Left
           /\ \A a : IsOwn(a)' <=> IsOwn(a)
           /\ \A a : a[1] # n \/ ~IsOwn(a) => (a \in archives' <=> a \in archives)
           /\ \A m : CurrentRef(m)' = CurrentRef(m)
<1>1. \A m : CurrentRef(m)' = CurrentRef(m)
    BY DEF OnlyAt, plan, CurrentRef
<1>2. \A a : IsOwn(a)' <=> IsOwn(a)
    BY <1>1 DEF IsOwn
<1>3. \A state : Archive(n, state)[1] = n /\ IsOwn(Archive(n, state))
    BY DEF Archive, IsOwn
<1>4. \A a : a[1] # n \/ ~IsOwn(a) => (a \in archives' <=> a \in archives)
    <2>1. SUFFICES ASSUME NEW a, a[1] # n \/ ~IsOwn(a)
                   PROVE  a \in archives' <=> a \in archives
        OBVIOUS
    <2>2. \A state : a # Archive(n, state)
        BY <1>3, <2>1
    <2>3. QED
        BY <2>2 DEF OnlyAt, Others
<1>5. Left' = Left
    <2>1. ASSUME NEW a PROVE a \in Left' <=> a \in Left
        BY <1>2, <1>4 DEF Left
    <2>2. QED
        BY <2>1 DEF Left
<1>6. QED
    BY <1>1, <1>2, <1>4, <1>5

\* Nothing of what the run has found out when it began changes in it.
LEMMA PlanStays ==
    ASSUME NEW n \in Nodes, OnlyAt(n)
    PROVE  \A m : /\ Context(m)' = Context(m)
                  /\ Began(m)' = Began(m)
                  /\ Hashed(m)' = Hashed(m)
                  /\ WellNested(m)' = WellNested(m)
                  /\ RefOf(m)' = RefOf(m)
<1>1. \A m : CurrentRef(m)' = CurrentRef(m)
    BY ArchivesLeft
<1>2. \A c : Replaced(c)' = Replaced(c)
    BY <1>1 DEF Replaced
<1>3. UNCHANGED <<inside, hash>>
    BY DEF OnlyAt, plan
<1>4. \A m : Context(m)' = Context(m) /\ Began(m)' = Began(m) /\ RefOf(m)' = RefOf(m)
    BY <1>1, <1>3 DEF Context, Began, RefOf
<1>5. \A m : Hashed(m)' = Hashed(m)
    BY <1>2, <1>3 DEF Hashed
<1>6. \A m : WellNested(m)' = WellNested(m)
    BY <1>3 DEF WellNested, Descendants
<1>7. QED
    BY <1>4, <1>5, <1>6

\* The conjuncts that hold whatever a visitor does to its own image.
LEMMA VisitKeeps ==
    ASSUME IInv, NEW n \in Nodes, OnlyAt(n), ShapeInv'
    PROVE  TypeOK' /\ EdgeInv' /\ ArchivesInv' /\ OwnInv' /\ HashInv' /\ PhaseInv' /\ NeedsInv'
<1> USE DEF OnlyAt, plan
<1>1. \A state : Archive(n, state) = <<n, CurrentRef(n), state>>
    BY DEF Archive
<1>2. TypeOK'
    <2>1. \A m \in Nodes : DOMAIN refs'[m] = ParentsOf(m)
        BY DEF ShapeInv
    <2>2. \A a \in archives' : a[1] \in Nodes /\ a[3] \in {"partial", "whole"}
        BY <1>1 DEF IInv, TypeOK, Others
    <2>3. /\ spoiled' \in SUBSET Nodes /\ truncated' \in SUBSET Nodes
          /\ runs' \in Nat /\ faults' \in Nat /\ crashes' \in Nat /\ Events' <= MaxEvents
        BY DEF IInv, TypeOK
    <2>4. QED
        BY <2>1, <2>2, <2>3 DEF IInv, TypeOK
<1>3. EdgeInv'
    BY ParentsAreNodes DEF IInv, EdgeInv, Ended
<1>4. ArchivesInv'
    <2>1. \A m : CurrentRef(m)' = CurrentRef(m)
        BY ArchivesLeft
    <2>2. \A m \in Nodes : ~Holds(hash'[m], m)
        BY DEF IInv, ArchivesInv
    <2>3. \A a \in archives' : a \in archives \/ \E state \in {"partial", "whole"} : a = Archive(n, state)
        BY DEF Others
    <2>4. /\ CurrentRef(n) = <<CurrentRef(n)[1], CurrentRef(n)[2]>>
          /\ CurrentRef(n)[1] \in {"dev", "version"} /\ CurrentRef(n)[2] = hash[n]
        BY DEF CurrentRef
    <2>5. ASSUME NEW a \in archives'
          PROVE  /\ a = <<a[1], a[2], a[3]>>
                 /\ a[2] = <<a[2][1], a[2][2]>> /\ a[2][1] \in {"dev", "version"}
                 /\ ~Holds(a[2][2], a[1])
        <3>1. CASE a \in archives
            BY <3>1 DEF IInv, ArchivesInv
        <3>2. CASE \E state \in {"partial", "whole"} : a = <<n, CurrentRef(n), state>>
            BY <3>2, <2>4 DEF IInv, ArchivesInv
        <3>3. QED
            BY <3>1, <3>2, <2>3, <1>1
    <2>6. ASSUME NEW a \in archives', NEW b \in archives', a[1] = b[1], a[2] = b[2]
          PROVE  a = b
        <3>1. a \in archives /\ b \in archives => a = b
            BY <2>6 DEF IInv, ArchivesInv
        <3>2. ASSUME NEW state \in {"partial", "whole"}, archives' = Others(n) \cup {Archive(n, state)}
              PROVE  a = b
            <4>1. \A c \in Others(n) : ~(c[1] = n /\ c[2] = CurrentRef(n))
                BY <1>1 DEF IInv, TypeOK, ArchivesInv, Others
            <4>2. Archive(n, state)[1] = n /\ Archive(n, state)[2] = CurrentRef(n)
                BY <1>1
            <4>3. Others(n) \subseteq archives
                BY DEF Others
            <4>4. QED
                BY <2>6, <3>1, <3>2, <4>1, <4>2, <4>3
        <3>3. QED
            BY <3>1, <3>2 DEF Others
    <2>7. QED
        BY <2>2, <2>5, <2>6 DEF ArchivesInv
<1>5. OwnInv'
    <2>1. SUFFICES ASSUME NEW a \in archives', IsOwn(a)
                   PROVE  stage'[a[1]] \notin {"waiting", "replaced", "listed"}
        BY ArchivesLeft DEF OwnInv
    <2>2. CASE a[1] # n
        <3>1. a \in archives /\ a[1] \in Nodes
            BY <2>2, ArchivesLeft DEF IInv, TypeOK
        <3>2. QED
            BY <2>1, <2>2, <3>1 DEF IInv, OwnInv
    <2>3. CASE a[1] = n
        BY <2>1, <2>3 DEF IInv, OwnInv
    <2>4. QED
        BY <2>2, <2>3
<1>6. HashInv'
    <2>1. Left' = Left /\ \A m : Context(m)' = Context(m) /\ Began(m)' = Began(m)
        BY ArchivesLeft, PlanStays
    <2>2. QED
        BY <2>1 DEF IInv, HashInv
<1>7. PhaseInv' /\ NeedsInv'
    BY DEF IInv, PhaseInv, NeedsInv
<1>8. QED
    BY <1>2, <1>3, <1>4, <1>5, <1>6, <1>7

-----------------------------------------------------------------------------
(* The archive of a well nested image.                                     *)

\* An image whose parents are all done is no descendant of one that is not done.
LEMMA DescendantsWait ==
    ASSUME TypeOK, EdgeInv, NEW n \in Nodes, NEW k \in Nodes \ {n}, stage[k] \notin Ended,
           \A p \in ParentsOf(n) : stage[p] \in Ended
    PROVE  n \notin Descendants(k)
<1> DEFINE S == {x \in Nodes \ {n} : stage[x] \notin Ended}
<1>1. ASSUME NEW x \in S, NEW c \in ChildrenOf(x)
      PROVE  c \in S
    <2>1. c \in Nodes /\ x \in ParentsOf(c)
        BY GraphType, EdgesAgree DEF ChildrenOf, Elements
    <2>2. stage[c] = "waiting" /\ c # n
        BY <2>1 DEF EdgeInv
    <2>3. QED
        BY <2>1, <2>2 DEF Ended
<1>2. k \in S /\ S \in SUBSET Nodes /\ n \notin S
    OBVIOUS
<1>3. \A x \in S : ChildrenOf(x) \subseteq S
    BY <1>1
<1> HIDE DEF S
<1>4. QED
    BY <1>2, <1>3 DEF Descendants

\* So what a visitor does is not seen in the context of another well nested image
\* that is not done.
LEMMA OthersFilesStay ==
    ASSUME IInv, NEW n \in Nodes, OnlyAt(n), NEW k \in Nodes \ {n}, WellNested(k),
           stage[k] \notin Ended
    PROVE  Files(k)' = Files(k)
<1>1. n \notin Context(k)
    <2>1. n \notin Descendants(k)
        BY DescendantsWait DEF IInv, OnlyAt
    <2>2. QED
        BY <2>1 DEF Context, WellNested
<1>2. Context(k) \subseteq Nodes
    BY LayoutsAssumption DEF IInv, TypeOK, Context
<1>3. \A m \in Context(k) : refs'[m] = refs[m]
    BY <1>1, <1>2 DEF OnlyAt
<1>4. \A a : a[1] \in Context(k) => (a \in archives' <=> a \in archives)
    BY <1>1, ArchivesLeft
<1>5. inside' = inside
    BY DEF OnlyAt, plan
<1>6. QED
    BY <1>3, <1>4, <1>5, FilesStay

\* ReplaceInFile in the Dockerfile of an image changes that one file.
LEMMA ReplacedFiles ==
    ASSUME IInv, NEW n \in Nodes, OnlyAt(n), Files(n) = hash[n].files, archives' = archives,
           refs'[n] = Replaced(refs[n])
    PROVE  Files(n)' = Hashed(n)
<1> DEFINE Edit(f) == IF f[1] = <<"Dockerfile", n>> THEN <<f[1], Replaced(f[2])>> ELSE f
           Docker(m) == <<<<"Dockerfile", m>>, refs[m]>>
           Packed == {ArchiveFile(a) : a \in {b \in archives : b[1] \in Context(n)}}
<1>1. Context(n)' = Context(n) /\ Context(n) \subseteq Nodes
    BY LayoutsAssumption DEF IInv, TypeOK, Context, OnlyAt, plan
<1>2. Files(n) = {Docker(m) : m \in Context(n)} \cup Packed
    BY DEF Files, ArchiveFile
<1>3. \A m \in Context(n) : Edit(Docker(m)) = <<<<"Dockerfile", m>>, refs'[m]>>
    <2>1. SUFFICES ASSUME NEW m \in Context(n)
                   PROVE  Edit(Docker(m)) = <<<<"Dockerfile", m>>, refs'[m]>>
        OBVIOUS
    <2>2. Docker(m)[1] = <<"Dockerfile", n>> <=> m = n
        OBVIOUS
    <2>3. CASE m = n
        BY <2>3
    <2>4. CASE m # n
        <3>1. refs'[m] = refs[m]
            BY <2>4, <1>1 DEF OnlyAt
        <3>2. Edit(Docker(m)) = Docker(m)
            BY <2>2, <2>4
        <3>3. QED
            BY <3>1, <3>2
    <2>5. QED
        BY <2>3, <2>4
<1>4. \A f \in Packed : Edit(f) = f
    <2>1. \A a : ArchiveFile(a)[1] # <<"Dockerfile", n>>
        BY DEF ArchiveFile
    <2>2. QED
        BY <2>1
<1>5. Files(n)' = {<<<<"Dockerfile", m>>, refs'[m]>> : m \in Context(n)} \cup Packed
    BY <1>1 DEF Files, ArchiveFile
<1>6. Hashed(n) = {Edit(f) : f \in Files(n)}
    BY DEF Hashed
<1> HIDE DEF Edit, Docker, Packed
<1>7. {Edit(f) : f \in Files(n)} = {Edit(Docker(m)) : m \in Context(n)} \cup {Edit(f) : f \in Packed}
    BY <1>2
<1>8. {Edit(f) : f \in Packed} = Packed
    BY <1>4
<1>9. {Edit(Docker(m)) : m \in Context(n)} = {<<<<"Dockerfile", m>>, refs'[m]>> : m \in Context(n)}
    BY <1>3
<1>10. QED
    BY <1>5, <1>6, <1>7, <1>8, <1>9

\* What FilesInv and the two properties say of one image.
FilesAt(n) ==
    /\ stage[n] = "waiting" => Files(n) = hash[n].files
    /\ stage[n] \in {"replaced", "listed"} => Files(n) = Hashed(n)
    /\ stage[n] \in {"waiting", "replaced", "listed"} => entries[n] = {}
    /\ stage[n] = "listed" => listed[n] = Hashed(n)
    /\ stage[n] = "writing" => Hashed(n) \subseteq Files(n)
                               /\ listed[n] \cup entries[n] = Hashed(n)
    /\ stage[n] = "whole" => entries[n] \subseteq Hashed(n)
    /\ stage[n] = "whole" /\ n \notin truncated => entries[n] = Hashed(n)
    /\ stage[n] \in {"waiting", "replaced", "listed", "writing"} => n \notin truncated
    /\ \A sent \in uploaded[n] :
        sent \subseteq Hashed(n) /\ (n \notin truncated => sent = Hashed(n))
    /\ n \notin spoiled

\* The visitor of a well nested image packs what has been hashed.
LEMMA PacksHashed ==
    ASSUME IInv, NEW n \in Nodes, Visit(n), OnlyAt(n), FilesAt(n), WellNested(n)
    PROVE  FilesAt(n)'
<1> USE DEF FilesAt, At, To, disk, plan, archiving, history, Ended
<1>1. Hashed(n)' = Hashed(n) /\ hash' = hash
    BY PlanStays DEF OnlyAt
<1>2. ASSUME UNCHANGED disk PROVE Files(n)' = Files(n)
    BY <1>2, FilesStay DEF OnlyAt
<1>3. n \in DOMAIN stage /\ n \in DOMAIN refs /\ n \in DOMAIN listed /\ n \in DOMAIN entries
      /\ n \in DOMAIN uploaded
    BY DEF IInv, TypeOK, ShapeInv
<1>4. CASE Skip(n)
    <2>1. stage'[n] \in Ended /\ UNCHANGED <<truncated, uploaded, spoiled>>
        BY <1>3, <1>4 DEF Skip
    <2>2. QED
        BY <1>1, <2>1
<1>5. CASE Replace(n)
    <2>1. /\ stage[n] = "waiting" /\ UNCHANGED <<archives, entries, truncated, uploaded, spoiled>>
          /\ \/ stage'[n] = "replaced" /\ refs'[n] = Replaced(refs[n])
             \/ stage'[n] = "failed"
        BY <1>3, <1>5 DEF Replace, CanVisit, Fault
    <2>2. CASE stage'[n] = "replaced" /\ refs'[n] = Replaced(refs[n])
        <3>1. Files(n)' = Hashed(n)
            BY <2>1, <2>2, ReplacedFiles
        <3>2. QED
            BY <1>1, <2>1, <2>2, <3>1
    <2>3. CASE stage'[n] = "failed"
        BY <1>1, <2>1, <2>3
    <2>4. QED
        BY <2>1, <2>2, <2>3
<1>6. CASE List(n)
    <2>1. /\ stage[n] = "replaced" /\ UNCHANGED <<disk, entries, truncated, uploaded, spoiled>>
          /\ \/ stage'[n] = "listed" /\ listed'[n] = Files(n)
             \/ stage'[n] = "broken"
        BY <1>3, <1>6 DEF List, Fault
    <2>2. QED
        BY <1>1, <1>2, <2>1
<1>7. CASE Create(n)
    <2>1. /\ stage[n] = "listed" /\ UNCHANGED <<refs, archiving, uploaded, spoiled>>
          /\ \/ stage'[n] = "writing" /\ archives' = Others(n) \cup {Archive(n, "partial")}
             \/ stage'[n] = "broken"
        BY <1>3, <1>7 DEF Create, Fault
    <2>2. CASE stage'[n] = "writing" /\ archives' = Others(n) \cup {Archive(n, "partial")}
        <3>1. archives \subseteq archives'
            <4>1. \A state : IsOwn(Archive(n, state)) /\ Archive(n, state)[1] = n
                BY DEF Archive, IsOwn
            <4>2. \A state : Archive(n, state) \notin archives
                BY <2>1, <4>1 DEF IInv, OwnInv
            <4>3. QED
                BY <2>2, <4>2 DEF Others
        <3>2. Context(n)' = Context(n)
            BY PlanStays
        <3>3. Files(n) \subseteq Files(n)'
            BY <2>1, <3>1, <3>2 DEF Files
        <3>4. QED
            BY <1>1, <2>1, <2>2, <3>3
    <2>3. CASE stage'[n] = "broken"
        BY <1>1, <2>1, <2>3
    <2>4. QED
        BY <2>1, <2>2, <2>3
<1>8. CASE WriteEntry(n)
    <2>1. stage[n] = "writing" /\ UNCHANGED <<disk, truncated, uploaded>>
        BY <1>8 DEF WriteEntry
    <2>2. PICK file \in listed[n] :
            /\ listed' = [listed EXCEPT ![n] = @ \ {file}]
            /\ \/ /\ entries' = [entries EXCEPT ![n] = @ \cup {file}]
                  /\ UNCHANGED <<stage, spoiled>>
               \/ \E now \in Files(n) \ {file} : now[1] = file[1]
               \/ file \notin Files(n)
               \/ stage' = [stage EXCEPT ![n] = "broken"] /\ UNCHANGED spoiled
        BY <1>8 DEF WriteEntry, Fault
    <2>3. file \in Files(n)
        BY <2>1
    <2>4. ~ \E now \in Files(n) \ {file} : now[1] = file[1]
        BY <2>3, NamesDiffer DEF IInv
    <2>5. listed'[n] = listed[n] \ {file}
        BY <1>3, <2>2
    <2>6. CASE /\ entries' = [entries EXCEPT ![n] = @ \cup {file}]
               /\ UNCHANGED <<stage, spoiled>>
        <3>1. entries'[n] = entries[n] \cup {file}
            BY <1>3, <2>6
        <3>2. listed'[n] \cup entries'[n] = Hashed(n)
            BY <2>1, <2>5, <3>1
        <3>3. QED
            BY <1>1, <1>2, <2>1, <2>6, <3>2
    <2>7. CASE stage' = [stage EXCEPT ![n] = "broken"] /\ UNCHANGED spoiled
        BY <1>1, <1>3, <2>1, <2>7
    <2>8. QED
        BY <2>2, <2>3, <2>4, <2>6, <2>7
<1>9. CASE Close(n)
    <2>1. /\ stage[n] = "writing" /\ stage'[n] = "whole" /\ listed[n] = {}
          /\ UNCHANGED <<uploaded, spoiled>>
        BY <1>3, <1>9 DEF Close, Fault
    <2>2. \/ UNCHANGED <<entries, truncated>>
          \/ entries'[n] \subseteq entries[n] /\ truncated' = truncated \cup {n}
        BY <1>3, <1>9 DEF Close
    <2>3. QED
        BY <1>1, <2>1, <2>2
<1>10. CASE Upload(n)
    <2>1. /\ stage[n] = "whole" /\ stage'[n] \in {"uploaded", "unsent"}
          /\ UNCHANGED <<truncated, spoiled>>
          /\ uploaded'[n] \subseteq uploaded[n] \cup {entries[n]}
        BY <1>3, <1>10 DEF Upload
    <2>2. QED
        BY <1>1, <2>1
<1>11. CASE Remove(n)
    <2>1. stage'[n] \in {"removed", "broken"} /\ UNCHANGED <<truncated, uploaded, spoiled>>
        BY <1>3, <1>11 DEF Remove, Fault
    <2>2. QED
        BY <1>1, <2>1
<1>12. CASE Build(n)
    <2>1. stage'[n] \in {"built", "broken"} /\ UNCHANGED <<truncated, uploaded, spoiled>>
        BY <1>3, <1>12 DEF Build
    <2>2. QED
        BY <1>1, <2>1
<1>13. CASE Reset(n)
    <2>1. stage'[n] \in {"done", "failed"} /\ UNCHANGED <<truncated, uploaded, spoiled>>
        BY <1>3, <1>13 DEF Reset, Fault
    <2>2. QED
        BY <1>1, <2>1
<1>14. QED
    BY <1>4, <1>5, <1>6, <1>7, <1>8, <1>9, <1>10, <1>11, <1>12, <1>13 DEF Visit

\* The three conjuncts about the archives' contents.
LEMMA VisitPacks ==
    ASSUME IInv, NEW n \in Nodes, Visit(n), OnlyAt(n)
    PROVE  FilesInv' /\ ArchiveIsHashed' /\ SpoiledIsNested'
<1>1. \A k \in Nodes : WellNested(k) => FilesAt(k)
    BY DEF IInv, FilesInv, ArchiveIsHashed, SpoiledIsNested, FilesAt
<1>2. \A k \in Nodes : (WellNested(k)' <=> WellNested(k)) /\ Hashed(k)' = Hashed(k)
    BY PlanStays
<1>3. ASSUME NEW k \in Nodes, WellNested(k) PROVE FilesAt(k)'
    <2>1. CASE k = n
        BY <1>1, <1>3, <2>1, PacksHashed
    <2>2. CASE k # n /\ stage[k] \in Ended
        BY <1>1, <1>2, <1>3, <2>2 DEF OnlyAt, FilesAt, Ended
    <2>3. CASE k # n /\ stage[k] \notin Ended
        <3>1. Files(k)' = Files(k)
            BY <1>3, <2>3, OthersFilesStay
        <3>2. QED
            BY <1>1, <1>2, <1>3, <2>3, <3>1 DEF OnlyAt, FilesAt, plan
    <2>4. QED
        BY <2>1, <2>2, <2>3
<1>4. spoiled' \subseteq Nodes
    BY DEF IInv, TypeOK, OnlyAt
<1>5. QED
    BY <1>2, <1>3, <1>4 DEF FilesInv, ArchiveIsHashed, SpoiledIsNested, FilesAt

-----------------------------------------------------------------------------
(* The Dockerfile and the archive of an image while no file operation      *)
(* fails.                                                                  *)

\* ReplaceInFile edits a clean Dockerfile and leaves an edited one; ResetFile
\* undoes it.
LEMMA EditsUndone ==
    ASSUME NEW n \in Nodes
    PROVE  /\ Replaced(Clean(n)) = RefOf(n)
           /\ Replaced(RefOf(n)) = RefOf(n)
           /\ ResetRefs(RefOf(n)) = Clean(n)
<1>1. \A p : CurrentRef(p) # Placeholder
    BY DEF CurrentRef, Placeholder
<1>2. Replaced(Clean(n)) = RefOf(n)
    BY DEF Replaced, Clean, RefOf
<1>3. Replaced(RefOf(n)) = RefOf(n)
    BY <1>1 DEF Replaced, RefOf
<1>4. ResetRefs(RefOf(n)) = Clean(n)
    BY DEF ResetRefs, Clean, RefOf
<1>5. QED
    BY <1>2, <1>3, <1>4

\* The stages of a visitor with what happens to the Dockerfile.
Moves(n) ==
    \/ /\ stage[n] = "waiting" /\ refs'[n] = refs[n]
       /\ n \in needs => stage'[n] = "failed"
       /\ stage'[n] \in Ended
    \/ stage[n] = "waiting" /\ stage'[n] = "replaced" /\ refs'[n] = Replaced(refs[n])
    \/ stage[n] \in Working /\ stage'[n] \in Working /\ refs'[n] = refs[n]
    \/ stage[n] \in Working /\ stage'[n] \in Ended /\ refs'[n] = ResetRefs(refs[n])
    \/ faults' # 0

\* A failed file operation is counted.
LEMMA FaultCounts == ASSUME TypeOK, Fault PROVE faults' # 0
    BY DEF TypeOK, Fault

LEMMA VisitMoves ==
    ASSUME TypeOK, ShapeInv, NEW n \in Nodes, Visit(n)
    PROVE  Moves(n)
<1> USE DEF At, To, disk, plan, archiving, history
<1> HIDE DEF Fault
<1>1. /\ n \in DOMAIN stage /\ n \in DOMAIN refs
      /\ Fault => faults' # 0
    BY FaultCounts DEF TypeOK, ShapeInv
<1>2. CASE Skip(n)
    BY <1>1, <1>2 DEF Skip, CanVisit, Moves, Ended
<1>3. CASE Replace(n)
    BY <1>1, <1>3 DEF Replace, CanVisit, Moves
<1>4. CASE List(n)
    BY <1>1, <1>4 DEF List, Moves, Working
<1>5. CASE Create(n)
    BY <1>1, <1>5 DEF Create, Moves, Working
<1>6. CASE WriteEntry(n)
    <2>1. stage[n] = "writing" /\ refs' = refs
        BY <1>6 DEF WriteEntry
    <2>2. stage' = stage \/ stage' = [stage EXCEPT ![n] = "broken"]
        BY <1>6 DEF WriteEntry
    <2>3. QED
        BY <1>1, <2>1, <2>2 DEF Moves, Working
<1>7. CASE Close(n)
    BY <1>1, <1>7 DEF Close, Moves, Working
<1>8. CASE Upload(n)
    BY <1>1, <1>8 DEF Upload, Moves, Working
<1>9. CASE Remove(n)
    BY <1>1, <1>9 DEF Remove, Moves, Working
<1>10. CASE Build(n)
    BY <1>1, <1>10 DEF Build, Moves, Working
<1>11. CASE Reset(n)
    BY <1>1, <1>11 DEF Reset, Moves, Working, Ended
<1>12. QED
    BY <1>2, <1>3, <1>4, <1>5, <1>6, <1>7, <1>8, <1>9, <1>10, <1>11 DEF Visit

\* A visitor that goes on without having removed its archive has given up on it.
LEMMA VisitKeepsPacking ==
    ASSUME IInv, NEW n \in Nodes, Visit(n), OnlyAt(n)
    PROVE  PackingInv'
<1>1. SUFFICES ASSUME faults' = 0, NEW a \in archives', IsOwn(a)
               PROVE  \/ stage'[a[1]] \in Packing
                      \/ a[1] \in spoiled' /\ stage'[a[1]] \in {"broken", "failed"}
    BY ArchivesLeft DEF PackingInv, Packing
<1>2. faults = 0 /\ ~Fault
    BY <1>1, FaultCounts DEF IInv, TypeOK, OnlyAt
<1>3. CASE a[1] # n
    <2>1. a \in archives /\ a[1] \in Nodes
        BY <1>3, ArchivesLeft DEF IInv, TypeOK
    <2>2. QED
        BY <1>1, <1>2, <1>3, <2>1 DEF IInv, PackingInv, OnlyAt
<1>4. CASE a[1] = n
    <2> USE DEF At, To, disk, plan, archiving, history, Packing
    <2> HIDE DEF Fault
    <2>1. n \in DOMAIN stage
        BY DEF IInv, TypeOK
    <2>2. ASSUME a \in archives
          PROVE  /\ stage[n] \in {"writing", "whole", "uploaded", "unsent"}
                        \/ (n \in spoiled /\ stage[n] \in {"broken", "failed"})
        BY <1>1, <1>2, <1>4, <2>2 DEF IInv, PackingInv
    <2>3. CASE Skip(n)
        BY <1>1, <2>2, <2>3 DEF Skip, CanVisit
    <2>4. CASE Replace(n)
        BY <1>1, <1>2, <2>2, <2>4 DEF Replace, CanVisit
    <2>5. CASE List(n)
        BY <1>1, <1>2, <2>2, <2>5 DEF List
    <2>6. CASE Create(n)
        BY <1>2, <1>4, <2>1, <2>6 DEF Create
    <2>7. CASE WriteEntry(n)
        <3>1. stage[n] = "writing"
            BY <2>7 DEF WriteEntry
        <3>2. \/ stage' = stage
              \/ stage' = [stage EXCEPT ![n] = "broken"] /\ spoiled' = spoiled \cup {n}
            <4>1. ~(faults' = faults + 1)
                BY <1>1 DEF IInv, TypeOK
            <4>2. QED
                BY <2>7, <4>1 DEF WriteEntry, Fault
        <3>3. QED
            BY <1>4, <2>1, <3>1, <3>2
    <2>8. CASE Close(n)
        BY <1>4, <2>1, <2>8 DEF Close
    <2>9. CASE Upload(n)
        BY <1>4, <2>1, <2>9 DEF Upload
    <2>10. CASE Remove(n)
        <3>1. archives' = Others(n)
            BY <1>2, <2>10 DEF Remove
        <3>2. a \in archives /\ a = <<n, CurrentRef(n), a[3]>> /\ a[3] \in {"partial", "whole"}
            BY <1>1, <1>4, <3>1 DEF IInv, ArchivesInv, TypeOK, IsOwn, Others
        <3>3. QED
            BY <1>1, <3>1, <3>2 DEF Others, Archive
    <2>11. CASE Build(n)
        BY <1>1, <2>2, <2>11 DEF Build
    <2>12. CASE Reset(n)
        <3>1. stage[n] \in {"built", "broken"} /\ UNCHANGED <<archives, spoiled>>
              /\ stage' = [stage EXCEPT ![n] = IF stage[n] = "built" THEN "done" ELSE "failed"]
            BY <1>2, <2>12 DEF Reset
        <3>2. QED
            BY <1>1, <1>4, <2>1, <2>2, <3>1
    <2>13. QED
        BY <2>3, <2>4, <2>5, <2>6, <2>7, <2>8, <2>9, <2>10, <2>11, <2>12 DEF Visit
<1>5. QED
    BY <1>3, <1>4

LEMMA VisitRestores ==
    ASSUME IInv, NEW n \in Nodes, Visit(n), OnlyAt(n)
    PROVE  RestoredInv'
<1>1. SUFFICES ASSUME faults' = 0, crashes' = 0 PROVE RestoredInv'
    BY DEF RestoredInv
<1>2. faults = 0 /\ crashes = 0
    BY <1>1 DEF OnlyAt, IInv, TypeOK
<1>3. /\ Left' = Left /\ \A m : RefOf(m)' = RefOf(m) /\ Fresh(m)' = Fresh(m)
      /\ \A m : Clean(m)' = Clean(m)
    BY ArchivesLeft, PlanStays DEF Fresh, Clean
<1>4. \A m \in Nodes : Fresh(m)
    BY <1>2 DEF IInv, RestoredInv
<1>5. \A a \in Left : a[1] \in spoiled'
    BY <1>2 DEF IInv, RestoredInv, OnlyAt
<1>6. ASSUME NEW m \in Nodes
      PROVE  refs'[m] = IF stage'[m] \in Working THEN RefOf(m) ELSE Clean(m)
    <2>1. refs[m] = IF stage[m] \in Working THEN RefOf(m) ELSE Clean(m)
        BY <1>2 DEF IInv, RestoredInv
    <2>2. CASE m # n
        BY <2>1, <2>2 DEF OnlyAt
    <2>3. CASE m = n
        <3>1. Moves(n)
            BY VisitMoves DEF IInv
        <3>2. QED
            BY <1>1, <2>1, <2>3, <3>1, EditsUndone DEF Moves, Working, Ended
    <2>4. QED
        BY <2>2, <2>3
<1>7. QED
    BY <1>3, <1>4, <1>5, <1>6 DEF RestoredInv

LEMMA VisitHeals ==
    ASSUME IInv, NEW n \in Nodes, Visit(n), OnlyAt(n)
    PROVE  HealInv'
<1>1. SUFFICES ASSUME Healing' PROVE HealInv'
    BY DEF HealInv
<1>2. Healing /\ faults' = 0 /\ phase = "on" /\ UNCHANGED <<phase, needs, versions, crashes>>
    BY <1>1 DEF Healing, Apart, OnlyAt, plan, IInv, TypeOK
<1>3. \A m : /\ RefOf(m)' = RefOf(m) /\ Fresh(m)' = Fresh(m) /\ Clean(m)' = Clean(m)
             /\ Above(m)' = Above(m) /\ CleanVersions(m)' = CleanVersions(m)
    BY <1>2, PlanStays DEF Fresh, Clean, Above, CleanVersions
<1>4. ASSUME NEW m \in Nodes
      PROVE  \/ refs'[m] = Clean(m) /\ stage'[m] \notin Working
             \/ refs'[m] = RefOf(m) /\ stage'[m] \in Working
             \/ refs'[m] = RefOf(m) /\ ~Fresh(m) /\ stage'[m] \in {"waiting", "failed"}
    <2>1. \/ refs[m] = Clean(m) /\ stage[m] \notin Working
          \/ refs[m] = RefOf(m) /\ stage[m] \in Working
          \/ refs[m] = RefOf(m) /\ ~Fresh(m) /\ stage[m] \in {"waiting", "failed"}
        BY <1>2 DEF IInv, HealInv
    <2>2. CASE m # n
        BY <2>1, <2>2 DEF OnlyAt
    <2>3. CASE m = n
        <3>1. Moves(n) /\ (~Fresh(n) => n \in needs)
            BY <1>2, VisitMoves DEF IInv, HealInv
        <3>2. QED
            BY <1>2, <2>1, <2>3, <3>1, EditsUndone DEF Moves, Working, Ended
    <2>4. QED
        BY <2>2, <2>3
<1>5. /\ \A m \in Nodes : ~Fresh(m) => (\A a \in Above(m) : Fresh(a)) /\ m \in needs
      /\ \A m \in Nodes : crashes = 0 \/ ~Fresh(m) => CleanVersions(m)
    BY <1>2 DEF IInv, HealInv
<1>6. QED
    BY <1>2, <1>3, <1>4, <1>5 DEF HealInv

\* A step of a visitor keeps the invariant.
LEMMA VisitHolds ==
    ASSUME IInv, NEW n \in Nodes, Visit(n)
    PROVE  IInv'
<1>1. OnlyAt(n) /\ ShapeInv'
    BY VisitIsLocal DEF IInv
<1>2. TypeOK' /\ EdgeInv' /\ ArchivesInv' /\ OwnInv' /\ HashInv' /\ PhaseInv' /\ NeedsInv'
    BY <1>1, VisitKeeps
<1>3. FilesInv' /\ ArchiveIsHashed' /\ SpoiledIsNested'
    BY <1>1, VisitPacks
<1>4. PackingInv' /\ RestoredInv' /\ HealInv'
    BY <1>1, VisitKeepsPacking, VisitRestores, VisitHeals
<1>5. QED
    BY <1>1, <1>2, <1>3, <1>4 DEF IInv

-----------------------------------------------------------------------------
(* A run begins.                                                           *)

\* The ancestors of an image include its parents, and their parents.
LEMMA AboveIsClosed ==
    ASSUME NEW n \in Nodes
    PROVE  ParentsOf(n) \subseteq Above(n) /\ \A a \in Above(n) : ParentsOf(a) \subseteq Above(n)
<1>1. ParentsOf(n) \subseteq Above(n)
    BY ParentsAreNodes DEF Above
<1>2. ASSUME NEW a \in Above(n), NEW p \in ParentsOf(a)
      PROVE  p \in Above(n)
    <2>1. p \in Nodes
        BY ParentsAreNodes DEF Above
    <2>2. ASSUME NEW S \in SUBSET Nodes, ParentsOf(n) \subseteq S, \A x \in S : ParentsOf(x) \subseteq S
          PROVE  p \in S
        BY <1>2, <2>2 DEF Above
    <2>3. QED
        BY <2>1, <2>2 DEF Above
<1>3. QED
    BY <1>1, <1>2

\* An image is not visited before its ancestors are done.
LEMMA AncestorsAreDone ==
    ASSUME TypeOK, EdgeInv, NEW n \in Nodes, stage[n] # "waiting"
    PROVE  \A a \in Above(n) : stage[a] \in Ended
<1> DEFINE S == {x \in Nodes : stage[x] \in Ended}
<1>1. S \in SUBSET Nodes
    OBVIOUS
<1>2. ParentsOf(n) \subseteq S
    BY ParentsAreNodes DEF EdgeInv
<1>3. \A x \in S : ParentsOf(x) \subseteq S
    BY ParentsAreNodes DEF EdgeInv, Ended
<1>4. \A x \in S : stage[x] \in Ended
    OBVIOUS
<1> HIDE DEF S
<1>5. QED
    BY <1>1, <1>2, <1>3, <1>4 DEF Above

\* Settings of --force-rebuild that do not differ.
LEMMA OneForce ==
    /\ {} # BOOLEAN
    /\ \A force \in BOOLEAN :
        /\ {force} # BOOLEAN
        /\ \A F \in SUBSET BOOLEAN :
            {force} \cup F # BOOLEAN => F # BOOLEAN /\ (F # {} => F = {force})
<1>1. \A S : TRUE \in S /\ FALSE \in S /\ S \in SUBSET BOOLEAN <=> S = BOOLEAN
    BY Zenon
<1>2. {} # BOOLEAN
    BY <1>1
<1>3. ASSUME NEW force \in BOOLEAN
      PROVE  {force} # BOOLEAN
    BY <1>1, <1>3, Zenon
<1>4. ASSUME NEW force \in BOOLEAN, NEW F \in SUBSET BOOLEAN, {force} \cup F # BOOLEAN
      PROVE  F # BOOLEAN /\ (F # {} => F = {force})
    <2>1. {force} \cup F \in SUBSET BOOLEAN
        OBVIOUS
    <2>2. F # BOOLEAN
        BY <1>1, <1>4, <2>1
    <2>3. ASSUME NEW x \in F, x # force
          PROVE  FALSE
        <3>1. x \in BOOLEAN
            OBVIOUS
        <3>2. TRUE \in {x, force} /\ FALSE \in {x, force}
            BY <2>3, <3>1, Zenon
        <3>3. QED
            BY <1>1, <1>4, <2>1, <2>3, <3>2
    <2>4. QED
        BY <2>2, <2>3
<1>5. QED
    BY <1>2, <1>3, <1>4

\* What Start gives the variables it changes.
Started ==
    /\ phase # "on" /\ phase' = "on" /\ runs' \in Nat /\ Events' <= MaxEvents
    /\ \A n \in Nodes : hash'[n] = [files |-> Files(n), bases |-> {hash'[p] : p \in ParentsOf(n)}]
    /\ \A n \in Nodes : hash'[n] = Hashes[n] /\ Began(n)' = refs[n]
    /\ \E force \in BOOLEAN :
        /\ needs' = {n \in Nodes : force \/ <<n, hash'[n]>> \notin versions}
        /\ forces' = {force} \cup (IF crashes = 0 THEN {} ELSE forces)
    /\ stage' = [n \in Nodes |-> "waiting"]
    /\ listed' = [n \in Nodes |-> {}]
    /\ entries' = [n \in Nodes |-> {}]
    /\ truncated' = {}
    /\ uploaded' = [n \in Nodes |-> {}]
    /\ UNCHANGED <<inside, refs, archives, versions, faults, crashes, spoiled>>
    /\ \A n : Files(n)' = Files(n) /\ Context(n)' = Context(n)

LEMMA StartStarts ==
    ASSUME TypeOK, Start
    PROVE  Started
<1>1. UNCHANGED <<inside, refs, archives, versions, faults, crashes, spoiled>>
    BY DEF Start, disk, history
<1>2. \A n : Files(n)' = Files(n) /\ Context(n)' = Context(n)
    BY <1>1 DEF Files, Context
<1>3. hash' = Hashes
    BY DEF Start
<1>4. \A n \in Nodes : Hashes[n] = [files |-> Files(n), bases |-> {Hashes[p] : p \in ParentsOf(n)}]
    BY HashesSolve DEF Solves
<1>5. \A n \in Nodes : hash'[n] = [files |-> Files(n), bases |-> {hash'[p] : p \in ParentsOf(n)}]
    BY <1>3, <1>4
<1>6. ASSUME NEW n \in Nodes PROVE Began(n)' = refs[n]
    <2>1. hash'[n].files = Files(n)
        <3>1. hash'[n] = [files |-> Files(n), bases |-> {hash'[p] : p \in ParentsOf(n)}]
            BY <1>5
        <3>2. QED
            BY <3>1
    <2>2. (CHOOSE f \in hash'[n].files : f[1] = <<"Dockerfile", n>>)[2] = refs[n]
        BY <2>1, DockerfileFound
    <2>3. QED
        BY <2>2 DEF Began
<1>7. runs' \in Nat /\ Events' <= MaxEvents
    BY <1>1, BoundsAssumption DEF TypeOK, Start, Events
<1>8. QED
    BY <1>1, <1>2, <1>3, <1>5, <1>6, <1>7 DEF Start, Started

\* No archive on the disk has the name of one of the run that begins.
LEMMA StartOwnsNone ==
    ASSUME IInv, Started
    PROVE  ArchivesInv' /\ OwnInv' /\ Left' = archives
<1> USE DEF Started
<1>1. \A n \in Nodes : hash'[n].files = Files(n)
    <2>1. SUFFICES ASSUME NEW n \in Nodes PROVE hash'[n].files = Files(n)
        OBVIOUS
    <2>2. hash'[n] = [files |-> Files(n), bases |-> {hash'[p] : p \in ParentsOf(n)}]
        OBVIOUS
    <2>3. QED
        BY <2>2
<1>2. ASSUME NEW n \in Nodes, Holds(hash'[n], n) PROVE FALSE
    <2>1. PICK f \in Files(n) : \E kind \in {"dev", "version"} : f[1] = <<"archive", n, <<kind, hash'[n]>>>>
        BY <1>1, <1>2 DEF Holds
    <2>2. PICK kind \in {"dev", "version"} : f[1] = <<"archive", n, <<kind, hash'[n]>>>>
        BY <2>1
    <2>3. PICK a \in archives : a[1] = n /\ a[2] = <<kind, hash'[n]>>
        BY <2>2, ArchivesOf
    <2>4. a[2][2] = hash'[n]
        BY <2>3
    <2>5. QED
        BY <1>2, <2>3, <2>4 DEF IInv, ArchivesInv
<1>3. ArchivesInv'
    <2>1. \A n \in Nodes : ~Holds(hash'[n], n)
        BY <1>2
    <2>2. QED
        BY <2>1 DEF IInv, ArchivesInv
<1>4. ASSUME NEW a \in archives, IsOwn(a)' PROVE FALSE
    <2>1. a[1] \in Nodes /\ a[1] \in Context(a[1])
        BY DEF IInv, TypeOK, Context
    <2>2. PICK kind \in {"dev", "version"} : a[2] = <<kind, hash'[a[1]]>>
        BY <1>4 DEF IsOwn, CurrentRef
    <2>3. ArchiveFile(a) \in Files(a[1])
        BY <2>1 DEF Files, ArchiveFile
    <2>4. ArchiveFile(a)[1] = <<"archive", a[1], a[2]>>
        BY DEF ArchiveFile
    <2>5. Holds(hash'[a[1]], a[1])
        BY <1>1, <2>1, <2>2, <2>3, <2>4 DEF Holds
    <2>6. QED
        BY <1>2, <2>1, <2>5
<1>5. OwnInv'
    BY <1>4 DEF OwnInv
<1>6. Left' = archives
    BY <1>4 DEF Left
<1>7. QED
    BY <1>3, <1>5, <1>6

\* While no file operation has failed, an image that has neither images inside
\* nor a visitor at work has no archive of the run.
LEMMA NoArchiveLeft ==
    ASSUME IInv, faults = 0, NEW n \in Nodes, inside[n] = {}, stage[n] \notin Working
    PROVE  \A a \in archives : a[1] = n => a \in Left
<1>1. WellNested(n)
    BY DEF WellNested
<1>2. n \notin spoiled
    BY <1>1 DEF IInv, SpoiledIsNested
<1>3. QED
    BY <1>2 DEF IInv, PackingInv, Packing, Working, Left

\* Apart, the ancestors of an edited Dockerfile are what they were, so that the
\* next run finds the same hashes for them.
LEMMA AncestorsKeepHashes ==
    ASSUME IInv, Healing, NEW n \in Nodes,
           \A a \in Above(n) : Fresh(a) /\ refs[a] = Clean(a) /\ stage[a] \notin Working
    PROVE  \A a \in Above(n) : Hashes[a] = hash[a]
<1>1. Above(n) \in SUBSET Nodes
    BY DEF Above
<1>2. ASSUME NEW a \in Above(n)
      PROVE  hash[a] = [files |-> Files(a), bases |-> {hash[p] : p \in ParentsOf(a)}]
    <2>1. Context(a) = {a} /\ inside[a] = {} /\ a \in Nodes
        BY <1>1 DEF Healing, Apart, Context
    <2>2. Files(a) = {<<<<"Dockerfile", m>>, refs[m]>> : m \in Context(a)} \cup
                     {ArchiveFile(b) : b \in {c \in archives : c[1] \in Context(a)}}
        BY DEF Files, ArchiveFile
    <2>3. {c \in archives : c[1] \in Context(a)} = {c \in Left : c[1] \in Context(a)}
        <3>1. \A c \in archives : c[1] = a => c \in Left
            BY <2>1, NoArchiveLeft DEF Healing
        <3>2. QED
            BY <2>1, <3>1 DEF Left
    <2>4. {<<<<"Dockerfile", m>>, refs[m]>> : m \in Context(a)} =
          {<<<<"Dockerfile", m>>, Began(m)>> : m \in Context(a)}
        BY <2>1 DEF Fresh
    <2>5. QED
        BY <2>1, <2>2, <2>3, <2>4 DEF IInv, HashInv
<1>3. Solves(Above(n), hash)
    BY <1>2, AboveIsClosed DEF Solves
<1>4. QED
    BY <1>1, <1>3, HashesAreThese

\* A Dockerfile the killed run has left edited has what the next one would write.
LEMMA StartHeals ==
    ASSUME IInv, Started, Healing'
    PROVE  HealInv'
<1> USE DEF Started
<1>0. Healing
    <2>1. forces # BOOLEAN
        BY OneForce DEF Healing, IInv, TypeOK, NeedsInv
    <2>2. QED
        BY <2>1 DEF Healing, Apart
<1>1. faults = 0 /\ crashes <= 1 /\ crashes \in Nat
    BY <1>0 DEF Healing, IInv, TypeOK
<1>2. ASSUME NEW n \in Nodes
      PROVE  \/ refs[n] = Clean(n) /\ stage[n] \notin Working
             \/ refs[n] = RefOf(n) /\ stage[n] \in Working
             \/ refs[n] = RefOf(n) /\ ~Fresh(n) /\ stage[n] \in {"waiting", "failed"}
    BY <1>0 DEF IInv, HealInv
<1>3. phase = "idle" => \A n \in Nodes : refs[n] = Clean(n)
    BY <1>1 DEF IInv, RestoredInv, PhaseInv
<1>4. phase \in {"ok", "kept"} => \A n \in Nodes : refs[n] = Clean(n)
    BY <1>2 DEF IInv, PhaseInv, Working
<1>5. phase \in {"error", "crashed"} \/ \A n \in Nodes : refs[n] = Clean(n)
    BY <1>3, <1>4 DEF IInv, TypeOK
<1>6. ASSUME NEW n \in Nodes, refs[n] # Clean(n)
      PROVE  /\ refs[n] = RefOf(n)
             /\ \A a \in Above(n) : Fresh(a) /\ refs[a] = Clean(a) /\ stage[a] \notin Working
             /\ CleanVersions(n)
    <2>1. \A a \in Above(n) : a \in Nodes
        BY DEF Above
    <2>2. CASE phase = "crashed"
        <3>1. \A m \in Nodes : Fresh(m) /\ CleanVersions(m)
            BY <1>0, <2>2 DEF IInv, HealInv
        <3>2. refs[n] = RefOf(n) /\ stage[n] \in Working
            BY <1>2, <1>6, <3>1
        <3>3. \A a \in Above(n) : stage[a] \in Ended
            BY <3>2, AncestorsAreDone DEF IInv, Working
        <3>4. \A a \in Above(n) : stage[a] \notin Working
            BY <3>3 DEF Ended, Working
        <3>5. QED
            BY <1>2, <2>1, <3>1, <3>2, <3>4
    <2>3. CASE phase = "error"
        <3>1. \A m \in Nodes : stage[m] \notin Working
            BY <2>3 DEF IInv, PhaseInv
        <3>2. refs[n] = RefOf(n) /\ ~Fresh(n)
            BY <1>2, <1>6, <3>1
        <3>3. Unfinished
            BY <1>2, <1>6, <3>1 DEF Unfinished
        <3>4. CleanVersions(n) /\ \A a \in Above(n) : Fresh(a)
            BY <1>0, <2>3, <3>2, <3>3 DEF IInv, HealInv
        <3>5. QED
            BY <1>2, <2>1, <3>1, <3>2, <3>4
    <2>4. QED
        BY <1>5, <1>6, <2>2, <2>3
<1>7. ASSUME NEW n \in Nodes, refs[n] # Clean(n)
      PROVE  RefOf(n)' = RefOf(n)
    <2>1. phase \in {"error", "crashed"}
        BY <1>5, <1>7
    <2>2. Unfinished
        BY <1>2, <1>7 DEF Unfinished, Working
    <2>3. PICK force \in BOOLEAN :
            /\ needs' = {m \in Nodes : force \/ <<m, hash'[m]>> \notin versions}
            /\ forces' = {force} \cup (IF crashes = 0 THEN {} ELSE forces)
        OBVIOUS
    <2>4. crashes # 0
        BY <1>1, <1>7, <2>1 DEF IInv, RestoredInv, PhaseInv
    <2>5. forces = {force}
        <3>1. forces \in SUBSET BOOLEAN /\ forces # {} /\ {force} \cup forces # BOOLEAN
            BY <2>1, <2>3, <2>4 DEF Healing, IInv, TypeOK, NeedsInv
        <3>2. QED
            BY <3>1, OneForce
    <2>6. \A a \in Above(n) : Hashes[a] = hash[a]
        BY <1>0, <1>6, <1>7, AncestorsKeepHashes
    <2>7. \A p \in ParentsOf(n) : p \in Nodes /\ hash'[p] = hash[p]
        BY <2>6, AboveIsClosed, ParentsAreNodes
    <2>8. \A p \in ParentsOf(n) : p \in needs' <=> p \in needs
        <3>1. CASE force = TRUE
            <4>1. needs = Nodes
                BY <2>1, <2>5, <3>1 DEF IInv, NeedsInv
            <4>2. needs' = Nodes
                BY <2>3, <3>1
            <4>3. QED
                BY <4>1, <4>2
        <3>2. CASE force = FALSE
            <4>1. forces = {FALSE}
                BY <2>5, <3>2
            <4>2. \A m \in Nodes : m \in needs <=> <<m, hash[m]>> \notin versions
                BY <2>1, <2>2, <4>1 DEF IInv, NeedsInv
            <4>3. needs' = {m \in Nodes : <<m, hash'[m]>> \notin versions}
                BY <2>3, <3>2
            <4>4. QED
                BY <2>7, <4>2, <4>3
        <3>3. QED
            BY <3>1, <3>2
    <2>9. \A p \in ParentsOf(n) : CurrentRef(p)' = CurrentRef(p)
        BY <2>7, <2>8 DEF CurrentRef
    <2>10. QED
        BY <2>9 DEF RefOf
<1>8. \A n \in Nodes : Fresh(n)' <=> refs[n] = Clean(n)
    BY DEF Fresh, Clean
<1>9. ASSUME NEW n \in Nodes, refs[n] # Clean(n)
      PROVE  n \in needs'
    <2>1. SUFFICES ASSUME <<n, hash'[n]>> \in versions PROVE FALSE
        OBVIOUS
    <2>2. <<<<"Dockerfile", n>>, refs[n]>> \in Files(n)
        BY DEF Files, Context
    <2>3. hash'[n].files = Files(n)
        <3>1. hash'[n] = [files |-> Files(n), bases |-> {hash'[p] : p \in ParentsOf(n)}]
            OBVIOUS
        <3>2. QED
            BY <3>1
    <2>4. CleanVersions(n)
        BY <1>6, <1>9
    <2>5. QED
        BY <1>9, <2>1, <2>2, <2>3, <2>4 DEF CleanVersions
<1>10. \A n \in Nodes : CleanVersions(n)' <=> CleanVersions(n)
    BY DEF CleanVersions, Clean
<1>11. ASSUME NEW n \in Nodes, crashes = 0 \/ refs[n] # Clean(n)
       PROVE  CleanVersions(n)
    BY <1>0, <1>6, <1>11 DEF IInv, HealInv
<1>12. ASSUME NEW n \in Nodes, refs[n] # Clean(n)
       PROVE  \A a \in Above(n)' : a \in Nodes /\ refs[a] = Clean(a)
    BY <1>6, <1>12 DEF Above
<1>13. \A n \in Nodes : \/ refs[n] = Clean(n) /\ stage'[n] = "waiting"
                        \/ refs[n] = RefOf(n)' /\ refs[n] # Clean(n) /\ stage'[n] = "waiting"
    BY <1>6, <1>7
<1>14. \A n : Clean(n)' = Clean(n)
    BY DEF Clean
<1>15. QED
    BY <1>8, <1>9, <1>10, <1>11, <1>12, <1>13, <1>14 DEF HealInv, Working

\* The step that begins a run keeps the invariant.
LEMMA StartHolds ==
    ASSUME IInv, Start
    PROVE  IInv'
<1>1. Started
    BY StartStarts DEF IInv
<1> USE DEF Started
<1>2. TypeOK' /\ ShapeInv' /\ EdgeInv' /\ PhaseInv'
    BY <1>1 DEF IInv, TypeOK, ShapeInv, EdgeInv, PhaseInv, Stages
<1>3. ArchivesInv' /\ OwnInv' /\ Left' = archives
    BY <1>1, StartOwnsNone
<1>4. HashInv'
    <2>1. SUFFICES ASSUME NEW n \in Nodes
                   PROVE  Files(n) = {<<<<"Dockerfile", m>>, Began(m)'>> : m \in Context(n)} \cup
                                     {ArchiveFile(a) : a \in {b \in archives : b[1] \in Context(n)}}
        BY <1>1, <1>3 DEF HashInv
    <2>2. Context(n) \subseteq Nodes
        BY LayoutsAssumption DEF IInv, TypeOK, Context
    <2>3. {<<<<"Dockerfile", m>>, Began(m)'>> : m \in Context(n)} =
          {<<<<"Dockerfile", m>>, refs[m]>> : m \in Context(n)}
        BY <1>1, <2>2
    <2>4. QED
        BY <2>3 DEF Files, ArchiveFile
<1>5. \A n \in Nodes : hash'[n].files = Files(n)
    <2>1. SUFFICES ASSUME NEW n \in Nodes PROVE hash'[n].files = Files(n)
        OBVIOUS
    <2>2. hash'[n] = [files |-> Files(n), bases |-> {hash'[p] : p \in ParentsOf(n)}]
        BY <1>1
    <2>3. QED
        BY <2>2
<1>6. FilesInv' /\ ArchiveIsHashed'
    BY <1>1, <1>5 DEF FilesInv, ArchiveIsHashed
<1>7. SpoiledIsNested'
    BY <1>1 DEF IInv, SpoiledIsNested, WellNested, Descendants
<1>8. PackingInv'
    <2>1. ASSUME NEW a \in archives' PROVE ~IsOwn(a)'
        <3>1. a \in Left'
            BY <1>1, <1>3
        <3>2. QED
            BY <3>1 DEF Left
    <2>2. QED
        BY <2>1 DEF PackingInv
<1>9. RestoredInv'
    <2>1. SUFFICES ASSUME faults = 0, crashes = 0 PROVE RestoredInv'
        BY <1>1 DEF RestoredInv
    <2>2. \A n \in Nodes : stage[n] \notin Working
        BY <1>1, <2>1 DEF IInv, PhaseInv
    <2>3. \A n \in Nodes : refs[n] = Clean(n) /\ Clean(n)' = Clean(n)
        BY <2>1, <2>2 DEF IInv, RestoredInv, Clean
    <2>4. \A a \in archives : a[1] \in spoiled
        <3>1. SUFFICES ASSUME NEW a \in archives PROVE a[1] \in spoiled
            OBVIOUS
        <3>2. CASE a \in Left
            BY <2>1, <3>2 DEF IInv, RestoredInv
        <3>3. CASE IsOwn(a)
            BY <2>1, <2>2, <3>3 DEF IInv, TypeOK, PackingInv, Packing, Working
        <3>4. QED
            BY <3>2, <3>3 DEF Left
    <2>5. QED
        BY <1>1, <1>3, <2>3, <2>4 DEF RestoredInv, Fresh, Working
<1>10. HealInv'
    <2>1. CASE Healing'
        BY <1>1, <2>1, StartHeals
    <2>2. CASE ~Healing'
        BY <2>2 DEF HealInv
    <2>3. QED
        BY <2>1, <2>2
<1>11. NeedsInv'
    <2>1. PICK force \in BOOLEAN :
            /\ needs' = {m \in Nodes : force \/ <<m, hash'[m]>> \notin versions}
            /\ forces' = {force} \cup (IF crashes = 0 THEN {} ELSE forces)
        BY <1>1
    <2>2. crashes' = 0 => forces' # BOOLEAN
        BY <1>1, <2>1, OneForce
    <2>3. force \in forces'
        BY <2>1
    <2>4. forces' = {TRUE} => needs' = Nodes
        BY <2>1, <2>3
    <2>5. forces' = {FALSE} => \A n \in needs' : <<n, hash'[n]>> \notin versions
        BY <2>1, <2>3
    <2>6. \A n \in Nodes \ needs' : <<n, hash'[n]>> \in versions
        BY <2>1
    <2>7. QED
        BY <1>1, <2>2, <2>3, <2>4, <2>5, <2>6 DEF NeedsInv
<1>12. QED
    BY <1>2, <1>3, <1>4, <1>6, <1>7, <1>8, <1>9, <1>10, <1>11 DEF IInv

-----------------------------------------------------------------------------
(* A run ends or is killed.                                                *)

\* What neither of them changes.
Settles ==
    /\ phase = "on"
    /\ UNCHANGED <<inside, refs, archives, hash, needs, forces, stage, listed, entries,
                   truncated, uploaded, faults, spoiled, runs>>

LEMMA SettledKeeps ==
    ASSUME IInv, Settles
    PROVE  /\ ShapeInv' /\ EdgeInv' /\ ArchivesInv' /\ OwnInv' /\ HashInv' /\ FilesInv'
           /\ PackingInv' /\ ArchiveIsHashed' /\ SpoiledIsNested'
           /\ Left' = Left
           /\ \A n : /\ Fresh(n)' = Fresh(n) /\ Clean(n)' = Clean(n) /\ RefOf(n)' = RefOf(n)
                     /\ Above(n)' = Above(n)
<1>1. UNCHANGED <<inside, refs, archives, hash, needs, stage, listed, entries, truncated,
                  uploaded, faults, spoiled>>
    BY DEF Settles
<1>2. \A n : /\ CurrentRef(n)' = CurrentRef(n) /\ Context(n)' = Context(n) /\ Files(n)' = Files(n)
             /\ Began(n)' = Began(n) /\ Above(n)' = Above(n) /\ Clean(n)' = Clean(n)
             /\ WellNested(n)' = WellNested(n)
    BY <1>1 DEF CurrentRef, Context, Files, Began, Above, Clean, WellNested, Descendants
<1>3. \A n : Hashed(n)' = Hashed(n)
    BY <1>1 DEF Hashed, Replaced, CurrentRef
<1>4. Left' = Left /\ \A a : IsOwn(a)' = IsOwn(a)
    BY <1>1, <1>2 DEF Left, IsOwn
<1>5. \A n : Fresh(n)' = Fresh(n) /\ RefOf(n)' = RefOf(n)
    BY <1>2 DEF Fresh, RefOf
<1>6. ShapeInv' /\ EdgeInv' /\ ArchivesInv' /\ OwnInv' /\ PackingInv'
    BY <1>1, <1>4 DEF IInv, ShapeInv, EdgeInv, ArchivesInv, OwnInv, PackingInv
<1>7. HashInv'
    BY <1>1, <1>2, <1>4 DEF IInv, HashInv
<1>8. FilesInv' /\ ArchiveIsHashed' /\ SpoiledIsNested'
    BY <1>1, <1>2, <1>3 DEF IInv, FilesInv, ArchiveIsHashed, SpoiledIsNested
<1>9. QED
    BY <1>2, <1>4, <1>5, <1>6, <1>7, <1>8

\* The tag of an image that was clean when the run began is of its clean Dockerfile.
LEMMA FreshTags ==
    ASSUME IInv, NEW n \in Nodes, Fresh(n), NEW f \in hash[n].files, f[1] = <<"Dockerfile", n>>
    PROVE  f[2] = Clean(n)
<1>1. hash[n] = [files |-> {<<<<"Dockerfile", m>>, Began(m)>> : m \in Context(n)} \cup
                           {ArchiveFile(a) : a \in {b \in Left : b[1] \in Context(n)}},
                 bases |-> {hash[p] : p \in ParentsOf(n)}]
    BY DEF IInv, HashInv
<1>2. hash[n].files = {<<<<"Dockerfile", m>>, Began(m)>> : m \in Context(n)} \cup
                      {ArchiveFile(a) : a \in {b \in Left : b[1] \in Context(n)}}
    BY <1>1
<1>3. \A a : ArchiveFile(a)[1] # <<"Dockerfile", n>>
    BY DEF ArchiveFile
<1>4. f = <<<<"Dockerfile", n>>, Began(n)>>
    BY <1>2, <1>3
<1>5. QED
    BY <1>4 DEF Fresh

\* A run that ends gives version tags to images it has marked, if to any, and
\* only if all images are done.
LEMMA EndHolds ==
    ASSUME IInv, End
    PROVE  IInv'
<1> DEFINE Untagged == versions' = versions /\ crashes' = crashes
           Tagging ==
             /\ \A n \in Nodes : stage[n] = "done"
             /\ \E tagged \in SUBSET needs :
                    /\ versions' = versions \cup {<<n, hash[n]>> : n \in tagged}
                    /\ phase' = "ok" => tagged = needs
             /\ \/ phase' \in {"ok", "error"} /\ crashes' = crashes
                \/ phase' = "crashed" /\ crashes' = crashes + 1 /\ Events < MaxEvents
<1>1. Settles /\ \A n \in Nodes : stage[n] \in Ended
    BY DEF End, Settles, disk, archiving
<1>2. \/ Untagged /\ phase' = "error" /\ \E n \in Nodes : stage[n] = "failed"
      \/ Untagged /\ phase' = "kept" /\ \A n \in Nodes : stage[n] = "done"
      \/ Tagging
    <2>1. CASE \E n \in Nodes : stage[n] = "failed"
        BY <2>1 DEF End
    <2>2. CASE ~(\E n \in Nodes : stage[n] = "failed")
        <3>1. Retag /\ \A n \in Nodes : stage[n] = "done"
            BY <1>1, <2>2 DEF End, Ended
        <3>2. QED
            BY <3>1 DEF Retag, Killed
    <2>3. QED
        BY <2>1, <2>2
<1> HIDE DEF Untagged, Tagging
<1>3. /\ ShapeInv' /\ EdgeInv' /\ ArchivesInv' /\ OwnInv' /\ HashInv' /\ FilesInv'
      /\ PackingInv' /\ ArchiveIsHashed' /\ SpoiledIsNested'
    BY <1>1, SettledKeeps
<1>4. /\ phase' \in {"ok", "kept", "error", "crashed"} /\ crashes' \in Nat
      /\ crashes' = crashes \/ (crashes' = crashes + 1 /\ Events < MaxEvents /\ phase' = "crashed")
      /\ phase' = "crashed" => crashes' # 0
      /\ phase' \in {"ok", "kept"} => \A n \in Nodes : stage[n] = "done"
    BY <1>2 DEF Untagged, Tagging, IInv, TypeOK
<1>5. TypeOK'
    <2>1. runs' \in Nat /\ faults' \in Nat /\ Events' <= MaxEvents
        <3>1. /\ runs \in Nat /\ faults \in Nat /\ crashes \in Nat /\ MaxEvents \in Nat
              /\ runs + faults + crashes <= MaxEvents
            BY BoundsAssumption DEF IInv, TypeOK, Events
        <3>2. runs' = runs /\ faults' = faults
            BY <1>1 DEF Settles
        <3>3. crashes' = crashes \/ (crashes' = crashes + 1 /\ runs + faults + crashes < MaxEvents)
            BY <1>4 DEF Events
        <3>4. runs + faults + crashes' <= MaxEvents
            BY <3>1, <3>3
        <3>5. QED
            BY <3>1, <3>2, <3>4 DEF Events
    <2>2. QED
        BY <1>1, <1>4, <2>1 DEF Settles, IInv, TypeOK
<1>6. PhaseInv'
    BY <1>1, <1>4 DEF Settles, PhaseInv, Ended, Working
<1>7. \A n \in Nodes \ needs : <<n, hash[n]>> \in versions
    BY <1>1 DEF Settles, IInv, NeedsInv
<1>8. versions \subseteq versions'
    BY <1>2 DEF Untagged, Tagging
<1>9. NeedsInv'
    <2>1. phase' = "ok" => \A n \in Nodes : <<n, hash[n]>> \in versions'
        <3>1. SUFFICES ASSUME phase' = "ok", NEW n \in Nodes PROVE <<n, hash[n]>> \in versions'
            OBVIOUS
        <3>2. versions' = versions \cup {<<m, hash[m]>> : m \in needs}
            BY <1>2, <3>1 DEF Tagging
        <3>3. QED
            BY <1>7, <3>2
    <2>2. forces = {FALSE} /\ Unfinished => \A n \in needs : <<n, hash[n]>> \notin versions'
        <3>1. Unfinished => versions' = versions
            BY <1>2 DEF Unfinished, Untagged, Tagging
        <3>2. QED
            BY <1>1, <3>1 DEF Settles, IInv, NeedsInv
    <2>3. /\ forces # {} /\ (forces = {TRUE} => needs = Nodes) /\ (crashes = 0 => forces # BOOLEAN)
          /\ crashes' = 0 => crashes = 0
        BY <1>1, <1>4 DEF Settles, IInv, TypeOK, NeedsInv
    <2>4. (Unfinished' <=> Unfinished) /\ phase' # "on"
        BY <1>1, <1>4 DEF Settles, Unfinished
    <2>5. QED
        BY <1>1, <1>7, <1>8, <2>1, <2>2, <2>3, <2>4 DEF Settles, NeedsInv
<1>10. RestoredInv'
    <2>1. crashes' = 0 => crashes = 0
        BY <1>4 DEF IInv, TypeOK
    <2>2. QED
        BY <1>1, <2>1, SettledKeeps DEF Settles, IInv, RestoredInv
<1>11. HealInv'
    <2>1. SUFFICES ASSUME Healing' PROVE HealInv'
        BY DEF HealInv
    <2>2. Healing /\ faults = 0 /\ crashes \in Nat /\ (crashes # crashes' => crashes = 0)
        BY <1>1, <1>4, <2>1 DEF Settles, Healing, Apart, IInv, TypeOK
    <2>3. /\ \A n \in Nodes :
                \/ refs[n] = Clean(n) /\ stage[n] \notin Working
                \/ refs[n] = RefOf(n) /\ stage[n] \in Working
                \/ refs[n] = RefOf(n) /\ ~Fresh(n) /\ stage[n] \in {"waiting", "failed"}
          /\ \A n \in Nodes : ~Fresh(n) => \A a \in Above(n) : Fresh(a)
          /\ \A n \in Nodes : ~Fresh(n) => n \in needs
          /\ \A n \in Nodes : crashes = 0 \/ ~Fresh(n) => CleanVersions(n)
        BY <1>1, <2>2 DEF Settles, IInv, HealInv
    <2>4. crashes = 0 => \A n \in Nodes : Fresh(n)
        BY <2>2 DEF IInv, RestoredInv
    <2>5. phase' = "crashed" => crashes = 0
        BY <1>2, <2>2 DEF Untagged, Tagging
    <2>6. ASSUME NEW n \in Nodes,
                 crashes' = 0 \/ phase' = "crashed" \/ (~Fresh(n) /\ Unfinished)
          PROVE  CleanVersions(n)'
        <3>1. CASE versions' = versions
            <4>1. CleanVersions(n)
                BY <1>4, <2>2, <2>3, <2>5, <2>6
            <4>2. QED
                BY <3>1, <4>1 DEF CleanVersions, Clean
        <3>2. CASE Tagging
            <4>1. ~Unfinished
                BY <3>2 DEF Tagging, Unfinished
            <4>2. crashes = 0
                BY <1>4, <2>2, <2>5, <2>6, <4>1
            <4>3. CleanVersions(n) /\ Fresh(n)
                BY <2>3, <2>4, <4>2
            <4>4. ASSUME NEW v \in versions', v[1] = n, NEW f \in v[2].files, f[1] = <<"Dockerfile", n>>
                  PROVE  f[2] = Clean(n)
                <5>1. CASE v \in versions
                    BY <4>3, <4>4, <5>1 DEF CleanVersions
                <5>2. CASE v = <<n, hash[n]>>
                    BY <4>3, <4>4, <5>2, FreshTags
                <5>3. v \in versions \/ \E m \in needs : v = <<m, hash[m]>>
                    BY <3>2 DEF Tagging
                <5>4. QED
                    BY <4>4, <5>1, <5>2, <5>3
            <4>5. QED
                BY <4>4 DEF CleanVersions, Clean
        <3>3. QED
            BY <1>2, <3>1, <3>2 DEF Untagged
    <2>7. phase' # "on" /\ (Unfinished' <=> Unfinished)
        BY <1>1, <1>4 DEF Settles, Unfinished
    <2>8. phase' = "crashed" => \A n \in Nodes : Fresh(n)
        BY <2>4, <2>5
    <2>9. QED
        BY <1>1, <2>3, <2>6, <2>7, <2>8, SettledKeeps DEF Settles, HealInv
<1>12. QED
    BY <1>3, <1>5, <1>6, <1>9, <1>10, <1>11 DEF IInv

\* What is on the disk when a run is killed is as the invariant says.
LEMMA CrashHolds ==
    ASSUME IInv, Crash
    PROVE  IInv'
<1>1. /\ Settles /\ crashes' = crashes + 1 /\ Events < MaxEvents
      /\ phase' = "crashed" /\ versions' = versions
    BY DEF Crash, Killed, Settles, disk, archiving
<1>2. /\ ShapeInv' /\ EdgeInv' /\ ArchivesInv' /\ OwnInv' /\ HashInv' /\ FilesInv'
      /\ PackingInv' /\ ArchiveIsHashed' /\ SpoiledIsNested'
    BY <1>1, SettledKeeps
<1>3. TypeOK'
    BY <1>1, BoundsAssumption DEF Settles, IInv, TypeOK, Events
<1>4. crashes' # 0 /\ (crashes' <= 1 => crashes = 0)
    BY <1>1 DEF IInv, TypeOK
<1>5. PhaseInv' /\ NeedsInv' /\ RestoredInv'
    BY <1>1, <1>4 DEF Settles, IInv, PhaseInv, NeedsInv, Unfinished, RestoredInv
<1>6. HealInv'
    <2>1. SUFFICES ASSUME Healing' PROVE HealInv'
        BY DEF HealInv
    <2>2. Healing /\ faults = 0 /\ crashes = 0
        BY <1>1, <1>4, <2>1 DEF Settles, Healing, Apart
    <2>3. \A n \in Nodes : Fresh(n)
        BY <2>2 DEF IInv, RestoredInv
    <2>4. \A n \in Nodes : CleanVersions(n)
        BY <2>2 DEF IInv, HealInv
    <2>5. \A n \in Nodes : CleanVersions(n)'
        BY <1>1, <2>4 DEF CleanVersions, Clean
    <2>6. \A n \in Nodes :
            \/ refs[n] = Clean(n) /\ stage[n] \notin Working
            \/ refs[n] = RefOf(n) /\ stage[n] \in Working
        BY <2>2, <2>3 DEF IInv, HealInv
    <2>7. QED
        BY <1>1, <2>3, <2>5, <2>6, SettledKeeps DEF Settles, HealInv
<1>7. QED
    BY <1>2, <1>3, <1>5, <1>6 DEF IInv

\* A step that changes nothing.
LEMMA StutterHolds ==
    ASSUME IInv, UNCHANGED vars
    PROVE  IInv'
<1>1. UNCHANGED <<inside, refs, archives, versions, runs, phase, hash, needs, forces, stage,
                  listed, entries, truncated, uploaded, faults, crashes, spoiled>>
    BY DEF vars, disk, plan, archiving, history
<1>2. /\ \A n : /\ CurrentRef(n)' = CurrentRef(n) /\ Context(n)' = Context(n) /\ Files(n)' = Files(n)
                /\ Began(n)' = Began(n) /\ Above(n)' = Above(n) /\ Clean(n)' = Clean(n)
                /\ WellNested(n)' = WellNested(n)
    BY <1>1 DEF CurrentRef, Context, Files, Began, Above, Clean, WellNested, Descendants
<1>3. \A n : Hashed(n)' = Hashed(n) /\ RefOf(n)' = RefOf(n) /\ Fresh(n)' = Fresh(n)
    BY <1>1, <1>2 DEF Hashed, Replaced, CurrentRef, RefOf, Fresh
<1>4. Left' = Left /\ \A a : IsOwn(a)' = IsOwn(a)
    BY <1>1, <1>2 DEF Left, IsOwn
<1>5. TypeOK' /\ ShapeInv' /\ EdgeInv' /\ ArchivesInv' /\ OwnInv' /\ PackingInv' /\ PhaseInv' /\ NeedsInv'
    BY <1>1, <1>4 DEF IInv, TypeOK, Events, ShapeInv, EdgeInv, ArchivesInv, OwnInv, PackingInv,
        PhaseInv, NeedsInv, Unfinished
<1>6. HashInv'
    BY <1>1, <1>2, <1>4 DEF IInv, HashInv
<1>7. FilesInv' /\ ArchiveIsHashed' /\ SpoiledIsNested'
    BY <1>1, <1>2, <1>3 DEF IInv, FilesInv, ArchiveIsHashed, SpoiledIsNested
<1>8. RestoredInv'
    BY <1>1, <1>2, <1>3, <1>4 DEF IInv, RestoredInv
<1>9. HealInv'
    <2>1. \A n : CleanVersions(n)' <=> CleanVersions(n)
        BY <1>1, <1>2 DEF CleanVersions
    <2>2. Healing' <=> Healing
        BY <1>1 DEF Healing, Apart
    <2>3. QED
        BY <1>1, <1>2, <1>3, <2>1, <2>2 DEF IInv, HealInv, Unfinished
<1>10. QED
    BY <1>5, <1>6, <1>7, <1>8, <1>9 DEF IInv

-----------------------------------------------------------------------------

\* The invariant holds in every reachable state.
THEOREM Invariant == Spec => []IInv
<1>1. Init => IInv
    BY InitHolds
<1>2. IInv /\ [Next]_vars => IInv'
    <2>1. SUFFICES ASSUME IInv, [Next]_vars PROVE IInv'
        OBVIOUS
    <2>2. CASE Start
        BY <2>1, <2>2, StartHolds
    <2>3. CASE \E n \in Nodes : Visit(n)
        BY <2>1, <2>3, VisitHolds
    <2>4. CASE End
        BY <2>1, <2>4, EndHolds
    <2>5. CASE Crash
        BY <2>1, <2>5, CrashHolds
    <2>6. CASE Over \/ UNCHANGED vars
        BY <2>1, <2>6, StutterHolds DEF Over
    <2>7. QED
        BY <2>1, <2>2, <2>3, <2>4, <2>5, <2>6 DEF Next
<1>3. QED
    BY <1>1, <1>2, PTL DEF Spec

\* The variables have the values the code gives them.
THEOREM TypeCorrect == Spec => []TypeOK
<1>1. IInv => TypeOK
    BY DEF IInv
<1>2. QED
    BY <1>1, Invariant, PTL

\* Whatever its neighbours do to the disk meanwhile, what PrepareContext uploads
\* for an image with nothing but descendants inside its directory is what its tag
\* is the hash of, or a part of it if a Close has failed.
THEOREM TagsAreTrue == Spec => []ArchiveIsHashed
<1>1. IInv => ArchiveIsHashed
    BY DEF IInv
<1>2. QED
    BY <1>1, Invariant, PTL

\* Only an image with others than descendants inside its directory ever finds a
\* file changed or gone that it has listed.
THEOREM OnlyNestedAreSpoiled == Spec => []SpoiledIsNested
<1>1. IInv => SpoiledIsNested
    BY DEF IInv
<1>2. QED
    BY <1>1, Invariant, PTL

\* The deferred reset and removal leave the working copy as they found it.
THEOREM NothingLeftBehind == Spec => []WorkingCopyRestored
<1>1. ASSUME IInv PROVE WorkingCopyRestored
    <2>1. SUFFICES ASSUME faults = 0, crashes = 0, NEW n \in Nodes \ spoiled, stage[n] \notin Working
                   PROVE  refs[n] = Clean(n) /\ \A a \in archives : a[1] # n
        BY DEF WorkingCopyRestored
    <2>2. refs[n] = Clean(n) /\ \A a \in Left : a[1] # n
        BY <1>1, <2>1 DEF IInv, RestoredInv
    <2>3. \A a \in archives : IsOwn(a) => a[1] # n
        BY <1>1, <2>1 DEF IInv, PackingInv, Packing, Working
    <2>4. QED
        BY <2>2, <2>3 DEF Left
<1>2. QED
    BY <1>1, Invariant, PTL

\* The references one killed run has left in Dockerfiles of a flat layout are gone
\* when a run with the same --force-rebuild has built all it had to.
THEOREM CrashHeals == Spec => []OneCrashHeals
<1>1. ASSUME IInv PROVE OneCrashHeals
    BY <1>1 DEF IInv, HealInv, PhaseInv, OneCrashHeals, Healing, Apart, Working
<1>2. QED
    BY <1>1, Invariant, PTL

\* A run after one that has succeeded finds the hashes it has tagged.
THEOREM NothingRebuiltTwice == Spec => SecondRunIsIdle
<1>1. ASSUME IInv, [Next]_vars, phase = "ok", phase' = "on", forces' = {FALSE}, faults = 0,
             crashes = 0
      PROVE  needs' = {}
    <2>1. Start
        BY <1>1 DEF Next, Visit, Skip, Replace, List, Create, WriteEntry, Close, Upload, Remove,
            Build, Reset, CanVisit, At, End, Crash, Over, vars, plan
    <2>2. Started
        BY <1>1, <2>1, StartStarts DEF IInv
    <2>3. \A n \in Nodes : stage[n] = "done" /\ refs[n] = Clean(n) /\ Began(n) = Clean(n)
        BY <1>1 DEF IInv, PhaseInv, RestoredInv, Fresh, Working
    <2>4. \A a \in archives : ~IsOwn(a)
        BY <1>1, <2>3 DEF IInv, TypeOK, PackingInv, Packing
    <2>5. Left = archives
        BY <2>4 DEF Left
    <2>6. ASSUME NEW n \in Nodes
          PROVE  hash[n] = [files |-> Files(n), bases |-> {hash[p] : p \in ParentsOf(n)}]
        <3>1. Context(n) \subseteq Nodes
            BY <1>1, LayoutsAssumption DEF IInv, TypeOK, Context
        <3>2. {<<<<"Dockerfile", m>>, Began(m)>> : m \in Context(n)} =
              {<<<<"Dockerfile", m>>, refs[m]>> : m \in Context(n)}
            BY <2>3, <3>1
        <3>3. QED
            BY <1>1, <2>5, <3>2 DEF IInv, HashInv, Files, ArchiveFile
    <2>7. Solves(Nodes, hash)
        BY <2>6, ParentsAreNodes DEF Solves
    <2>8. \A n \in Nodes : hash'[n] = hash[n]
        BY <2>2, <2>7, HashesAreThese DEF Started
    <2>9. \A n \in Nodes : <<n, hash'[n]>> \in versions
        BY <1>1, <2>8 DEF IInv, NeedsInv
    <2>10. PICK force \in BOOLEAN :
             /\ needs' = {n \in Nodes : force \/ <<n, hash'[n]>> \notin versions}
             /\ force \in forces'
        BY <2>2 DEF Started
    <2>11. QED
        BY <1>1, <2>9, <2>10
<1>2. IInv /\ [Next]_vars =>
        [phase = "ok" /\ phase' = "on" /\ forces' = {FALSE} /\ faults = 0 /\ crashes = 0
            => needs' = {}]_vars
    BY <1>1
<1>3. QED
    BY <1>2, Invariant, PTL DEF Spec, SecondRunIsIdle

=============================================================================
