----------------------------- MODULE GenerateDAG -----------------------------
(***************************************************************************)
(* dib.GenerateDAG: the Dockerfiles found under the build path become      *)
(* images, their FROM instructions become edges, and every image gets the  *)
(* hash of its files and of its parents' hashes.                           *)
(*                                                                         *)
(* The maps the code ranges over have no order, so the edges are added,    *)
(* the roots collected and the levels hashed in an order that differs from *)
(* run to run.  The hashes must not: they are the tags dib looks up in the *)
(* registry to find out what has changed.                                  *)
(***************************************************************************)
EXTENDS Naturals, Sequences, FiniteSets

CONSTANTS
    Dirs,           \* directories below the build path
    Names,          \* values of the label "name"
    NoName,         \* the label is missing
    Trees,          \* the inputs: Dockerfiles in the order WalkDir meets them
    NoHash,         \* Image.Hash before it is computed
    HashFiles(_, _) \* the hash of an image's files and a bag of parent hashes

File == [dir : Dirs,                \* path.Dir of the Dockerfile
         name : Names \cup {NoName},
         skip : BOOLEAN,            \* LABEL skipbuild="true"
         readable : BOOLEAN,        \* it and its context can be read
         from : Seq(Names)]         \* the images of its FROM instructions

ASSUME TreesAssumption == Trees \subseteq Seq(File)
ASSUME DirsAssumption == Dirs # {}
ASSUME NoNameAssumption == NoName \notin Names

VARIABLES
    phase,      \* which part of GenerateDAG runs
    tree, pos,  \* buildGraph: the files, and the next one to visit
    nodes,      \* the map from directories to the images found there
    unlinked,   \* newGraphFromNodes: the nodes its first loop has still to meet
    child, idx, \* the node it links, and its position in the FROM list
    parents, children, roots,
    curr, next, \* computeHashes: currNodes, and a loop's position in it
    nextNodes,  \* the children gathered for the next level
    hash        \* Image.Hash

discovery == <<tree, pos, nodes>>
linking == <<unlinked, child, idx>>
graph == <<parents, children, roots>>
hashing == <<curr, next, nextNodes, hash>>
vars == <<phase, discovery, linking, graph, hashing>>

Elements(s) == {s[i] : i \in DOMAIN s}
Images == DOMAIN nodes

TypeOK ==
    /\ phase \in {"discover", "link", "roots", "hash", "gather", "done", "error"}
    /\ tree \in Seq(File)
    /\ pos \in Nat \ {0}
    /\ Images \subseteq Dirs
    /\ nodes \in [Images -> File]
    /\ unlinked \subseteq Images
    /\ child \in Dirs
    /\ idx \in Nat
    /\ parents \in [Dirs -> Seq(Dirs)]
    /\ children \in [Dirs -> Seq(Dirs)]
    /\ roots \in Seq(Dirs)
    /\ curr \in Seq(Dirs)
    /\ next \in Nat \ {0}
    /\ nextNodes \in Seq(Dirs)
    /\ hash = [d \in Dirs |-> hash[d]]

-----------------------------------------------------------------------------

Init ==
    /\ phase = "discover"
    /\ tree \in Trees
    /\ pos = 1
    /\ nodes = [d \in {} |-> {}]
    /\ unlinked = {}
    /\ child = CHOOSE d \in Dirs : TRUE
    /\ idx = 0
    /\ parents = [d \in Dirs |-> <<>>]
    /\ children = [d \in Dirs |-> <<>>]
    /\ roots = <<>>
    /\ curr = <<>>
    /\ next = 1
    /\ nextNodes = <<>>
    /\ hash = [d \in Dirs |-> NoHash]

-----------------------------------------------------------------------------
(* buildGraph: filepath.WalkDir over the build path.                       *)

\* newImageFromDockerfile fails, or another image has the same name.
Rejected(file) ==
    \/ ~file.readable
    \/ ~file.skip /\ file.name = NoName
    \/ \E d \in Images : nodes[d].name = file.name

\* nodes[path.Dir(name)] = dag.NewNode(img)
Record(file) ==
    nodes' = [d \in Images \cup {file.dir} |-> IF d = file.dir THEN file ELSE nodes[d]]

Discover ==
    /\ phase = "discover"
    /\ pos <= Len(tree)
    /\ ~Rejected(tree[pos])
    /\ pos' = pos + 1
    /\ IF tree[pos].skip THEN UNCHANGED nodes ELSE Record(tree[pos])
    /\ UNCHANGED <<phase, tree, linking, graph, hashing>>

Reject ==
    /\ phase = "discover"
    /\ pos <= Len(tree)
    /\ Rejected(tree[pos])
    /\ phase' = "error"
    /\ UNCHANGED <<discovery, linking, graph, hashing>>

EndDiscover ==
    /\ phase = "discover"
    /\ pos > Len(tree)
    /\ phase' = "link"
    /\ unlinked' = Images
    /\ idx' = 0
    /\ UNCHANGED <<discovery, child, graph, hashing>>

-----------------------------------------------------------------------------
(* newGraphFromNodes.  idx = 0 stands for "between two nodes".             *)

\* The outer loop ranges over the map, in any order.
NextChild(n) ==
    /\ phase = "link"
    /\ idx = 0
    /\ n \in unlinked
    /\ unlinked' = unlinked \ {n}
    /\ child' = n
    /\ idx' = 1
    /\ UNCHANGED <<phase, discovery, graph, hashing>>

\* parent.AddChild(node)
AddChild(p, n) ==
    /\ children' = [children EXCEPT ![p] = Append(@, n)]
    /\ parents' = [parents EXCEPT ![n] = Append(@, p)]

\* The images a FROM instruction refers to.
Named(name) == {p \in Images : nodes[p].name = name}

\* One FROM instruction.  The inner loop adds an edge from each image of that
\* name: at most one.
Link ==
    /\ phase = "link"
    /\ idx > 0
    /\ idx <= Len(nodes[child].from)
    /\ LET named == Named(nodes[child].from[idx])
       IN  \/ \E p \in named : AddChild(p, child)
           \/ named = {} /\ UNCHANGED <<parents, children>>
    /\ idx' = idx + 1
    /\ UNCHANGED <<phase, discovery, unlinked, child, roots, hashing>>

EndChild ==
    /\ phase = "link"
    /\ idx > 0
    /\ idx > Len(nodes[child].from)
    /\ idx' = 0
    /\ UNCHANGED <<phase, discovery, unlinked, child, graph, hashing>>

EndLink ==
    /\ phase = "link"
    /\ idx = 0
    /\ unlinked = {}
    /\ phase' = "roots"
    /\ unlinked' = Images
    /\ UNCHANGED <<discovery, child, idx, graph, hashing>>

\* A second loop that takes the nodes without children for roots.
CollectRoot_Leaves(n) ==
    /\ phase = "roots"
    /\ n \in unlinked
    /\ unlinked' = unlinked \ {n}
    /\ roots' = IF children[n] = <<>> THEN Append(roots, n) ELSE roots
    /\ UNCHANGED <<phase, discovery, child, idx, parents, children, hashing>>

\* The second loop: "If an image has no parents in the DAG, we can consider
\* it root".
CollectRoot(n) ==
    /\ phase = "roots"
    /\ n \in unlinked
    /\ unlinked' = unlinked \ {n}
    /\ roots' = IF parents[n] = <<>> THEN Append(roots, n) ELSE roots
    /\ UNCHANGED <<phase, discovery, child, idx, parents, children, hashing>>

EndRoots ==
    /\ phase = "roots"
    /\ unlinked = {}
    /\ phase' = "hash"
    /\ curr' = roots
    /\ next' = 1
    /\ UNCHANGED <<discovery, linking, graph, nextNodes, hash>>

\* loadCustomHashList: the graph is built, but its hash list cannot be read.
HashListFails ==
    /\ phase = "roots"
    /\ unlinked = {}
    /\ phase' = "error"
    /\ UNCHANGED <<discovery, linking, graph, hashing>>

-----------------------------------------------------------------------------
(* computeHashes: level by level.  A node with parents on several levels is *)
(* hashed on each level it appears on.                                      *)

\* hashFiles sorts the parents' hashes, here those of h, before it writes them: a
\* bag.
ParentHashes(h, n) ==
    [x \in {h[p] : p \in Elements(parents[n])} |->
        Cardinality({i \in DOMAIN parents[n] : h[parents[n][i]] = x})]

\* computeNodeHash
NodeHash(h, n) == HashFiles(nodes[n], ParentHashes(h, n))

HashNode ==
    /\ phase = "hash"
    /\ next <= Len(curr)
    /\ hash' = [hash EXCEPT ![curr[next]] = NodeHash(hash, curr[next])]
    /\ next' = next + 1
    /\ UNCHANGED <<phase, discovery, linking, graph, curr, nextNodes>>

\* A file cannot be read, or its name holds a newline.
HashFails ==
    /\ phase = "hash"
    /\ next <= Len(curr)
    /\ phase' = "error"
    /\ UNCHANGED <<discovery, linking, graph, hashing>>

EndHash ==
    /\ phase = "hash"
    /\ curr # <<>>
    /\ next > Len(curr)
    /\ phase' = "gather"
    /\ next' = 1
    /\ nextNodes' = <<>>
    /\ UNCHANGED <<discovery, linking, graph, curr, hash>>

\* A breadth-first search that hashes each node on the first level it is on.
Gather_Once ==
    /\ phase = "gather"
    /\ next <= Len(curr)
    /\ nextNodes' = nextNodes \o SelectSeq(children[curr[next]], LAMBDA c : hash[c] = NoHash)
    /\ next' = next + 1
    /\ UNCHANGED <<phase, discovery, linking, graph, curr, hash>>

Gather ==
    /\ phase = "gather"
    /\ next <= Len(curr)
    /\ nextNodes' = nextNodes \o children[curr[next]]
    /\ next' = next + 1
    /\ UNCHANGED <<phase, discovery, linking, graph, curr, hash>>

\* A level that keeps its first node for the next level too.
NextLevel_KeepsHead ==
    /\ phase = "gather"
    /\ next > Len(curr)
    /\ phase' = "hash"
    /\ curr' = <<Head(curr)>> \o nextNodes
    /\ next' = 1
    /\ UNCHANGED <<discovery, linking, graph, nextNodes, hash>>

NextLevel ==
    /\ phase = "gather"
    /\ next > Len(curr)
    /\ phase' = "hash"
    /\ curr' = nextNodes
    /\ next' = 1
    /\ UNCHANGED <<discovery, linking, graph, nextNodes, hash>>

\* No node is left: GenerateDAG returns the graph.
Finish ==
    /\ phase = "hash"
    /\ curr = <<>>
    /\ phase' = "done"
    /\ UNCHANGED <<discovery, linking, graph, hashing>>

-----------------------------------------------------------------------------

Returned == phase \in {"done", "error"} /\ UNCHANGED vars

Next ==
    \/ Discover \/ Reject \/ EndDiscover
    \/ (\E n \in Dirs : NextChild(n)) \/ Link \/ EndChild \/ EndLink
    \/ (\E n \in Dirs : CollectRoot(n)) \/ EndRoots \/ HashListFails
    \/ HashNode \/ HashFails \/ EndHash \/ Gather \/ NextLevel \/ Finish
    \/ Returned

\* One goroutine, which goes on until it returns.
Spec == Init /\ [][Next]_vars /\ WF_vars(Next)

-----------------------------------------------------------------------------
(* Properties                                                              *)

\* The graph has been built.
Built == phase \in {"hash", "gather", "done"}

\* No cycle of FROM instructions, stated without paths.
NoCycle ==
    \A S \in SUBSET Images :
        S # {} => \E n \in S : Elements(parents[n]) \cap S = {}

\* generate_dag.go:61-66: images that are built have different names, whatever
\* was overwritten or skipped on the way, so a FROM has at most one parent.
NamesUnique ==
    \A d, e \in Images : nodes[d].name = nodes[e].name => d = e

\* What the walks over the graph take for granted (module ImageGraph): both
\* directions of every edge, one for each FROM of an image that is built, and
\* exactly the nodes without parents as roots, in whichever order the maps
\* were ranged over.
GraphIsConsistent ==
    Built =>
        /\ \A n, p \in Images :
            /\ n \in Elements(children[p]) <=> p \in Elements(parents[n])
            /\ p \in Elements(parents[n]) <=> nodes[p].name \in Elements(nodes[n].from)
        /\ Elements(roots) = {n \in Images : Elements(parents[n]) = {}}

\* The hashes by recursion over the ancestors.
Reference ==
    LET h[n \in Images] == NodeHash(h, n)
    IN  h

\* What the levels of computeHashes have arrived at when GenerateDAG returns is the
\* recursive definition, whichever way the maps were ranged over and however many
\* levels a node was hashed on before the hashes of its parents were final: a
\* change anywhere above an image changes its tag (generate_dag.go:183-234).
HashIsReference ==
    phase = "done" /\ NoCycle => \A n \in Images : hash[n] = Reference[n]

\* GenerateDAG returns.
GenerateTerminates == <>(phase \in {"done", "error"})

=============================================================================
