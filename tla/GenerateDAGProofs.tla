-------------------------- MODULE GenerateDAGProofs --------------------------
(***************************************************************************)
(* Proofs about GenerateDAG, for every tree of Dockerfiles and every hash  *)
(* function.                                                               *)
(***************************************************************************)
EXTENDS GenerateDAG, TLAPS

\* A file recorded under a directory is that directory's.
NodesInv == \A d \in Images : nodes[d].dir = d

\* Both directions of an edge are added together, between images.
EdgesInv ==
    /\ \A n, p \in Dirs : n \in Elements(children[p]) <=> p \in Elements(parents[n])
    /\ \A n, p \in Dirs : p \in Elements(parents[n]) => n \in Images /\ p \in Images

\* What the first loop of newGraphFromNodes has done so far: everything for the
\* nodes it has left, the FROMs before idx for the node it is on.
LinkInv ==
    /\ phase = "discover" => idx = 0 /\ \A n \in Dirs : parents[n] = <<>>
    /\ phase = "link" => \A n \in unlinked : parents[n] = <<>>
    /\ idx > 0 => phase \in {"link", "error"} /\ child \in Images \ unlinked
    /\ phase = "link" /\ idx > 0 => idx <= Len(nodes[child].from) + 1
    /\ phase = "link" /\ idx > 0 =>
        \A p \in Images : p \in Elements(parents[child]) <=>
            \E i \in 1..(idx - 1) : nodes[child].from[i] = nodes[p].name
    /\ phase \notin {"discover", "error"} =>
        \A n, p \in Images :
            \/ phase = "link" /\ (n \in unlinked \/ (idx > 0 /\ n = child))
            \/ p \in Elements(parents[n]) <=> nodes[p].name \in Elements(nodes[n].from)

\* What the second loop has collected so far.
RootsInv ==
    /\ phase \in {"discover", "link"} => roots = <<>>
    /\ phase = "roots" => Elements(roots) = {n \in Images \ unlinked : parents[n] = <<>>}
    /\ Built => Elements(roots) = {n \in Images : parents[n] = <<>>}

\* The nodes computeHashes is still going to hash, as far as it knows: the rest
\* of the level, and the children of the level.
Children(S) == UNION {Elements(children[m]) : m \in S}
Rest == {curr[j] : j \in next..Len(curr)}
Pending ==
    CASE phase = "hash" -> Rest \cup Children(Elements(curr))
      [] phase = "gather" -> Elements(nextNodes) \cup Children(Rest)
      [] OTHER -> {}

\* A set of images that holds what is pending and, with an image, its children.
Covers(S) == Pending \subseteq S /\ Children(S) \subseteq S

\* Every wrong hash is on an image that is pending or below one that is.
HashInv ==
    /\ phase \in {"hash", "gather"} => Elements(curr) \subseteq Images
    /\ phase = "gather" => Elements(nextNodes) \subseteq Images
    /\ Built /\ NoCycle =>
        \A S \in SUBSET Images :
            Covers(S) => \A n \in Images \ S : hash[n] = NodeHash(hash, n)

IInv ==
    /\ TypeOK
    /\ NodesInv
    /\ NamesUnique
    /\ EdgesInv
    /\ LinkInv
    /\ RootsInv
    /\ HashInv

-----------------------------------------------------------------------------
(* Lemmas about slices and hashes.                                         *)

\* The elements of a slice are its values at the indices 1..Len.
LEMMA ElementsOfSeq ==
    ASSUME NEW S, NEW s \in Seq(S)
    PROVE  Elements(s) = {s[i] : i \in 1..Len(s)} /\ Elements(s) \subseteq S
BY DEF Elements

\* A slice without elements is empty.
LEMMA EmptySlice ==
    ASSUME NEW S, NEW s \in Seq(S)
    PROVE  s = <<>> <=> Elements(s) = {}
<1>1. CASE s = <<>>
    BY <1>1 DEF Elements
<1>2. CASE s # <<>>
    <2>1. Len(s) \in Nat /\ Len(s) # 0
        BY <1>2
    <2>2. 1 \in 1..Len(s)
        BY <2>1
    <2>3. s[1] \in Elements(s)
        BY <2>2, ElementsOfSeq
    <2>4. QED
        BY <1>2, <2>3
<1>3. QED
    BY <1>1, <1>2

\* append adds one element.
LEMMA ElementsOfAppend ==
    ASSUME NEW S, NEW s \in Seq(S), NEW x \in S
    PROVE  Append(s, x) \in Seq(S) /\ Elements(Append(s, x)) = Elements(s) \cup {x}
<1>1. /\ Append(s, x) \in Seq(S) /\ Len(Append(s, x)) = Len(s) + 1
      /\ \A i \in 1..Len(s) : Append(s, x)[i] = s[i]
      /\ Append(s, x)[Len(s) + 1] = x
    OBVIOUS
<1>2. Elements(s) = {s[i] : i \in 1..Len(s)}
    BY ElementsOfSeq
<1>3. Elements(Append(s, x)) = {Append(s, x)[i] : i \in 1..(Len(s) + 1)}
    BY <1>1, ElementsOfSeq
<1>4. Len(s) \in Nat
    OBVIOUS
<1>5. QED
    BY <1>1, <1>2, <1>3, <1>4

\* append of a slice adds its elements.
LEMMA ElementsOfConcat ==
    ASSUME NEW S, NEW s \in Seq(S), NEW t \in Seq(S)
    PROVE  s \o t \in Seq(S) /\ Elements(s \o t) = Elements(s) \cup Elements(t)
<1>1. /\ s \o t \in Seq(S) /\ Len(s \o t) = Len(s) + Len(t)
      /\ \A i \in 1..Len(s) : (s \o t)[i] = s[i]
      /\ \A i \in 1..Len(t) : (s \o t)[Len(s) + i] = t[i]
      /\ Len(s) \in Nat /\ Len(t) \in Nat
    OBVIOUS
<1>2. /\ Elements(s) = {s[i] : i \in 1..Len(s)}
      /\ Elements(t) = {t[i] : i \in 1..Len(t)}
    BY ElementsOfSeq
<1>3. Elements(s \o t) = {(s \o t)[i] : i \in 1..(Len(s) + Len(t))}
    BY <1>1, ElementsOfSeq
<1>4. Elements(s \o t) \subseteq Elements(s) \cup Elements(t)
    <2>1. SUFFICES ASSUME NEW i \in 1..(Len(s) + Len(t))
                   PROVE  (s \o t)[i] \in Elements(s) \cup Elements(t)
        BY <1>3
    <2>2. CASE i <= Len(s)
        BY <1>1, <1>2, <2>2
    <2>3. CASE i > Len(s)
        <3>1. i - Len(s) \in 1..Len(t) /\ Len(s) + (i - Len(s)) = i
            BY <1>1, <2>3
        <3>2. QED
            BY <1>1, <1>2, <3>1
    <2>4. QED
        BY <1>1, <2>2, <2>3
<1>5. Elements(s) \subseteq Elements(s \o t)
    BY <1>1, <1>2, <1>3
<1>6. Elements(t) \subseteq Elements(s \o t)
    <2>1. ASSUME NEW i \in 1..Len(t)
          PROVE  t[i] \in Elements(s \o t)
        <3>1. Len(s) + i \in 1..(Len(s) + Len(t))
            BY <1>1
        <3>2. QED
            BY <1>1, <1>3, <3>1
    <2>2. QED
        BY <1>2, <2>1
<1>7. QED
    BY <1>1, <1>4, <1>5, <1>6

\* The hash of an image depends on its file and on its parents' hashes only.
LEMMA NodeHashFrame ==
    ASSUME NEW n \in Dirs, parents' = parents, nodes' = nodes,
           \A p \in Elements(parents[n]) : hash'[p] = hash[p]
    PROVE  NodeHash(hash, n)' = NodeHash(hash, n)
<1>1. \A i \in DOMAIN parents[n] : hash'[parents[n][i]] = hash[parents[n][i]]
    BY DEF Elements
<1>2. {hash'[p] : p \in Elements(parents[n])} = {hash[p] : p \in Elements(parents[n])}
    OBVIOUS
<1>3. \A h : {i \in DOMAIN parents[n] : hash'[parents[n][i]] = h}
                = {i \in DOMAIN parents[n] : hash[parents[n][i]] = h}
    BY <1>1
<1>4. ParentHashes(hash, n)' = ParentHashes(hash, n)
    BY <1>2, <1>3 DEF ParentHashes
<1>5. QED
    BY <1>4 DEF NodeHash

-----------------------------------------------------------------------------
(* The inductive invariant.                                                *)

\* The invariant holds before the first file is visited.
LEMMA IInvInit == Init => IInv
<1> SUFFICES ASSUME Init PROVE IInv
    OBVIOUS
<1> USE DEF Init
<1>1. Images = {} /\ child \in Dirs
    BY DirsAssumption DEF Images
<1>2. TypeOK
    BY <1>1, TreesAssumption DEF TypeOK
<1>3. \A n \in Dirs : Elements(parents[n]) = {} /\ Elements(children[n]) = {}
    BY DEF Elements
<1>4. NodesInv /\ NamesUnique /\ EdgesInv /\ LinkInv /\ RootsInv
    BY <1>1, <1>3 DEF NodesInv, NamesUnique, EdgesInv, LinkInv, RootsInv, Built
<1>5. HashInv
    BY DEF HashInv, Built
<1>6. QED
    BY <1>2, <1>4, <1>5 DEF IInv

\* Visiting a file keeps the names different, because one that is taken is
\* rejected.
LEMMA DiscoverKeeps == IInv /\ Discover => IInv'
<1> SUFFICES ASSUME IInv, Discover PROVE IInv'
    OBVIOUS
<1> USE DEF IInv, TypeOK, Discover, linking, graph, hashing
<1> DEFINE file == tree[pos]
<1>1. file \in File /\ file.dir \in Dirs
    <2>1. tree \in Seq(File) /\ pos \in 1..Len(tree)
        OBVIOUS
    <2>2. file \in File
        BY <2>1
    <2>3. QED
        BY <2>2 DEF File
<1>2. CASE file.skip
    <2>1. UNCHANGED <<phase, tree, nodes, unlinked, child, idx, parents, children,
                      roots, curr, next, nextNodes, hash>>
        BY <1>2
    <2>2. Images' = Images
        BY <2>1 DEF Images
    <2>3. TypeOK'
        BY <2>1, <2>2
    <2>4. NodesInv' /\ NamesUnique' /\ EdgesInv' /\ LinkInv' /\ RootsInv'
        BY <2>1, <2>2 DEF NodesInv, NamesUnique, EdgesInv, LinkInv, RootsInv, Built
    <2>5. HashInv'
        BY <2>1 DEF HashInv, Built
    <2>6. QED
        BY <2>3, <2>4, <2>5
<1>3. CASE ~file.skip
    <2>1. /\ Images' = Images \cup {file.dir}
          /\ nodes' = [d \in Images \cup {file.dir} |-> IF d = file.dir THEN file ELSE nodes[d]]
        BY <1>3 DEF Record, Images
    <2>2. UNCHANGED <<phase, tree, unlinked, child, idx, parents, children, roots, curr,
                      next, nextNodes, hash>> /\ phase = "discover"
        OBVIOUS
    <2>3. TypeOK'
        BY <1>1, <2>1, <2>2
    <2>4. \A d \in Images : nodes[d].name # file.name
        BY DEF Rejected
    <2>5. NodesInv' /\ NamesUnique'
        BY <1>1, <2>1, <2>4 DEF NodesInv, NamesUnique
    <2>6. EdgesInv' /\ LinkInv' /\ RootsInv' /\ HashInv'
        BY <2>1, <2>2 DEF EdgesInv, LinkInv, RootsInv, HashInv, Built
    <2>7. QED
        BY <2>3, <2>5, <2>6
<1>4. QED
    BY <1>2, <1>3

\* An error keeps the invariant.
LEMMA ErrorKeeps == IInv /\ (Reject \/ HashListFails \/ HashFails) => IInv'
<1> SUFFICES ASSUME IInv, Reject \/ HashListFails \/ HashFails PROVE IInv'
    OBVIOUS
<1>1. /\ phase' = "error" /\ phase \in {"discover", "roots", "hash"}
      /\ UNCHANGED <<tree, pos, nodes, unlinked, child, idx, parents, children,
                     roots, curr, next, nextNodes, hash>>
    BY DEF Reject, HashListFails, HashFails, discovery, linking, graph, hashing
<1>2. Images' = Images
    BY <1>1 DEF Images
<1>3. QED
    BY <1>1, <1>2 DEF IInv, TypeOK, NodesInv, NamesUnique, EdgesInv, LinkInv, RootsInv,
        HashInv, Built

\* newGraphFromNodes starts with every node still to be met.
LEMMA EndDiscoverKeeps == IInv /\ EndDiscover => IInv'
<1> SUFFICES ASSUME IInv, EndDiscover PROVE IInv'
    OBVIOUS
<1>1. /\ phase' = "link" /\ phase = "discover" /\ idx' = 0 /\ unlinked' = Images
      /\ UNCHANGED <<tree, pos, nodes, child, parents, children, roots, curr, next,
                     nextNodes, hash>>
    BY DEF EndDiscover, discovery, graph, hashing
<1>2. Images' = Images
    BY <1>1 DEF Images
<1>3. QED
    BY <1>1, <1>2 DEF IInv, TypeOK, NodesInv, NamesUnique, EdgesInv, LinkInv, RootsInv,
        HashInv, Built

\* Turning to another node of the map keeps the invariant.
LEMMA NextChildKeeps ==
    ASSUME NEW n \in Dirs, IInv, NextChild(n)
    PROVE  IInv'
<1>1. /\ phase' = "link" /\ phase = "link" /\ idx = 0 /\ idx' = 1
      /\ n \in unlinked /\ unlinked' = unlinked \ {n} /\ child' = n
      /\ UNCHANGED <<tree, pos, nodes, parents, children, roots, curr, next,
                     nextNodes, hash>>
    BY DEF NextChild, discovery, graph, hashing
<1>2. Images' = Images
    BY <1>1 DEF Images
<1>3. TypeOK'
    BY <1>1, <1>2 DEF IInv, TypeOK
<1>4. nodes[n].from \in Seq(Names) /\ Len(nodes[n].from) \in Nat
    BY <1>1 DEF IInv, TypeOK, File
<1>5. parents[n] = <<>> /\ Elements(parents[n]) = {}
    BY <1>1 DEF IInv, LinkInv, Elements
<1>6. LinkInv'
    BY <1>1, <1>2, <1>4, <1>5 DEF IInv, TypeOK, LinkInv
<1>7. QED
    BY <1>1, <1>2, <1>3, <1>6 DEF IInv, NodesInv, NamesUnique, EdgesInv, RootsInv,
        HashInv, Built

\* One FROM instruction: an edge to the image it names, in both directions.
LEMMA LinkKeeps == IInv /\ Link => IInv'
<1> SUFFICES ASSUME IInv, Link PROVE IInv'
    OBVIOUS
<1> DEFINE name == nodes[child].from[idx]
<1>1. /\ phase' = "link" /\ phase = "link" /\ idx > 0 /\ idx' = idx + 1
      /\ idx <= Len(nodes[child].from)
      /\ UNCHANGED <<tree, pos, nodes, unlinked, child, roots, curr, next, nextNodes, hash>>
    BY DEF Link, discovery, hashing
<1>2. Images' = Images
    BY <1>1 DEF Images
<1>3. child \in Images /\ child \in Dirs /\ child \notin unlinked /\ Images \subseteq Dirs
    BY <1>1 DEF IInv, LinkInv, TypeOK
<1>4. nodes[child].from \in Seq(Names) /\ Len(nodes[child].from) \in Nat /\ idx \in Nat
    BY <1>3 DEF IInv, TypeOK, File
<1>5. CASE \E p \in Named(name) : AddChild(p, child)
    <2>1. PICK p \in Named(name) : AddChild(p, child)
        BY <1>5
    <2>2. p \in Images /\ p \in Dirs /\ nodes[p].name = name
        BY <1>3 DEF Named
    <2>3. /\ \A q \in Images : nodes[q].name = name <=> q = p
        BY <2>2 DEF IInv, NamesUnique
    <2>4. /\ children' = [children EXCEPT ![p] = Append(@, child)]
          /\ parents' = [parents EXCEPT ![child] = Append(@, p)]
        BY <2>1 DEF AddChild
    <2>5. /\ children[p] \in Seq(Dirs) /\ parents[child] \in Seq(Dirs)
          /\ children \in [Dirs -> Seq(Dirs)] /\ parents \in [Dirs -> Seq(Dirs)]
        BY <1>3, <2>2 DEF IInv, TypeOK
    <2>6. /\ Append(children[p], child) \in Seq(Dirs)
          /\ Elements(Append(children[p], child)) = Elements(children[p]) \cup {child}
          /\ Append(parents[child], p) \in Seq(Dirs)
          /\ Elements(Append(parents[child], p)) = Elements(parents[child]) \cup {p}
        BY <1>3, <2>2, <2>5, ElementsOfAppend
    <2>7. /\ children' \in [Dirs -> Seq(Dirs)] /\ parents' \in [Dirs -> Seq(Dirs)]
          /\ Elements(children'[p]) = Elements(children[p]) \cup {child}
          /\ Elements(parents'[child]) = Elements(parents[child]) \cup {p}
          /\ \A q \in Dirs \ {p} : children'[q] = children[q]
          /\ \A q \in Dirs \ {child} : parents'[q] = parents[q]
        BY <1>3, <2>2, <2>4, <2>5, <2>6
    <2>8. TypeOK'
        BY <1>1, <1>2, <2>7 DEF IInv, TypeOK
    <2>9. EdgesInv'
        <3>1. /\ \A q \in Dirs : Elements(children'[q])
                    = IF q = p THEN Elements(children[q]) \cup {child} ELSE Elements(children[q])
              /\ \A q \in Dirs : Elements(parents'[q])
                    = IF q = child THEN Elements(parents[q]) \cup {p} ELSE Elements(parents[q])
            BY <1>3, <2>2, <2>7
        <3>2. ASSUME NEW n \in Dirs, NEW q \in Dirs
              PROVE  /\ n \in Elements(children'[q]) <=>
                            n \in Elements(children[q]) \/ (q = p /\ n = child)
                     /\ q \in Elements(parents'[n]) <=>
                            q \in Elements(parents[n]) \/ (q = p /\ n = child)
            BY <3>1
        <3>3. ASSUME NEW n \in Dirs, NEW q \in Dirs
              PROVE  /\ n \in Elements(children[q]) <=> q \in Elements(parents[n])
                     /\ q \in Elements(parents[n]) => n \in Images /\ q \in Images
            BY DEF IInv, EdgesInv
        <3>4. ASSUME NEW n \in Dirs, NEW q \in Dirs
              PROVE  /\ n \in Elements(children'[q]) <=> q \in Elements(parents'[n])
                     /\ q \in Elements(parents'[n]) => n \in Images /\ q \in Images
            BY <1>3, <2>2, <3>2, <3>3
        <3>5. QED
            BY <1>2, <3>4 DEF EdgesInv
    <2>10. \A q \in Images : q \in Elements(parents'[child]) <=>
                \E i \in 1..(idx' - 1) : nodes[child].from[i] = nodes[q].name
        <3>1. SUFFICES ASSUME NEW q \in Images
                       PROVE  q \in Elements(parents'[child]) <=>
                                \E i \in 1..idx : nodes[child].from[i] = nodes[q].name
            BY <1>1, <1>4
        <3>2. q \in Elements(parents[child]) <=>
                \E i \in 1..(idx - 1) : nodes[child].from[i] = nodes[q].name
            BY <1>1 DEF IInv, LinkInv
        <3>3. QED
            BY <1>1, <1>4, <2>3, <2>7, <3>2
    <2>11. LinkInv'
        <3>1. /\ \A n \in unlinked : parents'[n] = <<>>
              /\ idx' <= Len(nodes[child].from) + 1
            BY <1>1, <1>3, <1>4, <2>7 DEF IInv, LinkInv, TypeOK
        <3>2. \A n, q \in Images :
                \/ n \in unlinked \/ n = child
                \/ q \in Elements(parents'[n]) <=> nodes[q].name \in Elements(nodes[n].from)
            BY <1>1, <1>3, <2>7 DEF IInv, LinkInv
        <3>3. QED
            BY <1>1, <1>2, <1>3, <1>4, <2>10, <3>1, <3>2 DEF LinkInv
    <2>12. QED
        BY <1>1, <1>2, <2>8, <2>9, <2>11 DEF IInv, NodesInv, NamesUnique, RootsInv,
            HashInv, Built
<1>6. CASE Named(name) = {} /\ UNCHANGED <<parents, children>>
    <2>1. \A q \in Images : nodes[q].name # name
        BY <1>6 DEF Named
    <2>2. \A q \in Images : q \in Elements(parents[child]) <=>
                \E i \in 1..(idx' - 1) : nodes[child].from[i] = nodes[q].name
        <3>1. SUFFICES ASSUME NEW q \in Images
                       PROVE  q \in Elements(parents[child]) <=>
                                \E i \in 1..idx : nodes[child].from[i] = nodes[q].name
            BY <1>1, <1>4
        <3>2. q \in Elements(parents[child]) <=>
                \E i \in 1..(idx - 1) : nodes[child].from[i] = nodes[q].name
            BY <1>1 DEF IInv, LinkInv
        <3>3. QED
            BY <1>1, <1>4, <2>1, <3>2
    <2>3. TypeOK'
        BY <1>1, <1>2, <1>6 DEF IInv, TypeOK
    <2>4. LinkInv'
        <3>1. /\ \A n \in unlinked : parents'[n] = <<>>
              /\ idx' <= Len(nodes[child].from) + 1
            BY <1>1, <1>3, <1>4, <1>6 DEF IInv, LinkInv, TypeOK
        <3>2. \A n, q \in Images :
                \/ n \in unlinked \/ n = child
                \/ q \in Elements(parents'[n]) <=> nodes[q].name \in Elements(nodes[n].from)
            BY <1>1, <1>3, <1>6 DEF IInv, LinkInv
        <3>3. QED
            BY <1>1, <1>2, <1>3, <1>4, <1>6, <2>2, <3>1, <3>2 DEF LinkInv
    <2>5. QED
        BY <1>1, <1>2, <1>6, <2>3, <2>4 DEF IInv, NodesInv, NamesUnique, EdgesInv, RootsInv,
            HashInv, Built
<1>7. QED
    BY <1>5, <1>6 DEF Link

\* The FROMs of a node are done.
LEMMA EndChildKeeps == IInv /\ EndChild => IInv'
<1> SUFFICES ASSUME IInv, EndChild PROVE IInv'
    OBVIOUS
<1>1. /\ phase' = "link" /\ phase = "link" /\ idx > 0 /\ idx' = 0
      /\ idx > Len(nodes[child].from)
      /\ UNCHANGED <<tree, pos, nodes, unlinked, child, parents, children, roots, curr,
                     next, nextNodes, hash>>
    BY DEF EndChild, discovery, graph, hashing
<1>2. Images' = Images
    BY <1>1 DEF Images
<1>3. child \in Images /\ idx <= Len(nodes[child].from) + 1
    BY <1>1 DEF IInv, LinkInv
<1>4. nodes[child].from \in Seq(Names) /\ Len(nodes[child].from) \in Nat /\ idx \in Nat
    BY <1>3 DEF IInv, TypeOK, File
<1>5. idx - 1 = Len(nodes[child].from)
    BY <1>1, <1>3, <1>4
<1>6. Elements(nodes[child].from) = {nodes[child].from[i] : i \in 1..(idx - 1)}
    BY <1>4, <1>5, ElementsOfSeq
<1>7. \A p \in Images : p \in Elements(parents[child]) <=>
                            nodes[p].name \in Elements(nodes[child].from)
    BY <1>1, <1>6 DEF IInv, LinkInv
<1>8. LinkInv'
    BY <1>1, <1>2, <1>7 DEF IInv, LinkInv
<1>9. QED
    BY <1>1, <1>2, <1>8 DEF IInv, TypeOK, NodesInv, NamesUnique, EdgesInv, RootsInv,
        HashInv, Built

\* All the nodes are linked.
LEMMA EndLinkKeeps == IInv /\ EndLink => IInv'
<1> SUFFICES ASSUME IInv, EndLink PROVE IInv'
    OBVIOUS
<1>1. /\ phase' = "roots" /\ phase = "link" /\ idx = 0 /\ unlinked = {}
      /\ unlinked' = Images
      /\ UNCHANGED <<tree, pos, nodes, child, idx, parents, children, roots, curr,
                     next, nextNodes, hash>>
    BY DEF EndLink, discovery, graph, hashing
<1>2. Images' = Images
    BY <1>1 DEF Images
<1>3. Elements(roots) = {}
    BY <1>1 DEF IInv, RootsInv, Elements
<1>4. QED
    BY <1>1, <1>2, <1>3 DEF IInv, TypeOK, NodesInv, NamesUnique, EdgesInv, LinkInv,
        RootsInv, HashInv, Built

\* One node of the second loop.
LEMMA CollectRootKeeps ==
    ASSUME NEW n \in Dirs, IInv, CollectRoot(n)
    PROVE  IInv'
<1>1. /\ phase' = "roots" /\ phase = "roots" /\ n \in unlinked
      /\ unlinked' = unlinked \ {n}
      /\ roots' = IF parents[n] = <<>> THEN Append(roots, n) ELSE roots
      /\ UNCHANGED <<tree, pos, nodes, child, idx, parents, children, curr, next,
                     nextNodes, hash>>
    BY DEF CollectRoot, discovery, hashing
<1>2. Images' = Images
    BY <1>1 DEF Images
<1>3. roots \in Seq(Dirs) /\ n \in Images
    BY <1>1 DEF IInv, TypeOK
<1>4. /\ Append(roots, n) \in Seq(Dirs)
      /\ Elements(Append(roots, n)) = Elements(roots) \cup {n}
    BY <1>3, ElementsOfAppend
<1>5. TypeOK'
    BY <1>1, <1>2, <1>4 DEF IInv, TypeOK
<1>6. RootsInv'
    BY <1>1, <1>2, <1>3, <1>4 DEF IInv, RootsInv, Built
<1>7. QED
    BY <1>1, <1>2, <1>5, <1>6 DEF IInv, NodesInv, NamesUnique, EdgesInv, LinkInv,
        HashInv, Built

\* Before the first level, everything is at or below a root, unless there is a
\* cycle: outside a set that holds the roots and is closed under children, an
\* image without a parent outside it is a root.
LEMMA EndRootsKeeps == IInv /\ EndRoots => IInv'
<1> SUFFICES ASSUME IInv, EndRoots PROVE IInv'
    OBVIOUS
<1>1. /\ phase' = "hash" /\ phase = "roots" /\ unlinked = {} /\ curr' = roots /\ next' = 1
      /\ UNCHANGED <<tree, pos, nodes, unlinked, child, idx, parents, children, roots,
                     nextNodes, hash>>
    BY DEF EndRoots, discovery, linking, graph
<1>2. Images' = Images
    BY <1>1 DEF Images
<1>3. TypeOK'
    BY <1>1, <1>2 DEF IInv, TypeOK
<1>4. Elements(roots) = {n \in Images : parents[n] = <<>>}
    BY <1>1 DEF IInv, RootsInv
<1>5. LinkInv' /\ RootsInv'
    BY <1>1, <1>2, <1>4 DEF IInv, LinkInv, RootsInv, Built
<1>6. HashInv'
    <2>1. Elements(roots) \subseteq Pending'
        <3>1. Elements(roots) = {roots[j] : j \in 1..Len(roots)}
            BY ElementsOfSeq DEF IInv, TypeOK
        <3>2. Elements(roots) = Rest'
            BY <1>1, <3>1 DEF Rest
        <3>3. QED
            BY <1>1, <3>2 DEF Pending
    <2>2. ASSUME NoCycle, NEW S \in SUBSET Images, Covers(S)'
          PROVE  Images \ S = {}
        <3>1. SUFFICES ASSUME Images \ S # {} PROVE FALSE
            OBVIOUS
        <3>2. PICK n \in Images \ S : Elements(parents[n]) \cap (Images \ S) = {}
            BY <2>2, <3>1 DEF NoCycle
        <3>3. n \in Dirs /\ parents[n] \in Seq(Dirs)
            BY DEF IInv, TypeOK
        <3>4. parents[n] # <<>>
            BY <1>4, <2>1, <2>2, <3>2 DEF Covers
        <3>5. PICK p \in Elements(parents[n]) : TRUE
            BY <3>3, <3>4, EmptySlice
        <3>6. p \in Dirs /\ p \in Images /\ n \in Elements(children[p])
            BY <3>3, <3>5, ElementsOfSeq DEF IInv, EdgesInv
        <3>7. p \in S
            BY <3>2, <3>5, <3>6
        <3>8. n \in Children(S)'
            BY <1>1, <3>6, <3>7 DEF Children
        <3>9. QED
            BY <2>2, <3>2, <3>8 DEF Covers
    <2>3. NoCycle' => NoCycle
        BY <1>1, <1>2 DEF NoCycle
    <2>4. Elements(curr') \subseteq Images
        BY <1>1, <1>4
    <2>5. QED
        BY <1>1, <1>2, <2>2, <2>3, <2>4 DEF HashInv
<1>7. QED
    BY <1>1, <1>2, <1>3, <1>5, <1>6 DEF IInv, NodesInv, NamesUnique, EdgesInv

\* What computeHashes leaves alone.
LEMMA GraphFrame ==
    ASSUME IInv, Built, Built',
           UNCHANGED <<tree, pos, nodes, unlinked, child, idx, parents, children, roots>>
    PROVE  /\ NodesInv' /\ NamesUnique' /\ EdgesInv' /\ LinkInv' /\ RootsInv'
           /\ Images' = Images
           /\ NoCycle' = NoCycle
           /\ \A S \in SUBSET Images : Children(S)' = Children(S)
<1>1. Images' = Images
    BY DEF Images
<1>2. QED
    BY <1>1 DEF IInv, NodesInv, NamesUnique, EdgesInv, LinkInv, RootsInv, NoCycle,
        Children, Built

\* Hashing a node m puts it right; its children, whose hashes may have become
\* wrong, are pending.
LEMMA HashNodeKeeps == IInv /\ HashNode => IInv'
<1> SUFFICES ASSUME IInv, HashNode PROVE IInv'
    OBVIOUS
<1>a. PICK m \in Dirs : m = curr[next]
    <2>1. curr \in Seq(Dirs) /\ next \in 1..Len(curr)
        BY DEF IInv, TypeOK, HashNode
    <2>2. QED
        BY <2>1
<1>1. /\ phase' = "hash" /\ phase = "hash" /\ next <= Len(curr) /\ next' = next + 1
      /\ hash' = [hash EXCEPT ![m] = NodeHash(hash, m)]
      /\ UNCHANGED <<tree, pos, nodes, unlinked, child, idx, parents, children, roots,
                     curr, nextNodes>>
    BY <1>a DEF HashNode, discovery, linking, graph
<1>2. /\ Images' = Images /\ NoCycle' = NoCycle
      /\ \A S \in SUBSET Images : Children(S)' = Children(S)
      /\ NodesInv' /\ NamesUnique' /\ EdgesInv' /\ LinkInv' /\ RootsInv'
    BY <1>1, GraphFrame DEF Built
<1>3. curr \in Seq(Dirs) /\ next \in 1..Len(curr) /\ Len(curr) \in Nat
    BY <1>1 DEF IInv, TypeOK
<1>4. Elements(curr) = {curr[j] : j \in 1..Len(curr)} /\ Elements(curr) \subseteq Images
    BY <1>1, <1>3, ElementsOfSeq DEF IInv, HashInv
<1>5. m \in Elements(curr) /\ m \in Images /\ m \in Dirs
    BY <1>a, <1>3, <1>4 DEF IInv, TypeOK
<1>6. TypeOK'
    <2>1. next' \in Nat \ {0}
        BY <1>1, <1>3
    <2>2. hash' = [d \in Dirs |-> hash'[d]]
        BY <1>1, <1>5 DEF IInv, TypeOK
    <2>3. QED
        BY <1>1, <1>2, <2>1, <2>2 DEF IInv, TypeOK
<1>7. Rest \subseteq Rest' \cup {m}
    BY <1>a, <1>1, <1>3 DEF Rest
<1>8. Pending \subseteq Pending' \cup {m} /\ Elements(children[m]) \subseteq Pending'
    <2>1. Children(Elements(curr))' = Children(Elements(curr))
        BY <1>1 DEF Children
    <2>2. Elements(children[m]) \subseteq Children(Elements(curr))
        BY <1>5 DEF Children
    <2>3. QED
        BY <1>1, <1>7, <2>1, <2>2 DEF Pending
<1>9. \A n \in Images \ {m} : hash'[n] = hash[n]
    BY <1>1 DEF IInv, TypeOK
<1>10. ASSUME NoCycle
       PROVE  m \notin Elements(parents[m])
    <2>1. {m} \in SUBSET Images /\ {m} # {}
        BY <1>5
    <2>2. PICK x \in {m} : Elements(parents[x]) \cap {m} = {}
        BY <1>10, <2>1 DEF NoCycle
    <2>3. QED
        BY <2>2
<1>11. ASSUME NoCycle
       PROVE  hash'[m] = NodeHash(hash, m)'
    <2>1. \A p \in Elements(parents[m]) : hash'[p] = hash[p]
        BY <1>1, <1>5, <1>10, <1>11 DEF IInv, TypeOK, EdgesInv
    <2>2. NodeHash(hash, m)' = NodeHash(hash, m)
        BY <1>1, <1>5, <2>1, NodeHashFrame
    <2>3. QED
        BY <1>1, <1>5, <2>2 DEF IInv, TypeOK
<1>12. ASSUME NoCycle, NEW S \in SUBSET Images, Covers(S)', NEW n \in Images \ S
       PROVE  hash'[n] = NodeHash(hash, n)'
    <2>1. CASE n = m
        BY <1>11, <1>12, <2>1
    <2>2. CASE n # m
        <3> DEFINE T == S \cup {m}
        <3>1. T \in SUBSET Images /\ Children(S)' = Children(S)
            BY <1>2, <1>5, <1>12
        <3>2. Pending' \subseteq S /\ Children(S) \subseteq S
            BY <1>12, <3>1 DEF Covers
        <3>3. Children(T) \subseteq T
            BY <1>8, <3>2 DEF Children
        <3>4. Covers(T)
            BY <1>8, <3>2, <3>3 DEF Covers
        <3>5. hash[n] = NodeHash(hash, n)
            BY <1>1, <1>12, <2>2, <3>1, <3>4 DEF IInv, HashInv, Built
        <3>6. n \in Dirs /\ m \notin Elements(parents[n])
            <4>1. n \in Dirs /\ n \notin Elements(children[m])
                BY <1>8, <1>12, <3>2 DEF IInv, TypeOK
            <4>2. QED
                BY <1>5, <4>1 DEF IInv, EdgesInv
        <3>7. \A p \in Elements(parents[n]) : hash'[p] = hash[p]
            <4>1. parents[n] \in Seq(Dirs)
                BY <3>6 DEF IInv, TypeOK
            <4>2. \A p \in Elements(parents[n]) : p \in Dirs /\ p # m
                BY <3>6, <4>1, ElementsOfSeq
            <4>3. QED
                BY <1>1, <4>2 DEF IInv, TypeOK
        <3>8. NodeHash(hash, n)' = NodeHash(hash, n)
            BY <1>1, <3>6, <3>7, NodeHashFrame
        <3>9. QED
            BY <1>9, <1>12, <2>2, <3>5, <3>8
    <2>3. QED
        BY <2>1, <2>2
<1>13. HashInv'
    BY <1>1, <1>2, <1>4, <1>12 DEF HashInv
<1>14. QED
    BY <1>2, <1>6, <1>13 DEF IInv

\* A step that only moves what is pending keeps the invariant, as long as a set
\* that covers it afterwards covered it before.
LEMMA PendingStep ==
    ASSUME IInv, Built, Built', TypeOK',
           UNCHANGED <<tree, pos, nodes, unlinked, child, idx, parents, children, roots,
                       hash>>,
           phase' \in {"hash", "gather"} => Elements(curr') \subseteq Images,
           phase' = "gather" => Elements(nextNodes') \subseteq Images,
           Pending \subseteq Pending'
    PROVE  IInv'
<1>1. /\ Images' = Images /\ NoCycle' = NoCycle
      /\ \A S \in SUBSET Images : Children(S)' = Children(S)
      /\ NodesInv' /\ NamesUnique' /\ EdgesInv' /\ LinkInv' /\ RootsInv'
    BY GraphFrame
<1>2. ASSUME NoCycle, NEW S \in SUBSET Images, Covers(S)', NEW n \in Images \ S
      PROVE  hash'[n] = NodeHash(hash, n)'
    <2>1. Covers(S)
        BY <1>1, <1>2 DEF Covers
    <2>2. hash[n] = NodeHash(hash, n)
        BY <1>2, <2>1 DEF IInv, HashInv
    <2>3. NodeHash(hash, n)' = NodeHash(hash, n)
        BY NodeHashFrame DEF IInv, TypeOK
    <2>4. QED
        BY <2>2, <2>3
<1>3. HashInv'
    BY <1>1, <1>2 DEF HashInv
<1>4. QED
    BY <1>1, <1>3 DEF IInv

\* From hashing a level to gathering its children: the level is done.
LEMMA EndHashKeeps == IInv /\ EndHash => IInv'
<1> SUFFICES ASSUME IInv, EndHash PROVE IInv'
    OBVIOUS
<1>1. /\ phase' = "gather" /\ phase = "hash" /\ next > Len(curr) /\ next' = 1
      /\ nextNodes' = <<>>
      /\ UNCHANGED <<tree, pos, nodes, unlinked, child, idx, parents, children, roots,
                     curr, hash>>
    BY DEF EndHash, discovery, linking, graph
<1>2. Images' = Images /\ curr \in Seq(Dirs) /\ Len(curr) \in Nat /\ next \in Nat
    BY <1>1 DEF IInv, TypeOK, Images
<1>3. TypeOK'
    BY <1>1, <1>2 DEF IInv, TypeOK
<1>4. Elements(nextNodes') = {} /\ Elements(curr) \subseteq Images
    BY <1>1 DEF IInv, HashInv, Elements
<1>5. Rest = {} /\ Rest' = Elements(curr)
    <2>1. Elements(curr) = {curr[j] : j \in 1..Len(curr)}
        BY <1>2, ElementsOfSeq
    <2>2. QED
        BY <1>1, <1>2, <2>1 DEF Rest
<1>6. Children(Rest)' = Children(Elements(curr))
    BY <1>1, <1>5 DEF Children
<1>7. Pending \subseteq Pending'
    BY <1>1, <1>5, <1>6 DEF Pending
<1>8. QED
    BY <1>1, <1>3, <1>4, <1>7, PendingStep DEF Built

\* Gathering the children of one node of the level.
LEMMA GatherKeeps == IInv /\ Gather => IInv'
<1> SUFFICES ASSUME IInv, Gather PROVE IInv'
    OBVIOUS
<1> DEFINE m == curr[next]
<1>1. /\ phase' = "gather" /\ phase = "gather" /\ next <= Len(curr) /\ next' = next + 1
      /\ nextNodes' = nextNodes \o children[m]
      /\ UNCHANGED <<tree, pos, nodes, unlinked, child, idx, parents, children, roots,
                     curr, hash>>
    BY DEF Gather, discovery, linking, graph
<1>2. /\ Images' = Images /\ curr \in Seq(Dirs) /\ nextNodes \in Seq(Dirs)
      /\ next \in 1..Len(curr) /\ Len(curr) \in Nat
    BY <1>1 DEF IInv, TypeOK, Images
<1>3. m \in Dirs /\ children[m] \in Seq(Dirs)
    BY <1>2 DEF IInv, TypeOK
<1>4. /\ nextNodes \o children[m] \in Seq(Dirs)
      /\ Elements(nextNodes') = Elements(nextNodes) \cup Elements(children[m])
    BY <1>1, <1>2, <1>3, ElementsOfConcat
<1>5. TypeOK'
    <2>1. next' \in Nat \ {0}
        BY <1>1, <1>2
    <2>2. QED
        BY <1>1, <1>2, <1>4, <2>1 DEF IInv, TypeOK
<1>6. Elements(children[m]) \subseteq Images
    BY <1>3, ElementsOfSeq DEF IInv, EdgesInv
<1>7. Elements(nextNodes') \subseteq Images /\ Elements(curr) \subseteq Images
    BY <1>1, <1>4, <1>6 DEF IInv, HashInv
<1>8. Rest \subseteq Rest' \cup {m}
    BY <1>1, <1>2 DEF Rest
<1>9. Children(Rest) \subseteq Children(Rest)' \cup Elements(children[m])
    BY <1>1, <1>8 DEF Children
<1>10. Pending \subseteq Pending'
    BY <1>1, <1>4, <1>9 DEF Pending
<1>11. QED
    BY <1>1, <1>5, <1>7, <1>10, PendingStep DEF Built

\* The children gathered become the next level.
LEMMA NextLevelKeeps == IInv /\ NextLevel => IInv'
<1> SUFFICES ASSUME IInv, NextLevel PROVE IInv'
    OBVIOUS
<1>1. /\ phase' = "hash" /\ phase = "gather" /\ next > Len(curr) /\ next' = 1
      /\ curr' = nextNodes
      /\ UNCHANGED <<tree, pos, nodes, unlinked, child, idx, parents, children, roots,
                     nextNodes, hash>>
    BY DEF NextLevel, discovery, linking, graph
<1>2. /\ Images' = Images /\ curr \in Seq(Dirs) /\ nextNodes \in Seq(Dirs)
      /\ Len(curr) \in Nat /\ next \in Nat
    BY <1>1 DEF IInv, TypeOK, Images
<1>3. TypeOK'
    BY <1>1, <1>2 DEF IInv, TypeOK
<1>4. Elements(curr') \subseteq Images
    BY <1>1 DEF IInv, HashInv
<1>5. Children(Rest) = {}
    BY <1>1, <1>2 DEF Rest, Children
<1>6. Rest' = Elements(nextNodes)
    <2>1. Elements(nextNodes) = {nextNodes[j] : j \in 1..Len(nextNodes)}
        BY <1>2, ElementsOfSeq
    <2>2. QED
        BY <1>1, <2>1 DEF Rest
<1>7. Pending \subseteq Pending'
    BY <1>1, <1>5, <1>6 DEF Pending
<1>8. QED
    BY <1>1, <1>3, <1>4, <1>7, PendingStep DEF Built

\* The last level was empty: nothing is pending.
LEMMA FinishKeeps == IInv /\ Finish => IInv'
<1> SUFFICES ASSUME IInv, Finish PROVE IInv'
    OBVIOUS
<1>1. /\ phase' = "done" /\ phase = "hash" /\ curr = <<>>
      /\ UNCHANGED <<tree, pos, nodes, unlinked, child, idx, parents, children, roots,
                     curr, next, nextNodes, hash>>
    BY DEF Finish, discovery, linking, graph, hashing
<1>2. Images' = Images
    BY <1>1 DEF Images
<1>3. TypeOK'
    BY <1>1, <1>2 DEF IInv, TypeOK
<1>4. Pending = {}
    <2>1. Elements(curr) = {}
        BY <1>1 DEF Elements
    <2>2. Rest = {}
        BY <1>1 DEF Rest, IInv, TypeOK
    <2>3. QED
        BY <1>1, <2>1, <2>2 DEF Pending, Children
<1>5. QED
    BY <1>1, <1>3, <1>4, PendingStep DEF Built

\* Stuttering keeps the invariant.
LEMMA StutterKeeps == IInv /\ UNCHANGED vars => IInv'
<1> SUFFICES ASSUME IInv, UNCHANGED vars PROVE IInv'
    OBVIOUS
<1>1. UNCHANGED <<phase, tree, pos, nodes, unlinked, child, idx, parents, children, roots,
                  curr, next, nextNodes, hash>>
    BY DEF vars, discovery, linking, graph, hashing
<1>2. Images' = Images /\ Pending' = Pending /\ NoCycle' = NoCycle
    BY <1>1 DEF Images, Pending, Rest, Children, NoCycle
<1>3. \A S : Covers(S)' = Covers(S)
    BY <1>1, <1>2 DEF Covers, Children
<1>4. \A n : NodeHash(hash, n)' = NodeHash(hash, n)
    BY <1>1 DEF NodeHash, ParentHashes
<1>5. TypeOK' /\ NodesInv' /\ NamesUnique' /\ EdgesInv' /\ LinkInv' /\ RootsInv'
    BY <1>1, <1>2 DEF IInv, TypeOK, NodesInv, NamesUnique, EdgesInv, LinkInv, RootsInv, Built
<1>6. HashInv'
    BY <1>1, <1>2, <1>3, <1>4 DEF IInv, HashInv, Built
<1>7. QED
    BY <1>5, <1>6 DEF IInv

\* The invariant is inductive.
THEOREM IInvInvariant == Spec => []IInv
<1>1. IInv /\ [Next]_vars => IInv'
    BY DiscoverKeeps, ErrorKeeps, EndDiscoverKeeps, NextChildKeeps, LinkKeeps,
        EndChildKeeps, EndLinkKeeps, CollectRootKeeps, EndRootsKeeps, HashNodeKeeps,
        EndHashKeeps, GatherKeeps, NextLevelKeeps, FinishKeeps, StutterKeeps
        DEF Next, Returned
<1>2. QED
    BY IInvInit, <1>1, PTL DEF Spec

-----------------------------------------------------------------------------
(* What GenerateDAG gives the rest of the program.                         *)

\* Every variable keeps its type: only images found on disk enter the graph.
THEOREM TypeCorrect == Spec => []TypeOK
BY IInvInvariant, PTL DEF IInv

\* Two images that are built never have the same name (generate_dag.go:61-66).
THEOREM NamesAreUnique == Spec => []NamesUnique
BY IInvInvariant, PTL DEF IInv

\* The assumptions of ImageGraph hold of every graph newGraphFromNodes builds.
THEOREM GraphConsistent == Spec => []GraphIsConsistent
<1>1. IInv => GraphIsConsistent
    <2>1. SUFFICES ASSUME IInv, Built PROVE GraphIsConsistent
        BY DEF GraphIsConsistent
    <2>2. Images \subseteq Dirs /\ phase \notin {"discover", "error", "link"}
        BY <2>1 DEF IInv, TypeOK, Built
    <2>3. \A n, p \in Images :
            /\ n \in Elements(children[p]) <=> p \in Elements(parents[n])
            /\ p \in Elements(parents[n]) <=> nodes[p].name \in Elements(nodes[n].from)
        BY <2>1, <2>2 DEF IInv, EdgesInv, LinkInv
    <2>4. \A n \in Images : parents[n] = <<>> <=> Elements(parents[n]) = {}
        <3>1. SUFFICES ASSUME NEW n \in Images
                       PROVE  parents[n] = <<>> <=> Elements(parents[n]) = {}
            OBVIOUS
        <3>2. parents[n] \in Seq(Dirs)
            BY <2>1, <2>2 DEF IInv, TypeOK
        <3>3. QED
            BY <3>2, EmptySlice
    <2>5. QED
        BY <2>1, <2>3, <2>4 DEF GraphIsConsistent, IInv, RootsInv
<1>2. QED
    BY <1>1, IInvInvariant, PTL

\* The hashes are final when GenerateDAG returns: with nothing pending the empty
\* set covers what is, so no hash is wrong.
LEMMA HashesAreFinal ==
    ASSUME IInv, phase = "done", NoCycle, NEW n \in Images
    PROVE  hash[n] = NodeHash(hash, n)
<1>1. Covers({})
    BY DEF Covers, Pending, Children
<1>2. QED
    BY <1>1 DEF IInv, HashInv, Built

\* Only the hashes of the parents count.
LEMMA NodeHashAgrees ==
    ASSUME NEW h, NEW k, NEW n \in Images, \A p \in Elements(parents[n]) : h[p] = k[p]
    PROVE  NodeHash(h, n) = NodeHash(k, n)
<1>1. {h[p] : p \in Elements(parents[n])} = {k[p] : p \in Elements(parents[n])}
    OBVIOUS
<1>2. \A i \in DOMAIN parents[n] : h[parents[n][i]] = k[parents[n][i]]
    BY DEF Elements
<1>3. \A x : {i \in DOMAIN parents[n] : h[parents[n][i]] = x}
                = {i \in DOMAIN parents[n] : k[parents[n][i]] = x}
    BY <1>2
<1>4. ParentHashes(h, n) = ParentHashes(k, n)
    BY <1>1, <1>3 DEF ParentHashes
<1>5. QED
    BY <1>4 DEF NodeHash

\* On an acyclic graph two assignments of hashes agree if both are computed from
\* themselves: an image on which they do not has a parent on which they do not.
LEMMA HashesAgree ==
    ASSUME IInv, NoCycle, NEW h, NEW k,
           \A n \in Images : h[n] = NodeHash(h, n) /\ k[n] = NodeHash(k, n)
    PROVE  \A n \in Images : h[n] = k[n]
<1> DEFINE S == {n \in Images : h[n] # k[n]}
<1>1. SUFFICES ASSUME S # {} PROVE FALSE
    OBVIOUS
<1>2. PICK n \in S : Elements(parents[n]) \cap S = {}
    BY <1>1 DEF NoCycle
<1>3. Elements(parents[n]) \subseteq Images
    <2>1. n \in Dirs /\ parents[n] \in Seq(Dirs)
        BY <1>2 DEF IInv, TypeOK
    <2>2. Elements(parents[n]) \subseteq Dirs
        BY <2>1, ElementsOfSeq
    <2>3. QED
        BY <2>1, <2>2 DEF IInv, EdgesInv
<1>4. \A p \in Elements(parents[n]) : h[p] = k[p]
    BY <1>2, <1>3
<1>5. NodeHash(h, n) = NodeHash(k, n)
    BY <1>2, <1>4, NodeHashAgrees
<1>6. QED
    BY <1>2, <1>5

\* The hashes computeHashes arrives at are those of the recursive definition, for
\* every acyclic graph, every order of the maps and every hash function.  They are
\* a solution of its equation, so that it has one, and it has no other.
THEOREM HashesAreTheReference == Spec => []HashIsReference
<1>1. ASSUME IInv, phase = "done", NoCycle
      PROVE  \A n \in Images : hash[n] = Reference[n]
    <2> DEFINE g == [n \in Images |-> hash[n]]
    <2>1. \A n \in Images : g[n] = NodeHash(g, n)
        <3>1. SUFFICES ASSUME NEW n \in Images PROVE g[n] = NodeHash(g, n)
            OBVIOUS
        <3>2. Elements(parents[n]) \subseteq Images
            <4>1. n \in Dirs /\ parents[n] \in Seq(Dirs)
                BY <1>1 DEF IInv, TypeOK
            <4>2. Elements(parents[n]) \subseteq Dirs
                BY <4>1, ElementsOfSeq
            <4>3. QED
                BY <1>1, <4>1, <4>2 DEF IInv, EdgesInv
        <3>3. \A p \in Elements(parents[n]) : hash[p] = g[p]
            BY <3>2
        <3>4. NodeHash(hash, n) = NodeHash(g, n)
            <4> HIDE DEF g
            <4>1. QED
                BY <3>3, NodeHashAgrees
        <3>5. QED
            BY <1>1, <3>4, HashesAreFinal
    <2>2. g = [n \in Images |-> NodeHash(g, n)]
        BY <2>1
    <2>3. \E h : h = [n \in Images |-> NodeHash(h, n)]
        <3> HIDE DEF g
        <3>1. QED
            BY <2>2
    <2>4. Reference = [n \in Images |-> NodeHash(Reference, n)]
        BY <2>3, Zenon DEF Reference
    <2>5. \A n \in Images : Reference[n] = NodeHash(Reference, n)
        BY <2>4
    <2>6. \A n \in Images : g[n] = Reference[n]
        <3> HIDE DEF g
        <3>1. QED
            BY <1>1, <2>1, <2>5, HashesAgree
    <2>7. QED
        BY <2>6
<1>2. IInv => HashIsReference
    BY <1>1 DEF HashIsReference
<1>3. QED
    BY <1>2, IInvInvariant, PTL

=============================================================================
