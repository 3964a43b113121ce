---------------------------- MODULE MCGenerateDAG ----------------------------
(* Trees of Dockerfiles for GenerateDAG, and the hash as a term: two hashes *)
(* are equal only if they were computed from the same files and hashes.     *)
EXTENDS GenerateDAG

CONSTANTS base, left, right, app, tool

AllNames == {base, left, right, app, tool}
AllDirs == AllNames
TermHash(file, parentHashes) == <<file.dir, parentHashes>>

Image(name, from) ==
    [dir |-> name, name |-> name, skip |-> FALSE, readable |-> TRUE, from |-> from]

\* app is three levels below base by one path and one level below by another,
\* and names left twice; tool has a base image dib does not manage.
Layered == <<Image(app, <<left, right, left, base>>), Image(base, <<>>),
             Image(left, <<base>>), Image(right, <<left>>), Image(tool, <<>>)>>

\* A skipped file, FROMs that name no image that is built, and a third
\* Dockerfile that reuses the name of the first.
Rejects ==
    {<<[Image(base, <<>>) EXCEPT !.skip = TRUE, !.name = NoName], Image(left, <<base>>),
       Image(right, <<left, tool>>)>>,
     <<Image(left, <<>>), Image(right, <<left>>), [Image(app, <<right>>) EXCEPT !.name = left]>>,
     <<Image(left, <<>>), [Image(right, <<left>>) EXCEPT !.skip = TRUE, !.name = left]>>,
     <<Image(left, <<>>), [Image(right, <<left>>) EXCEPT !.readable = FALSE]>>,
     <<Image(left, <<>>), [Image(right, <<left>>) EXCEPT !.name = NoName]>>}

\* base/Dockerfile and base/test.Dockerfile: the second takes the first one's
\* place in the map, and left has no parent.
OneDirectory ==
    <<Image(base, <<>>), [Image(base, <<>>) EXCEPT !.name = tool], Image(left, <<base>>)>>

AcyclicTrees == {Layered, OneDirectory} \cup Rejects

=============================================================================
