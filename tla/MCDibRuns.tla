----------------------------- MODULE MCDibRuns ------------------------------
(* An image with one parent: two tags of two images can be cut apart by a   *)
(* crash, and a build can be from a parent that is replaced later.          *)
EXTENDS DibRuns, TLC

CONSTANTS p, c, r1, r2

PairNodes == {p, c}
PairRoots == <<p>>
PairChildren == (p :> <<c>>) @@ (c :> <<>>)
PairParents == (p :> <<>>) @@ (c :> <<p>>)

TwoRuns == {r1, r2}

=============================================================================
