--------------------------- MODULE MCWalkParallel ---------------------------
(* Graphs for WalkParallel: a diamond whose bottom node has three parents,  *)
(* one of them twice, and a second root met after its child's other parent. *)
EXTENDS WalkParallel, TLC

CONSTANTS a, b, c, d, e

DiamondNodes == {a, b, c, d, e}
DiamondRoots == <<a, e>>
DiamondChildren ==
    (a :> <<b, c>>) @@ (b :> <<d, d>>) @@ (c :> <<d>>) @@ (d :> <<>>) @@ (e :> <<d>>)
DiamondParents ==
    (a :> <<>>) @@ (b :> <<a>>) @@ (c :> <<a>>) @@ (d :> <<b, c, b, e>>) @@ (e :> <<>>)

=============================================================================
