--------------------------- MODULE MCRebuildGraph ---------------------------
(* Three roots that compete for two permits, and a chain of three: the last *)
(* image has two parents that can fail, be skipped or be left alone         *)
(* independently, one of them below another image.                          *)
EXTENDS RebuildGraph, TLC

CONSTANTS a, b, c, d, e

KiteNodes == {a, b, c, d, e}
KiteRoots == <<a, b, e>>
KiteChildren ==
    (a :> <<c>>) @@ (b :> <<d>>) @@ (c :> <<d>>) @@ (d :> <<>>) @@ (e :> <<>>)
KiteParents ==
    (a :> <<>>) @@ (b :> <<>>) @@ (c :> <<a>>) @@ (d :> <<b, c>>) @@ (e :> <<>>)

=============================================================================
