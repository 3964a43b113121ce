------------------------------- MODULE MCRetag -------------------------------
(* Two roots with a child in common, which two goroutines may retag at the  *)
(* same time and which has an extra tag.                                    *)
EXTENDS Retag, TLC

CONSTANTS a, b, c

SharedNodes == {a, b, c}
SharedRoots == <<a, b>>
SharedChildren == (a :> <<c>>) @@ (b :> <<c>>) @@ (c :> <<>>)
SharedParents == (a :> <<>>) @@ (b :> <<>>) @@ (c :> <<a, b>>)

\* A call is the path that leads to it.
PathCalls == {<<a>>, <<b>>, <<a, c>>, <<b, c>>}
PathNodeOf == [p \in PathCalls |-> p[Len(p)]]
PathSubCalls ==
    [p \in PathCalls |-> {q \in PathCalls : Len(q) = Len(p) + 1 /\ SubSeq(q, 1, Len(p)) = p}]
PathRootCalls == {p \in PathCalls : Len(p) = 1}

OneExtraTag == (a :> <<>>) @@ (b :> <<>>) @@ (c :> <<"v1">>)

=============================================================================
