------------------------------- MODULE MCPlan --------------------------------
(* Two roots with a child in common: the registry may be asked twice for c, *)
(* and the two answers may differ.                                          *)
EXTENDS Plan, TLC

CONSTANTS a, b, c

SharedNodes == {a, b, c}
SharedRoots == <<a, b>>
SharedChildren == (a :> <<c>>) @@ (b :> <<c>>) @@ (c :> <<>>)
SharedParents == (a :> <<>>) @@ (b :> <<>>) @@ (c :> <<a, b>>)

\* A call is the path that leads to it.
PathCalls == {<<a>>, <<b>>, <<a, c>>, <<b, c>>}
PathNodeOf == [p \in PathCalls |-> p[Len(p)]]
PathSubCalls ==
    [p \in PathCalls |-> {q \in PathCalls : Len(q) = Len(p) + 1 /\ SubSeq(q, 1, Len(p)) = p}]
PathRootCalls == {p \in PathCalls : Len(p) = 1}

PublishedNodes == {b, c}

=============================================================================
