-------------------------- MODULE MCRemoteContext ---------------------------
(* A base image and two images from it, which are built at the same time, in *)
(* four layouts of their directories.                                        *)
EXTENDS RemoteContext, TLC

CONSTANTS base, app, job

TreeNodes == {base, app, job}
TreeRoots == <<base>>
TreeChildren == (base :> <<app, job>>) @@ (app :> <<>>) @@ (job :> <<>>)
TreeParents == (base :> <<>>) @@ (app :> <<base>>) @@ (job :> <<base>>)

Flat == [n \in TreeNodes |-> {}]
ChildrenInParent == [Flat EXCEPT ![base] = {app, job}]
Neighbours == [Flat EXCEPT ![app] = {job}]
ParentInChild == [Flat EXCEPT ![app] = {base}]

NoneOrBase == {{}, {base}}

FourLayouts == {Flat, ChildrenInParent, Neighbours, ParentInChild}

=============================================================================
