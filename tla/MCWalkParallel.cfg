SPECIFICATION Spec
CONSTANTS
    a = a
    b = b
    c = c
    d = d
    e = e
    Free = Free
    Nodes <- DiamondNodes
    Parents <- DiamondParents
    Children <- DiamondChildren
    Roots <- DiamondRoots
INVARIANTS
    ParentsCompletedFirst
    NeverStuck
PROPERTIES
    ImplementsTopoWalk
