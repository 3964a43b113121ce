SPECIFICATION PlanSpec
CONSTANTS
    a = a
    b = b
    c = c
    Absent = Absent
    NoAnswer = NoAnswer
    Nodes <- SharedNodes
    Parents <- SharedParents
    Children <- SharedChildren
    Roots <- SharedRoots
    Calls <- PathCalls
    NodeOf <- PathNodeOf
    SubCalls <- PathSubCalls
    RootCalls <- PathRootCalls
    Published <- PublishedNodes
INVARIANTS
    EveryAnswerKnown
    NothingLeftOut
    NoNeedlessRebuild
PROPERTIES
    PlanReturns
