SPECIFICATION RetagSpec
CONSTANTS
    a = a
    b = b
    c = c
    Nodes <- SharedNodes
    Parents <- SharedParents
    Children <- SharedChildren
    Roots <- SharedRoots
    Calls <- PathCalls
    NodeOf <- PathNodeOf
    SubCalls <- PathSubCalls
    RootCalls <- PathRootCalls
    Placeholder = "latest"
    ExtraTags <- OneExtraTag
INVARIANTS
    DoneMeansTagged
    SuccessMeansTagged
    ReleasedHaveVersion
PROPERTIES
    RetagReturns
