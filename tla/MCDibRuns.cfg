SPECIFICATION Spec
CONSTANTS
    p = p
    c = c
    r1 = r1
    r2 = r2
    None = None
    Nodes <- PairNodes
    Parents <- PairParents
    Children <- PairChildren
    Roots <- PairRoots
    Runs <- TwoRuns
    Exclusive = TRUE
INVARIANTS
    VersionsAreTested
    LatestIsTested
    BasesAreVersions
PROPERTIES
    SuccessCompletes
    VersionsStay
