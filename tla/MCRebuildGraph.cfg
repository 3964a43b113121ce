SPECIFICATION Spec
CONSTANTS
    a = a
    b = b
    c = c
    d = d
    e = e
    Nodes <- KiteNodes
    Parents <- KiteParents
    Children <- KiteChildren
    Roots <- KiteRoots
    Concurrency = 2
INVARIANTS
    BasesAvailable
    PermitsBounded
    DockerfilesRestored
    NoSendAfterClose
    ReportsComplete
    GateIsSound
PROPERTIES
    RebuildTerminates
