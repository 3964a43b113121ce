SPECIFICATION Spec
CONSTANTS
    base = base
    left = left
    right = right
    app = app
    tool = tool
    NoName = NoName
    NoHash = NoHash
    Dirs <- AllDirs
    Names <- AllNames
    Trees <- AcyclicTrees
    HashFiles <- TermHash
INVARIANTS
    GraphIsConsistent
    HashIsReference
PROPERTIES
    GenerateTerminates
