SPECIFICATION Spec
CONSTANTS
    base = base
    app = app
    job = job
    Nodes <- TreeNodes
    Parents <- TreeParents
    Children <- TreeChildren
    Roots <- TreeRoots
    Layouts <- FourLayouts
    Published <- NoneOrBase
    MaxEvents = 3
INVARIANTS
    ArchiveIsHashed
    SpoiledIsNested
    WorkingCopyRestored
    OneCrashHeals
PROPERTIES
    SecondRunIsIdle
