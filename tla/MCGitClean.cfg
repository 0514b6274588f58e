SPECIFICATION Spec
CONSTANTS
    feature = feature
    fix = fix
    main = main
    side = side
    Branch = {feature, fix}
    Path = {main, side}
    Main = main
    Detached = "detached"
    Gone = "gone"
    MaxCommits = 4
    MaxMoves = 3
    MaxRuns = 2
INVARIANTS
    TypeOK
PROPERTIES
    SweepLosesOnlyMerged
    RemovalIsTold
    ServerLossIsBundled
SYMMETRY Symmetry
CHECK_DEADLOCK FALSE
