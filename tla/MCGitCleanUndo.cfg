SPECIFICATION Spec
CONSTANTS
    feature = feature
    fix = fix
    main = main
    side = side
    Branch = {feature}
    Path = {main, side}
    Main = main
    Detached = "detached"
    Gone = "gone"
    MaxCommits = 3
    MaxMoves = 3
    MaxRuns = 1
PROPERTIES
    UndoExists
CHECK_DEADLOCK FALSE
