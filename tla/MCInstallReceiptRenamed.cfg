SPECIFICATION Spec
CONSTANTS
    file = file
    dir = dir
    claude = claude
    kit = kit
    renamed = renamed
    v1 = v1
    v2 = v2
    mine = mine
    torn = torn
    none = none
    Paths = {file}
    Dirs = {}
    Tools = {}
    Plugins = {kit, renamed}
    Versions = {v1, v2}
    Edits = {mine}
    Torn = torn
    None = none
    Retention = 1
    MaxRuns = 3
    MaxMoves = 2
PROPERTIES
    InstalledIsThere
CHECK_DEADLOCK FALSE
