SPECIFICATION PanelSpec
CONSTANTS
    Names <- TwoNames
    Start <- InX
    StartDirs <- SomeDirs
    StartFiles <- SomeFiles
    Heights = {1, 2, 3, 4}
    MaxDepth = 2
    MaxChanges = 1
INVARIANTS TypeOK CursorVisible
PROPERTIES ShowsItsDirectory
CHECK_DEADLOCK FALSE
