\* Both shells, every line of up to three commands of six kinds, one failed call
\* in each line; any number of lines one after the other.
SPECIFICATION ShellFairSpec
CONSTANTS
    Typed <- LinesOfThree
    MaxCommands = 3
    Items = 2
    Room = 1
    Screen = 2
INVARIANTS NothingLeft Computes
PROPERTIES PromptReturns
\* The shell ends at the end of its input.
CHECK_DEADLOCK FALSE
