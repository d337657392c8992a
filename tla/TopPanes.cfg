\* An armed pane over boards of every kind and over boards that move under it,
\* and one in watch mode.
SPECIFICATION Spec
CONSTANTS
    Tasks = {1, 2, 3}
    Escalations = {1, 2}
    TaskOf <- TaskOfs
    Blocking = {1}
    Deps <- DepsOf
    Priorities = {0, 1, 2}
    Texts = {"", " ", "old", "other", "new", " new", "o ld"}
    Inputs = {" ", " new", "o ld"}
    Worlds <- Panes
INVARIANTS
    TypeOK
    EveryTaskHasARow
    ScreenIsHonest
    SelectionIsOnScreen
PROPERTIES
    WritesWhatWasPicked
CHECK_DEADLOCK FALSE
