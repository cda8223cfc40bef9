CONSTANTS
    Kind = {"row", "sep", "text"}
    Wrap = TRUE
    MaxLines = 5
SPECIFICATION SessionSpec
INVARIANTS EveryLineIsSent
CHECK_DEADLOCK FALSE
