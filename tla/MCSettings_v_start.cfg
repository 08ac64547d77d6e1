CONSTANTS
    Dirs = {"home", "custom"}
    MaxEdits = 4
SPECIFICATION Spec
INVARIANT Starts
CHECK_DEADLOCK FALSE
