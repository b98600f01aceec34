\* Two sessions that walk about, list and rearrange a tree of two levels.
SPECIFICATION Spec
CONSTANTS
    Sessions = {c1, c2}
    Arguments <- SomeArguments
    Nodes <- ShortNodes
    Trees <- SomeTrees
    ProcessDir <- TopDir
    MaxCommands = 4
SYMMETRY Symmetry
CHECK_DEADLOCK FALSE
INVARIANTS TypeOK ListExact
PROPERTIES ActsWhereMeant CwdStays
