\* The same sessions: a download after a REST.
SPECIFICATION Spec
CONSTANTS
    Sessions = {c1, c2}
    Paths = {f, g}
    Nodes = {1, 2, 3}
    Bytes = {x, y}
    Offsets <- RestOffsets
    Faults = {"recv", "crash"}
    MaxLength = 2
    MaxCommands = 4
    MaxFaults = 1
SYMMETRY Symmetry
CHECK_DEADLOCK FALSE
INVARIANT DownloadResumes
