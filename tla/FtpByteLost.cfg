\* The same sessions without REST: an upload whose connection breaks.
SPECIFICATION Spec
CONSTANTS
    Sessions = {c1, c2}
    Paths = {f, g}
    Nodes = {1, 2, 3}
    Bytes = {x, y}
    Offsets = {}
    Faults = {"recv", "crash"}
    MaxLength = 2
    MaxCommands = 4
    MaxFaults = 1
SYMMETRY Symmetry
CHECK_DEADLOCK FALSE
INVARIANT ReceivedIsStored
