\* Two clients at once, a descriptor table that runs full, and an acceptor
\* whose calls fail.
SPECIFICATION Spec
CONSTANTS
    Sessions = {c1, c2}
    Server = server
    Fds = {3, 4, 5, 6}
    Commands = {"PASV", "PORT", "LIST", "STOR"}
    Faults = {"bind", "thread", "exit"}
    MaxCommands = 2
SYMMETRY SessionSymmetry
INVARIANTS TypeOK Accounted
