\* Two clients at once: a stale data_fd.
SPECIFICATION Spec
CONSTANTS
    Sessions = {c1, c2}
    Server = server
    Fds = {3, 4, 5, 6, 7}
    Commands = {"PASV", "RETR"}
    Faults = {}
    MaxCommands = 3

INVARIANT ClosesOwnData
