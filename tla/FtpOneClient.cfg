\* One client at a time, every command and every fault but those that lose the
\* listener.
SPECIFICATION FairSpec
CONSTANTS
    Sessions = {c1}
    Server = server
    Fds = {3, 4, 5, 6, 7, 8, 9, 10}
    Commands = {"SIMPLE", "PASV", "PORT", "LIST", "RETR", "STOR", "APPE", "QUIT", "KILL"}
    Faults = {"hangup", "send", "exit"}
    MaxCommands = 5
INVARIANTS ClosesOwnData Intact
PROPERTIES LockStep TornDown
