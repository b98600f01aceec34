\* Two clients, descriptors for both as long as none is lost, every fault twice.
SPECIFICATION FairSpec
CONSTANTS
    Clients = {a, b}
    MaxFds = 4
    MaxLog = 2
    Faults = {"interfaces", "setup", "file", "accept", "read", "select"}
    MaxFaults = 2
INVARIANTS TypeOK Counted NoGaps
PROPERTIES ClosesOnlyGone Delivers Recovers
