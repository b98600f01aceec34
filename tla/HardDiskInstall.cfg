SPECIFICATION Spec
CONSTANTS
    Functions <- MCFunctions
    Scanned <- MCScanned
    Firmwares <- Complete
    PadCount = 4
    CaveSize = 4096
    Slack = 14
    Chunks = 3
    MaxRestarts = 1
INVARIANT HardDiskInstall
