SPECIFICATION FairSpec
CONSTANTS
    Functions <- MCFunctions
    Scanned <- MCScanned
    Firmwares <- MCFirmwares
    PadCount = 4
    CaveSize = 4096
    Slack = 14
    Chunks = 3
    MaxRestarts = 1
INVARIANTS
    TypeOK
    Reaches
    OriginalReady
    BootComplete
    MarkSound
PROPERTY CoreGetsPatched
