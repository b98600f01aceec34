\* Every fault, one plugin that can be switched and one that cannot.
SPECIFICATION FairSpec
CONSTANTS
    Texts <- Words
    Begins <- Starts
    Plugins = {"p", "q"}
    Builtin = {"q"}
    Titles = {"CUSA1"}
    HandWritten <- OneFile
    Mixed <- Mixtures
    Faults = {"open", "save", "full", "power", "edit"}
    MaxFaults = 1
INVARIANTS TypeOK FileSaysStore FileHoldsPart OnlySwitchedOn StartsAllThatAreOn ShowsWhatIsStored
PROPERTIES KeepsEntries LoaderReturns
