\* An app of one title meets another title's section.
SPECIFICATION FairSpec
CONSTANTS
    Texts <- Words
    Begins <- Starts
    Plugins = {"p"}
    Builtin = {}
    Titles = {"CUSA1"}
    HandWritten <- TwoFiles
    Mixed <- Mixtures
    Faults = {}
    MaxFaults = 0
PROPERTIES LoaderGetsThrough
