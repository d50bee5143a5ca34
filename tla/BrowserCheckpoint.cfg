\* Two groups of a batch.
CONSTANTS
    Kinds = {"group"}
    Sources = 2
    Links = 2
    Tabs = 1
    MaxRounds = 3
    Patience = 2
    Tries = 2
SPECIFICATION FairBrowserSpec
PROPERTY CheckpointStops
CHECK_DEADLOCK FALSE
