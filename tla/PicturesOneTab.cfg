SPECIFICATION FairSpec
CONSTANTS
    Keys = {first, second}
    Tabs = {one}
    MaxFaults = 1
    MaxCrops = 2
INVARIANTS
    TypeOK
    PictureStored
PROPERTIES
    ProcessingEnds
