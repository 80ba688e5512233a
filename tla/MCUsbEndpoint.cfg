SPECIFICATION FairSpec
CONSTANTS
    Sizes <- MCSizes
    Packet = 2
    Max = 4
    Banks = 2
    MaxCalls = 2
    Word = 11
INVARIANTS
    TypeOK
    ToggleInSync
PROPERTIES
    
    JobAnswered
