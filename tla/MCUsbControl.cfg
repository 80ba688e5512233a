SPECIFICATION FairSpec
CONSTANTS
    Pkt = 2
    MaxLen = 4
    Faults = {"cut_in"}
INVARIANTS
    CallbackOnce
PROPERTIES
    ImplementsTransfer RegularEnds
