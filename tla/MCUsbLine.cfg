SPECIFICATION LineSpec
CONSTANTS
    Addresses <- OneAddress
    MaxFaults = 1
    Overlap = FALSE
INVARIANTS
    EnabledConsistent EndpointsOwned DescriptorAsRequested InFlows
PROPERTIES
    LineNoticed
