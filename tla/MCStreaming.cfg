SPECIFICATION MCSpec
CONSTANTS
    Slots = 6
    Lag = 2
    Warm = 4
    OutReq = 5
    Frames = {0}
    MaxStarts = 2
    HostOps = {"serve", "stop", "restart_running", "halt", "reconfigure"}
INVARIANTS
    TypeOK SlotsAligned NoStartBeforeFirstPacket BuffersKept
    TransfersBacked StopHolds
CONSTRAINTS
    StillOfInterest
