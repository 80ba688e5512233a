SPECIFICATION Spec
CONSTANTS
    Slots = 4
    Lag = 1
    Warm = 2
    OutReq = 3
    Frames = {0}
    MaxStarts = 2
    HostOps = {"serve", "stop"}
INVARIANTS
    CallbackRegistered
