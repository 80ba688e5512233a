SPECIFICATION LiveSpec
CONSTANTS
    Slots = 4
    Lag = 1
    Warm = 2
    OutReq = 3
    Frames = {0, 1}
    MaxStarts = 1
    HostOps = {"serve"}
PROPERTIES
    StreamLives
