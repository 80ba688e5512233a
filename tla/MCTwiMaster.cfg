CONSTANTS
    MaxLength = 3
    Timeout = 2
    Faults <- MCFaults
SPECIFICATION TwiSpec
INVARIANTS TransferExact FailureReported
PROPERTY ReadReturns
