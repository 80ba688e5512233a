SPECIFICATION Spec
CONSTANTS
    Pkt = 2
    MaxLen = 3
    Faults = {"cut_in", "cut_out", "mismatch", "abandon", "reset"}
INVARIANTS
    CtrlTypeOK InSentExpected TransferFaithful
