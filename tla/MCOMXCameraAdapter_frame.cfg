CONSTANTS
    PrevPort = 2
    CameraPorts = {1, 2, 3, 4, 5}
    MaxTimeouts = 0
    MaxFatal = 0
    MaxCalls = 4
    RetryAfterError = FALSE
    CaptureSwitch = FALSE
    FrameBufs = {b1}
    b1 = b1
SPECIFICATION Spec
INVARIANT HeaderUsedWhileAllocated
CHECK_DEADLOCK FALSE
