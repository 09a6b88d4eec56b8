CONSTANTS
    PrevPort = 2
    CameraPorts = {1, 2, 3, 4, 5}
    MaxTimeouts = 2
    MaxFatal = 1
    MaxCalls = 8
    RetryAfterError = FALSE
    CaptureSwitch = FALSE
    FrameBufs = {b1, b2}
    b1 = b1
    b2 = b2
SPECIFICATION Spec
INVARIANT TypeOK
INVARIANT StateAgreement
INVARIANT NothingLeftBehind
CHECK_DEADLOCK FALSE
