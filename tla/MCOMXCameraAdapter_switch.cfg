CONSTANTS
    PrevPort = 2
    CameraPorts = {1, 2, 3, 4, 5}
    MaxTimeouts = 1
    MaxFatal = 1
    MaxCalls = 5
    RetryAfterError = FALSE
    CaptureSwitch = TRUE
    FrameBufs = {}
SPECIFICATION Spec
INVARIANT StateAgreement
CHECK_DEADLOCK FALSE
