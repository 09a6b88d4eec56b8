CONSTANTS
    PrevPort = 2
    CameraPorts = {1, 2, 3, 4, 5}
    MaxTimeouts = 1
    MaxFatal = 1
    MaxCalls = 5
    RetryAfterError = FALSE
    CaptureSwitch = FALSE
    FrameBufs = {}
SPECIFICATION Spec
PROPERTY DestroyCompletes
CHECK_DEADLOCK FALSE
