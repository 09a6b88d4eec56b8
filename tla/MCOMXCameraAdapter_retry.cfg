CONSTANTS
    PrevPort = 2
    CameraPorts = {1, 2, 3, 4, 5}
    MaxTimeouts = 2
    MaxFatal = 2
    MaxCalls = 8
    RetryAfterError = TRUE
    CaptureSwitch = TRUE
    FrameBufs = {}
SPECIFICATION Spec
CHECK_DEADLOCK FALSE
INVARIANT SwitchSerialized
PROPERTY SwitchReleasesLock
