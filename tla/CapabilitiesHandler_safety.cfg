CONSTANTS
    CameraPorts = {1, 2, 3, 4, 5}
    NumSensors = 2
    MaxCamera = 3
    MaxTimeouts = 1
    MaxFatal = 1
SPECIFICATION Spec
INVARIANT TypeOK
INVARIANT AdvancesOnlyOnConfirmation
INVARIANT QueryLeavesNothing
PROPERTY QueryTerminates
CHECK_DEADLOCK FALSE
