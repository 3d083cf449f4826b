SPECIFICATION Spec
CONSTANTS
    Names = {"f", "x", "y"}
    MaxContinuation = 2
    GuardWindow = 7
    EndpointReach = 8
    EndpointBody = 180
    GuardReach = 3
    LoopReach = 25
    PolicyReach = 2
    WriteReach = 12
    PortReach = 7
    Nearby = 1
    Families <- Beside
INVARIANTS
    ConfirmedIsFlow
