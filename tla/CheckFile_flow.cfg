SPECIFICATION Spec
CONSTANTS
    Names = {"f", "x", "y", "role"}
    MaxContinuation = 2
    GuardWindow = 7
    EndpointReach = 8
    EndpointBody = 180
    GuardReach = 3
    LoopReach = 25
    PolicyReach = 2
    WriteReach = 12
    PortReach = 7
    Nearby = 1
    Families <- MCFamilies
INVARIANTS
    TypeOK
    CommentsRemoved
    TaintScoped
    ConfirmedIsFlow
    FlowsFound
    ReportedOnce
    NullDereferences
    Intraprocedural
    ResourcesSettled
    UseReported
    HardenedParsers
    BlockScalarsSkipped
