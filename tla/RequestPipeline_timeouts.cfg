SPECIFICATION Spec
CONSTANTS
    Request <- Requests
    Connection <- Connections
    ConnectionOf <- Connected
    Max <- Limits
    MaxWindows = 2
CHECK_DEADLOCK FALSE
INVARIANT PipelineInv
PROPERTY ClosedByTheLate
PROPERTY EveryRequestEnds
