CONSTANTS
    MaxSessions = 2
    MaxFlows = 2
    MaxSaved = 1
    Plan <- TwoSteps
SPECIFICATION Spec
CHECK_DEADLOCK FALSE
INVARIANT NothingAfterSession
INVARIANT ShowsOwnCommands
INVARIANT Served
PROPERTY NeverOlder
PROPERTY FlowsRunOut
