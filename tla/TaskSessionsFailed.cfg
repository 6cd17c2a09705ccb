SPECIFICATION MCSpec
CONSTANTS
    Scenarios = {"faults", "switch", "overlap"}
    Request = {q1}
    Flow <- MCFlow
    Node <- MCNode
    FlowOf <- MCFlowOf
    Start <- MCStart
    Config <- MCConfig
    Slot = {"count"}
    MaxSteps = 4
    MaxSessions = 1
    MaxPending = 3
    Faults = {}
    None = None
    FlowId = {1, 2}
    Editor = {1}
    Reader = {1}
    RouteTTL = 1
    MetaTTL = 1
    MaxEdits = 3
    Expression <- MCExpression
PROPERTY FailedNeverResumed
