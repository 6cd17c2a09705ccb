SPECIFICATION MCFairSpec
CONSTANTS
    Scenarios = {"faults", "switch", "overlap", "condition", "intent", "list", "flow", "start", "node", "edges", "generate", "overwrite"}
    Request = {q1, q2}
    Flow <- MCFlow
    Node <- MCNode
    FlowOf <- MCFlowOf
    Start <- MCStart
    Config <- MCConfig
    Slot = {"count"}
    MaxSteps = 3
    MaxSessions = 2
    MaxPending = 2
    Faults = {"expire", "lose", "reorder", "restart"}
    None = None
    FlowId = {1, 2}
    Editor = {1, 2}
    Reader = {1}
    RouteTTL = 1
    MetaTTL = 1
    MaxEdits = 7
    Expression <- MCExpression
INVARIANTS
    TypesOK StoredWhenQuiet WalksItsFlow
    StaleByTTL EditsForget GeneratedPerRequest
    EvaluatedAsMeant
PROPERTIES
    ResumesWhereItLeft TurnsEnd
