CONSTANTS
    Ops = {o1, o2, o3}
    NoOp = NoOp
    MaxRequests = 3
SPECIFICATION Spec
INVARIANTS
    AnswerIsReported
PROPERTIES
    CancelIsFinal
    LoginSettles
CHECK_DEADLOCK FALSE
