CONSTANTS
    Node = {1, 2, 3}
    Reader = {1}
    Budgets <- PowerLoss
    LeaderLoses = TRUE
SPECIFICATION Spec
INVARIANTS LogsMatch
CHECK_DEADLOCK FALSE
