CONSTANTS
    Node = {1, 2, 3}
    Reader = {1}
    Budgets <- Bounds
    LeaderLoses = FALSE
SPECIFICATION Spec
INVARIANTS ChosenIsHeld LeaderIsComplete LogsMatch
PROPERTY IsReplicatedLog
CHECK_DEADLOCK FALSE
