SPECIFICATION MCSpec
CONSTANTS
    Names = {1, 2, 3}
    Graphs <- MCGraphs
    Tasks = 2
    Plans <- MCPlans
    MaxId = 5
    MaxCalls <- MCCalls
    Explicit = FALSE
    Forks = FALSE
INVARIANTS VerdictIsRight  
PROPERTIES RowsSettle
CHECK_DEADLOCK FALSE
