SPECIFICATION Spec
CONSTANTS
    EntryMax = 2
    Room = 4
    PrintLen = 1
    Keeps = TRUE
    Primary = TRUE
    DropsPages = FALSE
    MaxWrites = 5
    Budgets <- MCBudgets
INVARIANTS SinkInv DurableSurvives
PROPERTY Implements
CHECK_DEADLOCK FALSE
