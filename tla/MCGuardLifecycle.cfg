SPECIFICATION FairSpec
CONSTANTS
    Ambiguous <- OtherResponses
INVARIANTS
    TypeOK
    ReservesAtMostOnce
    RunsOnlyWhenGranted
    SpentIsNotReleased
PROPERTIES
    BudgetComesBack
CHECK_DEADLOCK FALSE
