SPECIFICATION Spec
CONSTANTS
    YearLength = 2
    Contexts <- LeverageContexts
    Moves <- MCMoves
INVARIANT CashFundedMonthKeepsPortfolio
CHECK_DEADLOCK FALSE
