SPECIFICATION FairSpec
CONSTANTS
    YearLength = 2
    Contexts <- MCContexts
    Moves <- MCMoves
INVARIANTS
    TypeOK
    OutcomeMatchesTimeline
    SuccessMeansSolvent
    EnforcedLimitHolds
    LedgerBalances
    CacheTracksPortfolio
    RaisesOnlyAtExhaustion
PROPERTIES
    ImplementsLifecycle
    TimingBorrowsOnlyDebtFree
CHECK_DEADLOCK FALSE
