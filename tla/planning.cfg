SPECIFICATION Spec
CONSTANTS
    Studies <- MCStudies
    Datasets <- MCDatasets
    RateFiles <- MCRateFiles
    NoValue = NoValue
    MonthLength <- MCMonthLength
    MonthsPerYear = 2
    AccumulationMonths = 2
    DefaultThreshold = 20
INVARIANTS
    TypeOK
    PlanIsProduct
    UnitsAreTheirOwn
    FamiliesShareTrajectory
    FailsForAReason
