SPECIFICATION Spec
CONSTANTS
    Studies <- RetirementStudies
    Datasets <- MCDatasets
    RateFiles <- MCRateFiles
    NoValue = NoValue
    MonthLength <- MCMonthLength
    MonthsPerYear = 2
    AccumulationMonths = 2
    DefaultThreshold = 20
INVARIANTS
    RetirementFollowsAccumulation
