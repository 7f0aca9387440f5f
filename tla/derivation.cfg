SPECIFICATION FairSpec
CONSTANTS
    Families <- MCFamilies
    Markets <- MCMarkets
    Trajectory <- MCTrajectory
    Definitions <- MCDefinitions
INVARIANTS
    TrajectoryIsOwn
    VerdictIsOwn
    RaisesOnlyOwn
    ReportIsExpected
PROPERTIES
    EventuallyAnswered
CHECK_DEADLOCK FALSE
