SPECIFICATION Spec
CONSTANTS
    Callers = {"a", "b"}
    Units <- MCUnits
    Cohort <- MCCohort
    Answers <- MCAnswers
    UnitAnswer <- MCUnitAnswer
    BadUnits <- MCBadUnits
    WholeAnswers <- MCWholeAnswers
    WholeRaises <- MCWholeRaises
    MaxWorkers = 2
    Workloads <- ThreadWorkloads
INVARIANTS
    ParallelIsSequential
CHECK_DEADLOCK FALSE
