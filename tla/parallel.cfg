SPECIFICATION FairSpec
CONSTANTS
    Callers = {"a"}
    Units <- MCUnits
    Cohort <- MCCohort
    Answers <- MCAnswers
    UnitAnswer <- MCUnitAnswer
    BadUnits <- MCBadUnits
    WholeAnswers <- MCWholeAnswers
    WholeRaises <- MCWholeRaises
    MaxWorkers = 3
    Workloads <- LoneWorkloads
INVARIANTS
    TypeOK
PROPERTIES
    ProgressIsHonest
    ImplementsPlanExecution
CHECK_DEADLOCK FALSE
