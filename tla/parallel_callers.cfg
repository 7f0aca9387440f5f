SPECIFICATION Spec
CONSTANTS
    Callers = {"a", "b"}
    Units <- MCUnits
    Cohort <- MCCohort
    Answers <- MCAnswers
    UnitAnswer <- MCUnitAnswer
    BadUnits <- MCBadUnits
    WholeAnswers <- MCWholeAnswers
    WholeRaises <- MCWholeRaises
    MaxWorkers = 2
    Workloads <- MixedWorkloads
INVARIANTS
    InPlanOrder
    OneResultPerUnit
PROPERTIES
    BatchesAddUp
CHECK_DEADLOCK FALSE
