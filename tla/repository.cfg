SPECIFICATION FairSpec
CONSTANTS
    Clients = {c1, c2}
    NoClient = NoClient
    Names = {"study"}
    Revisions = {1, 2}
    Configs = {"config"}
    Policies <- MCPolicies
    Forms <- MCForms
    Form <- MCForm
    Dates = {"1970", "1971"}
    Parameters = {"p1", "p2"}
    Terms = {"default", "loan"}
    DefaultTerms = "default"
    States = {"margin call"}
    NoState = "none"
    Experiments <- MCExperiments
    UnitLists <- MCUnitLists
    ResultLists <- MCResultLists
    MaxRequests = 4
    MaxTries = 2
INVARIANTS
    TypeOK
    IdentitiesAndResultsAreUnique
    CompletedIffResult
    StoredIsSaved
    AcknowledgedIsStored
    AnswersAreCoherent
    RefusedForAReason
    QueriesAgree
PROPERTIES
    NothingIsLost
    RestoredOnlyIfEquivalent
    EveryRequestEnds
    ImplementsCatalog
CHECK_DEADLOCK FALSE
