SPECIFICATION Spec
CONSTANTS
    Clients = {c1, c2}
    NoClient = NoClient
    Names = {"study"}
    Revisions = {1}
    Configs = {"config"}
    Policies <- MCPolicies
    Forms <- MCForms
    Form <- MCForm
    Dates = {"1970", "1971"}
    Parameters = {"p1", "p2"}
    Terms = {"default", "loan"}
    DefaultTerms = "default"
    States = {"margin call"}
    NoState = "none"
    Experiments <- MCClaimExperiments
    UnitLists <- MCUnitLists
    ResultLists <- MCResultLists
    MaxRequests = 4
    MaxTries = 2
INVARIANTS
    LoadedResultIsSaved
CHECK_DEADLOCK FALSE
