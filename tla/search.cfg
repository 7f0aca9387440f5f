SPECIFICATION Spec
CONSTANTS
    Domains <- MCDomains
    Grid <- MCGrid
    Cohorts = {c1, c2}
    NoAnswer = NoAnswer
INVARIANTS
    AnswerIsBest
    BracketIsTight
PROPERTIES
    CandidateHalves
