--------------------------- MODULE PlanExecution ---------------------------
(***************************************************************************)
(* What the caller of an execution of a plan relies on: it returns what    *)
(* sequential_execute would, all at once, or raises.  It raises if         *)
(* sequential_execute would, or if time ran out or a worker died.          *)
(***************************************************************************)
EXTENDS Sequences

CONSTANTS Callers, Answers

VARIABLES
    expected,     \* what sequential_execute gives for each caller's plan
    outcome,      \* "running", "returned" or "raised"
    results       \* what was returned

vars == <<expected, outcome, results>>

Init ==
    /\ expected \in [Callers -> [results : Seq(Answers), raises : BOOLEAN, reliable : BOOLEAN]]
    /\ outcome = [c \in Callers |-> "running"]
    /\ results = [c \in Callers |-> <<>>]

Return(c) ==
    /\ outcome[c] = "running"
    /\ ~expected[c].raises
    /\ outcome' = [outcome EXCEPT ![c] = "returned"]
    /\ results' = [results EXCEPT ![c] = expected[c].results]
    /\ UNCHANGED expected

Raise(c) ==
    /\ outcome[c] = "running"
    /\ expected[c].raises \/ ~expected[c].reliable
    /\ outcome' = [outcome EXCEPT ![c] = "raised"]
    /\ UNCHANGED <<expected, results>>

Next == \E c \in Callers : Return(c) \/ Raise(c)

Safety == Init /\ [][Next]_vars

Spec == Safety /\ \A c \in Callers : WF_vars(Return(c) \/ Raise(c))

=============================================================================
