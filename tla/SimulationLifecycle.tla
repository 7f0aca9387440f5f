------------------------ MODULE SimulationLifecycle ------------------------
(***************************************************************************)
(* What a simulation promises to those who only read its result: it goes   *)
(* through its months one at a time, and ends completed after the last due *)
(* month, failed in the month it is in, or aborted without a result.       *)
(***************************************************************************)
EXTENDS Naturals

VARIABLES
    due,        \* months the simulation has to go through
    months,     \* months recorded in its timeline
    outcome     \* "running", "completed", "failed" or "aborted"

lvars == <<due, months, outcome>>

Init ==
    /\ due \in Nat
    /\ months = 0
    /\ outcome = IF due = 0 THEN "completed" ELSE "running"

\* A month is recorded.
RecordMonth ==
    /\ outcome = "running"
    /\ months < due
    /\ months' = months + 1
    /\ UNCHANGED <<due, outcome>>

\* The last due month has been recorded.
Complete ==
    /\ outcome = "running"
    /\ months = due
    /\ outcome' = "completed"
    /\ UNCHANGED <<due, months>>

\* The simulation stops before it completes, with a failure or an exception.
Stop ==
    /\ outcome = "running"
    /\ outcome' \in {"failed", "aborted"}
    /\ UNCHANGED <<due, months>>

Next == RecordMonth \/ Complete \/ Stop

Spec == Init /\ [][Next]_lvars /\ WF_lvars(Next)

Safety == Init /\ [][Next]_lvars

============================================================================
