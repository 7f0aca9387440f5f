---------------------------- MODULE StudyCatalog ----------------------------
(***************************************************************************)
(* What clients of the study repository rely on: a catalog of studies,     *)
(* with their plans and the plans' outcomes, in which every operation      *)
(* happens at once or not at all, and content never changes: a study's     *)
(* plans can only add to its cohorts.                                      *)
(***************************************************************************)
EXTENDS Integers

CONSTANTS
    Ids,
    Identities,
    Contents,       \* what a study may say: configuration, policies
    CohortSets,     \* the cohorts it may declare
    PlanContents,   \* the units of a plan
    Outcomes        \* the simulations of a result

VARIABLES
    studies,    \* [id, identity, content, cohorts, deleted]
    plans,      \* [id, study, content, deleted]
    results     \* [id, plan, content]

vars == <<studies, plans, results>>

Init == studies = {} /\ plans = {} /\ results = {}

Fresh(id) == \A row \in studies \union plans \union results : row.id # id

Publish(id, identity, content, cohorts) ==
    /\ Fresh(id)
    /\ \A s \in studies : s.identity # identity
    /\ studies' = studies \union
          {[id |-> id, identity |-> identity, content |-> content, cohorts |-> cohorts,
            deleted |-> FALSE]}
    /\ UNCHANGED <<plans, results>>

\* The study is found again as it was; its plans are not.
Restore(s) ==
    /\ s.deleted
    /\ studies' = (studies \ {s}) \union {[s EXCEPT !.deleted = FALSE]}
    /\ UNCHANGED <<plans, results>>

\* A study is withdrawn with all of its plans, by whoever asks, as often as asked.
Withdraw(s) ==
    /\ studies' = (studies \ {s}) \union {[s EXCEPT !.deleted = TRUE]}
    /\ plans' = {IF p.study = s.id THEN [p EXCEPT !.deleted = TRUE] ELSE p : p \in plans}
    /\ UNCHANGED results

\* Whatever cohort a unit of the plan starts at becomes one of the study.
AddPlan(id, s, content) ==
    /\ Fresh(id)
    /\ plans' = plans \union
          {[id |-> id, study |-> s.id, content |-> content, deleted |-> FALSE]}
    /\ studies' = (studies \ {s}) \union {[s EXCEPT !.cohorts = @ \union {u.date : u \in content}]}
    /\ UNCHANGED results

Record(id, p, content) ==
    /\ Fresh(id)
    /\ \A r \in results : r.plan # p.id
    /\ results' = results \union {[id |-> id, plan |-> p.id, content |-> content]}
    /\ UNCHANGED <<studies, plans>>

Next ==
    \/ \E id \in Ids :
          \/ \E identity \in Identities, content \in Contents, cohorts \in CohortSets :
                Publish(id, identity, content, cohorts)
          \/ \E s \in studies, content \in PlanContents : AddPlan(id, s, content)
          \/ \E p \in plans, content \in Outcomes : Record(id, p, content)
    \/ \E s \in studies : Restore(s) \/ Withdraw(s)

Spec == Init /\ [][Next]_vars

=============================================================================
