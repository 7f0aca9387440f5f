------------------------- MODULE MCStudyRepository -------------------------
(***************************************************************************)
(* Small instances of StudyRepository: two clients, one name in two        *)
(* revisions, definitions that share a policy.                             *)
(***************************************************************************)
EXTENDS StudyRepository

\* Two of the policies differ only in what is not stored.
MCPolicies == {"fixed 4%", "leveraged 4%", "fixed 5%"}
MCForms == {"rate 4%", "rate 5%"}
MCForm == [p \in MCPolicies |-> IF p = "fixed 5%" THEN "rate 5%" ELSE "rate 4%"]

Saved(revision, policies) ==
    [identity |-> [name |-> "study", revision |-> revision],
     definition |-> [config |-> "config", policies |-> policies, cohorts |-> {"1970"}]]

MCExperiments ==
    {Saved(1, <<"fixed 4%", "fixed 5%", "leveraged 4%">>), Saved(1, <<"fixed 5%">>),
     Saved(2, <<"fixed 5%">>)}

MCClaimExperiments == {Saved(1, <<"fixed 5%">>)}

MCUnit(date, parameters, terms) ==
    [date |-> date, parameters |-> parameters, policy |-> "fixed 5%", terms |-> terms]

\* A plan of which one unit starts at a cohort that its experiment does not have.
MCUnitLists == {<<MCUnit("1970", "p1", "loan"), MCUnit("1971", "p2", "default")>>}

Simulation(months, success, state) == [months |-> months, success |-> success, state |-> state]

MCResultLists == {<<Simulation(2, TRUE, "none"), Simulation(0, FALSE, "margin call")>>}

----------------------------------------------------------------------------
(* What the documentation says.                                            *)

\* "Sets deleted_at on the matching row and on every of its research plans so
\* they are hidden from all query APIs" (logical_delete_experiment).
DeletedHasNoPlans ==
    \A e \in db.experiments : e.deleted => ListPlansForExperiment(db, e.id) = {}

\* "every domain object persisted and retrieved must be field-for-field
\* identical" (DESIGN.md), "lossless" (SimulationResultCodec).
LoadedResultIsSaved ==
    \A c \in Clients :
        pc[c] = "answered" /\ outcome[c] = "done" /\ request[c].kind = "load result" =>
            \E r \in SavedAs(request[c].id, "save result") : seen[c].simulations = r.simulations

=============================================================================
