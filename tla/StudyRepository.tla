--------------------------- MODULE StudyRepository ---------------------------
(***************************************************************************)
(* SQLiteRepository: clients, threads or processes with connections of     *)
(* their own, save, load, delete and restore experiments, plans and        *)
(* results in one database file.                                           *)
(*                                                                         *)
(* The database is in WAL mode.  A SELECT outside of a transaction reads   *)
(* the last commit.  A transaction takes the write lock with its first     *)
(* write and works on a draft nobody else sees until it is committed.      *)
(***************************************************************************)
EXTENDS Integers, Sequences, FiniteSets, SequencesExt

CONSTANTS
    Clients,
    Names,          \* of experiments
    Revisions,      \* ranks of revisions in the order of their strings
    Configs,        \* description, dataset, horizon and initial wealth
    Policies,       \* policies in memory
    Forms,          \* policies as stored: a type and its parameters
    Form,           \* what _serialize_policy makes of a policy
    Dates,          \* start dates of cohorts
    Parameters,     \* parameter configurations
    Terms,          \* a unit's own horizon, interest, LTV limit and loan rate
    DefaultTerms,   \* the terms of a unit that is given none
    States,         \* failure states of a simulation
    NoState,
    Experiments,    \* the experiments that clients may save, each with its identity
    UnitLists,      \* the units of plans that clients may save
    ResultLists,    \* the simulations of results that clients may save
    NoClient,
    MaxRequests,    \* bound on the requests of all clients together
    MaxTries        \* max_retries of _retry_on_lock

Identities == [name : Names, revision : Revisions]

DefinitionType == [config : Configs, policies : Seq(Policies), cohorts : SUBSET Dates]
UnitType == [date : Dates, parameters : Parameters, policy : Policies, terms : Terms]
SimulationType == [months : Nat, success : BOOLEAN, state : States \union {NoState}]

ASSUME FormAssumption == Form \in [Policies -> Forms] /\ DefaultTerms \in Terms
ASSUME NamesAssumption == NoClient \notin Clients /\ NoState \notin States
ASSUME BoundsAssumption == MaxRequests \in Nat /\ MaxTries \in Nat \ {0} /\ Revisions \subseteq Nat
\* What the constructors of the domain objects validate.
ASSUME InputsAssumption ==
    /\ Experiments \subseteq [identity : Identities, definition : DefinitionType]
    /\ \A x \in Experiments : x.definition.policies # <<>> /\ x.definition.cohorts # {}
    /\ UnitLists \subseteq Seq(UnitType) \ {<<>>}
    /\ \A units \in UnitLists : \A i, j \in DOMAIN units :
          units[i].date = units[j].date /\ units[i].parameters = units[j].parameters => i = j
    /\ ResultLists \subseteq Seq(SimulationType) \ {<<>>}

VARIABLES
    db,         \* the committed tables
    draft,      \* the tables as the open transaction sees them, db if there is none
    writer,     \* the client whose transaction is open
    version,    \* number of commits
    issued,     \* identifiers generated so far
    requests,   \* requests made so far
    pc, request, target, base, tries, seen, outcome,    \* per client
    saved       \* history: what was committed for which identifier

client == <<pc, request, target, base, tries, seen, outcome>>
vars == <<db, draft, writer, version, issued, requests, client, saved>>

----------------------------------------------------------------------------
(* Tables.  Cohorts, parameter configurations and policies are known by    *)
(* their natural keys.                                                     *)

Tables == {"experiments", "links", "cohorts", "plans", "units", "results", "simulations"}
EmptyDatabase == [t \in Tables |-> {}]

ExperimentRow == [id : Nat, identity : Identities, config : Configs, deleted : BOOLEAN]
LinkRow == [experiment : Nat, index : Nat, form : Forms]
CohortRow == [experiment : Nat, date : Dates]
PlanRow == [id : Nat, experiment : Nat, count : Nat, completed : BOOLEAN, deleted : BOOLEAN,
            created : Nat]
UnitRow == [plan : Nat, index : Nat, date : Dates, parameters : Parameters, form : Forms]
ResultRow == [id : Nat, plan : Nat, successes : Nat, total : Nat]
SimulationRow ==
    [result : Nat, unit : Nat, month : Nat, dummy : BOOLEAN, final : BOOLEAN,
     success : BOOLEAN]

\* The rows of a table with a value in a column.
Where(rows, column, value) == {row \in rows : row[column] = value}

\* The forms of a sequence of policies: _experiment_snapshot_from_object.
FormsOf(policies) == [k \in DOMAIN policies |-> Form[policies[k]]]

\* ORDER BY: the numbers of a set from the least on.
InOrder(numbers) ==
    CHOOSE f \in [1 .. Cardinality(numbers) -> numbers] :
        \A i, j \in 1 .. Cardinality(numbers) : i < j => f[i] < f[j]

\* The row of an index, which is a key of rows.
At(rows, index) == CHOOSE row \in rows : row.index = index

\* _load_stored_policy_snapshot and _load_policies: linked policies by index.
StoredForms(d, id) ==
    LET links == Where(d.links, "experiment", id)
        indexes == InOrder({l.index : l \in links})
    IN  [k \in DOMAIN indexes |-> At(links, indexes[k]).form]

StoredDates(d, id) == {row.date : row \in Where(d.cohorts, "experiment", id)}

\* experiments_semantically_equivalent, between an experiment and a stored row.
EquivalentTo(d, row, x) ==
    /\ row.config = x.config
    /\ StoredForms(d, row.id) = FormsOf(x.policies)
    /\ StoredDates(d, row.id) = x.cohorts

\* MUTANT: a policy that some experiment has is not associated again.
LinkFirstUse(links, id, index, form) ==
    IF \E l \in links : l.form = form THEN links
    ELSE links \union {[experiment |-> id, index |-> index, form |-> form]}

\* The association of _save_policy: INSERT OR IGNORE under the keys
\* (experiment, kind, index) and (experiment, policy, kind).
Link(links, id, index, form) ==
    IF \E l \in Where(links, "experiment", id) : l.index = index \/ l.form = form
    THEN links
    ELSE links \union {[experiment |-> id, index |-> index, form |-> form]}

\* _save_policy for one use of a policy after another.
LinkEach(links, id, uses) ==
    LET after[k \in 0 .. Len(uses)] ==
            IF k = 0 THEN links ELSE Link(after[k - 1], id, uses[k].index, uses[k].form)
    IN  after[Len(uses)]

\* save_experiment links every policy at its own index, _save_unit at index 0.
LinkAll(links, id, policies) ==
    LinkEach(links, id,
             [k \in 1 .. Len(policies) |-> [index |-> k - 1, form |-> Form[policies[k]]]])
LinkUnits(links, id, units) ==
    LinkEach(links, id,
             [k \in 1 .. Len(units) |-> [index |-> 0, form |-> Form[units[k].policy]]])

\* _save_unit, the row of the unit.
UnitRows(id, units) ==
    {[plan |-> id, index |-> k, date |-> units[k].date, parameters |-> units[k].parameters,
      form |-> Form[units[k].policy]] : k \in DOMAIN units}

\* _load_units: the units of a plan in order; their own terms are not stored.
StoredUnits(d, id) ==
    LET rows == Where(d.units, "plan", id)
        indexes == InOrder({u.index : u \in rows})
    IN  [k \in DOMAIN indexes |->
            LET row == At(rows, indexes[k])
            IN  [date |-> row.date, parameters |-> row.parameters, form |-> row.form,
                 terms |-> DefaultTerms]]

Greater(a, b) == IF a >= b THEN a ELSE b

\* MUTANT: the statistics go with the first month.
StatisticsFirst(id, sims) ==
    UNION {{[result |-> id, unit |-> k, month |-> m, dummy |-> sims[k].months = 0,
             final |-> m = Greater(sims[k].months, 1),
             success |-> m = 1 /\ sims[k].success]
            : m \in 1 .. Greater(sims[k].months, 1)} : k \in DOMAIN sims}

\* _save_simulation_result: a row for each month, one for an empty timeline,
\* what SimulationResultCodec.dump makes of the statistics with the last.
SimulationRows(id, sims) ==
    UNION {{[result |-> id, unit |-> k, month |-> m, dummy |-> sims[k].months = 0,
             final |-> m = Greater(sims[k].months, 1),
             success |-> m = Greater(sims[k].months, 1) /\ sims[k].success]
            : m \in 1 .. Greater(sims[k].months, 1)} : k \in DOMAIN sims}

\* SimulationResultCodec.load, from the rows of a unit.  A row that marks an
\* empty timeline is skipped; dump has left the failure state out.
Load(rows) ==
    [months |-> Cardinality({row \in rows : ~row.dummy}),
     success |-> \E row \in rows : row.final /\ row.success,
     state |-> NoState]

\* _load_simulation_results.
StoredSimulations(d, id) ==
    LET rows == Where(d.simulations, "result", id)
        units == InOrder({row.unit : row \in rows})
    IN  [k \in DOMAIN units |-> Load(Where(rows, "unit", units[k]))]

----------------------------------------------------------------------------
(* Queries of one SELECT.                                                  *)

Active(rows) == {row \in rows : ~row.deleted}

ById(rows, id) == Where(rows, "id", id)

\* ORDER BY created_at DESC.
Latest(plans) == CHOOSE p \in plans : \A q \in plans : q.created <= p.created

FindExperimentByName(d, name) ==
    LET rows == {e \in Active(d.experiments) : e.identity.name = name}
    IN  {e.id : e \in {e \in rows : \A f \in rows : f.identity.revision <= e.identity.revision}}

\* list_experiments_with_plans: with the latest plan of any status, if any.
ListExperimentsWithPlans(d) ==
    {[experiment |-> e.id,
      plan |-> LET plans == Active(Where(d.plans, "experiment", e.id))
               IN  IF plans = {} THEN {} ELSE {Latest(plans)}] : e \in Active(d.experiments)}

ListPlansForExperiment(d, id) == Active(Where(d.plans, "experiment", id))

GetExperimentMetadata(d, id) == Active(ById(d.experiments, id))

\* MUTANT: deleted plans are found as well.
AnyCompletedPlan(d, id) ==
    LET plans == {p \in Where(d.plans, "experiment", id) : p.completed}
    IN  IF plans = {} THEN {} ELSE {Latest(plans).id}

FindPlanByExperiment(d, id) ==
    LET plans == {p \in ListPlansForExperiment(d, id) : p.completed}
    IN  IF plans = {} THEN {} ELSE {Latest(plans).id}

FindResultByPlan(d, id) == {r.id : r \in Where(d.results, "plan", id)}
FindPlanByResult(d, id) == {r.plan : r \in ById(d.results, id)}
GetExecutionResultMetadata(d, id) == Where(d.results, "plan", id)

----------------------------------------------------------------------------
NoRequest == [kind |-> "none"]

\* What a client has read so far.
Nothing == [experiment |-> {}, forms |-> <<>>, dates |-> {}, plan |-> {}, units |-> <<>>,
            result |-> {}, simulations |-> <<>>]

Init ==
    /\ db = EmptyDatabase
    /\ draft = EmptyDatabase
    /\ writer = NoClient
    /\ version = 0
    /\ issued = 0
    /\ requests = 0
    /\ pc = [c \in Clients |-> "idle"]
    /\ request = [c \in Clients |-> NoRequest]
    /\ target = [c \in Clients |-> 0]
    /\ base = [c \in Clients |-> 0]
    /\ tries = [c \in Clients |-> 0]
    /\ seen = [c \in Clients |-> Nothing]
    /\ outcome = [c \in Clients |-> "none"]
    /\ saved = {}

store == <<db, draft, writer, version, saved>>

Goto(c, step) == pc' = [pc EXCEPT ![c] = step] /\ UNCHANGED outcome
Answer(c, what) ==
    /\ pc' = [pc EXCEPT ![c] = "answered"]
    /\ outcome' = [outcome EXCEPT ![c] = what]

\* A step that changes nothing but where the client is and what it has read.
Read(c) == UNCHANGED <<store, issued, requests, request, target, base, tries>>

Ask(c, step, r) ==
    /\ pc[c] = "idle"
    /\ requests < MaxRequests
    /\ requests' = requests + 1
    /\ request' = [request EXCEPT ![c] = r]
    /\ Goto(c, step)
    /\ UNCHANGED <<store, issued, target, base, tries, seen>>

SaveExperiment(c, x) ==
    Ask(c, "check identity",
        [kind |-> "save experiment", identity |-> x.identity, definition |-> x.definition])
DeleteExperiment(c, identity) ==
    Ask(c, "find deleted", [kind |-> "delete", identity |-> identity])
LoadExperiment(c, id) == Ask(c, "read experiment", [kind |-> "load experiment", id |-> id])
SavePlan(c, id, units) ==
    Ask(c, "read experiment", [kind |-> "save plan", id |-> id, units |-> units])
LoadPlan(c, id) == Ask(c, "read plan", [kind |-> "load plan", id |-> id])
SaveResult(c, id, sims) ==
    Ask(c, "check status", [kind |-> "save result", id |-> id, simulations |-> sims])
LoadResult(c, id) == Ask(c, "read result", [kind |-> "load result", id |-> id])
GetExportData(c, id) == Ask(c, "export experiment", [kind |-> "export", id |-> id])

Forget(c) ==
    /\ pc' = [pc EXCEPT ![c] = "idle"]
    /\ request' = [request EXCEPT ![c] = NoRequest]
    /\ target' = [target EXCEPT ![c] = 0]
    /\ base' = [base EXCEPT ![c] = 0]
    /\ tries' = [tries EXCEPT ![c] = 0]
    /\ seen' = [seen EXCEPT ![c] = Nothing]
    /\ outcome' = [outcome EXCEPT ![c] = "none"]

\* The caller takes the answer, or the exception.
Receive(c) ==
    /\ pc[c] = "answered"
    /\ Forget(c)
    /\ UNCHANGED <<store, issued, requests>>

\* MUTANT: what the dead client's transaction wrote stays.
KeepDraft(c) ==
    /\ pc[c] # "idle"
    /\ Forget(c)
    /\ writer' = IF writer = c THEN NoClient ELSE writer
    /\ UNCHANGED <<db, draft, version, saved, issued, requests>>

\* The client's process dies; its transaction is rolled back.
Crash(c) ==
    /\ pc[c] # "idle"
    /\ Forget(c)
    /\ IF writer = c THEN writer' = NoClient /\ draft' = db ELSE UNCHANGED <<writer, draft>>
    /\ UNCHANGED <<db, version, saved, issued, requests>>

\* generate_uuid, before the transaction and its retries.
Generate(c) ==
    /\ issued' = issued + 1
    /\ target' = [target EXCEPT ![c] = issued + 1]

----------------------------------------------------------------------------
(* Transactions.                                                           *)

\* MUTANT: every statement commits by itself.
Autocommit(c, tables) ==
    /\ writer = NoClient
    /\ writer' = c
    /\ draft' = tables
    /\ db' = tables
    /\ UNCHANGED <<version, saved, issued, requests, request, target, base, tries, seen>>

\* The first write of a transaction on the client's own copy of the tables.
Begin(c, tables) ==
    /\ writer = NoClient
    /\ writer' = c
    /\ draft' = tables
    /\ UNCHANGED <<db, version, saved, issued, requests, request, target, base, tries, seen>>

Write(c, tables) ==
    /\ writer = c
    /\ draft' = tables
    /\ UNCHANGED <<db, writer, version, saved, issued, requests, request, target, base, tries,
                   seen>>

\* MUTANT: INSERT OR IGNORE.
IgnoreConflict(c) ==
    /\ writer \in {NoClient, c}
    /\ writer' = NoClient
    /\ draft' = db
    /\ Answer(c, "done")
    /\ UNCHANGED <<db, version, saved, issued, requests, request, target, base, tries, seen>>

\* A constraint is violated: the transaction is rolled back, IntegrityError leaves.
Rollback(c) ==
    /\ writer \in {NoClient, c}
    /\ writer' = NoClient
    /\ draft' = db
    /\ Answer(c, "integrity")
    /\ UNCHANGED <<db, version, saved, issued, requests, request, target, base, tries, seen>>

\* MUTANT: a save is tried again though it was committed.
CommitAndRetry(c) ==
    /\ pc[c] = "commit"
    /\ writer = c
    /\ db' = draft
    /\ writer' = NoClient
    /\ version' = version + 1
    /\ saved' = saved \union {[id |-> target[c], request |-> request[c]]}
    /\ IF request[c].kind = "save experiment" THEN Goto(c, "insert experiment") ELSE Answer(c, "done")
    /\ UNCHANGED <<draft, issued, requests, request, target, base, tries, seen>>

Commit(c) ==
    /\ pc[c] = "commit"
    /\ writer = c
    /\ db' = draft
    /\ writer' = NoClient
    /\ version' = version + 1
    /\ saved' = saved \union {[id |-> target[c], request |-> request[c]]}
    /\ Answer(c, "done")
    /\ UNCHANGED <<draft, issued, requests, request, target, base, tries, seen>>

\* "database is locked": _retry_on_lock sleeps and tries again, a few times.
Locked(c) ==
    /\ pc[c] \in {"insert experiment", "insert plan", "complete plan"}
    /\ writer \notin {NoClient, c}
    /\ tries' = [tries EXCEPT ![c] = @ + 1]
    /\ IF tries[c] + 1 < MaxTries THEN UNCHANGED <<pc, outcome>> ELSE Answer(c, "locked")
    /\ UNCHANGED <<store, issued, requests, request, target, base, seen>>

\* MUTANT: a delete is tried again on the snapshot it has lost.
RetryDelete(c) ==
    /\ pc[c] \in {"undelete", "delete"}
    /\ writer \notin {NoClient, c} \/ (pc[c] = "delete" /\ base[c] # version)
    /\ UNCHANGED vars

\* Restoring and deleting are not retried.  A delete has read before it writes:
\* it is refused also when anything was committed since.
LockedOut(c) ==
    /\ pc[c] \in {"undelete", "delete"}
    /\ \/ writer \notin {NoClient, c}
       \/ pc[c] = "delete" /\ base[c] # version
    /\ Answer(c, "locked")
    /\ Read(c) /\ UNCHANGED seen

----------------------------------------------------------------------------
(* save_experiment.                                                        *)

CheckIdentity(c) ==
    /\ pc[c] = "check identity"
    /\ LET rows == Where(db.experiments, "identity", request[c].identity)
       IN  \/ /\ rows = {}
              /\ Generate(c)
              /\ Goto(c, "insert experiment")
           \/ \E row \in rows :
              /\ target' = [target EXCEPT ![c] = row.id]
              /\ IF row.deleted THEN Goto(c, "compare") ELSE Answer(c, "duplicate")
              /\ UNCHANGED issued
    /\ UNCHANGED <<store, requests, request, base, tries, seen>>

\* MUTANT: whatever is saved under the identity is restored.
RestoreAny(c) ==
    /\ pc[c] = "compare"
    /\ Goto(c, "undelete")
    /\ Read(c) /\ UNCHANGED seen

\* _restore_if_semantically_equivalent.
Compare(c) ==
    /\ pc[c] = "compare"
    /\ \E row \in ById(db.experiments, target[c]) :
          IF EquivalentTo(db, row, request[c].definition)
          THEN Goto(c, "undelete") ELSE Answer(c, "refused")
    /\ Read(c) /\ UNCHANGED seen

Undelete(c) ==
    /\ pc[c] = "undelete"
    /\ Begin(c, [db EXCEPT !.experiments =
          {IF row.id = target[c] THEN [row EXCEPT !.deleted = FALSE] ELSE row : row \in @}])
    /\ Goto(c, "commit")

\* MUTANT: the look-up alone keeps identities apart.
Unconstrained(c) == FALSE

\* UNIQUE(name, revision).
IdentityTaken(c) == Where(db.experiments, "identity", request[c].identity) # {}

InsertExperiment(c) ==
    /\ pc[c] = "insert experiment"
    /\ IF IdentityTaken(c) THEN Rollback(c)
       ELSE /\ Begin(c, [db EXCEPT !.experiments = @ \union
                  {[id |-> target[c], identity |-> request[c].identity,
                    config |-> request[c].definition.config, deleted |-> FALSE]}])
            /\ Goto(c, "insert associations")

InsertAssociations(c) ==
    /\ pc[c] = "insert associations"
    /\ LET x == request[c].definition
       IN  Write(c, [draft EXCEPT
              !.links = LinkAll(@, target[c], x.policies),
              !.cohorts = @ \union {[experiment |-> target[c], date |-> date] : date \in x.cohorts}])
    /\ Goto(c, "commit")

----------------------------------------------------------------------------
(* logical_delete_experiment.                                              *)

FindDeleted(c) ==
    /\ pc[c] = "find deleted"
    /\ LET rows == Where(db.experiments, "identity", request[c].identity)
       IN  \/ rows = {} /\ Answer(c, "missing") /\ UNCHANGED <<target, base>>
           \/ \E row \in rows :
              /\ target' = [target EXCEPT ![c] = row.id]
              /\ base' = [base EXCEPT ![c] = version]
              /\ Goto(c, "delete")
    /\ UNCHANGED <<store, issued, requests, request, tries, seen>>

\* MUTANT: rows are removed.
RemoveRows(rows, column, id) == {row \in rows : row[column] # id}

\* The rows with those of a key marked as deleted.
MarkDeleted(rows, column, id) ==
    {IF row[column] = id THEN [row EXCEPT !.deleted = TRUE] ELSE row : row \in rows}

Delete(c) ==
    /\ pc[c] = "delete"
    /\ base[c] = version
    /\ Begin(c, [db EXCEPT !.experiments = MarkDeleted(@, "id", target[c]),
                           !.plans = MarkDeleted(@, "experiment", target[c])])
    /\ Goto(c, "commit")

----------------------------------------------------------------------------
(* load_experiment, by itself and within the operations that call it.      *)

ExperimentWanted(c) ==
    IF request[c].kind \in {"load plan", "load result"}
    THEN (CHOOSE row \in seen[c].plan : TRUE).experiment
    ELSE request[c].id

ReadExperiment(c) ==
    /\ pc[c] = "read experiment"
    /\ LET rows == Active(ById(db.experiments, ExperimentWanted(c)))
       IN  IF rows = {} THEN Answer(c, "missing") /\ UNCHANGED seen
           ELSE Goto(c, "read policies") /\ seen' = [seen EXCEPT ![c].experiment = rows]
    /\ Read(c)

ReadPolicies(c) ==
    /\ pc[c] = "read policies"
    /\ seen' = [seen EXCEPT ![c].forms = StoredForms(db, ExperimentWanted(c))]
    /\ Goto(c, "read cohorts")
    /\ Read(c)

ReadCohorts(c) ==
    /\ pc[c] = "read cohorts"
    /\ seen' = [seen EXCEPT ![c].dates = StoredDates(db, ExperimentWanted(c))]
    /\ \/ request[c].kind = "load experiment" /\ Answer(c, "done") /\ UNCHANGED <<issued, target>>
       \/ request[c].kind = "save plan" /\ Goto(c, "insert plan") /\ Generate(c)
       \/ /\ request[c].kind \in {"load plan", "load result"}
          /\ Goto(c, "read units")
          /\ UNCHANGED <<issued, target>>
    /\ UNCHANGED <<store, requests, request, base, tries>>

----------------------------------------------------------------------------
(* save_plan and load_plan.                                                *)

InsertPlan(c) ==
    /\ pc[c] = "insert plan"
    /\ Begin(c, [db EXCEPT !.plans = @ \union
          {[id |-> target[c], experiment |-> request[c].id, count |-> Len(request[c].units),
            completed |-> FALSE, deleted |-> FALSE, created |-> version]}])
    /\ Goto(c, "insert units")

\* _save_unit for every unit; a cohort the experiment does not have is added to it.
InsertUnits(c) ==
    /\ pc[c] = "insert units"
    /\ LET units == request[c].units
           id == request[c].id
       IN  Write(c, [draft EXCEPT
              !.cohorts = @ \union
                  {[experiment |-> id, date |-> units[k].date] : k \in DOMAIN units},
              !.links = LinkUnits(@, id, units),
              !.units = @ \union UnitRows(target[c], units)])
    /\ Goto(c, "commit")

ReadPlan(c) ==
    /\ pc[c] = "read plan"
    /\ LET id == IF request[c].kind = "load plan" THEN request[c].id
                 ELSE (CHOOSE row \in seen[c].result : TRUE).plan
           rows == ById(db.plans, id)
       IN  IF rows = {} THEN Answer(c, "missing") /\ UNCHANGED seen
           ELSE Goto(c, "read experiment") /\ seen' = [seen EXCEPT ![c].plan = rows]
    /\ Read(c)

ReadUnits(c) ==
    /\ pc[c] = "read units"
    /\ \E row \in seen[c].plan :
          seen' = [seen EXCEPT ![c].units = StoredUnits(db, row.id)]
    /\ Answer(c, "done")
    /\ Read(c)

----------------------------------------------------------------------------
(* save_execution_result and load_execution_result.                        *)

CheckStatus(c) ==
    /\ pc[c] = "check status"
    /\ LET rows == ById(db.plans, request[c].id)
       IN  \/ rows = {} /\ Answer(c, "missing") /\ UNCHANGED <<issued, target>>
           \/ \E row \in rows :
              IF row.completed THEN Answer(c, "completed") /\ UNCHANGED <<issued, target>>
              ELSE Goto(c, "complete plan") /\ Generate(c)
    /\ UNCHANGED <<store, requests, request, base, tries, seen>>

CompletePlan(c) ==
    /\ pc[c] = "complete plan"
    /\ Begin(c, [db EXCEPT !.plans =
          {IF row.id = request[c].id THEN [row EXCEPT !.completed = TRUE] ELSE row : row \in @}])
    /\ Goto(c, "insert result")

\* UNIQUE(plan_id).
HasResult(c) == Where(draft.results, "plan", request[c].id) # {}

InsertResult(c) ==
    /\ pc[c] = "insert result"
    /\ IF HasResult(c) THEN Rollback(c)
       ELSE LET sims == request[c].simulations
            IN  /\ Write(c, [draft EXCEPT
                      !.results = @ \union
                          {[id |-> target[c], plan |-> request[c].id, total |-> Len(sims),
                            successes |-> Cardinality({k \in DOMAIN sims : sims[k].success})]},
                      !.simulations = @ \union SimulationRows(target[c], sims)])
                /\ Goto(c, "commit")

\* Every identifier has a dash, so it is looked up among the results.
ReadResult(c) ==
    /\ pc[c] = "read result"
    /\ LET rows == ById(db.results, request[c].id)
       IN  IF rows = {} THEN Answer(c, "missing") /\ UNCHANGED seen
           ELSE Goto(c, "read simulations") /\ seen' = [seen EXCEPT ![c].result = rows]
    /\ Read(c)

ReadSimulations(c) ==
    /\ pc[c] = "read simulations"
    /\ \E row \in seen[c].result :
          seen' = [seen EXCEPT ![c].simulations = StoredSimulations(db, row.id)]
    /\ Goto(c, "read plan")
    /\ Read(c)

----------------------------------------------------------------------------
(* get_export_data.                                                        *)

ExportExperiment(c) ==
    /\ pc[c] = "export experiment"
    /\ LET rows == GetExperimentMetadata(db, request[c].id)
       IN  IF rows = {} THEN Answer(c, "missing") /\ UNCHANGED seen
           ELSE Goto(c, "export plan") /\ seen' = [seen EXCEPT ![c].experiment = rows]
    /\ Read(c)

ExportPlan(c) ==
    /\ pc[c] = "export plan"
    /\ LET ids == FindPlanByExperiment(db, request[c].id)
       IN  IF ids = {} THEN Answer(c, "missing") /\ UNCHANGED seen
           ELSE /\ Goto(c, "export result")
                /\ seen' = [seen EXCEPT ![c].plan = {row \in db.plans : row.id \in ids}]
    /\ Read(c)

ExportResult(c) ==
    /\ pc[c] = "export result"
    /\ \E plan \in seen[c].plan :
       LET rows == Where(db.results, "plan", plan.id)
       IN  IF rows = {} THEN Answer(c, "missing") /\ UNCHANGED seen
           ELSE Goto(c, "export rows") /\ seen' = [seen EXCEPT ![c].result = rows]
    /\ Read(c)

ExportRows(c) ==
    /\ pc[c] = "export rows"
    /\ \E plan \in seen[c].plan, result \in seen[c].result :
          seen' = [seen EXCEPT ![c].units = StoredUnits(db, plan.id),
                               ![c].simulations = StoredSimulations(db, result.id)]
    /\ Answer(c, "done")
    /\ Read(c)

----------------------------------------------------------------------------
Asks(c) ==
    \/ \E x \in Experiments : SaveExperiment(c, x)
    \/ \E identity \in Identities : DeleteExperiment(c, identity)
    \/ \E row \in db.experiments :
          \/ LoadExperiment(c, row.id)
          \/ GetExportData(c, row.id)
          \/ \E units \in UnitLists : SavePlan(c, row.id, units)
    \/ \E row \in db.plans :
          \/ LoadPlan(c, row.id)
          \/ LoadResult(c, row.id)
          \/ \E sims \in ResultLists : SaveResult(c, row.id, sims)
    \/ \E row \in db.results : LoadResult(c, row.id)

Steps(c) ==
    \/ CheckIdentity(c) \/ Compare(c) \/ Undelete(c)
    \/ InsertExperiment(c) \/ InsertAssociations(c)
    \/ FindDeleted(c) \/ Delete(c)
    \/ ReadExperiment(c) \/ ReadPolicies(c) \/ ReadCohorts(c)
    \/ InsertPlan(c) \/ InsertUnits(c) \/ ReadPlan(c) \/ ReadUnits(c)
    \/ CheckStatus(c) \/ CompletePlan(c) \/ InsertResult(c)
    \/ ReadResult(c) \/ ReadSimulations(c)
    \/ ExportExperiment(c) \/ ExportPlan(c) \/ ExportResult(c) \/ ExportRows(c)
    \/ Commit(c) \/ Locked(c) \/ LockedOut(c) \/ Receive(c)

Next == \E c \in Clients : Asks(c) \/ Steps(c) \/ Crash(c)

Spec == Init /\ [][Next]_vars

\* Every client that is not dead goes on.
FairSpec == Spec /\ \A c \in Clients : WF_vars(Steps(c))

----------------------------------------------------------------------------
(* Properties.                                                             *)

DatabaseType ==
    [experiments : SUBSET ExperimentRow, links : SUBSET LinkRow, cohorts : SUBSET CohortRow,
     plans : SUBSET PlanRow, units : SUBSET UnitRow, results : SUBSET ResultRow,
     simulations : SUBSET SimulationRow]

\* Types, and whose the draft is: between transactions it is the database.
TypeOK ==
    /\ db \in DatabaseType /\ draft \in DatabaseType
    /\ writer \in Clients \union {NoClient}
    /\ writer = NoClient => draft = db
    /\ version \in Nat /\ issued \in Nat /\ requests \in 0 .. MaxRequests
    /\ tries \in [Clients -> 0 .. MaxTries]
    /\ target \in [Clients -> 0 .. issued]

\* However saves race, an identity names one experiment, deleted ones included,
\* and a plan has at most one result: the look-up before the transaction does
\* not see what commits meanwhile, the constraint inside it does.
IdentitiesAndResultsAreUnique ==
    /\ \A a, b \in db.experiments : a.identity = b.identity => a = b
    /\ \A a, b \in db.results : a.plan = b.plan => a = b

\* A plan is completed if and only if its result is there: status and result,
\* written by two statements, are never seen apart, whatever fails or dies.
CompletedIffResult ==
    \A p \in db.plans : p.completed <=> Where(db.results, "plan", p.id) # {}

\* The saves of an identifier.
SavedAs(id, kind) == {s.request : s \in {t \in saved : t.id = id /\ t.request.kind = kind}}

\* The association rows that a sequence of policies should have: each form at
\* the index of the first policy that is stored as it.
ExpectedLinks(id, policies) ==
    {[experiment |-> id, index |-> k - 1, form |-> Form[policies[k]]]
        : k \in {k \in DOMAIN policies : \A j \in 1 .. k - 1 : Form[policies[j]] # Form[policies[k]]}}

\* Dates that units of an experiment's plans start at; saving a plan makes them
\* cohorts of the experiment.
PlannedDates(d, id) ==
    {u.date : u \in {u \in d.units : \E p \in Where(d.plans, "experiment", id) : p.id = u.plan}}

\* Nothing half-written is ever visible: each row of the main tables comes with
\* all of its associated rows, as one of the saves of its identifier gave them.
StoredIsSaved ==
    /\ \A e \in db.experiments : \E r \in SavedAs(e.id, "save experiment") :
          /\ e.identity = r.identity /\ e.config = r.definition.config
          /\ Where(db.links, "experiment", e.id) = ExpectedLinks(e.id, r.definition.policies)
          /\ StoredDates(db, e.id) = r.definition.cohorts \union PlannedDates(db, e.id)
    /\ \A p \in db.plans : \E r \in SavedAs(p.id, "save plan") :
          /\ p.experiment = r.id /\ p.count = Len(r.units)
          /\ Where(db.units, "plan", p.id) = UnitRows(p.id, r.units)
    /\ \A x \in db.results : \E r \in SavedAs(x.id, "save result") :
          /\ x.plan = r.id /\ x.total = Len(r.simulations)
          /\ Where(db.simulations, "result", x.id) = SimulationRows(x.id, r.simulations)

\* Whoever was told that something is saved finds it, after any crash: under the
\* identifier it was given there is a row of what it asked for.
AcknowledgedIsStored ==
    \A c \in Clients : pc[c] = "answered" /\ outcome[c] = "done" =>
        CASE request[c].kind = "save experiment" ->
                \E e \in ById(db.experiments, target[c]) :
                    e.identity = request[c].identity /\ e.config = request[c].definition.config
          [] request[c].kind = "save plan" ->
                \E p \in ById(db.plans, target[c]) : p.count = Len(request[c].units)
          [] request[c].kind = "save result" ->
                \E r \in ById(db.results, target[c]) : r.plan = request[c].id
          [] OTHER -> TRUE

\* A loader reads row by row, statement by statement, while others commit; what
\* it returns still belongs together and is complete.
AnswersAreCoherent ==
    \A c \in Clients : pc[c] = "answered" /\ outcome[c] = "done" =>
        /\ request[c].kind \in {"load experiment", "load plan", "load result"} =>
              \E e \in seen[c].experiment : \E r \in SavedAs(e.id, "save experiment") :
                  /\ r.definition.cohorts \subseteq seen[c].dates
                  /\ seen[c].dates \subseteq r.definition.cohorts \union PlannedDates(db, e.id)
                  /\ ToSet(seen[c].forms) = ToSet(FormsOf(r.definition.policies))
        /\ request[c].kind \in {"load plan", "load result"} =>
              \E p \in seen[c].plan, e \in seen[c].experiment :
                  p.experiment = e.id /\ Len(seen[c].units) = p.count
        /\ request[c].kind \in {"load result", "export"} =>
              \E p \in seen[c].plan, x \in seen[c].result :
                  /\ x.plan = p.id /\ p.experiment \in {e.id : e \in seen[c].experiment}
                  /\ Len(seen[c].simulations) = x.total
                  /\ x.successes = Cardinality({k \in DOMAIN seen[c].simulations :
                                                    seen[c].simulations[k].success})

\* A client is refused for a reason: an identity or a result is refused only
\* because of somebody else's that is stored, a plan never.
RefusedForAReason ==
    \A c \in Clients : pc[c] = "answered" =>
        /\ outcome[c] = "integrity" =>
              \/ /\ request[c].kind = "save experiment"
                 /\ \E e \in db.experiments : e.identity = request[c].identity /\ e.id # target[c]
              \/ /\ request[c].kind = "save result"
                 /\ \E r \in db.results : r.plan = request[c].id /\ r.id # target[c]
        /\ outcome[c] = "completed" => Where(db.results, "plan", request[c].id) # {}
        /\ outcome[c] \in {"duplicate", "refused"} =>
              Where(db.experiments, "identity", request[c].identity) # {}

\* Queries over different tables agree: the plan found for an experiment is one
\* of those listed and has a result, which leads back to it; every study found
\* by its name is listed, with the latest of its plans.
QueriesAgree ==
    /\ \A e \in db.experiments :
          /\ \A id \in FindPlanByExperiment(db, e.id) :
                /\ id \in {p.id : p \in ListPlansForExperiment(db, e.id)}
                /\ \E r \in FindResultByPlan(db, id) : FindPlanByResult(db, r) = {id}
                /\ \A x \in GetExecutionResultMetadata(db, id) : x.successes <= x.total
          /\ GetExperimentMetadata(db, e.id) # {} <=>
                e.id \in {x.experiment : x \in ListExperimentsWithPlans(db)}
    /\ \A name \in Names : \A id \in FindExperimentByName(db, name) :
          \E x \in ListExperimentsWithPlans(db) :
              x.experiment = id /\ x.plan \subseteq ListPlansForExperiment(db, id)

\* Rows without their marks.
PlanContent(rows) == {<<p.id, p.experiment, p.count, p.created>> : p \in rows}
ExperimentContent(rows) == {<<e.id, e.identity, e.config>> : e \in rows}

\* No operation loses or rewrites what another has stored: rows stay, content is
\* immutable, a completed plan stays completed, a deleted plan deleted.
NothingIsLost ==
    [][/\ \A t \in {"links", "cohorts", "units", "results", "simulations"} : db[t] \subseteq db'[t]
       /\ ExperimentContent(db.experiments) \subseteq ExperimentContent(db.experiments)'
       /\ PlanContent(db.plans) \subseteq PlanContent(db.plans)'
       /\ \A p \in db.plans, q \in db'.plans : p.id = q.id =>
             (p.completed => q.completed) /\ (p.deleted => q.deleted)]_vars

\* A deleted experiment comes back only through a save of an equivalent one; what
\* its plans have added since the comparison is all that may differ.
RestoredOnlyIfEquivalent ==
    [][\A e \in db.experiments : e.deleted /\ [e EXCEPT !.deleted = FALSE] \in db'.experiments =>
          \E c \in Clients :
             /\ request[c].kind = "save experiment"
             /\ request[c].identity = e.identity
             /\ LET x == request[c].definition
                IN  /\ e.config = x.config
                    /\ StoredForms(db, e.id) = FormsOf(x.policies)
                    /\ x.cohorts \subseteq StoredDates(db, e.id)
                    /\ StoredDates(db, e.id) \subseteq x.cohorts \union PlannedDates(db, e.id)]_vars

\* The most steps, waiting for the lock aside, from here to the end of a request.
StepsFrom(step) ==
    CASE step = "idle" -> 0
      [] step = "answered" -> 1
      [] step \in {"commit", "read units", "export rows"} -> 2
      [] step \in {"undelete", "delete", "insert associations", "insert units",
                   "insert result", "export result"} -> 3
      [] step \in {"compare", "find deleted", "insert experiment", "insert plan",
                   "complete plan", "export plan"} -> 4
      [] step \in {"check identity", "check status", "read cohorts", "export experiment"} -> 5
      [] step = "read policies" -> 6
      [] step = "read experiment" -> 7
      [] step = "read plan" -> 8
      [] step = "read simulations" -> 9
      [] step = "read result" -> 10

StepsLeft(c) == IF pc[c] = "idle" THEN 0 ELSE StepsFrom(pc[c]) + MaxTries - tries[c]

\* No request goes round in circles: each step of a client, a failed attempt at
\* the lock included, brings the end of its request nearer, and no commit or
\* crash of another client sets it back.
RequestsRunOut ==
    [][\E c \in Clients :
          /\ IF pc[c] = "idle" THEN requests' = requests + 1
             ELSE StepsLeft(c)' \in 0 .. StepsLeft(c) - 1
          /\ \A d \in Clients \ {c} : StepsLeft(d)' = StepsLeft(d)]_vars

\* Every request ends in an answer or an exception: lock conflicts are retried
\* only so often, and whoever dies with the lock gives it up.
EveryRequestEnds == \A c \in Clients : pc[c] # "idle" ~> pc[c] = "idle"

----------------------------------------------------------------------------
(* The catalog: rows joined with what belongs to them.                     *)

LinksOf(rows) == {[index |-> l.index, form |-> l.form] : l \in rows}
StudyContent(x) ==
    [config |-> x.config, links |-> LinksOf(ExpectedLinks(0, x.policies))]
PlanRowsOf(rows) ==
    {[index |-> u.index, date |-> u.date, parameters |-> u.parameters, form |-> u.form] : u \in rows}
ResultRowsOf(rows) ==
    {[unit |-> x.unit, month |-> x.month, dummy |-> x.dummy, final |-> x.final,
      success |-> x.success] : x \in rows}

Catalog == INSTANCE StudyCatalog WITH
    Ids <- 1 .. MaxRequests,
    Contents <- {StudyContent(x.definition) : x \in Experiments},
    CohortSets <- {x.definition.cohorts : x \in Experiments},
    PlanContents <- {PlanRowsOf(UnitRows(0, units)) : units \in UnitLists},
    Outcomes <- {ResultRowsOf(SimulationRows(0, sims)) : sims \in ResultLists},
    studies <- {[id |-> e.id, identity |-> e.identity, deleted |-> e.deleted,
                 cohorts |-> StoredDates(db, e.id),
                 content |-> [config |-> e.config,
                              links |-> LinksOf(Where(db.links, "experiment", e.id))]] :
                e \in db.experiments},
    plans <- {[id |-> p.id, study |-> p.experiment, deleted |-> p.deleted,
               content |-> PlanRowsOf(Where(db.units, "plan", p.id))] : p \in db.plans},
    results <- {[id |-> r.id, plan |-> r.plan,
                 content |-> ResultRowsOf(Where(db.simulations, "result", r.id))] : r \in db.results}

\* Every operation takes effect at once or not at all.
ImplementsCatalog == Catalog!Spec

=============================================================================
