------------------------- MODULE StudyContentProofs -------------------------
(***************************************************************************)
(* What the tables say, for any number of clients, requests, experiments,  *)
(* units and tries, wherever clients die: every commit is one operation on *)
(* the tables, done as a whole.                                            *)
(***************************************************************************)
EXTENDS StudyRepositoryProofs, WellOrdering

----------------------------------------------------------------------------
(* Associations of policies, one after another.                            *)

\* The links after the first k uses.
LinkStep(f, links, id, uses, k) ==
    IF k = 0 THEN links ELSE Link(f[k - 1], id, uses[k].index, uses[k].form)

\* f tells the links after each of the first n uses.
LinksAfter(f, links, id, uses, n) == f = [k \in 0 .. n |-> LinkStep(f, links, id, uses, k)]

\* The definition by recursion means what it says: LinkEach is the last of a
\* sequence of tables, each of which comes from the one before.
LEMMA EachUseIsLinked ==
    ASSUME NEW links, NEW id, NEW uses, Len(uses) \in Nat
    PROVE  \E f : LinksAfter(f, links, id, uses, Len(uses)) /\ LinkEach(links, id, uses) = f[Len(uses)]
  <1> DEFINE bad == {n \in Nat : ~\E f : LinksAfter(f, links, id, uses, n)}
  <1>1. ASSUME bad # {} PROVE FALSE
    <2>1. PICK n \in bad : \A m \in bad : n <= m
        BY <1>1, LeastNumber
    <2>2. CASE n = 0
      <3>1. LinksAfter([k \in 0 .. 0 |-> links], links, id, uses, 0)
          BY DEF LinksAfter, LinkStep
      <3> QED
          BY <2>2, <3>1
    <2>3. CASE n # 0
      <3>1. n \in Nat /\ n - 1 \in Nat /\ n - 1 \notin bad
          BY <2>1, <2>3
      <3>2. PICK g : LinksAfter(g, links, id, uses, n - 1)
          BY <3>1
      <3> DEFINE f == [k \in 0 .. n |-> IF k = n THEN LinkStep(g, links, id, uses, n) ELSE g[k]]
      <3>3. \A k \in 0 .. n - 1 : f[k] = g[k]
          BY <3>1
      <3>4. \A k \in 0 .. n - 1 : g[k] = LinkStep(g, links, id, uses, k)
          BY <3>2 DEF LinksAfter
      <3>5. \A k \in 0 .. n : f[k] = LinkStep(f, links, id, uses, k)
        <4> SUFFICES ASSUME NEW k \in 0 .. n PROVE f[k] = LinkStep(f, links, id, uses, k)
            OBVIOUS
        <4>1. k = 0 \/ k - 1 \in 0 .. n - 1
            BY <3>1
        <4>2. LinkStep(f, links, id, uses, k) = LinkStep(g, links, id, uses, k)
            BY <3>3, <4>1 DEF LinkStep
        <4>3. CASE k = n
            BY <4>2, <4>3
        <4>4. CASE k # n
          <5>1. k \in 0 .. n - 1
              BY <3>1, <4>4
          <5> QED
              BY <3>3, <3>4, <4>2, <5>1
        <4> QED
            BY <4>3, <4>4
      <3>6. LinksAfter(f, links, id, uses, n)
          BY <3>5 DEF LinksAfter
      <3> QED
          BY <2>1, <3>6
    <2> QED
        BY <2>2, <2>3
  <1> DEFINE n == Len(uses)
             g == CHOOSE f : LinksAfter(f, links, id, uses, n)
  <1>2. \E f : LinksAfter(f, links, id, uses, n)
      BY <1>1
  <1>3. LinksAfter(g, links, id, uses, n)
    <2> HIDE DEF n
    <2> QED
        BY <1>2
  <1>4. LinkEach(links, id, uses) = g[n]
      BY DEF LinkEach, LinksAfter, LinkStep
  <1> QED
      BY <1>3, <1>4

----------------------------------------------------------------------------
(* Operations on the tables as a whole: what a transaction has done after  *)
(* its first statement, and when it commits.                               *)

\* Rows of the main tables by identifier.
HasExperiment(d, id) == \E e \in d.experiments : e.id = id
HasRecord(d, id) == \E r \in d.results : r.id = id
IsNew(d, id) == ~HasExperiment(d, id) /\ ~HasId(d, id) /\ ~HasRecord(d, id)

NewExperiment(id, q) ==
    [id |-> id, identity |-> q.identity, config |-> q.definition.config, deleted |-> FALSE]
NewPlan(id, q, time) ==
    [id |-> id, experiment |-> q.id, count |-> Len(q.units), completed |-> FALSE,
     deleted |-> FALSE, created |-> time]
NewResult(id, q) ==
    [id |-> id, plan |-> q.id, total |-> Len(q.simulations),
     successes |-> Cardinality({k \in DOMAIN q.simulations : q.simulations[k].success})]

CohortsOfUnits(id, units) ==
    {[experiment |-> id, date |-> units[k].date] : k \in DOMAIN units}
CohortRows(id, dates) == {[experiment |-> id, date |-> date] : date \in dates}

WithExperiment(d, id, q) == [d EXCEPT !.experiments = @ \union {NewExperiment(id, q)}]
Published(d, id, q) ==
    [WithExperiment(d, id, q) EXCEPT
        !.links = LinkAll(@, id, q.definition.policies),
        !.cohorts = @ \union CohortRows(id, q.definition.cohorts)]
Undeleted(d, id) ==
    [d EXCEPT !.experiments =
        {IF row.id = id THEN [row EXCEPT !.deleted = FALSE] ELSE row : row \in @}]
Deleted(d, id) ==
    [d EXCEPT !.experiments = MarkDeleted(@, "id", id),
              !.plans = MarkDeleted(@, "experiment", id)]
WithPlan(d, id, q, time) ==
    [d EXCEPT !.plans = @ \union {NewPlan(id, q, time)}]
Planned(d, id, q, time) ==
    [WithPlan(d, id, q, time) EXCEPT
        !.cohorts = @ \union CohortsOfUnits(q.id, q.units),
        !.links = LinkUnits(@, q.id, q.units),
        !.units = @ \union UnitRows(id, q.units)]
Completing(d, q) ==
    [d EXCEPT !.plans =
        {IF row.id = q.id THEN [row EXCEPT !.completed = TRUE] ELSE row : row \in @}]
Recorded(d, id, q) ==
    [Completing(d, q) EXCEPT
        !.results = @ \union {NewResult(id, q)},
        !.simulations = @ \union SimulationRows(id, q.simulations)]

----------------------------------------------------------------------------
(* The tables as a whole.                                                  *)

\* What a save asks for.
IsSaveExperiment(q) ==
    /\ q.kind = "save experiment"
    /\ \E x \in Experiments : q.identity = x.identity /\ q.definition = x.definition
IsSavePlan(q) == q.kind = "save plan" /\ q.units \in UnitLists
IsSaveResult(q) == q.kind = "save result" /\ q.simulations \in ResultLists

\* Every row belongs to one of a main table.
Linked(d) ==
    /\ \A l \in d.links : HasExperiment(d, l.experiment)
    /\ \A k \in d.cohorts : HasExperiment(d, k.experiment)
    /\ \A p \in d.plans : HasExperiment(d, p.experiment)
    /\ \A u \in d.units : HasId(d, u.plan)
    /\ \A m \in d.simulations : HasRecord(d, m.result)

\* Identifiers are keys.
Identified(d) ==
    /\ \A a, b \in d.experiments : a.id = b.id => a = b
    /\ \A a, b \in d.results : a.id = b.id => a = b

\* Each row of a main table comes with the rows that one of the saves s of its
\* identifier asked for.
SavesOf(s, id, kind) == {t.request : t \in {u \in s : u.id = id /\ u.request.kind = kind}}

AsSavedExperiment(d, e, q) ==
    /\ IsSaveExperiment(q)
    /\ e.identity = q.identity /\ e.config = q.definition.config
    /\ Where(d.links, "experiment", e.id) = ExpectedLinks(e.id, q.definition.policies)
    /\ StoredDates(d, e.id) = q.definition.cohorts \union PlannedDates(d, e.id)
AsSavedPlan(d, p, q) ==
    /\ IsSavePlan(q)
    /\ p.experiment = q.id /\ p.count = Len(q.units)
    /\ Where(d.units, "plan", p.id) = UnitRows(p.id, q.units)
AsSavedResult(d, r, q) ==
    /\ IsSaveResult(q)
    /\ r.plan = q.id /\ r.total = Len(q.simulations)
    /\ r.successes = Cardinality({k \in DOMAIN q.simulations : q.simulations[k].success})
    /\ Where(d.simulations, "result", r.id) = SimulationRows(r.id, q.simulations)

AsSaved(d, s) ==
    /\ \A e \in d.experiments :
          \E q \in SavesOf(s, e.id, "save experiment") : AsSavedExperiment(d, e, q)
    /\ \A p \in d.plans : \E q \in SavesOf(s, p.id, "save plan") : AsSavedPlan(d, p, q)
    /\ \A r \in d.results : \E q \in SavesOf(s, r.id, "save result") : AsSavedResult(d, r, q)

\* Plans were created at earlier commits.
Dated(d, v) == \A p \in d.plans : p.created \in Nat /\ p.created <= v

Whole(d, s) == d \in DatabaseType /\ Keyed(d) /\ Linked(d) /\ Identified(d) /\ AsSaved(d, s)

----------------------------------------------------------------------------
(* The inductive invariant.                                                *)

\* What clients ask for, of rows that are there.
Asked(c) ==
    LET q == request[c]
    IN  /\ q.kind = "save experiment" => IsSaveExperiment(q)
        /\ q.kind = "save plan" => IsSavePlan(q) /\ HasExperiment(db, q.id)
        /\ q.kind = "save result" => IsSaveResult(q) /\ HasId(db, q.id)

\* Where a request of a kind may be, besides what KindFits says.
Placed(c) ==
    /\ pc[c] \in {"read experiment", "read policies", "read cohorts"} =>
          request[c].kind \in {"load experiment", "save plan", "load plan", "load result"}
    /\ pc[c] \in {"read plan", "read units"} => request[c].kind \in {"load plan", "load result"}
    /\ pc[c] \in {"read result", "read simulations"} => request[c].kind = "load result"
    /\ pc[c] \in {"export experiment", "export plan", "export result", "export rows"} =>
          request[c].kind = "export"

\* The experiment with an identifier can be restored for a request: what it was
\* compared with is still so, but for cohorts that its plans have added.
Restorable(d, id, q) ==
    \E e \in d.experiments :
        /\ e.id = id /\ e.identity = q.identity /\ e.config = q.definition.config
        /\ StoredForms(d, id) = FormsOf(q.definition.policies)
        /\ q.definition.cohorts \subseteq StoredDates(d, id)
        /\ StoredDates(d, id) \subseteq q.definition.cohorts \union PlannedDates(d, id)

IdentityFree(d, identity) == \A e \in d.experiments : e.identity # identity

\* Steps of a client that has generated an identifier and has not committed it.
NewSteps == {"insert experiment", "insert associations", "insert plan", "insert units",
             "complete plan", "insert result"}

Owns(c) == pc[c] \in NewSteps \union {"commit"} /\ IsNew(db, target[c])

\* The row that a client works on, or that it is going to insert.
Aimed(c) ==
    /\ pc[c] \in NewSteps => target[c] # 0 /\ IsNew(db, target[c])
    /\ pc[c] = "insert associations" => IdentityFree(db, request[c].identity)
    /\ pc[c] = "compare" =>
          \E e \in db.experiments : e.id = target[c] /\ e.identity = request[c].identity
    /\ pc[c] = "undelete" => Restorable(db, target[c], request[c])
    /\ pc[c] = "delete" => HasExperiment(db, target[c])

\* What the client's transaction makes of the tables.
Publishes(c, e) ==
    /\ request[c].kind = "save experiment"
    /\ target[c] # 0 /\ IsNew(db, target[c]) /\ IdentityFree(db, request[c].identity)
    /\ e = Published(db, target[c], request[c])
Restores(c, e) ==
    /\ request[c].kind = "save experiment"
    /\ Restorable(db, target[c], request[c])
    /\ e = Undeleted(db, target[c])
Withdraws(c, e) ==
    /\ request[c].kind = "delete"
    /\ HasExperiment(db, target[c])
    /\ e = Deleted(db, target[c])
AddsPlan(c, e) ==
    /\ request[c].kind = "save plan"
    /\ target[c] # 0 /\ IsNew(db, target[c])
    /\ e = Planned(db, target[c], request[c], version)
Records(c, e) ==
    /\ request[c].kind = "save result"
    /\ target[c] # 0 /\ IsNew(db, target[c]) /\ ~HasOutcome(db, request[c].id)
    /\ e = Recorded(db, target[c], request[c])

Operates(c, e) ==
    Publishes(c, e) \/ Restores(c, e) \/ Withdraws(c, e) \/ AddsPlan(c, e) \/ Records(c, e)

\* How far an open transaction has come.
Staged(c) ==
    /\ pc[c] = "insert associations" => draft = WithExperiment(db, target[c], request[c])
    /\ pc[c] = "insert units" => draft = WithPlan(db, target[c], request[c], version)
    /\ pc[c] = "insert result" => draft = Completing(db, request[c])
    /\ pc[c] = "commit" => Operates(c, draft)

\* Identifiers have been generated, and only one client will use each.
Numbered ==
    /\ \A e \in db.experiments : e.id \in 1 .. issued
    /\ \A p \in db.plans : p.id \in 1 .. issued
    /\ \A r \in db.results : r.id \in 1 .. issued
    /\ \A c, d \in Clients : c # d /\ Owns(c) /\ Owns(d) => target[c] # target[d]

ClientInv(c) == Asked(c) /\ Placed(c) /\ Aimed(c) /\ Staged(c)

ContentInv ==
    /\ version \in Nat
    /\ Whole(db, saved) /\ Dated(db, version)
    /\ Numbered
    /\ \A c \in Clients : ClientInv(c)

----------------------------------------------------------------------------
(* What associating policies comes to.                                     *)

\* Those of the first n policies that are the first to be stored as they are.
FirstOnes(policies, n) ==
    {k \in 1 .. n : \A j \in 1 .. k - 1 : Form[policies[j]] # Form[policies[k]]}

LinksOfFirst(id, policies, n) ==
    {[experiment |-> id, index |-> k - 1, form |-> Form[policies[k]]] : k \in FirstOnes(policies, n)}

\* Among the policies before one, some first one is stored the same way if any is.
LEMMA FirstOfItsForm ==
    ASSUME NEW policies, NEW n \in Nat, NEW j \in 1 .. n
    PROVE  \E k \in FirstOnes(policies, n) : Form[policies[k]] = Form[policies[j]]
  <1> DEFINE same == {k \in 1 .. n : Form[policies[k]] = Form[policies[j]]}
  <1>1. same \in SUBSET Nat /\ same # {}
      OBVIOUS
  <1>2. PICK k \in same : \A i \in same : k <= i
    <2> HIDE DEF same
    <2> QED
        BY <1>1, LeastNumber
  <1>3. \A i \in 1 .. k - 1 : i \in 1 .. n /\ ~(k <= i)
      BY <1>2
  <1>4. \A i \in 1 .. k - 1 : Form[policies[i]] # Form[policies[k]]
      BY <1>2, <1>3
  <1> QED
      BY <1>2, <1>4 DEF FirstOnes

\* An experiment that has no links yet gets one for each form among its policies,
\* at the index of the first.
LEMMA NewLinks ==
    ASSUME NEW links, NEW id, NEW policies \in Seq(Policies),
           \A l \in links : l.experiment # id
    PROVE  LinkAll(links, id, policies) = links \union ExpectedLinks(id, policies)
  <1> DEFINE n == Len(policies)
             uses == [k \in 1 .. n |-> [index |-> k - 1, form |-> Form[policies[k]]]]
  <1>1. n \in Nat /\ DOMAIN policies = 1 .. n /\ Len(uses) = n
      OBVIOUS
  <1>2. \A k \in 1 .. n : uses[k].index = k - 1 /\ uses[k].form = Form[policies[k]]
      OBVIOUS
  <1>3. LinkAll(links, id, policies) = LinkEach(links, id, uses)
      BY DEF LinkAll
  <1>4. ExpectedLinks(id, policies) = LinksOfFirst(id, policies, n)
      BY <1>1 DEF ExpectedLinks, LinksOfFirst, FirstOnes
  <1> HIDE DEF n, uses
  <1>5. PICK f : LinksAfter(f, links, id, uses, n) /\ LinkEach(links, id, uses) = f[n]
      BY <1>1, EachUseIsLinked
  <1>6. \A k \in 0 .. n : f[k] = LinkStep(f, links, id, uses, k)
      BY <1>5 DEF LinksAfter
  <1> DEFINE Right(k) == f[k] = links \union LinksOfFirst(id, policies, k)
             bad == {k \in 0 .. n : ~Right(k)}
  <1>7. Right(0)
    <2>1. f[0] = links
        BY <1>1, <1>6 DEF LinkStep
    <2>2. LinksOfFirst(id, policies, 0) = {}
        BY DEF LinksOfFirst, FirstOnes
    <2> QED
        BY <2>1, <2>2
  <1>8. ASSUME NEW k \in 1 .. n, Right(k - 1) PROVE Right(k)
    <2> DEFINE form == Form[policies[k]]
               before == LinksOfFirst(id, policies, k - 1)
    <2>1. k \in 0 .. n /\ k # 0 /\ k - 1 \in Nat /\ k \in Nat
        BY <1>1
    <2>2. f[k] = Link(f[k - 1], id, k - 1, form)
        BY <1>2, <1>6, <2>1 DEF LinkStep
    <2>3. \A l \in before : l.experiment = id /\ l.index # k - 1
        BY DEF LinksOfFirst, FirstOnes
    <2>4. Where(f[k - 1], "experiment", id) = before
        BY <1>8, <2>3 DEF Where
    <2>5. (\E l \in before : l.form = form) <=> \E j \in 1 .. k - 1 : Form[policies[j]] = form
      <3>1. ASSUME NEW l \in before, l.form = form
            PROVE  \E j \in 1 .. k - 1 : Form[policies[j]] = form
          BY <3>1 DEF LinksOfFirst, FirstOnes
      <3>2. ASSUME NEW j \in 1 .. k - 1, Form[policies[j]] = form
            PROVE  \E l \in before : l.form = form
        <4>1. PICK i \in FirstOnes(policies, k - 1) : Form[policies[i]] = Form[policies[j]]
            BY <2>1, FirstOfItsForm
        <4>2. [experiment |-> id, index |-> i - 1, form |-> Form[policies[i]]] \in before
            BY DEF LinksOfFirst
        <4> QED
            BY <3>2, <4>1, <4>2
      <3> QED
          BY <3>1, <3>2
    <2>6. FirstOnes(policies, k) =
              IF \E j \in 1 .. k - 1 : Form[policies[j]] = form
              THEN FirstOnes(policies, k - 1) ELSE FirstOnes(policies, k - 1) \union {k}
      <3>1. 1 .. k = (1 .. k - 1) \union {k}
          BY <2>1
      <3> QED
          BY <3>1 DEF FirstOnes
    <2>7. LinksOfFirst(id, policies, k) =
              IF \E j \in 1 .. k - 1 : Form[policies[j]] = form
              THEN before ELSE before \union {[experiment |-> id, index |-> k - 1, form |-> form]}
        BY <2>6 DEF LinksOfFirst
    <2>8. f[k - 1] = links \union before
        BY <1>8
    <2> HIDE DEF before, form
    <2>9. Link(f[k - 1], id, k - 1, form) =
              IF \E l \in before : l.form = form THEN f[k - 1]
              ELSE f[k - 1] \union {[experiment |-> id, index |-> k - 1, form |-> form]}
        BY <2>3, <2>4 DEF Link
    <2> QED
        BY <2>2, <2>5, <2>7, <2>8, <2>9
  <1>9. bad = {}
    <2> SUFFICES ASSUME bad # {} PROVE FALSE
        OBVIOUS
    <2>1. bad \in SUBSET Nat
        BY <1>1
    <2>2. PICK k \in bad : \A i \in bad : k <= i
      <3> HIDE DEF bad
      <3> QED
          BY <2>1, LeastNumber
    <2>3. k # 0 /\ k \in 0 .. n
        BY <1>7
    <2>4. k - 1 \in 0 .. n /\ k \in 1 .. n /\ ~(k <= k - 1)
        BY <1>1, <2>3
    <2>5. Right(k - 1)
        BY <2>2, <2>4
    <2> QED
        BY <1>8, <2>2, <2>4, <2>5
  <1>10. Right(n)
      BY <1>1, <1>9
  <1> QED
      BY <1>3, <1>4, <1>5, <1>10

\* An experiment that has a link at index 0 gets no other from its units.
LEMMA UnitsAddNoLinks ==
    ASSUME NEW links, NEW id, NEW units, Len(units) \in Nat,
           \E l \in links : l.experiment = id /\ l.index = 0
    PROVE  LinkUnits(links, id, units) = links
  <1> DEFINE n == Len(units)
             uses == [k \in 1 .. n |-> [index |-> 0, form |-> Form[units[k].policy]]]
  <1>1. n \in Nat /\ Len(uses) = n
      OBVIOUS
  <1>2. \A k \in 1 .. n : uses[k].index = 0
      OBVIOUS
  <1>3. LinkUnits(links, id, units) = LinkEach(links, id, uses)
      BY DEF LinkUnits
  <1> HIDE DEF n, uses
  <1>4. PICK f : LinksAfter(f, links, id, uses, n) /\ LinkEach(links, id, uses) = f[n]
      BY <1>1, EachUseIsLinked
  <1>5. \A k \in 0 .. n : f[k] = LinkStep(f, links, id, uses, k)
      BY <1>4 DEF LinksAfter
  <1> DEFINE bad == {k \in 0 .. n : f[k] # links}
  <1>6. bad = {}
    <2> SUFFICES ASSUME bad # {} PROVE FALSE
        OBVIOUS
    <2>1. bad \in SUBSET Nat
        BY <1>1
    <2>2. PICK k \in bad : \A i \in bad : k <= i
      <3> HIDE DEF bad
      <3> QED
          BY <2>1, LeastNumber
    <2>3. k # 0 /\ k \in 0 .. n
        BY <1>1, <1>5 DEF LinkStep
    <2>4. k - 1 \in 0 .. n /\ k \in 1 .. n /\ ~(k <= k - 1)
        BY <1>1, <2>3
    <2>5. f[k - 1] = links
        BY <2>2, <2>4
    <2>6. f[k] = Link(links, id, 0, uses[k].form)
        BY <1>2, <1>5, <2>3, <2>4, <2>5 DEF LinkStep
    <2>7. \E l \in Where(links, "experiment", id) : l.index = 0
        BY DEF Where
    <2>8. f[k] = links
        BY <2>6, <2>7 DEF Link
    <2> QED
        BY <2>2, <2>8
  <1> QED
      BY <1>1, <1>3, <1>4, <1>6

----------------------------------------------------------------------------
(* What is saved is typed.                                                 *)

\* Tables of the right types are tables.
LEMMA TypedTables ==
    ASSUME NEW d \in DatabaseType
    PROVE  /\ IsDatabase(d)
           /\ d.experiments \subseteq ExperimentRow /\ d.links \subseteq LinkRow
           /\ d.cohorts \subseteq CohortRow /\ d.plans \subseteq PlanRow
           /\ d.units \subseteq UnitRow /\ d.results \subseteq ResultRow
           /\ d.simulations \subseteq SimulationRow
  BY DEF DatabaseType, IsDatabase, Tables

\* A database is typed if each of its tables is.
LEMMA TablesTyped ==
    ASSUME NEW d, IsDatabase(d),
           d.experiments \subseteq ExperimentRow, d.links \subseteq LinkRow,
           d.cohorts \subseteq CohortRow, d.plans \subseteq PlanRow,
           d.units \subseteq UnitRow, d.results \subseteq ResultRow,
           d.simulations \subseteq SimulationRow
    PROVE  d \in DatabaseType
  <1>1. d = [experiments |-> d.experiments, links |-> d.links, cohorts |-> d.cohorts,
             plans |-> d.plans, units |-> d.units, results |-> d.results,
             simulations |-> d.simulations]
      BY DEF IsDatabase, Tables
  <1> QED
      BY <1>1 DEF DatabaseType

\* What the constructors of experiments, units and simulations guarantee.
LEMMA SavedExperiment ==
    ASSUME NEW q, IsSaveExperiment(q)
    PROVE  /\ q.identity \in Identities /\ q.definition.config \in Configs
           /\ q.definition.policies \in Seq(Policies) /\ q.definition.policies # <<>>
           /\ q.definition.cohorts \subseteq Dates
  <1>1. PICK x \in Experiments : q.identity = x.identity /\ q.definition = x.definition
      BY DEF IsSaveExperiment
  <1>2. x.identity \in Identities /\ x.definition \in DefinitionType /\ x.definition.policies # <<>>
      BY InputsAssumption
  <1> QED
      BY <1>1, <1>2 DEF DefinitionType

\* What a request to save a plan holds.
LEMMA SavedPlan ==
    ASSUME NEW q, IsSavePlan(q)
    PROVE  q.units \in Seq(UnitType) /\ q.units # <<>>
  BY InputsAssumption DEF IsSavePlan

\* What a request to save a result holds.
LEMMA SavedResult ==
    ASSUME NEW q, IsSaveResult(q)
    PROVE  q.simulations \in Seq(SimulationType) /\ q.simulations # <<>>
  BY InputsAssumption DEF IsSaveResult

\* The rows that saves insert.
LEMMA ExperimentTyped ==
    ASSUME NEW q, IsSaveExperiment(q), NEW id \in Nat
    PROVE  /\ NewExperiment(id, q) \in ExperimentRow
           /\ ExpectedLinks(id, q.definition.policies) \subseteq LinkRow
           /\ CohortRows(id, q.definition.cohorts) \subseteq CohortRow
  <1> DEFINE policies == q.definition.policies
  <1>1. q.identity \in Identities /\ q.definition.config \in Configs /\ policies \in Seq(Policies)
        /\ q.definition.cohorts \subseteq Dates
      BY SavedExperiment
  <1>2. \A k \in DOMAIN policies : k - 1 \in Nat /\ Form[policies[k]] \in Forms
      BY <1>1, FormAssumption
  <1> HIDE DEF policies
  <1>3. ExpectedLinks(id, policies) \subseteq LinkRow
      BY <1>2 DEF ExpectedLinks, LinkRow
  <1> QED
      BY <1>1, <1>3 DEF NewExperiment, ExperimentRow, CohortRow, CohortRows, policies

\* The rows of a plan, of its units and of the cohorts they start at.
LEMMA PlanTyped ==
    ASSUME NEW q, IsSavePlan(q), NEW id \in Nat, q.id \in Nat, NEW time \in Nat
    PROVE  /\ NewPlan(id, q, time) \in PlanRow
           /\ UnitRows(id, q.units) \subseteq UnitRow
           /\ CohortsOfUnits(q.id, q.units) \subseteq CohortRow
  <1> DEFINE units == q.units
  <1>0. units \in Seq(UnitType)
      BY SavedPlan
  <1>1. units \in Seq(UnitType) /\ Len(units) \in Nat
    <2> HIDE DEF units
    <2> QED
        BY <1>0
  <1>2. \A k \in DOMAIN units :
            /\ k \in Nat /\ units[k].date \in Dates /\ units[k].parameters \in Parameters
            /\ Form[units[k].policy] \in Forms
    <2>1. \A k \in DOMAIN units : k \in Nat /\ units[k] \in UnitType
        BY <1>1
    <2> HIDE DEF units
    <2> QED
        BY <2>1, FormAssumption DEF UnitType
  <1> HIDE DEF units
  <1>3. UnitRows(id, units) \subseteq UnitRow
      BY <1>2 DEF UnitRows, UnitRow
  <1>4. CohortsOfUnits(q.id, units) \subseteq CohortRow
      BY <1>2 DEF CohortRow, CohortsOfUnits
  <1>5. NewPlan(id, q, time) \in PlanRow
      BY <1>1 DEF NewPlan, PlanRow, units
  <1> QED
      BY <1>3, <1>4, <1>5 DEF units

\* Some of the elements of a sequence are finitely many, and no more than all.
LEMMA SomeOfSequence ==
    ASSUME NEW n \in Nat, NEW T \in SUBSET (1 .. n)
    PROVE  IsFiniteSet(T) /\ Cardinality(T) \in Nat /\ Cardinality(T) <= n
  <1>1. IsFiniteSet(1 .. n) /\ Cardinality(1 .. n) = n
      BY FS_Interval
  <1>2. IsFiniteSet(T) /\ Cardinality(T) <= Cardinality(1 .. n)
      BY <1>1, FS_Subset
  <1> QED
      BY <1>1, <1>2, FS_CardinalityType

\* The rows of a result and its simulations; it counts no more successes than there are.
LEMMA ResultTyped ==
    ASSUME NEW q, IsSaveResult(q), NEW id \in Nat, q.id \in Nat
    PROVE  /\ NewResult(id, q) \in ResultRow
           /\ NewResult(id, q).successes <= NewResult(id, q).total
           /\ SimulationRows(id, q.simulations) \subseteq SimulationRow
  <1> DEFINE sims == q.simulations
             wins == {k \in DOMAIN sims : sims[k].success}
             n == Len(sims)
  <1>0. sims \in Seq(SimulationType)
      BY SavedResult
  <1>1. sims \in Seq(SimulationType) /\ n \in Nat /\ DOMAIN sims = 1 .. n
    <2> HIDE DEF sims
    <2> QED
        BY <1>0
  <1>2. \A k \in 1 .. n : k \in Nat /\ sims[k] \in SimulationType
      BY <1>1
  <1> HIDE DEF sims
  <1>3. wins \in SUBSET (1 .. n)
      BY <1>1
  <1> HIDE DEF wins, n
  <1>4. Cardinality(wins) \in Nat /\ Cardinality(wins) <= n
      BY <1>1, <1>3, SomeOfSequence
  <1>5. NewResult(id, q) \in ResultRow /\ NewResult(id, q).successes <= NewResult(id, q).total
      BY <1>1, <1>4 DEF NewResult, ResultRow, wins, n, sims
  <1>6. ASSUME NEW k \in 1 .. n
        PROVE  /\ sims[k].success \in BOOLEAN
               /\ 1 .. Greater(sims[k].months, 1) \subseteq Nat
    <2>1. sims[k].months \in Nat /\ sims[k].success \in BOOLEAN
        BY <1>2 DEF SimulationType
    <2> QED
        BY <2>1 DEF Greater
  <1>7. SimulationRows(id, sims) \subseteq SimulationRow
    <2> SUFFICES ASSUME NEW k \in 1 .. n, NEW m \in 1 .. Greater(sims[k].months, 1)
                 PROVE  [result |-> id, unit |-> k, month |-> m, dummy |-> sims[k].months = 0,
                         final |-> m = Greater(sims[k].months, 1),
                         success |-> m = Greater(sims[k].months, 1) /\ sims[k].success]
                            \in SimulationRow
        BY <1>1 DEF SimulationRows
    <2>1. k \in Nat /\ m \in Nat
        BY <1>2, <1>6
    <2>2. (m = Greater(sims[k].months, 1) /\ sims[k].success) \in BOOLEAN
          /\ (m = Greater(sims[k].months, 1)) \in BOOLEAN /\ (sims[k].months = 0) \in BOOLEAN
        OBVIOUS
    <2> QED
        BY <2>1, <2>2 DEF SimulationRow
  <1> QED
      BY <1>5, <1>7 DEF sims

----------------------------------------------------------------------------
(* Tables after others.                                                    *)

\* The tables e come after the tables d: nothing is lost, what belongs to a row of
\* a main table stays as it was, but for cohorts that plans add.
Grows(d, e) ==
    /\ d.links \subseteq e.links /\ d.cohorts \subseteq e.cohorts /\ d.units \subseteq e.units
    /\ d.results \subseteq e.results /\ d.simulations \subseteq e.simulations
    /\ \A x \in d.experiments :
          /\ \E y \in e.experiments : SameExperiment(x, y)
          /\ Where(e.links, "experiment", x.id) = Where(d.links, "experiment", x.id)
          /\ StoredDates(e, x.id) = StoredDates(d, x.id) \union PlannedDates(e, x.id)
    /\ \A p \in d.plans :
          /\ \E q \in e.plans : SamePlan(p, q)
          /\ Where(e.units, "plan", p.id) = Where(d.units, "plan", p.id)
    /\ \A r \in d.results :
          Where(e.simulations, "result", r.id) = Where(d.simulations, "result", r.id)

\* Only the identifier id is new.
OnlyNew(d, e, id) == \A i : IsNew(d, i) /\ i # id => IsNew(e, i)

\* Dates stay planned.
LEMMA PlannedDatesGrow ==
    ASSUME NEW d, NEW e, d.units \subseteq e.units,
           \A p \in d.plans : \E q \in e.plans : SamePlan(p, q), NEW id
    PROVE  PlannedDates(d, id) \subseteq PlannedDates(e, id)
  BY DEF PlannedDates, Where, SamePlan

\* Saves stay known.
LEMMA SavesGrow ==
    ASSUME NEW s, NEW t, s \subseteq t, NEW id, NEW kind
    PROVE  SavesOf(s, id, kind) \subseteq SavesOf(t, id, kind)
  BY DEF SavesOf

\* A save that was recorded is one of those of its identifier and kind.
LEMMA SaveIsKnown ==
    ASSUME NEW t, NEW id, NEW q, [id |-> id, request |-> q] \in t
    PROVE  q \in SavesOf(t, id, q.kind)
  <1> DEFINE u == [id |-> id, request |-> q]
  <1>1. u \in t /\ u.id = id /\ u.request = q
      OBVIOUS
  <1> HIDE DEF u
  <1>2. u \in {v \in t : v.id = id /\ v.request.kind = q.kind}
      BY <1>1
  <1> QED
      BY <1>1, <1>2 DEF SavesOf

\* The dates of cohort rows.
LEMMA DatesOfRows ==
    ASSUME NEW id, NEW dates
    PROVE  {k.date : k \in CohortRows(id, dates)} = dates
  <1> DEFINE row(date) == [experiment |-> id, date |-> date]
  <1>1. \A date \in dates : row(date) \in CohortRows(id, dates) /\ row(date).date = date
      BY DEF CohortRows
  <1>2. \A k \in CohortRows(id, dates) : k.date \in dates
      BY DEF CohortRows
  <1> HIDE DEF row
  <1> QED
      BY <1>1, <1>2

\* What a row has been saved with it still has.
LEMMA RowsAsBefore ==
    ASSUME NEW d, NEW e, NEW s, NEW t, AsSaved(d, s), s \subseteq t, Grows(d, e)
    PROVE  /\ \A x \in d.experiments, y \in e.experiments : SameExperiment(x, y) =>
                 \E q \in SavesOf(t, y.id, "save experiment") : AsSavedExperiment(e, y, q)
           /\ \A p \in d.plans, y \in e.plans : SamePlan(p, y) =>
                 \E q \in SavesOf(t, y.id, "save plan") : AsSavedPlan(e, y, q)
           /\ \A r \in d.results :
                 \E q \in SavesOf(t, r.id, "save result") : AsSavedResult(e, r, q)
  <1>1. ASSUME NEW x \in d.experiments, NEW y \in e.experiments, SameExperiment(x, y)
        PROVE  \E q \in SavesOf(t, y.id, "save experiment") : AsSavedExperiment(e, y, q)
    <2>1. PICK q \in SavesOf(s, x.id, "save experiment") : AsSavedExperiment(d, x, q)
        BY DEF AsSaved
    <2>2. y.id = x.id /\ y.identity = x.identity /\ y.config = x.config
        BY <1>1 DEF SameExperiment
    <2>3. PlannedDates(d, x.id) \subseteq PlannedDates(e, x.id)
        BY PlannedDatesGrow DEF Grows
    <2>4. StoredDates(e, x.id) = q.definition.cohorts \union PlannedDates(e, x.id)
        BY <2>1, <2>3 DEF Grows, AsSavedExperiment
    <2>5. AsSavedExperiment(e, y, q)
        BY <2>1, <2>2, <2>4 DEF Grows, AsSavedExperiment
    <2> QED
        BY <2>1, <2>2, <2>5, SavesGrow
  <1>2. ASSUME NEW p \in d.plans, NEW y \in e.plans, SamePlan(p, y)
        PROVE  \E q \in SavesOf(t, y.id, "save plan") : AsSavedPlan(e, y, q)
    <2>1. PICK q \in SavesOf(s, p.id, "save plan") : AsSavedPlan(d, p, q)
        BY DEF AsSaved
    <2>2. y.id = p.id /\ y.experiment = p.experiment /\ y.count = p.count
        BY <1>2 DEF SamePlan
    <2>3. AsSavedPlan(e, y, q)
        BY <2>1, <2>2 DEF Grows, AsSavedPlan
    <2> QED
        BY <2>1, <2>2, <2>3, SavesGrow
  <1>3. ASSUME NEW r \in d.results
        PROVE  \E q \in SavesOf(t, r.id, "save result") : AsSavedResult(e, r, q)
    <2>1. PICK q \in SavesOf(s, r.id, "save result") : AsSavedResult(d, r, q)
        BY DEF AsSaved
    <2>2. AsSavedResult(e, r, q)
        BY <2>1 DEF Grows, AsSavedResult
    <2> QED
        BY <2>1, <2>2, SavesGrow
  <1> QED
      BY <1>1, <1>2, <1>3

\* Where an experiment's cohorts are those it was saved with and those of its
\* plans, the latter are among its cohorts.
LEMMA PlannedAreStored ==
    ASSUME NEW d, NEW s, AsSaved(d, s), NEW x \in d.experiments
    PROVE  PlannedDates(d, x.id) \subseteq StoredDates(d, x.id)
  BY DEF AsSaved, AsSavedExperiment

\* Rows that belong to rows that are there are not those of a new identifier.
LEMMA NothingOfTheNew ==
    ASSUME NEW d, Linked(d), NEW id, IsNew(d, id)
    PROVE  /\ \A l \in d.links : l.experiment # id
           /\ \A k \in d.cohorts : k.experiment # id
           /\ \A p \in d.plans : p.experiment # id /\ p.id # id
           /\ \A u \in d.units : u.plan # id
           /\ \A m \in d.simulations : m.result # id
           /\ \A x \in d.experiments : x.id # id
           /\ \A r \in d.results : r.id # id
  BY DEF Linked, IsNew, HasExperiment, HasId, HasRecord

----------------------------------------------------------------------------
(* What each operation does to the tables.                                 *)

\* The tables after save_experiment, one by one.
LEMMA PublishedTables ==
    ASSUME NEW d, IsDatabase(d), NEW id, NEW q
    PROVE  LET e == Published(d, id, q)
           IN  /\ IsDatabase(e)
               /\ e.experiments = d.experiments \union {NewExperiment(id, q)}
               /\ e.links = LinkAll(d.links, id, q.definition.policies)
               /\ e.cohorts = d.cohorts \union CohortRows(id, q.definition.cohorts)
               /\ e.plans = d.plans /\ e.units = d.units
               /\ e.results = d.results /\ e.simulations = d.simulations
  BY DEF Published, WithExperiment, IsDatabase, Tables

\* An experiment is published with what belongs to it.
LEMMA PublishedIsWhole ==
    ASSUME NEW d, NEW s, Whole(d, s), NEW id \in Nat, IsNew(d, id),
           NEW q, IsSaveExperiment(q), NEW e, e = Published(d, id, q), Keyed(e),
           NEW t, s \subseteq t, [id |-> id, request |-> q] \in t
    PROVE  /\ Whole(e, t) /\ Grows(d, e) /\ OnlyNew(d, e, id)
           /\ AsSavedExperiment(e, NewExperiment(id, q), q)
           /\ StoredDates(e, id) = q.definition.cohorts
           /\ \A y \in d.experiments : StoredDates(e, y.id) = StoredDates(d, y.id)
  <1> DEFINE x == NewExperiment(id, q)
             dates == CohortRows(id, q.definition.cohorts)
             firsts == ExpectedLinks(id, q.definition.policies)
  <1>0. /\ IsDatabase(d) /\ Linked(d) /\ AsSaved(d, s) /\ Keyed(d) /\ Identified(d)
        /\ d \in DatabaseType
      BY TypedTables DEF Whole
  <1>1. /\ IsDatabase(e)
        /\ e.experiments = d.experiments \union {x}
        /\ e.links = LinkAll(d.links, id, q.definition.policies)
        /\ e.cohorts = d.cohorts \union dates
        /\ e.plans = d.plans /\ e.units = d.units
        /\ e.results = d.results /\ e.simulations = d.simulations
      BY <1>0, PublishedTables
  <1>2. /\ \A l \in d.links : l.experiment # id
        /\ \A k \in d.cohorts : k.experiment # id
        /\ \A p \in d.plans : p.experiment # id
        /\ \A y \in d.experiments : y.id # id
      BY <1>0, NothingOfTheNew
  <1>3. e.links = d.links \union firsts
      BY <1>1, <1>2, NewLinks, SavedExperiment
  <1>4. \A l \in firsts : l.experiment = id
      BY DEF ExpectedLinks
  <1>5. \A k \in dates : k.experiment = id
      BY DEF CohortRows
  <1>6. /\ x.id = id /\ x.identity = q.identity /\ x.config = q.definition.config
        /\ x = NewExperiment(id, q)
      BY DEF NewExperiment
  <1>7. x \in ExperimentRow /\ firsts \subseteq LinkRow /\ dates \subseteq CohortRow
      BY ExperimentTyped
  <1>8. {k.date : k \in dates} = q.definition.cohorts
      BY DatesOfRows
  <1> HIDE DEF x, dates, firsts
  <1>9. \A i : PlannedDates(e, i) = PlannedDates(d, i)
      BY <1>1 DEF PlannedDates
  <1>10. \A y \in d.experiments : StoredDates(e, y.id) = StoredDates(d, y.id)
      BY <1>1, <1>2, <1>5 DEF StoredDates, Where
  <1>11. \A y \in d.experiments :
            Where(e.links, "experiment", y.id) = Where(d.links, "experiment", y.id)
      BY <1>2, <1>3, <1>4 DEF Where
  <1>12. Grows(d, e)
    <2>1. \A y \in d.experiments : SameExperiment(y, y)
        BY DEF SameExperiment
    <2>2. \A p \in d.plans : SamePlan(p, p)
        BY DEF SamePlan
    <2>3. \A y \in d.experiments :
              StoredDates(e, y.id) = StoredDates(d, y.id) \union PlannedDates(e, y.id)
        BY <1>0, <1>9, <1>10, PlannedAreStored
    <2> QED
        BY <1>1, <1>3, <1>11, <2>1, <2>2, <2>3 DEF Grows
  <1>13. /\ AsSavedExperiment(e, x, q) /\ q \in SavesOf(t, x.id, "save experiment")
         /\ StoredDates(e, id) = q.definition.cohorts
    <2>1. Where(e.links, "experiment", id) = firsts
        BY <1>2, <1>3, <1>4 DEF Where
    <2>2. StoredDates(e, id) = q.definition.cohorts
      <3>1. Where(e.cohorts, "experiment", id) = dates
          BY <1>1, <1>2, <1>5 DEF Where
      <3> QED
          BY <1>8, <3>1 DEF StoredDates
    <2>3. PlannedDates(e, id) = {}
        BY <1>1, <1>2 DEF PlannedDates, Where
    <2>4. q.kind = "save experiment"
        BY DEF IsSaveExperiment
    <2>5. q \in SavesOf(t, id, "save experiment")
        BY <2>4, SaveIsKnown
    <2> QED
        BY <1>6, <2>1, <2>2, <2>3, <2>5 DEF AsSavedExperiment, firsts
  <1>14. AsSaved(e, t)
    <2>1. \A y \in d.experiments : SameExperiment(y, y)
        BY DEF SameExperiment
    <2>2. \A p \in d.plans : SamePlan(p, p)
        BY DEF SamePlan
    <2>3. \A y \in d.experiments :
              \E r \in SavesOf(t, y.id, "save experiment") : AsSavedExperiment(e, y, r)
        BY <1>0, <1>1, <1>12, <2>1, RowsAsBefore
    <2>4. /\ \A p \in e.plans : \E r \in SavesOf(t, p.id, "save plan") : AsSavedPlan(e, p, r)
          /\ \A y \in e.results : \E r \in SavesOf(t, y.id, "save result") : AsSavedResult(e, y, r)
        BY <1>0, <1>1, <1>12, <2>2, RowsAsBefore
    <2> QED
        BY <1>1, <1>13, <2>3, <2>4 DEF AsSaved
  <1>15. Linked(e)
    <2>1. \A i : HasExperiment(d, i) => HasExperiment(e, i)
        BY <1>1 DEF HasExperiment
    <2>2. HasExperiment(e, id)
        BY <1>1, <1>6 DEF HasExperiment
    <2> QED
        BY <1>0, <1>1, <1>3, <1>4, <1>5, <2>1, <2>2 DEF Linked, HasId, HasRecord
  <1>16. Identified(e)
      BY <1>0, <1>1, <1>2, <1>6 DEF Identified
  <1>17. e \in DatabaseType
      BY <1>0, <1>1, <1>3, <1>7, TypedTables, TablesTyped
  <1>18. OnlyNew(d, e, id)
      BY <1>1, <1>6 DEF OnlyNew, IsNew, HasExperiment, HasId, HasRecord
  <1> QED
      BY <1>6, <1>10, <1>12, <1>13, <1>14, <1>15, <1>16, <1>17, <1>18 DEF Whole

\* The tables after save_plan, one by one.
LEMMA PlannedTables ==
    ASSUME NEW d, IsDatabase(d), NEW id, NEW q, NEW time
    PROVE  LET e == Planned(d, id, q, time)
           IN  /\ IsDatabase(e)
               /\ e.experiments = d.experiments
               /\ e.links = LinkUnits(d.links, q.id, q.units)
               /\ e.cohorts = d.cohorts \union CohortsOfUnits(q.id, q.units)
               /\ e.plans = d.plans \union {NewPlan(id, q, time)}
               /\ e.units = d.units \union UnitRows(id, q.units)
               /\ e.results = d.results /\ e.simulations = d.simulations
  BY DEF Planned, WithPlan, IsDatabase, Tables

\* The dates of the units of a plan, in either table.
LEMMA DatesOfUnits ==
    ASSUME NEW id, NEW i, NEW units
    PROVE  {u.date : u \in UnitRows(id, units)} = {k.date : k \in CohortsOfUnits(i, units)}
  <1> DEFINE unit(k) == [plan |-> id, index |-> k, date |-> units[k].date,
                         parameters |-> units[k].parameters, form |-> Form[units[k].policy]]
             cohort(k) == [experiment |-> i, date |-> units[k].date]
  <1>1. \A k \in DOMAIN units :
            /\ unit(k) \in UnitRows(id, units) /\ unit(k).date = units[k].date
            /\ cohort(k) \in CohortsOfUnits(i, units) /\ cohort(k).date = units[k].date
      BY DEF UnitRows, CohortsOfUnits
  <1>2. /\ \A u \in UnitRows(id, units) : \E k \in DOMAIN units : u.date = units[k].date
        /\ \A u \in CohortsOfUnits(i, units) : \E k \in DOMAIN units : u.date = units[k].date
      BY DEF UnitRows, CohortsOfUnits
  <1> HIDE DEF unit, cohort
  <1> QED
      BY <1>1, <1>2

\* Every experiment has a policy, so it has a link at index 0.
LEMMA HasFirstLink ==
    ASSUME NEW d, NEW s, AsSaved(d, s), NEW id, HasExperiment(d, id)
    PROVE  \E l \in d.links : l.experiment = id /\ l.index = 0
  <1>1. PICK x \in d.experiments : x.id = id
      BY DEF HasExperiment
  <1>2. PICK q : AsSavedExperiment(d, x, q)
      BY <1>1 DEF AsSaved
  <1> DEFINE policies == q.definition.policies
  <1>3. policies \in Seq(Policies) /\ policies # <<>>
      BY <1>2, SavedExperiment DEF AsSavedExperiment
  <1>4. Where(d.links, "experiment", id) = ExpectedLinks(id, policies)
      BY <1>1, <1>2 DEF AsSavedExperiment
  <1> HIDE DEF policies
  <1>5. 1 \in DOMAIN policies
    <2>1. Len(policies) \in Nat /\ DOMAIN policies = 1 .. Len(policies) /\ Len(policies) # 0
        BY <1>3
    <2> QED
        BY <2>1
  <1>6. 1 - 1 = 0 /\ 1 .. 1 - 1 = {}
      OBVIOUS
  <1> DEFINE l == [experiment |-> id, index |-> 0, form |-> Form[policies[1]]]
  <1>7. l \in ExpectedLinks(id, policies)
      BY <1>5, <1>6 DEF ExpectedLinks
  <1>8. l.index = 0
      OBVIOUS
  <1> HIDE DEF l
  <1> QED
      BY <1>4, <1>7, <1>8 DEF Where

\* A plan is saved with all of its units, whose dates become cohorts.
LEMMA PlannedIsWhole ==
    ASSUME NEW d, NEW s, Whole(d, s), NEW id \in Nat, IsNew(d, id),
           NEW q, IsSavePlan(q), HasExperiment(d, q.id), NEW time \in Nat,
           NEW e, e = Planned(d, id, q, time), Keyed(e),
           NEW t, s \subseteq t, [id |-> id, request |-> q] \in t
    PROVE  /\ Whole(e, t) /\ Grows(d, e) /\ OnlyNew(d, e, id)
           /\ e.links = d.links
           /\ AsSavedPlan(e, NewPlan(id, q, time), q)
           /\ \A i : StoredDates(e, i) =
                  StoredDates(d, i) \union
                    (IF i = q.id THEN {k.date : k \in CohortsOfUnits(q.id, q.units)} ELSE {})
  <1> DEFINE p == NewPlan(id, q, time)
             rows == UnitRows(id, q.units)
             dates == CohortsOfUnits(q.id, q.units)
             eid == q.id
  <1>0. /\ IsDatabase(d) /\ Linked(d) /\ AsSaved(d, s) /\ Keyed(d) /\ Identified(d)
        /\ d \in DatabaseType
      BY TypedTables DEF Whole
  <1>1. /\ IsDatabase(e)
        /\ e.experiments = d.experiments
        /\ e.links = LinkUnits(d.links, q.id, q.units)
        /\ e.cohorts = d.cohorts \union dates
        /\ e.plans = d.plans \union {p} /\ e.units = d.units \union rows
        /\ e.results = d.results /\ e.simulations = d.simulations
      BY <1>0, PlannedTables
  <1>2. /\ \A y \in d.plans : y.id # id
        /\ \A u \in d.units : u.plan # id
      BY <1>0, NothingOfTheNew
  <1>3. e.links = d.links
    <2>1. Len(q.units) \in Nat
        BY SavedPlan
    <2> QED
        BY <1>0, <1>1, <2>1, HasFirstLink, UnitsAddNoLinks
  <1>4. \A u \in rows : u.plan = id
      BY DEF UnitRows
  <1>5. \A k \in dates : k.experiment = eid
      BY DEF CohortsOfUnits
  <1>6. p.id = id /\ p.experiment = eid /\ p.count = Len(q.units) /\ p = NewPlan(id, q, time)
      BY DEF NewPlan
  <1>7. eid \in Nat
      BY <1>0, TypedTables DEF HasExperiment, ExperimentRow
  <1>8. p \in PlanRow /\ rows \subseteq UnitRow /\ dates \subseteq CohortRow
      BY <1>7, PlanTyped
  <1>9. {u.date : u \in rows} = {k.date : k \in dates}
      BY DatesOfUnits
  <1>10. HasExperiment(d, eid)
      OBVIOUS
  <1>11. rows = UnitRows(id, q.units)
      OBVIOUS
  <1> HIDE DEF p, rows, dates, eid
  <1>12. \A i : StoredDates(e, i) =
            StoredDates(d, i) \union (IF i = eid THEN {k.date : k \in dates} ELSE {})
    <2>1. \A i : Where(e.cohorts, "experiment", i) =
              Where(d.cohorts, "experiment", i) \union (IF i = eid THEN dates ELSE {})
        BY <1>1, <1>5 DEF Where
    <2> QED
        BY <2>1 DEF StoredDates
  <1>13. \A i : PlannedDates(e, i) =
            PlannedDates(d, i) \union (IF i = eid THEN {u.date : u \in rows} ELSE {})
    <2> SUFFICES ASSUME NEW i
                 PROVE  PlannedDates(e, i) =
                            PlannedDates(d, i) \union (IF i = eid THEN {u.date : u \in rows} ELSE {})
        OBVIOUS
    <2>1. {u \in e.units : \E y \in Where(e.plans, "experiment", i) : y.id = u.plan} =
              {u \in d.units : \E y \in Where(d.plans, "experiment", i) : y.id = u.plan}
                \union (IF i = eid THEN rows ELSE {})
        BY <1>1, <1>2, <1>4, <1>6 DEF Where
    <2> QED
        BY <2>1 DEF PlannedDates
  <1>14. Grows(d, e)
    <2>1. \A y \in d.experiments :
              StoredDates(e, y.id) = StoredDates(d, y.id) \union PlannedDates(e, y.id)
      <3> SUFFICES ASSUME NEW y \in d.experiments
                   PROVE  StoredDates(e, y.id) = StoredDates(d, y.id) \union PlannedDates(e, y.id)
          OBVIOUS
      <3>1. PlannedDates(d, y.id) \subseteq StoredDates(d, y.id)
          BY <1>0, PlannedAreStored
      <3>2. StoredDates(e, y.id) =
                StoredDates(d, y.id) \union (IF y.id = eid THEN {k.date : k \in dates} ELSE {})
          BY <1>12
      <3>3. PlannedDates(e, y.id) =
                PlannedDates(d, y.id) \union (IF y.id = eid THEN {k.date : k \in dates} ELSE {})
          BY <1>9, <1>13
      <3> QED
          BY <3>1, <3>2, <3>3
    <2>2. \A y \in d.experiments : SameExperiment(y, y)
        BY DEF SameExperiment
    <2>3. \A y \in d.plans : SamePlan(y, y)
        BY DEF SamePlan
    <2>4. \A y \in d.plans : Where(e.units, "plan", y.id) = Where(d.units, "plan", y.id)
        BY <1>1, <1>2, <1>4 DEF Where
    <2> QED
        BY <1>1, <1>3, <2>1, <2>2, <2>3, <2>4 DEF Grows
  <1>15. AsSavedPlan(e, p, q) /\ q \in SavesOf(t, p.id, "save plan")
    <2>1. Where(e.units, "plan", id) = rows
        BY <1>1, <1>2, <1>4 DEF Where
    <2>2. q.kind = "save plan"
        BY DEF IsSavePlan
    <2>3. q \in SavesOf(t, id, "save plan")
        BY <2>2, SaveIsKnown
    <2> QED
        BY <1>6, <1>11, <2>1, <2>3 DEF AsSavedPlan, eid
  <1>16. AsSaved(e, t)
    <2>1. /\ \A y \in d.experiments : SameExperiment(y, y)
          /\ \A y \in d.plans : SamePlan(y, y)
        BY DEF SameExperiment, SamePlan
    <2>2. \A y \in d.plans : \E r \in SavesOf(t, y.id, "save plan") : AsSavedPlan(e, y, r)
        BY <1>0, <1>1, <1>14, <2>1, RowsAsBefore
    <2>3. /\ \A y \in e.experiments :
                \E r \in SavesOf(t, y.id, "save experiment") : AsSavedExperiment(e, y, r)
          /\ \A y \in e.results : \E r \in SavesOf(t, y.id, "save result") : AsSavedResult(e, y, r)
        BY <1>0, <1>1, <1>14, <2>1, RowsAsBefore
    <2> QED
        BY <1>1, <1>15, <2>2, <2>3 DEF AsSaved
  <1>17. Linked(e)
    <2>1. \A i : HasId(d, i) => HasId(e, i)
        BY <1>1 DEF HasId
    <2>2. HasId(e, id) /\ HasExperiment(e, eid)
        BY <1>1, <1>6, <1>10 DEF HasId, HasExperiment
    <2> QED
        BY <1>0, <1>1, <1>3, <1>4, <1>5, <1>6, <2>1, <2>2 DEF Linked, HasExperiment, HasRecord
  <1>18. Identified(e)
      BY <1>0, <1>1 DEF Identified
  <1>19. e \in DatabaseType
      BY <1>0, <1>1, <1>3, <1>8, TypedTables, TablesTyped
  <1>20. OnlyNew(d, e, id)
      BY <1>1, <1>6 DEF OnlyNew, IsNew, HasExperiment, HasId, HasRecord
  <1> QED
      BY <1>3, <1>6, <1>12, <1>14, <1>15, <1>16, <1>17, <1>18, <1>19, <1>20 DEF Whole, dates, eid

\* Tables with marks: nothing else differs.
LEMMA MarkedIsWhole ==
    ASSUME NEW d, NEW s, Whole(d, s), NEW e, Marks(d, e), Keyed(e), e.links = d.links,
           e.experiments \subseteq ExperimentRow, e.plans \subseteq PlanRow,
           NEW t, s \subseteq t
    PROVE  Whole(e, t) /\ Grows(d, e) /\ \A i : IsNew(d, i) => IsNew(e, i)
  <1>0. /\ IsDatabase(d) /\ Linked(d) /\ AsSaved(d, s) /\ Keyed(d) /\ Identified(d)
        /\ d \in DatabaseType
      BY TypedTables DEF Whole
  <1>1. /\ IsDatabase(e) /\ e.links = d.links /\ e.cohorts = d.cohorts /\ e.units = d.units
        /\ e.results = d.results /\ e.simulations = d.simulations
        /\ \A x \in d.experiments : \E y \in e.experiments : SameExperiment(x, y)
        /\ \A y \in e.experiments : \E x \in d.experiments : SameExperiment(x, y)
        /\ \A p \in d.plans : \E q \in e.plans : SamePlan(p, q)
        /\ \A q \in e.plans : \E p \in d.plans : SamePlan(p, q)
        /\ \A x, y \in e.experiments : x.identity = y.identity => x = y
      BY DEF Marks
  <1>2. \A i : /\ HasExperiment(d, i) <=> HasExperiment(e, i)
               /\ HasId(d, i) <=> HasId(e, i)
               /\ HasRecord(d, i) <=> HasRecord(e, i)
      BY <1>1 DEF HasExperiment, HasId, HasRecord, SameExperiment, SamePlan
  <1>3. \A i : PlannedDates(e, i) = PlannedDates(d, i) /\ StoredDates(e, i) = StoredDates(d, i)
    <2>1. ASSUME NEW i, NEW u \in d.units
          PROVE  (\E p \in Where(e.plans, "experiment", i) : p.id = u.plan) <=>
                 (\E p \in Where(d.plans, "experiment", i) : p.id = u.plan)
        BY <1>1 DEF Where, SamePlan
    <2> QED
        BY <1>1, <2>1 DEF PlannedDates, StoredDates
  <1>4. Grows(d, e)
      BY <1>0, <1>1, <1>3, PlannedAreStored DEF Grows
  <1>5. AsSaved(e, t)
      BY <1>0, <1>1, <1>4, RowsAsBefore DEF AsSaved
  <1>6. Linked(e)
    <2>1. \A q \in e.plans : \E p \in d.plans : q.experiment = p.experiment
        BY <1>1 DEF SamePlan
    <2> QED
        BY <1>0, <1>1, <1>2, <2>1 DEF Linked
  <1>7. Identified(e)
    <2>1. ASSUME NEW a \in e.experiments, NEW b \in e.experiments, a.id = b.id PROVE a = b
      <3>1. PICK x \in d.experiments : SameExperiment(x, a)
          BY <1>1
      <3>2. PICK y \in d.experiments : SameExperiment(y, b)
          BY <1>1
      <3>3. x = y
          BY <1>0, <2>1, <3>1, <3>2 DEF Identified, SameExperiment
      <3> QED
          BY <1>1, <3>1, <3>2, <3>3 DEF SameExperiment
    <2> QED
        BY <1>0, <1>1, <2>1 DEF Identified
  <1>8. e \in DatabaseType
      BY <1>0, <1>1, TypedTables, TablesTyped
  <1> QED
      BY <1>2, <1>4, <1>5, <1>6, <1>7, <1>8 DEF Whole, IsNew

\* Experiments and plans of which some are marked.
ExperimentMarked(x, y) == IsExperiment(y) /\ SameExperiment(x, y) /\ (x \in ExperimentRow => y \in ExperimentRow)
PlanMarked(p, q) == IsPlan(q) /\ SamePlan(p, q) /\ (p \in PlanRow => q \in PlanRow)

\* An experiment but for its mark of deletion is a marked one, and of its type.
LEMMA ExperimentMark ==
    ASSUME NEW x, IsExperiment(x), NEW b \in BOOLEAN
    PROVE  ExperimentMarked(x, [x EXCEPT !.deleted = b]) /\ ExperimentMarked(x, x)
  <1>1. [x EXCEPT !.deleted = b] =
            [id |-> x.id, identity |-> x.identity, config |-> x.config, deleted |-> b]
      BY DEF IsExperiment
  <1>2. x \in ExperimentRow => [x EXCEPT !.deleted = b] \in ExperimentRow
      BY DEF ExperimentRow
  <1> QED
      BY <1>1, <1>2 DEF ExperimentMarked, IsExperiment, SameExperiment

\* A plan but for one of its marks is a marked one, and of its type.
LEMMA PlanMark ==
    ASSUME NEW p, IsPlan(p)
    PROVE  /\ PlanMarked(p, [p EXCEPT !.deleted = TRUE])
           /\ PlanMarked(p, [p EXCEPT !.completed = TRUE])
           /\ PlanMarked(p, p)
  <1>1. /\ p \in PlanRow => [p EXCEPT !.deleted = TRUE] \in PlanRow
        /\ p \in PlanRow => [p EXCEPT !.completed = TRUE] \in PlanRow
      BY DEF PlanRow
  <1>2. IsPlan(p) /\ SamePlan(p, p)
      BY DEF SamePlan
  <1> QED
      BY <1>1, <1>2, DeletedPlan, CompletedPlan DEF PlanMarked

\* A function that marks rows of the experiments, one that marks plans: the tables
\* with the marks.
LEMMA MarkedByFunctions ==
    ASSUME NEW d, Keyed(d), NEW f, NEW g, NEW e, IsDatabase(e),
           e.experiments = {f[x] : x \in d.experiments}, e.plans = {g[p] : p \in d.plans},
           e.links = d.links, e.cohorts = d.cohorts, e.units = d.units,
           e.results = d.results, e.simulations = d.simulations,
           \A x \in d.experiments : ExperimentMarked(x, f[x]),
           \A p \in d.plans : PlanMarked(p, g[p])
    PROVE  /\ Marks(d, e)
           /\ d.experiments \subseteq ExperimentRow => e.experiments \subseteq ExperimentRow
           /\ d.plans \subseteq PlanRow => e.plans \subseteq PlanRow
  <1> USE DEF ExperimentMarked, PlanMarked
  <1>1. \A x, y \in d.experiments : f[x].identity = f[y].identity => x = y
      BY DEF Keyed, SameExperiment
  <1>2. \A p, q \in d.plans : g[p].id = g[q].id => p = q
      BY DEF Keyed, SamePlan
  <1>3. /\ \A x, y \in e.experiments : x.identity = y.identity => x = y
        /\ \A p, q \in e.plans : p.id = q.id => p = q
      BY <1>1, <1>2
  <1>4. /\ \A x \in d.experiments : \E y \in e.experiments : SameExperiment(x, y)
        /\ \A y \in e.experiments : IsExperiment(y) /\ \E x \in d.experiments : SameExperiment(x, y)
        /\ \A p \in d.plans : \E q \in e.plans : SamePlan(p, q)
        /\ \A q \in e.plans : IsPlan(q) /\ \E p \in d.plans : SamePlan(p, q)
      OBVIOUS
  <1>5. Marks(d, e)
      BY <1>3, <1>4 DEF Marks
  <1> QED
      BY <1>5

\* Restoring an experiment marks rows and leaves everything else.
LEMMA UndeletedIsMarked ==
    ASSUME NEW d, Keyed(d), NEW id, NEW e, e = Undeleted(d, id)
    PROVE  /\ Marks(d, e) /\ e.links = d.links
           /\ d.experiments \subseteq ExperimentRow => e.experiments \subseteq ExperimentRow
           /\ d.plans \subseteq PlanRow => e.plans \subseteq PlanRow
           /\ \A x \in d.experiments :
                 (IF x.id = id THEN [x EXCEPT !.deleted = FALSE] ELSE x) \in e.experiments
           /\ e.plans = d.plans
           /\ \A y \in e.experiments : \E x \in d.experiments :
                 y = IF x.id = id THEN [x EXCEPT !.deleted = FALSE] ELSE x
  <1> DEFINE f == [x \in d.experiments |-> IF x.id = id THEN [x EXCEPT !.deleted = FALSE] ELSE x]
             g == [p \in d.plans |-> p]
  <1>1. IsDatabase(d)
      BY DEF Keyed
  <1>2. /\ IsDatabase(e)
        /\ e.experiments = {IF x.id = id THEN [x EXCEPT !.deleted = FALSE] ELSE x : x \in d.experiments}
        /\ e.plans = d.plans
        /\ e.links = d.links /\ e.cohorts = d.cohorts /\ e.units = d.units
        /\ e.results = d.results /\ e.simulations = d.simulations
      BY <1>1 DEF Undeleted, IsDatabase, Tables
  <1>3. e.experiments = {f[x] : x \in d.experiments} /\ e.plans = {g[p] : p \in d.plans}
      BY <1>2
  <1>4. \A x \in d.experiments : ExperimentMarked(x, f[x])
      BY ExperimentMark DEF Keyed
  <1>5. \A p \in d.plans : PlanMarked(p, g[p])
      BY PlanMark DEF Keyed
  <1>6. /\ \A x \in d.experiments :
              (IF x.id = id THEN [x EXCEPT !.deleted = FALSE] ELSE x) \in e.experiments
        /\ \A y \in e.experiments : \E x \in d.experiments :
              y = IF x.id = id THEN [x EXCEPT !.deleted = FALSE] ELSE x
      BY <1>2
  <1> HIDE DEF f, g
  <1> QED
      BY <1>2, <1>3, <1>4, <1>5, <1>6, MarkedByFunctions

\* Deleting an experiment marks it and its plans and leaves everything else.
LEMMA DeletedIsMarked ==
    ASSUME NEW d, Keyed(d), NEW id, NEW e, e = Deleted(d, id)
    PROVE  /\ Marks(d, e) /\ e.links = d.links
           /\ d.experiments \subseteq ExperimentRow => e.experiments \subseteq ExperimentRow
           /\ d.plans \subseteq PlanRow => e.plans \subseteq PlanRow
           /\ e.experiments = MarkDeleted(d.experiments, "id", id)
           /\ e.plans = MarkDeleted(d.plans, "experiment", id)
  <1> DEFINE f == [x \in d.experiments |-> IF x.id = id THEN [x EXCEPT !.deleted = TRUE] ELSE x]
             g == [p \in d.plans |-> IF p.experiment = id THEN [p EXCEPT !.deleted = TRUE] ELSE p]
  <1>1. IsDatabase(d)
      BY DEF Keyed
  <1>2. /\ IsDatabase(e)
        /\ e.experiments = MarkDeleted(d.experiments, "id", id)
        /\ e.plans = MarkDeleted(d.plans, "experiment", id)
        /\ e.links = d.links /\ e.cohorts = d.cohorts /\ e.units = d.units
        /\ e.results = d.results /\ e.simulations = d.simulations
      BY <1>1 DEF Deleted, IsDatabase, Tables
  <1>3. e.experiments = {f[x] : x \in d.experiments} /\ e.plans = {g[p] : p \in d.plans}
      BY <1>2 DEF MarkDeleted
  <1>4. \A x \in d.experiments : ExperimentMarked(x, f[x])
      BY ExperimentMark DEF Keyed
  <1>5. \A p \in d.plans : PlanMarked(p, g[p])
      BY PlanMark DEF Keyed
  <1> HIDE DEF f, g
  <1> QED
      BY <1>2, <1>3, <1>4, <1>5, MarkedByFunctions

\* Completing a plan marks it and leaves everything else.
LEMMA CompletingIsMarked ==
    ASSUME NEW d, Keyed(d), NEW q, NEW e, e = Completing(d, q)
    PROVE  /\ Marks(d, e) /\ e.links = d.links /\ e.experiments = d.experiments
           /\ d.plans \subseteq PlanRow => e.plans \subseteq PlanRow
  <1> DEFINE f == [x \in d.experiments |-> x]
             g == [p \in d.plans |-> IF p.id = q.id THEN [p EXCEPT !.completed = TRUE] ELSE p]
  <1>1. IsDatabase(d)
      BY DEF Keyed
  <1>2. /\ IsDatabase(e) /\ e.experiments = d.experiments
        /\ e.plans = {IF p.id = q.id THEN [p EXCEPT !.completed = TRUE] ELSE p : p \in d.plans}
        /\ e.links = d.links /\ e.cohorts = d.cohorts /\ e.units = d.units
        /\ e.results = d.results /\ e.simulations = d.simulations
      BY <1>1 DEF Completing, IsDatabase, Tables
  <1>3. e.experiments = {f[x] : x \in d.experiments} /\ e.plans = {g[p] : p \in d.plans}
      BY <1>2
  <1>4. \A x \in d.experiments : ExperimentMarked(x, f[x])
      BY ExperimentMark DEF Keyed
  <1>5. \A p \in d.plans : PlanMarked(p, g[p])
      BY PlanMark DEF Keyed
  <1> HIDE DEF f, g
  <1> QED
      BY <1>2, <1>3, <1>4, <1>5, MarkedByFunctions

\* The tables after save_execution_result, one by one.
LEMMA RecordedTables ==
    ASSUME NEW d, IsDatabase(d), NEW id, NEW q
    PROVE  LET e == Recorded(d, id, q)
           IN  /\ IsDatabase(e)
               /\ e.experiments = Completing(d, q).experiments
               /\ e.links = Completing(d, q).links
               /\ e.cohorts = Completing(d, q).cohorts
               /\ e.plans = Completing(d, q).plans
               /\ e.units = Completing(d, q).units
               /\ e.results = Completing(d, q).results \union {NewResult(id, q)}
               /\ e.simulations = Completing(d, q).simulations \union SimulationRows(id, q.simulations)
  BY DEF Recorded, Completing, IsDatabase, Tables

\* Growing goes on.
LEMMA GrowsOn ==
    ASSUME NEW a, NEW b, NEW d, Grows(a, b), Grows(b, d)
    PROVE  Grows(a, d)
  <1>1. ASSUME NEW x \in a.experiments
        PROVE  /\ \E z \in d.experiments : SameExperiment(x, z)
               /\ Where(d.links, "experiment", x.id) = Where(a.links, "experiment", x.id)
               /\ StoredDates(d, x.id) = StoredDates(a, x.id) \union PlannedDates(d, x.id)
    <2>1. PICK y \in b.experiments : SameExperiment(x, y)
        BY DEF Grows
    <2>2. y.id = x.id
        BY <2>1 DEF SameExperiment
    <2>3. PICK z \in d.experiments : SameExperiment(y, z)
        BY DEF Grows
    <2>4. SameExperiment(x, z)
        BY <2>1, <2>3 DEF SameExperiment
    <2>5. PlannedDates(b, x.id) \subseteq PlannedDates(d, x.id)
        BY PlannedDatesGrow DEF Grows
    <2>6. /\ StoredDates(d, x.id) = StoredDates(b, x.id) \union PlannedDates(d, x.id)
          /\ Where(d.links, "experiment", x.id) = Where(b.links, "experiment", x.id)
        BY <2>2 DEF Grows
    <2>7. /\ StoredDates(b, x.id) = StoredDates(a, x.id) \union PlannedDates(b, x.id)
          /\ Where(b.links, "experiment", x.id) = Where(a.links, "experiment", x.id)
        BY DEF Grows
    <2> QED
        BY <2>4, <2>5, <2>6, <2>7
  <1>2. ASSUME NEW p \in a.plans
        PROVE  /\ \E r \in d.plans : SamePlan(p, r)
               /\ Where(d.units, "plan", p.id) = Where(a.units, "plan", p.id)
    <2>1. PICK q \in b.plans : SamePlan(p, q)
        BY DEF Grows
    <2>2. q.id = p.id
        BY <2>1 DEF SamePlan
    <2>3. PICK r \in d.plans : SamePlan(q, r)
        BY DEF Grows
    <2>4. SamePlan(p, r)
        BY <2>1, <2>3 DEF SamePlan
    <2> QED
        BY <2>2, <2>4 DEF Grows
  <1>3. \A r \in a.results :
            Where(d.simulations, "result", r.id) = Where(a.simulations, "result", r.id)
      BY DEF Grows
  <1>4. /\ a.links \subseteq d.links /\ a.cohorts \subseteq d.cohorts /\ a.units \subseteq d.units
        /\ a.results \subseteq d.results /\ a.simulations \subseteq d.simulations
      BY DEF Grows
  <1> QED
      BY <1>1, <1>2, <1>3, <1>4 DEF Grows

\* A result comes with the rows of all of its simulations.
LEMMA ResultIsWhole ==
    ASSUME NEW d, NEW s, Whole(d, s), NEW id \in Nat, IsNew(d, id),
           NEW q, IsSaveResult(q), HasId(d, q.id),
           NEW e, IsDatabase(e), Keyed(e),
           e.experiments = d.experiments, e.links = d.links, e.cohorts = d.cohorts,
           e.plans = d.plans, e.units = d.units,
           e.results = d.results \union {NewResult(id, q)},
           e.simulations = d.simulations \union SimulationRows(id, q.simulations),
           NEW t, s \subseteq t, [id |-> id, request |-> q] \in t
    PROVE  /\ Whole(e, t) /\ Grows(d, e) /\ OnlyNew(d, e, id)
           /\ AsSavedResult(e, NewResult(id, q), q)
  <1> DEFINE r == NewResult(id, q)
             rows == SimulationRows(id, q.simulations)
  <1>0. /\ IsDatabase(d) /\ Linked(d) /\ AsSaved(d, s) /\ Keyed(d) /\ Identified(d)
        /\ d \in DatabaseType
      BY TypedTables DEF Whole
  <1>1. e.results = d.results \union {r} /\ e.simulations = d.simulations \union rows
      OBVIOUS
  <1>2. /\ \A y \in d.results : y.id # id
        /\ \A m \in d.simulations : m.result # id
      BY <1>0, NothingOfTheNew
  <1>3. \A m \in rows : m.result = id
      BY DEF SimulationRows
  <1>4. /\ r.id = id /\ r.plan = q.id /\ r.total = Len(q.simulations)
        /\ r.successes = Cardinality({k \in DOMAIN q.simulations : q.simulations[k].success})
        /\ r = NewResult(id, q)
      BY DEF NewResult
  <1>5. q.id \in Nat
      BY <1>0, TypedTables DEF HasId, PlanRow
  <1>6. r \in ResultRow /\ rows \subseteq SimulationRow
      BY <1>5, ResultTyped
  <1>7. rows = SimulationRows(id, q.simulations)
      OBVIOUS
  <1> HIDE DEF r, rows
  <1>8. \A i : PlannedDates(e, i) = PlannedDates(d, i) /\ StoredDates(e, i) = StoredDates(d, i)
      BY DEF PlannedDates, StoredDates
  <1>9. Grows(d, e)
    <2>1. /\ \A y \in d.experiments : SameExperiment(y, y)
          /\ \A y \in d.plans : SamePlan(y, y)
        BY DEF SameExperiment, SamePlan
    <2>2. \A y \in d.results :
              Where(e.simulations, "result", y.id) = Where(d.simulations, "result", y.id)
        BY <1>1, <1>2, <1>3 DEF Where
    <2>3. \A y \in d.experiments :
              StoredDates(e, y.id) = StoredDates(d, y.id) \union PlannedDates(e, y.id)
        BY <1>0, <1>8, PlannedAreStored
    <2> QED
        BY <1>1, <2>1, <2>2, <2>3 DEF Grows
  <1>10. AsSavedResult(e, r, q) /\ q \in SavesOf(t, r.id, "save result")
    <2>1. Where(e.simulations, "result", id) = rows
        BY <1>1, <1>2, <1>3 DEF Where
    <2>2. q.kind = "save result"
        BY DEF IsSaveResult
    <2>3. q \in SavesOf(t, id, "save result")
        BY <2>2, SaveIsKnown
    <2> QED
        BY <1>4, <1>7, <2>1, <2>3 DEF AsSavedResult
  <1>11. AsSaved(e, t)
    <2>1. /\ \A y \in d.experiments : SameExperiment(y, y)
          /\ \A y \in d.plans : SamePlan(y, y)
        BY DEF SameExperiment, SamePlan
    <2>2. \A y \in d.results :
              \E z \in SavesOf(t, y.id, "save result") : AsSavedResult(e, y, z)
        BY <1>0, <1>9, RowsAsBefore
    <2>3. /\ \A y \in e.experiments :
                \E z \in SavesOf(t, y.id, "save experiment") : AsSavedExperiment(e, y, z)
          /\ \A y \in e.plans : \E z \in SavesOf(t, y.id, "save plan") : AsSavedPlan(e, y, z)
        BY <1>0, <1>9, <2>1, RowsAsBefore
    <2> QED
        BY <1>1, <1>10, <2>2, <2>3 DEF AsSaved
  <1>12. Linked(e)
    <2>1. \A i : HasRecord(d, i) => HasRecord(e, i)
        BY <1>1 DEF HasRecord
    <2>2. HasRecord(e, id)
        BY <1>1, <1>4 DEF HasRecord
    <2> QED
        BY <1>0, <1>1, <1>3, <2>1, <2>2 DEF Linked, HasExperiment, HasId
  <1>13. Identified(e)
      BY <1>0, <1>1, <1>2, <1>4 DEF Identified
  <1>14. e \in DatabaseType
      BY <1>0, <1>1, <1>6, TypedTables, TablesTyped
  <1>15. OnlyNew(d, e, id)
      BY <1>1, <1>4 DEF OnlyNew, IsNew, HasExperiment, HasId, HasRecord
  <1> QED
      BY <1>4, <1>9, <1>10, <1>11, <1>12, <1>13, <1>14, <1>15 DEF Whole

\* A result stored with its simulations leaves the tables whole.
LEMMA RecordedIsWhole ==
    ASSUME NEW d, NEW s, Whole(d, s), NEW id \in Nat, IsNew(d, id),
           NEW q, IsSaveResult(q), HasId(d, q.id), NEW e, e = Recorded(d, id, q), Keyed(e),
           NEW t, s \subseteq t, [id |-> id, request |-> q] \in t
    PROVE  /\ Whole(e, t) /\ Grows(d, e) /\ OnlyNew(d, e, id)
           /\ AsSavedResult(e, NewResult(id, q), q)
  <1> DEFINE m == Completing(d, q)
  <1>1. Keyed(d) /\ IsDatabase(d) /\ d \in DatabaseType
      BY DEF Whole, Keyed
  <1>2. /\ Marks(d, m) /\ m.links = d.links
        /\ m.experiments \subseteq ExperimentRow /\ m.plans \subseteq PlanRow
      BY <1>1, CompletingIsMarked, TypedTables
  <1>3. /\ IsDatabase(e)
        /\ e.experiments = m.experiments /\ e.links = m.links /\ e.cohorts = m.cohorts
        /\ e.plans = m.plans /\ e.units = m.units
        /\ e.results = m.results \union {NewResult(id, q)}
        /\ e.simulations = m.simulations \union SimulationRows(id, q.simulations)
      BY <1>1, RecordedTables
  <1> HIDE DEF m
  <1>4. Keyed(m)
      BY <1>1, <1>2, MarkedTables
  <1>5. Whole(m, s) /\ Grows(d, m) /\ \A i : IsNew(d, i) => IsNew(m, i)
      BY <1>2, <1>4, MarkedIsWhole
  <1>6. HasId(m, q.id)
      BY <1>5 DEF HasId, Grows, SamePlan
  <1>7. /\ Whole(e, t) /\ Grows(m, e) /\ OnlyNew(m, e, id)
        /\ AsSavedResult(e, NewResult(id, q), q)
      BY <1>3, <1>5, <1>6, ResultIsWhole
  <1>8. Grows(d, e)
      BY <1>5, <1>7, GrowsOn
  <1> QED
      BY <1>5, <1>7, <1>8 DEF OnlyNew

----------------------------------------------------------------------------
(* Kinds of steps.                                                         *)

\* A client that does nothing is where it was, unless its transaction changes.
LEMMA OthersStay ==
    ASSUME ContentInv, NEW d \in Clients,
           db' = db, version' = version, draft' = draft \/ pc[d] \notin Holding,
           pc'[d] = pc[d], request'[d] = request[d], target'[d] = target[d]
    PROVE  ClientInv(d)'
  <1>1. ClientInv(d)
      BY DEF ContentInv
  <1>2. Asked(d)' /\ Placed(d)'
      BY <1>1 DEF ClientInv, Asked, Placed
  <1>3. Aimed(d)'
      BY <1>1 DEF ClientInv, Aimed
  <1>4. Staged(d)'
    <2>1. CASE pc[d] \notin Holding
        BY <2>1 DEF Staged, Holding
    <2>2. CASE draft' = draft
      <3>1. Operates(d, draft) => Operates(d, draft)'
          BY <2>2 DEF Operates, Publishes, Restores, Withdraws, AddsPlan, Records
      <3> QED
          BY <1>1, <2>2, <3>1 DEF ClientInv, Staged
    <2> QED
        BY <2>1, <2>2
  <1> QED
      BY <1>2, <1>3, <1>4 DEF ClientInv

\* A client that has nothing to do with identifiers it may use.
LEMMA OwnsLess ==
    ASSUME ContentInv, NEW issued2, \A i \in 1 .. issued : i \in 1 .. issued2,
           issued' = issued2,
           db' = db, \A c \in Clients : Owns(c)' => Owns(c) /\ target'[c] = target[c]
    PROVE  Numbered'
  <1>1. Numbered
      BY DEF ContentInv
  <1>2. \A c, d \in Clients : c # d /\ Owns(c)' /\ Owns(d)' => target'[c] # target'[d]
      BY <1>1 DEF Numbered
  <1>3. /\ \A e \in db'.experiments : e.id \in 1 .. issued'
        /\ \A p \in db'.plans : p.id \in 1 .. issued'
        /\ \A r \in db'.results : r.id \in 1 .. issued'
      BY <1>1 DEF Numbered
  <1> QED
      BY <1>2, <1>3 DEF Numbered

\* A step of a client between transactions that leaves identifiers alone, or that
\* gives its own up.
LEMMA QuietContent ==
    ASSUME IInv, ContentInv, NEW c \in Clients, NEW s,
           UNCHANGED <<db, version, saved, issued>>,
           draft' = draft \/ writer \in {NoClient, c},
           pc' = [pc EXCEPT ![c] = s],
           request' = request \/ \E r : request' = [request EXCEPT ![c] = r],
           target' = target \/ \E t : target' = [target EXCEPT ![c] = t],
           Owns(c)' => Owns(c) /\ target'[c] = target[c],
           ClientInv(c)'
    PROVE  ContentInv'
  <1>1. pc'[c] = s /\ \A d \in Clients : d # c =>
            pc'[d] = pc[d] /\ request'[d] = request[d] /\ target'[d] = target[d]
      BY DEF IInv, ControlInv
  <1>2. draft' = draft \/ \A d \in Clients : d # c => pc[d] \notin Holding
      BY NamesAssumption DEF IInv, ControlInv
  <1>3. \A d \in Clients : ClientInv(d)'
      BY <1>1, <1>2, OthersStay
  <1>4. \A d \in Clients : Owns(d)' => Owns(d) /\ target'[d] = target[d]
      BY <1>1 DEF Owns
  <1>5. Numbered'
      BY <1>4, OwnsLess
  <1>6. Whole(db, saved)' /\ Dated(db, version)'
    <2>1. Whole(db, saved) /\ Dated(db, version)
        BY DEF ContentInv
    <2>2. Whole(db', saved') /\ Dated(db', version')
        BY <2>1
    <2> QED
        BY <2>2
  <1> QED
      BY <1>3, <1>5, <1>6 DEF ContentInv

\* An identifier that was generated is new.
LEMMA GeneratingContent ==
    ASSUME IInv, ContentInv, NEW c \in Clients, NEW s \in NewSteps,
           UNCHANGED <<db, draft, version, saved, request>>, Generate(c),
           pc' = [pc EXCEPT ![c] = s], s \notin Holding, Placed(c)'
    PROVE  ContentInv'
  <1>0. issued \in Nat /\ issued' = issued + 1
      BY DEF IInv, IdsInv, Generate
  <1>1. /\ pc'[c] = s /\ target'[c] = issued + 1
        /\ \A d \in Clients : d # c => pc'[d] = pc[d] /\ target'[d] = target[d]
      BY DEF IInv, ControlInv, Generate
  <1>2. \A i \in 0 .. issued : i # issued + 1
      BY <1>0
  <1>3. IsNew(db, issued + 1) /\ issued + 1 # 0
    <2>1. \A i \in 1 .. issued : i # issued + 1
        BY <1>0
    <2> QED
        BY <1>0, <2>1 DEF ContentInv, Numbered, IsNew, HasExperiment, HasId, HasRecord
  <1>4. ClientInv(c)'
    <2>1. Asked(c)'
        BY DEF ContentInv, ClientInv, Asked
    <2>2. Aimed(c)'
        BY <1>1, <1>3 DEF Aimed, NewSteps, Holding
    <2>3. Staged(c)'
        BY <1>1 DEF Staged, Holding
    <2> QED
        BY <2>1, <2>2, <2>3 DEF ClientInv
  <1>5. \A d \in Clients : ClientInv(d)'
      BY <1>1, <1>4, OthersStay
  <1>6. Numbered'
    <2>1. \A d \in Clients : d # c => (Owns(d)' => Owns(d) /\ target'[d] # target'[c])
      <3>1. \A d \in Clients : target[d] \in 0 .. issued
          BY DEF IInv, IdsInv
      <3> QED
          BY <1>1, <1>2, <3>1 DEF Owns
    <2>2. \A a, b \in Clients : a # b /\ Owns(a)' /\ Owns(b)' => target'[a] # target'[b]
        BY <1>1, <2>1 DEF ContentInv, Numbered
    <2>3. \A i \in 1 .. issued : i \in 1 .. issued'
        BY <1>0
    <2>4. /\ \A e \in db'.experiments : e.id \in 1 .. issued'
          /\ \A p \in db'.plans : p.id \in 1 .. issued'
          /\ \A r \in db'.results : r.id \in 1 .. issued'
        BY <2>3 DEF ContentInv, Numbered
    <2> QED
        BY <2>2, <2>4 DEF Numbered
  <1>7. Whole(db, saved)' /\ Dated(db, version)'
    <2>1. Whole(db', saved') /\ Dated(db', version')
        BY DEF ContentInv
    <2> QED
        BY <2>1
  <1> QED
      BY <1>5, <1>6, <1>7 DEF ContentInv

----------------------------------------------------------------------------
(* Commits.                                                                *)

\* What a transaction has made of the tables is whole, and comes after them.
LEMMA OperationIsWhole ==
    ASSUME IInv, ContentInv, NEW c \in Clients, NEW e, Operates(c, e), Keyed(e),
           NEW t, saved \subseteq t, [id |-> target[c], request |-> request[c]] \in t
    PROVE  /\ Whole(e, t) /\ Grows(db, e)
           /\ \A i : IsNew(db, i) /\ (IsNew(db, target[c]) => i # target[c]) => IsNew(e, i)
           /\ IsNew(db, target[c]) => target[c] # 0 \/ \A i : IsNew(db, i) => IsNew(e, i)
           /\ Dated(e, version)
  <1>1. /\ Whole(db, saved) /\ Keyed(db) /\ db \in DatabaseType /\ version \in Nat
        /\ Dated(db, version)
      BY DEF ContentInv, Whole
  <1>2. target[c] \in Nat
      BY DEF IInv, IdsInv
  <1>3. Asked(c)
      BY DEF ContentInv, ClientInv
  <1>4. CASE Publishes(c, e)
    <2>1. /\ IsNew(db, target[c]) /\ target[c] # 0 /\ IsSaveExperiment(request[c])
          /\ e = Published(db, target[c], request[c])
        BY <1>3, <1>4 DEF Publishes, Asked
    <2>2. Whole(e, t) /\ Grows(db, e) /\ OnlyNew(db, e, target[c])
        BY <1>1, <1>2, <2>1, PublishedIsWhole
    <2>3. e.plans = db.plans
        BY <1>1, <2>1, PublishedTables DEF Keyed
    <2> QED
        BY <1>1, <2>1, <2>2, <2>3 DEF OnlyNew, Dated
  <1>5. CASE Restores(c, e)
    <2>1. e = Undeleted(db, target[c])
        BY <1>5 DEF Restores
    <2>2. /\ Marks(db, e) /\ e.links = db.links /\ e.plans = db.plans
          /\ e.experiments \subseteq ExperimentRow /\ e.plans \subseteq PlanRow
        BY <1>1, <2>1, UndeletedIsMarked, TypedTables
    <2>3. Whole(e, t) /\ Grows(db, e) /\ \A i : IsNew(db, i) => IsNew(e, i)
        BY <1>1, <2>2, MarkedIsWhole
    <2> QED
        BY <1>1, <2>2, <2>3 DEF Dated
  <1>6. CASE Withdraws(c, e)
    <2>1. e = Deleted(db, target[c])
        BY <1>6 DEF Withdraws
    <2>2. /\ Marks(db, e) /\ e.links = db.links
          /\ e.experiments \subseteq ExperimentRow /\ e.plans \subseteq PlanRow
        BY <1>1, <2>1, DeletedIsMarked, TypedTables
    <2>3. Whole(e, t) /\ Grows(db, e) /\ \A i : IsNew(db, i) => IsNew(e, i)
        BY <1>1, <2>2, MarkedIsWhole
    <2>4. \A q \in e.plans : \E p \in db.plans : q.created = p.created
        BY <2>2 DEF Marks, SamePlan
    <2> QED
        BY <1>1, <2>3, <2>4 DEF Dated
  <1>7. CASE AddsPlan(c, e)
    <2>1. /\ IsNew(db, target[c]) /\ target[c] # 0 /\ IsSavePlan(request[c])
          /\ HasExperiment(db, request[c].id)
          /\ e = Planned(db, target[c], request[c], version)
        BY <1>3, <1>7 DEF AddsPlan, Asked
    <2>2. Whole(e, t) /\ Grows(db, e) /\ OnlyNew(db, e, target[c])
        BY <1>1, <1>2, <2>1, PlannedIsWhole
    <2>3. e.plans = db.plans \union {NewPlan(target[c], request[c], version)}
        BY <1>1, <2>1, PlannedTables DEF Keyed
    <2>4. NewPlan(target[c], request[c], version).created = version /\ version <= version
        BY <1>1 DEF NewPlan
    <2>5. Dated(e, version)
        BY <1>1, <2>3, <2>4 DEF Dated
    <2> QED
        BY <2>1, <2>2, <2>5 DEF OnlyNew
  <1>8. CASE Records(c, e)
    <2>1. /\ IsNew(db, target[c]) /\ target[c] # 0 /\ IsSaveResult(request[c])
          /\ HasId(db, request[c].id)
          /\ e = Recorded(db, target[c], request[c])
        BY <1>3, <1>8 DEF Records, Asked
    <2>2. Whole(e, t) /\ Grows(db, e) /\ OnlyNew(db, e, target[c])
        BY <1>1, <1>2, <2>1, RecordedIsWhole
    <2>3. e.plans = Completing(db, request[c]).plans
        BY <1>1, <2>1, RecordedTables DEF Keyed
    <2>4. \A q \in e.plans : \E p \in db.plans : q.created = p.created
        BY <1>1, <2>3, CompletingIsMarked DEF Marks, SamePlan
    <2>5. Dated(e, version)
        BY <1>1, <2>4 DEF Dated
    <2> QED
        BY <2>1, <2>2, <2>5 DEF OnlyNew
  <1> QED
      BY <1>4, <1>5, <1>6, <1>7, <1>8 DEF Operates

\* What can be restored can still be restored after the tables have grown.
LEMMA RestorableStays ==
    ASSUME NEW d, NEW e, Grows(d, e), NEW id, NEW q, Restorable(d, id, q)
    PROVE  Restorable(e, id, q)
  <1>1. PICK x \in d.experiments :
            /\ x.id = id /\ x.identity = q.identity /\ x.config = q.definition.config
            /\ StoredForms(d, id) = FormsOf(q.definition.policies)
            /\ q.definition.cohorts \subseteq StoredDates(d, id)
            /\ StoredDates(d, id) \subseteq q.definition.cohorts \union PlannedDates(d, id)
      BY DEF Restorable
  <1>2. PICK y \in e.experiments : SameExperiment(x, y)
      BY DEF Grows
  <1>3. Where(e.links, "experiment", id) = Where(d.links, "experiment", id)
      BY <1>1 DEF Grows
  <1>4. StoredForms(e, id) = StoredForms(d, id)
      BY <1>3 DEF StoredForms
  <1>5. StoredDates(e, id) = StoredDates(d, id) \union PlannedDates(e, id)
      BY <1>1 DEF Grows
  <1>6. PlannedDates(d, id) \subseteq PlannedDates(e, id)
      BY PlannedDatesGrow DEF Grows
  <1>7. y.id = id /\ y.identity = q.identity /\ y.config = q.definition.config
      BY <1>1, <1>2 DEF SameExperiment
  <1>8. /\ q.definition.cohorts \subseteq StoredDates(e, id)
        /\ StoredDates(e, id) \subseteq q.definition.cohorts \union PlannedDates(e, id)
      BY <1>1, <1>5, <1>6
  <1> QED
      BY <1>1, <1>4, <1>7, <1>8 DEF Restorable

\* The rows that are there are there after the tables have grown.
LEMMA RowsStayThere ==
    ASSUME NEW d, NEW e, Grows(d, e), NEW id
    PROVE  /\ HasExperiment(d, id) => HasExperiment(e, id)
           /\ HasId(d, id) => HasId(e, id)
           /\ HasRecord(d, id) => HasRecord(e, id)
           /\ HasOutcome(d, id) => HasOutcome(e, id)
           /\ IsNew(e, id) => IsNew(d, id)
  BY DEF Grows, HasExperiment, HasId, HasRecord, HasOutcome, IsNew, SameExperiment, SamePlan

\* A commit is one operation as a whole.
LEMMA CommitContent ==
    ASSUME IInv, IInv', ContentInv, NEW c \in Clients, Commit(c)
    PROVE  ContentInv'
  <1>1. /\ pc[c] = "commit" /\ writer = c /\ db' = draft /\ version' = version + 1
        /\ saved' = saved \union {[id |-> target[c], request |-> request[c]]}
        /\ pc' = [pc EXCEPT ![c] = "answered"]
        /\ UNCHANGED <<issued, request, target>>
      BY DEF Commit, Answer
  <1>2. Operates(c, draft) /\ version \in Nat /\ Numbered
    <2>1. ClientInv(c) /\ version \in Nat /\ Numbered
        BY DEF ContentInv
    <2>2. pc[c] = "commit"
        BY <1>1
    <2> QED
        BY ONLY <2>1, <2>2 DEF ClientInv, Staged
  <1>3. Keyed(draft)
      BY DEF IInv
  <1>4. /\ Whole(draft, saved') /\ Grows(db, draft) /\ Dated(draft, version)
        /\ \A i : IsNew(db, i) /\ (IsNew(db, target[c]) => i # target[c]) => IsNew(draft, i)
        /\ IsNew(db, target[c]) => target[c] # 0 \/ \A i : IsNew(db, i) => IsNew(draft, i)
    <2>1. PICK t : t = saved'
        OBVIOUS
    <2>2. saved \subseteq t /\ [id |-> target[c], request |-> request[c]] \in t
        BY <1>1, <2>1
    <2> HIDE <2>1
    <2>3. /\ Whole(draft, t) /\ Grows(db, draft) /\ Dated(draft, version)
          /\ \A i : IsNew(db, i) /\ (IsNew(db, target[c]) => i # target[c]) => IsNew(draft, i)
          /\ IsNew(db, target[c]) => target[c] # 0 \/ \A i : IsNew(db, i) => IsNew(draft, i)
        BY <1>2, <1>3, <2>2, OperationIsWhole
    <2> QED
        BY <2>1, <2>3
  <1>5. /\ pc'[c] = "answered"
        /\ \A d \in Clients : d # c => pc'[d] = pc[d] /\ pc[d] \notin Holding
      BY <1>1, NamesAssumption DEF IInv, ControlInv
  <1>6. Numbered'
    <2>1. \A d \in Clients : Owns(d)' => Owns(d)
      <3> SUFFICES ASSUME NEW d \in Clients, Owns(d)' PROVE Owns(d)
          OBVIOUS
      <3>1. d # c /\ pc'[d] = pc[d] /\ target'[d] = target[d] /\ IsNew(draft, target[d])
            /\ pc[d] \in NewSteps \union {"commit"}
          BY <1>1, <1>5 DEF Owns, NewSteps
      <3> QED
          BY <1>4, <3>1, RowsStayThere DEF Owns
    <2>2. \A a, b \in Clients : a # b /\ Owns(a)' /\ Owns(b)' => target'[a] # target'[b]
        BY <1>1, <1>2, <2>1 DEF Numbered
    <2>3. target[c] \in 0 .. issued /\ issued \in Nat
        BY DEF IInv, IdsInv
    <2>4. \A i : ~IsNew(db, i) => i \in 1 .. issued
        BY <1>2 DEF Numbered, IsNew, HasExperiment, HasId, HasRecord
    <2>5. \A i : ~IsNew(draft, i) => i \in 1 .. issued
      <3> SUFFICES ASSUME NEW i, ~IsNew(draft, i), IsNew(db, i) PROVE i \in 1 .. issued
          BY <2>4
      <3>1. IsNew(db, target[c]) /\ i = target[c] /\ target[c] # 0
          BY <1>4
      <3> QED
          BY <2>3, <3>1
    <2>6. /\ \A e \in draft.experiments : e.id \in 1 .. issued
          /\ \A p \in draft.plans : p.id \in 1 .. issued
          /\ \A r \in draft.results : r.id \in 1 .. issued
        BY <2>5 DEF IsNew, HasExperiment, HasId, HasRecord
    <2> QED
        BY <1>1, <2>2, <2>6 DEF Numbered
  <1>7. ASSUME NEW d \in Clients PROVE ClientInv(d)'
    <2>1. Asked(d) /\ Placed(d) /\ Aimed(d)
        BY DEF ContentInv, ClientInv
    <2>2. Asked(d)'
        BY <1>1, <1>4, <2>1, RowsStayThere DEF Asked
    <2>3. Placed(d)'
        BY <1>1, <1>5, <2>1 DEF Placed
    <2>4. Staged(d)'
        BY <1>5 DEF Staged, Holding
    <2>5. Aimed(d)'
      <3>1. CASE d = c
          BY <1>5, <3>1 DEF Aimed, NewSteps
      <3>2. CASE d # c
        <4>1. pc'[d] = pc[d] /\ target'[d] = target[d] /\ request'[d] = request[d]
            BY <1>1, <1>5, <3>2
        <4>2. pc[d] \in NewSteps => target[d] # 0 /\ IsNew(draft, target[d])
          <5> SUFFICES ASSUME pc[d] \in NewSteps
                       PROVE  target[d] # 0 /\ IsNew(draft, target[d])
              OBVIOUS
          <5>1. target[d] # 0 /\ IsNew(db, target[d]) /\ Owns(d)
              BY <2>1 DEF Aimed, Owns
          <5>2. IsNew(db, target[c]) => Owns(c)
              BY <1>1 DEF Owns
          <5>3. IsNew(db, target[c]) => target[c] # target[d]
              BY <1>2, <3>2, <5>1, <5>2 DEF Numbered
          <5> QED
              BY <1>4, <5>1, <5>3
        <4>3. pc[d] # "insert associations"
            BY <1>5, <3>2 DEF Holding
        <4>4. pc[d] = "compare" =>
                  \E e \in draft.experiments : e.id = target[d] /\ e.identity = request[d].identity
            BY <1>4, <2>1 DEF Aimed, Grows, SameExperiment
        <4>5. pc[d] = "undelete" => Restorable(draft, target[d], request[d])
            BY <1>4, <2>1, RestorableStays DEF Aimed
        <4>6. pc[d] = "delete" => HasExperiment(draft, target[d])
            BY <1>4, <2>1, RowsStayThere DEF Aimed
        <4> QED
            BY <1>1, <4>1, <4>2, <4>3, <4>4, <4>5, <4>6 DEF Aimed
      <3> QED
          BY <3>1, <3>2
    <2> QED
        BY <2>2, <2>3, <2>4, <2>5 DEF ClientInv
  <1>8. version' \in Nat /\ Whole(db, saved)' /\ Dated(db, version)'
    <2>1. Whole(db', saved')
        BY <1>1, <1>4
    <2>2. \A i \in Nat : i <= version => i <= version + 1
        BY <1>2
    <2>3. Dated(db', version')
        BY <1>1, <1>4, <2>2 DEF Dated
    <2> QED
        BY <1>1, <1>2, <2>1, <2>3
  <1> QED
      BY <1>6, <1>7, <1>8 DEF ContentInv

----------------------------------------------------------------------------
(* The steps of the program.                                               *)

\* A step to where the client has no identifier of its own and no transaction.
LEMMA LeavingContent ==
    ASSUME IInv, ContentInv, NEW c \in Clients, NEW s, s \notin NewSteps, s # "commit",
           UNCHANGED <<db, version, saved, issued>>,
           draft' = draft \/ writer \in {NoClient, c},
           pc' = [pc EXCEPT ![c] = s],
           request' = request \/ \E r : request' = [request EXCEPT ![c] = r],
           target' = target \/ \E t : target' = [target EXCEPT ![c] = t],
           request'[c] = request[c] \/ Asked(c)',
           Placed(c)',
           s \notin {"compare", "undelete", "delete"} \/ Aimed(c)'
    PROVE  ContentInv'
  <1>1. pc'[c] = s
      BY DEF IInv, ControlInv
  <1>2. Asked(c)'
      BY DEF ContentInv, ClientInv, Asked
  <1>3. Aimed(c)'
      BY <1>1 DEF Aimed, NewSteps
  <1>4. Staged(c)'
      BY <1>1 DEF Staged, NewSteps
  <1>5. ~Owns(c)'
      BY <1>1 DEF Owns
  <1>6. ClientInv(c)'
      BY <1>2, <1>3, <1>4 DEF ClientInv
  <1> QED
      BY <1>5, <1>6, QuietContent

\* A client that is done asks for nothing, or what it asked for before.
LEMMA PlacedAnywhere ==
    ASSUME NEW c, NEW s,
           s \in {"idle", "answered", "compare", "undelete", "find deleted", "delete",
                  "check identity", "check status"}
    PROVE  pc'[c] = s => Placed(c)'
  BY DEF Placed

\* Steps that roll a transaction back keep the content.
LEMMA RollbackContent ==
    ASSUME IInv, ContentInv, NEW c \in Clients, Rollback(c)
    PROVE  ContentInv'
  <1>1. /\ UNCHANGED <<db, version, saved, issued, request, target>>
        /\ writer \in {NoClient, c}
        /\ pc' = [pc EXCEPT ![c] = "answered"]
      BY DEF Rollback, Answer
  <1>2. "answered" \notin NewSteps /\ "answered" # "commit"
      BY DEF NewSteps
  <1>3. pc'[c] = "answered"
      BY <1>1 DEF IInv, ControlInv
  <1>4. Placed(c)'
      BY <1>3, PlacedAnywhere
  <1> QED
      BY <1>1, <1>2, <1>4, LeavingContent

\* Clients that have their answer, or die.
LEMMA ForgettingContent ==
    ASSUME IInv, ContentInv, NEW c \in Clients, Receive(c) \/ Crash(c)
    PROVE  ContentInv'
  <1>1. /\ UNCHANGED <<db, version, saved, issued>>
        /\ request' = [request EXCEPT ![c] = NoRequest]
        /\ target' = [target EXCEPT ![c] = 0]
        /\ draft' = draft \/ writer = c
        /\ pc' = [pc EXCEPT ![c] = "idle"]
      BY DEF Receive, Crash, Forget, store
  <1>2. "idle" \notin NewSteps /\ "idle" # "commit"
      BY DEF NewSteps
  <1>3. pc'[c] = "idle" /\ request'[c] = NoRequest
      BY <1>1 DEF IInv, ControlInv
  <1>4. Placed(c)'
      BY <1>3, PlacedAnywhere
  <1>5. Asked(c)'
      BY <1>3 DEF Asked, NoRequest
  <1>6. /\ request' = request \/ \E r : request' = [request EXCEPT ![c] = r]
        /\ target' = target \/ \E t : target' = [target EXCEPT ![c] = t]
        /\ draft' = draft \/ writer \in {NoClient, c}
      BY <1>1
  <1>7. /\ request'[c] = request[c] \/ Asked(c)'
        /\ "idle" \notin {"compare", "undelete", "delete"} \/ Aimed(c)'
      BY <1>5
  <1> QED
      BY <1>1, <1>2, <1>4, <1>6, <1>7, LeavingContent

\* A client that asks for something.
LEMMA AskContent ==
    ASSUME IInv, ContentInv, NEW c \in Clients, NEW s, NEW r, Ask(c, s, r),
           s \notin NewSteps, s # "commit", s \notin {"compare", "undelete", "delete"},
           pc'[c] = s /\ request'[c] = r => Asked(c)' /\ Placed(c)'
    PROVE  ContentInv'
  <1>1. /\ UNCHANGED <<db, version, saved, issued, draft, target>>
        /\ request' = [request EXCEPT ![c] = r]
        /\ pc' = [pc EXCEPT ![c] = s]
      BY DEF Ask, Goto, store
  <1>2. pc'[c] = s /\ request'[c] = r
      BY <1>1 DEF IInv, ControlInv
  <1>3. Asked(c)' /\ Placed(c)'
      BY <1>2
  <1>4. request' = request \/ \E q : request' = [request EXCEPT ![c] = q]
      BY <1>1
  <1> QED
      BY <1>1, <1>3, <1>4, LeavingContent

\* What clients ask for.
LEMMA AsksContent ==
    ASSUME IInv, ContentInv, NEW c \in Clients, Asks(c)
    PROVE  ContentInv'
  <1>0. db' = db
      BY DEF Asks, SaveExperiment, DeleteExperiment, LoadExperiment, GetExportData, SavePlan,
             LoadPlan, LoadResult, SaveResult, Ask, store
  <1>1. ASSUME NEW x \in Experiments, SaveExperiment(c, x) PROVE ContentInv'
    <2> DEFINE r == [kind |-> "save experiment", identity |-> x.identity,
                     definition |-> x.definition]
               s == "check identity"
    <2>1. Ask(c, s, r)
        BY <1>1 DEF SaveExperiment
    <2>2. s \notin NewSteps /\ s # "commit" /\ s \notin {"compare", "undelete", "delete"}
        BY DEF NewSteps
    <2>3. /\ r.kind = "save experiment" /\ IsSaveExperiment(r)
          /\ s \in {"idle", "answered", "compare", "undelete", "find deleted", "delete",
                    "check identity", "check status"}
        BY DEF IsSaveExperiment
    <2> HIDE DEF r, s
    <2>4. pc'[c] = s /\ request'[c] = r => Asked(c)' /\ Placed(c)'
        BY <2>3, PlacedAnywhere DEF Asked
    <2> QED
        BY <2>1, <2>2, <2>4, AskContent
  <1>2. ASSUME NEW identity \in Identities, DeleteExperiment(c, identity) PROVE ContentInv'
    <2> DEFINE r == [kind |-> "delete", identity |-> identity]
               s == "find deleted"
    <2>1. Ask(c, s, r)
        BY <1>2 DEF DeleteExperiment
    <2>2. s \notin NewSteps /\ s # "commit" /\ s \notin {"compare", "undelete", "delete"}
        BY DEF NewSteps
    <2>3. /\ r.kind \notin {"save experiment", "save plan", "save result"}
          /\ s \in {"idle", "answered", "compare", "undelete", "find deleted", "delete",
                    "check identity", "check status"}
        OBVIOUS
    <2> HIDE DEF r, s
    <2>4. pc'[c] = s /\ request'[c] = r => Asked(c)' /\ Placed(c)'
        BY <2>3, PlacedAnywhere DEF Asked
    <2> QED
        BY <2>1, <2>2, <2>4, AskContent
  <1>3. ASSUME NEW row \in db.experiments, LoadExperiment(c, row.id) PROVE ContentInv'
    <2> DEFINE r == [kind |-> "load experiment", id |-> row.id]
               s == "read experiment"
    <2>1. Ask(c, s, r)
        BY <1>3 DEF LoadExperiment
    <2>2. s \notin NewSteps /\ s # "commit" /\ s \notin {"compare", "undelete", "delete"}
        BY DEF NewSteps
    <2>3. r.kind \notin {"save experiment", "save plan", "save result"}
          /\ r.kind = "load experiment"
        OBVIOUS
    <2>4. pc'[c] = s /\ request'[c] = r => Asked(c)' /\ Placed(c)'
      <3> SUFFICES ASSUME pc'[c] = s, request'[c] = r PROVE Asked(c)' /\ Placed(c)'
          OBVIOUS
      <3>1. Placed(c)'
          BY <2>3 DEF Placed
      <3> HIDE DEF r, s
      <3> QED
          BY <2>3, <3>1 DEF Asked
    <2> HIDE DEF r, s
    <2> QED
        BY <2>1, <2>2, <2>4, AskContent
  <1>4. ASSUME NEW row \in db.experiments, GetExportData(c, row.id) PROVE ContentInv'
    <2> DEFINE r == [kind |-> "export", id |-> row.id]
               s == "export experiment"
    <2>1. Ask(c, s, r)
        BY <1>4 DEF GetExportData
    <2>2. s \notin NewSteps /\ s # "commit" /\ s \notin {"compare", "undelete", "delete"}
        BY DEF NewSteps
    <2>3. r.kind \notin {"save experiment", "save plan", "save result"}
          /\ r.kind = "export"
        OBVIOUS
    <2>4. pc'[c] = s /\ request'[c] = r => Asked(c)' /\ Placed(c)'
      <3> SUFFICES ASSUME pc'[c] = s, request'[c] = r PROVE Asked(c)' /\ Placed(c)'
          OBVIOUS
      <3>1. Placed(c)'
          BY <2>3 DEF Placed
      <3> HIDE DEF r, s
      <3> QED
          BY <2>3, <3>1 DEF Asked
    <2> HIDE DEF r, s
    <2> QED
        BY <2>1, <2>2, <2>4, AskContent
  <1>5. ASSUME NEW row \in db.experiments, NEW units \in UnitLists, SavePlan(c, row.id, units)
        PROVE  ContentInv'
    <2> DEFINE r == [kind |-> "save plan", id |-> row.id, units |-> units]
               s == "read experiment"
    <2>1. Ask(c, s, r)
        BY <1>5 DEF SavePlan
    <2>2. s \notin NewSteps /\ s # "commit" /\ s \notin {"compare", "undelete", "delete"}
        BY DEF NewSteps
    <2>3. r.kind = "save plan" /\ IsSavePlan(r) /\ HasExperiment(db, r.id)
        BY DEF IsSavePlan, HasExperiment
    <2>4. pc'[c] = s /\ request'[c] = r => Asked(c)' /\ Placed(c)'
      <3> SUFFICES ASSUME pc'[c] = s, request'[c] = r PROVE Asked(c)' /\ Placed(c)'
          OBVIOUS
      <3>1. Placed(c)'
          BY <2>3 DEF Placed
      <3> HIDE DEF r, s
      <3> QED
          BY <1>0, <2>3, <3>1 DEF Asked
    <2> HIDE DEF r, s
    <2> QED
        BY <2>1, <2>2, <2>4, AskContent
  <1>6. ASSUME NEW row \in db.plans, LoadPlan(c, row.id) PROVE ContentInv'
    <2> DEFINE r == [kind |-> "load plan", id |-> row.id]
               s == "read plan"
    <2>1. Ask(c, s, r)
        BY <1>6 DEF LoadPlan
    <2>2. s \notin NewSteps /\ s # "commit" /\ s \notin {"compare", "undelete", "delete"}
        BY DEF NewSteps
    <2>3. r.kind \notin {"save experiment", "save plan", "save result"}
          /\ r.kind = "load plan"
        OBVIOUS
    <2>4. pc'[c] = s /\ request'[c] = r => Asked(c)' /\ Placed(c)'
      <3> SUFFICES ASSUME pc'[c] = s, request'[c] = r PROVE Asked(c)' /\ Placed(c)'
          OBVIOUS
      <3>1. Placed(c)'
          BY <2>3 DEF Placed
      <3> HIDE DEF r, s
      <3> QED
          BY <2>3, <3>1 DEF Asked
    <2> HIDE DEF r, s
    <2> QED
        BY <2>1, <2>2, <2>4, AskContent
  <1>7. ASSUME NEW id, LoadResult(c, id) PROVE ContentInv'
    <2> DEFINE r == [kind |-> "load result", id |-> id]
               s == "read result"
    <2>1. Ask(c, s, r)
        BY <1>7 DEF LoadResult
    <2>2. s \notin NewSteps /\ s # "commit" /\ s \notin {"compare", "undelete", "delete"}
        BY DEF NewSteps
    <2>3. r.kind \notin {"save experiment", "save plan", "save result"}
          /\ r.kind = "load result"
        OBVIOUS
    <2>4. pc'[c] = s /\ request'[c] = r => Asked(c)' /\ Placed(c)'
      <3> SUFFICES ASSUME pc'[c] = s, request'[c] = r PROVE Asked(c)' /\ Placed(c)'
          OBVIOUS
      <3>1. Placed(c)'
          BY <2>3 DEF Placed
      <3> HIDE DEF r, s
      <3> QED
          BY <2>3, <3>1 DEF Asked
    <2> HIDE DEF r, s
    <2> QED
        BY <2>1, <2>2, <2>4, AskContent
  <1>8. ASSUME NEW row \in db.plans, NEW sims \in ResultLists, SaveResult(c, row.id, sims)
        PROVE  ContentInv'
    <2> DEFINE r == [kind |-> "save result", id |-> row.id, simulations |-> sims]
               s == "check status"
    <2>1. Ask(c, s, r)
        BY <1>8 DEF SaveResult
    <2>2. s \notin NewSteps /\ s # "commit" /\ s \notin {"compare", "undelete", "delete"}
        BY DEF NewSteps
    <2>3. /\ r.kind = "save result" /\ IsSaveResult(r) /\ HasId(db, r.id)
          /\ s \in {"idle", "answered", "compare", "undelete", "find deleted", "delete",
                    "check identity", "check status"}
        BY DEF IsSaveResult, HasId
    <2> HIDE DEF r, s
    <2>4. pc'[c] = s /\ request'[c] = r => Asked(c)' /\ Placed(c)'
        BY <1>0, <2>3, PlacedAnywhere DEF Asked
    <2> QED
        BY <2>1, <2>2, <2>4, AskContent
  <1> QED
      BY <1>1, <1>2, <1>3, <1>4, <1>5, <1>6, <1>7, <1>8 DEF Asks

\* What has been compared can be restored.
LEMMA CompareContent ==
    ASSUME IInv, ContentInv, NEW c \in Clients, Compare(c)
    PROVE  ContentInv'
  <1>1. /\ UNCHANGED <<db, version, saved, issued, draft, request, target>>
        /\ pc[c] = "compare"
      BY DEF Compare, Read, store
  <1>2. PICK row \in ById(db.experiments, target[c]) :
            IF EquivalentTo(db, row, request[c].definition)
            THEN Goto(c, "undelete") ELSE Answer(c, "refused")
      BY DEF Compare
  <1>3. CASE ~EquivalentTo(db, row, request[c].definition)
    <2>1. pc' = [pc EXCEPT ![c] = "answered"]
        BY <1>2, <1>3 DEF Answer
    <2>2. pc'[c] = "answered" /\ "answered" \notin NewSteps
        BY <2>1 DEF IInv, ControlInv, NewSteps
    <2>3. Placed(c)'
        BY <2>2, PlacedAnywhere
    <2> QED
        BY <1>1, <2>1, <2>2, <2>3, LeavingContent
  <1>4. CASE EquivalentTo(db, row, request[c].definition)
    <2>1. pc' = [pc EXCEPT ![c] = "undelete"]
        BY <1>2, <1>4 DEF Goto
    <2>2. pc'[c] = "undelete" /\ "undelete" \notin NewSteps
        BY <2>1 DEF IInv, ControlInv, NewSteps
    <2>3. Placed(c)'
        BY <2>2, PlacedAnywhere
    <2>4. Aimed(c) /\ Identified(db)
        BY DEF ContentInv, ClientInv, Whole
    <2>5. PICK e \in db.experiments : e.id = target[c] /\ e.identity = request[c].identity
        BY <1>1, <2>4 DEF Aimed
    <2>6. row = e /\ row \in db.experiments
        BY <2>4, <2>5 DEF Identified, ById, Where
    <2>7. Restorable(db, target[c], request[c])
        BY <1>4, <2>5, <2>6 DEF Restorable, EquivalentTo
    <2>8. Aimed(c)'
        BY <1>1, <2>2, <2>7 DEF Aimed, NewSteps
    <2> QED
        BY <1>1, <2>1, <2>2, <2>3, <2>8, LeavingContent
  <1> QED
      BY <1>3, <1>4

\* Where the steps of a reader lead to.
ReaderSteps == {"read experiment", "read policies", "read cohorts", "read plan", "read units",
                "read simulations", "export plan", "export result", "export rows", "answered"}

\* Steps that only read, and refusals.
LEMMA ReadingContent ==
    ASSUME IInv, ContentInv, NEW c \in Clients, ReadingSteps(c)
    PROVE  ContentInv'
  <1>1. CASE Compare(c)
      BY <1>1, CompareContent
  <1>2. CASE ReadingSteps(c) /\ ~Compare(c)
    <2>1. UNCHANGED <<db, version, saved, issued, draft, request, target>>
        BY <1>2 DEF ReadingSteps, LockedOut, ReadExperiment, ReadPolicies, ReadPlan, ReadUnits,
               ReadResult, ReadSimulations, ExportExperiment, ExportPlan, ExportResult,
               ExportRows, Read, store
    <2>2. Placed(c)
        BY DEF ContentInv, ClientInv
    <2> DEFINE Leads(s) == pc' = [pc EXCEPT ![c] = s] /\ s \in ReaderSteps
    <2>3. \E s : Leads(s) /\ (pc'[c] = s => Placed(c)')
      <3>1. CASE LockedOut(c) \/ ReadUnits(c) \/ ExportRows(c)
        <4>1. Leads("answered")
            BY <3>1 DEF LockedOut, ReadUnits, ExportRows, Answer, ReaderSteps
        <4> QED
            BY <4>1, PlacedAnywhere
      <3>2. CASE ReadExperiment(c)
        <4>1. pc[c] = "read experiment" /\ (Leads("answered") \/ Leads("read policies"))
            BY <3>2 DEF ReadExperiment, Answer, Goto, ReaderSteps
        <4>2. pc'[c] = "read policies" => Placed(c)'
            BY <2>1, <2>2, <4>1 DEF Placed
        <4> QED
            BY <4>1, <4>2, PlacedAnywhere
      <3>3. CASE ReadPolicies(c)
        <4>1. pc[c] = "read policies" /\ Leads("read cohorts")
            BY <3>3 DEF ReadPolicies, Goto, ReaderSteps
        <4>2. pc'[c] = "read cohorts" => Placed(c)'
            BY <2>1, <2>2, <4>1 DEF Placed
        <4> QED
            BY <4>1, <4>2
      <3>4. CASE ReadPlan(c)
        <4>1. pc[c] = "read plan" /\ (Leads("answered") \/ Leads("read experiment"))
            BY <3>4 DEF ReadPlan, Answer, Goto, ReaderSteps
        <4>2. pc'[c] = "read experiment" => Placed(c)'
            BY <2>1, <2>2, <4>1 DEF Placed
        <4> QED
            BY <4>1, <4>2, PlacedAnywhere
      <3>5. CASE ReadResult(c)
        <4>1. pc[c] = "read result" /\ (Leads("answered") \/ Leads("read simulations"))
            BY <3>5 DEF ReadResult, Answer, Goto, ReaderSteps
        <4>2. pc'[c] = "read simulations" => Placed(c)'
            BY <2>1, <2>2, <4>1 DEF Placed
        <4> QED
            BY <4>1, <4>2, PlacedAnywhere
      <3>6. CASE ReadSimulations(c)
        <4>1. pc[c] = "read simulations" /\ Leads("read plan")
            BY <3>6 DEF ReadSimulations, Goto, ReaderSteps
        <4>2. pc'[c] = "read plan" => Placed(c)'
            BY <2>1, <2>2, <4>1 DEF Placed
        <4> QED
            BY <4>1, <4>2
      <3>7. CASE ExportExperiment(c)
        <4>1. pc[c] = "export experiment" /\ (Leads("answered") \/ Leads("export plan"))
            BY <3>7 DEF ExportExperiment, Answer, Goto, ReaderSteps
        <4>2. pc'[c] = "export plan" => Placed(c)'
            BY <2>1, <2>2, <4>1 DEF Placed
        <4> QED
            BY <4>1, <4>2, PlacedAnywhere
      <3>8. CASE ExportPlan(c)
        <4>1. pc[c] = "export plan" /\ (Leads("answered") \/ Leads("export result"))
            BY <3>8 DEF ExportPlan, Answer, Goto, ReaderSteps
        <4>2. pc'[c] = "export result" => Placed(c)'
            BY <2>1, <2>2, <4>1 DEF Placed
        <4> QED
            BY <4>1, <4>2, PlacedAnywhere
      <3>9. CASE ExportResult(c)
        <4>1. pc[c] = "export result" /\ (Leads("answered") \/ Leads("export rows"))
            BY <3>9 DEF ExportResult, Answer, Goto, ReaderSteps
        <4>2. pc'[c] = "export rows" => Placed(c)'
            BY <2>1, <2>2, <4>1 DEF Placed
        <4> QED
            BY <4>1, <4>2, PlacedAnywhere
      <3> QED
          BY <1>2, <3>1, <3>2, <3>3, <3>4, <3>5, <3>6, <3>7, <3>8, <3>9 DEF ReadingSteps
    <2>4. PICK s : Leads(s) /\ (pc'[c] = s => Placed(c)')
        BY <2>3
    <2>5. s \notin NewSteps /\ s # "commit" /\ s \notin {"compare", "undelete", "delete"}
        BY <2>4 DEF ReaderSteps, NewSteps
    <2>6. pc'[c] = s
        BY <2>4 DEF IInv, ControlInv
    <2>7. Placed(c)' /\ pc' = [pc EXCEPT ![c] = s]
        BY <2>4, <2>6
    <2> QED
        BY <2>1, <2>5, <2>7, LeavingContent
  <1> QED
      BY <1>1, <1>2

\* Steps that choose the identifier to work on.
LEMMA ChoosingContent ==
    ASSUME IInv, ContentInv, NEW c \in Clients,
           FindDeleted(c) \/ CheckIdentity(c) \/ ReadCohorts(c) \/ CheckStatus(c)
    PROVE  ContentInv'
  <1>1. KindFits(pc[c], request[c].kind) /\ Placed(c)
      BY DEF IInv, ControlInv, ContentInv, ClientInv
  <1>2. UNCHANGED <<db, draft, version, saved, request>>
      BY DEF FindDeleted, CheckIdentity, ReadCohorts, CheckStatus, store
  <1>3. \A s : pc' = [pc EXCEPT ![c] = s] => pc'[c] = s
      BY DEF IInv, ControlInv
  <1>4. \A t : target' = [target EXCEPT ![c] = t] => target'[c] = t
      BY DEF IInv, ControlInv
  <1>5. \A s \in {"answered", "compare", "delete", "read units"} : s \notin NewSteps /\ s # "commit"
      BY DEF NewSteps
  <1>6. CASE FindDeleted(c) /\ pc' = [pc EXCEPT ![c] = "answered"]
    <2>1. target' = target /\ issued' = issued
        BY <1>3, <1>6 DEF FindDeleted, Goto
    <2> QED
        BY <1>2, <1>3, <1>5, <1>6, <2>1, PlacedAnywhere, LeavingContent
  <1>7. CASE FindDeleted(c) /\ pc' # [pc EXCEPT ![c] = "answered"]
    <2>1. PICK row \in db.experiments : target' = [target EXCEPT ![c] = row.id]
        BY <1>7 DEF FindDeleted, Answer, Where
    <2>2. pc' = [pc EXCEPT ![c] = "delete"] /\ issued' = issued
        BY <1>7 DEF FindDeleted, Answer, Goto
    <2>3. pc'[c] = "delete" /\ target'[c] = row.id
        BY <1>3, <1>4, <2>1, <2>2
    <2>4. Aimed(c)'
        BY <1>2, <2>3 DEF Aimed, NewSteps, HasExperiment
    <2>5. Placed(c)'
        BY <2>3, PlacedAnywhere
    <2>6. \E t : target' = [target EXCEPT ![c] = t]
        BY <2>1
    <2> QED
        BY <1>2, <1>5, <2>2, <2>4, <2>5, <2>6, LeavingContent
  <1>8. CASE CheckIdentity(c) /\ Generate(c) /\ pc' = [pc EXCEPT ![c] = "insert experiment"]
    <2>1. "insert experiment" \in NewSteps /\ "insert experiment" \notin Holding
        BY DEF NewSteps, Holding
    <2>2. Placed(c)'
        BY <1>3, <1>8 DEF Placed
    <2> QED
        BY <1>2, <1>8, <2>1, <2>2, GeneratingContent
  <1>9. CASE /\ CheckIdentity(c)
             /\ ~(Generate(c) /\ pc' = [pc EXCEPT ![c] = "insert experiment"])
    <2>1. PICK row \in db.experiments :
              /\ row.identity = request[c].identity
              /\ target' = [target EXCEPT ![c] = row.id]
              /\ pc' = [pc EXCEPT ![c] = "compare"] \/ pc' = [pc EXCEPT ![c] = "answered"]
              /\ issued' = issued
        BY <1>9 DEF CheckIdentity, Answer, Goto, Where
    <2>2. target'[c] = row.id
        BY <1>4, <2>1
    <2>3. \E t : target' = [target EXCEPT ![c] = t]
        BY <2>1
    <2>4. CASE pc' = [pc EXCEPT ![c] = "answered"]
      <3>1. pc'[c] = "answered"
          BY <1>3, <2>4
      <3>2. Placed(c)'
          BY <3>1, PlacedAnywhere
      <3> QED
          BY <1>2, <1>5, <2>1, <2>3, <2>4, <3>2, LeavingContent
    <2>5. CASE pc' = [pc EXCEPT ![c] = "compare"]
      <3>1. pc'[c] = "compare"
          BY <1>3, <2>5
      <3>2. Placed(c)'
          BY <3>1, PlacedAnywhere
      <3>3. Aimed(c)'
          BY <1>2, <2>1, <2>2, <3>1 DEF Aimed, NewSteps
      <3> QED
          BY <1>2, <1>5, <2>1, <2>3, <2>5, <3>2, <3>3, LeavingContent
    <2> QED
        BY <2>1, <2>4, <2>5
  <1>10. CASE ReadCohorts(c)
    <2>1. pc[c] = "read cohorts"
        BY <1>10 DEF ReadCohorts
    <2>2. CASE pc' = [pc EXCEPT ![c] = "insert plan"] /\ Generate(c)
      <3>1. "insert plan" \in NewSteps /\ "insert plan" \notin Holding
          BY DEF NewSteps, Holding
      <3>2. Placed(c)'
          BY <1>3, <2>2 DEF Placed
      <3> QED
          BY <1>2, <2>2, <3>1, <3>2, GeneratingContent
    <2>3. CASE pc' = [pc EXCEPT ![c] = "answered"] /\ UNCHANGED <<issued, target>>
      <3>1. pc'[c] = "answered"
          BY <1>3, <2>3
      <3>2. Placed(c)'
          BY <3>1, PlacedAnywhere
      <3> QED
          BY <1>2, <1>5, <2>3, <3>2, LeavingContent
    <2>4. CASE /\ pc' = [pc EXCEPT ![c] = "read units"] /\ UNCHANGED <<issued, target>>
               /\ request[c].kind \in {"load plan", "load result"}
      <3>1. pc'[c] = "read units"
          BY <1>3, <2>4
      <3>2. Placed(c)'
          BY <1>2, <2>4, <3>1 DEF Placed
      <3> QED
          BY <1>2, <1>5, <2>4, <3>2, LeavingContent
    <2> QED
        BY <1>10, <2>2, <2>3, <2>4 DEF ReadCohorts, Goto, Answer
  <1>11. CASE CheckStatus(c)
    <2>1. CASE pc' = [pc EXCEPT ![c] = "complete plan"] /\ Generate(c)
      <3>1. "complete plan" \in NewSteps /\ "complete plan" \notin Holding
          BY DEF NewSteps, Holding
      <3>2. Placed(c)'
          BY <1>3, <2>1 DEF Placed
      <3> QED
          BY <1>2, <2>1, <3>1, <3>2, GeneratingContent
    <2>2. CASE pc' = [pc EXCEPT ![c] = "answered"] /\ UNCHANGED <<issued, target>>
      <3>1. pc'[c] = "answered"
          BY <1>3, <2>2
      <3>2. Placed(c)'
          BY <3>1, PlacedAnywhere
      <3> QED
          BY <1>2, <1>5, <2>2, <3>2, LeavingContent
    <2> QED
        BY <1>11, <2>1, <2>2 DEF CheckStatus, Goto, Answer
  <1> QED
      BY <1>6, <1>7, <1>8, <1>9, <1>10, <1>11

\* A statement of a transaction: the tables of the others do not change.
LEMMA StatementContent ==
    ASSUME IInv, ContentInv, NEW c \in Clients, NEW s \in NewSteps \union {"commit"},
           UNCHANGED <<db, version, saved, issued, request, target>>,
           writer \in {NoClient, c},
           pc' = [pc EXCEPT ![c] = s],
           pc[c] \in NewSteps \/ (s = "commit" /\ ~IsNew(db, target[c])),
           pc'[c] = s => (s = "insert associations" => IdentityFree(db, request[c].identity))
                         /\ Staged(c)'
    PROVE  ContentInv'
  <1>1. pc'[c] = s
      BY DEF IInv, ControlInv
  <1>2. Aimed(c) /\ Asked(c)
      BY DEF ContentInv, ClientInv
  <1>3. Owns(c)' => Owns(c)
      BY <1>1 DEF Owns
  <1>4. s \notin {"compare", "undelete", "delete"}
      BY DEF NewSteps
  <1>5. Placed(c)'
      BY <1>1 DEF Placed, NewSteps
  <1>6. Asked(c)'
      BY <1>2 DEF Asked
  <1>7. Aimed(c)'
    <2>1. s \in NewSteps => pc[c] \in NewSteps
        BY DEF NewSteps
    <2>2. s \in NewSteps => target'[c] # 0 /\ IsNew(db', target'[c])
        BY <1>2, <2>1 DEF Aimed
    <2>3. s = "insert associations" => IdentityFree(db', request'[c].identity)
        BY <1>1
    <2> QED
        BY <1>1, <1>4, <2>2, <2>3 DEF Aimed
  <1>8. ClientInv(c)'
      BY <1>1, <1>5, <1>6, <1>7 DEF ClientInv
  <1> QED
      BY <1>3, <1>8, QuietContent

\* Restoring and deleting are single statements.
LEMMA MarkingContent ==
    ASSUME IInv, ContentInv, NEW c \in Clients, Undelete(c) \/ Delete(c)
    PROVE  ContentInv'
  <1>1. /\ UNCHANGED <<db, version, saved, issued, request, target>>
        /\ writer \in {NoClient, c}
        /\ pc' = [pc EXCEPT ![c] = "commit"]
      BY DEF Undelete, Delete, Begin, Goto
  <1>2. Aimed(c) /\ KindFits(pc[c], request[c].kind)
      BY DEF ContentInv, ClientInv, IInv, ControlInv
  <1>3. CASE Undelete(c)
    <2>1. pc[c] = "undelete" /\ draft' = Undeleted(db, target[c])
        BY <1>3 DEF Undelete, Begin, Undeleted
    <2>2. Restorable(db, target[c], request[c]) /\ request[c].kind = "save experiment"
        BY <1>2, <2>1 DEF Aimed, KindFits
    <2>3. ~IsNew(db, target[c])
        BY <2>2 DEF Restorable, IsNew, HasExperiment
    <2>4. Restores(c, draft)'
        BY <1>1, <2>1, <2>2 DEF Restores
    <2>5. pc'[c] = "commit" => Staged(c)'
        BY <2>4 DEF Staged, Operates
    <2> QED
        BY <1>1, <2>3, <2>5, StatementContent
  <1>4. CASE Delete(c)
    <2>1. pc[c] = "delete" /\ draft' = Deleted(db, target[c])
        BY <1>4 DEF Delete, Begin, Deleted
    <2>2. HasExperiment(db, target[c]) /\ request[c].kind = "delete"
        BY <1>2, <2>1 DEF Aimed, KindFits
    <2>3. ~IsNew(db, target[c])
        BY <2>2 DEF IsNew
    <2>4. Withdraws(c, draft)'
        BY <1>1, <2>1, <2>2 DEF Withdraws
    <2>5. pc'[c] = "commit" => Staged(c)'
        BY <2>4 DEF Staged, Operates
    <2> QED
        BY <1>1, <2>3, <2>5, StatementContent
  <1> QED
      BY <1>3, <1>4

\* Saving an experiment takes two statements.
LEMMA PublishingContent ==
    ASSUME IInv, ContentInv, NEW c \in Clients, InsertExperiment(c) \/ InsertAssociations(c)
    PROVE  ContentInv'
  <1>1. Aimed(c) /\ Staged(c) /\ KindFits(pc[c], request[c].kind)
      BY DEF ContentInv, ClientInv, IInv, ControlInv
  <1>2. CASE InsertExperiment(c) /\ ~Rollback(c)
    <2>1. /\ UNCHANGED <<db, version, saved, issued, request, target>>
          /\ writer \in {NoClient, c} /\ pc[c] = "insert experiment"
          /\ pc' = [pc EXCEPT ![c] = "insert associations"]
          /\ ~IdentityTaken(c)
        BY <1>2 DEF InsertExperiment, Begin, Goto
    <2>2. draft' = WithExperiment(db, target[c], request[c])
        BY <1>2 DEF InsertExperiment, Begin, WithExperiment, NewExperiment
    <2>3. IdentityFree(db, request[c].identity)
        BY <2>1 DEF IdentityFree, IdentityTaken, Where
    <2>4. draft' = WithExperiment(db', target'[c], request'[c])
        BY <2>1, <2>2
    <2>5. pc'[c] = "insert associations" => Staged(c)'
        BY <2>4 DEF Staged
    <2>6. pc[c] \in NewSteps /\ "insert associations" \in NewSteps \union {"commit"}
        BY <2>1 DEF NewSteps
    <2> QED
        BY <2>1, <2>3, <2>5, <2>6, StatementContent
  <1>3. CASE InsertAssociations(c)
    <2>1. /\ UNCHANGED <<db, version, saved, issued, request, target>>
          /\ writer \in {NoClient, c} /\ pc[c] = "insert associations"
          /\ pc' = [pc EXCEPT ![c] = "commit"]
        BY <1>3 DEF InsertAssociations, Write, Goto
    <2>2. /\ draft = WithExperiment(db, target[c], request[c])
          /\ target[c] # 0 /\ IsNew(db, target[c]) /\ IdentityFree(db, request[c].identity)
          /\ request[c].kind = "save experiment"
        BY <1>1, <2>1 DEF Staged, Aimed, NewSteps, KindFits
    <2>3. draft' = Published(db, target[c], request[c])
        BY <1>3, <2>2 DEF InsertAssociations, Write, Published, CohortRows
    <2>4. Publishes(c, draft)'
        BY <2>1, <2>2, <2>3 DEF Publishes
    <2>5. pc'[c] = "commit" => Staged(c)'
        BY <2>4 DEF Staged, Operates
    <2>6. pc[c] \in NewSteps /\ "commit" # "insert associations"
        BY <2>1 DEF NewSteps
    <2> QED
        BY <2>1, <2>5, <2>6, StatementContent
  <1> QED
      BY <1>2, <1>3, RollbackContent

\* Saving a plan takes two statements.
LEMMA PlanningContent ==
    ASSUME IInv, ContentInv, NEW c \in Clients, InsertPlan(c) \/ InsertUnits(c)
    PROVE  ContentInv'
  <1>1. Aimed(c) /\ Staged(c) /\ KindFits(pc[c], request[c].kind)
      BY DEF ContentInv, ClientInv, IInv, ControlInv
  <1>2. CASE InsertPlan(c)
    <2>1. /\ UNCHANGED <<db, version, saved, issued, request, target>>
          /\ writer \in {NoClient, c} /\ pc[c] = "insert plan"
          /\ pc' = [pc EXCEPT ![c] = "insert units"]
        BY <1>2 DEF InsertPlan, Begin, Goto
    <2>2. draft' = WithPlan(db, target[c], request[c], version)
        BY <1>2 DEF InsertPlan, Begin, WithPlan, NewPlan
    <2>3. draft' = WithPlan(db', target'[c], request'[c], version')
        BY <2>1, <2>2
    <2>4. pc'[c] = "insert units" => Staged(c)'
        BY <2>3 DEF Staged
    <2>5. /\ pc[c] \in NewSteps /\ "insert units" \in NewSteps \union {"commit"}
          /\ "insert units" # "insert associations"
        BY <2>1 DEF NewSteps
    <2> QED
        BY <2>1, <2>4, <2>5, StatementContent
  <1>3. CASE InsertUnits(c)
    <2>1. /\ UNCHANGED <<db, version, saved, issued, request, target>>
          /\ writer \in {NoClient, c} /\ pc[c] = "insert units"
          /\ pc' = [pc EXCEPT ![c] = "commit"]
        BY <1>3 DEF InsertUnits, Write, Goto
    <2>2. /\ draft = WithPlan(db, target[c], request[c], version)
          /\ target[c] # 0 /\ IsNew(db, target[c])
          /\ request[c].kind = "save plan"
        BY <1>1, <2>1 DEF Staged, Aimed, NewSteps, KindFits
    <2>3. draft' = Planned(db, target[c], request[c], version)
        BY <1>3, <2>2 DEF InsertUnits, Write, Planned, CohortsOfUnits
    <2>4. AddsPlan(c, draft)'
        BY <2>1, <2>2, <2>3 DEF AddsPlan
    <2>5. pc'[c] = "commit" => Staged(c)'
        BY <2>4 DEF Staged, Operates
    <2>6. pc[c] \in NewSteps /\ "commit" # "insert associations"
        BY <2>1 DEF NewSteps
    <2> QED
        BY <2>1, <2>5, <2>6, StatementContent
  <1> QED
      BY <1>2, <1>3

\* Saving a result takes two statements.
LEMMA RecordingContent ==
    ASSUME IInv, ContentInv, NEW c \in Clients, CompletePlan(c) \/ InsertResult(c)
    PROVE  ContentInv'
  <1>1. Aimed(c) /\ Staged(c) /\ KindFits(pc[c], request[c].kind)
      BY DEF ContentInv, ClientInv, IInv, ControlInv
  <1>2. CASE CompletePlan(c)
    <2>1. /\ UNCHANGED <<db, version, saved, issued, request, target>>
          /\ writer \in {NoClient, c} /\ pc[c] = "complete plan"
          /\ pc' = [pc EXCEPT ![c] = "insert result"]
        BY <1>2 DEF CompletePlan, Begin, Goto
    <2>2. draft' = Completing(db, request[c])
        BY <1>2 DEF CompletePlan, Begin, Completing
    <2>3. draft' = Completing(db', request'[c])
        BY <2>1, <2>2
    <2>4. pc'[c] = "insert result" => Staged(c)'
        BY <2>3 DEF Staged
    <2>5. /\ pc[c] \in NewSteps /\ "insert result" \in NewSteps \union {"commit"}
          /\ "insert result" # "insert associations"
        BY <2>1 DEF NewSteps
    <2> QED
        BY <2>1, <2>4, <2>5, StatementContent
  <1>3. CASE InsertResult(c) /\ ~Rollback(c)
    <2>1. /\ UNCHANGED <<db, version, saved, issued, request, target>>
          /\ writer \in {NoClient, c} /\ pc[c] = "insert result"
          /\ pc' = [pc EXCEPT ![c] = "commit"]
          /\ ~HasResult(c)
        BY <1>3 DEF InsertResult, Write, Goto
    <2>2. /\ draft = Completing(db, request[c])
          /\ target[c] # 0 /\ IsNew(db, target[c])
          /\ request[c].kind = "save result"
        BY <1>1, <2>1 DEF Staged, Aimed, NewSteps, KindFits
    <2>3. draft' = Recorded(db, target[c], request[c])
        BY <1>3, <2>2 DEF InsertResult, Write, Recorded, NewResult
    <2>4. draft.results = db.results
        BY <2>2, Opening DEF Completing, IsDatabase, Tables
    <2>5. ~HasOutcome(db, request[c].id)
        BY <2>1, <2>4 DEF HasResult, HasOutcome, Where
    <2>6. Records(c, draft)'
        BY <2>1, <2>2, <2>3, <2>5 DEF Records
    <2>7. pc'[c] = "commit" => Staged(c)'
        BY <2>6 DEF Staged, Operates
    <2>8. pc[c] \in NewSteps /\ "commit" # "insert associations"
        BY <2>1 DEF NewSteps
    <2> QED
        BY <2>1, <2>7, <2>8, StatementContent
  <1> QED
      BY <1>2, <1>3, RollbackContent

\* Clients that find the database locked.
LEMMA LockedContent ==
    ASSUME IInv, ContentInv, NEW c \in Clients, Locked(c)
    PROVE  ContentInv'
  <1>1. UNCHANGED <<db, draft, version, saved, issued, request, target>>
      BY DEF Locked, store
  <1>2. CASE pc' = pc
    <2>1. \A d \in Clients : ClientInv(d)'
        BY <1>1, <1>2, OthersStay
    <2>2. \A d \in Clients : Owns(d)' => Owns(d) /\ target'[d] = target[d]
        BY <1>1, <1>2 DEF Owns
    <2>3. Numbered'
        BY <1>1, <2>2, OwnsLess
    <2>4. Whole(db, saved)' /\ Dated(db, version)' /\ version' \in Nat
        BY <1>1 DEF ContentInv
    <2> QED
        BY <2>1, <2>3, <2>4 DEF ContentInv
  <1>3. CASE pc' = [pc EXCEPT ![c] = "answered"]
    <2>1. pc'[c] = "answered" /\ "answered" \notin NewSteps
        BY <1>3 DEF IInv, ControlInv, NewSteps
    <2>2. Placed(c)'
        BY <2>1, PlacedAnywhere
    <2> QED
        BY <1>1, <1>3, <2>1, <2>2, LeavingContent
  <1> QED
      BY <1>2, <1>3 DEF Locked, Answer

\* Every step keeps the content.
LEMMA StepContent ==
    ASSUME IInv, IInv', ContentInv, [Next]_vars
    PROVE  ContentInv'
  <1>1. CASE UNCHANGED vars
    <2>1. UNCHANGED <<db, draft, version, saved, issued, request, target, pc>>
        BY <1>1 DEF vars, client
    <2>2. \A d \in Clients : ClientInv(d)'
        BY <2>1, OthersStay
    <2>3. \A d \in Clients : Owns(d)' => Owns(d) /\ target'[d] = target[d]
        BY <2>1 DEF Owns
    <2>4. Numbered'
        BY <2>1, <2>3, OwnsLess
    <2>5. Whole(db, saved)' /\ Dated(db, version)' /\ version' \in Nat
        BY <2>1 DEF ContentInv
    <2> QED
        BY <2>2, <2>4, <2>5 DEF ContentInv
  <1>2. ASSUME NEW c \in Clients, Asks(c) \/ Steps(c) \/ Crash(c) PROVE ContentInv'
      BY <1>2, AsksContent, ReadingContent, ChoosingContent, MarkingContent, PublishingContent,
         PlanningContent, RecordingContent, LockedContent, CommitContent, ForgettingContent
         DEF Steps, ReadingSteps
  <1> QED
      BY <1>1, <1>2 DEF Next

\* Nothing is stored at first.
LEMMA InitContent == ASSUME Init PROVE ContentInv
  <1>1. /\ db = EmptyDatabase /\ version = 0 /\ issued = 0 /\ saved = {}
        /\ \A c \in Clients : pc[c] = "idle" /\ request[c] = NoRequest
      BY DEF Init
  <1>2. \A t \in Tables : db[t] = {}
      BY <1>1 DEF EmptyDatabase
  <1>3. Whole(db, saved)
    <2>1. /\ db.experiments = {} /\ db.links = {} /\ db.cohorts = {} /\ db.plans = {}
          /\ db.units = {} /\ db.results = {} /\ db.simulations = {}
        BY <1>2 DEF Tables
    <2>2. IsDatabase(db) /\ DOMAIN db = Tables
        BY <1>1 DEF EmptyDatabase, IsDatabase
    <2>3. db \in DatabaseType
        BY <2>1, <2>2, TablesTyped DEF Keyed
    <2> QED
        BY <2>1, <2>2, <2>3 DEF Whole, Keyed, Linked, Identified, AsSaved
  <1>4. Dated(db, version) /\ version \in Nat /\ Numbered
    <2>1. db.plans = {} /\ db.experiments = {} /\ db.results = {}
        BY <1>2 DEF Tables
    <2>2. \A c \in Clients : ~Owns(c)
        BY <1>1 DEF Owns, NewSteps
    <2> QED
        BY <1>1, <2>1, <2>2 DEF Dated, Numbered
  <1>5. \A c \in Clients : ClientInv(c)
    <2> SUFFICES ASSUME NEW c \in Clients PROVE ClientInv(c)
        OBVIOUS
    <2>1. pc[c] = "idle" /\ request[c].kind = "none"
        BY <1>1 DEF NoRequest
    <2>2. Asked(c) /\ Placed(c)
        BY <2>1 DEF Asked, Placed
    <2>3. Aimed(c) /\ Staged(c)
        BY <2>1 DEF Aimed, Staged, NewSteps
    <2> QED
        BY <2>2, <2>3 DEF ClientInv
  <1> QED
      BY <1>3, <1>4, <1>5 DEF ContentInv

\* The tables are whole in every reachable state, and transactions are as far as
\* their clients are.
THEOREM ContentInductive == Spec => []ContentInv
  <1>1. Init => ContentInv
      BY InitContent
  <1>2. IInv /\ IInv' /\ ContentInv /\ [Next]_vars => ContentInv'
      BY StepContent
  <1> QED
      BY <1>1, <1>2, Inductive, PTL DEF Spec

----------------------------------------------------------------------------
(* What follows about the tables of every reachable state.                 *)

\* However clients race and wherever they die, each experiment, plan and result
\* that is stored comes with everything that one save of it asked for, and with
\* nothing else.
THEOREM StoredCorrect == Spec => []StoredIsSaved
  <1>1. ContentInv => StoredIsSaved
    <2> SUFFICES ASSUME ContentInv PROVE StoredIsSaved
        OBVIOUS
    <2>1. AsSaved(db, saved)
        BY DEF ContentInv, Whole
    <2>2. \A id, kind : SavedAs(id, kind) = SavesOf(saved, id, kind)
        BY DEF SavedAs, SavesOf
    <2> QED
        BY <2>1, <2>2 DEF AsSaved, AsSavedExperiment, AsSavedPlan, AsSavedResult, StoredIsSaved
  <1> QED
      BY <1>1, ContentInductive, PTL

\* The latest of some plans is one of them.
LEMMA LatestIsOne ==
    ASSUME NEW d, NEW v \in Nat, Dated(d, v), NEW plans, plans \subseteq d.plans, plans # {}
    PROVE  Latest(plans) \in plans
  <1> DEFINE times == {p.created : p \in plans}
  <1>1. \A p \in plans : p.created \in Nat /\ p.created <= v
      BY DEF Dated
  <1>2. \A i \in Nat : i <= v => i \in 0 .. v
      OBVIOUS
  <1>3. times \in SUBSET (0 .. v) /\ times # {}
      BY <1>1, <1>2
  <1>4. PICK m \in times : \A i \in times : i <= m
    <2> HIDE DEF times
    <2> QED
        BY <1>3, GreatestNumber
  <1>5. PICK p \in plans : p.created = m
      BY <1>4
  <1>6. \A q \in plans : q.created <= p.created
      BY <1>4, <1>5
  <1> QED
      BY <1>6 DEF Latest

\* A result that is stored does not count more successes than simulations.
LEMMA SuccessesCounted ==
    ASSUME NEW d, NEW s, Whole(d, s), NEW r \in d.results
    PROVE  r.successes <= r.total
  <1>1. PICK q : AsSavedResult(d, r, q)
      BY DEF Whole, AsSaved
  <1> DEFINE sims == q.simulations
             wins == {k \in DOMAIN sims : sims[k].success}
  <1>2. sims \in Seq(SimulationType)
      BY <1>1, SavedResult DEF AsSavedResult
  <1>3. r.successes = Cardinality(wins) /\ r.total = Len(sims)
      BY <1>1 DEF AsSavedResult
  <1>4. Len(sims) \in Nat /\ wins \in SUBSET (1 .. Len(sims))
    <2> HIDE DEF sims
    <2> QED
        BY <1>2
  <1> HIDE DEF wins, sims
  <1> QED
      BY <1>3, <1>4, SomeOfSequence

\* Whatever the queries are asked between two steps, they agree: a plan that is
\* found for an experiment is listed and its result leads back to it; a study
\* that is found is listed with one of its own plans.
THEOREM QueriesCorrect == Spec => []QueriesAgree
  <1>1. IInv /\ ContentInv => QueriesAgree
    <2> SUFFICES ASSUME IInv, ContentInv PROVE QueriesAgree
        OBVIOUS
    <2>1. version \in Nat /\ Dated(db, version) /\ Whole(db, saved) /\ Identified(db)
        BY DEF ContentInv, Whole
    <2>2. ASSUME NEW plans, plans \subseteq db.plans, plans # {}
          PROVE  Latest(plans) \in plans
        BY <2>1, <2>2, LatestIsOne
    <2>3. ASSUME NEW e \in db.experiments, NEW id \in FindPlanByExperiment(db, e.id)
          PROVE  /\ id \in {p.id : p \in ListPlansForExperiment(db, e.id)}
                 /\ \E r \in FindResultByPlan(db, id) : FindPlanByResult(db, r) = {id}
                 /\ \A x \in GetExecutionResultMetadata(db, id) : x.successes <= x.total
      <3> DEFINE plans == {p \in ListPlansForExperiment(db, e.id) : p.completed}
      <3>1. plans # {} /\ id = Latest(plans).id
          BY <2>3 DEF FindPlanByExperiment
      <3>2. ListPlansForExperiment(db, e.id) \subseteq db.plans
          BY DEF ListPlansForExperiment, Active, Where
      <3>3. plans \subseteq db.plans
          BY <3>2
      <3>4. Latest(plans) \in plans
        <4> HIDE DEF plans
        <4> QED
            BY <2>2, <3>1, <3>3
      <3>5. PICK p \in ListPlansForExperiment(db, e.id) : p.completed /\ p.id = id
          BY <3>1, <3>4
      <3>6. HasOutcome(db, id)
          BY <3>2, <3>5 DEF IInv, MatchInv, Matched
      <3>7. PICK r \in db.results : r.plan = id
          BY <3>6 DEF HasOutcome
      <3>8. r.id \in FindResultByPlan(db, id)
          BY <3>7 DEF FindResultByPlan, Where
      <3>9. \A x \in db.results : x.id = r.id => x = r
          BY <2>1 DEF Identified
      <3>10. FindPlanByResult(db, r.id) = {id}
          BY <3>7, <3>9 DEF FindPlanByResult, ById, Where
      <3>11. \A x \in GetExecutionResultMetadata(db, id) : x.successes <= x.total
          BY <2>1, SuccessesCounted DEF GetExecutionResultMetadata, Where
      <3> QED
          BY <3>5, <3>8, <3>10, <3>11
    <2> DEFINE Shown(e) ==
                   LET plans == Active(Where(db.plans, "experiment", e.id))
                   IN  IF plans = {} THEN {} ELSE {Latest(plans)}
               entry(e) == [experiment |-> e.id, plan |-> Shown(e)]
    <2>4. ListExperimentsWithPlans(db) = {entry(e) : e \in Active(db.experiments)}
        BY DEF ListExperimentsWithPlans
    <2>5. \A e : Shown(e) \subseteq ListPlansForExperiment(db, e.id)
      <3> SUFFICES ASSUME NEW e PROVE Shown(e) \subseteq ListPlansForExperiment(db, e.id)
          OBVIOUS
      <3> DEFINE plans == Active(Where(db.plans, "experiment", e.id))
      <3>1. plans \subseteq db.plans /\ plans = ListPlansForExperiment(db, e.id)
          BY DEF ListPlansForExperiment, Active, Where
      <3>2. Shown(e) = IF plans = {} THEN {} ELSE {Latest(plans)}
          OBVIOUS
      <3> HIDE DEF plans, Shown
      <3>3. plans # {} => Latest(plans) \in plans
          BY <2>2, <3>1
      <3> QED
          BY <3>1, <3>2, <3>3
    <2> HIDE DEF Shown
    <2>6. \A e : entry(e).experiment = e.id /\ entry(e).plan = Shown(e)
        OBVIOUS
    <2> HIDE DEF entry
    <2>7. \A e \in db.experiments :
              GetExperimentMetadata(db, e.id) # {} <=>
                  e.id \in {x.experiment : x \in ListExperimentsWithPlans(db)}
      <3> SUFFICES ASSUME NEW e \in db.experiments
                   PROVE  GetExperimentMetadata(db, e.id) # {} <=>
                              \E f \in Active(db.experiments) : f.id = e.id
          BY <2>4, <2>6, ZenonT(30)
      <3> QED
          BY DEF GetExperimentMetadata, Active, ById, Where
    <2>8. ASSUME NEW name \in Names, NEW id \in FindExperimentByName(db, name)
          PROVE  \E x \in ListExperimentsWithPlans(db) :
                     x.experiment = id /\ x.plan \subseteq ListPlansForExperiment(db, id)
      <3>1. PICK e \in Active(db.experiments) : e.id = id
          BY <2>8 DEF FindExperimentByName
      <3>2. entry(e) \in ListExperimentsWithPlans(db)
          BY <2>4
      <3> QED
          BY <2>5, <2>6, <3>1, <3>2
    <2> QED
        BY <2>3, <2>7, <2>8 DEF QueriesAgree
  <1> QED
      BY <1>1, ContentInductive, Inductive, PTL

----------------------------------------------------------------------------
(* What steps do to the tables.                                            *)

\* Only commits change the tables that others see.
LEMMA OnlyCommitsChange ==
    ASSUME [Next]_vars
    PROVE  db' = db \/ \E c \in Clients : Commit(c)
  <1>1. CASE UNCHANGED vars
      BY <1>1 DEF vars
  <1>2. ASSUME NEW c \in Clients, Asks(c) \/ Steps(c) \/ Crash(c)
        PROVE  db' = db \/ Commit(c)
    <2>1. CASE Asks(c)
        BY <2>1 DEF Asks, Ask, SaveExperiment, DeleteExperiment, LoadExperiment, GetExportData,
                    SavePlan, LoadPlan, LoadResult, SaveResult, store
    <2>2. CASE Crash(c)
        BY <2>2 DEF Crash
    <2>3. CASE CheckIdentity(c) \/ Compare(c) \/ FindDeleted(c) \/ Locked(c) \/ LockedOut(c) \/ Receive(c)
        BY <2>3 DEF CheckIdentity, Compare, FindDeleted, Locked, LockedOut, Receive, Read, store
    <2>4. CASE Undelete(c) \/ Delete(c) \/ InsertPlan(c) \/ CompletePlan(c)
        BY <2>4 DEF Undelete, Delete, InsertPlan, CompletePlan, Begin
    <2>5. CASE InsertExperiment(c) \/ InsertResult(c)
        BY <2>5 DEF InsertExperiment, InsertResult, Begin, Write, Rollback
    <2>6. CASE InsertAssociations(c) \/ InsertUnits(c)
        BY <2>6 DEF InsertAssociations, InsertUnits, Write
    <2>7. CASE ReadExperiment(c) \/ ReadPolicies(c) \/ ReadCohorts(c) \/ ReadPlan(c) \/ ReadUnits(c)
        BY <2>7 DEF ReadExperiment, ReadPolicies, ReadCohorts, ReadPlan, ReadUnits, Read, store
    <2>8. CASE CheckStatus(c) \/ ReadResult(c) \/ ReadSimulations(c)
        BY <2>8 DEF CheckStatus, ReadResult, ReadSimulations, Read, store
    <2>9. CASE ExportExperiment(c) \/ ExportPlan(c) \/ ExportResult(c) \/ ExportRows(c)
        BY <2>9 DEF ExportExperiment, ExportPlan, ExportResult, ExportRows, Read, store
    <2> QED
        BY <1>2, <2>1, <2>2, <2>3, <2>4, <2>5, <2>6, <2>7, <2>8, <2>9 DEF Steps
  <1> QED
      BY <1>1, <1>2 DEF Next

\* A change of the tables is one operation, done as a whole.
LEMMA ChangesAreOperations ==
    ASSUME IInv, ContentInv, [Next]_vars, db' # db
    PROVE  /\ Keyed(db') /\ Grows(db, db')
           /\ \E c \in Clients :
                 /\ Operates(c, db') /\ Asked(c) /\ Commit(c) /\ target[c] \in Nat
  <1>1. PICK c \in Clients : Commit(c)
      BY OnlyCommitsChange
  <1>2. pc[c] = "commit" /\ db' = draft
      BY <1>1 DEF Commit
  <1>3. ClientInv(c) /\ target[c] \in Nat
      BY DEF ContentInv, IInv, IdsInv
  <1>4. Operates(c, draft) /\ Asked(c)
      BY <1>2, <1>3 DEF ClientInv, Staged
  <1>5. Keyed(draft)
      BY DEF IInv
  <1>6. PICK t : saved \subseteq t /\ [id |-> target[c], request |-> request[c]] \in t
    <2> DEFINE t == saved \union {[id |-> target[c], request |-> request[c]]}
    <2>1. saved \subseteq t /\ [id |-> target[c], request |-> request[c]] \in t
        OBVIOUS
    <2> HIDE DEF t
    <2> QED
        BY <2>1
  <1>7. Grows(db, draft)
      BY <1>4, <1>5, <1>6, OperationIsWhole
  <1> QED
      BY <1>1, <1>2, <1>3, <1>4, <1>5, <1>7

\* No step of any client loses or rewrites what another has stored.
THEOREM NothingIsLostCorrect == Spec => NothingIsLost
  <1> DEFINE Kept ==
        /\ \A t \in {"links", "cohorts", "units", "results", "simulations"} : db[t] \subseteq db'[t]
        /\ ExperimentContent(db.experiments) \subseteq ExperimentContent(db.experiments)'
        /\ PlanContent(db.plans) \subseteq PlanContent(db.plans)'
        /\ \A p \in db.plans, q \in db'.plans : p.id = q.id =>
              (p.completed => q.completed) /\ (p.deleted => q.deleted)
  <1>1. IInv /\ ContentInv /\ [Next]_vars => [Kept]_vars
    <2> SUFFICES ASSUME IInv, ContentInv, [Next]_vars PROVE Kept
        OBVIOUS
    <2>1. CASE db' = db
      <3>1. \A p, q \in db.plans : p.id = q.id => p = q
          BY DEF IInv, Keyed
      <3> QED
          BY <2>1, <3>1
    <2>2. CASE db' # db
      <3>1. Keyed(db') /\ Grows(db, db')
          BY <2>2, ChangesAreOperations
      <3>2. /\ db.links \subseteq db'.links /\ db.cohorts \subseteq db'.cohorts
            /\ db.units \subseteq db'.units /\ db.results \subseteq db'.results
            /\ db.simulations \subseteq db'.simulations
          BY <3>1 DEF Grows
      <3>3. ExperimentContent(db.experiments) \subseteq ExperimentContent(db'.experiments)
          BY <3>1 DEF Grows, SameExperiment, ExperimentContent
      <3>4. PlanContent(db.plans) \subseteq PlanContent(db'.plans)
          BY <3>1 DEF Grows, SamePlan, PlanContent
      <3>5. \A p \in db.plans, q \in db'.plans : p.id = q.id =>
                (p.completed => q.completed) /\ (p.deleted => q.deleted)
        <4> SUFFICES ASSUME NEW p \in db.plans, NEW q \in db'.plans, p.id = q.id
                     PROVE  (p.completed => q.completed) /\ (p.deleted => q.deleted)
            OBVIOUS
        <4>1. PICK q2 \in db'.plans : SamePlan(p, q2)
            BY <3>1 DEF Grows
        <4>2. q2 = q
            BY <3>1, <4>1 DEF SamePlan, Keyed
        <4> QED
            BY <4>1, <4>2 DEF SamePlan
      <3> QED
          BY <3>2, <3>3, <3>4, <3>5
    <2> QED
        BY <2>1, <2>2
  <1> QED
      BY <1>1, ContentInductive, Inductive, PTL DEF Spec, NothingIsLost

\* A deleted experiment comes back only through a save of an equivalent one,
\* though others may have saved, deleted and restored since the comparison.
THEOREM RestoredCorrect == Spec => RestoredOnlyIfEquivalent
  <1> DEFINE Equivalent(e) ==
        \E c \in Clients :
           /\ request[c].kind = "save experiment"
           /\ request[c].identity = e.identity
           /\ LET x == request[c].definition
              IN  /\ e.config = x.config
                  /\ StoredForms(db, e.id) = FormsOf(x.policies)
                  /\ x.cohorts \subseteq StoredDates(db, e.id)
                  /\ StoredDates(db, e.id) \subseteq x.cohorts \union PlannedDates(db, e.id)
  <1>1. ASSUME IInv, ContentInv, [Next]_vars, NEW e \in db.experiments, e.deleted,
               [e EXCEPT !.deleted = FALSE] \in db'.experiments
        PROVE  Equivalent(e)
    <2> DEFINE back == [e EXCEPT !.deleted = FALSE]
    <2>0. Keyed(db) /\ Identified(db) /\ db \in DatabaseType
        BY <1>1 DEF ContentInv, Whole
    <2>1. Keyed(db) /\ Identified(db) /\ IsExperiment(e) /\ IsDatabase(db)
        BY <2>0 DEF Keyed
    <2>2. back.id = e.id /\ back.deleted = FALSE /\ back # e /\ back \in db'.experiments
        BY <1>1, <2>1 DEF IsExperiment
    <2> HIDE DEF back
    <2>3. back \notin db.experiments
        BY <2>1, <2>2 DEF Identified
    <2>4. db' # db
        BY <2>2, <2>3
    <2>5. PICK c \in Clients : Operates(c, db')
        BY <1>1, <2>4, ChangesAreOperations
    <2>6. CASE Publishes(c, db')
      <3>1. db'.experiments = db.experiments \union {NewExperiment(target[c], request[c])}
        <4>1. db' = Published(db, target[c], request[c])
            BY <2>6 DEF Publishes
        <4>2. Published(db, target[c], request[c]).experiments =
                  db.experiments \union {NewExperiment(target[c], request[c])}
            BY <2>1, PublishedTables
        <4> QED
            BY <4>1, <4>2
      <3>2. back.id = target[c]
          BY <2>2, <2>3, <3>1 DEF NewExperiment
      <3>3. IsNew(db, target[c])
          BY <2>6 DEF Publishes
      <3> QED
          BY <2>2, <3>2, <3>3 DEF IsNew, HasExperiment
    <2>7. CASE Restores(c, db')
      <3>1. PICK x \in db.experiments :
                back = IF x.id = target[c] THEN [x EXCEPT !.deleted = FALSE] ELSE x
        <4>1. db' = Undeleted(db, target[c])
            BY <2>7 DEF Restores
        <4>2. \A y \in Undeleted(db, target[c]).experiments : \E x \in db.experiments :
                  y = IF x.id = target[c] THEN [x EXCEPT !.deleted = FALSE] ELSE x
            BY <2>1, UndeletedIsMarked
        <4> QED
            BY <2>2, <4>1, <4>2
      <3>2. x.id = target[c]
          BY <2>3, <3>1
      <3>3. [x EXCEPT !.deleted = FALSE].id = x.id
          BY <2>1 DEF Keyed, IsExperiment
      <3>4. e.id = target[c]
          BY <2>2, <3>1, <3>2, <3>3
      <3>5. PICK y \in db.experiments :
                /\ y.id = target[c] /\ y.identity = request[c].identity
                /\ y.config = request[c].definition.config
                /\ StoredForms(db, y.id) = FormsOf(request[c].definition.policies)
                /\ request[c].definition.cohorts \subseteq StoredDates(db, y.id)
                /\ StoredDates(db, y.id) \subseteq
                      request[c].definition.cohorts \union PlannedDates(db, y.id)
          BY <2>7 DEF Restores, Restorable
      <3>6. y = e
          BY <2>1, <3>4, <3>5 DEF Identified
      <3> QED
          BY <2>7, <3>5, <3>6 DEF Restores
    <2>8. CASE Withdraws(c, db')
      <3>1. db'.experiments = MarkDeleted(db.experiments, "id", target[c])
          BY <2>1, <2>8, DeletedIsMarked DEF Withdraws
      <3>2. PICK x \in db.experiments :
                back = IF x.id = target[c] THEN [x EXCEPT !.deleted = TRUE] ELSE x
          BY <2>2, <3>1 DEF MarkDeleted
      <3>3. [x EXCEPT !.deleted = TRUE].deleted = TRUE
          BY <2>1 DEF Keyed, IsExperiment
      <3> QED
          BY <2>2, <2>3, <3>2, <3>3
    <2>9. CASE AddsPlan(c, db')
      <3>1. db' = Planned(db, target[c], request[c], version)
          BY <2>9 DEF AddsPlan
      <3>2. Planned(db, target[c], request[c], version).experiments = db.experiments
          BY <2>1, PlannedTables
      <3> QED
          BY <2>2, <2>3, <3>1, <3>2
    <2>10. CASE Records(c, db')
      <3>0. db' = Recorded(db, target[c], request[c])
          BY <2>10 DEF Records
      <3>1. Recorded(db, target[c], request[c]).experiments = Completing(db, request[c]).experiments
          BY <2>1, RecordedTables
      <3>2. Completing(db, request[c]).experiments = db.experiments
          BY <2>1, CompletingIsMarked
      <3> QED
          BY <2>2, <2>3, <3>0, <3>1, <3>2
    <2> QED
        BY <2>5, <2>6, <2>7, <2>8, <2>9, <2>10 DEF Operates
  <1> HIDE DEF Equivalent
  <1>2. IInv /\ ContentInv /\ [Next]_vars =>
            [\A e \in db.experiments :
                e.deleted /\ [e EXCEPT !.deleted = FALSE] \in db'.experiments => Equivalent(e)]_vars
      BY <1>1
  <1> USE DEF Equivalent
  <1> QED
      BY <1>2, ContentInductive, Inductive, PTL DEF Spec, RestoredOnlyIfEquivalent

----------------------------------------------------------------------------
(* What clients are told.                                                  *)

\* A table of the clients, and one that differs from another at a client only.
PerClient(f) == f = [c \in Clients |-> f[c]]
ButFor(c, f, g) == PerClient(g) /\ \A d \in Clients : d # c => g[d] = f[d]
PerClientInv == PerClient(outcome) /\ PerClient(tries) /\ PerClient(seen)

\* A step of a client changes nothing of the others.
AloneAt(c) ==
    /\ ButFor(c, pc, pc') /\ ButFor(c, request, request') /\ ButFor(c, target, target')
    /\ ButFor(c, outcome, outcome') /\ ButFor(c, tries, tries') /\ ButFor(c, seen, seen')

\* Nothing has changed but for a client, when nothing has.
LEMMA ButForItself == ASSUME NEW f, PerClient(f), NEW c \in Clients PROVE ButFor(c, f, f)
  BY DEF ButFor

\* A client's own entry may change.
LEMMA ButForOne ==
    ASSUME NEW f, PerClient(f), NEW c \in Clients, NEW v, NEW g, g = [f EXCEPT ![c] = v]
    PROVE  ButFor(c, f, g)
  BY DEF ButFor, PerClient

\* Where a client goes and what it is told.
LEMMA ToldAlone ==
    ASSUME IInv, PerClientInv, NEW c \in Clients, NEW s,
           Goto(c, s) \/ Answer(c, s)
    PROVE  ButFor(c, pc, pc') /\ ButFor(c, outcome, outcome')
  <1>1. PerClient(pc) /\ PerClient(outcome)
      BY DEF IInv, ControlInv, PerClientInv, PerClient
  <1> QED
      BY <1>1, ButForItself, ButForOne DEF Goto, Answer

\* Tables that a step leaves alone.
LEMMA KeptAlone ==
    ASSUME IInv, PerClientInv, NEW c \in Clients
    PROVE  /\ PerClient(pc) /\ PerClient(outcome) /\ PerClient(request) /\ PerClient(target)
           /\ PerClient(tries) /\ PerClient(seen)
           /\ request' = request => ButFor(c, request, request')
           /\ target' = target => ButFor(c, target, target')
           /\ tries' = tries => ButFor(c, tries, tries')
           /\ seen' = seen => ButFor(c, seen, seen')
  <1>1. /\ PerClient(pc) /\ PerClient(outcome) /\ PerClient(request) /\ PerClient(target)
        /\ PerClient(tries) /\ PerClient(seen)
      BY DEF IInv, ControlInv, PerClientInv, PerClient
  <1> QED
      BY <1>1, ButForItself

\* What a client has read is its own.
LEMMA SeenAlone ==
    ASSUME IInv, PerClientInv, NEW c \in Clients,
           ReadingSteps(c) \/ ReadCohorts(c)
    PROVE  ButFor(c, seen, seen')
  <1>1. PerClient(seen)
      BY DEF PerClientInv
  <1>2. \A d \in Clients : d # c => seen'[d] = seen[d]
      BY <1>1 DEF PerClient, ReadingSteps, Compare, LockedOut, ReadExperiment, ReadPolicies,
             ReadCohorts, ReadPlan, ReadUnits, ReadResult, ReadSimulations, ExportExperiment,
             ExportPlan, ExportResult, ExportRows
  <1>3. PerClient(seen')
      BY <1>1 DEF PerClient, ReadingSteps, Compare, LockedOut, ReadExperiment, ReadPolicies,
             ReadCohorts, ReadPlan, ReadUnits, ReadResult, ReadSimulations, ExportExperiment,
             ExportPlan, ExportResult, ExportRows
  <1> QED
      BY <1>2, <1>3 DEF ButFor

\* No step of a client touches what belongs to another.
LEMMA StepIsAlone ==
    ASSUME IInv, PerClientInv, NEW c \in Clients, Asks(c) \/ Steps(c) \/ Crash(c)
    PROVE  AloneAt(c)
  <1>1. \A f, g, v : PerClient(f) /\ g = [f EXCEPT ![c] = v] => ButFor(c, f, g)
      BY ButForOne
  <1>2. CASE ReadingSteps(c)
    <2>1. UNCHANGED <<request, target, tries>>
        BY <1>2 DEF ReadingSteps, Compare, LockedOut, ReadExperiment, ReadPolicies, ReadPlan,
               ReadUnits, ReadResult, ReadSimulations, ExportExperiment, ExportPlan,
               ExportResult, ExportRows, Read
    <2>2. \E s : Goto(c, s) \/ Answer(c, s)
        BY <1>2 DEF ReadingSteps, Compare, LockedOut, ReadExperiment, ReadPolicies, ReadPlan,
               ReadUnits, ReadResult, ReadSimulations, ExportExperiment, ExportPlan,
               ExportResult, ExportRows
    <2> QED
        BY <1>2, <2>1, <2>2, ToldAlone, KeptAlone, SeenAlone DEF AloneAt
  <1>3. CASE FindDeleted(c) \/ CheckIdentity(c) \/ ReadCohorts(c) \/ CheckStatus(c)
    <2>1. UNCHANGED <<request, tries>>
        BY <1>3 DEF FindDeleted, CheckIdentity, ReadCohorts, CheckStatus
    <2>2. \E s : Goto(c, s) \/ Answer(c, s)
        BY <1>3 DEF FindDeleted, CheckIdentity, ReadCohorts, CheckStatus
    <2>3. target' = target \/ \E t : target' = [target EXCEPT ![c] = t]
        BY <1>3 DEF FindDeleted, CheckIdentity, ReadCohorts, CheckStatus, Generate
    <2>4. seen' = seen \/ ReadCohorts(c)
        BY <1>3 DEF FindDeleted, CheckIdentity, CheckStatus
    <2> QED
        BY <1>1, <2>1, <2>2, <2>3, <2>4, ToldAlone, KeptAlone, SeenAlone DEF AloneAt
  <1>4. CASE \/ Undelete(c) \/ Delete(c) \/ InsertExperiment(c) \/ InsertAssociations(c)
             \/ InsertPlan(c) \/ InsertUnits(c) \/ CompletePlan(c) \/ InsertResult(c)
             \/ Commit(c)
    <2>1. UNCHANGED <<request, target, tries, seen>>
        BY <1>4 DEF Undelete, Delete, InsertExperiment, InsertAssociations, InsertPlan,
               InsertUnits, CompletePlan, InsertResult, Commit, Begin, Write, Rollback
    <2>2. \E s : Goto(c, s) \/ Answer(c, s)
        BY <1>4 DEF Undelete, Delete, InsertExperiment, InsertAssociations, InsertPlan,
               InsertUnits, CompletePlan, InsertResult, Commit, Rollback
    <2> QED
        BY <2>1, <2>2, ToldAlone, KeptAlone DEF AloneAt
  <1>5. CASE Locked(c)
    <2>1. UNCHANGED <<request, target, seen>> /\ tries' = [tries EXCEPT ![c] = tries[c] + 1]
        BY <1>5 DEF Locked
    <2>2. UNCHANGED <<pc, outcome>> \/ Answer(c, "locked")
        BY <1>5 DEF Locked
    <2>3. ButFor(c, pc, pc') /\ ButFor(c, outcome, outcome')
        BY <2>2, ToldAlone, KeptAlone, ButForItself
    <2> QED
        BY <1>1, <2>1, <2>3, KeptAlone DEF AloneAt
  <1>6. CASE Receive(c) \/ Crash(c)
    <2>1. Forget(c)
        BY <1>6 DEF Receive, Crash
    <2> QED
        BY <1>1, <2>1, KeptAlone DEF AloneAt, Forget
  <1>7. CASE Asks(c)
    <2>1. PICK s, r : Ask(c, s, r)
        BY <1>7 DEF Asks, SaveExperiment, DeleteExperiment, LoadExperiment, GetExportData,
               SavePlan, LoadPlan, LoadResult, SaveResult
    <2>2. /\ UNCHANGED <<target, tries, seen>> /\ request' = [request EXCEPT ![c] = r]
          /\ Goto(c, s)
        BY <2>1 DEF Ask
    <2> QED
        BY <1>1, <2>2, ToldAlone, KeptAlone DEF AloneAt
  <1> QED
      BY <1>2, <1>3, <1>4, <1>5, <1>6, <1>7 DEF Steps, ReadingSteps

\* What a client that saves finds when it is told that it has saved.
Stored(c) ==
    /\ request[c].kind = "save experiment" =>
          \E e \in db.experiments :
              /\ e.id = target[c] /\ e.identity = request[c].identity
              /\ e.config = request[c].definition.config
    /\ request[c].kind = "save plan" =>
          \E p \in db.plans : p.id = target[c] /\ p.count = Len(request[c].units)
    /\ request[c].kind = "save result" =>
          \E r \in db.results : r.id = target[c] /\ r.plan = request[c].id

\* What it finds when it is told that somebody else has.
Taken(c) ==
    \/ /\ request[c].kind = "save experiment"
       /\ \E e \in db.experiments : e.identity = request[c].identity /\ e.id # target[c]
    \/ /\ request[c].kind = "save result"
       /\ \E r \in db.results : r.plan = request[c].id /\ r.id # target[c]

Answered(c) ==
    /\ outcome[c] = "done" => Stored(c)
    /\ outcome[c] = "integrity" => Taken(c)
    /\ outcome[c] = "completed" => HasOutcome(db, request[c].id)
    /\ outcome[c] \in {"duplicate", "refused"} => ~IdentityFree(db, request[c].identity)

CountInv ==
    /\ requests \in 0 .. MaxRequests
    /\ \A c \in Clients : tries[c] \in 0 .. MaxTries
    /\ \A c \in Clients : pc[c] # "answered" => tries[c] < MaxTries

AnswersInv == PerClientInv /\ CountInv /\ \A c \in Clients : pc[c] = "answered" => Answered(c)

\* An answer stays true.
LEMMA AnswersStay ==
    ASSUME NEW d \in Clients, Answered(d), db' = db \/ Grows(db, db'),
           request'[d] = request[d], target'[d] = target[d], outcome'[d] = outcome[d]
    PROVE  Answered(d)'
  <1>1. \A e \in db.experiments : \E x \in db'.experiments : SameExperiment(e, x)
      BY DEF Grows, SameExperiment
  <1>2. \A p \in db.plans : \E q \in db'.plans : q.id = p.id /\ q.count = p.count
      BY DEF Grows, SamePlan
  <1>3. db.results \subseteq db'.results
      BY DEF Grows
  <1>4. Stored(d) => Stored(d)'
    <2> SUFFICES ASSUME Stored(d) PROVE Stored(d)'
        OBVIOUS
    <2>1. request[d].kind = "save experiment" =>
              \E e \in db'.experiments :
                  /\ e.id = target[d] /\ e.identity = request[d].identity
                  /\ e.config = request[d].definition.config
      <3> SUFFICES ASSUME request[d].kind = "save experiment"
                   PROVE  \E e \in db'.experiments :
                              /\ e.id = target[d] /\ e.identity = request[d].identity
                              /\ e.config = request[d].definition.config
          OBVIOUS
      <3>1. PICK e \in db.experiments :
                /\ e.id = target[d] /\ e.identity = request[d].identity
                /\ e.config = request[d].definition.config
          BY DEF Stored
      <3>2. PICK x \in db'.experiments : SameExperiment(e, x)
          BY <1>1
      <3> QED
          BY <3>1, <3>2 DEF SameExperiment
    <2>2. request[d].kind = "save plan" =>
              \E p \in db'.plans : p.id = target[d] /\ p.count = Len(request[d].units)
        BY <1>2 DEF Stored
    <2>3. request[d].kind = "save result" =>
              \E r \in db'.results : r.id = target[d] /\ r.plan = request[d].id
        BY <1>3 DEF Stored
    <2> QED
        BY <2>1, <2>2, <2>3 DEF Stored
  <1>5. Taken(d) => Taken(d)'
      BY <1>1, <1>3 DEF Taken, SameExperiment
  <1>6. HasOutcome(db, request[d].id) => HasOutcome(db, request[d].id)'
      BY <1>3 DEF HasOutcome
  <1>7. IdentityFree(db, request[d].identity)' => IdentityFree(db, request[d].identity)
      BY <1>1 DEF IdentityFree, SameExperiment
  <1> QED
      BY <1>4, <1>5, <1>6, <1>7 DEF Answered

\* A step of a client leaves the answers of the others as they are.
LEMMA AnswersOfOthers ==
    ASSUME IInv, ContentInv, AnswersInv, [Next]_vars, NEW c \in Clients, AloneAt(c),
           CountInv', pc'[c] = "answered" => Answered(c)'
    PROVE  AnswersInv'
  <1>1. db' = db \/ Grows(db, db')
      BY ChangesAreOperations
  <1>2. ASSUME NEW d \in Clients, pc'[d] = "answered" PROVE Answered(d)'
    <2>1. CASE d # c
      <3>1. /\ pc'[d] = pc[d] /\ request'[d] = request[d] /\ target'[d] = target[d]
            /\ outcome'[d] = outcome[d]
          BY <2>1 DEF AloneAt, ButFor
      <3>2. Answered(d)
          BY <1>2, <3>1 DEF AnswersInv
      <3> QED
          BY <1>1, <3>1, <3>2, AnswersStay
    <2> QED
        BY <1>2, <2>1
  <1>3. PerClientInv'
      BY DEF AloneAt, ButFor, PerClientInv
  <1> QED
      BY <1>2, <1>3 DEF AnswersInv

\* Requests and tries are only counted where the code counts them.
LEMMA CountStays ==
    ASSUME CountInv, NEW c \in Clients, AloneAt(c), requests' = requests,
           tries'[c] = tries[c], pc[c] # "answered"
    PROVE  CountInv'
  <1>1. \A d \in Clients : tries'[d] = tries[d] /\ (d # c => pc'[d] = pc[d])
      BY DEF AloneAt, ButFor
  <1> QED
      BY <1>1 DEF CountInv

\* A client that goes on, or is told nothing of what others have stored.
LEMMA NothingTold ==
    ASSUME IInv, PerClientInv, NEW c \in Clients, NEW s,
           \/ Goto(c, s) /\ s # "answered"
           \/ Answer(c, s) /\ s \notin {"done", "integrity", "completed", "duplicate", "refused"}
    PROVE  pc'[c] = "answered" => Answered(c)'
  <1>1. CASE Goto(c, s) /\ s # "answered"
      BY <1>1 DEF Goto, IInv, ControlInv
  <1>2. CASE Answer(c, s) /\ s \notin {"done", "integrity", "completed", "duplicate", "refused"}
    <2>1. outcome'[c] = s
        BY <1>2 DEF Answer, PerClientInv, PerClient
    <2> QED
        BY <1>2, <2>1 DEF Answered
  <1> QED
      BY <1>1, <1>2

\* Where a client goes when it is not answered.
LEMMA GoesOn ==
    ASSUME IInv, NEW c \in Clients
    PROVE  \A s : Goto(c, s) /\ s # "answered" => pc'[c] # "answered"
  BY DEF Goto, IInv, ControlInv

\* What a client is told that it is told.
LEMMA Told ==
    ASSUME IInv, PerClientInv, NEW c \in Clients, NEW s, Answer(c, s)
    PROVE  pc'[c] = "answered" /\ outcome'[c] = s
  BY DEF Answer, PerClientInv, PerClient, IInv, ControlInv

\* A reader is told what it reads.
LEMMA ReaderAnswered ==
    ASSUME IInv, ContentInv, AnswersInv, NEW c \in Clients, ReadingSteps(c)
    PROVE  /\ pc'[c] = "answered" => Answered(c)'
           /\ requests' = requests /\ tries' = tries /\ pc[c] # "answered"
  <1>1. /\ UNCHANGED <<db, request, target, requests, tries>> /\ pc[c] # "answered"
      BY DEF ReadingSteps, Compare, LockedOut, ReadExperiment, ReadPolicies, ReadPlan,
             ReadUnits, ReadResult, ReadSimulations, ExportExperiment, ExportPlan,
             ExportResult, ExportRows, Read, store
  <1>2. PerClientInv /\ Placed(c) /\ Aimed(c) /\ KindFits(pc[c], request[c].kind)
      BY DEF AnswersInv, ContentInv, ClientInv, IInv, ControlInv
  <1>3. CASE ReadUnits(c) \/ ExportRows(c)
    <2>1. Answer(c, "done") /\ pc[c] \in {"read units", "export rows"}
        BY <1>3 DEF ReadUnits, ExportRows
    <2>2. outcome'[c] = "done"
        BY <1>2, <2>1, Told
    <2>3. request[c].kind \in {"load plan", "load result", "export"}
        BY <1>2, <2>1 DEF Placed
    <2>4. Stored(c)'
        BY <1>1, <2>3 DEF Stored
    <2> QED
        BY <1>1, <2>2, <2>4 DEF Answered
  <1>4. CASE Compare(c) /\ Answer(c, "refused")
    <2>1. pc[c] = "compare" /\ outcome'[c] = "refused"
        BY <1>2, <1>4, Told DEF Compare
    <2>2. ~IdentityFree(db, request[c].identity)
        BY <1>2, <2>1 DEF Aimed, IdentityFree
    <2> QED
        BY <1>1, <2>1, <2>2 DEF Answered
  <1>5. CASE ReadingSteps(c) /\ ~(ReadUnits(c) \/ ExportRows(c)) /\ ~(Compare(c) /\ Answer(c, "refused"))
    <2>1. \/ Goto(c, "undelete") \/ Goto(c, "read policies") \/ Goto(c, "read cohorts")
          \/ Goto(c, "read experiment") \/ Goto(c, "read simulations") \/ Goto(c, "read plan")
          \/ Goto(c, "export plan") \/ Goto(c, "export result") \/ Goto(c, "export rows")
          \/ Answer(c, "missing") \/ Answer(c, "locked")
      <3>1. CASE Compare(c) \/ LockedOut(c) \/ ReadExperiment(c) \/ ReadPolicies(c)
          BY <1>5, <3>1 DEF Compare, LockedOut, ReadExperiment, ReadPolicies
      <3>2. CASE ReadPlan(c) \/ ReadResult(c) \/ ReadSimulations(c)
          BY <1>5, <3>2 DEF ReadPlan, ReadResult, ReadSimulations
      <3>3. CASE ExportExperiment(c) \/ ExportPlan(c) \/ ExportResult(c)
          BY <1>5, <3>3 DEF ExportExperiment, ExportPlan, ExportResult
      <3> QED
          BY <1>5, <3>1, <3>2, <3>3 DEF ReadingSteps
    <2>2. CASE Answer(c, "missing") \/ Answer(c, "locked")
      <3>1. pc'[c] = "answered" => Answered(c)'
          BY <1>2, <2>2, NothingTold
      <3> QED
          BY <1>1, <3>1
    <2>3. CASE ~(Answer(c, "missing") \/ Answer(c, "locked"))
      <3>1. pc'[c] # "answered"
          BY <2>1, <2>3, GoesOn
      <3> QED
          BY <1>1, <3>1
    <2> QED
        BY <2>2, <2>3
  <1> QED
      BY <1>3, <1>4, <1>5

\* A client is told what it has found before its transaction.
LEMMA ChooserAnswered ==
    ASSUME IInv, ContentInv, AnswersInv, NEW c \in Clients,
           FindDeleted(c) \/ CheckIdentity(c) \/ ReadCohorts(c) \/ CheckStatus(c)
    PROVE  /\ pc'[c] = "answered" => Answered(c)'
           /\ requests' = requests /\ tries' = tries /\ pc[c] # "answered"
  <1>1. /\ UNCHANGED <<db, request, requests, tries>> /\ pc[c] # "answered"
      BY DEF FindDeleted, CheckIdentity, ReadCohorts, CheckStatus, store
  <1>2. PerClientInv
      BY DEF AnswersInv
  <1>3. CASE FindDeleted(c)
    <2>1. Goto(c, "delete") \/ Answer(c, "missing")
        BY <1>3 DEF FindDeleted
    <2> QED
        BY <1>1, <1>2, <2>1, NothingTold
  <1>4. CASE CheckIdentity(c)
    <2>1. \/ Goto(c, "insert experiment") \/ Goto(c, "compare")
          \/ /\ Answer(c, "duplicate")
             /\ \E row \in db.experiments : row.identity = request[c].identity
        BY <1>4 DEF CheckIdentity, Where
    <2>2. CASE /\ Answer(c, "duplicate")
               /\ \E row \in db.experiments : row.identity = request[c].identity
      <3>1. outcome'[c] = "duplicate"
          BY <1>2, <2>2, Told
      <3>2. ~IdentityFree(db', request'[c].identity)
          BY <1>1, <2>2 DEF IdentityFree
      <3> QED
          BY <1>1, <3>1, <3>2 DEF Answered
    <2>3. Goto(c, "insert experiment") \/ Goto(c, "compare") => pc'[c] # "answered"
        BY GoesOn
    <2> QED
        BY <1>1, <2>1, <2>2, <2>3
  <1>5. CASE ReadCohorts(c)
    <2>1. \/ Goto(c, "insert plan") \/ Goto(c, "read units")
          \/ Answer(c, "done") /\ request[c].kind = "load experiment"
        BY <1>5 DEF ReadCohorts
    <2>2. CASE Answer(c, "done") /\ request[c].kind = "load experiment"
      <3>1. outcome'[c] = "done"
          BY <1>2, <2>2, Told
      <3>2. Stored(c)'
          BY <1>1, <2>2 DEF Stored
      <3> QED
          BY <1>1, <3>1, <3>2 DEF Answered
    <2>3. Goto(c, "insert plan") \/ Goto(c, "read units") => pc'[c] # "answered"
        BY GoesOn
    <2> QED
        BY <1>1, <2>1, <2>2, <2>3
  <1>6. CASE CheckStatus(c)
    <2>1. \/ Goto(c, "complete plan") \/ Answer(c, "missing")
          \/ /\ Answer(c, "completed")
             /\ \E row \in db.plans : row.id = request[c].id /\ row.completed
        BY <1>6 DEF CheckStatus, ById, Where
    <2>2. CASE /\ Answer(c, "completed")
               /\ \E row \in db.plans : row.id = request[c].id /\ row.completed
      <3>1. outcome'[c] = "completed"
          BY <1>2, <2>2, Told
      <3>2. HasOutcome(db, request[c].id)
          BY <2>2 DEF IInv, MatchInv, Matched
      <3> QED
          BY <1>1, <3>1, <3>2 DEF Answered
    <2>3. Goto(c, "complete plan") => pc'[c] # "answered"
        BY GoesOn
    <2>4. Answer(c, "missing") => (pc'[c] = "answered" => Answered(c)')
        BY <1>2, NothingTold
    <2> QED
        BY <1>1, <2>1, <2>2, <2>3, <2>4
  <1> QED
      BY <1>3, <1>4, <1>5, <1>6

\* A client is told that its row conflicts with somebody else's.
LEMMA WriterAnswered ==
    ASSUME IInv, ContentInv, AnswersInv, NEW c \in Clients,
           \/ Undelete(c) \/ Delete(c) \/ InsertExperiment(c) \/ InsertAssociations(c)
           \/ InsertPlan(c) \/ InsertUnits(c) \/ CompletePlan(c) \/ InsertResult(c)
    PROVE  /\ pc'[c] = "answered" => Answered(c)'
           /\ requests' = requests /\ tries' = tries /\ pc[c] # "answered"
  <1>1. UNCHANGED <<db, request, target, requests, tries>> /\ pc[c] # "answered"
      BY DEF Undelete, Delete, InsertExperiment, InsertAssociations, InsertPlan, InsertUnits,
             CompletePlan, InsertResult, Begin, Write, Rollback
  <1>2. PerClientInv /\ Aimed(c) /\ Staged(c) /\ KindFits(pc[c], request[c].kind)
      BY DEF AnswersInv, ContentInv, ClientInv, IInv, ControlInv
  <1>3. CASE InsertExperiment(c) /\ Rollback(c) /\ IdentityTaken(c)
    <2>1. outcome'[c] = "integrity" /\ pc[c] = "insert experiment"
        BY <1>2, <1>3, Told DEF Rollback, InsertExperiment
    <2>2. request[c].kind = "save experiment" /\ IsNew(db, target[c])
        BY <1>2, <2>1 DEF KindFits, Aimed, NewSteps
    <2>3. Taken(c)'
        BY <1>1, <1>3, <2>2 DEF Taken, IdentityTaken, Where, IsNew, HasExperiment
    <2> QED
        BY <1>1, <2>1, <2>3 DEF Answered
  <1>4. CASE InsertResult(c) /\ Rollback(c) /\ HasResult(c)
    <2>1. outcome'[c] = "integrity" /\ pc[c] = "insert result"
        BY <1>2, <1>4, Told DEF Rollback, InsertResult
    <2>2. /\ request[c].kind = "save result" /\ IsNew(db, target[c])
          /\ draft = Completing(db, request[c])
        BY <1>2, <2>1 DEF KindFits, Aimed, NewSteps, Staged
    <2>3. draft.results = db.results
        BY <2>2, Opening DEF Completing, IsDatabase, Tables
    <2>4. Taken(c)'
        BY <1>1, <1>4, <2>2, <2>3 DEF Taken, HasResult, Where, IsNew, HasRecord
    <2> QED
        BY <1>1, <2>1, <2>4 DEF Answered
  <1>5. CASE /\ ~(InsertExperiment(c) /\ Rollback(c) /\ IdentityTaken(c))
             /\ ~(InsertResult(c) /\ Rollback(c) /\ HasResult(c))
    <2>1. \/ Goto(c, "commit") \/ Goto(c, "insert associations") \/ Goto(c, "insert units")
          \/ Goto(c, "insert result")
        BY <1>5 DEF Undelete, Delete, InsertExperiment, InsertAssociations, InsertPlan,
               InsertUnits, CompletePlan, InsertResult
    <2>2. pc'[c] # "answered"
        BY <2>1, GoesOn
    <2> QED
        BY <1>1, <2>2
  <1> QED
      BY <1>3, <1>4, <1>5

\* A client is told that its transaction has committed.
LEMMA CommitAnswered ==
    ASSUME IInv, ContentInv, AnswersInv, NEW c \in Clients, Commit(c)
    PROVE  /\ pc'[c] = "answered" => Answered(c)'
           /\ requests' = requests /\ tries' = tries /\ pc[c] # "answered"
  <1>1. /\ UNCHANGED <<request, target, requests, tries>> /\ pc[c] = "commit" /\ db' = draft
        /\ Answer(c, "done")
      BY DEF Commit
  <1>2. outcome'[c] = "done"
      BY <1>1, Told DEF AnswersInv
  <1>3. ClientInv(c) /\ IsDatabase(db)
      BY DEF ContentInv, IInv, Keyed
  <1>4. Operates(c, draft)
      BY <1>1, <1>3 DEF ClientInv, Staged
  <1>5. CASE Publishes(c, draft)
    <2>1. /\ draft = Published(db, target[c], request[c])
          /\ request[c].kind = "save experiment"
        BY <1>5 DEF Publishes
    <2>2. Published(db, target[c], request[c]).experiments =
              db.experiments \union {NewExperiment(target[c], request[c])}
        BY <1>3, PublishedTables
    <2>3. NewExperiment(target[c], request[c]) \in db'.experiments
        BY <1>1, <2>1, <2>2
    <2>4. Stored(c)'
        BY <1>1, <2>1, <2>3 DEF Stored, NewExperiment
    <2> QED
        BY <1>1, <1>2, <2>4 DEF Answered
  <1>6. CASE Restores(c, draft)
    <2>1. request[c].kind = "save experiment" /\ draft = Undeleted(db, target[c])
        BY <1>6 DEF Restores
    <2>2. PICK e \in db.experiments :
              /\ e.id = target[c] /\ e.identity = request[c].identity
              /\ e.config = request[c].definition.config
        BY <1>6 DEF Restores, Restorable
    <2>3. Marks(db, Undeleted(db, target[c]))
        BY UndeletedIsMarked DEF IInv
    <2>4. PICK x \in db'.experiments : SameExperiment(e, x)
        BY <1>1, <2>1, <2>3 DEF Marks
    <2>5. Stored(c)'
        BY <1>1, <2>1, <2>2, <2>4 DEF Stored, SameExperiment
    <2> QED
        BY <1>1, <1>2, <2>5 DEF Answered
  <1>7. CASE Withdraws(c, draft)
    <2>1. Stored(c)'
        BY <1>1, <1>7 DEF Stored, Withdraws
    <2> QED
        BY <1>1, <1>2, <2>1 DEF Answered
  <1>8. CASE AddsPlan(c, draft)
    <2>1. draft = Planned(db, target[c], request[c], version) /\ request[c].kind = "save plan"
        BY <1>8 DEF AddsPlan
    <2>2. Planned(db, target[c], request[c], version).plans =
              db.plans \union {NewPlan(target[c], request[c], version)}
        BY <1>3, PlannedTables
    <2>3. NewPlan(target[c], request[c], version) \in db'.plans
        BY <1>1, <2>1, <2>2
    <2>4. Stored(c)'
        BY <1>1, <2>1, <2>3 DEF Stored, NewPlan
    <2> QED
        BY <1>1, <1>2, <2>4 DEF Answered
  <1>9. CASE Records(c, draft)
    <2>1. draft = Recorded(db, target[c], request[c]) /\ request[c].kind = "save result"
        BY <1>9 DEF Records
    <2>2. Recorded(db, target[c], request[c]).results =
              Completing(db, request[c]).results \union {NewResult(target[c], request[c])}
        BY <1>3, RecordedTables
    <2>3. NewResult(target[c], request[c]) \in db'.results
        BY <1>1, <2>1, <2>2
    <2>4. /\ NewResult(target[c], request[c]).id = target[c]
          /\ NewResult(target[c], request[c]).plan = request[c].id
        BY DEF NewResult
    <2>5. Stored(c)'
        BY <1>1, <2>1, <2>3, <2>4 DEF Stored
    <2> QED
        BY <1>1, <1>2, <2>5 DEF Answered
  <1> QED
      BY <1>1, <1>4, <1>5, <1>6, <1>7, <1>8, <1>9 DEF Operates

\* Every step keeps the answers.
LEMMA StepAnswers ==
    ASSUME IInv, ContentInv, AnswersInv, [Next]_vars
    PROVE  AnswersInv'
  <1>1. CASE UNCHANGED vars
    <2>1. UNCHANGED <<db, requests, pc, request, target, outcome, tries, seen>>
        BY <1>1 DEF vars, client
    <2> QED
        BY <2>1 DEF AnswersInv, PerClientInv, PerClient, CountInv, Answered, Stored, Taken
  <1>2. ASSUME NEW c \in Clients, Asks(c) \/ Steps(c) \/ Crash(c) PROVE AnswersInv'
    <2>1. AloneAt(c) /\ PerClientInv
        BY <1>2, StepIsAlone DEF AnswersInv
    <2>2. CASE /\ pc'[c] = "answered" => Answered(c)'
               /\ requests' = requests /\ tries' = tries /\ pc[c] # "answered"
      <3>1. CountInv'
          BY <2>1, <2>2, CountStays DEF AnswersInv
      <3> QED
          BY <2>1, <2>2, <3>1, AnswersOfOthers
    <2>3. CASE Locked(c)
      <3>1. /\ requests' = requests /\ tries' = [tries EXCEPT ![c] = tries[c] + 1]
            /\ pc[c] # "answered"
            /\ \/ tries[c] + 1 < MaxTries /\ pc' = pc
               \/ Answer(c, "locked")
          BY <2>3 DEF Locked
      <3>2. pc'[c] = "answered" => Answered(c)'
          BY <2>1, <3>1, NothingTold
      <3>3. /\ tries'[c] = tries[c] + 1 /\ tries[c] \in 0 .. MaxTries /\ tries[c] < MaxTries
            /\ MaxTries \in Nat
          BY <2>1, <3>1, BoundsAssumption DEF AnswersInv, CountInv, PerClientInv, PerClient
      <3>4. tries'[c] \in 0 .. MaxTries
          BY ONLY <3>3
      <3>5. pc'[c] # "answered" => tries'[c] < MaxTries
          BY <2>1, <3>1, <3>3, Told
      <3>6. \A d \in Clients : d # c => tries'[d] = tries[d] /\ pc'[d] = pc[d]
          BY <2>1 DEF AloneAt, ButFor
      <3>7. CountInv'
          BY <3>1, <3>4, <3>5, <3>6 DEF AnswersInv, CountInv
      <3> QED
          BY <2>1, <3>2, <3>7, AnswersOfOthers
    <2>4. CASE Receive(c) \/ Crash(c)
      <3>1. Forget(c) /\ requests' = requests
          BY <2>4 DEF Receive, Crash
      <3>2. pc'[c] = "idle" /\ tries'[c] = 0
          BY <2>1, <3>1 DEF Forget, IInv, ControlInv, PerClientInv, PerClient
      <3>3. 0 \in 0 .. MaxTries /\ 0 < MaxTries
          BY BoundsAssumption
      <3>4. \A d \in Clients : d # c => tries'[d] = tries[d] /\ pc'[d] = pc[d]
          BY <2>1 DEF AloneAt, ButFor
      <3>5. CountInv'
          BY <3>1, <3>2, <3>3, <3>4 DEF AnswersInv, CountInv
      <3> QED
          BY <2>1, <3>2, <3>5, AnswersOfOthers
    <2>5. CASE Asks(c)
      <3> DEFINE A(s) == \E r : Ask(c, s, r)
      <3>7. \/ A("check identity") \/ A("find deleted") \/ A("read experiment")
            \/ A("read plan") \/ A("check status") \/ A("read result") \/ A("export experiment")
          BY <2>5 DEF Asks, SaveExperiment, DeleteExperiment, LoadExperiment, GetExportData,
                 SavePlan, LoadPlan, LoadResult, SaveResult
      <3> HIDE DEF A
      <3> DEFINE Entries == {"check identity", "find deleted", "read experiment", "read plan",
                             "check status", "read result", "export experiment"}
      <3>8. \A s \in Entries : s # "answered"
          OBVIOUS
      <3>9. \E s \in Entries : A(s)
          BY <3>7
      <3> HIDE DEF Entries
      <3>1. PICK s, r : Ask(c, s, r) /\ s # "answered"
          BY <3>8, <3>9 DEF A
      <3>2. /\ requests < MaxRequests /\ requests' = requests + 1 /\ tries' = tries
            /\ pc[c] = "idle" /\ Goto(c, s)
          BY <3>1 DEF Ask
      <3>3. requests' \in 0 .. MaxRequests
        <4>1. requests \in 0 .. MaxRequests /\ MaxRequests \in Nat
            BY BoundsAssumption DEF AnswersInv, CountInv
        <4> QED
            BY <3>2, <4>1
      <3>4. pc'[c] # "answered"
          BY <3>1, <3>2, GoesOn
      <3>5. \A d \in Clients : d # c => pc'[d] = pc[d]
          BY <2>1 DEF AloneAt, ButFor
      <3>6. CountInv'
          BY <3>2, <3>3, <3>4, <3>5 DEF AnswersInv, CountInv
      <3> QED
          BY <2>1, <3>4, <3>6, AnswersOfOthers
    <2> QED
        BY <1>2, <2>2, <2>3, <2>4, <2>5, ReaderAnswered, ChooserAnswered, WriterAnswered,
           CommitAnswered DEF Steps, ReadingSteps
  <1> QED
      BY <1>1, <1>2 DEF Next

\* What clients have been told is true in every reachable state, and requests and
\* tries stay within their bounds.
THEOREM AnswersInductive == Spec => []AnswersInv
  <1>1. Init => AnswersInv
    <2> SUFFICES ASSUME Init PROVE AnswersInv
        OBVIOUS
    <2>1. PerClientInv
        BY DEF Init, PerClientInv, PerClient
    <2>2. requests = 0 /\ \A c \in Clients : tries[c] = 0 /\ pc[c] = "idle"
        BY DEF Init
    <2>3. 0 \in 0 .. MaxRequests /\ 0 \in 0 .. MaxTries /\ 0 < MaxTries
        BY BoundsAssumption
    <2> QED
        BY <2>1, <2>2, <2>3 DEF AnswersInv, CountInv
  <1>2. IInv /\ ContentInv /\ AnswersInv /\ [Next]_vars => AnswersInv'
      BY StepAnswers
  <1> QED
      BY <1>1, <1>2, ContentInductive, Inductive, PTL DEF Spec

\* Whoever is told that something is saved finds it under its identifier, until
\* it asks for something else, whatever others do and wherever they die.
THEOREM AcknowledgedCorrect == Spec => []AcknowledgedIsStored
  <1>1. AnswersInv => AcknowledgedIsStored
    <2> SUFFICES ASSUME AnswersInv, NEW c \in Clients, pc[c] = "answered", outcome[c] = "done"
                 PROVE  CASE request[c].kind = "save experiment" ->
                              \E e \in ById(db.experiments, target[c]) :
                                  /\ e.identity = request[c].identity
                                  /\ e.config = request[c].definition.config
                        [] request[c].kind = "save plan" ->
                              \E p \in ById(db.plans, target[c]) : p.count = Len(request[c].units)
                        [] request[c].kind = "save result" ->
                              \E r \in ById(db.results, target[c]) : r.plan = request[c].id
                        [] OTHER -> TRUE
        BY DEF AcknowledgedIsStored
    <2>1. Stored(c)
        BY DEF AnswersInv, Answered
    <2>2. request[c].kind = "save experiment" =>
              \E e \in ById(db.experiments, target[c]) :
                  e.identity = request[c].identity /\ e.config = request[c].definition.config
        BY <2>1 DEF Stored, ById, Where
    <2>3. request[c].kind = "save plan" =>
              \E p \in ById(db.plans, target[c]) : p.count = Len(request[c].units)
        BY <2>1 DEF Stored, ById, Where
    <2>4. request[c].kind = "save result" =>
              \E r \in ById(db.results, target[c]) : r.plan = request[c].id
        BY <2>1 DEF Stored, ById, Where
    <2> QED
        BY <2>2, <2>3, <2>4
  <1> QED
      BY <1>1, AnswersInductive, PTL

\* A client is refused only because of what somebody else has stored; a plan never
\* is.
THEOREM RefusedCorrect == Spec => []RefusedForAReason
  <1>1. AnswersInv => RefusedForAReason
    <2> SUFFICES ASSUME AnswersInv, NEW c \in Clients, pc[c] = "answered"
                 PROVE  /\ outcome[c] = "integrity" => Taken(c)
                        /\ outcome[c] = "completed" => HasOutcome(db, request[c].id)
                        /\ outcome[c] \in {"duplicate", "refused"} =>
                              ~IdentityFree(db, request[c].identity)
        BY DEF RefusedForAReason, Taken, HasOutcome, IdentityFree, Where
    <2> QED
        BY DEF AnswersInv, Answered
  <1> QED
      BY <1>1, AnswersInductive, PTL

\* The tables and what clients keep have their types, in and between transactions.
THEOREM TypeCorrect == Spec => []TypeOK
  <1>1. IInv /\ ContentInv /\ AnswersInv => TypeOK
    <2> SUFFICES ASSUME IInv, ContentInv, AnswersInv PROVE TypeOK
        OBVIOUS
    <2>1. /\ Whole(db, saved) /\ db \in DatabaseType /\ version \in Nat /\ Keyed(db)
          /\ IsDatabase(db)
        BY DEF ContentInv, Whole, Keyed
    <2>2. /\ writer \in Clients \union {NoClient} /\ (writer = NoClient => draft = db)
          /\ issued \in Nat /\ target = [c \in Clients |-> target[c]]
          /\ \A c \in Clients : target[c] \in 0 .. issued
        BY DEF IInv, ControlInv, IdsInv
    <2>3. /\ requests \in 0 .. MaxRequests /\ tries = [c \in Clients |-> tries[c]]
          /\ \A c \in Clients : tries[c] \in 0 .. MaxTries
        BY DEF AnswersInv, CountInv, PerClientInv, PerClient
    <2>4. draft \in DatabaseType
      <3>1. CASE writer = NoClient
          BY <2>1, <2>2, <3>1
      <3>2. CASE writer # NoClient
        <4> DEFINE c == writer
        <4>1. c \in Clients /\ pc[c] \in Holding /\ KindFits(pc[c], request[c].kind)
            BY <2>2, <3>2 DEF IInv, ControlInv
        <4>2. Staged(c) /\ Asked(c) /\ Aimed(c) /\ target[c] \in Nat /\ Keyed(draft)
            BY <2>2, <4>1 DEF ContentInv, ClientInv, IInv
        <4> HIDE DEF c
        <4>3. CASE pc[c] = "insert associations"
          <5>1. draft = WithExperiment(db, target[c], request[c]) /\ IsSaveExperiment(request[c])
              BY <4>1, <4>2, <4>3 DEF Staged, Asked, KindFits
          <5>2. NewExperiment(target[c], request[c]) \in ExperimentRow
              BY <4>2, <5>1, ExperimentTyped
          <5>3. /\ draft.experiments = db.experiments \union {NewExperiment(target[c], request[c])}
                /\ draft.links = db.links /\ draft.cohorts = db.cohorts /\ draft.plans = db.plans
                /\ draft.units = db.units /\ draft.results = db.results
                /\ draft.simulations = db.simulations /\ IsDatabase(draft)
              BY <2>1, <5>1 DEF WithExperiment, IsDatabase, Tables
          <5> QED
              BY <2>1, <5>2, <5>3, TypedTables, TablesTyped
        <4>4. CASE pc[c] = "insert units"
          <5>1. /\ draft = WithPlan(db, target[c], request[c], version) /\ IsSavePlan(request[c])
                /\ HasExperiment(db, request[c].id)
              BY <4>1, <4>2, <4>4 DEF Staged, Asked, KindFits
          <5>2. db.experiments \subseteq ExperimentRow
              BY <2>1, TypedTables
          <5>3. request[c].id \in Nat
              BY <5>1, <5>2 DEF HasExperiment, ExperimentRow
          <5>4. NewPlan(target[c], request[c], version) \in PlanRow
              BY <2>1, <4>2, <5>1, <5>3, PlanTyped
          <5>5. /\ draft.plans = db.plans \union {NewPlan(target[c], request[c], version)}
                /\ draft.links = db.links /\ draft.cohorts = db.cohorts
                /\ draft.experiments = db.experiments
                /\ draft.units = db.units /\ draft.results = db.results
                /\ draft.simulations = db.simulations /\ IsDatabase(draft)
              BY <2>1, <5>1 DEF WithPlan, IsDatabase, Tables
          <5> QED
              BY <2>1, <5>4, <5>5, TypedTables, TablesTyped
        <4>5. CASE pc[c] = "insert result"
          <5>1. draft = Completing(db, request[c])
              BY <4>2, <4>5 DEF Staged
          <5>2. /\ Marks(db, draft) /\ draft.links = db.links
                /\ draft.experiments = db.experiments
                /\ db.plans \subseteq PlanRow => draft.plans \subseteq PlanRow
              BY <2>1, <5>1, CompletingIsMarked
          <5> QED
              BY <2>1, <5>2, TypedTables, TablesTyped DEF Marks
        <4>6. CASE pc[c] = "commit"
          <5>1. Operates(c, draft)
              BY <4>2, <4>6 DEF Staged
          <5>2. PICK t : saved \subseteq t /\ [id |-> target[c], request |-> request[c]] \in t
            <6> DEFINE t == saved \union {[id |-> target[c], request |-> request[c]]}
            <6>1. saved \subseteq t /\ [id |-> target[c], request |-> request[c]] \in t
                OBVIOUS
            <6> HIDE DEF t
            <6> QED
                BY <6>1
          <5>3. Whole(draft, t)
              BY <4>1, <4>2, <5>1, <5>2, OperationIsWhole
          <5> QED
              BY <5>3 DEF Whole
        <4> QED
            BY <4>1, <4>3, <4>4, <4>5, <4>6 DEF Holding
      <3> QED
          BY <3>1, <3>2
    <2> QED
        BY <2>1, <2>2, <2>3, <2>4 DEF TypeOK
  <1> QED
      BY <1>1, AnswersInductive, ContentInductive, Inductive, PTL

----------------------------------------------------------------------------
(* The catalog: what the tables say to a client.                           *)

StudyOf(d, e) ==
    [id |-> e.id, identity |-> e.identity, deleted |-> e.deleted,
     cohorts |-> StoredDates(d, e.id),
     content |-> [config |-> e.config, links |-> LinksOf(Where(d.links, "experiment", e.id))]]
PlanOf(d, p) ==
    [id |-> p.id, study |-> p.experiment, deleted |-> p.deleted,
     content |-> PlanRowsOf(Where(d.units, "plan", p.id))]
OutcomeOf(d, r) ==
    [id |-> r.id, plan |-> r.plan,
     content |-> ResultRowsOf(Where(d.simulations, "result", r.id))]

Studies(d) == {StudyOf(d, e) : e \in d.experiments}
Plans(d) == {PlanOf(d, p) : p \in d.plans}
Outcomes(d) == {OutcomeOf(d, r) : r \in d.results}

\* What a save says does not depend on the identifier it is stored under.
LEMMA ContentWithoutIds ==
    ASSUME NEW id
    PROVE  /\ \A policies : LinksOf(ExpectedLinks(id, policies)) = LinksOf(ExpectedLinks(0, policies))
           /\ \A units : PlanRowsOf(UnitRows(id, units)) = PlanRowsOf(UnitRows(0, units))
           /\ \A sims : ResultRowsOf(SimulationRows(id, sims)) = ResultRowsOf(SimulationRows(0, sims))
  <1>1. ASSUME NEW policies
        PROVE  LinksOf(ExpectedLinks(id, policies)) = LinksOf(ExpectedLinks(0, policies))
    <2> DEFINE firsts == {k \in DOMAIN policies :
                             \A j \in 1 .. k - 1 : Form[policies[j]] # Form[policies[k]]}
    <2>1. ASSUME NEW i
          PROVE  LinksOf(ExpectedLinks(i, policies)) =
                     {[index |-> k - 1, form |-> Form[policies[k]]] : k \in firsts}
      <3> DEFINE row(k) == [experiment |-> i, index |-> k - 1, form |-> Form[policies[k]]]
      <3>1. ExpectedLinks(i, policies) = {row(k) : k \in firsts}
          BY DEF ExpectedLinks
      <3>2. \A k : row(k).index = k - 1 /\ row(k).form = Form[policies[k]]
          OBVIOUS
      <3> HIDE DEF row, firsts
      <3>3. LinksOf(ExpectedLinks(i, policies)) =
                {[index |-> row(k).index, form |-> row(k).form] : k \in firsts}
          BY <3>1 DEF LinksOf
      <3> QED
          BY <3>2, <3>3
    <2> QED
        BY <2>1
  <1>2. ASSUME NEW units
        PROVE  PlanRowsOf(UnitRows(id, units)) = PlanRowsOf(UnitRows(0, units))
    <2>1. ASSUME NEW i
          PROVE  PlanRowsOf(UnitRows(i, units)) =
                     {[index |-> k, date |-> units[k].date, parameters |-> units[k].parameters,
                       form |-> Form[units[k].policy]] : k \in DOMAIN units}
      <3> DEFINE row(k) == [plan |-> i, index |-> k, date |-> units[k].date,
                            parameters |-> units[k].parameters, form |-> Form[units[k].policy]]
      <3>1. UnitRows(i, units) = {row(k) : k \in DOMAIN units}
          BY DEF UnitRows
      <3>2. \A k : /\ row(k).index = k /\ row(k).date = units[k].date
                   /\ row(k).parameters = units[k].parameters
                   /\ row(k).form = Form[units[k].policy]
          OBVIOUS
      <3> HIDE DEF row
      <3>3. PlanRowsOf(UnitRows(i, units)) =
                {[index |-> row(k).index, date |-> row(k).date, parameters |-> row(k).parameters,
                  form |-> row(k).form] : k \in DOMAIN units}
          BY <3>1 DEF PlanRowsOf
      <3> QED
          BY <3>2, <3>3
    <2> QED
        BY <2>1
  <1>3. ASSUME NEW sims
        PROVE  ResultRowsOf(SimulationRows(id, sims)) = ResultRowsOf(SimulationRows(0, sims))
    <2> DEFINE months(k) == 1 .. Greater(sims[k].months, 1)
               last(k, m) == m = Greater(sims[k].months, 1)
               row(i, k, m) == [result |-> i, unit |-> k, month |-> m, dummy |-> sims[k].months = 0,
                                final |-> last(k, m), success |-> last(k, m) /\ sims[k].success]
               part(i, k, m) == [unit |-> row(i, k, m).unit, month |-> row(i, k, m).month,
                                 dummy |-> row(i, k, m).dummy, final |-> row(i, k, m).final,
                                 success |-> row(i, k, m).success]
    <2>1. \A i : SimulationRows(i, sims) = UNION {{row(i, k, m) : m \in months(k)} : k \in DOMAIN sims}
        BY DEF SimulationRows
    <2>2. \A k, m : part(id, k, m) = part(0, k, m)
        OBVIOUS
    <2> HIDE DEF months, last, row
    <2>4. \A i, x : x \in ResultRowsOf(SimulationRows(i, sims)) <=>
                      \E k \in DOMAIN sims : \E m \in months(k) : x = part(i, k, m)
        BY <2>1 DEF ResultRowsOf
    <2> HIDE DEF part
    <2>5. \A x : x \in ResultRowsOf(SimulationRows(id, sims)) <=>
                   x \in ResultRowsOf(SimulationRows(0, sims))
        BY <2>2, <2>4
    <2> QED
        BY <2>5
  <1> QED
      BY <1>1, <1>2, <1>3

\* The dates of a plan's content are the cohorts it adds.
LEMMA DatesOfContent ==
    ASSUME NEW id, NEW eid, NEW units
    PROVE  {u.date : u \in PlanRowsOf(UnitRows(id, units))} =
               {k.date : k \in CohortsOfUnits(eid, units)}
  <1> DEFINE row(k) == [plan |-> id, index |-> k, date |-> units[k].date,
                        parameters |-> units[k].parameters, form |-> Form[units[k].policy]]
             part(k) == [index |-> row(k).index, date |-> row(k).date,
                         parameters |-> row(k).parameters, form |-> row(k).form]
             cohort(k) == [experiment |-> eid, date |-> units[k].date]
  <1>1. UnitRows(id, units) = {row(k) : k \in DOMAIN units}
      BY DEF UnitRows
  <1>2. CohortsOfUnits(eid, units) = {cohort(k) : k \in DOMAIN units}
      BY DEF CohortsOfUnits
  <1>3. \A k : row(k).date = units[k].date /\ cohort(k).date = units[k].date
      OBVIOUS
  <1> HIDE DEF row, cohort
  <1>4. PlanRowsOf(UnitRows(id, units)) = {part(k) : k \in DOMAIN units}
      BY <1>1 DEF PlanRowsOf
  <1>5. \A k : part(k).date = units[k].date
      BY <1>3
  <1> HIDE DEF part
  <1> QED
      BY <1>2, <1>3, <1>4, <1>5

\* Experiments, plans and results that look the same in the catalog.
LEMMA SameInCatalog ==
    ASSUME NEW d, NEW e
    PROVE  /\ \A x : /\ Where(e.links, "experiment", x.id) = Where(d.links, "experiment", x.id)
                     /\ StoredDates(e, x.id) = StoredDates(d, x.id)
                     => StudyOf(e, x) = StudyOf(d, x)
           /\ \A p : Where(e.units, "plan", p.id) = Where(d.units, "plan", p.id)
                     => PlanOf(e, p) = PlanOf(d, p)
           /\ \A r : Where(e.simulations, "result", r.id) = Where(d.simulations, "result", r.id)
                     => OutcomeOf(e, r) = OutcomeOf(d, r)
  BY DEF StudyOf, PlanOf, OutcomeOf

\* Some set of saves has all known ones and one more.
LEMMA OneMoreSave ==
    ASSUME NEW s, NEW u
    PROVE  \E t : s \subseteq t /\ u \in t
  <1>1. s \subseteq s \union {u} /\ u \in s \union {u}
      OBVIOUS
  <1> QED
      BY <1>1

\* A study that is published is one more in the catalog.
LEMMA PublishedInCatalog ==
    ASSUME NEW d, NEW s, Whole(d, s), NEW id \in Nat, IsNew(d, id),
           NEW q, IsSaveExperiment(q), NEW e, e = Published(d, id, q), Keyed(e)
    PROVE  /\ Studies(e) = Studies(d) \union
                {[id |-> id, identity |-> q.identity, content |-> StudyContent(q.definition),
                  cohorts |-> q.definition.cohorts, deleted |-> FALSE]}
           /\ Plans(e) = Plans(d) /\ Outcomes(e) = Outcomes(d)
  <1> DEFINE x == NewExperiment(id, q)
             study == [id |-> id, identity |-> q.identity, content |-> StudyContent(q.definition),
                       cohorts |-> q.definition.cohorts, deleted |-> FALSE]
  <1>1. IsDatabase(d)
      BY DEF Whole, Keyed
  <1>2. /\ e.experiments = d.experiments \union {x}
        /\ e.plans = d.plans /\ e.units = d.units
        /\ e.results = d.results /\ e.simulations = d.simulations
      BY <1>1, PublishedTables
  <1>3. PICK t : s \subseteq t /\ [id |-> id, request |-> q] \in t
      BY OneMoreSave
  <1>4. /\ Grows(d, e) /\ AsSavedExperiment(e, x, q) /\ StoredDates(e, id) = q.definition.cohorts
        /\ \A y \in d.experiments : StoredDates(e, y.id) = StoredDates(d, y.id)
      BY <1>3, PublishedIsWhole
  <1>5. \A y \in d.experiments : StudyOf(e, y) = StudyOf(d, y)
      BY <1>4, SameInCatalog DEF Grows
  <1>6. x.id = id /\ x.identity = q.identity /\ x.config = q.definition.config /\ x.deleted = FALSE
      BY DEF NewExperiment
  <1>7. LinksOf(Where(e.links, "experiment", id)) = LinksOf(ExpectedLinks(0, q.definition.policies))
      BY <1>4, <1>6, ContentWithoutIds DEF AsSavedExperiment
  <1> HIDE DEF x
  <1>8. StudyOf(e, x) = study
      BY <1>4, <1>6, <1>7 DEF StudyOf, StudyContent
  <1> HIDE DEF study
  <1>9. Studies(e) = Studies(d) \union {study}
      BY <1>2, <1>5, <1>8 DEF Studies
  <1>10. Plans(e) = Plans(d) /\ Outcomes(e) = Outcomes(d)
      BY <1>2 DEF Plans, Outcomes, PlanOf, OutcomeOf
  <1> QED
      BY <1>9, <1>10 DEF study

\* A plan is one more in the catalog, whose dates become cohorts of its study.
LEMMA PlannedInCatalog ==
    ASSUME NEW d, NEW s, Whole(d, s), NEW id \in Nat, IsNew(d, id),
           NEW q, IsSavePlan(q), NEW x \in d.experiments, x.id = q.id, NEW time \in Nat,
           NEW e, e = Planned(d, id, q, time), Keyed(e),
           NEW content, content = PlanRowsOf(UnitRows(0, q.units))
    PROVE  /\ Plans(e) = Plans(d) \union
                {[id |-> id, study |-> q.id, content |-> content, deleted |-> FALSE]}
           /\ Studies(e) = (Studies(d) \ {StudyOf(d, x)}) \union
                {[StudyOf(d, x) EXCEPT !.cohorts = @ \union {u.date : u \in content}]}
           /\ Outcomes(e) = Outcomes(d)
  <1> DEFINE p == NewPlan(id, q, time)
             plan == [id |-> id, study |-> q.id, content |-> content, deleted |-> FALSE]
             study == [StudyOf(d, x) EXCEPT !.cohorts = @ \union {u.date : u \in content}]
  <1>1. IsDatabase(d) /\ Identified(d) /\ Linked(d)
      BY DEF Whole, Keyed
  <1>2. /\ e.experiments = d.experiments /\ e.plans = d.plans \union {p}
        /\ e.results = d.results /\ e.simulations = d.simulations
      BY <1>1, PlannedTables
  <1>3. PICK t : s \subseteq t /\ [id |-> id, request |-> q] \in t
      BY OneMoreSave
  <1>4. HasExperiment(d, q.id)
      BY DEF HasExperiment
  <1>5. /\ Grows(d, e) /\ AsSavedPlan(e, p, q) /\ e.links = d.links
        /\ \A i : StoredDates(e, i) = StoredDates(d, i) \union
              (IF i = q.id THEN {k.date : k \in CohortsOfUnits(q.id, q.units)} ELSE {})
      BY <1>3, <1>4, PlannedIsWhole
  <1>6. {k.date : k \in CohortsOfUnits(q.id, q.units)} = {u.date : u \in content}
      BY DatesOfContent
  <1>7. \A y \in d.experiments : y # x => y.id # q.id
      BY <1>1 DEF Identified
  <1>8. \A y \in d.experiments : y # x => StudyOf(e, y) = StudyOf(d, y) /\ StudyOf(d, y) # StudyOf(d, x)
    <2>1. \A y \in d.experiments : y # x => StudyOf(e, y) = StudyOf(d, y)
      <3> SUFFICES ASSUME NEW y \in d.experiments, y # x PROVE StudyOf(e, y) = StudyOf(d, y)
          OBVIOUS
      <3>1. y.id # q.id
          BY <1>7
      <3>2. Where(e.links, "experiment", y.id) = Where(d.links, "experiment", y.id)
          BY <1>5 DEF Where
      <3>3. StoredDates(e, y.id) = StoredDates(d, y.id)
          BY <1>5, <3>1
      <3> QED
          BY <3>2, <3>3, SameInCatalog
    <2>2. \A y : StudyOf(d, y).id = y.id
        BY DEF StudyOf
    <2> QED
        BY <1>7, <2>1, <2>2
  <1>9. StudyOf(e, x) = study
    <2>1. StoredDates(e, x.id) = StoredDates(d, x.id) \union {u.date : u \in content}
        BY <1>5, <1>6
    <2>2. study = [id |-> x.id, identity |-> x.identity, deleted |-> x.deleted,
                   cohorts |-> StoredDates(d, x.id) \union {u.date : u \in content},
                   content |-> StudyOf(d, x).content]
      <3> DEFINE old == StoredDates(d, x.id)
                 new == {u.date : u \in content}
                 said == [config |-> x.config, links |-> LinksOf(Where(d.links, "experiment", x.id))]
      <3>1. StudyOf(d, x) = [id |-> x.id, identity |-> x.identity, deleted |-> x.deleted,
                             cohorts |-> old, content |-> said]
          BY DEF StudyOf
      <3>2. study = [StudyOf(d, x) EXCEPT !.cohorts = @ \union new]
          OBVIOUS
      <3> HIDE DEF study, old, new, said
      <3>3. StudyOf(d, x).content = said
          BY <3>1
      <3>4. [StudyOf(d, x) EXCEPT !.cohorts = @ \union new] =
                [id |-> x.id, identity |-> x.identity, deleted |-> x.deleted,
                 cohorts |-> old \union new, content |-> said]
          BY <3>1
      <3> QED
          BY <3>2, <3>3, <3>4 DEF old, new
    <2>3. StudyOf(d, x).content = StudyOf(e, x).content
        BY <1>5 DEF StudyOf
    <2> QED
        BY <2>1, <2>2, <2>3 DEF StudyOf
  <1>10. p.id = id /\ p.experiment = q.id /\ p.deleted = FALSE
      BY DEF NewPlan
  <1>11. PlanRowsOf(Where(e.units, "plan", id)) = content
      BY <1>5, <1>10, ContentWithoutIds DEF AsSavedPlan
  <1> HIDE DEF p, study
  <1>12. PlanOf(e, p) = plan
      BY <1>10, <1>11 DEF PlanOf
  <1> HIDE DEF plan
  <1>13. \A y \in d.plans : PlanOf(e, y) = PlanOf(d, y)
      BY <1>5, SameInCatalog DEF Grows
  <1>14. Plans(e) = Plans(d) \union {plan}
      BY <1>2, <1>12, <1>13 DEF Plans
  <1>15. Studies(e) = (Studies(d) \ {StudyOf(d, x)}) \union {study}
      BY <1>2, <1>8, <1>9 DEF Studies
  <1>16. Outcomes(e) = Outcomes(d)
      BY <1>2 DEF Outcomes, OutcomeOf
  <1> QED
      BY <1>14, <1>15, <1>16 DEF plan, study

\* A result is one more in the catalog; the completion of its plan shows by it.
LEMMA RecordedInCatalog ==
    ASSUME NEW d, NEW s, Whole(d, s), NEW id \in Nat, IsNew(d, id),
           NEW q, IsSaveResult(q), HasId(d, q.id), NEW e, e = Recorded(d, id, q), Keyed(e)
    PROVE  /\ Outcomes(e) = Outcomes(d) \union
                {[id |-> id, plan |-> q.id,
                  content |-> ResultRowsOf(SimulationRows(0, q.simulations))]}
           /\ Studies(e) = Studies(d) /\ Plans(e) = Plans(d)
  <1> DEFINE r == NewResult(id, q)
             new == [id |-> id, plan |-> q.id,
                     content |-> ResultRowsOf(SimulationRows(0, q.simulations))]
             done(p) == IF p.id = q.id THEN [p EXCEPT !.completed = TRUE] ELSE p
  <1>1. IsDatabase(d) /\ Keyed(d)
      BY DEF Whole, Keyed
  <1>2. /\ Completing(d, q).experiments = d.experiments
        /\ Completing(d, q).links = d.links /\ Completing(d, q).cohorts = d.cohorts
        /\ Completing(d, q).plans = {done(p) : p \in d.plans}
        /\ Completing(d, q).units = d.units /\ Completing(d, q).results = d.results
      BY <1>1 DEF Completing, IsDatabase, Tables
  <1>3. /\ e.experiments = d.experiments /\ e.links = d.links /\ e.cohorts = d.cohorts
        /\ e.plans = {done(p) : p \in d.plans} /\ e.units = d.units
        /\ e.results = d.results \union {r}
      BY <1>1, <1>2, RecordedTables
  <1>4. PICK t : s \subseteq t /\ [id |-> id, request |-> q] \in t
      BY OneMoreSave
  <1>5. Grows(d, e) /\ AsSavedResult(e, r, q)
      BY <1>4, RecordedIsWhole
  <1>6. r.id = id /\ r.plan = q.id
      BY DEF NewResult
  <1>7. ResultRowsOf(Where(e.simulations, "result", id)) =
            ResultRowsOf(SimulationRows(0, q.simulations))
      BY <1>5, <1>6, ContentWithoutIds DEF AsSavedResult
  <1>8. \A p \in d.plans : PlanOf(e, done(p)) = PlanOf(d, p)
    <2> SUFFICES ASSUME NEW p \in d.plans PROVE PlanOf(e, done(p)) = PlanOf(d, p)
        OBVIOUS
    <2>1. done(p).id = p.id /\ done(p).experiment = p.experiment /\ done(p).deleted = p.deleted
        BY <1>1 DEF Keyed, IsPlan
    <2> HIDE DEF done
    <2> QED
        BY <1>3, <2>1 DEF PlanOf
  <1> HIDE DEF r, done
  <1>9. OutcomeOf(e, r) = new
      BY <1>6, <1>7 DEF OutcomeOf
  <1>10. \A y \in d.results : OutcomeOf(e, y) = OutcomeOf(d, y)
      BY <1>5, SameInCatalog DEF Grows
  <1> HIDE DEF new
  <1>11. Outcomes(e) = Outcomes(d) \union {new}
      BY <1>3, <1>9, <1>10 DEF Outcomes
  <1>12. Plans(e) = Plans(d)
      BY <1>3, <1>8 DEF Plans
  <1>13. Studies(e) = Studies(d)
      BY <1>3 DEF Studies, StudyOf, StoredDates
  <1> QED
      BY <1>11, <1>12, <1>13 DEF new

\* An experiment but for its mark looks the same in the catalog but for its mark.
LEMMA MarkInCatalog ==
    ASSUME NEW d, NEW x, IsExperiment(x), NEW b \in BOOLEAN
    PROVE  /\ StudyOf(d, [x EXCEPT !.deleted = b]) = [StudyOf(d, x) EXCEPT !.deleted = b]
           /\ StudyOf(d, x).deleted = x.deleted /\ StudyOf(d, x).id = x.id
  <1> DEFINE dates == StoredDates(d, x.id)
             said == [config |-> x.config, links |-> LinksOf(Where(d.links, "experiment", x.id))]
             y == [x EXCEPT !.deleted = b]
  <1>1. y.id = x.id /\ y.identity = x.identity /\ y.config = x.config /\ y.deleted = b
      BY DEF IsExperiment
  <1>2. StudyOf(d, x) = [id |-> x.id, identity |-> x.identity, deleted |-> x.deleted,
                         cohorts |-> dates, content |-> said]
      BY DEF StudyOf
  <1> HIDE DEF y
  <1>3. StudyOf(d, y) = [id |-> x.id, identity |-> x.identity, deleted |-> b,
                         cohorts |-> dates, content |-> said]
      BY <1>1 DEF StudyOf
  <1> HIDE DEF dates, said
  <1>4. StudyOf(d, y) = [StudyOf(d, x) EXCEPT !.deleted = b]
      BY <1>2, <1>3
  <1> QED
      BY <1>2, <1>4 DEF y

\* A plan but for its mark looks the same in the catalog but for its mark.
LEMMA PlanMarkInCatalog ==
    ASSUME NEW d, NEW p, IsPlan(p), NEW b \in BOOLEAN
    PROVE  /\ PlanOf(d, [p EXCEPT !.deleted = b]) = [PlanOf(d, p) EXCEPT !.deleted = b]
           /\ PlanOf(d, p).study = p.experiment
  <1> DEFINE said == PlanRowsOf(Where(d.units, "plan", p.id))
             q == [p EXCEPT !.deleted = b]
  <1>1. q.id = p.id /\ q.experiment = p.experiment /\ q.deleted = b
      BY DEF IsPlan
  <1>2. PlanOf(d, p) = [id |-> p.id, study |-> p.experiment, deleted |-> p.deleted,
                        content |-> said]
      BY DEF PlanOf
  <1> HIDE DEF q
  <1>3. PlanOf(d, q) = [id |-> p.id, study |-> p.experiment, deleted |-> b, content |-> said]
      BY <1>1 DEF PlanOf
  <1> HIDE DEF said
  <1>4. PlanOf(d, q) = [PlanOf(d, p) EXCEPT !.deleted = b]
      BY <1>2, <1>3
  <1> QED
      BY <1>2, <1>4 DEF q

\* A study that is restored loses its mark in the catalog.
LEMMA UndeletedInCatalog ==
    ASSUME NEW d, Keyed(d), Identified(d), NEW x \in d.experiments,
           NEW e, e = Undeleted(d, x.id)
    PROVE  /\ Studies(e) = (Studies(d) \ {StudyOf(d, x)}) \union
                {[StudyOf(d, x) EXCEPT !.deleted = FALSE]}
           /\ Plans(e) = Plans(d) /\ Outcomes(e) = Outcomes(d)
  <1> DEFINE mark(y) == IF y.id = x.id THEN [y EXCEPT !.deleted = FALSE] ELSE y
  <1>1. /\ e.experiments = {mark(y) : y \in d.experiments}
        /\ e.plans = d.plans /\ e.links = d.links /\ e.cohorts = d.cohorts
        /\ e.units = d.units /\ e.results = d.results /\ e.simulations = d.simulations
      BY DEF Undeleted, Keyed, IsDatabase, Tables
  <1>2. \A y : StudyOf(e, y) = StudyOf(d, y)
      BY <1>1 DEF StudyOf, StoredDates
  <1>3. \A y \in d.experiments : StudyOf(d, y).id = y.id
      BY DEF StudyOf
  <1>4. StudyOf(d, mark(x)) = [StudyOf(d, x) EXCEPT !.deleted = FALSE]
      BY MarkInCatalog DEF Keyed
  <1>5. \A y \in d.experiments : y # x => mark(y) = y /\ StudyOf(d, y) # StudyOf(d, x)
      BY <1>3 DEF Identified
  <1> HIDE DEF mark
  <1>6. Studies(e) = (Studies(d) \ {StudyOf(d, x)}) \union {StudyOf(d, mark(x))}
      BY <1>1, <1>2, <1>5 DEF Studies
  <1> QED
      BY <1>1, <1>4, <1>6 DEF Plans, Outcomes, PlanOf, OutcomeOf

\* A study that is deleted is marked with its plans in the catalog.
LEMMA DeletedInCatalog ==
    ASSUME NEW d, Keyed(d), Identified(d), NEW x \in d.experiments,
           NEW e, e = Deleted(d, x.id)
    PROVE  /\ Studies(e) = (Studies(d) \ {StudyOf(d, x)}) \union
                {[StudyOf(d, x) EXCEPT !.deleted = TRUE]}
           /\ Plans(e) = {IF p.study = StudyOf(d, x).id THEN [p EXCEPT !.deleted = TRUE] ELSE p :
                             p \in Plans(d)}
           /\ Outcomes(e) = Outcomes(d)
  <1> DEFINE mark(y) == IF y.id = x.id THEN [y EXCEPT !.deleted = TRUE] ELSE y
             hide(p) == IF p.experiment = x.id THEN [p EXCEPT !.deleted = TRUE] ELSE p
             cover(p) == IF p.study = StudyOf(d, x).id THEN [p EXCEPT !.deleted = TRUE] ELSE p
  <1>1. /\ e.experiments = {mark(y) : y \in d.experiments} /\ e.plans = {hide(p) : p \in d.plans}
        /\ e.links = d.links /\ e.cohorts = d.cohorts
        /\ e.units = d.units /\ e.results = d.results /\ e.simulations = d.simulations
      BY DEF Deleted, MarkDeleted, Keyed, IsDatabase, Tables
  <1>2. \A y : StudyOf(e, y) = StudyOf(d, y) /\ PlanOf(e, y) = PlanOf(d, y)
      BY <1>1 DEF StudyOf, StoredDates, PlanOf
  <1>3. \A y \in d.experiments : StudyOf(d, y).id = y.id
      BY DEF StudyOf
  <1>4. StudyOf(d, mark(x)) = [StudyOf(d, x) EXCEPT !.deleted = TRUE]
      BY MarkInCatalog DEF Keyed
  <1>5. \A y \in d.experiments : y # x => mark(y) = y /\ StudyOf(d, y) # StudyOf(d, x)
      BY <1>3 DEF Identified
  <1>6. \A p \in d.plans : PlanOf(d, hide(p)) = cover(PlanOf(d, p))
    <2> SUFFICES ASSUME NEW p \in d.plans PROVE PlanOf(d, hide(p)) = cover(PlanOf(d, p))
        OBVIOUS
    <2>1. /\ PlanOf(d, [p EXCEPT !.deleted = TRUE]) = [PlanOf(d, p) EXCEPT !.deleted = TRUE]
          /\ PlanOf(d, p).study = p.experiment
        BY PlanMarkInCatalog DEF Keyed
    <2> QED
        BY <1>3, <2>1
  <1> HIDE DEF mark, hide, cover
  <1>7. Studies(e) = (Studies(d) \ {StudyOf(d, x)}) \union {StudyOf(d, mark(x))}
      BY <1>1, <1>2, <1>5 DEF Studies
  <1>8. Plans(e) = {cover(p) : p \in Plans(d)}
      BY <1>1, <1>2, <1>6 DEF Plans
  <1>9. Outcomes(e) = Outcomes(d)
      BY <1>1 DEF Outcomes, OutcomeOf
  <1> QED
      BY <1>4, <1>7, <1>8, <1>9 DEF cover

----------------------------------------------------------------------------
(* Identifiers.                                                            *)

\* Steps of a request that has not generated an identifier and may still do so.
Early == {"check identity", "check status", "read experiment", "read policies",
          "read cohorts", "read plan", "read result", "read simulations"}
Pending == {c \in Clients : pc[c] \in Early}

\* No more identifiers were generated than requests made.
IssuedInv ==
    /\ IsFiniteSet(Pending) /\ requests \in Nat
    /\ issued + Cardinality(Pending) <= requests

\* What a step does to the counters: a request is made, an identifier generated, or
\* neither.
Asking(c) == requests' = requests + 1 /\ issued' = issued /\ Pending' \subseteq Pending \union {c}
Generating(c) ==
    /\ requests' = requests /\ issued' = issued + 1
    /\ c \in Pending /\ Pending' \subseteq Pending \ {c}
Waiting == requests' = requests /\ issued' = issued /\ Pending' \subseteq Pending

\* A client that goes on from an early step stays early or not; others come to none.
LEMMA PendingShrinks ==
    ASSUME ControlInv, NEW c \in Clients, NEW s, pc' = [pc EXCEPT ![c] = s] \/ pc' = pc
    PROVE  /\ Pending' \subseteq Pending \union {c}
           /\ s \notin Early /\ pc' = [pc EXCEPT ![c] = s] => Pending' \subseteq Pending \ {c}
           /\ s \notin Early \/ pc[c] \in Early => Pending' \subseteq Pending
  BY DEF ControlInv, Pending

\* Each step does one of the three.
LEMMA StepCounts ==
    ASSUME IInv, NEW c \in Clients, Asks(c) \/ Steps(c) \/ Crash(c)
    PROVE  Asking(c) \/ Generating(c) \/ Waiting
  <1> USE DEF Goto, Answer, store
  <1>0. ControlInv
      BY DEF IInv
  <1>1. CASE Asks(c)
    <2>1. requests' = requests + 1 /\ issued' = issued /\ \E s : pc' = [pc EXCEPT ![c] = s]
        BY <1>1 DEF Asks, Ask, SaveExperiment, DeleteExperiment, LoadExperiment, GetExportData,
                    SavePlan, LoadPlan, LoadResult, SaveResult
    <2> QED
        BY <1>0, <2>1, PendingShrinks DEF Asking
  <1>2. CASE Crash(c) \/ Receive(c)
    <2>1. requests' = requests /\ issued' = issued /\ pc' = [pc EXCEPT ![c] = "idle"]
        BY <1>2 DEF Crash, Receive, Forget
    <2>2. "idle" \notin Early
        BY DEF Early
    <2> QED
        BY <1>0, <2>1, <2>2, PendingShrinks DEF Waiting
  <1>3. ASSUME NEW s, pc' = [pc EXCEPT ![c] = s] \/ pc' = pc, requests' = requests, issued' = issued,
               s \notin Early \/ pc[c] \in Early
        PROVE  Waiting
      BY <1>0, <1>3, PendingShrinks DEF Waiting
  <1>4. "answered" \notin Early
      BY DEF Early
  <1>5. CASE Undelete(c) \/ Delete(c) \/ InsertPlan(c) \/ CompletePlan(c)
    <2>1. /\ requests' = requests /\ issued' = issued
          /\ \E s \in {"commit", "insert units", "insert result"} : pc' = [pc EXCEPT ![c] = s]
        BY <1>5 DEF Undelete, Delete, InsertPlan, CompletePlan, Begin
    <2>2. \A s \in {"commit", "insert units", "insert result"} : s \notin Early
        BY DEF Early
    <2> QED
        BY <1>3, <2>1, <2>2
  <1>6. CASE InsertExperiment(c) \/ InsertResult(c) \/ InsertAssociations(c) \/ InsertUnits(c)
    <2>1. /\ requests' = requests /\ issued' = issued
          /\ \E s \in {"commit", "insert associations", "answered"} : pc' = [pc EXCEPT ![c] = s]
        BY <1>6 DEF InsertExperiment, InsertResult, InsertAssociations, InsertUnits, Begin, Write,
               Rollback
    <2>2. \A s \in {"commit", "insert associations", "answered"} : s \notin Early
        BY DEF Early
    <2> QED
        BY <1>3, <2>1, <2>2
  <1>7. CASE Commit(c) \/ Locked(c) \/ LockedOut(c)
    <2>1. /\ requests' = requests /\ issued' = issued
          /\ pc' = [pc EXCEPT ![c] = "answered"] \/ pc' = pc
        BY <1>7 DEF Commit, Locked, LockedOut, Read
    <2> QED
        BY <1>3, <1>4, <2>1
  <1>8. CASE Compare(c) \/ FindDeleted(c)
    <2>1. /\ requests' = requests /\ issued' = issued
          /\ \E s \in {"undelete", "delete", "answered"} : pc' = [pc EXCEPT ![c] = s]
        BY <1>8 DEF Compare, FindDeleted, Read
    <2>2. \A s \in {"undelete", "delete", "answered"} : s \notin Early
        BY DEF Early
    <2> QED
        BY <1>3, <2>1, <2>2
  <1>9. CASE \/ ReadExperiment(c) \/ ReadPolicies(c) \/ ReadPlan(c) \/ ReadResult(c)
             \/ ReadSimulations(c)
    <2>1. /\ requests' = requests /\ issued' = issued /\ pc[c] \in Early
          /\ \E s : pc' = [pc EXCEPT ![c] = s]
        BY <1>9 DEF ReadExperiment, ReadPolicies, ReadPlan, ReadResult, ReadSimulations, Read, Early
    <2> QED
        BY <1>3, <2>1
  <1>10. CASE ReadUnits(c) \/ ExportExperiment(c) \/ ExportPlan(c) \/ ExportResult(c) \/ ExportRows(c)
    <2>1. /\ requests' = requests /\ issued' = issued
          /\ \E s \in {"export plan", "export result", "export rows", "answered"} :
                pc' = [pc EXCEPT ![c] = s]
        BY <1>10 DEF ReadUnits, ExportExperiment, ExportPlan, ExportResult, ExportRows, Read
    <2>2. \A s \in {"export plan", "export result", "export rows", "answered"} : s \notin Early
        BY DEF Early
    <2> QED
        BY <1>3, <2>1, <2>2
  <1>11. CASE CheckIdentity(c) \/ ReadCohorts(c) \/ CheckStatus(c)
    <2>1. /\ requests' = requests /\ pc[c] \in Early
          /\ \/ issued' = issued /\ \E s : pc' = [pc EXCEPT ![c] = s]
             \/ /\ issued' = issued + 1
                /\ \E s \in {"insert experiment", "insert plan", "complete plan"} :
                      pc' = [pc EXCEPT ![c] = s]
        BY <1>11 DEF CheckIdentity, ReadCohorts, CheckStatus, Generate, Early
    <2>2. \A s \in {"insert experiment", "insert plan", "complete plan"} : s \notin Early
        BY DEF Early
    <2>3. CASE issued' = issued
        BY <1>3, <2>1, <2>3 DEF IInv, IdsInv
    <2>4. CASE issued' = issued + 1
      <3>1. PICK s : s \notin Early /\ pc' = [pc EXCEPT ![c] = s]
        <4>1. issued + 1 # issued
            BY DEF IInv, IdsInv
        <4> QED
            BY <2>1, <2>2, <2>4, <4>1
      <3>2. c \in Pending
          BY <2>1 DEF Pending
      <3> QED
          BY <1>0, <2>1, <2>4, <3>1, <3>2, PendingShrinks DEF Generating
    <2> QED
        BY <2>1, <2>3, <2>4
  <1> QED
      BY <1>1, <1>2, <1>5, <1>6, <1>7, <1>8, <1>9, <1>10, <1>11 DEF Steps

\* No step generates an identifier without a request.
THEOREM IssuedInductive == Spec => []IssuedInv
  <1>1. Init => IssuedInv
    <2> SUFFICES ASSUME Init PROVE IssuedInv
        OBVIOUS
    <2>1. Pending = {}
        BY DEF Init, Pending, Early
    <2> QED
        BY <2>1, FS_EmptySet DEF Init, IssuedInv
  <1>2. IInv /\ IssuedInv /\ [Next]_vars => IssuedInv'
    <2> SUFFICES ASSUME IInv, IssuedInv, [Next]_vars PROVE IssuedInv'
        OBVIOUS
    <2>0. /\ IsFiniteSet(Pending) /\ requests \in Nat /\ issued \in Nat
          /\ Cardinality(Pending) \in Nat /\ issued + Cardinality(Pending) <= requests
        BY FS_CardinalityType DEF IssuedInv, IInv, IdsInv
    <2>1. CASE UNCHANGED vars
        BY <2>0, <2>1 DEF vars, client, IssuedInv, Pending
    <2>2. ASSUME NEW c \in Clients, Asks(c) \/ Steps(c) \/ Crash(c) PROVE IssuedInv'
      <3>1. CASE Asking(c)
        <4>1. /\ IsFiniteSet(Pending \union {c})
              /\ Cardinality(Pending \union {c}) <= Cardinality(Pending) + 1
            BY <2>0, FS_AddElement
        <4>2. IsFiniteSet(Pending') /\ Cardinality(Pending') <= Cardinality(Pending \union {c})
            BY <3>1, <4>1, FS_Subset DEF Asking
        <4>3. Cardinality(Pending') \in Nat /\ Cardinality(Pending \union {c}) \in Nat
            BY <4>1, <4>2, FS_CardinalityType
        <4> QED
            BY <2>0, <3>1, <4>1, <4>2, <4>3 DEF Asking, IssuedInv
      <3>2. CASE Generating(c)
        <4>1. /\ IsFiniteSet(Pending \ {c})
              /\ Cardinality(Pending \ {c}) = Cardinality(Pending) - 1
            BY <2>0, <3>2, FS_RemoveElement DEF Generating
        <4>2. IsFiniteSet(Pending') /\ Cardinality(Pending') <= Cardinality(Pending \ {c})
            BY <3>2, <4>1, FS_Subset DEF Generating
        <4>3. Cardinality(Pending') \in Nat
            BY <4>2, FS_CardinalityType
        <4> QED
            BY <2>0, <3>2, <4>1, <4>2, <4>3 DEF Generating, IssuedInv
      <3>3. CASE Waiting
        <4>1. IsFiniteSet(Pending') /\ Cardinality(Pending') <= Cardinality(Pending)
            BY <2>0, <3>3, FS_Subset DEF Waiting
        <4>2. Cardinality(Pending') \in Nat
            BY <4>1, FS_CardinalityType
        <4> QED
            BY <2>0, <3>3, <4>1, <4>2 DEF Waiting, IssuedInv
      <3> QED
          BY <2>2, <3>1, <3>2, <3>3, StepCounts
    <2> QED
        BY <2>1, <2>2 DEF Next
  <1> QED
      BY <1>1, <1>2, Inductive, PTL DEF Spec

----------------------------------------------------------------------------
(* The repository implements the catalog.                                  *)

\* A new identifier is one that the catalog expects, and nobody's there.
LEMMA FreshInCatalog ==
    ASSUME IInv, IssuedInv, CountInv, NEW c \in Clients, target[c] # 0, IsNew(db, target[c])
    PROVE  /\ target[c] \in 1 .. MaxRequests
           /\ \A row \in Studies(db) \union Plans(db) \union Outcomes(db) : row.id # target[c]
  <1>1. target[c] \in 0 .. issued /\ issued \in Nat /\ target[c] # 0
      BY DEF IInv, IdsInv
  <1>2. Cardinality(Pending) \in Nat /\ issued + Cardinality(Pending) <= requests
      BY FS_CardinalityType DEF IssuedInv
  <1>3. requests \in Nat /\ requests <= MaxRequests /\ MaxRequests \in Nat
      BY BoundsAssumption DEF CountInv
  <1>4. target[c] \in 1 .. MaxRequests
      BY <1>1, <1>2, <1>3
  <1>5. \A row \in Studies(db) : row.id # target[c]
      BY DEF Studies, StudyOf, IsNew, HasExperiment
  <1>6. \A row \in Plans(db) : row.id # target[c]
      BY DEF Plans, PlanOf, IsNew, HasId
  <1>7. \A row \in Outcomes(db) : row.id # target[c]
      BY DEF Outcomes, OutcomeOf, IsNew, HasRecord
  <1> QED
      BY <1>4, <1>5, <1>6, <1>7

\* Every operation takes effect at once or not at all, however clients interleave,
\* retry and die: the tables, joined, are those of a catalog.
THEOREM CatalogCorrect == Spec => ImplementsCatalog
  <1> DEFINE studies == Studies(db)
             plans == Plans(db)
             outcomes == Outcomes(db)
  <1>1. Init => Catalog!Init
    <2> SUFFICES ASSUME Init PROVE Catalog!Init
        OBVIOUS
    <2>1. db.experiments = {} /\ db.plans = {} /\ db.results = {}
        BY DEF Init, EmptyDatabase, Tables
    <2> QED
        BY <2>1 DEF Catalog!Init
  <1>2. ASSUME IInv, ContentInv, AnswersInv, IssuedInv, [Next]_vars
        PROVE  [Catalog!Next]_(Catalog!vars)
    <2>1. CASE db' = db
      <3>1. studies' = studies /\ plans' = plans /\ outcomes' = outcomes
          BY <2>1 DEF Studies, Plans, Outcomes, StudyOf, PlanOf, OutcomeOf
      <3> QED
          BY <3>1 DEF Catalog!vars, Studies, Plans, Outcomes, StudyOf, PlanOf, OutcomeOf
    <2>2. CASE db' # db
      <3>1. PICK c \in Clients : Operates(c, db') /\ Asked(c) /\ Keyed(db')
          BY <1>2, <2>2, ChangesAreOperations
      <3>2. Whole(db, saved) /\ Keyed(db) /\ Identified(db) /\ version \in Nat /\ CountInv
          BY <1>2 DEF ContentInv, AnswersInv, Whole
      <3>3. target[c] \in Nat
          BY <1>2 DEF IInv, IdsInv
      <3> DEFINE q == request[c]
                 id == target[c]
      <3>4. CASE Publishes(c, db')
        <4>0. PICK i, identity, content, cohorts :
                  /\ i = id /\ identity = q.identity
                  /\ content = StudyContent(q.definition) /\ cohorts = q.definition.cohorts
            OBVIOUS
        <4>1. /\ id # 0 /\ IsNew(db, id) /\ IsSaveExperiment(q)
              /\ IdentityFree(db, q.identity) /\ db' = Published(db, id, q)
            BY <3>1, <3>4 DEF Publishes, Asked
        <4>2. /\ studies' = studies \union {[id |-> i, identity |-> identity, content |-> content,
                                             cohorts |-> cohorts, deleted |-> FALSE]}
              /\ plans' = plans /\ outcomes' = outcomes
            BY <3>1, <3>2, <3>3, <4>0, <4>1, PublishedInCatalog
        <4>3. i \in 1 .. MaxRequests /\ \A row \in studies \union plans \union outcomes : row.id # i
            BY <1>2, <3>2, <4>0, <4>1, FreshInCatalog
        <4>4. /\ identity \in Identities
              /\ content \in {StudyContent(x.definition) : x \in Experiments}
              /\ cohorts \in {x.definition.cohorts : x \in Experiments}
            BY <4>0, <4>1, SavedExperiment DEF IsSaveExperiment
        <4>5. \A s \in studies : s.identity # identity
            BY <4>0, <4>1 DEF IdentityFree, Studies, StudyOf
        <4>6. Catalog!Publish(i, identity, content, cohorts)
            BY <4>2, <4>3, <4>5 DEF Catalog!Publish, Catalog!Fresh, Studies, Plans, Outcomes,
                                    StudyOf, PlanOf, OutcomeOf
        <4> QED
            BY <4>3, <4>4, <4>6 DEF Catalog!Next
      <3>5. CASE Restores(c, db')
        <4>1. PICK x \in db.experiments : x.id = id
            BY <3>5 DEF Restores, Restorable
        <4>2. db' = Undeleted(db, x.id)
            BY <3>5, <4>1 DEF Restores
        <4>3. x.deleted
          <5> SUFFICES ASSUME ~x.deleted PROVE db' = db
              BY <2>2
          <5>1. [x EXCEPT !.deleted = FALSE] = x
              BY <3>2 DEF Whole, DatabaseType, ExperimentRow
          <5>2. \A y \in db.experiments : y.id = x.id => y = x
              BY <3>2 DEF Identified
          <5>3. {IF y.id = x.id THEN [y EXCEPT !.deleted = FALSE] ELSE y : y \in db.experiments} =
                    db.experiments
              BY <5>1, <5>2
          <5> QED
              BY <3>2, <4>2, <5>3 DEF Undeleted, Keyed, IsDatabase
        <4>4. PICK s : s = StudyOf(db, x)
            OBVIOUS
        <4>5. s \in studies /\ s.deleted
            BY <3>2, <4>3, <4>4, MarkInCatalog DEF Studies, Keyed
        <4>6. /\ studies' = (studies \ {s}) \union {[s EXCEPT !.deleted = FALSE]}
              /\ plans' = plans /\ outcomes' = outcomes
            BY <3>2, <4>2, <4>4, UndeletedInCatalog
        <4>7. Catalog!Restore(s)
            BY <4>5, <4>6 DEF Catalog!Restore, Studies, Plans, Outcomes, StudyOf, PlanOf, OutcomeOf
        <4>8. \E z \in studies : Catalog!Restore(z) \/ Catalog!Withdraw(z)
            BY <4>5, <4>7
        <4> QED
            BY <4>8 DEF Catalog!Next, Studies, StudyOf
      <3>6. CASE Withdraws(c, db')
        <4>1. PICK x \in db.experiments : x.id = id
            BY <3>6 DEF Withdraws, HasExperiment
        <4>2. db' = Deleted(db, x.id)
            BY <3>6, <4>1 DEF Withdraws
        <4>3. PICK s : s = StudyOf(db, x)
            OBVIOUS
        <4>4. s \in studies
            BY <4>3 DEF Studies
        <4>5. /\ studies' = (studies \ {s}) \union {[s EXCEPT !.deleted = TRUE]}
              /\ plans' = {IF p.study = s.id THEN [p EXCEPT !.deleted = TRUE] ELSE p : p \in plans}
              /\ outcomes' = outcomes
            BY <3>2, <4>2, <4>3, DeletedInCatalog
        <4>6. Catalog!Withdraw(s)
            BY <4>5 DEF Catalog!Withdraw, Studies, Plans, Outcomes, StudyOf, PlanOf, OutcomeOf
        <4>7. \E z \in studies : Catalog!Restore(z) \/ Catalog!Withdraw(z)
            BY <4>4, <4>6
        <4> QED
            BY <4>7 DEF Catalog!Next, Studies, StudyOf
      <3>7. CASE AddsPlan(c, db')
        <4>1. /\ id # 0 /\ IsNew(db, id) /\ IsSavePlan(q) /\ HasExperiment(db, q.id)
              /\ db' = Planned(db, id, q, version)
            BY <3>1, <3>7 DEF AddsPlan, Asked
        <4>2. PICK x \in db.experiments : x.id = q.id
            BY <4>1 DEF HasExperiment
        <4>3. PICK i, s, content :
                  /\ i = id /\ s = StudyOf(db, x)
                  /\ content = PlanRowsOf(UnitRows(0, q.units))
            OBVIOUS
        <4>4. /\ studies' = (studies \ {s}) \union
                    {[s EXCEPT !.cohorts = @ \union {u.date : u \in content}]}
              /\ plans' = plans \union
                    {[id |-> i, study |-> q.id, content |-> content, deleted |-> FALSE]}
              /\ outcomes' = outcomes
            BY <3>1, <3>2, <3>3, <4>1, <4>2, <4>3, PlannedInCatalog
        <4>5. s.id = q.id /\ s \in studies
            BY <4>2, <4>3 DEF StudyOf, Studies
        <4>6. i \in 1 .. MaxRequests /\ \A row \in studies \union plans \union outcomes : row.id # i
            BY <1>2, <3>2, <4>1, <4>3, FreshInCatalog
        <4>7. content \in {PlanRowsOf(UnitRows(0, units)) : units \in UnitLists}
            BY <4>1, <4>3 DEF IsSavePlan
        <4>8. Catalog!AddPlan(i, s, content)
            BY <4>4, <4>5, <4>6 DEF Catalog!AddPlan, Catalog!Fresh, Studies, Plans, Outcomes,
                                    StudyOf, PlanOf, OutcomeOf
        <4>9. \E z \in studies, k \in {PlanRowsOf(UnitRows(0, units)) : units \in UnitLists} :
                  Catalog!AddPlan(i, z, k)
            BY <4>5, <4>7, <4>8
        <4> QED
            BY <4>6, <4>9 DEF Catalog!Next, Studies, StudyOf
      <3>8. CASE Records(c, db')
        <4>1. /\ id # 0 /\ IsNew(db, id) /\ IsSaveResult(q) /\ HasId(db, q.id)
              /\ ~HasOutcome(db, q.id) /\ db' = Recorded(db, id, q)
            BY <3>1, <3>8 DEF Records, Asked
        <4>2. PICK x \in db.plans : x.id = q.id
            BY <4>1 DEF HasId
        <4>3. PICK i, p, content :
                  /\ i = id /\ p = PlanOf(db, x)
                  /\ content = ResultRowsOf(SimulationRows(0, q.simulations))
            OBVIOUS
        <4>4. /\ outcomes' = outcomes \union {[id |-> i, plan |-> q.id, content |-> content]}
              /\ studies' = studies /\ plans' = plans
            BY <3>1, <3>2, <3>3, <4>1, <4>3, RecordedInCatalog
        <4>5. p.id = q.id /\ p \in plans
            BY <4>2, <4>3 DEF PlanOf, Plans
        <4>6. i \in 1 .. MaxRequests /\ \A row \in studies \union plans \union outcomes : row.id # i
            BY <1>2, <3>2, <4>1, <4>3, FreshInCatalog
        <4>7. content \in {ResultRowsOf(SimulationRows(0, sims)) : sims \in ResultLists}
            BY <4>1, <4>3 DEF IsSaveResult
        <4>8. \A r \in outcomes : r.plan # p.id
            BY <4>1, <4>5 DEF Outcomes, OutcomeOf, HasOutcome
        <4>9. Catalog!Record(i, p, content)
            BY <4>4, <4>5, <4>6, <4>8 DEF Catalog!Record, Catalog!Fresh, Studies, Plans, Outcomes,
                                          StudyOf, PlanOf, OutcomeOf
        <4>10. \E z \in plans, k \in {ResultRowsOf(SimulationRows(0, sims)) : sims \in ResultLists} :
                  Catalog!Record(i, z, k)
            BY <4>5, <4>7, <4>9
        <4> QED
            BY <4>6, <4>10 DEF Catalog!Next, Plans, PlanOf
      <3> QED
          BY <3>1, <3>4, <3>5, <3>6, <3>7, <3>8 DEF Operates
    <2> QED
        BY <2>1, <2>2
  <1> QED
      BY <1>1, <1>2, Inductive, ContentInductive, AnswersInductive, IssuedInductive,
         PTL DEF Spec, ImplementsCatalog, Catalog!Spec

----------------------------------------------------------------------------
(* Rows in the order of their numbers.                                     *)

\* f lists the n numbers of a set from the least on.
Increasing(f, n) == \A i, j \in 1 .. n : i < j => f[i] < f[j]
Lists(f, numbers) ==
    f \in [1 .. Cardinality(numbers) -> numbers] /\ Increasing(f, Cardinality(numbers))

\* Finitely many numbers can be listed: the least, then the others.
LEMMA NumbersCanBeListed ==
    ASSUME NEW numbers \in SUBSET Nat, IsFiniteSet(numbers)
    PROVE  \E f : Lists(f, numbers)
  <1> DEFINE unlisted(S) == S \in SUBSET Nat /\ IsFiniteSet(S) /\ ~\E f : Lists(f, S)
             bad == {n \in Nat : \E S : unlisted(S) /\ Cardinality(S) = n}
  <1>1. ASSUME bad # {} PROVE FALSE
    <2>1. PICK n \in bad : \A m \in bad : n <= m
        BY <1>1, LeastNumber
    <2>2. PICK S : unlisted(S) /\ Cardinality(S) = n
        BY <2>1
    <2>3. CASE S = {}
      <3>1. Cardinality(S) = 0
          BY <2>3, FS_EmptySet
      <3>2. Lists([i \in 1 .. 0 |-> 0], S)
          BY <2>3, <3>1 DEF Lists, Increasing
      <3> QED
          BY <2>2, <3>2
    <2>4. CASE S # {}
      <3>1. PICK x \in S : \A y \in S : x <= y
          BY <2>2, <2>4, LeastNumber
      <3> DEFINE T == S \ {x}
      <3>2. IsFiniteSet(T) /\ Cardinality(T) = n - 1 /\ T \in SUBSET Nat
          BY <2>2, <3>1, FS_RemoveElement
      <3>3. n \in Nat /\ n - 1 \in Nat
          BY <2>1, <3>2, FS_CardinalityType
      <3>4. n - 1 \notin bad
          BY <2>1, <3>3
      <3>5. PICK g : Lists(g, T)
          BY <3>2, <3>3, <3>4
      <3>6. g \in [1 .. n - 1 -> T] /\ Increasing(g, n - 1)
          BY <3>2, <3>5 DEF Lists
      <3>7. \A y \in T : y \in S /\ y \in Nat /\ x < y
          BY <2>2, <3>1
      <3> DEFINE f == [i \in 1 .. n |-> IF i = 1 THEN x ELSE g[i - 1]]
      <3>8. \A i \in 1 .. n : i = 1 \/ (i - 1 \in 1 .. n - 1 /\ g[i - 1] \in T)
        <4>1. \A i \in 1 .. n : i = 1 \/ i - 1 \in 1 .. n - 1
            BY <3>3
        <4> QED
            BY <3>6, <4>1
      <3> HIDE DEF T
      <3>9. f \in [1 .. n -> S]
          BY <3>1, <3>7, <3>8
      <3>10. ASSUME NEW i \in 1 .. n, NEW j \in 1 .. n, i < j PROVE f[i] < f[j]
        <4>1. j # 1 /\ j - 1 \in 1 .. n - 1 /\ g[j - 1] \in T /\ f[j] = g[j - 1]
            BY <3>3, <3>8, <3>10
        <4>2. CASE i = 1
            BY <3>7, <4>1, <4>2
        <4>3. CASE i # 1
          <5>1. i - 1 \in 1 .. n - 1 /\ i - 1 < j - 1 /\ f[i] = g[i - 1]
              BY <3>3, <3>8, <3>10, <4>3
          <5> QED
              BY <3>6, <4>1, <5>1 DEF Increasing
        <4> QED
            BY <4>2, <4>3
      <3>11. Lists(f, S)
          BY <2>2, <3>9, <3>10 DEF Lists, Increasing
      <3> QED
          BY <2>2, <3>11
    <2> QED
        BY <2>3, <2>4
  <1>2. Cardinality(numbers) \in Nat
      BY FS_CardinalityType
  <1> QED
      BY <1>1, <1>2

\* A list of numbers leaves none out.
LEMMA AllAreListed ==
    ASSUME NEW numbers \in SUBSET Nat, IsFiniteSet(numbers), NEW f, Lists(f, numbers)
    PROVE  \A x \in numbers : \E i \in 1 .. Cardinality(numbers) : f[i] = x
  <1> DEFINE n == Cardinality(numbers)
  <1>1. n \in Nat
      BY FS_CardinalityType
  <1>2. IsFiniteSet(1 .. n) /\ Cardinality(1 .. n) = n
      BY <1>1, FS_Interval
  <1>3. f \in [1 .. n -> numbers] /\ Increasing(f, n)
      BY DEF Lists
  <1> HIDE DEF n
  <1>4. ASSUME NEW i \in 1 .. n, NEW j \in 1 .. n, f[i] = f[j] PROVE i = j
    <2>1. f[i] \in numbers /\ f[j] \in numbers
        BY <1>3
    <2>2. f[i] \in Nat /\ f[j] \in Nat
        BY <2>1
    <2>3. i \in Int /\ j \in Int
        BY <1>1
    <2>4. ~(i < j) /\ ~(j < i)
        BY <1>3, <1>4, <2>2 DEF Increasing
    <2> QED
        BY <2>3, <2>4
  <1>5. f \in Injection(1 .. n, numbers)
      BY <1>3, <1>4 DEF Injection, IsInjective
  <1>6. f \in Surjection(1 .. n, numbers)
      BY <1>2, <1>5, FS_Injection DEF n
  <1> QED
      BY <1>6 DEF Surjection, n

\* ORDER BY lists them.
LEMMA InOrderLists ==
    ASSUME NEW numbers \in SUBSET Nat, IsFiniteSet(numbers)
    PROVE  Lists(InOrder(numbers), numbers)
  <1>1. PICK f : Lists(f, numbers)
      BY NumbersCanBeListed
  <1> QED
      BY <1>1 DEF InOrder, Lists, Increasing

\* Consecutive numbers from 1 on are listed as they are.
LEMMA InOrderOfInterval ==
    ASSUME NEW n \in Nat
    PROVE  DOMAIN InOrder(1 .. n) = 1 .. n /\ \A k \in 1 .. n : InOrder(1 .. n)[k] = k
  <1>1. IsFiniteSet(1 .. n) /\ Cardinality(1 .. n) = n /\ (1 .. n) \in SUBSET Nat
      BY FS_Interval
  <1> DEFINE f == InOrder(1 .. n)
  <1>2. Lists(f, 1 .. n)
      BY <1>1, InOrderLists
  <1>3. \A x \in 1 .. n : \E i \in 1 .. n : f[i] = x
      BY <1>1, <1>2, AllAreListed
  <1>4. f \in [1 .. n -> 1 .. n] /\ Increasing(f, n)
      BY <1>1, <1>2 DEF Lists
  <1> HIDE DEF f
  <1> DEFINE bad == {k \in 1 .. n : f[k] # k}
  <1>5. ASSUME bad # {} PROVE FALSE
    <2>1. bad \in SUBSET Nat
        OBVIOUS
    <2>2. PICK k \in bad : \A j \in bad : k <= j
      <3> HIDE DEF bad
      <3> QED
          BY <1>5, <2>1, LeastNumber
    <2>3. k \in 1 .. n /\ f[k] # k /\ f[k] \in 1 .. n
        BY <1>4, <2>2
    <2>4. \A j \in 1 .. n : j < k => f[j] = j
        BY <2>2
    <2>5. ~(f[k] < k)
      <3> SUFFICES ASSUME f[k] < k PROVE FALSE
          OBVIOUS
      <3>1. f[f[k]] = f[k]
          BY <2>3, <2>4
      <3>2. f[f[k]] < f[k]
          BY <1>4, <2>3 DEF Increasing
      <3> QED
          BY <2>3, <3>1, <3>2
    <2>6. PICK i \in 1 .. n : f[i] = k
        BY <1>3, <2>3
    <2>7. i # k /\ ~(i < k)
        BY <2>3, <2>4, <2>6
    <2>8. f[k] < f[i]
        BY <1>4, <2>3, <2>7 DEF Increasing
    <2> QED
        BY <2>3, <2>5, <2>6, <2>8
  <1> QED
      BY <1>4, <1>5 DEF f

\* The policies that are loaded are those that the experiment was saved with, as
\* they are stored.
LEMMA LoadedForms ==
    ASSUME NEW d, NEW id, NEW q, IsSaveExperiment(q),
           Where(d.links, "experiment", id) = ExpectedLinks(id, q.definition.policies)
    PROVE  ToSet(StoredForms(d, id)) = ToSet(FormsOf(q.definition.policies))
  <1> DEFINE policies == q.definition.policies
             n == Len(policies)
             links == ExpectedLinks(id, policies)
             numbers == {l.index : l \in links}
             f == InOrder(numbers)
  <1>1. policies \in Seq(Policies)
      BY SavedExperiment
  <1>2. n \in Nat /\ DOMAIN policies = 1 .. n
    <2> HIDE DEF policies
    <2> QED
        BY <1>1
  <1> HIDE DEF policies, n
  <1>3. links = LinksOfFirst(id, policies, n)
      BY <1>2 DEF ExpectedLinks, LinksOfFirst, FirstOnes
  <1>4. numbers \in SUBSET Nat /\ \A i \in numbers : i <= n
      BY <1>2, <1>3 DEF LinksOfFirst, FirstOnes
  <1>5. IsFiniteSet(numbers)
    <2> HIDE DEF numbers
    <2> QED
        BY <1>2, <1>4, FS_BoundedSetOfNaturals
  <1>6. Lists(f, numbers) /\ \A x \in numbers : \E k \in 1 .. Cardinality(numbers) : f[k] = x
    <2> HIDE DEF numbers
    <2> QED
        BY <1>4, <1>5, InOrderLists, AllAreListed
  <1>7. DOMAIN f = 1 .. Cardinality(numbers) /\ \A k \in DOMAIN f : f[k] \in numbers
      BY <1>6 DEF Lists
  <1>8. StoredForms(d, id) = [k \in DOMAIN f |-> At(links, f[k]).form]
      BY DEF StoredForms, policies
  <1>9. \A l, m \in links : l.index = m.index => l = m
    <2>1. \A k \in FirstOnes(policies, n) : k \in Int
        BY <1>2 DEF FirstOnes
    <2> QED
        BY <1>3, <2>1 DEF LinksOfFirst
  <1>10. \A l \in links : At(links, l.index) = l
    <2> HIDE DEF links
    <2> SUFFICES ASSUME NEW l \in links PROVE At(links, l.index) = l
        OBVIOUS
    <2>1. At(links, l.index) \in links /\ At(links, l.index).index = l.index
        BY DEF At
    <2> QED
        BY <1>9, <2>1
  <1> HIDE DEF f
  <1>11. ToSet(StoredForms(d, id)) = {l.form : l \in links}
    <2>1. ASSUME NEW k \in DOMAIN f PROVE \E l \in links : At(links, f[k]).form = l.form
      <3>1. PICK l \in links : f[k] = l.index
          BY <1>7
      <3> QED
          BY <1>10, <3>1
    <2>2. ASSUME NEW l \in links PROVE \E k \in DOMAIN f : At(links, f[k]).form = l.form
      <3>1. PICK k \in DOMAIN f : f[k] = l.index
          BY <1>6, <1>7
      <3> QED
          BY <1>10, <3>1
    <2> HIDE DEF links
    <2> QED
        BY <1>8, <2>1, <2>2 DEF ToSet
  <1>12. {l.form : l \in links} = ToSet(FormsOf(policies))
    <2>1. \A l \in links : \E k \in 1 .. n : l.form = Form[policies[k]]
        BY <1>3 DEF LinksOfFirst, FirstOnes
    <2>2. \A k \in 1 .. n : \E l \in links : l.form = Form[policies[k]]
      <3> SUFFICES ASSUME NEW k \in 1 .. n PROVE \E l \in links : l.form = Form[policies[k]]
          OBVIOUS
      <3>1. PICK j \in FirstOnes(policies, n) : Form[policies[j]] = Form[policies[k]]
          BY <1>2, FirstOfItsForm
      <3>2. [experiment |-> id, index |-> j - 1, form |-> Form[policies[j]]] \in links
          BY <1>3 DEF LinksOfFirst
      <3> QED
          BY <3>1, <3>2
    <2>3. ToSet(FormsOf(policies)) = {Form[policies[k]] : k \in 1 .. n}
        BY <1>2 DEF FormsOf, ToSet
    <2> HIDE DEF links
    <2> QED
        BY <2>1, <2>2, <2>3
  <1> QED
      BY <1>11, <1>12 DEF policies

\* What is listed by the numbers from 1 to n has n entries.
LEMMA LengthOfListed ==
    ASSUME NEW n \in Nat, NEW s, s = [k \in 1 .. n |-> s[k]]
    PROVE  Len(s) = n /\ DOMAIN s = 1 .. n
  <1> DEFINE values == {s[k] : k \in 1 .. n}
  <1>1. \A k \in 1 .. n : s[k] \in values
      OBVIOUS
  <1> HIDE DEF values
  <1>2. s \in [1 .. n -> values]
      BY <1>1
  <1>3. s \in Seq(values)
      BY <1>2
  <1> QED
      BY <1>2, <1>3

\* As many units are loaded as the plan was saved with.
LEMMA LoadedUnits ==
    ASSUME NEW d, NEW p, NEW q, AsSavedPlan(d, p, q)
    PROVE  Len(StoredUnits(d, p.id)) = p.count
  <1> DEFINE units == q.units
             n == Len(units)
             rows == UnitRows(p.id, units)
             numbers == {u.index : u \in rows}
  <1>1. units \in Seq(UnitType)
      BY SavedPlan DEF AsSavedPlan
  <1>2. n \in Nat /\ DOMAIN units = 1 .. n
    <2> HIDE DEF units
    <2> QED
        BY <1>1
  <1>3. p.count = n /\ Where(d.units, "plan", p.id) = rows
      BY DEF AsSavedPlan
  <1> HIDE DEF units, n
  <1>4. numbers = 1 .. n
    <2>1. \A u \in rows : u.index \in 1 .. n
        BY <1>2 DEF UnitRows
    <2>2. ASSUME NEW k \in 1 .. n PROVE \E u \in rows : u.index = k
      <3> DEFINE u == [plan |-> p.id, index |-> k, date |-> units[k].date,
                       parameters |-> units[k].parameters, form |-> Form[units[k].policy]]
      <3>1. u \in rows /\ u.index = k
          BY <1>2 DEF UnitRows
      <3> HIDE DEF u, rows
      <3> QED
          BY <3>1
    <2> HIDE DEF rows
    <2> QED
        BY <2>1, <2>2
  <1>5. DOMAIN InOrder(numbers) = 1 .. n
      BY <1>2, <1>4, InOrderOfInterval
  <1> DEFINE s == StoredUnits(d, p.id)
  <1>6. s = [k \in 1 .. n |-> s[k]]
    <2> HIDE DEF rows
    <2> QED
        BY <1>3, <1>5 DEF StoredUnits
  <1> HIDE DEF s
  <1>7. Len(s) = n
      BY <1>2, <1>6, LengthOfListed
  <1> QED
      BY <1>3, <1>7 DEF s

\* As many simulations are loaded as the result was saved with, as many of them
\* successful.
LEMMA LoadedSimulations ==
    ASSUME NEW d, NEW r, NEW q, AsSavedResult(d, r, q)
    PROVE  LET s == StoredSimulations(d, r.id)
           IN  Len(s) = r.total /\ r.successes = Cardinality({k \in DOMAIN s : s[k].success})
  <1> DEFINE sims == q.simulations
             n == Len(sims)
             rows == SimulationRows(r.id, sims)
             numbers == {m.unit : m \in rows}
             last(k) == Greater(sims[k].months, 1)
             row(k, m) ==
                 [result |-> r.id, unit |-> k, month |-> m, dummy |-> sims[k].months = 0,
                  final |-> m = last(k), success |-> m = last(k) /\ sims[k].success]
  <1>1. sims \in Seq(SimulationType)
      BY SavedResult DEF AsSavedResult
  <1>2. n \in Nat /\ DOMAIN sims = 1 .. n /\ \A k \in 1 .. n : sims[k] \in SimulationType
    <2> HIDE DEF sims
    <2> QED
        BY <1>1
  <1>3. /\ r.total = n /\ r.successes = Cardinality({k \in 1 .. n : sims[k].success})
        /\ Where(d.simulations, "result", r.id) = rows
      BY <1>2 DEF AsSavedResult
  <1> HIDE DEF sims, n
  <1>4. \A k \in 1 .. n : last(k) \in 1 .. last(k) /\ sims[k].success \in BOOLEAN
    <2> SUFFICES ASSUME NEW k \in 1 .. n
                 PROVE  last(k) \in 1 .. last(k) /\ sims[k].success \in BOOLEAN
        OBVIOUS
    <2>1. sims[k].months \in Nat /\ sims[k].success \in BOOLEAN
        BY <1>2 DEF SimulationType
    <2> QED
        BY <2>1 DEF Greater
  <1>5. \A k \in 1 .. n : row(k, last(k)) \in rows
      BY <1>2, <1>4 DEF SimulationRows
  <1>6. \A x \in rows : \E k \in 1 .. n : \E m \in 1 .. last(k) : x = row(k, m)
      BY <1>2 DEF SimulationRows
  <1> HIDE DEF rows
  <1>7. numbers = 1 .. n
    <2>1. \A k \in 1 .. n : row(k, last(k)).unit = k
        OBVIOUS
    <2>2. \A x \in rows : x.unit \in 1 .. n
        BY <1>6
    <2> HIDE DEF row, last
    <2> QED
        BY <1>5, <2>1, <2>2
  <1>8. DOMAIN InOrder(numbers) = 1 .. n /\ \A k \in 1 .. n : InOrder(numbers)[k] = k
      BY <1>2, <1>7, InOrderOfInterval
  <1> DEFINE s == StoredSimulations(d, r.id)
  <1>9. s = [k \in 1 .. n |-> Load(Where(rows, "unit", InOrder(numbers)[k]))]
      BY <1>3, <1>8 DEF StoredSimulations
  <1> HIDE DEF numbers, s
  <1>10. \A k \in 1 .. n : s[k] = Load(Where(rows, "unit", k))
      BY <1>8, <1>9
  <1>11. ASSUME NEW k \in 1 .. n PROVE s[k].success <=> sims[k].success
    <2> DEFINE own == Where(rows, "unit", k)
    <2>1. s[k].success <=> \E x \in own : x.final /\ x.success
      <3> DEFINE b == \E x \in own : x.final /\ x.success
      <3>1. s[k] = Load(own)
          BY <1>10
      <3>2. Load(own).success = b
          BY DEF Load
      <3>3. b \in BOOLEAN
          OBVIOUS
      <3> HIDE DEF b
      <3>4. s[k].success <=> b
          BY <3>1, <3>2, <3>3
      <3> QED
          BY <3>4 DEF b
    <2>2. ASSUME sims[k].success PROVE \E x \in own : x.final /\ x.success
      <3>1. row(k, last(k)) \in own
          BY <1>5 DEF Where
      <3>2. row(k, last(k)).final /\ row(k, last(k)).success
          BY <2>2
      <3> HIDE DEF own, row
      <3> QED
          BY <3>1, <3>2
    <2>3. ASSUME NEW x \in own, x.success PROVE sims[k].success
      <3>1. x \in rows /\ x.unit = k
          BY DEF Where
      <3>2. PICK j \in 1 .. n : \E m \in 1 .. last(j) : x = row(j, m)
          BY <1>6, <3>1
      <3>3. PICK m \in 1 .. last(j) : x = row(j, m)
          BY <3>2
      <3>4. j = k /\ x.success = (m = last(j) /\ sims[j].success)
          BY <3>1, <3>3
      <3> QED
          BY <2>3, <3>4
    <2> HIDE DEF own
    <2> QED
        BY <2>1, <2>2, <2>3
  <1>12. s = [k \in 1 .. n |-> s[k]]
      BY <1>9
  <1>13. Len(s) = n /\ DOMAIN s = 1 .. n
      BY <1>2, <1>12, LengthOfListed
  <1>14. {k \in DOMAIN s : s[k].success} = {k \in 1 .. n : sims[k].success}
      BY <1>11, <1>13
  <1> QED
      BY <1>3, <1>13, <1>14 DEF s

----------------------------------------------------------------------------
(* What readers have read.                                                 *)

Loaders == {"load experiment", "load plan", "load result"}
PlanLoaders == {"load plan", "load result"}
PlanReaders == {"load plan", "load result", "export"}
ResultReaders == {"load result", "export"}

\* Steps that come after some table has been read.
AfterPolicies == {"read cohorts", "read units"}
AfterExperiment == {"read policies", "read cohorts", "read units"}
AfterPlan == {"read experiment", "read policies", "read cohorts", "read units"}

\* A client is past some steps when it is at one that follows, or has its answer.
Done(c) == pc[c] = "answered" /\ outcome[c] = "done"
Past(c, steps) == pc[c] \in steps \/ Done(c)

IsReading(s) ==
    s = [experiment |-> s.experiment, forms |-> s.forms, dates |-> s.dates, plan |-> s.plan,
         units |-> s.units, result |-> s.result, simulations |-> s.simulations]

\* The result that a client has read is stored.
HasReadResult(c) ==
    request[c].kind \in ResultReaders
        /\ Past(c, {"read simulations", "read plan", "export rows"} \union AfterPlan) =>
    \E x \in db.results : seen[c].result = {x}

\* Of a result all simulations were read.
SimulationsCounted(c, x) ==
    /\ Len(seen[c].simulations) = x.total
    /\ x.successes =
          Cardinality({k \in DOMAIN seen[c].simulations : seen[c].simulations[k].success})
HasReadSimulations(c) ==
    request[c].kind \in ResultReaders /\ Past(c, {"read plan"} \union AfterPlan) =>
    \A x \in seen[c].result : SimulationsCounted(c, x)

\* The plan belongs to the experiment; it may have been marked since.
IsStoredPlan(d, p) == \E q \in d.plans : SamePlan(p, q)
HasReadPlan(c) ==
    request[c].kind \in PlanReaders
        /\ Past(c, {"export result", "export rows"} \union AfterPlan) =>
    \E p : /\ seen[c].plan = {p} /\ p.experiment = ExperimentWanted(c)
           /\ IsStoredPlan(db, p)
ResultMatches(c) ==
    request[c].kind \in ResultReaders /\ Past(c, {"export rows"} \union AfterPlan) =>
    \A p \in seen[c].plan, x \in seen[c].result : x.plan = p.id

\* The experiment is the one that was wanted; it may have been deleted since.
HasReadExperiment(c) ==
    request[c].kind \in Loaders \union {"export"}
        /\ Past(c, {"export plan", "export result", "export rows"} \union AfterExperiment) =>
    \E e : /\ seen[c].experiment = {e} /\ e.id = ExperimentWanted(c)
           /\ HasExperiment(db, e.id)

\* Its policies stay what they were.
HasReadForms(c) ==
    request[c].kind \in Loaders /\ Past(c, AfterPolicies) =>
    seen[c].forms = StoredForms(db, ExperimentWanted(c))

\* The cohorts are those of the save, and some that plans have added.
DatesFit(dates, d, s, id) ==
    \E q \in SavesOf(s, id, "save experiment") :
        /\ IsSaveExperiment(q)
        /\ Where(d.links, "experiment", id) = ExpectedLinks(id, q.definition.policies)
        /\ q.definition.cohorts \subseteq dates
        /\ dates \subseteq q.definition.cohorts \union PlannedDates(d, id)
HasReadDates(c) ==
    request[c].kind \in Loaders /\ Past(c, {"read units"}) =>
    DatesFit(seen[c].dates, db, saved, ExperimentWanted(c))

\* Of a plan all units were read.
HasReadUnits(c) ==
    request[c].kind \in PlanLoaders /\ Done(c) => \A p \in seen[c].plan : Len(seen[c].units) = p.count

HasRead(c) ==
    /\ HasReadResult(c) /\ HasReadSimulations(c) /\ HasReadPlan(c) /\ ResultMatches(c)
    /\ HasReadExperiment(c) /\ HasReadForms(c) /\ HasReadDates(c) /\ HasReadUnits(c)

ReadingInv == \A c \in Clients : IsReading(seen[c]) /\ HasRead(c)

\* What was read stays true while others commit.
LEMMA ReadingStays ==
    ASSUME ContentInv, NEW c \in Clients, HasRead(c), db' = db \/ Grows(db, db'),
           saved \subseteq saved', request'[c] = request[c], seen'[c] = seen[c],
           pc'[c] = pc[c], outcome'[c] = outcome[c]
    PROVE  HasRead(c)'
  <1>1. (Done(c)' <=> Done(c)) /\ \A steps : Past(c, steps)' <=> Past(c, steps)
      BY DEF Done, Past
  <1>2. ExperimentWanted(c)' = ExperimentWanted(c)
      BY DEF ExperimentWanted
  <1>3. HasReadResult(c)'
      BY <1>1 DEF HasRead, HasReadResult, Grows
  <1>4. HasReadSimulations(c)'
      BY <1>1 DEF HasRead, HasReadSimulations, SimulationsCounted
  <1>5. ASSUME NEW p, IsStoredPlan(db, p) PROVE IsStoredPlan(db', p)
    <2>1. PICK q \in db.plans : SamePlan(p, q)
        BY <1>5 DEF IsStoredPlan
    <2>2. PICK r \in db'.plans : SamePlan(q, r)
        BY <2>1 DEF Grows, SamePlan
    <2> QED
        BY <2>1, <2>2 DEF IsStoredPlan, SamePlan
  <1>6. HasReadPlan(c)'
      BY <1>1, <1>2, <1>5 DEF HasRead, HasReadPlan
  <1>7. ResultMatches(c)'
      BY <1>1 DEF HasRead, ResultMatches
  <1>8. \A id : HasExperiment(db, id) => HasExperiment(db', id)
      BY RowsStayThere
  <1>9. HasReadExperiment(c)'
      BY <1>1, <1>2, <1>8 DEF HasRead, HasReadExperiment
  <1>10. ASSUME NEW id, HasExperiment(db, id)
         PROVE  /\ Where(db'.links, "experiment", id) = Where(db.links, "experiment", id)
                /\ PlannedDates(db, id) \subseteq PlannedDates(db', id)
    <2>1. PICK e \in db.experiments : e.id = id
        BY <1>10 DEF HasExperiment
    <2>2. Grows(db, db') => PlannedDates(db, id) \subseteq PlannedDates(db', id)
        BY PlannedDatesGrow DEF Grows
    <2> QED
        BY <2>1, <2>2 DEF Grows
  <1>11. ASSUME request[c].kind \in Loaders, Past(c, AfterPolicies)
         PROVE  HasExperiment(db, ExperimentWanted(c))
      BY <1>11 DEF HasRead, HasReadExperiment, Past, AfterPolicies, AfterExperiment
  <1>12. HasReadForms(c)'
    <2> SUFFICES ASSUME request[c].kind \in Loaders, Past(c, AfterPolicies)
                 PROVE  seen[c].forms = StoredForms(db', ExperimentWanted(c))
        BY <1>1, <1>2 DEF HasReadForms
    <2>1. seen[c].forms = StoredForms(db, ExperimentWanted(c))
        BY DEF HasRead, HasReadForms
    <2>2. StoredForms(db', ExperimentWanted(c)) = StoredForms(db, ExperimentWanted(c))
      <3>1. Where(db'.links, "experiment", ExperimentWanted(c)) =
                Where(db.links, "experiment", ExperimentWanted(c))
          BY <1>10, <1>11
      <3> QED
          BY <3>1 DEF StoredForms
    <2> QED
        BY <2>1, <2>2
  <1>13. HasReadDates(c)'
    <2> SUFFICES ASSUME request[c].kind \in Loaders, Past(c, {"read units"})
                 PROVE  DatesFit(seen[c].dates, db', saved', ExperimentWanted(c))
        BY <1>1, <1>2 DEF HasReadDates
    <2>1. DatesFit(seen[c].dates, db, saved, ExperimentWanted(c))
        BY DEF HasRead, HasReadDates
    <2>2. HasExperiment(db, ExperimentWanted(c))
        BY <1>11 DEF Past, AfterPolicies
    <2> DEFINE id == ExperimentWanted(c)
    <2> HIDE DEF id
    <2>3. SavesOf(saved, id, "save experiment") \subseteq SavesOf(saved', id, "save experiment")
        BY SavesGrow
    <2>4. /\ Where(db'.links, "experiment", id) = Where(db.links, "experiment", id)
          /\ PlannedDates(db, id) \subseteq PlannedDates(db', id)
        BY <1>10, <2>2 DEF id
    <2>5. DatesFit(seen[c].dates, db', saved', id)
        BY <2>1, <2>3, <2>4 DEF DatesFit, id
    <2> QED
        BY <2>5 DEF id
  <1>14. HasReadUnits(c)'
      BY <1>1 DEF HasRead, HasReadUnits
  <1> QED
      BY <1>3, <1>4, <1>6, <1>7, <1>9, <1>12, <1>13, <1>14 DEF HasRead

\* Steps at which something has been read.
ReadSteps == {"read simulations", "read plan", "export plan", "export result", "export rows"} \union AfterPlan

\* Nothing is claimed of a client that has read nothing yet, or is refused.
LEMMA NothingRead ==
    ASSUME NEW c \in Clients, pc'[c] \notin ReadSteps, ~Done(c)'
    PROVE  HasRead(c)'
  BY DEF HasRead, HasReadResult, HasReadSimulations, HasReadPlan, ResultMatches, HasReadExperiment,
         HasReadForms, HasReadDates, HasReadUnits, Past, ReadSteps, AfterPolicies,
         AfterExperiment, AfterPlan

\* Nor of one that does not read a study, a plan or a result.
LEMMA NoReader ==
    ASSUME NEW c \in Clients, request'[c].kind \notin Loaders \union {"export"}
    PROVE  HasRead(c)'
  BY DEF HasRead, HasReadResult, HasReadSimulations, HasReadPlan, ResultMatches, HasReadExperiment,
         HasReadForms, HasReadDates, HasReadUnits, Loaders, PlanLoaders, PlanReaders, ResultReaders

\* The invariants that the steps of a reader rest on.
ReaderInv == IInv /\ ContentInv /\ AnswersInv /\ ReadingInv

\* Before a step of a reader.
LEMMA BeforeReading ==
    ASSUME ReaderInv, NEW c \in Clients
    PROVE  /\ PerClient(seen) /\ IsReading(seen[c]) /\ HasRead(c) /\ Placed(c)
           /\ KindFits(pc[c], request[c].kind)
           /\ Whole(db, saved) /\ Identified(db) /\ Keyed(db) /\ AsSaved(db, saved)
           /\ \A s : Goto(c, s) => pc'[c] = s /\ outcome'[c] = outcome[c]
           /\ \A s : Answer(c, s) => pc'[c] = "answered" /\ outcome'[c] = s
  <1>1. IInv /\ ContentInv /\ PerClientInv /\ ReadingInv
      BY DEF ReaderInv, AnswersInv
  <1>2. \A s : Goto(c, s) => pc'[c] = s /\ outcome'[c] = outcome[c]
      BY <1>1 DEF IInv, ControlInv, Goto
  <1>3. \A s : Answer(c, s) => pc'[c] = "answered" /\ outcome'[c] = s
      BY <1>1, Told
  <1>4. PerClient(seen) /\ IsReading(seen[c]) /\ HasRead(c)
      BY <1>1 DEF PerClientInv, ReadingInv
  <1>5. Placed(c) /\ KindFits(pc[c], request[c].kind) /\ Whole(db, saved)
      BY <1>1 DEF ContentInv, ClientInv, IInv, ControlInv
  <1> QED
      BY <1>2, <1>3, <1>4, <1>5 DEF Whole

\* One reading is another with one thing more.
ReadsOne(r, s, field, v) ==
    /\ IsReading(s)
    /\ s.experiment = IF field = "experiment" THEN v ELSE r.experiment
    /\ s.forms = IF field = "forms" THEN v ELSE r.forms
    /\ s.dates = IF field = "dates" THEN v ELSE r.dates
    /\ s.plan = IF field = "plan" THEN v ELSE r.plan
    /\ s.units = IF field = "units" THEN v ELSE r.units
    /\ s.result = IF field = "result" THEN v ELSE r.result
    /\ s.simulations = IF field = "simulations" THEN v ELSE r.simulations

\* A client has read one thing more.
LEMMA OneMoreRead ==
    ASSUME PerClient(seen), NEW c \in Clients, IsReading(seen[c]), NEW v
    PROVE  /\ seen' = [seen EXCEPT ![c].experiment = v] => ReadsOne(seen[c], seen'[c], "experiment", v)
           /\ seen' = [seen EXCEPT ![c].forms = v] => ReadsOne(seen[c], seen'[c], "forms", v)
           /\ seen' = [seen EXCEPT ![c].dates = v] => ReadsOne(seen[c], seen'[c], "dates", v)
           /\ seen' = [seen EXCEPT ![c].plan = v] => ReadsOne(seen[c], seen'[c], "plan", v)
           /\ seen' = [seen EXCEPT ![c].units = v] => ReadsOne(seen[c], seen'[c], "units", v)
           /\ seen' = [seen EXCEPT ![c].result = v] => ReadsOne(seen[c], seen'[c], "result", v)
           /\ seen' = [seen EXCEPT ![c].simulations = v] => ReadsOne(seen[c], seen'[c], "simulations", v)
  <1>1. \A f, w : f = [seen EXCEPT ![c] = w] => f[c] = w
      BY DEF PerClient
  <1> DEFINE r == seen[c]
  <1>2. IsReading(r)
      OBVIOUS
  <1> HIDE DEF r
  <1>3. ReadsOne(r, [r EXCEPT !.experiment = v], "experiment", v)
      BY <1>2 DEF IsReading, ReadsOne
  <1>4. ReadsOne(r, [r EXCEPT !.forms = v], "forms", v)
      BY <1>2 DEF IsReading, ReadsOne
  <1>5. ReadsOne(r, [r EXCEPT !.dates = v], "dates", v)
      BY <1>2 DEF IsReading, ReadsOne
  <1>6. ReadsOne(r, [r EXCEPT !.plan = v], "plan", v)
      BY <1>2 DEF IsReading, ReadsOne
  <1>7. ReadsOne(r, [r EXCEPT !.units = v], "units", v)
      BY <1>2 DEF IsReading, ReadsOne
  <1>8. ReadsOne(r, [r EXCEPT !.result = v], "result", v)
      BY <1>2 DEF IsReading, ReadsOne
  <1>9. ReadsOne(r, [r EXCEPT !.simulations = v], "simulations", v)
      BY <1>2 DEF IsReading, ReadsOne
  <1> QED
      BY <1>1, <1>3, <1>4, <1>5, <1>6, <1>7, <1>8, <1>9 DEF r

\* A result and its simulations; only the two steps that follow rest on them alone.
LEMMA ResultIsRead ==
    ASSUME ReaderInv, NEW c \in Clients, ReadResult(c)
    PROVE  IsReading(seen'[c]) /\ HasRead(c)'
  <1>1. /\ pc[c] = "read result" /\ UNCHANGED <<db, saved, request>>
        /\ LET rows == ById(db.results, request[c].id)
           IN  IF rows = {} THEN Answer(c, "missing") /\ UNCHANGED seen
               ELSE Goto(c, "read simulations") /\ seen' = [seen EXCEPT ![c].result = rows]
      BY DEF ReadResult, Read, store
  <1> DEFINE rows == ById(db.results, request[c].id)
  <1>2. CASE rows = {}
    <2>1. pc'[c] = "answered" /\ outcome'[c] = "missing" /\ seen' = seen
        BY <1>1, <1>2, BeforeReading
    <2>2. pc'[c] \notin ReadSteps /\ ~Done(c)'
        BY <2>1 DEF ReadSteps, AfterPlan, Done
    <2>3. HasRead(c)'
        BY <2>2, NothingRead
    <2> QED
        BY <2>1, <2>3, BeforeReading
  <1>3. CASE rows # {}
    <2>1. pc'[c] = "read simulations" /\ seen' = [seen EXCEPT ![c].result = rows]
        BY <1>1, <1>3, BeforeReading
    <2>2. PICK x \in db.results : rows = {x}
      <3>1. PICK x \in rows : TRUE
          BY <1>3
      <3>2. \A y \in rows : y = x
          BY <3>1, BeforeReading DEF ById, Where, Identified
      <3> QED
          BY <3>1, <3>2 DEF ById, Where
    <2> HIDE DEF rows
    <2>3. IsReading(seen'[c]) /\ seen'[c].result = rows
      <3>1. ReadsOne(seen[c], seen'[c], "result", rows)
          BY <2>1, BeforeReading, OneMoreRead
      <3> QED
          BY <3>1 DEF ReadsOne
    <2>4. HasReadResult(c)'
        BY <1>1, <2>2, <2>3 DEF HasReadResult
    <2>5. ~Done(c)'
        BY <2>1 DEF Done
    <2> QED
        BY <2>1, <2>3, <2>4, <2>5
        DEF HasRead, HasReadSimulations, HasReadPlan, ResultMatches, HasReadExperiment, HasReadForms,
            HasReadDates, HasReadUnits, Past, AfterPolicies, AfterExperiment, AfterPlan
  <1> QED
      BY <1>2, <1>3

\* All simulations of a stored result are read.
LEMMA AllSimulationsRead ==
    ASSUME ReaderInv, NEW x \in db.results
    PROVE  LET s == StoredSimulations(db, x.id)
           IN  Len(s) = x.total /\ x.successes = Cardinality({k \in DOMAIN s : s[k].success})
  <1>1. AsSaved(db, saved)
      BY DEF ReaderInv, ContentInv, Whole
  <1>2. PICK q : AsSavedResult(db, x, q)
      BY <1>1 DEF AsSaved
  <1> QED
      BY <1>2, LoadedSimulations

\* The simulations that are read are all those of the result that was read.
LEMMA SimulationsAreRead ==
    ASSUME ReaderInv, NEW c \in Clients, ReadSimulations(c)
    PROVE  IsReading(seen'[c]) /\ HasRead(c)'
  <1>1. /\ pc[c] = "read simulations" /\ UNCHANGED <<db, saved, request>>
        /\ Goto(c, "read plan")
        /\ \E row \in seen[c].result :
              seen' = [seen EXCEPT ![c].simulations = StoredSimulations(db, row.id)]
      BY DEF ReadSimulations, Read, store
  <1>2. pc'[c] = "read plan" /\ request[c].kind = "load result"
      BY <1>1, BeforeReading DEF Placed
  <1>3. PICK x \in db.results : seen[c].result = {x}
      BY <1>1, <1>2, BeforeReading DEF HasRead, HasReadResult, Past, ResultReaders
  <1> DEFINE s == StoredSimulations(db, x.id)
  <1>4. Len(s) = x.total /\ x.successes = Cardinality({k \in DOMAIN s : s[k].success})
      BY AllSimulationsRead
  <1>5. seen' = [seen EXCEPT ![c].simulations = s]
      BY <1>1, <1>3
  <1> HIDE DEF s
  <1>6. IsReading(seen'[c]) /\ seen'[c].simulations = s /\ seen'[c].result = {x}
    <2>1. ReadsOne(seen[c], seen'[c], "simulations", s)
        BY <1>5, BeforeReading, OneMoreRead
    <2> QED
        BY <1>3, <2>1 DEF ReadsOne
  <1>7. HasReadResult(c)' /\ HasReadSimulations(c)'
      BY <1>1, <1>4, <1>6 DEF HasReadResult, HasReadSimulations, SimulationsCounted
  <1>8. ~Done(c)'
      BY <1>2 DEF Done
  <1> QED
      BY <1>2, <1>6, <1>7, <1>8
      DEF HasRead, HasReadPlan, ResultMatches, HasReadExperiment, HasReadForms, HasReadDates,
          HasReadUnits, Past, AfterPolicies, AfterExperiment, AfterPlan

\* A plan, by its identifier or by that of the result.
LEMMA PlanIsRead ==
    ASSUME ReaderInv, NEW c \in Clients, ReadPlan(c)
    PROVE  IsReading(seen'[c]) /\ HasRead(c)'
  <1> DEFINE id == IF request[c].kind = "load plan" THEN request[c].id
                   ELSE (CHOOSE row \in seen[c].result : TRUE).plan
             rows == ById(db.plans, id)
  <1>1. /\ pc[c] = "read plan" /\ UNCHANGED <<db, saved, request>>
        /\ IF rows = {} THEN Answer(c, "missing") /\ UNCHANGED seen
           ELSE Goto(c, "read experiment") /\ seen' = [seen EXCEPT ![c].plan = rows]
      BY DEF ReadPlan, Read, store
  <1>2. request[c].kind \in {"load plan", "load result"}
      BY <1>1, BeforeReading DEF Placed
  <1> HIDE DEF id
  <1>3. CASE rows = {}
    <2>1. pc'[c] = "answered" /\ outcome'[c] = "missing" /\ seen' = seen
        BY <1>1, <1>3, BeforeReading
    <2>2. pc'[c] \notin ReadSteps /\ ~Done(c)'
        BY <2>1 DEF ReadSteps, AfterPlan, Done
    <2>3. HasRead(c)'
        BY <2>2, NothingRead
    <2> QED
        BY <2>1, <2>3, BeforeReading
  <1>4. CASE rows # {}
    <2>1. pc'[c] = "read experiment" /\ seen' = [seen EXCEPT ![c].plan = rows]
        BY <1>1, <1>4, BeforeReading
    <2>2. PICK p \in db.plans : rows = {p} /\ p.id = id
      <3>1. PICK p \in rows : TRUE
          BY <1>4
      <3>2. \A y \in rows : y = p
          BY <3>1, BeforeReading DEF ById, Where, Keyed
      <3> QED
          BY <3>1, <3>2 DEF ById, Where
    <2> HIDE DEF rows
    <2>3. /\ IsReading(seen'[c]) /\ seen'[c].plan = {p} /\ seen'[c].result = seen[c].result
          /\ seen'[c].simulations = seen[c].simulations
      <3>1. ReadsOne(seen[c], seen'[c], "plan", rows)
          BY <2>1, BeforeReading, OneMoreRead
      <3> QED
          BY <2>2, <3>1 DEF ReadsOne
    <2>4. IsStoredPlan(db, p)
        BY DEF IsStoredPlan, SamePlan
    <2>5. ExperimentWanted(c)' = p.experiment
      <3>1. (CHOOSE row \in {p} : TRUE) = p
          OBVIOUS
      <3> QED
          BY <1>1, <1>2, <2>3, <3>1 DEF ExperimentWanted
    <2>6. HasReadPlan(c)'
        BY <1>1, <2>3, <2>4, <2>5 DEF HasReadPlan
    <2>7. ~Done(c)'
        BY <2>1 DEF Done
    <2>8. request[c].kind \in ResultReaders =>
              /\ \E x \in db.results : seen[c].result = {x}
              /\ \A x \in seen[c].result : SimulationsCounted(c, x)
        BY <1>1, BeforeReading DEF HasRead, HasReadResult, HasReadSimulations, Past
    <2>9. HasReadResult(c)' /\ HasReadSimulations(c)'
        BY <1>1, <2>3, <2>8 DEF HasReadResult, HasReadSimulations, SimulationsCounted
    <2>10. ASSUME request[c].kind \in ResultReaders, NEW x \in seen[c].result PROVE x.plan = p.id
      <3>1. request[c].kind # "load plan"
          BY <2>10 DEF ResultReaders
      <3>2. (CHOOSE row \in seen[c].result : TRUE) = x
          BY <2>8, <2>10
      <3> QED
          BY <2>2, <3>1, <3>2 DEF id
    <2>11. ResultMatches(c)'
        BY <1>1, <2>3, <2>10 DEF ResultMatches
    <2> QED
        BY <2>1, <2>3, <2>6, <2>7, <2>9, <2>11
        DEF HasRead, HasReadExperiment, HasReadForms, HasReadDates, HasReadUnits, Past,
            AfterPolicies, AfterExperiment
  <1> QED
      BY <1>3, <1>4

\* Which experiment is wanted depends on the plan that was read.
LEMMA WantedStays ==
    ASSUME NEW c \in Clients, request' = request, seen'[c].plan = seen[c].plan
    PROVE  ExperimentWanted(c)' = ExperimentWanted(c)
  BY DEF ExperimentWanted

\* What was read before a step of the reader is still so after it.
LEMMA ReadBefore ==
    ASSUME NEW c \in Clients, HasRead(c), UNCHANGED <<db, saved, request>>
    PROVE  /\ pc[c] \in {"read simulations", "read plan", "export rows"} \union AfterPlan
                 /\ seen'[c].result = seen[c].result => HasReadResult(c)'
           /\ pc[c] \in {"read plan"} \union AfterPlan
                 /\ seen'[c].result = seen[c].result
                 /\ seen'[c].simulations = seen[c].simulations => HasReadSimulations(c)'
           /\ pc[c] \in {"export result", "export rows"} \union AfterPlan
                 /\ seen'[c].plan = seen[c].plan => HasReadPlan(c)'
           /\ pc[c] \in {"export rows"} \union AfterPlan
                 /\ seen'[c].result = seen[c].result
                 /\ seen'[c].plan = seen[c].plan => ResultMatches(c)'
           /\ pc[c] \in {"export plan", "export result", "export rows"} \union AfterExperiment
                 /\ seen'[c].experiment = seen[c].experiment
                 /\ ExperimentWanted(c)' = ExperimentWanted(c) => HasReadExperiment(c)'
           /\ pc[c] \in AfterPolicies
                 /\ seen'[c].forms = seen[c].forms
                 /\ ExperimentWanted(c)' = ExperimentWanted(c) => HasReadForms(c)'
           /\ pc[c] = "read units"
                 /\ seen'[c].dates = seen[c].dates
                 /\ ExperimentWanted(c)' = ExperimentWanted(c) => HasReadDates(c)'
  <1> USE DEF HasRead, Past
  <1>1. seen'[c].plan = seen[c].plan => ExperimentWanted(c)' = ExperimentWanted(c)
      BY WantedStays
  <1>2. pc[c] \in {"read simulations", "read plan", "export rows"} \union AfterPlan
           /\ seen'[c].result = seen[c].result => HasReadResult(c)'
      BY DEF HasReadResult
  <1>3. pc[c] \in {"read plan"} \union AfterPlan /\ seen'[c].result = seen[c].result
           /\ seen'[c].simulations = seen[c].simulations => HasReadSimulations(c)'
      BY DEF HasReadSimulations, SimulationsCounted
  <1>4. pc[c] \in {"export result", "export rows"} \union AfterPlan
           /\ seen'[c].plan = seen[c].plan => HasReadPlan(c)'
      BY <1>1 DEF HasReadPlan
  <1>5. pc[c] \in {"export rows"} \union AfterPlan /\ seen'[c].result = seen[c].result
           /\ seen'[c].plan = seen[c].plan => ResultMatches(c)'
      BY DEF ResultMatches
  <1>6. pc[c] \in {"export plan", "export result", "export rows"} \union AfterExperiment
           /\ seen'[c].experiment = seen[c].experiment
           /\ ExperimentWanted(c)' = ExperimentWanted(c) => HasReadExperiment(c)'
      BY DEF HasReadExperiment
  <1>7. pc[c] \in AfterPolicies /\ seen'[c].forms = seen[c].forms
           /\ ExperimentWanted(c)' = ExperimentWanted(c) => HasReadForms(c)'
      BY DEF HasReadForms
  <1>8. pc[c] = "read units" /\ seen'[c].dates = seen[c].dates
           /\ ExperimentWanted(c)' = ExperimentWanted(c) => HasReadDates(c)'
      BY DEF HasReadDates
  <1> QED
      BY <1>2, <1>3, <1>4, <1>5, <1>6, <1>7, <1>8

\* The experiment is the one that is wanted.
LEMMA ExperimentIsRead ==
    ASSUME ReaderInv, NEW c \in Clients, ReadExperiment(c)
    PROVE  IsReading(seen'[c]) /\ HasRead(c)'
  <1> DEFINE id == ExperimentWanted(c)
             rows == Active(ById(db.experiments, id))
  <1>1. /\ pc[c] = "read experiment" /\ UNCHANGED <<db, saved, request>>
        /\ IF rows = {} THEN Answer(c, "missing") /\ UNCHANGED seen
           ELSE Goto(c, "read policies") /\ seen' = [seen EXCEPT ![c].experiment = rows]
      BY DEF ReadExperiment, Read, store
  <1> HIDE DEF id
  <1>2. CASE rows = {}
    <2>1. pc'[c] = "answered" /\ outcome'[c] = "missing" /\ seen' = seen
        BY <1>1, <1>2, BeforeReading
    <2>2. pc'[c] \notin ReadSteps /\ ~Done(c)'
        BY <2>1 DEF ReadSteps, AfterPlan, Done
    <2>3. HasRead(c)'
        BY <2>2, NothingRead
    <2> QED
        BY <2>1, <2>3, BeforeReading
  <1>3. CASE rows # {}
    <2>1. pc'[c] = "read policies" /\ seen' = [seen EXCEPT ![c].experiment = rows]
        BY <1>1, <1>3, BeforeReading
    <2>2. PICK e \in db.experiments : rows = {e} /\ e.id = id
      <3>1. PICK e \in rows : TRUE
          BY <1>3
      <3>2. \A y \in rows : y = e
          BY <3>1, BeforeReading DEF Active, ById, Where, Identified
      <3> QED
          BY <3>1, <3>2 DEF Active, ById, Where
    <2> HIDE DEF rows
    <2>3. /\ IsReading(seen'[c]) /\ seen'[c].experiment = {e} /\ seen'[c].plan = seen[c].plan
          /\ seen'[c].result = seen[c].result /\ seen'[c].simulations = seen[c].simulations
      <3>1. ReadsOne(seen[c], seen'[c], "experiment", rows)
          BY <2>1, BeforeReading, OneMoreRead
      <3> QED
          BY <2>2, <3>1 DEF ReadsOne
    <2>4. ExperimentWanted(c)' = id
        BY <1>1, <2>3, WantedStays DEF id
    <2>5. HasReadExperiment(c)'
        BY <1>1, <2>2, <2>3, <2>4 DEF HasReadExperiment, HasExperiment
    <2>6. HasReadResult(c)' /\ HasReadSimulations(c)' /\ HasReadPlan(c)' /\ ResultMatches(c)'
        BY <1>1, <2>3, BeforeReading, ReadBefore DEF AfterPlan
    <2>7. ~Done(c)'
        BY <2>1 DEF Done
    <2> QED
        BY <2>1, <2>3, <2>5, <2>6, <2>7
        DEF HasRead, HasReadForms, HasReadDates, HasReadUnits, Past, AfterPolicies
  <1> QED
      BY <1>2, <1>3

\* Its policies are those that are stored.
LEMMA PoliciesAreRead ==
    ASSUME ReaderInv, NEW c \in Clients, ReadPolicies(c)
    PROVE  IsReading(seen'[c]) /\ HasRead(c)'
  <1> DEFINE v == StoredForms(db, ExperimentWanted(c))
  <1>1. /\ pc[c] = "read policies" /\ UNCHANGED <<db, saved, request>>
        /\ Goto(c, "read cohorts") /\ seen' = [seen EXCEPT ![c].forms = v]
      BY DEF ReadPolicies, Read, store
  <1>2. pc'[c] = "read cohorts"
      BY <1>1, BeforeReading
  <1>3. /\ IsReading(seen'[c]) /\ seen'[c].forms = v /\ seen'[c].plan = seen[c].plan
        /\ seen'[c].result = seen[c].result /\ seen'[c].simulations = seen[c].simulations
        /\ seen'[c].experiment = seen[c].experiment
    <2> HIDE DEF v
    <2>1. ReadsOne(seen[c], seen'[c], "forms", v)
        BY <1>1, BeforeReading, OneMoreRead
    <2> QED
        BY <2>1 DEF ReadsOne
  <1>4. ExperimentWanted(c)' = ExperimentWanted(c)
      BY <1>1, <1>3, WantedStays
  <1>5. HasReadForms(c)'
      BY <1>1, <1>3, <1>4 DEF HasReadForms
  <1>6. HasReadResult(c)' /\ HasReadSimulations(c)' /\ HasReadPlan(c)' /\ ResultMatches(c)'
        /\ HasReadExperiment(c)'
      BY <1>1, <1>3, <1>4, BeforeReading, ReadBefore DEF AfterPlan, AfterExperiment
  <1>7. ~Done(c)'
      BY <1>2 DEF Done
  <1> QED
      BY <1>2, <1>3, <1>5, <1>6, <1>7 DEF HasRead, HasReadDates, HasReadUnits, Past

\* The dates of a stored experiment are those it was saved with and those of plans.
LEMMA StoredDatesFit ==
    ASSUME ReaderInv, NEW id, HasExperiment(db, id)
    PROVE  DatesFit(StoredDates(db, id), db, saved, id)
  <1>1. AsSaved(db, saved)
      BY DEF ReaderInv, ContentInv, Whole
  <1>2. PICK e \in db.experiments : e.id = id
      BY DEF HasExperiment
  <1>3. PICK q \in SavesOf(saved, id, "save experiment") : AsSavedExperiment(db, e, q)
      BY <1>1, <1>2 DEF AsSaved
  <1> QED
      BY <1>2, <1>3 DEF AsSavedExperiment, DatesFit

\* Its cohorts; a study by itself is complete with them.
LEMMA CohortsAreRead ==
    ASSUME ReaderInv, NEW c \in Clients, ReadCohorts(c)
    PROVE  IsReading(seen'[c]) /\ HasRead(c)'
  <1> DEFINE v == StoredDates(db, ExperimentWanted(c))
  <1>1. /\ pc[c] = "read cohorts" /\ UNCHANGED <<db, saved, request>>
        /\ seen' = [seen EXCEPT ![c].dates = v]
        /\ \/ request[c].kind = "load experiment" /\ Answer(c, "done")
           \/ request[c].kind = "save plan" /\ Goto(c, "insert plan")
           \/ request[c].kind \in {"load plan", "load result"} /\ Goto(c, "read units")
      BY DEF ReadCohorts, store
  <1>2. /\ IsReading(seen'[c]) /\ seen'[c].dates = v /\ seen'[c].plan = seen[c].plan
        /\ seen'[c].result = seen[c].result /\ seen'[c].simulations = seen[c].simulations
        /\ seen'[c].experiment = seen[c].experiment /\ seen'[c].forms = seen[c].forms
    <2> HIDE DEF v
    <2>1. ReadsOne(seen[c], seen'[c], "dates", v)
        BY <1>1, BeforeReading, OneMoreRead
    <2> QED
        BY <2>1 DEF ReadsOne
  <1>3. ExperimentWanted(c)' = ExperimentWanted(c)
      BY <1>1, <1>2, WantedStays
  <1>4. HasReadResult(c)' /\ HasReadSimulations(c)' /\ HasReadPlan(c)' /\ ResultMatches(c)'
        /\ HasReadExperiment(c)' /\ HasReadForms(c)'
      BY <1>1, <1>2, <1>3, BeforeReading, ReadBefore DEF AfterPlan, AfterExperiment, AfterPolicies
  <1>5. HasReadDates(c)'
    <2> SUFFICES ASSUME request[c].kind \in Loaders
                 PROVE  DatesFit(v, db, saved, ExperimentWanted(c))
        BY <1>1, <1>2, <1>3 DEF HasReadDates
    <2>1. HasExperiment(db, ExperimentWanted(c))
        BY <1>1, BeforeReading DEF HasRead, HasReadExperiment, Past, AfterExperiment
    <2> QED
        BY <2>1, StoredDatesFit
  <1>6. HasReadUnits(c)'
    <2>1. request'[c].kind \in PlanLoaders => pc'[c] = "read units"
        BY <1>1, BeforeReading DEF PlanLoaders
    <2> QED
        BY <2>1 DEF HasReadUnits, Done
  <1> QED
      BY <1>2, <1>4, <1>5, <1>6 DEF HasRead

\* All units of the plan; a plan or a result is complete with them.
LEMMA UnitsAreRead ==
    ASSUME ReaderInv, NEW c \in Clients, ReadUnits(c)
    PROVE  IsReading(seen'[c]) /\ HasRead(c)'
  <1>1. /\ pc[c] = "read units" /\ UNCHANGED <<db, saved, request>> /\ Answer(c, "done")
        /\ \E row \in seen[c].plan : seen' = [seen EXCEPT ![c].units = StoredUnits(db, row.id)]
      BY DEF ReadUnits, Read, store
  <1>2. request[c].kind \in {"load plan", "load result"}
      BY <1>1, BeforeReading DEF Placed
  <1>3. PICK p : seen[c].plan = {p} /\ IsStoredPlan(db, p)
      BY <1>1, <1>2, BeforeReading DEF HasRead, HasReadPlan, Past, PlanReaders, AfterPlan
  <1>4. PICK q \in db.plans : SamePlan(p, q)
      BY <1>3 DEF IsStoredPlan
  <1>5. PICK x : AsSavedPlan(db, q, x)
      BY <1>4, BeforeReading DEF AsSaved
  <1>6. Len(StoredUnits(db, p.id)) = p.count
      BY <1>4, <1>5, LoadedUnits DEF SamePlan
  <1> DEFINE v == StoredUnits(db, p.id)
  <1>7. seen' = [seen EXCEPT ![c].units = v]
      BY <1>1, <1>3
  <1> HIDE DEF v
  <1>8. /\ IsReading(seen'[c]) /\ seen'[c].units = v /\ seen'[c].plan = seen[c].plan
        /\ seen'[c].result = seen[c].result /\ seen'[c].simulations = seen[c].simulations
        /\ seen'[c].experiment = seen[c].experiment /\ seen'[c].forms = seen[c].forms
        /\ seen'[c].dates = seen[c].dates
    <2>1. ReadsOne(seen[c], seen'[c], "units", v)
        BY <1>7, BeforeReading, OneMoreRead
    <2> QED
        BY <2>1 DEF ReadsOne
  <1>9. ExperimentWanted(c)' = ExperimentWanted(c)
      BY <1>1, <1>8, WantedStays
  <1>10. HasReadResult(c)' /\ HasReadSimulations(c)' /\ HasReadPlan(c)' /\ ResultMatches(c)'
         /\ HasReadExperiment(c)' /\ HasReadForms(c)' /\ HasReadDates(c)'
      BY <1>1, <1>8, <1>9, BeforeReading, ReadBefore DEF AfterPlan, AfterExperiment, AfterPolicies
  <1>11. HasReadUnits(c)'
      BY <1>3, <1>6, <1>8 DEF HasReadUnits, v
  <1> QED
      BY <1>8, <1>10, <1>11 DEF HasRead

\* Of an experiment to be exported, the study itself.
LEMMA ExportedExperimentIsRead ==
    ASSUME ReaderInv, NEW c \in Clients, ExportExperiment(c)
    PROVE  IsReading(seen'[c]) /\ HasRead(c)'
  <1> DEFINE rows == GetExperimentMetadata(db, request[c].id)
  <1>1. /\ pc[c] = "export experiment" /\ UNCHANGED <<db, saved, request>>
        /\ IF rows = {} THEN Answer(c, "missing") /\ UNCHANGED seen
           ELSE Goto(c, "export plan") /\ seen' = [seen EXCEPT ![c].experiment = rows]
      BY DEF ExportExperiment, Read, store
  <1>2. request[c].kind = "export"
      BY <1>1, BeforeReading DEF Placed
  <1>3. CASE rows = {}
    <2>1. pc'[c] = "answered" /\ outcome'[c] = "missing" /\ seen' = seen
        BY <1>1, <1>3, BeforeReading
    <2>2. pc'[c] \notin ReadSteps /\ ~Done(c)'
        BY <2>1 DEF ReadSteps, AfterPlan, Done
    <2>3. HasRead(c)'
        BY <2>2, NothingRead
    <2> QED
        BY <2>1, <2>3, BeforeReading
  <1>4. CASE rows # {}
    <2>1. pc'[c] = "export plan" /\ seen' = [seen EXCEPT ![c].experiment = rows]
        BY <1>1, <1>4, BeforeReading
    <2>2. PICK e \in db.experiments : rows = {e} /\ e.id = request[c].id
      <3>1. PICK e \in rows : TRUE
          BY <1>4
      <3>2. \A y \in rows : y = e
          BY <3>1, BeforeReading DEF GetExperimentMetadata, Active, ById, Where, Identified
      <3> QED
          BY <3>1, <3>2 DEF GetExperimentMetadata, Active, ById, Where
    <2> HIDE DEF rows
    <2>3. IsReading(seen'[c]) /\ seen'[c].experiment = {e}
      <3>1. ReadsOne(seen[c], seen'[c], "experiment", rows)
          BY <2>1, BeforeReading, OneMoreRead
      <3> QED
          BY <2>2, <3>1 DEF ReadsOne
    <2>4. ExperimentWanted(c)' = request[c].id
        BY <1>1, <1>2 DEF ExperimentWanted
    <2>5. HasReadExperiment(c)'
        BY <1>1, <2>2, <2>3, <2>4 DEF HasReadExperiment, HasExperiment
    <2>6. ~Done(c)'
        BY <2>1 DEF Done
    <2> QED
        BY <2>1, <2>3, <2>5, <2>6
        DEF HasRead, HasReadResult, HasReadSimulations, HasReadPlan, ResultMatches, HasReadForms,
            HasReadDates, HasReadUnits, Past, AfterPolicies, AfterPlan
  <1> QED
      BY <1>3, <1>4

\* The plan of an experiment that is found is one of its plans.
LEMMA FoundPlan ==
    ASSUME ReaderInv, NEW id, NEW i \in FindPlanByExperiment(db, id)
    PROVE  \E p \in db.plans :
              p.experiment = id /\ {row \in db.plans : row.id \in FindPlanByExperiment(db, id)} = {p}
  <1> DEFINE plans == {p \in ListPlansForExperiment(db, id) : p.completed}
  <1>1. plans \subseteq db.plans /\ \A p \in plans : p.experiment = id
      BY DEF ListPlansForExperiment, Active, Where
  <1>2. version \in Nat /\ Dated(db, version) /\ Keyed(db)
      BY DEF ReaderInv, ContentInv, Whole
  <1>3. plans # {} /\ FindPlanByExperiment(db, id) = {Latest(plans).id}
      BY DEF FindPlanByExperiment
  <1> HIDE DEF plans
  <1>4. Latest(plans) \in plans
      BY <1>1, <1>2, <1>3, LatestIsOne
  <1>5. {row \in db.plans : row.id \in FindPlanByExperiment(db, id)} = {Latest(plans)}
      BY <1>1, <1>2, <1>3, <1>4 DEF Keyed
  <1> QED
      BY <1>1, <1>4, <1>5

\* The plan that an export reads is stored, or the export answers that there is none.
LEMMA ExportedPlanIsRead ==
    ASSUME ReaderInv, NEW c \in Clients, ExportPlan(c)
    PROVE  IsReading(seen'[c]) /\ HasRead(c)'
  <1> DEFINE ids == FindPlanByExperiment(db, request[c].id)
             rows == {row \in db.plans : row.id \in ids}
  <1>1. /\ pc[c] = "export plan" /\ UNCHANGED <<db, saved, request>>
        /\ IF ids = {} THEN Answer(c, "missing") /\ UNCHANGED seen
           ELSE Goto(c, "export result") /\ seen' = [seen EXCEPT ![c].plan = rows]
      BY DEF ExportPlan, Read, store
  <1>2. request[c].kind = "export"
      BY <1>1, BeforeReading DEF Placed
  <1>3. CASE ids = {}
    <2>1. pc'[c] = "answered" /\ outcome'[c] = "missing" /\ seen' = seen
        BY <1>1, <1>3, BeforeReading
    <2>2. pc'[c] \notin ReadSteps /\ ~Done(c)'
        BY <2>1 DEF ReadSteps, AfterPlan, Done
    <2>3. HasRead(c)'
        BY <2>2, NothingRead
    <2> QED
        BY <2>1, <2>3, BeforeReading
  <1>4. CASE ids # {}
    <2>1. pc'[c] = "export result" /\ seen' = [seen EXCEPT ![c].plan = rows]
        BY <1>1, <1>4, BeforeReading
    <2>2. PICK p \in db.plans : p.experiment = request[c].id /\ rows = {p}
        BY <1>4, FoundPlan
    <2> HIDE DEF rows, ids
    <2>3. IsReading(seen'[c]) /\ seen'[c].plan = {p} /\ seen'[c].experiment = seen[c].experiment
      <3>1. ReadsOne(seen[c], seen'[c], "plan", rows)
          BY <2>1, BeforeReading, OneMoreRead
      <3> QED
          BY <2>2, <3>1 DEF ReadsOne
    <2>4. ExperimentWanted(c)' = request[c].id /\ ExperimentWanted(c) = request[c].id
        BY <1>1, <1>2 DEF ExperimentWanted
    <2>5. IsStoredPlan(db, p)
        BY DEF IsStoredPlan, SamePlan
    <2>6. HasReadPlan(c)'
        BY <1>1, <2>2, <2>3, <2>4, <2>5 DEF HasReadPlan
    <2>7. HasReadExperiment(c)'
        BY <1>1, <2>3, <2>4, BeforeReading, ReadBefore
    <2>8. ~Done(c)'
        BY <2>1 DEF Done
    <2> QED
        BY <2>1, <2>3, <2>6, <2>7, <2>8
        DEF HasRead, HasReadResult, HasReadSimulations, ResultMatches, HasReadForms, HasReadDates,
            HasReadUnits, Past, AfterPolicies, AfterPlan
  <1> QED
      BY <1>3, <1>4

\* The result of the plan, of which there is one.
LEMMA ExportedResultIsRead ==
    ASSUME ReaderInv, NEW c \in Clients, ExportResult(c)
    PROVE  IsReading(seen'[c]) /\ HasRead(c)'
  <1>1. /\ pc[c] = "export result" /\ UNCHANGED <<db, saved, request>>
        /\ \E plan \in seen[c].plan :
              LET rows == Where(db.results, "plan", plan.id)
              IN  IF rows = {} THEN Answer(c, "missing") /\ UNCHANGED seen
                  ELSE Goto(c, "export rows") /\ seen' = [seen EXCEPT ![c].result = rows]
      BY DEF ExportResult, Read, store
  <1>2. request[c].kind = "export"
      BY <1>1, BeforeReading DEF Placed
  <1>3. PICK p : seen[c].plan = {p}
      BY <1>1, <1>2, BeforeReading DEF HasRead, HasReadPlan, Past, PlanReaders
  <1> DEFINE rows == Where(db.results, "plan", p.id)
  <1>4. IF rows = {} THEN Answer(c, "missing") /\ UNCHANGED seen
        ELSE Goto(c, "export rows") /\ seen' = [seen EXCEPT ![c].result = rows]
      BY <1>1, <1>3
  <1>5. CASE rows = {}
    <2>1. pc'[c] = "answered" /\ outcome'[c] = "missing" /\ seen' = seen
        BY <1>4, <1>5, BeforeReading
    <2>2. pc'[c] \notin ReadSteps /\ ~Done(c)'
        BY <2>1 DEF ReadSteps, AfterPlan, Done
    <2>3. HasRead(c)'
        BY <2>2, NothingRead
    <2> QED
        BY <2>1, <2>3, BeforeReading
  <1>6. CASE rows # {}
    <2>1. pc'[c] = "export rows" /\ seen' = [seen EXCEPT ![c].result = rows]
        BY <1>4, <1>6, BeforeReading
    <2>2. PICK x \in db.results : rows = {x} /\ x.plan = p.id
      <3>1. PICK x \in rows : TRUE
          BY <1>6
      <3>2. \A y \in rows : y = x
          BY <3>1, BeforeReading DEF Where, Keyed
      <3> QED
          BY <3>1, <3>2 DEF Where
    <2> HIDE DEF rows
    <2>3. /\ IsReading(seen'[c]) /\ seen'[c].result = {x} /\ seen'[c].plan = seen[c].plan
          /\ seen'[c].experiment = seen[c].experiment
      <3>1. ReadsOne(seen[c], seen'[c], "result", rows)
          BY <2>1, BeforeReading, OneMoreRead
      <3> QED
          BY <2>2, <3>1 DEF ReadsOne
    <2>4. ExperimentWanted(c)' = ExperimentWanted(c)
        BY <1>1, <2>3, WantedStays
    <2>5. HasReadPlan(c)' /\ HasReadExperiment(c)'
        BY <1>1, <2>3, <2>4, BeforeReading, ReadBefore
    <2>6. HasReadResult(c)' /\ ResultMatches(c)'
        BY <1>1, <1>3, <2>2, <2>3 DEF HasReadResult, ResultMatches
    <2>7. ~Done(c)'
        BY <2>1 DEF Done
    <2> QED
        BY <2>1, <2>3, <2>5, <2>6, <2>7
        DEF HasRead, HasReadSimulations, HasReadForms, HasReadDates, HasReadUnits, Past,
            AfterPolicies, AfterPlan
  <1> QED
      BY <1>5, <1>6

\* The units of the plan and the simulations of the result, together.
LEMMA ExportedRowsAreRead ==
    ASSUME ReaderInv, NEW c \in Clients, ExportRows(c)
    PROVE  IsReading(seen'[c]) /\ HasRead(c)'
  <1>1. /\ pc[c] = "export rows" /\ UNCHANGED <<db, saved, request>> /\ Answer(c, "done")
        /\ \E plan \in seen[c].plan, result \in seen[c].result :
              seen' = [seen EXCEPT ![c].units = StoredUnits(db, plan.id),
                                   ![c].simulations = StoredSimulations(db, result.id)]
      BY DEF ExportRows, Read, store
  <1>2. request[c].kind = "export"
      BY <1>1, BeforeReading DEF Placed
  <1>3. PICK x \in db.results : seen[c].result = {x}
      BY <1>1, <1>2, BeforeReading DEF HasRead, HasReadResult, Past, ResultReaders
  <1> DEFINE s == StoredSimulations(db, x.id)
  <1>4. Len(s) = x.total /\ x.successes = Cardinality({k \in DOMAIN s : s[k].success})
      BY AllSimulationsRead
  <1>5. PICK plan \in seen[c].plan :
            seen' = [seen EXCEPT ![c].units = StoredUnits(db, plan.id), ![c].simulations = s]
      BY <1>1, <1>3
  <1> HIDE DEF s
  <1> DEFINE units == StoredUnits(db, plan.id)
             old == seen[c]
             r == [old EXCEPT !.units = units]
  <1>6. ReadsOne(seen[c], r, "units", units)
    <2>1. IsReading(old)
        BY BeforeReading
    <2> HIDE DEF old, units
    <2>2. ReadsOne(old, r, "units", units)
        BY <2>1 DEF IsReading, ReadsOne
    <2> QED
        BY <2>2 DEF old
  <1>7. seen'[c] = [r EXCEPT !.simulations = s]
      BY <1>5, BeforeReading DEF PerClient
  <1> HIDE DEF r
  <1>8. ReadsOne(r, seen'[c], "simulations", s)
      BY <1>6, <1>7 DEF IsReading, ReadsOne
  <1>9. /\ IsReading(seen'[c]) /\ seen'[c].simulations = s /\ seen'[c].result = {x}
        /\ seen'[c].plan = seen[c].plan /\ seen'[c].experiment = seen[c].experiment
      BY <1>3, <1>6, <1>8 DEF ReadsOne
  <1>10. ExperimentWanted(c)' = ExperimentWanted(c)
      BY <1>1, <1>9, WantedStays
  <1>11. HasReadResult(c)' /\ HasReadPlan(c)' /\ ResultMatches(c)' /\ HasReadExperiment(c)'
      BY <1>1, <1>3, <1>9, <1>10, BeforeReading, ReadBefore
  <1>12. HasReadSimulations(c)'
      BY <1>4, <1>9 DEF HasReadSimulations, SimulationsCounted
  <1>13. HasReadForms(c)' /\ HasReadDates(c)' /\ HasReadUnits(c)'
      BY <1>1, <1>2 DEF HasReadForms, HasReadDates, HasReadUnits, Loaders, PlanLoaders
  <1> QED
      BY <1>9, <1>11, <1>12, <1>13 DEF HasRead

\* Every step keeps what readers have read.
LEMMA StepReads ==
    ASSUME IInv, ContentInv, AnswersInv, ReadingInv, [Next]_vars
    PROVE  ReadingInv'
  <1>1. (db' = db \/ Grows(db, db')) /\ ReaderInv
      BY ChangesAreOperations DEF ReaderInv
  <1>2. CASE UNCHANGED vars
    <2>1. /\ UNCHANGED <<db, saved, request, seen, pc, outcome>>
        BY <1>2 DEF vars, client
    <2>2. \A c \in Clients : HasRead(c)'
        BY <1>1, <2>1, ReadingStays DEF ReadingInv
    <2> QED
        BY <2>1, <2>2 DEF ReadingInv
  <1>3. ASSUME NEW c \in Clients, Asks(c) \/ Steps(c) \/ Crash(c) PROVE ReadingInv'
    <2>1. AloneAt(c)
        BY <1>3, StepIsAlone DEF AnswersInv
    <2>2. saved \subseteq saved'
      <3>1. CASE Asks(c) \/ Crash(c)
          BY <3>1 DEF Asks, Crash, Ask, SaveExperiment, DeleteExperiment, LoadExperiment,
                 GetExportData, SavePlan, LoadPlan, LoadResult, SaveResult, store
      <3>2. CASE CheckIdentity(c) \/ Compare(c) \/ FindDeleted(c) \/ Locked(c) \/ LockedOut(c) \/ Receive(c)
          BY <3>2 DEF CheckIdentity, Compare, FindDeleted, Locked, LockedOut, Receive, Read, store
      <3>3. CASE Undelete(c) \/ Delete(c) \/ InsertPlan(c) \/ CompletePlan(c) \/ Commit(c)
          BY <3>3 DEF Undelete, Delete, InsertPlan, CompletePlan, Begin, Commit
      <3>4. CASE \/ InsertExperiment(c) \/ InsertResult(c) \/ InsertAssociations(c)
                 \/ InsertUnits(c)
          BY <3>4 DEF InsertExperiment, InsertResult, InsertAssociations, InsertUnits, Begin,
                 Write, Rollback
      <3>5. CASE ReadingSteps(c) \/ ReadCohorts(c) \/ CheckStatus(c)
          BY <3>5 DEF ReadingSteps, Compare, LockedOut, ReadExperiment, ReadPolicies, ReadCohorts,
                 ReadPlan, ReadUnits, CheckStatus, ReadResult, ReadSimulations,
                 ExportExperiment, ExportPlan, ExportResult, ExportRows, Read, store
      <3> QED
          BY <1>3, <3>1, <3>2, <3>3, <3>4, <3>5 DEF Steps, ReadingSteps
    <2>3. ASSUME IsReading(seen'[c]) /\ HasRead(c)' PROVE ReadingInv'
      <3> SUFFICES ASSUME NEW d \in Clients, d # c PROVE IsReading(seen'[d]) /\ HasRead(d)'
          BY <2>3 DEF ReadingInv
      <3>1. /\ pc'[d] = pc[d] /\ request'[d] = request[d] /\ outcome'[d] = outcome[d]
            /\ seen'[d] = seen[d]
          BY <2>1 DEF AloneAt, ButFor
      <3>2. IsReading(seen[d]) /\ HasRead(d)
          BY DEF ReadingInv
      <3> QED
          BY <1>1, <2>2, <3>1, <3>2, ReadingStays
    <2>4. IsReading(seen[c])
        BY DEF ReadingInv
    <2>5. CASE \/ ReadExperiment(c) \/ ReadPolicies(c) \/ ReadCohorts(c) \/ ReadPlan(c)
               \/ ReadUnits(c) \/ ReadResult(c) \/ ReadSimulations(c) \/ ExportExperiment(c)
               \/ ExportPlan(c) \/ ExportResult(c) \/ ExportRows(c)
        BY <1>1, <2>3, <2>5, ExperimentIsRead, PoliciesAreRead, CohortsAreRead, PlanIsRead,
           UnitsAreRead, ResultIsRead, SimulationsAreRead, ExportedExperimentIsRead,
           ExportedPlanIsRead, ExportedResultIsRead, ExportedRowsAreRead
    <2>6. CASE \/ Compare(c) \/ LockedOut(c) \/ Locked(c) \/ CheckIdentity(c) \/ FindDeleted(c)
               \/ CheckStatus(c) \/ Undelete(c) \/ Delete(c) \/ InsertExperiment(c)
               \/ InsertAssociations(c) \/ InsertPlan(c) \/ InsertUnits(c) \/ CompletePlan(c)
               \/ InsertResult(c) \/ Commit(c)
      <3>1. request' = request /\ seen' = seen
          BY <2>6 DEF Compare, LockedOut, Locked, CheckIdentity, FindDeleted, CheckStatus, Undelete,
                 Delete, InsertExperiment, InsertAssociations, InsertPlan, InsertUnits,
                 CompletePlan, InsertResult, Commit, Begin, Write, Rollback, Read
      <3>2. pc[c] \in {"compare", "undelete", "delete", "insert experiment", "insert plan",
                       "complete plan", "check identity", "find deleted", "check status",
                       "insert associations", "insert units", "insert result", "commit"}
          BY <2>6 DEF Compare, LockedOut, Locked, CheckIdentity, FindDeleted, CheckStatus, Undelete,
                 Delete, InsertExperiment, InsertAssociations, InsertPlan, InsertUnits,
                 CompletePlan, InsertResult, Commit
      <3>3. KindFits(pc[c], request[c].kind) /\ ClientInv(c)
          BY DEF IInv, ControlInv, ContentInv
      <3>4. request[c].kind \in {"save experiment", "save plan", "save result", "delete"}
        <4>1. CASE pc[c] = "commit"
            BY <3>3, <4>1 DEF ClientInv, Staged, Operates, Publishes, Restores, Withdraws, AddsPlan,
                   Records
        <4>2. CASE pc[c] # "commit"
            BY <3>2, <3>3, <4>2 DEF KindFits
        <4> QED
            BY <4>1, <4>2
      <3>5. HasRead(c)'
          BY <3>1, <3>4, NoReader DEF Loaders
      <3> QED
          BY <2>3, <2>4, <3>1, <3>5
    <2>7. CASE Receive(c) \/ Crash(c)
      <3>1. Forget(c)
          BY <2>7 DEF Receive, Crash
      <3>2. pc'[c] = "idle" /\ seen'[c] = Nothing
          BY <3>1 DEF Forget, IInv, ControlInv, AnswersInv, PerClientInv, PerClient
      <3>3. pc'[c] \notin ReadSteps /\ ~Done(c)'
          BY <3>2 DEF ReadSteps, AfterPlan, Done
      <3>4. IsReading(seen'[c])
          BY <3>2 DEF IsReading, Nothing
      <3> QED
          BY <2>3, <3>3, <3>4, NothingRead
    <2>8. CASE Asks(c)
      <3> DEFINE Starts(s, kind) == pc'[c] = s /\ request'[c].kind = kind /\ seen' = seen
      <3>1. \/ Starts("check identity", "save experiment") \/ Starts("find deleted", "delete")
            \/ Starts("read experiment", "load experiment")
            \/ Starts("read experiment", "save plan") \/ Starts("read plan", "load plan")
            \/ Starts("check status", "save result") \/ Starts("read result", "load result")
            \/ Starts("export experiment", "export")
        <4>1. PerClient(pc) /\ PerClient(request)
            BY DEF IInv, ControlInv, PerClient
        <4> USE DEF Ask, Goto, PerClient
        <4>2. ASSUME NEW x, SaveExperiment(c, x)
              PROVE  Starts("check identity", "save experiment")
            BY <4>1, <4>2 DEF SaveExperiment
        <4>3. ASSUME NEW x, DeleteExperiment(c, x) PROVE Starts("find deleted", "delete")
            BY <4>1, <4>3 DEF DeleteExperiment
        <4>4. ASSUME NEW id, LoadExperiment(c, id)
              PROVE  Starts("read experiment", "load experiment")
            BY <4>1, <4>4 DEF LoadExperiment
        <4>5. ASSUME NEW id, NEW units, SavePlan(c, id, units)
              PROVE  Starts("read experiment", "save plan")
            BY <4>1, <4>5 DEF SavePlan
        <4>6. ASSUME NEW id, LoadPlan(c, id) PROVE Starts("read plan", "load plan")
            BY <4>1, <4>6 DEF LoadPlan
        <4>7. ASSUME NEW id, NEW sims, SaveResult(c, id, sims)
              PROVE  Starts("check status", "save result")
            BY <4>1, <4>7 DEF SaveResult
        <4>8. ASSUME NEW id, LoadResult(c, id) PROVE Starts("read result", "load result")
            BY <4>1, <4>8 DEF LoadResult
        <4>9. ASSUME NEW id, GetExportData(c, id) PROVE Starts("export experiment", "export")
            BY <4>1, <4>9 DEF GetExportData
        <4> HIDE DEF Starts
        <4> QED
            BY <2>8, <4>2, <4>3, <4>4, <4>5, <4>6, <4>7, <4>8, <4>9 DEF Asks
      <3>2. CASE Starts("read experiment", "load experiment") \/ Starts("read plan", "load plan")
        <4>1. /\ seen' = seen /\ ~Done(c)'
              /\ \/ pc'[c] = "read experiment" /\ request'[c].kind = "load experiment"
                 \/ pc'[c] = "read plan" /\ request'[c].kind = "load plan"
          <5>1. \/ pc'[c] = "read experiment" /\ request'[c].kind = "load experiment" /\ seen' = seen
                \/ pc'[c] = "read plan" /\ request'[c].kind = "load plan" /\ seen' = seen
              BY <3>2
          <5> QED
              BY <5>1 DEF Done
        <4>2. HasRead(c)'
            BY <4>1 DEF HasRead, HasReadResult, HasReadSimulations, HasReadPlan, ResultMatches,
                   HasReadExperiment, HasReadForms, HasReadDates, HasReadUnits, Past,
                   ResultReaders, PlanReaders, AfterPolicies, AfterExperiment, AfterPlan
        <4> QED
            BY <2>3, <2>4, <4>1, <4>2
      <3>3. CASE \/ Starts("check identity", "save experiment") \/ Starts("find deleted", "delete")
                 \/ Starts("check status", "save result") \/ Starts("read result", "load result")
                 \/ Starts("export experiment", "export")
        <4>1. /\ seen' = seen
              /\ pc'[c] \in {"check identity", "find deleted", "check status", "read result",
                             "export experiment"}
            BY <3>3
        <4>2. pc'[c] \notin ReadSteps /\ ~Done(c)'
            BY <4>1 DEF ReadSteps, AfterPlan, Done
        <4> QED
            BY <2>3, <2>4, <4>1, <4>2, NothingRead
      <3>4. CASE Starts("read experiment", "save plan")
        <4>1. seen' = seen /\ request'[c].kind = "save plan"
            BY <3>4
        <4> QED
            BY <2>3, <2>4, <4>1, NoReader DEF Loaders
      <3> QED
          BY <3>1, <3>2, <3>3, <3>4
    <2> QED
        BY <1>3, <2>5, <2>6, <2>7, <2>8 DEF Steps
  <1> QED
      BY <1>2, <1>3 DEF Next

\* What readers have read belongs together in every reachable state.
THEOREM ReadingInductive == Spec => []ReadingInv
  <1>1. Init => ReadingInv
    <2> SUFFICES ASSUME Init, NEW c \in Clients PROVE IsReading(seen[c]) /\ HasRead(c)
        BY DEF ReadingInv
    <2>1. seen[c] = Nothing /\ pc[c] = "idle"
        BY DEF Init
    <2>2. IsReading(seen[c])
        BY <2>1 DEF IsReading, Nothing
    <2>3. HasRead(c)
        BY <2>1 DEF HasRead, HasReadResult, HasReadSimulations, HasReadPlan, ResultMatches,
               HasReadExperiment, HasReadForms, HasReadDates, HasReadUnits, Past, Done,
               AfterPolicies, AfterExperiment, AfterPlan
    <2> QED
        BY <2>2, <2>3
  <1>2. IInv /\ ContentInv /\ AnswersInv /\ ReadingInv /\ [Next]_vars => ReadingInv'
      BY StepReads
  <1> QED
      BY <1>1, <1>2, AnswersInductive, ContentInductive, Inductive, PTL DEF Spec

\* Whatever others commit between the queries of a loader, what it returns is one
\* study, plan or result, and all of it.
THEOREM CoherentCorrect == Spec => []AnswersAreCoherent
  <1>1. ReadingInv => AnswersAreCoherent
    <2> SUFFICES ASSUME ReadingInv, NEW c \in Clients, Done(c)
        PROVE  /\ request[c].kind \in Loaders =>
                     \E e \in seen[c].experiment : \E r \in SavedAs(e.id, "save experiment") :
                        /\ r.definition.cohorts \subseteq seen[c].dates
                        /\ seen[c].dates \subseteq r.definition.cohorts \union PlannedDates(db, e.id)
                        /\ ToSet(seen[c].forms) = ToSet(FormsOf(r.definition.policies))
               /\ request[c].kind \in PlanLoaders =>
                     \E p \in seen[c].plan, e \in seen[c].experiment :
                        p.experiment = e.id /\ Len(seen[c].units) = p.count
               /\ request[c].kind \in ResultReaders =>
                     \E p \in seen[c].plan, x \in seen[c].result :
                        /\ x.plan = p.id /\ p.experiment \in {e.id : e \in seen[c].experiment}
                        /\ Len(seen[c].simulations) = x.total
                        /\ x.successes = Cardinality({k \in DOMAIN seen[c].simulations :
                                                          seen[c].simulations[k].success})
        BY DEF AnswersAreCoherent, Done, Loaders, PlanLoaders, ResultReaders
    <2>1. HasRead(c) /\ \A steps : Past(c, steps)
        BY DEF ReadingInv, Past
    <2>2. ASSUME request[c].kind \in Loaders
          PROVE  \E e \in seen[c].experiment : \E r \in SavedAs(e.id, "save experiment") :
                    /\ r.definition.cohorts \subseteq seen[c].dates
                    /\ seen[c].dates \subseteq r.definition.cohorts \union PlannedDates(db, e.id)
                    /\ ToSet(seen[c].forms) = ToSet(FormsOf(r.definition.policies))
      <3>1. PICK e : seen[c].experiment = {e} /\ e.id = ExperimentWanted(c)
          BY <2>1, <2>2 DEF HasRead, HasReadExperiment
      <3>2. DatesFit(seen[c].dates, db, saved, e.id) /\ seen[c].forms = StoredForms(db, e.id)
          BY <2>1, <2>2, <3>1 DEF HasRead, HasReadDates, HasReadForms
      <3>3. PICK q \in SavesOf(saved, e.id, "save experiment") :
                /\ IsSaveExperiment(q)
                /\ Where(db.links, "experiment", e.id) = ExpectedLinks(e.id, q.definition.policies)
                /\ q.definition.cohorts \subseteq seen[c].dates
                /\ seen[c].dates \subseteq q.definition.cohorts \union PlannedDates(db, e.id)
          BY <3>2 DEF DatesFit
      <3>4. ToSet(seen[c].forms) = ToSet(FormsOf(q.definition.policies))
          BY <3>2, <3>3, LoadedForms
      <3>5. q \in SavedAs(e.id, "save experiment")
          BY DEF SavedAs, SavesOf
      <3> QED
          BY <3>1, <3>3, <3>4, <3>5
    <2>3. ASSUME request[c].kind \in PlanLoaders \/ request[c].kind \in ResultReaders
          PROVE  \E p, e : /\ seen[c].plan = {p} /\ seen[c].experiment = {e}
                           /\ p.experiment = e.id
      <3>1. request[c].kind \in PlanReaders /\ request[c].kind \in Loaders \union {"export"}
          BY <2>3 DEF PlanLoaders, ResultReaders, PlanReaders, Loaders
      <3>2. PICK p : seen[c].plan = {p} /\ p.experiment = ExperimentWanted(c)
          BY <2>1, <3>1 DEF HasRead, HasReadPlan
      <3>3. PICK e : seen[c].experiment = {e} /\ e.id = ExperimentWanted(c)
          BY <2>1, <3>1 DEF HasRead, HasReadExperiment
      <3> QED
          BY <3>2, <3>3
    <2>4. ASSUME request[c].kind \in PlanLoaders
          PROVE  \E p \in seen[c].plan, e \in seen[c].experiment :
                    p.experiment = e.id /\ Len(seen[c].units) = p.count
      <3>1. \A p \in seen[c].plan : Len(seen[c].units) = p.count
          BY <2>1, <2>4 DEF HasRead, HasReadUnits
      <3> QED
          BY <2>3, <2>4, <3>1
    <2>5. ASSUME request[c].kind \in ResultReaders
          PROVE  \E p \in seen[c].plan, x \in seen[c].result :
                    /\ x.plan = p.id /\ p.experiment \in {e.id : e \in seen[c].experiment}
                    /\ SimulationsCounted(c, x)
      <3>1. PICK x : seen[c].result = {x}
          BY <2>1, <2>5 DEF HasRead, HasReadResult
      <3>2. SimulationsCounted(c, x) /\ \A p \in seen[c].plan : x.plan = p.id
          BY <2>1, <2>5, <3>1 DEF HasRead, HasReadSimulations, ResultMatches
      <3>3. PICK p, e : seen[c].plan = {p} /\ seen[c].experiment = {e} /\ p.experiment = e.id
          BY <2>3, <2>5
      <3> QED
          BY <3>1, <3>2, <3>3
    <2> QED
        BY <2>2, <2>4, <2>5 DEF SimulationsCounted
  <1> QED
      BY <1>1, ReadingInductive, PTL

----------------------------------------------------------------------------
(* Requests end.                                                           *)

\* The steps of a request, each with those that may come after it.
Followers ==
    {<<"check identity", "insert experiment">>, <<"check identity", "compare">>,
     <<"compare", "undelete">>, <<"undelete", "commit">>,
     <<"insert experiment", "insert associations">>, <<"insert associations", "commit">>,
     <<"find deleted", "delete">>, <<"delete", "commit">>,
     <<"read experiment", "read policies">>, <<"read policies", "read cohorts">>,
     <<"read cohorts", "insert plan">>, <<"read cohorts", "read units">>,
     <<"insert plan", "insert units">>, <<"insert units", "commit">>,
     <<"read plan", "read experiment">>,
     <<"check status", "complete plan">>, <<"complete plan", "insert result">>,
     <<"insert result", "commit">>,
     <<"read result", "read simulations">>, <<"read simulations", "read plan">>,
     <<"export experiment", "export plan">>, <<"export plan", "export result">>,
     <<"export result", "export rows">>}

\* A step may also be the last before an answer, or before the client dies.
Follows(next, step) ==
    \/ next = "answered" /\ step \notin {"idle", "answered"}
    \/ next = "idle" /\ step # "idle"
    \/ <<step, next>> \in Followers

\* The steps a client may be at.
ClientSteps ==
    {"idle", "answered", "commit", "read units", "export rows", "undelete", "delete",
     "insert associations", "insert units", "insert result", "export result", "compare",
     "find deleted", "insert experiment", "insert plan", "complete plan", "export plan",
     "check identity", "check status", "read cohorts", "export experiment", "read policies",
     "read experiment", "read plan", "read simulations", "read result"}

\* How far each step is from the end.
LEMMA Places ==
    /\ StepsFrom("idle") = 0 /\ StepsFrom("answered") = 1
    /\ StepsFrom("commit") = 2 /\ StepsFrom("read units") = 2
    /\ StepsFrom("export rows") = 2
    /\ StepsFrom("undelete") = 3 /\ StepsFrom("delete") = 3
    /\ StepsFrom("insert associations") = 3
    /\ StepsFrom("insert units") = 3 /\ StepsFrom("insert result") = 3
    /\ StepsFrom("export result") = 3
    /\ StepsFrom("compare") = 4 /\ StepsFrom("find deleted") = 4
    /\ StepsFrom("insert experiment") = 4
    /\ StepsFrom("insert plan") = 4 /\ StepsFrom("complete plan") = 4
    /\ StepsFrom("export plan") = 4
    /\ StepsFrom("check identity") = 5 /\ StepsFrom("check status") = 5
    /\ StepsFrom("read cohorts") = 5 /\ StepsFrom("export experiment") = 5
    /\ StepsFrom("read policies") = 6 /\ StepsFrom("read experiment") = 7
    /\ StepsFrom("read plan") = 8 /\ StepsFrom("read simulations") = 9
    /\ StepsFrom("read result") = 10
  <1>1. StepsFrom("idle") = 0 /\ StepsFrom("answered") = 1
      BY DEF StepsFrom
  <1>2. StepsFrom("commit") = 2 /\ StepsFrom("read units") = 2 /\ StepsFrom("export rows") = 2
      BY DEF StepsFrom
  <1>3. StepsFrom("undelete") = 3 /\ StepsFrom("delete") = 3 /\ StepsFrom("insert associations") = 3
      BY DEF StepsFrom
  <1>4. StepsFrom("insert units") = 3 /\ StepsFrom("insert result") = 3 /\ StepsFrom("export result") = 3
      BY DEF StepsFrom
  <1>5. StepsFrom("compare") = 4 /\ StepsFrom("find deleted") = 4 /\ StepsFrom("insert experiment") = 4
      BY DEF StepsFrom
  <1>6. StepsFrom("insert plan") = 4 /\ StepsFrom("complete plan") = 4 /\ StepsFrom("export plan") = 4
      BY DEF StepsFrom
  <1>7. StepsFrom("check identity") = 5 /\ StepsFrom("check status") = 5
      BY DEF StepsFrom
  <1>8. StepsFrom("read cohorts") = 5 /\ StepsFrom("export experiment") = 5
      BY DEF StepsFrom
  <1>9. StepsFrom("read policies") = 6 /\ StepsFrom("read experiment") = 7
      BY DEF StepsFrom
  <1>10. StepsFrom("read plan") = 8 /\ StepsFrom("read simulations") = 9
      BY DEF StepsFrom
  <1>11. StepsFrom("read result") = 10
      BY DEF StepsFrom
  <1> QED
      BY <1>1, <1>2, <1>3, <1>4, <1>5, <1>6, <1>7, <1>8, <1>9, <1>10, <1>11

\* Every step of a request counts.
LEMMA EveryStepCounts ==
    ASSUME NEW step \in ClientSteps, step # "idle"
    PROVE  StepsFrom(step) \in 1 .. 10
  <1>1. /\ 1 \in 1 .. 10 /\ 2 \in 1 .. 10 /\ 3 \in 1 .. 10 /\ 4 \in 1 .. 10 /\ 5 \in 1 .. 10
        /\ 6 \in 1 .. 10 /\ 7 \in 1 .. 10 /\ 8 \in 1 .. 10 /\ 9 \in 1 .. 10 /\ 10 \in 1 .. 10
      OBVIOUS
  <1> QED
      BY <1>1, Places, Zenon DEF ClientSteps

\* An answer, or an exception, is near whatever the step.
LEMMA AnswersAreNear ==
    ASSUME NEW step \in ClientSteps, step # "idle", step # "answered"
    PROVE  StepsFrom("answered") < StepsFrom(step)
  <1>1. 1 < 2 /\ 1 < 3 /\ 1 < 4 /\ 1 < 5 /\ 1 < 6 /\ 1 < 7 /\ 1 < 8 /\ 1 < 9 /\ 1 < 10
      OBVIOUS
  <1> QED
      BY <1>1, Places, Zenon DEF ClientSteps

\* What follows is nearer to the end.
LEMMA FollowersAreNearer ==
    ASSUME NEW step \in ClientSteps, NEW next, Follows(next, step)
    PROVE  next \in ClientSteps /\ (next # "idle" => StepsFrom(next) < StepsFrom(step))
  <1>1. CASE next = "answered" /\ step \notin {"idle", "answered"}
      BY <1>1, AnswersAreNear, Zenon DEF ClientSteps
  <1>2. CASE next = "idle"
      BY <1>2, Zenon DEF ClientSteps
  <1>3. CASE ~(next = "answered" /\ step \notin {"idle", "answered"}) /\ next # "idle"
    <2>1. 2 < 3 /\ 3 < 4 /\ 4 < 5 /\ 2 < 5 /\ 5 < 6 /\ 6 < 7 /\ 7 < 8 /\ 8 < 9 /\ 9 < 10
        OBVIOUS
    <2> DEFINE Near == next \in ClientSteps /\ StepsFrom(next) < StepsFrom(step)
    <2>2. <<step, next>> \in Followers
        BY <1>3, Zenon DEF Follows
    <2>3. ASSUME \/ <<step, next>> = <<"check identity", "insert experiment">>
                 \/ <<step, next>> = <<"check identity", "compare">>
                 \/ <<step, next>> = <<"compare", "undelete">>
                 \/ <<step, next>> = <<"undelete", "commit">>
                 \/ <<step, next>> = <<"insert experiment", "insert associations">>
                 \/ <<step, next>> = <<"insert associations", "commit">>
          PROVE  Near
        BY <2>1, <2>3, Places, Zenon DEF ClientSteps
    <2>4. ASSUME \/ <<step, next>> = <<"find deleted", "delete">>
                 \/ <<step, next>> = <<"delete", "commit">>
                 \/ <<step, next>> = <<"read experiment", "read policies">>
                 \/ <<step, next>> = <<"read policies", "read cohorts">>
                 \/ <<step, next>> = <<"read cohorts", "insert plan">>
                 \/ <<step, next>> = <<"read cohorts", "read units">>
          PROVE  Near
        BY <2>1, <2>4, Places, Zenon DEF ClientSteps
    <2>5. ASSUME \/ <<step, next>> = <<"insert plan", "insert units">>
                 \/ <<step, next>> = <<"insert units", "commit">>
                 \/ <<step, next>> = <<"read plan", "read experiment">>
                 \/ <<step, next>> = <<"check status", "complete plan">>
                 \/ <<step, next>> = <<"complete plan", "insert result">>
                 \/ <<step, next>> = <<"insert result", "commit">>
          PROVE  Near
        BY <2>1, <2>5, Places, Zenon DEF ClientSteps
    <2>6. ASSUME \/ <<step, next>> = <<"read result", "read simulations">>
                 \/ <<step, next>> = <<"read simulations", "read plan">>
                 \/ <<step, next>> = <<"export experiment", "export plan">>
                 \/ <<step, next>> = <<"export plan", "export result">>
                 \/ <<step, next>> = <<"export result", "export rows">>
          PROVE  Near
        BY <2>1, <2>6, Places, Zenon DEF ClientSteps
    <2> HIDE DEF Near
    <2>7. Near
        BY <2>2, <2>3, <2>4, <2>5, <2>6, Zenon DEF Followers
    <2> QED
        BY <2>7 DEF Near
  <1> QED
      BY <1>1, <1>2, <1>3

\* A step, other than waiting for the lock, takes its client nearer to the end.
Advances(c) ==
    \E next : /\ pc' = [pc EXCEPT ![c] = next] /\ Follows(next, pc[c])
              /\ requests' = requests
              /\ next # "idle" => tries' = tries

\* On to a step that follows.
LEMMA GoesToFollower ==
    ASSUME NEW c \in Clients, NEW next, Goto(c, next), <<pc[c], next>> \in Followers,
           requests' = requests, tries' = tries
    PROVE  Advances(c)
  BY DEF Goto, Advances, Follows

\* To an answer or an exception.
LEMMA GoesToAnswer ==
    ASSUME NEW c \in Clients, NEW what, Answer(c, what), pc[c] \notin {"idle", "answered"},
           requests' = requests, tries' = tries
    PROVE  Advances(c)
  BY Zenon DEF Answer, Advances, Follows

\* Reading leads on or to an answer.
LEMMA ReadingAdvances ==
    ASSUME NEW c \in Clients, ReadingSteps(c) \/ ReadCohorts(c)
    PROVE  Advances(c)
  <1>1. requests' = requests /\ tries' = tries
      BY Zenon DEF ReadingSteps, Compare, LockedOut, ReadExperiment, ReadPolicies, ReadPlan,
             ReadUnits, ReadResult, ReadSimulations, ExportExperiment, ExportPlan,
             ExportResult, ExportRows, ReadCohorts, Read
  <1> DEFINE On(step, next) == pc[c] = step /\ Goto(c, next) /\ <<step, next>> \in Followers
             End == pc[c] \notin {"idle", "answered"} /\ \E what : Answer(c, what)
  <1>2. CASE Compare(c) \/ LockedOut(c)
    <2>1. On("compare", "undelete") \/ End
        BY <1>2, Zenon DEF Compare, LockedOut, Followers
    <2> QED
        BY <1>1, <2>1, GoesToFollower, GoesToAnswer
  <1>3. CASE ReadExperiment(c) \/ ReadPolicies(c)
    <2>1. On("read experiment", "read policies") \/ On("read policies", "read cohorts") \/ End
        BY <1>3, Zenon DEF ReadExperiment, ReadPolicies, Followers
    <2> QED
        BY <1>1, <2>1, GoesToFollower, GoesToAnswer
  <1>4. CASE ReadCohorts(c) \/ ReadPlan(c) \/ ReadUnits(c)
    <2>1. \/ On("read cohorts", "insert plan") \/ On("read cohorts", "read units")
          \/ On("read plan", "read experiment") \/ End
        BY <1>4, Zenon DEF ReadCohorts, ReadPlan, ReadUnits, Followers
    <2> QED
        BY <1>1, <2>1, GoesToFollower, GoesToAnswer
  <1>5. CASE ReadResult(c) \/ ReadSimulations(c)
    <2>1. \/ On("read result", "read simulations") \/ On("read simulations", "read plan") \/ End
        BY <1>5, Zenon DEF ReadResult, ReadSimulations, Followers
    <2> QED
        BY <1>1, <2>1, GoesToFollower, GoesToAnswer
  <1>6. CASE ExportExperiment(c) \/ ExportPlan(c) \/ ExportResult(c) \/ ExportRows(c)
    <2>1. \/ On("export experiment", "export plan") \/ On("export plan", "export result")
          \/ On("export result", "export rows") \/ End
        BY <1>6, Zenon DEF ExportExperiment, ExportPlan, ExportResult, ExportRows, Followers
    <2> QED
        BY <1>1, <2>1, GoesToFollower, GoesToAnswer
  <1> QED
      BY <1>2, <1>3, <1>4, <1>5, <1>6 DEF ReadingSteps

\* So does choosing what to write, and writing it.
LEMMA WritingAdvances ==
    ASSUME NEW c \in Clients,
           \/ CheckIdentity(c) \/ FindDeleted(c) \/ CheckStatus(c)
           \/ Undelete(c) \/ Delete(c) \/ InsertExperiment(c) \/ InsertAssociations(c)
           \/ InsertPlan(c) \/ InsertUnits(c) \/ CompletePlan(c) \/ InsertResult(c)
           \/ Commit(c)
    PROVE  Advances(c)
  <1>1. requests' = requests /\ tries' = tries
      BY Zenon DEF CheckIdentity, FindDeleted, CheckStatus, Undelete, Delete, InsertExperiment,
             InsertAssociations, InsertPlan, InsertUnits, CompletePlan, InsertResult, Commit,
             Begin, Write, Rollback
  <1> DEFINE On(step, next) == pc[c] = step /\ Goto(c, next) /\ <<step, next>> \in Followers
             End == pc[c] \notin {"idle", "answered"} /\ \E what : Answer(c, what)
  <1>2. CASE CheckIdentity(c)
    <2>1. \/ On("check identity", "insert experiment") \/ On("check identity", "compare") \/ End
        BY <1>2, Zenon DEF CheckIdentity, Followers
    <2> QED
        BY <1>1, <2>1, GoesToFollower, GoesToAnswer
  <1>3. CASE FindDeleted(c) \/ CheckStatus(c)
    <2>1. On("find deleted", "delete") \/ On("check status", "complete plan") \/ End
        BY <1>3, Zenon DEF FindDeleted, CheckStatus, Followers
    <2> QED
        BY <1>1, <2>1, GoesToFollower, GoesToAnswer
  <1>4. CASE Undelete(c) \/ Delete(c) \/ InsertAssociations(c) \/ InsertUnits(c)
    <2>1. \/ On("undelete", "commit") \/ On("delete", "commit")
          \/ On("insert associations", "commit") \/ On("insert units", "commit")
        BY <1>4, Zenon DEF Undelete, Delete, InsertAssociations, InsertUnits, Followers
    <2> QED
        BY <1>1, <2>1, GoesToFollower
  <1>5. CASE InsertExperiment(c) \/ InsertPlan(c) \/ CompletePlan(c)
    <2>1. \/ On("insert experiment", "insert associations") \/ On("insert plan", "insert units")
          \/ On("complete plan", "insert result") \/ End
        BY <1>5, Zenon DEF InsertExperiment, InsertPlan, CompletePlan, Rollback, Followers
    <2> QED
        BY <1>1, <2>1, GoesToFollower, GoesToAnswer
  <1>6. CASE InsertResult(c) \/ Commit(c)
    <2>1. On("insert result", "commit") \/ End
        BY <1>6, Zenon DEF InsertResult, Commit, Rollback, Followers
    <2> QED
        BY <1>1, <2>1, GoesToFollower, GoesToAnswer
  <1> QED
      BY <1>2, <1>3, <1>4, <1>5, <1>6

\* Taking the answer, or dying, ends the request.
LEMMA ForgettingAdvances ==
    ASSUME NEW c \in Clients, Receive(c) \/ Crash(c)
    PROVE  Advances(c)
  <1>1. pc' = [pc EXCEPT ![c] = "idle"] /\ requests' = requests /\ pc[c] # "idle"
      BY Zenon DEF Receive, Crash, Forget
  <1> QED
      BY <1>1, Zenon DEF Advances, Follows

\* Every client is at a step of its request, or at none.
AtSteps == \A c \in Clients : pc[c] \in ClientSteps

\* A request begins at one of its steps.
LEMMA AskingBegins ==
    ASSUME IInv, NEW c \in Clients, Asks(c)
    PROVE  pc[c] = "idle" /\ requests' = requests + 1 /\ pc'[c] \in ClientSteps
  <1> DEFINE A(s) == \E r : Ask(c, s, r)
  <1>1. \/ A("check identity") \/ A("find deleted") \/ A("read experiment")
        \/ A("read plan") \/ A("check status") \/ A("read result") \/ A("export experiment")
      BY DEF Asks, SaveExperiment, DeleteExperiment, LoadExperiment, GetExportData,
             SavePlan, LoadPlan, LoadResult, SaveResult
  <1> HIDE DEF A
  <1>2. \E s \in ClientSteps : A(s)
      BY <1>1, Zenon DEF ClientSteps
  <1>3. PICK s \in ClientSteps : \E r : Ask(c, s, r)
      BY <1>2 DEF A
  <1>4. pc[c] = "idle" /\ requests' = requests + 1 /\ pc' = [pc EXCEPT ![c] = s]
      BY <1>3 DEF Ask, Goto
  <1> QED
      BY <1>3, <1>4, Zenon DEF IInv, ControlInv

\* A step forward shortens what is left.
LEMMA AdvancingShortens ==
    ASSUME IInv, AnswersInv, AtSteps, NEW c \in Clients, Advances(c)
    PROVE  /\ pc[c] # "idle" /\ pc'[c] \in ClientSteps
           /\ StepsLeft(c)' \in 0 .. StepsLeft(c) - 1
  <1>1. PICK next : /\ pc' = [pc EXCEPT ![c] = next] /\ Follows(next, pc[c])
                    /\ next # "idle" => tries' = tries
      BY Zenon DEF Advances
  <1>2. pc'[c] = next
      BY <1>1, Zenon DEF IInv, ControlInv
  <1>3. pc[c] # "idle"
      BY <1>1, Zenon DEF Follows, Followers
  <1>4. next \in ClientSteps /\ (next # "idle" => StepsFrom(next) < StepsFrom(pc[c]))
      BY <1>1, FollowersAreNearer, Zenon DEF AtSteps
  <1>5. StepsFrom(pc[c]) \in 1 .. 10 /\ (next # "idle" => StepsFrom(next) \in 1 .. 10)
      BY <1>3, <1>4, EveryStepCounts, Zenon DEF AtSteps
  <1>6. tries[c] \in 0 .. MaxTries /\ MaxTries \in Nat
      BY BoundsAssumption DEF AnswersInv, CountInv
  <1>7. StepsLeft(c) = StepsFrom(pc[c]) + MaxTries - tries[c]
      BY <1>3, Zenon DEF StepsLeft
  <1>8. CASE next = "idle"
    <2>1. StepsLeft(c)' = 0
        BY <1>2, <1>8, Zenon DEF StepsLeft
    <2> HIDE DEF StepsLeft
    <2> QED
        BY <1>2, <1>3, <1>4, <1>5, <1>6, <1>7, <2>1
  <1>9. CASE next # "idle"
    <2>1. StepsLeft(c)' = StepsFrom(next) + MaxTries - tries[c]
      <3>1. tries' = tries
          BY <1>1, <1>9
      <3> QED
          BY <1>2, <1>9, <3>1, Zenon DEF StepsLeft
    <2>2. ASSUME NEW m \in 1 .. 10, NEW n \in 1 .. 10, m < n, NEW t \in 0 .. MaxTries
          PROVE  m + MaxTries - t \in 0 .. (n + MaxTries - t) - 1
        BY <1>6, <2>2
    <2>3. StepsFrom(next) + MaxTries - tries[c] \in 0 .. (StepsFrom(pc[c]) + MaxTries - tries[c]) - 1
        BY <1>4, <1>5, <1>6, <1>9, <2>2
    <2> QED
        BY <1>2, <1>3, <1>4, <1>7, <2>1, <2>3, Zenon
  <1> QED
      BY <1>8, <1>9

\* So does an attempt at the lock that fails.
LEMMA LockedShortens ==
    ASSUME IInv, AnswersInv, AtSteps, NEW c \in Clients, Locked(c)
    PROVE  /\ pc[c] # "idle" /\ pc'[c] \in ClientSteps
           /\ StepsLeft(c)' \in 0 .. StepsLeft(c) - 1
  <1>1. pc[c] \notin {"idle", "answered"} /\ pc[c] \in ClientSteps
      BY Zenon DEF Locked, AtSteps
  <1>2. StepsFrom(pc[c]) \in 1 .. 10 /\ StepsFrom("answered") = 1
      BY <1>1, EveryStepCounts, Places, Zenon
  <1>3. StepsFrom("answered") < StepsFrom(pc[c])
      BY <1>1, AnswersAreNear, Zenon
  <1>4. tries[c] \in 0 .. MaxTries /\ tries[c] < MaxTries /\ MaxTries \in Nat
      BY <1>1, BoundsAssumption DEF AnswersInv, CountInv
  <1>5. tries'[c] = tries[c] + 1
      BY DEF Locked, AnswersInv, PerClientInv, PerClient
  <1>6. StepsLeft(c) = StepsFrom(pc[c]) + MaxTries - tries[c]
      BY <1>1, Zenon DEF StepsLeft
  <1>7. ASSUME NEW m \in 1 .. 10, NEW n \in 1 .. 10, m <= n,
               NEW t \in 0 .. MaxTries, t < MaxTries
        PROVE  m + MaxTries - (t + 1) \in 0 .. (n + MaxTries - t) - 1
      BY <1>4, <1>7
  <1>8. CASE pc' = pc
    <2>1. StepsLeft(c)' = StepsFrom(pc[c]) + MaxTries - (tries[c] + 1)
        BY <1>1, <1>5, <1>8, Zenon DEF StepsLeft
    <2>2. StepsFrom(pc[c]) <= StepsFrom(pc[c])
        BY <1>2
    <2>3. StepsFrom(pc[c]) + MaxTries - (tries[c] + 1)
              \in 0 .. (StepsFrom(pc[c]) + MaxTries - tries[c]) - 1
        BY <1>2, <1>4, <1>7, <2>2
    <2> QED
        BY <1>1, <1>6, <1>8, <2>1, <2>3, Zenon
  <1>9. CASE Answer(c, "locked")
    <2>1. pc'[c] = "answered"
        BY <1>9, Told DEF AnswersInv
    <2>2. StepsLeft(c)' = StepsFrom("answered") + MaxTries - (tries[c] + 1)
        BY <1>5, <2>1, Zenon DEF StepsLeft
    <2>3. StepsFrom("answered") + MaxTries - (tries[c] + 1)
              \in 0 .. (StepsFrom(pc[c]) + MaxTries - tries[c]) - 1
      <3>1. ASSUME NEW m \in 1 .. 10, NEW n \in 1 .. 10, m < n PROVE m <= n
          BY <3>1
      <3>2. StepsFrom("answered") \in 1 .. 10 /\ StepsFrom("answered") <= StepsFrom(pc[c])
        <4>1. 1 \in 1 .. 10
            OBVIOUS
        <4> QED
            BY <1>2, <1>3, <3>1, <4>1, Zenon
      <3> QED
          BY <1>2, <1>4, <1>7, <3>2, Zenon
    <2>4. "answered" \in ClientSteps
        BY Zenon DEF ClientSteps
    <2> QED
        BY <1>1, <1>6, <2>1, <2>2, <2>3, <2>4, Zenon
  <1> QED
      BY <1>8, <1>9, Zenon DEF Locked

\* A step begins a client's request or brings it nearer to its end; it is none of
\* the others' business.
LEMMA StepsShorten ==
    ASSUME IInv, AnswersInv, AtSteps, NEW c \in Clients, Asks(c) \/ Steps(c) \/ Crash(c)
    PROVE  /\ pc'[c] \in ClientSteps
           /\ IF pc[c] = "idle" THEN requests' = requests + 1
              ELSE StepsLeft(c)' \in 0 .. StepsLeft(c) - 1
           /\ \A d \in Clients \ {c} : pc'[d] = pc[d] /\ StepsLeft(d)' = StepsLeft(d)
  <1>1. \A d \in Clients \ {c} : pc'[d] = pc[d] /\ tries'[d] = tries[d]
      BY StepIsAlone DEF AnswersInv, AloneAt, ButFor
  <1>2. \A d \in Clients \ {c} : StepsLeft(d)' = StepsLeft(d)
      BY <1>1, Zenon DEF StepsLeft
  <1>3. CASE Asks(c)
      BY <1>1, <1>2, <1>3, AskingBegins
  <1>4. CASE Locked(c)
      BY <1>1, <1>2, <1>4, LockedShortens
  <1>5. CASE Advances(c)
      BY <1>1, <1>2, <1>5, AdvancingShortens
  <1>6. Asks(c) \/ Locked(c) \/ Advances(c)
      BY ReadingAdvances, WritingAdvances, ForgettingAdvances DEF Steps, ReadingSteps
  <1> QED
      BY <1>3, <1>4, <1>5, <1>6

\* Every request is over after at most 10 + MaxTries steps of its client, if the
\* client takes them: none is repeated, and nobody else adds to them.
THEOREM RequestsCorrect == Spec => RequestsRunOut
  <1>1. Init => AtSteps
      BY Zenon DEF Init, AtSteps, ClientSteps
  <1>2. IInv /\ AnswersInv /\ AtSteps /\ [Next]_vars => AtSteps'
    <2> SUFFICES ASSUME IInv, AnswersInv, AtSteps, [Next]_vars, NEW d \in Clients
                 PROVE  pc'[d] \in ClientSteps
        BY DEF AtSteps
    <2>1. CASE UNCHANGED vars
        BY <2>1 DEF vars, client, AtSteps
    <2>2. ASSUME NEW c \in Clients, Asks(c) \/ Steps(c) \/ Crash(c)
          PROVE  pc'[d] \in ClientSteps
        BY <2>2, StepsShorten DEF AtSteps
    <2> QED
        BY <2>1, <2>2 DEF Next
  <1> DEFINE Shortens ==
        \E c \in Clients :
            /\ IF pc[c] = "idle" THEN requests' = requests + 1
               ELSE StepsLeft(c)' \in 0 .. StepsLeft(c) - 1
            /\ \A d \in Clients \ {c} : StepsLeft(d)' = StepsLeft(d)
  <1>3. IInv /\ AnswersInv /\ AtSteps /\ [Next]_vars => [Shortens]_vars
    <2> SUFFICES ASSUME IInv, AnswersInv, AtSteps, Next PROVE Shortens
        OBVIOUS
    <2>1. PICK c \in Clients : Asks(c) \/ Steps(c) \/ Crash(c)
        BY DEF Next
    <2> QED
        BY <2>1, StepsShorten
  <1>4. RequestsRunOut <=> [][Shortens]_vars
      BY PTL DEF RequestsRunOut
  <1> HIDE DEF Shortens
  <1> QED
      BY <1>1, <1>2, <1>3, <1>4, AnswersInductive, Inductive, PTL DEF Spec

=============================================================================
