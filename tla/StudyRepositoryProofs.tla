----------------------- MODULE StudyRepositoryProofs -----------------------
(***************************************************************************)
(* The repository's constraints and transactions keep identities, plans    *)
(* and results consistent for any number of clients, requests, experiments *)
(* and tries, wherever clients die.                                        *)
(***************************************************************************)
EXTENDS StudyRepository, TLAPS

\* Steps of a client with an open transaction.
Holding == {"insert associations", "insert units", "insert result", "commit"}

\* Steps of one kind of request only.
KindFits(step, kind) ==
    /\ step \in {"check identity", "compare", "undelete", "insert experiment",
                 "insert associations"} => kind = "save experiment"
    /\ step \in {"find deleted", "delete"} => kind = "delete"
    /\ step \in {"check status", "complete plan", "insert result"} => kind = "save result"
    /\ step \in {"insert plan", "insert units"} => kind = "save plan"

\* A client has generated the identifier of a plan it is going to insert.
Planning(c) == pc[c] = "insert plan"

\* Who writes, and what for: the writer is the one client in a transaction.
ControlInv ==
    /\ pc = [c \in Clients |-> pc[c]] /\ request = [c \in Clients |-> request[c]]
    /\ target = [c \in Clients |-> target[c]]
    /\ writer \in Clients \union {NoClient}
    /\ \A c \in Clients : (pc[c] \in Holding) <=> (writer = c)
    /\ writer = NoClient => draft = db
    /\ \A c \in Clients : KindFits(pc[c], request[c].kind)

HasId(d, id) == \E p \in d.plans : p.id = id

\* Identifiers were generated; that of a plan to be inserted is nobody else's.
IdsInv ==
    /\ issued \in Nat
    /\ \A c \in Clients : target[c] \in 0 .. issued
    /\ \A d \in {db, draft} :
          /\ \A p \in d.plans : p.id \in 0 .. issued
          /\ \A e \in d.experiments : e.id \in 0 .. issued
    /\ \A c, d \in Clients : c # d /\ Planning(c) /\ Planning(d) => target[c] # target[d]
    /\ \A c \in Clients : Planning(c) => ~HasId(db, target[c]) /\ ~HasId(draft, target[c])

IsDatabase(d) == d = [t \in Tables |-> d[t]]

IsExperiment(e) ==
    e = [id |-> e.id, identity |-> e.identity, config |-> e.config, deleted |-> e.deleted]
IsPlan(p) ==
    /\ p = [id |-> p.id, experiment |-> p.experiment, count |-> p.count,
            completed |-> p.completed, deleted |-> p.deleted, created |-> p.created]
    /\ p.completed \in BOOLEAN /\ p.deleted \in BOOLEAN

HasOutcome(d, id) == \E r \in d.results : r.plan = id

\* Rows are records, keys are keys, and results refer to plans.
Keyed(d) ==
    /\ IsDatabase(d)
    /\ \A e \in d.experiments : IsExperiment(e)
    /\ \A p \in d.plans : IsPlan(p)
    /\ \A a, b \in d.experiments : a.identity = b.identity => a = b
    /\ \A a, b \in d.plans : a.id = b.id => a = b
    /\ \A a, b \in d.results : a.plan = b.plan => a = b
    /\ \A r \in d.results : HasId(d, r.plan)

\* The tables after others: no row lost, no mark taken from a plan.
Extends(d, e) ==
    /\ ExperimentContent(d.experiments) \subseteq ExperimentContent(e.experiments)
    /\ PlanContent(d.plans) \subseteq PlanContent(e.plans)
    /\ d.cohorts \subseteq e.cohorts /\ d.units \subseteq e.units
    /\ d.results \subseteq e.results /\ d.simulations \subseteq e.simulations
    /\ \A p \in d.plans, q \in e.plans : p.id = q.id =>
          (p.completed => q.completed) /\ (p.deleted => q.deleted)

\* Completed if and only if there is a result.
Matched(d, p) == p.completed <=> HasOutcome(d, p.id)

\* Only the writer between its two statements sees them apart.
MatchInv ==
    /\ \A p \in db.plans : Matched(db, p)
    /\ \A p \in draft.plans :
          \/ Matched(draft, p)
          \/ \E c \in Clients : pc[c] = "insert result" /\ p.id = request[c].id /\ p.completed
    /\ \A c \in Clients :
          pc[c] \in {"complete plan", "insert result"} => HasId(db, request[c].id)
    /\ \A c \in Clients : pc[c] = "insert result" =>
          \A p \in draft.plans : p.id = request[c].id => p.completed

IInv == ControlInv /\ IdsInv /\ Keyed(db) /\ Keyed(draft) /\ Extends(db, draft) /\ MatchInv

----------------------------------------------------------------------------
(* Tables.                                                                 *)

\* Tables extend themselves.
LEMMA ExtendsItself == ASSUME NEW d, Keyed(d) PROVE Extends(d, d)
  <1>1. \A p, q \in d.plans : p.id = q.id => p = q
      BY DEF Keyed
  <1> QED
      BY <1>1 DEF Extends

\* A plan that was there is there.
LEMMA ExtendsIds == ASSUME NEW d, NEW e, Extends(d, e), NEW id, HasId(d, id) PROVE HasId(e, id)
  <1>1. PICK p \in d.plans : p.id = id
      BY DEF HasId
  <1>2. <<p.id, p.experiment, p.count, p.created>> \in PlanContent(e.plans)
      BY <1>1 DEF Extends, PlanContent
  <1>3. PICK q \in e.plans : <<p.id, p.experiment, p.count, p.created>> =
                             <<q.id, q.experiment, q.count, q.created>>
      BY <1>2 DEF PlanContent
  <1>4. p.id = q.id
      BY <1>3
  <1> QED
      BY <1>1, <1>4 DEF HasId

----------------------------------------------------------------------------
(* Kinds of steps.                                                         *)

\* The next identifier is a new one.
LEMMA Counting ==
    \A i \in Nat : i >= i /\ i + 1 \in Nat /\ i + 1 >= i /\ i + 1 > i /\ i + 1 \in 0 .. (i + 1)
  OBVIOUS

\* A step that changes what a client knows and asks, not the tables.
LEMMA QuietStep ==
    ASSUME IInv, NEW c \in Clients, NEW s,
           UNCHANGED <<db, draft, writer>>,
           pc' = [pc EXCEPT ![c] = s],
           pc[c] \notin Holding, s \notin Holding,
           request' = request \/ \E r : request' = [request EXCEPT ![c] = r],
           KindFits(s, request'[c].kind),
           issued' \in Nat, issued' >= issued,
           target' = target \/ \E t \in 0 .. issued' : target' = [target EXCEPT ![c] = t],
           s = "insert plan" =>
              \/ target' = target /\ request' = request /\ pc[c] = "insert plan"
              \/ target'[c] > issued,
           s = "complete plan" => HasId(db, request'[c].id)
    PROVE  IInv'
  <1> USE DEF IInv
  <1>1. /\ pc' = [d \in Clients |-> pc'[d]] /\ request' = [d \in Clients |-> request'[d]]
        /\ target' = [d \in Clients |-> target'[d]]
      BY DEF ControlInv
  <1>2. pc'[c] = s /\ \A d \in Clients : d # c =>
            pc'[d] = pc[d] /\ request'[d] = request[d] /\ target'[d] = target[d]
      BY DEF ControlInv
  <1>3. ControlInv'
    <2>1. \A d \in Clients : (pc'[d] \in Holding) <=> (writer' = d)
        BY <1>2 DEF ControlInv
    <2>2. \A d \in Clients : KindFits(pc'[d], request'[d].kind)
        BY <1>2 DEF ControlInv
    <2> QED
        BY <1>1, <2>1, <2>2 DEF ControlInv
  <1>4. issued \in Nat /\ 0 .. issued \subseteq 0 .. issued'
    <2>1. issued \in Nat
        BY DEF IdsInv
    <2>2. \A k \in 0 .. issued : k \in 0 .. issued'
        BY ONLY <2>1, issued' \in Nat, issued' >= issued
    <2> QED
        BY <2>1, <2>2
  <1>5. \A d \in Clients : target'[d] \in 0 .. issued'
    <2>1. target[c] \in 0 .. issued'
        BY <1>4 DEF IdsInv
    <2>2. target'[c] \in 0 .. issued'
        BY <2>1 DEF ControlInv
    <2> QED
        BY <1>2, <1>4, <2>2 DEF IdsInv
  <1>6. \A d \in {db, draft} :
            /\ \A p \in d.plans : p.id \in 0 .. issued'
            /\ \A e \in d.experiments : e.id \in 0 .. issued'
      BY <1>4 DEF IdsInv
  <1>7. Planning(c)' =>
            /\ \A d \in Clients : d # c /\ Planning(d) => target'[c] # target[d]
            /\ ~HasId(db, target'[c]) /\ ~HasId(draft, target'[c])
    <2> SUFFICES ASSUME Planning(c)'
                 PROVE  /\ \A d \in Clients : d # c /\ Planning(d) => target'[c] # target[d]
                        /\ ~HasId(db, target'[c]) /\ ~HasId(draft, target'[c])
        OBVIOUS
    <2>1. s = "insert plan"
        BY <1>2 DEF Planning
    <2>2. CASE target' = target /\ pc[c] = "insert plan"
        BY <2>2 DEF IdsInv, Planning
    <2>3. CASE target'[c] > issued
      <3>1. target'[c] \in 0 .. issued'
          BY <1>5
      <3>2. target'[c] \notin 0 .. issued
          BY ONLY <1>4, <2>3, <3>1, issued' \in Nat
      <3> QED
          BY <3>2 DEF IdsInv, HasId
    <2> QED
        BY <2>1, <2>2, <2>3
  <1>8. \A d \in Clients : d # c => (Planning(d)' <=> Planning(d))
      BY <1>2 DEF Planning
  <1>9. \A d, e \in Clients : d # e /\ Planning(d)' /\ Planning(e)' => target'[d] # target'[e]
      BY <1>2, <1>7, <1>8, ZenonT(30) DEF IdsInv
  <1>10. IdsInv'
    <2>1. \A d \in Clients : Planning(d)' => ~HasId(db, target'[d]) /\ ~HasId(draft, target'[d])
        BY <1>2, <1>7, <1>8 DEF IdsInv
    <2>2. \A d \in Clients : Planning(d)' =>
              ~HasId(db', target'[d]) /\ ~HasId(draft', target'[d])
        BY <2>1
    <2> QED
        BY <1>5, <1>6, <1>9, <2>2 DEF IdsInv
  <1>11. MatchInv'
    <2>1. \A d \in Clients : pc[d] = "insert result" => pc'[d] = pc[d] /\ request'[d] = request[d]
        BY <1>2 DEF Holding
    <2>2. \A d \in Clients :
              pc'[d] \in {"complete plan", "insert result"} => HasId(db, request'[d].id)
        BY <1>2 DEF MatchInv, Holding
    <2>3. \A p \in draft.plans :
              \/ Matched(draft, p)
              \/ \E d \in Clients : pc'[d] = "insert result" /\ p.id = request'[d].id /\ p.completed
      <3> SUFFICES ASSUME NEW p \in draft.plans, ~Matched(draft, p)
                   PROVE  \E d \in Clients :
                              pc'[d] = "insert result" /\ p.id = request'[d].id /\ p.completed
          OBVIOUS
      <3>1. PICK d \in Clients : pc[d] = "insert result" /\ p.id = request[d].id /\ p.completed
          BY DEF MatchInv
      <3> QED
          BY <2>1, <3>1
    <2>4. \A p \in db.plans : Matched(db, p)
        BY DEF MatchInv
    <2>5. \A d \in Clients : pc'[d] = "insert result" =>
              \A p \in draft.plans : p.id = request'[d].id => p.completed
        BY <1>2 DEF MatchInv, Holding
    <2> QED
        BY <2>2, <2>3, <2>4, <2>5 DEF MatchInv, Matched, HasOutcome, HasId
  <1>12. Keyed(db)' /\ Keyed(draft)' /\ Extends(db, draft)'
      BY DEF Keyed, Extends, IsDatabase, HasId
  <1> QED
      BY <1>3, <1>10, <1>11, <1>12

\* A step inside of a transaction, or the one that opens it: the tables e
\* become the draft.
LEMMA DraftStep ==
    ASSUME IInv, NEW c \in Clients, NEW e, NEW s \in Holding,
           writer \in {NoClient, c}, writer' = c, draft' = e,
           UNCHANGED <<db, issued, request, target>>,
           pc' = [pc EXCEPT ![c] = s],
           KindFits(s, request[c].kind),
           Keyed(e), Extends(db, e),
           \A p \in e.plans : \/ HasId(db, p.id) \/ HasId(draft, p.id)
                              \/ Planning(c) /\ p.id = target[c],
           \A x \in e.experiments : x.id \in 0 .. issued,
           \A p \in e.plans :
              \/ Matched(e, p)
              \/ s = "insert result" /\ p.id = request[c].id /\ p.completed,
           s = "insert result" =>
              /\ HasId(db, request[c].id)
              /\ \A p \in e.plans : p.id = request[c].id => p.completed
    PROVE  IInv'
  <1> USE DEF IInv
  <1>1. pc' = [d \in Clients |-> pc'[d]]
      BY DEF ControlInv
  <1>2. pc'[c] = s /\ \A d \in Clients : d # c => pc'[d] = pc[d]
      BY DEF ControlInv
  <1>3. \A d \in Clients : d # c => pc[d] \notin Holding
      BY NamesAssumption DEF ControlInv
  <1>4. ControlInv'
    <2>1. \A d \in Clients : (pc'[d] \in Holding) <=> (writer' = d)
        BY <1>2, <1>3
    <2>2. \A d \in Clients : KindFits(pc'[d], request'[d].kind)
        BY <1>2 DEF ControlInv
    <2>3. writer' \in Clients \union {NoClient} /\ (writer' = NoClient => draft' = db')
        BY NamesAssumption
    <2> QED
        BY <1>1, <2>1, <2>2, <2>3 DEF ControlInv
  <1>5. \A d \in Clients : Planning(d)' => d # c /\ Planning(d)
      BY <1>2 DEF Planning, Holding
  <1>6. \A p \in e.plans : p.id \in 0 .. issued
      BY DEF IdsInv, HasId
  <1>7. \A d \in Clients : Planning(d)' => ~HasId(e, target[d])
    <2> SUFFICES ASSUME NEW d \in Clients, Planning(d)', NEW p \in e.plans, p.id = target[d]
                 PROVE  FALSE
        BY DEF HasId
    <2>1. d # c /\ Planning(d)
        BY <1>5
    <2>2. ~HasId(db, p.id) /\ ~HasId(draft, p.id)
        BY <2>1 DEF IdsInv
    <2>3. Planning(c) => target[c] # p.id
        BY <2>1 DEF IdsInv
    <2> QED
        BY <2>2, <2>3
  <1>8. IdsInv'
    <2>1. \A d, f \in Clients : d # f /\ Planning(d)' /\ Planning(f)' => target'[d] # target'[f]
        BY <1>5 DEF IdsInv
    <2>2. \A d \in Clients : Planning(d)' => ~HasId(db', target'[d]) /\ ~HasId(draft', target'[d])
      <3>1. \A d \in Clients : Planning(d)' => ~HasId(db, target[d])
          BY <1>5 DEF IdsInv
      <3> QED
          BY <1>7, <3>1
    <2>3. \A d \in {db', draft'} :
              /\ \A p \in d.plans : p.id \in 0 .. issued'
              /\ \A x \in d.experiments : x.id \in 0 .. issued'
        BY <1>6 DEF IdsInv
    <2> QED
        BY <2>1, <2>2, <2>3 DEF IdsInv
  <1>9. MatchInv'
    <2>1. \A d \in Clients :
              pc'[d] \in {"complete plan", "insert result"} => HasId(db', request'[d].id)
        BY <1>2 DEF MatchInv, Holding
    <2>2. \A p \in draft'.plans :
              \/ Matched(draft', p)
              \/ \E d \in Clients : pc'[d] = "insert result" /\ p.id = request'[d].id /\ p.completed
        BY <1>2
    <2>3. \A p \in db'.plans : Matched(db', p)
        BY DEF MatchInv
    <2>4. \A d \in Clients : pc'[d] = "insert result" =>
              \A p \in draft'.plans : p.id = request'[d].id => p.completed
        BY <1>2, <1>3 DEF Holding
    <2> QED
        BY <2>1, <2>2, <2>3, <2>4 DEF MatchInv
  <1>10. Keyed(db') /\ Keyed(draft') /\ Extends(db', draft')
      OBVIOUS
  <1> QED
      BY <1>4, <1>8, <1>9, <1>10

\* A transaction ends: its draft becomes the database, or is forgotten.
LEMMA EndStep ==
    ASSUME IInv, NEW c \in Clients, NEW s \in {"answered", "idle"},
           writer \in {NoClient, c}, writer' = NoClient, draft' = db',
           db' = db \/ (db' = draft /\ pc[c] = "commit"),
           pc' = [pc EXCEPT ![c] = s],
           request' = request \/ \E r : request' = [request EXCEPT ![c] = r],
           issued' = issued,
           target' = target \/ target' = [target EXCEPT ![c] = 0]
    PROVE  IInv'
  <1> USE DEF IInv
  <1>1. /\ pc' = [d \in Clients |-> pc'[d]] /\ request' = [d \in Clients |-> request'[d]]
        /\ target' = [d \in Clients |-> target'[d]]
      BY DEF ControlInv
  <1>2. pc'[c] = s /\ \A d \in Clients : d # c =>
            pc'[d] = pc[d] /\ request'[d] = request[d] /\ target'[d] = target[d]
      BY DEF ControlInv
  <1>3. \A d \in Clients : d # c => pc[d] \notin Holding
      BY NamesAssumption DEF ControlInv
  <1>4. \A d \in Clients : pc'[d] \notin Holding
      BY <1>2, <1>3 DEF Holding
  <1>5. ControlInv'
    <2>1. \A d \in Clients : (pc'[d] \in Holding) <=> (writer' = d)
        BY <1>4, NamesAssumption
    <2>2. \A d \in Clients : d # c => KindFits(pc'[d], request'[d].kind)
        BY <1>2 DEF ControlInv
    <2>3. KindFits(pc'[c], request'[c].kind)
        BY <1>2 DEF KindFits
    <2> QED
        BY <1>1, <2>1, <2>2, <2>3 DEF ControlInv
  <1>6. \A d \in Clients : target'[d] \in 0 .. issued'
    <2>1. 0 \in 0 .. issued
        BY DEF IdsInv
    <2>2. target[c] \in 0 .. issued
        BY DEF IdsInv
    <2>3. target'[c] \in 0 .. issued
        BY <2>1, <2>2 DEF ControlInv
    <2> QED
        BY <1>2, <2>3 DEF IdsInv
  <1>7. \A d \in Clients : Planning(d)' => d # c /\ Planning(d)
      BY <1>2 DEF Planning
  <1>8. IdsInv'
    <2>1. \A d, f \in Clients : d # f /\ Planning(d)' /\ Planning(f)' => target'[d] # target'[f]
        BY <1>2, <1>7 DEF IdsInv
    <2>2. \A d \in Clients : Planning(d)' => ~HasId(db', target'[d]) /\ ~HasId(draft', target'[d])
      <3>1. \A d \in Clients : Planning(d)' => ~HasId(db, target'[d]) /\ ~HasId(draft, target'[d])
          BY <1>2, <1>7 DEF IdsInv
      <3> QED
          BY <3>1
    <2>3. \A d \in {db', draft'} :
              /\ \A p \in d.plans : p.id \in 0 .. issued'
              /\ \A x \in d.experiments : x.id \in 0 .. issued'
        BY DEF IdsInv
    <2>4. issued' \in Nat
        BY DEF IdsInv
    <2> QED
        BY <1>6, <2>1, <2>2, <2>3, <2>4 DEF IdsInv
  <1>9. MatchInv'
    <2>1. \A d \in Clients :
              pc'[d] \in {"complete plan", "insert result"} => HasId(db', request'[d].id)
        BY <1>2, ExtendsIds, ZenonT(30) DEF MatchInv
    <2>2. \A p \in db'.plans : Matched(db', p)
      <3>1. CASE db' = db
          BY <3>1 DEF MatchInv
      <3>2. CASE db' = draft /\ pc[c] = "commit"
          BY <1>3, <3>2 DEF MatchInv, Holding
      <3> QED
          BY <3>1, <3>2
    <2>3. \A d \in Clients : pc'[d] # "insert result"
        BY <1>4 DEF Holding
    <2> QED
        BY <2>1, <2>2, <2>3 DEF MatchInv
  <1>10. Keyed(db') /\ Keyed(draft') /\ Extends(db', draft')
      BY ExtendsItself
  <1> QED
      BY <1>5, <1>8, <1>9, <1>10

----------------------------------------------------------------------------
(* Requests, reads, refusals.                                              *)

\* What a client does between transactions keeps the invariant.
LEMMA AskPreserves == ASSUME IInv, NEW c \in Clients, Asks(c) PROVE IInv'
  <1>0. \A i, j \in Nat : i = j => j >= i
      OBVIOUS
  <1>1. \E s \in {"check identity", "find deleted", "read experiment", "read plan",
                    "check status", "read result", "export experiment"} : \E r :
            /\ pc[c] = "idle"
            /\ request' = [request EXCEPT ![c] = r]
            /\ pc' = [pc EXCEPT ![c] = s]
            /\ KindFits(s, r.kind)
            /\ UNCHANGED <<db, draft, writer, issued, target>>
    <2>1. CASE \E x \in Experiments : SaveExperiment(c, x)
        BY <2>1 DEF SaveExperiment, Ask, Goto, store, KindFits
    <2>2. CASE \E identity \in Identities : DeleteExperiment(c, identity)
        BY <2>2 DEF DeleteExperiment, Ask, Goto, store, KindFits
    <2>3. CASE \E row \in db.experiments : LoadExperiment(c, row.id)
        BY <2>3 DEF LoadExperiment, Ask, Goto, store, KindFits
    <2>4. CASE \E row \in db.experiments : GetExportData(c, row.id)
        BY <2>4 DEF GetExportData, Ask, Goto, store, KindFits
    <2>5. CASE \E row \in db.experiments : \E units \in UnitLists : SavePlan(c, row.id, units)
        BY <2>5 DEF SavePlan, Ask, Goto, store, KindFits
    <2>6. CASE \E row \in db.plans : LoadPlan(c, row.id)
        BY <2>6 DEF LoadPlan, Ask, Goto, store, KindFits
    <2>7. CASE \E row \in db.plans \union db.results : LoadResult(c, row.id)
        BY <2>7 DEF LoadResult, Ask, Goto, store, KindFits
    <2>8. CASE \E row \in db.plans : \E sims \in ResultLists : SaveResult(c, row.id, sims)
        BY <2>8 DEF SaveResult, Ask, Goto, store, KindFits
    <2> QED
        BY <2>1, <2>2, <2>3, <2>4, <2>5, <2>6, <2>7, <2>8 DEF Asks
  <1>2. PICK s \in {"check identity", "find deleted", "read experiment", "read plan",
                    "check status", "read result", "export experiment"} : \E r :
            /\ pc[c] = "idle"
            /\ request' = [request EXCEPT ![c] = r]
            /\ pc' = [pc EXCEPT ![c] = s]
            /\ KindFits(s, r.kind)
            /\ UNCHANGED <<db, draft, writer, issued, target>>
      BY <1>1
  <1>3. PICK r :
            /\ pc[c] = "idle"
            /\ request' = [request EXCEPT ![c] = r]
            /\ pc' = [pc EXCEPT ![c] = s]
            /\ KindFits(s, r.kind)
            /\ UNCHANGED <<db, draft, writer, issued, target>>
      BY <1>2
  <1>4. request'[c].kind = r.kind
      BY <1>3 DEF IInv, ControlInv
  <1>5. issued \in Nat /\ issued' = issued
      BY <1>3 DEF IInv, IdsInv
  <1>6. issued' \in Nat /\ issued' >= issued
      BY <1>0, <1>5, Zenon
  <1> QED
      BY <1>3, <1>4, <1>6, QuietStep DEF Holding

\* A write that finds the database locked.
LEMMA LockedPreserves == ASSUME IInv, NEW c \in Clients, Locked(c) PROVE IInv'
  <1>0. \A i, j \in Nat : i = j => j >= i
      OBVIOUS
  <1>1. /\ UNCHANGED <<db, draft, writer, issued, request, target>>
        /\ pc[c] \in {"insert experiment", "insert plan", "complete plan"}
        /\ pc' = [pc EXCEPT ![c] = "answered"] \/ pc' = pc
      BY DEF Locked, Answer, store
  <1>2. /\ KindFits(pc[c], request[c].kind) /\ issued \in Nat
        /\ pc[c] = "complete plan" => HasId(db, request[c].id)
      BY DEF IInv, ControlInv, IdsInv, MatchInv
  <1>3. issued' \in Nat /\ issued' >= issued
      BY <1>0, <1>1, <1>2, Zenon
  <1>4. CASE pc' = [pc EXCEPT ![c] = "answered"]
    <2>1. "answered" \notin Holding /\ pc[c] \notin Holding /\ KindFits("answered", request[c].kind)
        BY <1>1 DEF Holding, KindFits
    <2> QED
        BY <1>1, <1>3, <1>4, <2>1, QuietStep
  <1>5. CASE pc' = pc
    <2>1. pc' = [pc EXCEPT ![c] = pc[c]] /\ pc[c] \notin Holding
        BY <1>1, <1>5 DEF IInv, ControlInv, Holding
    <2> QED
        BY <1>1, <1>2, <1>3, <2>1, QuietStep
  <1> QED
      BY <1>1, <1>4, <1>5

\* Steps that only read, and answers.
ReadingSteps(c) ==
    \/ Compare(c) \/ LockedOut(c)
    \/ ReadExperiment(c) \/ ReadPolicies(c) \/ ReadPlan(c) \/ ReadUnits(c)
    \/ ReadResult(c) \/ ReadSimulations(c)
    \/ ExportExperiment(c) \/ ExportPlan(c) \/ ExportResult(c) \/ ExportRows(c)

\* The reading steps.
LEMMA ReadPreserves == ASSUME IInv, NEW c \in Clients, ReadingSteps(c) PROVE IInv'
  <1> DEFINE Follows(s) ==
        /\ pc' = [pc EXCEPT ![c] = s]
        /\ pc[c] \notin Holding /\ s \notin Holding
        /\ s = "complete plan" => HasId(db, request[c].id)
        /\ s = "insert plan" => pc[c] = "insert plan"
        /\ KindFits(s, request[c].kind)
  <1>1. /\ KindFits(pc[c], request[c].kind) /\ issued \in Nat /\ pc = [pc EXCEPT ![c] = pc[c]]
        /\ pc[c] = "complete plan" => HasId(db, request[c].id)
        /\ \A row \in db.experiments : row.id \in 0 .. issued
      BY DEF IInv, ControlInv, IdsInv, MatchInv
  <1>2. /\ UNCHANGED <<db, draft, writer, issued, request>>
        /\ target' = target
        /\ \E s : Follows(s)
    <2>1. CASE Compare(c)
        BY <1>1, <2>1 DEF Compare, Goto, Answer, Read, store, KindFits, Holding
    <2>2. CASE LockedOut(c)
      <3>1. /\ UNCHANGED <<db, draft, writer, issued, request>> /\ target' = target
            /\ pc[c] \in {"undelete", "delete"} /\ pc' = [pc EXCEPT ![c] = "answered"]
          BY <2>2 DEF LockedOut, Answer, Read, store
      <3>2. Follows("answered")
          BY <3>1 DEF KindFits, Holding
      <3> QED
          BY <3>1, <3>2
    <2>3. CASE ReadExperiment(c) \/ ReadPolicies(c)
        BY <1>1, <2>3, ZenonT(30) DEF ReadExperiment, ReadPolicies, Goto, Answer, Read, store, KindFits, Holding
    <2>4. CASE ReadPlan(c) \/ ReadUnits(c)
        BY <1>1, <2>4 DEF ReadPlan, ReadUnits, Goto, Answer, Read, store, KindFits, Holding
    <2>5. CASE ReadResult(c) \/ ReadSimulations(c)
        BY <1>1, <2>5, ZenonT(30) DEF ReadResult, ReadSimulations, Goto, Answer, Read, store, KindFits, Holding
    <2>6. CASE ExportExperiment(c) \/ ExportPlan(c)
        BY <1>1, <2>6, ZenonT(30) DEF ExportExperiment, ExportPlan, Goto, Answer, Read, store, KindFits, Holding
    <2>7. CASE ExportResult(c) \/ ExportRows(c)
        BY <1>1, <2>7, ZenonT(30) DEF ExportResult, ExportRows, Goto, Answer, Read, store, KindFits, Holding
    <2> QED
        BY <2>1, <2>2, <2>3, <2>4, <2>5, <2>6, <2>7 DEF ReadingSteps
  <1>3. PICK s : Follows(s)
      BY <1>2
  <1>4. issued \in Nat /\ issued' = issued
      BY <1>1, <1>2
  <1>5. issued' \in Nat /\ issued' >= issued
      BY ONLY <1>4
  <1> QED
      BY <1>2, <1>3, <1>5, QuietStep

\* A look-up that remembers an experiment, or an identifier just generated.
LEMMA TargetStep ==
    ASSUME IInv, NEW c \in Clients, NEW s, s \notin Holding, pc[c] \notin Holding,
           pc' = [pc EXCEPT ![c] = s],
           UNCHANGED <<db, draft, writer, request>>,
           KindFits(s, request[c].kind),
           \/ target' = target /\ issued' = issued
           \/ issued' = issued /\ \E row \in db.experiments : target' = [target EXCEPT ![c] = row.id]
           \/ Generate(c),
           s = "insert plan" => Generate(c),
           s = "complete plan" => HasId(db, request[c].id)
    PROVE  IInv'
  <1>1. \A i \in Nat : i >= i /\ i + 1 \in Nat /\ i + 1 >= i /\ i + 1 > i /\ i + 1 \in 0 .. (i + 1)
      BY Counting
  <1>2. /\ issued \in Nat /\ target = [d \in Clients |-> target[d]]
        /\ \A row \in db.experiments : row.id \in 0 .. issued
      BY DEF IInv, ControlInv, IdsInv
  <1>3. CASE Generate(c)
    <2>1. issued' = issued + 1 /\ target' = [target EXCEPT ![c] = issued + 1]
        BY <1>3 DEF Generate
    <2>2. /\ issued' \in Nat /\ issued' >= issued /\ issued + 1 \in 0 .. issued'
          /\ target'[c] > issued
        BY <1>1, <1>2, <2>1
    <2> QED
        BY <2>1, <2>2, QuietStep
  <1>4. CASE target' = target /\ issued' = issued /\ ~Generate(c)
    <2>1. issued' \in Nat /\ issued' >= issued
        BY <1>1, <1>2, <1>4
    <2> QED
        BY <1>4, <2>1, QuietStep
  <1>5. CASE /\ issued' = issued /\ ~Generate(c)
             /\ \E row \in db.experiments : target' = [target EXCEPT ![c] = row.id]
    <2>1. issued' \in Nat /\ issued' >= issued
        BY <1>1, <1>2, <1>5
    <2>2. \E t \in 0 .. issued' : target' = [target EXCEPT ![c] = t]
        BY <1>2, <1>5
    <2> QED
        BY <1>5, <2>1, <2>2, QuietStep
  <1> QED
      BY <1>3, <1>4, <1>5

\* Steps that choose the identifier to work on.
LEMMA ChoosePreserves ==
    ASSUME IInv, NEW c \in Clients,
           FindDeleted(c) \/ CheckIdentity(c) \/ ReadCohorts(c) \/ CheckStatus(c)
    PROVE  IInv'
  <1>1. KindFits(pc[c], request[c].kind)
      BY DEF IInv, ControlInv
  <1>2. CASE FindDeleted(c)
    <2>1. /\ UNCHANGED <<db, draft, writer, request, issued>> /\ pc[c] = "find deleted"
          /\ \/ pc' = [pc EXCEPT ![c] = "answered"] /\ target' = target
             \/ /\ pc' = [pc EXCEPT ![c] = "delete"]
                /\ \E row \in db.experiments : target' = [target EXCEPT ![c] = row.id]
        BY <1>2 DEF FindDeleted, Goto, Answer, Where, store
    <2>2. \A s \in {"answered", "delete"} : s \notin Holding /\ KindFits(s, request[c].kind)
        BY <1>1, <2>1 DEF Holding, KindFits
    <2> QED
        BY <2>1, <2>2, TargetStep DEF Holding
  <1>3. CASE CheckIdentity(c)
    <2>1. /\ UNCHANGED <<db, draft, writer, request>> /\ pc[c] = "check identity"
          /\ \/ pc' = [pc EXCEPT ![c] = "insert experiment"] /\ Generate(c)
             \/ /\ pc' = [pc EXCEPT ![c] = "compare"] \/ pc' = [pc EXCEPT ![c] = "answered"]
                /\ issued' = issued
                /\ \E row \in db.experiments : target' = [target EXCEPT ![c] = row.id]
        BY <1>3 DEF CheckIdentity, Goto, Answer, Where, store
    <2>2. \A s \in {"answered", "compare", "insert experiment"} :
              s \notin Holding /\ KindFits(s, request[c].kind)
        BY <1>1, <2>1 DEF Holding, KindFits
    <2> QED
        BY <2>1, <2>2, TargetStep DEF Holding
  <1>4. CASE ReadCohorts(c)
    <2>1. /\ UNCHANGED <<db, draft, writer, request>> /\ pc[c] = "read cohorts"
          /\ \/ pc' = [pc EXCEPT ![c] = "answered"] /\ UNCHANGED <<issued, target>>
             \/ /\ pc' = [pc EXCEPT ![c] = "insert plan"]
                /\ request[c].kind = "save plan" /\ Generate(c)
             \/ pc' = [pc EXCEPT ![c] = "read units"] /\ UNCHANGED <<issued, target>>
        BY <1>4 DEF ReadCohorts, Goto, Answer, store
    <2>2. CASE pc' = [pc EXCEPT ![c] = "insert plan"] /\ request[c].kind = "save plan" /\ Generate(c)
      <3>1. "insert plan" \notin Holding /\ KindFits("insert plan", request[c].kind)
          BY <2>2 DEF Holding, KindFits
      <3> QED
          BY <2>1, <2>2, <3>1, TargetStep DEF Holding
    <2>3. CASE /\ pc' = [pc EXCEPT ![c] = "answered"] \/ pc' = [pc EXCEPT ![c] = "read units"]
               /\ UNCHANGED <<issued, target>>
      <3>1. \A s \in {"answered", "read units"} : s \notin Holding /\ KindFits(s, request[c].kind)
          BY <1>1, <2>1 DEF Holding, KindFits
      <3> QED
          BY <2>1, <2>3, <3>1, TargetStep DEF Holding
    <2> QED
        BY <2>1, <2>2, <2>3
  <1>5. CASE CheckStatus(c)
    <2>1. /\ UNCHANGED <<db, draft, writer, request>> /\ pc[c] = "check status"
          /\ \/ pc' = [pc EXCEPT ![c] = "answered"] /\ UNCHANGED <<issued, target>>
             \/ /\ pc' = [pc EXCEPT ![c] = "complete plan"] /\ Generate(c)
                /\ \E row \in db.plans : row.id = request[c].id
        BY <1>5 DEF CheckStatus, Goto, Answer, ById, Where, store
    <2>2. CASE pc' = [pc EXCEPT ![c] = "answered"] /\ UNCHANGED <<issued, target>>
      <3>1. "answered" \notin Holding /\ KindFits("answered", request[c].kind)
          BY DEF Holding, KindFits
      <3> QED
          BY <2>1, <2>2, <3>1, TargetStep DEF Holding
    <2>3. CASE /\ pc' = [pc EXCEPT ![c] = "complete plan"] /\ Generate(c)
               /\ \E row \in db.plans : row.id = request[c].id
      <3>1. /\ "complete plan" \notin Holding /\ KindFits("complete plan", request[c].kind)
            /\ HasId(db, request[c].id)
          BY <1>1, <2>1, <2>3 DEF Holding, KindFits, HasId
      <3> QED
          BY <2>1, <2>3, <3>1, TargetStep DEF Holding
    <2> QED
        BY <2>1, <2>2, <2>3
  <1> QED
      BY <1>2, <1>3, <1>4, <1>5

----------------------------------------------------------------------------
(* Transactions.                                                           *)

\* What the tables of a transaction that opens, or goes on, start from.
LEMMA Opening ==
    ASSUME IInv, NEW c \in Clients
    PROVE  /\ IsDatabase(db) /\ IsDatabase(draft) /\ Keyed(db) /\ Keyed(draft)
           /\ Extends(db, draft) /\ Extends(db, db)
           /\ KindFits(pc[c], request[c].kind)
           /\ pc[c] \in Holding => writer = c
  BY ExtendsItself DEF IInv, ControlInv, Keyed

\* A row and the row that is there instead of it after marking.
SameExperiment(x, y) == y.id = x.id /\ y.identity = x.identity /\ y.config = x.config
SamePlan(p, q) ==
    /\ q.id = p.id /\ q.experiment = p.experiment /\ q.count = p.count /\ q.created = p.created
    /\ p.completed => q.completed
    /\ p.deleted => q.deleted

\* The tables e are the tables d with marks on experiments and on plans, none of
\* them taken from a plan.
Marks(d, e) ==
    /\ IsDatabase(e)
    /\ e.results = d.results /\ e.cohorts = d.cohorts
    /\ e.units = d.units /\ e.simulations = d.simulations
    /\ \A x \in d.experiments : \E y \in e.experiments : SameExperiment(x, y)
    /\ \A y \in e.experiments : IsExperiment(y) /\ \E x \in d.experiments : SameExperiment(x, y)
    /\ \A x, y \in e.experiments : x.identity = y.identity => x = y
    /\ \A p \in d.plans : \E q \in e.plans : SamePlan(p, q)
    /\ \A q \in e.plans : IsPlan(q) /\ \E p \in d.plans : SamePlan(p, q)
    /\ \A p, q \in e.plans : p.id = q.id => p = q

\* Marks leave the tables keyed, and lose no row.
LEMMA MarkedTables ==
    ASSUME NEW d, Keyed(d), NEW e, Marks(d, e)
    PROVE  /\ Keyed(e) /\ Extends(d, e)
           /\ \A p \in e.plans : HasId(d, p.id)
           /\ \A y \in e.experiments : \E x \in d.experiments : x.id = y.id
  <1> USE DEF Marks, SameExperiment, SamePlan
  <1>1. \A id : HasId(d, id) <=> HasId(e, id)
      BY DEF HasId
  <1>2. Keyed(e)
    <2>1. \A r \in e.results : HasId(e, r.plan)
        BY <1>1 DEF Keyed
    <2>2. \A a, b \in e.results : a.plan = b.plan => a = b
        BY DEF Keyed
    <2> QED
        BY <2>1, <2>2 DEF Keyed
  <1>3. Extends(d, e)
    <2>1. ExperimentContent(d.experiments) \subseteq ExperimentContent(e.experiments)
        BY DEF ExperimentContent
    <2>2. PlanContent(d.plans) \subseteq PlanContent(e.plans)
        BY DEF PlanContent
    <2>3. \A p \in d.plans, q \in e.plans : p.id = q.id =>
              (p.completed => q.completed) /\ (p.deleted => q.deleted)
        BY DEF Keyed
    <2> QED
        BY <2>1, <2>2, <2>3 DEF Extends
  <1>4. \A p \in e.plans : HasId(d, p.id)
      BY DEF HasId
  <1> QED
      BY <1>2, <1>3, <1>4

\* Associated rows leave the others as they were.
LEMMA AssociatedRows ==
    ASSUME NEW d, Keyed(d), NEW e, IsDatabase(e), e.experiments = d.experiments,
           e.plans = d.plans, e.results = d.results,
           d.cohorts \subseteq e.cohorts, d.units \subseteq e.units,
           d.simulations \subseteq e.simulations
    PROVE  Keyed(e) /\ Extends(d, e)
  <1>1. Extends(d, d)
      BY ExtendsItself
  <1>2. Keyed(e)
      BY DEF Keyed, HasId
  <1> QED
      BY <1>1, <1>2 DEF Extends

\* Tables that extend tables that extend others extend these.
LEMMA ExtendsTransitive ==
    ASSUME NEW a, NEW b, NEW d, Extends(a, b), Extends(b, d)
    PROVE  Extends(a, d)
  <1>1. \A p \in a.plans : \E q \in b.plans : q.id = p.id
      BY ExtendsIds DEF HasId
  <1>2. \A p \in a.plans, r \in d.plans : p.id = r.id =>
            (p.completed => r.completed) /\ (p.deleted => r.deleted)
    <2> SUFFICES ASSUME NEW p \in a.plans, NEW r \in d.plans, p.id = r.id
                 PROVE  (p.completed => r.completed) /\ (p.deleted => r.deleted)
        OBVIOUS
    <2>1. PICK q \in b.plans : q.id = p.id
        BY <1>1
    <2> QED
        BY <2>1 DEF Extends
  <1> QED
      BY <1>2 DEF Extends

\* A mark changes nothing else of a row.
LEMMA MarkedExperiment ==
    ASSUME NEW x, IsExperiment(x), NEW b, NEW y, y = [x EXCEPT !.deleted = b]
    PROVE  IsExperiment(y) /\ SameExperiment(x, y)
  BY DEF IsExperiment, SameExperiment

\* A plan that is marked as deleted.
LEMMA DeletedPlan ==
    ASSUME NEW p, IsPlan(p), NEW q, q = [p EXCEPT !.deleted = TRUE]
    PROVE  IsPlan(q) /\ SamePlan(p, q) /\ q.completed = p.completed
  BY DEF IsPlan, SamePlan

\* A plan that is marked as completed.
LEMMA CompletedPlan ==
    ASSUME NEW p, IsPlan(p), NEW q, q = [p EXCEPT !.completed = TRUE]
    PROVE  IsPlan(q) /\ SamePlan(p, q) /\ q.completed
  BY DEF IsPlan, SamePlan

\* A transaction that marks rows and goes on to the step s.
LEMMA MarkingStep ==
    ASSUME IInv, NEW c \in Clients, NEW e, NEW s \in Holding,
           writer \in {NoClient, c}, writer' = c, draft' = e,
           UNCHANGED <<db, issued, request, target>>,
           pc' = [pc EXCEPT ![c] = s],
           KindFits(s, request[c].kind),
           Marks(db, e),
           \A p \in db.plans, q \in e.plans : p.id = q.id /\ q.completed # p.completed =>
              s = "insert result" /\ p.id = request[c].id /\ q.completed,
           s = "insert result" =>
              /\ HasId(db, request[c].id)
              /\ \A q \in e.plans : q.id = request[c].id => q.completed
    PROVE  IInv'
  <1>1. /\ Keyed(e) /\ Extends(db, e) /\ \A p \in e.plans : HasId(db, p.id)
        /\ \A y \in e.experiments : \E x \in db.experiments : x.id = y.id
    <2>1. Keyed(db)
        BY Opening
    <2> QED
        BY <2>1, MarkedTables
  <1>2. \A q \in e.plans :
            \/ Matched(e, q)
            \/ s = "insert result" /\ q.id = request[c].id /\ q.completed
    <2> SUFFICES ASSUME NEW q \in e.plans
                 PROVE  \/ Matched(e, q)
                        \/ s = "insert result" /\ q.id = request[c].id /\ q.completed
        OBVIOUS
    <2>1. PICK p \in db.plans : p.id = q.id
        BY <1>1 DEF HasId
    <2>2. Matched(db, p) /\ q.id = p.id
        BY <2>1 DEF IInv, MatchInv
    <2>3. CASE q.completed = p.completed
        BY <2>2, <2>3 DEF Matched, HasOutcome, Marks
    <2> QED
        BY <2>1, <2>2, <2>3
  <1>3. \A y \in e.experiments : y.id \in 0 .. issued
      BY <1>1 DEF IInv, IdsInv
  <1> QED
      BY <1>1, <1>2, <1>3, DraftStep

\* The transactions that mark rows: restoring, deleting, completing.
LEMMA UndeletePreserves == ASSUME IInv, NEW c \in Clients, Undelete(c) PROVE IInv'
  <1> DEFINE f == [x \in db.experiments |->
                     IF x.id = target[c] THEN [x EXCEPT !.deleted = FALSE] ELSE x]
             e == [db EXCEPT !.experiments =
                     {IF row.id = target[c] THEN [row EXCEPT !.deleted = FALSE] ELSE row : row \in @}]
  <1>1. /\ pc[c] = "undelete" /\ writer = NoClient /\ writer' = c /\ draft' = e
        /\ pc' = [pc EXCEPT ![c] = "commit"]
        /\ UNCHANGED <<db, issued, request, target>>
      BY DEF Undelete, Begin, Goto
  <1>2. /\ IsDatabase(e) /\ e.experiments = {f[x] : x \in db.experiments}
        /\ e.plans = db.plans /\ e.results = db.results
        /\ e.cohorts = db.cohorts /\ e.units = db.units /\ e.simulations = db.simulations
      BY Opening DEF IsDatabase, Tables
  <1>3. ASSUME NEW x \in db.experiments PROVE IsExperiment(f[x]) /\ SameExperiment(x, f[x])
    <2>1. IsExperiment(x)
        BY Opening DEF Keyed
    <2>2. CASE x.id = target[c]
        BY <2>1, <2>2, MarkedExperiment
    <2> QED
        BY <2>1, <2>2 DEF SameExperiment
  <1> HIDE DEF e, f
  <1>4. \A p, q \in db.plans : p.id = q.id => p = q
      BY Opening DEF Keyed
  <1>5. Marks(db, e)
    <2>1. \A x, y \in db.experiments : x.identity = y.identity => x = y
        BY Opening DEF Keyed
    <2>2. \A x, y \in db.experiments : f[x].identity = f[y].identity => x = y
        BY <1>3, <2>1 DEF SameExperiment
    <2>3. /\ \A x \in db.experiments : \E y \in e.experiments : SameExperiment(x, y)
          /\ \A y \in e.experiments : IsExperiment(y) /\ \E x \in db.experiments : SameExperiment(x, y)
        BY <1>2, <1>3
    <2>4. \A x, y \in e.experiments : x.identity = y.identity => x = y
        BY <1>2, <2>2
    <2>5. \A p \in db.plans : IsPlan(p) /\ SamePlan(p, p)
        BY Opening DEF Keyed, SamePlan
    <2> QED
        BY <1>2, <1>4, <2>3, <2>4, <2>5 DEF Marks
  <1>6. "commit" \in Holding /\ KindFits("commit", request[c].kind) /\ "commit" # "insert result"
      BY DEF Holding, KindFits
  <1>7. \A p \in db.plans, q \in e.plans : p.id = q.id => q.completed = p.completed
      BY <1>2, <1>4
  <1> QED
    <2>1. \A p \in db.plans, q \in e.plans : p.id = q.id /\ q.completed # p.completed =>
              "commit" = "insert result" /\ p.id = request[c].id /\ q.completed
        BY <1>7
    <2>2. "commit" = "insert result" =>
              /\ HasId(db, request[c].id)
              /\ \A q \in e.plans : q.id = request[c].id => q.completed
        BY <1>6
    <2> QED
        BY <1>1, <1>5, <1>6, <2>1, <2>2, MarkingStep

\* Deletion, a transaction of marks.
LEMMA DeletePreserves == ASSUME IInv, NEW c \in Clients, Delete(c) PROVE IInv'
  <1> DEFINE f == [x \in db.experiments |->
                     IF x.id = target[c] THEN [x EXCEPT !.deleted = TRUE] ELSE x]
             g == [p \in db.plans |->
                     IF p.experiment = target[c] THEN [p EXCEPT !.deleted = TRUE] ELSE p]
             e == [db EXCEPT !.experiments = MarkDeleted(@, "id", target[c]),
                             !.plans = MarkDeleted(@, "experiment", target[c])]
  <1>1. /\ pc[c] = "delete" /\ writer = NoClient /\ writer' = c /\ draft' = e
        /\ pc' = [pc EXCEPT ![c] = "commit"]
        /\ UNCHANGED <<db, issued, request, target>>
      BY DEF Delete, Begin, Goto
  <1>2. /\ IsDatabase(e) /\ e.experiments = MarkDeleted(db.experiments, "id", target[c])
        /\ e.plans = MarkDeleted(db.plans, "experiment", target[c])
        /\ e.results = db.results
        /\ e.cohorts = db.cohorts /\ e.units = db.units /\ e.simulations = db.simulations
      BY Opening DEF IsDatabase, Tables
  <1>3. e.experiments = {f[x] : x \in db.experiments} /\ e.plans = {g[p] : p \in db.plans}
      BY <1>2 DEF MarkDeleted
  <1>4. ASSUME NEW x \in db.experiments PROVE IsExperiment(f[x]) /\ SameExperiment(x, f[x])
    <2>1. IsExperiment(x)
        BY Opening DEF Keyed
    <2>2. CASE x.id = target[c]
        BY <2>1, <2>2, MarkedExperiment
    <2> QED
        BY <2>1, <2>2 DEF SameExperiment
  <1>5. ASSUME NEW p \in db.plans
        PROVE  IsPlan(g[p]) /\ SamePlan(p, g[p]) /\ g[p].completed = p.completed
    <2>1. IsPlan(p)
        BY Opening DEF Keyed
    <2>2. CASE p.experiment = target[c]
        BY <2>1, <2>2, DeletedPlan
    <2> QED
        BY <2>1, <2>2 DEF SamePlan
  <1> HIDE DEF e, f, g
  <1>6. \A p, q \in db.plans : g[p].id = q.id => p = q
      BY <1>5, Opening DEF Keyed, SamePlan
  <1>7. Marks(db, e)
    <2>1. \A x, y \in db.experiments : f[x].identity = f[y].identity => x = y
        BY <1>4, Opening DEF Keyed, SameExperiment
    <2>2. /\ \A x \in db.experiments : \E y \in e.experiments : SameExperiment(x, y)
          /\ \A y \in e.experiments : IsExperiment(y) /\ \E x \in db.experiments : SameExperiment(x, y)
        BY <1>3, <1>4
    <2>3. \A x, y \in e.experiments : x.identity = y.identity => x = y
        BY <1>3, <2>1
    <2>4. /\ \A p \in db.plans : \E q \in e.plans : SamePlan(p, q)
          /\ \A q \in e.plans : IsPlan(q) /\ \E p \in db.plans : SamePlan(p, q)
        BY <1>3, <1>5
    <2>5. \A p, q \in db.plans : g[p].id = g[q].id => p = q
        BY <1>5, <1>6 DEF SamePlan
    <2>6. \A p, q \in e.plans : p.id = q.id => p = q
        BY <1>3, <2>5
    <2> QED
        BY <1>2, <2>2, <2>3, <2>4, <2>6 DEF Marks
  <1>8. "commit" \in Holding /\ KindFits("commit", request[c].kind) /\ "commit" # "insert result"
      BY DEF Holding, KindFits
  <1>9. \A p \in db.plans, q \in e.plans : p.id = q.id => q.completed = p.completed
      BY <1>3, <1>5, <1>6
  <1> QED
    <2>1. \A p \in db.plans, q \in e.plans : p.id = q.id /\ q.completed # p.completed =>
              "commit" = "insert result" /\ p.id = request[c].id /\ q.completed
        BY <1>9
    <2>2. "commit" = "insert result" =>
              /\ HasId(db, request[c].id)
              /\ \A q \in e.plans : q.id = request[c].id => q.completed
        BY <1>8
    <2> QED
        BY <1>1, <1>7, <1>8, <2>1, <2>2, MarkingStep

\* Completion, which opens the transaction of a result.
LEMMA CompletePlanPreserves == ASSUME IInv, NEW c \in Clients, CompletePlan(c) PROVE IInv'
  <1> DEFINE g == [p \in db.plans |->
                     IF p.id = request[c].id THEN [p EXCEPT !.completed = TRUE] ELSE p]
             e == [db EXCEPT !.plans =
                     {IF row.id = request[c].id THEN [row EXCEPT !.completed = TRUE] ELSE row : row \in @}]
  <1>1. /\ pc[c] = "complete plan" /\ writer = NoClient /\ writer' = c /\ draft' = e
        /\ pc' = [pc EXCEPT ![c] = "insert result"]
        /\ UNCHANGED <<db, issued, request, target>>
      BY DEF CompletePlan, Begin, Goto
  <1>2. /\ IsDatabase(e) /\ e.experiments = db.experiments
        /\ e.plans = {g[p] : p \in db.plans} /\ e.results = db.results
        /\ e.cohorts = db.cohorts /\ e.units = db.units /\ e.simulations = db.simulations
      BY Opening DEF IsDatabase, Tables
  <1>3. ASSUME NEW p \in db.plans
        PROVE  /\ IsPlan(g[p]) /\ SamePlan(p, g[p])
               /\ p.id = request[c].id => g[p].completed
               /\ p.id # request[c].id => g[p].completed = p.completed
    <2>1. IsPlan(p)
        BY Opening DEF Keyed
    <2>2. CASE p.id = request[c].id
        BY <2>1, <2>2, CompletedPlan
    <2> QED
        BY <2>1, <2>2 DEF SamePlan
  <1> HIDE DEF e, g
  <1>4. \A p, q \in db.plans : g[p].id = q.id => p = q
      BY <1>3, Opening DEF Keyed, SamePlan
  <1>5. Marks(db, e)
    <2>1. \A x \in db.experiments : IsExperiment(x) /\ SameExperiment(x, x)
        BY Opening DEF Keyed, SameExperiment
    <2>2. \A x, y \in db.experiments : x.identity = y.identity => x = y
        BY Opening DEF Keyed
    <2>3. /\ \A p \in db.plans : \E q \in e.plans : SamePlan(p, q)
          /\ \A q \in e.plans : IsPlan(q) /\ \E p \in db.plans : SamePlan(p, q)
        BY <1>2, <1>3
    <2>4. \A p, q \in db.plans : g[p].id = g[q].id => p = q
        BY <1>3, <1>4 DEF SamePlan
    <2>5. \A p, q \in e.plans : p.id = q.id => p = q
        BY <1>2, <2>4
    <2> QED
        BY <1>2, <2>1, <2>2, <2>3, <2>5 DEF Marks
  <1>6. "insert result" \in Holding /\ KindFits("insert result", request[c].kind)
      BY <1>1, Opening DEF Holding, KindFits
  <1>7. HasId(db, request[c].id)
      BY <1>1 DEF IInv, MatchInv
  <1>8. \A p \in db.plans, q \in e.plans : p.id = q.id /\ q.completed # p.completed =>
            p.id = request[c].id /\ q.completed
      BY <1>2, <1>3, <1>4
  <1> QED
    <2>1. \A p \in db.plans, q \in e.plans : p.id = q.id /\ q.completed # p.completed =>
              "insert result" = "insert result" /\ p.id = request[c].id /\ q.completed
        BY <1>8
    <2>2. \A q \in e.plans : q.id = request[c].id => q.completed
        BY <1>2, <1>3 DEF SamePlan
    <2> QED
        BY <1>1, <1>5, <1>6, <1>7, <2>1, <2>2, MarkingStep, ZenonT(30)

\* The transactions that insert rows.
LEMMA InsertExperimentPreserves ==
    ASSUME IInv, NEW c \in Clients, InsertExperiment(c), ~IdentityTaken(c) PROVE IInv'
  <1> DEFINE x == [id |-> target[c], identity |-> request[c].identity,
                   config |-> request[c].definition.config, deleted |-> FALSE]
             e == [db EXCEPT !.experiments = @ \union {x}]
  <1>1. /\ pc[c] = "insert experiment" /\ writer = NoClient /\ writer' = c /\ draft' = e
        /\ pc' = [pc EXCEPT ![c] = "insert associations"]
        /\ UNCHANGED <<db, issued, request, target>>
      BY DEF InsertExperiment, Begin, Goto
  <1>2. /\ IsDatabase(e) /\ e.experiments = db.experiments \union {x}
        /\ e.plans = db.plans /\ e.results = db.results
        /\ e.cohorts = db.cohorts /\ e.units = db.units /\ e.simulations = db.simulations
      BY Opening DEF IsDatabase, Tables
  <1>3. IsExperiment(x) /\ x.id = target[c] /\ x.identity = request[c].identity
      BY DEF IsExperiment
  <1>4. \A y \in db.experiments : y.identity # x.identity
      BY DEF IdentityTaken, Where
  <1> HIDE DEF e, x
  <1>5. Keyed(e)
    <2>1. \A a, b \in e.experiments : a.identity = b.identity => a = b
        BY <1>2, <1>4, Opening DEF Keyed
    <2>2. \A y \in e.experiments : IsExperiment(y)
        BY <1>2, <1>3, Opening DEF Keyed
    <2> QED
        BY <1>2, <2>1, <2>2, Opening DEF Keyed, HasId
  <1>6. Extends(db, e)
    <2>1. ExperimentContent(db.experiments) \subseteq ExperimentContent(e.experiments)
        BY <1>2 DEF ExperimentContent
    <2> QED
        BY <1>2, <2>1, Opening DEF Extends
  <1>7. \A p \in e.plans : HasId(db, p.id) /\ Matched(e, p)
      BY <1>2 DEF IInv, MatchInv, Matched, HasOutcome, HasId
  <1>8. \A y \in e.experiments : y.id \in 0 .. issued
      BY <1>2, <1>3 DEF IInv, IdsInv
  <1>9. /\ "insert associations" \in Holding /\ KindFits("insert associations", request[c].kind)
        /\ "insert associations" # "insert result"
      BY <1>1, Opening DEF Holding, KindFits
  <1> QED
      BY <1>1, <1>5, <1>6, <1>7, <1>8, <1>9, DraftStep

\* The rows that go with an experiment, a plan or a result that is inserted.
LEMMA AssociationStep ==
    ASSUME IInv, NEW c \in Clients, NEW e, IsDatabase(e),
           pc[c] \in {"insert associations", "insert units"}, writer = c, writer' = c, draft' = e,
           UNCHANGED <<db, issued, request, target>>,
           pc' = [pc EXCEPT ![c] = "commit"],
           e.experiments = draft.experiments, e.plans = draft.plans, e.results = draft.results,
           draft.cohorts \subseteq e.cohorts, draft.units \subseteq e.units,
           draft.simulations \subseteq e.simulations
    PROVE  IInv'
  <1>1. Keyed(draft) /\ Extends(db, draft)
      BY Opening
  <1>2. Keyed(e) /\ Extends(draft, e)
      BY <1>1, AssociatedRows
  <1>3. Extends(db, e)
      BY <1>1, <1>2, ExtendsTransitive
  <1>4. \A d \in Clients : pc[d] # "insert result"
      BY DEF IInv, ControlInv, Holding
  <1>5. \A p \in e.plans : HasId(draft, p.id) /\ Matched(e, p)
      BY <1>4 DEF IInv, MatchInv, Matched, HasOutcome, HasId
  <1>6. \A y \in e.experiments : y.id \in 0 .. issued
      BY DEF IInv, IdsInv
  <1>7. "commit" \in Holding /\ KindFits("commit", request[c].kind) /\ "commit" # "insert result"
      BY DEF Holding, KindFits
  <1> QED
      BY <1>2, <1>3, <1>5, <1>6, <1>7, DraftStep

\* Associations, which are rows of other tables.
LEMMA InsertAssociationsPreserves ==
    ASSUME IInv, NEW c \in Clients, InsertAssociations(c) PROVE IInv'
  <1> DEFINE x == request[c].definition
             e == [draft EXCEPT
                     !.links = LinkAll(@, target[c], x.policies),
                     !.cohorts = @ \union {[experiment |-> target[c], date |-> date] : date \in x.cohorts}]
  <1>1. /\ pc[c] = "insert associations" /\ writer = c /\ writer' = c /\ draft' = e
        /\ pc' = [pc EXCEPT ![c] = "commit"]
        /\ UNCHANGED <<db, issued, request, target>>
      BY DEF InsertAssociations, Write, Goto
  <1>2. /\ IsDatabase(e) /\ e.experiments = draft.experiments
        /\ e.plans = draft.plans /\ e.results = draft.results
        /\ draft.cohorts \subseteq e.cohorts
        /\ e.units = draft.units /\ e.simulations = draft.simulations
      BY Opening DEF IsDatabase, Tables
  <1> HIDE DEF e
  <1> QED
      BY <1>1, <1>2, AssociationStep

\* Units, which are rows of other tables.
LEMMA InsertUnitsPreserves == ASSUME IInv, NEW c \in Clients, InsertUnits(c) PROVE IInv'
  <1> DEFINE units == request[c].units
             id == request[c].id
             e == [draft EXCEPT
                     !.cohorts = @ \union
                         {[experiment |-> id, date |-> units[k].date] : k \in DOMAIN units},
                     !.links = LinkUnits(@, id, units),
                     !.units = @ \union UnitRows(target[c], units)]
  <1>1. /\ pc[c] = "insert units" /\ writer = c /\ writer' = c /\ draft' = e
        /\ pc' = [pc EXCEPT ![c] = "commit"]
        /\ UNCHANGED <<db, issued, request, target>>
      BY DEF InsertUnits, Write, Goto
  <1>2. /\ IsDatabase(e) /\ e.experiments = draft.experiments
        /\ e.plans = draft.plans /\ e.results = draft.results
        /\ draft.cohorts \subseteq e.cohorts /\ draft.units \subseteq e.units
        /\ e.simulations = draft.simulations
      BY Opening DEF IsDatabase, Tables
  <1> HIDE DEF e
  <1> QED
      BY <1>1, <1>2, AssociationStep

\* A plan, whose identifier is new.
LEMMA InsertPlanPreserves == ASSUME IInv, NEW c \in Clients, InsertPlan(c) PROVE IInv'
  <1> DEFINE p == [id |-> target[c], experiment |-> request[c].id, count |-> Len(request[c].units),
                   completed |-> FALSE, deleted |-> FALSE, created |-> version]
             e == [db EXCEPT !.plans = @ \union {p}]
  <1>1. /\ pc[c] = "insert plan" /\ writer = NoClient /\ writer' = c /\ draft' = e
        /\ pc' = [pc EXCEPT ![c] = "insert units"]
        /\ UNCHANGED <<db, issued, request, target>>
      BY DEF InsertPlan, Begin, Goto
  <1>2. /\ IsDatabase(e) /\ e.experiments = db.experiments
        /\ e.plans = db.plans \union {p} /\ e.results = db.results
        /\ e.cohorts = db.cohorts /\ e.units = db.units /\ e.simulations = db.simulations
      BY Opening DEF IsDatabase, Tables
  <1>3. IsPlan(p) /\ p.id = target[c] /\ ~p.completed
      BY DEF IsPlan
  <1>4. Planning(c) /\ ~HasId(db, p.id)
      BY <1>1, <1>3 DEF IInv, IdsInv, Planning
  <1> HIDE DEF e, p
  <1>5. \A q \in db.plans : q.id # p.id
      BY <1>4 DEF HasId
  <1>6. Keyed(e)
    <2>1. \A a, b \in e.plans : a.id = b.id => a = b
        BY <1>2, <1>5, Opening DEF Keyed
    <2>2. \A q \in e.plans : IsPlan(q)
        BY <1>2, <1>3, Opening DEF Keyed
    <2>3. \A r \in e.results : HasId(e, r.plan)
        BY <1>2, Opening DEF Keyed, HasId
    <2> QED
        BY <1>2, <2>1, <2>2, <2>3, Opening DEF Keyed
  <1>7. Extends(db, e)
    <2>1. PlanContent(db.plans) \subseteq PlanContent(e.plans)
        BY <1>2 DEF PlanContent
    <2>2. \A a \in db.plans, b \in e.plans : a.id = b.id => a = b
        BY <1>2, <1>5, Opening DEF Keyed
    <2> QED
        BY <1>2, <2>1, <2>2 DEF Extends
  <1>8. \A q \in e.plans : Matched(e, q)
    <2>1. \A q \in db.plans : Matched(e, q)
        BY <1>2 DEF IInv, MatchInv, Matched, HasOutcome
    <2>2. ~HasOutcome(e, p.id)
        BY <1>2, <1>4, Opening DEF Keyed, HasOutcome
    <2> QED
        BY <1>2, <1>3, <2>1, <2>2 DEF Matched
  <1>9. \A q \in e.plans : HasId(db, q.id) \/ (Planning(c) /\ q.id = target[c])
      BY <1>2, <1>3, <1>4 DEF HasId
  <1>10. \A y \in e.experiments : y.id \in 0 .. issued
      BY <1>2 DEF IInv, IdsInv
  <1>11. /\ "insert units" \in Holding /\ KindFits("insert units", request[c].kind)
         /\ "insert units" # "insert result"
      BY <1>1, Opening DEF Holding, KindFits
  <1> QED
      BY <1>1, <1>6, <1>7, <1>8, <1>9, <1>10, <1>11, DraftStep

\* A result, for a plan that has none.
LEMMA InsertResultPreserves ==
    ASSUME IInv, NEW c \in Clients, InsertResult(c), ~HasResult(c) PROVE IInv'
  <1> DEFINE sims == request[c].simulations
             r == [id |-> target[c], plan |-> request[c].id, total |-> Len(sims),
                   successes |-> Cardinality({k \in DOMAIN sims : sims[k].success})]
             e == [draft EXCEPT !.results = @ \union {r},
                                !.simulations = @ \union SimulationRows(target[c], sims)]
  <1>1. /\ pc[c] = "insert result" /\ writer = c /\ writer' = c /\ draft' = e
        /\ pc' = [pc EXCEPT ![c] = "commit"]
        /\ UNCHANGED <<db, issued, request, target>>
      BY DEF InsertResult, Write, Goto
  <1>2. /\ IsDatabase(e) /\ e.experiments = draft.experiments
        /\ e.plans = draft.plans /\ e.results = draft.results \union {r}
        /\ e.cohorts = draft.cohorts /\ e.units = draft.units
        /\ draft.simulations \subseteq e.simulations
      BY Opening DEF IsDatabase, Tables
  <1>3. r.plan = request[c].id
      OBVIOUS
  <1>4. \A x \in draft.results : x.plan # r.plan
      BY DEF HasResult, Where
  <1> HIDE DEF e, r
  <1>5. Keyed(draft) /\ Extends(db, draft)
      BY Opening
  <1>6. HasId(draft, r.plan)
      BY <1>1, <1>3, <1>5, ExtendsIds DEF IInv, MatchInv
  <1>7. Keyed(e)
    <2>1. \A a, b \in e.results : a.plan = b.plan => a = b
        BY <1>2, <1>4, <1>5 DEF Keyed
    <2>2. \A x \in e.results : HasId(e, x.plan)
        BY <1>2, <1>5, <1>6 DEF Keyed, HasId
    <2> QED
        BY <1>2, <1>5, <2>1, <2>2 DEF Keyed
  <1>8. Extends(db, e)
    <2>1. Extends(draft, draft)
        BY <1>5, ExtendsItself
    <2>2. Extends(draft, e)
        BY <1>2, <2>1 DEF Extends
    <2> QED
        BY <1>5, <2>2, ExtendsTransitive
  <1>9. \A p \in e.plans : Matched(e, p)
    <2> SUFFICES ASSUME NEW p \in draft.plans PROVE Matched(e, p)
        BY <1>2
    <2>1. \A d \in Clients : pc[d] = "insert result" => d = c
        BY <1>1 DEF IInv, ControlInv, Holding
    <2>2. Matched(draft, p) \/ (p.id = request[c].id /\ p.completed)
        BY <2>1 DEF IInv, MatchInv
    <2>3. CASE p.id = r.plan
      <3>1. p.completed
          BY <1>1, <1>3, <2>3 DEF IInv, MatchInv
      <3> QED
          BY <1>2, <2>3, <3>1 DEF Matched, HasOutcome
    <2>4. CASE p.id # r.plan
        BY <1>2, <1>3, <2>2, <2>4 DEF Matched, HasOutcome
    <2> QED
        BY <2>3, <2>4
  <1>10. \A p \in e.plans : HasId(draft, p.id)
      BY <1>2 DEF HasId
  <1>11. \A y \in e.experiments : y.id \in 0 .. issued
      BY <1>2 DEF IInv, IdsInv
  <1>12. "commit" \in Holding /\ KindFits("commit", request[c].kind) /\ "commit" # "insert result"
      BY DEF Holding, KindFits
  <1> QED
      BY <1>1, <1>7, <1>8, <1>9, <1>10, <1>11, <1>12, DraftStep

\* A violated constraint, a commit, an answer taken, a death.
LEMMA RollbackPreserves ==
    ASSUME IInv, NEW c \in Clients, Rollback(c), pc[c] \in {"insert experiment", "insert result"}
    PROVE  IInv'
  BY EndStep DEF Rollback, Answer

\* The end of a transaction.
LEMMA CommitPreserves == ASSUME IInv, NEW c \in Clients, Commit(c) PROVE IInv'
  BY EndStep DEF Commit, Answer

\* A client that drops its request, with or without a transaction.
LEMMA ForgetPreserves ==
    ASSUME IInv, NEW c \in Clients, Forget(c), issued' = issued,
           \/ pc[c] \notin Holding /\ UNCHANGED <<db, draft, writer>>
           \/ writer = c /\ writer' = NoClient /\ draft' = db /\ db' = db
    PROVE  IInv'
  <1>1. /\ pc' = [pc EXCEPT ![c] = "idle"] /\ request' = [request EXCEPT ![c] = NoRequest]
        /\ target' = [target EXCEPT ![c] = 0]
      BY DEF Forget
  <1>2. CASE pc[c] \notin Holding /\ UNCHANGED <<db, draft, writer>>
    <2>1. issued \in Nat /\ 0 \in 0 .. issued /\ issued' \in Nat /\ issued' >= issued
      <3>1. issued \in Nat
          BY DEF IInv, IdsInv
      <3>2. \A i \in Nat : i >= i /\ 0 \in 0 .. i
          OBVIOUS
      <3> QED
          BY <3>1, <3>2
    <2>2. "idle" \notin Holding /\ KindFits("idle", request'[c].kind)
        BY DEF Holding, KindFits
    <2> QED
        BY <1>1, <1>2, <2>1, <2>2, QuietStep
  <1>3. CASE writer = c /\ writer' = NoClient /\ draft' = db /\ db' = db
      BY <1>1, <1>3, EndStep
  <1> QED
      BY <1>2, <1>3

\* A caller that takes its answer.
LEMMA ReceivePreserves == ASSUME IInv, NEW c \in Clients, Receive(c) PROVE IInv'
  BY ForgetPreserves DEF Receive, store, Holding

\* A process that dies, with or without a transaction.
LEMMA CrashPreserves == ASSUME IInv, NEW c \in Clients, Crash(c) PROVE IInv'
  <1>1. CASE writer = c
      BY <1>1, ForgetPreserves DEF Crash
  <1>2. CASE writer # c
    <2>1. pc[c] \notin Holding
        BY <1>2 DEF IInv, ControlInv
    <2> QED
        BY <1>2, <2>1, ForgetPreserves DEF Crash
  <1> QED
      BY <1>1, <1>2

----------------------------------------------------------------------------
(* Theorems.                                                               *)

\* Every step of every client keeps the invariant, and so does stuttering.
LEMMA StepPreserves == ASSUME IInv, [Next]_vars PROVE IInv'
  <1>1. CASE UNCHANGED vars
    <2>1. UNCHANGED <<db, draft, writer, issued, pc, request, target>>
        BY <1>1 DEF vars, client
    <2>2. ControlInv'
        BY <2>1 DEF IInv, ControlInv
    <2>3. IdsInv'
        BY <2>1 DEF IInv, IdsInv, Planning, HasId
    <2>4. Keyed(db)' /\ Keyed(draft)' /\ Extends(db, draft)'
        BY <2>1 DEF IInv, Keyed, Extends, IsDatabase, HasId
    <2>5. MatchInv'
        BY <2>1 DEF IInv, MatchInv, Matched, HasOutcome, HasId
    <2> QED
        BY <2>2, <2>3, <2>4, <2>5 DEF IInv
  <1>2. ASSUME NEW c \in Clients, Steps(c) PROVE IInv'
    <2>1. CASE InsertExperiment(c)
      <3>1. CASE IdentityTaken(c)
        <4>1. Rollback(c) /\ pc[c] = "insert experiment"
            BY <2>1, <3>1 DEF InsertExperiment
        <4> QED
            BY <4>1, RollbackPreserves
      <3>2. CASE ~IdentityTaken(c)
          BY <2>1, <3>2, InsertExperimentPreserves
      <3> QED
          BY <3>1, <3>2
    <2>2. CASE InsertResult(c)
      <3>1. CASE HasResult(c)
        <4>1. Rollback(c) /\ pc[c] = "insert result"
            BY <2>2, <3>1 DEF InsertResult
        <4> QED
            BY <4>1, RollbackPreserves
      <3>2. CASE ~HasResult(c)
          BY <2>2, <3>2, InsertResultPreserves
      <3> QED
          BY <3>1, <3>2
    <2>3. CASE ReadingSteps(c)
        BY <2>3, ReadPreserves
    <2>4. CASE FindDeleted(c) \/ CheckIdentity(c) \/ ReadCohorts(c) \/ CheckStatus(c)
        BY <2>4, ChoosePreserves
    <2>5. CASE Undelete(c) \/ Delete(c) \/ CompletePlan(c)
        BY <2>5, UndeletePreserves, DeletePreserves, CompletePlanPreserves
    <2>6. CASE InsertAssociations(c) \/ InsertPlan(c) \/ InsertUnits(c)
        BY <2>6, InsertAssociationsPreserves, InsertPlanPreserves, InsertUnitsPreserves
    <2>7. CASE Commit(c) \/ Locked(c) \/ Receive(c)
        BY <2>7, CommitPreserves, LockedPreserves, ReceivePreserves
    <2> QED
        BY <1>2, <2>1, <2>2, <2>3, <2>4, <2>5, <2>6, <2>7 DEF Steps, ReadingSteps
  <1> QED
      BY <1>1, <1>2, AskPreserves, CrashPreserves DEF Next

\* The invariant holds from the empty database on: whoever writes is alone, what
\* is written has keys of its own and extends what was committed.
THEOREM Inductive == Spec => []IInv
  <1>1. Init => IInv
    <2> SUFFICES ASSUME Init PROVE IInv
        OBVIOUS
    <2> USE DEF Init, EmptyDatabase, Tables
    <2>1. ControlInv
        BY NamesAssumption DEF ControlInv, Holding, KindFits
    <2>2. IdsInv
        BY DEF IdsInv, Planning, HasId
    <2>3. Keyed(db) /\ Keyed(draft)
        BY DEF Keyed, IsDatabase
    <2>4. MatchInv
        BY DEF MatchInv
    <2> QED
        BY <2>1, <2>2, <2>3, <2>4, ExtendsItself DEF IInv
  <1> QED
      BY <1>1, StepPreserves, PTL DEF Spec

\* However many clients race to save the same identity or the results of the
\* same plan, and wherever they die, an identity names one experiment and a plan
\* has at most one result.
THEOREM IdentitiesCorrect == Spec => []IdentitiesAndResultsAreUnique
  <1>1. IInv => IdentitiesAndResultsAreUnique
      BY DEF IInv, Keyed, IdentitiesAndResultsAreUnique
  <1> QED
      BY <1>1, Inductive, PTL

\* No reader ever sees a plan completed without its result or a result of a plan
\* that is not completed.
THEOREM CompletedCorrect == Spec => []CompletedIffResult
  <1>1. IInv => CompletedIffResult
      BY DEF IInv, MatchInv, Matched, HasOutcome, CompletedIffResult, Where
  <1> QED
      BY <1>1, Inductive, PTL

\* No commit loses a row of the main tables or of a plan, rewrites what one
\* says, reopens a completed plan or brings back a deleted one.
RowsStay == [][Extends(db, db')]_db

\* Rows stay: every change of the database is a commit of a draft that extends it.
THEOREM RowsStayCorrect == Spec => RowsStay
  <1>1. IInv /\ [Next]_vars => [Extends(db, db')]_db
    <2> SUFFICES ASSUME IInv, [Next]_vars, db' # db PROVE Extends(db, db')
        OBVIOUS
    <2>1. PICK c \in Clients : Asks(c) \/ Steps(c) \/ Crash(c)
        BY DEF Next, vars
    <2>2. db' = draft
      <3>1. CASE Asks(c)
          BY <3>1 DEF Asks, Ask, SaveExperiment, DeleteExperiment, LoadExperiment, GetExportData,
                      SavePlan, LoadPlan, LoadResult, SaveResult, store
      <3>2. CASE Crash(c)
          BY <3>2 DEF Crash
      <3>3. CASE Steps(c) /\ Commit(c)
          BY <3>3 DEF Commit
      <3>4. CASE Steps(c) /\ ~Commit(c)
        <4>1. CASE CheckIdentity(c) \/ Compare(c) \/ FindDeleted(c) \/ Locked(c) \/ LockedOut(c) \/ Receive(c)
            BY <4>1 DEF CheckIdentity, Compare, FindDeleted, Locked, LockedOut, Receive, Read, store
        <4>2. CASE Undelete(c) \/ Delete(c) \/ InsertPlan(c) \/ CompletePlan(c)
            BY <4>2 DEF Undelete, Delete, InsertPlan, CompletePlan, Begin
        <4>3. CASE InsertExperiment(c) \/ InsertResult(c)
            BY <4>3 DEF InsertExperiment, InsertResult, Begin, Write, Rollback
        <4>4. CASE InsertAssociations(c) \/ InsertUnits(c)
            BY <4>4 DEF InsertAssociations, InsertUnits, Write
        <4>5. CASE ReadExperiment(c) \/ ReadPolicies(c) \/ ReadCohorts(c) \/ ReadPlan(c) \/ ReadUnits(c)
            BY <4>5 DEF ReadExperiment, ReadPolicies, ReadCohorts, ReadPlan, ReadUnits, Read, store
        <4>6. CASE CheckStatus(c) \/ ReadResult(c) \/ ReadSimulations(c)
            BY <4>6 DEF CheckStatus, ReadResult, ReadSimulations, Read, store
        <4>7. CASE ExportExperiment(c) \/ ExportPlan(c) \/ ExportResult(c) \/ ExportRows(c)
            BY <4>7 DEF ExportExperiment, ExportPlan, ExportResult, ExportRows, Read, store
        <4> QED
            BY <3>4, <4>1, <4>2, <4>3, <4>4, <4>5, <4>6, <4>7 DEF Steps
      <3> QED
          BY <2>1, <3>1, <3>2, <3>3, <3>4
    <2> QED
        BY <2>2 DEF IInv
  <1> QED
      BY <1>1, Inductive, PTL DEF Spec, RowsStay

=============================================================================
