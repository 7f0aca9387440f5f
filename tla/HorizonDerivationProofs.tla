----------------------- MODULE HorizonDerivationProofs -----------------------
(***************************************************************************)
(* Theorems about HorizonDerivation, for all trajectories and definitions. *)
(*                                                                         *)
(* The inductive invariant has three parts: GroupsInv (a group has contexts *)
(* of one key, one of them longest), CursorInv (which group the sibling    *)
(* loop is at), and ResultsInv (the results so far are right).             *)
(*                                                                         *)
(* The report needs three more, ReportInv: PartitionInv (the groups        *)
(* partition the contexts seen so far by their keys), OrderInv (which      *)
(* contexts are answered, in the order of the loops) and CountersInv (each *)
(* counter is the number, or the months, of the contexts answered so far). *)
(***************************************************************************)
EXTENDS HorizonDerivation, WellOrdering, SequenceTheorems, TLAPS

\* A group the executors have formed.
WellFormed(members) ==
    /\ members \subseteq DOMAIN definition
    /\ \A i \in members : Grouped(definition[i])
    /\ \A i, j \in members : SameKey(definition[i], definition[j])
    /\ \E i \in members : IsLongest(i, members)

GroupsInv == \A g \in DOMAIN groups : WellFormed(groups[g])

CursorInv == pc = "siblings" => group \in DOMAIN groups

\* A result is right: the months and wealth of the context alone, its verdict
\* unless a sibling aims higher, and everything else if it failed early.
Right(r, c) ==
    /\ r.months = Direct(c).months
    /\ r.wealth = Direct(c).wealth
    /\ r.months < c.horizon => r = Direct(c)
    /\ r.success => Direct(c).success
    /\ Direct(c).success /\ ~(executor = "reference" /\ HigherSibling(c)) => r.success

ResultsInv ==
    \A i \in DOMAIN definition :
        Answered(i) /\ Answerable(definition[i]) => Right(results[i], definition[i])

Inv == TypeOK /\ GroupsInv /\ CursorInv /\ ResultsInv

----------------------------------------------------------------------------
(* Data.                                                                   *)

\* The contexts of a definition are contexts, of one frequency.
LEMMA ContextTyped ==
    ASSUME TypeOK, NEW i \in DOMAIN definition
    PROVE  /\ definition[i] \in ContextType
           /\ \A j \in DOMAIN definition : definition[i].frequency = definition[j].frequency
  <1>1. definition \in Definitions
      BY DEF TypeOK
  <1>2. definition \in Seq(ContextType)
      BY <1>1, DefinitionsAssumption
  <1>3. definition[i] \in ContextType
      BY <1>2
  <1> QED
      BY <1>1, <1>3, DefinitionsAssumption

\* A trajectory is a sequence of naturals.
LEMMA TrajectoryTyped ==
    ASSUME NEW c \in ContextType
    PROVE  /\ TrajectoryOf(c) \in Paths
           /\ ClosedFormPath(c) \in Paths
  <1>1. /\ c.family \in Families
        /\ c.market \in Markets
        /\ c.frequency \in Frequencies
      BY DEF ContextType
  <1>2. "MONTHLY" \in Frequencies
      BY DEF Frequencies
  <1> QED
      BY <1>1, <1>2, TrajectoryAssumption DEF TrajectoryOf, ClosedFormPath

\* The outcome of a trajectory is a result.
LEMMA OutcomeTyped ==
    ASSUME NEW t \in Paths, NEW h \in Nat \ {0}
    PROVE  Outcome(t, h) \in ResultType
  <1>1. t \in Seq(Nat)
      BY DEF Paths
  <1>2. CASE Len(t) < h
      <2>1. Len(t) \in Nat
          BY <1>1
      <2> QED
          BY <1>2, <2>1 DEF Outcome, ResultType
  <1>3. CASE ~(Len(t) < h)
      <2>1. h \in 1 .. Len(t)
          BY <1>1, <1>3
      <2>2. t[h] \in Nat
          BY <1>1, <2>1
      <2> QED
          BY <1>3, <2>2 DEF Outcome, ResultType, None
  <1> QED
      BY <1>2, <1>3

\* A context simulated alone has a result.
LEMMA DirectTyped ==
    ASSUME NEW c \in ContextType
    PROVE  Direct(c) \in ResultType
  <1>1. /\ c.horizon \in Nat \ {0}
        /\ c.target \in Nat
      BY DEF ContextType
  <1> DEFINE outcome == Outcome(TrajectoryOf(c), c.horizon)
  <1>2. outcome \in ResultType
      BY <1>1, TrajectoryTyped, OutcomeTyped
  <1>3. Direct(c) = [outcome EXCEPT !.success = outcome.success /\ outcome.wealth >= c.target]
      BY DEF Direct
  <1> HIDE DEF outcome
  <1> QED
      BY <1>1, <1>2, <1>3 DEF ResultType

\* The check of a target leaves a result a result.
LEMMA ApplyTargetTyped ==
    ASSUME NEW r \in ResultType, NEW c \in ContextType
    PROVE  ApplyTarget(r, c) \in ResultType
  <1>1. c.horizon \in Nat
      BY DEF ContextType
  <1> QED
      BY <1>1 DEF ApplyTarget, ResultType

\* The check of a target touches only the verdict and the failure month.
LEMMA ApplyTargetFields ==
    ASSUME NEW r \in ResultType, NEW c \in ContextType
    PROVE  /\ ApplyTarget(r, c).wealth = r.wealth
           /\ ApplyTarget(r, c).months = r.months
           /\ ApplyTarget(r, c).success <=> (r.success /\ ~(r.wealth < c.target))
           /\ ~(r.success /\ r.wealth < c.target) => ApplyTarget(r, c) = r
  <1>1. CASE r.success /\ r.wealth < c.target
      <2>1. ApplyTarget(r, c) = [r EXCEPT !.success = FALSE, !.failure_month = c.horizon]
          BY <1>1 DEF ApplyTarget
      <2>2. /\ [r EXCEPT !.success = FALSE, !.failure_month = c.horizon].wealth = r.wealth
            /\ [r EXCEPT !.success = FALSE, !.failure_month = c.horizon].months = r.months
            /\ ~[r EXCEPT !.success = FALSE, !.failure_month = c.horizon].success
          BY DEF ResultType
      <2> QED
          BY <1>1, <2>1, <2>2
  <1>2. CASE ~(r.success /\ r.wealth < c.target)
      BY <1>2 DEF ApplyTarget
  <1> QED
      BY <1>1, <1>2

\* What a context yields alone: a depletion, or the wealth after its horizon.
LEMMA DirectCases ==
    ASSUME NEW c \in ContextType
    PROVE  LET t == TrajectoryOf(c)
           IN  /\ Len(t) < c.horizon =>
                    Direct(c) = [wealth |-> 0, success |-> FALSE, failure_month |-> Len(t),
                                 failure_state |-> "depleted", months |-> Len(t)]
               /\ ~(Len(t) < c.horizon) =>
                    Direct(c) = [wealth |-> t[c.horizon], success |-> t[c.horizon] >= c.target,
                                 failure_month |-> None, failure_state |-> "none",
                                 months |-> c.horizon]
  <1> DEFINE t == TrajectoryOf(c)
  <1> DEFINE outcome == Outcome(t, c.horizon)
  <1>1. Direct(c) = [outcome EXCEPT !.success = outcome.success /\ outcome.wealth >= c.target]
      BY DEF Direct
  <1>2. CASE Len(t) < c.horizon
      <2>1. outcome = [wealth |-> 0, success |-> FALSE, failure_month |-> Len(t),
                       failure_state |-> "depleted", months |-> Len(t)]
          BY <1>2 DEF Outcome
      <2> HIDE DEF outcome
      <2> QED
          BY <1>1, <1>2, <2>1
  <1>3. CASE ~(Len(t) < c.horizon)
      <2>1. outcome = [wealth |-> t[c.horizon], success |-> TRUE, failure_month |-> None,
                       failure_state |-> "none", months |-> c.horizon]
          BY <1>3 DEF Outcome
      <2> HIDE DEF outcome
      <2>2. (outcome.success /\ outcome.wealth >= c.target) = (t[c.horizon] >= c.target)
          BY <2>1
      <2>3. Direct(c) = [outcome EXCEPT !.success = t[c.horizon] >= c.target]
          BY <1>1, <2>2
      <2> QED
          BY <1>3, <2>1, <2>3
  <1> QED
      BY <1>2, <1>3

\* The verdict on a context that survives: its target is met.
LEMMA DirectVerdict ==
    ASSUME NEW c \in ContextType, ~(Len(TrajectoryOf(c)) < c.horizon)
    PROVE  /\ Direct(c).wealth = TrajectoryOf(c)[c.horizon]
           /\ Direct(c).months = c.horizon
           /\ Direct(c).failure_month = None
           /\ Direct(c).success <=> TrajectoryOf(c)[c.horizon] >= c.target
  <1> DEFINE w == TrajectoryOf(c)[c.horizon]
  <1> DEFINE met == w >= c.target
  <1>1. Direct(c) = [wealth |-> w, success |-> met, failure_month |-> None,
                     failure_state |-> "none", months |-> c.horizon]
      BY DirectCases
  <1> HIDE DEF w, met
  <1>2. /\ Direct(c).wealth = w
        /\ Direct(c).months = c.horizon
        /\ Direct(c).failure_month = None
        /\ Direct(c).success = met
      BY <1>1
  <1> QED
      BY <1>2 DEF w, met

\* The data of a horizon within a trajectory.
LEMMA WealthTyped ==
    ASSUME NEW c \in ContextType, NEW h \in Nat \ {0}
    PROVE  LET t == TrajectoryOf(c)
           IN  /\ Len(t) \in Nat
               /\ ~(Len(t) < h) => t[h] \in Nat
  <1> DEFINE t == TrajectoryOf(c)
  <1>1. t \in Seq(Nat)
      BY TrajectoryTyped DEF Paths
  <1> HIDE DEF t
  <1>2. Len(t) \in Nat
      BY <1>1
  <1>3. ~(Len(t) < h) => h \in 1 .. Len(t)
      BY <1>2
  <1>4. ~(Len(t) < h) => t[h] \in Nat
      BY <1>1, <1>3
  <1> QED
      BY <1>2, <1>4 DEF t

----------------------------------------------------------------------------
(* Each way to a result is right.                                          *)

\* A context simulated by itself has the right result, and checking its target
\* again changes nothing.
LEMMA OwnResult ==
    ASSUME NEW c \in ContextType
    PROVE  Right(Direct(c), c) /\ ApplyTarget(Direct(c), c) = Direct(c)
  <1> DEFINE t == TrajectoryOf(c)
  <1>1. c.horizon \in Nat \ {0} /\ c.target \in Nat
      BY DEF ContextType
  <1>2. ~(Direct(c).success /\ Direct(c).wealth < c.target)
      <2>1. CASE Len(t) < c.horizon
          BY <2>1, DirectCases
      <2>2. CASE ~(Len(t) < c.horizon)
          <3>1. t[c.horizon] \in Nat
              BY <1>1, <2>2, WealthTyped
          <3>2. (Direct(c).success <=> t[c.horizon] >= c.target) /\ Direct(c).wealth = t[c.horizon]
              BY <2>2, DirectVerdict
          <3> HIDE DEF t
          <3> QED
              BY <1>1, <3>1, <3>2
      <2> QED
          BY <2>1, <2>2
  <1> QED
      BY <1>2 DEF Right, ApplyTarget

\* Contexts of one key, market and frequency share their trajectory.
LEMMA SharedTrajectory ==
    ASSUME NEW longest \in ContextType, NEW c \in ContextType,
           SameKey(longest, c), longest.market = c.market,
           longest.frequency = c.frequency
    PROVE  TrajectoryOf(longest) = TrajectoryOf(c)
  BY DEF TrajectoryOf, SameKey

\* Cutting a trajectory at the context's horizon and checking its target gives
\* the right result.
LEMMA CutResult ==
    ASSUME NEW c \in ContextType
    PROVE  Right(ApplyTarget(Outcome(TrajectoryOf(c), c.horizon), c), c)
  <1> DEFINE t == TrajectoryOf(c)
  <1> DEFINE r == ApplyTarget(Outcome(t, c.horizon), c)
  <1>1. c.horizon \in Nat \ {0} /\ c.target \in Nat
      BY DEF ContextType
  <1>2. CASE Len(t) < c.horizon
      <2>1. Outcome(t, c.horizon) = Direct(c) /\ ~Direct(c).success
          BY <1>2, DirectCases DEF Outcome
      <2> QED
          BY <2>1, OwnResult
  <1>3. CASE ~(Len(t) < c.horizon)
      <2>1. t[c.horizon] \in Nat
          BY <1>1, <1>3, WealthTyped
      <2>2. Outcome(t, c.horizon) =
               [wealth |-> t[c.horizon], success |-> TRUE, failure_month |-> None,
                failure_state |-> "none", months |-> c.horizon]
          BY <1>3 DEF Outcome
      <2>3. /\ Direct(c).wealth = t[c.horizon]
            /\ Direct(c).months = c.horizon
            /\ Direct(c).success <=> t[c.horizon] >= c.target
          BY <1>3, DirectVerdict
      <2>4. /\ r.wealth = t[c.horizon]
            /\ r.months = c.horizon
            /\ r.success <=> ~(t[c.horizon] < c.target)
          BY <1>1, <2>2, OutcomeTyped, TrajectoryTyped, ApplyTargetFields
      <2> HIDE DEF t, r
      <2>5. r.success <=> Direct(c).success
          BY <1>1, <2>1, <2>3, <2>4
      <2>6. Right(r, c)
          BY <1>1, <2>3, <2>4, <2>5 DEF Right
      <2> QED
          BY <2>6 DEF r, t
  <1> QED
      BY <1>2, <1>3

\* Deriving from the longest context's own result is right, if that context does
\* not aim higher at the same horizon.
LEMMA ReferenceResult ==
    ASSUME NEW longest \in ContextType, NEW c \in ContextType,
           SameKey(longest, c), longest.market = c.market,
           longest.frequency = c.frequency,
           c.horizon <= longest.horizon,
           executor = "reference",
           c.horizon = longest.horizon /\ ~HigherSibling(c) => longest.target <= c.target
    PROVE  /\ DeriveReference(longest, c) \in ResultType
           /\ Right(DeriveReference(longest, c), c)
  <1> DEFINE t == TrajectoryOf(c)
  <1> DEFINE base == Direct(longest)
  <1> DEFINE r == DeriveReference(longest, c)
  <1>1. /\ c.horizon \in Nat \ {0} /\ c.target \in Nat
        /\ longest.horizon \in Nat \ {0} /\ longest.target \in Nat
      BY DEF ContextType
  <1>2. TrajectoryOf(longest) = t
      BY SharedTrajectory
  <1>3. Len(t) \in Nat /\ (~(Len(t) < c.horizon) => t[c.horizon] \in Nat)
      BY <1>1, WealthTyped
  <1>4. base \in ResultType /\ Direct(c) \in ResultType
      BY DirectTyped
  <1>5. /\ Len(t) < longest.horizon => base.failure_month = Len(t)
        /\ ~(Len(t) < longest.horizon) => base.failure_month = None
      BY <1>2, DirectCases, DirectVerdict
  <1>6. CASE c.horizon = longest.horizon
      <2>1. r = ApplyTarget(base, c)
          BY <1>6 DEF DeriveReference
      <2>2. r \in ResultType
          BY <1>4, <2>1, ApplyTargetTyped
      <2>3. CASE Len(t) < c.horizon
          <3>1. base = Direct(c)
              BY <1>2, <1>6, <2>3, DirectCases
          <3> QED
              BY <2>1, <2>2, <3>1, OwnResult
      <2>4. CASE ~(Len(t) < c.horizon)
          <3>1. /\ Direct(c).wealth = t[c.horizon] /\ Direct(c).months = c.horizon
                /\ Direct(c).success <=> t[c.horizon] >= c.target
              BY <2>4, DirectVerdict
          <3>2. /\ base.wealth = t[c.horizon] /\ base.months = c.horizon
                /\ base.success <=> t[c.horizon] >= longest.target
              BY <1>2, <1>6, <2>4, DirectVerdict
          <3>3. /\ r.wealth = t[c.horizon] /\ r.months = c.horizon
                /\ r.success <=> (base.success /\ ~(t[c.horizon] < c.target))
              BY <1>4, <2>1, <3>2, ApplyTargetFields
          <3>4. t[c.horizon] \in Nat
              BY <1>3, <2>4
          <3> HIDE DEF t, base, r
          <3>5. r.success => Direct(c).success
              BY <1>1, <3>1, <3>3, <3>4
          <3>6. Direct(c).success /\ ~HigherSibling(c) => r.success
              BY <1>1, <1>6, <3>1, <3>2, <3>3, <3>4
          <3>7. Right(r, c)
              BY <1>1, <3>1, <3>3, <3>5, <3>6 DEF Right
          <3> QED
              BY <2>2, <3>7 DEF r
      <2> QED
          BY <2>3, <2>4
  <1>7. CASE /\ c.horizon # longest.horizon
             /\ base.failure_month = None \/ c.horizon <= base.failure_month
      <2>1. ~(Len(t) < c.horizon)
          BY <1>1, <1>3, <1>5, <1>7 DEF None
      <2> DEFINE w == t[c.horizon]
      <2> DEFINE met == w >= c.target
      <2>2. w \in Nat
          BY <1>3, <2>1
      <2>3. r = [wealth |-> w, success |-> met,
                 failure_month |-> IF met THEN None ELSE c.horizon,
                 failure_state |-> IF met THEN "none" ELSE "depleted",
                 months |-> c.horizon]
          BY <1>2, <1>7 DEF DeriveReference
      <2>4. /\ Direct(c).wealth = w /\ Direct(c).months = c.horizon
            /\ Direct(c).success <=> met
          BY <2>1, DirectVerdict
      <2>5. met \in BOOLEAN
          OBVIOUS
      <2> HIDE DEF w, met, t, base, r
      <2>6. /\ r.wealth = w /\ r.months = c.horizon /\ r.success = met
          BY <2>3
      <2>7. Right(r, c)
          BY <1>1, <2>4, <2>6 DEF Right
      <2>8. r \in ResultType
          BY <1>1, <2>2, <2>3, <2>5 DEF ResultType, None
      <2> QED
          BY <2>7, <2>8 DEF r
  <1>8. CASE /\ c.horizon # longest.horizon
             /\ ~(base.failure_month = None \/ c.horizon <= base.failure_month)
      <2>1. /\ Len(t) < longest.horizon
            /\ base.failure_month = Len(t)
            /\ Len(t) < c.horizon
          BY <1>1, <1>3, <1>5, <1>8
      <2>2. r = [base EXCEPT !.success = FALSE, !.failure_state = "depleted",
                             !.months = base.failure_month]
          BY <1>8 DEF DeriveReference
      <2>3. base = Direct(c)
          BY <1>2, <2>1, DirectCases
      <2>4. Direct(c) = [wealth |-> 0, success |-> FALSE, failure_month |-> Len(t),
                         failure_state |-> "depleted", months |-> Len(t)]
          BY <2>1, DirectCases
      <2>5. /\ base.success = FALSE /\ base.failure_state = "depleted"
            /\ base.months = base.failure_month
          BY <2>3, <2>4
      <2>6. base.months \in Nat
          BY <1>3, <2>1, <2>5
      <2> HIDE DEF t, base, r
      <2>7. r = base
          BY <1>4, <2>2, <2>5, <2>6 DEF ResultType
      <2> QED
          BY <1>4, <2>3, <2>7, OwnResult DEF r
  <1> QED
      BY <1>6, <1>7, <1>8

\* Cutting the closed form's path is right for a context it can answer for.
LEMMA FastResult ==
    ASSUME NEW longest \in ContextType, NEW c \in ContextType,
           SameKey(longest, c), longest.market = c.market,
           executor = "fast", c.closed_form
    PROVE  /\ DeriveFast(longest, c) \in ResultType
           /\ Answerable(c) => Right(DeriveFast(longest, c), c)
  <1>1. c.horizon \in Nat \ {0}
      BY DEF ContextType
  <1>2. DeriveFast(longest, c) \in ResultType
      BY <1>1, TrajectoryTyped, OutcomeTyped, ApplyTargetTyped DEF DeriveFast
  <1>3. ASSUME Answerable(c)
        PROVE  Right(DeriveFast(longest, c), c)
      <2>1. c.frequency = "MONTHLY"
          BY <1>3 DEF Answerable
      <2>2. ClosedFormPath(longest) = TrajectoryOf(c)
          BY <2>1 DEF ClosedFormPath, TrajectoryOf, SameKey
      <2> QED
          BY <2>2, CutResult DEF DeriveFast
  <1> QED
      BY <1>2, <1>3

----------------------------------------------------------------------------
(* Groups, loops and counters.                                             *)

\* A group has a longest context, and LongestOf finds it.
LEMMA LongestMember ==
    ASSUME NEW members, WellFormed(members)
    PROVE  /\ LongestOf(members) \in members
           /\ IsLongest(LongestOf(members), members)
  BY DEF WellFormed, LongestOf

\* A context joins a group without disturbing it.
LEMMA GroupGrows ==
    ASSUME TypeOK, NEW members, WellFormed(members),
           NEW p \in DOMAIN definition, Grouped(definition[p]),
           NEW j \in members, SameKey(definition[j], definition[p])
    PROVE  WellFormed(members \union {p})
  <1> DEFINE grown == members \union {p}
  <1>1. \A i \in grown : definition[i].horizon \in Nat /\ i \in Int
      <2>1. \A i \in DOMAIN definition : definition[i].horizon \in Nat
          BY ContextTyped DEF ContextType
      <2>2. definition \in Seq(ContextType)
          BY DefinitionsAssumption DEF TypeOK
      <2>3. DOMAIN definition \subseteq Int
          BY <2>2
      <2> QED
          BY <2>1, <2>3 DEF WellFormed
  <1>2. PICK i \in members : IsLongest(i, members)
      BY DEF WellFormed
  <1>3. \E k \in grown : IsLongest(k, grown)
      <2>1. CASE IsLongest(i, grown)
          BY <1>2, <2>1
      <2>2. CASE ~IsLongest(i, grown)
          <3>1. \/ definition[i].horizon < definition[p].horizon
                \/ definition[i].horizon = definition[p].horizon /\ p < i
              BY <1>1, <1>2, <2>2 DEF IsLongest
          <3>2. IsLongest(p, grown)
              BY <1>1, <1>2, <3>1 DEF IsLongest
          <3> QED
              BY <3>2
      <2> QED
          BY <2>1, <2>2
  <1>4. \A k, l \in grown : SameKey(definition[k], definition[l])
      BY DEF WellFormed, SameKey
  <1> QED
      BY <1>3, <1>4 DEF WellFormed

\* A loop stays within the definition.
LEMMA LoopTyped ==
    ASSUME TypeOK, NEW following, NextPosition(following)
    PROVE  /\ position' \in DOMAIN definition
           /\ pc' \in {pc, following}
  <1>1. definition \in Seq(ContextType) /\ Len(definition) > 0
      BY DefinitionsAssumption DEF TypeOK
  <1>2. DOMAIN definition = 1 .. Len(definition) /\ Len(definition) \in Nat
      BY <1>1
  <1>3. position \in 1 .. Len(definition)
      BY <1>2 DEF TypeOK
  <1> QED
      BY <1>1, <1>2, <1>3 DEF NextPosition

\* The counters count.
LEMMA CountTyped ==
    ASSUME TypeOK, NEW field \in {"longest", "derived", "independent"}, NEW months \in Nat
    PROVE  Count(field, months) \in [{"longest", "derived", "independent", "month_work"} -> Nat]
  <1> DEFINE Counters == {"longest", "derived", "independent", "month_work"}
  <1> DEFINE once == [report EXCEPT ![field] = report[field] + 1]
  <1>1. report \in [Counters -> Nat] /\ field \in Counters /\ "month_work" \in Counters
      BY DEF TypeOK
  <1>2. Count(field, months) = [once EXCEPT !["month_work"] = once["month_work"] + months]
      BY DEF Count
  <1> HIDE DEF Counters
  <1>3. once \in [Counters -> Nat]
      BY <1>1
  <1> HIDE DEF once
  <1>4. [once EXCEPT !["month_work"] = once["month_work"] + months] \in [Counters -> Nat]
      BY <1>1, <1>3
  <1> QED
      BY <1>2, <1>4 DEF Counters

----------------------------------------------------------------------------
(* Answers.                                                                *)

\* The type of the results, for steps that give an answer.
ResultsTyped == results \in [DOMAIN definition -> ResultType \union {NoResult}]

\* A right answer keeps the results right.
LEMMA AnswerKeepsResults ==
    ASSUME TypeOK, ResultsInv, UNCHANGED <<executor, definition>>,
           NEW i \in DOMAIN definition, NEW r \in ResultType,
           Answerable(definition[i]) => Right(r, definition[i]),
           results' = [results EXCEPT ![i] = r]
    PROVE  ResultsTyped' /\ ResultsInv'
  <1>1. ResultsTyped'
      BY DEF TypeOK, ResultsTyped
  <1>2. \A k \in DOMAIN definition : results'[k] = IF k = i THEN r ELSE results[k]
      BY DEF TypeOK
  <1>3. ASSUME NEW k \in DOMAIN definition, results'[k] # NoResult, Answerable(definition[k])
        PROVE  Right(results'[k], definition[k])
      BY <1>2, <1>3 DEF ResultsInv, Answered
  <1>4. ResultsInv'
      BY <1>3 DEF ResultsInv, Answered, Answerable, Right, HigherSibling, SameKey
  <1> QED
      BY <1>1, <1>4

\* Without an answer the results stay right.
LEMMA SameResults ==
    ASSUME ResultsInv, UNCHANGED <<executor, definition, results>>
    PROVE  ResultsInv'
  BY DEF ResultsInv, Answered, Answerable, Right, HigherSibling, SameKey

\* The groups stay as they are.
LEMMA SameGroups ==
    ASSUME GroupsInv, UNCHANGED <<executor, definition, groups>>
    PROVE  GroupsInv'
  BY DEF GroupsInv, WellFormed, Grouped, SameKey, IsLongest

\* A context simulated by itself, within a group, has the right result.
LEMMA OwnAnswer ==
    ASSUME TypeOK, NEW i \in DOMAIN definition, Grouped(definition[i]),
           NEW r, r = IF executor = "fast" THEN DeriveFast(definition[i], definition[i])
                      ELSE ApplyTarget(Direct(definition[i]), definition[i])
    PROVE  r \in ResultType /\ (Answerable(definition[i]) => Right(r, definition[i]))
  <1>1. definition[i] \in ContextType
      BY ContextTyped
  <1>2. CASE executor = "fast"
      BY <1>1, <1>2, FastResult DEF Grouped, SameKey
  <1>3. CASE executor # "fast"
      BY <1>1, <1>3, OwnResult, DirectTyped
  <1> QED
      BY <1>2, <1>3

\* A context derived from the longest of its group has the right result.
LEMMA DerivedAnswer ==
    ASSUME TypeOK, NEW members, WellFormed(members), NEW i \in members,
           IsPrefix(definition[i], definition[LongestOf(members)])
    PROVE  LET r == Derive(definition[LongestOf(members)], definition[i])
           IN  r \in ResultType /\ (Answerable(definition[i]) => Right(r, definition[i]))
  <1> DEFINE l == LongestOf(members)
  <1>1. l \in members /\ members \subseteq DOMAIN definition
      BY LongestMember DEF WellFormed
  <1>2. /\ definition[l] \in ContextType /\ definition[i] \in ContextType
        /\ definition[l].frequency = definition[i].frequency
      BY <1>1, ContextTyped
  <1>3. /\ SameKey(definition[l], definition[i])
        /\ definition[l].market = definition[i].market
        /\ definition[i].horizon <= definition[l].horizon
        /\ Grouped(definition[i])
      BY <1>1 DEF WellFormed, IsPrefix
  <1>4. CASE executor = "fast"
      BY <1>2, <1>3, <1>4, FastResult DEF Derive, Grouped
  <1>5. CASE executor # "fast"
      <2>1. executor = "reference"
          BY <1>5 DEF TypeOK
      <2>2. definition[i].horizon = definition[l].horizon /\ ~HigherSibling(definition[i])
              => definition[l].target <= definition[i].target
          <3>1. definition[l].target \in Nat /\ definition[i].target \in Nat
              BY <1>2 DEF ContextType
          <3> QED
              BY <1>1, <1>3, <3>1 DEF HigherSibling, SameKey
      <2> QED
          BY <1>2, <1>3, <1>5, <2>1, <2>2, ReferenceResult DEF Derive
  <1> QED
      BY <1>4, <1>5

----------------------------------------------------------------------------
(* Steps.                                                                  *)

\* The invariant holds of a definition that no step has been taken on.
LEMMA InvInit == Init => Inv
  <1> SUFFICES ASSUME Init PROVE Inv
      OBVIOUS
  <1>1. definition \in Seq(ContextType) /\ Len(definition) > 0
      BY DefinitionsAssumption DEF Init
  <1>2. position \in DOMAIN definition
      BY <1>1 DEF Init
  <1>3. groups \in Seq(SUBSET (DOMAIN definition)) /\ group \in 0 .. Len(groups)
      BY DEF Init
  <1>4. TypeOK
      BY <1>2, <1>3 DEF Init, TypeOK
  <1>5. GroupsInv /\ CursorInv /\ ResultsInv
      BY DEF Init, GroupsInv, CursorInv, ResultsInv, Answered
  <1> QED
      BY <1>4, <1>5 DEF Inv

\* The groups after a context was put into its group.
LEMMA GroupsStep ==
    ASSUME TypeOK, GroupsInv, GroupContext
    PROVE  /\ groups' \in Seq(SUBSET (DOMAIN definition))
           /\ Len(groups') >= Len(groups)
           /\ GroupsInv'
  <1> DEFINE c == definition[position]
  <1> DEFINE D == DOMAIN definition
  <1>1. groups \in Seq(SUBSET D) /\ position \in D
      BY DEF TypeOK
  <1>2. UNCHANGED <<executor, definition>>
      BY DEF GroupContext
  <1>3. \A members : WellFormed(members)' <=> WellFormed(members)
      BY <1>2 DEF WellFormed, Grouped, SameKey, IsLongest
  <1>4. SUFFICES /\ groups' \in Seq(SUBSET D)
                 /\ Len(groups') >= Len(groups)
                 /\ \A g \in DOMAIN groups' : WellFormed(groups'[g])
      BY <1>2, <1>3 DEF GroupsInv, WellFormed, Grouped, SameKey, IsLongest
  <1>5. CASE ~Grouped(c)
      <2>1. groups' = groups
          BY <1>5 DEF GroupContext
      <2> QED
          BY <1>1, <2>1 DEF GroupsInv
  <1>6. CASE Grouped(c) /\ Matching(c) = {}
      <2>1. groups' = Append(groups, {position})
          BY <1>6 DEF GroupContext
      <2>2. {position} \in SUBSET D
          BY <1>1
      <2>3. WellFormed({position})
          <3>1. definition[position].horizon = definition[position].horizon /\ position <= position
              <4>1. definition \in Seq(ContextType)
                  BY DefinitionsAssumption DEF TypeOK
              <4>2. position \in Nat
                  BY <1>1, <4>1
              <4> QED
                  BY <4>2
          <3> QED
              BY <1>1, <1>6, <3>1 DEF WellFormed, IsLongest, SameKey
      <2> HIDE DEF D, c
      <2>4. /\ groups' \in Seq(SUBSET D)
            /\ Len(groups') = Len(groups) + 1
            /\ \A g \in 1 .. Len(groups) : groups'[g] = groups[g]
            /\ groups'[Len(groups) + 1] = {position}
          BY <1>1, <2>1, <2>2
      <2>5. DOMAIN groups = 1 .. Len(groups) /\ Len(groups) \in Nat
          BY <1>1
      <2>6. DOMAIN groups' = 1 .. (Len(groups) + 1)
          BY <2>4, <2>5
      <2>7. ASSUME NEW g \in DOMAIN groups'
            PROVE  WellFormed(groups'[g])
          <3>1. CASE g = Len(groups) + 1
              BY <2>3, <2>4, <3>1
          <3>2. CASE g # Len(groups) + 1
              <4>1. g \in 1 .. Len(groups)
                  BY <2>5, <2>6, <3>2
              <4> QED
                  BY <2>4, <2>5, <4>1 DEF GroupsInv
          <3> QED
              BY <3>1, <3>2
      <2> QED
          BY <2>4, <2>5, <2>7 DEF D
  <1>7. CASE Grouped(c) /\ Matching(c) # {}
      <2>1. groups' =
               [g \in DOMAIN groups |->
                   IF g \in Matching(c) THEN groups[g] \union {position} ELSE groups[g]]
          BY <1>7 DEF GroupContext
      <2>2. DOMAIN groups = 1 .. Len(groups) /\ Len(groups) \in Nat
          BY <1>1
      <2>3. groups' \in [1 .. Len(groups) -> SUBSET D]
          BY <1>1, <2>1, <2>2
      <2>4. groups' \in Seq(SUBSET D) /\ Len(groups') = Len(groups)
          <3> HIDE DEF D
          <3> QED
              BY <2>2, <2>3, SeqDef, LenProperties
      <2>5. ASSUME NEW g \in DOMAIN groups
            PROVE  WellFormed(groups'[g])
          <3>1. CASE g \in Matching(c)
              <4>1. PICK j \in groups[g] : SameKey(definition[j], c)
                  BY <3>1 DEF Matching
              <4>2. WellFormed(groups[g])
                  BY DEF GroupsInv
              <4>3. groups'[g] = groups[g] \union {position}
                  BY <2>1, <3>1
              <4> QED
                  BY <1>1, <1>7, <4>1, <4>2, <4>3, GroupGrows
          <3>2. CASE g \notin Matching(c)
              BY <2>1, <3>2 DEF GroupsInv
          <3> QED
              BY <3>1, <3>2
      <2>6. DOMAIN groups' = DOMAIN groups
          BY <2>1
      <2>7. \A g \in DOMAIN groups' : WellFormed(groups'[g])
          BY <2>5, <2>6
      <2> HIDE DEF D
      <2> QED
          BY <2>2, <2>4, <2>7
  <1> QED
      BY <1>5, <1>6, <1>7

\* An exception changes nothing but where the execution is.
LEMMA AbortStep == Inv /\ Abort => Inv'
  <1> SUFFICES ASSUME Inv, Abort PROVE Inv'
      OBVIOUS
  <1>1. /\ pc' = "raised"
        /\ UNCHANGED <<executor, definition, position, groups, group, results, report>>
      BY DEF Abort
  <1>2. TypeOK' /\ CursorInv'
      BY <1>1 DEF Inv, TypeOK, CursorInv
  <1> QED
      BY <1>1, <1>2, SameGroups, SameResults DEF Inv

\* A context joins a group of its key, and is its longest or leaves it one.
LEMMA GroupContextStep == Inv /\ GroupContext => Inv'
  <1> SUFFICES ASSUME Inv, GroupContext PROVE Inv'
      OBVIOUS
  <1>1. /\ pc = "grouping"
        /\ NextPosition("evaluation")
        /\ UNCHANGED <<executor, definition, group, results, report>>
      BY DEF GroupContext
  <1>2. position' \in DOMAIN definition /\ pc' \in {"grouping", "evaluation"}
      BY <1>1, LoopTyped DEF Inv
  <1>3. /\ groups' \in Seq(SUBSET (DOMAIN definition))
        /\ Len(groups') >= Len(groups)
        /\ GroupsInv'
      BY GroupsStep DEF Inv
  <1>4. group' \in 0 .. Len(groups')
      <2>1. Len(groups) \in Nat /\ Len(groups') \in Nat /\ group \in 0 .. Len(groups)
          BY <1>3, LenProperties DEF Inv, TypeOK
      <2> QED
          BY <1>1, <1>3, <2>1
  <1>5. TypeOK'
      BY <1>1, <1>2, <1>3, <1>4 DEF Inv, TypeOK
  <1>6. CursorInv'
      BY <1>2 DEF CursorInv
  <1> QED
      BY <1>1, <1>3, <1>5, <1>6, SameResults DEF Inv

\* The longest context of the next group.
LEMMA NextGroup ==
    ASSUME Inv, group < Len(groups)
    PROVE  /\ group + 1 \in DOMAIN groups
           /\ group + 1 \in 0 .. Len(groups)
           /\ LongestOf(groups[group + 1]) \in DOMAIN definition
           /\ Grouped(definition[LongestOf(groups[group + 1])])
  <1>1. groups \in Seq(SUBSET (DOMAIN definition)) /\ group \in 0 .. Len(groups)
      BY DEF Inv, TypeOK
  <1>2. DOMAIN groups = 1 .. Len(groups) /\ Len(groups) \in Nat
      BY <1>1, LenProperties
  <1>3. group + 1 \in 1 .. Len(groups)
      BY <1>1, <1>2
  <1>4. WellFormed(groups[group + 1])
      BY <1>2, <1>3 DEF Inv, GroupsInv
  <1> QED
      BY <1>2, <1>3, <1>4, LongestMember DEF WellFormed

\* The longest context of the next group is answered from its own evaluation.
LEMMA EvaluateLongestStep == Inv /\ EvaluateLongest => Inv'
  <1> SUFFICES ASSUME Inv, EvaluateLongest PROVE Inv'
      OBVIOUS
  <1> DEFINE i == LongestOf(groups[group + 1])
  <1> DEFINE c == definition[i]
  <1> DEFINE r == IF executor = "fast" THEN DeriveFast(c, c) ELSE ApplyTarget(Direct(c), c)
  <1>1. CASE Abort
      BY <1>1, AbortStep
  <1>2. CASE /\ results' = [results EXCEPT ![i] = r]
             /\ report' = Count("longest", c.horizon)
             /\ group' = group + 1
             /\ pc' = "siblings"
             /\ position' = 1
             /\ UNCHANGED <<executor, definition, groups>>
      <2>1. /\ group + 1 \in DOMAIN groups /\ group + 1 \in 0 .. Len(groups)
            /\ i \in DOMAIN definition /\ Grouped(c)
          BY NextGroup DEF EvaluateLongest
      <2>2. r \in ResultType /\ (Answerable(c) => Right(r, c))
          BY <2>1, OwnAnswer DEF Inv
      <2>3. ResultsTyped' /\ ResultsInv'
          <3> HIDE DEF r, i
          <3> QED
              BY <1>2, <2>1, <2>2, AnswerKeepsResults DEF Inv
      <2>4. c.horizon \in Nat
          BY <2>1, ContextTyped DEF Inv, ContextType
      <2>5. report' \in [{"longest", "derived", "independent", "month_work"} -> Nat]
          BY <1>2, <2>4, CountTyped DEF Inv
      <2>6. position' \in DOMAIN definition
          <3>1. definition \in Seq(ContextType) /\ Len(definition) > 0
              BY DefinitionsAssumption DEF Inv, TypeOK
          <3> QED
              BY <1>2, <3>1
      <2>7. TypeOK'
          BY <1>2, <2>1, <2>3, <2>5, <2>6 DEF Inv, TypeOK, ResultsTyped
      <2>8. CursorInv'
          BY <1>2, <2>1 DEF CursorInv
      <2> QED
          BY <1>2, <2>3, <2>7, <2>8, SameGroups DEF Inv
  <1> QED
      BY <1>1, <1>2 DEF EvaluateLongest

\* The sibling loop passes a context that is not its to answer.
LEMMA SkipContextStep == Inv /\ SkipContext => Inv'
  <1> SUFFICES ASSUME Inv, SkipContext PROVE Inv'
      OBVIOUS
  <1>1. /\ pc = "siblings"
        /\ NextPosition("evaluation")
        /\ UNCHANGED <<executor, definition, groups, group, results, report>>
      BY DEF SkipContext, Keep
  <1>2. position' \in DOMAIN definition /\ pc' \in {"siblings", "evaluation"}
      BY <1>1, LoopTyped DEF Inv
  <1>3. TypeOK' /\ CursorInv'
      BY <1>1, <1>2 DEF Inv, TypeOK, CursorInv
  <1> QED
      BY <1>1, <1>3, SameGroups, SameResults DEF Inv

\* What a step that answers for one context of a loop leaves intact.
LEMMA AnswerStep ==
    ASSUME Inv, NEW field \in {"derived", "independent"}, NEW months \in Nat,
           NEW r \in ResultType, Answerable(definition[position]) => Right(r, definition[position]),
           results' = [results EXCEPT ![position] = r],
           report' = Count(field, months),
           NEW following \in {"evaluation", "done"}, NextPosition(following),
           UNCHANGED <<executor, definition, groups, group>>
    PROVE  Inv'
  <1>1. position \in DOMAIN definition
      BY DEF Inv, TypeOK
  <1>2. ResultsTyped' /\ ResultsInv'
      BY <1>1, AnswerKeepsResults DEF Inv
  <1>3. report' \in [{"longest", "derived", "independent", "month_work"} -> Nat]
      BY CountTyped DEF Inv
  <1>4. position' \in DOMAIN definition /\ pc' \in {pc, following}
      BY LoopTyped DEF Inv
  <1>5. TypeOK' /\ CursorInv'
      BY <1>2, <1>3, <1>4 DEF Inv, TypeOK, ResultsTyped, CursorInv
  <1> QED
      BY <1>2, <1>5, SameGroups DEF Inv

\* The context the sibling loop is at belongs to a group.
LEMMA SiblingGroup ==
    ASSUME Inv, Sibling
    PROVE  /\ WellFormed(groups[group])
           /\ position \in groups[group]
           /\ position \in DOMAIN definition
           /\ Grouped(definition[position])
           /\ definition[position].horizon \in Nat
  <1>1. WellFormed(groups[group]) /\ position \in groups[group]
      BY DEF Inv, Sibling, CursorInv, GroupsInv
  <1>2. position \in DOMAIN definition /\ Grouped(definition[position])
      BY <1>1 DEF WellFormed
  <1> QED
      BY <1>1, <1>2, ContextTyped DEF Inv, ContextType

\* A sibling is answered from the longest context of its group: with what is its own.
LEMMA DeriveSiblingStep == Inv /\ DeriveSibling => Inv'
  <1> SUFFICES ASSUME Inv, DeriveSibling PROVE Inv'
      OBVIOUS
  <1> DEFINE c == definition[position]
  <1> DEFINE r == Derive(definition[LongestOf(groups[group])], c)
  <1>1. /\ Sibling
        /\ IsPrefix(c, definition[LongestOf(groups[group])])
        /\ results' = [results EXCEPT ![position] = r]
        /\ report' = Count("derived", 0)
        /\ NextPosition("evaluation")
        /\ UNCHANGED <<executor, definition, groups, group>>
      BY DEF DeriveSibling
  <1>2. r \in ResultType /\ (Answerable(c) => Right(r, c))
      BY <1>1, SiblingGroup, DerivedAnswer DEF Inv
  <1> HIDE DEF r
  <1> QED
      BY <1>1, <1>2, AnswerStep

\* A sibling that cannot be derived is answered from its own evaluation.
LEMMA EvaluateSiblingStep == Inv /\ EvaluateSibling => Inv'
  <1> SUFFICES ASSUME Inv, EvaluateSibling PROVE Inv'
      OBVIOUS
  <1> DEFINE c == definition[position]
  <1> DEFINE r == IF executor = "fast" THEN DeriveFast(c, c) ELSE ApplyTarget(Direct(c), c)
  <1>1. CASE Abort
      BY <1>1, AbortStep
  <1>2. CASE /\ results' = [results EXCEPT ![position] = r]
             /\ report' = Count("independent", c.horizon)
             /\ NextPosition("evaluation")
             /\ UNCHANGED <<executor, definition, groups, group>>
      <2>1. Grouped(c) /\ position \in DOMAIN definition /\ c.horizon \in Nat
          BY SiblingGroup DEF EvaluateSibling
      <2>2. r \in ResultType /\ (Answerable(c) => Right(r, c))
          BY <2>1, OwnAnswer DEF Inv
      <2> HIDE DEF r
      <2> QED
          BY <1>2, <2>1, <2>2, AnswerStep
  <1> QED
      BY <1>1, <1>2 DEF EvaluateSibling

\* The executor leaves the groups for the contexts that have none.
LEMMA FinishEvaluationStep == Inv /\ FinishEvaluation => Inv'
  <1> SUFFICES ASSUME Inv, FinishEvaluation PROVE Inv'
      OBVIOUS
  <1>1. /\ pc' = "assembly" /\ position' = 1
        /\ UNCHANGED <<executor, definition, groups, group, results, report>>
      BY DEF FinishEvaluation
  <1>2. position' \in DOMAIN definition
      <2>1. definition \in Seq(ContextType) /\ Len(definition) > 0
          BY DefinitionsAssumption DEF Inv, TypeOK
      <2> QED
          BY <1>1, <2>1
  <1>3. TypeOK' /\ CursorInv'
      BY <1>1, <1>2 DEF Inv, TypeOK, CursorInv
  <1> QED
      BY <1>1, <1>3, SameGroups, SameResults DEF Inv

\* The results are put in the order of the definition.
LEMMA AssembleStep == Inv /\ Assemble => Inv'
  <1> SUFFICES ASSUME Inv, Assemble PROVE Inv'
      OBVIOUS
  <1> DEFINE c == definition[position]
  <1>1. CASE Abort
      BY <1>1, AbortStep
  <1>2. CASE /\ UNCHANGED <<results, report>>
             /\ NextPosition("done")
             /\ UNCHANGED <<executor, definition, groups, group>>
      <2>1. position' \in DOMAIN definition /\ pc' \in {"assembly", "done"}
          BY <1>2, LoopTyped DEF Inv, Assemble
      <2>2. TypeOK' /\ CursorInv'
          BY <1>2, <2>1 DEF Inv, TypeOK, CursorInv
      <2> QED
          BY <1>2, <2>2, SameGroups, SameResults DEF Inv
  <1>3. CASE /\ results' = [results EXCEPT ![position] = Direct(c)]
             /\ report' = Count("independent", c.horizon)
             /\ NextPosition("done")
             /\ UNCHANGED <<executor, definition, groups, group>>
      <2>1. c \in ContextType /\ c.horizon \in Nat
          BY ContextTyped DEF Inv, TypeOK, ContextType
      <2>2. Direct(c) \in ResultType /\ Right(Direct(c), c)
          BY <2>1, DirectTyped, OwnResult
      <2> QED
          BY <1>3, <2>1, <2>2, AnswerStep
  <1> QED
      BY <1>1, <1>2, <1>3 DEF Assemble

\* Every step keeps the invariant.
LEMMA InvStep == Inv /\ [Next]_vars => Inv'
  <1> SUFFICES ASSUME Inv, [Next]_vars PROVE Inv'
      OBVIOUS
  <1>1. CASE Next
      BY <1>1, GroupContextStep, EvaluateLongestStep, SkipContextStep, DeriveSiblingStep,
         EvaluateSiblingStep, FinishEvaluationStep, AssembleStep DEF Next
  <1>2. CASE UNCHANGED vars
      <2>1. UNCHANGED <<executor, definition, pc, position, groups, group, results, report>>
          BY <1>2 DEF vars
      <2>2. TypeOK' /\ CursorInv'
          BY <2>1 DEF Inv, TypeOK, CursorInv
      <2> QED
          BY <2>1, <2>2, SameGroups, SameResults DEF Inv
  <1> QED
      BY <1>1, <1>2

----------------------------------------------------------------------------
(* Theorems.                                                               *)

\* Every reachable state satisfies the inductive invariant.
THEOREM Invariance == Spec => []Inv
  <1>1. Init => Inv
      BY InvInit
  <1>2. Inv /\ [Next]_vars => Inv'
      BY InvStep
  <1> QED
      BY <1>1, <1>2, PTL DEF Spec

\* No execution leaves its types: every answer is a result, every group a set
\* of contexts of the definition, and the loops stay within it.
THEOREM TypeCorrect == Spec => []TypeOK
  <1>1. Inv => TypeOK
      BY DEF Inv
  <1> QED
      BY <1>1, Invariance, PTL

\* Whatever a definition mixes, the months and wealth given for a context are
\* those of its own simulation, and so is all of a result that fails early.
THEOREM TrajectoryCorrect == Spec => []TrajectoryIsOwn
  <1>1. Inv => TrajectoryIsOwn
      BY DEF Inv, ResultsInv, Right, TrajectoryIsOwn
  <1> QED
      BY <1>1, Invariance, PTL

\* Neither executor calls a context a success that fails alone.
THEOREM SuccessCorrect == Spec => []NoFalseSuccess
  <1>1. Inv => NoFalseSuccess
      <2> SUFFICES ASSUME Inv, NEW i \in DOMAIN definition,
                          Answerable(definition[i]), results[i].success
                   PROVE  Direct(definition[i]).success
          BY DEF NoFalseSuccess
      <2>1. Answered(i)
          BY DEF Answered, NoResult
      <2> QED
          BY <2>1 DEF Inv, ResultsInv, Right
  <1> QED
      BY <1>1, Invariance, PTL

\* A context that succeeds alone succeeds in company, but for the reference
\* executor and a sibling of the same horizon with a higher target.
THEOREM FailureCorrect == Spec => []NoFalseFailure
  <1>1. Inv => NoFalseFailure
      BY DEF Inv, ResultsInv, Right, NoFalseFailure
  <1> QED
      BY <1>1, Invariance, PTL

\* The verdict an execution gives on a context is the one the context gets alone,
\* but for the failures of the reference executor under a higher target.
THEOREM VerdictCorrect == Spec => []VerdictIsOwn
  <1>1. NoFalseSuccess /\ NoFalseFailure => VerdictIsOwn
      BY DEF VerdictIsOwn
  <1> QED
      BY <1>1, SuccessCorrect, FailureCorrect, PTL

\* An execution throws only for a context that throws by itself, and the fast
\* path only for one it delegates.
THEOREM RaisesCorrect == Spec => []RaisesOnlyOwn
  <1>1. Init => RaisesOnlyOwn
      BY DEF Init, RaisesOnlyOwn
  <1>2. Inv /\ RaisesOnlyOwn /\ [Next]_vars => RaisesOnlyOwn'
      <2> SUFFICES ASSUME Inv, RaisesOnlyOwn, [Next]_vars, pc' = "raised"
                   PROVE  \E i \in DOMAIN definition' :
                              /\ Raises(definition'[i])
                              /\ executor' = "fast" => ~definition'[i].closed_form
          BY DEF RaisesOnlyOwn
      <2>1. UNCHANGED <<executor, definition>>
          BY DEF Next, vars, GroupContext, EvaluateLongest, SkipContext, Keep, DeriveSibling,
                 EvaluateSibling, FinishEvaluation, Assemble, Abort
      <2>2. position \in DOMAIN definition
          BY DEF Inv, TypeOK
      <2>3. CASE EvaluateLongest
          <3>1. LongestOf(groups[group + 1]) \in DOMAIN definition
              BY <2>3, NextGroup DEF EvaluateLongest
          <3>2. executor = "reference" /\ Raises(definition[LongestOf(groups[group + 1])])
              BY <2>3 DEF EvaluateLongest
          <3> QED
              BY <2>1, <3>1, <3>2
      <2>4. CASE EvaluateSibling
          <3>1. executor = "reference" /\ Raises(definition[position])
              BY <2>4 DEF EvaluateSibling, Sibling, NextPosition
          <3> QED
              BY <2>1, <2>2, <3>1
      <2>5. CASE Assemble
          <3>1. ~Grouped(definition[position]) /\ Raises(definition[position])
              BY <2>5 DEF Assemble, NextPosition
          <3> QED
              BY <2>1, <2>2, <3>1 DEF Grouped
      <2>6. CASE GroupContext \/ SkipContext \/ DeriveSibling \/ FinishEvaluation
          BY <2>6 DEF GroupContext, SkipContext, Keep, DeriveSibling, Sibling,
                      FinishEvaluation, NextPosition
      <2>7. CASE UNCHANGED vars
          BY <2>7 DEF vars, RaisesOnlyOwn
      <2> QED
          BY <2>3, <2>4, <2>5, <2>6, <2>7 DEF Next
  <1> QED
      BY <1>1, <1>2, Invariance, PTL DEF Spec

----------------------------------------------------------------------------
(* Sums of months.                                                         *)

\* The months of the first k contexts.
SumStep(f, contexts, indices, k) ==
    IF k = 0 THEN 0 ELSE f[k - 1] + (IF k \in indices THEN contexts[k].horizon ELSE 0)

\* f tells the months of each of the first n contexts and those before it.
SumsUpTo(f, contexts, indices, n) == f = [k \in 0 .. n |-> SumStep(f, contexts, indices, k)]

\* What holds at first, and for a number if it holds for the one before, holds up
\* to a bound.
LEMMA Climb ==
    ASSUME NEW n \in Nat, NEW T, 0 \in T, \A k \in 1 .. n : k - 1 \in T => k \in T
    PROVE  \A k \in 0 .. n : k \in T
  <1> DEFINE bad == (0 .. n) \ T
  <1>1. ASSUME bad # {} PROVE FALSE
      <2>1. bad \in SUBSET Nat
          OBVIOUS
      <2>2. PICK k \in bad : \A j \in bad : k <= j
          BY <1>1, <2>1, LeastNumber
      <2>3. k \in 1 .. n /\ k - 1 \in 0 .. n /\ ~(k <= k - 1)
          BY <2>2
      <2>4. k - 1 \notin bad
          BY <2>2, <2>3
      <2> QED
          BY <2>2, <2>3, <2>4
  <1> QED
      BY <1>1

\* The definition by recursion means what it says: the months of a definition
\* are the last of a sequence of sums, each of which comes from the one before.
LEMMA MonthsAreSummed ==
    ASSUME NEW contexts, NEW indices, Len(contexts) \in Nat
    PROVE  \E f : /\ SumsUpTo(f, contexts, indices, Len(contexts))
                  /\ MonthsIn(contexts, indices) = f[Len(contexts)]
  <1> DEFINE T == {n \in Nat : \E f : SumsUpTo(f, contexts, indices, n)}
  <1>1. 0 \in T
      <2>1. SumsUpTo([k \in 0 .. 0 |-> 0], contexts, indices, 0)
          BY DEF SumsUpTo, SumStep
      <2> QED
          BY <2>1
  <1>2. ASSUME NEW n \in 1 .. Len(contexts), n - 1 \in T PROVE n \in T
      <2>1. n \in Nat /\ n - 1 \in Nat
          OBVIOUS
      <2>2. PICK g : SumsUpTo(g, contexts, indices, n - 1)
          BY <1>2
      <2> DEFINE f == [k \in 0 .. n |-> IF k = n THEN SumStep(g, contexts, indices, n) ELSE g[k]]
      <2>3. \A k \in 0 .. n - 1 : f[k] = g[k]
          BY <2>1
      <2>4. \A k \in 0 .. n - 1 : g[k] = SumStep(g, contexts, indices, k)
          BY <2>2 DEF SumsUpTo
      <2>5. ASSUME NEW k \in 0 .. n PROVE f[k] = SumStep(f, contexts, indices, k)
          <3>1. k = 0 \/ k - 1 \in 0 .. n - 1
              BY <2>1
          <3>2. SumStep(f, contexts, indices, k) = SumStep(g, contexts, indices, k)
              BY <2>3, <3>1 DEF SumStep
          <3>3. CASE k = n
              BY <3>2, <3>3
          <3>4. CASE k # n
              <4>1. k \in 0 .. n - 1
                  BY <2>1, <3>4
              <4> QED
                  BY <2>3, <2>4, <3>2, <4>1
          <3> QED
              BY <3>3, <3>4
      <2>6. SumsUpTo(f, contexts, indices, n)
          BY <2>5 DEF SumsUpTo
      <2> QED
          BY <2>1, <2>6
  <1> DEFINE n == Len(contexts)
  <1>3. n \in T
      <2> HIDE DEF T
      <2>1. \A k \in 0 .. n : k \in T
          BY <1>1, <1>2, Climb
      <2>2. n \in 0 .. n
          OBVIOUS
      <2> QED
          BY <2>1, <2>2
  <1> DEFINE g == CHOOSE f : SumsUpTo(f, contexts, indices, n)
  <1>4. SumsUpTo(g, contexts, indices, n)
      <2>1. \E f : SumsUpTo(f, contexts, indices, n)
          BY <1>3
      <2> HIDE DEF n
      <2> QED
          BY <2>1
  <1>5. MonthsIn(contexts, indices) = g[n]
      BY DEF MonthsIn, SumsUpTo, SumStep
  <1> QED
      BY <1>4, <1>5

\* Sums of months are numbers; without a context there are none; and those of
\* more contexts are more, by those of the one added if it is one.
LEMMA MonthsAddUp ==
    ASSUME NEW contexts \in Seq(ContextType)
    PROVE  /\ \A S : MonthsIn(contexts, S) \in Nat
           /\ MonthsIn(contexts, {}) = 0
           /\ \A S, T : S \subseteq T => MonthsIn(contexts, S) <= MonthsIn(contexts, T)
           /\ \A S : \A x \in DOMAIN contexts : x \notin S =>
                MonthsIn(contexts, S \union {x}) = MonthsIn(contexts, S) + contexts[x].horizon
  <1> DEFINE n == Len(contexts)
  <1>1. n \in Nat /\ DOMAIN contexts = 1 .. n
      BY LenProperties
  <1>2. \A k \in 1 .. n : contexts[k].horizon \in Nat
      <2>1. \A k \in 1 .. n : contexts[k] \in ContextType
          BY <1>1
      <2> QED
          BY <2>1 DEF ContextType
  <1> DEFINE months == [k \in 1 .. n |-> contexts[k].horizon]
             Sums(f, S) == /\ f[0] = 0
                           /\ \A k \in 1 .. n :
                                  f[k] = f[k - 1] + (IF k \in S THEN months[k] ELSE 0)
  <1>3. ASSUME NEW S
        PROVE  \E f : Sums(f, S) /\ MonthsIn(contexts, S) = f[n]
      <2>1. PICK f : SumsUpTo(f, contexts, S, n) /\ MonthsIn(contexts, S) = f[n]
          BY <1>1, MonthsAreSummed
      <2>2. \A k \in 0 .. n : f[k] = SumStep(f, contexts, S, k)
          BY <2>1 DEF SumsUpTo
      <2>3. f[0] = 0
          BY <1>1, <2>2 DEF SumStep
      <2>4. ASSUME NEW k \in 1 .. n PROVE f[k] = f[k - 1] + (IF k \in S THEN months[k] ELSE 0)
          <3>1. k \in 0 .. n /\ k # 0
              OBVIOUS
          <3> QED
              BY <2>2, <3>1 DEF SumStep
      <2>5. Sums(f, S)
          BY <2>3, <2>4
      <2> QED
          BY <2>1, <2>5
  <1>4. \A k \in 1 .. n : months[k] \in Nat /\ months[k] = contexts[k].horizon
      BY <1>2
  <1> HIDE DEF months, n
  <1>5. ASSUME NEW S, NEW f, Sums(f, S) PROVE \A k \in 0 .. n : f[k] \in Nat
      <2> DEFINE T == {k \in 0 .. n : f[k] \in Nat}
      <2>1. 0 \in T
          BY <1>1, <1>5
      <2>2. ASSUME NEW k \in 1 .. n, k - 1 \in T PROVE k \in T
          BY <1>1, <1>4, <1>5, <2>2
      <2>3. \A k \in 0 .. n : k \in T
          <3> HIDE DEF T
          <3> QED
              BY <1>1, <2>1, <2>2, Climb
      <2> QED
          BY <2>3
  <1>6. 0 \in 0 .. n /\ n \in 0 .. n
      BY <1>1
  <1>7. \A S : MonthsIn(contexts, S) \in Nat
      <2> SUFFICES ASSUME NEW S PROVE MonthsIn(contexts, S) \in Nat
          OBVIOUS
      <2>1. PICK f : Sums(f, S) /\ MonthsIn(contexts, S) = f[n]
          BY <1>3
      <2>2. \A k \in 0 .. n : f[k] \in Nat
          BY <1>5, <2>1
      <2> QED
          BY <1>6, <2>1, <2>2
  <1>8. MonthsIn(contexts, {}) = 0
      <2>1. PICK f : Sums(f, {}) /\ MonthsIn(contexts, {}) = f[n]
          BY <1>3
      <2> DEFINE T == {k \in 0 .. n : f[k] = 0}
      <2>2. 0 \in T
          BY <1>6, <2>1
      <2>3. ASSUME NEW k \in 1 .. n, k - 1 \in T PROVE k \in T
          BY <1>1, <2>1, <2>3
      <2>4. \A k \in 0 .. n : k \in T
          <3> HIDE DEF T
          <3> QED
              BY <1>1, <2>2, <2>3, Climb
      <2> QED
          BY <1>6, <2>1, <2>4
  <1>9. ASSUME NEW S, NEW R, S \subseteq R PROVE MonthsIn(contexts, S) <= MonthsIn(contexts, R)
      <2>1. PICK f : Sums(f, S) /\ MonthsIn(contexts, S) = f[n]
          BY <1>3
      <2>2. PICK g : Sums(g, R) /\ MonthsIn(contexts, R) = g[n]
          BY <1>3
      <2>3. \A k \in 0 .. n : f[k] \in Nat /\ g[k] \in Nat
          BY <1>5, <2>1, <2>2
      <2> DEFINE T == {k \in 0 .. n : f[k] <= g[k]}
      <2>4. 0 \in T
          BY <1>6, <2>1, <2>2
      <2>5. ASSUME NEW k \in 1 .. n, k - 1 \in T PROVE k \in T
          <3>1. k \in 0 .. n /\ k - 1 \in 0 .. n
              BY <1>1
          <3>2. f[k - 1] \in Nat /\ g[k - 1] \in Nat /\ f[k - 1] <= g[k - 1]
              BY <2>3, <2>5, <3>1
          <3>3. /\ f[k] = f[k - 1] + (IF k \in S THEN months[k] ELSE 0)
                /\ g[k] = g[k - 1] + (IF k \in R THEN months[k] ELSE 0)
                /\ months[k] \in Nat
              BY <1>4, <2>1, <2>2
          <3> QED
              BY <1>9, <3>1, <3>2, <3>3
      <2>6. \A k \in 0 .. n : k \in T
          <3> HIDE DEF T
          <3> QED
              BY <1>1, <2>4, <2>5, Climb
      <2> QED
          BY <1>6, <2>1, <2>2, <2>6
  <1>10. ASSUME NEW S, NEW x \in 1 .. n, x \notin S
         PROVE  MonthsIn(contexts, S \union {x}) = MonthsIn(contexts, S) + months[x]
      <2>1. PICK f : Sums(f, S) /\ MonthsIn(contexts, S) = f[n]
          BY <1>3
      <2>2. PICK g : Sums(g, S \union {x}) /\ MonthsIn(contexts, S \union {x}) = g[n]
          BY <1>3
      <2>3. \A k \in 0 .. n : f[k] \in Nat /\ g[k] \in Nat
          BY <1>5, <2>1, <2>2
      <2> DEFINE T == {k \in 0 .. n : g[k] = f[k] + (IF x <= k THEN months[x] ELSE 0)}
      <2>4. 0 \in T
          BY <1>1, <1>6, <2>1, <2>2
      <2>5. ASSUME NEW k \in 1 .. n, k - 1 \in T PROVE k \in T
          <3>1. k \in 0 .. n /\ k - 1 \in 0 .. n /\ k \in Int /\ x \in Int
              BY <1>1
          <3>2. /\ f[k - 1] \in Nat /\ g[k - 1] \in Nat
                /\ g[k - 1] = f[k - 1] + (IF x <= k - 1 THEN months[x] ELSE 0)
              BY <2>3, <2>5, <3>1
          <3>3. /\ f[k] = f[k - 1] + (IF k \in S THEN months[k] ELSE 0)
                /\ g[k] = g[k - 1] + (IF k \in S \union {x} THEN months[k] ELSE 0)
                /\ months[k] \in Nat /\ months[x] \in Nat
              BY <1>4, <2>1, <2>2
          <3> QED
              BY <1>10, <3>1, <3>2, <3>3
      <2>6. \A k \in 0 .. n : k \in T
          <3> HIDE DEF T
          <3> QED
              BY <1>1, <2>4, <2>5, Climb
      <2>7. x <= n
          BY <1>1
      <2> QED
          BY <1>6, <2>1, <2>2, <2>6, <2>7
  <1> QED
      BY <1>1, <1>4, <1>7, <1>8, <1>9, <1>10

----------------------------------------------------------------------------
(* The groups partition the contexts seen so far, and the report counts the *)
(* contexts answered so far.                                               *)

\* The contexts the grouping loop has put into a group.
Seen == {i \in GroupedIndices : pc = "grouping" => i < position}

\* Each context seen is in a group, which holds the contexts of its key and
\* shares none with another group.
PartitionInv ==
    /\ \A i \in Seen : \E g \in DOMAIN groups : i \in groups[g]
    /\ \A g \in DOMAIN groups : \A i \in groups[g] :
            i \in Seen /\ groups[g] = {j \in Seen : SameKey(definition[i], definition[j])}
    /\ \A g, h \in DOMAIN groups : groups[g] \cap groups[h] # {} => g = h

\* Groups are evaluated after all are formed, and all of them are.
OrderInv ==
    /\ pc = "grouping" => group = 0
    /\ pc \in {"assembly", "done"} => group = Len(groups)

\* A context of a group, other than its longest, that the sibling loop is past.
IsPastSibling(i, g) ==
    /\ i \in groups[g]
    /\ ~IsLongest(i, groups[g])
    /\ \/ g < group
       \/ pc = "siblings" => i < position

\* A group whose longest context a context can be derived from.
IsDerived(i, members) ==
    \E l \in members : IsLongest(l, members) /\ IsPrefix(definition[i], definition[l])

LongestSoFar ==
    {i \in DOMAIN definition : \E g \in 1 .. group : i \in groups[g] /\ IsLongest(i, groups[g])}

DerivedSoFar ==
    {i \in DOMAIN definition : \E g \in 1 .. group : IsPastSibling(i, g) /\ IsDerived(i, groups[g])}

DelegatedSoFar ==
    {i \in DOMAIN definition \ GroupedIndices :
        pc = "done" \/ (pc = "assembly" /\ i < position)}

IndependentSoFar ==
    {i \in DOMAIN definition :
        \E g \in 1 .. group : IsPastSibling(i, g) /\ ~IsDerived(i, groups[g])}
    \union DelegatedSoFar

\* The report of some longest, derived and independent contexts.
ReportOn(contexts, longest, derived, independent) ==
    [longest |-> Cardinality(longest), derived |-> Cardinality(derived),
     independent |-> Cardinality(independent),
     month_work |-> MonthsIn(contexts, longest \union independent)]

CountersInv ==
    pc # "raised" =>
        /\ report = ReportOn(definition, LongestSoFar, DerivedSoFar, IndependentSoFar)
        /\ \A i \in LongestSoFar \union DerivedSoFar \union IndependentSoFar : Answered(i)

ReportInv == PartitionInv /\ OrderInv /\ CountersInv

\* What the proofs use of a definition and the groups found in it.
LEMMA Shape ==
    ASSUME Inv
    PROVE  /\ definition \in Seq(ContextType)
           /\ Len(definition) \in Nat /\ DOMAIN definition = 1 .. Len(definition)
           /\ position \in 1 .. Len(definition)
           /\ Len(groups) \in Nat /\ DOMAIN groups = 1 .. Len(groups)
           /\ group \in 0 .. Len(groups) /\ 1 .. group \subseteq DOMAIN groups
           /\ \A i \in DOMAIN definition : definition[i].horizon \in Nat
           /\ \A g \in DOMAIN groups : groups[g] \subseteq DOMAIN definition
  <1>1. definition \in Seq(ContextType)
      BY DefinitionsAssumption DEF Inv, TypeOK
  <1>2. Len(definition) \in Nat /\ DOMAIN definition = 1 .. Len(definition)
      BY <1>1
  <1>3. groups \in Seq(SUBSET (DOMAIN definition)) /\ group \in 0 .. Len(groups)
      BY DEF Inv, TypeOK
  <1>4. Len(groups) \in Nat /\ DOMAIN groups = 1 .. Len(groups)
      BY <1>3, LenProperties
  <1>5. 1 .. group \subseteq DOMAIN groups
      BY <1>3, <1>4
  <1>6. \A i \in DOMAIN definition : definition[i].horizon \in Nat
      BY ContextTyped DEF Inv, ContextType
  <1>7. \A g \in DOMAIN groups : groups[g] \subseteq DOMAIN definition
      BY DEF Inv, GroupsInv, WellFormed
  <1> QED
      BY <1>1, <1>2, <1>3, <1>4, <1>5, <1>6, <1>7 DEF Inv, TypeOK

\* A group has one longest context.
LEMMA OneLongest ==
    ASSUME Inv, NEW members, WellFormed(members)
    PROVE  /\ LongestOf(members) \in members
           /\ \A i \in members : IsLongest(i, members) <=> i = LongestOf(members)
  <1> DEFINE l == LongestOf(members)
  <1>1. l \in members /\ IsLongest(l, members)
      BY LongestMember
  <1>2. \A i \in members : i \in Nat /\ definition[i].horizon \in Nat
      <2>1. members \subseteq DOMAIN definition
          BY DEF WellFormed
      <2> QED
          BY <2>1, Shape
  <1> HIDE DEF l
  <1>3. ASSUME NEW i \in members, IsLongest(i, members) PROVE i = l
      <2>1. /\ \/ definition[l].horizon < definition[i].horizon
               \/ definition[l].horizon = definition[i].horizon /\ i <= l
            /\ \/ definition[i].horizon < definition[l].horizon
               \/ definition[i].horizon = definition[l].horizon /\ l <= i
          BY <1>1, <1>3 DEF IsLongest
      <2>2. definition[l].horizon \in Nat /\ definition[i].horizon \in Nat /\ l \in Nat /\ i \in Nat
          BY <1>1, <1>2, <1>3
      <2> QED
          BY <2>1, <2>2
  <1> QED
      BY <1>1, <1>3 DEF l

\* A context is derived from the longest of its group.
LEMMA DerivedFromLongest ==
    ASSUME Inv, NEW members, WellFormed(members), NEW i
    PROVE  IsDerived(i, members) <=> IsPrefix(definition[i], definition[LongestOf(members)])
  BY OneLongest DEF IsDerived

\* The counters are of finite sets of contexts.
LEMMA CountedContexts ==
    ASSUME Inv
    PROVE  /\ LongestSoFar \in SUBSET (DOMAIN definition)
           /\ DerivedSoFar \in SUBSET (DOMAIN definition)
           /\ IndependentSoFar \in SUBSET (DOMAIN definition)
           /\ \A S \in SUBSET (DOMAIN definition) : IsFiniteSet(S) /\ Cardinality(S) \in Nat
  <1>1. IsFiniteSet(DOMAIN definition)
      BY Shape, FS_Interval
  <1>2. \A S \in SUBSET (DOMAIN definition) : IsFiniteSet(S) /\ Cardinality(S) \in Nat
      BY <1>1, FS_Subset, FS_CardinalityType
  <1> QED
      BY <1>2 DEF LongestSoFar, DerivedSoFar, IndependentSoFar, DelegatedSoFar

\* Counting a context raises one counter, and the months by its own.
LEMMA Counted ==
    ASSUME NEW l, NEW d, NEW i, NEW m, NEW n,
           report = [longest |-> l, derived |-> d, independent |-> i, month_work |-> m]
    PROVE  /\ Count("longest", n) =
                [longest |-> l + 1, derived |-> d, independent |-> i, month_work |-> m + n]
           /\ Count("derived", n) =
                [longest |-> l, derived |-> d + 1, independent |-> i, month_work |-> m + n]
           /\ Count("independent", n) =
                [longest |-> l, derived |-> d, independent |-> i + 1, month_work |-> m + n]
  <1>1. Count("longest", n) = [longest |-> l + 1, derived |-> d, independent |-> i, month_work |-> m + n]
      <2> DEFINE once == [report EXCEPT !["longest"] = report["longest"] + 1]
      <2>1. once = [longest |-> l + 1, derived |-> d, independent |-> i, month_work |-> m]
          OBVIOUS
      <2>2. Count("longest", n) = [once EXCEPT !.month_work = report.month_work + n]
          BY DEF Count
      <2> HIDE DEF once
      <2> QED
          BY <2>1, <2>2
  <1>2. Count("derived", n) = [longest |-> l, derived |-> d + 1, independent |-> i, month_work |-> m + n]
      <2> DEFINE once == [report EXCEPT !["derived"] = report["derived"] + 1]
      <2>1. once = [longest |-> l, derived |-> d + 1, independent |-> i, month_work |-> m]
          OBVIOUS
      <2>2. Count("derived", n) = [once EXCEPT !.month_work = report.month_work + n]
          BY DEF Count
      <2> HIDE DEF once
      <2> QED
          BY <2>1, <2>2
  <1>3. Count("independent", n) = [longest |-> l, derived |-> d, independent |-> i + 1, month_work |-> m + n]
      <2> DEFINE once == [report EXCEPT !["independent"] = report["independent"] + 1]
      <2>1. once = [longest |-> l, derived |-> d, independent |-> i + 1, month_work |-> m]
          OBVIOUS
      <2>2. Count("independent", n) = [once EXCEPT !.month_work = report.month_work + n]
          BY DEF Count
      <2> HIDE DEF once
      <2> QED
          BY <2>1, <2>2
  <1> QED
      BY <1>1, <1>2, <1>3

\* One more context counted is one more context reported.
LEMMA ContextCounted ==
    ASSUME Inv, CountersInv, pc # "raised", NEW x \in DOMAIN definition
    PROVE  /\ x \notin LongestSoFar \union IndependentSoFar =>
                Count("longest", definition[x].horizon)
                    = ReportOn(definition, LongestSoFar \union {x}, DerivedSoFar, IndependentSoFar)
           /\ x \notin DerivedSoFar =>
                Count("derived", 0)
                    = ReportOn(definition, LongestSoFar, DerivedSoFar \union {x}, IndependentSoFar)
           /\ x \notin LongestSoFar \union IndependentSoFar =>
                Count("independent", definition[x].horizon)
                    = ReportOn(definition, LongestSoFar, DerivedSoFar, IndependentSoFar \union {x})
  <1> DEFINE L == LongestSoFar
             D == DerivedSoFar
             I == IndependentSoFar
             h == definition[x].horizon
             l == Cardinality(L)
             d == Cardinality(D)
             i == Cardinality(I)
             m == MonthsIn(definition, L \union I)
  <1>1. /\ L \in SUBSET (DOMAIN definition)
        /\ D \in SUBSET (DOMAIN definition)
        /\ I \in SUBSET (DOMAIN definition)
      BY CountedContexts
  <1>2. report = ReportOn(definition, L, D, I)
      BY DEF CountersInv
  <1> HIDE DEF L, D, I
  <1>3. \A S \in SUBSET (DOMAIN definition) : IsFiniteSet(S) /\ Cardinality(S) \in Nat
      BY CountedContexts
  <1>4. \A S \in SUBSET (DOMAIN definition) :
            x \notin S => Cardinality(S \union {x}) = Cardinality(S) + 1
      BY <1>3, FS_AddElement
  <1>5. x \notin L \union I => MonthsIn(definition, (L \union I) \union {x}) = m + h
      BY Shape, MonthsAddUp
  <1>6. /\ (L \union {x}) \union I = (L \union I) \union {x}
        /\ L \union (I \union {x}) = (L \union I) \union {x}
      OBVIOUS
  <1>7. m \in Nat
      BY Shape, MonthsAddUp
  <1>8. report = [longest |-> l, derived |-> d, independent |-> i, month_work |-> m]
      BY <1>2 DEF ReportOn
  <1>9. /\ Count("longest", h) =
              [longest |-> l + 1, derived |-> d, independent |-> i, month_work |-> m + h]
        /\ Count("derived", 0) =
              [longest |-> l, derived |-> d + 1, independent |-> i, month_work |-> m]
        /\ Count("independent", h) =
              [longest |-> l, derived |-> d, independent |-> i + 1, month_work |-> m + h]
      <2>1. m + 0 = m
          BY <1>7
      <2> HIDE DEF h, l, d, i, m
      <2> QED
          BY <1>8, <2>1, Counted
  <1>10. ASSUME x \notin L \union I
        PROVE  /\ Cardinality(L \union {x}) = l + 1
               /\ Cardinality(I \union {x}) = i + 1
               /\ MonthsIn(definition, (L \union {x}) \union I) = m + h
               /\ MonthsIn(definition, L \union (I \union {x})) = m + h
      BY <1>1, <1>4, <1>5, <1>6, <1>10
  <1>11. x \notin D => Cardinality(D \union {x}) = d + 1
      BY <1>1, <1>4
  <1> QED
      BY <1>9, <1>10, <1>11 DEF ReportOn, L, D, I

\* Without new groups the partition stays as it is.
LEMMA SamePartition ==
    ASSUME PartitionInv, UNCHANGED <<executor, definition, groups>>, Seen' = Seen
    PROVE  PartitionInv'
  BY DEF PartitionInv, SameKey

\* A step of the grouping loop sees one more context, if it is one to group.
LEMMA SeesOneMore ==
    ASSUME Inv, GroupContext
    PROVE  /\ position \notin Seen
           /\ Grouped(definition[position]) => Seen' = Seen \union {position}
           /\ ~Grouped(definition[position]) => Seen' = Seen
  <1>1. /\ pc = "grouping" /\ NextPosition("evaluation")
        /\ UNCHANGED <<executor, definition>>
      BY DEF GroupContext
  <1>2. position \in Nat /\ \A i \in GroupedIndices : i \in Nat /\ i <= Len(definition)
      BY Shape DEF GroupedIndices
  <1>3. GroupedIndices' = GroupedIndices
      BY <1>1 DEF GroupedIndices, Grouped
  <1>4. Seen = {i \in GroupedIndices : i < position}
      BY <1>1 DEF Seen
  <1>5. Seen' = {i \in GroupedIndices : i <= position}
      <2>1. CASE position < Len(definition)
          <3>1. pc' = "grouping" /\ position' = position + 1
              BY <1>1, <2>1 DEF NextPosition
          <3>2. \A i \in GroupedIndices : i < position + 1 <=> i <= position
              BY <1>2
          <3> QED
              BY <1>3, <3>1, <3>2 DEF Seen
      <2>2. CASE ~(position < Len(definition))
          <3>1. pc' = "evaluation"
              BY <1>1, <2>2 DEF NextPosition
          <3>2. \A i \in GroupedIndices : i <= position
              BY <1>2, <2>2, Shape
          <3> QED
              BY <1>3, <3>1, <3>2 DEF Seen
      <2> QED
          BY <2>1, <2>2
  <1>6. position \in GroupedIndices <=> Grouped(definition[position])
      BY Shape DEF GroupedIndices
  <1>7. \A i \in GroupedIndices : i <= position <=> (i < position \/ i = position)
      BY <1>2
  <1>8. ~(position < position)
      BY <1>2
  <1> QED
      BY <1>4, <1>5, <1>6, <1>7, <1>8

\* A context that joins its group, or opens one, leaves a partition.
LEMMA PartitionGrows ==
    ASSUME Inv, PartitionInv, GroupContext
    PROVE  PartitionInv'
  <1> DEFINE c == definition[position]
  <1>1. UNCHANGED <<executor, definition>>
      BY DEF GroupContext
  <1>2. CASE ~Grouped(c)
      <2>1. groups' = groups /\ Seen' = Seen
          BY <1>2, SeesOneMore DEF GroupContext
      <2> QED
          BY <1>1, <2>1, SamePartition
  <1>3. ASSUME Grouped(c) PROVE PartitionInv'
      <2>1. Seen' = Seen \union {position} /\ position \notin Seen
          BY <1>3, SeesOneMore
      <2>2. \A g \in DOMAIN groups : \A i \in groups[g] : i \in Seen
          BY DEF PartitionInv
      <2>3. \A g \in DOMAIN groups : position \notin groups[g]
          BY <2>1, <2>2
      <2>4. CASE Matching(c) = {}
          <3>1. groups' = Append(groups, {position})
              BY <1>3, <2>4 DEF GroupContext
          <3>2. /\ DOMAIN groups = 1 .. Len(groups) /\ Len(groups) \in Nat
                /\ DOMAIN groups' = 1 .. (Len(groups) + 1)
                /\ \A g \in DOMAIN groups : groups'[g] = groups[g]
                /\ groups'[Len(groups) + 1] = {position}
              <4>1. groups \in Seq(SUBSET (DOMAIN definition))
                  BY DEF Inv, TypeOK
              <4> QED
                  BY <3>1, <4>1
          <3>3. \A i \in Seen : definition[i].family # c.family
              BY <2>4 DEF PartitionInv, Matching, SameKey
          <3>4. ASSUME NEW i \in Seen' PROVE \E g \in DOMAIN groups' : i \in groups'[g]
              <4>1. CASE i = position
                  BY <3>2, <4>1
              <4>2. CASE i # position
                  <5>1. PICK g \in DOMAIN groups : i \in groups[g]
                      BY <2>1, <4>2 DEF PartitionInv
                  <5>2. g \in DOMAIN groups' /\ groups'[g] = groups[g]
                      BY <3>2
                  <5> QED
                      BY <5>1, <5>2
              <4> QED
                  BY <4>1, <4>2
          <3>5. ASSUME NEW g \in DOMAIN groups', NEW i \in groups'[g]
                PROVE  /\ i \in Seen'
                       /\ groups'[g] = {j \in Seen' : definition[i].family = definition[j].family}
              <4>1. CASE g = Len(groups) + 1
                  BY <2>1, <3>2, <3>3, <4>1
              <4>2. CASE g # Len(groups) + 1
                  <5>1. g \in DOMAIN groups /\ groups'[g] = groups[g]
                      BY <3>2, <4>2
                  <5>2. i \in Seen
                        /\ groups[g] = {j \in Seen : definition[i].family = definition[j].family}
                      BY <3>5, <5>1 DEF PartitionInv, SameKey
                  <5> QED
                      BY <2>1, <3>3, <5>1, <5>2
              <4> QED
                  BY <4>1, <4>2
          <3>6. ASSUME NEW g \in DOMAIN groups', NEW h \in DOMAIN groups',
                       groups'[g] \cap groups'[h] # {}
                PROVE  g = h
              <4>1. \A k \in DOMAIN groups' : k \in DOMAIN groups \/ k = Len(groups) + 1
                  BY <3>2
              <4> QED
                  BY <2>3, <3>2, <3>6, <4>1 DEF PartitionInv
          <3> QED
              BY <1>1, <3>4, <3>5, <3>6 DEF PartitionInv, SameKey
      <2>5. CASE Matching(c) # {}
          <3>1. groups' =
                   [g \in DOMAIN groups |->
                       IF g \in Matching(c) THEN groups[g] \union {position} ELSE groups[g]]
              BY <1>3, <2>5 DEF GroupContext
          <3>2. \A g \in DOMAIN groups :
                    groups'[g] = IF g \in Matching(c) THEN groups[g] \union {position}
                                 ELSE groups[g]
              BY <3>1
          <3>3. DOMAIN groups' = DOMAIN groups
              BY <3>1
          <3>4. \A g \in DOMAIN groups : \A i \in groups[g] :
                    g \in Matching(c) <=> definition[i].family = c.family
              BY DEF PartitionInv, Matching, SameKey
          <3>5. \A g, h \in Matching(c) : g = h
              <4> SUFFICES ASSUME NEW g \in Matching(c), NEW h \in Matching(c) PROVE g = h
                  OBVIOUS
              <4>1. PICK i \in groups[g] : definition[i].family = c.family
                  BY DEF Matching, SameKey
              <4>2. PICK j \in groups[h] : definition[j].family = c.family
                  BY DEF Matching, SameKey
              <4>3. j \in groups[g]
                  BY <4>1, <4>2 DEF PartitionInv, SameKey, Matching
              <4> QED
                  BY <4>2, <4>3 DEF PartitionInv, Matching
          <3>6. ASSUME NEW i \in Seen' PROVE \E g \in DOMAIN groups' : i \in groups'[g]
              <4>1. CASE i = position
                  <5>1. PICK g \in Matching(c) : TRUE
                      BY <2>5
                  <5>2. g \in DOMAIN groups
                      BY DEF Matching
                  <5> QED
                      BY <3>2, <3>3, <4>1, <5>1, <5>2
              <4>2. CASE i # position
                  <5>1. PICK g \in DOMAIN groups : i \in groups[g]
                      BY <2>1, <4>2 DEF PartitionInv
                  <5> QED
                      BY <3>2, <3>3, <5>1
              <4> QED
                  BY <4>1, <4>2
          <3>7. ASSUME NEW g \in DOMAIN groups', NEW i \in groups'[g]
                PROVE  /\ i \in Seen'
                       /\ groups'[g] = {j \in Seen' : definition[i].family = definition[j].family}
              <4>1. g \in DOMAIN groups
                  BY <3>3
              <4>2. CASE g \in Matching(c)
                  <5>1. PICK k \in groups[g] : definition[k].family = c.family
                      BY <4>2 DEF Matching, SameKey
                  <5>2. groups[g] = {j \in Seen : definition[k].family = definition[j].family}
                      BY <4>1, <5>1 DEF PartitionInv, SameKey
                  <5>3. groups'[g] = groups[g] \union {position}
                      BY <3>2, <4>1, <4>2
                  <5>4. definition[i].family = c.family /\ i \in Seen'
                      BY <2>1, <3>7, <5>1, <5>2, <5>3
                  <5> QED
                      BY <2>1, <5>1, <5>2, <5>3, <5>4
              <4>3. CASE g \notin Matching(c)
                  <5>1. groups'[g] = groups[g]
                      BY <3>2, <4>1, <4>3
                  <5>2. i \in Seen
                        /\ groups[g] = {j \in Seen : definition[i].family = definition[j].family}
                      BY <3>7, <4>1, <5>1 DEF PartitionInv, SameKey
                  <5>3. definition[i].family # c.family
                      BY <3>4, <3>7, <4>1, <4>3, <5>1
                  <5> QED
                      BY <2>1, <5>1, <5>2, <5>3
              <4> QED
                  BY <4>2, <4>3
          <3>8. ASSUME NEW g \in DOMAIN groups', NEW h \in DOMAIN groups',
                       groups'[g] \cap groups'[h] # {}
                PROVE  g = h
              <4>1. PICK i : i \in groups'[g] /\ i \in groups'[h]
                  BY <3>8
              <4>2. CASE i = position
                  BY <2>3, <3>2, <3>3, <3>5, <4>1, <4>2
              <4>3. CASE i # position
                  <5>1. i \in groups[g] /\ i \in groups[h]
                      BY <3>2, <3>3, <4>1, <4>3
                  <5> QED
                      BY <3>3, <5>1 DEF PartitionInv
              <4> QED
                  BY <4>2, <4>3
          <3> QED
              BY <1>1, <3>6, <3>7, <3>8 DEF PartitionInv, SameKey
      <2> QED
          BY <2>4, <2>5
  <1> QED
      BY <1>2, <1>3

\* Before a group is evaluated nothing is counted.
LEMMA NothingCounted ==
    ASSUME pc \in {"grouping", "evaluation"}, group = 0
    PROVE  LongestSoFar = {} /\ DerivedSoFar = {} /\ IndependentSoFar = {}
  <1>1. 1 .. group = {}
      OBVIOUS
  <1> QED
      BY <1>1 DEF LongestSoFar, DerivedSoFar, IndependentSoFar, DelegatedSoFar

\* Where no context is answered for, and none is counted, the counts stay right.
LEMMA SameCounts ==
    ASSUME CountersInv, pc # "raised", UNCHANGED <<definition, results, report>>,
           LongestSoFar' = LongestSoFar, DerivedSoFar' = DerivedSoFar,
           IndependentSoFar' = IndependentSoFar
    PROVE  CountersInv'
  <1>1. /\ report = ReportOn(definition, LongestSoFar, DerivedSoFar, IndependentSoFar)
        /\ \A i \in LongestSoFar \union DerivedSoFar \union IndependentSoFar : Answered(i)
      BY DEF CountersInv
  <1>2. report' = ReportOn(definition', LongestSoFar', DerivedSoFar', IndependentSoFar')
      BY <1>1
  <1>3. \A i \in LongestSoFar' \union DerivedSoFar' \union IndependentSoFar' : results'[i] # NoResult
      BY <1>1 DEF Answered
  <1> QED
      BY <1>2, <1>3 DEF CountersInv, Answered

\* Where one context is answered for, the counts stay right if it is the one that
\* is counted.
LEMMA AnswerCounted ==
    ASSUME Inv, CountersInv, pc # "raised", UNCHANGED definition,
           NEW x \in DOMAIN definition, NEW r \in ResultType,
           results' = [results EXCEPT ![x] = r],
           report' = ReportOn(definition, LongestSoFar', DerivedSoFar', IndependentSoFar'),
           LongestSoFar' \union DerivedSoFar' \union IndependentSoFar'
                \subseteq LongestSoFar \union DerivedSoFar \union IndependentSoFar \union {x}
    PROVE  CountersInv'
  <1>1. \A i \in LongestSoFar \union DerivedSoFar \union IndependentSoFar : results[i] # NoResult
      BY DEF CountersInv, Answered
  <1>2. \A i : results'[i] = IF i = x THEN r ELSE results[i]
      <2>1. results \in [DOMAIN definition -> ResultType \union {NoResult}]
          BY DEF Inv, TypeOK
      <2>2. \A i \in DOMAIN definition : results'[i] = IF i = x THEN r ELSE results[i]
          BY <2>1
      <2> QED
          BY <2>1, <2>2
  <1>3. r # NoResult
      BY DEF ResultType, NoResult, None
  <1>4. \A i \in LongestSoFar' \union DerivedSoFar' \union IndependentSoFar' : results'[i] # NoResult
      BY <1>1, <1>2, <1>3
  <1>5. report' = ReportOn(definition', LongestSoFar', DerivedSoFar', IndependentSoFar')
      OBVIOUS
  <1> QED
      BY <1>4, <1>5 DEF CountersInv, Answered

\* The answer an executor gives to a context it evaluates is a result.
LEMMA OwnAnswerTyped ==
    ASSUME Inv, NEW i \in DOMAIN definition
    PROVE  (IF executor = "fast" THEN DeriveFast(definition[i], definition[i])
            ELSE ApplyTarget(Direct(definition[i]), definition[i])) \in ResultType
  <1>1. definition[i] \in ContextType
      BY ContextTyped DEF Inv
  <1>2. definition[i].horizon \in Nat \ {0}
      BY <1>1 DEF ContextType
  <1> QED
      BY <1>1, <1>2, DirectTyped, ApplyTargetTyped, OutcomeTyped, TrajectoryTyped DEF DeriveFast

\* The longest context of the next group joins those counted.
LEMMA LongestCounted ==
    ASSUME Inv, ReportInv, pc = "evaluation", group < Len(groups),
           NEW x, x = LongestOf(groups[group + 1]),
           UNCHANGED <<executor, definition, groups>>,
           group' = group + 1, pc' = "siblings", position' = 1
    PROVE  /\ x \in DOMAIN definition
           /\ x \notin LongestSoFar \union IndependentSoFar
           /\ LongestSoFar' = LongestSoFar \union {x}
           /\ DerivedSoFar' = DerivedSoFar
           /\ IndependentSoFar' = IndependentSoFar
  <1> DEFINE n == group + 1
  <1>1. n \in DOMAIN groups /\ group \in Nat /\ x \in DOMAIN definition /\ 1 .. n = 1 .. group \union {n}
      BY NextGroup, Shape
  <1>2. WellFormed(groups[n])
      BY <1>1 DEF Inv, GroupsInv
  <1>3. x \in groups[n] /\ \A i \in groups[n] : IsLongest(i, groups[n]) <=> i = x
      BY <1>2, OneLongest
  <1>4. \A g \in 1 .. group : g # n /\ g < n /\ g \in DOMAIN groups
      BY <1>1, Shape
  <1>5. \A g \in 1 .. group : x \notin groups[g]
      BY <1>1, <1>3, <1>4 DEF ReportInv, PartitionInv
  <1>6. x \in GroupedIndices
      BY <1>1, <1>3 DEF ReportInv, PartitionInv, Seen
  <1>7. x \notin LongestSoFar \union IndependentSoFar
      BY <1>5, <1>6 DEF LongestSoFar, IndependentSoFar, DelegatedSoFar, IsPastSibling
  <1>8. \A i \in DOMAIN definition : ~(i < 1)
      BY Shape
  <1>9. LongestSoFar' =
            {i \in DOMAIN definition : \E g \in 1 .. n : i \in groups[g] /\ IsLongest(i, groups[g])}
      BY DEF LongestSoFar, IsLongest
  <1>10. LongestSoFar' = LongestSoFar \union {x}
      BY <1>1, <1>3, <1>9 DEF LongestSoFar
  <1>11. \A i \in DOMAIN definition : \A g \in 1 .. n :
            IsPastSibling(i, g)' <=> g \in 1 .. group /\ IsPastSibling(i, g)
      <2> SUFFICES ASSUME NEW i \in DOMAIN definition, NEW g \in 1 .. n
                   PROVE  IsPastSibling(i, g)' <=> g \in 1 .. group /\ IsPastSibling(i, g)
          OBVIOUS
      <2>1. g \in 1 .. group => g < n
          BY <1>4
      <2>2. g \notin 1 .. group => ~(g < n)
          BY <1>1
      <2> QED
          BY <1>8, <2>1, <2>2 DEF IsPastSibling, IsLongest
  <1>12. DerivedSoFar' = DerivedSoFar
      BY <1>1, <1>11 DEF DerivedSoFar, IsDerived, IsLongest, IsPrefix
  <1>13. DelegatedSoFar' = {} /\ DelegatedSoFar = {}
      BY DEF DelegatedSoFar
  <1>14. IndependentSoFar' = IndependentSoFar
      BY <1>1, <1>11, <1>13 DEF IndependentSoFar, IsDerived, IsLongest, IsPrefix
  <1> QED
      BY <1>1, <1>7, <1>10, <1>12, <1>14

\* A step of the sibling loop counts the context it is at, if that is a context of
\* the group other than its longest.
LEMMA SiblingCounted ==
    ASSUME Inv, ReportInv, pc = "siblings", NextPosition("evaluation"),
           UNCHANGED <<executor, definition, groups, group>>
    PROVE  LET members == groups[group]
               sibling == position \in members /\ position # LongestOf(members)
               prefix == IsPrefix(definition[position], definition[LongestOf(members)])
           IN  /\ sibling => position \notin LongestSoFar \union DerivedSoFar \union IndependentSoFar
               /\ LongestSoFar' = LongestSoFar
               /\ DerivedSoFar' =
                    IF sibling /\ prefix THEN DerivedSoFar \union {position} ELSE DerivedSoFar
               /\ IndependentSoFar' =
                    IF sibling /\ ~prefix THEN IndependentSoFar \union {position}
                    ELSE IndependentSoFar
  <1> DEFINE members == groups[group]
             sibling == position \in members /\ position # LongestOf(members)
             prefix == IsPrefix(definition[position], definition[LongestOf(members)])
  <1>1. group \in DOMAIN groups /\ group \in 1 .. group /\ group \in Nat
      <2>1. group \in DOMAIN groups
          BY DEF Inv, CursorInv
      <2> QED
          BY <2>1, Shape
  <1>2. WellFormed(members)
      BY <1>1 DEF Inv, GroupsInv
  <1>3. \A i \in members : IsLongest(i, members) <=> i = LongestOf(members)
      BY <1>2, OneLongest
  <1>4. \A i : IsDerived(i, members) <=> IsPrefix(definition[i], definition[LongestOf(members)])
      BY <1>2, DerivedFromLongest
  <1>5. /\ position \in DOMAIN definition /\ position \in Nat
        /\ \A i \in DOMAIN definition : i \in Nat /\ i <= Len(definition)
      BY Shape
  <1>6. \A g \in 1 .. group : g \in DOMAIN groups /\ g \in Nat /\ (g < group <=> g # group)
      BY <1>1, Shape
  <1>7. ASSUME sibling
        PROVE  \A g \in 1 .. group : position \in groups[g] => g = group
      BY <1>1, <1>6, <1>7 DEF ReportInv, PartitionInv
  <1>8. sibling => position \in GroupedIndices
      BY <1>1 DEF ReportInv, PartitionInv, Seen
  <1>9. ~(position < position)
      BY <1>5
  <1>10. ASSUME sibling
         PROVE  position \notin LongestSoFar \union DerivedSoFar \union IndependentSoFar
      <2>1. \A g \in 1 .. group : ~IsPastSibling(position, g)
          BY <1>7, <1>9, <1>10, <1>6 DEF IsPastSibling
      <2>2. \A g \in 1 .. group : ~(position \in groups[g] /\ IsLongest(position, groups[g]))
          BY <1>3, <1>7, <1>10
      <2> QED
          BY <1>8, <1>10, <2>1, <2>2 DEF LongestSoFar, DerivedSoFar, IndependentSoFar, DelegatedSoFar
  <1>11. LongestSoFar' = LongestSoFar
      BY DEF LongestSoFar, IsLongest
  <1>12. \A i \in DOMAIN definition :
            (pc' = "siblings" => i < position') <=> (i < position \/ i = position)
      <2>1. CASE position < Len(definition)
          BY <1>5, <2>1 DEF NextPosition
      <2>2. CASE ~(position < Len(definition))
          <3>1. pc' = "evaluation"
              BY <2>2 DEF NextPosition
          <3>2. \A i \in DOMAIN definition : i < position \/ i = position
              BY <1>5, <2>2, Shape
          <3> QED
              BY <3>1, <3>2
      <2> QED
          BY <2>1, <2>2
  <1>13. \A i \in DOMAIN definition : \A g \in 1 .. group :
            IsPastSibling(i, g)' <=> IsPastSibling(i, g) \/ (sibling /\ i = position /\ g = group)
      <2> SUFFICES ASSUME NEW i \in DOMAIN definition, NEW g \in 1 .. group
                   PROVE  IsPastSibling(i, g)'
                              <=> IsPastSibling(i, g) \/ (sibling /\ i = position /\ g = group)
          OBVIOUS
      <2>1. IsPastSibling(i, g) <=>
              i \in groups[g] /\ ~IsLongest(i, groups[g]) /\ (g < group \/ i < position)
          BY DEF IsPastSibling
      <2>2. IsPastSibling(i, g)' <=>
              /\ i \in groups[g] /\ ~IsLongest(i, groups[g])
              /\ g < group \/ i < position \/ i = position
          BY <1>12 DEF IsPastSibling, IsLongest
      <2> QED
          BY <1>3, <1>6, <2>1, <2>2
  <1>14. DerivedSoFar' =
            {i \in DOMAIN definition : \E g \in 1 .. group :
                /\ IsPastSibling(i, g) \/ (sibling /\ i = position /\ g = group)
                /\ IsDerived(i, groups[g])}
      <2>1. DerivedSoFar' =
              {i \in DOMAIN definition : \E g \in 1 .. group :
                  IsPastSibling(i, g)' /\ IsDerived(i, groups[g])}
          BY DEF DerivedSoFar, IsDerived, IsLongest, IsPrefix
      <2> HIDE DEF sibling
      <2> QED
          BY <1>13, <2>1
  <1>15. DelegatedSoFar = {} /\ DelegatedSoFar' = {}
      <2>1. pc' \in {"siblings", "evaluation"}
          BY DEF NextPosition
      <2> QED
          BY <2>1 DEF DelegatedSoFar
  <1>16. IndependentSoFar' =
            {i \in DOMAIN definition : \E g \in 1 .. group :
                /\ IsPastSibling(i, g) \/ (sibling /\ i = position /\ g = group)
                /\ ~IsDerived(i, groups[g])}
      <2>1. IndependentSoFar' =
              {i \in DOMAIN definition : \E g \in 1 .. group :
                  IsPastSibling(i, g)' /\ ~IsDerived(i, groups[g])}
          BY <1>15 DEF IndependentSoFar, IsDerived, IsLongest, IsPrefix
      <2> HIDE DEF sibling
      <2> QED
          BY <1>13, <2>1
  <1>17. prefix <=> IsDerived(position, members)
      BY <1>4
  <1> HIDE DEF prefix, sibling
  <1>18. DerivedSoFar' = IF sibling /\ prefix THEN DerivedSoFar \union {position} ELSE DerivedSoFar
      BY <1>1, <1>5, <1>14, <1>17 DEF DerivedSoFar
  <1>19. IndependentSoFar' =
            IF sibling /\ ~prefix THEN IndependentSoFar \union {position} ELSE IndependentSoFar
      BY <1>1, <1>5, <1>15, <1>16, <1>17 DEF IndependentSoFar
  <1> QED
      BY <1>10, <1>11, <1>18, <1>19 DEF sibling, prefix

\* A step of the last loop counts the context it is at, if the groups left it out.
LEMMA DelegatedCounted ==
    ASSUME Inv, ReportInv, pc = "assembly", NextPosition("done"),
           UNCHANGED <<executor, definition, groups, group>>
    PROVE  /\ ~Grouped(definition[position]) => position \notin LongestSoFar \union IndependentSoFar
           /\ LongestSoFar' = LongestSoFar
           /\ DerivedSoFar' = DerivedSoFar
           /\ IndependentSoFar' =
                IF Grouped(definition[position]) THEN IndependentSoFar
                ELSE IndependentSoFar \union {position}
  <1>1. /\ position \in DOMAIN definition /\ position \in Nat
        /\ \A i \in DOMAIN definition : i \in Nat /\ i <= Len(definition)
      BY Shape
  <1>2. pc' # "siblings"
      BY DEF NextPosition
  <1>3. LongestSoFar' = LongestSoFar
      BY DEF LongestSoFar, IsLongest
  <1>4. \A i \in DOMAIN definition : \A g \in 1 .. group : IsPastSibling(i, g)' <=> IsPastSibling(i, g)
      BY <1>2 DEF IsPastSibling, IsLongest
  <1>5. DerivedSoFar' = DerivedSoFar
      BY <1>4 DEF DerivedSoFar, IsDerived, IsLongest, IsPrefix
  <1>6. \A i \in DOMAIN definition :
            (pc' = "done" \/ (pc' = "assembly" /\ i < position')) <=> (i < position \/ i = position)
      <2>1. CASE position < Len(definition)
          BY <1>1, <2>1 DEF NextPosition
      <2>2. CASE ~(position < Len(definition))
          <3>1. pc' = "done"
              BY <2>2 DEF NextPosition
          <3>2. \A i \in DOMAIN definition : i < position \/ i = position
              BY <1>1, <2>2, Shape
          <3> QED
              BY <3>1, <3>2
      <2> QED
          BY <2>1, <2>2
  <1>7. GroupedIndices' = GroupedIndices
      BY DEF GroupedIndices, Grouped
  <1>8. DelegatedSoFar = {i \in DOMAIN definition \ GroupedIndices : i < position}
      BY DEF DelegatedSoFar
  <1>9. DelegatedSoFar' = {i \in DOMAIN definition \ GroupedIndices : i < position \/ i = position}
      BY <1>6, <1>7 DEF DelegatedSoFar
  <1>10. IndependentSoFar' =
            (IndependentSoFar \ DelegatedSoFar) \union DelegatedSoFar \union DelegatedSoFar'
      BY <1>4, <1>8, <1>9 DEF IndependentSoFar, IsDerived, IsLongest, IsPrefix
  <1>11. Grouped(definition[position]) <=> position \in GroupedIndices
      BY <1>1 DEF GroupedIndices
  <1>12. IndependentSoFar' =
            IF Grouped(definition[position]) THEN IndependentSoFar
            ELSE IndependentSoFar \union {position}
      <2>1. DelegatedSoFar \subseteq IndependentSoFar
          BY DEF IndependentSoFar
      <2> QED
          BY <1>1, <1>8, <1>9, <1>10, <1>11, <2>1
  <1>13. ASSUME ~Grouped(definition[position])
         PROVE  position \notin LongestSoFar \union IndependentSoFar
      <2>1. \A g \in 1 .. group : position \notin groups[g]
          BY <1>11, <1>13, Shape DEF ReportInv, PartitionInv, Seen
      <2>2. ~(position < position)
          BY <1>1
      <2> QED
          BY <1>8, <2>1, <2>2 DEF LongestSoFar, IndependentSoFar, IsPastSibling
  <1> QED
      BY <1>3, <1>5, <1>12, <1>13

\* Once the groups are formed they stay as they are, and so does the partition.
LEMMA GroupsFormed ==
    ASSUME ReportInv, pc # "grouping", pc' # "grouping",
           UNCHANGED <<executor, definition, groups>>
    PROVE  PartitionInv'
  <1>1. GroupedIndices' = GroupedIndices
      BY DEF GroupedIndices, Grouped
  <1>2. Seen' = Seen
      BY <1>1 DEF Seen
  <1> QED
      BY <1>2, SamePartition DEF ReportInv

\* An exception ends the counting.
LEMMA AbortCounted ==
    ASSUME ReportInv, pc # "grouping", Abort
    PROVE  ReportInv'
  <1>1. pc' = "raised" /\ UNCHANGED <<executor, definition, groups>>
      BY DEF Abort
  <1>2. PartitionInv'
      BY <1>1, GroupsFormed
  <1> QED
      BY <1>1, <1>2 DEF ReportInv, OrderInv, CountersInv

\* Nothing is counted before the first step.
LEMMA ReportInit == Init => ReportInv
  <1> SUFFICES ASSUME Init PROVE ReportInv
      OBVIOUS
  <1>1. /\ pc = "grouping" /\ position = 1 /\ groups = <<>> /\ group = 0
        /\ report = [longest |-> 0, derived |-> 0, independent |-> 0, month_work |-> 0]
      BY DEF Init
  <1>2. Inv
      BY InvInit
  <1>3. Seen = {}
      <2>1. \A i \in GroupedIndices : ~(i < position)
          BY <1>1, <1>2, Shape DEF GroupedIndices
      <2> QED
          BY <1>1, <2>1 DEF Seen
  <1>4. PartitionInv
      BY <1>1, <1>3 DEF PartitionInv
  <1>5. LongestSoFar = {} /\ DerivedSoFar = {} /\ IndependentSoFar = {}
      BY <1>1, NothingCounted
  <1>6. ReportOn(definition, {}, {}, {}) = report
      BY <1>1, <1>2, Shape, MonthsAddUp, FS_EmptySet DEF ReportOn
  <1> QED
      BY <1>1, <1>4, <1>5, <1>6 DEF ReportInv, OrderInv, CountersInv

\* Grouping counts nothing, and keeps the groups a partition of what was seen.
LEMMA GroupContextReport == Inv /\ ReportInv /\ GroupContext => ReportInv'
  <1> SUFFICES ASSUME Inv, ReportInv, GroupContext PROVE ReportInv'
      OBVIOUS
  <1>1. /\ pc = "grouping" /\ pc' \in {"grouping", "evaluation"}
        /\ UNCHANGED <<executor, definition, group, results, report>>
      BY DEF GroupContext, NextPosition
  <1>2. group = 0
      BY <1>1 DEF ReportInv, OrderInv
  <1>3. PartitionInv'
      BY PartitionGrows DEF ReportInv
  <1>4. /\ LongestSoFar = {} /\ DerivedSoFar = {} /\ IndependentSoFar = {}
        /\ LongestSoFar' = {} /\ DerivedSoFar' = {} /\ IndependentSoFar' = {}
      <2>1. pc' \in {"grouping", "evaluation"} /\ group' = 0 /\ 1 .. 0 = {}
          BY <1>1, <1>2
      <2>2. LongestSoFar' = {} /\ DerivedSoFar' = {} /\ IndependentSoFar' = {}
          BY <2>1 DEF LongestSoFar, DerivedSoFar, IndependentSoFar, DelegatedSoFar
      <2> QED
          BY <1>1, <1>2, <2>2, NothingCounted
  <1>5. CountersInv'
      BY <1>1, <1>4, SameCounts DEF ReportInv
  <1> QED
      BY <1>1, <1>2, <1>3, <1>5 DEF ReportInv, OrderInv

\* The longest context of one more group is counted, or the execution is aborted.
LEMMA EvaluateLongestReport == Inv /\ ReportInv /\ EvaluateLongest => ReportInv'
  <1> SUFFICES ASSUME Inv, ReportInv, EvaluateLongest PROVE ReportInv'
      OBVIOUS
  <1> DEFINE i == LongestOf(groups[group + 1])
             c == definition[i]
             r == IF executor = "fast" THEN DeriveFast(c, c) ELSE ApplyTarget(Direct(c), c)
  <1>1. pc = "evaluation" /\ group < Len(groups)
      BY DEF EvaluateLongest
  <1>2. CASE Abort
      BY <1>1, <1>2, AbortCounted
  <1>3. CASE /\ results' = [results EXCEPT ![i] = r]
             /\ report' = Count("longest", c.horizon)
             /\ group' = group + 1
             /\ pc' = "siblings"
             /\ position' = 1
             /\ UNCHANGED <<executor, definition, groups>>
      <2>1. /\ i \in DOMAIN definition
            /\ i \notin LongestSoFar \union IndependentSoFar
            /\ LongestSoFar' = LongestSoFar \union {i}
            /\ DerivedSoFar' = DerivedSoFar
            /\ IndependentSoFar' = IndependentSoFar
          BY <1>1, <1>3, LongestCounted
      <2>2. r \in ResultType
          BY <2>1, OwnAnswerTyped
      <2> HIDE DEF i, r
      <2>3. report' = ReportOn(definition, LongestSoFar \union {i}, DerivedSoFar, IndependentSoFar)
          BY <1>1, <1>3, <2>1, ContextCounted DEF ReportInv
      <2>4. CountersInv'
          BY <1>1, <1>3, <2>1, <2>2, <2>3, AnswerCounted DEF ReportInv
      <2>5. PartitionInv'
          BY <1>1, <1>3, GroupsFormed
      <2> QED
          BY <1>3, <2>4, <2>5 DEF ReportInv, OrderInv
  <1> QED
      BY <1>2, <1>3 DEF EvaluateLongest

\* A step of a loop that answers for no context.
LEMMA SkipReport ==
    ASSUME Inv, ReportInv, pc \in {"siblings", "assembly"},
           NextPosition(IF pc = "siblings" THEN "evaluation" ELSE "done"),
           UNCHANGED <<executor, definition, groups, group, results, report>>,
           pc = "siblings" =>
               position \notin groups[group] \/ position = LongestOf(groups[group]),
           pc = "assembly" => Grouped(definition[position])
    PROVE  ReportInv'
  <1>1. LongestSoFar' = LongestSoFar /\ DerivedSoFar' = DerivedSoFar /\ IndependentSoFar' = IndependentSoFar
      <2>1. CASE pc = "siblings"
          BY <2>1, SiblingCounted
      <2>2. CASE pc = "assembly"
          BY <2>2, DelegatedCounted
      <2> QED
          BY <2>1, <2>2
  <1>2. CountersInv'
      BY <1>1, SameCounts DEF ReportInv
  <1>3. pc' \in {"siblings", "evaluation", "assembly", "done"} /\ (pc = "siblings" => pc' \notin {"assembly", "done"})
      BY DEF NextPosition
  <1>4. PartitionInv'
      BY <1>3, GroupsFormed
  <1> QED
      BY <1>2, <1>3, <1>4 DEF ReportInv, OrderInv

\* One more sibling is counted as derived, of no months.
LEMMA DeriveSiblingReport == Inv /\ ReportInv /\ DeriveSibling => ReportInv'
  <1> SUFFICES ASSUME Inv, ReportInv, DeriveSibling PROVE ReportInv'
      OBVIOUS
  <1> DEFINE longest == definition[LongestOf(groups[group])]
             r == Derive(longest, definition[position])
  <1>1. /\ Sibling /\ IsPrefix(definition[position], longest)
        /\ results' = [results EXCEPT ![position] = r]
        /\ report' = Count("derived", 0)
        /\ NextPosition("evaluation")
        /\ UNCHANGED <<executor, definition, groups, group>>
      BY DEF DeriveSibling
  <1>2. /\ pc = "siblings" /\ position \in groups[group] /\ position # LongestOf(groups[group])
        /\ pc' \in {"siblings", "evaluation"}
      BY <1>1 DEF Sibling, NextPosition
  <1>3. position \in DOMAIN definition /\ r \in ResultType
      BY <1>1, SiblingGroup, DerivedAnswer DEF Inv
  <1> HIDE DEF longest, r
  <1>4. /\ position \notin LongestSoFar \union DerivedSoFar \union IndependentSoFar
        /\ LongestSoFar' = LongestSoFar
        /\ DerivedSoFar' = DerivedSoFar \union {position}
        /\ IndependentSoFar' = IndependentSoFar
      BY <1>1, <1>2, SiblingCounted DEF longest
  <1>5. report' = ReportOn(definition, LongestSoFar, DerivedSoFar \union {position}, IndependentSoFar)
      BY <1>1, <1>2, <1>3, <1>4, ContextCounted DEF ReportInv
  <1>6. CountersInv'
      BY <1>1, <1>2, <1>3, <1>4, <1>5, AnswerCounted DEF ReportInv
  <1>7. PartitionInv'
      BY <1>1, <1>2, GroupsFormed
  <1> QED
      BY <1>2, <1>6, <1>7 DEF ReportInv, OrderInv

\* One more context is counted as independent, with its months.
LEMMA EvaluateSiblingReport == Inv /\ ReportInv /\ EvaluateSibling => ReportInv'
  <1> SUFFICES ASSUME Inv, ReportInv, EvaluateSibling PROVE ReportInv'
      OBVIOUS
  <1> DEFINE c == definition[position]
             longest == definition[LongestOf(groups[group])]
             r == IF executor = "fast" THEN DeriveFast(c, c) ELSE ApplyTarget(Direct(c), c)
  <1>1. /\ pc = "siblings" /\ position \in groups[group] /\ position # LongestOf(groups[group])
        /\ ~IsPrefix(c, longest)
      BY DEF EvaluateSibling, Sibling
  <1>2. CASE Abort
      BY <1>1, <1>2, AbortCounted
  <1>3. CASE /\ results' = [results EXCEPT ![position] = r]
             /\ report' = Count("independent", c.horizon)
             /\ NextPosition("evaluation")
             /\ UNCHANGED <<executor, definition, groups, group>>
      <2>1. position \in DOMAIN definition /\ r \in ResultType
          BY OwnAnswerTyped, Shape
      <2>2. pc' \in {"siblings", "evaluation"}
          BY <1>1, <1>3 DEF NextPosition
      <2>3. /\ position \notin LongestSoFar \union DerivedSoFar \union IndependentSoFar
            /\ LongestSoFar' = LongestSoFar
            /\ DerivedSoFar' = DerivedSoFar
            /\ IndependentSoFar' = IndependentSoFar \union {position}
          BY <1>1, <1>3, SiblingCounted
      <2> HIDE DEF r
      <2>4. report' = ReportOn(definition, LongestSoFar, DerivedSoFar, IndependentSoFar \union {position})
          BY <1>1, <1>3, <2>1, <2>3, ContextCounted DEF ReportInv
      <2>5. CountersInv'
          BY <1>1, <1>3, <2>1, <2>3, <2>4, AnswerCounted DEF ReportInv
      <2>6. PartitionInv'
          BY <1>1, <1>3, <2>2, GroupsFormed
      <2> QED
          BY <2>2, <2>5, <2>6 DEF ReportInv, OrderInv
  <1> QED
      BY <1>2, <1>3 DEF EvaluateSibling

\* All groups are done: every sibling has been counted.
LEMMA FinishEvaluationReport == Inv /\ ReportInv /\ FinishEvaluation => ReportInv'
  <1> SUFFICES ASSUME Inv, ReportInv, FinishEvaluation PROVE ReportInv'
      OBVIOUS
  <1>1. /\ pc = "evaluation" /\ group = Len(groups) /\ pc' = "assembly" /\ position' = 1
        /\ UNCHANGED <<executor, definition, groups, group, results, report>>
      BY DEF FinishEvaluation
  <1>2. \A i \in DOMAIN definition : ~(i < 1)
      BY Shape
  <1>3. DelegatedSoFar = {} /\ DelegatedSoFar' = {}
      BY <1>1, <1>2 DEF DelegatedSoFar
  <1>4. \A i \in DOMAIN definition : \A g \in 1 .. group : IsPastSibling(i, g)' <=> IsPastSibling(i, g)
      BY <1>1 DEF IsPastSibling, IsLongest
  <1>5. LongestSoFar' = LongestSoFar
      BY <1>1 DEF LongestSoFar, IsLongest
  <1>6. DerivedSoFar' = DerivedSoFar
      BY <1>1, <1>4 DEF DerivedSoFar, IsDerived, IsLongest, IsPrefix
  <1>7. IndependentSoFar' = IndependentSoFar
      BY <1>1, <1>3, <1>4 DEF IndependentSoFar, IsDerived, IsLongest, IsPrefix
  <1>8. CountersInv'
      BY <1>1, <1>5, <1>6, <1>7, SameCounts DEF ReportInv
  <1>9. PartitionInv'
      BY <1>1, GroupsFormed
  <1> QED
      BY <1>1, <1>8, <1>9 DEF ReportInv, OrderInv

\* Assembling counts nothing.
LEMMA AssembleReport == Inv /\ ReportInv /\ Assemble => ReportInv'
  <1> SUFFICES ASSUME Inv, ReportInv, Assemble PROVE ReportInv'
      OBVIOUS
  <1> DEFINE c == definition[position]
             r == Direct(c)
  <1>1. pc = "assembly"
      BY DEF Assemble
  <1>2. CASE Abort
      BY <1>1, <1>2, AbortCounted
  <1>3. CASE /\ Grouped(c)
             /\ UNCHANGED <<results, report>>
             /\ NextPosition("done")
             /\ UNCHANGED <<executor, definition, groups, group>>
      BY <1>1, <1>3, SkipReport
  <1>4. CASE /\ ~Grouped(c)
             /\ results' = [results EXCEPT ![position] = r]
             /\ report' = Count("independent", c.horizon)
             /\ NextPosition("done")
             /\ UNCHANGED <<executor, definition, groups, group>>
      <2>1. position \in DOMAIN definition /\ r \in ResultType
          BY Shape, ContextTyped, DirectTyped DEF Inv
      <2>2. pc' \in {"assembly", "done"}
          BY <1>1, <1>4 DEF NextPosition
      <2>3. /\ position \notin LongestSoFar \union IndependentSoFar
            /\ LongestSoFar' = LongestSoFar
            /\ DerivedSoFar' = DerivedSoFar
            /\ IndependentSoFar' = IndependentSoFar \union {position}
          BY <1>1, <1>4, DelegatedCounted
      <2> HIDE DEF r
      <2>4. report' = ReportOn(definition, LongestSoFar, DerivedSoFar, IndependentSoFar \union {position})
          BY <1>1, <1>4, <2>1, <2>3, ContextCounted DEF ReportInv
      <2>5. CountersInv'
          BY <1>1, <1>4, <2>1, <2>3, <2>4, AnswerCounted DEF ReportInv
      <2>6. PartitionInv'
          BY <1>1, <1>4, <2>2, GroupsFormed
      <2> QED
          BY <1>1, <1>4, <2>2, <2>5, <2>6 DEF ReportInv, OrderInv
  <1> QED
      BY <1>2, <1>3, <1>4 DEF Assemble

\* Every step keeps the report right.
LEMMA ReportStep == Inv /\ ReportInv /\ [Next]_vars => ReportInv'
  <1> SUFFICES ASSUME Inv, ReportInv, [Next]_vars PROVE ReportInv'
      OBVIOUS
  <1>1. CASE SkipContext
      BY <1>1, SkipReport DEF SkipContext, Keep
  <1>2. CASE UNCHANGED vars
      <2>1. UNCHANGED <<executor, definition, pc, position, groups, group, results, report>>
          BY <1>2 DEF vars
      <2>2. GroupedIndices' = GroupedIndices
          BY <2>1 DEF GroupedIndices, Grouped
      <2>3. Seen' = Seen
          BY <2>1, <2>2 DEF Seen
      <2>4. PartitionInv'
          BY <2>1, <2>3, SamePartition DEF ReportInv
      <2>5. DelegatedSoFar' = DelegatedSoFar
          BY <2>1, <2>2 DEF DelegatedSoFar
      <2>6. /\ LongestSoFar' = LongestSoFar
            /\ DerivedSoFar' = DerivedSoFar
            /\ IndependentSoFar' = IndependentSoFar
          BY <2>1, <2>5 DEF LongestSoFar, DerivedSoFar, IndependentSoFar, IsPastSibling, IsDerived,
                            IsLongest, IsPrefix
      <2>7. CountersInv'
          <3>1. CASE pc = "raised"
              BY <2>1, <3>1 DEF CountersInv
          <3>2. CASE pc # "raised"
              BY <2>1, <2>6, <3>2, SameCounts DEF ReportInv
          <3> QED
              BY <3>1, <3>2
      <2> QED
          BY <2>1, <2>4, <2>7 DEF ReportInv, OrderInv
  <1> QED
      BY <1>1, <1>2, GroupContextReport, EvaluateLongestReport, DeriveSiblingReport,
         EvaluateSiblingReport, FinishEvaluationReport, AssembleReport DEF Next

\* When execute returns, what was counted is what the plan lets expect.
LEMMA ExpectedAtEnd ==
    ASSUME Inv, ReportInv, pc = "done"
    PROVE  /\ LongestSoFar = ExpectedLongest
           /\ DerivedSoFar = ExpectedDerived
           /\ IndependentSoFar = ExpectedIndependent
  <1>1. 1 .. group = DOMAIN groups
      BY Shape DEF ReportInv, OrderInv
  <1>2. Seen = GroupedIndices
      BY DEF Seen
  <1>3. \A i \in GroupedIndices : \E g \in DOMAIN groups : i \in groups[g]
      BY <1>2 DEF ReportInv, PartitionInv
  <1>4. \A g \in DOMAIN groups : \A i \in groups[g] : i \in GroupedIndices /\ groups[g] = GroupOf(i)
      BY <1>2 DEF ReportInv, PartitionInv, GroupOf
  <1>5. \A g, h \in DOMAIN groups : \A i \in groups[g] : i \in groups[h] => g = h
      BY DEF ReportInv, PartitionInv
  <1>6. \A g \in DOMAIN groups : LongestOf(groups[g]) \in groups[g]
      BY OneLongest DEF Inv, GroupsInv
  <1>7. \A g \in DOMAIN groups : \A i \in groups[g] :
            IsLongest(i, groups[g]) <=> i = LongestOf(groups[g])
      BY OneLongest DEF Inv, GroupsInv
  <1>8. \A g \in DOMAIN groups : \A i :
            IsDerived(i, groups[g]) <=> IsPrefix(definition[i], definition[LongestOf(groups[g])])
      BY DerivedFromLongest DEF Inv, GroupsInv
  <1>9. GroupedIndices \subseteq DOMAIN definition
      BY DEF GroupedIndices
  <1>10. \A g \in DOMAIN groups : \A i :
            IsPastSibling(i, g) <=> i \in groups[g] /\ i # LongestOf(groups[g])
      BY <1>7 DEF IsPastSibling
  <1>11. LongestSoFar = {i \in GroupedIndices : \E g \in DOMAIN groups : i = LongestOf(groups[g])}
      BY <1>1, <1>4, <1>6, <1>7, <1>9 DEF LongestSoFar
  <1>12. LongestSoFar = ExpectedLongest
      <2>1. ASSUME NEW i \in LongestSoFar PROVE i \in ExpectedLongest
          <3>1. PICK g \in DOMAIN groups : i = LongestOf(groups[g])
              BY <1>11, <2>1
          <3>2. i \in groups[g] /\ groups[g] = GroupOf(i) /\ i \in GroupedIndices
              BY <1>4, <1>6, <3>1
          <3>3. i = LongestOf(GroupOf(i))
              BY <3>1, <3>2
          <3> QED
              BY <3>2, <3>3 DEF ExpectedLongest
      <2>2. ASSUME NEW i \in ExpectedLongest PROVE i \in LongestSoFar
          <3>1. PICK j \in GroupedIndices : i = LongestOf(GroupOf(j))
              BY <2>2 DEF ExpectedLongest
          <3>2. PICK g \in DOMAIN groups : j \in groups[g]
              BY <1>3
          <3>3. groups[g] = GroupOf(j)
              BY <1>4, <3>2
          <3>4. i = LongestOf(groups[g])
              BY <3>1, <3>3
          <3> QED
              BY <1>4, <1>6, <1>11, <3>4
      <2> QED
          BY <2>1, <2>2
  <1>13. \A g \in DOMAIN groups : \A i \in groups[g] :
            i \in ExpectedLongest <=> i = LongestOf(groups[g])
      BY <1>4, <1>5, <1>6, <1>11, <1>12
  <1>14. \A i : \A g \in DOMAIN groups : i \in groups[g] =>
            (IsDerived(i, groups[g]) <=> IsPrefix(definition[i], definition[LongestOf(GroupOf(i))]))
      <2> SUFFICES ASSUME NEW g \in DOMAIN groups, NEW i \in groups[g]
                   PROVE  IsDerived(i, groups[g])
                              <=> IsPrefix(definition[i], definition[LongestOf(GroupOf(i))])
          OBVIOUS
      <2>1. LongestOf(GroupOf(i)) = LongestOf(groups[g])
          BY <1>4
      <2> QED
          BY <1>8, <2>1
  <1>15. DerivedSoFar =
            {i \in DOMAIN definition : \E g \in DOMAIN groups :
                i \in groups[g] /\ i # LongestOf(groups[g]) /\ IsDerived(i, groups[g])}
      BY <1>1, <1>10 DEF DerivedSoFar
  <1>16. DerivedSoFar = ExpectedDerived
      <2>1. \A i \in DerivedSoFar : i \in ExpectedDerived
          BY <1>4, <1>13, <1>14, <1>15 DEF ExpectedDerived
      <2>2. \A i \in ExpectedDerived : i \in DerivedSoFar
          BY <1>3, <1>9, <1>13, <1>14, <1>15 DEF ExpectedDerived
      <2> QED
          BY <2>1, <2>2
  <1>17. DelegatedSoFar = DOMAIN definition \ GroupedIndices
      BY DEF DelegatedSoFar
  <1>18. IndependentSoFar =
            {i \in DOMAIN definition : \E g \in DOMAIN groups :
                i \in groups[g] /\ i # LongestOf(groups[g]) /\ ~IsDerived(i, groups[g])}
            \union (DOMAIN definition \ GroupedIndices)
      BY <1>1, <1>10, <1>17 DEF IndependentSoFar
  <1>19. ExpectedLongest \subseteq GroupedIndices
      BY <1>11, <1>12
  <1>20. IndependentSoFar = ExpectedIndependent
      <2>1. ASSUME NEW i \in IndependentSoFar PROVE i \in ExpectedIndependent
          <3>1. i \in DOMAIN definition
              BY <1>18
          <3>2. i \notin ExpectedLongest
              BY <1>13, <1>18, <1>19
          <3>3. i \notin ExpectedDerived
              BY <1>13, <1>14, <1>18 DEF ExpectedDerived
          <3> QED
              BY <3>1, <3>2, <3>3 DEF ExpectedIndependent
      <2>2. ASSUME NEW i \in ExpectedIndependent PROVE i \in IndependentSoFar
          <3>1. i \in DOMAIN definition /\ i \notin ExpectedLongest /\ i \notin ExpectedDerived
              BY <2>2 DEF ExpectedIndependent
          <3>2. CASE i \in GroupedIndices
              <4>1. PICK g \in DOMAIN groups : i \in groups[g]
                  BY <1>3, <3>2
              <4>2. i # LongestOf(groups[g])
                  BY <1>13, <3>1, <4>1
              <4>3. ~IsDerived(i, groups[g])
                  BY <1>14, <3>1, <3>2, <4>1 DEF ExpectedDerived
              <4> QED
                  BY <1>18, <3>1, <4>1, <4>2, <4>3
          <3>3. CASE i \notin GroupedIndices
              BY <1>18, <3>1, <3>3
          <3> QED
              BY <3>2, <3>3
      <2> QED
          BY <2>1, <2>2
  <1> QED
      BY <1>12, <1>16, <1>20

\* Every reachable state satisfies the invariant of the counters.
THEOREM ReportInductive == Spec => []ReportInv
  <1>1. Init => ReportInv
      BY ReportInit
  <1>2. Inv /\ ReportInv /\ [Next]_vars => ReportInv'
      BY ReportStep
  <1> QED
      BY <1>1, <1>2, Invariance, PTL DEF Spec

\* When execute returns, its report is the one that expected_reference_report and
\* expected_report compute from the plan alone, and its months of work are no more
\* than those of simulating every context.
THEOREM ReportCorrect == Spec => []ReportIsExpected
  <1>1. Inv /\ ReportInv => ReportIsExpected
      <2> SUFFICES ASSUME Inv, ReportInv, pc = "done"
                   PROVE  /\ report = ExpectedReport
                          /\ report.month_work <= MonthsIn(definition, DOMAIN definition)
          BY DEF ReportIsExpected
      <2>1. report = ReportOn(definition, LongestSoFar, DerivedSoFar, IndependentSoFar)
          BY DEF ReportInv, CountersInv
      <2>2. report = ReportOn(definition, ExpectedLongest, ExpectedDerived, ExpectedIndependent)
          BY <2>1, ExpectedAtEnd
      <2>3. report = ExpectedReport
          BY <2>2 DEF ReportOn, ExpectedReport
      <2>4. report.month_work = MonthsIn(definition, LongestSoFar \union IndependentSoFar)
          BY <2>1 DEF ReportOn
      <2>5. LongestSoFar \union IndependentSoFar \subseteq DOMAIN definition
          BY CountedContexts
      <2> QED
          BY <2>3, <2>4, <2>5, Shape, MonthsAddUp
  <1> QED
      BY <1>1, Invariance, ReportInductive, PTL

\* When execute returns, every context has been answered, in one of the three ways
\* the report counts.
THEOREM AnsweredCorrect == Spec => []AllAnswered
  <1>1. Inv /\ ReportInv => AllAnswered
      <2> SUFFICES ASSUME Inv, ReportInv, pc = "done"
                   PROVE  /\ \A i \in DOMAIN definition : Answered(i)
                          /\ report.longest + report.derived + report.independent = Len(definition)
          BY DEF AllAnswered
      <2> DEFINE L == LongestSoFar
                 D == DerivedSoFar
                 I == IndependentSoFar
      <2>1. /\ report = ReportOn(definition, L, D, I)
            /\ \A i \in L \union D \union I : Answered(i)
          BY DEF ReportInv, CountersInv
      <2>2. L = ExpectedLongest /\ D = ExpectedDerived /\ I = ExpectedIndependent
          BY ExpectedAtEnd
      <2>3. /\ L \in SUBSET (DOMAIN definition) /\ D \in SUBSET (DOMAIN definition)
            /\ \A S \in SUBSET (DOMAIN definition) : IsFiniteSet(S) /\ Cardinality(S) \in Nat
          BY CountedContexts
      <2>4. I = DOMAIN definition \ (L \union D) /\ L \cap D = {}
          BY <2>2 DEF ExpectedIndependent, ExpectedDerived
      <2>5. Cardinality(DOMAIN definition) = Len(definition)
          <3>1. Len(definition) \in Nat /\ DOMAIN definition = 1 .. Len(definition)
              BY Shape
          <3>2. Cardinality(1 .. Len(definition)) =
                  IF 1 > Len(definition) THEN 0 ELSE Len(definition) - 1 + 1
              BY <3>1, FS_Interval
          <3> QED
              BY <3>1, <3>2
      <2>6. report.longest = Cardinality(L) /\ report.derived = Cardinality(D)
                /\ report.independent = Cardinality(I)
          BY <2>1 DEF ReportOn
      <2> HIDE DEF L, D, I
      <2>7. \A i \in DOMAIN definition : Answered(i)
          BY <2>1, <2>4
      <2>8. Cardinality(L \union D) = Cardinality(L) + Cardinality(D)
          <3>1. Cardinality(L \union D) = Cardinality(L) + Cardinality(D) - Cardinality(L \cap D)
              BY <2>3, FS_Union
          <3> QED
              BY <2>3, <2>4, <3>1, FS_EmptySet
      <2>9. Cardinality(I) = Len(definition) - Cardinality(L \union D)
          <3> DEFINE all == DOMAIN definition
          <3>1. IsFiniteSet(all)
              BY <2>3
          <3>2. Cardinality(all \ (L \union D)) = Cardinality(all) - Cardinality(all \cap (L \union D))
              BY <3>1, FS_Difference
          <3>3. all \cap (L \union D) = L \union D
              BY <2>3
          <3> QED
              BY <2>4, <2>5, <3>2, <3>3
      <2>10. Cardinality(L) \in Nat /\ Cardinality(D) \in Nat /\ Len(definition) \in Nat
          BY <2>3, Shape
      <2> QED
          BY <2>6, <2>7, <2>8, <2>9, <2>10
  <1> QED
      BY <1>1, Invariance, ReportInductive, PTL

----------------------------------------------------------------------------
(* Executions are finite.                                                  *)

\* There are no more groups than contexts that the grouping loop is past.
FewGroups == Len(groups) <= IF pc = "grouping" THEN position - 1 ELSE Len(definition)

\* What a loop over the definition leaves of itself.
LEMMA LoopGoesOn ==
    ASSUME Inv, NEW following, NextPosition(following)
    PROVE  \/ position < Len(definition) /\ position' = position + 1 /\ pc' = pc
           \/ position = Len(definition) /\ position' = 1 /\ pc' = following
  <1>1. position \in 1 .. Len(definition) /\ Len(definition) \in Nat
      BY Shape
  <1> QED
      BY <1>1 DEF NextPosition

\* A context makes a group of its own at most.
LEMMA OneMoreGroup ==
    ASSUME Inv, GroupContext
    PROVE  Len(groups') \in Nat /\ Len(groups') <= Len(groups) + 1
  <1> DEFINE c == definition[position]
  <1>1. Len(groups) \in Nat /\ DOMAIN groups = 1 .. Len(groups)
      BY Shape
  <1>2. CASE ~Grouped(c)
      <2>1. groups' = groups
          BY <1>2 DEF GroupContext
      <2> QED
          BY <1>1, <2>1
  <1>3. CASE Grouped(c) /\ Matching(c) = {}
      <2>1. groups' = Append(groups, {position})
          BY <1>3 DEF GroupContext
      <2>2. groups \in Seq(SUBSET (DOMAIN definition)) /\ {position} \in SUBSET (DOMAIN definition)
          BY DEF Inv, TypeOK
      <2>3. Len(groups') = Len(groups) + 1
          BY <2>1, <2>2
      <2> QED
          BY <1>1, <2>3
  <1>4. CASE Grouped(c) /\ Matching(c) # {}
      <2>1. groups' = [g \in DOMAIN groups |->
                          IF g \in Matching(c) THEN groups[g] \union {position} ELSE groups[g]]
          BY <1>4 DEF GroupContext
      <2>2. groups' \in Seq(SUBSET (DOMAIN definition))
          BY GroupsStep DEF Inv
      <2>3. DOMAIN groups' = 1 .. Len(groups)
          BY <1>1, <2>1
      <2>4. Len(groups') \in Nat /\ DOMAIN groups' = 1 .. Len(groups')
          BY <2>2, LenProperties
      <2> HIDE DEF c
      <2>5. Len(groups') = Len(groups)
          BY <1>1, <2>3, <2>4
      <2> QED
          BY <1>1, <2>5
  <1> QED
      BY <1>2, <1>3, <1>4

\* The number of groups is bounded from the first step on.
LEMMA FewGroupsInit == Init => FewGroups
  <1> SUFFICES ASSUME Init PROVE FewGroups
      OBVIOUS
  <1>1. Len(groups) = 0 /\ pc = "grouping" /\ position = 1
      BY DEF Init
  <1> QED
      BY <1>1 DEF FewGroups

\* Only the grouping loop makes groups, and at most one in an iteration.
LEMMA FewGroupsStep == Inv /\ FewGroups /\ [Next]_vars => FewGroups'
  <1> SUFFICES ASSUME Inv, FewGroups, [Next]_vars PROVE FewGroups'
      OBVIOUS
  <1>1. position \in 1 .. Len(definition) /\ Len(definition) \in Nat /\ Len(groups) \in Nat
      BY Shape
  <1>2. CASE GroupContext
      <2>1. pc = "grouping" /\ NextPosition("evaluation") /\ definition' = definition
          BY <1>2 DEF GroupContext
      <2>2. Len(groups') \in Nat /\ Len(groups') <= Len(groups) + 1
          BY <1>2, OneMoreGroup
      <2>3. Len(groups') <= position
          BY <1>1, <2>1, <2>2 DEF FewGroups
      <2>4. \/ position < Len(definition) /\ position' = position + 1 /\ pc' = "grouping"
            \/ position = Len(definition) /\ pc' = "evaluation"
          BY <2>1, LoopGoesOn
      <2> QED
          BY <1>1, <2>1, <2>2, <2>3, <2>4 DEF FewGroups
  <1>3. CASE EvaluateLongest \/ SkipContext \/ DeriveSibling \/ EvaluateSibling
             \/ FinishEvaluation \/ Assemble
      <2>1. pc # "grouping" /\ UNCHANGED <<definition, groups>>
          BY <1>3 DEF EvaluateLongest, SkipContext, Keep, DeriveSibling, EvaluateSibling, Sibling,
                      FinishEvaluation, Assemble, Abort
      <2>2. pc' # "grouping"
          BY <1>3, <2>1 DEF EvaluateLongest, SkipContext, Keep, DeriveSibling, EvaluateSibling,
                            Sibling, FinishEvaluation, Assemble, Abort, NextPosition
      <2> QED
          BY <2>1, <2>2 DEF FewGroups
  <1>4. CASE UNCHANGED vars
      BY <1>4 DEF FewGroups, vars
  <1> QED
      BY <1>2, <1>3, <1>4 DEF Next

\* StepsRunOut: for every definition, each step uses up one of at most
\* n * (n + 3) + 1 steps, for n contexts.
THEOREM StepsCorrect == Spec => StepsRunOut
  <1>1. ASSUME Inv, FewGroups, [Next]_vars, FewGroups'
        PROVE  [Remaining' \in 0 .. Remaining - 1]_vars
      <2> DEFINE n == Len(definition)
                 k == Len(groups) - group
      <2>1. /\ position \in 1 .. n /\ n \in Nat /\ Len(groups) \in Nat /\ group \in 0 .. Len(groups)
            /\ k \in Nat
          <3>1. /\ position \in 1 .. n /\ n \in Nat /\ Len(groups) \in Nat
                /\ group \in 0 .. Len(groups)
              BY <1>1, Shape
          <3> HIDE DEF n
          <3> QED
              BY <3>1
      <2>2. \A x, y \in Nat : x * (y + 1) \in Nat /\ (x + 1) * (y + 1) = x * (y + 1) + y + 1
                              /\ 0 * (y + 1) = 0
          OBVIOUS
      <2>3. CASE GroupContext
          <3> DEFINE m == Len(groups')
          <3>1. /\ pc = "grouping" /\ NextPosition("evaluation") /\ definition' = definition
                /\ group' = group
              BY <2>3 DEF GroupContext
          <3>2. Remaining = (n - position + 1) + n * (n + 1) + n + 1
              BY <3>1 DEF Remaining
          <3>3. CASE position < n
              <4>1. pc' = "grouping" /\ position' = position + 1
                  BY <3>1, <3>3 DEF NextPosition
              <4>2. Remaining' = (n - (position + 1) + 1) + n * (n + 1) + n + 1
                  BY <3>1, <4>1 DEF Remaining
              <4> QED
                  BY <2>1, <2>2, <3>2, <3>3, <4>2
          <3>4. CASE position = n
              <4>1. pc' = "evaluation"
                  BY <3>1, <3>4 DEF NextPosition
              <4>2. Remaining' = (m - group) * (n + 1) + n + 1
                  BY <3>1, <4>1 DEF Remaining
              <4>3. m \in Nat /\ m <= n
                  BY <1>1, <2>3, <3>1, <4>1, OneMoreGroup DEF FewGroups
              <4>4. m - group \in Nat /\ m - group <= n
                  <5>1. Len(groups') >= Len(groups)
                      BY <1>1, <2>3, GroupsStep DEF Inv
                  <5> QED
                      BY <2>1, <4>3, <5>1
              <4> HIDE DEF m, n
              <4> DEFINE j == m - group
              <4>5. j * (n + 1) \in Nat /\ (n - j) * (n + 1) \in Nat /\ n - j \in Nat
                  BY <2>1, <2>2, <4>4
              <4>6. (n - j) * (n + 1) = n * (n + 1) - j * (n + 1)
                  BY <2>1, <4>4
              <4> QED
                  BY <2>1, <2>2, <3>2, <3>4, <4>2, <4>5, <4>6
          <3> QED
              BY <2>1, <3>3, <3>4
      <2>4. CASE EvaluateLongest
          <3>1. /\ pc = "evaluation" /\ group < Len(groups)
                /\ Remaining = k * (n + 1) + n + 1
              BY <2>4 DEF EvaluateLongest, Remaining
          <3>2. CASE pc' = "raised"
              <4>1. Remaining' = 0
                  BY <3>2 DEF Remaining
              <4> QED
                  BY <2>1, <2>2, <3>1, <4>1
          <3>3. CASE pc' # "raised"
              <4>1. /\ pc' = "siblings" /\ position' = 1 /\ group' = group + 1
                    /\ UNCHANGED <<definition, groups>>
                  BY <2>4, <3>3 DEF EvaluateLongest, Abort
              <4>2. Remaining' = (n - 1 + 1) + (Len(groups) - (group + 1)) * (n + 1) + n + 1
                  BY <4>1 DEF Remaining
              <4> DEFINE j == Len(groups) - (group + 1)
              <4>3. j \in Nat /\ k = j + 1
                  BY <2>1, <3>1
              <4> HIDE DEF j, k, n
              <4>4. k * (n + 1) = j * (n + 1) + n + 1 /\ j * (n + 1) \in Nat
                  BY <2>1, <2>2, <4>3
              <4>5. Remaining' = n + j * (n + 1) + n + 1
                  BY <2>1, <4>2, <4>4 DEF j
              <4> QED
                  BY <2>1, <3>1, <4>4, <4>5
          <3> QED
              BY <3>2, <3>3
      <2>5. CASE SkipContext \/ DeriveSibling \/ EvaluateSibling
          <3>1. /\ pc = "siblings"
                /\ Remaining = (n - position + 1) + k * (n + 1) + n + 1
              BY <2>5 DEF SkipContext, DeriveSibling, EvaluateSibling, Sibling, Remaining
          <3>2. k * (n + 1) \in Nat
              BY <2>1, <2>2
          <3>3. CASE pc' = "raised"
              <4>1. Remaining' = 0
                  BY <3>3 DEF Remaining
              <4> QED
                  BY <2>1, <3>1, <3>2, <4>1
          <3>4. CASE pc' # "raised"
              <4>1. NextPosition("evaluation") /\ UNCHANGED <<definition, groups, group>>
                  BY <2>5, <3>4 DEF SkipContext, Keep, DeriveSibling, EvaluateSibling, Abort
              <4>2. CASE position < n
                  <5>1. pc' = "siblings" /\ position' = position + 1
                      BY <3>1, <4>1, <4>2 DEF NextPosition
                  <5>2. Remaining' = (n - (position + 1) + 1) + k * (n + 1) + n + 1
                      BY <4>1, <5>1 DEF Remaining
                  <5> HIDE DEF k, n
                  <5> QED
                      BY <2>1, <3>1, <3>2, <4>2, <5>2
              <4>3. CASE position = n
                  <5>1. pc' = "evaluation"
                      BY <4>1, <4>3 DEF NextPosition
                  <5>2. Remaining' = k * (n + 1) + n + 1
                      BY <4>1, <5>1 DEF Remaining
                  <5> HIDE DEF k, n
                  <5> QED
                      BY <2>1, <3>1, <3>2, <4>3, <5>2
              <4> QED
                  BY <2>1, <4>2, <4>3
          <3> QED
              BY <3>3, <3>4
      <2>6. CASE FinishEvaluation
          <3>1. /\ pc = "evaluation" /\ group = Len(groups) /\ pc' = "assembly" /\ position' = 1
                /\ definition' = definition
              BY <2>6 DEF FinishEvaluation
          <3>2. Remaining = k * (n + 1) + n + 1 /\ Remaining' = n - 1 + 1
              BY <3>1 DEF Remaining
          <3>3. k * (n + 1) = 0
              BY <2>1, <2>2, <3>1
          <3> QED
              BY <2>1, <3>2, <3>3
      <2>7. CASE Assemble
          <3>1. pc = "assembly" /\ Remaining = n - position + 1
              BY <2>7 DEF Assemble, Remaining
          <3>2. CASE pc' = "raised"
              <4>1. Remaining' = 0
                  BY <3>2 DEF Remaining
              <4> QED
                  BY <2>1, <3>1, <4>1
          <3>3. CASE pc' # "raised"
              <4>1. NextPosition("done") /\ definition' = definition
                  BY <2>7, <3>3 DEF Assemble, Abort
              <4>2. CASE position < n
                  <5>1. Remaining' = n - (position + 1) + 1
                      BY <3>1, <4>1, <4>2 DEF NextPosition, Remaining
                  <5> QED
                      BY <2>1, <3>1, <4>2, <5>1
              <4>3. CASE position = n
                  <5>1. Remaining' = 0
                      BY <4>1, <4>3 DEF NextPosition, Remaining
                  <5> QED
                      BY <2>1, <3>1, <5>1
              <4> QED
                  BY <2>1, <4>2, <4>3
          <3> QED
              BY <3>2, <3>3
      <2>8. CASE UNCHANGED vars
          BY <2>8
      <2> QED
          BY <1>1, <2>3, <2>4, <2>5, <2>6, <2>7, <2>8 DEF Next
  <1>2. Init => FewGroups
      BY FewGroupsInit
  <1>3. Inv /\ FewGroups /\ [Next]_vars => FewGroups'
      BY FewGroupsStep
  <1>4. Spec => []FewGroups
      BY <1>2, <1>3, Invariance, PTL DEF Spec
  <1> QED
      BY <1>1, <1>4, Invariance, PTL DEF Spec, StepsRunOut

=============================================================================
