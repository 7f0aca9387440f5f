-------------------------- MODULE HorizonDerivation --------------------------
(***************************************************************************)
(* The two executors that answer for many contexts with few simulations:  *)
(* ReferenceSimulationExecutor ("reference") and                           *)
(* FastPathSimulationExecutor ("fast").  Both group the contexts of a      *)
(* definition by trajectory, evaluate the longest horizon of a group once, *)
(* and derive the results of the shorter ones from it.                     *)
(*                                                                         *)
(* A trajectory is the sequence of the portfolio's values at the end of    *)
(* its months, as long as its withdrawals can be paid: month Len(t), the   *)
(* first one without a value, fails (months count from 0).  A value of 0   *)
(* is a withdrawal of exactly the portfolio.                               *)
(***************************************************************************)
EXTENDS Integers, Sequences, FiniteSets

CONSTANTS
    Families,       \* start date, equity weight, rate, wealth and portfolio: the group key
    Markets,        \* datasets; slices of one dataset share their snapshots
    Trajectory,     \* the trajectory of a family, a market and a frequency
    Definitions     \* the experiment definitions to execute

Frequencies == {"MONTHLY", "ANNUAL"}

\* The fields of SimulationContext that the executors tell apart.  A dataset
\* covers its context's horizon exactly (materialize_research_plan slices it).
\* A target of 0 stands for None: every survivor meets it.  closed_form stands
\* for is_fast_path_eligible: an equity and a bond.  Allocation is constant and
\* withdrawals are fixed real: a group key reads the fields of these policies.
ContextType ==
    [family: Families, market: Markets, frequency: Frequencies,
     horizon: Nat \ {0}, target: Nat, closed_form: BOOLEAN]

Paths == {t \in Seq(Nat) : \A m \in 1 .. Len(t) : t[m] = 0 => m = Len(t)}

ASSUME TrajectoryAssumption ==
    Trajectory \in [Families \X Markets \X Frequencies -> Paths]
ASSUME DefinitionsAssumption ==
    /\ Definitions \subseteq Seq(ContextType)
    /\ \A d \in Definitions : Len(d) > 0
    \* the withdrawal frequency is set once per study
    /\ \A d \in Definitions : \A i, j \in DOMAIN d : d[i].frequency = d[j].frequency

VARIABLES
    executor,     \* "reference" or "fast"
    definition,   \* the contexts to execute
    pc,           \* the loop under way, or "done" or "raised"
    position,     \* index of the context the loop is at
    groups,       \* the groups found so far, each a set of context indices
    group,        \* number of the group under evaluation
    results,      \* per context index
    report        \* the counters of ReferenceReport and DerivationReport

vars == <<executor, definition, pc, position, groups, group, results, report>>

----------------------------------------------------------------------------
(* Results.                                                                *)

None == -1

ResultType ==
    [wealth: Nat, success: BOOLEAN, failure_month: Nat \union {None},
     failure_state: {"none", "depleted"}, months: Nat]

NoResult == [wealth |-> 0, success |-> FALSE, failure_month |-> None,
             failure_state |-> "none", months |-> None]

\* The statistics of h months of a trajectory, before any target.
Outcome(t, h) ==
    IF Len(t) < h
    THEN [wealth |-> 0, success |-> FALSE, failure_month |-> Len(t),
          failure_state |-> "depleted", months |-> Len(t)]
    ELSE [wealth |-> t[h], success |-> TRUE, failure_month |-> None,
          failure_state |-> "none", months |-> h]

TrajectoryOf(c) == Trajectory[c.family, c.market, c.frequency]

\* The closed form withdraws every month.
ClosedFormPath(c) == Trajectory[c.family, c.market, "MONTHLY"]

\* The pipeline throws when it meets a portfolio of exactly zero.
Raises(c) == \E m \in 1 .. Len(TrajectoryOf(c)) : m <= c.horizon /\ TrajectoryOf(c)[m] = 0

\* The result of the default executor for a context by itself: a missed
\* target is no success, and otherwise leaves no trace.
Direct(c) ==
    LET outcome == Outcome(TrajectoryOf(c), c.horizon)
    IN  [outcome EXCEPT !.success = @ /\ outcome.wealth >= c.target]

\* MUTANT: every survivor is a success.
IgnoreTarget(result, c) == result

\* _apply_fv_check of both executors: only ever turns a success into a failure.
ApplyTarget(result, c) ==
    IF result.success /\ result.wealth < c.target
    THEN [result EXCEPT !.success = FALSE, !.failure_month = c.horizon]
    ELSE result

\* ReferenceSimulationExecutor: _build_derived_result, from the longest
\* context's own result.
DeriveReference(longest, c) ==
    LET base == Direct(longest)
        wealth == TrajectoryOf(longest)[c.horizon]
    IN  CASE c.horizon = longest.horizon -> ApplyTarget(base, c)
          [] c.horizon # longest.horizon
             /\ (base.failure_month = None \/ c.horizon <= base.failure_month) ->
                [wealth |-> wealth,
                 success |-> wealth >= c.target,
                 failure_month |-> IF wealth >= c.target THEN None ELSE c.horizon,
                 failure_state |-> IF wealth >= c.target THEN "none" ELSE "depleted",
                 months |-> c.horizon]
          [] OTHER ->
                [base EXCEPT !.success = FALSE, !.failure_state = "depleted",
                             !.months = base.failure_month]

\* FastPathSimulationExecutor: the path knows no target.
DeriveFast(longest, c) == ApplyTarget(Outcome(ClosedFormPath(longest), c.horizon), c)

Derive(longest, c) ==
    IF executor = "fast" THEN DeriveFast(longest, c) ELSE DeriveReference(longest, c)

----------------------------------------------------------------------------
(* Groups.                                                                 *)

\* MUTANT: the fast path delegates every context.
DelegateAll(c) == executor # "fast"

\* The fast path groups what is_fast_path_eligible accepts.
Grouped(c) == executor = "fast" => c.closed_form

SameKey(c, d) == c.family = d.family

\* MUTANT: data of another dataset is good enough.
AnyPrefix(c, longest) == TRUE

\* _dataset_is_identity_prefix: the slices of one dataset share their snapshots.
IsPrefix(c, longest) == c.market = longest.market /\ c.horizon <= longest.horizon

\* max(contexts, key=horizon) returns the first of the longest.
IsLongest(i, members) ==
    \A j \in members :
        \/ definition[j].horizon < definition[i].horizon
        \/ definition[j].horizon = definition[i].horizon /\ i <= j

LongestOf(members) == CHOOSE i \in members : IsLongest(i, members)

Count(field, months) == [report EXCEPT ![field] = @ + 1, !.month_work = @ + months]

----------------------------------------------------------------------------
(* The three loops of execute.                                             *)

Init ==
    /\ executor \in {"reference", "fast"}
    /\ definition \in Definitions
    /\ pc = "grouping"
    /\ position = 1
    /\ groups = <<>>
    /\ group = 0
    /\ results = [i \in DOMAIN definition |-> NoResult]
    /\ report = [longest |-> 0, derived |-> 0, independent |-> 0, month_work |-> 0]

\* MUTANT: the last context is forgotten.
StopShort(following) ==
    IF position + 1 < Len(definition)
    THEN position' = position + 1 /\ pc' = pc
    ELSE position' = 1 /\ pc' = following

\* The next context of a loop over the definition, or what follows the loop.
NextPosition(following) ==
    IF position < Len(definition)
    THEN position' = position + 1 /\ pc' = pc
    ELSE position' = 1 /\ pc' = following

\* An exception of the default executor leaves execute.
Abort ==
    /\ pc' = "raised"
    /\ UNCHANGED <<executor, definition, position, groups, group, results, report>>

\* MUTANT: contexts of a group are taken to follow each other.
MatchingLast(c) ==
    {g \in DOMAIN groups :
        g = Len(groups) /\ \E j \in groups[g] : SameKey(definition[j], c)}

Matching(c) == {g \in DOMAIN groups : \E j \in groups[g] : SameKey(definition[j], c)}

GroupContext ==
    LET c == definition[position]
    IN  /\ pc = "grouping"
        /\ groups' =
              CASE ~Grouped(c) -> groups
                [] Grouped(c) /\ Matching(c) = {} -> Append(groups, {position})
                [] OTHER ->
                      [g \in DOMAIN groups |->
                          IF g \in Matching(c) THEN groups[g] \union {position} ELSE groups[g]]
        /\ NextPosition("evaluation")
        /\ UNCHANGED <<executor, definition, group, results, report>>

EvaluateLongest ==
    /\ pc = "evaluation"
    /\ group < Len(groups)
    /\ LET i == LongestOf(groups[group + 1])
           c == definition[i]
       IN  \/ /\ executor = "reference" => ~Raises(c)
              /\ results' = [results EXCEPT ![i] =
                    IF executor = "fast" THEN DeriveFast(c, c) ELSE ApplyTarget(Direct(c), c)]
              /\ report' = Count("longest", c.horizon)
              /\ group' = group + 1
              /\ pc' = "siblings"
              /\ position' = 1
              /\ UNCHANGED <<executor, definition, groups>>
           \/ executor = "reference" /\ Raises(c) /\ Abort

Keep == UNCHANGED <<results, report>> /\ NextPosition("evaluation")
        /\ UNCHANGED <<executor, definition, groups, group>>

SkipContext ==
    /\ pc = "siblings"
    /\ position \notin groups[group] \/ position = LongestOf(groups[group])
    /\ Keep

Sibling ==
    /\ pc = "siblings"
    /\ position \in groups[group]
    /\ position # LongestOf(groups[group])

DeriveSibling ==
    LET c == definition[position]
        longest == definition[LongestOf(groups[group])]
    IN  /\ Sibling
        /\ IsPrefix(c, longest)
        /\ results' = [results EXCEPT ![position] = Derive(longest, c)]
        /\ report' = Count("derived", 0)
        /\ NextPosition("evaluation")
        /\ UNCHANGED <<executor, definition, groups, group>>

\* A sibling over other data is evaluated by itself.
EvaluateSibling ==
    LET c == definition[position]
        longest == definition[LongestOf(groups[group])]
    IN  /\ Sibling
        /\ ~IsPrefix(c, longest)
        /\ \/ /\ executor = "reference" => ~Raises(c)
              /\ results' = [results EXCEPT ![position] =
                    IF executor = "fast" THEN DeriveFast(c, c) ELSE ApplyTarget(Direct(c), c)]
              /\ report' = Count("independent", c.horizon)
              /\ NextPosition("evaluation")
              /\ UNCHANGED <<executor, definition, groups, group>>
           \/ executor = "reference" /\ Raises(c) /\ Abort

FinishEvaluation ==
    /\ pc = "evaluation"
    /\ group = Len(groups)
    /\ pc' = "assembly"
    /\ position' = 1
    /\ UNCHANGED <<executor, definition, groups, group, results, report>>

\* Results are put in the order of the definition; the fast path delegates the
\* contexts it did not group, one by one.
Assemble ==
    LET c == definition[position]
    IN  /\ pc = "assembly"
        /\ \/ /\ Grouped(c)
              /\ UNCHANGED <<results, report>>
              /\ NextPosition("done")
              /\ UNCHANGED <<executor, definition, groups, group>>
           \/ /\ ~Grouped(c)
              /\ ~Raises(c)
              /\ results' = [results EXCEPT ![position] = Direct(c)]
              /\ report' = Count("independent", c.horizon)
              /\ NextPosition("done")
              /\ UNCHANGED <<executor, definition, groups, group>>
           \/ ~Grouped(c) /\ Raises(c) /\ Abort

Next ==
    \/ GroupContext
    \/ EvaluateLongest
    \/ SkipContext
    \/ DeriveSibling
    \/ EvaluateSibling
    \/ FinishEvaluation
    \/ Assemble

Spec == Init /\ [][Next]_vars

\* execute is sequential code over finite lists.
FairSpec == Spec /\ WF_vars(Next)

----------------------------------------------------------------------------
(* expected_reference_report and expected_report: the counters, computed  *)
(* from a plan without executing it.                                       *)

GroupedIndices == {i \in DOMAIN definition : Grouped(definition[i])}

GroupOf(i) == {j \in GroupedIndices : SameKey(definition[i], definition[j])}

ExpectedLongest == {LongestOf(GroupOf(i)) : i \in GroupedIndices}

ExpectedDerived ==
    {i \in GroupedIndices \ ExpectedLongest :
        IsPrefix(definition[i], definition[LongestOf(GroupOf(i))])}

ExpectedIndependent == DOMAIN definition \ (ExpectedLongest \union ExpectedDerived)

\* The months it takes to simulate the contexts at some indices.
MonthsIn(contexts, indices) ==
    LET sum[n \in 0 .. Len(contexts)] ==
            IF n = 0 THEN 0
            ELSE sum[n - 1] + (IF n \in indices THEN contexts[n].horizon ELSE 0)
    IN  sum[Len(contexts)]

ExpectedReport ==
    [longest |-> Cardinality(ExpectedLongest),
     derived |-> Cardinality(ExpectedDerived),
     independent |-> Cardinality(ExpectedIndependent),
     month_work |-> MonthsIn(definition, ExpectedLongest \union ExpectedIndependent)]

----------------------------------------------------------------------------
(* Properties.                                                             *)

TypeOK ==
    /\ executor \in {"reference", "fast"}
    /\ definition \in Definitions
    /\ pc \in {"grouping", "evaluation", "siblings", "assembly", "done", "raised"}
    /\ position \in DOMAIN definition
    /\ groups \in Seq(SUBSET (DOMAIN definition))
    /\ group \in 0 .. Len(groups)
    /\ results \in [DOMAIN definition -> ResultType \union {NoResult}]
    /\ report \in [{"longest", "derived", "independent", "month_work"} -> Nat]

\* The executor at hand can answer for the context: the closed form knows no
\* annual withdrawals, and goes on where the pipeline throws.
Answerable(c) == executor = "fast" /\ c.closed_form => c.frequency = "MONTHLY" /\ ~Raises(c)

\* The group whose longest context stands for context i has been evaluated.
Answered(i) == results[i] # NoResult

\* Months and wealth are those of a simulation of the context alone, whatever
\* targets it is grouped with, and so is every part of a result that fails
\* before its horizon.
TrajectoryIsOwn ==
    \A i \in DOMAIN definition :
        LET c == definition[i]
        IN  Answered(i) /\ Answerable(c) =>
                /\ results[i].months = Direct(c).months
                /\ results[i].wealth = Direct(c).wealth
                /\ results[i].months < c.horizon => results[i] = Direct(c)

\* No executor calls a context a success that is none.
NoFalseSuccess ==
    \A i \in DOMAIN definition :
        LET c == definition[i]
        IN  Answerable(c) /\ results[i].success => Direct(c).success

\* Another context shares trajectory and horizon, and aims higher.
HigherSibling(c) ==
    \E j \in DOMAIN definition :
        LET d == definition[j]
        IN  /\ SameKey(c, d) /\ c.market = d.market /\ c.horizon = d.horizon
            /\ d.target > c.target

\* A context that succeeds alone succeeds in every definition, but for the
\* reference executor when a sibling of the same horizon has a higher target.
NoFalseFailure ==
    \A i \in DOMAIN definition :
        LET c == definition[i]
        IN  Answered(i) /\ Answerable(c) /\ Direct(c).success
            /\ ~(executor = "reference" /\ HigherSibling(c))
                => results[i].success

\* The verdict on a context is its own: no false success, no false failure.
VerdictIsOwn == NoFalseSuccess /\ NoFalseFailure

\* When execute returns, every context has been answered, once.
AllAnswered ==
    pc = "done" =>
        /\ \A i \in DOMAIN definition : Answered(i)
        /\ report.longest + report.derived + report.independent = Len(definition)

\* The report of an execution is the one computed from its plan, and derivation
\* never costs more than simulating every context.
ReportIsExpected ==
    pc = "done" =>
        /\ report = ExpectedReport
        /\ report.month_work <= MonthsIn(definition, DOMAIN definition)

\* execute throws only for a context that throws by itself; the fast path only
\* for one it delegates.
RaisesOnlyOwn ==
    pc = "raised" =>
        \E i \in DOMAIN definition :
            /\ Raises(definition[i])
            /\ executor = "fast" => ~definition[i].closed_form

\* The steps an execution may still take: the rest of the loop it is in, a loop over
\* the definition for each group that is or may yet be there, and the assembly.
Remaining ==
    LET n == Len(definition)
        loop == n - position + 1
    IN  CASE pc = "grouping" -> loop + n * (n + 1) + n + 1
          [] pc = "evaluation" -> (Len(groups) - group) * (n + 1) + n + 1
          [] pc = "siblings" -> loop + (Len(groups) - group) * (n + 1) + n + 1
          [] pc = "assembly" -> loop
          [] OTHER -> 0

\* Each step of an execution, and there is no other, uses up one of a number that
\* is known from the length of the definition: no loop starts over, and there are
\* never more groups than contexts.
StepsRunOut == [][Remaining' \in 0 .. Remaining - 1]_vars

\* Every execution ends: it throws, or returns with every context answered once.
EventuallyAnswered == <>(pc = "raised" \/ (pc = "done" /\ AllAnswered))

=============================================================================
