# A TLA+ verification of fbf-core

fbf-core replays retirement strategies over historical market data: for every
starting month (a *cohort*) and every parameter configuration it runs a monthly
simulation of withdrawals, borrowing, rebalancing and margin calls, and stores
and aggregates the outcomes. This directory holds TLA+ models of it, the TLC
runs that check them, and theorems checked by TLAPS. Source paths below are
relative to `src/src/fbf/core/` unless they start with `docs/` or `tests/`.

## Status

| module | what it is |
|---|---|
| `WithdrawalPolicies` | the withdrawal policies as operators |
| `MonthlyPipeline` | one simulation: the runner and its fourteen pipeline steps |
| `SimulationLifecycle` | abstract specification: what the reader of a result may rely on |
| `MCMonthlyPipeline` | small instances, and a statement of the tests that the code refutes |
| `MonthlyPipelineProofs` | theorems about `MonthlyPipeline` for all contexts and market moves |
| `HorizonDerivation` | the reference and fast-path executors: many contexts answered by few simulations |
| `HorizonDerivationProofs` | theorems about `HorizonDerivation` for all trajectories and definitions |
| `MCHorizonDerivation` | small instances |
| `ParallelExecution` | a plan executed in slices and batches by worker processes or threads |
| `PlanExecution` | abstract specification: what the caller of an execution may rely on |
| `MCParallelExecution` | small instances, with the answers of `HorizonDerivation`, and a refuted statement of the docs |
| `ParallelExecutionProofs` | theorems about `ParallelExecution` for all plans, numbers of workers and callers |
| `StudyRepository` | the SQLite repository: clients with transactions, locks, retries and crashes |
| `StudyCatalog` | abstract specification: what clients of the repository may rely on |
| `MCStudyRepository` | small instances, and refuted statements of the docs |
| `StudyRepositoryProofs` | theorems about `StudyRepository` for any number of clients and requests: keys and permanence |
| `StudyContentProofs` | further theorems about it: what the tables say and what clients are told |
| `WellOrdering` | lemmas on natural numbers, which stand for induction in three of the proofs |
| `StudyPlanning` | a declared study becomes a plan: parsing, cohorts, configurations, accumulation, units |
| `MCStudyPlanning` | 29 studies over small datasets, and a refuted statement of the docs |
| `StudyPlanningProofs` | theorems about `StudyPlanning` for all studies, datasets and rates |
| `SafeWithdrawalSearch` | bisection for the safe withdrawal rate with the Part 52 evaluator |
| `MCSafeWithdrawalSearch` | small domains |
| `SafeWithdrawalSearchProofs` | theorems about `SafeWithdrawalSearch` for all domains, grids and outcomes |

## Inventory of the system

**Simulation pipeline** (`execution/pipeline/`). State: `SimulationState`, one
mutable record per simulation (portfolio, cached wealth, loan, cash, decisions,
timeline, status). Operations: fourteen steps run in a fixed order each month by
`SimulationRunner.run`, which stops at a failure, at the end of the horizon or of
the dataset, or at a step's exception. Hard: the steps communicate only through
the shared record, so each depends on which steps ran before it; `current_wealth`
is a cache that some steps refresh and some do not; failures stop the month half
way. Correct when: the timeline and the outcome fit together, money is conserved,
the LTV limit holds when enforced, a success was never insolvent, every run ends.

**Withdrawal policies** (`domain/policies/`). Stateless: from a decision context
(month, loan, index level) to a withdrawal, a draw and a repayment flag. Hard: the
timing policy's decisions depend on the loan that its own earlier draws, interest
and margin calls left. Correct when: it borrows only free of debt.

**Domain services** (`domain/services/`). Stateless: withdrawal, rebalancing,
revaluation of a portfolio. Hard: zero values and exact exhaustion.

**Horizon derivation** (`execution/strategies/reference.py`). Groups contexts that
share a trajectory, simulates the longest and derives the shorter ones by cutting
its timeline. Hard: what belongs to the group key, which failure month a shorter
horizon sees, and final-value targets, which are per context although the
trajectory is shared. Correct when: every derived result equals the context's own.

**Fast path and numba executors** (`execution/strategies/fast_path.py`,
`numba_*.py`). Closed forms for constant allocation with fixed real withdrawals,
and delegation of the other contexts. Correct when: same results as the pipeline.

**Parallel and sequential execution** (`execution/strategies/parallel_executor.py`,
`execution/executor.py`, `execution/__init__.py`). A plan's units are cut into
batches, run by worker processes or threads that read the plan from module
globals, and concatenated. Hard: batching, worker state, timeouts, progress.
Correct when: the results are those of `sequential_execute`, in plan order.

**Study repository** (`persistence/studies/sqlite/`). SQLite tables of experiments,
cohorts, plans, policies and results, soft deletion and restore, schema
migrations. Operations: save, load, delete and export, and queries over rows.
Hard: check-then-act over several connections, retries on a locked database,
loads of many statements, a process that dies half way. Correct when: what was
saved is loaded, once, and concurrent clients see no half-written study.

**Study builder, plan, cohorts, accumulation** (`study/`). Generates cohorts that
fit the dataset, the product of parameter axes, the accumulation phase, and
materialises the plan. Hard: boundaries of horizons in the dataset; caches of
datasets and policies; borrowing rates aligned with market data by date; the
hand-over from accumulation to retirement. Correct when: every cohort meets every
configuration once, with nothing that is another's.

**Optimizers** (`optimization/`, `domain/optimizer/`). Bisection for the safe
withdrawal rate, search for a feasible borrowing share, ranking with ties. Hard: each
evaluation is a whole study, and nothing makes success monotonic in the rate.
Correct when: the answer is the highest rate that was seen to succeed, and close
to one that was seen to fail.

**Glidepath and CAPE policies**, **research pipelines and aggregations**
(`research/`), **profiling** (`execution/profiling.py`): operators over data, a
linear pipeline, and a stack of nested phases. **Data scripts** and **comparison
tools** (`scripts/`, `tools/`) are pure I/O and are left out.

Components interact by calls: builder → plan → (parallel or sequential) execution
→ derivation or fast path → pipeline → policies and services; results go to the
repository and to the aggregations. State is shared in three places: the
`SimulationState` of one simulation, the module globals of a worker, the database.

The hazards of the code, each with its line and the properties that would catch
it, are in `PROJECT.json`.

## Plan

| # | modules | questions | theorems worth proving |
|---|---|---|---|
| 1 | `MonthlyPipeline`, `WithdrawalPolicies`, `SimulationLifecycle` | done, see below | done, see below |
| 2 | `HorizonDerivation` | done, see below | done: all safety properties, the counters among them, and a bound on the steps |
| 3 | `ParallelExecution`, `PlanExecution` | done, see below | done: all safety properties, that no caller waits for nobody, and the safety part of the refinement |
| 4 | `StudyRepository`, `StudyCatalog` | done, see below | done: all safety properties, the refinement of `StudyCatalog`, and a bound on the steps of a request |
| 5 | `SafeWithdrawalSearch` | done, see below | done: all |
| 6 | `StudyPlanning` | done, see below | done: all safety properties |

Composition: `ParallelExecution` runs the executor of `HorizonDerivation` on each
batch (`MCParallelExecution` takes its operators). `HorizonDerivation` sees the
pipeline as a constant: a trajectory, and the outcome that `Statistics` makes of it.
`StudyPlanning` makes the plans that `ParallelExecution` and
`HorizonDerivation` take as constants: `FamiliesShareTrajectory` is what the
executors assume of them. `SafeWithdrawalSearch` sees building and executing a
study as one step with any outcome. Runs stay below five minutes: two or three
workers, up to five units, horizons up to four months, two clients.

## The monthly pipeline

### Correspondence

`pc` is the position in the pipeline, and one action is one step's whole
`execute`. `Continue` and `ContinueOrFail` are the runner's loop body around it:
run the step; if `failure_state` is set, mark the simulation `FAILED` and leave.
`SimulationStateUpdate` completes the run or opens the next month.

| TLA+ | code |
|---|---|
| `portfolio_value` | the portfolio's holdings, at the prices of `market_snapshot` |
| `current_wealth` | the cache in `SimulationState` |
| `loan_balance`, `cash_balance` | the same fields |
| `loan_seen` | `DebtInfo.loan_balance` of the decision context |
| `decision` | `withdrawal_decision` |
| `monthly_results` | the timeline, reduced to what the properties read |
| `ledger` | history variable: opening balances and flows of the month |
| `Statistics` | what `DefaultSimulationStatisticsBuilder.build` returns |

Abstractions. Money is a natural number and ratios are pairs of naturals; the
code's `Decimal` is treated as exact, except that a scaled amount is rounded down
(interest, prices). The split of the portfolio between assets is left out: target
weights sum to one, so no step's effect on the value depends on it. Prices are
index levels and taken to be positive. The index signals of the policies
(`in_drawdown`, `is_ath`) are chosen freely each month and independent of the
portfolio's move: both come from market data, and the freedom only adds behaviours.
Limits are restricted to those for which the liquidation amount is a whole number
(0, 1/2, 2/3, 3/4, ...) or at least 1; for another limit the model would round
where the code does not. `YearLength` is 2 instead of 12 in the runs.

The pipeline's order is a function, `StepAfter`, and the steps' arithmetic is in
small operators: definitions marked MUTANT are plausible faults in one of them,
used only to show that each property can fail.

### Runs

| run | shows |
|---|---|
| `pipeline` | type invariant, six safety invariants, one action property; the pipeline implements `SimulationLifecycle`, whose fairness says that every simulation ends |
| `claim_cash_funded` | a statement of a test, refuted (see Findings) |

The properties, and what it takes to break them:

- `OutcomeMatchesTimeline`: the failure month is in the timeline exactly when the
  month ended insolvent, and not when its withdrawal failed.
- `SuccessMeansSolvent`: no month of a success ended empty or with debt above the
  portfolio.
- `EnforcedLimitHolds`: interest and market moves of many months never leave a
  recorded month above the limit.
- `LedgerBalances`: over a month, net worth changes by spending, repayment and
  interest only. `ledger.repaid` is added because the doubled withdrawal of a
  repayment counts as spending in full. Months funded by cash are excluded: there
  the code charges the spending twice (Findings).
- `CacheTracksPortfolio`: when the cache may be read, and by how much it is wrong
  after a margin call.
- `RaisesOnlyAtExhaustion`: the only exception of the loop comes from a portfolio
  of exactly zero.
- `TimingBorrowsOnlyDebtFree`: relates the draw to the balance at the draw, not to
  the one the policy saw.
- `ImplementsLifecycle`: what a reader may rely on, months without gaps among it.

Three more are proved and not run: `TimelineFollowsMonths` (months are recorded
once, in order), `DrawsAreSpent` (cash never survives a month if the policy draws
no more than it spends) and `MarginCallRestoresLimit` (a margin call sells neither
too much nor too little).

Bounds. Wealth starts at 12 and moves by 1/2, 1 or 2 a month; horizons are 0 to 4
months and datasets 2 to 4 snapshots, on both sides of each other. That reaches a
failure in the withdrawal, in the detection and by exhaustion, in the first month
and later ones; margin calls that sell a part and all; two interest regimes and a
schedule that ends within the run; draws below, at and above the withdrawal;
a loan carried through three months of interest and repaid in part. No state
survives a month except balances, timeline and index, so a fourth month repeats
what a third can do. The 48368 states are the whole space for these contexts.

Deadlock is not checked: a finished simulation has no step left.

Fairness. `WF_vars(Next)`: `run` is a plain `while` loop in one thread; nothing
but a step's exception, which the model has, keeps it from its next step.

### Findings

A numbered finding is a run that TLC must find violated, and was reproduced by
running the code.

1. `claim_cash_funded`: a month paid entirely from borrowed cash should leave the
   portfolio alone (`tests/unit/execution/test_debt_accounting_k5_1.py:210`, which
   tests the step alone). The step stores the withdrawal service's remaining value
   in `current_wealth`, and the rebalance of the same month rebuilds the portfolio
   from it: the spending is paid twice. A portfolio of 1200 that borrows 12 a month
   to spend 12 has 1164 after three flat months, besides the debt of 36.

Further differences from comments and documents, reproduced too but without a run:

- A margin call in the last month is missing from `final_wealth`
  (`CacheTracksPortfolio` says by how much).
- A withdrawal of exactly the portfolio's value makes `run` throw instead of
  returning a result of zero, against `docs/R7_RECURRENCE_PROOF.md:228`
  (`RaisesOnlyAtExhaustion` says that nothing else does).
- An uncovered margin call sells the whole portfolio and is reported as
  `"depleted"` instead of `"margin_call_impossible"` (`docs/DECISIONS.md:660`). That
  label is used only without enforcement, where `docs/DECISIONS.md:775` rules it out.
- `loan_draw_step.py` says newly borrowed funds are not used for the current
  withdrawal, and `docs/DECISIONS.md` orders the draw after the withdrawal, while
  the pipeline draws first so that they are; `default_pipeline.py:71` says all cash
  is consumed by the end of a month, which holds for draws up to the withdrawal
  (`DrawsAreSpent`).

### Proofs

`MonthlyPipelineProofs` proves, for every set of contexts of `ContextType`, every
set of market moves and every year length, that `Spec` satisfies each invariant and
the action property of the run `pipeline`, the three properties that are not run,
and the safety part of the refinement.
The assumptions are the three named in `WithdrawalPolicies` and `MonthlyPipeline`.

`TypeOK` needs the most care: `loan_balance` and `portfolio_value` are naturals
only because a margin call sells at most the loan and the portfolio, which is
nonlinear arithmetic and is proved by itself in `MarginCallSale`.

No other property is inductive as it stands. The inductive invariants are
conjunctions of parts, each proved from the earlier ones:

- `StatusInv`: between months and inside them the simulation is running, without
  failure, and the month index is below the months due.
- `TimelineInv`: adds what is known of the record of the month under way
  (its value and loan are the current ones until detection), and that all earlier
  months ended solvent; gives the three timeline and outcome properties.
- `LimitInv`: the limit holds from the margin call until the record.
- `DrawInv`: the policy saw the very balance its draw is added to.
- `CashInv`: the draw in cash is exactly the decision's, until it is spent.
- `LedgerInv`: the balances at each stage of the month as a function of the opening
  balances, the decision and the flows so far; gives conservation, the cache
  property and the analysis of the exception.

TLC agreed with all six on the contexts of the runs before they were proved. The action properties
follow from `DrawInv` and from `MarginCallSale`. In `LifecycleRefinement` a month's
record is `RecordMonth`, the last state update `Complete`, a failure or an
exception `Stop`, and every other step a stutter.

Only model-checked: liveness, that is the fairness part of `ImplementsLifecycle`,
which is beyond the proof system here.

## Horizon derivation and the fast path

### Correspondence

`execute` of both executors runs three loops, and `pc` names the one under way:
`"grouping"` puts each context into the group of its key (`GroupContext`);
`"evaluation"` takes the next group and simulates its longest context
(`EvaluateLongest`), and `"siblings"` goes through the definition for the other
members: they are cut from the longest path (`DeriveSibling`) if their data is a
prefix of its data, and simulated by themselves otherwise (`EvaluateSibling`);
`"assembly"` orders the results and, for the fast path, delegates the contexts
that it did not group (`Assemble`). A context that throws ends the execution
(`Abort`): the counters are then lost with it, and `execute` returns nothing.

| TLA+ | code |
|---|---|
| `executor` | which of the two classes runs |
| `groups` | `group_contexts`, as sets of indices |
| `results` | `results`, by index instead of by `id(context)` |
| `report` | the counters that become `ReferenceReport` or `DerivationReport` |
| `Trajectory` | what the pipeline, or the recurrence, computes month by month |
| `Direct` | the default executor's result for a context by itself |

The simulation of a context is a constant here: `Trajectory` gives the portfolio's
value at the end of each month until a withdrawal cannot be paid. It depends on
the group key (`Families`), on the data (`Markets`) and on the frequency of the
policy; that it does not depend on the horizon is what derivation rests on, and
holds because no step of the pipeline reads the horizon before its last month.
Constant allocation with fixed real withdrawals never borrows, so a failure is a
depletion. Datasets are slices of one market, as `materialize_research_plan` cuts
them; slices of the same market are identity prefixes. The fast path evaluates
the longest context inside its loop over the members, the reference executor
before it; the model follows the latter, which makes no difference since the
recurrence does not throw.

A definition is uniform in its frequency (`DefinitionsAssumption`), because a study
sets it once: the group key leaves it out, and mixed definitions would be answered
from one simulation.

### Runs

`derivation` checks, for definitions of one to three contexts over two families,
two markets, horizons 2 to 4, with and without a target, eligible or not, monthly
or yearly:

- `TrajectoryIsOwn`: months and wealth are those of the context simulated alone;
  breaking it takes a wrong prefix test or a wrong cut around the failure month.
- `VerdictIsOwn`: the verdict is the context's own, except that the reference
  executor fails a context below a sibling with the same horizon and a higher
  target (see below).
- `RaisesOnlyOwn`: the execution throws only for a context that throws by itself.
- `ReportIsExpected`: `expected_reference_report` and `expected_report` predict the
  counters, and the months simulated never exceed those of one run per context.
- `EventuallyAnswered`: every execution ends, in an exception or with one answer
  for each context, none lost or counted twice; under `WF_vars(Next)`, since
  `execute` is a sequence of loops over finite lists in one thread.

Paths fail at once, in the third month, are exhausted exactly, or last, so that
every horizon lies before, at and after a failure. Three contexts are a longest
one, a derived one, and a third that is independent, delegated, or in a group of
its own; a fourth context would repeat one of these. Deadlock is not checked: a
finished execution has no step left.

One more is proved and not run: `StepsRunOut`, that a definition of n contexts takes
at most n (n + 3) + 1 steps, each of which leaves fewer to go. TLC agreed with it.

`Answerable` excludes what the executors cannot be right about: eligible contexts
of the fast path with yearly withdrawals, and those that the pipeline
throws on and the recurrence does not, by exact exhaustion.

Differences from the documents, reproduced by running the code, without a run:

- `is_fast_path_eligible` and the recurrence ignore the frequency, so yearly
  withdrawals are evaluated as monthly ones, against `docs/DECISIONS.md:135`.
- The longest context's own missed target is inherited by siblings of the same
  horizon, against `docs/DECISIONS.md:180`. A sibling without any target is
  reported as a failure. `HigherSibling` is this case in `VerdictIsOwn`.
- The docstring of `_apply_fv_check` promises the horizon as failure month of a
  missed target, but results that come straight from the pipeline have none.

### Proofs

`HorizonDerivationProofs` proves, for every set of families and markets, all
trajectories and all definitions of contexts of `ContextType` with one frequency,
every safety property of the run, `TypeOK` and `StepsRunOut`, and that an execution
that is done has one answer for each context. The assumptions are the two named in
`HorizonDerivation`.

Hardly any is inductive: a derived answer is right only if its group is.
`Inv` adds to the types that each group holds contexts of one key that the
executor groups, and has a longest one (`GroupsInv`); that the sibling loop is at
a group (`CursorInv`); and that every answer is `Right` (`ResultsInv`). That a
longest exists is kept in the invariant, where each new context either replaces
the old longest or does not (`GroupGrows`), so that no induction over finite sets
is needed. The heart is one lemma for each way to an answer: `OwnResult`
(simulated alone), `FastResult` (cut from the path) and `ReferenceResult` (cut from
the longest context's own result, with its three cases of the horizons and the
failure month). A step's proof then picks its lemma (`OwnAnswer`,
`DerivedAnswer`) and leaves the rest to `AnswerKeepsResults`.

`ReportIsExpected` needs to know how far the loops have come, in `ReportInv`: the
groups are the partition by key of the contexts seen so far; the answered contexts are those of the groups done and of the part
of the current one that the loop has passed; and each counter is the cardinality,
or the sum of months (`MonthsIn`), of the answered contexts of its kind. Sums over
finite sets are taken by adding one context at a time, which is what a step does.
At the end all contexts are answered, and the partition is the one predicted from
the plan.

`StepsRunOut` has a variant that counts the steps of the loops to come. It rests on
`FewGroups`: an iteration makes at most one group, so there are never more groups
than contexts.

Only model-checked: `EventuallyAnswered`, which is liveness. Its parts that can be
proved are: the steps run out, and an execution that is done has answered all.

## Parallel execution

### Correspondence

`Callers` are concurrent calls of `parallel_execute`, or of `execute_reference`,
in one Python process. A call goes through its plan slice by slice: all of it for a
plain `parallel_execute`, a number of cohorts for `execute_reference`. Per slice it
opens a pool and submits one future per batch (`Submit`), or executes in its own
thread if it has one worker (`ExecuteSequentially`); waits for the futures in order
(`Collect`, `CollectFailure`, `CollectedAll`); and leaves the pool's context manager
(`Leave`), which waits until the pool has nothing left to do, whether or not the
loop ended in an exception. `Return` is the end of the last slice.

A worker is seeded by three assignments to module globals (`SeedDefinition`,
`SeedUnits`, `SeedExecutor`), and its task reads them at three moments (`Take`,
`LoadDefinition`, `LoadExecutor`) before it executes (`Finish`). Each is an action,
because workers that are threads share the globals with those of other calls:
`Home` says which memory a worker sees. `Crash` is the death of a worker process,
after which the pool fails all that is unsettled.

| TLA+ | code |
|---|---|
| `call` | plan, `max_workers`, `chunk_size`, `slice_cohorts`, executor, `use_processes`; whether there is a timeout, and whether processes may die |
| `offset` | units of the slices done (`completed` in `execute_reference`) |
| `futures`, `collected` | `futures` and the position of the loop over them |
| `results` | `all_simulation_results`, over all slices |
| `progress` | the last `completed` given to the callback |
| `globals` | `_WORKER_EXPERIMENT_DEFINITION`, `_WORKER_UNITS`, `_WORKER_SIMULATION_EXECUTOR` |

The pool itself is a library. What is assumed of it: workers are started by
`submit`, between one and `max_workers` of them; each runs the initializer once and
then takes tasks in the order of submission; `__exit__` waits for all of them. An
answer carries the definition it was computed for, since wealth, name and default
horizon of a context come from the definition and the rest from the unit.

The answers are constants: `UnitAnswer` of an executor that gets units one by one,
`WholeAnswers` of one that advertises `processes_whole_definition` and gets a batch
as one definition. `MCParallelExecution` takes both from `HorizonDerivation`, by
`INSTANCE` with a definition for each batch; each part of a plan is evaluated once.

### Runs

`parallel` has one caller and every combination that matters of: one to three
workers, processes and threads, worker-sized batches and chunks, slices of one and
two cohorts, units that throw, timeouts, and processes that die.

- `ProgressIsHonest`: progress never shrinks, never runs ahead of the results, and
  is complete at the end.
- `ImplementsPlanExecution`: to its caller, all of this is one atomic step, which
  returns what `sequential_execute` would, or raises because a unit throws, a
  process died, or time ran out; a unit that throws is never swallowed. The step
  happens eventually, under weak fairness of each caller and each worker: they are
  threads or processes of their own, scheduled by the operating system, and a
  simulation ends (`ImplementsLifecycle`). A timeout does not bound the time of a
  call: it waits for all batches anyway.

`parallel_callers` has two callers. In one workload only one of them uses threads,
and neither notices the other: at any time the results are a prefix of those of
`sequential_execute`, and all of them on return (`InPlanOrder`, under the condition
`Isolated`). In another both use threads and have plans of different
length; then all that is left is `OneResultPerUnit`: tasks index the units one by
one, so an overwritten plan that is too short throws, and one that is long enough
gives results that nothing in the caller tells from its own.

`BatchesAddUp`, also of `parallel_callers`, does not ask for plans that may be cut
anywhere: each batch, or slice, of an isolated caller adds what the executor answers
for just that part, in the order of the plan, and none is passed over or taken
from another call, slice or batch, whatever else fails, is late or dies; the call
fails at its first part that throws. So the results follow from how the plan is cut,
and from nothing else. Two of the workloads are for it: a plan in which a unit
succeeds or fails depending on its batch, beside slices with a unit that throws and
processes that die, and a failing, timed call beside a sequential one. In the first,
`InPlanOrder` without `Composable` is violated, and `BatchesAddUp` is not.

`Composable` excludes plans for which the reference executor's answers depend on how
the plan is cut (the siblings of one horizon above).

Bounds. Four units in two or three batches, or in two slices of two batches, give
batches that are full, short, and missing for a worker; the last batch finishes
first in some schedule; with three workers there are a collected, an awaited and a
later batch at once. Plans have no unit twice, as `ResearchPlan` enforces. A longer
plan adds batches between the first and the last, which are treated like the
second, and the theorems below hold for all lengths. Deadlock is not checked: a call that
has returned or raised has no step left.

One more is proved and not run, though TLC agreed with it: `NobodyHangs`, that a
caller that waits for a batch, or for the end of its pool, has a worker that can go
on, also after batches have failed, come too late or died with their worker.

### Findings

2. `claim_thread_callers`, reproduced by running the code: the docstring of
   `parallel_execute` guarantees deterministic results. Two overlapping calls with
   `use_processes=False` share the module globals, and one returns the results of
   the other's units.

Without a run: the comment on `execute_reference` says that every horizon family
stays grouped. Slices respect cohorts, but `parallel_execute` cuts each slice into
batches of equal size, between units of one cohort; the family is then simulated
once per batch. And `docs/DESIGN.md:69` makes equality with sequential execution "a
hard correctness requirement" for every number of workers, but with the reference
executor the verdict of a context depends on its batch: a unit without a target
beside one of the same horizon that misses its own is a failure with one worker,
and a success with two.

### Proofs

`ParallelExecutionProofs` proves, for all callers, plans, chunks, slices and numbers
of workers, for processes and threads, timeouts and deaths, and for whatever the
executors answer: `TypeOK`, `NobodyHangs`, `OneResultPerUnit`, `InPlanOrder`,
`BatchesAddUp`, `ProgressIsHonest`, and that the steps implement those of `PlanExecution` as long as
every caller is isolated and its plan composable (`ImplementsSafely`). Assumed are
the named assumptions of `ParallelExecution`: plans are non-empty and name no unit
twice, `execute_reference` passes on what it does, and an executor gives one answer
for each unit it is handed.

None of these is inductive: a result is right because the future it was collected
from was answered by a worker that read the right globals. `IInv` has, for each
caller,

- `Control`: how `pc`, error, slice and progress go together;
- `Counted` and `Sized`: results, futures and batches cover the plan from its start,
  without gap or overlap (the sizes are divisions that round up, `RoundingUp`);
- `Held`: the running batches and the busy workers correspond one to one;
- `Seeded`: a worker past its initializer lives in a memory that was seeded;
- `Own`, if the caller is isolated: its memories hold its own plan (`Memory`), its
  tasks read that (`Tasks`), and futures and results are what the units give alone
  (`Answered`, `Gathered`).

An action of one caller disturbs `Own` of another only through a shared memory,
which `Isolated` excludes. TLC checked `IInv` as an invariant of both runs before it
was proved. The refinement maps the whole of a call to the step at which it
returns or raises; all other steps stutter.

`BatchesAddUp` is about steps: `Answered` gives what the awaited future holds, and
`NothingAdded` covers all steps but those that collect, fail or execute
sequentially. How the plan is cut is nowhere assumed.

`NobodyHangs` needs `PoolAlive` besides `IInv`: a pool with an unsettled batch has a
worker. Submitting starts one, a worker goes only with its pool or by dying, and a
death settles everything. A running batch is then held by
a worker that is busy with it (`Held`), and a pending one is there for any that is idle.

Only model-checked: the fairness part of `ImplementsPlanExecution`, which is
liveness.

## The study repository

### Correspondence

A client is a thread or process with connections of its own. A request is one call
of a public method, and an action is one statement, or a few that no other client
can come between. `Asks` are the calls; `Steps` what a client does by itself:

| action | code |
|---|---|
| `CheckIdentity`, `Compare`, `Undelete`, `InsertExperiment`, `InsertAssociations` | `save_experiment`, with the restore of a deleted one |
| `FindDeleted`, `Delete` | `logical_delete_experiment` |
| `ReadExperiment`, `ReadPolicies`, `ReadCohorts` | `load_experiment`, also when another operation calls it |
| `InsertPlan`, `InsertUnits`; `ReadPlan`, `ReadUnits` | `save_plan`; `load_plan` |
| `CheckStatus`, `CompletePlan`, `InsertResult`; `ReadResult`, `ReadSimulations` | `save_execution_result`; `load_execution_result` |
| `ExportExperiment`, `ExportPlan`, `ExportResult`, `ExportRows` | `get_export_data` |
| `Begin`, `Write`, `Commit`, `Rollback` | `with conn:` around statements |
| `Locked`, `LockedOut` | `_retry_on_lock`, and a lock where nothing retries |
| `Crash` | the process dies; the next one recovers the log |

`db` is what is committed and `draft` what the open transaction sees. SQLite is a
library; what is assumed of it is WAL mode as the code sets it: readers see the
last commit and never wait, a transaction takes the one write lock with its first
write and loses it to nobody, and a transaction that has read before it writes
cannot write once another has committed. `_connect_immediate` is in fact
`BEGIN DEFERRED`, by Python's default, which is why the latter can happen; the
model has it so. A lock may be refused whenever another client holds it, so busy
timeouts of any length are covered. The queries are operators on the tables
(`FindPlanByExperiment` and the others), and the properties compare them.

Rows are sets of records with the columns that the properties tell apart. Policies
in memory are more than their stored forms (`Form`): `_serialize_policy` leaves
out frequency and leverage. `Load` is `SimulationResultCodec`, with the marker
that stands for an empty timeline.

### Runs

`repository` has two clients and four requests among all operations, one name in two
revisions, experiments of one and of three policies two of which are stored alike, a
plan with a foreign cohort, results with and without months, two tries per write,
and crashes anywhere. It checks:

- `IdentitiesAndResultsAreUnique`, `CompletedIffResult`: the look-ups before a
  transaction do not see what commits meanwhile; constraints inside of it must.
- `StoredIsSaved`: no row of an experiment, plan or result is ever visible without
  all rows that belong to it, as one of its saves gave them.
- `AcknowledgedIsStored`: whoever was given an identifier finds its row.
- `AnswersAreCoherent`: loads and exports read statement by statement while others
  commit; what they return is whole, and of one study.
- `RefusedForAReason`: a retry never collides with what its own attempt stored.
- `QueriesAgree`: a plan found is listed, has a result that leads back to it, and
  a study found by name is listed with the latest of its plans.
- `NothingIsLost`, `RestoredOnlyIfEquivalent`: rows stay, content is immutable;
  what comes back from deletion is what was saved, but for what plans have added.
- `EveryRequestEnds`, under weak fairness of each client's steps (`Steps`: threads
  of their own, in code without loops but for the bounded retries); not of new
  requests or crashes.
- `ImplementsCatalog`: every operation takes effect at once or not at all.

Bounds: two clients suffice for every race of two requests, and four requests for an
experiment, its plan and result and one operation against them, or a delete and
two saves against each other. `MaxRequests` bounds `Asks`; `MaxTries` is
`max_retries`, 2 instead of 5. Deadlock is not checked: with all requests made and
ended nothing is left to do, and `EveryRequestEnds` says that none hangs.

One more is proved and not run, though TLC agreed with it: `RequestsRunOut`. Each step
of a client, a failed attempt at the lock included, brings its request nearer to
the end, which is at most 10 + `MaxTries` steps away, and nobody else sets it back.

### Findings

3. `claim_hidden_plans`: `logical_delete_experiment` "Sets deleted_at … on every of
   its research plans so they are hidden from all query APIs". `save_plan` loads the
   experiment and inserts the plan in another transaction, without asking again. A
   deletion between the two misses the plan, and `list_plans_for_experiment` shows it.
4. `claim_lossless`: `codecs.py:152` and `docs/DESIGN.md:223` promise a lossless
   round trip. The payload has no `failure_state`, so a simulation that failed by a
   margin call is loaded without the state it failed in.

Without a run, seen while modelling:

- A unit that starts at a foreign date makes it a cohort of the experiment, so an
  identical re-save after a deletion is refused as different. So is one of an
  experiment with two policies that are stored alike: INSERT OR IGNORE drops one.
- Restoring an experiment leaves its plans deleted, and their results in place;
  `find_result_by_plan` and `get_execution_result_metadata` still return them.
- `logical_delete_experiment` says that it does nothing without a matching row; it
  throws `StudyNotFoundError`.
- `save_plan` says that it verifies that the plan belongs to the experiment and is
  reconstructed exactly; it does neither, and a unit's own horizon, interest, limit
  and loan rate are not stored.
- `load_execution_result` takes an identifier of a result where its callers might
  pass a plan's, which it never finds.

### Proofs

For any number of clients, requests and tries, all experiments, units and results,
and wherever a client dies, two modules prove every property of the run
`repository` but `EveryRequestEnds`, and `RequestsRunOut`.
The assumptions are the named ones of `StudyRepository`.

`StudyRepositoryProofs`: `IdentitiesAndResultsAreUnique`, `CompletedIffResult`, and
`RowsStay`, the part of `NothingIsLost` about everything but the association rows.
None is inductive. `CompletedIffResult` is false of a draft between its two
statements; that no other client sees it needs `ControlInv` (who is inside of a
transaction, and what its request is), and that it is true again at the commit
needs `MatchInv` (only the writer between its statements sees them apart, and the
plan it has completed is there). `Keyed` holds for `db` and `draft` alike, because
keys are checked against the draft; `IdsInv` gives that a generated identifier is
nobody's; `Extends(db, draft)` makes a commit lose nothing. The lemmas go by kinds
of steps: `QuietStep` for reading, asking and answering, `DraftStep` for opening a
transaction, `MarkingStep` for marks of deletion, `AssociationStep` for rows of
other tables, `EndStep` for commit, rollback and crash; each action then needs only
what is its own.

`StudyContentProofs` adds what the tables say, in two layers on top of that
invariant, and the refinement.

- `ContentInv` (`ContentInductive`): the committed database is `Whole` (each
  experiment, plan and result has exactly the rows that one of its saves gave it,
  and all associations, cohorts, units and simulations belong to one), `Dated` and
  `Numbered`; and each client stands where its request says (`Asked`, `Placed`,
  `Aimed`), with a draft that is the database with the first statements of its
  operation applied (`Staged`). Hence a commit is one whole operation
  (`Published`, `Planned`, `Recorded`, `Deleted`, `Undeleted`), and one lemma for
  each of these shows that it keeps the database `Whole` and loses nothing.
  `StoredIsSaved`, `QueriesAgree`, `NothingIsLost` and `RestoredOnlyIfEquivalent`
  follow. A unit's dates and policies add rows to experiments saved long before,
  which is why `Whole` speaks of saves up to those additions.
- `AnswersInv` (`AnswersInductive`): what a client has been told is true of the
  database, and stays true while others commit, until it takes the answer: the row
  is there, the key was taken, the plan has its outcome. Tries and requests are
  counted. `AcknowledgedIsStored`, `RefusedForAReason` and `TypeOK` follow.
- `ImplementsCatalog` (`CatalogCorrect`): a committed step is one whole operation,
  so it remains to join the tables. `Studies`, `Plans` and `Outcomes` name the joined
  rows, and one lemma for each operation says what it does to them: a save adds one
  row and leaves the others alike (`SameInCatalog`, from which tables `Keyed` and
  `Whole` keep its rows apart), a mark changes its own. Every step that commits
  nothing is a stutter. That identifiers stay within `1 .. MaxRequests` is
  `IssuedInv`: identifiers issued, and requests that may still generate one, never
  exceed the requests made.

TLC checked `ContentInv` on the run `repository` before it was proved.

The links of an experiment are written one after the other, and INSERT OR IGNORE
lets earlier rows decide which later ones are dropped, so `LinkEach` is a recursive
function. Facts about all its steps are proved without an induction theorem, by the
least step that fails (`LeastNumber`), and so is the fact that the function defined
by recursion exists (`EachUseIsLinked`).

Two sections of `StudyContentProofs` are about requests under way.

- `ReadingInv` (`ReadingInductive`): what a load or an export has seen after each of
  its statements: a stored result with as many simulations and successes as it
  counts, the plan it is of, with all of its units, the experiment that plan is of, with
  all its policies and with cohorts of its save or of its plans. That stays true
  while others commit, because a commit only adds whole operations (`Grows`): what
  belongs to a row that was seen stays as it was, but for marks of deletion and the
  cohorts that plans add. `AnswersAreCoherent` follows when the last statement is done.
- `RequestsCorrect`: `Followers` lists, for each step of a client, the steps that may
  come after it, and `StepsFrom` counts down along it (`FollowersAreNearer`); a
  failed attempt at the lock stays where it is and spends a try. `AtSteps`
  says that a client is at a step of its request at all times, so that `StepsLeft` is
  a number. Commits and crashes of others do not change a client's own place.

Only model-checked: `EveryRequestEnds`, which is liveness. `RequestsRunOut` is the
part of it that can be proved; what remains is that a step is always enabled.

## Study planning

### Correspondence

`pc` is the stage of the builder: `ParseStudy` is `StudyConfiguration.from_yaml`,
`GenerateCohorts` the cohort generator, `ConfigureParameters` the parameter axes and
their product, `DefineExperiment` the representative policies, `LoadRates` the file
of borrowing rates, `Accumulate` one cohort of `build_omy_study_plan`, `PlanUnit`
and `PlanRetirementUnit` one turn of the double loop, `FinishPlan` the constructor
of `ResearchPlan`. A stage that throws ends in `Raise`.

| TLA+ | code |
|---|---|
| `study.settings` | value arrays and scalars of the YAML file, or of a constructed `StudyConfiguration` |
| `dataset` | dates of the snapshots |
| `sliced`, `policies`, `accumulated` | `dataset_cache`, `_withdraw_by_params`, `accumulation_cache` |
| a unit's `portfolio` | at which prices it was bought, contributed to and valued |
| a unit's `schedule` | the dates its borrowing rates are of |

Values are numbers and names without their types. A date is a month and a day;
market data misses no month (`DatasetsAssumption`), so months are counted.

### Runs

`planning` has 29 studies: constant allocation and glidepaths, explicit
configurations, scalars and arrays for every debt setting, targets, floating rates,
one-more-year studies, constructed studies with a cohort horizon of their own, and
thirteen that the parser, an axis, a configuration or the plan must refuse; over data of
two, four and six months, at the beginning and at the end of months, with rates
for all, for some and for none of them. Years have two months and accumulation two.

- `PlanIsProduct`: a finished plan has each feasible cohort with each declared
  combination, once. The combinations are defined axis by axis, apart from the
  counter by which the model takes them.
- `UnitsAreTheirOwn`: no cache hands a unit the dataset, policy, portfolio or rates
  of another; the rate of a month is the rate observed in that month of the market.
- `FamiliesShareTrajectory`: what the executors assume of plans (see above). Two
  units have the same policies if their configurations agree on all names but
  horizon and target, and have the same names: explicit configurations of one study
  may set different ones, and a name that is missing in one of them stands for the
  scalar of the study.
- `FailsForAReason`: each exception is one of the declaration or of missing data,
  and no study that must fail is planned: in particular no slice fails for a cohort
  that was found feasible.

Deadlock is checked: a builder that is stuck on a slice that is not there would be
one. There is no fairness and no liveness property: it is one pass over finite lists.

One more is proved and not run, though TLC agreed with it: `RetirementIsReady`. The
steps of a one-more-year build have no error path: a portfolio or a slice that is
missing would be an exception of `dict` or `Dataset`, and the model would be stuck.
The property says that the history of each accumulation is there, and for each next
unit the portfolio of its cohort and the history of the longest retirement.

### Findings

5. `claim_retirement_start`: `docs/DECISIONS.md:336` hands the accumulated portfolio
   over at the prices of `dataset[12]`, where the dataset of retirement starts.
   `_build_omy_retirement_plan` slices from the cohort's own date: retirement goes
   through the year of the accumulation again.

Without a run:

- The accumulation starts every cohort with the portfolio bought at the prices of
  the dataset's first month, not the cohort's.
- It multiplies the units by the price ratio and values them at the new prices:
  a return counts twice.
- One-more-year studies drop the loan terms, and plan every unit with the longest
  horizon, whatever its configuration says.
- Explicit configurations are not crossed with the interest, borrowing and threshold
  arrays, which are then ignored.
- A threshold of zero becomes the default of 20%, since `0 or default` is the default.
- `withdrawal_policy.frequency` is validated and never used.

### Proofs

`StudyPlanningProofs` proves all five properties and `RetirementIsReady`, for all studies, datasets and
files of rates, under three assumptions. `BoundsAssumption` has years and
accumulations of at least a month. `StudiesAssumption` says what a study is; of one
that is not read from YAML, and so is not parsed, it asks for horizons above zero. `DatasetsAssumption` has monthly
data without gaps: the generator of cohorts counts snapshots while the schedule of
rates counts months, and nothing in the code would notice that they differ.

**The product of axes** is made by a counter whose digits, in a radix that changes
with each axis, are positions of values (`CartesianProduct`). `Division` and
`DivisionIsUnique` say what `\div` and `%` are, `DigitsIdentify` that no two numbers
have the same digits, `DigitsAreFree` that every row of digits has a number. Hence
`ProductIsInjective` and `ProductIsComplete`, and with `OneMoreAxis` and
`CombinationsAreDeclared` that the product is the set of combinations defined axis
by axis. `RowsAndColumns` is the case of two digits: the double loop of units, and
explicit configurations crossed with the shared axes.

**The invariant** `PlanInvariant` says that everything the builder keeps is a
function of the study, the dataset and the place where it is kept. The k-th unit is
`UnitOf` its place in the double loop, and has what it needs (`UnitsAreOwn`); a
slice is the part of the dataset that its key names, an accumulation that of its
cohort, a policy that of some configuration with its key (`SlicesAreOwn`,
`AccumulationsAreOwn`, `PoliciesAreOwn`); an error has its reason (`ReasonFor`). TLC
checked it on the instance of `planning` before it was proved. None of the
properties is inductive: a unit takes its policy from whatever the cache holds.

Two lemmas carry the caches. `KeyDeterminesPolicy`: configurations with one key have
one policy, although the key turns both a missing value and zero into zero, since
the policy too treats them alike.
`LastingDeterminesPolicies`: policies depend on nothing but the names that
`FamiliesShareTrajectory` compares. `FeasibleComeFirst` and `HorizonIsBounded` say
that a feasible cohort has the data for every unit, unless a shorter horizon was set
for cohorts, which is the only way to the exception of `Dataset.slice`.

The code makes products and plans with nested loops, the model by position, and where a
proof needs induction it takes the least counterexample (`WellOrdering`). The
model says `Merged` and `WithEntry` where `@@` and `:>` would do, since the provers
do not know those.

Only model-checked: absence of deadlock as such, which is a statement about
ENABLED. `RetirementIsReady` is its part that could go wrong.

## The search for a safe withdrawal rate

### Correspondence

`Halve` is the loop's head with the midpoint, `EvaluateSingle` one turn of the
evaluator's loop over the shares of borrowing, `Infeasible` its end without
success, and `Return` the end of the search. A study may end in any way: each
evaluation chooses the cohorts that succeed, or throws (`EvaluationRaises`), so
no monotonicity of the outcomes is assumed.

Halving a `Decimal` is exact as long as its digits suffice. Integers stand for it in
a unit that halves with each midpoint: every number that is kept doubles, and
`rate' = low + high` is the midpoint in the new unit.

### Run

`search` covers domains that are inverted, of one rate, no wider than the precision,
and wider by powers of two and odd widths, three shares and two cohorts.

- `AnswerIsBest`: the answer was seen to succeed for all cohorts with the share it
  names, and with none of the shares before; no rate that was tried and succeeded
  is higher, in spite of outcomes in any order.
- `BracketIsTight`: the search ends within the precision of a rate refuted for all
  shares, or of the domain's upper end, and never tries the ends.
- `CandidateHalves`: every candidate halves the bracket, which bounds the number of
  studies.

The space is finite because the bracket shrinks below the precision.

Without a run: a domain of one rate is answered "No candidate satisfied success
criteria", though none was tried; with a precision of zero the loop would not end
(`DomainsAssumption` leaves it out).

### Proofs

`SafeWithdrawalSearchProofs` proves all three properties for every domain, grid, set
of cohorts and outcome. `BracketInv` says what the bracket's ends are, `GridInv`
that the shares tried are a refused prefix of the grid, `OutcomesInv` that no
outcome lies outside of the domain and no success above the lower end. The only
arithmetic is linear, once everything doubles.

## Not modelled

- Of the repository: schema migration and version checks, `get_result_statistics`,
  percentiles and grids (statistics over rows), the dataset cache, what a payload
  contains beyond success, months and failure state, and exceptions of reconstructing
  a unit from its rows (a slice that the dataset no longer has), which change no
  state. The SELECTs of a comparison, and of the last rows of an export, are one
  action each: what they read is immutable, but for cohorts and associations that
  plans add, which the properties allow for.
- Of study planning: reading files, `axis_from_range`, the range and start-date
  strategies of the cohort generator, which no builder calls, and values that are
  only passed on (LTV limit, loan draw rate, spread, contribution).
- The strategy comparator, the glidepath and CAPE policies, the research pipelines
  and aggregations: stateless functions over results or market data.
- Profiling: nothing reads what it records. Data scripts and comparison tools: I/O.
- Of parallel execution: the progress of a sequential call unit by unit, the removal
  of timelines for summaries, the assembly of contexts, `_worker_execute_batch` and
  `_worker_execute_batch_safe`, which nothing calls, and the routing of
  `execute_study_plan`.
- Of the two derivation executors: the recurrence's arithmetic, the numba kernel
  (floating point), residuals below a cent after a depletion, `max_drawdown`,
  timelines (the fast path returns none), the memo tables (functions of immutable
  data), and policies without the fields of a group key.
- Within the pipeline: units per asset and weights, drawdown statistics, dates, log
  and timing fields, validation of fields that the default order always sets, and
  contexts whose policies answer outside `PolicyType` (a borrowing share above one,
  negative rates).
