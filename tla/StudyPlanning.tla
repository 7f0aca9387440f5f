---------------------------- MODULE StudyPlanning ----------------------------
(***************************************************************************)
(* Building the plan of a study: a declared study is validated, its        *)
(* cohorts are generated from the dataset, its value arrays are multiplied *)
(* out, and every cohort meets every configuration in a planned unit.      *)
(* A one-more-year study accumulates a portfolio for every cohort first.   *)
(*                                                                         *)
(* A snapshot of a dataset is its date, a rate of a rates file its date.   *)
(* A portfolio is known by the prices that went into it.                   *)
(***************************************************************************)
EXTENDS Integers, Sequences, FiniteSets, SequencesExt

CONSTANTS
    Studies,            \* studies that may be declared
    Datasets,           \* sequences of dates
    RateFiles,          \* sets of dates with a borrowing rate, empty for no file
    NoValue,            \* None
    MonthLength,        \* days of each month
    MonthsPerYear,      \* 12
    AccumulationMonths, \* 12
    DefaultThreshold    \* the drawdown of 20% from which Part 52 borrows

Date(month, day) == [month |-> month, day |-> day]

Arrays == {"equity_allocation", "start_equity", "end_equity", "slope", "mode",
           "withdrawal_rate", "horizon_years", "final_value_target"}
ScalarsOrArrays == {"interest_rate", "borrow_pct", "drawdown_threshold"}
Settings == Arrays \union ScalarsOrArrays
Glidepath == <<"start_equity", "end_equity", "slope", "mode">>

ASSUME BoundsAssumption ==
    /\ MonthsPerYear \in Nat \ {0}
    /\ AccumulationMonths \in Nat \ {0}
\* A study is read from YAML or constructed; only the latter sets a horizon for
\* its cohorts apart from those it simulates (0 if not).
ASSUME StudiesAssumption ==
    \A s \in Studies :
        /\ s.omy \in BOOLEAN /\ s.yaml \in BOOLEAN
        /\ s.allocation \in {"constant", "glidepath"}
        /\ s.withdrawal \in {"fixed real", "timing"}
        /\ \A n \in Settings :
              /\ s.settings[n].kind \in {"absent", "scalar", "array"}
              /\ s.settings[n].values \in Seq(ToSet(s.settings[n].values))
        /\ ToSet(s.settings["horizon_years"].values) \subseteq Int
        /\ s.explicit \in BOOLEAN   \* allocation_policy.configurations is there
        /\ s.configurations \in Seq(ToSet(s.configurations))
        /\ s.loan_draw \in BOOLEAN
        /\ s.floating \in BOOLEAN   \* a dataset of borrowing rates is named
        /\ s.cohort_horizon \in Nat
        /\ ~s.yaml => /\ s.settings["horizon_years"].values # <<>>
                      /\ \A y \in ToSet(s.settings["horizon_years"].values) : y > 0
\* What Dataset validates, and that monthly data misses no month.
ASSUME DatasetsAssumption ==
    \A d \in Datasets :
        /\ d \in Seq([month : Nat, day : Nat]) /\ d # <<>>
        /\ \A i \in 1 .. Len(d) - 1 : d[i + 1].month = d[i].month + 1

VARIABLES
    study,
    dataset,
    rates,          \* the file of borrowing rates
    pc,
    error,          \* why the builder raised
    cohorts,        \* start dates
    configs,        \* parameter configurations: functions from names to values
    sliced,         \* dataset_cache
    policies,       \* _withdraw_by_params
    accumulated,    \* accumulation_cache
    accumulations,  \* history: how often accumulation ran
    units

vars == <<study, dataset, rates, pc, error, cohorts, configs, sliced, policies, accumulated,
          accumulations, units>>

inputs == <<study, dataset, rates>>

----------------------------------------------------------------------------
(* The declaration.                                                        *)

Kind(s, name) == s.settings[name].kind
Values(s, name) == s.settings[name].values
Declared(s, name) == Kind(s, name) # "absent"

AllocationNames(s) ==
    IF s.allocation = "glidepath" THEN Glidepath ELSE <<"equity_allocation">>

\* Names that a parser reads, all of them as non-empty arrays.
ParsedArrays(s) ==
    ToSet(AllocationNames(s)) \union {"withdrawal_rate", "horizon_years", "final_value_target"}

Required(s) ==
    {"withdrawal_rate", "horizon_years"} \union
        (IF s.allocation = "glidepath" /\ ~s.explicit THEN ToSet(Glidepath) ELSE {})

\* StudyConfiguration.from_yaml throws ValueError.
Malformed(s) ==
    \/ \E name \in ParsedArrays(s) :
          \/ Kind(s, name) = "scalar"
          \/ Kind(s, name) = "array" /\ Values(s, name) = <<>>
    \/ \E name \in Required(s) : ~Declared(s, name)
    \/ \E k \in DOMAIN Values(s, "horizon_years") : Values(s, "horizon_years")[k] <= 0
    \/ /\ s.explicit
       /\ \/ \E name \in ToSet(AllocationNames(s)) : Declared(s, name)
          \/ s.configurations = <<>>
    \/ s.loan_draw /\ ~Declared(s, "interest_rate")

\* ParameterAxis: values are there, each once.
ValidAxis(s, name) ==
    Values(s, name) # <<>> /\ IsInjective(Values(s, name))

IfDeclared(s, name) == IF Declared(s, name) THEN <<name>> ELSE <<>>

SharedAxes(s) ==
    <<"withdrawal_rate", "horizon_years">> \o IfDeclared(s, "final_value_target")

\* Explicit configurations are crossed with the shared axes only.
Axes(s) ==
    IF s.explicit THEN SharedAxes(s)
    ELSE AllocationNames(s) \o SharedAxes(s) \o IfDeclared(s, "interest_rate")
         \o IfDeclared(s, "borrow_pct") \o IfDeclared(s, "drawdown_threshold")

\* The number of combinations of the last axes: of none, one, two, ...
Combinations(s) ==
    LET names == Axes(s)
        number[n \in 0 .. Len(names)] ==
            IF n = 0 THEN 1
            ELSE number[n - 1] * Len(Values(s, names[Len(names) - n + 1]))
    IN  number

\* The value of the p-th axis in the k-th combination, the last axis varying fastest.
AxisValue(s, k, p) ==
    LET values == Values(s, Axes(s)[p])
        period == Combinations(s)[Len(Axes(s)) - p]
    IN  values[(((k - 1) \div period) % Len(values)) + 1]

\* MUTANT: the last combination is left out.
ProductButLast(s) ==
    LET names == Axes(s)
        axis == [name \in ToSet(names) |-> CHOOSE p \in DOMAIN names : names[p] = name]
    IN  [k \in 1 .. Combinations(s)[Len(names)] - 1 |->
            [name \in DOMAIN axis |-> AxisValue(s, k, axis[name])]]

\* ParameterSweepEngine.cartesian_product.
CartesianProduct(s) ==
    LET names == Axes(s)
        axis == [name \in ToSet(names) |-> CHOOSE p \in DOMAIN names : names[p] = name]
    IN  [k \in 1 .. Combinations(s)[Len(names)] |->
            [name \in DOMAIN axis |-> AxisValue(s, k, axis[name])]]

\* dict.update: what f says, and what g says of the rest.
Merged(f, g) == [x \in DOMAIN f \union DOMAIN g |-> IF x \in DOMAIN f THEN f[x] ELSE g[x]]

\* A dictionary with an entry set.
WithEntry(f, x, y) == [z \in DOMAIN f \union {x} |-> IF z = x THEN y ELSE f[z]]

\* _build_configs_from_explicit: what is crossed overrides what is configured.
Configurations(s) ==
    LET product == CartesianProduct(s)
        n == Len(product)
    IN  IF ~s.explicit THEN product
        ELSE [k \in 1 .. Len(s.configurations) * n |->
                 Merged(product[((k - 1) % n) + 1], s.configurations[((k - 1) \div n) + 1])]

LongestHorizon(s) == CHOOSE y \in ToSet(Values(s, "horizon_years")) :
                         \A z \in ToSet(Values(s, "horizon_years")) : z <= y

\* A retirement of so many years has an observation more than months.
Observations(years) == years * MonthsPerYear + 1

CohortHorizon(s) ==
    CASE s.omy -> AccumulationMonths + Observations(LongestHorizon(s))
      [] ~s.omy /\ s.cohort_horizon > 0 -> Observations(s.cohort_horizon)
      [] ~s.omy /\ s.cohort_horizon = 0 -> Observations(LongestHorizon(s))

----------------------------------------------------------------------------
(* What units are made of.                                                 *)

\* MUTANT: one snapshot too few is enough.
FeasibleButOne(d, i, horizon) == Len(d) - (i - 1) >= horizon - 1

\* CohortGenerator._is_feasible, of the snapshot at a position counted from 1.
Feasible(d, i, horizon) == Len(d) - (i - 1) >= horizon

\* MUTANT: the horizon is counted from the next snapshot.
NextSlice(d, date, horizon) ==
    LET i == CHOOSE i \in DOMAIN d : d[i] = date
    IN  IF i + horizon - 1 > Len(d) THEN {} ELSE {SubSeq(d, i, i + horizon)}

\* Dataset.slice; {} if it throws.
Slice(d, date, horizon) ==
    LET i == CHOOSE i \in DOMAIN d : d[i] = date
    IN  IF i + horizon - 1 > Len(d) THEN {} ELSE {SubSeq(d, i, i + horizon - 1)}

\* build_initial_portfolio: worth the initial wealth at the first prices.
InitialPortfolio(d) == [bought |-> d[1], contributed |-> <<>>, valued |-> d[1]]

\* run_accumulation_phase: a contribution at the prices of every month but the
\* last, the units scaled to the prices of the next.
Accumulation(portfolio, d) ==
    [portfolio EXCEPT !.contributed = @ \o SubSeq(d, 1, AccumulationMonths),
                      !.valued = d[AccumulationMonths + 1]]

\* A value of a configuration, or of the study if that declares one.
ValueOf(s, config, name) ==
    CASE name \in DOMAIN config -> config[name]
      [] name \notin DOMAIN config /\ Kind(s, name) = "scalar" -> Head(Values(s, name))
      [] OTHER -> NoValue

\* Only a target that the study declares counts.
TargetOf(s, config) ==
    IF Declared(s, "final_value_target") THEN config["final_value_target"] ELSE NoValue

\* Python's "x or y".
OrElse(x, y) == IF x \in {NoValue, 0} THEN y ELSE x

BuildWithdrawalPolicy(s, rate, borrow, threshold) ==
    IF s.withdrawal = "timing"
    THEN [rate |-> rate, borrow |-> OrElse(borrow, 0),
          threshold |-> OrElse(threshold, DefaultThreshold)]
    ELSE [rate |-> rate]

PolicyFor(s, config) ==
    BuildWithdrawalPolicy(s, config["withdrawal_rate"], ValueOf(s, config, "borrow_pct"),
                          ValueOf(s, config, "drawdown_threshold"))

\* MUTANT: the share to borrow is not part of the key.
KeyWithoutBorrow(s, config) ==
    <<config["withdrawal_rate"], OrElse(ValueOf(s, config, "drawdown_threshold"), 0)>>

\* The key under which the resolver keeps a withdrawal policy.
PolicyKey(s, config) ==
    <<config["withdrawal_rate"], OrElse(ValueOf(s, config, "borrow_pct"), 0),
      OrElse(ValueOf(s, config, "drawdown_threshold"), 0)>>

AllocationFor(s, config) == [name \in ToSet(AllocationNames(s)) |-> config[name]]

\* The k-th month from a start date, k = 0, 1, ...
PeriodDate(start, k) ==
    LET month == start.month + k
    IN  Date(month, IF start.day <= MonthLength[month] THEN start.day ELSE MonthLength[month])

Periods(start, horizon) == [k \in 1 .. horizon |-> PeriodDate(start, k - 1)]

----------------------------------------------------------------------------
Init ==
    /\ study \in Studies
    /\ dataset \in Datasets
    /\ rates \in RateFiles
    /\ pc = IF study.yaml THEN "parse" ELSE "cohorts"
    /\ error = "none"
    /\ cohorts = <<>>
    /\ configs = <<>>
    /\ sliced = <<>>
    /\ policies = <<>>
    /\ accumulated = <<>>
    /\ accumulations = <<>>
    /\ units = <<>>

Raise(why) ==
    /\ pc' = "raised"
    /\ error' = why
    /\ UNCHANGED <<inputs, cohorts, configs, sliced, policies, accumulated, accumulations, units>>

Goto(step) == pc' = step /\ UNCHANGED <<inputs, error, units>>

ParseStudy ==
    /\ pc = "parse"
    /\ IF Malformed(study) THEN Raise("study")
       ELSE /\ Goto("cohorts")
            /\ UNCHANGED <<cohorts, configs, sliced, policies, accumulated, accumulations>>

\* CohortGenerator.generate_rolling_monthly: fewer and fewer snapshots follow, so
\* the feasible ones come first.
GenerateCohorts ==
    /\ pc = "cohorts"
    /\ LET horizon == CohortHorizon(study)
           feasible == {i \in DOMAIN dataset : Feasible(dataset, i, horizon)}
       IN  IF Len(dataset) < horizon THEN Raise("dataset")
           ELSE /\ cohorts' = SubSeq(dataset, 1, Cardinality(feasible))
                /\ Goto("configurations")
                /\ UNCHANGED <<configs, sliced, policies, accumulated, accumulations>>

ConfigureParameters ==
    /\ pc = "configurations"
    /\ IF \/ \E name \in ToSet(Axes(study)) : ~ValidAxis(study, name)
          \/ study.explicit /\ <<>> \in ToSet(study.configurations)
       THEN Raise("configuration")
       ELSE /\ configs' = Configurations(study)
            /\ Goto(IF study.omy THEN "accumulation" ELSE "experiment")
            /\ UNCHANGED <<cohorts, sliced, policies, accumulated, accumulations>>

\* The experiment's own policies are those of the first configuration.
DefineExperiment ==
    /\ pc = "experiment"
    /\ IF configs # <<>> /\ ToSet(AllocationNames(study)) \subseteq DOMAIN configs[1]
       THEN /\ Goto(IF study.floating /\ ~study.omy THEN "rates" ELSE "units")
            /\ UNCHANGED <<cohorts, configs, sliced, policies, accumulated, accumulations>>
       ELSE Raise("configuration")

\* load_ffr_rates.
LoadRates ==
    /\ pc = "rates"
    /\ IF rates = {} THEN Raise("rates")
       ELSE /\ Goto("units")
            /\ UNCHANGED <<cohorts, configs, sliced, policies, accumulated, accumulations>>

\* The accumulation of the next cohort, if it is not there already.
Accumulate ==
    /\ pc = "accumulation"
    /\ LET todo == {i \in DOMAIN cohorts : cohorts[i] \notin DOMAIN accumulated}
           date == cohorts[CHOOSE i \in todo : \A j \in todo : i <= j]
       IN  IF todo = {}
           THEN Goto("experiment") /\ UNCHANGED <<accumulated, accumulations>>
           ELSE \E d \in Slice(dataset, date, AccumulationMonths + 1) :
                   /\ accumulated' =
                         WithEntry(accumulated, date, Accumulation(InitialPortfolio(dataset), d))
                   /\ accumulations' = Append(accumulations, date)
                   /\ Goto("accumulation")
    /\ UNCHANGED <<cohorts, configs, sliced, policies>>

\* MUTANT: configurations outside, cohorts inside.
CohortsInside(k) == <<((k - 1) % Len(cohorts)) + 1, ((k - 1) \div Len(cohorts)) + 1>>

\* The k-th cohort and configuration of the double loop.
LoopPosition(k) == <<((k - 1) \div Len(configs)) + 1, ((k - 1) % Len(configs)) + 1>>

Missing(config) == ~(ToSet(AllocationNames(study)) \subseteq DOMAIN config)

Planned == Len(units) = Len(cohorts) * Len(configs)

NextCohort == cohorts[LoopPosition(Len(units) + 1)[1]]
NextConfig == configs[LoopPosition(Len(units) + 1)[2]]

\* The slice for a unit, from the cache if it is there.
CachedSlice(date, horizon) ==
    IF <<date, horizon>> \in DOMAIN sliced THEN {sliced[<<date, horizon>>]}
    ELSE Slice(dataset, date, horizon)

\* materialize_research_plan, one unit.
PlanUnit ==
    /\ pc = "units" /\ ~study.omy /\ ~Planned
    /\ LET date == NextCohort
           config == NextConfig
           horizon == Observations(config["horizon_years"])
           key == PolicyKey(study, config)
           policy == IF key \in DOMAIN policies THEN policies[key] ELSE PolicyFor(study, config)
           schedule == IF study.floating THEN Periods(date, horizon) ELSE <<>>
       IN  CASE Missing(config) -> Raise("configuration")
             [] ~Missing(config) /\ CachedSlice(date, horizon) = {} -> Raise("history")
             [] ~Missing(config) /\ CachedSlice(date, horizon) # {}
                /\ ~(ToSet(schedule) \subseteq rates) -> Raise("rates")
             [] OTHER ->
                \E d \in CachedSlice(date, horizon) :
                   /\ units' = Append(units,
                         [cohort |-> date, config |-> config,
                          allocation |-> AllocationFor(study, config), withdrawal |-> policy,
                          portfolio |-> InitialPortfolio(d), dataset |-> d, horizon |-> horizon,
                          target |-> TargetOf(study, config),
                          interest |-> ValueOf(study, config, "interest_rate"),
                          schedule |-> schedule])
                   /\ sliced' = WithEntry(sliced, <<date, horizon>>, d)
                   /\ policies' = WithEntry(policies, key, policy)
                   /\ UNCHANGED <<inputs, pc, error, cohorts, configs, accumulated, accumulations>>

\* _build_omy_retirement_plan, one unit: every one has the longest horizon, none
\* has a loan, and the resolver with its cache is made anew.
PlanRetirementUnit ==
    /\ pc = "units" /\ study.omy /\ ~Planned
    /\ LET date == NextCohort
           config == NextConfig
           horizon == Observations(LongestHorizon(study))
       IN  IF Missing(config) THEN Raise("configuration")
           ELSE \E d \in CachedSlice(date, horizon) :
                   /\ units' = Append(units,
                         [cohort |-> date, config |-> config,
                          allocation |-> AllocationFor(study, config),
                          withdrawal |-> PolicyFor(study, config),
                          portfolio |-> accumulated[date], dataset |-> d, horizon |-> horizon,
                          target |-> TargetOf(study, config),
                          interest |-> NoValue, schedule |-> <<>>])
                   /\ sliced' = WithEntry(sliced, <<date, horizon>>, d)
                   /\ UNCHANGED <<inputs, pc, error, cohorts, configs, policies, accumulated,
                                  accumulations>>

\* ResearchPlan: no two units of one cohort and configuration.
FinishPlan ==
    /\ pc = "units" /\ Planned
    /\ IF IsInjective([k \in DOMAIN units |-> <<units[k].cohort, units[k].config>>])
       THEN /\ Goto("done")
            /\ UNCHANGED <<cohorts, configs, sliced, policies, accumulated, accumulations>>
       ELSE Raise("duplicate")

\* Nothing follows a plan or an exception; a build that is stuck elsewhere, on a
\* slice that is not there, is a deadlock.
Terminating == pc \in {"done", "raised"} /\ UNCHANGED vars

Next ==
    \/ ParseStudy
    \/ GenerateCohorts
    \/ ConfigureParameters
    \/ DefineExperiment
    \/ LoadRates
    \/ Accumulate
    \/ PlanUnit
    \/ PlanRetirementUnit
    \/ FinishPlan
    \/ Terminating

Spec == Init /\ [][Next]_vars

----------------------------------------------------------------------------
(* Properties.                                                             *)

\* Types, and what the caches hold: slices of exactly the horizon of their key,
\* accumulations of cohorts only, each made once.
TypeOK ==
    /\ study \in Studies /\ dataset \in Datasets /\ rates \in RateFiles
    /\ pc \in {"parse", "cohorts", "configurations", "experiment", "rates", "accumulation",
               "units", "done", "raised"}
    /\ pc = "raised" <=> error # "none"
    /\ ToSet(cohorts) \subseteq ToSet(dataset)
    /\ \A key \in DOMAIN sliced :
          /\ key[1] \in ToSet(cohorts)
          /\ Len(sliced[key]) = key[2]
    /\ IsInjective(accumulations)
    /\ ToSet(accumulations) = DOMAIN accumulated /\ DOMAIN accumulated \subseteq ToSet(cohorts)

\* All ways to take one value of each axis, and these with what is configured.
DeclaredCombinations(s) ==
    LET names == Axes(s)
        first[n \in 0 .. Len(names)] ==
            IF n = 0 THEN {<<>>}
            ELSE {WithEntry(f, names[n], v) : f \in first[n - 1], v \in ToSet(Values(s, names[n]))}
    IN  first[Len(names)]
DeclaredConfigurations(s) ==
    IF s.explicit
    THEN {Merged(f, base) : f \in DeclaredCombinations(s), base \in ToSet(s.configurations)}
    ELSE DeclaredCombinations(s)

\* A finished plan is the whole study: each feasible cohort meets each declared
\* combination in exactly one unit.
PlanIsProduct ==
    pc = "done" =>
        LET pairs == [k \in DOMAIN units |-> <<units[k].cohort, units[k].config>>]
            feasible == {dataset[i] : i \in 1 .. Len(dataset) - CohortHorizon(study) + 1}
        IN  /\ IsInjective(pairs)
            /\ ToSet(pairs) = feasible \X DeclaredConfigurations(study)

\* Nothing a unit gets from a cache is another's: dataset, policies, wealth and
\* borrowing rates are those of its own cohort and configuration, and the rate
\* of a month is the rate observed in the month of its market data.
UnitsAreTheirOwn ==
    \A k \in DOMAIN units :
        LET u == units[k]
            start == CHOOSE i \in DOMAIN dataset : dataset[i] = u.cohort
        IN  /\ u.dataset = SubSeq(dataset, start, start + u.horizon - 1)
            /\ u.withdrawal = PolicyFor(study, u.config)
            /\ u.allocation = AllocationFor(study, u.config)
            /\ IF study.omy
               THEN /\ u.portfolio.contributed = SubSeq(dataset, start, start + AccumulationMonths - 1)
                    /\ u.horizon >= Observations(u.config["horizon_years"])
               ELSE /\ u.portfolio.valued = u.cohort /\ u.portfolio.contributed = <<>>
                    /\ u.horizon = Observations(u.config["horizon_years"])
            /\ u.schedule # <<>> =>
                  /\ Len(u.schedule) = Len(u.dataset)
                  /\ \A i \in DOMAIN u.schedule :
                        u.schedule[i].month = u.dataset[i].month /\ u.schedule[i] \in rates

\* What the executors derive results from: the units of a cohort follow each
\* other in the plan, start from one portfolio, and see of one market and one
\* course of borrowing rates as much as their horizon; those that differ in
\* horizon and target only have the same policies and interest.
FamiliesShareTrajectory ==
    \A k, l \in DOMAIN units :
        LET u == units[k]
            v == units[l]
            own(config) ==
                Restrict(config, DOMAIN config \ {"horizon_years", "final_value_target"})
        IN  k < l /\ u.cohort = v.cohort =>
                /\ \A m \in k .. l : units[m].cohort = u.cohort
                /\ u.portfolio = v.portfolio
                /\ u.horizon <= v.horizon =>
                      IsPrefix(u.dataset, v.dataset) /\ IsPrefix(u.schedule, v.schedule)
                /\ own(u.config) = own(v.config) =>
                      u.withdrawal = v.withdrawal /\ u.allocation = v.allocation
                      /\ u.interest = v.interest

\* The dates that borrowing rates are needed for.
NeededDates ==
    UNION {ToSet(Periods(cohorts[i], Observations(LongestHorizon(study)))) : i \in DOMAIN cohorts}

\* A study fails only for what it declares or for data that is not there, and
\* never succeeds in spite of it: cohorts are feasible for every unit, unless a
\* shorter horizon was set for them.
FailsForAReason ==
    /\ error = "dataset" => Len(dataset) < CohortHorizon(study)
    /\ error = "history" => study.cohort_horizon \in 1 .. LongestHorizon(study) - 1
    /\ error = "rates" => study.floating /\ ~study.omy /\ ~(NeededDates \subseteq rates)
    /\ error = "duplicate" => study.explicit
    /\ pc = "done" /\ study.floating /\ ~study.omy => NeededDates \subseteq rates
    /\ pc = "done" => ~(study.cohort_horizon \in 1 .. LongestHorizon(study) - 1) \/ study.omy

\* A one-more-year build always finds what it goes on with: history for every
\* accumulation, and for the next unit the accumulated portfolio of its cohort and
\* history for the longest retirement (none of these steps has an error path).
RetirementIsReady ==
    /\ pc = "accumulation" =>
          \A i \in DOMAIN cohorts : Slice(dataset, cohorts[i], AccumulationMonths + 1) # {}
    /\ pc = "units" /\ study.omy /\ ~Planned =>
          /\ NextCohort \in DOMAIN accumulated
          /\ CachedSlice(NextCohort, Observations(LongestHorizon(study))) # {}

=============================================================================
