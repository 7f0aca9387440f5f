-------------------------- MODULE MCStudyPlanning --------------------------
(***************************************************************************)
(* Small instances of StudyPlanning: years of two months, accumulations of *)
(* two, at most six months of data.                                        *)
(***************************************************************************)
EXTENDS StudyPlanning, TLC

MCMonthLength == <<31, 28, 31, 30, 31, 30, 31, 31>>

FirstOfMonth(n) == [k \in 1 .. n |-> Date(k, 1)]
EndOfMonth(n) == [k \in 1 .. n |-> Date(k, MCMonthLength[k])]

MCDatasets == {FirstOfMonth(n) : n \in {2, 4, 6}} \union {EndOfMonth(4)}
MCRateFiles == {ToSet(FirstOfMonth(6)), ToSet(SubSeq(FirstOfMonth(6), 2, 6)),
                ToSet(EndOfMonth(6)), {}}

Absent == [kind |-> "absent", values |-> <<>>]
Scalar(value) == [kind |-> "scalar", values |-> <<value>>]
Array(values) == [kind |-> "array", values |-> values]

Study(settings) ==
    [omy |-> FALSE, yaml |-> TRUE, allocation |-> "constant", withdrawal |-> "fixed real",
     settings |-> settings @@ [name \in Settings |-> Absent],
     explicit |-> FALSE, configurations |-> <<>>, loan_draw |-> FALSE, floating |-> FALSE,
     cohort_horizon |-> 0]

Rates == "withdrawal_rate" :> Array(<<3, 4>>)
Horizons(years) == "horizon_years" :> Array(years)
Equities == "equity_allocation" :> Array(<<60, 80>>)
Targets == "final_value_target" :> Array(<<0, 50>>)

Plain == Study(Rates @@ Horizons(<<1, 2>>) @@ Equities)
Timing(borrow, threshold) ==
    [Study(Rates @@ Horizons(<<1, 2>>) @@ "equity_allocation" :> Array(<<60>>)
           @@ "interest_rate" :> Scalar(5)
           @@ "borrow_pct" :> borrow @@ "drawdown_threshold" :> threshold)
     EXCEPT !.withdrawal = "timing"]

GlidepathAxes ==
    "start_equity" :> Array(<<60, 80>>) @@ "end_equity" :> Array(<<100>>)
    @@ "slope" :> Array(<<1, 2>>) @@ "mode" :> Array(<<"passive", "active">>)
Gliding(settings) == [Study(Rates @@ Horizons(<<1>>) @@ settings) EXCEPT !.allocation = "glidepath"]
Glide(start, slope) ==
    "start_equity" :> start @@ "end_equity" :> 100 @@ "slope" :> slope @@ "mode" :> "active"

Explicit(s, configurations) ==
    [s EXCEPT !.explicit = TRUE, !.configurations = configurations,
              !.settings["equity_allocation"] = Absent]

\* Studies that are well-formed, with all kinds of axes.
WellFormed ==
    {Plain, Study(Rates @@ Horizons(<<2, 1>>) @@ Equities @@ Targets),
     Timing(Array(<<0, 10>>), Absent), Timing(Array(<<10, 20>>), Array(<<0, 30>>)),
     Timing(Scalar(10), Scalar(0)), Timing(Absent, Scalar(30)),
     Gliding(GlidepathAxes),
     Explicit(Gliding(<<>>), <<Glide(60, 1), Glide(80, 2)>>),
     Explicit(Timing(Absent, Scalar(30)),
              <<"equity_allocation" :> 60, "equity_allocation" :> 60 @@ "borrow_pct" :> 10,
                "equity_allocation" :> 60 @@ "interest_rate" :> 7>>),
     Explicit(Study(Rates @@ Horizons(<<1>>) @@ Targets),
              <<"equity_allocation" :> 60, "equity_allocation" :> 60 @@ "withdrawal_rate" :> 3>>)}

\* Studies that the parser, an axis, a configuration or the plan refuses.
IllFormed ==
    {Study(Rates @@ Horizons(<<0>>) @@ Equities),
     Study(Horizons(<<1>>) @@ Equities),
     Study(Rates @@ Horizons(<<1>>)),
     Study(Rates @@ Horizons(<<1, 1>>) @@ Equities),
     Study(Rates @@ Horizons(<<1>>) @@ "equity_allocation" :> Scalar(60)),
     Gliding("start_equity" :> Array(<<60>>)),
     [Plain EXCEPT !.loan_draw = TRUE],
     [Plain EXCEPT !.explicit = TRUE, !.configurations = <<"equity_allocation" :> 60>>],
     Explicit(Study(Rates @@ Horizons(<<1>>)), <<>>),
     Explicit(Study(Rates @@ Horizons(<<1>>)), <<"equity_allocation" :> 60, <<>>>>),
     Explicit(Study(Rates @@ Horizons(<<1>>)), <<"equity_allocation" :> 60, "slope" :> 1>>),
     Explicit(Study(Rates @@ Horizons(<<1>>)), <<"slope" :> 1>>),
     Explicit(Study(Rates @@ Horizons(<<1>>)),
              <<"equity_allocation" :> 60, "equity_allocation" :> 60>>)}

\* Studies that are constructed, with a horizon for their cohorts.
Constructed(s, years) == [s EXCEPT !.yaml = FALSE, !.cohort_horizon = years]

Floating == {[s EXCEPT !.floating = TRUE] : s \in {Plain, Timing(Array(<<10, 20>>), Scalar(30))}}

OneMoreYear == {[s EXCEPT !.omy = TRUE, !.yaml = FALSE, !.floating = s.withdrawal = "timing"]
                    : s \in {Study(Rates @@ Horizons(<<1>>) @@ Equities @@ Targets),
                             Timing(Scalar(10), Scalar(30))}}

MCStudies ==
    WellFormed \union IllFormed \union Floating \union OneMoreYear
    \union {Constructed(Plain, years) : years \in 1 .. 2}

RetirementStudies == OneMoreYear

----------------------------------------------------------------------------
(* What the documentation says.                                            *)

\* "The accumulation phase produces a final portfolio at dataset[12] prices.
\* This portfolio becomes the initial_portfolio for the retirement simulation",
\* whose dataset starts there (DECISIONS.md).
RetirementFollowsAccumulation ==
    study.omy => \A k \in DOMAIN units : units[k].portfolio.valued = units[k].dataset[1]

=============================================================================
