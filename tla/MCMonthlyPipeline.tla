------------------------- MODULE MCMonthlyPipeline -------------------------
(***************************************************************************)
(* Small instances of MonthlyPipeline.                                     *)
(***************************************************************************)
EXTENDS MonthlyPipeline

Rat(n, d) == [num |-> n, den |-> d]

Policy(kind, frequency, budget, draw) ==
    [kind |-> kind, frequency |-> frequency, budget |-> budget, draw |-> draw]

Context(horizon, snapshots, policy, rate, schedule, limit, enforced, target) ==
    [horizon_months |-> horizon, snapshots |-> snapshots, initial_wealth |-> 12,
     withdrawal_policy |-> policy, interest_rate |-> rate,
     interest_rate_schedule |-> schedule, ltv_limit |-> limit,
     ltv_enforcement |-> enforced, final_value_target |-> target]

MCMoves == {Rat(1, 2), Rat(1, 1), Rat(2, 1)}

\* Spending without debt: amounts that last, that exhaust 12 exactly in the
\* second month, and that deplete it; an annual cadence; a horizon of nothing,
\* one that outlives the dataset, and final-value targets of 1/2 and 1.
PlainContexts ==
    {Context(h, n, Policy("FixedReal", f, b, 0), Rat(0, 1), <<>>, Rat(0, 1), TRUE, t) :
        h \in {0, 1, 3}, n \in {2, 3}, f \in {"MONTHLY", "ANNUAL"},
        b \in {0, 3, 6, 13}, t \in {NoTarget, Rat(1, 2), Rat(1, 1)}}

\* Fixed draws (Part 49): below, equal to and above the withdrawal; limits of
\* 0, 1/2, 3/4, 1 and 2; a constant rate and a schedule shorter than the run.
LeverageContexts ==
    {Context(3, 3, Policy("Part49", "MONTHLY", 4, d), r, s, l, e, Rat(1, 2)) :
        d \in {2, 4, 6}, r \in {Rat(0, 1), Rat(1, 2)}, s \in {<<>>, <<Rat(1, 1)>>},
        l \in {Rat(0, 1), Rat(1, 2), Rat(3, 4), Rat(1, 1), Rat(2, 1)},
        e \in BOOLEAN}

\* Timing leverage (Part 52): half of the budget borrowed, or all of it.
TimingContexts ==
    {Context(4, 4, Policy("Part52", f, 4, d), Rat(1, 4), <<>>, l, e, NoTarget) :
        f \in {"MONTHLY", "ANNUAL"}, d \in {2, 4},
        l \in {Rat(1, 2), Rat(3, 4)}, e \in BOOLEAN}

MCContexts == PlainContexts \union LeverageContexts \union TimingContexts

----------------------------------------------------------------------------
(* What the repository's docs, comments and tests say of a simulation and  *)
(* its code does not do.  Each is checked alone and refuted.               *)

\* tests/unit/execution/test_debt_accounting_k5_1.py:210, "When cash fully
\* covers spending, portfolio is untouched": not past the rebalance.
CashFundedMonthKeepsPortfolio ==
    Recorded /\ CashFunded /\ ledger.liquidated = 0 => portfolio_value = ledger.value

============================================================================
