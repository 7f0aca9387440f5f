-------------------------- MODULE MonthlyPipeline --------------------------
(***************************************************************************)
(* One simulation: SimulationRunner.run driving the default pipeline of    *)
(* fourteen steps month after month, until the horizon, the end of the     *)
(* dataset, a failure, or an exception.                                    *)
(*                                                                         *)
(* Money is a natural number.  The portfolio is represented by its value   *)
(* at the prices of the current snapshot: rebalancing changes the split    *)
(* between assets, not the sum, and the split matters to no property here. *)
(* A new snapshot scales the value by one of the ratios in Moves.          *)
(*                                                                         *)
(* pc names the next pipeline step, or "Done" once the runner has left its *)
(* loop, or "Raised" once a step has thrown out of run().                  *)
(***************************************************************************)
EXTENDS WithdrawalPolicies, Integers, Sequences

CONSTANTS
    Contexts,     \* the simulation contexts to run
    Moves         \* portfolio returns between two snapshots, as ratios

Ratio == [num: Nat, den: Nat \ {0}]

NoTarget == [num |-> 0, den |-> 1]      \* final_value_target is None

\* Either some n/(n+1) (0, 1/2, 3/4, ...), for which liquidation amounts are
\* whole, or at least 1.
LimitType == {r \in Ratio : r.den = r.num + 1 \/ r.den <= r.num}

\* SimulationContext.  Rates are per month.
ContextType ==
    [horizon_months: Nat,
     snapshots: Nat \ {0},              \* length of the dataset, never empty
     initial_wealth: Nat \ {0},
     withdrawal_policy: PolicyType,
     interest_rate: Ratio,
     interest_rate_schedule: Seq(Ratio),
     ltv_limit: LimitType,
     ltv_enforcement: BOOLEAN,
     final_value_target: Ratio]

ASSUME ContextsAssumption == Contexts \subseteq ContextType
ASSUME MovesAssumption == Moves \subseteq Ratio

VARIABLES
    ctx,              \* the context of this run; never changes
    pc,
    status,
    failure_state,
    period_index,
    portfolio_value,  \* the portfolio at the prices of the current snapshot
    current_wealth,   \* the cache of that value kept in SimulationState
    loan_balance,
    cash_balance,
    loan_seen,        \* loan balance in the decision context's DebtInfo
    decision,         \* the month's WithdrawalDecision
    monthly_results,
    ledger            \* history: the month's opening balances and flows

vars == <<ctx, pc, status, failure_state, period_index, portfolio_value,
          current_wealth, loan_balance, cash_balance, loan_seen, decision,
          monthly_results, ledger>>

run_vars == <<ctx, status, failure_state, period_index>>
debt_vars == <<loan_balance, cash_balance>>

----------------------------------------------------------------------------
(* The pipeline order and the runner's loop.  Definitions marked MUTANT are *)
(* plausible bugs the properties are tested against; no action uses them.  *)

PipelineOrder ==
    [InitializeAllocation |-> "BuildDecisionContext",
     BuildDecisionContext |-> "WithdrawalDecision",
     WithdrawalDecision   |-> "LoanDraw",
     LoanDraw             |-> "WithdrawalExecution",
     WithdrawalExecution  |-> "LoanRepayment",
     LoanRepayment        |-> "AllocationDecision",
     AllocationDecision   |-> "PortfolioRebalance",
     PortfolioRebalance   |-> "MarketEvolution",
     MarketEvolution      |-> "InterestAccrual",
     InterestAccrual      |-> "LTVEvaluation",
     LTVEvaluation        |-> "MonthlyResultBuilder",
     MonthlyResultBuilder |-> "FailureDetection",
     FailureDetection     |-> "SimulationStateUpdate",
     SimulationStateUpdate |-> "InitializeAllocation"]

\* MUTANT: interest accrues after the LTV has been evaluated.
InterestAfterLTV ==
    [PipelineOrder EXCEPT !["MarketEvolution"] = "LTVEvaluation",
                          !["LTVEvaluation"] = "InterestAccrual",
                          !["InterestAccrual"] = "MonthlyResultBuilder"]

\* MUTANT: the margin call comes before the portfolio is revalued.
LTVBeforeEvolution ==
    [PipelineOrder EXCEPT !["PortfolioRebalance"] = "LTVEvaluation",
                          !["LTVEvaluation"] = "MarketEvolution",
                          !["InterestAccrual"] = "MonthlyResultBuilder"]

StepAfter == PipelineOrder

Steps == DOMAIN StepAfter

\* A step that neither fails nor finishes the simulation.
Continue(step) ==
    /\ pc = step
    /\ pc' = StepAfter[step]
    /\ UNCHANGED run_vars

\* A step that may set failure_state: the runner then stops at once.
ContinueOrFail(step, failure) ==
    /\ pc = step
    /\ failure_state' = failure
    /\ status' = IF failure = "none" THEN status ELSE "FAILED"
    /\ pc' = IF failure = "none" THEN StepAfter[step] ELSE "Done"
    /\ UNCHANGED <<ctx, period_index>>

\* A step that throws: no result is built.
Raise(step) ==
    /\ pc = step
    /\ pc' = "Raised"
    /\ UNCHANGED <<run_vars, portfolio_value, current_wealth, debt_vars,
                   loan_seen, decision, monthly_results, ledger>>

----------------------------------------------------------------------------
(* Arithmetic of the domain services.                                      *)

Scale(amount, ratio) == (amount * ratio.num) \div ratio.den

Lesser(a, b) == IF a <= b THEN a ELSE b

\* A portfolio at the next snapshot's prices.  Prices are positive, so rounding
\* may not make holdings worthless.
Reprice(value, move) == IF Scale(value, move) = 0 THEN 1 ELSE Scale(value, move)

\* MUTANT: a shortfall is not reported.
IgnoreShortfall(value, requested) ==
    [remaining |-> IF requested > value THEN 0 ELSE value - requested, depleted |-> FALSE]

\* PortfolioWithdrawalService.execute_withdrawal on a portfolio worth value.
\* Withdrawing exactly the value leaves nothing and is not a depletion.
ExecuteWithdrawal(value, requested) ==
    IF requested > value
    THEN [remaining |-> 0, depleted |-> TRUE]
    ELSE [remaining |-> value - requested, depleted |-> FALSE]

\* MUTANT: every margin call sells everything.
LiquidateEverything(loan, value, limit) == value

\* LTVEvaluationStep._calculate_liquidation
Liquidation(loan, value, limit) ==
    IF limit.den <= limit.num
    THEN value
    ELSE (loan * limit.den - limit.num * value) \div (limit.den - limit.num)

\* loan / value > limit, without dividing.
Exceeds(loan, value, limit) == loan * limit.den > limit.num * value

OpenLedger(value, cash, loan) ==
    [value |-> value, cash |-> cash, loan |-> loan,
     repaid |-> 0, interest |-> 0, liquidated |-> 0]

----------------------------------------------------------------------------
(* SimulationRunner._initialize_state.                                     *)

Init ==
    /\ ctx \in Contexts
    /\ status = IF ctx.horizon_months = 0 THEN "COMPLETED" ELSE "RUNNING"
    /\ pc = IF ctx.horizon_months = 0 THEN "Done" ELSE "InitializeAllocation"
    /\ failure_state = "none"
    /\ period_index = 0
    /\ portfolio_value = ctx.initial_wealth
    /\ current_wealth = ctx.initial_wealth
    /\ loan_balance = 0
    /\ cash_balance = 0
    /\ loan_seen = 0
    /\ decision = NoWithdrawal
    /\ monthly_results = <<>>
    /\ ledger = OpenLedger(ctx.initial_wealth, 0, 0)

----------------------------------------------------------------------------
(* The steps, in pipeline order.                                           *)

\* Seeds the allocation of month 0 and is a no-op afterwards.  It would throw
\* for a worthless portfolio, which no month starts its life with.
InitializeAllocation ==
    /\ Continue("InitializeAllocation")
    /\ UNCHANGED <<portfolio_value, current_wealth, debt_vars, loan_seen,
                   decision, monthly_results, ledger>>

\* DebtInfo exists when there is a loan or a rate; Part 52 reads no DebtInfo
\* as no loan.
BuildDecisionContext ==
    /\ Continue("BuildDecisionContext")
    /\ loan_seen' =
        IF loan_balance > 0 \/ ctx.interest_rate.num > 0 THEN loan_balance ELSE 0
    /\ UNCHANGED <<portfolio_value, current_wealth, debt_vars, decision,
                   monthly_results, ledger>>

WithdrawalDecision ==
    /\ Continue("WithdrawalDecision")
    /\ \E in_drawdown, is_ath \in BOOLEAN :
          decision' = Decide(ctx.withdrawal_policy, period_index, loan_seen,
                             in_drawdown, is_ath)
    /\ UNCHANGED <<portfolio_value, current_wealth, debt_vars, loan_seen,
                   monthly_results, ledger>>

LoanDraw ==
    /\ Continue("LoanDraw")
    /\ loan_balance' = loan_balance + decision.draw
    /\ cash_balance' = cash_balance + decision.draw
    /\ UNCHANGED <<portfolio_value, current_wealth, loan_seen, decision,
                   monthly_results, ledger>>

\* MUTANT: the whole spending, although cash paid for a part of it.
ChargeSpending(sale, spending) == spending

\* The amount the withdrawal service is asked for.
Charged(sale, spending) == IF sale > 0 THEN sale ELSE spending

\* Cash first, the portfolio for the rest.  When cash covers the spending the
\* service is asked about the whole withdrawal and only its remaining value is
\* kept, in the cache.
WithdrawalExecution ==
    LET spending == decision.nominal
        cash_consumed == Lesser(cash_balance, spending)
        sale == spending - cash_consumed
        result == ExecuteWithdrawal(portfolio_value, Charged(sale, spending))
    IN  /\ ContinueOrFail("WithdrawalExecution",
                          IF sale > 0 /\ result.depleted THEN "depleted" ELSE failure_state)
        /\ cash_balance' = cash_balance - cash_consumed
        /\ current_wealth' = result.remaining
        /\ portfolio_value' = IF sale > 0 THEN result.remaining ELSE portfolio_value
        /\ UNCHANGED <<loan_balance, loan_seen, decision, monthly_results, ledger>>

\* Half of a doubled withdrawal repays the loan, as far as there is a loan.
LoanRepayment ==
    LET excess == decision.nominal - decision.nominal \div 2
        repayment == IF decision.is_repayment /\ loan_balance > 0
                     THEN Lesser(excess, loan_balance) ELSE 0
    IN  /\ Continue("LoanRepayment")
        /\ loan_balance' = loan_balance - repayment
        /\ ledger' = [ledger EXCEPT !.repaid = repayment]
        /\ UNCHANGED <<portfolio_value, current_wealth, cash_balance, loan_seen,
                       decision, monthly_results>>

\* The target weights sum to one, so the target never matters to the value.
AllocationDecision ==
    /\ Continue("AllocationDecision")
    /\ UNCHANGED <<portfolio_value, current_wealth, debt_vars, loan_seen,
                   decision, monthly_results, ledger>>

\* The holdings are rebuilt from the cached wealth, not from the portfolio.
PortfolioRebalance ==
    /\ Continue("PortfolioRebalance")
    /\ portfolio_value' = current_wealth
    /\ UNCHANGED <<current_wealth, debt_vars, loan_seen, decision,
                   monthly_results, ledger>>

\* Revalues at the same snapshot; no allocation exists for a worthless portfolio.
MarketEvolution ==
    \/ /\ portfolio_value > 0
       /\ Continue("MarketEvolution")
       /\ current_wealth' = portfolio_value
       /\ UNCHANGED <<portfolio_value, debt_vars, loan_seen, decision,
                      monthly_results, ledger>>
    \/ /\ portfolio_value = 0
       /\ Raise("MarketEvolution")

\* The month's rate is the scheduled one while the schedule lasts.
MonthlyRate ==
    IF period_index < Len(ctx.interest_rate_schedule)
    THEN ctx.interest_rate_schedule[period_index + 1]
    ELSE ctx.interest_rate

InterestAccrual ==
    LET interest == IF loan_balance > 0 THEN Scale(loan_balance, MonthlyRate) ELSE 0
    IN  /\ Continue("InterestAccrual")
        /\ loan_balance' = loan_balance + interest
        /\ ledger' = [ledger EXCEPT !.interest = interest]
        /\ UNCHANGED <<portfolio_value, current_wealth, cash_balance, loan_seen,
                       decision, monthly_results>>

MarginCall ==
    /\ loan_balance > 0
    /\ portfolio_value > 0
    /\ Exceeds(loan_balance, portfolio_value, ctx.ltv_limit)
    /\ ctx.ltv_enforcement

\* Sells what the limit asks for, or everything, and repays the loan with it.
\* The cache keeps the value from before the sale.
LTVEvaluation ==
    LET sold == IF MarginCall
                THEN Lesser(Liquidation(loan_balance, portfolio_value, ctx.ltv_limit),
                            portfolio_value)
                ELSE 0
    IN  /\ Continue("LTVEvaluation")
        /\ portfolio_value' = portfolio_value - sold
        /\ loan_balance' = loan_balance - sold
        /\ ledger' = [ledger EXCEPT !.liquidated = sold]
        /\ UNCHANGED <<current_wealth, cash_balance, loan_seen, decision,
                       monthly_results>>

MonthRecord == [period_index: Nat, value: Nat, loan: Nat, cash: Nat]

MonthlyResultBuilder ==
    /\ Continue("MonthlyResultBuilder")
    /\ monthly_results' =
          Append(monthly_results, [period_index |-> period_index,
                                   value |-> portfolio_value,
                                   loan |-> loan_balance,
                                   cash |-> cash_balance])
    /\ UNCHANGED <<portfolio_value, current_wealth, debt_vars, loan_seen,
                   decision, ledger>>

\* MUTANT: debt above the portfolio is not a failure.
DetectDepletionOnly == IF portfolio_value = 0 THEN "depleted" ELSE failure_state

DetectedFailure ==
    CASE portfolio_value = 0 -> "depleted"
      [] portfolio_value > 0 /\ loan_balance > portfolio_value -> "margin_call_impossible"
      [] OTHER -> failure_state

FailureDetection ==
    /\ ContinueOrFail("FailureDetection", DetectedFailure)
    /\ UNCHANGED <<portfolio_value, current_wealth, debt_vars, loan_seen,
                   decision, monthly_results, ledger>>

\* MUTANT: one month too many.
LastMonthOffByOne == period_index >= ctx.horizon_months \/ period_index >= ctx.snapshots

\* The last month of the horizon, or of a dataset that ends before it.
LastMonth ==
    \/ period_index + 1 >= ctx.horizon_months
    \/ period_index + 1 >= ctx.snapshots

\* Completes the simulation, or opens the next month at the next prices.
SimulationStateUpdate ==
    /\ pc = "SimulationStateUpdate"
    /\ UNCHANGED <<ctx, failure_state, current_wealth, debt_vars, loan_seen,
                   decision, monthly_results>>
    /\ \/ /\ LastMonth
          /\ status' = "COMPLETED"
          /\ pc' = "Done"
          /\ UNCHANGED <<period_index, portfolio_value, ledger>>
       \/ /\ ~LastMonth
          /\ period_index' = period_index + 1
          /\ pc' = StepAfter["SimulationStateUpdate"]
          /\ \E move \in Moves : portfolio_value' = Reprice(portfolio_value, move)
          /\ ledger' = OpenLedger(portfolio_value', cash_balance, loan_balance)
          /\ UNCHANGED status

Next ==
    \/ InitializeAllocation
    \/ BuildDecisionContext
    \/ WithdrawalDecision
    \/ LoanDraw
    \/ WithdrawalExecution
    \/ LoanRepayment
    \/ AllocationDecision
    \/ PortfolioRebalance
    \/ MarketEvolution
    \/ InterestAccrual
    \/ LTVEvaluation
    \/ MonthlyResultBuilder
    \/ FailureDetection
    \/ SimulationStateUpdate

Spec == Init /\ [][Next]_vars

\* run() is a plain loop: nothing but a step's own exception stops it.
FairSpec == Spec /\ WF_vars(Next)

----------------------------------------------------------------------------
(* DefaultSimulationStatisticsBuilder.build, on the state the loop left.   *)

Survived == status = "COMPLETED" /\ failure_state = "none"

MeetsTarget(wealth) ==
    wealth * ctx.final_value_target.den >= ctx.final_value_target.num * ctx.initial_wealth

Statistics ==
    [final_wealth |-> current_wealth,
     success |-> Survived /\ MeetsTarget(current_wealth),
     failure_state |-> failure_state,
     failure_month |-> IF failure_state = "none" THEN -1 ELSE period_index,
     months_simulated |-> Len(monthly_results)]

\* The months a simulation that survives goes through.
DueMonths == Lesser(ctx.horizon_months, ctx.snapshots)

\* Cash (the month's draw and what earlier draws left) covers the spending.
CashFunded ==
    /\ decision.nominal > 0
    /\ ledger.cash + decision.draw >= decision.nominal

\* The policy never draws more in a month than that month spends.
Covered ==
    LET policy == ctx.withdrawal_policy
    IN  \/ policy.kind = "Part52" /\ 2 * policy.draw <= policy.budget
        \/ policy.kind # "Part52" /\ policy.draw <= policy.budget

NetWorth == portfolio_value + cash_balance - loan_balance

Insolvent(month) == month.value = 0 \/ month.loan > month.value

----------------------------------------------------------------------------
(* Invariants.                                                             *)

TypeOK ==
    /\ ctx \in Contexts
    /\ pc \in Steps \union {"Done", "Raised"}
    /\ status \in {"RUNNING", "COMPLETED", "FAILED"}
    /\ failure_state \in {"none", "depleted", "margin_call_impossible"}
    /\ period_index \in Nat
    /\ portfolio_value \in Nat
    /\ current_wealth \in Nat
    /\ loan_balance \in Nat
    /\ cash_balance \in Nat
    /\ loan_seen \in Nat
    /\ decision \in DecisionType
    /\ monthly_results \in Seq(MonthRecord)
    /\ ledger \in [value: Nat, cash: Nat, loan: Nat,
                   repaid: Nat, interest: Nat, liquidated: Nat]

Recorded == pc \in {"FailureDetection", "SimulationStateUpdate"}

\* The timeline holds one record per finished month, in order, and the month
\* under way is recorded exactly once, by MonthlyResultBuilderStep.
TimelineFollowsMonths ==
    /\ \A i \in 1 .. Len(monthly_results) : monthly_results[i].period_index = i - 1
    /\ pc \in Steps =>
          Len(monthly_results) = IF Recorded THEN period_index + 1 ELSE period_index

\* A completed simulation has recorded every month it was due, a failed one the
\* months before its failure month, and the failure month itself exactly when
\* that month ended insolvent (a failed withdrawal leaves no record).
OutcomeMatchesTimeline ==
    pc = "Done" =>
        LET months == Statistics.months_simulated
            failed == Statistics.failure_month
        IN  \/ /\ status = "COMPLETED"
               /\ months = DueMonths
               /\ failed = -1
            \/ /\ status = "FAILED"
               /\ months \in {failed, failed + 1}
               /\ months = failed + 1 <=> months > 0 /\ Insolvent(monthly_results[months])

\* A simulation counted as a success was solvent at the end of every month.
SuccessMeansSolvent ==
    pc = "Done" /\ Statistics.success =>
        \A i \in 1 .. Len(monthly_results) : ~Insolvent(monthly_results[i])

\* With enforcement on, no month ends above the LTV limit with assets left.
EnforcedLimitHolds ==
    ctx.ltv_enforcement =>
        \A i \in 1 .. Len(monthly_results) :
            LET month == monthly_results[i]
            IN  month.value > 0 => ~Exceeds(month.loan, month.value, ctx.ltv_limit)

\* Over a month whose spending the portfolio paid for at least in part, net
\* worth falls by the spending, rises by the repayment, and falls by interest;
\* draws, rebalancing and margin calls move money without losing any.
LedgerBalances ==
    Recorded /\ ~CashFunded =>
        NetWorth = ledger.value + ledger.cash - ledger.loan
                   - decision.nominal + ledger.repaid - ledger.interest

\* The wealth cache is fresh when the portfolio is rebuilt from it, unless
\* cash funded the month, and from the margin call to the end of the month it
\* exceeds the portfolio by exactly what was liquidated.
CacheTracksPortfolio ==
    /\ pc \in {"LoanRepayment", "AllocationDecision", "PortfolioRebalance"} /\ ~CashFunded
          => current_wealth = portfolio_value
    /\ pc \in {"MarketEvolution", "InterestAccrual", "LTVEvaluation"}
          => current_wealth = portfolio_value
    /\ pc = "MonthlyResultBuilder" \/ Recorded \/ (pc = "Done" /\ status = "COMPLETED"
                                                   /\ ctx.horizon_months > 0)
          => current_wealth = portfolio_value + ledger.liquidated

\* run() throws only after a month whose withdrawal took the portfolio to
\* exactly zero: a sale of all of it, or a cash-funded month as large.
RaisesOnlyAtExhaustion ==
    pc = "Raised" =>
        /\ failure_state = "none"
        /\ \/ CashFunded /\ decision.nominal >= ledger.value
           \/ decision.nominal = ledger.value + ledger.cash + decision.draw

\* Cash is empty outside of the withdrawal when the policy never draws more in
\* a month than that month spends.
DrawsAreSpent == Covered /\ pc # "WithdrawalExecution" => cash_balance = 0

----------------------------------------------------------------------------
(* Action properties.                                                      *)

\* A margin call that leaves assets leaves the loan exactly at the limit.
MarginCallRestoresLimit ==
    [][pc = "LTVEvaluation" /\ loan_balance' # loan_balance /\ portfolio_value' > 0
        => loan_balance' * ctx.ltv_limit.den = ctx.ltv_limit.num * portfolio_value']_vars

\* The timing policy borrows only when it is free of debt, whatever interest
\* and repayments did since its last draw.
TimingBorrowsOnlyDebtFree ==
    [][pc = "LoanDraw" /\ ctx.withdrawal_policy.kind = "Part52" /\ loan_balance' > loan_balance
        => loan_balance = 0]_vars

----------------------------------------------------------------------------
(* Refinement and liveness.                                                *)

\* What a caller sees of the run.
Outcome ==
    CASE pc = "Raised" -> "aborted"
      [] pc = "Done" /\ status = "FAILED" -> "failed"
      [] pc = "Done" /\ status # "FAILED" -> "completed"
      [] pc \notin {"Done", "Raised"} -> "running"

Lifecycle ==
    INSTANCE SimulationLifecycle WITH
        due     <- DueMonths,
        months  <- Len(monthly_results),
        outcome <- Outcome

\* The pipeline implements the lifecycle: months are recorded one by one and
\* every run ends completed, failed or aborted.
ImplementsLifecycle == Lifecycle!Spec

============================================================================
