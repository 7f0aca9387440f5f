----------------------- MODULE MonthlyPipelineProofs -----------------------
(***************************************************************************)
(* Proofs about MonthlyPipeline, for every context and every price move.   *)
(***************************************************************************)
EXTENDS MonthlyPipeline, TLAPS

USE DEF StepAfter, PipelineOrder

----------------------------------------------------------------------------
(* Facts about the operators of the model.                                 *)

\* The pipeline order is closed: the successor of a step is a step.
LEMMA StepNames ==
    Steps = {"InitializeAllocation", "BuildDecisionContext", "WithdrawalDecision",
             "LoanDraw", "WithdrawalExecution", "LoanRepayment", "AllocationDecision",
             "PortfolioRebalance", "MarketEvolution", "InterestAccrual",
             "LTVEvaluation", "MonthlyResultBuilder", "FailureDetection",
             "SimulationStateUpdate"}
BY DEF Steps

\* Scaling an amount by a ratio gives an amount.
LEMMA ScaleType ==
    ASSUME NEW amount \in Nat, NEW ratio \in Ratio
    PROVE  Scale(amount, ratio) \in Nat
BY DEF Scale, Ratio

\* Revaluation never makes a portfolio worthless.
LEMMA RepriceType ==
    ASSUME NEW value \in Nat, NEW move \in Ratio
    PROVE  Reprice(value, move) \in Nat \ {0}
BY ScaleType DEF Reprice

LEMMA LesserType ==
    ASSUME NEW a \in Nat, NEW b \in Nat
    PROVE  /\ Lesser(a, b) \in Nat
           /\ Lesser(a, b) <= a
           /\ Lesser(a, b) <= b
           /\ Lesser(a, b) = a \/ Lesser(a, b) = b
BY DEF Lesser

\* A decision is well formed, whatever the policy and the signals.
LEMMA DecideType ==
    ASSUME NEW policy \in PolicyType, NEW period \in Nat, NEW seen \in Nat,
           NEW in_drawdown \in BOOLEAN, NEW is_ath \in BOOLEAN
    PROVE  Decide(policy, period, seen, in_drawdown, is_ath) \in DecisionType
<1>1. policy.kind = "FixedReal" \/ policy.kind = "Part49" \/ policy.kind = "Part52"
  BY DEF PolicyType
<1>2. policy.budget \in Nat /\ policy.draw \in Nat
  BY DEF PolicyType
<1>3. policy.kind = "Part52" => policy.budget - policy.draw \in Nat
  BY <1>2 DEF PolicyType
<1> QED
  BY <1>1, <1>2, <1>3 DEF Decide, DecideActive, FixedRealDecision, Part49Decision,
     Part52Decision, NoWithdrawal, DecisionType

\* The timing policy answers with a draw only when it saw no loan.
LEMMA TimingDraws ==
    ASSUME NEW policy \in PolicyType, NEW period \in Nat, NEW seen \in Nat,
           NEW in_drawdown \in BOOLEAN, NEW is_ath \in BOOLEAN,
           policy.kind = "Part52", seen # 0
    PROVE  Decide(policy, period, seen, in_drawdown, is_ath).draw = 0
<1>1. Part52Decision(policy, seen, in_drawdown, is_ath).draw = 0
  BY DEF Part52Decision, FixedRealDecision
<1>2. DecideActive(policy, seen, in_drawdown, is_ath)
        = Part52Decision(policy, seen, in_drawdown, is_ath)
  BY DEF DecideActive
<1> QED
  BY <1>1, <1>2 DEF Decide, NoWithdrawal

\* A withdrawal leaves what the request left, and reports a depletion exactly
\* when the request was more than the portfolio.
LEMMA WithdrawalType ==
    ASSUME NEW value \in Nat, NEW requested \in Nat
    PROVE  /\ ExecuteWithdrawal(value, requested).remaining \in Nat
           /\ ExecuteWithdrawal(value, requested).depleted <=> requested > value
           /\ requested <= value =>
                 ExecuteWithdrawal(value, requested).remaining = value - requested
           /\ requested > value => ExecuteWithdrawal(value, requested).remaining = 0
BY DEF ExecuteWithdrawal

\* What a margin call sells is at most the portfolio and at most the loan, and
\* if anything is left the loan left is exactly at the limit.
LEMMA MarginCallSale ==
    ASSUME NEW loan \in Nat, NEW value \in Nat, NEW limit \in LimitType,
           Exceeds(loan, value, limit),
           NEW sold, sold = Lesser(Liquidation(loan, value, limit), value)
    PROVE  /\ sold \in Nat
           /\ sold <= value
           /\ sold <= loan
           /\ sold < value =>
                 (loan - sold) * limit.den = limit.num * (value - sold)
<1> DEFINE n == limit.num
           d == limit.den
<1>1. n \in Nat /\ d \in Nat /\ d > 0 /\ (d = n + 1 \/ d <= n)
  BY DEF LimitType, Ratio
<1>2. loan * d > n * value
  BY DEF Exceeds
<1>3. CASE d <= n
  <2>1. sold = value
    BY <1>3, <1>1 DEF Liquidation, Lesser
  <2>2. n * value >= d * value
    BY <1>1, <1>3
  <2>3. loan * d > value * d
    BY <1>1, <1>2, <2>2
  <2>4. loan > value
    BY <1>1, <2>3
  <2> QED
    BY <2>1, <2>4
<1>4. CASE d = n + 1
  <2>1. Liquidation(loan, value, limit) = loan * d - n * value
    BY <1>1, <1>4 DEF Liquidation
  <2>2. loan * d = loan * n + loan
    BY <1>1, <1>4
  <2>3. loan * d - n * value \in Nat
    BY <1>1, <1>2
  <2>4. sold \in Nat /\ sold <= value /\ sold <= loan * d - n * value
        /\ (sold = value \/ sold = loan * d - n * value)
    BY <2>1, <2>3, LesserType
  <2>5. sold <= loan
    <3>1. CASE loan <= value
      <4>1. n * loan <= n * value
        BY <1>1, <3>1
      <4> QED
        BY <4>1, <2>2, <2>4, <1>1
    <3>2. CASE loan > value
      BY <3>2, <2>4
    <3> QED
      BY <3>1, <3>2
  <2>6. ASSUME sold < value
        PROVE  (loan - sold) * d = n * (value - sold)
    <3>1. sold = loan * d - n * value
      BY <2>4, <2>6
    <3>2. (loan - sold) * d = loan * d - sold * n - sold
      BY <1>1, <1>4, <2>4
    <3>3. n * (value - sold) = n * value - sold * n
      BY <1>1, <2>4
    <3> QED
      BY <3>1, <3>2, <3>3, <1>1, <2>4
  <2> QED
    BY <2>4, <2>5, <2>6
<1> QED
  BY <1>1, <1>3, <1>4

----------------------------------------------------------------------------
(* Type correctness.                                                       *)

\* The policy, the rates and the limit of a context have their types.
LEMMA ContextFacts ==
    ASSUME TypeOK
    PROVE  /\ ctx \in ContextType
           /\ ctx.horizon_months \in Nat
           /\ ctx.snapshots \in Nat \ {0}
           /\ ctx.initial_wealth \in Nat \ {0}
           /\ ctx.withdrawal_policy \in PolicyType
           /\ ctx.interest_rate \in Ratio
           /\ ctx.ltv_limit \in LimitType
           /\ ctx.ltv_enforcement \in BOOLEAN
           /\ DueMonths \in Nat
<1>1. ctx \in ContextType
  BY ContextsAssumption DEF TypeOK
<1>2. ctx.horizon_months \in Nat /\ ctx.snapshots \in Nat \ {0}
  BY <1>1 DEF ContextType
<1>3. DueMonths \in Nat
  BY <1>2, LesserType DEF DueMonths
<1> QED
  BY <1>1, <1>2, <1>3 DEF ContextType, LimitType

\* The rate of a month is a ratio, from the schedule or from the context.
LEMMA MonthlyRateType ==
    ASSUME TypeOK
    PROVE  MonthlyRate \in Ratio
<1>1. ctx.interest_rate \in Ratio /\ ctx.interest_rate_schedule \in Seq(Ratio)
  BY ContextFacts DEF ContextType
<1>2. period_index \in Nat
  BY DEF TypeOK
<1> QED
  BY <1>1, <1>2 DEF MonthlyRate

\* SimulationState only ever holds values of its declared types: no step makes
\* an amount negative, and the pipeline order never leads outside the steps.
THEOREM TypeCorrect == Spec => []TypeOK
<1>1. Init => TypeOK
  <2> SUFFICES ASSUME Init PROVE TypeOK
    OBVIOUS
  <2>1. ctx \in ContextType
    BY ContextsAssumption DEF Init
  <2>2. ctx.initial_wealth \in Nat
    BY <2>1 DEF ContextType
  <2> QED
    BY <2>2, StepNames DEF Init, TypeOK, OpenLedger, NoWithdrawal, DecisionType
<1>2. TypeOK /\ [Next]_vars => TypeOK'
  <2> SUFFICES ASSUME TypeOK, [Next]_vars PROVE TypeOK'
    OBVIOUS
  <2> USE StepNames
  <2>1. CASE InitializeAllocation
    BY <2>1 DEF InitializeAllocation, Continue, TypeOK, run_vars, debt_vars
  <2>2. CASE BuildDecisionContext
    BY <2>2 DEF BuildDecisionContext, Continue, TypeOK, run_vars, debt_vars
  <2>3. CASE WithdrawalDecision
    <3>1. decision' \in DecisionType
      BY <2>3, DecideType, ContextFacts DEF WithdrawalDecision, TypeOK
    <3> QED
      BY <2>3, <3>1 DEF WithdrawalDecision, Continue, TypeOK, run_vars, debt_vars
  <2>4. CASE LoanDraw
    BY <2>4 DEF LoanDraw, Continue, TypeOK, run_vars, debt_vars, DecisionType
  <2>5. CASE WithdrawalExecution
    <3> DEFINE spending == decision.nominal
               consumed == Lesser(cash_balance, spending)
               sale == spending - consumed
               result == ExecuteWithdrawal(portfolio_value, Charged(sale, spending))
    <3>1. spending \in Nat /\ cash_balance \in Nat
      BY DEF TypeOK, DecisionType
    <3>2. consumed \in Nat /\ consumed <= cash_balance /\ consumed <= spending
      BY <3>1, LesserType
    <3>3. sale \in Nat /\ Charged(sale, spending) \in Nat
      BY <3>1, <3>2 DEF Charged
    <3>4. result.remaining \in Nat
      BY <3>3, WithdrawalType DEF TypeOK
    <3>5. portfolio_value' \in Nat /\ current_wealth' \in Nat /\ cash_balance' \in Nat
      BY <2>5, <3>1, <3>2, <3>4 DEF WithdrawalExecution, TypeOK
    <3>6. failure_state' \in {"none", "depleted", "margin_call_impossible"}
      BY <2>5 DEF WithdrawalExecution, ContinueOrFail, TypeOK
    <3>7. status' \in {"RUNNING", "COMPLETED", "FAILED"}
          /\ pc' \in Steps \union {"Done", "Raised"}
      BY <2>5 DEF WithdrawalExecution, ContinueOrFail, TypeOK
    <3> QED
      BY <2>5, <3>5, <3>6, <3>7 DEF WithdrawalExecution, ContinueOrFail, TypeOK
  <2>6. CASE LoanRepayment
    <3> DEFINE excess == decision.nominal - decision.nominal \div 2
               repayment == IF decision.is_repayment /\ loan_balance > 0
                            THEN Lesser(excess, loan_balance) ELSE 0
    <3>1. decision.nominal \in Nat /\ loan_balance \in Nat
      BY DEF TypeOK, DecisionType
    <3>2. excess \in Nat
      BY <3>1
    <3>3. repayment \in Nat /\ repayment <= loan_balance
      BY <3>1, <3>2, LesserType
    <3>4. loan_balance' \in Nat
      BY <2>6, <3>1, <3>3 DEF LoanRepayment
    <3>5. ledger' = [ledger EXCEPT !.repaid = repayment]
      BY <2>6 DEF LoanRepayment
    <3>6. pc' \in Steps /\ UNCHANGED run_vars
      BY <2>6 DEF LoanRepayment, Continue
    <3> HIDE DEF repayment
    <3> QED
      BY <2>6, <3>3, <3>4, <3>5, <3>6 DEF LoanRepayment, TypeOK, run_vars
  <2>7. CASE AllocationDecision
    BY <2>7 DEF AllocationDecision, Continue, TypeOK, run_vars, debt_vars
  <2>8. CASE PortfolioRebalance
    BY <2>8 DEF PortfolioRebalance, Continue, TypeOK, run_vars, debt_vars
  <2>9. CASE MarketEvolution
    BY <2>9 DEF MarketEvolution, Continue, Raise, TypeOK, run_vars, debt_vars
  <2>10. CASE InterestAccrual
    <3> DEFINE interest == IF loan_balance > 0 THEN Scale(loan_balance, MonthlyRate) ELSE 0
    <3>1. loan_balance \in Nat
      BY DEF TypeOK
    <3>2. interest \in Nat
      BY <3>1, MonthlyRateType, ScaleType
    <3>3. loan_balance' \in Nat
      BY <2>10, <3>1, <3>2 DEF InterestAccrual
    <3>4. ledger' = [ledger EXCEPT !.interest = interest]
      BY <2>10 DEF InterestAccrual
    <3>5. pc' \in Steps /\ UNCHANGED run_vars
      BY <2>10 DEF InterestAccrual, Continue
    <3> HIDE DEF interest
    <3> QED
      BY <2>10, <3>2, <3>3, <3>4, <3>5 DEF InterestAccrual, TypeOK, run_vars
  <2>11. CASE LTVEvaluation
    <3> DEFINE sold == IF MarginCall
                       THEN Lesser(Liquidation(loan_balance, portfolio_value, ctx.ltv_limit),
                                   portfolio_value)
                       ELSE 0
    <3>1. loan_balance \in Nat /\ portfolio_value \in Nat
      BY DEF TypeOK
    <3>2. sold \in Nat /\ sold <= loan_balance /\ sold <= portfolio_value
      BY <3>1, ContextFacts, MarginCallSale DEF MarginCall
    <3>3. loan_balance' \in Nat /\ portfolio_value' \in Nat
      BY <2>11, <3>1, <3>2 DEF LTVEvaluation
    <3>4. ledger' = [ledger EXCEPT !.liquidated = sold]
      BY <2>11 DEF LTVEvaluation
    <3>5. pc' \in Steps /\ UNCHANGED run_vars
      BY <2>11 DEF LTVEvaluation, Continue
    <3> HIDE DEF sold
    <3> QED
      BY <2>11, <3>2, <3>3, <3>4, <3>5 DEF LTVEvaluation, TypeOK, run_vars
  <2>12. CASE MonthlyResultBuilder
    BY <2>12 DEF MonthlyResultBuilder, MonthRecord, Continue, TypeOK, run_vars, debt_vars
  <2>13. CASE FailureDetection
    <3>1. DetectedFailure \in {"none", "depleted", "margin_call_impossible"}
      BY DEF DetectedFailure, TypeOK
    <3> QED
      BY <2>13, <3>1 DEF FailureDetection, ContinueOrFail, TypeOK, debt_vars
  <2>14. CASE SimulationStateUpdate
    <3>1. CASE LastMonth
      BY <2>14, <3>1 DEF SimulationStateUpdate, TypeOK, debt_vars
    <3>2. CASE ~LastMonth
      <4>1. portfolio_value' \in Nat
        BY <2>14, <3>2, RepriceType, MovesAssumption DEF SimulationStateUpdate, TypeOK
      <4> QED
        BY <2>14, <3>2, <4>1 DEF SimulationStateUpdate, TypeOK, debt_vars, OpenLedger
    <3> QED
      BY <3>1, <3>2
  <2>15. CASE UNCHANGED vars
    BY <2>15 DEF vars, TypeOK
  <2> QED
    BY <2>1, <2>2, <2>3, <2>4, <2>5, <2>6, <2>7, <2>8, <2>9, <2>10, <2>11,
       <2>12, <2>13, <2>14, <2>15 DEF Next
<1> QED
  BY <1>1, <1>2, PTL DEF Spec

----------------------------------------------------------------------------
(* The inductive invariant, in five parts.                                 *)

Live == pc \in Steps \union {"Raised"}

Completed == pc = "Done" /\ status = "COMPLETED"

\* The status agrees with the program counter and with the failure state, and
\* the month under way is one of the due months.
StatusInv ==
    /\ Live => status = "RUNNING" /\ failure_state = "none" /\ period_index < DueMonths
    /\ pc = "Done" =>
          \/ /\ status = "COMPLETED"
             /\ failure_state = "none"
             /\ period_index + 1 = DueMonths \/ (period_index = 0 /\ DueMonths = 0)
          \/ /\ status = "FAILED"
             /\ failure_state # "none"
             /\ period_index < DueMonths

\* Every month before the one under way was recorded, and ended solvent; the
\* one under way is recorded from MonthlyResultBuilder on.
TimelineInv ==
    /\ \A i \in 1 .. Len(monthly_results) : monthly_results[i].period_index = i - 1
    /\ Live => Len(monthly_results) = IF Recorded THEN period_index + 1 ELSE period_index
    /\ Completed => Len(monthly_results) = DueMonths
    /\ pc = "Done" /\ status = "FAILED" =>
          Len(monthly_results) \in {period_index, period_index + 1}
    /\ \A i \in 1 .. Len(monthly_results) :
          i <= period_index => ~Insolvent(monthly_results[i])
    /\ pc = "FailureDetection" =>
          /\ monthly_results[period_index + 1].value = portfolio_value
          /\ monthly_results[period_index + 1].loan = loan_balance
    /\ pc = "SimulationStateUpdate" \/ Completed =>
          \A i \in 1 .. Len(monthly_results) : ~Insolvent(monthly_results[i])
    /\ pc = "Done" /\ status = "FAILED" /\ Len(monthly_results) = period_index + 1 =>
          Insolvent(monthly_results[period_index + 1])

\* With enforcement on, the portfolio about to be recorded is within the limit,
\* like those recorded before.
LimitInv ==
    /\ EnforcedLimitHolds
    /\ ctx.ltv_enforcement /\ pc = "MonthlyResultBuilder" /\ portfolio_value > 0 =>
          ~Exceeds(loan_balance, portfolio_value, ctx.ltv_limit)

Opening == {"InitializeAllocation", "BuildDecisionContext", "WithdrawalDecision", "LoanDraw"}

\* The policy saw the balance its draw will be added to.
DrawInv ==
    /\ pc \in {"WithdrawalDecision", "LoanDraw"} => loan_seen = loan_balance
    /\ pc = "LoanDraw" /\ ctx.withdrawal_policy.kind = "Part52" /\ decision.draw > 0 =>
          loan_seen = 0

CashInv ==
    Covered =>
        /\ pc \in {"LoanDraw", "WithdrawalExecution"} => decision.draw <= decision.nominal
        /\ pc = "WithdrawalExecution" => cash_balance = decision.draw
        /\ pc # "WithdrawalExecution" => cash_balance = 0

BeforeRebalance == {"LoanRepayment", "AllocationDecision", "PortfolioRebalance"}

\* The withdrawal of the month has been executed, and did not fail.
Withdrawn ==
    \/ pc \in Steps \ (Opening \union {"WithdrawalExecution"})
    \/ pc = "Raised"
    \/ Completed /\ ctx.horizon_months > 0

\* What is left of the opening portfolio, as seen by the withdrawal service.
Remaining == IF decision.nominal <= ledger.value THEN ledger.value - decision.nominal ELSE 0

\* The ledger explains the balances: the flows not reached yet are zero, the
\* loan is the opening loan plus the month's flows, and the portfolio and the
\* cash are the opening ones less the spending (for a cash-funded month, the
\* cash paid and the portfolio is what the service would have left).
LedgerInv ==
    /\ ledger.value > 0
    /\ pc \in Opening \union {"WithdrawalExecution", "LoanRepayment"} => ledger.repaid = 0
    /\ pc \in Opening \union BeforeRebalance \union
              {"WithdrawalExecution", "MarketEvolution", "InterestAccrual", "Raised"} =>
          ledger.interest = 0 /\ ledger.liquidated = 0
    /\ pc = "LTVEvaluation" => ledger.liquidated = 0
    /\ pc \in Opening =>
          /\ portfolio_value = ledger.value
          /\ cash_balance = ledger.cash
          /\ loan_balance = ledger.loan
    /\ pc = "WithdrawalExecution" =>
          /\ portfolio_value = ledger.value
          /\ cash_balance = ledger.cash + decision.draw
          /\ loan_balance = ledger.loan + decision.draw
    /\ Withdrawn =>
          /\ loan_balance = ledger.loan + decision.draw - ledger.repaid
                            + ledger.interest - ledger.liquidated
          /\ ~CashFunded =>
                /\ portfolio_value + ledger.liquidated + cash_balance =
                      ledger.value + ledger.cash + decision.draw - decision.nominal
                /\ cash_balance = IF decision.nominal = 0
                                  THEN ledger.cash + decision.draw ELSE 0
          /\ CashFunded =>
                /\ pc \in BeforeRebalance => current_wealth = Remaining
                /\ pc \notin BeforeRebalance =>
                      portfolio_value + ledger.liquidated = Remaining
    /\ pc = "Raised" => portfolio_value = 0
    /\ CacheTracksPortfolio

----------------------------------------------------------------------------
(* Each part is inductive.                                                 *)

\* Actions that neither end nor start a month.
MidMonth ==
    InitializeAllocation \/ BuildDecisionContext \/ WithdrawalDecision \/ LoanDraw
    \/ LoanRepayment \/ AllocationDecision \/ PortfolioRebalance \/ MarketEvolution
    \/ InterestAccrual \/ LTVEvaluation

\* They keep the run's context, status, month and timeline.
LEMMA MidMonthKeepsRun ==
    ASSUME MidMonth
    PROVE  /\ UNCHANGED <<run_vars, monthly_results>>
           /\ pc \in Steps \ {"WithdrawalExecution", "MonthlyResultBuilder",
                              "FailureDetection", "SimulationStateUpdate"}
           /\ pc' \in (Steps \ {"FailureDetection", "SimulationStateUpdate"}) \union {"Raised"}
BY StepNames DEF MidMonth, InitializeAllocation, BuildDecisionContext, WithdrawalDecision,
   LoanDraw, LoanRepayment, AllocationDecision, PortfolioRebalance, MarketEvolution,
   InterestAccrual, LTVEvaluation, Continue, Raise, run_vars

\* The status, the program counter and the failure state agree at every step.
THEOREM StatusInvariant == Spec => []StatusInv
<1>1. Init => StatusInv
  <2> SUFFICES ASSUME Init PROVE StatusInv
    OBVIOUS
  <2>1. ctx.horizon_months \in Nat /\ ctx.snapshots \in Nat \ {0}
    BY ContextsAssumption DEF Init, ContextType
  <2> QED
    BY <2>1 DEF Init, StatusInv, Live, DueMonths, Lesser, Steps
<1>2. TypeOK /\ StatusInv /\ [Next]_vars => StatusInv'
  <2> SUFFICES ASSUME TypeOK, StatusInv, [Next]_vars PROVE StatusInv'
    OBVIOUS
  <2> USE StepNames DEF StatusInv, Live
  <2>1. CASE MidMonth
    BY <2>1, MidMonthKeepsRun DEF run_vars, DueMonths
  <2>2. CASE WithdrawalExecution
    BY <2>2 DEF WithdrawalExecution, ContinueOrFail, DueMonths
  <2>3. CASE MonthlyResultBuilder
    BY <2>3 DEF MonthlyResultBuilder, Continue, run_vars, DueMonths
  <2>4. CASE FailureDetection
    BY <2>4 DEF FailureDetection, ContinueOrFail, DueMonths
  <2>5. CASE SimulationStateUpdate
    <3>1. period_index \in Nat /\ ctx.horizon_months \in Nat /\ ctx.snapshots \in Nat
      BY ContextFacts DEF TypeOK
    <3> QED
      BY <2>5, <3>1 DEF SimulationStateUpdate, LastMonth, DueMonths, Lesser
  <2>6. CASE UNCHANGED vars
    BY <2>6 DEF vars, DueMonths
  <2> QED
    BY <2>1, <2>2, <2>3, <2>4, <2>5, <2>6 DEF Next, MidMonth
<1> QED
  BY <1>1, <1>2, TypeCorrect, PTL DEF Spec

\* Every month before the one under way is in the timeline, in order, solvent.
THEOREM TimelineInvariant == Spec => []TimelineInv
<1>1. Init => TimelineInv
  <2> SUFFICES ASSUME Init PROVE TimelineInv
    OBVIOUS
  <2>1. ctx.horizon_months \in Nat /\ ctx.snapshots \in Nat \ {0}
    BY ContextsAssumption DEF Init, ContextType
  <2> QED
    BY <2>1 DEF Init, TimelineInv, Live, Recorded, Completed, DueMonths, Lesser
<1>2. TypeOK /\ StatusInv /\ TimelineInv /\ [Next]_vars => TimelineInv'
  <2> SUFFICES ASSUME TypeOK, StatusInv, TimelineInv, [Next]_vars PROVE TimelineInv'
    OBVIOUS
  <2>0. /\ period_index \in Nat /\ Len(monthly_results) \in Nat
        /\ monthly_results \in Seq(MonthRecord)
        /\ ctx.horizon_months \in Nat /\ ctx.snapshots \in Nat
    BY ContextFacts DEF TypeOK
  <2> USE StepNames, <2>0 DEF TimelineInv, Live, Completed, Recorded, Insolvent
  <2>1. CASE MidMonth
    BY <2>1, MidMonthKeepsRun DEF run_vars, StatusInv
  <2>2. CASE WithdrawalExecution
    BY <2>2 DEF WithdrawalExecution, ContinueOrFail, StatusInv
  <2>3. CASE MonthlyResultBuilder
    <3> DEFINE month == [period_index |-> period_index, value |-> portfolio_value,
                         loan |-> loan_balance, cash |-> cash_balance]
    <3>1. /\ pc = "MonthlyResultBuilder" /\ pc' = "FailureDetection"
          /\ monthly_results' = Append(monthly_results, month)
          /\ UNCHANGED <<ctx, status, failure_state, period_index,
                         portfolio_value, loan_balance>>
      BY <2>3 DEF MonthlyResultBuilder, Continue, run_vars, debt_vars
    <3>2. Len(monthly_results) = period_index
      BY <3>1
    <3>3. month \in MonthRecord
      BY DEF TypeOK, MonthRecord
    <3>4. /\ Len(monthly_results') = period_index + 1
          /\ monthly_results'[period_index + 1] = month
          /\ \A i \in 1 .. period_index : monthly_results'[i] = monthly_results[i]
      BY <3>1, <3>2, <3>3
    <3>5. \A i \in 1 .. period_index + 1 : i \in 1 .. period_index \/ i = period_index + 1
      OBVIOUS
    <3>6. \A i \in 1 .. period_index + 1 : monthly_results'[i].period_index = i - 1
      BY <3>2, <3>4, <3>5
    <3>7. \A i \in 1 .. period_index : ~Insolvent(monthly_results'[i])
      BY <3>2, <3>4
    <3>8. monthly_results'[period_index + 1].value = portfolio_value
          /\ monthly_results'[period_index + 1].loan = loan_balance
      BY <3>4
    <3> QED
      BY <3>1, <3>4, <3>6, <3>7, <3>8
  <2>4. CASE FailureDetection
    <3>1. /\ pc = "FailureDetection"
          /\ failure_state' = DetectedFailure
          /\ status' = IF DetectedFailure = "none" THEN status ELSE "FAILED"
          /\ pc' = IF DetectedFailure = "none" THEN "SimulationStateUpdate" ELSE "Done"
          /\ UNCHANGED <<ctx, period_index, portfolio_value, loan_balance, monthly_results>>
      BY <2>4 DEF FailureDetection, ContinueOrFail, debt_vars
    <3>2. /\ status = "RUNNING" /\ failure_state = "none"
          /\ Len(monthly_results) = period_index + 1
      BY <3>1 DEF StatusInv
    <3>3. portfolio_value \in Nat /\ loan_balance \in Nat
      BY DEF TypeOK
    <3>4. DetectedFailure = "none" <=> ~Insolvent(monthly_results[period_index + 1])
      BY <3>1, <3>2, <3>3 DEF DetectedFailure
    <3>5. \A i \in 1 .. Len(monthly_results) : i <= period_index \/ i = period_index + 1
      BY <3>2
    <3>6. CASE DetectedFailure = "none"
      <4>1. \A i \in 1 .. Len(monthly_results) : ~Insolvent(monthly_results[i])
        BY <3>4, <3>5, <3>6
      <4> QED
        BY <3>1, <3>2, <3>6, <4>1
    <3>7. CASE DetectedFailure # "none"
      BY <3>1, <3>2, <3>4, <3>7
    <3> QED
      BY <3>6, <3>7
  <2>5. CASE SimulationStateUpdate
    BY <2>5 DEF SimulationStateUpdate, LastMonth, DueMonths, Lesser, StatusInv
  <2>6. CASE UNCHANGED vars
    BY <2>6 DEF vars, DueMonths
  <2> QED
    BY <2>1, <2>2, <2>3, <2>4, <2>5, <2>6 DEF Next, MidMonth
<1> QED
  BY <1>1, <1>2, TypeCorrect, StatusInvariant, PTL DEF Spec

\* Balances may change without a month being recorded.
LEMMA LimitKeepsRecords ==
    ASSUME EnforcedLimitHolds, UNCHANGED <<ctx, monthly_results>>
    PROVE  EnforcedLimitHolds'
BY DEF EnforcedLimitHolds, Exceeds

\* A margin call brings the loan within the limit, or takes the last asset.
THEOREM LimitInvariant == Spec => []LimitInv
<1>1. Init => LimitInv
  BY DEF Init, LimitInv, EnforcedLimitHolds
<1>2. TypeOK /\ LimitInv /\ [Next]_vars => LimitInv'
  <2> SUFFICES ASSUME TypeOK, LimitInv, [Next]_vars PROVE LimitInv'
    OBVIOUS
  <2>0. /\ loan_balance \in Nat /\ portfolio_value \in Nat
        /\ ctx.ltv_limit \in LimitType
        /\ ctx.ltv_limit.num \in Nat /\ ctx.ltv_limit.den \in Nat \ {0}
    BY ContextFacts DEF TypeOK, LimitType, Ratio
  <2> USE StepNames, <2>0 DEF LimitInv
  <2>1. CASE MidMonth /\ ~LTVEvaluation
    <3>1. UNCHANGED <<ctx, monthly_results>>
      BY <2>1, MidMonthKeepsRun DEF run_vars
    <3>2. pc' # "MonthlyResultBuilder"
      BY <2>1 DEF MidMonth, InitializeAllocation, BuildDecisionContext, WithdrawalDecision,
         LoanDraw, LoanRepayment, AllocationDecision, PortfolioRebalance, MarketEvolution,
         InterestAccrual, Continue, Raise
    <3> QED
      BY <3>1, <3>2, LimitKeepsRecords
  <2>2. CASE LTVEvaluation
    <3> DEFINE sold == IF MarginCall
                       THEN Lesser(Liquidation(loan_balance, portfolio_value, ctx.ltv_limit),
                                   portfolio_value)
                       ELSE 0
    <3>1. /\ portfolio_value' = portfolio_value - sold
          /\ loan_balance' = loan_balance - sold
          /\ UNCHANGED <<ctx, monthly_results>>
      BY <2>2 DEF LTVEvaluation, Continue, run_vars
    <3>2. ASSUME ctx.ltv_enforcement, portfolio_value' > 0
          PROVE  ~Exceeds(loan_balance', portfolio_value', ctx.ltv_limit)
      <4>1. CASE MarginCall
        <5>1. /\ sold \in Nat /\ sold <= portfolio_value
              /\ sold < portfolio_value =>
                    (loan_balance - sold) * ctx.ltv_limit.den
                        = ctx.ltv_limit.num * (portfolio_value - sold)
          BY <4>1, MarginCallSale DEF MarginCall
        <5>2. sold < portfolio_value
          BY <3>1, <3>2, <5>1
        <5>3. loan_balance' * ctx.ltv_limit.den = ctx.ltv_limit.num * portfolio_value'
          BY <3>1, <5>1, <5>2
        <5>4. loan_balance' \in Int /\ portfolio_value' \in Int
          BY <3>1, <5>1
        <5> HIDE DEF sold
        <5> QED
          BY <5>3, <5>4 DEF Exceeds
      <4>2. CASE ~MarginCall
        <5>1. portfolio_value' = portfolio_value /\ loan_balance' = loan_balance
          BY <3>1, <4>2
        <5>2. CASE loan_balance = 0
          <6>1. ctx.ltv_limit.num * portfolio_value \in Nat /\ loan_balance * ctx.ltv_limit.den = 0
            BY <5>2
          <6> QED
            BY <5>1, <6>1 DEF Exceeds
        <5>3. CASE loan_balance > 0
          BY <3>2, <4>2, <5>1, <5>3 DEF MarginCall
        <5> QED
          BY <5>2, <5>3
      <4> QED
        BY <4>1, <4>2
    <3>3. EnforcedLimitHolds'
      BY <3>1, LimitKeepsRecords
    <3>4. ctx' = ctx
      BY <3>1
    <3> HIDE DEF sold
    <3> QED
      BY <3>2, <3>3, <3>4
  <2>3. CASE WithdrawalExecution
    <3>1. UNCHANGED <<ctx, monthly_results>> /\ pc' # "MonthlyResultBuilder"
      BY <2>3 DEF WithdrawalExecution, ContinueOrFail
    <3> QED
      BY <3>1, LimitKeepsRecords
  <2>4. CASE MonthlyResultBuilder
    <3> DEFINE month == [period_index |-> period_index, value |-> portfolio_value,
                         loan |-> loan_balance, cash |-> cash_balance]
    <3>1. /\ pc = "MonthlyResultBuilder" /\ pc' = "FailureDetection" /\ ctx' = ctx
          /\ monthly_results' = Append(monthly_results, month)
      BY <2>4 DEF MonthlyResultBuilder, Continue, run_vars
    <3>2. monthly_results \in Seq(MonthRecord) /\ month \in MonthRecord
      BY DEF TypeOK, MonthRecord
    <3>3. \A i \in 1 .. Len(monthly_results') :
             \/ monthly_results'[i] = month
             \/ /\ i \in 1 .. Len(monthly_results)
                /\ monthly_results'[i] = monthly_results[i]
      <4> DEFINE len == Len(monthly_results)
      <4>1. /\ len \in Nat
            /\ Len(monthly_results') = len + 1
            /\ monthly_results'[len + 1] = month
            /\ \A i \in 1 .. len : monthly_results'[i] = monthly_results[i]
        BY <3>1, <3>2
      <4>2. \A i \in 1 .. len + 1 : i = len + 1 \/ i \in 1 .. len
        BY <4>1
      <4> HIDE DEF month
      <4> QED
        BY <4>1, <4>2
    <3>4. ctx.ltv_enforcement /\ month.value > 0 =>
             ~Exceeds(month.loan, month.value, ctx.ltv_limit)
      BY <3>1
    <3> HIDE DEF month
    <3>5. EnforcedLimitHolds'
      BY <3>1, <3>3, <3>4 DEF EnforcedLimitHolds, Exceeds
    <3> QED
      BY <3>1, <3>5
  <2>5. CASE FailureDetection
    <3>1. UNCHANGED <<ctx, monthly_results>> /\ pc' # "MonthlyResultBuilder"
      BY <2>5 DEF FailureDetection, ContinueOrFail
    <3> QED
      BY <3>1, LimitKeepsRecords
  <2>6. CASE SimulationStateUpdate
    <3>1. UNCHANGED <<ctx, monthly_results>> /\ pc' # "MonthlyResultBuilder"
      BY <2>6 DEF SimulationStateUpdate
    <3> QED
      BY <3>1, LimitKeepsRecords
  <2>7. CASE UNCHANGED vars
    BY <2>7, LimitKeepsRecords DEF vars, Exceeds
  <2> QED
    BY <2>1, <2>2, <2>3, <2>4, <2>5, <2>6, <2>7 DEF Next, MidMonth
<1> QED
  BY <1>1, <1>2, TypeCorrect, PTL DEF Spec

\* Nothing touches the loan between what the policy saw and its draw, and the
\* timing policy only draws when it saw no loan.
THEOREM DrawInvariant == Spec => []DrawInv
<1>1. Init => DrawInv
  BY DEF Init, DrawInv
<1>2. TypeOK /\ DrawInv /\ [Next]_vars => DrawInv'
  <2> SUFFICES ASSUME TypeOK, DrawInv, [Next]_vars PROVE DrawInv'
    OBVIOUS
  <2> USE StepNames DEF DrawInv
  <2>1. CASE BuildDecisionContext
    BY <2>1 DEF BuildDecisionContext, Continue, run_vars, debt_vars, TypeOK
  <2>2. CASE WithdrawalDecision
    <3>1. /\ pc = "WithdrawalDecision" /\ pc' = "LoanDraw"
          /\ UNCHANGED <<ctx, loan_balance, loan_seen>>
      BY <2>2 DEF WithdrawalDecision, Continue, run_vars, debt_vars
    <3>2. ASSUME ctx.withdrawal_policy.kind = "Part52", decision'.draw > 0
          PROVE  loan_seen = 0
      <4>1. PICK in_drawdown, is_ath \in BOOLEAN :
               decision' = Decide(ctx.withdrawal_policy, period_index, loan_seen,
                                  in_drawdown, is_ath)
        BY <2>2 DEF WithdrawalDecision
      <4>2. ctx.withdrawal_policy \in PolicyType /\ period_index \in Nat /\ loan_seen \in Nat
        BY ContextFacts DEF TypeOK
      <4>3. loan_seen # 0 => decision'.draw = 0
        BY <3>2, <4>1, <4>2, TimingDraws
      <4> QED
        BY <3>2, <4>3
    <3> QED
      BY <3>1, <3>2
  <2>3. CASE ~BuildDecisionContext /\ ~WithdrawalDecision /\ Next
    <3>1. pc' \notin {"WithdrawalDecision", "LoanDraw"}
      BY <2>3 DEF Next, InitializeAllocation, LoanDraw, WithdrawalExecution, LoanRepayment,
         AllocationDecision, PortfolioRebalance, MarketEvolution, InterestAccrual,
         LTVEvaluation, MonthlyResultBuilder, FailureDetection, SimulationStateUpdate,
         Continue, ContinueOrFail, Raise
    <3> QED
      BY <3>1
  <2>4. CASE UNCHANGED vars
    BY <2>4 DEF vars
  <2> QED
    BY <2>1, <2>2, <2>3, <2>4
<1> QED
  BY <1>1, <1>2, TypeCorrect, PTL DEF Spec

\* A policy that is covered answers with at most its withdrawal as a draw.
LEMMA CoveredDecision ==
    ASSUME NEW policy \in PolicyType, NEW period \in Nat, NEW seen \in Nat,
           NEW in_drawdown \in BOOLEAN, NEW is_ath \in BOOLEAN,
           NEW answer, answer = Decide(policy, period, seen, in_drawdown, is_ath),
           \/ policy.kind = "Part52" /\ 2 * policy.draw <= policy.budget
           \/ policy.kind # "Part52" /\ policy.draw <= policy.budget
    PROVE  answer.draw <= answer.nominal
<1>1. /\ policy.kind \in {"FixedReal", "Part49", "Part52"}
      /\ policy.budget \in Nat /\ policy.draw \in Nat
  BY DEF PolicyType
<1>2. CASE answer = NoWithdrawal
  BY <1>2 DEF NoWithdrawal
<1>3. CASE answer = FixedRealDecision(policy)
  BY <1>1, <1>3 DEF FixedRealDecision
<1>4. CASE policy.kind = "Part49" /\ answer = Part49Decision(policy)
  BY <1>1, <1>4 DEF Part49Decision
<1>5. CASE policy.kind = "Part52" /\ answer = Part52Decision(policy, seen, in_drawdown, is_ath)
  <2>1. CASE in_drawdown /\ seen = 0
    <3>1. answer = [nominal |-> policy.budget - policy.draw, draw |-> policy.draw,
                    is_repayment |-> FALSE]
      BY <1>5, <2>1 DEF Part52Decision
    <3>2. 2 * policy.draw <= policy.budget
      BY <1>5
    <3>3. policy.draw <= policy.budget - policy.draw
      BY <1>1, <3>2
    <3> QED
      BY <3>1, <3>3
  <2>2. CASE ~(in_drawdown /\ seen = 0) /\ is_ath /\ seen > 0
    BY <1>1, <1>5, <2>2 DEF Part52Decision
  <2>3. CASE ~(in_drawdown /\ seen = 0) /\ ~(is_ath /\ seen > 0)
    BY <1>1, <1>5, <2>3 DEF Part52Decision, FixedRealDecision
  <2> QED
    BY <2>1, <2>2, <2>3
<1> QED
  BY <1>1, <1>2, <1>3, <1>4, <1>5 DEF Decide, DecideActive

\* A covered policy's draw is spent by the withdrawal that follows it.
THEOREM CashInvariant == Spec => []CashInv
<1>1. Init => CashInv
  BY DEF Init, CashInv
<1>2. TypeOK /\ CashInv /\ [Next]_vars => CashInv'
  <2> SUFFICES ASSUME TypeOK, CashInv, [Next]_vars PROVE CashInv'
    OBVIOUS
  <2>0. /\ decision \in DecisionType /\ cash_balance \in Nat
        /\ decision.nominal \in Nat /\ decision.draw \in Nat
    BY DEF TypeOK, DecisionType
  <2> USE StepNames, <2>0
  <2>1. ctx' = ctx
    BY DEF Next, InitializeAllocation, BuildDecisionContext, WithdrawalDecision, LoanDraw,
       WithdrawalExecution, LoanRepayment, AllocationDecision, PortfolioRebalance,
       MarketEvolution, InterestAccrual, LTVEvaluation, MonthlyResultBuilder,
       FailureDetection, SimulationStateUpdate, Continue, ContinueOrFail, Raise,
       run_vars, vars
  <2>2. Covered' <=> Covered
    BY <2>1 DEF Covered
  <2>3. SUFFICES ASSUME Covered
                 PROVE  /\ pc' \in {"LoanDraw", "WithdrawalExecution"} =>
                              decision'.draw <= decision'.nominal
                        /\ pc' = "WithdrawalExecution" => cash_balance' = decision'.draw
                        /\ pc' # "WithdrawalExecution" => cash_balance' = 0
    BY <2>2 DEF CashInv
  <2>4. /\ pc \in {"LoanDraw", "WithdrawalExecution"} => decision.draw <= decision.nominal
        /\ pc = "WithdrawalExecution" => cash_balance = decision.draw
        /\ pc # "WithdrawalExecution" => cash_balance = 0
    BY <2>3 DEF CashInv
  <2>5. CASE WithdrawalDecision
    <3>1. PICK in_drawdown, is_ath \in BOOLEAN :
             decision' = Decide(ctx.withdrawal_policy, period_index, loan_seen,
                                in_drawdown, is_ath)
      BY <2>5 DEF WithdrawalDecision
    <3>2. ctx.withdrawal_policy \in PolicyType /\ period_index \in Nat /\ loan_seen \in Nat
      BY ContextFacts DEF TypeOK
    <3>3. decision'.draw <= decision'.nominal
      BY <2>3, <3>1, <3>2, CoveredDecision DEF Covered
    <3> QED
      BY <2>4, <2>5, <3>3 DEF WithdrawalDecision, Continue, debt_vars
  <2>6. CASE LoanDraw
    BY <2>4, <2>6 DEF LoanDraw, Continue
  <2>7. CASE WithdrawalExecution
    <3>1. pc = "WithdrawalExecution" /\ pc' \in {"LoanRepayment", "Done"}
      BY <2>7 DEF WithdrawalExecution, ContinueOrFail
    <3>2. cash_balance' = cash_balance - Lesser(cash_balance, decision.nominal)
      BY <2>7 DEF WithdrawalExecution
    <3>3. Lesser(cash_balance, decision.nominal) = cash_balance
      BY <2>4, <3>1 DEF Lesser
    <3> QED
      BY <3>1, <3>2, <3>3
  <2>8. CASE Next /\ ~WithdrawalDecision /\ ~LoanDraw /\ ~WithdrawalExecution
    <3>1. /\ cash_balance' = cash_balance
          /\ pc # "WithdrawalExecution"
          /\ pc' \notin {"LoanDraw", "WithdrawalExecution"}
      BY <2>8 DEF Next, InitializeAllocation, BuildDecisionContext, LoanRepayment,
         AllocationDecision, PortfolioRebalance, MarketEvolution, InterestAccrual,
         LTVEvaluation, MonthlyResultBuilder, FailureDetection, SimulationStateUpdate,
         Continue, ContinueOrFail, Raise, debt_vars
    <3> QED
      BY <2>4, <3>1
  <2>9. CASE UNCHANGED vars
    BY <2>4, <2>9 DEF vars
  <2> QED
    BY <2>5, <2>6, <2>7, <2>8, <2>9
<1> QED
  BY <1>1, <1>2, TypeCorrect, PTL DEF Spec

\* The ledger explains the balances after every step.
THEOREM LedgerInvariant == Spec => []LedgerInv
<1>1. Init => LedgerInv
  <2> SUFFICES ASSUME Init PROVE LedgerInv
    OBVIOUS
  <2>1. ctx.initial_wealth \in Nat \ {0} /\ ctx.horizon_months \in Nat
    BY ContextsAssumption DEF Init, ContextType
  <2> QED
    BY <2>1, StepNames DEF Init, LedgerInv, OpenLedger, Opening, BeforeRebalance, Withdrawn,
       Completed, CacheTracksPortfolio, Recorded
<1>2. TypeOK /\ StatusInv /\ LedgerInv /\ [Next]_vars => LedgerInv'
  <2> SUFFICES ASSUME TypeOK, StatusInv, LedgerInv, [Next]_vars PROVE LedgerInv'
    OBVIOUS
  <2>0. /\ decision \in DecisionType
        /\ decision.nominal \in Nat /\ decision.draw \in Nat
        /\ ledger \in [value: Nat, cash: Nat, loan: Nat,
                       repaid: Nat, interest: Nat, liquidated: Nat]
        /\ ledger.value \in Nat /\ ledger.cash \in Nat /\ ledger.loan \in Nat
        /\ ledger.repaid \in Nat /\ ledger.interest \in Nat /\ ledger.liquidated \in Nat
        /\ portfolio_value \in Nat /\ current_wealth \in Nat
        /\ loan_balance \in Nat /\ cash_balance \in Nat
    BY DEF TypeOK, DecisionType
  <2> USE StepNames, <2>0 DEF LedgerInv, Opening, BeforeRebalance, Withdrawn, Completed,
          Remaining, CashFunded, CacheTracksPortfolio, Recorded
  <2>1. CASE InitializeAllocation
    BY <2>1 DEF InitializeAllocation, Continue, run_vars, debt_vars
  <2>2. CASE BuildDecisionContext
    BY <2>2 DEF BuildDecisionContext, Continue, run_vars, debt_vars
  <2>3. CASE WithdrawalDecision
    BY <2>3 DEF WithdrawalDecision, Continue, run_vars, debt_vars
  <2>4. CASE LoanDraw
    BY <2>4 DEF LoanDraw, Continue, run_vars
  <2>5. CASE WithdrawalExecution
    <3> DEFINE spending == decision.nominal
               consumed == Lesser(cash_balance, spending)
               sale == spending - consumed
               result == ExecuteWithdrawal(portfolio_value, Charged(sale, spending))
    <3>1. /\ pc = "WithdrawalExecution"
          /\ pc' = "LoanRepayment" \/ (pc' = "Done" /\ status' = "FAILED")
          /\ cash_balance' = cash_balance - consumed
          /\ current_wealth' = result.remaining
          /\ portfolio_value' = IF sale > 0 THEN result.remaining ELSE portfolio_value
          /\ UNCHANGED <<loan_balance, decision, ledger>>
          /\ sale > 0 /\ result.depleted => pc' = "Done"
      BY <2>5 DEF WithdrawalExecution, ContinueOrFail
    <3>2. /\ portfolio_value = ledger.value
          /\ cash_balance = ledger.cash + decision.draw
          /\ loan_balance = ledger.loan + decision.draw
          /\ ledger.repaid = 0 /\ ledger.interest = 0 /\ ledger.liquidated = 0
          /\ ledger.value > 0
      BY <3>1
    <3>3. CASE spending > cash_balance
      <4>1. consumed = cash_balance /\ sale = spending - cash_balance /\ sale \in Nat /\ sale > 0
        BY <3>3 DEF Lesser
      <4>2. Charged(sale, spending) = sale
        BY <4>1 DEF Charged
      <4>3. result.depleted <=> sale > portfolio_value
        BY <4>1, <4>2, WithdrawalType
      <4>4. sale <= portfolio_value => result.remaining = portfolio_value - sale
        BY <4>1, <4>2, WithdrawalType
      <4> HIDE DEF result, sale, consumed
      <4>5. CASE sale > portfolio_value
        BY <3>1, <3>2, <4>1, <4>3, <4>5
      <4>6. CASE sale <= portfolio_value
        <5>1. /\ cash_balance' = 0
              /\ portfolio_value' = ledger.value - (decision.nominal - cash_balance)
              /\ current_wealth' = portfolio_value'
          BY <3>1, <3>2, <4>1, <4>4, <4>6
        <5>2. ~CashFunded /\ ~CashFunded' /\ decision.nominal > 0
          BY <3>1, <3>2, <3>3
        <5> QED
          BY <3>1, <3>2, <5>1, <5>2
      <4> QED
        BY <4>1, <4>5, <4>6
    <3>4. CASE spending <= cash_balance
      <4>1. consumed = spending /\ sale = 0
        BY <3>4 DEF Lesser
      <4>2. Charged(sale, spending) = spending
        BY <4>1 DEF Charged
      <4>3. result.remaining = IF spending <= portfolio_value
                               THEN portfolio_value - spending ELSE 0
        BY <4>2, WithdrawalType
      <4> HIDE DEF result, sale, consumed
      <4> QED
        BY <3>1, <3>2, <3>4, <4>1, <4>3
    <3> QED
      BY <3>3, <3>4
  <2>6. CASE LoanRepayment
    <3> DEFINE excess == decision.nominal - decision.nominal \div 2
               repayment == IF decision.is_repayment /\ loan_balance > 0
                            THEN Lesser(excess, loan_balance) ELSE 0
    <3>1. /\ pc = "LoanRepayment" /\ pc' = "AllocationDecision"
          /\ loan_balance' = loan_balance - repayment
          /\ ledger' = [ledger EXCEPT !.repaid = repayment]
          /\ UNCHANGED <<portfolio_value, current_wealth, cash_balance, decision>>
      BY <2>6 DEF LoanRepayment, Continue
    <3>2. excess \in Nat
      OBVIOUS
    <3>3. repayment \in Nat
      BY <3>2, LesserType
    <3> HIDE DEF repayment
    <3> QED
      BY <3>1, <3>3
  <2>7. CASE AllocationDecision
    BY <2>7 DEF AllocationDecision, Continue, run_vars, debt_vars
  <2>8. CASE PortfolioRebalance
    BY <2>8 DEF PortfolioRebalance, Continue, run_vars, debt_vars
  <2>9. CASE MarketEvolution
    BY <2>9 DEF MarketEvolution, Continue, Raise, run_vars, debt_vars
  <2>10. CASE InterestAccrual
    <3> DEFINE interest == IF loan_balance > 0 THEN Scale(loan_balance, MonthlyRate) ELSE 0
    <3>1. /\ pc = "InterestAccrual" /\ pc' = "LTVEvaluation"
          /\ loan_balance' = loan_balance + interest
          /\ ledger' = [ledger EXCEPT !.interest = interest]
          /\ UNCHANGED <<portfolio_value, current_wealth, cash_balance, decision>>
      BY <2>10 DEF InterestAccrual, Continue
    <3>2. interest \in Nat
      BY MonthlyRateType, ScaleType
    <3> HIDE DEF interest
    <3> QED
      BY <3>1, <3>2
  <2>11. CASE LTVEvaluation
    <3> DEFINE sold == IF MarginCall
                       THEN Lesser(Liquidation(loan_balance, portfolio_value, ctx.ltv_limit),
                                   portfolio_value)
                       ELSE 0
    <3>1. /\ pc = "LTVEvaluation" /\ pc' = "MonthlyResultBuilder"
          /\ portfolio_value' = portfolio_value - sold
          /\ loan_balance' = loan_balance - sold
          /\ ledger' = [ledger EXCEPT !.liquidated = sold]
          /\ UNCHANGED <<current_wealth, cash_balance, decision>>
      BY <2>11 DEF LTVEvaluation, Continue
    <3>2. sold \in Nat
      BY ContextFacts, MarginCallSale DEF MarginCall
    <3> HIDE DEF sold
    <3> QED
      BY <3>1, <3>2
  <2>12. CASE MonthlyResultBuilder
    BY <2>12 DEF MonthlyResultBuilder, Continue, run_vars, debt_vars
  <2>13. CASE FailureDetection
    BY <2>13 DEF FailureDetection, ContinueOrFail, StatusInv, Live, debt_vars
  <2>14. CASE SimulationStateUpdate
    <3>1. CASE LastMonth
      BY <2>14, <3>1 DEF SimulationStateUpdate, debt_vars
    <3>2. CASE ~LastMonth
      <4>1. /\ pc' = "InitializeAllocation"
            /\ ledger' = [value |-> portfolio_value', cash |-> cash_balance,
                          loan |-> loan_balance, repaid |-> 0, interest |-> 0,
                          liquidated |-> 0]
            /\ UNCHANGED <<cash_balance, loan_balance>>
        BY <2>14, <3>2 DEF SimulationStateUpdate, OpenLedger, debt_vars
      <4>2. portfolio_value' \in Nat \ {0}
        BY <2>14, <3>2, RepriceType, MovesAssumption DEF SimulationStateUpdate
      <4> QED
        BY <4>1, <4>2
    <3> QED
      BY <3>1, <3>2
  <2>15. CASE UNCHANGED vars
    BY <2>15 DEF vars
  <2> QED
    BY <2>1, <2>2, <2>3, <2>4, <2>5, <2>6, <2>7, <2>8, <2>9, <2>10, <2>11,
       <2>12, <2>13, <2>14, <2>15 DEF Next
<1> QED
  BY <1>1, <1>2, TypeCorrect, StatusInvariant, PTL DEF Spec

----------------------------------------------------------------------------
(* The properties.                                                         *)

\* The timeline has one record per finished month, in order.
THEOREM TimelineCorrect == Spec => []TimelineFollowsMonths
<1>1. TimelineInv => TimelineFollowsMonths
  BY DEF TimelineInv, TimelineFollowsMonths, Live
<1> QED
  BY <1>1, TimelineInvariant, PTL

\* The statistics of a finished run agree with its timeline.
THEOREM OutcomeCorrect == Spec => []OutcomeMatchesTimeline
<1>1. TypeOK /\ StatusInv /\ TimelineInv => OutcomeMatchesTimeline
  <2> SUFFICES ASSUME TypeOK, StatusInv, TimelineInv, pc = "Done"
               PROVE  OutcomeMatchesTimeline
    BY DEF OutcomeMatchesTimeline
  <2> DEFINE len == Len(monthly_results)
  <2>0. period_index \in Nat /\ len \in Nat
    BY DEF TypeOK
  <2>1. Statistics.months_simulated = len
    BY DEF Statistics
  <2>2. CASE status = "COMPLETED"
    <3>1. failure_state = "none" /\ len = DueMonths
      BY <2>2 DEF StatusInv, TimelineInv, Completed
    <3>2. Statistics.failure_month = -1
      BY <3>1 DEF Statistics
    <3> QED
      BY <2>1, <2>2, <3>1, <3>2 DEF OutcomeMatchesTimeline
  <2>3. CASE status = "FAILED"
    <3>1. failure_state # "none" /\ len \in {period_index, period_index + 1}
      BY <2>3 DEF StatusInv, TimelineInv
    <3>2. Statistics.failure_month = period_index
      BY <3>1 DEF Statistics
    <3>3. len = period_index + 1 <=> len > 0 /\ Insolvent(monthly_results[len])
      <4>1. CASE len = period_index + 1
        BY <2>0, <2>3, <4>1 DEF TimelineInv
      <4>2. CASE len = period_index
        <5>1. len > 0 => ~Insolvent(monthly_results[len])
          BY <2>0, <4>2 DEF TimelineInv
        <5> QED
          BY <2>0, <4>2, <5>1
      <4> QED
        BY <3>1, <4>1, <4>2
    <3> QED
      BY <2>1, <2>3, <3>1, <3>2, <3>3 DEF OutcomeMatchesTimeline
  <2> QED
    BY <2>2, <2>3 DEF StatusInv
<1> QED
  BY <1>1, TypeCorrect, StatusInvariant, TimelineInvariant, PTL

\* A success was solvent at the end of every month.
THEOREM SuccessCorrect == Spec => []SuccessMeansSolvent
<1>1. TimelineInv => SuccessMeansSolvent
  BY DEF TimelineInv, SuccessMeansSolvent, Statistics, Survived, Completed
<1> QED
  BY <1>1, TimelineInvariant, PTL

\* With enforcement on, no month ends above the limit with assets left.
THEOREM LimitCorrect == Spec => []EnforcedLimitHolds
<1>1. LimitInv => EnforcedLimitHolds
  BY DEF LimitInv
<1> QED
  BY <1>1, LimitInvariant, PTL

\* No month whose spending the portfolio paid for creates or loses money.
THEOREM LedgerCorrect == Spec => []LedgerBalances
<1>1. TypeOK /\ LedgerInv => LedgerBalances
  <2> SUFFICES ASSUME TypeOK, LedgerInv, Recorded, ~CashFunded
               PROVE  NetWorth = ledger.value + ledger.cash - ledger.loan
                                 - decision.nominal + ledger.repaid - ledger.interest
    BY DEF LedgerBalances
  <2>1. /\ decision.nominal \in Nat /\ decision.draw \in Nat
        /\ ledger.value \in Nat /\ ledger.cash \in Nat /\ ledger.loan \in Nat
        /\ ledger.repaid \in Nat /\ ledger.interest \in Nat /\ ledger.liquidated \in Nat
        /\ portfolio_value \in Nat /\ loan_balance \in Nat /\ cash_balance \in Nat
    BY DEF TypeOK, DecisionType
  <2>2. Withdrawn
    BY StepNames DEF Withdrawn, Recorded, Opening
  <2>3. /\ loan_balance = ledger.loan + decision.draw - ledger.repaid
                          + ledger.interest - ledger.liquidated
        /\ portfolio_value + ledger.liquidated + cash_balance =
              ledger.value + ledger.cash + decision.draw - decision.nominal
    BY <2>2 DEF LedgerInv
  <2> QED
    BY <2>1, <2>3 DEF NetWorth
<1> QED
  BY <1>1, TypeCorrect, LedgerInvariant, PTL

\* The wealth cache differs from the portfolio only where the code lets it.
THEOREM CacheCorrect == Spec => []CacheTracksPortfolio
<1>1. LedgerInv => CacheTracksPortfolio
  BY DEF LedgerInv
<1> QED
  BY <1>1, LedgerInvariant, PTL

\* An exception means that a withdrawal took the portfolio to exactly zero.
THEOREM RaisesCorrect == Spec => []RaisesOnlyAtExhaustion
<1>1. TypeOK /\ StatusInv /\ LedgerInv => RaisesOnlyAtExhaustion
  <2> SUFFICES ASSUME TypeOK, StatusInv, LedgerInv, pc = "Raised"
               PROVE  /\ failure_state = "none"
                      /\ \/ CashFunded /\ decision.nominal >= ledger.value
                         \/ decision.nominal = ledger.value + ledger.cash + decision.draw
    BY DEF RaisesOnlyAtExhaustion
  <2>1. /\ decision.nominal \in Nat /\ decision.draw \in Nat
        /\ ledger.value \in Nat /\ ledger.cash \in Nat /\ cash_balance \in Nat
    BY DEF TypeOK, DecisionType
  <2>2. failure_state = "none"
    BY DEF StatusInv, Live
  <2>3. /\ portfolio_value = 0 /\ ledger.liquidated = 0 /\ ledger.value > 0
        /\ CashFunded => Remaining = 0
        /\ ~CashFunded =>
              /\ cash_balance = ledger.value + ledger.cash + decision.draw - decision.nominal
              /\ cash_balance = IF decision.nominal = 0
                                THEN ledger.cash + decision.draw ELSE 0
    BY <2>1 DEF LedgerInv, Withdrawn, BeforeRebalance
  <2>4. CASE CashFunded
    BY <2>1, <2>2, <2>3, <2>4 DEF Remaining
  <2>5. CASE ~CashFunded
    <3>1. decision.nominal # 0
      BY <2>1, <2>3, <2>5
    <3>2. cash_balance = 0
      BY <2>3, <2>5, <3>1
    <3> QED
      BY <2>1, <2>2, <2>3, <2>5, <3>2
  <2> QED
    BY <2>4, <2>5
<1> QED
  BY <1>1, TypeCorrect, StatusInvariant, LedgerInvariant, PTL

\* A covered policy leaves no cash behind.
THEOREM CashCorrect == Spec => []DrawsAreSpent
<1>1. CashInv => DrawsAreSpent
  BY DEF CashInv, DrawsAreSpent
<1> QED
  BY <1>1, CashInvariant, PTL

\* A margin call that leaves assets restores the limit exactly.
THEOREM MarginCallCorrect == Spec => MarginCallRestoresLimit
<1>1. ASSUME TypeOK, [Next]_vars
      PROVE  [pc = "LTVEvaluation" /\ loan_balance' # loan_balance /\ portfolio_value' > 0
              => loan_balance' * ctx.ltv_limit.den
                    = ctx.ltv_limit.num * portfolio_value']_vars
  <2> SUFFICES ASSUME pc = "LTVEvaluation", loan_balance' # loan_balance, portfolio_value' > 0
               PROVE  loan_balance' * ctx.ltv_limit.den = ctx.ltv_limit.num * portfolio_value'
    OBVIOUS
  <2> DEFINE sold == IF MarginCall
                     THEN Lesser(Liquidation(loan_balance, portfolio_value, ctx.ltv_limit),
                                 portfolio_value)
                     ELSE 0
  <2>0. LTVEvaluation
    BY <1>1 DEF Next, InitializeAllocation, BuildDecisionContext, WithdrawalDecision, LoanDraw,
       WithdrawalExecution, LoanRepayment, AllocationDecision, PortfolioRebalance,
       MarketEvolution, InterestAccrual, MonthlyResultBuilder, FailureDetection,
       SimulationStateUpdate, Continue, ContinueOrFail, Raise, vars
  <2>1. portfolio_value' = portfolio_value - sold /\ loan_balance' = loan_balance - sold
    BY <2>0 DEF LTVEvaluation
  <2>2. loan_balance \in Nat /\ portfolio_value \in Nat /\ ctx.ltv_limit \in LimitType
    BY <1>1, ContextFacts DEF TypeOK
  <2>3. MarginCall
    <3>1. CASE ~MarginCall
      <4>1. sold = 0
        BY <3>1
      <4> HIDE DEF sold
      <4> QED
        BY <2>1, <2>2, <4>1
    <3> QED
      BY <3>1
  <2>4. /\ sold \in Nat
        /\ sold < portfolio_value =>
              (loan_balance - sold) * ctx.ltv_limit.den
                 = ctx.ltv_limit.num * (portfolio_value - sold)
    BY <2>2, <2>3, MarginCallSale DEF MarginCall
  <2> HIDE DEF sold
  <2> QED
    BY <2>1, <2>2, <2>4
<1> QED
  BY <1>1, TypeCorrect, PTL DEF Spec, MarginCallRestoresLimit

\* The timing policy borrows only when it is free of debt.
THEOREM TimingCorrect == Spec => TimingBorrowsOnlyDebtFree
<1>1. ASSUME TypeOK, DrawInv, [Next]_vars
      PROVE  [pc = "LoanDraw" /\ ctx.withdrawal_policy.kind = "Part52"
              /\ loan_balance' > loan_balance => loan_balance = 0]_vars
  <2> SUFFICES ASSUME pc = "LoanDraw", ctx.withdrawal_policy.kind = "Part52",
                      loan_balance' > loan_balance
               PROVE  loan_balance = 0
    OBVIOUS
  <2>0. loan_balance \in Nat /\ decision.draw \in Nat
    BY <1>1 DEF TypeOK, DecisionType
  <2>1. loan_balance' \in {loan_balance, loan_balance + decision.draw}
    BY <1>1 DEF Next, InitializeAllocation, BuildDecisionContext, WithdrawalDecision, LoanDraw,
       WithdrawalExecution, LoanRepayment, AllocationDecision, PortfolioRebalance,
       MarketEvolution, InterestAccrual, LTVEvaluation, MonthlyResultBuilder,
       FailureDetection, SimulationStateUpdate, Continue, ContinueOrFail, Raise, vars
  <2>2. decision.draw > 0
    BY <2>0, <2>1
  <2> QED
    BY <1>1, <2>2 DEF DrawInv
<1> QED
  BY <1>1, TypeCorrect, DrawInvariant, PTL DEF Spec, TimingBorrowsOnlyDebtFree

----------------------------------------------------------------------------
(* The refinement.                                                         *)

\* The pipeline implements the lifecycle: each step records the next month,
\* completes after the last one, fails, aborts, or changes nothing a caller
\* sees.
THEOREM LifecycleRefinement == Spec => Lifecycle!Safety
<1>1. Init => Lifecycle!Init
  <2> SUFFICES ASSUME Init PROVE Lifecycle!Init
    OBVIOUS
  <2>1. ctx.horizon_months \in Nat /\ ctx.snapshots \in Nat \ {0}
    BY ContextsAssumption DEF Init, ContextType
  <2>2. DueMonths \in Nat /\ (DueMonths = 0 <=> ctx.horizon_months = 0)
    BY <2>1 DEF DueMonths, Lesser
  <2>3. Len(monthly_results) = 0
    BY DEF Init
  <2>4. Outcome = IF DueMonths = 0 THEN "completed" ELSE "running"
    BY <2>2 DEF Init, Outcome
  <2> QED
    BY <2>2, <2>3, <2>4 DEF Lifecycle!Init
<1>2. TypeOK /\ StatusInv /\ StatusInv' /\ TimelineInv /\ [Next]_vars
         => [Lifecycle!Next]_(Lifecycle!lvars)
  <2> SUFFICES ASSUME TypeOK, StatusInv, StatusInv', TimelineInv, [Next]_vars
               PROVE  [Lifecycle!Next]_(Lifecycle!lvars)
    OBVIOUS
  <2> DEFINE len == Len(monthly_results)
  <2>0. /\ period_index \in Nat /\ len \in Nat /\ DueMonths \in Nat
        /\ monthly_results \in Seq(MonthRecord)
    BY ContextFacts DEF TypeOK
  <2> USE StepNames
  <2>1. ASSUME ctx' = ctx, pc \in Steps, pc' \in Steps, monthly_results' = monthly_results
        PROVE  UNCHANGED Lifecycle!lvars
    <3>1. DueMonths' = DueMonths
      BY <2>1 DEF DueMonths
    <3>2. Outcome = "running" /\ Outcome' = "running"
      BY <2>1 DEF Outcome
    <3> QED
      BY <2>1, <3>1, <3>2 DEF Lifecycle!lvars
  <2>2. ASSUME ctx' = ctx, pc \in Steps, monthly_results' = monthly_results,
               pc' = "Raised" \/ (pc' = "Done" /\ status' = "FAILED")
        PROVE  Lifecycle!Stop
    <3>1. DueMonths' = DueMonths
      BY <2>2 DEF DueMonths
    <3>2. Outcome = "running" /\ Outcome' \in {"failed", "aborted"}
      BY <2>2 DEF Outcome
    <3> QED
      BY <2>2, <3>1, <3>2 DEF Lifecycle!Stop
  <2>3. CASE MidMonth
    <3>1. /\ ctx' = ctx /\ monthly_results' = monthly_results /\ pc \in Steps
          /\ pc' \in Steps \union {"Raised"}
      BY <2>3, MidMonthKeepsRun DEF run_vars
    <3> QED
      BY <2>1, <2>2, <3>1 DEF Lifecycle!Next
  <2>4. CASE WithdrawalExecution
    <3>1. /\ ctx' = ctx /\ monthly_results' = monthly_results /\ pc \in Steps
          /\ pc' \in Steps \/ (pc' = "Done" /\ status' = "FAILED")
      BY <2>4 DEF WithdrawalExecution, ContinueOrFail
    <3> QED
      BY <2>1, <2>2, <3>1 DEF Lifecycle!Next
  <2>5. CASE MonthlyResultBuilder
    <3>1. /\ pc = "MonthlyResultBuilder" /\ pc' = "FailureDetection" /\ ctx' = ctx
          /\ Len(monthly_results') = len + 1
      BY <2>0, <2>5 DEF MonthlyResultBuilder, Continue, run_vars
    <3>2. len = period_index /\ period_index < DueMonths
      BY <3>1 DEF StatusInv, TimelineInv, Live, Recorded
    <3>3. DueMonths' = DueMonths
      BY <3>1 DEF DueMonths
    <3>4. Outcome = "running" /\ Outcome' = "running"
      BY <3>1 DEF Outcome
    <3>5. Lifecycle!RecordMonth
      BY <3>1, <3>2, <3>3, <3>4 DEF Lifecycle!RecordMonth
    <3> QED
      BY <3>5 DEF Lifecycle!Next
  <2>6. CASE FailureDetection
    <3>1. /\ ctx' = ctx /\ monthly_results' = monthly_results /\ pc \in Steps
          /\ pc' \in Steps \/ (pc' = "Done" /\ status' = "FAILED")
      BY <2>6 DEF FailureDetection, ContinueOrFail
    <3> QED
      BY <2>1, <2>2, <3>1 DEF Lifecycle!Next
  <2>7. CASE SimulationStateUpdate
    <3>1. ctx' = ctx /\ monthly_results' = monthly_results /\ pc = "SimulationStateUpdate"
      BY <2>7 DEF SimulationStateUpdate
    <3>2. CASE ~LastMonth
      <4>1. pc' \in Steps
        BY <2>7, <3>2 DEF SimulationStateUpdate
      <4> QED
        BY <2>1, <3>1, <4>1
    <3>3. CASE LastMonth
      <4>1. pc' = "Done" /\ status' = "COMPLETED" /\ period_index' = period_index
        BY <2>7, <3>3 DEF SimulationStateUpdate
      <4>2. DueMonths' = DueMonths
        BY <3>1 DEF DueMonths
      <4>3. len = period_index + 1 /\ period_index < DueMonths
        BY <3>1 DEF StatusInv, TimelineInv, Live, Recorded
      <4>4. period_index + 1 = DueMonths
        BY <2>0, <4>1, <4>2, <4>3 DEF StatusInv
      <4>5. Outcome = "running" /\ Outcome' = "completed"
        BY <3>1, <4>1 DEF Outcome
      <4>6. Lifecycle!Complete
        BY <3>1, <4>2, <4>3, <4>4, <4>5 DEF Lifecycle!Complete
      <4> QED
        BY <4>6 DEF Lifecycle!Next
    <3> QED
      BY <3>2, <3>3
  <2>8. CASE UNCHANGED vars
    BY <2>8 DEF vars, Lifecycle!lvars, DueMonths, Outcome
  <2> QED
    BY <2>3, <2>4, <2>5, <2>6, <2>7, <2>8 DEF Next, MidMonth
<1> QED
  BY <1>1, <1>2, TypeCorrect, StatusInvariant, TimelineInvariant, PTL
     DEF Spec, Lifecycle!Safety

============================================================================
