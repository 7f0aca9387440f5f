------------------------ MODULE WithdrawalPolicies ------------------------
(***************************************************************************)
(* The withdrawal policies of fbf.core.domain.policies, as operators: what *)
(* a policy answers for a month, given the loan balance its decision       *)
(* context shows and the two market signals it reads (the index is at or   *)
(* below the drawdown threshold; the index is at an all-time high).        *)
(*                                                                         *)
(* Every amount is fixed when the cohort starts (a fraction of the initial *)
(* wealth), so a policy is a record: "budget" is the spending of an active *)
(* month and "draw" the part of it (Part 52) or the amount on top of it    *)
(* (Part 49) that the policy borrows.                                      *)
(***************************************************************************)
EXTENDS Naturals

CONSTANT
    YearLength    \* months between two events of an ANNUAL policy; 12 in the code

ASSUME YearLengthAssumption == YearLength \in Nat \ {0}

\* Part 52 splits its budget into a sold and a borrowed share; Part 49 adds
\* a draw to the withdrawal; the fixed real policy never borrows.
PolicyType ==
    {p \in [kind: {"FixedReal", "Part49", "Part52"},
            frequency: {"MONTHLY", "ANNUAL"},
            budget: Nat, draw: Nat] :
        /\ p.kind = "Part52" => p.draw <= p.budget
        /\ p.kind = "FixedReal" => p.draw = 0}

DecisionType == [nominal: Nat, draw: Nat, is_repayment: BOOLEAN]

\* What an ANNUAL policy returns in the months it skips.
NoWithdrawal == [nominal |-> 0, draw |-> 0, is_repayment |-> FALSE]

\* FixedRealWithdrawalPolicy._decide_active
FixedRealDecision(policy) ==
    [nominal |-> policy.budget, draw |-> 0, is_repayment |-> FALSE]

\* Part49WithdrawalPolicy._decide_active
Part49Decision(policy) ==
    [nominal |-> policy.budget, draw |-> policy.draw, is_repayment |-> FALSE]

\* MUTANT: borrows in every drawdown, whatever it owes.
BorrowInEveryDrawdown(policy, loan_seen, in_drawdown, is_ath) ==
    IF in_drawdown
    THEN [nominal |-> policy.budget - policy.draw, draw |-> policy.draw,
          is_repayment |-> FALSE]
    ELSE FixedRealDecision(policy)

\* Part52WithdrawalPolicy._decide_active: borrow in a drawdown when free of
\* debt, repay with a doubled withdrawal at a fresh high, else sell the budget.
Part52Decision(policy, loan_seen, in_drawdown, is_ath) ==
    CASE in_drawdown /\ loan_seen = 0 ->
            [nominal |-> policy.budget - policy.draw, draw |-> policy.draw,
             is_repayment |-> FALSE]
      [] ~(in_drawdown /\ loan_seen = 0) /\ is_ath /\ loan_seen > 0 ->
            [nominal |-> 2 * policy.budget, draw |-> 0, is_repayment |-> TRUE]
      [] OTHER -> FixedRealDecision(policy)

DecideActive(policy, loan_seen, in_drawdown, is_ath) ==
    CASE policy.kind = "FixedReal" -> FixedRealDecision(policy)
      [] policy.kind = "Part49" -> Part49Decision(policy)
      [] policy.kind = "Part52" ->
            Part52Decision(policy, loan_seen, in_drawdown, is_ath)

\* WithdrawalPolicy.decide: the frequency gate in front of _decide_active.
Decide(policy, period, loan_seen, in_drawdown, is_ath) ==
    IF policy.frequency = "ANNUAL" /\ period % YearLength # 0
    THEN NoWithdrawal
    ELSE DecideActive(policy, loan_seen, in_drawdown, is_ath)

=============================================================================
