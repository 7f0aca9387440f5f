------------------------ MODULE SafeWithdrawalSearch ------------------------
(***************************************************************************)
(* SWROptimizer.optimize with the Part 52 evaluator: bisection for the     *)
(* highest withdrawal rate at which some share of borrowing lets every     *)
(* cohort of a study succeed.  Whether it does is known only by building   *)
(* and executing a study per rate and share, in any way that may end.      *)
(*                                                                         *)
(* Halving a Decimal is exact.  Rates are therefore counted in units that  *)
(* halve with each midpoint, and every number that is kept doubles.        *)
(***************************************************************************)
EXTENDS Integers, Sequences

CONSTANTS
    Domains,    \* domain_min, domain_max and precision of a search
    Grid,       \* borrow_pcts, in the order they are tried
    Cohorts,    \* of every study that is built
    NoAnswer

ASSUME DomainsAssumption ==
    \A d \in Domains : d.min \in Int /\ d.max \in Int /\ d.precision \in Nat \ {0}
ASSUME GridAssumption == Grid \in Seq(Int)
ASSUME NoAnswerAssumption == NoAnswer \notin [rate : Int, borrow : Int, tested : Seq(Int)]

VARIABLES
    pc,
    low, high, precision,
    min, max,   \* the ends of the domain
    rate,       \* the candidate under evaluation
    tested,     \* shares tried at that rate
    best,       \* best_candidate and best_provenance
    outcomes    \* history: every study executed, and the cohorts that succeeded

vars == <<pc, low, high, precision, min, max, rate, tested, best, outcomes>>

Answer == [rate : Int, borrow : Int, tested : Seq(Int)]
Outcome == [rate : Int, borrow : Int, succeeded : SUBSET Cohorts]

\* In units of half the size.
Doubled(x) == [x EXCEPT !.rate = 2 * @]
DoubledAnswer(x) == IF x = NoAnswer THEN NoAnswer ELSE Doubled(x)

----------------------------------------------------------------------------
Init ==
    \E d \in Domains :
        /\ pc = IF d.min > d.max THEN "raised" ELSE "search"
        /\ low = d.min /\ high = d.max /\ precision = d.precision
        /\ min = d.min /\ max = d.max
        /\ rate = d.min
        /\ tested = <<>>
        /\ best = NoAnswer
        /\ outcomes = {}

\* MUTANT: precision is not met by the bracket but by half of it.
ConvergedTooSoon == high - low <= 2 * precision

\* The condition that ends the loop.
Converged == high - low <= precision

\* The midpoint, and the evaluator's fresh list of tested shares.
Halve ==
    /\ pc = "search" /\ ~Converged
    /\ pc' = "evaluate"
    /\ rate' = low + high
    /\ tested' = <<>>
    /\ low' = 2 * low /\ high' = 2 * high /\ precision' = 2 * precision
    /\ min' = 2 * min /\ max' = 2 * max
    /\ best' = DoubledAnswer(best)
    /\ outcomes' = {Doubled(o) : o \in outcomes}

\* MUTANT: one successful cohort is enough.
AnySucceeds(succeeded) == succeeded # {}

AllSucceed(succeeded) == succeeded = Cohorts

\* Part52Evaluator._evaluate_single of the next share of the grid: a plan is
\* built and executed.  The first share that lets all cohorts succeed decides.
EvaluateSingle ==
    /\ pc = "evaluate" /\ Len(tested) < Len(Grid)
    /\ \E succeeded \in SUBSET Cohorts :
          LET borrow == Grid[Len(tested) + 1]
          IN  /\ tested' = Append(tested, borrow)
              /\ outcomes' = outcomes \union
                     {[rate |-> rate, borrow |-> borrow, succeeded |-> succeeded]}
              /\ IF AllSucceed(succeeded)
                 THEN /\ pc' = "search"
                      /\ low' = rate
                      /\ best' = [rate |-> rate, borrow |-> borrow, tested |-> tested']
                 ELSE UNCHANGED <<pc, low, best>>
    /\ UNCHANGED <<high, precision, min, max, rate>>

\* MUTANT: a rate that fails does not lower the upper end.
UpperAfterFailure == 2 * rate - low

UpperEnd == rate

\* No share of the grid, which may be empty, lets all cohorts succeed.
Infeasible ==
    /\ pc = "evaluate" /\ Len(tested) = Len(Grid)
    /\ pc' = "search"
    /\ high' = UpperEnd
    /\ UNCHANGED <<low, precision, min, max, rate, tested, best, outcomes>>

\* Building or executing a study throws, and so does the search.
EvaluationRaises ==
    /\ pc = "evaluate" /\ Len(tested) < Len(Grid)
    /\ pc' = "raised"
    /\ UNCHANGED <<low, high, precision, min, max, rate, tested, best, outcomes>>

Return ==
    /\ pc = "search" /\ Converged
    /\ pc' = "done"
    /\ UNCHANGED <<low, high, precision, min, max, rate, tested, best, outcomes>>

Terminating == pc \in {"done", "raised"} /\ UNCHANGED vars

Next == Halve \/ EvaluateSingle \/ Infeasible \/ EvaluationRaises \/ Return \/ Terminating

Spec == Init /\ [][Next]_vars

----------------------------------------------------------------------------
(* Properties.                                                             *)

\* Types: the ends are numbers and what is kept of a search is what was executed.
TypeOK ==
    /\ pc \in {"search", "evaluate", "done", "raised"}
    /\ low \in Int /\ high \in Int /\ min \in Int /\ max \in Int /\ rate \in Int
    /\ precision \in Nat \ {0}
    /\ tested \in Seq(Int)
    /\ best \in Answer \union {NoAnswer}
    /\ outcomes \subseteq Outcome

\* A study of a rate and a share was executed, and all cohorts succeeded or not.
Confirmed(r, borrow) ==
    \E o \in outcomes : o.rate = r /\ o.borrow = borrow /\ o.succeeded = Cohorts
Refused(r, borrow) ==
    \E o \in outcomes : o.rate = r /\ o.borrow = borrow /\ o.succeeded # Cohorts

\* At a rate every share of the grid left some cohort failing.
Refuted(r) == \A i \in 1 .. Len(Grid) : Refused(r, Grid[i])

\* What is answered was executed: all cohorts succeeded at that rate with that
\* share, and with none of the shares tried before it; and of the rates that
\* were tried no other that succeeded is higher.
AnswerIsBest ==
    best # NoAnswer =>
        /\ Len(best.tested) \in 1 .. Len(Grid)
        /\ best.tested = SubSeq(Grid, 1, Len(best.tested))
        /\ best.borrow = Grid[Len(best.tested)]
        /\ Confirmed(best.rate, best.borrow)
        /\ \A i \in 1 .. Len(best.tested) - 1 : Refused(best.rate, Grid[i])
        /\ \A o \in outcomes : o.succeeded = Cohorts => o.rate <= best.rate

\* A search ends with an answer, or the lower end of its domain, that is no more
\* than the precision below a rate that was refuted, or the upper end.  The ends
\* themselves are never tried.
BracketIsTight ==
    /\ pc = "done" =>
          /\ high - low <= precision
          /\ low = (IF best = NoAnswer THEN min ELSE best.rate)
          /\ high = max \/ Refuted(high)
    /\ \A o \in outcomes : min < o.rate /\ o.rate < max

\* Every candidate, feasible or not, halves the bracket: the number of studies
\* is bounded by the logarithm of the domain's width over the precision.
CandidateHalves ==
    [][pc = "evaluate" /\ pc' = "search" => 2 * (high' - low') = high - low]_vars

=============================================================================
