--------------------- MODULE SafeWithdrawalSearchProofs ---------------------
(***************************************************************************)
(* The search is correct for every domain, grid of shares and set of       *)
(* cohorts, and for all ways the studies may end: no monotonicity of the   *)
(* outcomes is assumed.                                                    *)
(***************************************************************************)
EXTENDS SafeWithdrawalSearch, SequenceTheorems, TLAPS

\* The bracket lies in the domain, its lower end is the answer, its upper end
\* was refuted, and while a candidate is evaluated it is the midpoint.
BracketInv ==
    /\ pc # "raised" => min <= low /\ low <= high /\ high <= max
    /\ low = (IF best = NoAnswer THEN min ELSE best.rate)
    /\ high = max \/ Refuted(high)
    /\ pc = "done" => high - low <= precision
    /\ pc = "evaluate" => 2 * rate = low + high /\ high - low > precision

\* The shares tested at the candidate are a prefix of the grid, all refused.
GridInv ==
    pc = "evaluate" =>
        /\ Len(tested) \in 0 .. Len(Grid)
        /\ tested = SubSeq(Grid, 1, Len(tested))
        /\ \A i \in 1 .. Len(tested) : Refused(rate, Grid[i])

\* Outcomes are of rates inside the domain, successful ones below the bracket.
OutcomesInv ==
    \A o \in outcomes :
        /\ min < o.rate /\ o.rate < max
        /\ o.succeeded = Cohorts => o.rate <= low

IInv == TypeOK /\ BracketInv /\ GridInv /\ OutcomesInv /\ AnswerIsBest

----------------------------------------------------------------------------
\* Doubling a rate keeps the rest of an outcome.
LEMMA DoubledOutcome ==
    ASSUME NEW o \in Outcome
    PROVE  /\ Doubled(o) \in Outcome
           /\ Doubled(o).rate = 2 * o.rate
           /\ Doubled(o).borrow = o.borrow /\ Doubled(o).succeeded = o.succeeded
  BY DEF Doubled, Outcome

\* Doubling an answer keeps its shares, and an answer stays an answer.
LEMMA DoubledBest ==
    ASSUME NEW x \in Answer \union {NoAnswer}
    PROVE  /\ DoubledAnswer(x) \in Answer \union {NoAnswer}
           /\ (DoubledAnswer(x) = NoAnswer) <=> (x = NoAnswer)
           /\ x # NoAnswer =>
                 /\ DoubledAnswer(x).rate = 2 * x.rate
                 /\ DoubledAnswer(x).borrow = x.borrow
                 /\ DoubledAnswer(x).tested = x.tested
  BY NoAnswerAssumption DEF Doubled, DoubledAnswer, Answer

----------------------------------------------------------------------------
LEMMA Initially == Init => IInv
  <1> SUFFICES ASSUME Init PROVE IInv
      OBVIOUS
  <1>1. PICK d \in Domains :
            /\ pc = IF d.min > d.max THEN "raised" ELSE "search"
            /\ low = d.min /\ high = d.max /\ precision = d.precision
            /\ min = d.min /\ max = d.max
            /\ rate = d.min
            /\ tested = <<>>
            /\ best = NoAnswer
            /\ outcomes = {}
      BY DEF Init
  <1>2. d.min \in Int /\ d.max \in Int /\ d.precision \in Nat \ {0}
      BY DomainsAssumption
  <1>3. TypeOK
      BY <1>1, <1>2 DEF TypeOK
  <1>4. BracketInv
      BY <1>1, <1>2 DEF BracketInv
  <1>5. GridInv /\ OutcomesInv /\ AnswerIsBest
      BY <1>1 DEF GridInv, OutcomesInv, AnswerIsBest
  <1> QED
      BY <1>3, <1>4, <1>5 DEF IInv

\* Halving the unit changes no comparison.
LEMMA HalvePreserves == IInv /\ Halve => IInv'
  <1> SUFFICES ASSUME IInv, Halve PROVE IInv'
      OBVIOUS
  <1> USE DEF IInv
  <1>1. low \in Int /\ high \in Int /\ min \in Int /\ max \in Int /\ precision \in Nat \ {0}
      BY DEF TypeOK
  <1>2. outcomes \subseteq Outcome /\ best \in Answer \union {NoAnswer}
      BY DEF TypeOK
  <1>3. outcomes' = {Doubled(o) : o \in outcomes}
      BY DEF Halve
  <1>4. \A o \in outcomes : o.rate \in Int
      BY <1>2 DEF Outcome
  <1>5. \A r \in Int, borrow \in Int : Refused(r, borrow) =>
            \E q \in outcomes' : q.rate = 2 * r /\ q.borrow = borrow /\ q.succeeded # Cohorts
    <2> SUFFICES ASSUME NEW r \in Int, NEW borrow \in Int, Refused(r, borrow)
                 PROVE  \E q \in outcomes' : q.rate = 2 * r /\ q.borrow = borrow /\ q.succeeded # Cohorts
        OBVIOUS
    <2>1. PICK o \in outcomes : o.rate = r /\ o.borrow = borrow /\ o.succeeded # Cohorts
        BY DEF Refused
    <2>2. /\ Doubled(o) \in outcomes' /\ Doubled(o).rate = 2 * r
          /\ Doubled(o).borrow = borrow /\ Doubled(o).succeeded # Cohorts
        BY <1>2, <1>3, <2>1, DoubledOutcome
    <2> QED
        BY <2>2
  <1>6. \A r \in Int, borrow \in Int : Confirmed(r, borrow) =>
            \E q \in outcomes' : q.rate = 2 * r /\ q.borrow = borrow /\ q.succeeded = Cohorts
    <2> SUFFICES ASSUME NEW r \in Int, NEW borrow \in Int, Confirmed(r, borrow)
                 PROVE  \E q \in outcomes' : q.rate = 2 * r /\ q.borrow = borrow /\ q.succeeded = Cohorts
        OBVIOUS
    <2>1. PICK o \in outcomes : o.rate = r /\ o.borrow = borrow /\ o.succeeded = Cohorts
        BY DEF Confirmed
    <2>2. /\ Doubled(o) \in outcomes' /\ Doubled(o).rate = 2 * r
          /\ Doubled(o).borrow = borrow /\ Doubled(o).succeeded = Cohorts
        BY <1>2, <1>3, <2>1, DoubledOutcome
    <2> QED
        BY <2>2
  <1>7. \A i \in 1 .. Len(Grid) : Grid[i] \in Int
      BY GridAssumption
  <1>8. TypeOK'
    <2>1. outcomes' \subseteq Outcome
        BY <1>2, <1>3, DoubledOutcome
    <2>2. best' \in Answer \union {NoAnswer}
        BY <1>2, DoubledBest DEF Halve
    <2>3. tested' \in Seq(Int)
        BY DEF Halve
    <2> QED
        BY <1>1, <2>1, <2>2, <2>3 DEF TypeOK, Halve
  <1>9. BracketInv'
    <2>1. low' = (IF best' = NoAnswer THEN min' ELSE best'.rate)
        BY <1>2, DoubledBest DEF BracketInv, Halve
    <2>2. high' = max' \/ Refuted(high)'
      <3>1. CASE high = max
          BY <3>1 DEF Halve
      <3>2. CASE Refuted(high)
        <4>1. \A i \in 1 .. Len(Grid) : \E q \in outcomes' :
                  q.rate = 2 * high /\ q.borrow = Grid[i] /\ q.succeeded # Cohorts
            BY <1>1, <1>5, <1>7, <3>2 DEF Refuted
        <4> QED
            BY <4>1 DEF Refuted, Refused, Halve
      <3> QED
          BY <3>1, <3>2 DEF BracketInv
    <2>3. min' <= low' /\ low' <= high' /\ high' <= max'
        BY <1>1 DEF BracketInv, Halve
    <2>4. 2 * rate' = low' + high' /\ high' - low' > precision'
        BY <1>1 DEF Halve, Converged
    <2>5. pc' = "evaluate"
        BY DEF Halve
    <2> QED
        BY <2>1, <2>2, <2>3, <2>4, <2>5 DEF BracketInv
  <1>10. GridInv'
    <2>1. Len(tested') = 0 /\ SubSeq(Grid, 1, 0) = <<>> /\ tested' = <<>>
        BY GridAssumption DEF Halve
    <2>2. Len(Grid) \in Nat
        BY GridAssumption
    <2> QED
        BY <2>1, <2>2 DEF GridInv
  <1>11. OutcomesInv'
    <2> SUFFICES ASSUME NEW q \in outcomes'
                 PROVE  /\ min' < q.rate /\ q.rate < max'
                        /\ q.succeeded = Cohorts => q.rate <= low'
        BY DEF OutcomesInv
    <2>1. PICK o \in outcomes : q = Doubled(o)
        BY <1>3
    <2>2. o.rate \in Int /\ q.rate = 2 * o.rate /\ q.succeeded = o.succeeded
        BY <1>2, <1>4, <2>1, DoubledOutcome
    <2>3. min < o.rate /\ o.rate < max /\ (o.succeeded = Cohorts => o.rate <= low)
        BY DEF OutcomesInv
    <2>4. min' = 2 * min /\ max' = 2 * max /\ low' = 2 * low
        BY DEF Halve
    <2> QED
        BY <1>1, <2>2, <2>3, <2>4
  <1>12. AnswerIsBest'
    <2> SUFFICES ASSUME best' # NoAnswer
                 PROVE  AnswerIsBest'
        BY DEF AnswerIsBest
    <2>1. best' = DoubledAnswer(best)
        BY DEF Halve
    <2>2. /\ best # NoAnswer /\ best \in Answer
          /\ best'.rate = 2 * best.rate /\ best'.borrow = best.borrow
          /\ best'.tested = best.tested
        BY <1>2, <2>1, DoubledBest
    <2>3. best.rate \in Int /\ best.borrow \in Int /\ best.tested \in Seq(Int)
        BY <2>2 DEF Answer
    <2>4. /\ Len(best.tested) \in 1 .. Len(Grid)
          /\ best.tested = SubSeq(Grid, 1, Len(best.tested))
          /\ best.borrow = Grid[Len(best.tested)]
          /\ Confirmed(best.rate, best.borrow)
          /\ \A i \in 1 .. Len(best.tested) - 1 : Refused(best.rate, Grid[i])
        BY <2>2 DEF AnswerIsBest
    <2>5. \E q \in outcomes' :
              q.rate = best'.rate /\ q.borrow = best'.borrow /\ q.succeeded = Cohorts
      <3>1. \E q \in outcomes' :
                q.rate = 2 * best.rate /\ q.borrow = best.borrow /\ q.succeeded = Cohorts
          BY <1>6, <2>3, <2>4
      <3> QED
          BY <2>2, <3>1
    <2>6. \A i \in 1 .. Len(best.tested) - 1 : i \in 1 .. Len(Grid)
        BY <2>4, GridAssumption
    <2>7. \A i \in 1 .. Len(best'.tested) - 1 : \E q \in outcomes' :
              q.rate = best'.rate /\ q.borrow = Grid[i] /\ q.succeeded # Cohorts
      <3>1. \A i \in 1 .. Len(best.tested) - 1 : \E q \in outcomes' :
                q.rate = 2 * best.rate /\ q.borrow = Grid[i] /\ q.succeeded # Cohorts
          BY <1>5, <1>7, <2>3, <2>4, <2>6
      <3> QED
          BY <2>2, <3>1
    <2>8. best'.rate = low'
        BY <1>9 DEF BracketInv
    <2>9. \A o \in outcomes' : o.succeeded = Cohorts => o.rate <= best'.rate
        BY <1>11, <2>8 DEF OutcomesInv
    <2> QED
        BY <2>2, <2>4, <2>5, <2>7, <2>9 DEF AnswerIsBest, Confirmed, Refused
  <1> QED
      BY <1>8, <1>9, <1>10, <1>11, <1>12

\* Executing a study of the candidate and the next share.
LEMMA EvaluatePreserves == IInv /\ EvaluateSingle => IInv'
  <1> SUFFICES ASSUME IInv, EvaluateSingle PROVE IInv'
      OBVIOUS
  <1> USE DEF IInv
  <1> DEFINE borrow == Grid[Len(tested) + 1]
  <1>1. PICK succeeded \in SUBSET Cohorts :
            /\ tested' = Append(tested, borrow)
            /\ outcomes' = outcomes \union
                   {[rate |-> rate, borrow |-> borrow, succeeded |-> succeeded]}
            /\ IF succeeded = Cohorts
               THEN /\ pc' = "search"
                    /\ low' = rate
                    /\ best' = [rate |-> rate, borrow |-> borrow, tested |-> tested']
               ELSE UNCHANGED <<pc, low, best>>
      BY DEF EvaluateSingle, AllSucceed
  <1> DEFINE new == [rate |-> rate, borrow |-> borrow, succeeded |-> succeeded]
  <1>2. /\ pc = "evaluate" /\ Len(tested) < Len(Grid)
        /\ UNCHANGED <<high, precision, min, max, rate>>
      BY DEF EvaluateSingle
  <1>3. /\ low \in Int /\ high \in Int /\ min \in Int /\ max \in Int /\ rate \in Int
        /\ precision \in Nat \ {0} /\ tested \in Seq(Int)
        /\ best \in Answer \union {NoAnswer} /\ outcomes \subseteq Outcome
      BY DEF TypeOK
  <1>4. Len(tested) \in Nat /\ Len(Grid) \in Nat /\ borrow \in Int
      BY <1>2, <1>3, GridAssumption
  <1>5. /\ min <= low /\ low <= high /\ high <= max
        /\ 2 * rate = low + high /\ high - low > precision
      BY <1>2 DEF BracketInv
  <1>6. low < rate /\ rate < high
      BY <1>3, <1>5
  <1>7. /\ tested = SubSeq(Grid, 1, Len(tested))
        /\ \A i \in 1 .. Len(tested) : Refused(rate, Grid[i])
      BY <1>2 DEF GridInv
  <1>8. /\ tested' = SubSeq(Grid, 1, Len(tested) + 1) /\ tested' \in Seq(Int)
        /\ Len(tested') = Len(tested) + 1
    <2>1. tested' \in Seq(Int) /\ Len(tested') = Len(tested) + 1
        BY <1>1, <1>3, <1>4
    <2>2. SubSeq(Grid, 1, Len(tested) + 1) = Append(SubSeq(Grid, 1, Len(tested)), borrow)
        BY <1>2, <1>4, GridAssumption, SMTT(30)
    <2> QED
        BY <1>1, <1>7, <2>1, <2>2
  <1>9. new \in Outcome /\ new \in outcomes' /\ outcomes' = outcomes \union {new}
      BY <1>1, <1>3, <1>4 DEF Outcome
  <1>10. \A r, b : Refused(r, b) => Refused(r, b)'
      BY <1>9 DEF Refused
  <1>11. (high = max \/ Refuted(high))'
      BY <1>2, <1>9 DEF BracketInv, Refuted, Refused
  <1>12. CASE succeeded = Cohorts
    <2>1. pc' = "search" /\ low' = rate
          /\ best' = [rate |-> rate, borrow |-> borrow, tested |-> tested']
        BY <1>1, <1>12
    <2>2. best' \in Answer /\ best' # NoAnswer
      <3>1. [rate |-> rate, borrow |-> borrow, tested |-> tested'] \in Answer
          BY <1>3, <1>4, <1>8 DEF Answer
      <3>2. NoAnswer \notin Answer
          BY NoAnswerAssumption DEF Answer
      <3> QED
          BY <2>1, <3>1, <3>2
    <2>3. TypeOK'
        BY <1>2, <1>3, <1>8, <1>9, <2>1, <2>2 DEF TypeOK
    <2>4. BracketInv'
        BY <1>2, <1>3, <1>5, <1>6, <1>11, <2>1, <2>2 DEF BracketInv
    <2>5. GridInv'
        BY <2>1 DEF GridInv
    <2>6. OutcomesInv'
        BY <1>2, <1>3, <1>5, <1>6, <1>9, <2>1 DEF OutcomesInv, Outcome
    <2>7. AnswerIsBest'
      <3>1. /\ best'.tested = tested' /\ best'.rate = rate /\ best'.borrow = borrow
          BY <2>1
      <3>2. Len(best'.tested) \in 1 .. Len(Grid)
          BY <1>2, <1>4, <1>8, <3>1
      <3>3. best'.borrow = Grid[Len(best'.tested)] /\ best'.tested = SubSeq(Grid, 1, Len(best'.tested))
          BY <1>8, <3>1
      <3>4. \E o \in outcomes' : o.rate = rate /\ o.borrow = borrow /\ o.succeeded = Cohorts
          BY <1>9, <1>12
      <3>5. \A i \in 1 .. Len(tested') - 1 :
                \E o \in outcomes' : o.rate = rate /\ o.borrow = Grid[i] /\ o.succeeded # Cohorts
          BY <1>4, <1>7, <1>8, <1>9 DEF Refused
      <3>6. \A o \in outcomes' : o.succeeded = Cohorts => o.rate <= rate
          BY <2>1, <2>6 DEF OutcomesInv
      <3> QED
          BY <3>1, <3>2, <3>3, <3>4, <3>5, <3>6 DEF AnswerIsBest, Confirmed, Refused
    <2> QED
        BY <2>3, <2>4, <2>5, <2>6, <2>7
  <1>13. CASE succeeded # Cohorts
    <2>1. UNCHANGED <<pc, low, best>>
        BY <1>1, <1>13
    <2>2. TypeOK'
        BY <1>2, <1>3, <1>8, <1>9, <2>1 DEF TypeOK
    <2>3. BracketInv'
        BY <1>2, <1>3, <1>5, <1>11, <2>1 DEF BracketInv
    <2>4. GridInv'
      <3>1. \A i \in 1 .. Len(tested') :
                \E o \in outcomes' : o.rate = rate /\ o.borrow = Grid[i] /\ o.succeeded # Cohorts
        <4> SUFFICES ASSUME NEW i \in 1 .. Len(tested')
                     PROVE  \E o \in outcomes' :
                               o.rate = rate /\ o.borrow = Grid[i] /\ o.succeeded # Cohorts
            OBVIOUS
        <4>1. CASE i \in 1 .. Len(tested)
            BY <1>7, <1>9, <4>1 DEF Refused
        <4>2. CASE i = Len(tested) + 1
            BY <1>9, <1>13, <4>2
        <4> QED
            BY <1>4, <1>8, <4>1, <4>2
      <3>2. Len(tested') \in 0 .. Len(Grid)
          BY <1>2, <1>4, <1>8
      <3> QED
          BY <1>2, <1>8, <3>1, <3>2 DEF GridInv, Refused
    <2>5. OutcomesInv'
        BY <1>2, <1>3, <1>5, <1>6, <1>9, <1>13, <2>1 DEF OutcomesInv, Outcome
    <2>6. AnswerIsBest'
        BY <1>9, <1>13, <2>1 DEF AnswerIsBest, Confirmed, Refused
    <2> QED
        BY <2>2, <2>3, <2>4, <2>5, <2>6
  <1> QED
      BY <1>12, <1>13

\* The whole grid was refused at the candidate: it becomes the upper end.
LEMMA InfeasiblePreserves == IInv /\ Infeasible => IInv'
  <1> SUFFICES ASSUME IInv, Infeasible PROVE IInv'
      OBVIOUS
  <1> USE DEF IInv
  <1>1. /\ pc = "evaluate" /\ Len(tested) = Len(Grid) /\ pc' = "search" /\ high' = rate
        /\ UNCHANGED <<low, precision, min, max, rate, tested, best, outcomes>>
      BY DEF Infeasible, UpperEnd
  <1>2. TypeOK'
      BY <1>1 DEF TypeOK
  <1>3. Refuted(high)'
      BY <1>1 DEF GridInv, Refuted, Refused
  <1>4. BracketInv'
      BY <1>1, <1>3 DEF BracketInv, TypeOK
  <1>5. GridInv' /\ OutcomesInv'
      BY <1>1 DEF GridInv, OutcomesInv
  <1>6. AnswerIsBest'
      BY <1>1 DEF AnswerIsBest, Confirmed, Refused
  <1> QED
      BY <1>2, <1>4, <1>5, <1>6

\* Steps that change the program counter only.
LEMMA EndPreserves == IInv /\ (EvaluationRaises \/ Return \/ UNCHANGED vars) => IInv'
  <1> SUFFICES ASSUME IInv, EvaluationRaises \/ Return \/ UNCHANGED vars PROVE IInv'
      OBVIOUS
  <1> USE DEF IInv
  <1>1. /\ UNCHANGED <<low, high, precision, min, max, rate, tested, best, outcomes>>
        /\ \/ pc' = "raised"
           \/ pc = "search" /\ pc' = "done" /\ high - low <= precision
           \/ pc' = pc
      BY DEF EvaluationRaises, Return, Converged, vars
  <1>2. TypeOK'
      BY <1>1 DEF TypeOK
  <1>3. BracketInv'
      BY <1>1 DEF BracketInv, Refuted, Refused
  <1>4. GridInv' /\ OutcomesInv'
      BY <1>1 DEF GridInv, OutcomesInv, Refused
  <1>5. AnswerIsBest'
      BY <1>1 DEF AnswerIsBest, Confirmed, Refused
  <1> QED
      BY <1>2, <1>3, <1>4, <1>5

THEOREM Inductive == Spec => []IInv
  <1>1. IInv /\ [Next]_vars => IInv'
      BY HalvePreserves, EvaluatePreserves, InfeasiblePreserves, EndPreserves
         DEF Next, Terminating
  <1> QED
      BY Initially, <1>1, PTL DEF Spec

----------------------------------------------------------------------------
\* The numbers of the search stay integers, the precision positive.
THEOREM TypeCorrect == Spec => []TypeOK
  <1>1. IInv => TypeOK
      BY DEF IInv
  <1> QED
      BY <1>1, Inductive, PTL

\* The answer was executed and succeeded, no higher rate that was tried did.
THEOREM AnswerCorrect == Spec => []AnswerIsBest
  <1>1. IInv => AnswerIsBest
      BY DEF IInv
  <1> QED
      BY <1>1, Inductive, PTL

\* The answer is within the precision of a refuted rate or the upper end.
THEOREM BracketCorrect == Spec => []BracketIsTight
  <1>1. IInv => BracketIsTight
      BY DEF IInv, BracketIsTight, BracketInv, OutcomesInv
  <1> QED
      BY <1>1, Inductive, PTL

\* Every candidate halves the bracket.
THEOREM HalvingCorrect == Spec => CandidateHalves
  <1>1. IInv /\ [Next]_vars =>
            [pc = "evaluate" /\ pc' = "search" => 2 * (high' - low') = high - low]_vars
    <2> SUFFICES ASSUME IInv, Next, pc = "evaluate", pc' = "search"
                 PROVE  2 * (high' - low') = high - low
        BY DEF vars
    <2>1. low \in Int /\ high \in Int /\ rate \in Int /\ 2 * rate = low + high
        BY DEF IInv, TypeOK, BracketInv
    <2>2. \/ low' = rate /\ high' = high
          \/ low' = low /\ high' = rate
        BY DEF Next, Halve, EvaluateSingle, Infeasible, UpperEnd, EvaluationRaises, Return,
               Terminating, vars
    <2> QED
        BY <2>1, <2>2
  <1> QED
      BY <1>1, Inductive, PTL DEF Spec, CandidateHalves

=============================================================================
