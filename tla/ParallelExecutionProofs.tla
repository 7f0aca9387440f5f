---------------------- MODULE ParallelExecutionProofs ----------------------
(***************************************************************************)
(* A call of parallel_execute or execute_reference answers for the units   *)
(* of its plan, one by one and in order, for any number of callers,        *)
(* workers, batches and slices, whatever fails, times out or dies; and if  *)
(* no other caller seeds the same memory, with sequential_execute's        *)
(* answers.                                                                *)
(***************************************************************************)
EXTENDS ParallelExecution, WellOrdering, SequenceTheorems

\* The caller has a pool.
Live(c) == pc[c] \in {"collect", "leave"}

\* What _initialize_worker has done when a worker is in a state.
HasDefinition(state) == state \notin {"absent", "new"}
HasUnits(state) == state \notin {"absent", "new", "seeding units"}
HasExecutor(state) == state \notin {"absent", "new", "seeding units", "seeding executor"}

\* Consecutive units of a plan somebody may ask for.
IsPart(units) ==
    \E calls \in Workloads, d \in Callers :
        \E i, j \in DOMAIN calls[d].plan : i <= j /\ units = SubSeq(calls[d].plan, i, j)

\* A worker has a batch.
Busy(task) == task.state \in {"loading", "loading executor", "running"}

\* How many units a batch has.
Size(c, b) == Batch(c, b).last - Batch(c, b).first + 1

\* Results of the slice under way.
Done(c) == IF collected[c] = 0 THEN 0 ELSE Batch(c, collected[c]).last

\* The sequential answer for one unit of the caller's plan.
Alone(c, k) ==
    [definition |-> c, answer |-> Execute(call[c].executor, <<call[c].plan[k]>>)[1]]
RaisesAlone(c, k) == Raises(call[c].executor, <<call[c].plan[k]>>)
AnswersAlone(c, s) == \A k \in 1 .. Len(s) : s[k] = Alone(c, k) /\ ~RaisesAlone(c, k)
SomeRaisesAlone(c) == \E k \in DOMAIN call[c].plan : RaisesAlone(c, k)

NumbersInv == offset \in [Callers -> Nat] /\ collected \in [Callers -> Nat] /\ progress \in [Callers -> Nat]

GlobalsInv == \A h \in Homes : globals[h].units = <<>> \/ IsPart(globals[h].units)

\* Futures and workers are there as long as the pool is.
Control(c) ==
    /\ error[c] # "none" => pc[c] \in {"leave", "raised"}
    /\ pc[c] = "raised" => error[c] # "none"
    /\ pc[c] = "leave" /\ error[c] = "none" => collected[c] = Len(futures[c])
    /\ pc[c] = "returned" => offset[c] = Len(call[c].plan)
    /\ Live(c) =>
          /\ call[c].workers > 1
          /\ offset[c] < Len(call[c].plan)
          /\ DOMAIN futures[c] = Batches(c)
    /\ ~Live(c) =>
          /\ futures[c] = <<>>
          /\ collected[c] = 0
          /\ \A w \in Numbers : worker[c][w].state = "absent"

\* Results and progress count units.
Counted(c) ==
    /\ pc[c] # "raised" => Len(results[c]) = offset[c] + Done(c)
    /\ Len(results[c]) <= Len(call[c].plan)
    /\ progress[c] <= Len(results[c])
    /\ pc[c] \in {"slice", "returned"} => progress[c] = offset[c]

\* A batch that is running is held by one worker.
Held(c) ==
    /\ \A w \in Numbers : Busy(worker[c][w]) =>
          /\ worker[c][w].batch \in DOMAIN futures[c]
          /\ futures[c][worker[c][w].batch].state = "running"
    /\ \A v, w \in Numbers :
          Busy(worker[c][v]) /\ Busy(worker[c][w]) /\ worker[c][v].batch = worker[c][w].batch => v = w
    /\ \A b \in DOMAIN futures[c] : futures[c][b].state = "running" =>
          \E w \in Numbers : Busy(worker[c][w]) /\ worker[c][w].batch = b

\* Whosever units a worker executes, they are as many as its batch has.
Sized(c) ==
    /\ \A w \in Numbers : Busy(worker[c][w]) =>
          IsPart(worker[c][w].units) /\ Len(worker[c][w].units) = Size(c, worker[c][w].batch)
    /\ \A b \in DOMAIN futures[c] :
          futures[c][b].state = "finished" => Len(futures[c][b].answers) = Size(c, b)

\* A worker that takes batches finds some caller's definition.
Seeded(c) ==
    \A w \in Numbers :
        /\ HasDefinition(worker[c][w].state) => globals[Home(c, w)].definition \in Callers
        /\ worker[c][w].state \in {"loading executor", "running"} =>
              worker[c][w].definition \in Callers

\* What a caller nobody interferes with has seeded is what its workers find,
Memory(c) ==
    \A w \in Numbers :
        /\ HasDefinition(worker[c][w].state) => globals[Home(c, w)].definition = c
        /\ HasUnits(worker[c][w].state) => globals[Home(c, w)].units = Slice(c)
        /\ HasExecutor(worker[c][w].state) => globals[Home(c, w)].executor = call[c].executor

\* what they execute,
Tasks(c) ==
    \A w \in Numbers : Busy(worker[c][w]) =>
        /\ worker[c][w].units = BatchUnits(c, worker[c][w].batch)
        /\ worker[c][w].state # "loading" => worker[c][w].definition = c
        /\ worker[c][w].state = "running" => worker[c][w].executor = call[c].executor

\* what they answer,
Answered(c) ==
    \A b \in DOMAIN futures[c] :
        /\ futures[c][b].state = "finished" =>
              /\ ~Raises(call[c].executor, BatchUnits(c, b))
              /\ futures[c][b].answers = Tagged(c, Execute(call[c].executor, BatchUnits(c, b)))
        /\ futures[c][b].state = "failed" =>
              Raises(call[c].executor, BatchUnits(c, b)) \/ call[c].crashes

\* and what the caller gets.
Gathered(c) ==
    Composable(c) =>
        /\ AnswersAlone(c, results[c])
        /\ error[c] = "failure" => call[c].crashes \/ SomeRaisesAlone(c)
        /\ error[c] = "timeout" => call[c].timeout

Own(c) == Isolated(c) => Memory(c) /\ Tasks(c) /\ Answered(c) /\ Gathered(c)

CallerInv(c) == Control(c) /\ Counted(c) /\ Held(c) /\ Sized(c) /\ Seeded(c) /\ Own(c)

IInv == TypeOK /\ NumbersInv /\ GlobalsInv /\ \A c \in Callers : CallerInv(c)


----------------------------------------------------------------------------
(* Slices and batches.                                                     *)

\* A call that somebody makes.
LEMMA Calls ==
    ASSUME call \in Workloads, NEW c \in Callers
    PROVE  /\ call[c] \in CallType
           /\ call[c].plan \in Seq(Units) /\ call[c].plan # <<>>
           /\ Len(call[c].plan) \in Nat /\ Len(call[c].plan) > 0
           /\ DOMAIN call[c].plan = 1 .. Len(call[c].plan)
  <1>1. call \in [Callers -> CallType] /\ call[c].plan # <<>>
      BY WorkloadsAssumption
  <1>2. call[c].plan \in Seq(Units)
      BY <1>1 DEF CallType
  <1> QED
      BY <1>1, <1>2

\* The units of a sequence between two places.
LEMMA Parts ==
    ASSUME NEW S, NEW s \in Seq(S), NEW i \in Nat, NEW j \in Nat, 1 <= i, j <= Len(s)
    PROVE  /\ SubSeq(s, i, j) \in Seq(S)
           /\ Len(SubSeq(s, i, j)) = IF i <= j THEN j - i + 1 ELSE 0
           /\ \A k \in 1 .. j - i + 1 : SubSeq(s, i, j)[k] = s[i + k - 1]
  <1>1. \A k \in i .. j : s[k] \in S
      BY ElementOfSeq
  <1> QED
      BY <1>1, SubSeqProperties

\* A slice ends where the next unit would start a cohort too many, or the plan ends.
LEMMA SliceEnds ==
    ASSUME call \in Workloads, NEW c \in Callers, offset[c] \in Nat, offset[c] < Len(call[c].plan)
    PROVE  SliceEnd(c, offset[c]) \in offset[c] + 1 .. Len(call[c].plan)
  <1> DEFINE plan == call[c].plan
             from == offset[c]
             few == {k \in from + 1 .. Len(plan) : CohortsIn(plan, from + 1, k) <= call[c].cohorts}
  <1>1. Len(plan) \in Nat /\ call[c].cohorts \in Nat
      BY Calls DEF CallType
  <1>2. CASE call[c].cohorts = 0
      BY <1>1, <1>2 DEF SliceEnd
  <1>3. CASE call[c].cohorts # 0
    <2>1. CohortsIn(plan, from + 1, from + 1) = 1
      <3>1. {k \in from + 1 .. from + 1 : k = from + 1 \/ Cohort[plan[k]] # Cohort[plan[k - 1]]}
                = {from + 1}
          OBVIOUS
      <3> QED
          BY <3>1, FS_Singleton DEF CohortsIn
    <2>2. from + 1 \in few
        BY <1>1, <1>3, <2>1
    <2>3. few \in SUBSET (0 .. Len(plan)) /\ few # {}
        BY <2>2
    <2> HIDE DEF few
    <2>4. PICK k \in few : \A l \in few : l <= k
        BY <1>1, <2>3, GreatestNumber
    <2>5. /\ k \in from + 1 .. Len(plan)
          /\ CohortsIn(plan, from + 1, k) <= call[c].cohorts
        BY DEF few
    <2>6. \A l \in k + 1 .. Len(plan) : l \in from + 1 .. Len(plan) /\ l \notin few
        BY <1>1, <2>4, <2>5
    <2>7. \A l \in k + 1 .. Len(plan) : CohortsIn(plan, from + 1, l) \in Nat
      <3> SUFFICES ASSUME NEW l \in k + 1 .. Len(plan) PROVE CohortsIn(plan, from + 1, l) \in Nat
          OBVIOUS
      <3>1. from + 1 \in Int /\ l \in Int
          BY <1>1, <2>5
      <3>2. IsFiniteSet(from + 1 .. l)
          BY <3>1, FS_Interval
      <3>3. IsFiniteSet({m \in from + 1 .. l : m = from + 1 \/ Cohort[plan[m]] # Cohort[plan[m - 1]]})
          BY <3>2, FS_Subset
      <3> QED
          BY <3>3, FS_CardinalityType DEF CohortsIn
    <2>8. \A l \in k + 1 .. Len(plan) : CohortsIn(plan, from + 1, l) > call[c].cohorts
      <3> SUFFICES ASSUME NEW l \in k + 1 .. Len(plan)
                   PROVE  CohortsIn(plan, from + 1, l) > call[c].cohorts
          OBVIOUS
      <3>1. ~(CohortsIn(plan, from + 1, l) <= call[c].cohorts)
          BY <2>6 DEF few
      <3> QED
          BY <1>1, <2>7, <3>1
    <2> QED
        BY <1>3, <2>5, <2>8 DEF SliceEnd
  <1> QED
      BY <1>2, <1>3

\* A slice is a part of the plan that is not empty.
LEMMA Slices ==
    ASSUME call \in Workloads, NEW c \in Callers, offset[c] \in Nat, offset[c] < Len(call[c].plan)
    PROVE  /\ Slice(c) \in Seq(Units)
           /\ Len(Slice(c)) \in Nat \ {0}
           /\ offset[c] + Len(Slice(c)) <= Len(call[c].plan)
           /\ \A k \in 1 .. Len(Slice(c)) : Slice(c)[k] = call[c].plan[offset[c] + k]
  <1> DEFINE end == SliceEnd(c, offset[c])
             start == offset[c] + 1
             plan == call[c].plan
  <1>1. end \in start .. Len(plan) /\ plan \in Seq(Units) /\ Len(plan) \in Nat /\ start \in Nat
      BY SliceEnds, Calls
  <1>2. Slice(c) = SubSeq(plan, start, end)
      BY DEF Slice
  <1> HIDE DEF end, start, plan
  <1>3. end \in Nat /\ 1 <= start /\ start <= end /\ end <= Len(plan)
      BY <1>1 DEF start
  <1>4. /\ SubSeq(plan, start, end) \in Seq(Units)
        /\ Len(SubSeq(plan, start, end)) = end - start + 1
        /\ \A k \in 1 .. end - start + 1 : SubSeq(plan, start, end)[k] = plan[start + k - 1]
      BY <1>1, <1>3, Parts
  <1>5. Len(Slice(c)) = end - offset[c] /\ Len(Slice(c)) \in Nat \ {0}
      BY <1>1, <1>2, <1>3, <1>4, SMTT(30) DEF start
  <1>6. \A k \in 1 .. Len(Slice(c)) : Slice(c)[k] = plan[offset[c] + k]
    <2> SUFFICES ASSUME NEW k \in 1 .. Len(Slice(c)) PROVE Slice(c)[k] = plan[offset[c] + k]
        OBVIOUS
    <2>1. end - start + 1 = end - offset[c] /\ k \in Nat /\ start + k - 1 = offset[c] + k
        BY <1>3 DEF start
    <2>2. k \in 1 .. end - start + 1
        BY <1>5, <2>1
    <2> QED
        BY <1>2, <1>4, <2>1, <2>2
  <1>7. offset[c] + Len(Slice(c)) <= Len(plan)
      BY <1>1, <1>3, <1>5
  <1> QED
      BY <1>2, <1>4, <1>5, <1>6, <1>7, Zenon DEF plan

\* The number of batches of the slice.
BatchCount(c) == (Len(Slice(c)) + BatchSize(c) - 1) \div BatchSize(c)

\* Batches are not empty, follow each other, and are all of the slice.
LEMMA BatchRanges ==
    ASSUME call \in Workloads, NEW c \in Callers, offset[c] \in Nat, offset[c] < Len(call[c].plan)
    PROVE  /\ BatchCount(c) \in Nat \ {0} /\ Batches(c) = 1 .. BatchCount(c)
           /\ \A b \in Batches(c) :
                 /\ Batch(c, b).first \in Nat /\ Batch(c, b).last \in Nat
                 /\ 1 <= Batch(c, b).first /\ Batch(c, b).first <= Batch(c, b).last
                 /\ Batch(c, b).last <= Len(Slice(c))
                 /\ b + 1 \in Batches(c) => Batch(c, b + 1).first = Batch(c, b).last + 1
           /\ Batch(c, 1).first = 1
           /\ Batch(c, BatchCount(c)).last = Len(Slice(c))
  <1> DEFINE n == Len(Slice(c))
             s == BatchSize(c)
             q == BatchCount(c)
  <1>1. n \in Nat \ {0}
      BY Slices
  <1>2. s \in Nat \ {0}
    <2>1. call[c].chunk \in Nat /\ call[c].workers \in Nat \ {0}
        BY Calls, MaxWorkersAssumption DEF CallType
    <2>2. CASE call[c].chunk > 0
        BY <2>1, <2>2 DEF BatchSize
    <2>3. CASE ~(call[c].chunk > 0)
      <3> DEFINE w == call[c].workers
      <3>1. s = (n + w - 1) \div w
          BY <2>3 DEF BatchSize
      <3> HIDE DEF s, n, w
      <3>2. w \in Nat \ {0}
          BY <2>1 DEF w
      <3>3. s \in Nat /\ s * w >= n
          BY <1>1, <3>1, <3>2, RoundingUp
      <3>4. s # 0
          BY <1>1, <3>2, <3>3
      <3> QED
          BY <3>3, <3>4
    <2> QED
        BY <2>2, <2>3
  <1>3. q = (n + s - 1) \div s /\ Batches(c) = 1 .. q
      BY DEF BatchCount, Batches
  <1>4. \A b : Batch(c, b).first = (b - 1) * s + 1 /\ Batch(c, b).last = Least(b * s, n)
      BY DEF Batch
  <1> HIDE DEF n, s, q
  <1>5. q \in Nat /\ q * s >= n /\ (q - 1) * s < n
      BY <1>1, <1>2, <1>3, RoundingUp
  <1>6. q # 0
      BY <1>1, <1>2, <1>5
  <1>7. ASSUME NEW b \in 1 .. q
        PROVE  /\ (b - 1) * s \in Nat /\ b * s \in Nat /\ b * s = (b - 1) * s + s
               /\ (b - 1) * s < n
               /\ b < q => b * s < n
    <2>1. \A x, y \in Nat : x <= y => x * s <= y * s
        BY <1>2
    <2>2. b - 1 \in Nat /\ q - 1 \in Nat /\ b - 1 <= q - 1 /\ b \in Nat /\ (b < q => b <= q - 1)
        BY <1>5
    <2>3. (b - 1) * s <= (q - 1) * s /\ (b < q => b * s <= (q - 1) * s)
        BY <2>1, <2>2
    <2>4. (b - 1) * s \in Nat /\ b * s \in Nat /\ (q - 1) * s \in Nat /\ b * s = (b - 1) * s + s
        BY <1>2, <2>2
    <2> QED
        BY <1>1, <1>5, <2>3, <2>4
  <1>8. ASSUME NEW b \in Batches(c)
        PROVE  /\ Batch(c, b).first \in Nat /\ Batch(c, b).last \in Nat
               /\ 1 <= Batch(c, b).first /\ Batch(c, b).first <= Batch(c, b).last
               /\ Batch(c, b).last <= n
               /\ b + 1 \in Batches(c) => Batch(c, b + 1).first = Batch(c, b).last + 1
    <2> DEFINE x == (b - 1) * s
               y == b * s
    <2>1. x \in Nat /\ y \in Nat /\ y = x + s /\ x < n /\ (b < q => y < n)
        BY <1>3, <1>7
    <2>2. Batch(c, b).first = x + 1 /\ Batch(c, b).last = Least(y, n)
        BY <1>4
    <2>3. Batch(c, b + 1).first = (b + 1 - 1) * s + 1 /\ b + 1 - 1 = b
        BY <1>3, <1>4
    <2>4. b + 1 \in Batches(c) => b < q
        BY <1>3, <1>5
    <2>5. Batch(c, b + 1).first = y + 1
        BY <2>3
    <2> HIDE DEF x, y
    <2> QED
        BY <1>1, <1>2, <2>1, <2>2, <2>4, <2>5 DEF Least
  <1>9. Batch(c, 1).first = 1
    <2>1. (1 - 1) * s = 0
        BY <1>2
    <2> QED
        BY <1>4, <2>1
  <1>10. Batch(c, q).last = n
    <2>1. q * s \in Nat
        BY <1>2, <1>5
    <2> QED
        BY <1>1, <1>4, <1>5, <2>1 DEF Least
  <1> QED
      BY <1>3, <1>5, <1>6, <1>8, <1>9, <1>10 DEF n, q

\* A batch starts and ends in the plan.
LEMMA BatchEnds ==
    ASSUME call \in Workloads, NEW c \in Callers, offset[c] \in Nat, offset[c] < Len(call[c].plan),
           NEW b \in Batches(c)
    PROVE  /\ offset[c] + Batch(c, b).first \in DOMAIN call[c].plan
           /\ offset[c] + Batch(c, b).last \in DOMAIN call[c].plan
           /\ offset[c] + Batch(c, b).first <= offset[c] + Batch(c, b).last
  <1> DEFINE first == Batch(c, b).first
             last == Batch(c, b).last
             n == Len(Slice(c))
             m == Len(call[c].plan)
  <1>1. /\ first \in Nat /\ last \in Nat /\ 1 <= first /\ first <= last /\ last <= n
        /\ n \in Nat /\ m \in Nat /\ offset[c] + n <= m /\ DOMAIN call[c].plan = 1 .. m
      BY Calls, BatchRanges, Slices
  <1> HIDE DEF first, last, n, m
  <1>2. /\ offset[c] + first \in 1 .. m /\ offset[c] + last \in 1 .. m
        /\ offset[c] + first <= offset[c] + last
      BY <1>1
  <1> QED
      BY <1>1, <1>2 DEF first, last

\* The units of a batch are units of the plan, one after the other.
LEMMA UnitsOfBatch ==
    ASSUME call \in Workloads, NEW c \in Callers, offset[c] \in Nat, offset[c] < Len(call[c].plan),
           NEW b \in Batches(c)
    PROVE  /\ BatchUnits(c, b) \in Seq(Units)
           /\ Len(BatchUnits(c, b)) = Size(c, b) /\ Size(c, b) \in Nat \ {0}
           /\ \A k \in 1 .. Size(c, b) :
                 /\ offset[c] + Batch(c, b).first + k - 1 \in DOMAIN call[c].plan
                 /\ BatchUnits(c, b)[k] = call[c].plan[offset[c] + Batch(c, b).first + k - 1]
           /\ BatchUnits(c, b) = SubSeq(call[c].plan, offset[c] + Batch(c, b).first,
                                        offset[c] + Batch(c, b).last)
  <1> DEFINE first == Batch(c, b).first
             last == Batch(c, b).last
             slice == Slice(c)
             plan == call[c].plan
             units == BatchUnits(c, b)
             other == SubSeq(plan, offset[c] + first, offset[c] + last)
  <1>1. /\ first \in Nat /\ last \in Nat /\ 1 <= first /\ first <= last /\ last <= Len(slice)
        /\ slice \in Seq(Units) /\ Len(slice) \in Nat
        /\ offset[c] + Len(slice) <= Len(plan)
        /\ \A k \in 1 .. Len(slice) : slice[k] = plan[offset[c] + k]
      BY BatchRanges, Slices
  <1>2. plan \in Seq(Units) /\ Len(plan) \in Nat /\ DOMAIN plan = 1 .. Len(plan)
      BY Calls
  <1>3. Size(c, b) = last - first + 1 /\ units = SubSeq(slice, first, last)
      BY DEF Size, BatchUnits
  <1> HIDE DEF first, last, slice, plan, units, other
  <1>4. /\ units \in Seq(Units) /\ Len(units) = Size(c, b)
        /\ \A k \in 1 .. last - first + 1 : units[k] = slice[first + k - 1]
      BY <1>1, <1>3, Parts
  <1>5. /\ other \in Seq(Units) /\ Len(other) = Size(c, b)
        /\ \A k \in 1 .. last - first + 1 : other[k] = plan[offset[c] + first + k - 1]
    <2>1. /\ offset[c] + first \in Nat /\ offset[c] + last \in Nat /\ 1 <= offset[c] + first
          /\ offset[c] + last <= Len(plan) /\ offset[c] + first <= offset[c] + last
          /\ (offset[c] + last) - (offset[c] + first) + 1 = last - first + 1
        BY <1>1, <1>2
    <2> QED
        BY <1>2, <1>3, <2>1, Parts DEF other
  <1>6. ASSUME NEW k \in 1 .. Size(c, b)
        PROVE  /\ k \in 1 .. last - first + 1
               /\ offset[c] + first + k - 1 \in 1 .. Len(plan)
               /\ units[k] = plan[offset[c] + first + k - 1]
    <2>1. k \in 1 .. last - first + 1 /\ k \in Nat
        BY <1>1, <1>3
    <2>2. first + k - 1 \in 1 .. Len(slice)
        BY <1>1, <2>1
    <2>3. units[k] = plan[offset[c] + (first + k - 1)]
        BY <1>1, <1>4, <2>1, <2>2
    <2>4. offset[c] + (first + k - 1) = offset[c] + first + k - 1
        BY <1>1, <2>1
    <2>5. offset[c] + first + k - 1 \in 1 .. Len(plan)
        BY <1>1, <1>2, <2>2, SMTT(30)
    <2> QED
        BY <2>1, <2>3, <2>4, <2>5
  <1>7. units = other
    <2>1. \A k \in 1 .. Size(c, b) : units[k] = other[k]
        BY <1>5, <1>6
    <2> QED
        BY <1>4, <1>5, <2>1, SeqEqual
  <1>8. Size(c, b) \in Nat \ {0}
      BY <1>1, <1>3
  <1> QED
      BY <1>2, <1>4, <1>6, <1>7, <1>8 DEF first, last, plan, units, other

\* Slices and batches are parts of the plan.
LEMMA PartsOfPlan ==
    ASSUME call \in Workloads, NEW c \in Callers, offset[c] \in Nat, offset[c] < Len(call[c].plan)
    PROVE  IsPart(Slice(c)) /\ \A b \in Batches(c) : IsPart(BatchUnits(c, b))
  <1>1. DOMAIN call[c].plan = 1 .. Len(call[c].plan) /\ Len(call[c].plan) \in Nat
      BY Calls
  <1>2. IsPart(Slice(c))
    <2>1. SliceEnd(c, offset[c]) \in offset[c] + 1 .. Len(call[c].plan)
        BY SliceEnds
    <2>2. /\ offset[c] + 1 \in DOMAIN call[c].plan /\ SliceEnd(c, offset[c]) \in DOMAIN call[c].plan
          /\ offset[c] + 1 <= SliceEnd(c, offset[c])
        BY <1>1, <2>1
    <2> QED
        BY <2>2 DEF IsPart, Slice
  <1>3. ASSUME NEW b \in Batches(c) PROVE IsPart(BatchUnits(c, b))
    <2> DEFINE i == offset[c] + Batch(c, b).first
               j == offset[c] + Batch(c, b).last
    <2>1. BatchUnits(c, b) = SubSeq(call[c].plan, i, j)
        BY UnitsOfBatch
    <2>2. i \in DOMAIN call[c].plan /\ j \in DOMAIN call[c].plan /\ i <= j
        BY BatchEnds
    <2> HIDE DEF i, j
    <2> QED
        BY <2>1, <2>2 DEF IsPart
  <1> QED
      BY <1>2, <1>3

\* Parts of a part that is asked for are asked for.
LEMMA PartsOfParts ==
    ASSUME NEW units, IsPart(units), NEW i \in 1 .. Len(units), NEW j \in i .. Len(units)
    PROVE  units \in Seq(Units) /\ Len(units) \in Nat /\ IsPart(SubSeq(units, i, j))
  <1>1. PICK calls \in Workloads, d \in Callers :
            \E p, q \in DOMAIN calls[d].plan : p <= q /\ units = SubSeq(calls[d].plan, p, q)
      BY DEF IsPart
  <1> DEFINE plan == calls[d].plan
  <1>2. PICK p \in DOMAIN plan, q \in DOMAIN plan : p <= q /\ units = SubSeq(plan, p, q)
      BY <1>1
  <1>3. plan \in Seq(Units)
      BY WorkloadsAssumption DEF CallType
  <1> HIDE DEF plan
  <1>4. Len(plan) \in Nat /\ DOMAIN plan = 1 .. Len(plan)
      BY <1>3
  <1>5. /\ units \in Seq(Units) /\ Len(units) = q - p + 1
        /\ \A k \in 1 .. q - p + 1 : units[k] = plan[p + k - 1]
      BY <1>2, <1>3, <1>4, Parts
  <1>6. i \in Nat /\ j \in Nat /\ 1 <= i /\ i <= j /\ j <= Len(units)
      BY <1>2, <1>4, <1>5
  <1> DEFINE from == p + i - 1
             to == p + j - 1
             part == SubSeq(units, i, j)
             other == SubSeq(plan, from, to)
  <1>7. /\ part \in Seq(Units) /\ Len(part) = j - i + 1
        /\ \A k \in 1 .. j - i + 1 : part[k] = units[i + k - 1]
      BY <1>5, <1>6, Parts
  <1>8. /\ from \in Nat /\ to \in Nat /\ 1 <= from /\ from <= to /\ to <= Len(plan)
        /\ to - from + 1 = j - i + 1
    <2> DEFINE m == Len(plan)
               n == Len(units)
    <2>1. /\ p \in 1 .. m /\ q \in 1 .. m /\ m \in Nat /\ n = q - p + 1
          /\ i \in Nat /\ j \in Nat /\ 1 <= i /\ i <= j /\ j <= n
        BY <1>2, <1>4, <1>5, <1>6
    <2> HIDE DEF m, n
    <2>2. /\ from \in Nat /\ to \in Nat /\ 1 <= from /\ from <= to /\ to <= m
          /\ to - from + 1 = j - i + 1
        BY <2>1, SMTT(30)
    <2> QED
        BY <2>2 DEF m
  <1> HIDE DEF from, to
  <1>9. /\ other \in Seq(Units) /\ Len(other) = j - i + 1
        /\ \A k \in 1 .. j - i + 1 : other[k] = plan[from + k - 1]
      BY <1>3, <1>8, Parts
  <1> HIDE DEF part, other
  <1>10. \A k \in 1 .. j - i + 1 : part[k] = other[k]
    <2> TAKE k \in 1 .. j - i + 1
    <2>1. i + k - 1 \in 1 .. q - p + 1 /\ p + (i + k - 1) - 1 = from + k - 1
        BY <1>2, <1>4, <1>5, <1>6 DEF from
    <2> QED
        BY <1>5, <1>7, <1>9, <2>1
  <1>11. part = other
      BY <1>7, <1>9, <1>10, SeqEqual
  <1>12. IsPart(other)
    <2>1. from \in DOMAIN plan /\ to \in DOMAIN plan
        BY <1>4, <1>8
    <2> QED
        BY <1>8, <2>1 DEF IsPart, plan, other
  <1> QED
      BY <1>5, <1>2, <1>4, <1>11, <1>12 DEF part

\* A batch has an answer for each of its units.
LEMMA AnswersOfParts ==
    ASSUME NEW units, IsPart(units), NEW d \in Callers, NEW executor
    PROVE  /\ Tagged(d, Execute(executor, units)) \in Seq(TaggedAnswers)
           /\ Len(Tagged(d, Execute(executor, units))) = Len(units)
           /\ \A k \in 1 .. Len(units) :
                 Tagged(d, Execute(executor, units))[k] =
                     [definition |-> d, answer |-> Execute(executor, units)[k]]
           /\ Len(units) \in Nat \ {0}
  <1>1. PICK calls \in Workloads, e \in Callers :
            \E p, q \in DOMAIN calls[e].plan : p <= q /\ units = SubSeq(calls[e].plan, p, q)
      BY DEF IsPart
  <1>2. PICK p \in DOMAIN calls[e].plan, q \in DOMAIN calls[e].plan :
            p <= q /\ units = SubSeq(calls[e].plan, p, q)
      BY <1>1
  <1>3. calls[e].plan \in Seq(Units)
      BY WorkloadsAssumption DEF CallType
  <1>4. units \in Seq(Units) /\ Len(units) \in Nat \ {0}
    <2> DEFINE plan == calls[e].plan
    <2>1. p \in Nat /\ q \in Nat /\ 1 <= p /\ q <= Len(plan)
        BY <1>2, <1>3
    <2> HIDE DEF plan
    <2>2. units \in Seq(Units) /\ Len(units) = q - p + 1
        BY <1>2, <1>3, <2>1, Parts DEF plan
    <2> QED
        BY <1>2, <2>1, <2>2
  <1> DEFINE n == Len(units)
  <1>5. DOMAIN units = 1 .. n /\ \A k \in 1 .. n : units[k] \in Units
      BY <1>4
  <1>6. Execute(executor, units) \in [1 .. n -> Answers]
    <2>1. WholeAnswers(units) \in [DOMAIN units -> Answers]
        BY <1>2, WholeAssumption
    <2>2. [k \in DOMAIN units |-> UnitAnswer[units[k]]] \in [1 .. n -> Answers]
        BY <1>5, UnitAssumption
    <2> QED
        BY <1>5, <2>1, <2>2 DEF Execute
  <1> DEFINE answers == Execute(executor, units)
             tagged == Tagged(d, answers)
  <1>7. tagged = [k \in 1 .. n |-> [definition |-> d, answer |-> answers[k]]]
      BY <1>6 DEF Tagged
  <1> HIDE DEF answers, n
  <1>8. tagged \in [1 .. n -> TaggedAnswers]
      BY <1>6, <1>7 DEF TaggedAnswers, answers
  <1>9. tagged \in Seq(TaggedAnswers) /\ Len(tagged) = n
      BY <1>4, <1>8 DEF n
  <1> QED
      BY <1>4, <1>7, <1>9 DEF n, answers

----------------------------------------------------------------------------
(* What a step leaves alone.                                               *)

\* The arguments of a call decide where its workers live and what its plan is worth.
LEMMA SameCall ==
    ASSUME call' = call, NEW c \in Callers
    PROVE  /\ \A w \in Numbers : Home(c, w)' = Home(c, w)
           /\ Isolated(c)' <=> Isolated(c)
           /\ Composable(c)' <=> Composable(c)
           /\ \A k : Alone(c, k)' = Alone(c, k) /\ (RaisesAlone(c, k)' <=> RaisesAlone(c, k))
  <1>1. \A w \in Numbers : Home(c, w)' = Home(c, w)
      BY DEF Home
  <1>2. Isolated(c)' <=> Isolated(c)
      BY DEF Isolated, OwnMemory
  <1>3. Composable(c)' <=> Composable(c)
      BY DEF Composable
  <1>4. \A k : Alone(c, k)' = Alone(c, k)
      BY DEF Alone
  <1>5. \A k : RaisesAlone(c, k)' <=> RaisesAlone(c, k)
      BY DEF RaisesAlone
  <1> QED
      BY <1>1, <1>2, <1>3, <1>4, <1>5

\* The slice and its batches change only between slices.
LEMMA SameSlice ==
    ASSUME call' = call, NEW c \in Callers, offset'[c] = offset[c]
    PROVE  /\ Slice(c)' = Slice(c)
           /\ Batches(c)' = Batches(c)
           /\ \A b : /\ Batch(c, b)' = Batch(c, b)
                     /\ BatchUnits(c, b)' = BatchUnits(c, b)
                     /\ Size(c, b)' = Size(c, b)
  <1>1. SliceEnd(c, offset[c])' = SliceEnd(c, offset[c])
      BY DEF SliceEnd
  <1>2. Slice(c)' = Slice(c)
      BY <1>1 DEF Slice
  <1>3. BatchSize(c)' = BatchSize(c)
      BY <1>2 DEF BatchSize
  <1>4. Batches(c)' = Batches(c)
      BY <1>2, <1>3 DEF Batches
  <1>5. \A b : Batch(c, b)' = Batch(c, b)
      BY <1>2, <1>3 DEF Batch
  <1>6. \A b : BatchUnits(c, b)' = BatchUnits(c, b) /\ Size(c, b)' = Size(c, b)
      BY <1>2, <1>5 DEF BatchUnits, Size
  <1> QED
      BY <1>2, <1>4, <1>5, <1>6

\* A step changes nothing of a caller and its pool.
Untouched(d) ==
    /\ pc'[d] = pc[d] /\ offset'[d] = offset[d] /\ futures'[d] = futures[d]
    /\ collected'[d] = collected[d] /\ results'[d] = results[d] /\ error'[d] = error[d]
    /\ progress'[d] = progress[d] /\ worker'[d] = worker[d]

\* A caller whose own part of the state stays as it is keeps its invariant, if
\* others leave the memory of its workers alone or, where they share it, seed it.
LEMMA Bystander ==
    ASSUME NEW d \in Callers, CallerInv(d), call' = call, Untouched(d),
           \A w \in Numbers : globals[Home(d, w)].definition \in Callers
                                => globals'[Home(d, w)].definition \in Callers,
           Isolated(d) => \A w \in Numbers : worker[d][w].state # "absent"
                                => globals'[Home(d, w)] = globals[Home(d, w)]
    PROVE  CallerInv(d)'
  <1> USE DEF Untouched
  <1>1. /\ Slice(d)' = Slice(d) /\ Batches(d)' = Batches(d)
        /\ \A b : /\ Batch(d, b)' = Batch(d, b) /\ BatchUnits(d, b)' = BatchUnits(d, b)
                  /\ Size(d, b)' = Size(d, b)
      BY SameSlice
  <1>2. /\ \A w \in Numbers : Home(d, w)' = Home(d, w)
        /\ Isolated(d)' <=> Isolated(d)
        /\ Composable(d)' <=> Composable(d)
        /\ \A k : Alone(d, k)' = Alone(d, k) /\ (RaisesAlone(d, k)' <=> RaisesAlone(d, k))
      BY SameCall
  <1>3. Control(d)'
      BY <1>1 DEF CallerInv, Control, Live
  <1>4. Counted(d)'
    <2>1. Done(d)' = Done(d)
        BY <1>1 DEF Done
    <2> QED
        BY <2>1 DEF CallerInv, Counted
  <1>5. Held(d)'
      BY DEF CallerInv, Held
  <1>6. Sized(d)'
      BY <1>1 DEF CallerInv, Sized, IsPart
  <1>7. Seeded(d)'
      BY <1>2 DEF CallerInv, Seeded
  <1>8. ASSUME Isolated(d) PROVE Memory(d)'
    <2>1. Memory(d)
        BY <1>8 DEF CallerInv, Own
    <2>2. \A w \in Numbers : HasDefinition(worker[d][w].state) => worker[d][w].state # "absent"
        BY DEF HasDefinition
    <2>3. \A w \in Numbers : HasUnits(worker[d][w].state) => worker[d][w].state # "absent"
        BY DEF HasUnits
    <2>4. \A w \in Numbers : HasExecutor(worker[d][w].state) => worker[d][w].state # "absent"
        BY DEF HasExecutor
    <2> QED
        BY <1>1, <1>2, <1>8, <2>1, <2>2, <2>3, <2>4 DEF Memory
  <1>9. ASSUME Isolated(d) PROVE Tasks(d)'
      BY <1>1, <1>9 DEF CallerInv, Own, Tasks
  <1>10. ASSUME Isolated(d) PROVE Answered(d)'
      BY <1>1, <1>10 DEF CallerInv, Own, Answered
  <1>11. ASSUME Isolated(d) PROVE Gathered(d)'
      BY <1>2, <1>11 DEF CallerInv, Own, Gathered, AnswersAlone, SomeRaisesAlone
  <1>12. Own(d)'
      BY <1>2, <1>8, <1>9, <1>10, <1>11 DEF Own
  <1> QED
      BY <1>3, <1>4, <1>5, <1>6, <1>7, <1>12 DEF CallerInv

\* A caller without a pool has nothing running.
LEMMA NoPool ==
    ASSUME NEW c \in Callers, futures'[c] = <<>>, \A w \in Numbers : worker'[c][w].state = "absent"
    PROVE  Held(c)' /\ Sized(c)' /\ Seeded(c)' /\ Memory(c)' /\ Tasks(c)' /\ Answered(c)'
  <1>1. DOMAIN futures'[c] = {}
      OBVIOUS
  <1>2. \A w \in Numbers : ~Busy(worker[c][w])'
      BY DEF Busy
  <1>3. \A w \in Numbers : /\ ~HasDefinition(worker[c][w].state)'
                           /\ ~HasUnits(worker[c][w].state)'
                           /\ ~HasExecutor(worker[c][w].state)'
      BY DEF HasDefinition, HasUnits, HasExecutor
  <1>4. Held(c)'
      BY <1>1, <1>2 DEF Held
  <1>5. Sized(c)'
      BY <1>1, <1>2 DEF Sized
  <1>6. Seeded(c)'
      BY <1>3 DEF Seeded
  <1>7. Memory(c)'
      BY <1>3 DEF Memory
  <1>8. Tasks(c)'
      BY <1>2 DEF Tasks
  <1>9. Answered(c)'
      BY <1>1 DEF Answered
  <1> QED
      BY <1>4, <1>5, <1>6, <1>7, <1>8, <1>9

\* What is known of a caller in a state of the system.
LEMMA Known ==
    ASSUME IInv, NEW c \in Callers
    PROVE  /\ call \in Workloads /\ call[c] \in CallType
           /\ pc[c] \in {"slice", "collect", "leave", "returned", "raised"}
           /\ offset[c] \in Nat /\ Len(call[c].plan) \in Nat \ {0}
           /\ offset[c] <= Len(call[c].plan)
           /\ futures[c] \in Seq(Futures) /\ collected[c] \in 0 .. Len(futures[c])
           /\ results[c] \in Seq(TaggedAnswers) /\ Len(results[c]) \in Nat
           /\ progress[c] \in 0 .. Len(call[c].plan)
           /\ worker[c] \in [Numbers -> Workers]
           /\ \A w \in Numbers : Home(c, w) \in Homes /\ worker[c][w] \in Workers
           /\ CallerInv(c)
  <1> USE DEF IInv, TypeOK, NumbersInv
  <1>1. call[c] \in CallType /\ Len(call[c].plan) \in Nat \ {0}
      BY Calls
  <1>2. \A w \in Numbers : Home(c, w) \in Homes
      BY DEF Home, Homes
  <1>3. results[c] \in Seq(TaggedAnswers) /\ Len(results[c]) \in Nat
      OBVIOUS
  <1> QED
      BY <1>1, <1>2, <1>3

\* Where it does not matter how a plan is cut, a part of it has its units' answers.
LEMMA Cut ==
    ASSUME call \in Workloads, NEW c \in Callers, Composable(c),
           NEW i \in DOMAIN call[c].plan, NEW j \in DOMAIN call[c].plan, i <= j,
           NEW part, part = SubSeq(call[c].plan, i, j)
    PROVE  /\ Raises(call[c].executor, part) <=>
                  \E k \in 1 .. j - i + 1 : RaisesAlone(c, i + k - 1)
           /\ Tagged(c, Execute(call[c].executor, part)) \in Seq(TaggedAnswers)
           /\ Len(Tagged(c, Execute(call[c].executor, part))) = j - i + 1
           /\ \A k \in 1 .. j - i + 1 :
                 Tagged(c, Execute(call[c].executor, part))[k] = Alone(c, i + k - 1)
  <1> DEFINE executor == call[c].executor
             n == j - i + 1
  <1>1. call[c].plan \in Seq(Units) /\ i \in Nat /\ j \in Nat /\ 1 <= i /\ j <= Len(call[c].plan)
      BY Calls
  <1>2. /\ part \in Seq(Units) /\ Len(part) = n
        /\ \A k \in 1 .. n : part[k] = call[c].plan[i + k - 1]
      BY <1>1, Parts
  <1>3. DOMAIN part = 1 .. n
      BY <1>2
  <1>4. /\ Execute(executor, part) = [k \in DOMAIN part |-> Execute(executor, <<part[k]>>)[1]]
        /\ Raises(executor, part) <=> \E k \in DOMAIN part : Raises(executor, <<part[k]>>)
      BY ZenonT(30) DEF Composable
  <1>5. IsPart(part)
      BY DEF IsPart
  <1>6. /\ Tagged(c, Execute(executor, part)) \in Seq(TaggedAnswers)
        /\ Len(Tagged(c, Execute(executor, part))) = n
        /\ \A k \in 1 .. n : Tagged(c, Execute(executor, part))[k] =
                                 [definition |-> c, answer |-> Execute(executor, part)[k]]
    <2> HIDE DEF executor, n
    <2>1. /\ Tagged(c, Execute(executor, part)) \in Seq(TaggedAnswers)
          /\ Len(Tagged(c, Execute(executor, part))) = Len(part)
          /\ \A k \in 1 .. Len(part) : Tagged(c, Execute(executor, part))[k] =
                                             [definition |-> c, answer |-> Execute(executor, part)[k]]
        BY <1>5, AnswersOfParts
    <2> QED
        BY <1>2, <2>1
  <1> HIDE DEF n
  <1>7. ASSUME NEW k \in 1 .. n
        PROVE  Tagged(c, Execute(executor, part))[k] = Alone(c, i + k - 1)
    <2>1. Execute(executor, part)[k] = Execute(executor, <<part[k]>>)[1]
        BY <1>3, <1>4
    <2>2. part[k] = call[c].plan[i + k - 1]
        BY <1>2
    <2> QED
        BY <1>6, <2>1, <2>2 DEF Alone
  <1>8. Raises(executor, part) <=> \E k \in 1 .. n : RaisesAlone(c, i + k - 1)
      BY <1>2, <1>3, <1>4 DEF RaisesAlone
  <1> QED
      BY <1>6, <1>7, <1>8 DEF n

\* What has to be shown of the caller's results after a step.
LEMMA GatheredNext ==
    ASSUME call' = call, NEW c \in Callers,
           Composable(c) => AnswersAlone(c, results'[c]),
           Composable(c) /\ error'[c] = "failure" => call[c].crashes \/ SomeRaisesAlone(c),
           Composable(c) /\ error'[c] = "timeout" => call[c].timeout
    PROVE  Gathered(c)'
  <1>1. Composable(c)' <=> Composable(c)
      BY SameCall
  <1>2. \A k : Alone(c, k)' = Alone(c, k) /\ (RaisesAlone(c, k)' <=> RaisesAlone(c, k))
      BY SameCall
  <1> QED
      BY <1>1, <1>2 DEF Gathered, AnswersAlone, SomeRaisesAlone

\* Where it does not matter how a plan is cut, a part of it that raises has a unit that does.
LEMMA CutRaises ==
    ASSUME call \in Workloads, NEW c \in Callers, Composable(c),
           NEW i \in DOMAIN call[c].plan, NEW j \in DOMAIN call[c].plan, i <= j,
           NEW part, part = SubSeq(call[c].plan, i, j), Raises(call[c].executor, part)
    PROVE  SomeRaisesAlone(c)
  <1>1. \E k \in 1 .. j - i + 1 : RaisesAlone(c, i + k - 1)
      BY Cut
  <1>2. DOMAIN call[c].plan = 1 .. Len(call[c].plan) /\ Len(call[c].plan) \in Nat
      BY Calls
  <1>3. \A k \in 1 .. j - i + 1 : i + k - 1 \in DOMAIN call[c].plan
      BY <1>2
  <1> QED
      BY <1>1, <1>3 DEF SomeRaisesAlone

\* Results of the next units are added to those of the units before.
LEMMA Gather ==
    ASSUME call \in Workloads, NEW c \in Callers, Composable(c),
           NEW i \in DOMAIN call[c].plan, NEW j \in DOMAIN call[c].plan, i <= j,
           NEW part, part = SubSeq(call[c].plan, i, j), ~Raises(call[c].executor, part),
           NEW before \in Seq(TaggedAnswers), Len(before) = i - 1,
           AnswersAlone(c, before), NEW after, after = before \o Tagged(c, Execute(call[c].executor, part))
    PROVE  AnswersAlone(c, after)
  <1> DEFINE answers == Tagged(c, Execute(call[c].executor, part))
             n == j - i + 1
  <1>1. /\ answers \in Seq(TaggedAnswers) /\ Len(answers) = n
        /\ \A k \in 1 .. n : answers[k] = Alone(c, i + k - 1) /\ ~RaisesAlone(c, i + k - 1)
    <2>1. ~\E k \in 1 .. n : RaisesAlone(c, i + k - 1)
        BY Cut
    <2>2. /\ answers \in Seq(TaggedAnswers) /\ Len(answers) = n
          /\ \A k \in 1 .. n : answers[k] = Alone(c, i + k - 1)
        BY Cut, ZenonT(30)
    <2> QED
        BY <2>1, <2>2
  <1>2. i \in Nat /\ j \in Nat /\ 1 <= i /\ n \in Nat
    <2>1. DOMAIN call[c].plan = 1 .. Len(call[c].plan) /\ Len(call[c].plan) \in Nat
        BY Calls
    <2>2. i \in Nat /\ j \in Nat /\ 1 <= i
        BY <2>1
    <2> QED
        BY <2>2
  <1> HIDE DEF answers, n
  <1>3. /\ Len(after) = Len(before) + n
        /\ \A k \in 1 .. Len(before) + n :
              after[k] = IF k <= Len(before) THEN before[k] ELSE answers[k - Len(before)]
      BY <1>1, ConcatProperties DEF answers
  <1>4. ASSUME NEW k \in 1 .. Len(after), ~(k <= Len(before))
        PROVE  after[k] = Alone(c, k) /\ ~RaisesAlone(c, k)
    <2>1. k - Len(before) \in 1 .. n /\ i + (k - Len(before)) - 1 = k
        BY <1>2, <1>3, <1>4
    <2>2. k \in 1 .. Len(before) + n
        BY <1>3
    <2> QED
        BY <1>1, <1>3, <1>4, <2>1, <2>2
  <1>5. ASSUME NEW k \in 1 .. Len(after), k <= Len(before)
        PROVE  after[k] = Alone(c, k) /\ ~RaisesAlone(c, k)
    <2>1. k \in 1 .. Len(before) /\ k \in 1 .. Len(before) + n
        BY <1>2, <1>3, <1>5
    <2> QED
        BY <1>3, <1>5, <2>1 DEF AnswersAlone
  <1> QED
      BY <1>4, <1>5 DEF AnswersAlone

----------------------------------------------------------------------------
(* The caller's steps.                                                     *)

\* The others' invariants hold after a step of one caller alone.
LEMMA OnlyCaller ==
    ASSUME IInv, NEW c \in Callers, call' = call,
           \A d \in Callers \ {c} : Untouched(d), globals' = globals
    PROVE  \A d \in Callers \ {c} : CallerInv(d)'
  <1> TAKE d \in Callers \ {c}
  <1>1. CallerInv(d) /\ Untouched(d)
      BY DEF IInv
  <1> QED
      BY <1>1, Bystander

\* Whatever a call is given, it starts with nothing running.
LEMMA StartsIdle == Init => IInv
  <1> SUFFICES ASSUME Init PROVE IInv
      OBVIOUS
  <1> USE DEF Init
  <1>1. \A c \in Callers : Len(call[c].plan) \in Nat \ {0} /\ call[c].plan \in Seq(Units)
      BY Calls
  <1>2. Absent \in Workers /\ <<>> \in Seq(Futures) /\ <<>> \in Seq(TaggedAnswers) /\ <<>> \in Seq(Units)
      BY DEF Absent, Workers
  <1>3. TypeOK
      BY <1>1, <1>2 DEF TypeOK, Unseeded
  <1>4. NumbersInv
      BY DEF NumbersInv
  <1>5. GlobalsInv
      BY DEF GlobalsInv, Unseeded
  <1>6. ASSUME NEW c \in Callers PROVE CallerInv(c)
    <2>1. DOMAIN futures[c] = {} /\ Len(results[c]) = 0 /\ DOMAIN results[c] = {}
        OBVIOUS
    <2>2. \A w \in Numbers : worker[c][w].state = "absent"
        BY DEF Absent
    <2>3. \A w \in Numbers : ~Busy(worker[c][w])
        BY <2>2 DEF Busy
    <2>4. \A w \in Numbers : /\ ~HasDefinition(worker[c][w].state)
                             /\ ~HasUnits(worker[c][w].state)
                             /\ ~HasExecutor(worker[c][w].state)
        BY <2>2 DEF HasDefinition, HasUnits, HasExecutor
    <2>5. Control(c)
        BY <2>2 DEF Control, Live
    <2>6. Counted(c)
        BY <2>1 DEF Counted, Done
    <2>7. Held(c) /\ Sized(c)
        BY <2>1, <2>3 DEF Held, Sized
    <2>8. Seeded(c)
        BY <2>2, <2>4 DEF Seeded
    <2>9. Memory(c)
        BY <2>4 DEF Memory
    <2>10. Tasks(c) /\ Answered(c)
        BY <2>1, <2>3 DEF Tasks, Answered
    <2>11. Gathered(c)
        BY <2>1 DEF Gathered, AnswersAlone
    <2> QED
        BY <2>5, <2>6, <2>7, <2>8, <2>9, <2>10, <2>11 DEF CallerInv, Own
  <1> QED
      BY <1>3, <1>4, <1>5, <1>6 DEF IInv

\* A slice executed by one worker has the answers of its units.
LEMMA ExecuteSequentiallyStep ==
    ASSUME IInv, NEW c \in Callers, ExecuteSequentially(c) PROVE IInv'
  <1> USE DEF ExecuteSequentially, NextSlice
  <1> DEFINE plan == call[c].plan
             executor == call[c].executor
             units == Slice(c)
             answers == Tagged(c, Execute(executor, units))
  <1>1. /\ pc[c] = "slice" /\ offset[c] \in Nat /\ offset[c] < Len(plan)
        /\ call \in Workloads /\ Len(plan) \in Nat
        /\ results[c] \in Seq(TaggedAnswers) /\ Len(results[c]) \in Nat
        /\ progress[c] \in Nat
        /\ CallerInv(c)
      BY Known
  <1>2. /\ futures[c] = <<>> /\ collected[c] = 0 /\ \A w \in Numbers : worker[c][w].state = "absent"
        /\ Len(results[c]) = offset[c] /\ error[c] = "none" /\ progress[c] = offset[c]
    <2>1. futures[c] = <<>> /\ collected[c] = 0 /\ \A w \in Numbers : worker[c][w].state = "absent"
        BY <1>1 DEF CallerInv, Control, Live
    <2>2. Len(results[c]) = offset[c] + 0 /\ progress[c] = offset[c]
        BY <1>1, <2>1 DEF CallerInv, Counted, Done
    <2>3. error[c] = "none"
        BY <1>1 DEF CallerInv, Control
    <2> QED
        BY <1>1, <2>1, <2>2, <2>3
  <1>3. /\ IsPart(units) /\ Len(units) \in Nat \ {0} /\ offset[c] + Len(units) <= Len(plan)
        /\ answers \in Seq(TaggedAnswers) /\ Len(answers) = Len(units)
    <2>1. IsPart(units) /\ Len(units) \in Nat \ {0} /\ offset[c] + Len(units) <= Len(plan)
        BY <1>1, Slices, PartsOfPlan
    <2> HIDE DEF units, executor
    <2> QED
        BY <2>1, AnswersOfParts
  <1>4. /\ offset[c] + 1 \in DOMAIN plan /\ SliceEnd(c, offset[c]) \in DOMAIN plan
        /\ offset[c] + 1 <= SliceEnd(c, offset[c])
        /\ units = SubSeq(plan, offset[c] + 1, SliceEnd(c, offset[c]))
    <2>1. SliceEnd(c, offset[c]) \in offset[c] + 1 .. Len(plan) /\ DOMAIN plan = 1 .. Len(plan)
        BY <1>1, SliceEnds, Calls
    <2> QED
        BY <1>1, <2>1 DEF Slice
  <1> HIDE DEF plan, executor, units, answers
  <1>5. \A d \in Callers \ {c} : Untouched(d)
      BY DEF IInv, TypeOK, NumbersInv, Untouched
  <1>6. \A d \in Callers \ {c} : CallerInv(d)'
      BY <1>5, OnlyCaller
  <1>7. /\ pc' \in [Callers -> {"slice", "collect", "leave", "returned", "raised"}]
        /\ error' \in [Callers -> {"none", "failure", "timeout"}]
        /\ results' \in [Callers -> Seq(TaggedAnswers)]
    <2>1. results[c] \o answers \in Seq(TaggedAnswers)
        BY <1>1, <1>3, ConcatProperties
    <2> QED
        BY <2>1, ZenonT(30) DEF IInv, TypeOK, answers, executor, units
  <1>8. offset' \in [Callers -> Nat] /\ progress' \in [Callers -> Nat]
    <2>1. offset[c] + Len(units) \in Nat
        BY <1>1, <1>3
    <2>2. /\ offset' = offset \/ offset' = [offset EXCEPT ![c] = offset[c] + Len(units)]
          /\ progress' = progress \/ progress' = [progress EXCEPT ![c] = offset[c] + Len(units)]
        BY DEF units
    <2> QED
        BY <2>1, <2>2 DEF IInv, NumbersInv
  <1>9. \A d \in Callers : offset'[d] \in 0 .. Len(call[d].plan) /\ progress'[d] \in 0 .. Len(call[d].plan)
    <2>1. offset'[c] \in {offset[c], offset[c] + Len(units)} /\ progress'[c] \in {progress[c], offset[c] + Len(units)}
        BY DEF IInv, NumbersInv, units
    <2>2. offset'[c] \in 0 .. Len(call[c].plan) /\ progress'[c] \in 0 .. Len(call[c].plan)
        BY <1>1, <1>2, <1>3, <2>1 DEF plan
    <2> QED
        BY <1>5, <2>2 DEF IInv, TypeOK, Untouched
  <1>10. TypeOK' /\ NumbersInv' /\ GlobalsInv'
    <2>1. TypeOK'
        BY <1>7, <1>9 DEF IInv, TypeOK
    <2> QED
        BY <1>8, <2>1 DEF IInv, NumbersInv, GlobalsInv
  <1>11. /\ futures'[c] = <<>> /\ collected'[c] = 0 /\ \A w \in Numbers : worker'[c][w].state = "absent"
      BY <1>2
  <1>12. Held(c)' /\ Sized(c)' /\ Seeded(c)' /\ Memory(c)' /\ Tasks(c)' /\ Answered(c)'
      BY <1>11, NoPool
  <1>13. ASSUME Isolated(c), Composable(c) PROVE AnswersAlone(c, results[c])
      BY <1>1, <1>13 DEF CallerInv, Own, Gathered
  <1>14. CASE Raises(executor, units) /\ pc' = [pc EXCEPT ![c] = "raised"]
    <2>1. /\ pc'[c] = "raised" /\ error'[c] = "failure" /\ offset' = offset /\ results' = results
          /\ progress' = progress
        BY <1>14 DEF IInv, TypeOK, executor, units
    <2>2. Control(c)' /\ Counted(c)'
        BY <1>1, <1>2, <1>11, <2>1 DEF Control, Live, Counted, Done
    <2>3. ASSUME Isolated(c) PROVE Gathered(c)'
      <3>1. ASSUME Composable(c) PROVE SomeRaisesAlone(c)
          BY <1>1, <1>4, <1>14, <3>1, CutRaises DEF plan, executor
      <3> QED
          BY <1>13, <2>1, <2>3, <3>1, GatheredNext
    <2>4. Own(c)'
        BY <1>12, <2>3, SameCall DEF Own
    <2> QED
        BY <1>6, <1>10, <1>12, <2>2, <2>4 DEF IInv, CallerInv
  <1>15. CASE ~Raises(executor, units) /\ pc' = pc
    <2>1. /\ pc'[c] = "slice" /\ error'[c] = "none" /\ offset'[c] = offset[c] + Len(units)
          /\ results'[c] = results[c] \o answers
          /\ progress'[c] = offset[c] + Len(units)
        BY <1>1, <1>2, <1>15 DEF IInv, TypeOK, NumbersInv, executor, units, answers
    <2>2. Len(results'[c]) = offset'[c]
        BY <1>1, <1>2, <1>3, <2>1, ConcatProperties
    <2>3. Control(c)' /\ Counted(c)'
      <3>1. Len(results'[c]) <= Len(call[c].plan)
          BY <1>3, <2>1, <2>2 DEF plan
      <3> QED
          BY <1>1, <1>3, <1>11, <2>1, <2>2, <3>1 DEF Control, Live, Counted, Done
    <2>4. ASSUME Isolated(c) PROVE Gathered(c)'
      <3>1. ASSUME Composable(c) PROVE AnswersAlone(c, results'[c])
        <4>1. Len(results[c]) = (offset[c] + 1) - 1
            BY <1>1, <1>2
        <4>2. results'[c] = results[c] \o Tagged(c, Execute(call[c].executor, units))
            BY <2>1 DEF executor, answers
        <4> HIDE DEF ExecuteSequentially, NextSlice
        <4> QED
            BY <1>1, <1>4, <1>13, <1>15, <2>4, <3>1, <4>1, <4>2, Gather DEF plan, executor
      <3> QED
          BY <2>1, <3>1, GatheredNext
    <2>5. Own(c)'
        BY <1>12, <2>4, SameCall DEF Own
    <2> QED
        BY <1>6, <1>10, <1>12, <2>3, <2>5 DEF IInv, CallerInv
  <1> QED
      BY <1>14, <1>15 DEF executor, units

\* What state starts from, or is reset to.
LEMMA Blanks ==
    /\ Absent \in Workers
    /\ \A state \in {"new", "idle"} : [Absent EXCEPT !.state = state] \in Workers
    /\ Pending \in Futures /\ Failed \in Futures
    /\ Unseeded \in [definition : Callers \union {NoCaller}, units : Seq(Units),
                     executor : {"default", "reference"}]
  <1>1. <<>> \in Seq(Units) /\ <<>> \in Seq(TaggedAnswers)
      OBVIOUS
  <1>2. Absent \in Workers /\ \A state \in {"new", "idle"} : [Absent EXCEPT !.state = state] \in Workers
      BY <1>1 DEF Absent, Workers
  <1>3. Pending \in Futures /\ Failed \in Futures
      BY <1>1 DEF Pending, Failed, Futures
  <1> QED
      BY <1>1, <1>2, <1>3 DEF Unseeded

\* A pool is opened: no batch has started, no worker is seeded, and a process
\* of the pool finds nothing in its memory.
LEMMA SubmitStep == ASSUME IInv, NEW c \in Callers, Submit(c) PROVE IInv'
  <1> USE DEF Submit, NextSlice
  <1>1. /\ pc[c] = "slice" /\ offset[c] \in Nat /\ offset[c] < Len(call[c].plan)
        /\ call \in Workloads /\ call[c].workers > 1
        /\ results[c] \in Seq(TaggedAnswers) /\ Len(results[c]) \in Nat
        /\ CallerInv(c)
      BY Known
  <1>2. error[c] = "none" /\ Len(results[c]) = offset[c] /\ progress[c] = offset[c]
    <2>1. collected[c] = 0
        BY <1>1 DEF CallerInv, Control, Live
    <2>2. Len(results[c]) = offset[c] + 0 /\ progress[c] = offset[c]
        BY <1>1, <2>1 DEF CallerInv, Counted, Done
    <2>3. error[c] = "none"
        BY <1>1 DEF CallerInv, Control
    <2> QED
        BY <1>1, <2>2, <2>3
  <1>3. BatchCount(c) \in Nat /\ Batches(c) = 1 .. BatchCount(c)
      BY <1>1, BatchRanges
  <1>4. Pending \in Futures /\ Absent \in Workers /\ [Absent EXCEPT !.state = "new"] \in Workers
      BY Blanks
  <1>5. /\ pc'[c] = "collect" /\ collected'[c] = 0 /\ error'[c] = error[c]
        /\ offset' = offset /\ results' = results /\ progress' = progress
        /\ futures'[c] = [b \in Batches(c) |-> Pending]
        /\ \A w \in Numbers : worker'[c][w].state \in {"new", "absent"}
      BY DEF IInv, TypeOK, NumbersInv, Absent
  <1>6. futures'[c] \in Seq(Futures)
    <2>1. [b \in Batches(c) |-> Pending] \in [1 .. BatchCount(c) -> Futures]
        BY <1>3, <1>4
    <2> HIDE DEF Submit, NextSlice
    <2> QED
        BY <1>3, <1>5, <2>1
  <1>7. \A d \in Callers \ {c} : Untouched(d)
      BY DEF IInv, TypeOK, NumbersInv, Untouched
  <1>8. TypeOK'
    <2>1. pc' \in [Callers -> {"slice", "collect", "leave", "returned", "raised"}]
        BY DEF IInv, TypeOK
    <2>2. futures' \in [Callers -> Seq(Futures)]
        BY <1>5, <1>6 DEF IInv, TypeOK
    <2>3. \A d \in Callers : collected'[d] \in 0 .. Len(futures'[d])
      <3>1. Len(futures'[c]) \in Nat
          BY <1>6
      <3> QED
          BY <1>5, <1>7, <3>1 DEF IInv, TypeOK, Untouched
    <2>4. worker' \in [Callers -> [Numbers -> Workers]]
      <3>1. PICK started \in 1 .. call[c].workers : worker' = [worker EXCEPT ![c] =
                [w \in Numbers |-> IF w <= started THEN [Absent EXCEPT !.state = "new"] ELSE Absent]]
          OBVIOUS
      <3> QED
          BY <1>4, <3>1 DEF IInv, TypeOK
    <2>5. globals' \in [Homes -> [definition : Callers \union {NoCaller}, units : Seq(Units),
                                  executor : {"default", "reference"}]]
      BY Blanks DEF IInv, TypeOK
    <2> QED
        BY <1>5, <2>1, <2>2, <2>3, <2>4, <2>5 DEF IInv, TypeOK
  <1>9. NumbersInv'
      BY DEF IInv, NumbersInv
  <1>10. GlobalsInv'
      BY DEF IInv, GlobalsInv, Unseeded
  <1>11. \A d \in Callers \ {c} : CallerInv(d)'
    <2> TAKE d \in Callers \ {c}
    <2>1. \A w \in Numbers : globals'[Home(d, w)] = globals[Home(d, w)]
      <3>1. \A w \in Numbers : Home(d, w) \in Homes /\ Home(d, w)[1] \in {d, NoCaller}
          BY DEF Home, Homes
      <3> QED
          BY <3>1, CallersAssumption
    <2> QED
        BY <1>7, <2>1, Bystander DEF IInv
  <1>12. CallerInv(c)'
    <2>1. Batches(c)' = Batches(c) /\ DOMAIN futures'[c] = Batches(c)
        BY <1>5, SameSlice
    <2>2. \A w \in Numbers : ~Busy(worker[c][w])'
        BY <1>5 DEF Busy
    <2>3. \A w \in Numbers : /\ ~HasDefinition(worker[c][w].state)'
                             /\ ~HasUnits(worker[c][w].state)'
                             /\ ~HasExecutor(worker[c][w].state)'
        BY <1>5 DEF HasDefinition, HasUnits, HasExecutor
    <2>4. \A b \in Batches(c) : futures'[c][b].state = "pending"
        BY <1>5 DEF Pending
    <2>5. Control(c)'
        BY <1>1, <1>2, <1>5, <2>1 DEF Control, Live
    <2>6. Counted(c)'
        BY <1>1, <1>2, <1>5 DEF Counted, Done
    <2>7. Held(c)' /\ Sized(c)'
        BY <2>1, <2>2, <2>4 DEF Held, Sized
    <2>8. Seeded(c)'
        BY <1>5, <2>3 DEF Seeded
    <2>9. Memory(c)'
        BY <2>3 DEF Memory
    <2>10. Tasks(c)' /\ Answered(c)'
        BY <2>1, <2>2, <2>4 DEF Tasks, Answered
    <2>11. ASSUME Isolated(c) PROVE Gathered(c)'
        BY <1>1, <1>2, <1>5, <2>11, GatheredNext DEF CallerInv, Own, Gathered
    <2> QED
        BY <2>5, <2>6, <2>7, <2>8, <2>9, <2>10, <2>11, SameCall DEF CallerInv, Own
  <1> QED
      BY <1>8, <1>9, <1>10, <1>11, <1>12 DEF IInv

\* The answers of the next batch are added to the results.
LEMMA CollectStep == ASSUME IInv, NEW c \in Callers, Collect(c) PROVE IInv'
  <1> DEFINE b == collected[c] + 1
             answers == futures[c][b].answers
  <1>1. /\ pc[c] = "collect" /\ collected[c] < Len(futures[c]) /\ futures[c][b].state = "finished"
        /\ results' = [results EXCEPT ![c] = @ \o answers]
        /\ collected' = [collected EXCEPT ![c] = b]
        /\ progress' = [progress EXCEPT ![c] = IF call[c].cohorts = 0 THEN Len(results'[c]) ELSE @]
        /\ UNCHANGED <<call, pc, offset, futures, error, worker, globals>>
      BY DEF Collect, Waiting, Awaited
  <1>2. /\ call \in Workloads
        /\ offset[c] \in Nat /\ Len(call[c].plan) \in Nat
        /\ futures[c] \in Seq(Futures) /\ collected[c] \in 0 .. Len(futures[c])
        /\ results[c] \in Seq(TaggedAnswers) /\ Len(results[c]) \in Nat
        /\ progress[c] \in 0 .. Len(call[c].plan)
        /\ CallerInv(c)
      BY Known
  <1>3. /\ offset[c] < Len(call[c].plan) /\ DOMAIN futures[c] = Batches(c) /\ error[c] = "none"
        /\ Len(results[c]) = offset[c] + Done(c) /\ progress[c] <= Len(results[c])
    <2>1. offset[c] < Len(call[c].plan) /\ DOMAIN futures[c] = Batches(c) /\ error[c] = "none"
        BY <1>1, <1>2 DEF CallerInv, Control, Live
    <2>2. Len(results[c]) = offset[c] + Done(c) /\ progress[c] <= Len(results[c])
        BY <1>1, <1>2 DEF CallerInv, Counted
    <2> QED
        BY <2>1, <2>2
  <1>4. b \in Nat \ {0} /\ b \in Batches(c) /\ b \in DOMAIN futures[c] /\ answers \in Seq(TaggedAnswers)
    <2>1. b \in DOMAIN futures[c]
        BY <1>1, <1>2
    <2>2. futures[c][b] \in Futures
        BY <1>2, <2>1
    <2>3. answers \in Seq(TaggedAnswers)
        BY <2>2 DEF Futures
    <2> QED
        BY <1>2, <1>3, <2>1, <2>3
  <1> DEFINE first == Batch(c, b).first
             last == Batch(c, b).last
  <1>5. /\ first \in Nat /\ last \in Nat /\ 1 <= first /\ first <= last /\ last <= Len(Slice(c))
        /\ Len(Slice(c)) \in Nat /\ offset[c] + Len(Slice(c)) <= Len(call[c].plan)
      BY <1>2, <1>3, <1>4, BatchRanges, Slices
  <1>6. Done(c) = first - 1
    <2>1. CASE collected[c] = 0
        BY <1>2, <1>3, <2>1, BatchRanges DEF Done
    <2>2. CASE collected[c] # 0
      <3> DEFINE a == collected[c]
      <3>1. a \in Batches(c) /\ a + 1 \in Batches(c)
          BY <1>2, <1>3, <1>4, <2>2
      <3>2. Batch(c, a).last \in Nat /\ Batch(c, a + 1).first = Batch(c, a).last + 1
          BY <1>2, <1>3, <3>1, BatchRanges
      <3> QED
          BY <2>2, <3>2 DEF Done
    <2> QED
        BY <2>1, <2>2
  <1>7. Len(answers) = last - first + 1
      BY <1>1, <1>2, <1>4 DEF CallerInv, Sized, Size
  <1>8. /\ results'[c] = results[c] \o answers /\ results'[c] \in Seq(TaggedAnswers)
        /\ Len(results'[c]) = offset[c] + last
        /\ collected'[c] = b
    <2>1. results'[c] = results[c] \o answers /\ collected'[c] = b
        BY <1>1 DEF IInv, TypeOK, NumbersInv
    <2>2. results'[c] \in Seq(TaggedAnswers) /\ Len(results'[c]) = Len(results[c]) + Len(answers)
        BY <1>2, <1>4, <2>1, ConcatProperties
    <2> HIDE DEF answers, first, last
    <2> QED
        BY <1>2, <1>3, <1>5, <1>6, <1>7, <2>1, <2>2, SMTT(30)
  <1>9. progress'[c] \in 0 .. Len(call[c].plan) /\ progress'[c] <= Len(results'[c])
    <2>1. progress'[c] = Len(results'[c]) \/ progress'[c] = progress[c]
        BY <1>1 DEF IInv, NumbersInv
    <2> DEFINE m == Len(results[c])
               n == Len(results'[c])
               s == Len(Slice(c))
               max == Len(call[c].plan)
    <2>2. /\ m \in Nat /\ max \in Nat /\ s \in Nat /\ first \in Nat /\ last \in Nat
          /\ first <= last /\ last <= s /\ offset[c] + s <= max /\ offset[c] \in Nat
          /\ m = offset[c] + (first - 1) /\ n = offset[c] + last /\ progress[c] <= m
          /\ progress[c] \in Nat
        BY <1>2, <1>3, <1>5, <1>6, <1>8
    <2>3. progress'[c] = n \/ progress'[c] = progress[c]
        BY <2>1
    <2> HIDE DEF first, last, m, n, s, max
    <2>4. progress'[c] \in 0 .. max /\ progress'[c] <= n
        BY <2>2, <2>3
    <2> QED
        BY <2>4 DEF n, max
  <1> HIDE DEF b, answers, first, last
  <1>10. \A d \in Callers \ {c} : Untouched(d)
      BY <1>1 DEF IInv, TypeOK, NumbersInv, Untouched
  <1>11. TypeOK'
    <2>1. results' \in [Callers -> Seq(TaggedAnswers)]
        BY <1>1, <1>8 DEF IInv, TypeOK
    <2>2. \A d \in Callers : collected'[d] \in 0 .. Len(futures'[d])
      <3>1. collected'[c] \in 0 .. Len(futures'[c])
          BY <1>1, <1>2, <1>8 DEF b
      <3> QED
          BY <1>1, <1>10, <3>1 DEF IInv, TypeOK, Untouched
    <2>3. \A d \in Callers : progress'[d] \in 0 .. Len(call[d].plan)
        BY <1>9, <1>10 DEF IInv, TypeOK, Untouched
    <2> QED
        BY <1>1, <2>1, <2>2, <2>3 DEF IInv, TypeOK
  <1>12. NumbersInv'
      BY <1>1, <1>2, <1>4, <1>9 DEF IInv, NumbersInv
  <1>13. GlobalsInv'
      BY <1>1 DEF IInv, GlobalsInv
  <1>14. \A d \in Callers \ {c} : CallerInv(d)'
      BY <1>1, <1>10, OnlyCaller
  <1>15. CallerInv(c)'
    <2>1. /\ Slice(c)' = Slice(c) /\ Batches(c)' = Batches(c)
          /\ \A a : Batch(c, a)' = Batch(c, a) /\ BatchUnits(c, a)' = BatchUnits(c, a)
                    /\ Size(c, a)' = Size(c, a)
        BY <1>1, SameSlice
    <2>2. /\ \A w \in Numbers : Home(c, w)' = Home(c, w)
          /\ Isolated(c)' <=> Isolated(c)
        BY <1>1, SameCall
    <2>3. Control(c)'
        BY <1>1, <1>2, <1>3, <2>1 DEF CallerInv, Control, Live
    <2>4. Done(c)' = last
        BY <1>4, <1>8, <2>1 DEF Done, last
    <2>5. Counted(c)'
      <3>1. Len(results'[c]) <= Len(call[c].plan)
        <4> DEFINE s == Len(Slice(c))
                   n == Len(call[c].plan)
        <4>1. /\ last <= s /\ offset[c] + s <= n /\ Len(results'[c]) = offset[c] + last
              /\ offset[c] \in Nat /\ last \in Nat /\ s \in Nat /\ n \in Nat
            BY <1>2, <1>5, <1>8 DEF last
        <4> HIDE DEF s, n
        <4> QED
            BY <4>1 DEF n
      <3> QED
          BY <1>1, <1>8, <1>9, <2>4, <3>1 DEF Counted
    <2>6. Held(c)'
        BY <1>1, <1>2 DEF CallerInv, Held
    <2>7. Sized(c)'
        BY <1>1, <1>2, <2>1 DEF CallerInv, Sized, IsPart
    <2>8. Seeded(c)'
        BY <1>1, <1>2, <2>2 DEF CallerInv, Seeded
    <2>9. ASSUME Isolated(c) PROVE Memory(c)'
        BY <1>1, <1>2, <2>1, <2>2, <2>9 DEF CallerInv, Own, Memory
    <2>10. ASSUME Isolated(c) PROVE Tasks(c)'
        BY <1>1, <1>2, <2>1, <2>10 DEF CallerInv, Own, Tasks
    <2>11. ASSUME Isolated(c) PROVE Answered(c)'
        BY <1>1, <1>2, <2>1, <2>11 DEF CallerInv, Own, Answered
    <2>12. ASSUME Isolated(c) PROVE Gathered(c)'
      <3>1. ASSUME Composable(c) PROVE AnswersAlone(c, results'[c])
        <4> DEFINE i == offset[c] + first
                   j == offset[c] + last
        <4>1. /\ BatchUnits(c, b) = SubSeq(call[c].plan, i, j)
            BY <1>2, <1>3, <1>4, UnitsOfBatch DEF first, last
        <4>2. i \in DOMAIN call[c].plan /\ j \in DOMAIN call[c].plan /\ i <= j
            BY <1>2, <1>3, <1>4, BatchEnds DEF first, last
        <4>3. Len(results[c]) = i - 1
            BY <1>2, <1>3, <1>5, <1>6
        <4> HIDE DEF i, j
        <4>4. /\ ~Raises(call[c].executor, BatchUnits(c, b))
              /\ answers = Tagged(c, Execute(call[c].executor, BatchUnits(c, b)))
            BY <1>1, <1>2, <1>4, <2>12 DEF CallerInv, Own, Answered, answers
        <4>5. AnswersAlone(c, results[c])
            BY <1>2, <2>12, <3>1 DEF CallerInv, Own, Gathered
        <4>6. results'[c] = results[c] \o Tagged(c, Execute(call[c].executor, BatchUnits(c, b)))
            BY <1>8, <4>4
        <4> QED
            BY <1>2, <3>1, <4>1, <4>2, <4>3, <4>4, <4>5, <4>6, Gather
      <3> QED
          BY <1>1, <1>3, <3>1, GatheredNext
    <2>13. Own(c)'
        BY <2>2, <2>9, <2>10, <2>11, <2>12 DEF Own
    <2> QED
        BY <2>3, <2>5, <2>6, <2>7, <2>8, <2>13 DEF CallerInv
  <1> QED
      BY <1>11, <1>12, <1>13, <1>14, <1>15 DEF IInv

\* A step that only the caller takes part in leaves its pool as it is.
LEMMA SamePool ==
    ASSUME NEW c \in Callers, CallerInv(c), call' = call, offset'[c] = offset[c],
           futures'[c] = futures[c], worker'[c] = worker[c], globals' = globals
    PROVE  /\ Held(c)' /\ Sized(c)' /\ Seeded(c)'
           /\ Isolated(c) => Memory(c)' /\ Tasks(c)' /\ Answered(c)'
  <1>1. /\ Slice(c)' = Slice(c)
        /\ \A a : /\ Batch(c, a)' = Batch(c, a) /\ BatchUnits(c, a)' = BatchUnits(c, a)
                  /\ Size(c, a)' = Size(c, a)
      BY SameSlice
  <1>2. \A w \in Numbers : Home(c, w)' = Home(c, w)
      BY SameCall
  <1>3. Held(c)'
      BY DEF CallerInv, Held
  <1>4. Sized(c)'
      BY <1>1 DEF CallerInv, Sized, IsPart
  <1>5. Seeded(c)'
      BY <1>2 DEF CallerInv, Seeded
  <1>6. ASSUME Isolated(c) PROVE Memory(c)'
      BY <1>1, <1>2, <1>6 DEF CallerInv, Own, Memory
  <1>7. ASSUME Isolated(c) PROVE Tasks(c)'
      BY <1>1, <1>7 DEF CallerInv, Own, Tasks
  <1>8. ASSUME Isolated(c) PROVE Answered(c)'
      BY <1>1, <1>8 DEF CallerInv, Own, Answered
  <1> QED
      BY <1>3, <1>4, <1>5, <1>6, <1>7, <1>8

\* The caller leaves its loop for a reason.
LEMMA CollectFailureStep == ASSUME IInv, NEW c \in Callers, CollectFailure(c) PROVE IInv'
  <1> DEFINE b == collected[c] + 1
  <1>1. /\ pc[c] = "collect" /\ collected[c] < Len(futures[c])
        /\ pc' = [pc EXCEPT ![c] = "leave"]
        /\ UNCHANGED <<call, offset, futures, collected, results, progress, worker, globals>>
      BY DEF CollectFailure, Waiting
  <1>2. \/ futures[c][b].state = "failed" /\ error' = [error EXCEPT ![c] = "failure"]
        \/ call[c].timeout /\ error' = [error EXCEPT ![c] = "timeout"]
      BY DEF CollectFailure, Awaited
  <1>3. /\ call \in Workloads /\ offset[c] \in Nat /\ futures[c] \in Seq(Futures)
        /\ collected[c] \in 0 .. Len(futures[c]) /\ CallerInv(c)
      BY Known
  <1>4. /\ offset[c] < Len(call[c].plan) /\ DOMAIN futures[c] = Batches(c) /\ call[c].workers > 1
      BY <1>1, <1>3 DEF CallerInv, Control, Live
  <1>5. b \in DOMAIN futures[c] /\ b \in Batches(c)
      BY <1>1, <1>3, <1>4
  <1> HIDE DEF b
  <1>6. pc'[c] = "leave" /\ error'[c] \in {"failure", "timeout"}
      BY <1>1, <1>2 DEF IInv, TypeOK
  <1>7. \A d \in Callers \ {c} : Untouched(d)
      BY <1>1, <1>2 DEF IInv, TypeOK, Untouched
  <1>8. TypeOK' /\ NumbersInv' /\ GlobalsInv'
    <2>1. /\ pc' \in [Callers -> {"slice", "collect", "leave", "returned", "raised"}]
          /\ error' \in [Callers -> {"none", "failure", "timeout"}]
        BY <1>1, <1>2 DEF IInv, TypeOK
    <2> QED
        BY <1>1, <2>1 DEF IInv, TypeOK, NumbersInv, GlobalsInv
  <1>9. \A d \in Callers \ {c} : CallerInv(d)'
      BY <1>1, <1>7, OnlyCaller
  <1>10. CallerInv(c)'
    <2>1. Batches(c)' = Batches(c) /\ \A a : Batch(c, a)' = Batch(c, a)
        BY <1>1, SameSlice
    <2>2. Control(c)'
        BY <1>1, <1>4, <1>6, <2>1 DEF Control, Live
    <2>3. Done(c)' = Done(c)
        BY <1>1, <2>1 DEF Done
    <2>4. Counted(c)'
        BY <1>1, <1>3, <1>6, <2>3 DEF CallerInv, Counted
    <2>5. /\ Held(c)' /\ Sized(c)' /\ Seeded(c)'
          /\ Isolated(c) => Memory(c)' /\ Tasks(c)' /\ Answered(c)'
        BY <1>1, <1>3, SamePool
    <2>6. ASSUME Isolated(c) PROVE Gathered(c)'
      <3>1. ASSUME Composable(c) PROVE AnswersAlone(c, results'[c])
          BY <1>1, <1>3, <2>6, <3>1 DEF CallerInv, Own, Gathered
      <3>2. ASSUME Composable(c), error'[c] = "failure" PROVE call[c].crashes \/ SomeRaisesAlone(c)
        <4>1. futures[c][b].state = "failed"
            BY <1>2, <3>2 DEF IInv, TypeOK
        <4>2. Raises(call[c].executor, BatchUnits(c, b)) \/ call[c].crashes
            BY <1>3, <1>5, <2>6, <4>1 DEF CallerInv, Own, Answered
        <4> DEFINE i == offset[c] + Batch(c, b).first
                   j == offset[c] + Batch(c, b).last
        <4>3. BatchUnits(c, b) = SubSeq(call[c].plan, i, j)
            BY <1>3, <1>4, <1>5, UnitsOfBatch
        <4>4. i \in DOMAIN call[c].plan /\ j \in DOMAIN call[c].plan /\ i <= j
            BY <1>3, <1>4, <1>5, BatchEnds
        <4> HIDE DEF i, j
        <4> QED
            BY <1>3, <3>2, <4>2, <4>3, <4>4, CutRaises
      <3>3. ASSUME error'[c] = "timeout" PROVE call[c].timeout
          BY <1>2, <3>3 DEF IInv, TypeOK
      <3> QED
          BY <1>1, <3>1, <3>2, <3>3, GatheredNext
    <2>7. Isolated(c)' <=> Isolated(c)
        BY <1>1, SameCall
    <2> QED
        BY <2>2, <2>4, <2>5, <2>6, <2>7 DEF CallerInv, Own
  <1> QED
      BY <1>8, <1>9, <1>10 DEF IInv

\* The loop ends when every batch is collected.
LEMMA CollectedAllStep == ASSUME IInv, NEW c \in Callers, CollectedAll(c) PROVE IInv'
  <1>1. /\ pc[c] = "collect" /\ collected[c] = Len(futures[c])
        /\ pc' = [pc EXCEPT ![c] = "leave"]
        /\ UNCHANGED <<call, offset, futures, collected, results, error, progress, worker, globals>>
      BY DEF CollectedAll
  <1>2. pc'[c] = "leave"
      BY <1>1 DEF IInv, TypeOK
  <1>3. CallerInv(c)
      BY Known
  <1>4. \A d \in Callers \ {c} : Untouched(d)
      BY <1>1 DEF IInv, TypeOK, Untouched
  <1>5. TypeOK' /\ NumbersInv' /\ GlobalsInv'
    <2>1. pc' \in [Callers -> {"slice", "collect", "leave", "returned", "raised"}]
        BY <1>1 DEF IInv, TypeOK
    <2> QED
        BY <1>1, <2>1 DEF IInv, TypeOK, NumbersInv, GlobalsInv
  <1>6. \A d \in Callers \ {c} : CallerInv(d)'
      BY <1>1, <1>4, OnlyCaller
  <1>7. CallerInv(c)'
    <2>1. Batches(c)' = Batches(c) /\ \A a : Batch(c, a)' = Batch(c, a)
        BY <1>1, SameSlice
    <2>2. Control(c)'
        BY <1>1, <1>2, <1>3, <2>1 DEF CallerInv, Control, Live
    <2>3. Done(c)' = Done(c)
        BY <1>1, <2>1 DEF Done
    <2>4. Counted(c)'
        BY <1>1, <1>2, <1>3, <2>3 DEF CallerInv, Counted
    <2>5. /\ Held(c)' /\ Sized(c)' /\ Seeded(c)'
          /\ Isolated(c) => Memory(c)' /\ Tasks(c)' /\ Answered(c)'
        BY <1>1, <1>3, SamePool
    <2>6. ASSUME Isolated(c) PROVE Gathered(c)'
        BY <1>1, <1>3, <2>6, GatheredNext DEF CallerInv, Own, Gathered
    <2>7. Isolated(c)' <=> Isolated(c)
        BY <1>1, SameCall
    <2> QED
        BY <2>2, <2>4, <2>5, <2>6, <2>7 DEF CallerInv, Own
  <1> QED
      BY <1>5, <1>6, <1>7 DEF IInv

\* The call returns when its last slice is done.
LEMMA ReturnStep == ASSUME IInv, NEW c \in Callers, Return(c) PROVE IInv'
  <1>1. /\ pc[c] = "slice" /\ offset[c] = Len(call[c].plan)
        /\ pc' = [pc EXCEPT ![c] = "returned"]
        /\ UNCHANGED <<call, offset, futures, collected, results, error, progress, worker, globals>>
      BY DEF Return
  <1>2. pc'[c] = "returned"
      BY <1>1 DEF IInv, TypeOK
  <1>3. CallerInv(c)
      BY Known
  <1>4. \A d \in Callers \ {c} : Untouched(d)
      BY <1>1 DEF IInv, TypeOK, Untouched
  <1>5. TypeOK' /\ NumbersInv' /\ GlobalsInv'
    <2>1. pc' \in [Callers -> {"slice", "collect", "leave", "returned", "raised"}]
        BY <1>1 DEF IInv, TypeOK
    <2> QED
        BY <1>1, <2>1 DEF IInv, TypeOK, NumbersInv, GlobalsInv
  <1>6. \A d \in Callers \ {c} : CallerInv(d)'
      BY <1>1, <1>4, OnlyCaller
  <1>7. CallerInv(c)'
    <2>1. \A a : Batch(c, a)' = Batch(c, a)
        BY <1>1, SameSlice
    <2>2. Control(c)'
        BY <1>1, <1>2, <1>3 DEF CallerInv, Control, Live
    <2>3. Done(c)' = Done(c)
        BY <1>1, <2>1 DEF Done
    <2>4. Counted(c)'
        BY <1>1, <1>2, <1>3, <2>3 DEF CallerInv, Counted
    <2>5. /\ Held(c)' /\ Sized(c)' /\ Seeded(c)'
          /\ Isolated(c) => Memory(c)' /\ Tasks(c)' /\ Answered(c)'
        BY <1>1, <1>3, SamePool
    <2>6. ASSUME Isolated(c) PROVE Gathered(c)'
        BY <1>1, <1>3, <2>6, GatheredNext DEF CallerInv, Own, Gathered
    <2>7. Isolated(c)' <=> Isolated(c)
        BY <1>1, SameCall
    <2> QED
        BY <2>2, <2>4, <2>5, <2>6, <2>7 DEF CallerInv, Own
  <1> QED
      BY <1>5, <1>6, <1>7 DEF IInv

\* The pool is gone; if no batch failed, the slice is done.
LEMMA LeaveStep == ASSUME IInv, NEW c \in Callers, Leave(c) PROVE IInv'
  <1>1. /\ pc[c] = "leave"
        /\ worker' = [worker EXCEPT ![c] = [w \in Numbers |-> Absent]]
        /\ futures' = [futures EXCEPT ![c] = <<>>]
        /\ collected' = [collected EXCEPT ![c] = 0]
        /\ UNCHANGED <<call, results, error, globals>>
      BY DEF Leave
  <1>2. \/ /\ error[c] = "none"
           /\ pc' = [pc EXCEPT ![c] = "slice"]
           /\ offset' = [offset EXCEPT ![c] = @ + Len(Slice(c))]
           /\ progress' = [progress EXCEPT ![c] = offset'[c]]
        \/ /\ error[c] # "none"
           /\ pc' = [pc EXCEPT ![c] = "raised"]
           /\ offset' = offset /\ progress' = progress
      BY DEF Leave
  <1>3. /\ call \in Workloads /\ offset[c] \in Nat /\ Len(call[c].plan) \in Nat
        /\ futures[c] \in Seq(Futures) /\ collected[c] \in 0 .. Len(futures[c])
        /\ results[c] \in Seq(TaggedAnswers) /\ Len(results[c]) \in Nat
        /\ progress[c] \in 0 .. Len(call[c].plan)
        /\ CallerInv(c)
      BY Known
  <1>4. /\ offset[c] < Len(call[c].plan) /\ DOMAIN futures[c] = Batches(c)
        /\ error[c] = "none" => collected[c] = Len(futures[c])
        /\ Len(results[c]) = offset[c] + Done(c) /\ progress[c] <= Len(results[c])
    <2>1. /\ offset[c] < Len(call[c].plan) /\ DOMAIN futures[c] = Batches(c)
          /\ error[c] = "none" => collected[c] = Len(futures[c])
        BY <1>1, <1>3 DEF CallerInv, Control, Live
    <2>2. Len(results[c]) = offset[c] + Done(c) /\ progress[c] <= Len(results[c])
        BY <1>1, <1>3 DEF CallerInv, Counted
    <2> QED
        BY <2>1, <2>2
  <1>5. Len(Slice(c)) \in Nat /\ offset[c] + Len(Slice(c)) <= Len(call[c].plan)
      BY <1>3, <1>4, Slices
  <1>6. error[c] = "none" => Len(results[c]) = offset[c] + Len(Slice(c))
    <2> SUFFICES ASSUME error[c] = "none" PROVE Done(c) = Len(Slice(c))
        BY <1>4
    <2>1. /\ BatchCount(c) \in Nat \ {0} /\ Batches(c) = 1 .. BatchCount(c)
          /\ Batch(c, BatchCount(c)).last = Len(Slice(c))
        BY <1>3, <1>4, BatchRanges
    <2>2. DOMAIN futures[c] = 1 .. Len(futures[c]) /\ Len(futures[c]) \in Nat
        BY <1>3
    <2>3. collected[c] = BatchCount(c)
        BY <1>4, <2>1, <2>2
    <2> QED
        BY <2>1, <2>3 DEF Done
  <1>7. /\ futures'[c] = <<>> /\ collected'[c] = 0 /\ results'[c] = results[c] /\ error'[c] = error[c]
        /\ \A w \in Numbers : worker'[c][w].state = "absent"
      BY <1>1 DEF IInv, TypeOK, NumbersInv, Absent
  <1>8. \/ /\ error[c] = "none" /\ pc'[c] = "slice"
           /\ offset'[c] = Len(results[c]) /\ progress'[c] = Len(results[c])
        \/ /\ error[c] # "none" /\ pc'[c] = "raised"
           /\ offset'[c] = offset[c] /\ progress'[c] = progress[c]
      BY <1>2, <1>3, <1>5, <1>6 DEF IInv, TypeOK, NumbersInv
  <1>9. \A d \in Callers \ {c} : Untouched(d)
    <2>1. \A d \in Callers \ {c} : pc'[d] = pc[d] /\ offset'[d] = offset[d] /\ progress'[d] = progress[d]
        BY <1>2 DEF IInv, TypeOK, NumbersInv
    <2> QED
        BY <1>1, <2>1 DEF IInv, TypeOK, NumbersInv, Untouched
  <1>10. offset' \in [Callers -> Nat] /\ collected' \in [Callers -> Nat] /\ progress' \in [Callers -> Nat]
    <2>1. offset[c] + Len(Slice(c)) \in Nat
        BY <1>3, <1>5
    <2>2. offset' \in [Callers -> Nat]
        BY <1>2, <2>1 DEF IInv, NumbersInv
    <2> QED
        BY <1>1, <1>2, <2>2 DEF IInv, NumbersInv
  <1>11. /\ offset'[c] \in 0 .. Len(call[c].plan) /\ progress'[c] \in 0 .. Len(call[c].plan)
    <2> DEFINE m == Len(results[c])
               n == Len(call[c].plan)
               s == Len(Slice(c))
    <2>1. /\ m \in Nat /\ n \in Nat /\ s \in Nat /\ offset[c] \in Nat /\ offset[c] < n
          /\ offset[c] + s <= n /\ progress[c] \in 0 .. n
          /\ error[c] = "none" => m = offset[c] + s
          /\ \/ error[c] = "none" /\ offset'[c] = m /\ progress'[c] = m
             \/ offset'[c] = offset[c] /\ progress'[c] = progress[c]
        BY <1>3, <1>4, <1>5, <1>6, <1>8
    <2> HIDE DEF m, n, s
    <2>2. offset'[c] \in 0 .. n /\ progress'[c] \in 0 .. n
        BY <2>1
    <2> QED
        BY <2>2 DEF n
  <1>12. TypeOK'
    <2>1. pc' \in [Callers -> {"slice", "collect", "leave", "returned", "raised"}]
        BY <1>2 DEF IInv, TypeOK
    <2>2. worker' \in [Callers -> [Numbers -> Workers]]
        BY <1>1, Blanks DEF IInv, TypeOK
    <2>3. futures' \in [Callers -> Seq(Futures)]
      <3>1. <<>> \in Seq(Futures)
          OBVIOUS
      <3> QED
          BY <1>1, <3>1 DEF IInv, TypeOK
    <2>4. \A d \in Callers : collected'[d] \in 0 .. Len(futures'[d])
      <3>1. collected'[c] \in 0 .. Len(futures'[c])
          BY <1>7
      <3> QED
          BY <1>9, <3>1 DEF IInv, TypeOK, Untouched
    <2>5. \A d \in Callers : offset'[d] \in 0 .. Len(call[d].plan) /\ progress'[d] \in 0 .. Len(call[d].plan)
        BY <1>9, <1>11 DEF IInv, TypeOK, Untouched
    <2> QED
        BY <1>1, <2>1, <2>2, <2>3, <2>4, <2>5 DEF IInv, TypeOK
  <1>13. NumbersInv' /\ GlobalsInv'
      BY <1>1, <1>10 DEF IInv, NumbersInv, GlobalsInv
  <1>14. \A d \in Callers \ {c} : CallerInv(d)'
      BY <1>1, <1>9, OnlyCaller
  <1>15. CallerInv(c)'
    <2>1. Held(c)' /\ Sized(c)' /\ Seeded(c)' /\ Memory(c)' /\ Tasks(c)' /\ Answered(c)'
        BY <1>7, NoPool
    <2>2. Control(c)'
        BY <1>7, <1>8 DEF Control, Live
    <2>3. Counted(c)'
        BY <1>1, <1>3, <1>4, <1>7, <1>8 DEF CallerInv, Counted, Done
    <2>4. ASSUME Isolated(c) PROVE Gathered(c)'
        BY <1>1, <1>3, <2>4, GatheredNext DEF CallerInv, Own, Gathered
    <2>5. Isolated(c)' <=> Isolated(c)
        BY <1>1, SameCall
    <2> QED
        BY <2>1, <2>2, <2>3, <2>4, <2>5 DEF CallerInv, Own
  <1> QED
      BY <1>12, <1>13, <1>14, <1>15 DEF IInv

----------------------------------------------------------------------------
(* The workers' steps.                                                     *)

\* A caller with workers has a pool, and a slice under way.
LEMMA Pools ==
    ASSUME IInv, NEW c \in Callers, NEW w \in Numbers, worker[c][w].state # "absent"
    PROVE  /\ Live(c) /\ call[c].workers > 1
           /\ offset[c] \in Nat /\ offset[c] < Len(call[c].plan)
           /\ DOMAIN futures[c] = Batches(c)
           /\ futures[c] \in Seq(Futures)
           /\ worker[c][w] \in Workers /\ globals[Home(c, w)].units \in Seq(Units)
           /\ CallerInv(c)
  <1>1. CallerInv(c) /\ Home(c, w) \in Homes /\ worker[c][w] \in Workers
      BY Known
  <1>2. Live(c)
      BY <1>1 DEF CallerInv, Control
  <1>3. globals[Home(c, w)].units \in Seq(Units)
      BY <1>1 DEF IInv, TypeOK
  <1> QED
      BY <1>1, <1>2, <1>3, Known DEF CallerInv, Control

\* A sequence with one element replaced.
LEMMA Replaced ==
    ASSUME NEW S, NEW s \in Seq(S), NEW b \in DOMAIN s, NEW e \in S, NEW t, t = [s EXCEPT ![b] = e]
    PROVE  /\ t \in Seq(S) /\ Len(t) = Len(s) /\ DOMAIN t = DOMAIN s
           /\ t[b] = e /\ \A a \in DOMAIN s : a # b => t[a] = s[a]
  <1>1. Len(s) \in Nat /\ DOMAIN s = 1 .. Len(s) /\ s \in [1 .. Len(s) -> S]
      OBVIOUS
  <1>2. t \in [1 .. Len(s) -> S] /\ DOMAIN t = 1 .. Len(s)
      BY <1>1
  <1>3. t \in Seq(S) /\ Len(t) = Len(s)
      BY <1>1, <1>2
  <1> QED
      BY <1>1, <1>2, <1>3

\* What has to be shown of a worker's step.
LEMMA WorkerStep ==
    ASSUME IInv, NEW c \in Callers, UNCHANGED caller, Live(c),
           futures'[c] \in Seq(Futures), Len(futures'[c]) = Len(futures[c]),
           futures' = [futures EXCEPT ![c] = futures'[c]],
           worker'[c] \in [Numbers -> Workers], worker' = [worker EXCEPT ![c] = worker'[c]],
           globals' \in [Homes -> [definition : Callers \union {NoCaller}, units : Seq(Units),
                                   executor : {"default", "reference"}]],
           GlobalsInv',
           Held(c)', Sized(c)', Seeded(c)',
           Isolated(c) => Memory(c)' /\ Tasks(c)' /\ Answered(c)',
           \A d \in Callers \ {c} : Untouched(d) => CallerInv(d)'
    PROVE  IInv'
  <1>1. CallerInv(c) /\ collected[c] \in 0 .. Len(futures[c]) /\ futures[c] \in Seq(Futures)
      BY Known
  <1>2. /\ call' = call /\ pc' = pc /\ offset' = offset /\ collected' = collected
        /\ results' = results /\ error' = error /\ progress' = progress
      BY DEF caller
  <1>3. /\ futures' \in [Callers -> Seq(Futures)]
        /\ worker' \in [Callers -> [Numbers -> Workers]]
    <2>1. futures \in [Callers -> Seq(Futures)] /\ worker \in [Callers -> [Numbers -> Workers]]
        BY DEF IInv, TypeOK
    <2> QED
        BY <2>1
  <1>4. \A d \in Callers \ {c} : Untouched(d)
      BY <1>2 DEF IInv, TypeOK, Untouched
  <1>5. TypeOK'
    <2>1. \A d \in Callers : collected'[d] \in 0 .. Len(futures'[d])
      <3>1. collected'[c] \in 0 .. Len(futures'[c])
          BY <1>1, <1>2
      <3> QED
          BY <1>4, <3>1 DEF IInv, TypeOK, Untouched
    <2> QED
        BY <1>2, <1>3, <2>1 DEF IInv, TypeOK
  <1>6. NumbersInv'
      BY <1>2 DEF IInv, NumbersInv
  <1>7. /\ Batches(c)' = Batches(c) /\ \A a : Batch(c, a)' = Batch(c, a)
      BY <1>2, SameSlice
  <1>8. DOMAIN futures'[c] = DOMAIN futures[c]
      BY <1>1
  <1>9. Control(c)'
      BY <1>1, <1>2, <1>7, <1>8 DEF CallerInv, Control, Live
  <1>10. Done(c)' = Done(c)
      BY <1>2, <1>7 DEF Done
  <1>11. Counted(c)'
      BY <1>1, <1>2, <1>10 DEF CallerInv, Counted
  <1>12. ASSUME Isolated(c) PROVE Gathered(c)'
      BY <1>1, <1>2, <1>12, GatheredNext DEF CallerInv, Own, Gathered
  <1>13. Isolated(c)' <=> Isolated(c)
      BY <1>2, SameCall
  <1>14. CallerInv(c)'
      BY <1>9, <1>11, <1>12, <1>13 DEF CallerInv, Own
  <1> QED
      BY <1>4, <1>5, <1>6, <1>14 DEF IInv

\* Workers of a caller nobody interferes with share no memory with those of another.
LEMMA Apart ==
    ASSUME IInv, NEW c \in Callers, NEW d \in Callers \ {c}, NEW w \in Numbers, NEW v \in Numbers,
           Isolated(d), worker[c][w].state # "absent", worker[d][v].state # "absent"
    PROVE  Home(d, v) # Home(c, w)
  <1>1. call[c].workers > 1 /\ call[d].workers > 1
      BY Pools
  <1>2. call[c].workers # 1 /\ call[d].workers # 1
      BY <1>1
  <1>3. CASE call[c].processes
      BY <1>3, CallersAssumption DEF Home
  <1>4. CASE ~call[c].processes
    <2>1. ~OwnMemory(c)
        BY <1>2, <1>4 DEF OwnMemory
    <2>2. call[d].processes
        BY <1>2, <2>1 DEF Isolated, OwnMemory
    <2> QED
        BY <1>4, <2>2, CallersAssumption DEF Home
  <1> QED
      BY <1>3, <1>4

\* A worker assigns a global, in the order in which the others rely on them.
LEMMA SeedStep ==
    ASSUME IInv, NEW c \in Callers, NEW w \in Numbers,
           SeedDefinition(c, w) \/ SeedUnits(c, w) \/ SeedExecutor(c, w)
    PROVE  IInv'
  <1> DEFINE home == Home(c, w)
  <1>1. PICK from, to, field, value :
            /\ Seed(c, w, from, to, field, value)
            /\ \/ /\ from = "new" /\ to = "seeding units" /\ field = "definition" /\ value = c
               \/ /\ from = "seeding units" /\ to = "seeding executor" /\ field = "units"
                  /\ value = Slice(c)
               \/ /\ from = "seeding executor" /\ to = "idle" /\ field = "executor"
                  /\ value = call[c].executor
      BY Zenon DEF SeedDefinition, SeedUnits, SeedExecutor
  <1>2. /\ worker[c][w].state = from
        /\ worker' = [worker EXCEPT ![c][w].state = to]
        /\ globals' = [globals EXCEPT ![home] = [@ EXCEPT ![field] = value]]
        /\ UNCHANGED caller /\ futures' = futures
      BY <1>1 DEF Seed
  <1>3. worker[c][w].state # "absent"
      BY <1>1, <1>2
  <1>4. /\ Live(c) /\ CallerInv(c) /\ call[c] \in CallType /\ call \in Workloads
        /\ offset[c] \in Nat /\ offset[c] < Len(call[c].plan) /\ futures[c] \in Seq(Futures)
        /\ home \in Homes
      BY <1>3, Pools, Known
  <1>5. call' = call /\ offset' = offset
      BY <1>2 DEF caller
  <1> HIDE DEF home
  \* the globals
  <1>6. /\ \A h \in Homes : h # home => globals'[h] = globals[h]
        /\ \A h \in Homes :
              /\ globals'[h].definition \in {globals[h].definition, c}
              /\ globals'[h].units \in {globals[h].units, Slice(c)}
              /\ globals'[h].executor \in {globals[h].executor, call[c].executor}
        /\ globals'[home].definition = IF from = "new" THEN c ELSE globals[home].definition
        /\ globals'[home].units = IF from = "seeding units" THEN Slice(c) ELSE globals[home].units
        /\ globals'[home].executor =
               IF from = "seeding executor" THEN call[c].executor ELSE globals[home].executor
        /\ globals' \in [Homes -> [definition : Callers \union {NoCaller}, units : Seq(Units),
                                   executor : {"default", "reference"}]]
    <2>1. globals \in [Homes -> [definition : Callers \union {NoCaller}, units : Seq(Units),
                                 executor : {"default", "reference"}]]
        BY DEF IInv, TypeOK
    <2>2. Slice(c) \in Seq(Units) /\ call[c].executor \in {"default", "reference"}
        BY <1>4, Slices DEF CallType
    <2>3. CASE from = "new" /\ field = "definition" /\ value = c
        BY <1>2, <1>4, <2>1, <2>3
    <2>4. CASE from = "seeding units" /\ field = "units" /\ value = Slice(c)
        BY <1>2, <1>4, <2>1, <2>2, <2>4
    <2>5. CASE from = "seeding executor" /\ field = "executor" /\ value = call[c].executor
        BY <1>2, <1>4, <2>1, <2>2, <2>5
    <2> QED
        BY <1>1, <2>3, <2>4, <2>5
  <1>7. GlobalsInv'
    <2>1. IsPart(Slice(c))
        BY <1>4, PartsOfPlan
    <2>2. \A h \in Homes : globals'[h].units = <<>> \/ IsPart(globals'[h].units)
        BY <1>6, <2>1 DEF IInv, GlobalsInv
    <2> QED
        BY <2>2 DEF GlobalsInv, IsPart
  \* the workers
  <1>8. /\ worker'[c] \in [Numbers -> Workers]
        /\ worker' = [worker EXCEPT ![c] = worker'[c]]
        /\ worker'[c][w].state = to
        /\ \A v \in Numbers \ {w} : worker'[c][v] = worker[c][v]
    <2>1. worker \in [Callers -> [Numbers -> Workers]]
        BY DEF IInv, TypeOK
    <2>2. [worker[c][w] EXCEPT !.state = to] \in Workers
      <3>1. worker[c][w] \in Workers
          BY <2>1
      <3>2. to \in {"seeding units", "seeding executor", "idle"}
          BY <1>1
      <3> QED
          BY <3>1, <3>2 DEF Workers
    <2> QED
        BY <1>2, <2>1, <2>2
  <1>9. ~Busy(worker[c][w]) /\ ~Busy(worker'[c][w])
      BY <1>1, <1>2, <1>8 DEF Busy
  <1>10. /\ \A v \in Numbers : Busy(worker[c][v])' <=> Busy(worker[c][v])
         /\ \A v \in Numbers : Busy(worker[c][v]) => worker'[c][v] = worker[c][v]
    <2>1. \A v \in Numbers : v # w => worker'[c][v] = worker[c][v]
        BY <1>8
    <2>2. \A v \in Numbers : v # w => (Busy(worker[c][v])' <=> Busy(worker[c][v]))
        BY <2>1 DEF Busy
    <2>3. Busy(worker[c][w])' <=> Busy(worker[c][w])
        BY <1>9 DEF Busy
    <2> QED
        BY <1>9, <2>1, <2>2, <2>3
  <1>11. /\ Slice(c)' = Slice(c)
         /\ \A a : /\ Batch(c, a)' = Batch(c, a) /\ BatchUnits(c, a)' = BatchUnits(c, a)
                   /\ Size(c, a)' = Size(c, a)
      BY <1>5, SameSlice
  <1>12. \A v \in Numbers : Home(c, v)' = Home(c, v) /\ Home(c, v) \in Homes
      BY <1>5, SameCall, Known
  <1>13. /\ HasDefinition(to) /\ (HasDefinition(from) \/ from = "new")
         /\ HasUnits(to) => HasUnits(from) \/ from = "seeding units"
         /\ HasExecutor(to) => HasExecutor(from) \/ from = "seeding executor"
      BY <1>1 DEF HasDefinition, HasUnits, HasExecutor
  \* the invariant
  <1>14. Held(c)'
      BY <1>2, <1>4, <1>10, SMTT(30) DEF CallerInv, Held
  <1>15. Sized(c)'
      BY <1>2, <1>4, <1>10, <1>11, ZenonT(30) DEF CallerInv, Sized, IsPart
  <1>16. Seeded(c)'
    <2> SUFFICES ASSUME NEW v \in Numbers
                 PROVE  /\ HasDefinition(worker'[c][v].state) =>
                               globals'[Home(c, v)].definition \in Callers
                        /\ worker'[c][v].state \in {"loading executor", "running"} =>
                               worker'[c][v].definition \in Callers
        BY <1>12 DEF Seeded, HasDefinition
    <2>1. CASE v = w
        BY <1>1, <1>2, <1>4, <1>6, <1>8, <1>12, <1>13, <2>1, ZenonT(30) DEF CallerInv, Seeded, home
    <2>2. CASE v # w
        BY <1>4, <1>6, <1>8, <1>12, <2>2 DEF CallerInv, Seeded
    <2> QED
        BY <2>1, <2>2
  <1>17. ASSUME Isolated(c) PROVE Memory(c)'
    <2>1. Memory(c)
        BY <1>4, <1>17 DEF CallerInv, Own
    <2> SUFFICES ASSUME NEW v \in Numbers
                 PROVE  /\ HasDefinition(worker'[c][v].state) => globals'[Home(c, v)].definition = c
                        /\ HasUnits(worker'[c][v].state) => globals'[Home(c, v)].units = Slice(c)
                        /\ HasExecutor(worker'[c][v].state) =>
                               globals'[Home(c, v)].executor = call[c].executor
        BY <1>5, <1>11, <1>12 DEF Memory, HasDefinition, HasUnits, HasExecutor
    <2>2. CASE v = w
      <3>1. /\ HasDefinition(from) => globals[home].definition = c
            /\ HasUnits(from) => globals[home].units = Slice(c)
            /\ HasExecutor(from) => globals[home].executor = call[c].executor
          BY <1>2, <2>1 DEF Memory, home
      <3>2. /\ globals'[home].definition = c
            /\ HasUnits(to) => globals'[home].units = Slice(c)
            /\ HasExecutor(to) => globals'[home].executor = call[c].executor
          BY <1>6, <1>13, <3>1
      <3> QED
          BY <1>8, <2>2, <3>2 DEF home
    <2>3. CASE v # w
        BY <1>6, <1>8, <1>12, <2>1, <2>3 DEF Memory
    <2> QED
        BY <2>2, <2>3
  <1>18. ASSUME Isolated(c) PROVE Tasks(c)'
      BY <1>4, <1>5, <1>10, <1>11, <1>18 DEF CallerInv, Own, Tasks
  <1>19. ASSUME Isolated(c) PROVE Answered(c)'
      BY <1>2, <1>4, <1>5, <1>11, <1>19 DEF CallerInv, Own, Answered
  <1>20. ASSUME NEW d \in Callers \ {c}, Untouched(d) PROVE CallerInv(d)'
    <2>1. \A v \in Numbers : Home(d, v) \in Homes
        BY Known
    <2>2. \A v \in Numbers : globals[Home(d, v)].definition \in Callers
                                => globals'[Home(d, v)].definition \in Callers
        BY <1>6, <2>1
    <2>3. ASSUME Isolated(d), NEW v \in Numbers, worker[d][v].state # "absent"
          PROVE  globals'[Home(d, v)] = globals[Home(d, v)]
      <3>1. Home(d, v) # Home(c, w)
          BY <1>3, <2>3, Apart
      <3> QED
          BY <1>6, <2>1, <3>1 DEF home
    <2> QED
        BY <1>5, <1>20, <2>2, <2>3, Bystander DEF IInv
  <1> QED
      BY <1>2, <1>4, <1>6, <1>7, <1>8, <1>14, <1>15, <1>16, <1>17, <1>18, <1>19, <1>20, WorkerStep, ZenonT(30)
        DEF IInv, TypeOK

\* A step of a worker that seeds nothing does not concern the others.
LEMMA QuietWorker ==
    ASSUME IInv, NEW c \in Callers, UNCHANGED caller, globals' = globals
    PROVE  /\ globals' \in [Homes -> [definition : Callers \union {NoCaller}, units : Seq(Units),
                                      executor : {"default", "reference"}]]
           /\ GlobalsInv'
           /\ \A d \in Callers \ {c} : Untouched(d) => CallerInv(d)'
           /\ \A w \in Numbers : Home(c, w)' = Home(c, w)
           /\ Slice(c)' = Slice(c)
           /\ \A a : /\ Batch(c, a)' = Batch(c, a) /\ BatchUnits(c, a)' = BatchUnits(c, a)
                     /\ Size(c, a)' = Size(c, a)
           /\ call' = call
  <1>1. call' = call /\ offset' = offset
      BY DEF caller
  <1>2. globals' \in [Homes -> [definition : Callers \union {NoCaller}, units : Seq(Units),
                                executor : {"default", "reference"}]]
      BY DEF IInv, TypeOK
  <1>3. GlobalsInv'
      BY DEF IInv, GlobalsInv
  <1>4. \A d \in Callers \ {c} : Untouched(d) => CallerInv(d)'
    <2> TAKE d \in Callers \ {c}
    <2>1. CallerInv(d)
        BY DEF IInv
    <2> QED
        BY <1>1, <2>1, Bystander
  <1> QED
      BY <1>1, <1>2, <1>3, <1>4, SameCall, SameSlice

\* The head of the queue is a batch that nobody has taken.
LEMMA HeadOfQueue ==
    ASSUME NEW c \in Callers, futures[c] \in Seq(Futures),
           \E a \in DOMAIN futures[c] : futures[c][a].state = "pending"
    PROVE  NextBatch(c) \in DOMAIN futures[c] /\ futures[c][NextBatch(c)].state = "pending"
  <1> DEFINE waiting == {a \in DOMAIN futures[c] : futures[c][a].state = "pending"}
  <1>1. DOMAIN futures[c] = 1 .. Len(futures[c]) /\ Len(futures[c]) \in Nat
      OBVIOUS
  <1>2. waiting \in SUBSET Nat /\ waiting # {}
      BY <1>1
  <1>3. PICK b \in waiting : \A a \in waiting : b <= a
    <2> HIDE DEF waiting
    <2> QED
        BY <1>2, LeastNumber
  <1>4. \A a \in 1 .. b - 1 : a \in DOMAIN futures[c] /\ ~(b <= a)
      BY <1>1
  <1>5. \A a \in 1 .. b - 1 : futures[c][a].state # "pending"
      BY <1>3, <1>4
  <1> QED
      BY <1>5 DEF NextBatch

\* A worker takes the batch at the head of the queue, and whatever units the
\* memory holds at its places.
LEMMA TakeStep == ASSUME IInv, NEW c \in Callers, NEW w \in Numbers, Take(c, w) PROVE IInv'
  <1> DEFINE b == NextBatch(c)
             known == globals[Home(c, w)].units
             first == Batch(c, b).first
             last == Batch(c, b).last
             task == [Absent EXCEPT !.state = "loading", !.batch = b,
                                    !.units = SubSeq(known, first, Least(last, Len(known)))]
  <1>1. /\ worker[c][w].state = "idle"
        /\ \E a \in DOMAIN futures[c] : futures[c][a].state = "pending"
        /\ UNCHANGED caller /\ globals' = globals
      BY DEF Take
  <1>2. \/ /\ last <= Len(known)
           /\ worker' = [worker EXCEPT ![c][w] = task]
           /\ futures' = [futures EXCEPT ![c][b].state = "running"]
        \/ /\ ~(last <= Len(known))
           /\ futures' = [futures EXCEPT ![c][b].state = "failed"]
           /\ worker' = worker
      BY DEF Take, InRange
  <1>3. /\ Live(c) /\ CallerInv(c) /\ call \in Workloads
        /\ offset[c] \in Nat /\ offset[c] < Len(call[c].plan)
        /\ DOMAIN futures[c] = Batches(c) /\ futures[c] \in Seq(Futures)
        /\ known \in Seq(Units) /\ Home(c, w) \in Homes /\ worker[c] \in [Numbers -> Workers]
      BY <1>1, Pools, Known
  <1>4. b \in DOMAIN futures[c] /\ futures[c][b].state = "pending" /\ b \in Nat
    <2>1. b \in DOMAIN futures[c] /\ futures[c][b].state = "pending"
        BY <1>1, <1>3, HeadOfQueue
    <2> QED
        BY <1>3, <2>1
  <1>5. /\ first \in Nat /\ last \in Nat /\ 1 <= first /\ first <= last /\ last <= Len(Slice(c))
      BY <1>3, <1>4, BatchRanges
  <1>6. /\ \A w1 \in Numbers : Home(c, w1)' = Home(c, w1)
        /\ Slice(c)' = Slice(c) /\ call' = call
        /\ \A a : /\ Batch(c, a)' = Batch(c, a) /\ BatchUnits(c, a)' = BatchUnits(c, a)
                  /\ Size(c, a)' = Size(c, a)
      BY <1>1, QuietWorker
  <1>7. Isolated(c) => known = Slice(c)
      BY <1>1, <1>3 DEF CallerInv, Own, Memory, HasUnits
  <1>8. last <= Len(known) =>
            /\ Least(last, Len(known)) = last
            /\ SubSeq(known, first, last) \in Seq(Units) /\ IsPart(SubSeq(known, first, last))
            /\ Len(SubSeq(known, first, last)) = Size(c, b)
    <2> SUFFICES ASSUME last <= Len(known)
                 PROVE  /\ Least(last, Len(known)) = last
                        /\ SubSeq(known, first, last) \in Seq(Units)
                        /\ IsPart(SubSeq(known, first, last))
                        /\ Len(SubSeq(known, first, last)) = Size(c, b)
        OBVIOUS
    <2>1. known = <<>> \/ IsPart(known)
        BY <1>3 DEF IInv, GlobalsInv
    <2>2. Size(c, b) = last - first + 1
        BY DEF Size
    <2> HIDE DEF known, first, last, b
    <2>3. Len(known) \in Nat /\ known # <<>>
        BY <1>3, <1>5
    <2>4. first \in 1 .. Len(known) /\ last \in first .. Len(known)
        BY <1>5, <2>3
    <2>5. IsPart(SubSeq(known, first, last))
        BY <2>1, <2>3, <2>4, PartsOfParts
    <2>6. SubSeq(known, first, last) \in Seq(Units) /\ Len(SubSeq(known, first, last)) = last - first + 1
        BY <1>3, <1>5, Parts
    <2> QED
        BY <2>2, <2>5, <2>6 DEF Least
  <1>9. \A v \in Numbers : ~(Busy(worker[c][v]) /\ worker[c][v].batch = b)
      BY <1>3, <1>4 DEF CallerInv, Held
  <1>10. ~Busy(worker[c][w])
      BY <1>1 DEF Busy
  <1> HIDE DEF b, known, first, last, task
  <1>11. CASE /\ last <= Len(known)
              /\ worker' = [worker EXCEPT ![c][w] = task]
              /\ futures' = [futures EXCEPT ![c][b].state = "running"]
    <2>1. /\ task \in Workers /\ task.state = "loading" /\ task.batch = b
          /\ task.units = SubSeq(known, first, last)
      <3>1. Absent \in Workers
          BY Blanks
      <3> QED
          BY <1>4, <1>8, <1>11, <3>1 DEF task, Workers, Absent
    <2>2. /\ worker'[c] \in [Numbers -> Workers]
          /\ worker' = [worker EXCEPT ![c] = worker'[c]]
          /\ worker'[c][w] = task
          /\ \A v \in Numbers : v # w => worker'[c][v] = worker[c][v]
        BY <1>3, <1>11, <2>1 DEF IInv, TypeOK
    <2> DEFINE f == [futures[c][b] EXCEPT !.state = "running"]
    <2>3. f \in Futures /\ f.state = "running"
      <3>1. futures[c][b] \in Futures
          BY <1>3, <1>4
      <3> QED
          BY <3>1 DEF Futures
    <2>4. futures'[c] = [futures[c] EXCEPT ![b] = f] /\ futures' = [futures EXCEPT ![c] = futures'[c]]
        BY <1>4, <1>11 DEF IInv, TypeOK
    <2> HIDE DEF f
    <2>5. /\ futures'[c] \in Seq(Futures) /\ Len(futures'[c]) = Len(futures[c])
          /\ DOMAIN futures'[c] = DOMAIN futures[c]
          /\ futures'[c][b] = f /\ \A a \in DOMAIN futures[c] : a # b => futures'[c][a] = futures[c][a]
        BY <1>3, <1>4, <2>3, <2>4, Replaced
    <2>6. /\ Busy(worker'[c][w])
          /\ \A v \in Numbers : v # w => (Busy(worker'[c][v]) <=> Busy(worker[c][v]))
        BY <2>1, <2>2 DEF Busy
    <2>7. \A v \in Numbers : Busy(worker[c][v])' <=> Busy(worker'[c][v])
        BY DEF Busy
    <2>8. Held(c)'
      <3>1. \A v \in Numbers : Busy(worker'[c][v]) =>
                /\ worker'[c][v].batch \in DOMAIN futures'[c]
                /\ futures'[c][worker'[c][v].batch].state = "running"
          BY <1>3, <1>4, <2>1, <2>2, <2>3, <2>5, <2>6 DEF CallerInv, Held
      <3>2. \A u, v \in Numbers : Busy(worker'[c][u]) /\ Busy(worker'[c][v])
                /\ worker'[c][u].batch = worker'[c][v].batch => u = v
          BY <1>3, <1>9, <2>1, <2>2, <2>6 DEF CallerInv, Held
      <3>3. \A a \in DOMAIN futures'[c] : futures'[c][a].state = "running" =>
                \E v \in Numbers : Busy(worker'[c][v]) /\ worker'[c][v].batch = a
        <4> TAKE a \in DOMAIN futures'[c]
        <4>1. CASE a = b
            BY <2>1, <2>2, <2>6, <4>1
        <4>2. ASSUME a # b, futures'[c][a].state = "running"
              PROVE  \E v \in Numbers : Busy(worker'[c][v]) /\ worker'[c][v].batch = a
          <5>1. PICK v \in Numbers : Busy(worker[c][v]) /\ worker[c][v].batch = a
              BY <1>3, <2>5, <4>2 DEF CallerInv, Held
          <5>2. v # w
              BY <1>10, <5>1
          <5> QED
              BY <2>2, <2>6, <5>1, <5>2
        <4> QED
            BY <4>1, <4>2
      <3> QED
          BY <2>7, <3>1, <3>2, <3>3 DEF Held
    <2>9. Sized(c)'
      <3>1. \A v \in Numbers : Busy(worker'[c][v]) =>
                /\ IsPart(worker'[c][v].units)
                /\ Len(worker'[c][v].units) = Size(c, worker'[c][v].batch)
          BY <1>3, <1>8, <1>11, <2>1, <2>2, <2>6 DEF CallerInv, Sized
      <3>2. \A a \in DOMAIN futures'[c] :
                futures'[c][a].state = "finished" => Len(futures'[c][a].answers) = Size(c, a)
          BY <1>3, <2>3, <2>5 DEF CallerInv, Sized
      <3> QED
          BY <1>6, <2>7, <3>1, <3>2 DEF Sized, IsPart
    <2>10. Seeded(c)'
      <3>1. HasDefinition(worker[c][w].state)
          BY <1>1 DEF HasDefinition
      <3> QED
          BY <1>1, <1>3, <1>6, <2>1, <2>2, <3>1 DEF CallerInv, Seeded, HasDefinition
    <2>11. ASSUME Isolated(c) PROVE Memory(c)' /\ Tasks(c)' /\ Answered(c)'
      <3>1. Memory(c)'
        <4>1. /\ HasDefinition(worker[c][w].state) /\ HasUnits(worker[c][w].state)
              /\ HasExecutor(worker[c][w].state)
            BY <1>1 DEF HasDefinition, HasUnits, HasExecutor
        <4>2. Memory(c)
            BY <1>3, <2>11 DEF CallerInv, Own
        <4>3. \A v \in Numbers :
                  /\ HasDefinition(worker'[c][v].state) => HasDefinition(worker[c][v].state)
                  /\ HasUnits(worker'[c][v].state) => HasUnits(worker[c][v].state)
                  /\ HasExecutor(worker'[c][v].state) => HasExecutor(worker[c][v].state)
            BY <2>2, <4>1
        <4> QED
            BY <1>1, <1>6, <4>2, <4>3 DEF Memory, HasDefinition, HasUnits, HasExecutor
      <3>2. Tasks(c)'
        <4>1. task.units = BatchUnits(c, b)
            BY <1>7, <2>1, <2>11 DEF BatchUnits, first, last, known
        <4>2. Tasks(c)
            BY <1>3, <2>11 DEF CallerInv, Own
        <4>3. \A v \in Numbers : Busy(worker'[c][v]) =>
                  /\ worker'[c][v].units = BatchUnits(c, worker'[c][v].batch)
                  /\ worker'[c][v].state # "loading" => worker'[c][v].definition = c
                  /\ worker'[c][v].state = "running" => worker'[c][v].executor = call[c].executor
            BY <2>1, <2>2, <2>6, <4>1, <4>2 DEF Tasks
        <4> QED
            BY <1>6, <2>7, <4>3 DEF Tasks
      <3>3. Answered(c)'
        <4>1. Answered(c)
            BY <1>3, <2>11 DEF CallerInv, Own
        <4> QED
            BY <1>6, <2>3, <2>5, <4>1 DEF Answered
      <3> QED
          BY <3>1, <3>2, <3>3
    <2> QED
        BY <1>1, <1>3, <2>2, <2>4, <2>5, <2>8, <2>9, <2>10, <2>11, QuietWorker, WorkerStep
  <1>12. CASE /\ ~(last <= Len(known))
              /\ futures' = [futures EXCEPT ![c][b].state = "failed"]
              /\ worker' = worker
    <2> DEFINE f == [futures[c][b] EXCEPT !.state = "failed"]
    <2>1. f \in Futures /\ f.state = "failed"
      <3>1. futures[c][b] \in Futures
          BY <1>3, <1>4
      <3> QED
          BY <3>1 DEF Futures
    <2>2. futures'[c] = [futures[c] EXCEPT ![b] = f] /\ futures' = [futures EXCEPT ![c] = futures'[c]]
        BY <1>4, <1>12 DEF IInv, TypeOK
    <2> HIDE DEF f
    <2>3. /\ futures'[c] \in Seq(Futures) /\ Len(futures'[c]) = Len(futures[c])
          /\ DOMAIN futures'[c] = DOMAIN futures[c]
          /\ futures'[c][b] = f /\ \A a \in DOMAIN futures[c] : a # b => futures'[c][a] = futures[c][a]
        BY <1>3, <1>4, <2>1, <2>2, Replaced
    <2>4. worker'[c] = worker[c] /\ worker'[c] \in [Numbers -> Workers]
          /\ worker' = [worker EXCEPT ![c] = worker'[c]]
        BY <1>3, <1>12 DEF IInv, TypeOK
    <2>5. Held(c)'
        BY <1>3, <1>9, <2>1, <2>3, <2>4, SMTT(30) DEF CallerInv, Held
    <2>6. Sized(c)'
      <3>1. \A v \in Numbers : Busy(worker[c][v])' <=> Busy(worker[c][v])
          BY <2>4 DEF Busy
      <3>2. \A a \in DOMAIN futures'[c] :
                futures'[c][a].state = "finished" => Len(futures'[c][a].answers) = Size(c, a)
          BY <1>3, <2>1, <2>3 DEF CallerInv, Sized
      <3>3. \A v \in Numbers : Busy(worker[c][v]) =>
                IsPart(worker[c][v].units) /\ Len(worker[c][v].units) = Size(c, worker[c][v].batch)
          BY <1>3 DEF CallerInv, Sized
      <3> QED
          BY <1>6, <2>4, <3>1, <3>2, <3>3 DEF Sized, IsPart
    <2>7. Seeded(c)'
        BY <1>1, <1>3, <1>6, <2>4 DEF CallerInv, Seeded
    <2>8. ~Isolated(c)
        BY <1>5, <1>7, <1>12
    <2> QED
        BY <1>1, <1>3, <2>2, <2>3, <2>4, <2>5, <2>6, <2>7, <2>8, QuietWorker, WorkerStep
  <1> QED
      BY <1>2, <1>11, <1>12 DEF task

\* A worker reads a global: whichever definition or executor it finds.
LEMMA LoadStep ==
    ASSUME IInv, NEW c \in Callers, NEW w \in Numbers, LoadDefinition(c, w) \/ LoadExecutor(c, w)
    PROVE  IInv'
  <1> DEFINE task == worker[c][w]
             home == globals[Home(c, w)]
  <1>1. UNCHANGED caller /\ globals' = globals /\ futures' = futures
      BY DEF LoadDefinition, LoadExecutor
  <1>2. PICK task2 :
            /\ worker' = [worker EXCEPT ![c][w] = task2]
            /\ \/ /\ task.state = "loading"
                  /\ task2 = [task EXCEPT !.state = "loading executor", !.definition = home.definition]
               \/ /\ task.state = "loading executor"
                  /\ task2 = [task EXCEPT !.state = "running", !.executor = home.executor]
    <2>1. CASE LoadDefinition(c, w)
      <3> DEFINE task2 == [task EXCEPT !.state = "loading executor", !.definition = home.definition]
      <3>1. worker' = [worker EXCEPT ![c][w] = task2] /\ task.state = "loading"
          BY <2>1 DEF LoadDefinition, IInv, TypeOK
      <3> QED
          BY <3>1
    <2>2. CASE LoadExecutor(c, w)
      <3> DEFINE task2 == [task EXCEPT !.state = "running", !.executor = home.executor]
      <3>1. worker' = [worker EXCEPT ![c][w] = task2] /\ task.state = "loading executor"
          BY <2>2 DEF LoadExecutor, IInv, TypeOK
      <3> QED
          BY <3>1
    <2> QED
        BY <2>1, <2>2
  <1>3. task.state # "absent"
      BY <1>2
  <1>4. /\ Live(c) /\ CallerInv(c) /\ call \in Workloads /\ futures[c] \in Seq(Futures)
        /\ task \in Workers /\ Home(c, w) \in Homes /\ worker[c] \in [Numbers -> Workers]
      BY <1>3, Pools, Known
  <1>5. home.definition \in Callers \union {NoCaller} /\ home.executor \in {"default", "reference"}
      BY <1>4 DEF IInv, TypeOK
  <1>6. HasDefinition(task.state) /\ HasUnits(task.state) /\ HasExecutor(task.state) /\ Busy(task)
      BY <1>2 DEF HasDefinition, HasUnits, HasExecutor, Busy
  <1>7. /\ home.definition \in Callers
        /\ Isolated(c) => home.definition = c /\ home.executor = call[c].executor
      BY <1>4, <1>6 DEF CallerInv, Seeded, Own, Memory
  <1>8. /\ \A v \in Numbers : Home(c, v)' = Home(c, v)
        /\ Slice(c)' = Slice(c) /\ call' = call
        /\ \A a : /\ Batch(c, a)' = Batch(c, a) /\ BatchUnits(c, a)' = BatchUnits(c, a)
                  /\ Size(c, a)' = Size(c, a)
      BY <1>1, QuietWorker
  <1>9. /\ task2 \in Workers /\ task2.batch = task.batch /\ task2.units = task.units
        /\ task2.state \in {"loading executor", "running"}
        /\ task2.definition = IF task.state = "loading" THEN home.definition ELSE task.definition
        /\ task2.executor = IF task.state = "loading" THEN task.executor ELSE home.executor
        /\ task.state = "loading" => task2.state = "loading executor"
        /\ task.state \in {"loading", "loading executor"}
    <2> HIDE DEF task, home
    <2> QED
        BY <1>2, <1>4, <1>5 DEF Workers
  <1>10. /\ worker'[c] \in [Numbers -> Workers]
         /\ worker' = [worker EXCEPT ![c] = worker'[c]]
         /\ worker'[c][w] = task2
         /\ \A v \in Numbers : v # w => worker'[c][v] = worker[c][v]
      BY <1>2, <1>4, <1>9 DEF IInv, TypeOK
  <1>11. /\ \A v \in Numbers : Busy(worker[c][v])' <=> Busy(worker[c][v])
         /\ \A v \in Numbers : /\ worker'[c][v].batch = worker[c][v].batch
                               /\ worker'[c][v].units = worker[c][v].units
    <2>1. Busy(task2)
        BY <1>9 DEF Busy
    <2>2. Busy(worker[c][w])' /\ Busy(worker[c][w])
        BY <1>6, <1>10, <2>1 DEF Busy
    <2>3. \A v \in Numbers : v # w => (Busy(worker[c][v])' <=> Busy(worker[c][v]))
        BY <1>10 DEF Busy
    <2> QED
        BY <1>9, <1>10, <2>2, <2>3
  <1> HIDE DEF task, home
  <1>12. Held(c)'
      BY <1>1, <1>4, <1>11 DEF CallerInv, Held
  <1>13. Sized(c)'
      BY <1>1, <1>4, <1>8, <1>11 DEF CallerInv, Sized, IsPart
  <1>14. \A v \in Numbers :
             /\ HasDefinition(worker'[c][v].state) => HasDefinition(worker[c][v].state)
             /\ HasUnits(worker'[c][v].state) => HasUnits(worker[c][v].state)
             /\ HasExecutor(worker'[c][v].state) => HasExecutor(worker[c][v].state)
      BY <1>6, <1>10 DEF task
  <1>15. Seeded(c)'
    <2>1. \A v \in Numbers : HasDefinition(worker'[c][v].state) =>
                globals[Home(c, v)].definition \in Callers
        BY <1>4, <1>14 DEF CallerInv, Seeded
    <2>2. \A v \in Numbers : worker'[c][v].state \in {"loading executor", "running"} =>
                worker'[c][v].definition \in Callers
      <3>1. task2.definition \in Callers
          BY <1>4, <1>7, <1>9 DEF CallerInv, Seeded, task
      <3> QED
          BY <1>4, <1>10, <3>1 DEF CallerInv, Seeded
    <2> QED
        BY <1>1, <1>8, <2>1, <2>2 DEF Seeded, HasDefinition
  <1>16. ASSUME Isolated(c) PROVE Memory(c)' /\ Tasks(c)' /\ Answered(c)'
    <2>1. Memory(c) /\ Tasks(c) /\ Answered(c)
        BY <1>4, <1>16 DEF CallerInv, Own
    <2>2. Memory(c)'
        BY <1>1, <1>8, <1>14, <2>1 DEF Memory, HasDefinition, HasUnits, HasExecutor
    <2>3. Tasks(c)'
      <3>1. /\ task2.definition = c
            /\ task2.state = "running" => task2.executor = call[c].executor
          BY <1>6, <1>7, <1>9, <1>16, <2>1 DEF Tasks, task
      <3>2. \A v \in Numbers : Busy(worker[c][v]) =>
                /\ worker'[c][v].units = BatchUnits(c, worker'[c][v].batch)
                /\ worker'[c][v].state # "loading" => worker'[c][v].definition = c
                /\ worker'[c][v].state = "running" => worker'[c][v].executor = call[c].executor
          BY <1>10, <1>11, <2>1, <3>1 DEF Tasks
      <3> QED
          BY <1>8, <1>11, <3>2 DEF Tasks
    <2>4. Answered(c)'
        BY <1>1, <1>8, <2>1 DEF Answered
    <2> QED
        BY <2>2, <2>3, <2>4
  <1>17. futures' = [futures EXCEPT ![c] = futures'[c]]
      BY <1>1 DEF IInv, TypeOK
  <1> QED
      BY <1>1, <1>4, <1>10, <1>12, <1>13, <1>15, <1>16, <1>17, QuietWorker, WorkerStep

\* A batch is done: it raised, or there is an answer for each of its units.
LEMMA FinishStep == ASSUME IInv, NEW c \in Callers, NEW w \in Numbers, Finish(c, w) PROVE IInv'
  <1> DEFINE task == worker[c][w]
             b == task.batch
             idle == [Absent EXCEPT !.state = "idle"]
             answers == Tagged(task.definition, Execute(task.executor, task.units))
             f == IF Raises(task.executor, task.units) THEN Failed
                  ELSE [state |-> "finished", answers |-> answers]
  <1>1. /\ task.state = "running"
        /\ worker' = [worker EXCEPT ![c][w] = idle]
        /\ futures' = [futures EXCEPT ![c][b] = f]
        /\ UNCHANGED caller /\ globals' = globals
      BY DEF Finish
  <1>2. /\ Live(c) /\ CallerInv(c) /\ call \in Workloads /\ futures[c] \in Seq(Futures)
        /\ task \in Workers /\ Home(c, w) \in Homes /\ worker[c] \in [Numbers -> Workers]
      BY <1>1, Pools, Known
  <1>3. Busy(task)
      BY <1>1 DEF Busy
  <1>4. /\ b \in DOMAIN futures[c] /\ futures[c][b].state = "running"
        /\ \A v \in Numbers : Busy(worker[c][v]) /\ worker[c][v].batch = b => v = w
        /\ IsPart(task.units) /\ Len(task.units) = Size(c, b) /\ task.definition \in Callers
      BY <1>1, <1>2, <1>3 DEF CallerInv, Held, Sized, Seeded
  <1>5. answers \in Seq(TaggedAnswers) /\ Len(answers) = Size(c, b)
    <2> HIDE DEF task
    <2> QED
        BY <1>4, AnswersOfParts DEF b
  <1>6. /\ f \in Futures /\ f.state \in {"finished", "failed"}
        /\ f.state = "finished" => /\ f.answers = answers
                                   /\ ~Raises(task.executor, task.units)
        /\ f.state = "failed" => Raises(task.executor, task.units)
    <2>1. [state |-> "finished", answers |-> answers] \in Futures
      <3> HIDE DEF answers
      <3> QED
          BY <1>5 DEF Futures
    <2> QED
        BY <2>1, Blanks DEF Failed
  <1>7. /\ \A v \in Numbers : Home(c, v)' = Home(c, v)
        /\ Slice(c)' = Slice(c) /\ call' = call
        /\ \A a : /\ Batch(c, a)' = Batch(c, a) /\ BatchUnits(c, a)' = BatchUnits(c, a)
                  /\ Size(c, a)' = Size(c, a)
      BY <1>1, QuietWorker
  <1> HIDE DEF f, answers, idle
  <1>8. futures'[c] = [futures[c] EXCEPT ![b] = f] /\ futures' = [futures EXCEPT ![c] = futures'[c]]
      BY <1>1, <1>4 DEF IInv, TypeOK
  <1>9. /\ futures'[c] \in Seq(Futures) /\ Len(futures'[c]) = Len(futures[c])
        /\ DOMAIN futures'[c] = DOMAIN futures[c]
        /\ futures'[c][b] = f /\ \A a \in DOMAIN futures[c] : a # b => futures'[c][a] = futures[c][a]
    <2> HIDE DEF b
    <2> QED
        BY <1>2, <1>4, <1>6, <1>8, Replaced
  <1>10. /\ worker'[c] \in [Numbers -> Workers]
         /\ worker' = [worker EXCEPT ![c] = worker'[c]]
         /\ worker'[c][w].state = "idle"
         /\ \A v \in Numbers : v # w => worker'[c][v] = worker[c][v]
    <2>1. idle \in Workers /\ idle.state = "idle"
        BY Blanks DEF idle, Absent
    <2> QED
        BY <1>1, <1>2, <2>1 DEF IInv, TypeOK
  <1>11. /\ ~Busy(worker'[c][w])
         /\ \A v \in Numbers : Busy(worker[c][v])' <=> Busy(worker'[c][v])
         /\ \A v \in Numbers : v # w => (Busy(worker'[c][v]) <=> Busy(worker[c][v]))
      BY <1>10 DEF Busy
  <1>12. Held(c)'
    <2>1. \A v \in Numbers : Busy(worker'[c][v]) =>
              /\ worker'[c][v].batch \in DOMAIN futures'[c]
              /\ futures'[c][worker'[c][v].batch].state = "running"
        BY <1>2, <1>4, <1>9, <1>10, <1>11 DEF CallerInv, Held
    <2>2. \A u, v \in Numbers : Busy(worker'[c][u]) /\ Busy(worker'[c][v])
              /\ worker'[c][u].batch = worker'[c][v].batch => u = v
        BY <1>2, <1>10, <1>11 DEF CallerInv, Held
    <2>3. ASSUME NEW a \in DOMAIN futures'[c], futures'[c][a].state = "running"
          PROVE  \E v \in Numbers : Busy(worker'[c][v]) /\ worker'[c][v].batch = a
      <3>1. a # b /\ a \in DOMAIN futures[c] /\ futures[c][a].state = "running"
          BY <1>6, <1>9, <2>3
      <3>2. PICK v \in Numbers : Busy(worker[c][v]) /\ worker[c][v].batch = a
          BY <1>2, <3>1 DEF CallerInv, Held
      <3>3. v # w
          BY <3>1, <3>2
      <3> QED
          BY <1>10, <1>11, <3>2, <3>3
    <2> QED
        BY <1>11, <2>1, <2>2, <2>3 DEF Held
  <1>13. Sized(c)'
    <2>1. \A v \in Numbers : Busy(worker'[c][v]) =>
              /\ IsPart(worker'[c][v].units)
              /\ Len(worker'[c][v].units) = Size(c, worker'[c][v].batch)
        BY <1>2, <1>10, <1>11 DEF CallerInv, Sized
    <2>2. \A a \in DOMAIN futures'[c] :
              futures'[c][a].state = "finished" => Len(futures'[c][a].answers) = Size(c, a)
        BY <1>2, <1>5, <1>6, <1>9 DEF CallerInv, Sized
    <2> QED
        BY <1>7, <1>11, <2>1, <2>2 DEF Sized, IsPart
  <1>14. \A v \in Numbers :
             /\ HasDefinition(worker'[c][v].state) => HasDefinition(worker[c][v].state)
             /\ HasUnits(worker'[c][v].state) => HasUnits(worker[c][v].state)
             /\ HasExecutor(worker'[c][v].state) => HasExecutor(worker[c][v].state)
    <2>1. /\ HasDefinition(worker[c][w].state) /\ HasUnits(worker[c][w].state)
          /\ HasExecutor(worker[c][w].state)
        BY <1>1 DEF HasDefinition, HasUnits, HasExecutor
    <2> QED
        BY <1>10, <2>1
  <1>15. Seeded(c)'
    <2>1. \A v \in Numbers : HasDefinition(worker'[c][v].state) =>
                globals[Home(c, v)].definition \in Callers
        BY <1>2, <1>14 DEF CallerInv, Seeded
    <2>2. \A v \in Numbers : worker'[c][v].state \in {"loading executor", "running"} =>
                worker'[c][v].definition \in Callers
        BY <1>2, <1>10 DEF CallerInv, Seeded
    <2> QED
        BY <1>1, <1>7, <2>1, <2>2 DEF Seeded, HasDefinition
  <1>16. ASSUME Isolated(c) PROVE Memory(c)' /\ Tasks(c)' /\ Answered(c)'
    <2>1. Memory(c) /\ Tasks(c) /\ Answered(c)
        BY <1>2, <1>16 DEF CallerInv, Own
    <2>2. Memory(c)'
        BY <1>1, <1>7, <1>14, <2>1 DEF Memory, HasDefinition, HasUnits, HasExecutor
    <2>3. Tasks(c)'
      <3>1. \A v \in Numbers : Busy(worker'[c][v]) =>
                /\ worker'[c][v].units = BatchUnits(c, worker'[c][v].batch)
                /\ worker'[c][v].state # "loading" => worker'[c][v].definition = c
                /\ worker'[c][v].state = "running" => worker'[c][v].executor = call[c].executor
          BY <1>10, <1>11, <2>1 DEF Tasks
      <3> QED
          BY <1>7, <1>11, <3>1 DEF Tasks
    <2>4. Answered(c)'
      <3>1. /\ task.units = BatchUnits(c, b) /\ task.definition = c
            /\ task.executor = call[c].executor
          BY <1>1, <1>3, <2>1 DEF Tasks
      <3>2. \A a \in DOMAIN futures'[c] :
                /\ futures'[c][a].state = "finished" =>
                      /\ ~Raises(call[c].executor, BatchUnits(c, a))
                      /\ futures'[c][a].answers = Tagged(c, Execute(call[c].executor, BatchUnits(c, a)))
                /\ futures'[c][a].state = "failed" =>
                      Raises(call[c].executor, BatchUnits(c, a)) \/ call[c].crashes
        <4> TAKE a \in DOMAIN futures'[c]
        <4>1. CASE a = b
          <5> HIDE DEF task, b
          <5> QED
              BY <1>6, <1>9, <3>1, <4>1 DEF answers
        <4>2. CASE a # b
            BY <1>9, <2>1, <4>2 DEF Answered
        <4> QED
            BY <4>1, <4>2
      <3> QED
          BY <1>7, <3>2 DEF Answered
    <2> QED
        BY <2>2, <2>3, <2>4
  <1> QED
      BY <1>1, <1>2, <1>8, <1>9, <1>10, <1>12, <1>13, <1>15, <1>16, QuietWorker, WorkerStep

\* A dying process takes the pool with it: what was not done fails.
LEMMA CrashStep == ASSUME IInv, NEW c \in Callers, NEW w \in Numbers, Crash(c, w) PROVE IInv'
  <1>1. /\ call[c].crashes /\ worker[c][w].state # "absent"
        /\ worker' = [worker EXCEPT ![c] = [v \in Numbers |-> Absent]]
        /\ futures' = [futures EXCEPT ![c] = [b \in DOMAIN @ |-> Break(@[b])]]
        /\ UNCHANGED caller /\ globals' = globals
      BY DEF Crash
  <1>2. Live(c) /\ CallerInv(c) /\ futures[c] \in Seq(Futures)
      BY <1>1, Pools
  <1>3. /\ futures'[c] = [b \in DOMAIN futures[c] |-> Break(futures[c][b])]
        /\ futures' = [futures EXCEPT ![c] = futures'[c]]
      BY <1>1 DEF IInv, TypeOK
  <1>4. \A b \in DOMAIN futures[c] :
            /\ Break(futures[c][b]) \in Futures
            /\ Break(futures[c][b]).state \in {"finished", "failed"}
            /\ Break(futures[c][b]).state = "finished" => Break(futures[c][b]) = futures[c][b]
      BY <1>2, Blanks DEF Break, Settled, Failed
  <1>5. /\ futures'[c] \in Seq(Futures) /\ Len(futures'[c]) = Len(futures[c])
        /\ DOMAIN futures'[c] = DOMAIN futures[c]
    <2>1. DOMAIN futures[c] = 1 .. Len(futures[c]) /\ Len(futures[c]) \in Nat
        BY <1>2
    <2>2. futures'[c] \in [1 .. Len(futures[c]) -> Futures]
        BY <1>3, <1>4, <2>1
    <2> QED
        BY <2>1, <2>2
  <1>6. /\ worker'[c] \in [Numbers -> Workers] /\ worker' = [worker EXCEPT ![c] = worker'[c]]
        /\ \A v \in Numbers : worker'[c][v].state = "absent"
      BY <1>1, Blanks DEF IInv, TypeOK, Absent
  <1>7. /\ call' = call
        /\ \A a : BatchUnits(c, a)' = BatchUnits(c, a) /\ Size(c, a)' = Size(c, a)
      BY <1>1, QuietWorker
  <1>8. \A v \in Numbers : ~Busy(worker[c][v])'
      BY <1>6 DEF Busy
  <1>9. \A v \in Numbers : /\ ~HasDefinition(worker[c][v].state)'
                           /\ ~HasUnits(worker[c][v].state)'
                           /\ ~HasExecutor(worker[c][v].state)'
      BY <1>6 DEF HasDefinition, HasUnits, HasExecutor
  <1>10. Held(c)'
      BY <1>3, <1>4, <1>5, <1>8 DEF Held
  <1>11. Sized(c)'
    <2>1. \A b \in DOMAIN futures'[c] :
              futures'[c][b].state = "finished" => Len(futures'[c][b].answers) = Size(c, b)
        BY <1>2, <1>3, <1>4, <1>5 DEF CallerInv, Sized
    <2> QED
        BY <1>7, <1>8, <2>1 DEF Sized
  <1>12. Seeded(c)'
      BY <1>6, <1>9 DEF Seeded
  <1>13. ASSUME Isolated(c) PROVE Memory(c)' /\ Tasks(c)' /\ Answered(c)'
    <2>1. Memory(c)'
        BY <1>9 DEF Memory
    <2>2. Tasks(c)'
        BY <1>8 DEF Tasks
    <2>3. Answered(c)'
        BY <1>1, <1>2, <1>3, <1>4, <1>5, <1>7, <1>13 DEF CallerInv, Own, Answered
    <2> QED
        BY <2>1, <2>2, <2>3
  <1> QED
      BY <1>1, <1>2, <1>3, <1>5, <1>6, <1>10, <1>11, <1>12, <1>13, QuietWorker, WorkerStep

----------------------------------------------------------------------------
(* Theorems.                                                               *)

\* Whatever any caller or worker does next.
LEMMA EveryStep == ASSUME IInv, [Next]_vars PROVE IInv'
  <1>1. CASE UNCHANGED vars
    <2> USE <1>1 DEF vars
    <2>1. TypeOK' /\ NumbersInv' /\ GlobalsInv'
        BY DEF IInv, TypeOK, NumbersInv, GlobalsInv
    <2>2. ASSUME NEW c \in Callers PROVE CallerInv(c)'
        BY Bystander DEF IInv, Untouched
    <2> QED
        BY <2>1, <2>2 DEF IInv
  <1>2. ASSUME NEW c \in Callers, Call(c) PROVE IInv'
      BY <1>2, ExecuteSequentiallyStep, SubmitStep, CollectStep, CollectFailureStep,
         CollectedAllStep, LeaveStep, ReturnStep DEF Call
  <1>3. ASSUME NEW c \in Callers, NEW w \in Numbers, Work(c, w) \/ Crash(c, w) PROVE IInv'
      BY <1>3, SeedStep, TakeStep, LoadStep, FinishStep, CrashStep DEF Work
  <1> QED
      BY <1>1, <1>2, <1>3 DEF Next

\* The inductive invariant of parallel_execute and execute_reference.
THEOREM Inductive == Spec => []IInv
  <1>1. Init => IInv
      BY StartsIdle
  <1>2. IInv /\ [Next]_vars => IInv'
      BY EveryStep
  <1> QED
      BY <1>1, <1>2, PTL DEF Spec

\* Every variable keeps its type; a seeded global is a caller's units or nothing.
THEOREM TypeCorrect == Spec => []TypeOK
  <1>1. IInv => TypeOK
      BY DEF IInv
  <1> QED
      BY <1>1, Inductive, PTL

\* Even where callers execute each other's units, a call that returns has as
\* many results as its plan has units, and the results collected so far are as
\* many as the batches they came from.
THEOREM ResultsAreCounted == Spec => []OneResultPerUnit
  <1>1. IInv => OneResultPerUnit
    <2> SUFFICES ASSUME IInv, NEW c \in Callers
                 PROVE  /\ collected[c] > 0 =>
                              Len(results[c]) = offset[c] + Batch(c, collected[c]).last
                        /\ pc[c] = "returned" => Len(results[c]) = Len(call[c].plan)
        BY DEF OneResultPerUnit
    <2>1. /\ Control(c) /\ Counted(c) /\ collected[c] \in Nat /\ offset[c] \in Nat
        BY Known DEF CallerInv, IInv, NumbersInv
    <2>2. collected[c] > 0 => collected[c] # 0 /\ pc[c] # "raised"
        BY <2>1 DEF Control, Live
    <2>3. pc[c] = "returned" => collected[c] = 0 /\ pc[c] # "raised" /\ offset[c] = Len(call[c].plan)
        BY <2>1 DEF Control, Live
    <2> QED
        BY <2>1, <2>2, <2>3 DEF Counted, Done
  <1> QED
      BY <1>1, Inductive, PTL

\* A pool that has a batch left has a worker.
PoolAlive(c) ==
    Live(c) => \/ \E w \in Numbers : worker[c][w].state # "absent"
               \/ \A b \in DOMAIN futures[c] : Settled(futures[c][b])

\* A caller's own step opens the pool with a worker, leaves it as it is, or
\* closes it.
LEMMA CallKeepsPool ==
    ASSUME IInv, NEW c \in Callers, PoolAlive(c), Call(c)
    PROVE  PoolAlive(c)'
  <1>1. pc \in [Callers -> {"slice", "collect", "leave", "returned", "raised"}]
      BY DEF IInv, TypeOK
  <1>2. CASE Submit(c)
    <2>1. PICK started \in 1 .. call[c].workers :
              worker' = [worker EXCEPT ![c] =
                  [w \in Numbers |-> IF w <= started THEN [Absent EXCEPT !.state = "new"] ELSE Absent]]
        BY <1>2 DEF Submit
    <2>2. started \in Nat /\ 1 <= started
      <3>1. call[c].workers \in Nat
          BY Known, MaxWorkersAssumption DEF CallType
      <3> QED
          BY <3>1
    <2>3. 1 \in Numbers
        BY MaxWorkersAssumption DEF Numbers
    <2>4. worker'[c][1] = [Absent EXCEPT !.state = "new"]
        BY <2>1, <2>2, <2>3 DEF IInv, TypeOK
    <2>5. worker'[c][1].state # "absent"
        BY <2>4 DEF Absent
    <2> QED
        BY <2>3, <2>5 DEF PoolAlive
  <1>3. CASE Collect(c) \/ CollectFailure(c) \/ CollectedAll(c)
    <2>1. Live(c) /\ futures' = futures /\ worker' = worker
        BY <1>3 DEF Collect, CollectFailure, CollectedAll, Waiting, Live
    <2> QED
        BY <2>1 DEF PoolAlive, Settled
  <1>4. CASE ExecuteSequentially(c) \/ Leave(c) \/ Return(c)
    <2>1. pc'[c] \in {"slice", "raised", "returned"}
        BY <1>1, <1>4 DEF ExecuteSequentially, NextSlice, Leave, Return
    <2> QED
        BY <2>1 DEF PoolAlive, Live
  <1> QED
      BY <1>2, <1>3, <1>4 DEF Call

\* A worker that works stays; one that dies fails what is left.
LEMMA WorkKeepsPool ==
    ASSUME IInv, NEW c \in Callers, NEW w \in Numbers, Work(c, w) \/ Crash(c, w)
    PROVE  PoolAlive(c)'
  <1>0. worker[c][w] \in Workers
      BY Known
  <1>1. worker \in [Callers -> [Numbers -> Workers]] /\ futures \in [Callers -> Seq(Futures)]
      BY DEF IInv, TypeOK
  <1>2. CASE SeedDefinition(c, w) \/ SeedUnits(c, w) \/ SeedExecutor(c, w)
    <2>1. PICK to \in {"seeding units", "seeding executor", "idle"} :
              worker' = [worker EXCEPT ![c][w].state = to]
        BY <1>2 DEF SeedDefinition, SeedUnits, SeedExecutor, Seed
    <2>2. worker'[c][w] = [worker[c][w] EXCEPT !.state = to]
        BY <1>1, <2>1
    <2>3. worker'[c][w].state = to
        BY <1>0, <2>2 DEF Workers
    <2> QED
        BY <2>3 DEF PoolAlive
  <1>3. CASE Take(c, w)
    <2>1. worker[c][w].state = "idle"
        BY <1>3 DEF Take
    <2>2. CASE UNCHANGED worker
        BY <2>1, <2>2 DEF PoolAlive
    <2>3. ASSUME NEW b, NEW units,
                 worker' = [worker EXCEPT ![c][w] =
                     [Absent EXCEPT !.state = "loading", !.batch = b, !.units = units]]
          PROVE  worker'[c][w].state = "loading"
      <3>1. worker'[c][w] = [Absent EXCEPT !.state = "loading", !.batch = b, !.units = units]
          BY <1>1, <2>3
      <3> QED
          BY <3>1 DEF Absent
    <2>4. CASE ~UNCHANGED worker
        BY <1>3, <2>3, <2>4 DEF PoolAlive, Take
    <2> QED
        BY <2>2, <2>4
  <1>4. CASE LoadDefinition(c, w) \/ LoadExecutor(c, w)
    <2>1. CASE LoadDefinition(c, w)
      <3>1. worker'[c][w] = [worker[c][w] EXCEPT
                !.state = "loading executor", !.definition = globals[Home(c, w)].definition]
          BY <1>1, <2>1 DEF LoadDefinition
      <3> QED
          BY <1>0, <3>1 DEF PoolAlive, Workers
    <2>2. CASE LoadExecutor(c, w)
      <3>1. worker'[c][w] = [worker[c][w] EXCEPT
                !.state = "running", !.executor = globals[Home(c, w)].executor]
          BY <1>1, <2>2 DEF LoadExecutor
      <3> QED
          BY <1>0, <3>1 DEF PoolAlive, Workers
    <2> QED
        BY <1>4, <2>1, <2>2
  <1>5. CASE Finish(c, w)
    <2>1. worker'[c][w].state = "idle"
        BY <1>1, <1>5 DEF Finish, Absent
    <2> QED
        BY <2>1 DEF PoolAlive
  <1>6. CASE Crash(c, w)
    <2>1. futures'[c] = [b \in DOMAIN futures[c] |-> Break(futures[c][b])]
        BY <1>1, <1>6 DEF Crash
    <2>2. \A b \in DOMAIN futures'[c] : Settled(futures'[c][b])
        BY <2>1 DEF Break, Settled, Failed
    <2> QED
        BY <2>2 DEF PoolAlive, Settled
  <1> QED
      BY <1>2, <1>3, <1>4, <1>5, <1>6 DEF Work

\* A step of one caller or its pool leaves the pools of the others alone.
LEMMA OthersKeepPool ==
    ASSUME IInv, NEW c \in Callers, NEW d \in Callers \ {c}, PoolAlive(d),
           Call(c) \/ \E w \in Numbers : Work(c, w) \/ Crash(c, w)
    PROVE  PoolAlive(d)'
  <1>1. /\ pc \in [Callers -> {"slice", "collect", "leave", "returned", "raised"}]
        /\ worker \in [Callers -> [Numbers -> Workers]] /\ futures \in [Callers -> Seq(Futures)]
      BY DEF IInv, TypeOK
  <1>2. ASSUME Call(c) PROVE pc'[d] = pc[d] /\ futures'[d] = futures[d] /\ worker'[d] = worker[d]
      BY <1>1, <1>2 DEF Call, ExecuteSequentially, Submit, Collect, CollectFailure, CollectedAll,
         Leave, Return
  <1>3. ASSUME NEW w \in Numbers, Work(c, w) \/ Crash(c, w)
        PROVE  pc'[d] = pc[d] /\ futures'[d] = futures[d] /\ worker'[d] = worker[d]
    <2>1. pc' = pc
        BY <1>3 DEF Work, SeedDefinition, SeedUnits, SeedExecutor, Seed, Take, LoadDefinition,
           LoadExecutor, Finish, Crash, caller
    <2>2. futures'[d] = futures[d]
        BY <1>1, <1>3 DEF Work, SeedDefinition, SeedUnits, SeedExecutor, Seed, Take,
           LoadDefinition, LoadExecutor, Finish, Crash
    <2>3. worker'[d] = worker[d]
        BY <1>1, <1>3 DEF Work, SeedDefinition, SeedUnits, SeedExecutor, Seed, Take,
           LoadDefinition, LoadExecutor, Finish, Crash
    <2> QED
        BY <2>1, <2>2, <2>3
  <1>4. pc'[d] = pc[d] /\ futures'[d] = futures[d] /\ worker'[d] = worker[d]
      BY <1>2, <1>3
  <1> QED
      BY <1>4 DEF PoolAlive, Live, Settled

\* Where a batch is not settled, the pool has a worker that is idle and may take
\* it, or one that is not idle.
LEMMA LeftToDo ==
    ASSUME IInv, NEW c \in Callers, Live(c), PoolAlive(c),
           NEW b \in DOMAIN futures[c], ~Settled(futures[c][b])
    PROVE  \E w \in Numbers : CanWork(c, w)
  <1>1. futures[c][b].state \in {"pending", "running"}
    <2>1. futures[c] \in Seq(Futures)
        BY Known
    <2>2. futures[c][b] \in Futures
        BY <2>1
    <2> QED
        BY <2>2 DEF Futures, Settled
  <1>2. CASE futures[c][b].state = "running"
    <2>1. PICK w \in Numbers : Busy(worker[c][w])
        BY <1>2, Known DEF CallerInv, Held
    <2> QED
        BY <2>1 DEF CanWork, Busy
  <1>3. CASE futures[c][b].state = "pending"
    <2>1. PICK w \in Numbers : worker[c][w].state # "absent"
        BY DEF PoolAlive
    <2> QED
        BY <1>3, <2>1 DEF CanWork
  <1> QED
      BY <1>1, <1>2, <1>3

\* Whoever of a pool dies, and whenever, its caller never waits for a batch, or
\* for the end of the pool, that no worker is left to bring about.
THEOREM NobodyWaitsForNobody == Spec => []NobodyHangs
  <1> DEFINE Alive == \A c \in Callers : PoolAlive(c)
  <1>1. Init => Alive
      BY DEF Init, PoolAlive, Live
  <1>2. IInv /\ Alive /\ [Next]_vars => Alive'
    <2> SUFFICES ASSUME IInv, Alive, [Next]_vars, NEW d \in Callers PROVE PoolAlive(d)'
        OBVIOUS
    <2>1. CASE UNCHANGED vars
        BY <2>1 DEF vars, PoolAlive, Live, Settled
    <2>2. CASE Next
      <3>1. PICK c \in Callers : Call(c) \/ \E w \in Numbers : Work(c, w) \/ Crash(c, w)
          BY <2>2 DEF Next
      <3>2. CASE c = d
          BY <3>1, <3>2, CallKeepsPool, WorkKeepsPool
      <3>3. CASE c # d
          BY <3>1, <3>3, OthersKeepPool
      <3> QED
          BY <3>2, <3>3
    <2> QED
        BY <2>1, <2>2
  <1>3. IInv /\ Alive => NobodyHangs
    <2> SUFFICES ASSUME IInv, Alive, NEW c \in Callers,
                        (Waiting(c) /\ ~Settled(Awaited(c))) \/ (pc[c] = "leave" /\ ~Drained(c))
                 PROVE  \E w \in Numbers : CanWork(c, w)
        BY DEF NobodyHangs
    <2>1. Live(c)
        BY DEF Waiting, Live
    <2>2. CASE Waiting(c) /\ ~Settled(Awaited(c))
      <3>1. collected[c] + 1 \in DOMAIN futures[c]
          BY <2>2, Known DEF Waiting
      <3> QED
          BY <2>1, <2>2, <3>1, LeftToDo DEF Awaited
    <2>3. CASE pc[c] = "leave" /\ ~Drained(c)
      <3>1. CASE \E b \in DOMAIN futures[c] : ~Settled(futures[c][b])
          BY <2>1, <3>1, LeftToDo
      <3>2. CASE \E w \in Numbers : worker[c][w].state \notin {"absent", "idle"}
          BY <3>2 DEF CanWork
      <3> QED
          BY <2>3, <3>1, <3>2 DEF Drained
    <2> QED
        BY <2>2, <2>3
  <1> HIDE DEF Alive
  <1> QED
      BY <1>1, <1>2, <1>3, Inductive, PTL DEF Spec

\* What sequential_execute would give for the whole plan.
LEMMA WholePlan ==
    ASSUME call \in Workloads, NEW c \in Callers
    PROVE  /\ SequentialResults(c) \in Seq(TaggedAnswers)
           /\ Len(SequentialResults(c)) = Len(call[c].plan)
           /\ SequentialRaises(c) \in BOOLEAN
           /\ Composable(c) =>
                 /\ SequentialRaises(c) <=> SomeRaisesAlone(c)
                 /\ \A k \in DOMAIN call[c].plan : SequentialResults(c)[k] = Alone(c, k)
  <1> DEFINE plan == call[c].plan
             n == Len(plan)
             executor == call[c].executor
  <1>1. plan \in Seq(Units) /\ n \in Nat /\ n > 0 /\ DOMAIN plan = 1 .. n /\ call[c] \in CallType
      BY Calls
  <1>2. 1 \in DOMAIN plan /\ n \in DOMAIN plan /\ 1 <= n
      BY <1>1
  <1>3. plan = SubSeq(plan, 1, n)
    <2> HIDE DEF plan
    <2>1. /\ SubSeq(plan, 1, n) \in Seq(Units) /\ Len(SubSeq(plan, 1, n)) = n - 1 + 1
          /\ \A k \in 1 .. n - 1 + 1 : SubSeq(plan, 1, n)[k] = plan[1 + k - 1]
        BY <1>1, <1>2, Parts
    <2>2. \A k \in 1 .. n : SubSeq(plan, 1, n)[k] = plan[k]
        BY <1>1, <2>1
    <2>3. Len(SubSeq(plan, 1, n)) = n
        BY <1>1, <2>1
    <2> QED
        BY <1>1, <2>1, <2>2, <2>3, SeqEqual
  <1>4. IsPart(plan)
      BY <1>2, <1>3 DEF IsPart
  <1>5. SequentialResults(c) \in Seq(TaggedAnswers) /\ Len(SequentialResults(c)) = n
    <2> HIDE DEF plan, executor
    <2>1. /\ Tagged(c, Execute(executor, plan)) \in Seq(TaggedAnswers)
          /\ Len(Tagged(c, Execute(executor, plan))) = n
        BY <1>4, AnswersOfParts
    <2> QED
        BY <2>1 DEF SequentialResults, plan, executor
  <1>6. SequentialRaises(c) \in BOOLEAN
    <2>1. WholeRaises(plan) \in BOOLEAN
        BY <1>2, <1>3, WholeAssumption
    <2> QED
        BY <2>1 DEF SequentialRaises, Raises
  <1>7. ASSUME Composable(c)
        PROVE  /\ SequentialRaises(c) <=> SomeRaisesAlone(c)
               /\ \A k \in DOMAIN plan : SequentialResults(c)[k] = Alone(c, k)
    <2>1. /\ Raises(executor, plan) <=> \E k \in 1 .. n - 1 + 1 : RaisesAlone(c, 1 + k - 1)
          /\ \A k \in 1 .. n - 1 + 1 :
                Tagged(c, Execute(executor, plan))[k] = Alone(c, 1 + k - 1)
        BY <1>2, <1>3, <1>7, Cut
    <2>2. n - 1 + 1 = n /\ \A k \in 1 .. n : 1 + k - 1 = k
        BY <1>1
    <2> QED
        BY <1>1, <2>1, <2>2 DEF SequentialRaises, SequentialResults, SomeRaisesAlone
  <1> QED
      BY <1>5, <1>6, <1>7

\* A caller in whose memory nobody else writes gets, whatever the batches and
\* whichever worker ran them, the answers of sequential_execute in its order.
THEOREM ResultsAreInOrder == Spec => []InPlanOrder
  <1>1. IInv => InPlanOrder
    <2> SUFFICES ASSUME IInv, NEW c \in Callers, Isolated(c), Composable(c)
                 PROVE  /\ results[c] = SubSeq(SequentialResults(c), 1, Len(results[c]))
                        /\ pc[c] = "returned" => Len(results[c]) = Len(call[c].plan)
        BY DEF InPlanOrder
    <2> DEFINE all == SequentialResults(c)
               n == Len(call[c].plan)
               m == Len(results[c])
    <2>1. /\ call \in Workloads /\ CallerInv(c) /\ results[c] \in Seq(TaggedAnswers)
          /\ m \in Nat /\ n \in Nat /\ offset[c] \in Nat
        BY Known
    <2>2. m <= n /\ AnswersAlone(c, results[c])
        BY <2>1 DEF CallerInv, Counted, Own, Gathered
    <2>3. /\ all \in Seq(TaggedAnswers) /\ Len(all) = n
          /\ \A k \in 1 .. n : all[k] = Alone(c, k)
        BY <2>1, WholePlan, Calls
    <2>4. pc[c] = "returned" => m = n
      <3>1. pc[c] = "returned" => collected[c] = 0 /\ offset[c] = n
          BY <2>1 DEF CallerInv, Control, Live
      <3> QED
          BY <2>1, <3>1 DEF CallerInv, Counted, Done
    <2> HIDE DEF all, n
    <2>5. /\ SubSeq(all, 1, m) \in Seq(TaggedAnswers)
          /\ Len(SubSeq(all, 1, m)) = m
          /\ \A k \in 1 .. m : SubSeq(all, 1, m)[k] = all[k]
      <3> HIDE DEF m
      <3>1. /\ SubSeq(all, 1, m) \in Seq(TaggedAnswers)
            /\ Len(SubSeq(all, 1, m)) = IF 1 <= m THEN m - 1 + 1 ELSE 0
            /\ \A k \in 1 .. m - 1 + 1 : SubSeq(all, 1, m)[k] = all[1 + k - 1]
          BY <2>1, <2>2, <2>3, Parts
      <3> QED
          BY <2>1, <3>1
    <2>6. \A k \in 1 .. m : results[c][k] = SubSeq(all, 1, m)[k]
        BY <2>1, <2>2, <2>3, <2>5 DEF AnswersAlone
    <2>7. results[c] = SubSeq(all, 1, m)
        BY <2>1, <2>5, <2>6, SeqEqual
    <2> QED
        BY <2>4, <2>7 DEF all, n
  <1> QED
      BY <1>1, Inductive, PTL

\* Nobody changes what was asked for.
LEMMA CallsStay == ASSUME [Next]_vars PROVE call' = call
  <1>1. CASE UNCHANGED vars
      BY <1>1 DEF vars
  <1>2. ASSUME NEW c \in Callers, Call(c) PROVE call' = call
      BY <1>2 DEF Call, ExecuteSequentially, Submit, Collect, CollectFailure, CollectedAll, Leave, Return
  <1>3. ASSUME NEW c \in Callers, NEW w \in Numbers, Work(c, w) \/ Crash(c, w) PROVE call' = call
      BY <1>3 DEF Work, Crash, SeedDefinition, SeedUnits, SeedExecutor, Seed, Take,
                  LoadDefinition, LoadExecutor, Finish, caller
  <1> QED
      BY <1>1, <1>2, <1>3 DEF Next

\* Progress stays, or catches up with the results.
LEMMA ProgressSteps ==
    ASSUME IInv, [Next]_vars, NEW c \in Callers
    PROVE  progress'[c] = progress[c] \/ (progress'[c] = Len(results'[c]) /\ Len(results[c]) <= Len(results'[c]))
  <1> DEFINE Goal == progress'[c] = progress[c]
                       \/ (progress'[c] = Len(results'[c]) /\ Len(results[c]) <= Len(results'[c]))
  <1>1. progress \in [Callers -> Nat] /\ results \in [Callers -> Seq(TaggedAnswers)]
      BY DEF IInv, TypeOK, NumbersInv
  <1>2. IInv'
      BY EveryStep
  <1>3. CASE UNCHANGED vars
      BY <1>3 DEF vars
  <1>4. ASSUME NEW d \in Callers, NEW w \in Numbers, Work(d, w) \/ Crash(d, w) PROVE Goal
    <2>1. progress' = progress
        BY <1>4 DEF Work, Crash, SeedDefinition, SeedUnits, SeedExecutor, Seed, Take,
                    LoadDefinition, LoadExecutor, Finish, caller
    <2> QED
        BY <2>1
  <1>5. ASSUME NEW d \in Callers, d # c, Call(d) PROVE Goal
    <2>1. progress'[c] = progress[c]
        BY <1>1, <1>5 DEF Call, ExecuteSequentially, Submit, Collect, CollectFailure,
                          CollectedAll, Leave, Return
    <2> QED
        BY <2>1
  <1>6. CASE Submit(c) \/ CollectFailure(c) \/ CollectedAll(c) \/ Return(c)
      BY <1>6 DEF Submit, CollectFailure, CollectedAll, Return
  <1>7. CASE Collect(c)
    <2>1. progress'[c] = progress[c] \/ progress'[c] = Len(results'[c])
        BY <1>1, <1>7 DEF Collect
    <2>2. Awaited(c).answers \in Seq(TaggedAnswers) /\ results'[c] = results[c] \o Awaited(c).answers
      <3>1. futures[c] \in Seq(Futures) /\ collected[c] \in 0 .. Len(futures[c])
          BY Known
      <3>2. collected[c] + 1 \in DOMAIN futures[c]
          BY <1>7, <3>1 DEF Collect, Waiting
      <3>3. Awaited(c) \in Futures
          BY <3>1, <3>2 DEF Awaited
      <3> QED
          BY <1>1, <1>7, <3>3 DEF Collect, Futures
    <2>3. Len(results[c]) <= Len(results'[c])
      <3> DEFINE s == Awaited(c).answers
      <3>1. Len(results[c] \o s) = Len(results[c]) + Len(s) /\ Len(s) \in Nat /\ Len(results[c]) \in Nat
          BY <1>1, <2>2, ConcatProperties
      <3>2. Len(results'[c]) = Len(results[c]) + Len(s)
          BY <2>2, <3>1
      <3> DEFINE m == Len(results[c])
                 n == Len(results'[c])
                 k == Len(s)
      <3>3. n = m + k /\ m \in Nat /\ k \in Nat
          BY <3>1, <3>2
      <3> HIDE DEF k, m, n
      <3>4. m <= n
          BY <3>3
      <3> QED
          BY <3>4 DEF m, n
    <2> QED
        BY <2>1, <2>3
  <1>8. CASE Leave(c) \/ ExecuteSequentially(c)
    <2>1. \/ progress'[c] = progress[c]
          \/ /\ progress'[c] = offset'[c] /\ pc'[c] = "slice"
    <3>1. CASE Leave(c)
        BY <1>1, <3>1 DEF Leave, IInv, TypeOK
    <3>2. CASE ExecuteSequentially(c)
        BY <1>1, <3>2 DEF ExecuteSequentially, NextSlice, IInv, TypeOK, NumbersInv
    <3> QED
        BY <1>8, <3>1, <3>2
    <2>2. CASE progress'[c] = offset'[c] /\ pc'[c] = "slice"
      <3>1. /\ Control(c)' /\ Counted(c)' /\ offset'[c] \in Nat
          BY <1>2 DEF IInv, CallerInv, NumbersInv
      <3>2. Len(results'[c]) = offset'[c]
          BY <2>2, <3>1 DEF Control, Live, Counted, Done
      <3>3. Len(results[c]) <= Len(results'[c])
        <4>1. CASE Leave(c)
            BY <1>1, <4>1 DEF Leave
        <4>2. CASE ExecuteSequentially(c)
          <5>1. pc[c] = "slice" /\ CallerInv(c) /\ offset[c] \in Nat
              BY <4>2, Known DEF ExecuteSequentially, NextSlice
          <5>2. Len(results[c]) = offset[c]
              BY <5>1 DEF CallerInv, Control, Live, Counted, Done
          <5>3. offset[c] <= offset'[c]
            <6>1. Len(Slice(c)) \in Nat
                BY <4>2, <5>1, Slices, Known DEF ExecuteSequentially, NextSlice
            <6>2. offset'[c] = offset[c] \/ offset'[c] = offset[c] + Len(Slice(c))
                BY <4>2 DEF ExecuteSequentially, IInv, NumbersInv
            <6> QED
                BY <5>1, <6>1, <6>2
          <5> QED
              BY <3>2, <5>2, <5>3
        <4> QED
            BY <1>8, <4>1, <4>2
      <3> QED
          BY <2>2, <3>2, <3>3
    <2> QED
        BY <2>1, <2>2
  <1> QED
      BY <1>3, <1>4, <1>5, <1>6, <1>7, <1>8 DEF Next, Call

\* The progress a caller reports never shrinks, never counts a unit that has no
\* result, and is the whole plan when the call returns.
THEOREM ProgressIsReported == Spec => ProgressIsHonest
  <1>1. ASSUME IInv, [Next]_vars
        PROVE  \A c \in Callers :
                  /\ progress[c] <= progress'[c]
                  /\ progress'[c] <= Len(results'[c])
                  /\ pc'[c] = "returned" => progress'[c] = Len(call[c].plan)
    <2> SUFFICES ASSUME NEW c \in Callers
                 PROVE  /\ progress[c] <= progress'[c]
                        /\ progress'[c] <= Len(results'[c])
                        /\ pc'[c] = "returned" => progress'[c] = Len(call[c].plan)
        OBVIOUS
    <2>1. IInv'
        BY <1>1, EveryStep
    <2>2. Counted(c)' /\ Control(c)'
        BY <2>1 DEF IInv, CallerInv
    <2>3. Counted(c) /\ progress[c] \in Nat /\ Len(results[c]) \in Nat
        BY <1>1, Known DEF CallerInv
    <2>4. progress'[c] \in Nat /\ Len(results'[c]) \in Nat
        BY <2>1 DEF IInv, TypeOK, NumbersInv
    <2>5. call' = call
        BY <1>1, CallsStay
    <2>6. progress[c] <= progress'[c]
        BY <1>1, <2>3, <2>4, ProgressSteps DEF Counted
    <2> QED
        BY <2>2, <2>5, <2>6 DEF Counted, Control
  <1>2. IInv /\ [Next]_vars => [\A c \in Callers :
                  /\ progress[c] <= progress'[c]
                  /\ progress'[c] <= Len(results'[c])
                  /\ pc'[c] = "returned" => progress'[c] = Len(call[c].plan)]_vars
      BY <1>1
  <1> QED
      BY <1>2, Inductive, PTL DEF Spec, ProgressIsHonest

----------------------------------------------------------------------------
(* What each part of a plan adds.                                          *)

\* What a step may do to a caller that nobody interferes with.
AddsUp(c) ==
    LET executor == call[c].executor
    IN  /\ collected'[c] > collected[c] \/ results'[c] # results[c] =>
              /\ ~Raises(executor, NextUnits(c))
              /\ results'[c] = results[c] \o Tagged(c, Execute(executor, NextUnits(c)))
        /\ error[c] = "none" /\ error'[c] = "failure" =>
              Raises(executor, NextUnits(c)) \/ call[c].crashes

\* A step that collects nothing and throws nothing.
LEMMA NothingAdded ==
    ASSUME NEW c \in Callers, IInv, results'[c] = results[c], error'[c] = error[c],
           collected'[c] = collected[c] \/ collected'[c] = 0
    PROVE  AddsUp(c)
  <1>1. collected[c] \in Nat
      BY DEF IInv, NumbersInv
  <1>2. ~(collected'[c] > collected[c])
      BY <1>1
  <1> QED
      BY <1>2 DEF AddsUp

\* What a batch has answered is what its units give, and it is the next one.
LEMMA NextAnswers ==
    ASSUME NEW c \in Callers, IInv, Isolated(c), Waiting(c)
    PROVE  /\ Awaited(c).state = "finished" =>
                 /\ ~Raises(call[c].executor, NextUnits(c))
                 /\ Awaited(c).answers = Tagged(c, Execute(call[c].executor, NextUnits(c)))
           /\ Awaited(c).state = "failed" =>
                 Raises(call[c].executor, NextUnits(c)) \/ call[c].crashes
  <1>1. CallerInv(c) /\ futures[c] \in Seq(Futures) /\ collected[c] \in 0 .. Len(futures[c])
      BY Known
  <1>2. collected[c] + 1 \in DOMAIN futures[c]
      BY <1>1 DEF Waiting
  <1>3. NextUnits(c) = BatchUnits(c, collected[c] + 1)
    <2>1. call[c].workers > 1
        BY <1>1 DEF Waiting, CallerInv, Control, Live
    <2> QED
        BY <2>1 DEF NextUnits
  <1>4. Answered(c)
      BY <1>1 DEF CallerInv, Own
  <1> QED
      BY <1>2, <1>3, <1>4 DEF Answered, Awaited

\* A caller's own step.
LEMMA CallAddsUp ==
    ASSUME NEW c \in Callers, IInv, Isolated(c), Call(c)
    PROVE  AddsUp(c)
  <1>1. /\ collected \in [Callers -> Nat] /\ results \in [Callers -> Seq(TaggedAnswers)]
        /\ error \in [Callers -> {"none", "failure", "timeout"}]
      BY DEF IInv, TypeOK, NumbersInv
  <1>2. CASE ExecuteSequentially(c)
    <2>1. NextUnits(c) = Slice(c) /\ collected' = collected
        BY <1>2 DEF NextUnits, ExecuteSequentially
    <2>2. CASE Raises(call[c].executor, Slice(c)) /\ results' = results
        BY <1>1, <2>1, <2>2 DEF AddsUp
    <2>3. CASE /\ ~Raises(call[c].executor, Slice(c)) /\ error' = error
               /\ results'[c] = results[c] \o Tagged(c, Execute(call[c].executor, Slice(c)))
        BY <1>1, <2>1, <2>3 DEF AddsUp
    <2> QED
        BY <1>1, <1>2, <2>2, <2>3 DEF ExecuteSequentially
  <1>3. CASE Submit(c) \/ CollectedAll(c) \/ Leave(c) \/ Return(c)
    <2>1. results' = results /\ error' = error
        BY <1>3 DEF Submit, CollectedAll, Leave, Return
    <2>2. collected'[c] = collected[c] \/ collected'[c] = 0
        BY <1>1, <1>3 DEF Submit, CollectedAll, Leave, Return
    <2> QED
        BY <2>1, <2>2, NothingAdded
  <1>4. CASE Collect(c)
    <2>1. Waiting(c) /\ Awaited(c).state = "finished" /\ error' = error
        BY <1>4 DEF Collect
    <2>2. results'[c] = results[c] \o Awaited(c).answers
        BY <1>1, <1>4 DEF Collect
    <2> QED
        BY <2>1, <2>2, NextAnswers DEF AddsUp
  <1>5. CASE CollectFailure(c)
    <2>1. Waiting(c) /\ results' = results /\ collected' = collected
        BY <1>5 DEF CollectFailure
    <2>2. error'[c] = "failure" => Awaited(c).state = "failed"
        BY <1>1, <1>5 DEF CollectFailure
    <2>3. ~(collected'[c] > collected[c])
        BY <1>1, <2>1
    <2> QED
        BY <2>1, <2>2, <2>3, NextAnswers DEF AddsUp
  <1> QED
      BY <1>2, <1>3, <1>4, <1>5 DEF Call

\* Any other step leaves what a caller has as it is.
LEMMA OthersAddNothing ==
    ASSUME NEW c \in Callers, IInv,
           \/ UNCHANGED vars
           \/ \E d \in Callers \ {c} : Call(d)
           \/ \E d \in Callers, w \in Numbers : Work(d, w) \/ Crash(d, w)
    PROVE  AddsUp(c)
  <1>1. /\ collected \in [Callers -> Nat] /\ results \in [Callers -> Seq(TaggedAnswers)]
        /\ error \in [Callers -> {"none", "failure", "timeout"}]
      BY DEF IInv, TypeOK, NumbersInv
  <1>2. CASE UNCHANGED vars
      BY <1>2, NothingAdded DEF vars
  <1>3. ASSUME NEW d \in Callers, d # c, Call(d)
        PROVE  results'[c] = results[c] /\ error'[c] = error[c] /\ collected'[c] = collected[c]
      BY <1>1, <1>3 DEF Call, ExecuteSequentially, Submit, Collect, CollectFailure,
                        CollectedAll, Leave, Return
  <1>4. ASSUME NEW d \in Callers, NEW w \in Numbers, Work(d, w) \/ Crash(d, w)
        PROVE  UNCHANGED caller
      BY <1>4 DEF Work, Crash, SeedDefinition, SeedUnits, SeedExecutor, Seed, Take,
                  LoadDefinition, LoadExecutor, Finish
  <1> QED
      BY <1>2, <1>3, <1>4, NothingAdded DEF caller

\* BatchesAddUp: for whatever executor, cut, number of workers and schedule, each
\* part of an isolated caller's plan adds its own answers, in order, or ends the call.
THEOREM PartsAddUp == Spec => BatchesAddUp
  <1>1. ASSUME IInv, [Next]_vars PROVE \A c \in Callers : Isolated(c) => AddsUp(c)
    <2> SUFFICES ASSUME NEW c \in Callers, Isolated(c) PROVE AddsUp(c)
        OBVIOUS
    <2> QED
        BY <1>1, CallAddsUp, OthersAddNothing DEF Next
  <1>2. IInv /\ [Next]_vars => [\A c \in Callers : Isolated(c) => AddsUp(c)]_vars
      BY <1>1
  <1>3. BatchesAddUp <=> [][\A c \in Callers : Isolated(c) => AddsUp(c)]_vars
      BY PTL DEF BatchesAddUp, AddsUp
  <1> QED
      BY <1>2, <1>3, Inductive, PTL DEF Spec

----------------------------------------------------------------------------
(* The refinement.                                                         *)

\* Nobody interferes with anybody, and it does not matter how plans are cut.
Peaceful == \A c \in Callers : Isolated(c) /\ Composable(c)

\* A caller that raises has a reason that the caller of an execution knows of.
LEMMA Reasons ==
    ASSUME IInv', call' = call, call \in Workloads, Peaceful, NEW c \in Callers, error'[c] # "none"
    PROVE  SequentialRaises(c) \/ call[c].timeout \/ call[c].crashes
  <1>1. /\ Isolated(c)' /\ Composable(c)' /\ Composable(c)
        /\ \A k : RaisesAlone(c, k)' <=> RaisesAlone(c, k)
      BY SameCall DEF Peaceful
  <1>2. Gathered(c)' /\ error'[c] \in {"none", "failure", "timeout"}
      BY <1>1 DEF IInv, TypeOK, CallerInv, Own
  <1>3. call[c].timeout \/ call[c].crashes \/ SomeRaisesAlone(c)
      BY <1>1, <1>2 DEF Gathered, SomeRaisesAlone
  <1>4. SequentialRaises(c) <=> SomeRaisesAlone(c)
      BY <1>1, WholePlan
  <1> QED
      BY <1>3, <1>4

\* A caller that has finished its last slice has sequential_execute's results.
LEMMA Complete ==
    ASSUME IInv, Peaceful, NEW c \in Callers, pc[c] \in {"slice", "returned"}, offset[c] = Len(call[c].plan)
    PROVE  results[c] = SequentialResults(c) /\ ~SequentialRaises(c)
  <1>1. /\ CallerInv(c) /\ call \in Workloads /\ results[c] \in Seq(TaggedAnswers)
        /\ Len(call[c].plan) \in Nat /\ Len(results[c]) \in Nat
      BY Known
  <1>2. Len(results[c]) = Len(call[c].plan)
      BY <1>1 DEF CallerInv, Control, Live, Counted, Done
  <1>3. AnswersAlone(c, results[c]) /\ Composable(c)
      BY <1>1 DEF Peaceful, CallerInv, Own, Gathered
  <1>4. DOMAIN call[c].plan = 1 .. Len(call[c].plan)
      BY <1>1, Calls
  <1>5. /\ SequentialResults(c) \in Seq(TaggedAnswers) /\ Len(SequentialResults(c)) = Len(call[c].plan)
        /\ SequentialRaises(c) <=> SomeRaisesAlone(c)
        /\ \A k \in DOMAIN call[c].plan : SequentialResults(c)[k] = Alone(c, k)
      BY <1>1, <1>3, WholePlan
  <1>6. ~SomeRaisesAlone(c)
      BY <1>2, <1>3, <1>4 DEF AnswersAlone, SomeRaisesAlone
  <1>7. \A k \in 1 .. Len(results[c]) : results[c][k] = SequentialResults(c)[k]
      BY <1>2, <1>3, <1>4, <1>5 DEF AnswersAlone
  <1> QED
      BY <1>1, <1>2, <1>5, <1>6, <1>7, SeqEqual

\* What a caller sees of a state.
Outcome(c) == IF pc[c] \in {"returned", "raised"} THEN pc[c] ELSE "running"
Given(c) == IF pc[c] = "returned" THEN results[c] ELSE <<>>

\* A step changes what one caller sees, and only by its returning or raising.
LEMMA VisibleSteps ==
    ASSUME IInv, [Next]_vars
    PROVE  \/ \A d \in Callers : Outcome(d)' = Outcome(d) /\ Given(d)' = Given(d)
           \/ \E c \in Callers :
                 /\ \A d \in Callers \ {c} : Outcome(d)' = Outcome(d) /\ Given(d)' = Given(d)
                 /\ pc[c] \notin {"returned", "raised"}
                 /\ \/ /\ pc[c] = "slice" /\ offset[c] = Len(call[c].plan)
                       /\ pc'[c] = "returned" /\ results'[c] = results[c]
                    \/ pc'[c] = "raised"
  <1> DEFINE Quiet == \A d \in Callers : Outcome(d)' = Outcome(d) /\ Given(d)' = Given(d)
             Visible(c) ==
                 /\ \A d \in Callers \ {c} : Outcome(d)' = Outcome(d) /\ Given(d)' = Given(d)
                 /\ pc[c] \notin {"returned", "raised"}
                 /\ \/ /\ pc[c] = "slice" /\ offset[c] = Len(call[c].plan)
                       /\ pc'[c] = "returned" /\ results'[c] = results[c]
                    \/ pc'[c] = "raised"
  <1> USE DEF Outcome, Given
  <1>1. /\ pc \in [Callers -> {"slice", "collect", "leave", "returned", "raised"}]
        /\ results \in [Callers -> Seq(TaggedAnswers)]
      BY DEF IInv, TypeOK
  <1>2. CASE UNCHANGED vars
      BY <1>2 DEF vars
  <1>3. ASSUME NEW c \in Callers, NEW w \in Numbers, Work(c, w) \/ Crash(c, w) PROVE Quiet
    <2>1. pc' = pc /\ results' = results
        BY <1>3 DEF Work, Crash, SeedDefinition, SeedUnits, SeedExecutor, Seed, Take,
                    LoadDefinition, LoadExecutor, Finish, caller
    <2> QED
        BY <2>1
  <1>4. ASSUME NEW c \in Callers, Call(c) PROVE Quiet \/ Visible(c)
    <2>1. CASE ExecuteSequentially(c)
        BY <1>1, <2>1 DEF ExecuteSequentially, NextSlice
    <2>2. CASE Submit(c)
        BY <1>1, <2>2 DEF Submit, NextSlice
    <2>3. CASE Collect(c)
        BY <1>1, <2>3 DEF Collect, Waiting
    <2>4. CASE CollectFailure(c)
        BY <1>1, <2>4 DEF CollectFailure, Waiting
    <2>5. CASE CollectedAll(c)
        BY <1>1, <2>5 DEF CollectedAll
    <2>6. CASE Leave(c)
        BY <1>1, <2>6 DEF Leave
    <2>7. CASE Return(c)
        BY <1>1, <2>7 DEF Return
    <2> QED
        BY <1>4, <2>1, <2>2, <2>3, <2>4, <2>5, <2>6, <2>7 DEF Call
  <1> QED
      BY <1>2, <1>3, <1>4 DEF Next

\* Callers that nobody interferes with see executions of their plans: they
\* return what sequential_execute does, or raise if it does, if time ran out or
\* if a worker died.
THEOREM ImplementsSafely == Spec /\ Peaceful => Abstract!Safety
  <1> DEFINE Expected == [c \in Callers |->
                 [results |-> SequentialResults(c), raises |-> SequentialRaises(c),
                  reliable |-> ~call[c].timeout /\ ~call[c].crashes]]
             Outcomes == [c \in Callers |-> Outcome(c)]
             Returned == [c \in Callers |-> Given(c)]
  <1>1. Init /\ Peaceful => Abstract!Init
    <2> SUFFICES ASSUME Init, Peaceful PROVE Abstract!Init
        OBVIOUS
    <2>1. Expected \in [Callers -> [results : Seq(TaggedAnswers), raises : BOOLEAN, reliable : BOOLEAN]]
      <3> SUFFICES ASSUME NEW c \in Callers
                   PROVE  [results |-> SequentialResults(c), raises |-> SequentialRaises(c),
                           reliable |-> ~call[c].timeout /\ ~call[c].crashes]
                              \in [results : Seq(TaggedAnswers), raises : BOOLEAN, reliable : BOOLEAN]
          OBVIOUS
      <3>1. SequentialResults(c) \in Seq(TaggedAnswers) /\ SequentialRaises(c) \in BOOLEAN
          BY WholePlan DEF Init
      <3>2. (~call[c].timeout /\ ~call[c].crashes) \in BOOLEAN
          OBVIOUS
      <3> QED
          BY <3>1, <3>2
    <2>2. Outcomes = [c \in Callers |-> "running"] /\ Returned = [c \in Callers |-> <<>>]
        BY DEF Init, Outcome, Given
    <2> QED
        BY <2>1, <2>2 DEF Abstract!Init, Outcome, Given
  <1>2. ASSUME IInv, Peaceful, [Next]_vars PROVE [Abstract!Next]_(Abstract!vars)
    <2>1. call' = call /\ IInv'
        BY <1>2, CallsStay, EveryStep
    <2>2. Expected' = Expected
        BY <2>1 DEF SequentialResults, SequentialRaises
    <2>3. CASE \A d \in Callers : Outcome(d)' = Outcome(d) /\ Given(d)' = Given(d)
      <3>1. Outcomes' = Outcomes /\ Returned' = Returned
          BY <2>3
      <3> QED
          BY <2>2, <3>1 DEF Abstract!vars, Outcome, Given
    <2>4. ASSUME NEW c \in Callers,
                 \A d \in Callers \ {c} : Outcome(d)' = Outcome(d) /\ Given(d)' = Given(d),
                 pc[c] = "slice", offset[c] = Len(call[c].plan),
                 pc'[c] = "returned", results'[c] = results[c]
          PROVE  Abstract!Return(c)
      <3>1. results[c] = SequentialResults(c) /\ ~SequentialRaises(c)
          BY <1>2, <2>4, Complete
      <3>2. /\ Outcome(c) = "running" /\ Outcome(c)' = "returned"
            /\ Given(c)' = SequentialResults(c)
          BY <2>4, <3>1 DEF Outcome, Given
      <3>3. /\ Outcomes[c] = "running" /\ ~Expected[c].raises
            /\ Outcomes' = [Outcomes EXCEPT ![c] = "returned"]
            /\ Returned' = [Returned EXCEPT ![c] = Expected[c].results]
          BY <2>4, <3>1, <3>2
      <3> QED
          BY <2>2, <3>3 DEF Abstract!Return, Outcome, Given
    <2>5. ASSUME NEW c \in Callers,
                 \A d \in Callers \ {c} : Outcome(d)' = Outcome(d) /\ Given(d)' = Given(d),
                 pc[c] \notin {"returned", "raised"}, pc'[c] = "raised"
          PROVE  Abstract!Raise(c)
      <3>1. error'[c] # "none"
          BY <2>1, <2>5 DEF IInv, CallerInv, Control
      <3>2. SequentialRaises(c) \/ call[c].timeout \/ call[c].crashes
          BY <1>2, <2>1, <3>1, Reasons DEF IInv, TypeOK
      <3>3. /\ Outcome(c) = "running" /\ Outcome(c)' = "raised" /\ Given(c) = <<>> /\ Given(c)' = <<>>
          BY <2>5 DEF Outcome, Given
      <3>4. /\ Outcomes[c] = "running" /\ (Expected[c].raises \/ ~Expected[c].reliable)
            /\ Outcomes' = [Outcomes EXCEPT ![c] = "raised"]
            /\ Returned' = Returned
          BY <2>5, <3>2, <3>3
      <3> QED
          BY <2>2, <3>4 DEF Abstract!Raise, Outcome, Given
    <2> QED
        BY <1>2, <2>3, <2>4, <2>5, VisibleSteps DEF Abstract!Next
  <1>3. Peaceful /\ [Next]_vars => Peaceful'
      BY CallsStay, SameCall DEF Peaceful
  <1> QED
      BY <1>1, <1>2, <1>3, Inductive, PTL DEF Spec, Abstract!Safety

=============================================================================
