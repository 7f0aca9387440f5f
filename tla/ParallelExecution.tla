-------------------------- MODULE ParallelExecution --------------------------
(***************************************************************************)
(* parallel_execute, alone or once per slice under execute_reference, for  *)
(* concurrent callers in one Python process.                               *)
(*                                                                         *)
(* A slice of the plan is cut into batches, one future each.  Workers, each *)
(* a process or a thread, are seeded with the slice through module globals, *)
(* take batches in order, and run them.  The caller collects the futures   *)
(* in order and then waits for the pool to shut down.                      *)
(***************************************************************************)
EXTENDS Integers, Sequences, FiniteSets

CONSTANTS
    Callers,
    Units,              \* the units that plans are made of
    Cohort,             \* the start date of a unit
    Answers,            \* the results of single units
    UnitAnswer,         \* the default executor's answer for a unit
    BadUnits,           \* the units on which it throws
    WholeAnswers(_),    \* the reference executor's answers for a sequence of units
    WholeRaises(_),     \* whether it throws instead
    MaxWorkers,         \* bound on the workers of a call
    Workloads           \* what the callers may ask for, a set of functions

\* The arguments of a call.  Whole-definition executors get a batch as one
\* definition, the others unit by unit.  cohorts is the slice_cohorts argument
\* of execute_reference, 0 for a plain parallel_execute; chunk is 0 unless a
\* chunked progress is asked for.
CallType ==
    [plan : Seq(Units), workers : 1 .. MaxWorkers, chunk : Nat, cohorts : Nat,
     executor : {"default", "reference"}, processes : BOOLEAN,
     timeout : BOOLEAN, crashes : BOOLEAN]

ASSUME UnitAssumption == UnitAnswer \in [Units -> Answers] /\ BadUnits \subseteq Units
ASSUME MaxWorkersAssumption == MaxWorkers \in Nat \ {0}
ASSUME WorkloadsAssumption ==
    /\ Workloads \subseteq [Callers -> CallType]
    /\ \A calls \in Workloads, c \in Callers :
          /\ calls[c].plan # <<>>
          /\ \A i, j \in DOMAIN calls[c].plan :
                calls[c].plan[i] = calls[c].plan[j] => i = j
          \* what execute_reference passes on: no configuration, its own executor
          /\ calls[c].cohorts > 0 =>
                /\ calls[c].executor = "reference" /\ calls[c].processes
                /\ calls[c].chunk = 0 /\ ~calls[c].timeout
\* The reference executor gives an answer for each unit of a part of a plan; what
\* the answers are where it throws does not matter.
ASSUME WholeAssumption ==
    \A calls \in Workloads, c \in Callers :
        \A i, j \in DOMAIN calls[c].plan :
            LET part == SubSeq(calls[c].plan, i, j)
            IN  /\ WholeAnswers(part) \in [DOMAIN part -> Answers]
                /\ WholeRaises(part) \in BOOLEAN

VARIABLES
    call,       \* per caller, its arguments
    pc,         \* "slice", "collect", "leave", "returned" or "raised"
    offset,     \* units of the plan in finished slices
    futures,    \* of the slice under way, one per batch
    collected,  \* futures collected so far
    results,    \* results so far
    error,      \* why the caller leaves the pool: "none", "failure", "timeout"
    progress,   \* the last completed count reported
    worker,     \* per caller and number, a worker of its pool
    globals     \* the module globals, by the process they live in

vars == <<call, pc, offset, futures, collected, results, error, progress, worker, globals>>

caller == <<call, pc, offset, collected, results, error, progress>>

----------------------------------------------------------------------------
(* Slices and batches.                                                     *)

Least(a, b) == IF a <= b THEN a ELSE b

\* The number of cohorts that start in plan[from .. to], if one starts at from.
CohortsIn(plan, from, to) ==
    Cardinality({k \in from .. to : k = from \/ Cohort[plan[k]] # Cohort[plan[k - 1]]})

\* _slice_plan_units: the last unit of the slice that starts after `from` units.
SliceEnd(c, from) ==
    LET plan == call[c].plan
    IN  IF call[c].cohorts = 0 THEN Len(plan)
        ELSE CHOOSE k \in from + 1 .. Len(plan) :
                /\ CohortsIn(plan, from + 1, k) <= call[c].cohorts
                /\ \A l \in k + 1 .. Len(plan) :
                        CohortsIn(plan, from + 1, l) > call[c].cohorts

\* The units of the slice under way.
Slice(c) == SubSeq(call[c].plan, offset[c] + 1, SliceEnd(c, offset[c]))

\* create_work_batches and create_chunked_batches.
BatchSize(c) ==
    IF call[c].chunk > 0 THEN call[c].chunk
    ELSE (Len(Slice(c)) + call[c].workers - 1) \div call[c].workers

Batches(c) == 1 .. (Len(Slice(c)) + BatchSize(c) - 1) \div BatchSize(c)

\* MUTANT: neighbouring batches share a unit.
OverlappingBatch(c, b) ==
    [first |-> (b - 1) * BatchSize(c) + 1, last |-> Least(b * BatchSize(c) + 1, Len(Slice(c)))]

\* The index range of a batch within the slice.
Batch(c, b) ==
    [first |-> (b - 1) * BatchSize(c) + 1, last |-> Least(b * BatchSize(c), Len(Slice(c)))]

----------------------------------------------------------------------------
(* Memory.                                                                 *)

NoCaller == "no caller"

ASSUME CallersAssumption == NoCaller \notin Callers

\* _WORKER_EXPERIMENT_DEFINITION, _WORKER_UNITS, _WORKER_SIMULATION_EXECUTOR:
\* the definition is known by its caller.
Unseeded == [definition |-> NoCaller, units |-> <<>>, executor |-> "default"]

\* MUTANT: workers are always threads.
ThreadHome(c, w) == <<NoCaller, 0>>

\* The process a worker lives in: its own, or that of the callers.
Home(c, w) == IF call[c].processes THEN <<c, w>> ELSE <<NoCaller, 0>>

Numbers == 1 .. MaxWorkers
Homes == (Callers \X Numbers) \union {<<NoCaller, 0>>}

Absent == [state |-> "absent", batch |-> 0, units |-> <<>>, definition |-> NoCaller,
           executor |-> "default"]

Pending == [state |-> "pending", answers |-> <<>>]
Failed == [state |-> "failed", answers |-> <<>>]

\* An answer and the experiment definition it was computed for.
Tagged(definition, answers) ==
    [k \in DOMAIN answers |-> [definition |-> definition, answer |-> answers[k]]]

TaggedAnswers == [definition : Callers, answer : Answers]

\* An executor that advertises processes_whole_definition gets the units at
\* once, any other one by one.
Execute(executor, units) ==
    IF executor = "reference" THEN WholeAnswers(units)
    ELSE [k \in DOMAIN units |-> UnitAnswer[units[k]]]

Raises(executor, units) ==
    IF executor = "reference" THEN WholeRaises(units)
    ELSE \E k \in DOMAIN units : units[k] \in BadUnits

----------------------------------------------------------------------------
Init ==
    /\ call \in Workloads
    /\ pc = [c \in Callers |-> "slice"]
    /\ offset = [c \in Callers |-> 0]
    /\ futures = [c \in Callers |-> <<>>]
    /\ collected = [c \in Callers |-> 0]
    /\ results = [c \in Callers |-> <<>>]
    /\ error = [c \in Callers |-> "none"]
    /\ progress = [c \in Callers |-> 0]
    /\ worker = [c \in Callers |-> [w \in Numbers |-> Absent]]
    /\ globals = [h \in Homes |-> Unseeded]

(* The caller.                                                             *)

\* The plan is not yet done.
NextSlice(c) == pc[c] = "slice" /\ offset[c] < Len(call[c].plan)

\* One worker: sequential_execute, in the caller's thread.
ExecuteSequentially(c) ==
    LET units == Slice(c)
    IN  /\ NextSlice(c)
        /\ call[c].workers = 1
        /\ \/ /\ Raises(call[c].executor, units)
              /\ pc' = [pc EXCEPT ![c] = "raised"]
              /\ error' = [error EXCEPT ![c] = "failure"]
              /\ UNCHANGED <<offset, results, progress>>
           \/ /\ ~Raises(call[c].executor, units)
              /\ results' = [results EXCEPT
                    ![c] = @ \o Tagged(c, Execute(call[c].executor, units))]
              /\ offset' = [offset EXCEPT ![c] = @ + Len(units)]
              /\ progress' = [progress EXCEPT ![c] = offset[c] + Len(units)]
              /\ UNCHANGED <<pc, error>>
        /\ UNCHANGED <<call, futures, collected, worker, globals>>

\* A pool is opened and every batch submitted.  When workers start, and how many
\* of those allowed, is the pool's affair.
Submit(c) ==
    /\ NextSlice(c)
    /\ call[c].workers > 1
    /\ futures' = [futures EXCEPT ![c] = [b \in Batches(c) |-> Pending]]
    /\ collected' = [collected EXCEPT ![c] = 0]
    /\ \E started \in 1 .. call[c].workers :
          worker' = [worker EXCEPT ![c] =
              [w \in Numbers |-> IF w <= started THEN [Absent EXCEPT !.state = "new"] ELSE Absent]]
    /\ pc' = [pc EXCEPT ![c] = "collect"]
    /\ globals' = [h \in Homes |->
          IF call[c].processes /\ h[1] = c THEN Unseeded ELSE globals[h]]
    /\ UNCHANGED <<call, offset, results, error, progress>>

\* MUTANT: a batch that has finished is collected before one that has not.
AnyFinished(c) ==
    LET left == collected[c] + 1 .. Len(futures[c])
        done == {b \in left : futures[c][b].state = "finished"}
    IN  futures[c][CHOOSE b \in left : done = {} \/ b \in done]

\* The future the caller waits for.
Awaited(c) == futures[c][collected[c] + 1]
Waiting(c) == pc[c] = "collect" /\ collected[c] < Len(futures[c])

\* extend the results; without slices, report progress.
Collect(c) ==
    /\ Waiting(c)
    /\ Awaited(c).state = "finished"
    /\ results' = [results EXCEPT ![c] = @ \o Awaited(c).answers]
    /\ collected' = [collected EXCEPT ![c] = @ + 1]
    /\ progress' = [progress EXCEPT
          ![c] = IF call[c].cohorts = 0 THEN Len(results'[c]) ELSE @]
    /\ UNCHANGED <<call, pc, offset, futures, error, worker, globals>>

\* MUTANT: the loop goes on after a batch that has failed.
SkipFailure(c) ==
    /\ Waiting(c)
    /\ Awaited(c).state = "failed"
    /\ collected' = [collected EXCEPT ![c] = @ + 1]
    /\ UNCHANGED <<call, pc, offset, futures, results, error, progress, worker, globals>>

\* A failed future's exception, or the timeout's, leaves the loop.
CollectFailure(c) ==
    /\ Waiting(c)
    /\ \/ Awaited(c).state = "failed" /\ error' = [error EXCEPT ![c] = "failure"]
       \/ /\ call[c].timeout
          /\ Awaited(c).state \in {"pending", "running"}
          /\ error' = [error EXCEPT ![c] = "timeout"]
    /\ pc' = [pc EXCEPT ![c] = "leave"]
    /\ UNCHANGED <<call, offset, futures, collected, results, progress, worker, globals>>

\* The loop ends.
CollectedAll(c) ==
    /\ pc[c] = "collect"
    /\ collected[c] = Len(futures[c])
    /\ pc' = [pc EXCEPT ![c] = "leave"]
    /\ UNCHANGED <<call, offset, futures, collected, results, error, progress, worker, globals>>

Settled(f) == f.state \in {"finished", "failed"}

\* shutdown(wait=True) of the pool: its work is done and its workers are idle.
Drained(c) ==
    /\ \A b \in DOMAIN futures[c] : Settled(futures[c][b])
    /\ \A w \in Numbers : worker[c][w].state \in {"absent", "idle"}

\* The pool's context manager exits; its workers are gone.
Leave(c) ==
    /\ pc[c] = "leave"
    /\ Drained(c)
    /\ worker' = [worker EXCEPT ![c] = [w \in Numbers |-> Absent]]
    /\ futures' = [futures EXCEPT ![c] = <<>>]
    /\ collected' = [collected EXCEPT ![c] = 0]
    /\ \/ /\ error[c] = "none"
          /\ pc' = [pc EXCEPT ![c] = "slice"]
          /\ offset' = [offset EXCEPT ![c] = @ + Len(Slice(c))]
          /\ progress' = [progress EXCEPT ![c] = offset'[c]]
       \/ /\ error[c] # "none"
          /\ pc' = [pc EXCEPT ![c] = "raised"]
          /\ UNCHANGED <<offset, progress>>
    /\ UNCHANGED <<call, results, error, globals>>

\* All slices are done.
Return(c) ==
    /\ pc[c] = "slice"
    /\ offset[c] = Len(call[c].plan)
    /\ pc' = [pc EXCEPT ![c] = "returned"]
    /\ UNCHANGED <<call, offset, futures, collected, results, error, progress, worker, globals>>

----------------------------------------------------------------------------
(* The workers.                                                            *)

\* One assignment of _initialize_worker.
Seed(c, w, from, to, field, value) ==
    /\ worker[c][w].state = from
    /\ worker' = [worker EXCEPT ![c][w].state = to]
    /\ globals' = [globals EXCEPT ![Home(c, w)] = [@ EXCEPT ![field] = value]]
    /\ UNCHANGED <<caller, futures>>

SeedDefinition(c, w) == Seed(c, w, "new", "seeding units", "definition", c)
SeedUnits(c, w) == Seed(c, w, "seeding units", "seeding executor", "units", Slice(c))
SeedExecutor(c, w) == Seed(c, w, "seeding executor", "idle", "executor", call[c].executor)

\* The batch at the head of the pool's queue.
NextBatch(c) == CHOOSE b \in DOMAIN futures[c] :
    /\ futures[c][b].state = "pending"
    /\ \A a \in 1 .. b - 1 : futures[c][a].state # "pending"

\* MUTANT: the units are sliced, which never throws.
AnyRange(range, known) == TRUE

\* The units are indexed one by one.
InRange(range, known) == range.last <= Len(known)

\* _worker_execute_index_batch: the units are those of the globals, which throws
\* if they are too few.
Take(c, w) ==
    LET b == NextBatch(c)
        known == globals[Home(c, w)].units
        range == Batch(c, b)
    IN  /\ worker[c][w].state = "idle"
        /\ \E a \in DOMAIN futures[c] : futures[c][a].state = "pending"
        /\ \/ /\ InRange(range, known)
              /\ worker' = [worker EXCEPT ![c][w] =
                    [Absent EXCEPT !.state = "loading", !.batch = b,
                                   !.units = SubSeq(known, range.first,
                                                    Least(range.last, Len(known)))]]
              /\ futures' = [futures EXCEPT ![c][b].state = "running"]
           \/ /\ ~InRange(range, known)
              /\ futures' = [futures EXCEPT ![c][b].state = "failed"]
              /\ UNCHANGED worker
        /\ UNCHANGED <<caller, globals>>

\* _execute_batch_on_shared_state reads the definition, then the executor,
LoadDefinition(c, w) ==
    /\ worker[c][w].state = "loading"
    /\ worker' = [worker EXCEPT ![c][w] =
          [@ EXCEPT !.state = "loading executor", !.definition = globals[Home(c, w)].definition]]
    /\ UNCHANGED <<caller, futures, globals>>

LoadExecutor(c, w) ==
    /\ worker[c][w].state = "loading executor"
    /\ worker' = [worker EXCEPT ![c][w] =
          [@ EXCEPT !.state = "running", !.executor = globals[Home(c, w)].executor]]
    /\ UNCHANGED <<caller, futures, globals>>

\* and executes the batch.
Finish(c, w) ==
    LET task == worker[c][w]
    IN  /\ task.state = "running"
        /\ worker' = [worker EXCEPT ![c][w] = [Absent EXCEPT !.state = "idle"]]
        /\ futures' = [futures EXCEPT ![c][task.batch] =
              IF Raises(task.executor, task.units)
              THEN Failed
              ELSE [state |-> "finished",
                    answers |-> Tagged(task.definition, Execute(task.executor, task.units))]]
        /\ UNCHANGED <<caller, globals>>

\* A future of a broken pool.
Break(f) == IF Settled(f) THEN f ELSE Failed

\* A worker process dies: the pool is broken, its work fails.
Crash(c, w) ==
    /\ call[c].crashes
    /\ call[c].processes
    /\ worker[c][w].state # "absent"
    /\ worker' = [worker EXCEPT ![c] = [v \in Numbers |-> Absent]]
    /\ futures' = [futures EXCEPT ![c] = [b \in DOMAIN @ |-> Break(@[b])]]
    /\ UNCHANGED <<caller, globals>>

----------------------------------------------------------------------------
Call(c) ==
    \/ ExecuteSequentially(c)
    \/ Submit(c)
    \/ Collect(c)
    \/ CollectFailure(c)
    \/ CollectedAll(c)
    \/ Leave(c)
    \/ Return(c)

Work(c, w) ==
    \/ SeedDefinition(c, w)
    \/ SeedUnits(c, w)
    \/ SeedExecutor(c, w)
    \/ Take(c, w)
    \/ LoadDefinition(c, w)
    \/ LoadExecutor(c, w)
    \/ Finish(c, w)

Next ==
    \E c \in Callers :
        \/ Call(c)
        \/ \E w \in Numbers : Work(c, w) \/ Crash(c, w)

Spec == Init /\ [][Next]_vars

\* Callers and workers are threads or processes of their own, and every
\* simulation ends.
Fairness ==
    /\ \A c \in Callers : WF_vars(Call(c))
    /\ \A c \in Callers, w \in Numbers : WF_vars(Work(c, w))

FairSpec == Spec /\ Fairness

----------------------------------------------------------------------------
(* Properties.                                                             *)

Futures == [state : {"pending", "running", "finished", "failed"}, answers : Seq(TaggedAnswers)]

Workers ==
    [state : {"absent", "new", "seeding units", "seeding executor", "idle", "loading",
             "loading executor", "running"},
     batch : Nat, units : Seq(Units), definition : Callers \union {NoCaller},
     executor : {"default", "reference"}]

TypeOK ==
    /\ call \in Workloads
    /\ pc \in [Callers -> {"slice", "collect", "leave", "returned", "raised"}]
    /\ \A c \in Callers : offset[c] \in 0 .. Len(call[c].plan)
    /\ futures \in [Callers -> Seq(Futures)]
    /\ \A c \in Callers : collected[c] \in 0 .. Len(futures[c])
    /\ results \in [Callers -> Seq(TaggedAnswers)]
    /\ error \in [Callers -> {"none", "failure", "timeout"}]
    /\ \A c \in Callers : progress[c] \in 0 .. Len(call[c].plan)
    /\ worker \in [Callers -> [Numbers -> Workers]]
    /\ globals \in [Homes -> [definition : Callers \union {NoCaller}, units : Seq(Units),
                              executor : {"default", "reference"}]]

\* Nobody else seeds the globals that the caller's workers read.
OwnMemory(c) == call[c].processes \/ call[c].workers = 1
Isolated(c) == OwnMemory(c) \/ \A d \in Callers \ {c} : OwnMemory(d)

\* The executor's answers for a part of the plan are those for its units: it
\* does not matter how the plan is cut.
Composable(c) ==
    LET plan == call[c].plan
        executor == call[c].executor
    IN  \A i, j \in DOMAIN plan :
            LET part == SubSeq(plan, i, j)
            IN  /\ Execute(executor, part) =
                       [k \in DOMAIN part |-> Execute(executor, <<part[k]>>)[1]]
                /\ Raises(executor, part) <=>
                       \E k \in DOMAIN part : Raises(executor, <<part[k]>>)

\* What sequential_execute returns for the plan, or whether it throws.
SequentialResults(c) == Tagged(c, Execute(call[c].executor, call[c].plan))
SequentialRaises(c) == Raises(call[c].executor, call[c].plan)

\* The results are, at any time, those of sequential_execute for the first units
\* of the plan, in its order; when the call returns, for all of them.
InPlanOrder ==
    \A c \in Callers : Isolated(c) /\ Composable(c) =>
        /\ results[c] = SubSeq(SequentialResults(c), 1, Len(results[c]))
        /\ pc[c] = "returned" => Len(results[c]) = Len(call[c].plan)

\* Even if another caller's units were executed, there is one result per unit: a
\* call either throws or returns as many results as its plan has units.
OneResultPerUnit ==
    \A c \in Callers :
        /\ collected[c] > 0 =>
              Len(results[c]) = offset[c] + Batch(c, collected[c]).last
        /\ pc[c] = "returned" => Len(results[c]) = Len(call[c].plan)

\* The units of a batch.
BatchUnits(c, b) == SubSeq(Slice(c), Batch(c, b).first, Batch(c, b).last)

\* The units whose answers a caller goes on with.
NextUnits(c) == IF call[c].workers = 1 THEN Slice(c) ELSE BatchUnits(c, collected[c] + 1)

\* However a plan is cut, whatever else the workers, the other slices and the other
\* callers do or fail at, each part of it adds what the executor answers for just
\* that part, in the order of the plan; none is passed over or counted twice, and
\* a call fails at the first part that throws, or by the death of a process.
BatchesAddUp ==
    [][\A c \in Callers : Isolated(c) =>
          LET executor == call[c].executor
          IN  /\ collected'[c] > collected[c] \/ results'[c] # results[c] =>
                    /\ ~Raises(executor, NextUnits(c))
                    /\ results'[c] = results[c] \o Tagged(c, Execute(executor, NextUnits(c)))
              /\ error[c] = "none" /\ error'[c] = "failure" =>
                    Raises(executor, NextUnits(c)) \/ call[c].crashes]_vars

\* A worker has something to do.
CanWork(c, w) ==
    \/ worker[c][w].state \notin {"absent", "idle"}
    \/ /\ worker[c][w].state = "idle"
       /\ \E b \in DOMAIN futures[c] : futures[c][b].state = "pending"

\* No caller waits for nobody: where it waits for a batch, or for the end of its
\* pool, one of its own workers has something to do, even where others died.
NobodyHangs ==
    \A c \in Callers :
        (Waiting(c) /\ ~Settled(Awaited(c))) \/ (pc[c] = "leave" /\ ~Drained(c))
            => \E w \in Numbers : CanWork(c, w)

\* Progress never shrinks, never counts units without a result, and is complete
\* when the call returns.
ProgressIsHonest ==
    [][\A c \in Callers :
        /\ progress[c] <= progress'[c]
        /\ progress'[c] <= Len(results'[c])
        /\ pc'[c] = "returned" => progress'[c] = Len(call[c].plan)]_vars

\* Without interference, the caller sees an execution of its plan.
Abstract == INSTANCE PlanExecution WITH
    Answers <- TaggedAnswers,
    expected <- [c \in Callers |->
        [results |-> SequentialResults(c), raises |-> SequentialRaises(c),
         reliable |-> ~call[c].timeout /\ ~call[c].crashes]],
    outcome <- [c \in Callers |->
        IF pc[c] \in {"returned", "raised"} THEN pc[c] ELSE "running"],
    results <- [c \in Callers |-> IF pc[c] = "returned" THEN results[c] ELSE <<>>]

ImplementsPlanExecution == Abstract!Spec

=============================================================================
