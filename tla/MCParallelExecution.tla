------------------------ MODULE MCParallelExecution ------------------------
(***************************************************************************)
(* Small instances of ParallelExecution.  Units are contexts of            *)
(* HorizonDerivation, whose operators give the executors' answers.         *)
(***************************************************************************)
EXTENDS ParallelExecution

\* Cohorts with one way through the market each.
MCFamilies == {"1970", "1971", "1972"}

\* 1970 lasts, 1971 fails in its third month, 1972 is exhausted exactly.
MCTrajectory ==
    [k \in MCFamilies \X {"m"} \X {"MONTHLY", "ANNUAL"} |->
        CASE k[1] = "1970" -> <<5, 6, 7>>
          [] k[1] = "1971" -> <<4, 3>>
          [] k[1] = "1972" -> <<3, 0>>]

Unit(family, horizon) ==
    [family |-> family, market |-> "m", frequency |-> "MONTHLY", horizon |-> horizon,
     target |-> 0, closed_form |-> TRUE]

\* HorizonDerivation for a definition of these units.
Derivation(units) == INSTANCE HorizonDerivation WITH
    Families <- MCFamilies, Markets <- {"m"}, Trajectory <- MCTrajectory,
    Definitions <- {units}, executor <- "reference", definition <- units,
    pc <- "done", position <- 1, groups <- <<>>, group <- 0, results <- <<>>, report <- <<>>

\* More is asked of a unit than any market gives.
Wish == [Unit("1970", 3) EXCEPT !.target = 9]

MCUnits == {Unit(f, h) : f \in MCFamilies, h \in 2 .. 3} \union {Wish}

MCCohort == [u \in MCUnits |-> u.family]

Alone(u) == Derivation(<<u>>)!Direct(u)
ThrowsAlone(u) == Derivation(<<u>>)!Raises(u)

MCAnswers == {Alone(u) : u \in MCUnits}
MCUnitAnswer == [u \in MCUnits |-> Alone(u)]
MCBadUnits == {u \in MCUnits : ThrowsAlone(u)}

\* The longest unit of a unit's group.
LongestFor(units, k) ==
    Derivation(units)!LongestOf({j \in DOMAIN units : units[j].family = units[k].family})

ReferenceRaises(units) == \E k \in DOMAIN units : ThrowsAlone(units[LongestFor(units, k)])

ReferenceAnswers(units) ==
    [k \in DOMAIN units |->
        Derivation(units)!DeriveReference(units[LongestFor(units, k)], units[k])]

----------------------------------------------------------------------------
(* Calls.                                                                  *)

Good1 == Unit("1970", 3)
Good2 == Unit("1970", 2)
Good3 == Unit("1971", 3)
Good4 == Unit("1971", 2)
Bad == Unit("1972", 3)

MCCall(plan, workers, chunk, cohorts, executor, processes) ==
    [plan |-> plan, workers |-> workers, chunk |-> chunk, cohorts |-> cohorts,
     executor |-> executor, processes |-> processes, timeout |-> FALSE, crashes |-> FALSE]

WithTimeout(c) == [c EXCEPT !.timeout = TRUE]
WithCrashes(c) == [c EXCEPT !.crashes = TRUE]

Lone(calls) == [{"a"} -> calls]

Plain(plan, workers, processes) == MCCall(plan, workers, 0, 0, "default", processes)
Sliced(plan, workers, cohorts) == MCCall(plan, workers, 0, cohorts, "reference", TRUE)
Whole(plan, workers, processes) == MCCall(plan, workers, 0, 0, "reference", processes)

\* One caller: batches of every size, slices, failures, timeouts, crashes.
LoneWorkloads ==
    Lone({Plain(<<Good1, Good2, Good3, Good4>>, w, p) : w \in 1 .. 3, p \in BOOLEAN}
         \union {MCCall(<<Good1, Good2, Good3>>, 2, chunk, 0, "default", TRUE) : chunk \in 1 .. 2}
         \union {Sliced(<<Good1, Good2, Good3, Bad>>, w, 1) : w \in 1 .. 2}
         \union {Sliced(<<Good1, Good2, Good3>>, 2, n) : n \in 1 .. 2}
         \union {Whole(<<Good1, Good2, Good3>>, 2, p) : p \in BOOLEAN}
         \union {Plain(<<Good1, Bad, Good3>>, 2, p) : p \in BOOLEAN}
         \union {WithTimeout(Plain(<<Good1, Good2, Good3>>, 3, p)) : p \in BOOLEAN}
         \union {WithCrashes(Plain(<<Good1, Good2, Good3>>, 2, TRUE)),
                 WithCrashes(Sliced(<<Good1, Good2, Good3>>, 2, 1))})

\* Two callers, of which one uses threads.
Mixed(p, q) == {[c \in {"a", "b"} |-> IF c = "a" THEN p ELSE q]}
TwoWorkloads ==
    Mixed(Plain(<<Good1, Good3>>, 2, FALSE), Plain(<<Good2, Good4>>, 2, TRUE))

\* Two callers that use threads, for plans of different lengths.
UnequalWorkloads ==
    Mixed(Plain(<<Good1, Good3>>, 2, FALSE), Whole(<<Good2>>, 2, FALSE))

\* Plans that are not Composable: Good1 is a failure where Wish is beside it, and
\* a success in a batch of its own.  The other caller fails, is late or dies.
CutWorkloads ==
    Mixed(Whole(<<Good3, Wish, Good1>>, 2, FALSE), WithCrashes(Sliced(<<Good2, Bad>>, 2, 1)))
    \union Mixed(WithTimeout(Plain(<<Good1, Bad, Good3>>, 2, FALSE)), Whole(<<Wish, Good1>>, 1, TRUE))

MixedWorkloads == TwoWorkloads \union UnequalWorkloads \union CutWorkloads

\* Two callers that both use threads.
ThreadWorkloads ==
    Mixed(Plain(<<Good1, Good3>>, 2, FALSE), Plain(<<Good2, Good4>>, 2, FALSE))

----------------------------------------------------------------------------
\* The parts of all plans, so that each is evaluated once.
Plans ==
    {calls["a"].plan : calls \in LoneWorkloads \union MixedWorkloads}
    \union {calls["b"].plan : calls \in MixedWorkloads}
Parts == UNION {{SubSeq(plan, i, j) : i \in DOMAIN plan, j \in DOMAIN plan} : plan \in Plans}

AnswersOfParts == [part \in Parts |-> ReferenceAnswers(part)]
RaisingParts == {part \in Parts : ReferenceRaises(part)}

MCWholeAnswers(units) == AnswersOfParts[units]
MCWholeRaises(units) == units \in RaisingParts

----------------------------------------------------------------------------
(* What the documentation says.                                            *)

\* "Guarantees deterministic results identical to sequential execution"
\* (parallel_execute): whoever else is executing.
ParallelIsSequential ==
    \A c \in Callers : pc[c] = "returned" => results[c] = SequentialResults(c)

=============================================================================
