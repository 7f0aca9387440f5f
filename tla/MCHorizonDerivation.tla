------------------------ MODULE MCHorizonDerivation ------------------------
(***************************************************************************)
(* Small instances of HorizonDerivation.                                   *)
(***************************************************************************)
EXTENDS HorizonDerivation

MCFamilies == {"lean", "rich"}
MCMarkets == {"m1", "m2"}

\* A lean family fails in its third month in one market and grows in the
\* other; a rich one is exhausted exactly in its third month, or lasts.
Monthly ==
    [lean |-> [m1 |-> <<5, 3>>, m2 |-> <<5, 6, 7, 8>>],
     rich |-> [m1 |-> <<4, 2, 0>>, m2 |-> <<3, 3, 3, 3>>]]

\* Yearly withdrawals: nobody can pay the first one, or it hardly matters.
Annual ==
    [lean |-> [m1 |-> <<>>, m2 |-> <<2, 2, 2>>],
     rich |-> [m1 |-> <<4, 4, 4, 4>>, m2 |-> <<1, 0>>]]

MCTrajectory ==
    [k \in MCFamilies \X MCMarkets \X Frequencies |->
        IF k[3] = "MONTHLY" THEN Monthly[k[1]][k[2]] ELSE Annual[k[1]][k[2]]]

Context(family, market, frequency, horizon, target, closed_form) ==
    [family |-> family, market |-> market, frequency |-> frequency,
     horizon |-> horizon, target |-> target, closed_form |-> closed_form]

LeanContexts ==
    {Context("lean", m, "MONTHLY", h, t, TRUE) : m \in MCMarkets, h \in 2 .. 4, t \in {0, 7}}

RichContexts ==
    {Context("rich", m, "MONTHLY", h, 0, TRUE) : m \in MCMarkets, h \in {2, 3}}

OpenContexts == {Context(f, "m1", "MONTHLY", 3, 3, FALSE) : f \in MCFamilies}

AnnualContexts ==
    {Context(f, m, "ANNUAL", h, 0, TRUE) : f \in MCFamilies, m \in MCMarkets, h \in {1, 3}}

Definitions3(contexts) == UNION {[1 .. n -> contexts] : n \in 1 .. 3}

MCDefinitions ==
    Definitions3(LeanContexts \union RichContexts \union OpenContexts)
        \union Definitions3(AnnualContexts)

=============================================================================
