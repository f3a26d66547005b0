---------------------------- MODULE DecisionScore ----------------------------
(***************************************************************************)
(* The score that orders the interventions of a run (services/scoring.py)  *)
(* and the ranking that follows from it (activities/agents.py:261-273).    *)
(*                                                                         *)
(* Estimates are integers from 0 to 10, except the confidence, which is     *)
(* counted in hundredths, and the score, which is rounded to hundredths and *)
(* counted in them.  An exact tie is rounded up here; binary arithmetic may *)
(* round it down.                                                          *)
(***************************************************************************)
EXTENDS Integers, Sequences, FiniteSets

Grade == 0..10

Estimates ==
    [ impact : Grade, confidence : 0..100, revenue_alignment : Grade,
      effort : Grade, reversibility : Grade, time_to_signal : Grade ]

\* 10000 times upside times safety, over 100 times cost, after cancelling.
Gain(e) ==
    (e.impact * e.confidence) * ((10 + e.revenue_alignment) * (10 + e.reversibility))

Price(e) == 2 * ((10 + e.effort) * (10 + e.time_to_signal))

\* n / d, rounded.
Rounded(n, d) == (2 * n + d) \div (2 * d)

Score_EffortPays(e) ==
    Rounded(Gain(e) * (10 + e.effort), 20 * (10 + e.time_to_signal))

\* min(100.0, ...) of the code is min(10000, ...) in hundredths.
Score(e) ==
    LET s == Rounded(Gain(e), Price(e)) IN IF s > 10000 THEN 10000 ELSE s

\* The estimates that are ranked before the i-th.  Python's sort is stable, also
\* when it is reversed.
Ahead(es, i) ==
    {j \in DOMAIN es : \/ Score(es[j]) > Score(es[i])
                       \/ Score(es[j]) = Score(es[i]) /\ j < i}

Ranked(es) ==
    [k \in DOMAIN es |-> es[CHOOSE i \in DOMAIN es : Cardinality(Ahead(es, i)) = k - 1]]

\* x is at least as good as y in every respect.
Dominates(x, y) ==
    /\ x.impact >= y.impact
    /\ x.confidence >= y.confidence
    /\ x.revenue_alignment >= y.revenue_alignment
    /\ x.reversibility >= y.reversibility
    /\ x.effort <= y.effort
    /\ x.time_to_signal <= y.time_to_signal
=============================================================================
