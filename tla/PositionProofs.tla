--------------------------- MODULE PositionProofs ---------------------------
(***************************************************************************)
(* The first and the last of some positions in a list: the code looks for   *)
(* the newest run, the last verdict on a finding and the first document that *)
(* parses, the models name them with CHOOSE, and this is why there is one to *)
(* choose.  And a function that is defined step by step along an interval    *)
(* exists.                                                                   *)
(***************************************************************************)
EXTENDS Integers, FiniteSets, FiniteSetTheorems, WellFoundedInduction, TLAPS

\* Among some positions of a list of n there is a last one.
LEMMA LastPosition ==
    ASSUME NEW n \in Nat, NEW S \in SUBSET (1..n), S # {}
    PROVE  \E x \in S : \A y \in S : y <= x
<1> DEFINE From(i) == {j \in S : j >= i}
           T == {From(i) : i \in S}
<1>1. IsFiniteSet(S)
    <2>1. IsFiniteSet(1..n)
        BY FS_Interval
    <2> QED BY <2>1, FS_Subset
<1>2. IsWellFoundedOn(StrictSubsetOrdering(S), SUBSET S)
    BY <1>1, FS_StrictSubsetOrderingWellFounded, FS_FiniteSubsetsOfFinite
<1>3. T \subseteq SUBSET S /\ T # {}
    OBVIOUS
<1>4. PICK t \in T : \A u \in T : <<u, t>> \notin StrictSubsetOrdering(S)
    <2> HIDE DEF T
    <2> QED BY <1>2, <1>3, WFMin
<1>5. PICK x \in S : t = From(x)
    BY <1>4
<1>6. ASSUME NEW y \in S, y > x PROVE FALSE
    <2>1. From(y) \in T
        OBVIOUS
    <2>2. From(y) \subseteq From(x) /\ From(y) # From(x)
        <3>1. x \in Int /\ y \in Int /\ S \subseteq Int
            OBVIOUS
        <3>2. x \in From(x) /\ x \notin From(y)
            BY <1>6, <3>1
        <3>3. ASSUME NEW j \in S, j >= y PROVE j >= x
            BY <1>6, <3>1, <3>3
        <3> QED BY <3>2, <3>3
    <2>3. <<From(y), From(x)>> \in StrictSubsetOrdering(S)
        BY <2>2 DEF StrictSubsetOrdering
    <2> QED BY <1>4, <1>5, <2>1, <2>3
<1> QED BY <1>6
\* And there is a first one.
LEMMA FirstPosition ==
    ASSUME NEW n \in Nat, NEW S \in SUBSET (1..n), S # {}
    PROVE  \E x \in S : \A y \in S : x <= y
<1> DEFINE T == {n + 1 - x : x \in S}
<1>1. T \in SUBSET (1..n) /\ T # {}
    OBVIOUS
<1>2. PICK t \in T : \A u \in T : u <= t
    <2> HIDE DEF T
    <2> QED BY <1>1, LastPosition
<1>3. PICK x \in S : t = n + 1 - x
    OBVIOUS
<1>4. ASSUME NEW y \in S PROVE x <= y
    <2>1. n + 1 - y \in T
        OBVIOUS
    <2>2. n + 1 - y <= n + 1 - x
        BY <1>2, <1>3, <2>1
    <2> QED BY <2>2
<1> QED BY <1>4

\* What holds of the first value of an iteration, and of a value if it holds of the
\* one before, holds of all: otherwise there would be a first exception.
LEMMA ExceptionsBegin ==
    ASSUME NEW n \in Nat, NEW S \in SUBSET (0..n), S # {}, 0 \notin S
    PROVE  \E x \in 1..n : x \in S /\ x - 1 \in 0..n /\ x - 1 \notin S
<1>1. S \in SUBSET (1..n)
    OBVIOUS
<1>2. PICK x \in S : \A y \in S : x <= y
    BY <1>1, FirstPosition
<1> QED BY <1>1, <1>2

\* The definition of a function by recursion over the length of a list: step[i]
\* makes the i-th value of the one before.
Iterates(F, n, base, step) ==
    F = [i \in 0..n |-> IF i = 0 THEN base ELSE step[i][F[i - 1]]]

\* There is such a function if every step stays in one set.
LEMMA IterationExists ==
    ASSUME NEW n \in Nat, NEW T, NEW base \in T, NEW step \in [1..n -> [T -> T]]
    PROVE  \E F \in [0..n -> T] : Iterates(F, n, base, step)
<1> DEFINE Short(k) == \E F \in [0..k -> T] :
                          F = [i \in 0..k |-> IF i = 0 THEN base ELSE step[i][F[i - 1]]]
           S == {k \in 0..n : ~ Short(k)}
<1>1. Short(0)
    <2> DEFINE F == [i \in 0..0 |-> base]
    <2>1. F \in [0..0 -> T] /\ F = [i \in 0..0 |-> IF i = 0 THEN base ELSE step[i][F[i - 1]]]
        OBVIOUS
    <2> QED BY <2>1
<1>2. ASSUME NEW k \in 1..n, Short(k - 1) PROVE Short(k)
    <2>1. PICK F \in [0 .. k - 1 -> T] :
              F = [i \in 0 .. k - 1 |-> IF i = 0 THEN base ELSE step[i][F[i - 1]]]
        BY <1>2
    <2>2. step[k] \in [T -> T] /\ k - 1 \in 0 .. k - 1 /\ F[k - 1] \in T
        BY <2>1
    <2> DEFINE G == [i \in 0..k |-> IF i = k THEN step[k][F[k - 1]] ELSE F[i]]
    <2>3. G \in [0..k -> T]
        BY <2>1, <2>2
    <2>4. ASSUME NEW i \in 0..k
          PROVE  G[i] = IF i = 0 THEN base ELSE step[i][G[i - 1]]
        <3>1. CASE i = k
            BY <2>1, <2>2, <3>1
        <3>2. CASE i # k
            <4>1. i \in 0 .. k - 1
                BY <3>2
            <4>2. G[i] = F[i] /\ (i # 0 => G[i - 1] = F[i - 1])
                BY <3>2, <4>1
            <4>3. F[i] = IF i = 0 THEN base ELSE step[i][F[i - 1]]
                BY <2>1, <4>1
            <4> QED BY <4>2, <4>3
        <3> QED BY <3>1, <3>2
    <2>5. G = [i \in 0..k |-> IF i = 0 THEN base ELSE step[i][G[i - 1]]]
        <3>1. G = [i \in 0..k |-> G[i]]
            OBVIOUS
        <3> HIDE DEF G
        <3> QED BY <2>4, <3>1
    <2> HIDE DEF G
    <2> QED BY <2>3, <2>5
<1>3. Short(n)
    <2>1. S = {}
        <3>1. S \in SUBSET (0..n) /\ 0 \notin S
            BY <1>1
        <3>2. ASSUME NEW x \in 1..n, x \in S, x - 1 \in 0..n, x - 1 \notin S PROVE FALSE
            BY <1>2, <3>2
        <3> HIDE DEF S
        <3> QED BY <3>1, <3>2, ExceptionsBegin
    <2>2. n \in 0..n
        OBVIOUS
    <2> HIDE DEF Short
    <2> QED BY <2>1, <2>2
<1> QED BY <1>3 DEF Iterates
=============================================================================
