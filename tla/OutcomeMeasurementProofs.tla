----------------------- MODULE OutcomeMeasurementProofs -----------------------
(***************************************************************************)
(* Theorems about OutcomeMeasurement, for every set of mutations, windows, *)
(* lags, limits and faults.  All of them follow from one invariant, which   *)
(* says that an item that was listed stays true until it is measured.      *)
(***************************************************************************)
EXTENDS OutcomeMeasurement, TLAPS

\* The table and what is known of it: only a mutation that was rolled back once can
\* have another date than that of its last validation.
RowDated(m) ==
    ledger[m] # None /\ m \notin revived
        => Validated(ledger, m) /\ since[m] = ledger[m].appliedAt

\* A mutation that was listed is validated, unless its row was corrected since.
Standing(m) == ledger[m] # None /\ (Validated(ledger, m) \/ m \in withdrawn)

\* An item is about such a mutation with that date, and its period is over.
ItemTrue(i) ==
    /\ Standing(i.mutation)
    /\ i.appliedAt = ledger[i.mutation].appliedAt
    /\ i.appliedAt + i.window + Lag <= day

SampleTrue(x) ==
    sample[x] # None =>
        /\ Standing(x[1])
        /\ sample[x].first = ledger[x[1]].appliedAt + 1
        /\ sample[x].last + Lag <= sample[x].taken

MeasureInv ==
    /\ TypeOK
    /\ \A m \in Mutations : RowDated(m)
    /\ \A d \in Days : \A i \in items[d] : ItemTrue(i)
    /\ \A x \in Mutations \X Windows : SampleTrue(x)
-----------------------------------------------------------------------------
\* The numbers are numbers.
LEMMA ItemNumbers ==
    ASSUME NEW i \in Items
    PROVE  i.appliedAt \in Nat /\ i.window \in Nat /\ Lag \in Nat /\ MaxDay \in Nat
<1>1. Lag \in Nat /\ MaxDay \in Nat /\ Windows \subseteq Nat
    BY MeasurementAssumption
<1>2. i.window \in Windows /\ i.appliedAt \in 0..MaxDay
    BY DEF Items, Days
<1>3. \A n \in 0..MaxDay : n \in Nat
    BY <1>1
<1>4. i.appliedAt \in Nat
    BY <1>2, <1>3, Zenon
<1>5. i.window \in Nat
    BY <1>1, <1>2, Zenon
<1> QED BY <1>1, <1>4, <1>5

\* What is listed is due.
LEMMA ListedIsTrue ==
    ASSUME TypeOK, NEW T \in First(Limit, DueItems), NEW i \in T
    PROVE  i \in Items /\ ItemTrue(i)
<1>1. i \in DueItems
    BY DEF First
<1>2. PICK m \in Mutations, w \in Windows :
         /\ i = [mutation |-> m, window |-> w, appliedAt |-> ledger[m].appliedAt]
         /\ Due(m, w)
    BY <1>1 DEF DueItems
<1>3. ledger[m].appliedAt \in Nat
    BY <1>2, LedgerAssumption DEF TypeOK, Ledgers, Rows, Due, Validated
<1>4. w \in Nat /\ Lag \in Nat /\ MaxDay \in Nat /\ day \in 0..MaxDay
    BY MeasurementAssumption DEF TypeOK, Days
<1>5. ledger[m].appliedAt + w + Lag <= day
    BY <1>2 DEF Due
<1>6. ledger[m].appliedAt \in Days
    BY <1>3, <1>4, <1>5 DEF Days
<1> QED BY <1>2, <1>5, <1>6 DEF Items, ItemTrue, Standing, Due, Validated

\* Storing an item that is true.
LEMMA StoreKept ==
    ASSUME MeasureInv, NEW d \in Days, NEW i \in items[d], Store(i), UNCHANGED <<growth, day>>
    PROVE  /\ sample' \in [Mutations \X Windows -> Samples \cup {None}]
           /\ \A x \in Mutations \X Windows : SampleTrue(x)'
<1>1. i \in Items /\ ItemTrue(i)
    BY DEF MeasureInv, TypeOK
<1>2. PICK z \in Mutations \X Windows : z = <<i.mutation, i.window>>
    BY <1>1 DEF Items
<1>3. PICK s : s = [first |-> i.appliedAt + 1, last |-> i.appliedAt + i.window, taken |-> day]
    OBVIOUS
<1>4. i.appliedAt \in Nat /\ i.window \in Nat /\ Lag \in Nat
    BY <1>1, ItemNumbers
<1>5. s \in Samples /\ s.first = ledger[z[1]].appliedAt + 1 /\ s.last + Lag <= s.taken
    BY <1>1, <1>2, <1>3, <1>4 DEF Samples, ItemTrue, MeasureInv, TypeOK
<1>6. sample' = [sample EXCEPT ![z] = IF @ # None THEN @ ELSE s]
    BY <1>2, <1>3 DEF Store
<1>7. sample' \in [Mutations \X Windows -> Samples \cup {None}]
    BY <1>5, <1>6 DEF MeasureInv, TypeOK
<1>8. ASSUME NEW x \in Mutations \X Windows PROVE SampleTrue(x)'
    <2>1. CASE sample'[x] = sample[x]
        BY <2>1 DEF MeasureInv, SampleTrue, Standing, Validated, growth
    <2>2. CASE x = z /\ sample'[x] = s
        BY <1>1, <1>2, <1>5, <2>2 DEF SampleTrue, ItemTrue, Standing, Validated, growth
    <2> QED BY <1>6, <2>1, <2>2 DEF MeasureInv, TypeOK
<1> QED BY <1>7, <1>8

\* What the growth workflow writes keeps the date of a row and takes VALIDATED from
\* one only by the correction, so that what was listed or stored stays true.
LEMMA RowWritten ==
    ASSUME MeasureInv, NEW m \in Mutations, NEW status \in Statuses,
           ledger' = Upsert(ledger, m, status, day),
           since' \in [Mutations -> Days \cup {None}],
           revived' \in SUBSET Mutations, doubted' \in SUBSET Mutations,
           withdrawn' \in SUBSET Mutations, withdrawn \subseteq withdrawn',
           \A n \in Mutations \ {m} :
               since'[n] = since[n] /\ (n \in revived' <=> n \in revived),
           Validated(ledger, m) => m \in withdrawn',
           RowDated(m)',
           UNCHANGED <<sample, day, pc, items, failed>>
    PROVE  MeasureInv'
<1> DEFINE date == IF ledger[m] = None THEN day ELSE ledger[m].appliedAt
<1>1. ledger' = [ledger EXCEPT ![m] = [status |-> status, appliedAt |-> date]]
    BY DEF Upsert
<1>2. date \in Nat /\ (ledger[m] # None => date = ledger[m].appliedAt)
    BY MeasurementAssumption, LedgerAssumption DEF MeasureInv, TypeOK, Ledgers, Rows, Days
<1> HIDE DEF date
<1>3. [status |-> status, appliedAt |-> date] \in Rows
    BY <1>2 DEF Rows
<1>4. ledger' \in Ledgers
    BY <1>1, <1>3 DEF MeasureInv, TypeOK, Ledgers
<1>5. TypeOK'
    BY <1>4 DEF MeasureInv, TypeOK
<1>6. /\ ledger'[m] = [status |-> status, appliedAt |-> date]
      /\ \A n \in Mutations \ {m} : ledger'[n] = ledger[n]
    BY <1>1 DEF MeasureInv, TypeOK, Ledgers
<1>7. ASSUME NEW n \in Mutations PROVE RowDated(n)'
    <2>1. CASE n # m
        BY <1>6, <2>1 DEF MeasureInv, RowDated, Validated
    <2> QED BY <2>1
<1>8. ASSUME NEW n \in Mutations, Standing(n)
      PROVE  Standing(n)' /\ ledger'[n].appliedAt = ledger[n].appliedAt
    <2>1. CASE n # m
        BY <1>6, <1>8, <2>1 DEF Standing, Validated
    <2>2. CASE n = m
        <3>1. ledger'[m] # None
            BY <1>3, <1>6, LedgerAssumption
        <3>2. m \in withdrawn'
            BY <1>8, <2>2 DEF Standing
        <3>3. ledger'[m].appliedAt = ledger[m].appliedAt
            BY <1>2, <1>6, <1>8, <2>2 DEF Standing
        <3> QED BY <2>2, <3>1, <3>2, <3>3 DEF Standing
    <2> QED BY <2>1, <2>2
<1>9. ASSUME NEW d \in Days, NEW i \in items'[d] PROVE ItemTrue(i)'
    <2>1. i \in Items /\ ItemTrue(i)
        BY <1>9 DEF MeasureInv, TypeOK
    <2>2. i.mutation \in Mutations
        BY <2>1 DEF Items
    <2> QED BY <1>8, <2>1, <2>2 DEF ItemTrue
<1>10. ASSUME NEW x \in Mutations \X Windows PROVE SampleTrue(x)'
    <2>1. x[1] \in Mutations /\ SampleTrue(x) /\ sample'[x] = sample[x]
        BY DEF MeasureInv
    <2> QED BY <1>8, <2>1 DEF SampleTrue
<1> QED BY <1>5, <1>7, <1>9, <1>10 DEF MeasureInv

\* The growth workflow keeps the invariant.
LEMMA GrowthKept ==
    ASSUME MeasureInv, NEW m \in Mutations, Growth(m)
    PROVE  MeasureInv'
<1>1. ASSUME NEW status \in Statuses, Recorded(m, status) PROVE MeasureInv'
    <2>1. /\ ~Validated(ledger, m)
          /\ ledger' = Upsert(ledger, m, status, day)
          /\ UNCHANGED <<withdrawn, sample, day, pc, items, failed>>
        BY <1>1 DEF Recorded, CandidateEligible
    <2>2. /\ since' \in [Mutations -> Days \cup {None}]
          /\ revived' \in SUBSET Mutations /\ doubted' \in SUBSET Mutations
          /\ withdrawn' \in SUBSET Mutations
        BY <1>1 DEF Recorded, MeasureInv, TypeOK
    <2>3. \A n \in Mutations \ {m} :
              since'[n] = since[n] /\ (n \in revived' <=> n \in revived)
        BY <1>1 DEF Recorded, MeasureInv, TypeOK
    <2>4. RowDated(m)'
        <3>1. CASE status = "ROLLED_BACK"
            BY <1>1, <3>1 DEF Recorded, RowDated
        <3>2. CASE status = "VALIDATED" /\ ledger[m] # None
            BY <1>1, <2>1, <3>2 DEF Recorded, RowDated, MeasureInv
        <3>3. CASE status = "VALIDATED" /\ ledger[m] = None
            <4>1. ledger'[m] = [status |-> "VALIDATED", appliedAt |-> day]
                BY <2>1, <3>3 DEF Upsert, MeasureInv, TypeOK, Ledgers
            <4>2. since'[m] = day
                BY <1>1, <3>3 DEF Recorded, MeasureInv, TypeOK
            <4> QED BY <4>1, <4>2 DEF RowDated, Validated
        <3> QED BY <3>1, <3>2, <3>3 DEF Statuses
    <2> QED BY <2>1, <2>2, <2>3, <2>4, RowWritten
<1>2. CASE Corrected(m)
    <2>1. /\ ledger' = Upsert(ledger, m, "ROLLED_BACK", day)
          /\ m \in withdrawn' /\ m \in revived' /\ withdrawn \subseteq withdrawn'
          /\ UNCHANGED <<sample, day, pc, items, failed>>
        BY <1>2 DEF Corrected
    <2>2. /\ since' \in [Mutations -> Days \cup {None}]
          /\ revived' \in SUBSET Mutations /\ doubted' \in SUBSET Mutations
          /\ withdrawn' \in SUBSET Mutations
        BY <1>2 DEF Corrected, MeasureInv, TypeOK
    <2>3. \A n \in Mutations \ {m} :
              since'[n] = since[n] /\ (n \in revived' <=> n \in revived)
        BY <1>2 DEF Corrected, MeasureInv, TypeOK
    <2>4. RowDated(m)'
        BY <2>1 DEF RowDated
    <2>5. "ROLLED_BACK" \in Statuses
        BY DEF Statuses
    <2> QED BY <2>1, <2>2, <2>3, <2>4, <2>5, RowWritten
<1>3. CASE NotCorrected(m)
    BY <1>3
    DEF NotCorrected, MeasureInv, TypeOK, RowDated, ItemTrue, SampleTrue, Standing
<1> QED BY <1>1, <1>2, <1>3 DEF Growth

\* Every step keeps the invariant.
LEMMA StepKept ==
    ASSUME MeasureInv, Next
    PROVE  MeasureInv'
<1>1. CASE \E m \in Mutations : Growth(m)
    BY <1>1, GrowthKept
<1>2. CASE StartMeasurement
    BY <1>2 DEF StartMeasurement, MeasureInv, TypeOK, RowDated, ItemTrue, SampleTrue, Standing, growth
<1>3. ASSUME NEW d \in Days, ListDue(d) PROVE MeasureInv'
    <2>1. PICK T : /\ T \in First(Limit, DueItems) \cup {items[d]}
                   /\ items' = [items EXCEPT ![d] = T]
        BY <1>3 DEF ListDue, MeasureInv, TypeOK
    <2>2. \A i \in T : i \in Items /\ ItemTrue(i)
        BY <2>1, ListedIsTrue DEF MeasureInv, TypeOK
    <2>3. /\ UNCHANGED <<growth, sample, day, failed>>
          /\ pc' \in [Days -> {"new", "list", "measure", "notify", "COMPLETED", "FAILED"}]
        BY <1>3 DEF ListDue, MeasureInv, TypeOK
    <2>4. TypeOK'
        BY <2>1, <2>2, <2>3 DEF MeasureInv, TypeOK, growth
    <2>5. \A e \in Days : \A i \in items'[e] : ItemTrue(i)
        BY <2>1, <2>2 DEF MeasureInv, TypeOK
    <2> QED BY <2>3, <2>4, <2>5 DEF MeasureInv, RowDated, ItemTrue, SampleTrue, Standing, growth
<1>4. ASSUME NEW d \in Days, Measure(d) PROVE MeasureInv'
    <2>1. PICK i \in items[d] :
             \/ Store(i) /\ Drop(d, i) /\ UNCHANGED failed
             \/ AfterFailure(d, i) /\ UNCHANGED sample
             \/ Store(i) /\ AfterFailure(d, i)
        BY <1>4 DEF Measure
    <2>2. UNCHANGED <<growth, day>>
        BY <1>4 DEF Measure
    <2>3. Drop(d, i)
        BY <2>1 DEF AfterFailure
    <2>4. /\ sample' \in [Mutations \X Windows -> Samples \cup {None}]
          /\ \A x \in Mutations \X Windows : SampleTrue(x)'
        <3>1. CASE Store(i)
            BY <2>2, <3>1, StoreKept
        <3>2. CASE UNCHANGED sample
            BY <2>2, <3>2 DEF MeasureInv, TypeOK, SampleTrue, Standing, growth
        <3> QED BY <2>1, <3>1, <3>2
    <2>5. /\ items' \in [Days -> SUBSET Items]
          /\ \A e \in Days : items'[e] \subseteq items[e]
          /\ pc' \in [Days -> {"new", "list", "measure", "notify", "COMPLETED", "FAILED"}]
          /\ failed' \in [Days -> SUBSET Items]
        BY <2>1, <2>3 DEF AfterFailure, Drop, MeasureInv, TypeOK
    <2>6. TypeOK'
        BY <2>2, <2>4, <2>5 DEF MeasureInv, TypeOK, growth
    <2> QED BY <2>2, <2>4, <2>5, <2>6 DEF MeasureInv, RowDated, ItemTrue, Standing, growth
<1>5. ASSUME NEW d \in Days, Notify(d) PROVE MeasureInv'
    BY <1>5 DEF Notify, MeasureInv, TypeOK, RowDated, ItemTrue, SampleTrue, Standing, growth
<1>6. CASE Tick
    <2>1. /\ day' = day + 1 /\ day < MaxDay
          /\ UNCHANGED <<growth, sample, pc, items, failed>>
        BY <1>6 DEF Tick, growth
    <2>2. TypeOK'
        BY <2>1, MeasurementAssumption DEF MeasureInv, TypeOK, Days, growth
    <2>3. ASSUME NEW d \in Days, NEW i \in items[d] PROVE ItemTrue(i)'
        <3>1. ItemTrue(i) /\ i \in Items
            BY <2>3 DEF MeasureInv, TypeOK
        <3>2. day \in Nat
            BY MeasurementAssumption DEF MeasureInv, TypeOK, Days
        <3> QED BY <2>1, <3>1, <3>2, ItemNumbers DEF ItemTrue, Standing, Validated, growth
    <2> QED BY <2>1, <2>2, <2>3 DEF MeasureInv, RowDated, SampleTrue, Standing, Validated, growth
<1> QED BY <1>1, <1>2, <1>3, <1>4, <1>5, <1>6 DEF Next, Step

LEMMA AlwaysMeasureInv == Spec => []MeasureInv
<1>1. Init => MeasureInv
    BY MeasurementAssumption
    DEF Init, MeasureInv, TypeOK, Ledgers, Days, RowDated, SampleTrue, Standing
<1>2. MeasureInv /\ [Next]_vars => MeasureInv'
    <2> SUFFICES ASSUME MeasureInv, UNCHANGED vars PROVE MeasureInv'
        BY StepKept
    <2> QED BY DEF vars, growth, MeasureInv, TypeOK, RowDated, ItemTrue, SampleTrue, Standing
<1> QED BY <1>1, <1>2, PTL DEF Spec
-----------------------------------------------------------------------------
\* Every variable keeps its type.
THEOREM MeasurementTypeCorrect == Spec => []TypeOK
<1>1. MeasureInv => TypeOK
    BY DEF MeasureInv
<1> QED BY <1>1, AlwaysMeasureInv, PTL

\* Figures are stored only for days that were final when they were asked for,
\* however late a listed item is measured and however often a day's workflow is
\* run again (outcomes.py:164,194).
THEOREM PeriodsAreFinal == Spec => []PeriodIsFinal
<1>1. MeasureInv => PeriodIsFinal
    BY DEF MeasureInv, TypeOK, PeriodIsFinal, SampleTrue
<1> QED BY <1>1, AlwaysMeasureInv, PTL

\* A mutation whose outcome is in the table is validated, unless its VALIDATED row
\* had been stored without an answer and was corrected afterwards, however often it
\* was rolled back before (outcomes.py:161, autonomous.py:229 and 253).
THEOREM MeasuredUnlessWithdrawn == Spec => []OnlyValidatedMeasured
<1>1. MeasureInv => OnlyValidatedMeasured
    BY DEF MeasureInv, TypeOK, OnlyValidatedMeasured, SampleTrue, Standing
<1> QED BY <1>1, AlwaysMeasureInv, PTL

\* The measured days lie after the change, unless the mutation was rolled back once
\* and the table still has the date of that attempt (outcomes.py:122,194).
THEOREM PeriodsFollowChanges == Spec => []PeriodFollowsChangeUnlessStale
<1>1. MeasureInv => PeriodFollowsChangeUnlessStale
    <2> SUFFICES ASSUME MeasureInv, NEW x \in Mutations \X Windows,
                        sample[x] # None, x[1] \notin revived
                 PROVE  sample[x].first > since[x[1]]
        BY DEF MeasureInv, TypeOK, PeriodFollowsChangeUnlessStale
    <2>1. x[1] \in Mutations /\ ledger[x[1]] # None /\ RowDated(x[1])
          /\ sample[x].first = ledger[x[1]].appliedAt + 1
        BY DEF MeasureInv, SampleTrue, Standing
    <2>2. ledger[x[1]].appliedAt \in Nat /\ since[x[1]] = ledger[x[1]].appliedAt
        BY <2>1, LedgerAssumption
        DEF MeasureInv, TypeOK, Ledgers, Rows, Validated, RowDated
    <2> QED BY <2>1, <2>2
<1> QED BY <1>1, AlwaysMeasureInv, PTL
=============================================================================
