------------------------- MODULE OutcomeMeasurement -------------------------
(***************************************************************************)
(* OutcomeMeasurementWorkflow (workflows/measurement.py): once a day it    *)
(* lists the validated mutations whose 7, 14 or 28 days are over and stores *)
(* their Search Console figures next to the baseline in the table          *)
(* autonomous_measurements (activities/outcomes.py).  The growth workflow  *)
(* appears here only by what it writes into the ledger: the row of a       *)
(* mutation that passed the guard, and the correction of a row that was     *)
(* stored without an answer, which no guard precedes.                      *)
(*                                                                         *)
(* What list_due_measurements returns travels to measure_and_record_outcome *)
(* through Temporal's data converter.  DatesSurvive says whether applied_at *)
(* is still a datetime afterwards.  With the default JSON converter, which *)
(* worker.py and autonomous_scheduler.py use, it is not: the items are     *)
(* typed dict[str, Any] and the date arrives as text.                      *)
(***************************************************************************)
EXTENDS MutationLedger, FiniteSets

CONSTANTS
    Windows,      \* the windows in days, 7, 14 and 28 in the code
    Lag,          \* _GSC_FINALITY_LAG_DAYS, 3 in the code
    Limit,        \* items listed at most, 50 in the code
    FirstDay,     \* bound: the first day on which a workflow is started
    MaxDay,       \* bound: the last day
    Broken,       \* mutations of sites that left the portfolio file
    DatesSurvive, \* does the data converter keep a datetime a datetime?
    Faults        \* the failures that may happen

FaultKinds ==
    { "record_lost",   \* VALIDATED is stored, and no attempt is answered
      "list_fails",    \* no attempt to list what is due is answered
      "measure_fails", \* neither attempt is answered, none stored anything
      "measure_lost",  \* neither attempt is answered, one stored the figures
      "notify_fails" } \* Telegram is down for all three attempts

ASSUME MeasurementAssumption ==
    /\ Windows \subseteq Nat \ {0}
    /\ {Lag, Limit, FirstDay, MaxDay} \subseteq Nat
    /\ DatesSurvive \in BOOLEAN
    /\ Faults \subseteq FaultKinds

VARIABLES
    ledger,   \* the table autonomous_mutations
    since,    \* the day since which each mutation is validated
    revived,  \* mutations that were rolled back once
    doubted,  \* mutations whose VALIDATED row is stored and was not answered
    withdrawn, \* mutations whose VALIDATED row was corrected to ROLLED_BACK
    sample,   \* the table autonomous_measurements, by mutation and window
    day,      \* wall clock, in days
    pc,       \* the workflow of each day
    items,    \* the items still to do
    failed    \* the items whose failure the workflow noted

growth == <<ledger, since, revived, doubted, withdrawn>>
vars == <<growth, sample, day, pc, items, failed>>

Days  == 0..MaxDay
Items == [mutation: Mutations, window: Windows, appliedAt: Days]

Samples == [first: Nat, last: Nat, taken: Days]

TypeOK ==
    /\ ledger \in Ledgers
    /\ since \in [Mutations -> Days \cup {None}]
    /\ revived \subseteq Mutations
    /\ doubted \subseteq Mutations
    /\ withdrawn \subseteq Mutations
    /\ sample \in [Mutations \X Windows -> Samples \cup {None}]
    /\ day \in Days
    /\ pc \in [Days -> {"new", "list", "measure", "notify", "COMPLETED", "FAILED"}]
    /\ items \in [Days -> SUBSET Items]
    /\ failed \in [Days -> SUBSET Items]

Init ==
    /\ ledger = [m \in Mutations |-> None]
    /\ since = [m \in Mutations |-> None]
    /\ revived = {}
    /\ doubted = {}
    /\ withdrawn = {}
    /\ sample = [x \in Mutations \X Windows |-> None]
    /\ day = 0
    /\ pc = [d \in Days |-> "new"]
    /\ items = [d \in Days |-> {}]
    /\ failed = [d \in Days |-> {}]
-----------------------------------------------------------------------------
\* The row of a mutation that passed the candidate guard and was applied.  When
\* VALIDATED is stored and no attempt is answered, the workflow goes on to roll back.
Recorded(m, status) ==
    /\ CandidateEligible(ledger, m, day)
    /\ ledger' = Upsert(ledger, m, status, day)
    /\ \/ /\ status = "VALIDATED"
          /\ since' = [since EXCEPT ![m] = day]
          /\ \/ UNCHANGED doubted
             \/ "record_lost" \in Faults /\ doubted' = doubted \cup {m}
          /\ UNCHANGED revived
       \/ /\ status = "ROLLED_BACK"
          /\ since' = [since EXCEPT ![m] = None]
          /\ revived' = revived \cup {m}
          /\ UNCHANGED doubted
    /\ UNCHANGED <<withdrawn, sample, day, pc, items, failed>>

\* The except branch rolls back and corrects the row, without another guard.
Corrected(m) ==
    /\ m \in doubted
    /\ ledger' = Upsert(ledger, m, "ROLLED_BACK", day)
    /\ since' = [since EXCEPT ![m] = None]
    /\ revived' = revived \cup {m}
    /\ withdrawn' = withdrawn \cup {m}
    /\ doubted' = doubted \ {m}
    /\ UNCHANGED <<sample, day, pc, items, failed>>

\* The rollback or its record fails, and the row goes on to say VALIDATED.
NotCorrected(m) ==
    /\ m \in doubted
    /\ doubted' = doubted \ {m}
    /\ UNCHANGED <<ledger, since, revived, withdrawn, sample, day, pc, items, failed>>

Growth(m) ==
    (\E status \in Statuses : Recorded(m, status)) \/ Corrected(m) \/ NotCorrected(m)

Due_AnyStatus(m, w) ==
    /\ ledger[m] # None
    /\ sample[<<m, w>>] = None
    /\ ledger[m].appliedAt + w + Lag <= day

Due_NoLag(m, w) ==
    /\ Validated(ledger, m)
    /\ sample[<<m, w>>] = None
    /\ ledger[m].appliedAt + w <= day

\* The WHERE clause of list_due_measurements.
Due(m, w) ==
    /\ Validated(ledger, m)
    /\ sample[<<m, w>>] = None
    /\ ledger[m].appliedAt + w + Lag <= day

DueItems ==
    {[mutation |-> x[1], window |-> x[2], appliedAt |-> ledger[x[1]].appliedAt] :
        x \in {y \in Mutations \X Windows : Due(y[1], y[2])}}

\* ORDER BY applied_at, window_days.
Before(i, j) ==
    i.appliedAt < j.appliedAt \/ (i.appliedAt = j.appliedAt /\ i.window < j.window)

First(n, S) ==
    {T \in SUBSET S :
        /\ Cardinality(T) = IF Cardinality(S) < n THEN Cardinality(S) ELSE n
        /\ \A i \in T, j \in S \ T : ~Before(j, i)}

\* The scheduler: one workflow per day, started again on that day if it failed.
StartMeasurement ==
    /\ day >= FirstDay
    /\ pc[day] \in {"new", "FAILED"}
    /\ pc' = [pc EXCEPT ![day] = "list"]
    /\ UNCHANGED <<growth, sample, day, items, failed>>

ListDue(d) ==
    /\ pc[d] = "list"
    /\ \/ \E T \in First(Limit, DueItems) :
             /\ items' = [items EXCEPT ![d] = T]
             /\ pc' = [pc EXCEPT ![d] = IF T = {} THEN "COMPLETED" ELSE "measure"]
       \/ /\ "list_fails" \in Faults
          /\ pc' = [pc EXCEPT ![d] = "FAILED"]
          /\ UNCHANGED items
    /\ UNCHANGED <<growth, sample, day, failed>>

Drop(d, i) ==
    /\ items' = [items EXCEPT ![d] = @ \ {i}]
    /\ pc' = [pc EXCEPT ![d] = IF items[d] = {i} THEN "notify" ELSE "measure"]

AfterFailure_Aborts(d, i) ==
    /\ items' = [items EXCEPT ![d] = {}]
    /\ pc' = [pc EXCEPT ![d] = "notify"]
    /\ failed' = [failed EXCEPT ![d] = @ \cup {i}]

\* The exception of one item is noted and the loop goes on.
AfterFailure(d, i) ==
    /\ Drop(d, i)
    /\ failed' = [failed EXCEPT ![d] = @ \cup {i}]

Store_SameDay(i) ==
    sample' = [sample EXCEPT ![<<i.mutation, i.window>>] =
        IF @ # None THEN @
        ELSE [first |-> i.appliedAt, last |-> i.appliedAt + i.window - 1,
              taken |-> day]]

\* The whole days after the change; INSERT ... ON CONFLICT DO NOTHING.
Store(i) ==
    sample' = [sample EXCEPT ![<<i.mutation, i.window>>] =
        IF @ # None THEN @
        ELSE [first |-> i.appliedAt + 1, last |-> i.appliedAt + i.window,
              taken |-> day]]

Measurable(i) == DatesSurvive /\ i.mutation \notin Broken

Measure(d) ==
    /\ pc[d] = "measure"
    /\ \E i \in items[d] :
          /\ \A j \in items[d] : ~Before(j, i)
          /\ \/ Measurable(i) /\ Store(i) /\ Drop(d, i) /\ UNCHANGED failed
             \/ /\ ~Measurable(i) \/ "measure_fails" \in Faults
                /\ AfterFailure(d, i) /\ UNCHANGED sample
             \/ /\ Measurable(i) /\ "measure_lost" \in Faults
                /\ Store(i) /\ AfterFailure(d, i)
    /\ UNCHANGED <<growth, day>>

\* Nothing catches the exception of notify_telegram.
Notify(d) ==
    /\ pc[d] = "notify"
    /\ \/ pc' = [pc EXCEPT ![d] = "COMPLETED"]
       \/ "notify_fails" \in Faults /\ pc' = [pc EXCEPT ![d] = "FAILED"]
    /\ failed' = [failed EXCEPT ![d] = {}]
    /\ UNCHANGED <<growth, sample, day, items>>

Tick ==
    /\ day < MaxDay
    /\ day' = day + 1
    /\ UNCHANGED <<growth, sample, pc, items, failed>>

Step(d) == ListDue(d) \/ Measure(d) \/ Notify(d)

Next ==
    \/ \E m \in Mutations : Growth(m)
    \/ StartMeasurement
    \/ \E d \in Days : Step(d)
    \/ Tick

\* The scheduler looks every minute, and an open workflow keeps making steps.
Spec ==
    /\ Init /\ [][Next]_vars
    /\ WF_vars(StartMeasurement)
    /\ \A d \in Days : WF_vars(Step(d))
-----------------------------------------------------------------------------
(***************************************************************************)
(* Properties.                                                             *)
(***************************************************************************)
\* Figures are stored only for days that were final when they were asked for,
\* also when an item is measured long after it was listed (outcomes.py:164,194).
PeriodIsFinal ==
    \A x \in DOMAIN sample : sample[x] # None => sample[x].last + Lag <= sample[x].taken

\* No day counts as an effect of a change that was not live on it: the figures are
\* those of days after the change, unless it was rolled back once and the table
\* still has the date of that attempt (outcomes.py:122 and 194).
PeriodFollowsChangeUnlessStale ==
    \A x \in DOMAIN sample :
        sample[x] # None /\ x[1] \notin revived => sample[x].first > since[x[1]]

\* The outcome memory speaks of changes that are live: between the listing and the
\* end of a window no validated mutation is rolled back, and a mutation that was
\* rolled back is not measured, unless its VALIDATED row had been stored without an
\* answer and was corrected (outcomes.py:161 and 263, autonomous.py:229 and 253).
OnlyValidatedMeasured ==
    \A x \in DOMAIN sample :
        sample[x] # None => Validated(ledger, x[1]) \/ x[1] \in withdrawn

\* The window of a mutation is among some items.
About(x, I) == \E i \in I : x = <<i.mutation, i.window>>

\* No item is forgotten because another one fails: whatever a workflow lists is
\* measured or among the failures that it reports (measurement.py:31 and 43).
ListedIsAnswered ==
    \A x \in Mutations \X Windows :
        (\E d \in Days : About(x, items[d]))
            ~> sample[x] # None \/ \E d \in Days : About(x, failed[d])

\* Whatever is due before the workflow of the day starts gets measured: the return
\* of the listing is what measure_and_record_outcome takes (measurement.py:31-37).
DueIsMeasured ==
    \A m \in Mutations \ Broken, w \in Windows :
        Due(m, w) /\ pc[day] = "new" ~> sample[<<m, w>>] # None
=============================================================================
