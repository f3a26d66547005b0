------------------------- MODULE GuardedWriteProofs -------------------------
(***************************************************************************)
(* AutonomousGrowth implements GuardedWrite, for every number of           *)
(* executions, sites, URLs, posts (two URLs may name one post) and values, *)
(* under the conditions of SettledWrites: executions do not overlap, a     *)
(* site is changed once per execution as the settings have it, nobody else *)
(* writes to a post, and the ledger can be trusted to answer in one way.   *)
(***************************************************************************)
EXTENDS AutonomousGrowthProofs

\* A record that is not answered either never lands or always does: with both,
\* a claim can be left behind that no post supports.
SettledWrites ==
    /\ ~Overlap
    /\ MaxMutationsPerSite = 1
    /\ Faults \subseteq {"gates", "notify_fails", "record_fails", "record_lost"}
    /\ "record_fails" \notin Faults \/ "record_lost" \notin Faults

CurrentPost(r) == PostOf[Url(r)]

\* The post holds the snapshot, or what WordPress made of it when it was sent back.
Fresh(r) == wp[CurrentPost(r)] = snap[r] \/ wp[CurrentPost(r)] \in SentBack(snap[r])

\* The snapshot is fresh from the moment it is read to the moment the post is
\* changed, and again when the rollback is done.
SnapshotFresh(r) ==
    /\ pc[r] \in {"implement", "baseline", "apply"} => Fresh(r)
    /\ pc[r] = "rerecord" => wp[CurrentPost(r)] \in SentBack(snap[r])
    /\ pc[r] = "mutate" => Fresh(r) \/ BudgetExhausted(r)

\* While a change is open its backup is the snapshot, and what is about to be
\* recorded as validated is live.
ChangeKnown(r) ==
    /\ Writing(r) => backup[Mutation(r)] = snap[r]
    /\ pc[r] = "record" => Matches(r)

\* No claim is made before the record, nor ever left by one that never lands.
NotYetClaimed(r) ==
    /\ pc[r] \in {"baseline", "apply", "validate", "record"} => ~Validated(ledger, Mutation(r))
    /\ pc[r] \in InPlan /\ "record_lost" \notin Faults => ~Validated(ledger, Mutation(r))

Alone == \A q, r \in Runs : pc[q] \in Open /\ pc[r] \in Open => q = r

SettledInv ==
    /\ Alone
    /\ inflight = {}
    /\ \A r \in Runs : SnapshotFresh(r) /\ ChangeKnown(r) /\ NotYetClaimed(r)

Claims == {m \in Mutations : Validated(ledger, m)}

USE DEF Stages, Open, Closed, Loop, InPlan, InSnap
-----------------------------------------------------------------------------
\* Recording a mutation claims it or withdraws the claim, and touches no other.
LEMMA UpsertClaims ==
    ASSUME LoopTypeInv, NEW r \in Runs, plan[r] # <<>>, NEW st \in Statuses,
           UpsertRow(r, st)
    PROVE  /\ st = "VALIDATED" => Claims' = Claims \cup {Mutation(r)}
           /\ st = "ROLLED_BACK" => Claims' = Claims \ {Mutation(r)}
           /\ Validated(ledger', Mutation(r)) <=> st = "VALIDATED"
<1>1. ledger \in Ledgers /\ Mutation(r) \in Mutations /\ day \in Nat
    BY CurrentTypes DEF LoopTypeInv, DataOK
<1> DEFINE row == [status    |-> st,
                   appliedAt |-> IF ledger[Mutation(r)] = None THEN day
                                 ELSE ledger[Mutation(r)].appliedAt]
<1>2. ledger' = [ledger EXCEPT ![Mutation(r)] = row]
    BY DEF UpsertRow, Upsert
<1>3. row \in Rows /\ row.status = st
    BY <1>1 DEF Ledgers, Rows
<1>4. row # None
    BY <1>3, LedgerAssumption
<1> HIDE DEF row
<1>5. ledger'[Mutation(r)] = row /\ \A m \in Mutations \ {Mutation(r)} : ledger'[m] = ledger[m]
    BY <1>1, <1>2 DEF Ledgers
<1>6. Validated(ledger', Mutation(r)) <=> st = "VALIDATED"
    BY <1>3, <1>4, <1>5 DEF Validated
<1>7. \A m \in Mutations \ {Mutation(r)} : Validated(ledger', m) <=> Validated(ledger, m)
    BY <1>5 DEF Validated
<1>8. Claims' = {m \in Mutations : Validated(ledger', m)}
    BY DEF Claims
<1> QED BY <1>1, <1>6, <1>7, <1>8 DEF Claims, Statuses

\* Only an open execution makes steps.
LEMMA StepOpen ==
    ASSUME NEW r \in Runs, Step(r)
    PROVE  pc[r] \in Open
BY DEF Step, Analyse, AnalyseFails, StepFails, ResolveSite, TargetGuard, ReadTarget,
       Implement, NextMutation, CaptureBaseline, ApplyRefused, ApplyFails, Apply,
       ApplyLost, ApplyLate, Validate, Record, RecordFails, Rollback, RollbackFails,
       Rerecord, RerecordFails, Notify

\* Only one execution is open, and a late write is never left behind.
LEMMA StepAlone ==
    ASSUME SettledWrites, LoopTypeInv, SettledInv, NEW r \in Runs, Step(r)
    PROVE  Alone' /\ inflight' = {}
<1> USE DEF LoopTypeInv
<1>2. Alone'
    BY StepOpen, StepFrame DEF Frame, SettledInv, Alone
<1>3. inflight' = inflight
    BY DEF SettledWrites, Step, stores, Analyse, AnalyseFails, StepFails, ResolveSite,
           TargetGuard, ReadTarget, Implement, NextMutation, CaptureBaseline,
           ApplyRefused, ApplyFails, Apply, ApplyLost, ApplyLate, Validate, Record,
           RecordFails, Unanswered, Rollback, RollbackFails, LeftBehind, Rerecord,
           RerecordFails, Notify
<1> QED BY <1>2, <1>3 DEF SettledInv

\* What a step of the open execution keeps of its own snapshot and change.
LEMMA StepSettled ==
    ASSUME SettledWrites, LoopTypeInv, BackupInv, SettledInv, NEW r \in Runs, Step(r)
    PROVE  (SnapshotFresh(r) /\ ChangeKnown(r) /\ NotYetClaimed(r))'
<1> USE DEF LoopTypeInv, SettledInv
<1>1. /\ targets[r] # <<>> => CurrentPost(r) \in Posts /\ Site(r) \in Sites
      /\ plan[r] # <<>> => /\ Mutation(r) \in Mutations
                           /\ Mutation(r).url = Url(r)
                           /\ PostOfM(Mutation(r)) = CurrentPost(r)
      /\ pc[r] \in Loop => targets[r] # <<>>
      /\ pc[r] \in InPlan => plan[r] # <<>>
    BY CurrentTypes DEF CurrentPost, PostOfM, ControlInv, LoopInv
<1>2. CASE pc'[r] \in {"resolve", "target_guard", "read", "notify"} \cup Closed
    BY <1>2 DEF SnapshotFresh, ChangeKnown, NotYetClaimed, Writing
<1>3. CASE ReadTarget(r)
    <2>1. pc'[r] = "implement" /\ snap'[r] = wp[CurrentPost(r)] /\ wp' = wp
          /\ UNCHANGED targets
        BY <1>3 DEF ReadTarget, CurrentPost, stores, ControlInv, ControlOK
    <2> QED BY <2>1
            DEF SnapshotFresh, Fresh, ChangeKnown, NotYetClaimed, Writing, CurrentPost, Url
<1>4. CASE Implement(r) /\ pc'[r] = "mutate"
    <2>1. UNCHANGED <<targets, snap, wp>> /\ pc[r] = "implement"
        BY <1>4 DEF Implement, EndIntervention, stores, ControlInv, ControlOK
    <2>2. Fresh(r)
        BY <2>1 DEF SnapshotFresh
    <2> QED BY <1>4, <2>1, <2>2
            DEF SnapshotFresh, Fresh, SentBack, ChangeKnown, NotYetClaimed, Writing, CurrentPost, Url
<1>5. CASE NextMutation(r) /\ pc'[r] \in {"baseline", "mutate"}
    <2>1. /\ pc[r] = "mutate" /\ ~BudgetExhausted(r)
          /\ UNCHANGED <<targets, snap, wp, ledger, spent>>
          /\ pc'[r] = "baseline" => plan' = plan /\ ~Validated(ledger, Mutation(r))
        BY <1>5 DEF NextMutation, EndIntervention, EndMutation, Goto, CandidateEligible,
                    outcome, stores, ControlInv, ControlOK
    <2>2. Fresh(r)
        BY <2>1 DEF SnapshotFresh
    <2> QED BY <1>5, <2>1, <2>2
            DEF SnapshotFresh, Fresh, SentBack, ChangeKnown, NotYetClaimed, Writing, CurrentPost, Url, Mutation
<1>6. CASE CaptureBaseline(r)
    <2>1. /\ pc[r] = "baseline" /\ pc'[r] = "apply"
          /\ UNCHANGED <<targets, snap, plan, wp, ledger>>
        BY <1>6 DEF CaptureBaseline, Goto, stores, ControlInv, ControlOK
    <2> QED BY <2>1
            DEF SnapshotFresh, Fresh, SentBack, ChangeKnown, NotYetClaimed, Writing,
                CurrentPost, Url, Mutation
<1>7. CASE Apply(r)
    <2>1. /\ pc[r] = "apply" /\ pc'[r] = "validate"
          /\ UNCHANGED <<targets, snap, plan, ledger>>
          /\ SaveBackup(r)
        BY <1>7 DEF Apply, Goto, stores, ControlInv, ControlOK
    <2>2. backup'[Mutation(r)] = snap[r]
        BY <1>1, <2>1 DEF SaveBackup, DataOK
    <2> QED BY <2>1, <2>2
            DEF SnapshotFresh, ChangeKnown, NotYetClaimed, Writing, Mutation
<1>8. CASE Validate(r)
    <2>1. /\ pc[r] = "validate" /\ pc'[r] \in {"record", "rollback"}
          /\ pc'[r] = "record" => Matches(r)
          /\ UNCHANGED <<targets, snap, plan, wp, ledger, backup>>
        BY <1>8 DEF Validate, Goto, stores, ControlInv, ControlOK
    <2> QED BY <2>1
            DEF SnapshotFresh, ChangeKnown, NotYetClaimed, Writing, Mutation, Matches
<1>9. CASE Record(r)
    <2>1. /\ pc[r] = "record" /\ pc'[r] = "mutate"
          /\ UNCHANGED targets /\ Spend(r)
        BY <1>9 DEF Record, EndMutation, ControlInv, ControlOK
    <2>2. spent'[r][Site(r)] = spent[r][Site(r)] + 1 /\ spent[r][Site(r)] \in Nat
        BY <1>1, <2>1 DEF Spend, DataOK
    <2>3. BudgetExhausted(r)'
        BY <2>1, <2>2 DEF SettledWrites, BudgetExhausted, Site, Url
    <2> QED BY <2>1, <2>3 DEF SnapshotFresh, ChangeKnown, NotYetClaimed, Writing
<1>10. CASE RecordFails(r)
    <2>1. /\ pc[r] = "record" /\ pc'[r] = "rollback"
          /\ UNCHANGED <<targets, snap, plan, wp, backup>>
          /\ "record_lost" \notin Faults => UNCHANGED ledger
        BY <1>10 DEF RecordFails, AfterFailedRecord, Unanswered, Goto, SettledWrites,
                     ControlInv, ControlOK
    <2> QED BY <2>1
            DEF SnapshotFresh, ChangeKnown, NotYetClaimed, Writing, Mutation
<1>11. CASE Rollback(r)
    <2>1. /\ pc[r] = "rollback" /\ pc'[r] = "rerecord"
          /\ UNCHANGED <<targets, snap, plan, ledger, backup>>
          /\ Restore(r)
        BY <1>11 DEF Rollback, Goto, ControlInv, ControlOK
    <2>2. backup[Mutation(r)] = snap[r]
        BY <2>1 DEF ChangeKnown, Writing
    <2>3. wp'[CurrentPost(r)] \in SentBack(snap[r])
        BY <1>1, <2>1, <2>2 DEF Restore, RestoredBody, DataOK
    <2>4. (wp[CurrentPost(r)])' \in SentBack(snap'[r])
        BY <2>1, <2>3 DEF CurrentPost, Url, SentBack
    <2> QED BY <2>1, <2>4 DEF SnapshotFresh, ChangeKnown, NotYetClaimed, Writing, Mutation
<1>12. CASE Rerecord(r)
    <2>1. /\ pc[r] = "rerecord" /\ pc'[r] = "mutate"
          /\ UNCHANGED <<targets, snap, wp>>
        BY <1>12 DEF Rerecord, EndMutation, ControlInv, ControlOK
    <2>2. wp[CurrentPost(r)] \in SentBack(snap[r])
        BY <2>1 DEF SnapshotFresh
    <2>3. Fresh(r)'
        BY <2>1, <2>2 DEF Fresh, SentBack, CurrentPost, Url
    <2> QED BY <2>1, <2>3 DEF SnapshotFresh, ChangeKnown, NotYetClaimed, Writing
<1>13. \/ pc'[r] \in {"resolve", "target_guard", "read", "notify"} \cup Closed
       \/ ReadTarget(r)
       \/ Implement(r) /\ pc'[r] = "mutate"
       \/ NextMutation(r) /\ pc'[r] \in {"baseline", "mutate"}
       \/ CaptureBaseline(r) \/ Apply(r) \/ Validate(r) \/ Record(r) \/ RecordFails(r)
       \/ Rollback(r) \/ Rerecord(r)
    BY DEF ControlInv, ControlOK,
           Step, Goto, EndIntervention, EndMutation, Analyse, AnalyseFails, StepFails,
           ResolveSite, TargetGuard, Implement, NextMutation, ApplyRefused, ApplyFails,
           ApplyLost, ApplyLate, RollbackFails, RerecordFails, Notify, AfterFailedNotice
<1> QED BY <1>2, <1>3, <1>4, <1>5, <1>6, <1>7, <1>8, <1>9, <1>10, <1>11, <1>12, <1>13

\* A step does not disturb what the other executions rely on: none of them is open.
LEMMA OthersSettled ==
    ASSUME LoopTypeInv, SettledInv, NEW r \in Runs, pc[r] \in Open, Step(r),
           NEW q \in Runs, q # r
    PROVE  (SnapshotFresh(q) /\ ChangeKnown(q) /\ NotYetClaimed(q))'
<1>1. pc[q] \notin Open /\ pc'[q] = pc[q]
    BY StepFrame DEF SettledInv, Alone, Frame
<1> QED BY <1>1 DEF SnapshotFresh, ChangeKnown, NotYetClaimed, Writing

\* Every step keeps it.
LEMMA NextSettled ==
    SettledWrites /\ LoopTypeInv /\ BackupInv /\ SettledInv /\ [Next]_vars => SettledInv'
<1> SUFFICES ASSUME SettledWrites, LoopTypeInv, BackupInv, SettledInv, [Next]_vars
             PROVE  SettledInv'
    OBVIOUS
<1> DEFINE Settled(q) == SnapshotFresh(q) /\ ChangeKnown(q) /\ NotYetClaimed(q)
<1>1. ASSUME NEW r \in Runs, NEW m \in Modes, Start(r, m) PROVE SettledInv'
    <2>1. \A q \in Runs : pc[q] \notin Open
        BY <1>1 DEF SettledWrites, Start, MayStart
    <2>2. \A q \in Runs : pc'[q] \in Open => q = r
        BY <1>1, <2>1, StartFrame
    <2>3. inflight' = {}
        BY <1>1 DEF SettledInv, Start, stores
    <2>4. ASSUME NEW q \in Runs PROVE Settled(q)'
        <3>1. pc'[q] \notin Loop
            BY <1>1, <2>1, StartFrame
        <3> QED BY <3>1 DEF SnapshotFresh, ChangeKnown, NotYetClaimed, Writing
    <2> QED BY <2>2, <2>3, <2>4 DEF SettledInv, Alone
<1>2. ASSUME NEW r \in Runs, Step(r) PROVE SettledInv'
    <2>1. pc[r] \in Open
        BY <1>2, StepOpen
    <2> QED BY <1>2, <2>1, StepAlone, StepSettled, OthersSettled DEF SettledInv
<1>3. ASSUME Environment \/ UNCHANGED vars PROVE SettledInv'
    <2>1. UNCHANGED <<pc, targets, snap, plan, spent, backup>>
        BY <1>3, EnvironmentFrame
    <2>2. UNCHANGED <<wp, ledger, inflight>>
        BY <1>3 DEF SettledWrites, SettledInv, Environment, Tick, Land, Edit, Regate,
                    vars, stores
    <2> QED BY <2>1, <2>2 DEF SettledInv, Alone, SnapshotFresh, Fresh, SentBack, ChangeKnown,
               NotYetClaimed, Writing, Matches, CurrentPost, Site, Url, Mutation, BudgetExhausted
<1> QED BY <1>1, <1>2, <1>3 DEF Next

\* Nothing is open before the first execution.
LEMMA InitSettled == Init => SettledInv
BY DEF Init, SettledInv, Alone, SnapshotFresh, ChangeKnown, NotYetClaimed, Writing
-----------------------------------------------------------------------------
\* A step of r changes no other execution's open change.
LEMMA ChangeFrame ==
    ASSUME LoopTypeInv, NEW r \in Runs, Step(r)
    PROVE  /\ OpenChange' = [OpenChange EXCEPT ![r] = OpenChange'[r]]
           /\ OpenChange'[r] = IF Writing(r)'
                               THEN [mutation |-> Mutation(r)', before |-> snap'[r]]
                               ELSE None
           /\ OpenChange'[r] = OpenChange[r] => OpenChange' = OpenChange
<1>1. ASSUME NEW q \in Runs, q # r PROVE OpenChange'[q] = OpenChange[q]
    BY <1>1, StepFrame DEF OpenChange, Frame, Writing, Mutation
<1> QED BY <1>1 DEF OpenChange

\* The backup file of an open change exists.
LEMMA BackupIsThere ==
    ASSUME BackupInv, NEW r \in Runs, Writing(r)
    PROVE  backup[Mutation(r)] # None
BY DEF BackupInv, BackupReady

\* A step that starts no change is a stutter of the abstract specification, and
\* every other one is a step of it.
LEMMA StepRefines ==
    ASSUME SettledWrites, LoopTypeInv, BackupInv, SettledInv, NEW r \in Runs, Step(r)
    PROVE  [Guarded!Next]_(Guarded!vars)
<1> USE DEF LoopTypeInv, SettledInv
<1> DEFINE m == Mutation(r)
           closed == [OpenChange EXCEPT ![r] = None]
<1>0. /\ plan[r] # <<>> => /\ m \in Mutations
                           /\ PostOfM(m) = CurrentPost(r)
                           /\ CurrentPost(r) \in Posts
      /\ pc[r] \in InPlan => plan[r] # <<>>
      /\ Guarded!Mutations = Mutations
    BY CurrentTypes DEF CurrentPost, PostOfM, ControlInv, LoopInv,
       Mutations, Fields, Guarded!Mutations, Guarded!Fields
<1>1. ASSUME Writing(r)
      PROVE  /\ OpenChange[r] = [mutation |-> m, before |-> snap[r]]
             /\ OpenChange[r] # None
             /\ OpenChange[r].mutation = m /\ OpenChange[r].before = snap[r]
             /\ Guarded!PostOfChange(r) = CurrentPost(r)
             /\ Guarded!Undone(r) = {[wp EXCEPT ![CurrentPost(r)] = c] : c \in SentBack(snap[r])}
    <2>1. OpenChange[r] = [mutation |-> m, before |-> snap[r]]
        BY <1>1 DEF OpenChange
    <2>2. m \in Mutations /\ snap[r] \in Contents
        BY <1>0, <1>1 DEF Writing, ControlInv, ControlOK, LoopInv
    <2>3. OpenChange[r] # None
        BY <2>1, <2>2, GrowthAssumption
    <2>4. OpenChange[r].mutation = m /\ OpenChange[r].before = snap[r]
        BY <2>1
    <2>5. PostOf[m.url] = CurrentPost(r)
        BY <1>0, <1>1 DEF PostOfM, Writing
    <2>6. Guarded!PostOfChange(r) = CurrentPost(r)
        BY <2>4, <2>5 DEF Guarded!PostOfChange
    <2>7. Guarded!SentBack(snap[r]) = SentBack(snap[r])
        BY DEF Guarded!SentBack, SentBack, Guarded!Contents, Contents, Guarded!Fields, Fields
    <2> QED BY <2>1, <2>3, <2>4, <2>6, <2>7 DEF Guarded!Undone
<1>2. ASSUME UNCHANGED <<wp, ledger>>, ~Writing(r), ~Writing(r)'
      PROVE  UNCHANGED Guarded!vars
    <2>1. OpenChange' = OpenChange
        BY <1>2, ChangeFrame DEF OpenChange
    <2> QED BY <1>2, <2>1 DEF Guarded!vars, Validated
<1>3. ASSUME Apply(r) PROVE Guarded!Begin(r, m)
    <2>1. /\ pc[r] = "apply" /\ pc'[r] = "validate"
          /\ UNCHANGED <<targets, snap, plan, ledger>>
          /\ \E v \in StoredAs[m.value] : Put(PostOfM(m), m.field, v)
        BY <1>3 DEF Apply, Goto, stores, ControlInv, ControlOK
    <2>2. OpenChange' = [OpenChange EXCEPT ![r] = [mutation |-> m, before |-> snap[r]]]
        <3>1. Writing(r)' /\ Mutation(r)' = m /\ snap'[r] = snap[r]
            BY <2>1 DEF Writing, Mutation
        <3> QED BY <3>1, ChangeFrame
    <2>3. \E v \in StoredAs[m.value] : wp' = [wp EXCEPT ![PostOf[m.url]][m.field] = v]
        BY <2>1 DEF Put, PostOfM
    <2>6. /\ snap[r] \in Guarded!Contents
          /\ snap[r] = wp[PostOf[m.url]] \/ wp[PostOf[m.url]] \in Guarded!SentBack(snap[r])
        <3>1. snap[r] \in Contents /\ PostOf[m.url] = CurrentPost(r)
            BY <1>0, <2>1 DEF ControlInv, ControlOK, LoopInv, PostOfM
        <3>2. Fresh(r)
            BY <2>1 DEF SnapshotFresh
        <3> QED BY <3>1, <3>2 DEF Fresh, SentBack, Guarded!SentBack, Guarded!Contents, Contents,
                                  Guarded!Fields, Fields
    <2>4. \A q \in Runs : OpenChange[q] = None
        BY <2>1 DEF Alone, OpenChange, Writing
    <2>5. ~Validated(ledger, m)
        BY <2>1 DEF NotYetClaimed
    <2> QED BY <2>1, <2>2, <2>3, <2>4, <2>5, <2>6 DEF Guarded!Begin, Validated
<1>4. ASSUME Validate(r) \/ RecordFails(r) \/ Rollback(r) PROVE Guarded!Work(r)
    <2>1. /\ Writing(r) /\ Writing(r)' /\ UNCHANGED <<snap, plan>>
          /\ wp' = wp \/ Restore(r)
          /\ UNCHANGED ledger \/ UpsertRow(r, "VALIDATED")
        BY <1>4 DEF Validate, RecordFails, Rollback, Unanswered, AfterFailedRecord, Goto,
                    SettledWrites, Writing, stores, ControlInv, ControlOK
    <2>2. OpenChange' = OpenChange
        BY <1>1, <2>1, ChangeFrame DEF Mutation
    <2>3. wp' \in {wp} \cup Guarded!Undone(r)
        BY <1>0, <1>1, <2>1 DEF Restore, RestoredBody, ChangeKnown, Writing
    <2>4. Claims' \in {Claims \cup {m}, Claims \ {m}}
        <3>1. CASE UNCHANGED ledger
            BY <3>1 DEF Claims, Validated
        <3>2. CASE UpsertRow(r, "VALIDATED")
            BY <1>0, <2>1, <3>2, UpsertClaims DEF Statuses, Writing
        <3> QED BY <2>1, <3>1, <3>2
    <2> QED BY <1>1, <2>1, <2>2, <2>3, <2>4 DEF Guarded!Work, Guarded!Touch, Claims
<1>5. ASSUME Record(r) \/ Rerecord(r) \/ RerecordFails(r) PROVE Guarded!Close(r)
    <2>1. Writing(r) /\ ~Writing(r)' /\ wp' = wp
        BY <1>5 DEF Record, Rerecord, RerecordFails, EndMutation, EndIntervention, Writing,
                    ControlInv, ControlOK
    <2>2. OpenChange' = closed
        BY <2>1, ChangeFrame
    <2>3. CASE Record(r)
        <3>1. pc[r] = "record" /\ UpsertRow(r, "VALIDATED")
            BY <2>3 DEF Record
        <3>2. Claims' = Claims \cup {m}
            BY <1>0, <3>1, UpsertClaims DEF Statuses
        <3>3. wp[CurrentPost(r)][m.field] = m.value
            BY <1>0, <3>1 DEF ChangeKnown, Matches
        <3> QED BY <1>1, <2>1, <2>2, <3>2, <3>3
                DEF Guarded!Close, Guarded!Touch, Guarded!Claimed, Claims
    <2>4. CASE Rerecord(r) \/ RerecordFails(r)
        <3>1. /\ pc[r] = "rerecord"
              /\ \/ UpsertRow(r, "ROLLED_BACK")
                 \/ "record_lost" \notin Faults /\ UNCHANGED ledger
            BY <2>4 DEF Rerecord, RerecordFails, Unanswered, SettledWrites
        <3>2. Claims' = Claims \ {m}
            <4>1. CASE UpsertRow(r, "ROLLED_BACK")
                BY <1>0, <3>1, <4>1, UpsertClaims DEF Statuses
            <4>2. CASE "record_lost" \notin Faults /\ UNCHANGED ledger
                BY <3>1, <4>2 DEF NotYetClaimed, Claims, Validated
            <4> QED BY <3>1, <4>1, <4>2
        <3>3. wp' \in Guarded!Undone(r)
            <4>1. wp[CurrentPost(r)] \in SentBack(snap[r])
                BY <3>1 DEF SnapshotFresh
            <4>2. wp' = [wp EXCEPT ![CurrentPost(r)] = wp[CurrentPost(r)]]
                BY <1>0, <2>1, <3>1 DEF DataOK
            <4> QED BY <1>1, <2>1, <4>1, <4>2
        <3> QED BY <1>1, <2>1, <2>2, <3>2, <3>3
                DEF Guarded!Close, Guarded!Touch, Guarded!NotClaimed, Claims
    <2> QED BY <1>5, <2>3, <2>4
<1>6. \/ UNCHANGED <<wp, ledger>> /\ ~Writing(r) /\ ~Writing(r)'
      \/ Apply(r) \/ Validate(r) \/ RecordFails(r) \/ Rollback(r)
      \/ Record(r) \/ Rerecord(r) \/ RerecordFails(r)
    BY BackupIsThere
    DEF SettledWrites, Step, stores, Analyse, AnalyseFails, StepFails, ResolveSite, TargetGuard,
        ReadTarget, Implement, NextMutation, CaptureBaseline, ApplyRefused, ApplyFails,
        ApplyLost, ApplyLate, RollbackFails, Notify, AfterFailedNotice, Goto,
        EndIntervention, EndMutation, Writing, ControlInv, ControlOK
<1>7. CASE Apply(r)
    <2>1. m \in Guarded!Mutations
        BY <1>0, <1>7 DEF Apply
    <2> QED BY <1>3, <1>7, <2>1 DEF Guarded!Next
<1>8. CASE \/ Validate(r) \/ RecordFails(r) \/ Rollback(r)
           \/ Record(r) \/ Rerecord(r) \/ RerecordFails(r)
    BY <1>4, <1>5, <1>8 DEF Guarded!Next
<1> QED BY <1>2, <1>6, <1>7, <1>8

\* Every step of the system is a step of the abstract specification.
LEMMA NextRefines ==
    /\ SettledWrites /\ LoopTypeInv /\ BackupInv /\ SettledInv
    /\ [Next]_vars
    => [Guarded!Next]_(Guarded!vars)
<1> SUFFICES ASSUME SettledWrites, LoopTypeInv, BackupInv, SettledInv, [Next]_vars
             PROVE  [Guarded!Next]_(Guarded!vars)
    OBVIOUS
<1>1. ASSUME NEW r \in Runs, NEW mo \in Modes, Start(r, mo) PROVE UNCHANGED Guarded!vars
    <2>1. UNCHANGED <<snap, plan, wp, ledger>>
        BY <1>1 DEF Start, stores
    <2>2. \A q \in Runs : Writing(q)' <=> Writing(q)
        BY <1>1, StartFrame DEF Writing
    <2>3. OpenChange' = OpenChange
        BY <2>1, <2>2 DEF OpenChange, Mutation
    <2> QED BY <2>1, <2>3 DEF Guarded!vars, Validated
<1>2. ASSUME NEW r \in Runs, Step(r) PROVE [Guarded!Next]_(Guarded!vars)
    BY <1>2, StepRefines
<1>3. ASSUME Environment \/ UNCHANGED vars PROVE UNCHANGED Guarded!vars
    <2>1. UNCHANGED <<pc, snap, plan>>
        BY <1>3, EnvironmentFrame
    <2>2. UNCHANGED <<wp, ledger>>
        BY <1>3 DEF SettledWrites, SettledInv, Environment, Tick, Land, Edit, Regate,
                    vars, stores
    <2>3. OpenChange' = OpenChange
        BY <2>1 DEF OpenChange, Writing, Mutation
    <2> QED BY <2>2, <2>3 DEF Guarded!vars, Validated
<1> QED BY <1>1, <1>2, <1>3 DEF Next

\* The posts, the claims and the changes start as the abstract specification says.
LEMMA InitRefines == Init => Guarded!Init
<1> SUFFICES ASSUME Init PROVE Guarded!Init
    OBVIOUS
<1>1. wp \in [Posts -> Guarded!Contents]
    BY GrowthAssumption DEF Init, Guarded!Contents, Guarded!Fields, Fields
<1>2. {m \in Mutations : Validated(ledger, m)} = {}
    BY DEF Init, Validated
<1>3. OpenChange = [r \in Runs |-> None]
    BY DEF Init, OpenChange, Writing
<1> QED BY <1>1, <1>2, <1>3 DEF Guarded!Init

\* Every change that a run makes to a live post ends live and claimed, or unclaimed
\* with its snapshot sent back, and only one change is open at a post, whatever
\* WordPress makes of what it is sent (autonomous.py:134-259).
THEOREM GrowthIsGuarded ==
    ASSUME SettledWrites
    PROVE  Spec => WritesAreGuarded
<1>1. LoopTypeInv /\ BackupInv /\ SettledInv /\ [Next]_vars
         => SettledInv' /\ [Guarded!Next]_(Guarded!vars)
    BY NextSettled, NextRefines
<1> QED BY <1>1, InitSettled, InitRefines, AlwaysBackup, PTL
        DEF Spec, WritesAreGuarded, Guarded!Spec
=============================================================================
