--------------------------- MODULE GrowthClaimProofs ---------------------------
(***************************************************************************)
(* What the growth workflow promises over all its executions: theorems      *)
(* about what the ledger claims, what the receipts say and what the posts   *)
(* show, of which one follows from the abstract specification that it       *)
(* implements, and about how much and how often it changes a site.          *)
(***************************************************************************)
EXTENDS GuardedWriteProofs

USE DEF Stages, Open, Closed, Loop, InPlan, InSnap
-----------------------------------------------------------------------------
(***************************************************************************)
(* The production switch.                                                  *)
(***************************************************************************)
\* Nobody writes past the switch: no edits, no writes that land when the switch has
\* been turned in the meantime, and no mode that is not subject to it.
WritesAreGated ==
    "STAGING" \notin Modes /\ Faults \cap {"apply_late", "rollback_late", "editor"} = {}

GatedInv == (\A w \in inflight : w.kind = "row") /\ \A r \in Runs : mode[r] # "STAGING"

\* No step leaves a late write to a post behind.
LEMMA NextGated == WritesAreGated /\ LoopTypeInv /\ GatedInv /\ [Next]_vars => GatedInv'
<1> SUFFICES ASSUME WritesAreGated, LoopTypeInv, GatedInv, [Next]_vars PROVE GatedInv'
    OBVIOUS
<1> USE DEF GatedInv
<1>1. ASSUME NEW r \in Runs, NEW m \in Modes, Start(r, m) PROVE GatedInv'
    <2>1. mode' = [mode EXCEPT ![r] = m] /\ UNCHANGED inflight
        BY <1>1 DEF Start, stores
    <2> QED BY <2>1 DEF WritesAreGated, LoopTypeInv, ControlInv, ControlOK
<1>2. ASSUME NEW r \in Runs, Step(r) PROVE GatedInv'
    <2>1. mode' = mode
        BY <1>2
        DEF Step, Goto, EndIntervention, EndMutation, Analyse, AnalyseFails, StepFails,
            ResolveSite, TargetGuard, ReadTarget, Implement, NextMutation, CaptureBaseline,
            ApplyRefused, ApplyFails, Apply, ApplyLost, ApplyLate, Validate, Record,
            RecordFails, AfterFailedRecord, Rollback, RollbackFails, Rerecord,
            RerecordFails, Notify, AfterFailedNotice
    <2>2. \A w \in inflight' : w \in inflight \/ w.kind = "row"
        BY <1>2
        DEF WritesAreGated, Step, stores, Analyse, AnalyseFails, StepFails,
            ResolveSite, TargetGuard, ReadTarget, Implement, NextMutation, CaptureBaseline,
            ApplyRefused, ApplyFails, Apply, ApplyLost, ApplyLate, Validate, Record,
            RecordFails, Unanswered, Rollback, RollbackFails, LeftBehind, Rerecord,
            RerecordFails, Notify
    <2> QED BY <2>1, <2>2
<1>3. ASSUME Environment \/ UNCHANGED vars PROVE GatedInv'
    <2>1. mode' = mode /\ inflight' \subseteq inflight
        BY <1>3 DEF Environment, Tick, Land, Edit, Regate, vars, control, stores
    <2> QED BY <2>1
<1> QED BY <1>1, <1>2, <1>3 DEF Next

\* With the production switch off only a rollback changes a live post, whatever
\* else fails and however the executions and the switches interleave
\* (wordpress.py:134-164).
THEOREM ProductionIsGated == ASSUME WritesAreGated PROVE Spec => ProductionGate
<1> DEFINE gated == wp' # wp => "production" \in gates \/ \E r \in Runs : pc[r] = "rollback"
<1>1. ASSUME LoopTypeInv, DraftInv, GatedInv, [Next]_vars PROVE gated
    <2>1. ASSUME NEW r \in Runs, NEW m \in Modes, Start(r, m) PROVE gated
        BY <2>1 DEF Start, stores
    <2>2. ASSUME NEW r \in Runs, Step(r) PROVE gated
        <3>1. Apply(r) \/ ApplyLost(r) => "production" \in gates
            <4>1. pc[r] = "apply" => mode[r] = "PRODUCTION_APPROVED"
                BY <1>1 DEF DraftInv, DraftNeverWrites, GatedInv, LoopTypeInv, ControlInv,
                            ControlOK, RunModes
            <4> QED BY <4>1 DEF Apply, ApplyLost, MayApply
        <3>2. Rollback(r) \/ RollbackFails(r) => pc[r] = "rollback"
            BY DEF Rollback, RollbackFails
        <3>3. \/ Apply(r) \/ ApplyLost(r) \/ Rollback(r) \/ RollbackFails(r)
              \/ wp' = wp
            BY <2>2
            DEF Step, stores, Analyse, AnalyseFails, StepFails,
                ResolveSite, TargetGuard, ReadTarget, Implement, NextMutation,
                CaptureBaseline, ApplyRefused, ApplyFails, ApplyLate, Validate, Record,
                RecordFails, Rerecord, RerecordFails, Notify
        <3> QED BY <3>1, <3>2, <3>3
    <2>3. ASSUME Environment \/ UNCHANGED vars PROVE wp' = wp
        BY <1>1, <2>3 DEF WritesAreGated, GatedInv, Environment, Tick, Land, Edit, Regate,
                          vars, stores
    <2> QED BY <1>1, <2>1, <2>2, <2>3 DEF Next
<1>2. Init => GatedInv /\ DraftInv
    BY DEF Init, GatedInv, DraftInv, DraftNeverWrites, Writing
<1>3. LoopTypeInv /\ DraftInv /\ GatedInv /\ [Next]_vars => [gated]_vars
    BY <1>1
<1> QED BY <1>2, <1>3, NextGated, NextDraft, InitLoopType, NextLoopType, PTL
        DEF Spec, ProductionGate
-----------------------------------------------------------------------------
(***************************************************************************)
(* Rows and receipts.                                                      *)
(***************************************************************************)
\* A row that was stored without an answer is corrected: what comes after it is
\* answered, and nothing is written late.
RowsAreCorrected ==
    /\ "record_late" \notin Faults
    /\ "record_lost" \in Faults => "record_fails" \notin Faults /\ "rollback_fails" \notin Faults

HasReceipt(m) ==
    \E r \in Runs : \E i \in DOMAIN receipts[r] :
        receipts[r][i].status = "VALIDATED" /\ receipts[r][i].mutation = m

Busy(r, m) == "record_lost" \in Faults /\ Writing(r) /\ Mutation(r) = m

ClaimInv ==
    /\ \A w \in inflight : w.kind # "row"
    /\ \A m \in Mutations :
          Validated(ledger, m) => HasReceipt(m) \/ \E r \in Runs : Busy(r, m)

\* A receipt is never taken back.
LEMMA ReceiptKept ==
    ASSUME LoopTypeInv, NEW r \in Runs, Step(r), NEW m, HasReceipt(m)
    PROVE  HasReceipt(m)'
<1>0. PICK q \in Runs : \E i \in DOMAIN receipts[q] :
         receipts[q][i].status = "VALIDATED" /\ receipts[q][i].mutation = m
    BY DEF HasReceipt
<1>1. PICK i \in DOMAIN receipts[q] :
         receipts[q][i].status = "VALIDATED" /\ receipts[q][i].mutation = m
    BY <1>0
<1>2. i \in DOMAIN receipts'[q] /\ receipts'[q][i] = receipts[q][i]
    <2>1. CASE UNCHANGED receipts
        BY <2>1
    <2>2. CASE \E x : receipts' = [receipts EXCEPT ![r] = Append(@, x)]
        <3>1. PICK x : receipts' = [receipts EXCEPT ![r] = Append(@, x)]
            BY <2>2
        <3>2. receipts \in [Runs -> Seq(Receipts)]
            BY DEF LoopTypeInv, DataOK
        <3>3. CASE q # r
            BY <3>1, <3>2, <3>3
        <3>4. CASE q = r
            <4>1. receipts'[q] = Append(receipts[q], x) /\ receipts[q] \in Seq(Receipts)
                BY <3>1, <3>2, <3>4
            <4>2. Len(receipts[q]) \in Nat /\ i \in 1..Len(receipts[q])
                BY <1>1, <4>1, LenProperties
            <4> QED BY <4>1, <4>2
        <3> QED BY <3>3, <3>4
    <2>3. UNCHANGED receipts \/ \E x : receipts' = [receipts EXCEPT ![r] = Append(@, x)]
        <3>1. CASE Record(r) \/ Rerecord(r)
            BY <3>1 DEF Record, Rerecord, AddReceipt
        <3>2. CASE ~(Record(r) \/ Rerecord(r))
            BY <3>2
            DEF Step, outcome, Analyse, AnalyseFails, StepFails, ResolveSite, TargetGuard,
                ReadTarget, Implement, NextMutation, CaptureBaseline, ApplyRefused, ApplyFails,
                Apply, ApplyLost, ApplyLate, Validate, RecordFails, Rollback, RollbackFails,
                RerecordFails, Notify
        <3> QED BY <3>1, <3>2
    <2> QED BY <2>1, <2>2, <2>3
<1> QED BY <1>1, <1>2 DEF HasReceipt

\* The claims after a step of r: they gain or lose at most its mutation, which it
\* either has a receipt for, or is busy with, or does not claim.
LEMMA StepClaims ==
    ASSUME RowsAreCorrected, LoopTypeInv, BackupInv, ClaimInv, NEW r \in Runs, Step(r),
           NEW m \in Mutations, Validated(ledger', m)
    PROVE  HasReceipt(m)' \/ \E q \in Runs : Busy(q, m)'
<1> USE DEF LoopTypeInv
<1>1. pc[r] \in InPlan => plan[r] # <<>> /\ Mutation(r) \in Mutations
    BY CurrentTypes DEF ControlInv, LoopInv
<1>2. CASE Record(r) /\ m = Mutation(r)
    <2> DEFINE x == [mutation |-> m, status |-> "VALIDATED", day |-> day]
    <2>1. receipts'[r] = Append(receipts[r], x) /\ receipts[r] \in Seq(Receipts)
        BY <1>2 DEF Record, AddReceipt, DataOK
    <2>2. Len(receipts[r]) \in Nat
        BY <2>1, LenProperties
    <2>3. /\ Len(receipts[r]) + 1 \in DOMAIN receipts'[r]
          /\ receipts'[r][Len(receipts[r]) + 1] = x
        BY <2>1, <2>2
    <2>4. x.status = "VALIDATED" /\ x.mutation = m
        OBVIOUS
    <2> HIDE DEF x
    <2> QED BY <2>3, <2>4 DEF HasReceipt
<1>3. CASE RecordFails(r) /\ m = Mutation(r) /\ "record_lost" \in Faults
    <2>1. Writing(r)' /\ Mutation(r)' = m
        BY <1>3 DEF RecordFails, AfterFailedRecord, Goto, Writing, Mutation, ControlInv, ControlOK
    <2> QED BY <1>3, <2>1 DEF Busy
<1>4. CASE m = Mutation(r) /\ (Rerecord(r) \/ (RerecordFails(r) /\ "record_lost" \in Faults))
    <2>1. UpsertRow(r, "ROLLED_BACK") /\ plan[r] # <<>>
        BY <1>1, <1>4 DEF Rerecord, RerecordFails, Unanswered, RowsAreCorrected
    <2> QED BY <1>4, <2>1, UpsertClaims DEF Statuses
<1>5. CASE Validated(ledger, m) /\ (HasReceipt(m) \/ \E q \in Runs \ {r} : Busy(q, m))
    <2>1. CASE HasReceipt(m)
        BY <2>1, ReceiptKept
    <2>2. ASSUME NEW q \in Runs \ {r}, Busy(q, m) PROVE Busy(q, m)'
        BY <2>2, StepFrame DEF Busy, Frame, Writing, Mutation
    <2> QED BY <1>5, <2>1, <2>2
<1>6. CASE Busy(r, m) /\ ~(Record(r) \/ RecordFails(r) \/ Rerecord(r) \/ RerecordFails(r))
    <2>1. "rollback_fails" \notin Faults /\ backup[Mutation(r)] # None
        BY <1>6 DEF Busy, RowsAreCorrected, BackupInv, BackupReady
    <2>2. Writing(r)' /\ plan' = plan
        BY <1>6, <2>1
        DEF Busy, Writing, ControlInv, ControlOK, Step, Goto, Analyse, AnalyseFails, StepFails,
            ResolveSite, TargetGuard, ReadTarget, Implement, NextMutation, CaptureBaseline,
            ApplyRefused, ApplyFails, Apply, ApplyLost, ApplyLate, Validate, Rollback,
            RollbackFails, Notify
    <2> QED BY <1>6, <2>2 DEF Busy, Mutation
<1> DEFINE claiming == Record(r) \/ (RecordFails(r) /\ "record_lost" \in Faults)
<1>7. ASSUME ~Validated(ledger, m) PROVE m = Mutation(r) /\ claiming
    <2>1. \/ UNCHANGED ledger
          \/ claiming /\ UpsertRow(r, "VALIDATED")
          \/ UpsertRow(r, "ROLLED_BACK") /\ (Rerecord(r) \/ RerecordFails(r))
        BY DEF RowsAreCorrected, Step, stores, Unanswered, Analyse, AnalyseFails, StepFails,
               ResolveSite, TargetGuard, ReadTarget, Implement, NextMutation, CaptureBaseline,
               ApplyRefused, ApplyFails, Apply, ApplyLost, ApplyLate, Validate, Record,
               RecordFails, Rollback, RollbackFails, Rerecord, RerecordFails, Notify
    <2>2. CASE UNCHANGED ledger
        BY <1>7, <2>2 DEF Validated
    <2>3. CASE UpsertRow(r, "ROLLED_BACK") /\ (Rerecord(r) \/ RerecordFails(r))
        <3>1. plan[r] # <<>>
            BY <1>1, <2>3 DEF Rerecord, RerecordFails
        <3>2. Claims' = Claims \ {Mutation(r)}
            BY <2>3, <3>1, UpsertClaims DEF Statuses
        <3> QED BY <1>7, <3>2 DEF Claims
    <2>4. CASE claiming /\ UpsertRow(r, "VALIDATED")
        <3>1. plan[r] # <<>>
            BY <1>1, <2>4 DEF Record, RecordFails
        <3>2. Claims' = Claims \cup {Mutation(r)}
            BY <2>4, <3>1, UpsertClaims DEF Statuses
        <3> QED BY <1>7, <2>4, <3>2 DEF Claims
    <2> QED BY <2>1, <2>2, <2>3, <2>4
<1>8. Validated(ledger, m) => HasReceipt(m) \/ \E q \in Runs : Busy(q, m)
    BY DEF ClaimInv
<1>9. Busy(r, m) => "record_lost" \in Faults /\ m = Mutation(r)
    BY DEF Busy
<1> QED BY <1>2, <1>3, <1>4, <1>5, <1>6, <1>7, <1>8, <1>9

LEMMA NextClaim == RowsAreCorrected /\ LoopTypeInv /\ BackupInv /\ ClaimInv /\ [Next]_vars => ClaimInv'
<1> SUFFICES ASSUME RowsAreCorrected, LoopTypeInv, BackupInv, ClaimInv, [Next]_vars
             PROVE  ClaimInv'
    OBVIOUS
<1> DEFINE Backed(m) == HasReceipt(m) \/ \E r \in Runs : Busy(r, m)
<1>1. ASSUME NEW r \in Runs, NEW mo \in Modes, Start(r, mo) PROVE ClaimInv'
    <2>1. UNCHANGED <<plan, receipts, ledger, inflight>>
        BY <1>1, StartFrame DEF Start, stores
    <2>2. \A q \in Runs : Writing(q) => Writing(q)'
        BY <1>1, StartFrame DEF Writing
    <2> QED BY <2>1, <2>2 DEF ClaimInv, HasReceipt, Busy, Mutation, Validated
<1>2. ASSUME NEW r \in Runs, Step(r) PROVE ClaimInv'
    <2>1. \A w \in inflight' : w.kind # "row"
        BY <1>2
        DEF ClaimInv, RowsAreCorrected, Step, stores, Analyse, AnalyseFails, StepFails,
            ResolveSite, TargetGuard, ReadTarget, Implement, NextMutation, CaptureBaseline,
            ApplyRefused, ApplyFails, Apply, ApplyLost, ApplyLate, Validate, Record,
            RecordFails, Unanswered, Rollback, RollbackFails, LeftBehind, Rerecord,
            RerecordFails, Notify
    <2>2. \A m \in Mutations : Validated(ledger', m) => Backed(m)'
        BY <1>2, StepClaims
    <2>3. \A m \in Mutations : (Validated(ledger, m) => Backed(m))'
        BY <2>2
    <2> QED BY <2>1, <2>3 DEF ClaimInv
<1>3. ASSUME Environment \/ UNCHANGED vars PROVE ClaimInv'
    <2>1. UNCHANGED <<pc, plan, receipts>>
        BY <1>3, EnvironmentFrame
    <2>2. UNCHANGED ledger /\ inflight' \subseteq inflight
        BY <1>3 DEF ClaimInv, Environment, Tick, Land, Edit, Regate, vars, stores
    <2> QED BY <2>1, <2>2 DEF ClaimInv, HasReceipt, Busy, Writing, Mutation, Validated
<1> QED BY <1>1, <1>2, <1>3 DEF Next

\* A row says VALIDATED only if an execution holds a receipt for it or is still busy
\* with it, also when executions overlap (autonomous.py:229-259).
THEOREM ClaimsAreReceipted == ASSUME RowsAreCorrected PROVE Spec => []ClaimsHaveReceipts
<1>1. Init => ClaimInv
    BY DEF Init, ClaimInv, Validated
<1>2. ClaimInv => ClaimsHaveReceipts
    BY DEF ClaimInv, ClaimsHaveReceipts, HasReceipt, Busy
<1>3. LoopTypeInv /\ BackupInv /\ ClaimInv /\ [Next]_vars => ClaimInv'
    BY NextClaim
<1> QED BY <1>1, <1>2, <1>3, AlwaysBackup, PTL DEF Spec
-----------------------------------------------------------------------------
(***************************************************************************)
(* What a post shows and what the ledger claims: every step is one of the  *)
(* abstract specification, which keeps the two together.                   *)
(***************************************************************************)
\* WordPress makes one thing of a value, and lets pass what it has let pass once.
PassesOnce == \A v \in Values : \E w \in Values : StoredAs[v] = {w} /\ StoredAs[w] = {w}

Passed(v) == StoredAs[v] = {v}

\* The value v of a field is accounted for by the claims C.
HeldBy(C, p, f, v) ==
    \/ \E m \in C : PostOfM(m) = p /\ m.field = f /\ m.value = v /\ Passed(v)
    \/ /\ v \in {Original} \cup StoredAs[Original]
       /\ \A m \in C : ~(PostOfM(m) = p /\ m.field = f)

ChangedPost(r) == PostOfM(OpenChange[r].mutation)

\* What sending the old content back will store is accounted for without the claim
\* of the change, and so are the fields that the change leaves alone; the field that
\* it changes holds something that WordPress has let pass.
ChangeHeld(r) ==
    LET C == Claims \ {OpenChange[r].mutation}
        p == ChangedPost(r)
    IN  /\ \A f \in Fields : \A w \in StoredAs[OpenChange[r].before[f]] : HeldBy(C, p, f, w)
        /\ \A f \in Fields \ {OpenChange[r].mutation.field} : HeldBy(C, p, f, wp[p][f])
        /\ Passed(wp[p][OpenChange[r].mutation.field])

PostHeld(p) == \A f \in Fields : HeldBy(Claims, p, f, wp[p][f])

SiteInv ==
    /\ \A r \in Runs : OpenChange[r] # None => ChangeHeld(r)
    /\ \A p \in Posts :
          (\A r \in Runs : OpenChange[r] # None => ChangedPost(r) # p) => PostHeld(p)

\* A claim accounts for one field of one post.
LEMMA HeldFrame ==
    ASSUME NEW C, NEW D, NEW m, C \ {m} = D \ {m},
           NEW p, NEW f, ~(PostOfM(m) = p /\ m.field = f), NEW v, HeldBy(C, p, f, v)
    PROVE  HeldBy(D, p, f, v)
<1>1. \A x : x # m => (x \in C <=> x \in D)
    OBVIOUS
<1>2. CASE \E x \in C : PostOfM(x) = p /\ x.field = f /\ x.value = v /\ Passed(v)
    BY <1>1, <1>2 DEF HeldBy
<1>3. CASE /\ v \in {Original} \cup StoredAs[Original]
           /\ \A x \in C : ~(PostOfM(x) = p /\ x.field = f)
    BY <1>1, <1>3 DEF HeldBy
<1> QED BY <1>2, <1>3 DEF HeldBy

\* What WordPress makes of a value that is accounted for is accounted for as well.
LEMMA HeldSentBack ==
    ASSUME PassesOnce, NEW C, NEW p, NEW f, NEW v \in Values, HeldBy(C, p, f, v),
           NEW w \in StoredAs[v]
    PROVE  HeldBy(C, p, f, w)
<1>1. ASSUME Passed(v) PROVE w = v
    BY <1>1 DEF Passed
<1>2. ASSUME v \in StoredAs[Original] PROVE Passed(v)
    <2>1. PICK x \in Values : StoredAs[Original] = {x} /\ StoredAs[x] = {x}
        BY GrowthAssumption DEF PassesOnce
    <2> QED BY <1>2, <2>1 DEF Passed
<1> QED BY <1>1, <1>2 DEF HeldBy

\* What WordPress has stored, it lets pass.
LEMMA StoredPasses ==
    ASSUME PassesOnce, NEW v \in Values, NEW w \in StoredAs[v]
    PROVE  Passed(w)
BY DEF PassesOnce, Passed

\* An open change is that of the only execution that is open.
LEMMA ChangeTypes ==
    ASSUME LoopTypeInv, SettledInv, NEW r \in Runs, OpenChange[r] # None
    PROVE  /\ OpenChange[r].mutation \in Mutations
           /\ OpenChange[r].mutation.field \in Fields
           /\ OpenChange[r].before \in Contents
           /\ ChangedPost(r) \in Posts
           /\ Guarded!PostOfChange(r) = ChangedPost(r)
           /\ \A q \in Runs \ {r} : OpenChange[q] = None
<1>1. Writing(r) /\ OpenChange[r] = [mutation |-> Mutation(r), before |-> snap[r]]
    BY DEF OpenChange
<1>2. Mutation(r) \in Mutations /\ snap[r] \in Contents /\ PostOfM(Mutation(r)) \in Posts
    BY <1>1, CurrentTypes DEF Writing, LoopTypeInv, ControlInv, ControlOK, LoopInv, PostOfM
<1>3. OpenChange[r].mutation = Mutation(r) /\ OpenChange[r].before = snap[r]
    BY <1>1
<1>4. \A q \in Runs \ {r} : ~Writing(q)
    BY <1>1 DEF SettledInv, Alone, Writing
<1> QED BY <1>2, <1>3, <1>4
        DEF Mutations, ChangedPost, Guarded!PostOfChange, PostOfM, OpenChange

\* A change begins at a post whose fields are accounted for.
LEMMA BeginHeld ==
    ASSUME PassesOnce, LoopTypeInv, SettledInv, SiteInv, NEW r \in Runs, NEW m \in Mutations,
           Guarded!Begin(r, m)
    PROVE  SiteInv'
<1> DEFINE p == PostOf[m.url]
<1>1. p \in Posts /\ m.field \in Fields /\ m.value \in Values /\ wp \in [Posts -> Contents]
    BY GrowthAssumption DEF Mutations, LoopTypeInv, DataOK
<1>2. PICK b \in Guarded!Contents :
          /\ b = wp[p] \/ wp[p] \in Guarded!SentBack(b)
          /\ OpenChange' = [OpenChange EXCEPT ![r] = [mutation |-> m, before |-> b]]
    BY DEF Guarded!Begin
<1>3. /\ b \in Contents
      /\ b = wp[p] \/ \A f \in Fields : wp[p][f] \in StoredAs[b[f]]
    BY <1>2 DEF Guarded!SentBack, Guarded!Contents, Guarded!Fields, Contents, Fields
<1>4. /\ OpenChange'[r] = [mutation |-> m, before |-> b]
      /\ \A q \in Runs \ {r} : OpenChange'[q] = OpenChange[q]
    BY <1>2 DEF OpenChange
<1>5. OpenChange'[r].mutation = m /\ OpenChange'[r].before = b
    BY <1>4
<1>6. /\ m \notin Claims /\ Claims' = Claims
      /\ \A q \in Runs : OpenChange[q] # None => ChangedPost(q) # p
    BY DEF Guarded!Begin, Guarded!PostOfChange, ChangedPost, PostOfM, Claims
<1>7. PICK v \in StoredAs[m.value] : wp' = [wp EXCEPT ![p][m.field] = v]
    BY DEF Guarded!Begin
<1>8. /\ wp'[p][m.field] = v
      /\ \A f \in Fields : f # m.field => wp'[p][f] = wp[p][f]
      /\ \A x \in Posts \ {p} : wp'[x] = wp[x]
    BY <1>1, <1>7 DEF Contents
<1>9. \A f \in Fields : HeldBy(Claims, p, f, wp[p][f])
    BY <1>1, <1>6 DEF SiteInv, PostHeld
<1>10. ChangedPost(r)' = p
    BY <1>5 DEF ChangedPost, PostOfM
<1>11. ChangeHeld(r)'
    <2>1. Claims' \ {m} = Claims
        BY <1>6
    <2>2. ASSUME NEW f \in Fields, NEW w \in StoredAs[b[f]] PROVE HeldBy(Claims, p, f, w)
        <3>1. b[f] \in Values /\ wp[p][f] \in Values
            BY <1>1, <1>3 DEF Contents
        <3>2. CASE b = wp[p]
            BY <1>9, <2>2, <3>1, <3>2, HeldSentBack
        <3>3. CASE wp[p][f] \in StoredAs[b[f]]
            <4>1. w = wp[p][f]
                BY <2>2, <3>1, <3>3 DEF PassesOnce
            <4> QED BY <1>9, <4>1
        <3> QED BY <1>3, <3>2, <3>3
    <2>3. Passed(wp'[p][m.field])
        BY <1>1, <1>7, <1>8, StoredPasses
    <2>4. \A f \in Fields \ {m.field} : HeldBy(Claims, p, f, wp'[p][f])
        BY <1>8, <1>9
    <2> QED BY <1>5, <1>10, <2>1, <2>2, <2>3, <2>4 DEF ChangeHeld, HeldBy, Passed
<1>12. ASSUME NEW q \in Runs \ {r}, OpenChange'[q] # None PROVE ChangeHeld(q)'
    <2>1. OpenChange'[q] = OpenChange[q] /\ ChangedPost(q)' = ChangedPost(q)
        BY <1>4 DEF ChangedPost
    <2>2. ChangedPost(q) \in Posts \ {p} /\ ChangeHeld(q)
        BY <1>6, <1>12, <2>1, ChangeTypes DEF SiteInv
    <2>3. wp'[ChangedPost(q)] = wp[ChangedPost(q)]
        BY <1>8, <2>2
    <2> QED BY <1>6, <2>1, <2>2, <2>3 DEF ChangeHeld, HeldBy, Passed
<1>13. ASSUME NEW x \in Posts, \A q \in Runs : OpenChange'[q] # None => ChangedPost(q)' # x
       PROVE  PostHeld(x)'
    <2>1. x # p
        <3>1. [mutation |-> m, before |-> b] # None
            BY <1>3, GrowthAssumption
        <3> QED BY <1>4, <1>10, <1>13, <3>1
    <2>2. \A q \in Runs \ {r} : OpenChange[q] # None => ChangedPost(q) # x
        BY <1>4, <1>13 DEF ChangedPost
    <2>3. OpenChange[r] = None
        BY DEF Guarded!Begin
    <2>4. PostHeld(x)
        BY <2>2, <2>3 DEF SiteInv
    <2> QED BY <1>6, <1>8, <2>1, <2>4 DEF PostHeld, HeldBy, Passed
<1> QED BY <1>11, <1>12, <1>13 DEF SiteInv

\* A change that is touched or closed keeps every post accounted for.
LEMMA TouchHeld ==
    ASSUME PassesOnce, LoopTypeInv, SettledInv, SiteInv, NEW r \in Runs,
           Guarded!Work(r) \/ Guarded!Close(r)
    PROVE  SiteInv'
<1> DEFINE m == OpenChange[r].mutation
           b == OpenChange[r].before
           p == ChangedPost(r)
           kept == \A f \in Fields : wp'[p][f] \in StoredAs[b[f]]
<1>1. OpenChange[r] # None
    BY DEF Guarded!Work, Guarded!Close
<1>2. /\ m \in Mutations /\ m.field \in Fields /\ b \in Contents /\ p \in Posts
      /\ p = PostOfM(m) /\ Guarded!PostOfChange(r) = p
      /\ \A q \in Runs \ {r} : OpenChange[q] = None
      /\ ChangeHeld(r)
      /\ wp \in [Posts -> Contents]
    BY <1>1, ChangeTypes DEF SiteInv, ChangedPost, LoopTypeInv, DataOK
<1>3. /\ wp' \in {wp} \cup Guarded!Undone(r)
      /\ Claims' \in {Claims \cup {m}, Claims \ {m}}
    BY DEF Guarded!Work, Guarded!Close, Guarded!Touch, Claims
<1>4. Claims' \ {m} = Claims \ {m}
    BY <1>3
<1>5. ASSUME wp' \in Guarded!Undone(r)
      PROVE  kept /\ \A x \in Posts \ {p} : wp'[x] = wp[x]
    <2>1. PICK c \in Guarded!SentBack(b) : wp' = [wp EXCEPT ![p] = c]
        BY <1>2, <1>5 DEF Guarded!Undone
    <2>2. \A f \in Fields : c[f] \in StoredAs[b[f]]
        BY DEF Guarded!SentBack, Guarded!Fields, Fields
    <2>3. wp'[p] = c
        BY <1>2, <2>1
    <2> QED BY <1>2, <2>1, <2>2, <2>3
<1>6. wp' = wp \/ kept
    BY <1>3, <1>5
<1>7. \A x \in Posts \ {p} : wp'[x] = wp[x]
    BY <1>3, <1>5
<1>8. /\ \A f \in Fields : \A w \in StoredAs[b[f]] : HeldBy(Claims \ {m}, p, f, w)
      /\ \A f \in Fields \ {m.field} : HeldBy(Claims \ {m}, p, f, wp[p][f])
      /\ Passed(wp[p][m.field])
    BY <1>2 DEF ChangeHeld
<1>9. \A f \in Fields \ {m.field} : HeldBy(Claims \ {m}, p, f, wp'[p][f])
    BY <1>6, <1>8
<1>10. Passed(wp'[p][m.field])
    <2>1. b[m.field] \in Values
        BY <1>2 DEF Contents
    <2>2. kept => Passed(wp'[p][m.field])
        BY <1>2, <2>1, StoredPasses
    <2> QED BY <1>6, <1>8, <2>2
<1>11. ASSUME NEW x \in Posts, x # p PROVE PostHeld(x)'
    <2>1. PostHeld(x)
        BY <1>2, <1>11 DEF SiteInv
    <2>2. \A f \in Fields : HeldBy(Claims', x, f, wp[x][f])
        BY <1>2, <1>4, <1>11, <2>1, HeldFrame DEF PostHeld
    <2> QED BY <1>7, <1>11, <2>2 DEF PostHeld, HeldBy, Passed
<1> HIDE DEF kept
<1>12. CASE Guarded!Work(r)
    <2>1. OpenChange' = OpenChange
        BY <1>12 DEF Guarded!Work
    <2>2. ChangeHeld(r)'
        BY <1>4, <1>8, <1>9, <1>10, <2>1 DEF ChangeHeld, ChangedPost, HeldBy, Passed
    <2> QED BY <1>1, <1>2, <1>11, <2>1, <2>2 DEF SiteInv, ChangedPost
<1>13. CASE Guarded!Close(r)
    <2>1. \A q \in Runs : OpenChange'[q] = None
        BY <1>2, <1>13 DEF Guarded!Close, OpenChange
    <2>2. ASSUME NEW f \in Fields, f # m.field PROVE HeldBy(Claims', p, f, wp'[p][f])
        <3>1. (Claims \ {m}) \ {m} = Claims' \ {m}
            BY <1>4
        <3> QED BY <1>2, <1>9, <2>2, <3>1, HeldFrame
    <2>3. HeldBy(Claims', p, m.field, wp'[p][m.field])
        <3>1. CASE Guarded!Claimed(r)
            <4>1. m \in Claims' /\ wp'[p][m.field] = m.value
                BY <1>2, <3>1 DEF Guarded!Claimed, Claims
            <4> QED BY <1>2, <1>10, <4>1 DEF HeldBy
        <3>2. CASE Guarded!NotClaimed(r)
            <4>1. kept /\ m \notin Claims'
                BY <1>5, <3>2 DEF Guarded!NotClaimed, Claims
            <4>2. Claims' = Claims \ {m}
                BY <1>3, <4>1
            <4> QED BY <1>2, <1>8, <4>1, <4>2 DEF kept
        <3> QED BY <1>13, <3>1, <3>2 DEF Guarded!Close
    <2>4. ASSUME NEW x \in Posts, x = p PROVE PostHeld(x)'
        <3>1. \A f \in Fields : HeldBy(Claims', x, f, wp'[x][f])
            BY <2>2, <2>3, <2>4
        <3> QED BY <3>1 DEF PostHeld, HeldBy, Passed
    <2> QED BY <1>11, <2>1, <2>4 DEF SiteInv
<1> QED BY <1>12, <1>13

\* Whatever no execution is changing is accounted for: the live value of a field is
\* one that a validated row names or the one before the first execution, or what
\* WordPress made of that, whichever calls go unanswered (autonomous.py:134-259).
THEOREM SitesMatchTheLedger ==
    ASSUME SettledWrites, PassesOnce
    PROVE  Spec => []SiteMatchesLedger
<1>1. Init => SiteInv
    <2> SUFFICES ASSUME Init PROVE SiteInv
        OBVIOUS
    <2>1. \A r \in Runs : OpenChange[r] = None
        BY DEF Init, OpenChange, Writing
    <2>2. Claims = {}
        BY DEF Init, Claims, Validated
    <2>3. \A p \in Posts, f \in Fields : wp[p][f] = Original
        BY DEF Init
    <2> QED BY <2>1, <2>2, <2>3 DEF SiteInv, PostHeld, HeldBy
<1>2. SettledWrites /\ LoopTypeInv /\ BackupInv /\ SettledInv /\ SiteInv /\ [Next]_vars => SiteInv'
    <2> SUFFICES ASSUME SettledWrites, LoopTypeInv, BackupInv, SettledInv, SiteInv, [Next]_vars
                 PROVE  SiteInv'
        OBVIOUS
    <2>1. [Guarded!Next]_(Guarded!vars)
        BY NextRefines
    <2>2. CASE UNCHANGED Guarded!vars
        <3>1. wp' = wp /\ Claims' = Claims /\ OpenChange' = OpenChange
            BY <2>2 DEF Guarded!vars, Claims
        <3> QED BY <3>1 DEF SiteInv, PostHeld, ChangeHeld, ChangedPost
    <2>3. ASSUME NEW r \in Runs, Guarded!Work(r) \/ Guarded!Close(r) PROVE SiteInv'
        BY <2>3, TouchHeld
    <2>4. ASSUME NEW r \in Runs, NEW m \in Mutations, Guarded!Begin(r, m) PROVE SiteInv'
        BY <2>4, BeginHeld
    <2>5. Guarded!Mutations = Mutations
        BY DEF Mutations, Fields, Guarded!Mutations, Guarded!Fields
    <2> QED BY <2>1, <2>2, <2>3, <2>4, <2>5 DEF Guarded!Next
<1>3. LoopTypeInv /\ SettledInv /\ SiteInv => SiteMatchesLedger
    <2> SUFFICES ASSUME LoopTypeInv, SettledInv, SiteInv,
                        NEW p \in Posts, NEW f \in Fields,
                        \A r \in Runs : Writing(r) => PostOfM(Mutation(r)) # p
                 PROVE  \/ \E m \in ValidatedOn(p, f) : m.value = wp[p][f]
                        \/ /\ ValidatedOn(p, f) = {}
                           /\ wp[p][f] \in {Original} \cup StoredAs[Original]
        BY DEF SiteMatchesLedger
    <2>1. \A r \in Runs : OpenChange[r] # None => ChangedPost(r) # p
        BY DEF OpenChange, ChangedPost
    <2>2. HeldBy(Claims, p, f, wp[p][f])
        BY <2>1 DEF SiteInv, PostHeld
    <2> QED BY <2>2 DEF HeldBy, Claims, ValidatedOn
<1> QED BY <1>1, <1>2, <1>3, NextSettled, InitSettled, AlwaysBackup, PTL DEF Spec
-----------------------------------------------------------------------------
(***************************************************************************)
(* How much and how often the growth workflow changes a site, counted over *)
(* all executions: a cycle that is executed again keeps to one budget, and *)
(* two changes of one URL keep the cooldown, unless the row of one of them *)
(* bears an older date.  Both restrict faults to what they need, and the   *)
(* budget holds for executions that overlap as well.                       *)
(***************************************************************************)
\* An execution that has not begun its work, or that failed, has no receipt, and
\* of the executions of one cycle only one has got further than that.
Idle == {"new", "FAILED"}

CycleInv ==
    /\ \A r \in Runs : pc[r] \in Idle \cup {"analyse"} => receipts[r] = <<>>
    /\ \A q, r \in Runs : CycleOf[q] = CycleOf[r] /\ q # r => pc[q] \in Idle \/ pc[r] \in Idle

\* A step makes an execution fail only before it has done anything.
LEMMA StepCycle ==
    ASSUME "notify_fails" \notin Faults, LoopTypeInv, CycleInv, NEW r \in Runs, Step(r)
    PROVE  CycleInv'
<1> USE DEF LoopTypeInv, CycleInv, Idle
<1>1. pc[r] \in Open
    BY StepOpen
<1>2. \A q \in Runs \ {r} : pc'[q] = pc[q] /\ receipts'[q] = receipts[q]
    BY StepFrame DEF Frame
<1>3. pc'[r] \in Idle \cup {"analyse"} => AnalyseFails(r)
    BY DEF Step, Analyse, StepFails, ResolveSite, TargetGuard, ReadTarget,
           Implement, NextMutation, CaptureBaseline, ApplyRefused, ApplyFails, Apply,
           ApplyLost, ApplyLate, Validate, Record, RecordFails, AfterFailedRecord, Rollback,
           RollbackFails, Rerecord, RerecordFails, Notify, Goto, EndIntervention, EndMutation,
           ControlInv, ControlOK
<1>4. pc'[r] \in Idle \cup {"analyse"} => receipts'[r] = <<>>
    BY <1>3 DEF AnalyseFails, outcome
<1> QED BY <1>1, <1>2, <1>4

LEMMA NextCycle ==
    "notify_fails" \notin Faults /\ LoopTypeInv /\ CycleInv /\ [Next]_vars => CycleInv'
<1> SUFFICES ASSUME "notify_fails" \notin Faults, LoopTypeInv, CycleInv, [Next]_vars
             PROVE  CycleInv'
    OBVIOUS
<1>1. ASSUME NEW r \in Runs, NEW m \in Modes, Start(r, m) PROVE CycleInv'
    <2>1. /\ pc[r] = "new" /\ pc'[r] = "analyse" /\ receipts' = receipts
          /\ \A q \in Runs \ {r} : pc'[q] = pc[q]
        BY <1>1, StartFrame
    <2>2. \A q \in Runs : CycleOf[q] = CycleOf[r] => pc[q] \in Idle
        BY <1>1 DEF Start, MayStart, Idle
    <2> QED BY <2>1, <2>2 DEF CycleInv, Idle
<1>2. ASSUME NEW r \in Runs, Step(r) PROVE CycleInv'
    BY <1>2, StepCycle
<1>3. ASSUME Environment \/ UNCHANGED vars PROVE CycleInv'
    BY <1>3, EnvironmentFrame DEF CycleInv
<1> QED BY <1>1, <1>2, <1>3 DEF Next

\* What a cycle has changed is what its one busy execution has changed.
LEMMA CycleOfOne ==
    ASSUME LoopTypeInv, BudgetInv, CycleInv
    PROVE  CycleBudget
<1> SUFFICES ASSUME NEW c \in Cycles, NEW s \in Sites
             PROVE  Cardinality(UNION {{r} \X ValidatedReceipts(r, s) :
                                        r \in {q \in Runs : CycleOf[q] = c}})
                        <= MaxMutationsPerSite
    BY DEF CycleBudget
<1> DEFINE Changes == UNION {{r} \X ValidatedReceipts(r, s) : r \in {q \in Runs : CycleOf[q] = c}}
           Begun == {q \in Runs : CycleOf[q] = c /\ pc[q] \notin Idle}
<1>1. \A r \in Runs : pc[r] \in Idle => ValidatedReceipts(r, s) = {}
    BY DEF CycleInv, ValidatedReceipts
<1>2. CASE Begun = {}
    <2>1. Changes = {}
        BY <1>1, <1>2
    <2>2. MaxMutationsPerSite \in Nat
        BY GrowthAssumption
    <2> QED BY <2>1, <2>2, FS_EmptySet
<1>3. ASSUME NEW b \in Begun PROVE Cardinality(Changes) <= MaxMutationsPerSite
    <2> DEFINE V == ValidatedReceipts(b, s)
               Pair == [i \in V |-> <<b, i>>]
    <2>1. \A q \in Runs : CycleOf[q] = c /\ q # b => pc[q] \in Idle
        BY <1>3 DEF CycleInv
    <2>2. Changes = {b} \X V
        BY <1>1, <1>3, <2>1
    <2>3. V = Counted(receipts[b], s) /\ V \subseteq 1..Len(receipts[b])
        BY DEF ValidatedReceipts, Counted, LoopTypeInv, DataOK
    <2>4. Len(receipts[b]) \in Nat
        BY DEF LoopTypeInv, DataOK
    <2>5. IsFiniteSet(V)
        <3>1. IsFiniteSet(1..Len(receipts[b]))
            BY <2>4, FS_Interval
        <3>2. V \in SUBSET (1..Len(receipts[b]))
            BY <2>3
        <3> HIDE DEF V
        <3> QED BY <3>1, <3>2, FS_Subset
    <2>6. Pair \in Surjection(V, Changes)
        <3>1. \A x \in Changes : \E i \in V : x = <<b, i>>
            BY <2>2
        <3>2. \A i \in V : <<b, i>> \in Changes
            BY <2>2
        <3> HIDE DEF V, Changes
        <3> QED BY <3>1, <3>2 DEF Surjection
    <2>7. Cardinality(Changes) <= Cardinality(V) /\ Cardinality(V) \in Nat
        BY <2>5, <2>6, FS_Surjection, FS_CardinalityType
    <2>8. IsFiniteSet(Changes)
        BY <2>5, <2>6, FS_Surjection
    <2>9. Cardinality(Changes) \in Nat
        BY <2>8, FS_CardinalityType
    <2>10. /\ Cardinality(V) = spent[b][s]
           /\ spent[b][s] <= MaxMutationsPerSite
        BY <1>3, <2>3 DEF BudgetInv
    <2> QED BY <2>7, <2>9, <2>10, GrowthAssumption
<1> QED BY <1>2, <1>3

\* A cycle that failed and is executed again does not repeat successful work, as
\* long as it was not the notification that failed (autonomous_scheduler.py:28-36).
THEOREM CyclesKeepOneBudget ==
    ASSUME "notify_fails" \notin Faults
    PROVE  Spec => []CycleBudget
<1>1. Init => CycleInv
    BY DEF Init, CycleInv, Idle
<1>2. LoopTypeInv /\ BudgetInv /\ CycleInv => CycleBudget
    BY CycleOfOne
<1>3. Init => BudgetInv
    BY InitBudget
<1> QED BY <1>1, <1>2, <1>3, NextCycle, NextBudget, InitLoopType, NextLoopType, PTL DEF Spec
-----------------------------------------------------------------------------
\* What the cooldown needs: one execution at a time, and no row that is written
\* after the workflow gave up recording it.
TimelyRows == ~Overlap /\ "record_late" \notin Faults

\* A receipt of a validated change is backed by a row, which is not younger.
Backed(rows, today, x) ==
    x.status = "VALIDATED" =>
        /\ Validated(rows, x.mutation)
        /\ rows[x.mutation].appliedAt <= x.day
        /\ x.day <= today

\* While a mutation is worked on nobody holds a receipt of it, and the other
\* changes of its URL are past their cooldown.
Admitted(r) ==
    pc[r] \in InPlan =>
        /\ \A q \in Runs : \A i \in DOMAIN receipts[q] :
              receipts[q][i].status = "VALIDATED" => receipts[q][i].mutation # Mutation(r)
        /\ \A m \in Mutations \ {Mutation(r)} :
              m.url = Mutation(r).url /\ Validated(ledger, m)
                  => ledger[m].appliedAt + Cooldown <= day

CoolInv ==
    /\ Alone
    /\ \A w \in inflight : w.kind # "row"
    /\ \A m \in Mutations : ledger[m] # None => ledger[m].appliedAt <= day
    /\ \A q \in Runs : \A i \in DOMAIN receipts[q] : Backed(ledger, day, receipts[q][i])
    /\ \A r \in Runs : Admitted(r)
    /\ CooldownUnlessStale

\* Recording a mutation touches its row only, and keeps the date it has.
LEMMA UpsertRows ==
    ASSUME LoopTypeInv, CoolInv, NEW r \in Runs, plan[r] # <<>>, NEW st \in Statuses,
           UpsertRow(r, st)
    PROVE  /\ \A m \in Mutations \ {Mutation(r)} : ledger'[m] = ledger[m]
           /\ ledger'[Mutation(r)] # None /\ ledger'[Mutation(r)].status = st
           /\ ledger'[Mutation(r)].appliedAt \in Nat
           /\ ledger'[Mutation(r)].appliedAt <= day
<1>1. ledger \in Ledgers /\ Mutation(r) \in Mutations /\ day \in Nat
    BY CurrentTypes DEF LoopTypeInv, DataOK
<1> DEFINE row == [status    |-> st,
                   appliedAt |-> IF ledger[Mutation(r)] = None THEN day
                                 ELSE ledger[Mutation(r)].appliedAt]
<1>2. ledger' = [ledger EXCEPT ![Mutation(r)] = row]
    BY DEF UpsertRow, Upsert
<1>3. ledger[Mutation(r)] # None => ledger[Mutation(r)] \in Rows
    BY <1>1 DEF Ledgers
<1>4. row \in Rows /\ row.status = st /\ row.appliedAt <= day
    BY <1>1, <1>3 DEF Rows, CoolInv
<1>5. row # None /\ row.appliedAt \in Nat
    BY <1>4, LedgerAssumption DEF Rows
<1> HIDE DEF row
<1>6. ledger'[Mutation(r)] = row
    BY <1>1, <1>2 DEF Ledgers
<1>7. \A m \in Mutations \ {Mutation(r)} : ledger'[m] = ledger[m]
    BY <1>1, <1>2 DEF Ledgers
<1> QED BY <1>4, <1>5, <1>6, <1>7

\* A list of receipts grows at its end.
LEMMA ReceiptsGrow ==
    ASSUME LoopTypeInv, NEW r \in Runs, plan[r] # <<>>, NEW st \in Statuses,
           AddReceipt(r, st)
    PROVE  LET x == [mutation |-> Mutation(r), status |-> st, day |-> day]
               n == Len(receipts[r]) + 1
           IN  \A q \in Runs : \A i \in DOMAIN receipts'[q] :
                  \/ i \in DOMAIN receipts[q] /\ receipts'[q][i] = receipts[q][i]
                  \/ q = r /\ i = n /\ receipts'[q][i] = x
<1> DEFINE x == [mutation |-> Mutation(r), status |-> st, day |-> day]
<1>1. /\ receipts \in [Runs -> Seq(Receipts)] /\ Mutation(r) \in Mutations /\ day \in Nat
    BY CurrentTypes DEF LoopTypeInv, DataOK
<1>2. x \in Receipts
    BY <1>1 DEF Receipts
<1>3. receipts' = [receipts EXCEPT ![r] = Append(receipts[r], x)]
    BY DEF AddReceipt
<1> HIDE DEF x
<1>4. \A q \in Runs \ {r} : receipts'[q] = receipts[q]
    BY <1>1, <1>3
<1>5. receipts'[r] = Append(receipts[r], x)
    BY <1>1, <1>3
<1>6. \A i \in DOMAIN Append(receipts[r], x) :
          \/ i \in DOMAIN receipts[r] /\ Append(receipts[r], x)[i] = receipts[r][i]
          \/ i = Len(receipts[r]) + 1 /\ Append(receipts[r], x)[i] = x
    <2>1. receipts[r] \in Seq(Receipts)
        BY <1>1
    <2> QED BY <1>2, <2>1
<1> QED BY <1>4, <1>5, <1>6 DEF x

\* What a step does to rows and receipts, and how it gets to a mutation.
LEMMA StepRecords ==
    ASSUME TimelyRows, LoopTypeInv, NEW r \in Runs, Step(r)
    PROVE  /\ \/ UNCHANGED <<ledger, receipts>>
              \/ \E st \in Statuses :
                    /\ pc[r] \in InPlan /\ UpsertRow(r, st)
                    /\ UNCHANGED receipts \/ (AddReceipt(r, st) /\ pc'[r] \notin InPlan)
           /\ pc'[r] \in InPlan =>
                 \/ pc[r] \in InPlan /\ plan'[r] = plan[r]
                 \/ /\ CandidateEligible(ledger, Mutation(r), day)
                    /\ plan'[r] = plan[r] /\ UNCHANGED <<ledger, receipts>>
           /\ day' = day
           /\ \A w \in inflight' : w \in inflight \/ w.kind # "row"
<1> USE DEF LoopTypeInv
<1>1. \/ UNCHANGED <<ledger, receipts>>
      \/ Record(r) \/ RecordFails(r) \/ Rerecord(r) \/ RerecordFails(r)
    BY DEF Step, outcome, stores, Analyse, AnalyseFails, StepFails, ResolveSite,
           TargetGuard, ReadTarget, Implement, NextMutation, CaptureBaseline,
           ApplyRefused, ApplyFails, Apply, ApplyLost, ApplyLate, Validate, Rollback,
           RollbackFails, Notify
<1>2. Record(r) \/ RecordFails(r) \/ Rerecord(r) \/ RerecordFails(r)
      => \/ UNCHANGED <<ledger, receipts>>
         \/ \E st \in Statuses :
               /\ pc[r] \in InPlan /\ UpsertRow(r, st)
               /\ UNCHANGED receipts \/ (AddReceipt(r, st) /\ pc'[r] \notin InPlan)
    BY DEF TimelyRows, Record, RecordFails, Rerecord, RerecordFails, Unanswered, Statuses,
           outcome, EndMutation, ControlInv, ControlOK
<1>3. pc'[r] \in InPlan =>
         \/ pc[r] \in InPlan /\ plan'[r] = plan[r]
         \/ /\ CandidateEligible(ledger, Mutation(r), day)
            /\ plan'[r] = plan[r] /\ UNCHANGED <<ledger, receipts>>
    BY DEF Step, Analyse, AnalyseFails, StepFails, ResolveSite, TargetGuard, ReadTarget,
           Implement, NextMutation, CaptureBaseline, ApplyRefused, ApplyFails, Apply,
           ApplyLost, ApplyLate, Validate, Record, RecordFails, AfterFailedRecord, Rollback,
           RollbackFails, Rerecord, RerecordFails, Notify, AfterFailedNotice, Goto,
           EndIntervention, EndMutation, ControlInv, ControlOK, outcome, stores
<1>4. day' = day
    BY DEF Step, world, Analyse, AnalyseFails, StepFails, ResolveSite, TargetGuard,
           ReadTarget, Implement, NextMutation, CaptureBaseline, ApplyRefused, ApplyFails,
           Apply, ApplyLost, ApplyLate, Validate, Record, RecordFails, Rollback,
           RollbackFails, Rerecord, RerecordFails, Notify
<1>5. \A w \in inflight' : w \in inflight \/ w.kind # "row"
    BY DEF Step, stores, TimelyRows, Analyse, AnalyseFails, StepFails, ResolveSite,
           TargetGuard, ReadTarget, Implement, NextMutation, CaptureBaseline,
           ApplyRefused, ApplyFails, Apply, ApplyLost, ApplyLate, Validate, Record,
           RecordFails, Unanswered, Rollback, RollbackFails, LeftBehind, Rerecord,
           RerecordFails, Notify
<1> QED BY <1>1, <1>2, <1>3, <1>4, <1>5

\* A row that a step of r changes is that of its mutation, of which no validated
\* receipt was left; what other receipts refer to stays as it is.
LEMMA StepBacked ==
    ASSUME TimelyRows, LoopTypeInv, CoolInv, NEW r \in Runs, Step(r)
    PROVE  /\ \A m \in Mutations : ledger'[m] # None => ledger'[m].appliedAt <= day'
           /\ \A q \in Runs : \A i \in DOMAIN receipts'[q] :
                 Backed(ledger', day', receipts'[q][i])
           /\ CooldownUnlessStale'
<1> USE DEF LoopTypeInv
<1> DEFINE m == Mutation(r)
           x == [mutation |-> m, status |-> "VALIDATED", day |-> day]
           Old(q, i) == i \in DOMAIN receipts[q] /\ receipts'[q][i] = receipts[q][i]
           New(q, i) == /\ q = r /\ i = Len(receipts[r]) + 1 /\ receipts'[q][i] = x
                        /\ ledger'[m] # None /\ ledger'[m].status = "VALIDATED"
                        /\ pc[r] \in InPlan
           Noted(q, i) == i \in DOMAIN receipts[q] /\ receipts[q][i].status = "VALIDATED"
<1>0. /\ day \in Nat /\ day' = day /\ ledger \in Ledgers
      /\ pc[r] \in InPlan => plan[r] # <<>> /\ m \in Mutations
    BY StepRecords, CurrentTypes DEF DataOK, ControlInv, LoopInv
<1>1. \/ UNCHANGED <<ledger, receipts>>
      \/ \E st \in Statuses :
            /\ pc[r] \in InPlan /\ UpsertRow(r, st)
            /\ UNCHANGED receipts \/ AddReceipt(r, st)
    BY StepRecords
<1>2. \/ UNCHANGED ledger
      \/ /\ pc[r] \in InPlan
         /\ \A n \in Mutations \ {m} : ledger'[n] = ledger[n]
         /\ ledger'[m] # None /\ ledger'[m].appliedAt \in Nat
         /\ ledger'[m].appliedAt <= day
    BY <1>0, <1>1, UpsertRows
<1>3. \A q \in Runs : \A i \in DOMAIN receipts'[q] :
          receipts'[q][i].status = "VALIDATED" => Old(q, i) \/ New(q, i)
    <2>1. CASE UNCHANGED receipts
        BY <2>1
    <2>2. CASE ~UNCHANGED receipts
        <3>1. PICK st \in Statuses : pc[r] \in InPlan /\ UpsertRow(r, st) /\ AddReceipt(r, st)
            BY <1>1, <2>2
        <3>2. ledger'[m] # None /\ ledger'[m].status = st
            BY <1>0, <3>1, UpsertRows
        <3>3. \A q \in Runs : \A i \in DOMAIN receipts'[q] :
                 \/ Old(q, i)
                 \/ /\ q = r /\ i = Len(receipts[r]) + 1
                    /\ receipts'[q][i] = [mutation |-> m, status |-> st, day |-> day]
            BY <1>0, <3>1, ReceiptsGrow
        <3> QED BY <3>1, <3>2, <3>3
    <2> QED BY <2>1, <2>2
<1>4. \A n \in Mutations : ledger'[n] # None => ledger'[n].appliedAt <= day'
    BY <1>0, <1>2 DEF CoolInv
<1>5. \A q \in Runs : \A i \in DOMAIN receipts[q] :
          /\ receipts[q][i].mutation \in Mutations
          /\ receipts[q][i].day \in Nat
    <2> SUFFICES ASSUME NEW q \in Runs, NEW i \in DOMAIN receipts[q]
                 PROVE  receipts[q][i] \in Receipts
        BY DEF Receipts
    <2>1. receipts[q] \in Seq(Receipts)
        BY DEF DataOK
    <2> QED BY <2>1
<1>6. \A q \in Runs : \A i \in DOMAIN receipts[q] : Noted(q, i) =>
          /\ ledger'[receipts[q][i].mutation] = ledger[receipts[q][i].mutation]
          /\ pc[r] \in InPlan => receipts[q][i].mutation # m
    BY <1>2, <1>5 DEF CoolInv, Admitted
<1>7. ASSUME NEW q \in Runs, NEW i \in DOMAIN receipts'[q]
      PROVE  Backed(ledger', day', receipts'[q][i])
    <2> SUFFICES ASSUME receipts'[q][i].status = "VALIDATED"
                 PROVE  LET y == receipts'[q][i]
                        IN  /\ ledger'[y.mutation] # None
                            /\ ledger'[y.mutation].status = "VALIDATED"
                            /\ ledger'[y.mutation].appliedAt <= y.day
                            /\ y.day <= day'
        BY DEF Backed, Validated
    <2>1. CASE Old(q, i)
        <3>1. Noted(q, i)
            BY <2>1
        <3> QED BY <1>0, <1>6, <2>1, <3>1 DEF CoolInv, Backed, Validated
    <2>2. CASE New(q, i)
        BY <1>0, <1>4, <2>2
    <2> QED BY <1>3, <2>1, <2>2
<1>8. CooldownUnlessStale'
    <2> SUFFICES ASSUME NEW q \in Runs, NEW p \in Runs,
                        NEW i \in DOMAIN receipts'[q], NEW j \in DOMAIN receipts'[p],
                        <<q, i>> # <<p, j>>,
                        receipts'[q][i].status = "VALIDATED",
                        receipts'[p][j].status = "VALIDATED",
                        receipts'[q][i].mutation.url = receipts'[p][j].mutation.url,
                        receipts'[q][i].day <= receipts'[p][j].day
                 PROVE  \/ receipts'[q][i].day + Cooldown <= receipts'[p][j].day
                        \/ ledger'[receipts'[q][i].mutation].appliedAt < receipts'[q][i].day
                        \/ ledger'[receipts'[p][j].mutation].appliedAt < receipts'[p][j].day
        BY DEF CooldownUnlessStale
    <2> DEFINE a == receipts'[q][i]
               b == receipts'[p][j]
    <2>1. CASE Old(q, i) /\ Old(p, j)
        <3>1. Noted(q, i) /\ Noted(p, j)
            BY <2>1
        <3>2. \/ a.day + Cooldown <= b.day
              \/ ledger[a.mutation].appliedAt < a.day
              \/ ledger[b.mutation].appliedAt < b.day
            BY <2>1, <3>1 DEF CoolInv, CooldownUnlessStale
        <3> QED BY <1>6, <2>1, <3>1, <3>2
    <2>2. CASE Old(q, i) /\ New(p, j)
        <3>1. Noted(q, i)
            BY <2>2
        <3>2. /\ a.mutation \in Mutations \ {m} /\ a.day \in Nat
              /\ ledger'[a.mutation] = ledger[a.mutation]
            BY <1>5, <1>6, <2>2, <3>1
        <3>3. Validated(ledger, a.mutation) /\ ledger[a.mutation].appliedAt <= a.day
            BY <2>2, <3>1 DEF CoolInv, Backed
        <3>4. ledger[a.mutation].appliedAt + Cooldown <= b.day
            BY <2>2, <3>2, <3>3 DEF CoolInv, Admitted
        <3>5. ledger[a.mutation].appliedAt \in Nat
            BY <1>0, <3>2, <3>3 DEF Ledgers, Rows, Validated
        <3> QED BY <1>0, <2>2, <3>2, <3>3, <3>4, <3>5, LedgerAssumption
    <2>3. CASE New(q, i) /\ Old(p, j)
        <3>1. Noted(p, j)
            BY <2>3
        <3>2. /\ b.mutation \in Mutations \ {m} /\ b.day \in Nat
              /\ ledger'[b.mutation] = ledger[b.mutation]
            BY <1>5, <1>6, <2>3, <3>1
        <3>3. Validated(ledger, b.mutation) /\ ledger[b.mutation].appliedAt <= b.day
            BY <2>3, <3>1 DEF CoolInv, Backed
        <3>4. ledger[b.mutation].appliedAt + Cooldown <= a.day
            BY <2>3, <3>2, <3>3 DEF CoolInv, Admitted
        <3>5. ledger[b.mutation].appliedAt \in Nat
            BY <1>0, <3>2, <3>3 DEF Ledgers, Rows, Validated
        <3> QED BY <1>0, <2>3, <3>2, <3>4, <3>5, LedgerAssumption
    <2>4. CASE New(q, i) /\ New(p, j)
        BY <2>4
    <2> QED BY <1>3, <2>1, <2>2, <2>3, <2>4
<1> QED BY <1>4, <1>7, <1>8

\* An execution comes to a mutation past the guard, and stays with it alone.
LEMMA StepAdmitted ==
    ASSUME TimelyRows, LoopTypeInv, CoolInv, NEW r \in Runs, Step(r)
    PROVE  /\ Alone'
           /\ \A w \in inflight' : w.kind # "row"
           /\ \A q \in Runs : Admitted(q)'
<1> USE DEF LoopTypeInv
<1>1. pc[r] \in Open
    BY StepOpen
<1>2. \A q \in Runs \ {r} : pc'[q] = pc[q] /\ pc[q] \notin Open
    BY <1>1, StepFrame DEF Frame, CoolInv, Alone
<1>3. Alone'
    BY <1>2 DEF Alone
<1>4. \A w \in inflight' : w.kind # "row"
    BY StepRecords DEF CoolInv
<1>5. ASSUME NEW q \in Runs \ {r} PROVE Admitted(q)'
    BY <1>2 DEF Admitted
<1>6. Admitted(r)'
    <2> SUFFICES ASSUME pc'[r] \in InPlan PROVE Admitted(r)'
        BY DEF Admitted
    <2> DEFINE m == Mutation(r)
    <2>1. /\ day' = day /\ plan'[r] = plan[r] /\ UNCHANGED receipts
          /\ pc[r] \in InPlan \/ (CandidateEligible(ledger, m, day) /\ UNCHANGED ledger)
          /\ UNCHANGED ledger \/ (pc[r] \in InPlan /\ \E st \in Statuses : UpsertRow(r, st))
        BY StepRecords
    <2>2. Mutation(r)' = m
        BY <2>1 DEF Mutation
    <2>3. pc[r] \in InPlan => plan[r] # <<>>
        BY DEF ControlInv, LoopInv
    <2>4. \A n \in Mutations \ {m} : ledger'[n] = ledger[n]
        BY <2>1, <2>3, UpsertRows
    <2>5. \A n \in Mutations \ {m} :
             n.url = m.url /\ Validated(ledger, n) => ledger[n].appliedAt + Cooldown <= day
        BY <2>1 DEF CoolInv, Admitted, CandidateEligible, TargetEligible
    <2>6. \A q \in Runs : \A i \in DOMAIN receipts[q] :
             receipts[q][i].status = "VALIDATED" => receipts[q][i].mutation # m
        BY <2>1 DEF CoolInv, Admitted, Backed, CandidateEligible
    <2> QED BY <2>1, <2>2, <2>4, <2>5, <2>6 DEF Admitted, Validated
<1> QED BY <1>3, <1>4, <1>5, <1>6

LEMMA NextCool ==
    TimelyRows /\ LoopTypeInv /\ CoolInv /\ [Next]_vars => CoolInv'
<1> SUFFICES ASSUME TimelyRows, LoopTypeInv, CoolInv, [Next]_vars PROVE CoolInv'
    OBVIOUS
<1>1. ASSUME NEW r \in Runs, NEW m \in Modes, Start(r, m) PROVE CoolInv'
    <2>1. /\ pc'[r] = "analyse" /\ UNCHANGED <<plan, receipts>>
          /\ \A q \in Runs \ {r} : pc'[q] = pc[q]
        BY <1>1, StartFrame
    <2>2. UNCHANGED <<ledger, inflight, day>> /\ \A q \in Runs : pc[q] \notin Open
        BY <1>1 DEF Start, MayStart, TimelyRows, stores, world
    <2>3. Alone'
        BY <2>1, <2>2 DEF Alone
    <2>4. \A q \in Runs : pc'[q] \notin InPlan
        BY <2>1, <2>2
    <2> QED BY <2>1, <2>2, <2>3, <2>4 DEF CoolInv, Admitted, CooldownUnlessStale
<1>2. ASSUME NEW r \in Runs, Step(r) PROVE CoolInv'
    BY <1>2, StepBacked, StepAdmitted DEF CoolInv
<1>3. ASSUME Environment \/ UNCHANGED vars PROVE CoolInv'
    <2>1. UNCHANGED <<pc, plan, receipts>>
        BY <1>3, EnvironmentFrame
    <2>2. /\ ledger' = ledger /\ \A w \in inflight' : w \in inflight
          /\ day' \in Nat /\ day <= day'
        BY <1>3
        DEF Environment, Tick, Land, Edit, Regate, vars, control, outcome, stores, world,
            CoolInv, LoopTypeInv, DataOK
    <2>3. day \in Nat /\ ledger \in Ledgers
        BY DEF LoopTypeInv, DataOK
    <2>4. \A m \in Mutations : ledger[m] # None => ledger[m].appliedAt \in Nat
        BY <2>3 DEF Ledgers, Rows
    <2>5. \A m \in Mutations : ledger'[m] # None => ledger'[m].appliedAt <= day'
        BY <2>2, <2>3, <2>4 DEF CoolInv
    <2>6. ASSUME NEW q \in Runs, NEW i \in DOMAIN receipts'[q]
          PROVE  Backed(ledger', day', receipts'[q][i])
        <3>1. receipts[q] \in Seq(Receipts) /\ i \in DOMAIN receipts[q]
            BY <2>1 DEF LoopTypeInv, DataOK
        <3>2. receipts[q][i] \in Receipts
            BY <3>1
        <3>3. receipts[q][i].day \in Nat
            BY <3>2 DEF Receipts
        <3> QED BY <2>1, <2>2, <2>3, <3>1, <3>3 DEF CoolInv, Backed
    <2>7. ASSUME NEW q \in Runs PROVE Admitted(q)'
        <3>1. Mutation(q)' = Mutation(q)
            BY <2>1 DEF Mutation
        <3>2. ASSUME pc[q] \in InPlan, NEW m \in Mutations \ {Mutation(q)},
                     m.url = Mutation(q).url, Validated(ledger, m)
              PROVE  ledger[m].appliedAt + Cooldown <= day'
            <4>1. ledger[m].appliedAt + Cooldown <= day
                BY <3>2 DEF CoolInv, Admitted
            <4> QED BY <2>2, <2>3, <2>4, <3>2, <4>1, LedgerAssumption DEF Validated
        <3> QED BY <2>1, <2>2, <3>1, <3>2 DEF CoolInv, Admitted
    <2> QED BY <2>1, <2>2, <2>5, <2>6, <2>7 DEF CoolInv, Alone, CooldownUnlessStale
<1> QED BY <1>1, <1>2, <1>3 DEF Next

\* Two changes of one URL keep the cooldown, although the guard looks at the table
\* long before the row is written (mutation_guard.py:18-46): only a mutation that
\* was rolled back before, and so has an older date, escapes it.
THEOREM CooldownHolds ==
    ASSUME TimelyRows
    PROVE  Spec => []CooldownUnlessStale
<1>1. Init => CoolInv
    BY DEF Init, CoolInv, Alone, Admitted, CooldownUnlessStale
<1>2. CoolInv => CooldownUnlessStale
    BY DEF CoolInv
<1> QED BY <1>1, <1>2, NextCool, InitLoopType, NextLoopType, PTL DEF Spec
=============================================================================
