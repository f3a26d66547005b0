----------------------- MODULE AutonomousGrowthProofs -----------------------
(***************************************************************************)
(* Theorems about AutonomousGrowth, for every number of executions, URLs,  *)
(* values and posts, every set of faults, and executions that overlap.     *)
(***************************************************************************)
EXTENDS AutonomousGrowth, SequenceTheorems, FiniteSetTheorems, TLAPS

InPlan == {"baseline", "apply", "validate", "record", "rollback", "rerecord"}

InSnap == {"implement", "mutate"} \cup InPlan

ControlOK ==
    /\ pc \in [Runs -> Stages]
    /\ mode \in [Runs -> RunModes]
    /\ targets \in [Runs -> Seq(Urls)]
    /\ snap \in [Runs -> Contents \cup {None}]
    /\ plan \in [Runs -> Seq(Mutations)]

\* What the two loops rely on: inside them there is a current intervention,
\* snapshot and mutation, and the plan was made for that very snapshot.
LoopInv(r) ==
    /\ pc[r] \in Loop => targets[r] # <<>>
    /\ pc[r] \in InSnap => snap[r] # None
    /\ pc[r] \in InPlan => plan[r] # <<>>
    /\ pc[r] \notin {"mutate"} \cup InPlan => plan[r] = <<>>
    /\ \A i \in 1..Len(plan[r]) :
          /\ plan[r][i].url = Url(r)
          /\ plan[r][i].value # snap[r][plan[r][i].field]

ControlInv == ControlOK /\ \A r \in Runs : LoopInv(r)

USE DEF Stages, Open, Closed, Loop, InPlan, InSnap

-----------------------------------------------------------------------------
\* A sequence of at most n elements of S is a sequence over S.
LEMMA SeqsUpToAreSeqs ==
    ASSUME NEW S, NEW n, n \in Nat
    PROVE  SeqsUpTo(S, n) \subseteq Seq(S)
<1> SUFFICES ASSUME NEW s \in SeqsUpTo(S, n) PROVE s \in Seq(S)
    OBVIOUS
<1>1. PICK k \in 0..n : s \in [1..k -> S]
    BY DEF SeqsUpTo
<1>2. k \in Nat
    BY <1>1, n \in Nat
<1>3. \A i \in 1..k : s[i] \in S
    BY <1>1
<1>4. s = [i \in 1..k |-> s[i]]
    BY <1>1
<1>5. [i \in 1..k |-> s[i]] \in Seq(S)
    BY <1>2, <1>3, IsASeq
<1> QED BY <1>4, <1>5

\* Moving on within an iteration keeps the loop invariant, provided the next
\* statement asks for nothing that the execution does not have.
LEMMA GotoStep ==
    ASSUME ControlInv, NEW r \in Runs, NEW stage \in Stages, Goto(r, stage),
           stage \in Loop => targets[r] # <<>>,
           stage \in InSnap => snap[r] # None,
           stage \in InPlan => plan[r] # <<>>,
           stage \notin {"mutate"} \cup InPlan => plan[r] = <<>>
    PROVE  ControlInv'
<1>1. ControlOK'
    BY DEF ControlInv, ControlOK, Goto
<1>2. ASSUME NEW q \in Runs PROVE LoopInv(q)'
    BY <1>2 DEF ControlInv, ControlOK, LoopInv, Goto, Url
<1> QED BY <1>1, <1>2 DEF ControlInv

\* Leaving an iteration of the outer loop keeps the loop invariant.
LEMMA EndInterventionStep ==
    ASSUME ControlInv, NEW r \in Runs, EndIntervention(r), targets[r] # <<>>
    PROVE  ControlInv'
<1> DEFINE t == targets[r]
<1>1. /\ t \in Seq(Urls)
      /\ Tail(t) \in Seq(Urls)
      /\ Len(t) # 1 => Tail(t) # <<>>
    <2>1. t \in Seq(Urls) /\ t # <<>>
        BY DEF ControlInv, ControlOK
    <2>2. Tail(t) \in Seq(Urls) /\ Len(Tail(t)) = Len(t) - 1
        BY <2>1, HeadTailProperties
    <2>3. Len(t) \in Nat
        BY <2>1, LenProperties
    <2>4. Len(<<>>) = 0
        OBVIOUS
    <2>5. Tail(t) = <<>> => Len(Tail(t)) = 0
        BY <2>4, Zenon
    <2> HIDE DEF t
    <2> QED BY <2>1, <2>2, <2>3, <2>5
<1>2. ControlOK'
    BY <1>1 DEF ControlInv, ControlOK, EndIntervention
<1>3. ASSUME NEW q \in Runs, q # r PROVE LoopInv(q)'
    BY <1>3 DEF ControlInv, ControlOK, LoopInv, EndIntervention, Url
<1>4. LoopInv(r)'
    <2>1. /\ pc'[r] \in {"notify", "resolve"}
          /\ pc'[r] \in Loop => Len(t) # 1
          /\ targets'[r] = Tail(t)
          /\ plan'[r] = <<>>
        BY DEF ControlInv, ControlOK, EndIntervention
    <2>2. Len(plan'[r]) = 0
        BY <2>1
    <2> QED BY <1>1, <2>1, <2>2 DEF LoopInv
<1> QED BY <1>2, <1>3, <1>4 DEF ControlInv

\* Leaving an iteration of the inner loop keeps the loop invariant.
LEMMA EndMutationStep ==
    ASSUME ControlInv, NEW r \in Runs, EndMutation(r), pc[r] \in Loop,
           pc[r] \in InSnap, plan[r] # <<>>
    PROVE  ControlInv'
<1> DEFINE p == plan[r]
<1>1. /\ p \in Seq(Mutations)
      /\ Tail(p) \in Seq(Mutations)
      /\ Len(Tail(p)) = Len(p) - 1
      /\ \A i \in 1..Len(Tail(p)) : Tail(p)[i] = p[i + 1]
    BY HeadTailProperties DEF ControlInv, ControlOK
<1>2. Len(p) \in Nat
    BY <1>1, LenProperties
<1>3. ControlOK'
    BY <1>1 DEF ControlInv, ControlOK, EndMutation
<1>4. ASSUME NEW q \in Runs, q # r PROVE LoopInv(q)'
    BY <1>4 DEF ControlInv, ControlOK, LoopInv, EndMutation, Url
<1>5. LoopInv(r)'
    <2>1. /\ pc'[r] = "mutate"
          /\ targets'[r] = targets[r]
          /\ snap'[r] = snap[r]
          /\ plan'[r] = Tail(p)
        BY DEF ControlInv, ControlOK, EndMutation
    <2>2. ASSUME NEW i \in 1..Len(plan'[r])
          PROVE  /\ plan'[r][i].url = Url(r)
                 /\ plan'[r][i].value # snap[r][plan'[r][i].field]
        <3>1. i + 1 \in 1..Len(p) /\ plan'[r][i] = p[i + 1]
            BY <1>1, <1>2, <2>1
        <3> QED BY <3>1 DEF ControlInv, LoopInv
    <2> QED BY <2>1, <2>2 DEF ControlInv, LoopInv, Url
<1> QED BY <1>3, <1>4, <1>5 DEF ControlInv
-----------------------------------------------------------------------------
DataOK ==
    /\ spent \in [Runs -> [Sites -> Nat]]
    /\ receipts \in [Runs -> Seq(Receipts)]
    /\ wp \in [Posts -> Contents]
    /\ ledger \in Ledgers
    /\ backup \in [Mutations -> Contents \cup {None}]
    /\ inflight \subseteq LateWrites
    /\ gates \subseteq Gates
    /\ day \in Nat

\* The type invariant, split into what the loops keep and what the stores hold.
LEMMA TypeSplit == TypeOK <=> ControlOK /\ DataOK
BY DEF TypeOK, ControlOK, DataOK

LoopTypeInv == ControlInv /\ DataOK

\* The current intervention, mutation and post are what their names say.
LEMMA CurrentTypes ==
    ASSUME LoopTypeInv, NEW r \in Runs
    PROVE  /\ targets[r] # <<>> => /\ Url(r) \in Urls
                                   /\ Site(r) \in Sites
                                   /\ PostOf[Url(r)] \in Posts
           /\ plan[r] # <<>> => /\ Mutation(r) \in Mutations
                                /\ PostOfM(Mutation(r)) \in Posts
                                /\ Mutation(r).field \in Fields
                                /\ Mutation(r).value \in Values
                                /\ Mutation(r).url = Url(r)
                                /\ Mutation(r).value # snap[r][Mutation(r).field]
<1>1. targets[r] \in Seq(Urls) /\ plan[r] \in Seq(Mutations)
    BY DEF LoopTypeInv, ControlInv, ControlOK
<1>2. targets[r] # <<>> => Url(r) \in Urls
    BY <1>1, HeadTailProperties DEF Url
<1>3. ASSUME plan[r] # <<>>
      PROVE  /\ Mutation(r) \in Mutations
             /\ 1 \in 1..Len(plan[r])
             /\ Mutation(r) = plan[r][1]
    BY <1>1, <1>3, HeadTailProperties, EmptySeq DEF Mutation
<1>4. plan[r] # <<>> => /\ Mutation(r).url = Url(r)
                        /\ Mutation(r).value # snap[r][Mutation(r).field]
    BY <1>3 DEF LoopTypeInv, ControlInv, LoopInv
<1> QED BY <1>2, <1>3, <1>4, GrowthAssumption DEF Site, PostOfM, Mutations

\* The strengthened type invariant holds before the first execution starts.
LEMMA InitLoopType == Init => LoopTypeInv
<1> SUFFICES ASSUME Init PROVE LoopTypeInv
    OBVIOUS
<1>1. ControlOK
    BY DEF Init, ControlOK, RunModes
<1>2. ASSUME NEW r \in Runs PROVE LoopInv(r)
    <2>1. pc[r] = "new" /\ plan[r] = <<>> /\ Len(plan[r]) = 0
        BY DEF Init
    <2> QED BY <2>1 DEF LoopInv
<1>3. DataOK
    BY GrowthAssumption DEF Init, DataOK, Contents, Ledgers, Receipts
<1> QED BY <1>1, <1>2, <1>3 DEF LoopTypeInv, ControlInv

\* Every step of an execution keeps the loop invariant.
LEMMA StepControl ==
    ASSUME LoopTypeInv, NEW r \in Runs, Step(r)
    PROVE  ControlInv'
<1> USE DEF LoopTypeInv
<1>0. pc[r] \in Loop => targets[r] # <<>>
    BY DEF ControlInv, LoopInv
<1>1. pc[r] \in InSnap => snap[r] # None
    BY DEF ControlInv, LoopInv
<1>2. pc[r] \in InPlan => plan[r] # <<>>
    BY DEF ControlInv, LoopInv
<1>3. pc[r] \notin {"mutate"} \cup InPlan => plan[r] = <<>>
    BY DEF ControlInv, LoopInv
<1>4. CASE Analyse(r)
    <2>1. PICK ts \in SeqsUpTo(Urls, MaxInterventions) :
             /\ targets' = [targets EXCEPT ![r] = ts]
             /\ pc' = [pc EXCEPT ![r] = IF ts = <<>> THEN "notify" ELSE "resolve"]
        BY <1>4 DEF Analyse
    <2>2. UNCHANGED <<mode, snap, plan>>
        BY <1>4 DEF Analyse
    <2>3. ts \in Seq(Urls)
        BY SeqsUpToAreSeqs, GrowthAssumption
    <2>4. ControlOK'
        BY <2>1, <2>2, <2>3 DEF ControlInv, ControlOK
    <2>5. ASSUME NEW q \in Runs, q # r PROVE LoopInv(q)'
        BY <2>1, <2>2, <2>5 DEF ControlInv, ControlOK, LoopInv, Url
    <2>6. plan[r] = <<>> /\ Len(plan[r]) = 0
        BY <1>3, <1>4 DEF Analyse
    <2>7. LoopInv(r)'
        BY <2>1, <2>2, <2>6 DEF ControlInv, ControlOK, LoopInv
    <2> QED BY <2>4, <2>5, <2>7 DEF ControlInv
<1>5. CASE AnalyseFails(r)
    BY <1>3, <1>5, GotoStep DEF AnalyseFails
<1>6. CASE StepFails(r)
    BY <1>0, <1>6, EndInterventionStep DEF StepFails
<1>7. CASE ResolveSite(r)
    BY <1>0, <1>3, <1>7, EndInterventionStep, GotoStep DEF ResolveSite
<1>8. CASE TargetGuard(r)
    BY <1>0, <1>3, <1>8, EndInterventionStep, GotoStep DEF TargetGuard
<1>9. CASE ReadTarget(r)
    <2>1. wp[PostOf[Url(r)]] \in Contents
        BY <1>0, <1>9, CurrentTypes DEF ReadTarget, DataOK
    <2>2. ControlOK'
        BY <1>9, <2>1 DEF ReadTarget, ControlInv, ControlOK
    <2>3. ASSUME NEW q \in Runs, q # r PROVE LoopInv(q)'
        BY <1>9, <2>3 DEF ReadTarget, ControlInv, ControlOK, LoopInv, Url
    <2>4. plan[r] = <<>> /\ Len(plan[r]) = 0
        BY <1>3, <1>9 DEF ReadTarget
    <2>5. LoopInv(r)'
        BY <1>0, <1>9, <2>1, <2>4, GrowthAssumption
        DEF ReadTarget, ControlInv, ControlOK, LoopInv
    <2> QED BY <2>2, <2>3, <2>5 DEF ControlInv
<1>10. CASE Implement(r)
    <2>1. CASE mode[r] = "DRAFT"
        BY <1>0, <1>10, <2>1, EndInterventionStep DEF Implement
    <2>2. CASE mode[r] # "DRAFT"
        <3> DEFINE M == {m \in Mutations : m.url = Url(r) /\ ~IsNoop(m, snap[r])}
        <3>1. PICK p \in SeqsUpTo(M, MaxPlan) :
                 /\ plan' = [plan EXCEPT ![r] = p]
                 /\ pc' = [pc EXCEPT ![r] = "mutate"]
                 /\ UNCHANGED <<mode, targets, snap>>
            BY <1>10, <2>2 DEF Implement, Plans
        <3>2. p \in Seq(M) /\ p \in Seq(Mutations)
            BY SeqsUpToAreSeqs, SeqMonotonic, GrowthAssumption
        <3>3. \A i \in 1..Len(p) : p[i] \in M
            BY <3>2, ElementOfSeq
        <3>4. ControlOK'
            BY <3>1, <3>2 DEF ControlInv, ControlOK
        <3>5. ASSUME NEW q \in Runs, q # r PROVE LoopInv(q)'
            <4>1. /\ pc'[q] = pc[q] /\ plan'[q] = plan[q]
                  /\ targets'[q] = targets[q] /\ snap'[q] = snap[q]
                BY <3>1, <3>5 DEF ControlInv, ControlOK
            <4> QED BY <4>1 DEF ControlInv, LoopInv, Url
        <3>6. LoopInv(r)'
            BY <1>0, <1>1, <1>10, <3>1, <3>3
            DEF Implement, ControlInv, ControlOK, LoopInv, Url, IsNoop
        <3> QED BY <3>4, <3>5, <3>6 DEF ControlInv
    <2> QED BY <2>1, <2>2
<1>11. CASE NextMutation(r)
    BY <1>0, <1>1, <1>11, EndInterventionStep, EndMutationStep, GotoStep DEF NextMutation
<1>12. CASE CaptureBaseline(r)
    BY <1>0, <1>1, <1>2, <1>12, GotoStep DEF CaptureBaseline
<1>13. CASE ApplyRefused(r) \/ ApplyFails(r) \/ ApplyLost(r) \/ ApplyLate(r)
    BY <1>0, <1>13, EndInterventionStep DEF ApplyRefused, ApplyFails, ApplyLost, ApplyLate
<1>14. CASE Apply(r)
    BY <1>0, <1>1, <1>2, <1>14, GotoStep DEF Apply
<1>15. CASE Validate(r)
    BY <1>0, <1>1, <1>2, <1>15, GotoStep DEF Validate
<1>16. CASE Record(r)
    BY <1>0, <1>1, <1>2, <1>16, EndMutationStep DEF Record
<1>17. CASE RecordFails(r)
    BY <1>0, <1>1, <1>2, <1>17, GotoStep DEF RecordFails, AfterFailedRecord
<1>18. CASE Rollback(r)
    BY <1>0, <1>1, <1>2, <1>18, GotoStep DEF Rollback
<1>19. CASE RollbackFails(r) \/ RerecordFails(r)
    BY <1>0, <1>19, EndInterventionStep DEF RollbackFails, RerecordFails
<1>20. CASE Rerecord(r)
    BY <1>0, <1>1, <1>2, <1>20, EndMutationStep DEF Rerecord
<1>21. CASE Notify(r)
    BY <1>3, <1>21, GotoStep DEF Notify, AfterFailedNotice
<1> QED BY <1>4, <1>5, <1>6, <1>7, <1>8, <1>9, <1>10, <1>11, <1>12, <1>13, <1>14,
           <1>15, <1>16, <1>17, <1>18, <1>19, <1>20, <1>21 DEF Step

\* The guard operators and the upsert keep the table a table.
LEMMA UpsertType ==
    ASSUME NEW l \in Ledgers, NEW m \in Mutations, NEW st \in Statuses, NEW d \in Nat
    PROVE  Upsert(l, m, st, d) \in Ledgers
<1>1. l[m] # None => l[m] \in Rows
    BY DEF Ledgers
<1> QED BY <1>1 DEF Upsert, Ledgers, Rows

\* Writing one field of one post keeps every post a title and a content.
LEMMA PutType ==
    ASSUME wp \in [Posts -> Contents], NEW p \in Posts, NEW f \in Fields,
           NEW v \in Values, Put(p, f, v)
    PROVE  wp' \in [Posts -> Contents]
<1>1. [wp[p] EXCEPT ![f] = v] \in Contents
    BY DEF Contents
<1>2. wp' = [wp EXCEPT ![p] = [wp[p] EXCEPT ![f] = v]]
    BY DEF Put
<1> QED BY <1>1, <1>2

\* Every step of an execution keeps the stores well typed.
LEMMA StepData ==
    ASSUME LoopTypeInv, NEW r \in Runs, Step(r)
    PROVE  DataOK'
<1> USE DEF LoopTypeInv
<1>1. /\ targets[r] # <<>> => Site(r) \in Sites
      /\ pc[r] \in InPlan => /\ targets[r] # <<>>
                             /\ Mutation(r) \in Mutations
                             /\ PostOfM(Mutation(r)) \in Posts
                             /\ Mutation(r).field \in Fields
                             /\ Mutation(r).value \in Values
                             /\ snap[r] \in Contents
    BY CurrentTypes DEF ControlInv, ControlOK, LoopInv
<1>2. CASE UNCHANGED <<outcome, stores, world>>
    BY <1>2 DEF DataOK, outcome, stores, world
<1>3. CASE ApplyFails(r) \/ Apply(r) \/ ApplyLost(r) \/ ApplyLate(r)
    <2>1. pc[r] = "apply" /\ UNCHANGED <<outcome, ledger, world>>
        BY <1>3 DEF ApplyFails, Apply, ApplyLost, ApplyLate, outcome, world
    <2>2. backup' \in [Mutations -> Contents \cup {None}]
        BY <1>1, <1>3, <2>1
        DEF ApplyFails, Apply, ApplyLost, ApplyLate, SaveBackup, DataOK
    <2>3. StoredAs[Mutation(r).value] \subseteq Values
        BY <1>1, <2>1, GrowthAssumption
    <2>4. wp' \in [Posts -> Contents]
        BY <1>1, <1>3, <2>1, <2>3, PutType DEF ApplyFails, Apply, ApplyLost, ApplyLate, DataOK
    <2>5. inflight' \subseteq LateWrites
        BY <1>1, <1>3, <2>1, <2>3
        DEF ApplyFails, Apply, ApplyLost, ApplyLate, DataOK, LateWrites
    <2> QED BY <2>1, <2>2, <2>4, <2>5 DEF DataOK, outcome, world
<1>4. CASE Record(r) \/ Rerecord(r)
    <2>1. pc[r] \in InPlan /\ UNCHANGED <<wp, backup, inflight, world>>
        BY <1>4 DEF Record, Rerecord
    <2>2. PICK st \in Statuses : UpsertRow(r, st) /\ AddReceipt(r, st)
        BY <1>4 DEF Record, Rerecord, Statuses
    <2>3. ledger' \in Ledgers
        BY <1>1, <2>1, <2>2, UpsertType DEF UpsertRow, DataOK
    <2>4. receipts' \in [Runs -> Seq(Receipts)]
        <3>1. [mutation |-> Mutation(r), status |-> st, day |-> day] \in Receipts
            BY <1>1, <2>1 DEF Receipts, DataOK
        <3> QED BY <2>2, <3>1 DEF AddReceipt, DataOK
    <2>5. spent' \in [Runs -> [Sites -> Nat]]
        <3>1. CASE Spend(r)
            <4> DEFINE c == [spent[r] EXCEPT ![Site(r)] = @ + 1]
            <4>1. c \in [Sites -> Nat]
                BY <1>1, <2>1 DEF DataOK
            <4>2. spent' = [spent EXCEPT ![r] = c]
                BY <3>1 DEF Spend
            <4> HIDE DEF c
            <4> QED BY <4>1, <4>2 DEF DataOK
        <3> QED BY <1>4, <3>1 DEF Record, Rerecord, DataOK
    <2> QED BY <2>1, <2>3, <2>4, <2>5 DEF DataOK, world
<1>5. CASE RecordFails(r) \/ RerecordFails(r)
    <2>1. pc[r] \in InPlan /\ UNCHANGED <<outcome, wp, backup, world>>
        BY <1>5 DEF RecordFails, RerecordFails
    <2>2. PICK st \in Statuses : Unanswered(r, st)
        BY <1>5 DEF RecordFails, RerecordFails, Statuses
    <2>3. ledger' \in Ledgers
        BY <1>1, <2>1, <2>2, UpsertType DEF Unanswered, UpsertRow, DataOK
    <2>4. inflight' \subseteq LateWrites
        BY <1>1, <2>1, <2>2 DEF Unanswered, DataOK, LateWrites
    <2> QED BY <2>1, <2>3, <2>4 DEF DataOK, outcome, world
<1>6. CASE Rollback(r) \/ RollbackFails(r)
    <2>1. pc[r] = "rollback" /\ UNCHANGED <<outcome, ledger, backup, world>>
        BY <1>6 DEF Rollback, RollbackFails
    <2>2. SentBack(RestoredBody(Mutation(r))) \subseteq Contents
        BY DEF SentBack
    <2>3. wp' \in [Posts -> Contents]
        BY <1>1, <1>6, <2>1, <2>2 DEF Rollback, RollbackFails, Restore, DataOK
    <2>4. inflight' \subseteq LateWrites
        <3>1. LeftBehind(r)
            BY <1>6 DEF Rollback, RollbackFails
        <3> QED BY <1>1, <2>1, <2>2, <3>1 DEF LeftBehind, DataOK, LateWrites
    <2> QED BY <2>1, <2>3, <2>4 DEF DataOK, outcome, world
<1> QED
    BY <1>2, <1>3, <1>4, <1>5, <1>6
    DEF Step, Analyse, AnalyseFails, StepFails, ResolveSite, TargetGuard, ReadTarget,
        Implement, NextMutation, CaptureBaseline, ApplyRefused, Validate, Notify

\* Starting an execution, the environment and stuttering.
LEMMA OtherSteps ==
    ASSUME LoopTypeInv,
           \/ \E r \in Runs, m \in Modes : Start(r, m)
           \/ Environment
           \/ UNCHANGED vars
    PROVE  LoopTypeInv'
<1> USE DEF LoopTypeInv
<1>1. ASSUME NEW r \in Runs, NEW m \in Modes, Start(r, m)
      PROVE  LoopTypeInv'
    <2>1. ControlOK'
        BY <1>1, GrowthAssumption DEF Start, ControlInv, ControlOK
    <2>2. ASSUME NEW q \in Runs PROVE LoopInv(q)'
        BY <1>1, <2>2 DEF Start, ControlInv, ControlOK, LoopInv, Url
    <2>3. DataOK'
        BY <1>1 DEF Start, DataOK, outcome, stores, world
    <2> QED BY <2>1, <2>2, <2>3 DEF ControlInv
<1>2. CASE Environment
    <2>1. UNCHANGED <<control, outcome, backup>>
        BY <1>2 DEF Environment, Tick, Land, Edit, Regate, control, outcome, stores, world
    <2>2. ControlInv'
        BY <2>1 DEF control, ControlInv, ControlOK, LoopInv, Url
    <2>3. wp' \in [Posts -> Contents]
        <3>1. ASSUME NEW w \in inflight, Land(w) PROVE wp' \in [Posts -> Contents]
            <4>1. CASE w.kind = "post"
                <5>1. w.post \in Posts /\ w.field \in Fields /\ w.value \in Values
                    BY <4>1 DEF DataOK, LateWrites
                <5>2. Put(w.post, w.field, w.value)
                    BY <3>1, <4>1 DEF Land
                <5> QED BY <5>1, <5>2, PutType DEF DataOK
            <4>2. CASE w.kind = "restore"
                <5>1. w.post \in Posts /\ w.content \in Contents
                    BY <4>2 DEF DataOK, LateWrites
                <5> QED BY <3>1, <4>2, <5>1 DEF Land, DataOK
            <4>3. CASE w.kind \notin {"post", "restore"}
                BY <3>1, <4>3 DEF Land, DataOK
            <4> QED BY <4>1, <4>2, <4>3
        <3>2. ASSUME NEW p \in Posts, NEW f \in Fields, NEW v \in Values, Edit(p, f, v)
              PROVE  wp' \in [Posts -> Contents]
            BY <3>2, PutType DEF Edit, DataOK
        <3> QED BY <1>2, <3>1, <3>2 DEF Environment, Tick, Regate, DataOK, stores
    <2>4. ledger' \in Ledgers
        <3>1. ASSUME NEW w \in inflight, Land(w) PROVE ledger' \in Ledgers
            BY <3>1, UpsertType DEF Land, DataOK, LateWrites
        <3> QED BY <1>2, <3>1 DEF Environment, Tick, Regate, Edit, DataOK, stores
    <2>5. inflight' \subseteq LateWrites
        BY <1>2 DEF Environment, Tick, Land, Edit, Regate, DataOK, stores
    <2>6. gates' \subseteq Gates /\ day' \in Nat
        BY <1>2 DEF Environment, Tick, Land, Edit, Regate, DataOK, world
    <2> QED BY <2>1, <2>2, <2>3, <2>4, <2>5, <2>6 DEF DataOK, outcome
<1>3. CASE UNCHANGED vars
    BY <1>3 DEF vars, control, outcome, stores, world, ControlInv, ControlOK, LoopInv,
                Url, DataOK
<1> QED BY <1>1, <1>2, <1>3

\* Every step, of an execution or of the environment, keeps it.
LEMMA NextLoopType == LoopTypeInv /\ [Next]_vars => LoopTypeInv'
BY StepControl, StepData, OtherSteps DEF Next, LoopTypeInv

\* The strengthened type invariant always holds.
LEMMA AlwaysLoopType == Spec => []LoopTypeInv
BY InitLoopType, NextLoopType, PTL DEF Spec

\* Every variable keeps its type: in particular no execution reads the head of an
\* empty list of interventions or of an empty plan (autonomous.py:94 and 166).
THEOREM TypeCorrect == Spec => []TypeOK
<1>1. LoopTypeInv => TypeOK
    BY TypeSplit DEF LoopTypeInv, ControlInv
<1> QED BY <1>1, AlwaysLoopType, PTL
-----------------------------------------------------------------------------
Frame(q) ==
    /\ pc'[q] = pc[q] /\ mode'[q] = mode[q] /\ targets'[q] = targets[q]
    /\ snap'[q] = snap[q] /\ plan'[q] = plan[q]
    /\ spent'[q] = spent[q] /\ receipts'[q] = receipts[q]

\* A step of one execution leaves the local variables of the others alone.
LEMMA StepFrame ==
    ASSUME LoopTypeInv, NEW r \in Runs, Step(r), NEW q \in Runs, q # r
    PROVE  Frame(q)
<1> USE DEF LoopTypeInv, ControlInv, ControlOK, DataOK
<1>1. pc'[q] = pc[q] /\ mode'[q] = mode[q] /\ plan'[q] = plan[q]
    BY DEF Step, Goto, EndIntervention, EndMutation, Analyse, AnalyseFails, StepFails,
           ResolveSite, TargetGuard, ReadTarget, Implement, NextMutation, CaptureBaseline,
           ApplyRefused, ApplyFails, Apply, ApplyLost, ApplyLate, Validate, Record,
           RecordFails, AfterFailedRecord, Rollback, RollbackFails, Rerecord,
           RerecordFails, Notify, AfterFailedNotice
<1>2. targets'[q] = targets[q] /\ snap'[q] = snap[q]
    BY DEF Step, Goto, EndIntervention, EndMutation, Analyse, AnalyseFails, StepFails,
           ResolveSite, TargetGuard, ReadTarget, Implement, NextMutation, CaptureBaseline,
           ApplyRefused, ApplyFails, Apply, ApplyLost, ApplyLate, Validate, Record,
           RecordFails, AfterFailedRecord, Rollback, RollbackFails, Rerecord,
           RerecordFails, Notify, AfterFailedNotice
<1>3. spent'[q] = spent[q] /\ receipts'[q] = receipts[q]
    BY DEF Step, outcome, Analyse, AnalyseFails, StepFails,
           ResolveSite, TargetGuard, ReadTarget, Implement, NextMutation, CaptureBaseline,
           ApplyRefused, ApplyFails, Apply, ApplyLost, ApplyLate, Validate, Record, Spend,
           RecordFails, Rollback, RollbackFails, Rerecord, AddReceipt,
           RerecordFails, Notify
<1> QED BY <1>1, <1>2, <1>3 DEF Frame

\* The environment leaves the local variables of every execution alone.
LEMMA EnvironmentFrame ==
    ASSUME Environment \/ UNCHANGED vars
    PROVE  UNCHANGED <<pc, mode, targets, snap, plan, spent, receipts, backup>>
BY DEF Environment, Tick, Land, Edit, Regate, vars, control, outcome, stores, world

\* Starting an execution moves only it, from new to analyse.
LEMMA StartFrame ==
    ASSUME LoopTypeInv, NEW r \in Runs, NEW m \in Modes, Start(r, m)
    PROVE  /\ pc[r] = "new" /\ pc'[r] = "analyse"
           /\ \A q \in Runs \ {r} : pc'[q] = pc[q] /\ mode'[q] = mode[q]
           /\ UNCHANGED <<targets, snap, plan, spent, receipts, wp, backup>>
BY DEF LoopTypeInv, ControlInv, ControlOK, Start, outcome, stores
-----------------------------------------------------------------------------
BackupInv == BackupClean /\ BackupReady

\* A step keeps every backup restorable: it is written before the post is
\* changed, from a snapshot in which the field does not hold the new value.
LEMMA StepBackup ==
    ASSUME LoopTypeInv, BackupInv, NEW r \in Runs, Step(r)
    PROVE  BackupInv'
<1> USE DEF LoopTypeInv
<1> DEFINE saves == ApplyFails(r) \/ Apply(r) \/ ApplyLost(r) \/ ApplyLate(r)
<1>1. saves => /\ pc[r] = "apply"
               /\ plan[r] # <<>> /\ snap[r] # None
               /\ SaveBackup(r)
    BY DEF ApplyFails, Apply, ApplyLost, ApplyLate, ControlInv, LoopInv
<1>2. ~saves => UNCHANGED backup
    BY DEF Step, stores, Analyse, AnalyseFails, StepFails, ResolveSite, TargetGuard,
           ReadTarget, Implement, NextMutation, CaptureBaseline, ApplyRefused, Validate,
           Record, RecordFails, Rollback, RollbackFails, Rerecord, RerecordFails, Notify
<1>3. saves => /\ Mutation(r) \in Mutations
               /\ Mutation(r).value # snap[r][Mutation(r).field]
    BY <1>1, CurrentTypes
<1>4. ASSUME NEW m \in Mutations, backup'[m] # backup[m]
      PROVE  /\ m = Mutation(r) /\ backup'[m] = snap[r] /\ snap[r] # None
             /\ Mutation(r).value # snap[r][Mutation(r).field]
    <2>1. saves
        BY <1>2, <1>4
    <2>2. backup' = [backup EXCEPT ![Mutation(r)] = snap[r]]
        BY <1>1, <2>1 DEF SaveBackup
    <2>3. m = Mutation(r) /\ backup'[m] = snap[r]
        BY <1>4, <2>2 DEF DataOK
    <2> QED BY <1>1, <1>3, <2>1, <2>3
<1> HIDE DEF saves
<1>5. BackupClean'
    BY <1>4 DEF BackupInv, BackupClean
<1>6. ASSUME NEW q \in Runs, Writing(q)' PROVE (backup[Mutation(q)])' # None
    <2>1. CASE q # r
        <3>1. pc'[q] = pc[q] /\ plan'[q] = plan[q]
            BY <2>1, StepFrame DEF Frame
        <3>2. Mutation(q) \in Mutations /\ backup[Mutation(q)] # None
            BY <1>6, <3>1, CurrentTypes
            DEF Writing, BackupInv, BackupReady, ControlInv, LoopInv
        <3>3. Mutation(q)' = Mutation(q)
            BY <3>1 DEF Mutation
        <3> QED BY <1>4, <3>2, <3>3
    <2>2. CASE q = r
        <3>1. CASE Apply(r)
            <4>1. saves /\ plan' = plan
                BY <3>1 DEF saves, Apply, Goto
            <4>2. Mutation(r)' = Mutation(r)
                BY <4>1 DEF Mutation
            <4> QED BY <1>1, <1>3, <2>2, <4>1, <4>2 DEF SaveBackup, DataOK
        <3>2. CASE ~Apply(r)
            <4>1. Writing(r) /\ plan' = plan /\ UNCHANGED backup
                BY <1>6, <2>2, <3>2
                DEF Writing, ControlInv, ControlOK, stores,
                    Step, Goto, EndIntervention, EndMutation, Analyse, AnalyseFails,
                    StepFails, ResolveSite, TargetGuard, ReadTarget, Implement,
                    NextMutation, CaptureBaseline, ApplyRefused, ApplyFails, ApplyLost,
                    ApplyLate, Validate, Record, RecordFails, AfterFailedRecord, Rollback,
                    RollbackFails, Rerecord, RerecordFails, Notify, AfterFailedNotice
            <4> QED BY <2>2, <4>1 DEF BackupInv, BackupReady, Mutation
        <3> QED BY <3>1, <3>2
    <2> QED BY <2>1, <2>2
<1> QED BY <1>5, <1>6 DEF BackupInv, BackupReady

\* Every step keeps the backups clean and ready.
LEMMA NextBackup == LoopTypeInv /\ BackupInv /\ [Next]_vars => BackupInv'
<1> SUFFICES ASSUME LoopTypeInv, BackupInv, [Next]_vars PROVE BackupInv'
    OBVIOUS
<1>1. ASSUME NEW r \in Runs, NEW m \in Modes, Start(r, m) PROVE BackupInv'
    BY <1>1, StartFrame DEF BackupInv, BackupClean, BackupReady, Writing, Mutation
<1>2. ASSUME NEW r \in Runs, Step(r) PROVE BackupInv'
    BY <1>2, StepBackup
<1>3. ASSUME Environment \/ UNCHANGED vars PROVE BackupInv'
    BY <1>3, EnvironmentFrame DEF BackupInv, BackupClean, BackupReady, Writing, Mutation
<1> QED BY <1>1, <1>2, <1>3 DEF Next

\* The invariant about the backups always holds.
LEMMA AlwaysBackup == Spec => [](LoopTypeInv /\ BackupInv)
<1>1. Init => BackupInv
    BY DEF Init, BackupInv, BackupClean, BackupReady, Writing
<1> QED BY <1>1, NextBackup, InitLoopType, NextLoopType, PTL DEF Spec

\* The backup file that a rollback restores never holds the value it is to undo,
\* however the attempts of overlapping executions overwrite it.
THEOREM BackupsStayClean == Spec => []BackupClean
<1>1. BackupInv => BackupClean
    BY DEF BackupInv
<1> QED BY <1>1, AlwaysBackup, PTL

\* An execution that has changed a post always finds its backup file.
THEOREM BackupsAreReady == Spec => []BackupReady
<1>1. BackupInv => BackupReady
    BY DEF BackupInv
<1> QED BY <1>1, AlwaysBackup, PTL

\* A rollback that is answered never asked WordPress for the value that it undoes,
\* under any interleaving of executions, editors and late writes and whatever
\* WordPress makes of what it is sent (wordpress.py:227-244).
THEOREM RollbacksUndo == Spec => RollbackUndoes
<1> DEFINE field(r) == wp'[PostOfM(Mutation(r))][Mutation(r).field]
           undone(r) ==
        pc[r] = "rollback" /\ pc'[r] = "rerecord"
            => \E v \in Values \ {Mutation(r).value} : field(r) \in StoredAs[v]
<1>1. ASSUME LoopTypeInv, BackupInv, [Next]_vars PROVE \A r \in Runs : undone(r)
    <2> SUFFICES ASSUME NEW r \in Runs, pc[r] = "rollback", pc'[r] = "rerecord"
                 PROVE  \E v \in Values \ {Mutation(r).value} : field(r) \in StoredAs[v]
        OBVIOUS
    <2>1. Step(r)
        BY <1>1, StepFrame, StartFrame, EnvironmentFrame DEF Next, Frame
    <2>2. Restore(r)
        BY <1>1, <2>1
        DEF LoopTypeInv, ControlInv, ControlOK,
            Step, Goto, EndIntervention, EndMutation, Analyse, AnalyseFails,
            StepFails, ResolveSite, TargetGuard, ReadTarget, Implement,
            NextMutation, CaptureBaseline, ApplyRefused, ApplyFails, Apply, ApplyLost,
            ApplyLate, Validate, Record, RecordFails, Rollback, RollbackFails, Rerecord,
            RerecordFails, Notify
    <2>3. Mutation(r) \in Mutations /\ PostOfM(Mutation(r)) \in Posts
        BY <1>1, CurrentTypes DEF LoopTypeInv, ControlInv, LoopInv
    <2>4. backup[Mutation(r)] # None
        BY <1>1 DEF BackupInv, BackupReady, Writing
    <2>5. backup[Mutation(r)][Mutation(r).field] # Mutation(r).value
        BY <1>1, <2>3, <2>4 DEF BackupInv, BackupClean
    <2>6. /\ backup[Mutation(r)] \in Contents
          /\ Mutation(r).field \in Fields
        BY <1>1, <2>3, <2>4 DEF LoopTypeInv, DataOK, Mutations
    <2>7. PICK c \in SentBack(backup[Mutation(r)]) :
              wp' = [wp EXCEPT ![PostOfM(Mutation(r))] = c]
        BY <2>2 DEF Restore, RestoredBody
    <2>8. field(r) = c[Mutation(r).field]
        BY <1>1, <2>3, <2>7 DEF LoopTypeInv, DataOK
    <2>9. c[Mutation(r).field] \in StoredAs[backup[Mutation(r)][Mutation(r).field]]
        BY <2>6, <2>7 DEF SentBack
    <2>10. backup[Mutation(r)][Mutation(r).field] \in Values \ {Mutation(r).value}
        BY <2>5, <2>6 DEF Contents
    <2> QED BY <2>8, <2>9, <2>10
<1>2. LoopTypeInv /\ BackupInv /\ [Next]_vars => [\A r \in Runs : undone(r)]_vars
    BY <1>1
<1> QED BY <1>2, AlwaysBackup, PTL DEF Spec, RollbackUndoes
-----------------------------------------------------------------------------
\* The positions of the VALIDATED receipts of site s in a list of receipts.
Counted(rs, s) ==
    {i \in DOMAIN rs : rs[i].status = "VALIDATED" /\ SiteOf[rs[i].mutation.url] = s}

BudgetInv ==
    \A r \in Runs :
        /\ pc[r] \in InPlan => spent[r][Site(r)] < MaxMutationsPerSite
        /\ \A s \in Sites : /\ Cardinality(Counted(receipts[r], s)) = spent[r][s]
                            /\ spent[r][s] <= MaxMutationsPerSite

\* One more receipt: the count of its site grows by one if it is VALIDATED.
LEMMA CountedAppend ==
    ASSUME NEW rs \in Seq(Receipts), NEW x \in Receipts, NEW s
    PROVE  Cardinality(Counted(Append(rs, x), s)) =
             IF x.status = "VALIDATED" /\ SiteOf[x.mutation.url] = s
             THEN Cardinality(Counted(rs, s)) + 1
             ELSE Cardinality(Counted(rs, s))
<1> DEFINE n == Len(rs)
           a == Append(rs, x)
<1>1. /\ n \in Nat /\ DOMAIN rs = 1..n
      /\ DOMAIN a = 1..(n + 1)
      /\ \A i \in 1..n : a[i] = rs[i]
      /\ a[n + 1] = x
    BY LenProperties
<1> HIDE DEF n, a
<1>2. IsFiniteSet(Counted(rs, s)) /\ n + 1 \notin Counted(rs, s)
    <2>1. Counted(rs, s) \subseteq 1..n
        BY <1>1 DEF Counted
    <2>2. IsFiniteSet(1..n)
        BY <1>1, FS_Interval
    <2>3. IsFiniteSet(Counted(rs, s))
        BY <2>1, <2>2, FS_Subset
    <2> QED BY <1>1, <2>1, <2>3
<1>3. CASE x.status = "VALIDATED" /\ SiteOf[x.mutation.url] = s
    <2>1. Counted(a, s) = Counted(rs, s) \cup {n + 1}
        BY <1>1, <1>3 DEF Counted
    <2>2. Cardinality(Counted(rs, s) \cup {n + 1}) = Cardinality(Counted(rs, s)) + 1
        BY <1>2, FS_AddElement
    <2> QED BY <1>3, <2>1, <2>2 DEF a
<1>4. CASE ~(x.status = "VALIDATED" /\ SiteOf[x.mutation.url] = s)
    <2>1. Counted(a, s) = Counted(rs, s)
        BY <1>1, <1>4 DEF Counted
    <2> QED BY <1>4, <2>1 DEF a
<1> QED BY <1>3, <1>4

\* A step keeps the counter equal to the receipts and within the budget.
LEMMA StepBudget ==
    ASSUME LoopTypeInv, BudgetInv, NEW r \in Runs, Step(r)
    PROVE  BudgetInv'
<1> USE DEF LoopTypeInv
<1> DEFINE Within(q) ==
        /\ pc[q] \in InPlan => spent[q][Site(q)] < MaxMutationsPerSite
        /\ \A s \in Sites : /\ Cardinality(Counted(receipts[q], s)) = spent[q][s]
                            /\ spent[q][s] <= MaxMutationsPerSite
<1>0. \A q, s : Counted(receipts[q], s)' = Counted(receipts'[q], s)
    BY DEF Counted
<1>1. ASSUME NEW q \in Runs, q # r PROVE Within(q)'
    <2>1. /\ pc'[q] = pc[q] /\ targets'[q] = targets[q]
          /\ spent'[q] = spent[q] /\ receipts'[q] = receipts[q]
        BY <1>1, StepFrame DEF Frame
    <2> QED BY <1>0, <2>1 DEF BudgetInv, Site, Url
<1>2. ASSUME Record(r) \/ Rerecord(r) PROVE Within(r)'
    <2>1. /\ Mutation(r) \in Mutations /\ Mutation(r).url = Url(r) /\ Site(r) \in Sites
          /\ pc[r] \in InPlan
        BY <1>2, CurrentTypes DEF Record, Rerecord, ControlInv, LoopInv
    <2>2. PICK st \in Statuses :
             /\ AddReceipt(r, st)
             /\ IF st = "VALIDATED" THEN Spend(r) ELSE UNCHANGED spent
        BY <1>2 DEF Record, Rerecord, Statuses
    <2> DEFINE x == [mutation |-> Mutation(r), status |-> st, day |-> day]
    <2>3. x \in Receipts /\ receipts[r] \in Seq(Receipts)
        BY <2>1 DEF Receipts, DataOK
    <2>4. receipts'[r] = Append(receipts[r], x)
        BY <2>2 DEF AddReceipt, DataOK
    <2>5. x.status = st /\ SiteOf[x.mutation.url] = Site(r)
        BY <2>1 DEF Site
    <2> HIDE DEF x
    <2>6. pc'[r] = "mutate"
        BY <1>2 DEF Record, Rerecord, EndMutation, ControlInv, ControlOK
    <2>7. ASSUME NEW s \in Sites
          PROVE  /\ Cardinality(Counted(receipts'[r], s)) = spent'[r][s]
                 /\ spent'[r][s] <= MaxMutationsPerSite
        <3>1. /\ Cardinality(Counted(receipts[r], s)) = spent[r][s]
              /\ spent[r][s] <= MaxMutationsPerSite
              /\ s = Site(r) => spent[r][s] < MaxMutationsPerSite
              /\ spent[r][s] \in Nat
            BY <2>1 DEF BudgetInv, DataOK
        <3>2. Cardinality(Counted(receipts'[r], s)) =
                IF st = "VALIDATED" /\ s = Site(r) THEN spent[r][s] + 1 ELSE spent[r][s]
            BY <2>3, <2>4, <2>5, <3>1, CountedAppend
        <3>3. spent'[r][s] =
                IF st = "VALIDATED" /\ s = Site(r) THEN spent[r][s] + 1 ELSE spent[r][s]
            BY <2>1, <2>2 DEF Spend, DataOK
        <3> QED BY <3>1, <3>2, <3>3, GrowthAssumption
    <2>8. \A s \in Sites : /\ (Cardinality(Counted(receipts[r], s)) = spent[r][s])'
                           /\ (spent[r][s] <= MaxMutationsPerSite)'
        BY <1>0, <2>7
    <2>9. (pc[r] \in InPlan)' = FALSE
        BY <2>6
    <2> QED BY <2>8, <2>9
<1>3. ASSUME ~(Record(r) \/ Rerecord(r)) PROVE Within(r)'
    <2>1. UNCHANGED <<spent, receipts>>
        BY <1>3
        DEF Step, outcome, Analyse, AnalyseFails, StepFails, ResolveSite, TargetGuard,
            ReadTarget, Implement, NextMutation, CaptureBaseline, ApplyRefused,
            ApplyFails, Apply, ApplyLost, ApplyLate, Validate, RecordFails, Rollback,
            RollbackFails, RerecordFails, Notify
    <2>2. pc'[r] \in InPlan
             => /\ targets'[r] = targets[r]
                /\ pc[r] \in InPlan \/ (~BudgetExhausted(r) /\ targets[r] # <<>>)
        BY <1>3
        DEF ControlInv, ControlOK, LoopInv,
            Step, Goto, EndIntervention, EndMutation, Analyse, AnalyseFails,
            StepFails, ResolveSite, TargetGuard, ReadTarget, Implement, NextMutation,
            CaptureBaseline, ApplyRefused, ApplyFails, Apply, ApplyLost, ApplyLate,
            Validate, RecordFails, AfterFailedRecord, Rollback, RollbackFails,
            RerecordFails, Notify, AfterFailedNotice
    <2>3. targets[r] # <<>> => spent[r][Site(r)] \in Nat
        BY CurrentTypes DEF DataOK
    <2>4. pc'[r] \in InPlan => (spent[r][Site(r)] < MaxMutationsPerSite)'
        BY <2>1, <2>2, <2>3, GrowthAssumption DEF BudgetInv, BudgetExhausted, Site, Url
    <2>5. \A s \in Sites : /\ (Cardinality(Counted(receipts[r], s)) = spent[r][s])'
                           /\ (spent[r][s] <= MaxMutationsPerSite)'
        BY <1>0, <2>1 DEF BudgetInv
    <2> QED BY <2>4, <2>5
<1>4. Within(r)'
    BY <1>2, <1>3
<1> QED BY <1>1, <1>4 DEF BudgetInv

\* Every step keeps the counters equal to the receipts and within the budget.
LEMMA NextBudget == LoopTypeInv /\ BudgetInv /\ [Next]_vars => BudgetInv'
<1> SUFFICES ASSUME LoopTypeInv, BudgetInv, [Next]_vars PROVE BudgetInv'
    OBVIOUS
<1>1. ASSUME NEW r \in Runs, NEW m \in Modes, Start(r, m) PROVE BudgetInv'
    BY <1>1, StartFrame DEF BudgetInv, Counted, Site, Url
<1>2. ASSUME NEW r \in Runs, Step(r) PROVE BudgetInv'
    BY <1>2, StepBudget
<1>3. ASSUME Environment \/ UNCHANGED vars PROVE BudgetInv'
    BY <1>3, EnvironmentFrame DEF BudgetInv, Counted, Site, Url
<1> QED BY <1>1, <1>2, <1>3 DEF Next

\* Before the first execution nothing is counted and nothing is received.
LEMMA InitBudget == Init => BudgetInv
<1> SUFFICES ASSUME Init, NEW r \in Runs, NEW s \in Sites
             PROVE  /\ pc[r] \notin InPlan
                    /\ Cardinality(Counted(receipts[r], s)) = spent[r][s]
                    /\ spent[r][s] <= MaxMutationsPerSite
    BY DEF BudgetInv, Init
<1>1. Counted(receipts[r], s) = {}
    BY DEF Init, Counted
<1>2. Cardinality(Counted(receipts[r], s)) = 0
    BY <1>1, FS_EmptySet
<1>3. pc[r] = "new" /\ spent[r][s] = 0
    BY DEF Init
<1> QED BY <1>2, <1>3, GrowthAssumption

\* No execution validates more changes of a site than its budget, whatever fails
\* and whatever else runs (autonomous.py:106, 167 and 241).
THEOREM BudgetIsKept == Spec => []BudgetPerRun
<1>1. LoopTypeInv /\ BudgetInv => BudgetPerRun
    BY DEF BudgetInv, BudgetPerRun, ValidatedReceipts, Counted
<1> QED BY <1>1, InitBudget, NextBudget, InitLoopType, NextLoopType, PTL DEF Spec
-----------------------------------------------------------------------------
DraftInv ==
    /\ DraftNeverWrites
    /\ \A r \in Runs : /\ mode[r] = "READ_ONLY" => pc[r] \notin Loop
                       /\ pc[r] \in {"new", "analyse"} => receipts[r] = <<>>

\* A step of an execution without permission to write comes no nearer to a write.
LEMMA StepDraft ==
    ASSUME LoopTypeInv, DraftInv, NEW r \in Runs, Step(r)
    PROVE  DraftInv'
<1> USE DEF LoopTypeInv, DraftInv, DraftNeverWrites, Writing
<1>1. /\ mode'[r] = mode[r]
      /\ mode[r] = "READ_ONLY" => pc'[r] \notin Loop
      /\ mode[r] = "DRAFT" => pc'[r] \notin {"mutate"} \cup InPlan
      /\ pc'[r] \notin {"new", "analyse"}
    BY DEF ControlInv, ControlOK,
           Step, Goto, EndIntervention, EndMutation, Analyse, AnalyseFails,
           StepFails, ResolveSite, TargetGuard, ReadTarget, Implement, NextMutation,
           CaptureBaseline, ApplyRefused, ApplyFails, Apply, ApplyLost, ApplyLate,
           Validate, Record, RecordFails, AfterFailedRecord, Rollback, RollbackFails,
           Rerecord, RerecordFails, Notify, AfterFailedNotice
<1>2. mode[r] \in {"READ_ONLY", "DRAFT"} => receipts'[r] = <<>>
    BY DEF Step, outcome, Analyse, AnalyseFails, StepFails, ResolveSite, TargetGuard,
           ReadTarget, Implement, NextMutation, CaptureBaseline, ApplyRefused,
           ApplyFails, Apply, ApplyLost, ApplyLate, Validate, Record, RecordFails,
           Rollback, RollbackFails, Rerecord, RerecordFails, Notify
<1>3. ASSUME NEW q \in Runs, q # r PROVE Frame(q)
    BY <1>3, StepFrame
<1> QED BY <1>1, <1>2, <1>3 DEF Frame

\* Every step keeps read-only and draft executions away from a write.
LEMMA NextDraft == LoopTypeInv /\ DraftInv /\ [Next]_vars => DraftInv'
<1> SUFFICES ASSUME LoopTypeInv, DraftInv, [Next]_vars PROVE DraftInv'
    OBVIOUS
<1>1. ASSUME NEW r \in Runs, NEW m \in Modes, Start(r, m) PROVE DraftInv'
    BY <1>1, StartFrame DEF DraftInv, DraftNeverWrites, Writing
<1>2. ASSUME NEW r \in Runs, Step(r) PROVE DraftInv'
    BY <1>2, StepDraft
<1>3. ASSUME Environment \/ UNCHANGED vars PROVE DraftInv'
    BY <1>3, EnvironmentFrame DEF DraftInv, DraftNeverWrites, Writing
<1> QED BY <1>1, <1>2, <1>3 DEF Next

\* READ_ONLY and DRAFT executions never write (autonomous.py:62 and 163).
THEOREM DraftsStayDrafts == Spec => []DraftNeverWrites
<1>1. Init => DraftInv
    BY DEF Init, DraftInv, DraftNeverWrites, Writing
<1>2. DraftInv => DraftNeverWrites
    BY DEF DraftInv
<1> QED BY <1>1, <1>2, NextDraft, InitLoopType, NextLoopType, PTL DEF Spec
=============================================================================
