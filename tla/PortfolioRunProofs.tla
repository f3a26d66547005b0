-------------------------- MODULE PortfolioRunProofs --------------------------
(***************************************************************************)
(* Theorems about PortfolioRun, for every set of workflow IDs, findings and *)
(* roles, and for any number of executions of one workflow ID.             *)
(***************************************************************************)
EXTENDS PortfolioRun, SequenceTheorems, PositionProofs

\* Stages before the verifier has answered.
Early == {"create", "context", "specialists", "gate"}

\* The last of the verdicts vs on finding c clears it.
Cleared(vs, c) ==
    LET mentions == {i \in DOMAIN vs : vs[i].claim = c}
    IN  mentions # {} /\ vs[Last(mentions)].verdict # "UNGROUNDED"

\* A stamp that lets a finding through is the verifier's, and the judge was shown
\* only findings with such a stamp.
GateInv(r) ==
    /\ pc[r] = "gate" => Eligible(stamp[r]) = {}
    /\ pc[r] \in Early => shown[r] = {} /\ chosen[r] = 0
    /\ \A c \in Eligible(stamp[r]) : Cleared(verdicts[r], c)
    /\ shown[r] \subseteq Eligible(stamp[r])
    /\ chosen[r] > 0 => shown[r] # {}

\* The results of the agents before the current one are recorded.
ProgressInv(r) == \A a \in Agents : a < agent[r] => results[r][a] > 0

AllRecorded(r) == \A a \in Agents : results[r][a] > 0

Finished == {"DONE", "NEEDS_VERIFICATION_OR_DATA"}

RecordedInv ==
    /\ \A r \in RunIds : ProgressInv(r) /\ (pc[r] = "complete" => AllRecorded(r))
    /\ \A r \in RunIds : row[r] \in Finished => AllRecorded(r)
    /\ \A w \in inflight : w.status \in Finished => AllRecorded(w.run)

\* Two findings have different IDs: it is not so in general (RunSharedId).
UniqueIds == \A c, d \in Claims : FindingId[c] = FindingId[d] => c = d

-----------------------------------------------------------------------------
LEMMA AgentNumbers ==
    /\ Len(SpecialistRoles) \in Nat \ {0}
    /\ Agents \subseteq Nat
    /\ 1 \in Agents
<1>1. Len(SpecialistRoles) \in Nat /\ Len(SpecialistRoles) # 0
    BY PortfolioAssumption, LenProperties, EmptySeq
<1> QED BY <1>1 DEF Agents

\* Verdicts on something have a last one, which is one of them.
LEMMA LastVerdict ==
    ASSUME NEW n \in Nat, NEW S \in SUBSET (1..n), S # {}
    PROVE  Last(S) \in S
BY LastPosition DEF Last

\* What the verifier returns is a list, and merging it leaves stamps.
LEMMA MergeTypes ==
    ASSUME NEW n \in Nat, NEW vs \in [1..n -> [claim: Claims, verdict: Verdicts]],
           NEW stamps \in [Claims -> Stamps \cup {Absent}]
    PROVE  /\ vs \in Seq([claim: Claims, verdict: Verdicts])
           /\ Merge(stamps, vs) \in [Claims -> Stamps \cup {Absent}]
<1>1. vs \in Seq([claim: Claims, verdict: Verdicts])
    <2>1. vs = [i \in 1..n |-> vs[i]] /\ \A i \in 1..n : vs[i] \in [claim: Claims, verdict: Verdicts]
        OBVIOUS
    <2>2. [i \in 1..n |-> vs[i]] \in Seq([claim: Claims, verdict: Verdicts])
        BY <2>1, IsASeq
    <2> QED BY <2>1, <2>2
<1>2. ASSUME NEW c \in Claims, About(vs, FindingId[c]) # {}
      PROVE  vs[Last(About(vs, FindingId[c]))].verdict \in Verdicts
    <2>1. About(vs, FindingId[c]) \in SUBSET (1..n)
        BY DEF About
    <2>2. Last(About(vs, FindingId[c])) \in 1..n
        BY <1>2, <2>1, LastVerdict
    <2> QED BY <2>2
<1>3. Merge(stamps, vs) \in [Claims -> Stamps \cup {Absent}]
    BY <1>2 DEF Merge, Stamps
<1> QED BY <1>1, <1>3

\* What one activity of an execution leaves behind.
LEMMA GotoTypes ==
    ASSUME TypeOK, NEW r \in RunIds, NEW stage \in Busy \cup Closed, Goto(r, stage)
    PROVE  /\ pc' \in [RunIds -> {"idle"} \cup Busy \cup Closed]
           /\ starts' \in [RunIds -> 0..MaxStarts]
           /\ acked' \in [RunIds -> BOOLEAN]
BY DEF Goto, TypeOK

LEMMA RowTypes ==
    ASSUME TypeOK, NEW r \in RunIds, NEW status \in RowStatuses
    PROVE  /\ SetRow(r, status) => row' \in [RunIds -> RowStatuses \cup {Absent}]
           /\ CompletionUnanswered(r, status) =>
                 /\ row' \in [RunIds -> RowStatuses \cup {Absent}]
                 /\ inflight' \subseteq [run: RunIds, status: RowStatuses]
<1>1. SetRow(r, status) => row' \in [RunIds -> RowStatuses \cup {Absent}]
    BY DEF SetRow, TypeOK
<1>2. [run |-> r, status |-> status] \in [run: RunIds, status: RowStatuses]
    OBVIOUS
<1>3. CompletionUnanswered(r, status) =>
         /\ SetRow(r, status) \/ UNCHANGED row
         /\ inflight' \subseteq inflight \cup {[run |-> r, status |-> status]}
    BY DEF CompletionUnanswered
<1> QED BY <1>1, <1>2, <1>3 DEF TypeOK

LEMMA ResultTypes ==
    ASSUME TypeOK, NEW r \in RunIds, NEW n \in Nat, AddResults(r, n)
    PROVE  /\ results' \in [RunIds -> [Agents -> Nat]]
           /\ \A q \in RunIds, a \in Agents :
                 results'[q][a] = results[q][a] + (IF q = r /\ a = agent[r] THEN n ELSE 0)
<1>1. \A q \in RunIds, a \in Agents : results[q][a] \in Nat
    BY DEF TypeOK
<1> QED BY <1>1 DEF AddResults, TypeOK

\* Every variable keeps its type.
LEMMA TypeKept ==
    ASSUME TypeOK, Next
    PROVE  TypeOK'
<1> USE DEF TypeOK, Busy, Closed
<1>1. ASSUME NEW r \in RunIds, Deliver(r) PROVE TypeOK'
    <2>1. starts' \in [RunIds -> 0..MaxStarts]
        <3>1. MaxStarts \in Nat
            BY PortfolioAssumption
        <3> QED BY <1>1, <3>1 DEF Deliver
    <2>2. /\ pc' \in [RunIds -> {"idle"} \cup Busy \cup Closed]
          /\ acked' \in [RunIds -> BOOLEAN]
        BY <1>1 DEF Deliver, Acknowledge
    <2>3. stamp' \in [RunIds -> [Claims -> Stamps \cup {Absent}]]
        BY <1>1 DEF Deliver, NoFindings
    <2>4. /\ verdicts' \in [RunIds -> Seq([claim: Claims, verdict: Verdicts])]
          /\ shown' \in [RunIds -> SUBSET Claims]
          /\ agent' \in [RunIds -> Agents]
        <3>1. <<>> \in Seq([claim: Claims, verdict: Verdicts])
            OBVIOUS
        <3>2. verdicts' = [verdicts EXCEPT ![r] = <<>>] /\ shown' = [shown EXCEPT ![r] = {}]
              /\ agent' = [agent EXCEPT ![r] = 1]
            BY <1>1 DEF Deliver
        <3>3. 1 \in Agents
            BY AgentNumbers
        <3> QED BY <3>1, <3>2, <3>3
    <2>5. chosen' \in [RunIds -> 0..MaxChosen]
        <3>1. MaxChosen \in Nat
            BY PortfolioAssumption
        <3> QED BY <1>1, <3>1 DEF Deliver
    <2> QED BY <1>1, <2>1, <2>2, <2>3, <2>4, <2>5 DEF Deliver, table
<1>2. ASSUME NEW r \in RunIds, Redeliver(r) PROVE TypeOK'
    BY <1>2 DEF Redeliver, Acknowledge, local, table
<1>3. ASSUME NEW r \in RunIds, Step(r) PROVE TypeOK'
    <2>1. CASE CreateRun(r) \/ CreateRunFails(r)
        <3>1. row' \in [RunIds -> RowStatuses \cup {Absent}]
            BY <2>1 DEF CreateRun, CreateRunFails, CreateRow, RowStatuses
        <3> QED BY <2>1, <3>1, GotoTypes DEF CreateRun, CreateRunFails, local
    <2>2. CASE BuildContext(r) \/ StepFails(r) \/ Notify(r) \/ NotifyFailure(r)
        BY <2>2, GotoTypes DEF BuildContext, StepFails, Notify, NotifyFailure, local, table
    <2>3. CASE RunSpecialists(r)
        <3>1. stamp' \in [RunIds -> [Claims -> Stamps \cup {Absent}]]
            BY <2>3 DEF RunSpecialists, ForceUnverified, Stamps
        <3> QED BY <2>3, <3>1, GotoTypes DEF RunSpecialists, table
    <2>4. CASE VerifierGate(r)
        <3>0. \A n \in 0..MaxVerdicts : n \in Nat
            BY PortfolioAssumption
        <3>1. PICK n \in 0..MaxVerdicts : \E vs \in [1..n -> [claim: Claims, verdict: Verdicts]] :
                 /\ verdicts' = [verdicts EXCEPT ![r] = vs]
                 /\ stamp' = [stamp EXCEPT ![r] = Merge(@, vs)]
            BY <2>4 DEF VerifierGate
        <3>2. PICK vs \in [1..n -> [claim: Claims, verdict: Verdicts]] :
                 /\ verdicts' = [verdicts EXCEPT ![r] = vs]
                 /\ stamp' = [stamp EXCEPT ![r] = Merge(stamp[r], vs)]
            BY <3>1
        <3>3. /\ vs \in Seq([claim: Claims, verdict: Verdicts])
              /\ Merge(stamp[r], vs) \in [Claims -> Stamps \cup {Absent}]
            BY <3>0, MergeTypes
        <3> QED BY <2>4, <3>2, <3>3, GotoTypes DEF VerifierGate, table
    <2>5. CASE RecordResult(r)
        <3>0. PICK n \in Nat : AddResults(r, n)
            BY <2>5 DEF RecordResult
        <3>1. results' \in [RunIds -> [Agents -> Nat]]
            BY <3>0, ResultTypes
        <3>2. agent' \in [RunIds -> Agents]
            BY <2>5 DEF RecordResult, NextAgent
        <3> QED BY <2>5, <3>1, <3>2, GotoTypes DEF RecordResult, AfterResult
    <2>6. CASE RecordResultFails(r)
        <3>0. PICK n \in Nat : AddResults(r, n)
            BY <2>6 DEF RecordResultFails
        <3>1. results' \in [RunIds -> [Agents -> Nat]]
            BY <3>0, ResultTypes
        <3> QED BY <2>6, <3>1, GotoTypes DEF RecordResultFails, local
    <2>7. CASE RunJudge(r)
        <3>1. MaxChosen \in Nat
            BY PortfolioAssumption
        <3>2. shown' \in [RunIds -> SUBSET Claims] /\ chosen' \in [RunIds -> 0..MaxChosen]
            BY <2>7, <3>1 DEF RunJudge, Eligible
        <3> QED BY <2>7, <3>2, GotoTypes DEF RunJudge, table
    <2>8. CASE CompleteRun(r) \/ CompleteRunFails(r)
        <3>1. Outcome(r) \in RowStatuses
            BY DEF Outcome, RowStatuses
        <3> QED BY <2>8, <3>1, RowTypes, GotoTypes DEF CompleteRun, CompleteRunFails, local
    <2>9. CASE Fail(r) \/ FailFails(r)
        <3>1. "FAILED" \in RowStatuses
            BY DEF RowStatuses
        <3> QED BY <2>9, <3>1, RowTypes, GotoTypes DEF Fail, FailFails, local
    <2> QED BY <1>3, <2>1, <2>2, <2>3, <2>4, <2>5, <2>6, <2>7, <2>8, <2>9 DEF Step
<1>4. ASSUME NEW w \in inflight, Land(w) PROVE TypeOK'
    BY <1>4, RowTypes DEF Land, exec, local
<1> QED BY <1>1, <1>2, <1>3, <1>4 DEF Next

LEMMA AlwaysTyped == Spec => []TypeOK
<1>1. Init => TypeOK
    <2> SUFFICES ASSUME Init PROVE TypeOK
        OBVIOUS
    <2>1. 0 \in 0..MaxStarts /\ 0 \in 0..MaxChosen
        BY PortfolioAssumption
    <2>2. /\ starts \in [RunIds -> 0..MaxStarts]
          /\ chosen \in [RunIds -> 0..MaxChosen]
          /\ agent \in [RunIds -> Agents]
        BY <2>1, AgentNumbers DEF Init
    <2>3. verdicts \in [RunIds -> Seq([claim: Claims, verdict: Verdicts])]
        <3>1. <<>> \in Seq([claim: Claims, verdict: Verdicts])
            OBVIOUS
        <3> QED BY <3>1 DEF Init
    <2> QED BY <2>2, <2>3 DEF Init, TypeOK, NoFindings
<1>2. TypeOK /\ [Next]_vars => TypeOK'
    <2> SUFFICES ASSUME TypeOK, UNCHANGED vars PROVE TypeOK'
        BY TypeKept
    <2> QED BY DEF TypeOK, vars, exec, local, table
<1> QED BY <1>1, <1>2, PTL DEF Spec

\* Every variable keeps its type.
THEOREM PortfolioTypeCorrect == Spec => []TypeOK
BY AlwaysTyped
-----------------------------------------------------------------------------
(***************************************************************************)
(* The verifier gate.                                                      *)
(***************************************************************************)
LEMMA GateUntouched ==
    ASSUME NEW q \in RunIds, GateInv(q), pc'[q] = pc[q], stamp'[q] = stamp[q],
           verdicts'[q] = verdicts[q], shown'[q] = shown[q], chosen'[q] = chosen[q]
    PROVE  GateInv(q)'
BY DEF GateInv

LEMMA GateMoved ==
    ASSUME TypeOK, \A q \in RunIds : GateInv(q), NEW r \in RunIds, NEW stage,
           Goto(r, stage), stage # "gate", stage \in Early => pc[r] \in Early,
           UNCHANGED <<stamp, verdicts, shown, chosen>>
    PROVE  \A q \in RunIds : GateInv(q)'
<1> TAKE q \in RunIds
<1>1. CASE q # r
    BY <1>1, GateUntouched DEF Goto, TypeOK
<1>2. CASE q = r
    <2>1. pc'[r] = stage
        BY DEF Goto, TypeOK
    <2> QED BY <1>2, <2>1 DEF GateInv
<1> QED BY <1>1, <1>2

\* A verdict on a finding with an ID of its own is about that finding.
LEMMA MergeClears ==
    ASSUME UniqueIds, NEW vs, NEW stamps, NEW c \in Claims,
           \A i \in DOMAIN vs : vs[i].claim \in Claims,
           stamps[c] \notin {"GROUNDED", "PARTIAL"},
           Merge(stamps, vs)[c] \in {"GROUNDED", "PARTIAL"}
    PROVE  Cleared(vs, c)
<1>1. About(vs, FindingId[c]) = {i \in DOMAIN vs : vs[i].claim = c}
    BY DEF About, UniqueIds
<1> QED BY <1>1 DEF Merge, Cleared

\* Every step keeps the gate.
LEMMA GateKept ==
    ASSUME UniqueIds, TypeOK, TypeOK', \A q \in RunIds : GateInv(q), Next
    PROVE  \A q \in RunIds : GateInv(q)'
<1>1. ASSUME NEW r \in RunIds, Deliver(r) PROVE \A q \in RunIds : GateInv(q)'
    <2> TAKE q \in RunIds
    <2>1. CASE q # r
        BY <1>1, <2>1, GateUntouched DEF Deliver, TypeOK
    <2>2. CASE q = r
        <3>1. /\ pc'[r] = "create" /\ stamp'[r] = NoFindings
              /\ shown'[r] = {} /\ chosen'[r] = 0
            BY <1>1 DEF Deliver, TypeOK
        <3>2. Eligible(NoFindings) = {}
            BY DEF Eligible, NoFindings, Absent
        <3> QED BY <2>2, <3>1, <3>2 DEF GateInv
    <2> QED BY <2>1, <2>2
<1>2. ASSUME NEW r \in RunIds, Redeliver(r) PROVE \A q \in RunIds : GateInv(q)'
    BY <1>2, GateUntouched DEF Redeliver, local
<1>3. ASSUME NEW r \in RunIds, Step(r) PROVE \A q \in RunIds : GateInv(q)'
    <2>1. CASE RunSpecialists(r)
        <3> TAKE q \in RunIds
        <3>1. CASE q # r
            BY <2>1, <3>1, GateUntouched DEF RunSpecialists, Goto, TypeOK
        <3>2. CASE q = r
            <4>1. PICK raw : stamp' = [stamp EXCEPT ![r] = ForceUnverified(raw)]
                BY <2>1 DEF RunSpecialists
            <4>2. Eligible(stamp'[r]) = {}
                BY <4>1 DEF Eligible, ForceUnverified, Absent, TypeOK
            <4>3. shown'[r] = {} /\ chosen'[r] = 0
                BY <2>1 DEF RunSpecialists, GateInv, Early
            <4> QED BY <3>2, <4>2, <4>3 DEF GateInv
        <3> QED BY <3>1, <3>2
    <2>2. CASE VerifierGate(r)
        <3> TAKE q \in RunIds
        <3>1. CASE q # r
            BY <2>2, <3>1, GateUntouched DEF VerifierGate, Goto, TypeOK
        <3>2. CASE q = r
            <4>1. PICK n \in 0..MaxVerdicts : \E vs \in [1..n -> [claim: Claims, verdict: Verdicts]] :
                     /\ verdicts' = [verdicts EXCEPT ![r] = vs]
                     /\ stamp' = [stamp EXCEPT ![r] = Merge(@, vs)]
                BY <2>2 DEF VerifierGate
            <4>2. PICK vs \in [1..n -> [claim: Claims, verdict: Verdicts]] :
                     verdicts'[r] = vs /\ stamp'[r] = Merge(stamp[r], vs)
                BY <4>1 DEF TypeOK
            <4>3. ASSUME NEW c \in Eligible(stamp'[r]) PROVE Cleared(vs, c)
                <5>1. c \in Claims /\ stamp[r][c] \notin {"GROUNDED", "PARTIAL"}
                    BY <2>2, <4>3 DEF VerifierGate, GateInv, Eligible
                <5>2. Merge(stamp[r], vs)[c] \in {"GROUNDED", "PARTIAL"}
                    BY <4>2, <4>3 DEF Eligible
                <5>3. \A i \in DOMAIN vs : vs[i].claim \in Claims
                    OBVIOUS
                <5> QED BY <4>2, <5>1, <5>2, <5>3, MergeClears
            <4>4. pc'[r] = "record" /\ shown'[r] = {} /\ chosen'[r] = 0
                BY <2>2 DEF VerifierGate, Goto, GateInv, Early, TypeOK
            <4> QED BY <3>2, <4>2, <4>3, <4>4 DEF GateInv, Early
        <3> QED BY <3>1, <3>2
    <2>3. CASE RunJudge(r)
        <3> TAKE q \in RunIds
        <3>1. CASE q # r
            BY <2>3, <3>1, GateUntouched DEF RunJudge, Goto, TypeOK
        <3>2. CASE q = r
            <4>1. /\ shown'[r] = Eligible(stamp[r]) /\ pc'[r] = "record"
                  /\ stamp' = stamp /\ verdicts' = verdicts
                  /\ Eligible(stamp[r]) = {} => chosen'[r] = 0
                BY <2>3 DEF RunJudge, Goto, TypeOK
            <4>2. \A c \in Eligible(stamp[r]) : Cleared(verdicts[r], c)
                BY DEF GateInv
            <4> QED BY <3>2, <4>1, <4>2 DEF GateInv, Early
        <3> QED BY <3>1, <3>2
    <2>4. CASE CreateRun(r) \/ CreateRunFails(r) \/ BuildContext(r)
        BY <2>4, GateMoved DEF CreateRun, CreateRunFails, BuildContext, local, Early
    <2>5. CASE StepFails(r) \/ RecordResult(r) \/ RecordResultFails(r)
        BY <2>5, GateMoved DEF StepFails, RecordResult, RecordResultFails, AfterResult, local, Early
    <2>6. CASE CompleteRun(r) \/ CompleteRunFails(r) \/ Notify(r)
        BY <2>6, GateMoved DEF CompleteRun, CompleteRunFails, Notify, local, Early
    <2>7. CASE Fail(r) \/ FailFails(r) \/ NotifyFailure(r)
        BY <2>7, GateMoved DEF Fail, FailFails, NotifyFailure, local, Early
    <2> QED BY <1>3, <2>1, <2>2, <2>3, <2>4, <2>5, <2>6, <2>7 DEF Step
<1>4. ASSUME NEW w \in inflight, Land(w) PROVE \A q \in RunIds : GateInv(q)'
    BY <1>4, GateUntouched DEF Land, exec, local
<1> QED BY <1>1, <1>2, <1>3, <1>4 DEF Next

\* When findings have IDs of their own, only what the verifier cleared reaches the
\* judge, and there is no intervention without it (agents.py:107, portfolio.py:312).
THEOREM OnlyGroundedChosen == ASSUME UniqueIds PROVE Spec => []GroundedOnly
<1> DEFINE Inv == \A q \in RunIds : GateInv(q)
<1>1. Init => Inv
    <2> SUFFICES ASSUME Init, NEW q \in RunIds PROVE GateInv(q)
        OBVIOUS
    <2>1. Eligible(stamp[q]) = {}
        BY DEF Init, Eligible, NoFindings, Absent
    <2> QED BY <2>1 DEF Init, GateInv
<1>2. TypeOK /\ TypeOK' /\ Inv /\ [Next]_vars => Inv'
    <2> SUFFICES ASSUME TypeOK, TypeOK', Inv, [Next]_vars PROVE Inv'
        OBVIOUS
    <2>1. CASE Next
        BY <2>1, GateKept
    <2>2. CASE UNCHANGED vars
        BY <2>2, GateUntouched DEF vars, exec, local
    <2> QED BY <2>1, <2>2
<1>3. TypeOK /\ Inv => GroundedOnly
    BY DEF TypeOK, GateInv, GroundedOnly, Cleared, VerdictsOn
<1> QED BY <1>1, <1>2, <1>3, AlwaysTyped, PTL DEF Spec
-----------------------------------------------------------------------------
(***************************************************************************)
(* The tables.                                                             *)
(***************************************************************************)
\* What is recorded stays recorded.
LEMMA ResultsGrow ==
    ASSUME TypeOK, Next, NEW q \in RunIds, NEW a \in Agents, results[q][a] > 0
    PROVE  results'[q][a] > 0
<1>1. results[q][a] \in Nat
    BY DEF TypeOK
<1>2. ASSUME NEW r \in RunIds, NEW n \in Nat, AddResults(r, n) PROVE results'[q][a] > 0
    <2>1. results'[q][a] = results[q][a] + (IF q = r /\ a = agent[r] THEN n ELSE 0)
        BY <1>2, ResultTypes
    <2> QED BY <1>1, <2>1
<1>3. ASSUME NEW r \in RunIds, RecordResult(r) PROVE \E n \in Nat : AddResults(r, n)
    BY <1>3 DEF RecordResult
<1>4. ASSUME NEW r \in RunIds, RecordResultFails(r) PROVE \E n \in Nat : AddResults(r, n)
    BY <1>4 DEF RecordResultFails
<1>5. CASE UNCHANGED results
    BY <1>5
<1>6. \/ UNCHANGED results
      \/ \E r \in RunIds : RecordResult(r) \/ RecordResultFails(r)
    BY DEF Next, Step, Deliver, Redeliver, CreateRun, CreateRunFails, BuildContext, StepFails,
           RunSpecialists, VerifierGate, RunJudge, CompleteRun, CompleteRunFails, Notify, Fail,
           FailFails, NotifyFailure, Land, table
<1> QED BY <1>2, <1>3, <1>4, <1>5, <1>6

\* Only at the end of the loop are all results recorded, and the numbers before the
\* current one are those of results that were.
LEMMA LoopRecords ==
    ASSUME TypeOK, NEW r \in RunIds, ProgressInv(r), RecordResult(r)
    PROVE  ProgressInv(r)' /\ (pc'[r] = "complete" => AllRecorded(r)')
<1>1. PICK n \in Nat : n > 0 /\ AddResults(r, n)
    BY DEF RecordResult
<1>2. \A a \in Agents : /\ results[r][a] \in Nat
                        /\ results'[r][a] = results[r][a] + (IF a = agent[r] THEN n ELSE 0)
    <2>1. \A q \in RunIds, a \in Agents :
             results'[q][a] = results[q][a] + (IF q = r /\ a = agent[r] THEN n ELSE 0)
        BY <1>1, ResultTypes
    <2>2. \A a \in Agents : results[r][a] \in Nat
        BY DEF TypeOK
    <2> QED BY <2>1, <2>2
<1>3. /\ agent[r] \in Agents
      /\ agent'[r] = IF agent[r] + 1 \in Agents THEN agent[r] + 1 ELSE agent[r]
      /\ pc'[r] = "complete" => agent[r] > Len(SpecialistRoles)
    BY DEF RecordResult, NextAgent, Goto, AfterResult, TypeOK
<1>4. \A a \in Agents : a <= agent[r] => results'[r][a] > 0
    <2> SUFFICES ASSUME NEW a \in Agents, a <= agent[r] PROVE results'[r][a] > 0
        OBVIOUS
    <2>1. CASE a = agent[r]
        BY <1>1, <1>2, <2>1
    <2>2. CASE a # agent[r]
        <3>1. a < agent[r]
            <4>1. a \in Nat /\ agent[r] \in Nat
                BY <1>3, AgentNumbers
            <4> QED BY <2>2, <4>1
        <3> QED BY <1>1, <1>2, <3>1 DEF ProgressInv
    <2> QED BY <2>1, <2>2
<1>5. ProgressInv(r)'
    <2> SUFFICES ASSUME NEW a \in Agents, a < agent'[r] PROVE results'[r][a] > 0
        BY DEF ProgressInv, Agents
    <2>1. a \in Nat /\ agent[r] \in Nat
        BY <1>3, AgentNumbers
    <2>2. agent'[r] \in {agent[r], agent[r] + 1}
        BY <1>3
    <2>3. a <= agent[r]
        BY <2>1, <2>2
    <2> QED BY <1>4, <2>3
<1>6. ASSUME pc'[r] = "complete", NEW a \in Agents PROVE results'[r][a] > 0
    <2>1. a <= agent[r]
        BY <1>3, <1>6, AgentNumbers DEF Agents
    <2> QED BY <1>4, <2>1
<1> QED BY <1>5, <1>6 DEF AllRecorded, Agents

\* A run reaches its last stage only through the loop, and its row and the late
\* updates of it only say that it is finished if it was there.
LEMMA FinishedFrom ==
    ASSUME TypeOK, Next
    PROVE  /\ \A q \in RunIds :
                 \/ RecordResult(q)
                 \/ /\ agent'[q] \in {agent[q], 1}
                    /\ pc'[q] = "complete" => pc[q] = "complete"
           /\ \A q \in RunIds : row'[q] \in Finished =>
                 \/ row[q] \in Finished \/ pc[q] = "complete"
                 \/ \E w \in inflight : w.run = q /\ w.status \in Finished
           /\ \A w \in inflight' : w.status \in Finished => w \in inflight \/ pc[w.run] = "complete"
<1> DEFINE Moves(q) == \/ RecordResult(q)
                       \/ /\ agent'[q] \in {agent[q], 1}
                          /\ pc'[q] = "complete" => pc[q] = "complete"
           Marks(q) == row'[q] \in Finished =>
                          \/ row[q] \in Finished \/ pc[q] = "complete"
                          \/ \E w \in inflight : w.run = q /\ w.status \in Finished
           Leaves == \A w \in inflight' : w.status \in Finished
                          => w \in inflight \/ pc[w.run] = "complete"
           Good == (\A q \in RunIds : Moves(q) /\ Marks(q)) /\ Leaves
<1>1. ASSUME NEW r \in RunIds, Deliver(r) \/ Redeliver(r) PROVE Good
    BY <1>1 DEF Deliver, Redeliver, TypeOK, local, table
<1>2. ASSUME NEW r \in RunIds, CreateRun(r) \/ CreateRunFails(r) PROVE Good
    BY <1>2 DEF CreateRun, CreateRunFails, CreateRow, Goto, TypeOK, local, Finished
<1>3. ASSUME NEW r \in RunIds,
             \/ BuildContext(r) \/ StepFails(r) \/ RunSpecialists(r) \/ VerifierGate(r)
             \/ RunJudge(r) \/ Notify(r) \/ NotifyFailure(r)
      PROVE  Good
    BY <1>3 DEF BuildContext, StepFails, RunSpecialists, VerifierGate, RunJudge, Notify,
                NotifyFailure, Goto, TypeOK, local, table
<1>4. ASSUME NEW r \in RunIds, RecordResult(r) PROVE Good
    BY <1>4 DEF RecordResult, NextAgent, Goto, TypeOK
<1>5. ASSUME NEW r \in RunIds, RecordResultFails(r) PROVE Good
    BY <1>5 DEF RecordResultFails, Goto, TypeOK, local
<1>6. ASSUME NEW r \in RunIds, CompleteRun(r) PROVE Good
    BY <1>6 DEF CompleteRun, SetRow, Goto, TypeOK, local
<1>7. ASSUME NEW r \in RunIds, CompleteRunFails(r) PROVE Good
    BY <1>7 DEF CompleteRunFails, CompletionUnanswered, SetRow, Goto, TypeOK, local
<1>8. ASSUME NEW r \in RunIds, Fail(r) \/ FailFails(r) PROVE Good
    BY <1>8 DEF Fail, FailFails, CompletionUnanswered, SetRow, Goto, TypeOK, local, Finished
<1>9. ASSUME NEW w \in inflight, Land(w) PROVE Good
    BY <1>9 DEF Land, SetRow, TypeOK, exec, local
<1> HIDE DEF Good
<1>10. Good
    BY <1>1, <1>2, <1>3, <1>4, <1>5, <1>6, <1>7, <1>8, <1>9 DEF Next, Step
<1> QED BY <1>10 DEF Good

\* Every step keeps the bookkeeping of the results.
LEMMA RecordedKept ==
    ASSUME TypeOK, RecordedInv, Next
    PROVE  RecordedInv'
<1>1. ASSUME NEW q \in RunIds, AllRecorded(q) PROVE AllRecorded(q)'
    BY <1>1, ResultsGrow DEF AllRecorded, Agents
<1>2. ASSUME NEW q \in RunIds
      PROVE  ProgressInv(q)' /\ (pc'[q] = "complete" => AllRecorded(q)')
    <2>1. CASE RecordResult(q)
        BY <2>1, LoopRecords DEF RecordedInv
    <2>2. CASE agent'[q] \in {agent[q], 1} /\ (pc'[q] = "complete" => pc[q] = "complete")
        <3>1. ProgressInv(q)'
            <4> SUFFICES ASSUME NEW a \in Agents, a < agent'[q] PROVE results'[q][a] > 0
                BY DEF ProgressInv, Agents
            <4>1. a < agent[q]
                BY <2>2, AgentNumbers DEF Agents
            <4> QED BY <4>1, ResultsGrow DEF RecordedInv, ProgressInv
        <3> QED BY <1>1, <2>2, <3>1 DEF RecordedInv
    <2> QED BY <2>1, <2>2, FinishedFrom
<1>3. ASSUME NEW q \in RunIds, row'[q] \in Finished PROVE AllRecorded(q)'
    BY <1>1, <1>3, FinishedFrom DEF RecordedInv
<1>4. ASSUME NEW w \in inflight', w.status \in Finished PROVE AllRecorded(w.run)'
    <2>1. w.run \in RunIds
        BY <1>4, TypeKept DEF TypeOK
    <2> QED BY <1>1, <1>4, <2>1, FinishedFrom DEF RecordedInv
<1> QED BY <1>2, <1>3, <1>4 DEF RecordedInv

\* A run that is reported as finished has recorded the result of each of its
\* specialists and of the judge, however often it was executed and however late an
\* update of its row arrives (portfolio.py:95 and 120).
THEOREM FinishedRunsAreComplete == Spec => []ResultsComplete
<1>1. Init => RecordedInv
    BY AgentNumbers DEF Init, RecordedInv, ProgressInv, Agents, Finished, Absent
<1>2. TypeOK /\ RecordedInv /\ [Next]_vars => RecordedInv'
    <2> SUFFICES ASSUME RecordedInv, UNCHANGED vars PROVE RecordedInv'
        BY RecordedKept
    <2> QED BY DEF vars, exec, local, table, RecordedInv, ProgressInv, AllRecorded, Agents
<1>3. RecordedInv => ResultsComplete
    BY DEF RecordedInv, ResultsComplete, AllRecorded, Finished
<1> QED BY <1>1, <1>2, <1>3, AlwaysTyped, PTL DEF Spec

\* Every update of the table runs is answered within its attempts.
RowsAnswered ==
    Faults \cap {"create_fails", "complete_fails", "complete_lost", "complete_late"} = {}

\* The row and the end of the execution agree, from the moment that it is written.
RowInv(r) ==
    /\ pc[r] \notin {"idle", "create"} => row[r] # Absent
    /\ pc[r] \in {"notify", "COMPLETED"} => row[r] = Outcome(r)
    /\ pc[r] \in {"notify_failure", "FAILED"} => row[r] = "FAILED"

RowsInv == inflight = {} /\ \A r \in RunIds : RowInv(r)

LEMMA RowUntouched ==
    ASSUME NEW q \in RunIds, RowInv(q), pc'[q] = pc[q], row'[q] = row[q], chosen'[q] = chosen[q]
    PROVE  RowInv(q)'
BY DEF RowInv, Outcome

LEMMA RowsKept ==
    ASSUME RowsAnswered, TypeOK, RowsInv, Next
    PROVE  RowsInv'
<1>1. ASSUME NEW r \in RunIds, NEW status PROVE ~CompletionUnanswered(r, status)
    BY DEF CompletionUnanswered, RowsAnswered
<1>2. ASSUME NEW r \in RunIds, Deliver(r) \/ Redeliver(r) PROVE RowsInv'
    <2>1. \A q \in RunIds : /\ row'[q] = row[q]
                            /\ \/ pc'[q] = pc[q] /\ chosen'[q] = chosen[q]
                               \/ pc'[q] = "create"
        BY <1>2 DEF Deliver, Redeliver, TypeOK, local, table
    <2>2. \A q \in RunIds : RowInv(q)'
        BY <2>1, RowUntouched DEF RowsInv, RowInv
    <2> QED BY <1>2, <2>2 DEF Deliver, Redeliver, RowsInv, table
<1>3. ASSUME NEW r \in RunIds, Step(r) PROVE RowsInv'
    <2>1. ASSUME NEW q \in RunIds, q # r
          PROVE  pc'[q] = pc[q] /\ row'[q] = row[q] /\ chosen'[q] = chosen[q]
        BY <1>1, <1>3, <2>1
        DEF Step, CreateRun, CreateRunFails, BuildContext, StepFails, RunSpecialists,
            VerifierGate, RecordResult, RecordResultFails, RunJudge, CompleteRun,
            CompleteRunFails, Notify, Fail, FailFails, NotifyFailure, CreateRow, SetRow, Goto,
            TypeOK, local, table
    <2>2. inflight' = {}
        BY <1>1, <1>3
        DEF Step, CreateRun, CreateRunFails, BuildContext, StepFails, RunSpecialists,
            VerifierGate, RecordResult, RecordResultFails, RunJudge, CompleteRun,
            CompleteRunFails, Notify, Fail, FailFails, NotifyFailure, RowsInv, table
    <2>3. RowInv(r)'
        <3>1. CASE CreateRun(r)
            BY <3>1 DEF CreateRun, CreateRow, Goto, RowInv, TypeOK, Absent
        <3>2. CASE CreateRunFails(r)
            BY <3>2 DEF CreateRunFails, RowsAnswered
        <3>3. CASE BuildContext(r) \/ StepFails(r) \/ RunSpecialists(r) \/ VerifierGate(r)
            BY <3>3 DEF BuildContext, StepFails, RunSpecialists, VerifierGate, Goto, RowsInv,
                        RowInv, TypeOK, local, table
        <3>4. CASE RecordResult(r) \/ RecordResultFails(r) \/ RunJudge(r)
            BY <3>4 DEF RecordResult, RecordResultFails, RunJudge, AfterResult, Goto, RowsInv,
                        RowInv, TypeOK, local, table
        <3>5. CASE CompleteRun(r)
            <4>1. row[r] # Absent
                BY <3>5 DEF CompleteRun, RowsInv, RowInv
            <4>2. row'[r] = Outcome(r) /\ pc'[r] \in {"notify", "COMPLETED"} /\ chosen' = chosen
                BY <3>5, <4>1 DEF CompleteRun, SetRow, Goto, TypeOK, local
            <4> QED BY <4>2 DEF RowInv, Outcome, Absent
        <3>6. CASE CompleteRunFails(r) \/ FailFails(r)
            BY <1>1, <3>6 DEF CompleteRunFails, FailFails
        <3>7. CASE Notify(r)
            BY <3>7 DEF Notify, Goto, RowsInv, RowInv, Outcome, TypeOK, local, table
        <3>8. CASE Fail(r)
            <4>1. row[r] # Absent
                BY <3>8 DEF Fail, RowsInv, RowInv
            <4>2. row'[r] = "FAILED" /\ pc'[r] \in {"notify_failure", "FAILED"}
                BY <3>8, <4>1 DEF Fail, SetRow, Goto, TypeOK
            <4> QED BY <4>2 DEF RowInv, Absent
        <3>9. CASE NotifyFailure(r)
            BY <3>9 DEF NotifyFailure, Goto, RowsInv, RowInv, TypeOK, local, table
        <3> QED BY <1>3, <3>1, <3>2, <3>3, <3>4, <3>5, <3>6, <3>7, <3>8, <3>9 DEF Step
    <2> QED BY <2>1, <2>2, <2>3, RowUntouched DEF RowsInv
<1>4. ASSUME NEW w \in inflight, Land(w) PROVE RowsInv'
    BY <1>4 DEF RowsInv
<1> QED BY <1>2, <1>3, <1>4 DEF Next

\* When every update of the table is answered, the row of a run that is over tells
\* how it ended, whatever else fails and however often a webhook update is delivered
\* (portfolio.py:136 and 152).
THEOREM RowsTellOutcomes == ASSUME RowsAnswered PROVE Spec => []RowTellsOutcome
<1>1. Init => RowsInv
    BY DEF Init, RowsInv, RowInv
<1>2. TypeOK /\ RowsInv /\ [Next]_vars => RowsInv'
    <2> SUFFICES ASSUME RowsInv, UNCHANGED vars PROVE RowsInv'
        BY RowsKept
    <2> QED BY DEF vars, exec, local, table, RowsInv, RowInv, Outcome
<1>3. RowsInv => RowTellsOutcome
    BY DEF RowsInv, RowInv, RowTellsOutcome
<1> QED BY <1>1, <1>2, <1>3, AlwaysTyped, PTL DEF Spec
=============================================================================
