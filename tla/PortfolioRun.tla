---------------------------- MODULE PortfolioRun ----------------------------
(***************************************************************************)
(* PortfolioOptimizationWorkflow (workflows/portfolio.py) with the webhook *)
(* that starts it, the verifier gate and the judge (activities/agents.py), *)
(* and the two tables it writes (services/ledger.py): runs, one row per    *)
(* workflow ID, and agent_results, which only grows.                       *)
(*                                                                         *)
(* A workflow ID is derived from an idempotency key, so that every delivery *)
(* of one webhook update carries the same ID.  Temporal runs at most one   *)
(* execution of an ID at a time, but starts another one once the first has *)
(* closed: start_portfolio_run keeps the default reuse policy.             *)
(*                                                                         *)
(* One action is one activity call with all of its attempts.  An operator  *)
(* whose name has a suffix, as in Merge_AnyGood, is a wrong version of the *)
(* operator without it; no action uses it.                                 *)
(***************************************************************************)
EXTENDS Naturals, Sequences, FiniteSets

CONSTANTS
    RunIds,          \* workflow IDs
    Notified,        \* those with a notification_chat_id
    Claims,          \* the findings that specialists may come up with
    FindingId,       \* the finding_id that its author gives each of them
    SpecialistRoles, \* SPECIALIST_ROLES, in order
    MaxVerdicts,     \* most verdicts the verifier returns, 40 in the code
    MaxChosen,       \* most interventions the judge selects, 3 in the code
    MaxStarts,       \* bound: executions of one workflow ID
    Faults           \* the failures that may happen, see FaultKinds

FaultKinds ==
    { "agent_fails",     \* an agent, a connector or the registry fails
      "ack_lost",        \* the webhook fails after it started the workflow
      "create_fails",    \* no attempt to create the row is answered
      "result_fails",    \* no attempt to record a result is answered
      "result_retried",  \* the first attempt landed, the second is answered
      "complete_fails",  \* no attempt to complete the row is answered, none landed
      "complete_lost",   \* as before, but one landed
      "complete_late",   \* as before, but it lands later
      "notify_fails" }   \* Telegram is down for all three attempts

Verdicts == {"GROUNDED", "PARTIAL", "UNGROUNDED"}
Stamps   == Verdicts \cup {"UNVERIFIED"}
Absent   == "absent"

\* The specialists and then the judge: the agents whose results are recorded.
Agents == 1 .. (Len(SpecialistRoles) + 1)

ASSUME PortfolioAssumption ==
    /\ Notified \subseteq RunIds
    /\ SpecialistRoles \in Seq(STRING) \ {<<>>}
    /\ {MaxVerdicts, MaxChosen, MaxStarts} \subseteq Nat
    /\ Faults \subseteq FaultKinds

VARIABLES
    pc,       \* the statement the execution of each workflow ID is waiting at
    starts,   \* executions started
    acked,    \* the webhook has been answered: it is not delivered again
    stamp,    \* verification of each finding of the specialists, or Absent
    verdicts, \* the verifier's answer; the code sees only ID and verdict
    shown,    \* the findings that the judge was given
    chosen,   \* number of interventions
    agent,    \* the agent whose result is recorded next
    row,      \* runs.status, or Absent
    results,  \* rows of agent_results, by run and agent
    inflight  \* late updates of the table runs

exec  == <<pc, starts, acked>>
local == <<stamp, verdicts, shown, chosen, agent>>
table == <<row, results, inflight>>
vars  == <<exec, local, table>>

Closed == {"COMPLETED", "FAILED"}
Busy   == {"create", "context", "specialists", "gate", "record", "judge",
           "complete", "notify", "fail", "notify_failure"}

RowStatuses == {"RUNNING", "DONE", "NEEDS_VERIFICATION_OR_DATA", "FAILED"}

TypeOK ==
    /\ pc \in [RunIds -> {"idle"} \cup Busy \cup Closed]
    /\ starts \in [RunIds -> 0..MaxStarts]
    /\ acked \in [RunIds -> BOOLEAN]
    /\ stamp \in [RunIds -> [Claims -> Stamps \cup {Absent}]]
    /\ verdicts \in [RunIds -> Seq([claim: Claims, verdict: Verdicts])]
    /\ shown \in [RunIds -> SUBSET Claims]
    /\ chosen \in [RunIds -> 0..MaxChosen]
    /\ agent \in [RunIds -> Agents]
    /\ row \in [RunIds -> RowStatuses \cup {Absent}]
    /\ results \in [RunIds -> [Agents -> Nat]]
    /\ inflight \subseteq [run: RunIds, status: RowStatuses]

NoFindings == [c \in Claims |-> Absent]

Init ==
    /\ pc = [r \in RunIds |-> "idle"]
    /\ starts = [r \in RunIds |-> 0]
    /\ acked = [r \in RunIds |-> FALSE]
    /\ stamp = [r \in RunIds |-> NoFindings]
    /\ verdicts = [r \in RunIds |-> <<>>]
    /\ shown = [r \in RunIds |-> {}]
    /\ chosen = [r \in RunIds |-> 0]
    /\ agent = [r \in RunIds |-> 1]
    /\ row = [r \in RunIds |-> Absent]
    /\ results = [r \in RunIds |-> [a \in Agents |-> 0]]
    /\ inflight = {}

Goto(r, stage) ==
    /\ pc' = [pc EXCEPT ![r] = stage]
    /\ UNCHANGED <<starts, acked>>
-----------------------------------------------------------------------------
(***************************************************************************)
(* The entry point.                                                        *)
(***************************************************************************)
Acknowledge(r) ==
    \E answered \in {TRUE} \cup (IF "ack_lost" \in Faults THEN {FALSE} ELSE {}) :
        acked' = [acked EXCEPT ![r] = answered]

\* The first delivery, or one that finds no open execution of its ID.
Deliver(r) ==
    /\ pc[r] \in {"idle"} \cup Closed
    /\ ~acked[r] /\ starts[r] < MaxStarts
    /\ pc' = [pc EXCEPT ![r] = "create"]
    /\ starts' = [starts EXCEPT ![r] = @ + 1]
    /\ Acknowledge(r)
    /\ stamp' = [stamp EXCEPT ![r] = NoFindings]
    /\ verdicts' = [verdicts EXCEPT ![r] = <<>>]
    /\ shown' = [shown EXCEPT ![r] = {}]
    /\ chosen' = [chosen EXCEPT ![r] = 0]
    /\ agent' = [agent EXCEPT ![r] = 1]
    /\ UNCHANGED table

\* WorkflowAlreadyStartedError is suppressed.
Redeliver(r) ==
    /\ pc[r] \in Busy
    /\ ~acked[r]
    /\ Acknowledge(r)
    /\ UNCHANGED <<pc, starts, local, table>>
-----------------------------------------------------------------------------
(***************************************************************************)
(* The two tables.  UPDATE ... WHERE run_id changes a row only if there is  *)
(* one; INSERT ... ON CONFLICT DO NOTHING leaves the row of an earlier      *)
(* execution as it is.                                                     *)
(***************************************************************************)
CreateRow(r) == row' = [row EXCEPT ![r] = IF @ = Absent THEN "RUNNING" ELSE @]

SetRow_OnlyRunning(r, status) ==
    row' = [row EXCEPT ![r] = IF @ = "RUNNING" THEN status ELSE @]

SetRow(r, status) == row' = [row EXCEPT ![r] = IF @ = Absent THEN @ ELSE status]

AddResults(r, n) == results' = [results EXCEPT ![r][agent[r]] = @ + n]

\* ledger_complete_run is not answered.
CompletionUnanswered(r, status) ==
    \/ "complete_fails" \in Faults /\ UNCHANGED <<row, inflight>>
    \/ "complete_lost" \in Faults /\ SetRow(r, status) /\ UNCHANGED inflight
    \/ /\ "complete_late" \in Faults
       /\ inflight' = inflight \cup {[run |-> r, status |-> status]}
       /\ UNCHANGED row
-----------------------------------------------------------------------------
(***************************************************************************)
(* The workflow.                                                           *)
(***************************************************************************)
CreateRun(r) ==
    /\ pc[r] = "create"
    /\ CreateRow(r)
    /\ Goto(r, "context")
    /\ UNCHANGED <<local, results, inflight>>

\* This call stands before the try block.
CreateRunFails(r) ==
    /\ "create_fails" \in Faults
    /\ pc[r] = "create"
    /\ CreateRow(r) \/ UNCHANGED row
    /\ Goto(r, "FAILED")
    /\ UNCHANGED <<local, results, inflight>>

BuildContext(r) ==
    /\ pc[r] = "context"
    /\ Goto(r, "specialists")
    /\ UNCHANGED <<local, table>>

\* _build_context, registry_configured_roles or run_judge raises.
StepFails(r) ==
    /\ "agent_fails" \in Faults
    /\ pc[r] \in {"context", "gate", "judge"}
    /\ Goto(r, "fail")
    /\ UNCHANGED <<local, table>>

\* A specialist cannot ground its own findings.
ForceUnverified(raw) ==
    [c \in Claims |-> IF raw[c] = Absent THEN Absent ELSE "UNVERIFIED"]

\* asyncio.gather over the roles.  The findings of a specialist that failed are
\* absent; the order in which they answer leaves no trace.
RunSpecialists(r) ==
    /\ pc[r] = "specialists"
    /\ \E raw \in [Claims -> {Absent, "UNVERIFIED", "GROUNDED"}] :
          stamp' = [stamp EXCEPT ![r] = ForceUnverified(raw)]
    /\ Goto(r, "gate")
    /\ UNCHANGED <<verdicts, shown, chosen, agent, table>>

\* by_finding: the verdicts by finding_id, the last one wins.
About(vs, id) == {i \in DOMAIN vs : FindingId[vs[i].claim] = id}

Last(S) == CHOOSE i \in S : \A j \in S : j <= i

Merge_AnyGood(stamps, vs) ==
    [c \in Claims |->
        LET mentions == About(vs, FindingId[c])
        IN  IF stamps[c] = Absent \/ mentions = {} THEN stamps[c]
            ELSE IF \E i \in mentions : vs[i].verdict = "GROUNDED" THEN "GROUNDED"
            ELSE vs[Last(mentions)].verdict]

Merge(stamps, vs) ==
    [c \in Claims |->
        LET mentions == About(vs, FindingId[c])
        IN  IF stamps[c] = Absent \/ mentions = {} THEN stamps[c]
            ELSE vs[Last(mentions)].verdict]

\* _run_verifier_gate.  No verifier, or one that fails: no verdict.
VerifierGate(r) ==
    /\ pc[r] = "gate"
    /\ \E n \in 0..MaxVerdicts : \E vs \in [1..n -> [claim: Claims, verdict: Verdicts]] :
          /\ verdicts' = [verdicts EXCEPT ![r] = vs]
          /\ stamp' = [stamp EXCEPT ![r] = Merge(@, vs)]
    /\ Goto(r, "record")
    /\ UNCHANGED <<shown, chosen, agent, table>>

\* The specialists' results are recorded before the judge runs, its own after.
AfterResult(r) ==
    IF agent[r] = Len(SpecialistRoles) THEN "judge"
    ELSE IF agent[r] > Len(SpecialistRoles) THEN "complete" ELSE "record"

NextAgent_PastEnd(r) == agent' = [agent EXCEPT ![r] = @ + 1]

NextAgent(r) ==
    agent' = [agent EXCEPT ![r] = IF @ + 1 \in Agents THEN @ + 1 ELSE @]

RecordResult(r) ==
    /\ pc[r] = "record"
    /\ AddResults(r, 1) \/ ("result_retried" \in Faults /\ AddResults(r, 2))
    /\ NextAgent(r)
    /\ Goto(r, AfterResult(r))
    /\ UNCHANGED <<stamp, verdicts, shown, chosen, row, inflight>>

RecordResultFails(r) ==
    /\ "result_fails" \in Faults
    /\ pc[r] = "record"
    /\ \E n \in 0..2 : AddResults(r, n)
    /\ Goto(r, "fail")
    /\ UNCHANGED <<local, row, inflight>>

Eligible(stamps) == {c \in Claims : stamps[c] \in {"GROUNDED", "PARTIAL"}}

RunJudge_NotRecorded(r) ==
    /\ pc[r] = "judge"
    /\ shown' = [shown EXCEPT ![r] = Eligible(stamp[r])]
    /\ \E n \in IF Eligible(stamp[r]) = {} THEN {0} ELSE 0..MaxChosen :
          chosen' = [chosen EXCEPT ![r] = n]
    /\ Goto(r, "complete")
    /\ UNCHANGED <<stamp, verdicts, agent, table>>

\* run_judge: no model is asked when nothing is eligible.
RunJudge(r) ==
    /\ pc[r] = "judge"
    /\ shown' = [shown EXCEPT ![r] = Eligible(stamp[r])]
    /\ \E n \in IF Eligible(stamp[r]) = {} THEN {0} ELSE 0..MaxChosen :
          chosen' = [chosen EXCEPT ![r] = n]
    /\ Goto(r, "record")
    /\ UNCHANGED <<stamp, verdicts, agent, table>>

Outcome(r) == IF chosen[r] > 0 THEN "DONE" ELSE "NEEDS_VERIFICATION_OR_DATA"

CompleteRun(r) ==
    /\ pc[r] = "complete"
    /\ SetRow(r, Outcome(r))
    /\ Goto(r, IF r \in Notified THEN "notify" ELSE "COMPLETED")
    /\ UNCHANGED <<local, results, inflight>>

CompleteRunFails(r) ==
    /\ pc[r] = "complete"
    /\ CompletionUnanswered(r, Outcome(r))
    /\ Goto(r, "fail")
    /\ UNCHANGED <<local, results>>

\* The notification stands inside the try block.
Notify(r) ==
    /\ pc[r] = "notify"
    /\ Goto(r, "COMPLETED") \/ ("notify_fails" \in Faults /\ Goto(r, "fail"))
    /\ UNCHANGED <<local, table>>

Fail_NoRow(r) ==
    /\ pc[r] = "fail"
    /\ Goto(r, IF r \in Notified THEN "notify_failure" ELSE "FAILED")
    /\ UNCHANGED <<local, table>>

\* The except branch.
Fail(r) ==
    /\ pc[r] = "fail"
    /\ SetRow(r, "FAILED")
    /\ Goto(r, IF r \in Notified THEN "notify_failure" ELSE "FAILED")
    /\ UNCHANGED <<local, results, inflight>>

FailFails(r) ==
    /\ pc[r] = "fail"
    /\ CompletionUnanswered(r, "FAILED")
    /\ Goto(r, "FAILED")
    /\ UNCHANGED <<local, results>>

\* raise, or the exception of the notification: the execution fails either way.
NotifyFailure(r) ==
    /\ pc[r] = "notify_failure"
    /\ Goto(r, "FAILED")
    /\ UNCHANGED <<local, table>>

Step(r) ==
    \/ CreateRun(r) \/ CreateRunFails(r) \/ BuildContext(r) \/ StepFails(r)
    \/ RunSpecialists(r) \/ VerifierGate(r) \/ RecordResult(r) \/ RecordResultFails(r)
    \/ RunJudge(r) \/ CompleteRun(r) \/ CompleteRunFails(r) \/ Notify(r)
    \/ Fail(r) \/ FailFails(r) \/ NotifyFailure(r)

\* An attempt of ledger_complete_run that was given up reaches the database.
Land(w) ==
    /\ w \in inflight
    /\ inflight' = inflight \ {w}
    /\ SetRow(w.run, w.status)
    /\ UNCHANGED <<exec, local, results>>

Next ==
    \/ \E r \in RunIds : Deliver(r) \/ Redeliver(r) \/ Step(r)
    \/ \E w \in inflight : Land(w)

\* As in AutonomousGrowth: an open execution keeps making steps.
Spec == Init /\ [][Next]_vars /\ \A r \in RunIds : WF_vars(Step(r))
-----------------------------------------------------------------------------
(***************************************************************************)
(* Properties.                                                             *)
(***************************************************************************)
VerdictsOn(r, c) == {i \in DOMAIN verdicts[r] : verdicts[r][i].claim = c}

\* Only what the verifier cleared reaches the judge, and there is no intervention
\* without it: the verifier's last word about each finding that was shown is
\* GROUNDED or PARTIAL, whatever a specialist said of its own finding and whether
\* or not a verifier answered (agents.py:107, portfolio.py:312).
GroundedOnly ==
    \A r \in RunIds :
        /\ chosen[r] > 0 => shown[r] # {}
        /\ \A c \in shown[r] :
              /\ VerdictsOn(r, c) # {}
              /\ verdicts[r][Last(VerdictsOn(r, c))].verdict # "UNGROUNDED"

\* The row of a run that is over tells how it ended (portfolio.py:136 and 152).
RowTellsOutcome ==
    \A r \in RunIds :
        /\ pc[r] = "COMPLETED" => row[r] = Outcome(r)
        /\ pc[r] = "FAILED" => row[r] \in {"FAILED", Absent}

\* A run that is reported as finished has recorded the result of each of its
\* specialists and of the judge (portfolio.py:95 and 120).
ResultsComplete ==
    \A r \in RunIds :
        row[r] \in {"DONE", "NEEDS_VERIFICATION_OR_DATA"} => \A a \in Agents : results[r][a] > 0

\* A row does not stay RUNNING for ever (portfolio.py:150).
RowsSettle == \A r \in RunIds : row[r] = "RUNNING" ~> row[r] # "RUNNING"
=============================================================================
