----------------------------- MODULE RunContext -----------------------------
(***************************************************************************)
(* _build_context of one portfolio run (workflows/portfolio.py:170-247) and *)
(* what each model role is shown of the result (activities/agents.py:17-104) *)
(* together with what goes on around it: feedback arrives at the API, other *)
(* activities of the worker use the ledger, and the date changes.           *)
(*                                                                         *)
(* The modules FeedbackLoop, LedgerPool and EvidenceCollection are composed *)
(* by interleaving; the run takes part in all three.                       *)
(***************************************************************************)
EXTENDS FeedbackLoop, LedgerPool, EvidenceCollection

CONSTANTS
    Self,          \* the run whose context is built
    Slot,          \* the place of the worker that its ledger activities take
    Earlier,       \* the runs that were recorded before, oldest first
    MemoryLimit,   \* 50: recent feedback that is read
    ChiefFeedback, \* 10: of which the chief of staff is shown
    LedgerFaults   \* "open_fails": create_pool raises

ASSUME ContextAssumption ==
    /\ Self \in RunIds
    /\ Slot \in Slots
    /\ Earlier \in Seq(RunIds)
    /\ {MemoryLimit, ChiefFeedback} \subseteq Nat
    /\ LedgerFaults \subseteq {"open_fails"}

VARIABLES
    step,    \* the activity that the run is waiting for
    history, \* recent_runs
    memory   \* feedback_memory

contextVars == <<step, history, memory>>
vars == <<feedbackVars, poolVars, evidenceVars, contextVars>>

TypeOK ==
    /\ FeedbackTypeOK /\ PoolTypeOK /\ EvidenceTypeOK
    /\ step \in {"create", "recent_runs", "recent_feedback", "collect", "ready", "failed"}
    /\ history \in Seq(RunIds)
    /\ memory \in Seq([run: RunIds, update: Updates])

Init ==
    /\ FeedbackInit(Earlier) /\ PoolInit /\ EvidenceInit
    /\ step = "create" /\ history = <<>> /\ memory = <<>>
-----------------------------------------------------------------------------
(***************************************************************************)
(* The run.  Each of its ledger activities connects and then executes one   *)
(* statement; it is retried, and fails the run in the end.                 *)
(***************************************************************************)
\* The statement of the current ledger activity is executed.
CreateRow ==
    /\ step = "create" /\ Release(Slot)
    /\ AddRun(Self)
    /\ step' = "recent_runs"
    /\ UNCHANGED <<history, memory, evidenceVars>>

\* The runs among the first n rows that are DONE, newest first; this one is RUNNING.
DoneRuns[n \in 0..Len(runs)] ==
    IF n = 0 THEN <<>> ELSE IF runs[n] = Self THEN DoneRuns[n - 1] ELSE <<runs[n]>> \o DoneRuns[n - 1]

ReadRuns ==
    /\ step = "recent_runs" /\ Release(Slot)
    /\ history' = DoneRuns[Len(runs)]
    /\ step' = "recent_feedback"
    /\ UNCHANGED <<memory, feedbackVars, evidenceVars>>

ReadFeedback ==
    /\ step = "recent_feedback" /\ Release(Slot)
    /\ memory' = RecentFeedback(MemoryLimit)
    /\ step' = "collect"
    /\ UNCHANGED <<history, feedbackVars, evidenceVars>>

Collect ==
    /\ step = "collect" /\ EvidenceStep
    /\ UNCHANGED <<contextVars, feedbackVars, poolVars>>

ContextBuilt ==
    /\ step = "collect" /\ Collected
    /\ step' = "ready"
    /\ UNCHANGED <<history, memory, feedbackVars, poolVars, evidenceVars>>

\* An activity failed for good.
BuildFails ==
    /\ \/ step = "collect" /\ gsc = "failed"
       \/ step = "collect" /\ probes = {} /\ "probe_slow" \in EvidenceFaults
       \/ step \in {"create", "recent_runs", "recent_feedback"} /\ at[Slot] = "idle"
          /\ "open_fails" \in LedgerFaults
    /\ step' = "failed"
    /\ UNCHANGED <<history, memory, feedbackVars, poolVars, evidenceVars>>

Build ==
    CreateRow \/ ReadRuns \/ ReadFeedback \/ Collect \/ ContextBuilt \/ BuildFails

\* connect() of any activity of the worker, and statements of the other ones.
UseLedger(s) ==
    /\ \/ Connect(s) /\ (s = Slot => step \in {"create", "recent_runs", "recent_feedback"})
       \/ Opened(s)
       \/ "open_fails" \in LedgerFaults /\ OpenFails(s)
       \/ s # Slot /\ Release(s)
    /\ UNCHANGED <<contextVars, feedbackVars, evidenceVars>>

Next ==
    \/ Build
    \/ \E s \in Slots : UseLedger(s)
    \/ \E a \in Attempts : FeedbackStep(a) /\ UNCHANGED <<contextVars, poolVars, evidenceVars>>
    \/ Midnight /\ UNCHANGED <<contextVars, poolVars, feedbackVars>>

Spec == Init /\ [][Next]_vars
-----------------------------------------------------------------------------
(***************************************************************************)
(* What a role is shown: _compact_context_for_role.                        *)
(***************************************************************************)
Roles == {"diagnostician", "strategist", "chief_of_staff", "verifier", "judge"}

\* Those that get summaries, without the payload.
Summarised == {"chief_of_staff", "judge"}

KindsFor(role) == IF role = "diagnostician" THEN Kinds \ {"top_queries"} ELSE Kinds

RowLimit_Default(role) == IF role = "strategist" THEN 12 ELSE IF role = "diagnostician" THEN 10 ELSE 8

RowLimit(role) == IF role = "diagnostician" THEN 10 ELSE 12

\* The records that a role is shown, with the number of rows left to each.
View(role) ==
    {[e EXCEPT !.rows = IF role \in Summarised THEN 0
                        ELSE IF @ > RowLimit(role) THEN RowLimit(role) ELSE @] :
        e \in {x \in records \cup probes : x.kind \in KindsFor(role)}}

ShownFeedback(role) ==
    IF role = "chief_of_staff" THEN SubSeq(memory, 1, Min({ChiefFeedback, Len(memory)})) ELSE <<>>
-----------------------------------------------------------------------------
(***************************************************************************)
(* Properties.                                                             *)
(***************************************************************************)
\* Whatever rows a specialist may cite the verifier can look up: it is shown the
\* same records, with at least as many of their rows (agents.py:17-36, 85-92).
VerifierCanLookUp ==
    step = "ready" =>
        \A role \in Roles \ {"judge"} : \A e \in View(role) :
            \E f \in View("verifier") : f = [e EXCEPT !.rows = f.rows] /\ f.rows >= e.rows

\* "Future runs will factor it in" (main.py:162): feedback of which the operator
\* was told that it is recorded is shown to the chief of staff of every run that
\* reads the table afterwards, unless the newest rows have pushed it out.
FactoredIn ==
    [][ReadFeedback =>
        \A x \in told :
            \/ \E i \in DOMAIN ShownFeedback("chief_of_staff")' :
                  ShownFeedback("chief_of_staff")'[i] = [run |-> x[2], update |-> x[1]]
            \/ \E i \in RowsOf(x[1]) : Len(feedback) - i >= Min({ChiefFeedback, MemoryLimit})]_vars
=============================================================================
