-------------------------- MODULE AutonomousGrowth --------------------------
(***************************************************************************)
(* AutonomousGrowthWorkflow (workflows/autonomous.py) with the activities  *)
(* it drives: the cooldown guards over the mutation ledger, the WordPress  *)
(* adapter (read, backup, apply, validate, roll back) and the recording of *)
(* the outcome.  Several runs of the workflow share the live posts, the    *)
(* backup files and the ledger; nothing in the code locks any of the three.*)
(*                                                                         *)
(* One action is one activity call seen from the workflow, with all of its *)
(* attempts: it succeeds, fails without effect, or fails although an       *)
(* attempt took effect or will still take effect (a timed-out attempt is   *)
(* not cancelled).  Faults names the failures that a configuration admits. *)
(***************************************************************************)
EXTENDS MutationLedger, Sequences, FiniteSets

CONSTANTS
    Runs,                \* workflow executions
    Cycles, CycleOf,     \* the business workflow ID of each execution
    Sites, SiteOf,       \* wordpress_resolve_site: URL -> site
    Posts, PostOf,       \* wordpress_read_target: the post its last segment names
    Original,            \* the value every field holds before the first run
    StoredAs,            \* what WordPress may store for each value that it is sent
    Modes,               \* the run modes in use
    MaxInterventions,    \* max_interventions of the payload
    MaxMutationsPerSite, \* max_mutations_per_site of the payload
    MaxPlan,             \* longest plan (ImplementationPlan.mutations)
    MaxDay,              \* bound: the last day
    InitialGates,        \* the settings of the worker at the start
    Overlap,             \* may two executions be open at the same time?
    Faults               \* the failures that may happen, see FaultKinds

RunModes == {"READ_ONLY", "DRAFT", "STAGING", "PRODUCTION_APPROVED"}

\* allow_production_writes and the two wordpress_allow_..._updates switches.
Gates == {"production"} \cup Fields

FaultKinds ==
    { "apply_lost",      \* the POST lands, its answer does not arrive
      "apply_late",      \* the POST lands after the activity has timed out
      "rollback_fails",  \* no rollback attempt is answered
      "rollback_late",   \* the POST of an abandoned rollback attempt lands later
      "record_fails",    \* no attempt to record is answered, none landed
      "record_lost",     \* no attempt to record is answered, one landed
      "record_late",     \* as before, but the row is written later
      "notify_fails",    \* Telegram is down for all three attempts
      "editor",          \* somebody edits the post in WordPress
      "gates" }          \* a setting changes and the worker restarts

Contents == [Fields -> Values]

Min2(a, b) == IF a < b THEN a ELSE b

SeqsUpTo(S, n) == UNION {[1..k -> S] : k \in 0..n}

ASSUME GrowthAssumption ==
    /\ CycleOf \in [Runs -> Cycles]
    /\ SiteOf \in [Urls -> Sites]
    /\ PostOf \in [Urls -> Posts]
    /\ Original \in Values
    /\ StoredAs \in [Values -> SUBSET Values \ {{}}]
    /\ Modes \subseteq RunModes
    /\ MaxInterventions \in Nat \ {0}
    /\ MaxMutationsPerSite \in Nat \ {0}
    /\ MaxPlan \in Nat
    /\ MaxDay \in Nat
    /\ InitialGates \subseteq Gates
    /\ Overlap \in BOOLEAN
    /\ Faults \subseteq FaultKinds
    /\ None \notin Contents
    /\ None \notin [mutation: Mutations, before: Contents]

VARIABLES
    pc,         \* the statement each execution is waiting at
    mode,       \* requested_mode
    targets,    \* the interventions still to do, the current one first
    snap,       \* snapshot of the current target, or None
    plan,       \* plan.mutations still to do, the current one first
    spent,      \* site_mutations
    receipts,   \* the receipts list, each with the day it was appended
    wp,         \* title and content of the live posts
    ledger,     \* the table autonomous_mutations
    backup,     \* the backup file of each mutation
    inflight,   \* writes of timed-out attempts that have yet to land
    gates,      \* the write switches that are on
    day         \* wall clock, in days

control == <<pc, mode, targets, snap, plan>>
outcome == <<spent, receipts>>
stores  == <<wp, ledger, backup, inflight>>
world   == <<gates, day>>
vars    == <<control, outcome, stores, world>>

Loop     == {"resolve", "target_guard", "read", "implement", "mutate", "baseline",
             "apply", "validate", "record", "rollback", "rerecord"}
Closed   == {"COMPLETED", "FAILED"}
Open     == {"analyse", "notify"} \cup Loop
Stages   == {"new"} \cup Open \cup Closed

Receipts == [mutation: Mutations, status: Statuses, day: Nat]

LateWrites == [kind: {"post"}, post: Posts, field: Fields, value: Values]
                \cup [kind: {"restore"}, post: Posts, content: Contents]
                \cup [kind: {"row"}, mutation: Mutations, status: Statuses]

TypeOK ==
    /\ pc \in [Runs -> Stages]
    /\ mode \in [Runs -> RunModes]
    /\ targets \in [Runs -> Seq(Urls)]
    /\ snap \in [Runs -> Contents \cup {None}]
    /\ plan \in [Runs -> Seq(Mutations)]
    /\ spent \in [Runs -> [Sites -> Nat]]
    /\ receipts \in [Runs -> Seq(Receipts)]
    /\ wp \in [Posts -> Contents]
    /\ ledger \in Ledgers
    /\ backup \in [Mutations -> Contents \cup {None}]
    /\ inflight \subseteq LateWrites
    /\ gates \subseteq Gates
    /\ day \in Nat

Init ==
    /\ pc = [r \in Runs |-> "new"]
    /\ mode = [r \in Runs |-> "READ_ONLY"]
    /\ targets = [r \in Runs |-> <<>>]
    /\ snap = [r \in Runs |-> None]
    /\ plan = [r \in Runs |-> <<>>]
    /\ spent = [r \in Runs |-> [s \in Sites |-> 0]]
    /\ receipts = [r \in Runs |-> <<>>]
    /\ wp = [p \in Posts |-> [f \in Fields |-> Original]]
    /\ ledger = [m \in Mutations |-> None]
    /\ backup = [m \in Mutations |-> None]
    /\ inflight = {}
    /\ gates = InitialGates
    /\ day = 0
-----------------------------------------------------------------------------
(***************************************************************************)
(* What the two loops keep in local variables.  Here and below, an operator *)
(* whose name has a suffix, as in EndIntervention_Repeats, is a wrong       *)
(* version of the operator without it; no action uses it.  Each stands for  *)
(* an easy mistake in the code and shows which property would notice it.    *)
(***************************************************************************)
Url(r)      == Head(targets[r])
Site(r)     == SiteOf[Url(r)]
Mutation(r) == Head(plan[r])
PostOfM(m)  == PostOf[m.url]

BudgetExhausted_OffByOne(r) == spent[r][Site(r)] > MaxMutationsPerSite

BudgetExhausted(r) == spent[r][Site(r)] >= MaxMutationsPerSite

EndIntervention_Repeats(r) ==
    /\ pc' = [pc EXCEPT ![r] = IF Len(targets[r]) = 1 THEN "notify" ELSE "resolve"]
    /\ snap' = [snap EXCEPT ![r] = None]
    /\ plan' = [plan EXCEPT ![r] = <<>>]
    /\ UNCHANGED <<mode, targets>>

\* continue of the outer loop, and its except branch: SKIPPED_OR_FAILED.
EndIntervention(r) ==
    /\ targets' = [targets EXCEPT ![r] = Tail(@)]
    /\ pc' = [pc EXCEPT ![r] = IF Len(targets[r]) = 1 THEN "notify" ELSE "resolve"]
    /\ snap' = [snap EXCEPT ![r] = None]
    /\ plan' = [plan EXCEPT ![r] = <<>>]
    /\ UNCHANGED mode

\* continue of the inner loop, or its end.
EndMutation(r) ==
    /\ plan' = [plan EXCEPT ![r] = Tail(@)]
    /\ pc' = [pc EXCEPT ![r] = "mutate"]
    /\ UNCHANGED <<mode, targets, snap>>

\* The next statement of the same iteration.
Goto(r, stage) ==
    /\ pc' = [pc EXCEPT ![r] = stage]
    /\ UNCHANGED <<mode, targets, snap, plan>>

AddReceipt_Applied(r, status) ==
    receipts' = [receipts EXCEPT ![r] =
        Append(@, [mutation |-> Mutation(r), status |-> "APPLIED", day |-> day])]

AddReceipt(r, status) ==
    receipts' = [receipts EXCEPT ![r] =
        Append(@, [mutation |-> Mutation(r), status |-> status, day |-> day])]
-----------------------------------------------------------------------------
MayStart_AnyReuse(r) ==
    Overlap \/ \A q \in Runs : pc[q] \notin Open

\* ALLOW_DUPLICATE_FAILED_ONLY: the business ID has no execution that is open
\* or that completed.  Without Overlap no other business ID is open either.
MayStart(r) ==
    /\ \A q \in Runs : CycleOf[q] = CycleOf[r] => pc[q] \in {"new", "FAILED"}
    /\ Overlap \/ \A q \in Runs : pc[q] \notin Open

\* autonomous_scheduler._ensure_cycle, or a commissioning script.
Start(r, m) ==
    /\ pc[r] = "new"
    /\ MayStart(r)
    /\ pc' = [pc EXCEPT ![r] = "analyse"]
    /\ mode' = [mode EXCEPT ![r] = m]
    /\ UNCHANGED <<targets, snap, plan, outcome, stores, world>>

\* The analysis child: the interventions of a DONE analysis, cut to
\* max_interventions; none when it was not DONE or the mode is READ_ONLY.
Analyse(r) ==
    /\ pc[r] = "analyse"
    /\ \E ts \in SeqsUpTo(Urls, MaxInterventions) :
          /\ mode[r] = "READ_ONLY" => ts = <<>>
          /\ targets' = [targets EXCEPT ![r] = ts]
          /\ pc' = [pc EXCEPT ![r] = IF ts = <<>> THEN "notify" ELSE "resolve"]
    /\ UNCHANGED <<mode, snap, plan, outcome, stores, world>>

\* The child workflow failed: so does this one, before any write.
AnalyseFails(r) ==
    /\ pc[r] = "analyse"
    /\ Goto(r, "FAILED")
    /\ UNCHANGED <<outcome, stores, world>>

\* An activity of an intervention fails and has no effect; the except branch
\* of the outer loop goes on with the next intervention.
StepFails(r) ==
    /\ pc[r] \in {"resolve", "target_guard", "read", "implement", "mutate", "apply"}
    /\ pc[r] = "mutate" => plan[r] # <<>> /\ ~BudgetExhausted(r)
    /\ EndIntervention(r)
    /\ UNCHANGED <<outcome, stores, world>>

ResolveSite(r) ==
    /\ pc[r] = "resolve"
    /\ \/ BudgetExhausted(r) /\ EndIntervention(r)
       \/ ~BudgetExhausted(r) /\ Goto(r, "target_guard")
    /\ UNCHANGED <<outcome, stores, world>>

TargetGuard(r) ==
    /\ pc[r] = "target_guard"
    /\ \/ TargetEligible(ledger, Url(r), day) /\ Goto(r, "read")
       \/ ~TargetEligible(ledger, Url(r), day) /\ EndIntervention(r)
    /\ UNCHANGED <<outcome, stores, world>>

ReadTarget(r) ==
    /\ pc[r] = "read"
    /\ snap' = [snap EXCEPT ![r] = wp[PostOf[Url(r)]]]
    /\ pc' = [pc EXCEPT ![r] = "implement"]
    /\ UNCHANGED <<mode, targets, plan, outcome, stores, world>>

IsNoop_Never(m, snapshot) == FALSE

IsNoop(m, snapshot) == m.value = snapshot[m.field]

\* The plans that run_implementer returns: whatever the model proposed for
\* this target, without the mutations that would change nothing.
Plans(r) ==
    SeqsUpTo({m \in Mutations : m.url = Url(r) /\ ~IsNoop(m, snap[r])}, MaxPlan)

Implement_DraftGoesOn(r) ==
    /\ pc[r] = "implement"
    /\ \E p \in Plans(r) : plan' = [plan EXCEPT ![r] = p]
    /\ pc' = [pc EXCEPT ![r] = "mutate"]
    /\ UNCHANGED <<mode, targets, snap, outcome, stores, world>>

Implement(r) ==
    /\ pc[r] = "implement"
    /\ \/ mode[r] = "DRAFT" /\ EndIntervention(r)
       \/ /\ mode[r] # "DRAFT"
          /\ \E p \in Plans(r) : plan' = [plan EXCEPT ![r] = p]
          /\ pc' = [pc EXCEPT ![r] = "mutate"]
          /\ UNCHANGED <<mode, targets, snap>>
    /\ UNCHANGED <<outcome, stores, world>>

\* Head of the inner loop and mutation_candidate_eligible.
NextMutation(r) ==
    /\ pc[r] = "mutate"
    /\ \/ (plan[r] = <<>> \/ BudgetExhausted(r)) /\ EndIntervention(r)
       \/ /\ plan[r] # <<>> /\ ~BudgetExhausted(r)
          /\ \/ CandidateEligible(ledger, Mutation(r), day) /\ Goto(r, "baseline")
             \/ ~CandidateEligible(ledger, Mutation(r), day) /\ EndMutation(r)
    /\ UNCHANGED <<outcome, stores, world>>

\* A baseline that cannot be captured is replaced by an empty one.
CaptureBaseline(r) ==
    /\ pc[r] = "baseline"
    /\ Goto(r, "apply")
    /\ UNCHANGED <<outcome, stores, world>>
-----------------------------------------------------------------------------
MayApply_Ungated(r) == TRUE

\* _write_allowed and the two checks of the mode.
MayApply(r) ==
    /\ Mutation(r).field \in gates
    /\ mode[r] # "READ_ONLY"
    /\ mode[r] = "PRODUCTION_APPROVED" => "production" \in gates

SaveBackup_KeepsOld(r) ==
    backup' = [backup EXCEPT ![Mutation(r)] = IF @ = None THEN snap[r] ELSE @]

\* _backup_snapshot: the file is named after the mutation and overwritten.
SaveBackup(r) == backup' = [backup EXCEPT ![Mutation(r)] = snap[r]]

Put(p, f, v) == wp' = [wp EXCEPT ![p][f] = v]

ApplyRefused(r) ==
    /\ pc[r] = "apply" /\ ~MayApply(r)
    /\ EndIntervention(r)
    /\ UNCHANGED <<outcome, stores, world>>

\* The backup is written and WordPress refuses the request.
ApplyFails(r) ==
    /\ pc[r] = "apply" /\ MayApply(r)
    /\ SaveBackup(r)
    /\ EndIntervention(r)
    /\ UNCHANGED <<outcome, wp, ledger, inflight, world>>

Apply_NoBackup(r) ==
    /\ pc[r] = "apply" /\ MayApply(r)
    /\ Put(PostOfM(Mutation(r)), Mutation(r).field, Mutation(r).value)
    /\ Goto(r, "validate")
    /\ UNCHANGED <<outcome, backup, ledger, inflight, world>>

Apply(r) ==
    /\ pc[r] = "apply" /\ MayApply(r)
    /\ SaveBackup(r)
    /\ \E v \in StoredAs[Mutation(r).value] :
          Put(PostOfM(Mutation(r)), Mutation(r).field, v)
    /\ Goto(r, "validate")
    /\ UNCHANGED <<outcome, ledger, inflight, world>>

\* maximum_attempts=1, and the except branch does not know of the write.
ApplyLost(r) ==
    /\ "apply_lost" \in Faults
    /\ pc[r] = "apply" /\ MayApply(r)
    /\ SaveBackup(r)
    /\ \E v \in StoredAs[Mutation(r).value] :
          Put(PostOfM(Mutation(r)), Mutation(r).field, v)
    /\ EndIntervention(r)
    /\ UNCHANGED <<outcome, ledger, inflight, world>>

ApplyLate(r) ==
    /\ "apply_late" \in Faults
    /\ pc[r] = "apply" /\ MayApply(r)
    /\ SaveBackup(r)
    /\ \E v \in StoredAs[Mutation(r).value] :
          inflight' = inflight \cup
             {[kind |-> "post", post |-> PostOfM(Mutation(r)),
               field |-> Mutation(r).field, value |-> v]}
    /\ EndIntervention(r)
    /\ UNCHANGED <<outcome, wp, ledger, world>>

\* wordpress_validate_mutation compares the stored raw field with the value.
Matches(r) == wp[PostOfM(Mutation(r))][Mutation(r).field] = Mutation(r).value

Validate_Trusts(r) ==
    /\ pc[r] = "validate"
    /\ Goto(r, "record") \/ Goto(r, "rollback")
    /\ UNCHANGED <<outcome, stores, world>>

\* A mismatch and an unanswered call both raise inside the inner try block.
Validate(r) ==
    /\ pc[r] = "validate"
    /\ \/ Matches(r) /\ Goto(r, "record")
       \/ Goto(r, "rollback")
    /\ UNCHANGED <<outcome, stores, world>>

UpsertRow(r, status) == ledger' = Upsert(ledger, Mutation(r), status, day)

Spend(r) == spent' = [spent EXCEPT ![r][Site(r)] = @ + 1]

Record(r) ==
    /\ pc[r] = "record"
    /\ UpsertRow(r, "VALIDATED")
    /\ AddReceipt(r, "VALIDATED")
    /\ Spend(r)
    /\ EndMutation(r)
    /\ UNCHANGED <<wp, backup, inflight, world>>

\* record_autonomous_mutation was not answered: nothing was written, or a row
\* was, or an abandoned attempt will still write it.
Unanswered(r, status) ==
    \/ "record_fails" \in Faults /\ UNCHANGED <<ledger, inflight>>
    \/ "record_lost" \in Faults /\ UpsertRow(r, status) /\ UNCHANGED inflight
    \/ /\ "record_late" \in Faults
       /\ inflight' = inflight \cup
             {[kind |-> "row", mutation |-> Mutation(r), status |-> status]}
       /\ UNCHANGED ledger

AfterFailedRecord_Skips(r) == EndIntervention(r)

\* The except branch of the inner try block.
AfterFailedRecord(r) == Goto(r, "rollback")

RecordFails(r) ==
    /\ pc[r] = "record"
    /\ Unanswered(r, "VALIDATED")
    /\ AfterFailedRecord(r)
    /\ UNCHANGED <<outcome, wp, backup, world>>

RestoredBody_OnlyOther(m) == [backup[m] EXCEPT ![m.field] = m.value]

\* title and content of the snapshot, whichever of them the mutation changed.
RestoredBody(m) == backup[m]

\* What a post may hold after content c was sent to it.
SentBack(c) == {d \in Contents : \A f \in Fields : d[f] \in StoredAs[c[f]]}

\* WordPress treats this request like any other, and nobody reads what it stored.
Restore(r) ==
    \E c \in SentBack(RestoredBody(Mutation(r))) :
        wp' = [wp EXCEPT ![PostOfM(Mutation(r))] = c]

\* One of three attempts may have been given up and still be on its way.
LeftBehind(r) ==
    \/ UNCHANGED inflight
    \/ /\ "rollback_late" \in Faults /\ backup[Mutation(r)] # None
       /\ \E c \in SentBack(RestoredBody(Mutation(r))) :
             inflight' = inflight \cup
                {[kind |-> "restore", post |-> PostOfM(Mutation(r)), content |-> c]}

Rollback_Gated(r) ==
    /\ pc[r] = "rollback" /\ backup[Mutation(r)] # None
    /\ \/ MayApply(r) /\ Restore(r) /\ Goto(r, "rerecord")
       \/ ~MayApply(r) /\ EndIntervention(r) /\ UNCHANGED wp
    /\ LeftBehind(r)
    /\ UNCHANGED <<outcome, ledger, backup, world>>

\* wordpress_rollback_mutation checks no write switch.
Rollback(r) ==
    /\ pc[r] = "rollback" /\ backup[Mutation(r)] # None
    /\ Restore(r)
    /\ LeftBehind(r)
    /\ Goto(r, "rerecord")
    /\ UNCHANGED <<outcome, ledger, backup, world>>

\* No backup file, or three attempts that were not answered.
RollbackFails(r) ==
    /\ pc[r] = "rollback"
    /\ \/ "rollback_fails" \in Faults \/ backup[Mutation(r)] = None
    /\ \/ UNCHANGED wp
       \/ backup[Mutation(r)] # None /\ Restore(r)
    /\ LeftBehind(r)
    /\ EndIntervention(r)
    /\ UNCHANGED <<outcome, ledger, backup, world>>

Rerecord(r) ==
    /\ pc[r] = "rerecord"
    /\ UpsertRow(r, "ROLLED_BACK")
    /\ AddReceipt(r, "ROLLED_BACK")
    /\ EndMutation(r)
    /\ UNCHANGED <<spent, wp, backup, inflight, world>>

RerecordFails(r) ==
    /\ pc[r] = "rerecord"
    /\ Unanswered(r, "ROLLED_BACK")
    /\ EndIntervention(r)
    /\ UNCHANGED <<outcome, wp, backup, world>>

\* Nothing catches the exception of notify_telegram.
AfterFailedNotice(r) == Goto(r, "FAILED")

Notify(r) ==
    /\ pc[r] = "notify"
    /\ \/ Goto(r, "COMPLETED")
       \/ "notify_fails" \in Faults /\ AfterFailedNotice(r)
    /\ UNCHANGED <<outcome, stores, world>>
-----------------------------------------------------------------------------
Step(r) ==
    \/ Analyse(r) \/ AnalyseFails(r) \/ StepFails(r) \/ ResolveSite(r)
    \/ TargetGuard(r) \/ ReadTarget(r) \/ Implement(r) \/ NextMutation(r)
    \/ CaptureBaseline(r) \/ ApplyRefused(r) \/ ApplyFails(r) \/ Apply(r)
    \/ ApplyLost(r) \/ ApplyLate(r) \/ Validate(r) \/ Record(r) \/ RecordFails(r)
    \/ Rollback(r) \/ RollbackFails(r) \/ Rerecord(r) \/ RerecordFails(r) \/ Notify(r)

\* The write of an attempt that the workflow has given up.
Land(w) ==
    /\ w \in inflight
    /\ inflight' = inflight \ {w}
    /\ \/ /\ w.kind = "post"
          /\ Put(w.post, w.field, w.value)
          /\ UNCHANGED ledger
       \/ /\ w.kind = "restore"
          /\ wp' = [wp EXCEPT ![w.post] = w.content]
          /\ UNCHANGED ledger
       \/ /\ w.kind = "row"
          /\ ledger' = Upsert(ledger, w.mutation, w.status, day)
          /\ UNCHANGED wp
    /\ UNCHANGED <<control, outcome, backup, world>>

Edit(p, f, v) ==
    /\ "editor" \in Faults
    /\ Put(p, f, v)
    /\ UNCHANGED <<control, outcome, ledger, backup, inflight, world>>

Regate(g) ==
    /\ "gates" \in Faults
    /\ gates' = g
    /\ UNCHANGED <<control, outcome, stores, day>>

Tick ==
    /\ day < MaxDay
    /\ day' = day + 1
    /\ UNCHANGED <<control, outcome, stores, gates>>

Environment ==
    \/ Tick
    \/ \E w \in inflight : Land(w)
    \/ \E p \in Posts, f \in Fields, v \in Values : Edit(p, f, v)
    \/ \E g \in SUBSET Gates : Regate(g)

Next ==
    \/ \E r \in Runs, m \in Modes : Start(r, m)
    \/ \E r \in Runs : Step(r)
    \/ Environment

(***************************************************************************)
(* Every activity has a timeout and a bounded number of attempts, and      *)
(* Temporal resumes an execution on any live worker: an open execution     *)
(* keeps making steps.  Nothing makes a failure happen, nor a clock tick.  *)
(***************************************************************************)
Spec == Init /\ [][Next]_vars /\ \A r \in Runs : WF_vars(Step(r))
-----------------------------------------------------------------------------
(***************************************************************************)
(* Properties.                                                             *)
(***************************************************************************)
\* A run that has changed a live post and has not settled the change yet.
Writing(r) == pc[r] \in {"validate", "record", "rollback", "rerecord"}

\* The abstract view: an open change is that of a run between its apply and the
\* end of the settlement, and what was there before is the snapshot.
OpenChange ==
    [r \in Runs |-> IF Writing(r) THEN [mutation |-> Mutation(r), before |-> snap[r]]
                                  ELSE None]

Guarded == INSTANCE GuardedWrite
    WITH live   <- wp,
         claims <- {m \in Mutations : Validated(ledger, m)},
         change <- OpenChange

\* Every change of a live post is claimed as a whole, or not claimed and its
\* snapshot sent back as a whole, whatever WordPress makes of either, and nothing
\* else changes a post or a claim, across the snapshot, the backup file, the upsert
\* and the except branches (autonomous.py:134-259).
WritesAreGuarded == Guarded!Spec

ValidatedOn(p, f) ==
    {m \in Mutations : PostOfM(m) = p /\ m.field = f /\ Validated(ledger, m)}

\* The receipts of run r with status VALIDATED on site s, by position.
ValidatedReceipts(r, s) ==
    {i \in DOMAIN receipts[r] : /\ receipts[r][i].status = "VALIDATED"
                                /\ SiteOf[receipts[r][i].mutation.url] = s}

\* A run leaves at most max_mutations_per_site validated changes on a site,
\* counting its receipts and not its own counter (autonomous.py:106,167,241).
BudgetPerRun ==
    \A r \in Runs, s \in Sites :
        Cardinality(ValidatedReceipts(r, s)) <= MaxMutationsPerSite

\* All the executions of one business cycle together stay within the budget:
\* a retried cycle does not repeat successful work (autonomous_scheduler.py:28).
CycleBudget ==
    \A c \in Cycles, s \in Sites :
        Cardinality(UNION {{r} \X ValidatedReceipts(r, s) :
                            r \in {q \in Runs : CycleOf[q] = c}})
            <= MaxMutationsPerSite

\* The backup that a rollback would restore never holds the value that the
\* mutation wrote, although the file is overwritten by every later attempt with
\* the same identity and the snapshots of several runs interleave.
BackupClean ==
    \A m \in Mutations : backup[m] # None => backup[m][m.field] # m.value

\* A run that has written can be rolled back: the backup file exists.
BackupReady ==
    \A r \in Runs : Writing(r) => backup[Mutation(r)] # None

\* A run in READ_ONLY or DRAFT mode never comes near a write, whatever its
\* analysis and its implementer return (autonomous.py:62 and 163).
DraftNeverWrites ==
    \A r \in Runs : mode[r] \in {"READ_ONLY", "DRAFT"}
        => ~Writing(r) /\ pc[r] \notin {"mutate", "baseline", "apply"} /\ receipts[r] = <<>>

\* Two changes of one URL are validated at least Cooldown days apart.
CooldownKept ==
    \A q, r \in Runs : \A i \in DOMAIN receipts[q], j \in DOMAIN receipts[r] :
        LET a == receipts[q][i]
            b == receipts[r][j]
        IN  /\ <<q, i>> # <<r, j>>
            /\ a.status = "VALIDATED" /\ b.status = "VALIDATED"
            /\ a.mutation.url = b.mutation.url
            /\ a.day <= b.day
            => a.day + Cooldown <= b.day

\* The same, excusing a pair of which one mutation was rolled back before it was
\* validated: the table then keeps the date of the rolled-back attempt.
CooldownUnlessStale ==
    \A q, r \in Runs : \A i \in DOMAIN receipts[q], j \in DOMAIN receipts[r] :
        LET a == receipts[q][i]
            b == receipts[r][j]
        IN  /\ <<q, i>> # <<r, j>>
            /\ a.status = "VALIDATED" /\ b.status = "VALIDATED"
            /\ a.mutation.url = b.mutation.url
            /\ a.day <= b.day
            => \/ a.day + Cooldown <= b.day
               \/ ledger[a.mutation].appliedAt < a.day
               \/ ledger[b.mutation].appliedAt < b.day

\* What a post shows and what the ledger claims agree whenever no run is in the
\* middle of a change: the live value of a field is one that a validated row
\* names or, when no row is validated, the one it had before the first run or what
\* WordPress made of that when a rollback sent it back.
SiteMatchesLedger ==
    \A p \in Posts, f \in Fields :
        (\A r \in Runs : Writing(r) => PostOfM(Mutation(r)) # p)
            => \/ \E m \in ValidatedOn(p, f) : m.value = wp[p][f]
               \/ /\ ValidatedOn(p, f) = {}
                  /\ wp[p][f] \in {Original} \cup StoredAs[Original]

\* A row says VALIDATED only if some run holds a VALIDATED receipt for it, or is
\* still busy with that mutation.
ClaimsHaveReceipts ==
    \A m \in Mutations : Validated(ledger, m)
        => \E r \in Runs :
              \/ Writing(r) /\ Mutation(r) = m
              \/ \E i \in DOMAIN receipts[r] :
                    receipts[r][i].status = "VALIDATED" /\ receipts[r][i].mutation = m

\* Only a rollback changes a live post while production writes are switched off.
ProductionGate ==
    [][wp' # wp => "production" \in gates \/ \E r \in Runs : pc[r] = "rollback"]_vars

\* A rollback that has succeeded never asked for the value it undoes: the field
\* holds what WordPress made of another one, although the backup file has been
\* overwritten by other runs and the post edited since (wordpress.py:227-244).
RollbackUndoes ==
    [][\A r \in Runs : pc[r] = "rollback" /\ pc'[r] = "rerecord"
          => \E v \in Values \ {Mutation(r).value} :
                wp'[PostOfM(Mutation(r))][Mutation(r).field] \in StoredAs[v]]_vars

\* Every execution that was started ends, and with it the change it has open:
\* WritesAreGuarded says in which state it leaves the post (autonomous.py:83-298).
RunsClose == \A r \in Runs : pc[r] = "analyse" ~> pc[r] \in Closed
=============================================================================
