# A specification of the Alexios-Hermes control plane

TLA+ modules for the parts of `alexios_hermes_control_plane` in which an
interleaving, a lost answer or a retry can go wrong, the TLC configurations that
check them on small instances, and proofs that what is checked, except liveness,
holds for every instance, in part under named assumptions. Paths are relative to the
repository; `src/...` stands for `src/alexios_hermes_control_plane/...`.

Contents: [the system](#the-system) · [the modules](#the-modules) ·
[what the runs show](#what-the-runs-show) · [bounds](#bounds) ·
[fairness](#fairness) · [disagreements](#disagreements-with-the-documents) ·
[proofs](#proofs) · [limits](#what-is-not-modelled)

## The system

The control plane analyses a portfolio of WordPress sites with several language
models, lets a verifier clear their findings, and applies small reversible changes
to posts. Everything that lasts is a Temporal workflow; everything that does I/O is
an activity with a timeout and a bounded number of attempts. Three stores are
shared and none of them is locked across activities: the live posts, the directory
of backup files, and a PostgreSQL database.

| Component | State it keeps | Operations |
|---|---|---|
| Growth workflow (`workflows/autonomous.py`) | `site_mutations`, `receipts`, `plans`, its place in two nested loops | one cycle: analyse, resolve the site, check the cooldown, read the post, ask the implementer, and for each mutation check, capture a baseline, apply, validate, record, or else roll back and record that; notify |
| Cooldown guard and mutation ledger (`activities/mutation_guard.py`, `record_autonomous_mutation` in `activities/outcomes.py`) | table `autonomous_mutations` | two queries that admit or refuse, one upsert |
| WordPress adapter (`activities/wordpress.py`, `wordpress_registry.py`) | the live post, one backup file per mutation | read, back up and apply, validate, roll back; the write switches |
| Implementer (`activities/implementation.py`) | none | proposes an `ImplementationPlan`, drops what changes nothing, gives each mutation a deterministic identity |
| Scheduler (`autonomous_scheduler.py`) | none; Temporal keeps the business IDs | every 60 seconds: start the cycle of this interval and the measurement of this day, unless they exist and did not fail |
| Portfolio workflow (`workflows/portfolio.py`) | results of the agents, verdicts | create the row, build the context, run the specialists together, verifier gate, record results, judge, complete the row, notify; the except branch |
| Verifier gate and judge (`activities/agents.py`) | the stamp of each finding | force `UNVERIFIED`, merge verdicts, select, rank |
| Run ledger (`services/ledger.py`, `activities/ledger.py`) | tables `runs`, `agent_results`, `intervention_feedback`, a connection pool | create, record, complete, history, feedback, search by prefix |
| Outcome measurement (`workflows/measurement.py`, `activities/outcomes.py`) | table `autonomous_measurements` | list what is due, measure and store each item, notify |
| API and webhook (`api/main.py`, `services/temporal.py`, `services/telegram.py`) | none | start a run by an idempotency key, answer Telegram, take feedback |
| Evidence collectors (`activities/evidence.py`, `technical_evidence.py`, `context.py`) | lists of evidence and errors of one attempt | three Search Console queries per site, three probes per site |
| Provider adapters (`models/`) | none | one request per call and at most one more to repair the answer; parse, validate, add up tokens |
| Verifier normalisation, decision score (`services/`) | none | pure functions |
| Notifications, settings, worker | none of their own | one request; values read once; registration |

How they interact. The scheduler, or a commissioning script, starts a growth
workflow; its first step runs a portfolio workflow as a child and takes the
interventions of a `DONE` result. The growth workflow alone writes the posts and
`autonomous_mutations`. The measurement workflow reads that table and writes
`autonomous_measurements`, from which later contexts quote "outcome memory". The
webhook starts portfolio workflows on their own.

What is hard, and what would make each part correct:

* **Growth workflow and WordPress adapter.** An activity that timed out is not
  cancelled: its effect may be there already, come later, or never come. The
  snapshot, the plan, the guards' answers and the backup are all older than the
  write that relies on them. The change has to be settled: recorded as validated,
  or taken back. A budget has to hold through failures, rollbacks and retried
  cycles. A mode that must not write never gets near a write. A rollback always
  finds a backup, and the backup never contains what is to be undone.
* **Mutation ledger.** One row per mutation is updated by every attempt and keeps
  some of its columns; the row has to tell what is live, and when it was changed.
* **Scheduler.** A failed cycle runs again under its ID, and what it had already
  done successfully must not be done again.
* **Portfolio workflow, gate and judge.** Nothing reaches the judge that the
  verifier did not clear, whatever specialists say, whoever fails. The row of a run
  tells how the run ended although each update may be lost or late.
* **Webhook and feedback.** One update leads to one run although it is delivered
  repeatedly. A verdict that was confirmed is in the table, for the run that was
  named, and later runs see it.
* **Context.** A site whose connector fails costs only its own evidence; all sites
  are compared over the same days; what a specialist may cite the verifier can see.
* **Adapters.** Half an answer is no answer, a copied question is no verdict, and no
  sequence of failures keeps a run open.
* **Measurement.** Only final days, only changes that the ledger calls live, and an
  answer for everything that is listed, also when one item is broken.

`PROJECT.json` lists each hazard at its line, with the properties meant for it.

## The modules

| Module | What it models |
|---|---|
| `MutationLedger` | the table `autonomous_mutations` as a function from mutations to rows, `TargetEligible`, `CandidateEligible`, `Upsert` |
| `AutonomousGrowth` | the growth workflow, guards, WordPress adapter, implementer and the start rule of the scheduler; extends `MutationLedger` |
| `GuardedWrite` | abstract specification: a change of a live post is either live and claimed, or not claimed and the old content sent back as a whole; `AutonomousGrowth` implements it |
| `PortfolioRun` | the portfolio workflow with webhook, gate, judge and the tables `runs` and `agent_results` |
| `AgentCalls` | the calls of one run from a specialist's findings to ranked interventions: attempts, repairs, merge of verdicts, score; extends `ModelAnswers` and `DecisionScore` |
| `ModelAnswers` | the parser of model answers and the normalisation of verdicts, as operators |
| `DecisionScore` | the score and the ranking, as operators over scaled integers |
| `RunContext` | `_build_context` of one run and the selection per role, composed with `FeedbackLoop`, `LedgerPool` and `EvidenceCollection` |
| `FeedbackLoop` | feedback by Telegram message and by endpoint, its redelivery, and the rows it leaves |
| `LedgerPool` | the connection pool that the activities of a worker share |
| `EvidenceCollection` | the Search Console and probe activities with their attempts |
| `OutcomeMeasurement` | the measurement workflow over the mutation ledger; extends `MutationLedger` |
| `MC...` | the small instances of the module after which each is named |
| `...Proofs` | theorems and their proofs, see [proofs](#proofs) |

**One action is one activity call seen from the workflow, with all of its
attempts.** It succeeds, it fails and had no effect, or it fails although an attempt
took effect or still will: the set `inflight` holds writes of abandoned attempts,
and `Land` lets one happen. Between two actions of one workflow anything may happen
elsewhere. The constant `Faults` names the failures an instance admits; a property
that depends on the absence of one says so by the configuration it is checked in.

`AutonomousGrowth` in terms of the code:

| Variable | Code |
|---|---|
| `pc`, `targets`, `plan` | position in `AutonomousGrowthWorkflow.run`: the interventions and the mutations still to do, the current one first |
| `snap`, `mode`, `spent`, `receipts` | the locals `snapshot`, `requested_mode`, `site_mutations`, `receipts` |
| `wp` | raw title and content of each live post |
| `backup` | the file `<mutation_id>.json` |
| `ledger` | the rows of `autonomous_mutations` |
| `gates` | `allow_production_writes` and the two `wordpress_allow_..._updates` |
| `day` | the wall clock |

Loop control is shared: `EndIntervention` is the outer `continue` and the except
branch that notes `SKIPPED_OR_FAILED`, `EndMutation` the inner one, `Goto` the next
statement. A mutation is what its identity hashes: URL, field and value. Blanks
around a value and a trailing slash of a URL are not told apart, as the code strips
them before comparing. `PostOf` maps a URL to the post that its last segment names
and `SiteOf` to its site. What a language model answers is any answer: `Analyse`
chooses any interventions, `Implement` any plan of real changes for this target.

WordPress is any service behind its REST API: a value that it is sent may be stored as
another one, since filters and the capabilities of the account have a say.
`StoredAs[v]` is the set of what may become of `v`, in the POST of `Apply` and in the
POST of `Rollback` alike (`SentBack` is that for title and content together). What was
applied is read back and compared (`Validate`); what was rolled back is not:
`wordpress_rollback_mutation` reports ROLLED_BACK as soon as its request is answered, and
the workflow records it. An attempt of the rollback that was given up may change the
post later (`LeftBehind`), as that of an apply may.

Commissioning scripts start cycles under business IDs of their own, hence two
cycles can be open together. `Overlap` says whether an instance admits that. Most
runs that relate posts to the ledger do not; the overlap of cycles is looked at
in `GrowthOverlap`, and the theorems that do not need it to be excluded admit it.

`GuardedWrite` knows posts, claims and open changes, and nothing of snapshots, files,
attempts or receipts. A change begins at a post that nobody is changing, with
something written into one field; then the old content may be sent back and the claim
may come and go; it closes with the new value live and claimed, or without a claim and
with what WordPress made of the old content. `AutonomousGrowth` maps `wp` to `live`, the validated rows of
`ledger` to `claims`, and to `change` the mutation and the snapshot of each
execution between its apply and the end of the settlement (`OpenChange`).

`PortfolioRun` has one record of variables per workflow ID, not per execution: a
second execution of an ID starts only after the first has closed and then resets
the locals, but not the tables. A verdict names the finding it is about (`claim`), which the
code does not see: the code sees `FindingId[claim]`, chosen by the author of the
finding. `Merge` is the merge by `finding_id`; `GroundedOnly` speaks of claims.

`AgentCalls` looks into three of the steps that `PortfolioRun` takes as a whole. A
model answers with any sequence of JSON documents, whole or cut off; `ModelAnswers`
says what `_parse_json_content` tries in which order and what becomes of a value in
`VerifierOutput` or `SpecialistOutput`; an answer of which nothing is left is asked for
once more, and then the attempt fails. `DecisionScore` is the formula of `scoring.py`
in hundredths, with its rounding, because the ranking compares rounded scores.

`RunContext` interleaves one run that builds its context with what happens around
it. In `FeedbackLoop` an update is one message, an attempt one HTTP request that
carries it: find the run, insert, reply, each of which may fail or be done without
being answered, and the sender tries again unless it was told otherwise. In `LedgerPool`
a slot is one of the places of the worker; `_ledger.connect` is a look and an
assignment with an `await` in between. In `EvidenceCollection` an attempt reads the date, goes
through the sites one by one and keeps per record its site, kind, windows and number
of rows. `View` and `ShownFeedback` are the selections of `_compact_context_for_role`.

`OutcomeMeasurement` sees the growth workflow only by what it writes into the ledger
(`Growth`). `Recorded` is the row of a fresh attempt, which the candidate guard
precedes. When VALIDATED is stored and the answer is lost (`record_lost`), the mutation
is in `doubted` until the workflow has rolled back and either corrected the row, without
another guard (`Corrected`, after which the mutation is in the history variable
`withdrawn`), or failed to (`NotCorrected`). Meanwhile the row may be listed and
measured, and with a date that an earlier attempt left it is due at once. The time between
guard and row, and rows written late, are looked at in `AutonomousGrowth` and left out
here. One workflow per day; `DatesSurvive` is explained below under `MeasureText`.

**Wrong versions.** An operator whose name is that of another with a suffix, as in
`Merge_AnyGood`, is never used by an action. It is the code with an easy mistake
in it: put in the place of the right one, it makes the property violated that is
listed next to it in `PROJECT.json` under `mutants`. That shows that the property is
not true by accident.

## What the runs show

Each passing run was explored completely; states are distinct states.

| Run | Instance | States | Shows |
|---|---|---|---|
| `GrowthSettled` | 2 cycles in turn on one URL, plans of 2, 3 values, 3 days; the database stores but does not answer, WordPress filters one value, that of the first day among others (`Filtering`) | 886797 | `BudgetPerRun`; `CooldownUnlessStale`; `SiteMatchesLedger`: live fields hold what a validated row says, else the original or what WordPress stores of it; `ClaimsHaveReceipts`: a row that was stored as VALIDATED without an answer is overwritten after the rollback; `WritesAreGuarded`: the refinement |
| `GrowthOverlap` | 2 cycles at the same time on one post, every fault but settings, one value stored now as it is and now filtered (`Wavering`) | 2890256 | `TypeOK`, `BackupClean`, `BackupReady`, `RollbackUndoes` |
| `GrowthModes` | one business ID executed up to twice, 2 URLs that name one post, 3 modes, switches that flip at any moment, records that fail, `Wavering` | 47936 | `DraftNeverWrites`; `ProductionGate`: with production writes off only a rollback changes a post; `CycleBudget`, as long as the notification does not fail; `WritesAreGuarded`; `RunsClose` |
| `RunGate` | 2 findings with IDs of their own, up to 3 verdicts in any order, every failure of agents, database, notification and webhook | 620721 | `GroundedOnly`, `TypeOK` |
| `RunRows` | one ID executed up to twice; agents, result records and notifications fail | 17333 | `RowTellsOutcome`, `ResultsComplete`, `RowsSettle` |
| `AgentCalls` | 2 findings, answers of up to two documents of thirteen kinds, a repair per attempt, 2 attempts, 4 proposals of which one dominates another | 3606 | `VerdictsAreWhole`: verdicts come from one complete list, never from the readable part of one; `EchoGroundsNothing`: a verifier that repeats its input clears nothing; `TokensCounted`; `NoDominatedAhead`; `CallsEnd`; `TypeOK` |
| `RunContext` | 4 messages of every kind of reception, one sent up to twice, 2 places of the worker, 4 sites of which one has no property and one is beyond the maximum, a day that ends, every failure | 1131832 | `NothingLost`: feedback that is not sent again is in the table or was refused, and a reply names the run of the row; `FactoredIn`: the next run shows it to its chief of staff; `PoolsBounded`; `SitesIsolated`; `ComparisonIsFair`: all windows of a result are the same; `VerifierCanLookUp`; `TypeOK` |
| `Measure` | 2 mutations of one URL over 4 days, one of which can never be measured, rows stored without an answer and corrected or not, failures of every step of the workflow, workflows that run again | 204675 | were dates to survive the data converter: `PeriodIsFinal`; `OnlyValidatedMeasured`; `PeriodFollowsChangeUnlessStale`: the measured days lie after the change; `ListedIsAnswered`: whatever a workflow lists is measured or among the failures that it reports; `TypeOK` |

`CHECK_DEADLOCK FALSE` stands in every configuration because the instances really
end: all executions closed, the last day reached, all messages handled.

Remarks on some of the properties:

* `SiteMatchesLedger` excludes posts on which a run is between apply and the end of
  its settlement. A change that is live must be owned by a validated row; a field
  without one must hold the original value, or what WordPress made of that when a
  rollback sent it back. It does not hold with lost answers of
  the POST, overlap, editors, or a rollback that is never answered; nor when WordPress
  changes what it has stored before, since a rollback sends title and content and so sends
  a claimed title again with the content that is undone.
* `WritesAreGuarded` says what `SiteMatchesLedger` cannot say, about every step in
  between: no second change begins at a post with an open one, what WordPress makes
  of what a change found is what it leaves behind when it is undone, and nobody touches a post or a claim
  but through a change. It needs the same conditions.
* `RollbackUndoes` is stated about the step that answers the rollback, since an
  editor or a late write may change the post just afterwards.
  It says that the field holds what WordPress made of a value other than that of the
  mutation. That this is the value of the snapshot holds only as long as WordPress stores what it is sent.
* `OnlyValidatedMeasured` excuses a mutation whose VALIDATED row was stored without an
  answer and corrected after it had been measured: its figures stay, and the
  outcome memory, which does not look at the status (`outcomes.py:263`), tells the next
  analysis of a change that was undone. No document promises otherwise. What is left is that
  nothing else takes the ledger's word from a change that was listed.
* `ListedIsAnswered` holds with dates that survive and with dates that do not: then every
  item is among the failures. It says nothing of what is due and not listed.
* `ResultsComplete` says at least one row. A retried insert can leave two.
* `NothingLost` admits two rows for one message. `FactoredIn` excuses feedback that as
  many newer rows as are read have pushed out.
* `PeriodFollowsChangeUnlessStale` and `CooldownUnlessStale` excuse mutations that were
  rolled back once and validated later: their row keeps the older date
  (`GrowthStaleCooldown`).

## Bounds

| Bound | Why it is enough |
|---|---|
| two executions (`Runs`) | every hazard here is between a cycle and its successor, its retry or one competitor; nothing counts executions |
| one or two URLs | two are needed for a budget that spans targets, one for everything on a post |
| two or three values | with three, a field is changed twice to different values |
| `MaxPlan` 1 or 2, `MaxInterventions` 1 or 2 | one more than the budget of 1, so that the budget cuts the inner loop as well as the outer one |
| `Cooldown` 1 or 2, `MaxDay` up to 3 | both sides of the boundary `today - Cooldown` are reached |
| `Windows` {1}, `Lag` 1, `MaxDay` 3 | changes on the first and on later days, a window that ends before and after the day of the listing, with a nonzero lag; a day that passes between listing and measuring |
| `FirstDay` 2 (`Measure`) | before that day nothing is due, and a workflow lists nothing; two workflows can still be open together. The theorems hold for any first day |
| `Limit` 4 against 2 items | the listing is not cut: what a cut does to items that can be measured is described below |
| `StoredAs` | `Filtering` changes one value and lets pass what it makes of it; `Wavering` stores one value in two ways, one of which is another value of the instance |
| one late request per rollback | of two that land, the second decides what the post holds |
| `MaxVerdicts` 3 for 2 findings (`RunGate`) | two verdicts that contradict each other, with another between or after them |
| `MaxStarts` 2 | a repeated delivery after the first execution closed |
| `MaxDocs` 2, `MaxVerdicts` and `MaxFindings` 2, `MaxChosen` 2 (`AgentCalls`) | a good document before and after a bad one, a list that is longer than the output admits, a ranking of two |
| `MaxAttempts` 2 (`AgentCalls`) | as in the code |
| 4 messages, one sent twice; `MemoryLimit` 3, `ChiefFeedback` 1 | newer rows push older ones out of both cuts |
| 4 sites, `MaxSites` 3, 20 rows | a site beyond the maximum, one without a property between two with one, more rows than any role is shown |
| 2 slots | one race for the pool; `PoolsStayBounded` is proved for any number |

`RunContext` is explored under the state constraint `Quiet`: evidence is collected only
in behaviours in which no message arrives and the pool is idle, and the
other place of the worker does not move while a handler does. These parts share no
variable that the other one reads at that time: all that a run reads of feedback
it has read before it collects, each handler of the API opens a pool of its own, and
the properties are each about one of the parts, or, as `FactoredIn`, about the step that reads feedback, which is explored with all messages. The theorems
about the same properties assume no such constraint.

Symmetry is not used: the instances are small, and five of them check liveness
(`GrowthModes`, `RunRows`, `AgentCalls`, `Measure`, `MeasureText`).

## Fairness

`AutonomousGrowth` and `PortfolioRun` assume `WF_vars(Step(r))` of each execution:
every activity has `start_to_close_timeout` and a bounded number of attempts, so each
call ends in an answer or an exception, and Temporal hands an open execution to any
live worker. A crash and restart of a worker is covered by this: the history is
replayed, and the call that was running is one of the outcomes above. Nothing is
assumed of starting a growth cycle, the clock, the editor, the switches or any
fault. `AgentCalls` assumes `WF_vars(Next)`, for the same reason: its steps are requests
inside attempts that end by their timeout. `OutcomeMeasurement` also assumes
`WF_vars(StartMeasurement)`: the scheduler looks every 60 seconds, forever, and swallows
exceptions (`autonomous_scheduler.py:97-115`). Nothing makes `Tick` happen.
`ListedIsAnswered` is therefore about what a workflow has listed, and `DueIsMeasured`, which
`MeasureText` refutes, about what is due when no workflow of the day has been started yet.
`RunContext` states no liveness and assumes no fairness.

## Disagreements with the documents

Four runs are expected to find a violation. Each checks one property that a
document, comment or docstring of the repository promises.

| Run | What the code does | What is promised |
|---|---|---|
| `GrowthStaleCooldown` | the upsert keeps `applied_at` of an earlier attempt that was rolled back; a change validated today can be dated last week, and the URL is free again at once | `mutation_guard.py:18` "Reject recently changed URLs" |
| `GrowthRetriedCycle` | a failed Telegram notification fails a cycle whose changes are live; the retry spends the budget again | `autonomous_scheduler.py:30-32` "without creating duplicate successful work" |
| `RunSharedId` | verdicts are kept by `finding_id` although three specialists number independently; a verdict on one finding clears another | `README.md:82` |
| `MeasureText` | `applied_at` reaches the measuring activity as text, which it rejects: nothing is ever measured | `measurement.py:55` |

More of them came up and are not kept as runs; each can be seen by a small change of
a configuration.

* *A lost apply.* If the only attempt to apply is not answered although WordPress took
  the change, the change stays live without row, validation or rollback
  (`autonomous.py:211`; `SECURITY.md:16-17` asks for verification and a rollback path).
  Add `apply_lost` to `GrowthSettled`: `SiteMatchesLedger` is violated.
* *A false claim.* `VALIDATED` is stored but unacknowledged, the post is rolled back,
  and correcting the row fails: the row claims a change that is gone
  (`autonomous.py:253`; `SECURITY.md:30` names "false verification claims"). Add
  `record_fails` to `GrowthSettled`: `SiteMatchesLedger` and `ClaimsHaveReceipts` are
  both violated.
* *A rollback that changes nothing.* If WordPress makes of the original what it makes of the
  new value, the rollback leaves the change where it was, and it is recorded as rolled back.
  `SiteMatchesLedger` and `WritesAreGuarded` admit that, as they admit all that WordPress
  makes of what was sent back; take `StoredAs[Original]` out of
  `SiteMatchesLedger`, and `GrowthSettled` shows a filtered original live that was reported as
  ROLLED_BACK and recorded. Nothing reads back what the request of a rollback stored
  (`wordpress.py:240`), although `SECURITY.md:9` and `:16` require "deterministic stored-state
  and public-state verification" of write-capable activities.
* *STAGING.* This mode writes to the same sites without `ALLOW_PRODUCTION_WRITES`
  (`wordpress.py:163`; `README.md:75` "default hard gate"). Add `"STAGING"` to the
  modes of `GrowthModes`: `ProductionGate` is violated.
* *No lock.* Two cycles with different business IDs write one post at the same time
  (`SECURITY.md:13` requires an "exact object/site write lock"): with `Overlap = TRUE`
  two executions can be `Writing` the same post.
* *A finished run that failed.* A failed notification turns a `DONE` row into `FAILED`,
  and the run leaves the history (`portfolio.py:142`; `README.md:29`): `Notify` and
  then `Fail` in `RunRows`.
* *A repeated delivery.* An update that is delivered again after its run closed starts
  another run (`services/temporal.py:57`; `README.md:79` "Webhook retries are
  idempotent"): in `RunRows` an execution completes twice.
* *A stale snapshot.* The snapshot is read once per intervention. With
  `max_mutations_per_site` of 2 or more (`config.py:61` allows 5) a second mutation of
  the plan can be admitted although the first was just validated, when the row of the first
  kept an old date or the cooldown passed in between; its rollback restores the snapshot of
  before the first, which stays claimed. Set `MaxMutationsPerSite = 2` in
  `GrowthSettled`: `WritesAreGuarded` and `SiteMatchesLedger` are violated. The default
  of 1 makes it impossible, which is a theorem.
* *Feedback twice, and elsewhere.* A message whose handling failed after the insert is
  delivered again and inserted again (`main.py:156-163`; `README.md:79` and
  `SECURITY.md:22` ask for idempotent handling), and if a newer run matches the prefix by
  then, the second row is about that run.
* *A short reference that is none.* `telegram.py:31` documents that
  `portfolio-idem-a1b2` may be called `a1b2`; the search is by prefix of the whole ID
  (`ledger.py:97`), so that such a short form never matches: the reply is that no run
  was found.
* *One bad figure.* A row whose figure `float()` rejects raises outside the `try` block
  of its site (`evidence.py:214`): the attempt fails for all sites, and so does the next.
* *Slow probes.* Nine sites are asked three times each, one after the other, for up to 20
  seconds each, in an activity that has 2 minutes
  (`technical_evidence.py:50`). Two slow sites fail the run.
* *What the judge is given.* `prompts/__init__.py:125` says that it receives feedback and
  history; `_compact_context_for_role` gives it neither. `evidence_ids` and targets of
  its interventions are not compared with what exists. History is shown to the
  strategist and to the chief of staff, but not to the verifier that checks them.
* *Windows without a lag.* `evidence.py` ends its window yesterday, although the last days of
  Search Console are not final; outcomes wait `_FINALITY_LAG_DAYS` for that.
* *A listing that starves.* `list_due_measurements` is cut at 50 in the order of
  `applied_at`; items that can never be measured stay at its head (`outcomes.py:166`).
  No property covers this: the listings of the instances are not cut.
* *Memory of a change that was undone.* A row that said VALIDATED for the moment between the
  lost answer and the correction can be measured in it, at once if it kept an old date. The
  figures stay in the outcome memory (`outcomes.py:263`).

`MeasureText` in detail: `list_due_measurements` returns rows with a `datetime`, the
workflow passes each item on as `dict[str, Any]`, and neither `worker.py` nor
`autonomous_scheduler.py` sets a data converter; Temporal's default one encodes a
`datetime` as ISO text and has no type hint to decode it by. `DatesSurvive = TRUE`
describes the system with that repaired, which `Measure`
explores. What it says of stored figures is therefore about that
system, since today none are stored; `ListedIsAnswered` holds of both.

## Proofs

`AutonomousGrowthProofs` proves, for any number of executions, URLs, posts, sites,
values and days, for every set of faults, for everything WordPress may store of what it
is sent (`StoredAs`), and for executions that overlap:

| Theorem | Property |
|---|---|
| `TypeCorrect` | `TypeOK` |
| `BackupsStayClean` | `BackupClean`: a backup never holds the value its mutation writes |
| `BackupsAreReady` | `BackupReady`: who has written finds a backup |
| `RollbacksUndo` | `RollbackUndoes`: a rollback that is answered leaves what WordPress made of another value than the one it undoes |
| `BudgetIsKept` | `BudgetPerRun` |
| `DraftsStayDrafts` | `DraftNeverWrites` |

The constants are restricted only by the named assumptions of the modules, such as
`LedgerAssumption` and `GrowthAssumption`, which TLC evaluates in each run of the module.
They say what the constants are, nothing about the behaviour.

*Types.* `TypeOK` is not inductive: `Head` and `Tail` are applied to the lists of
interventions and mutations, and `Tail` of an empty sequence is no sequence. The
strengthening `LoopTypeInv` adds `LoopInv`: inside the outer loop there is a current
intervention, from the read on there is a snapshot, inside the inner loop there is a
current mutation, and **every mutation of the plan is about the current URL and
differs from the current snapshot**. The last part is what `IsNoop` gives and what
the next argument rests on. Lemmas `GotoStep`, `EndInterventionStep` and
`EndMutationStep` do the loop control once; `StepControl` cites them per action.

*Backups.* `BackupInv` is `BackupClean` and `BackupReady` together: a step that saves a
backup saves the snapshot, in which the field differs from the new value by
`LoopInv`, and a step that goes to `validate` has just saved one; no step deletes a
file. An overlapping execution with the same mutation may overwrite the file, but
only with another snapshot that is as clean. `RollbacksUndo` follows from one step:
the whole backup is sent back, and in the field it holds another value (`BackupClean`).

*Budget.* The property counts receipts; the code compares a counter. `BudgetInv` says
that the two agree for each site, that the counter is within the limit, and that it
is strictly below while a mutation is being worked on, which the guard at the head
of the inner loop establishes and no step in between disturbs. `CountedAppend` is
the arithmetic of one more receipt.

*Drafts.* `DraftsStayDrafts` strengthens the property by: a READ_ONLY execution never
has a target, so that it never enters the loop, and a DRAFT one leaves every
iteration at `Implement`.

`GuardedWriteProofs` and `GrowthClaimProofs` continue from there, again for any number of executions, URLs, posts, sites, values and days. What they need of the
environment is the assumption of each theorem:

| Theorem | Property | Assumption |
|---|---|---|
| `GrowthIsGuarded` | `WritesAreGuarded` | `SettledWrites`: no overlap, `MaxMutationsPerSite` 1, no fault but `gates`, `notify_fails`, and one of `record_fails` and `record_lost`; any `StoredAs` |
| `SitesMatchTheLedger` | `SiteMatchesLedger` | `SettledWrites` and `PassesOnce`: what WordPress stores is a function of what it is sent, and it lets pass what it has stored |
| `ClaimsAreReceipted` | `ClaimsHaveReceipts` | `RowsAreCorrected`: no `record_late`, and with `record_lost` neither `record_fails` nor `rollback_fails`; executions may overlap |
| `ProductionIsGated` | `ProductionGate` | `WritesAreGated`: no mode `STAGING`, no editor, no `apply_late`, no `rollback_late`; executions may overlap |
| `CyclesKeepOneBudget` | `CycleBudget` | no `notify_fails`; executions may overlap |
| `CooldownHolds` | `CooldownUnlessStale` | `TimelyRows`: no overlap, no `record_late` |

Each assumption that excludes a fault excludes one with which the property is false;
where that is a disagreement with a document it is listed above.

*Refinement.* `SettledInv` is what makes the code right: only one execution is open
(`Alone`), from the moment it is read until the post is changed the live post is its snapshot or what
WordPress made of that, the latter again after a rollback (`SnapshotFresh`), the backup of an open change is that
snapshot and what is about to be recorded is live (`ChangeKnown`), and nothing is
claimed before it is recorded (`NotYetClaimed`). With it, `StepRefines` maps `Apply` to
`Begin`, `Validate`, `RecordFails` and `Rollback` to `Work`, `Record`, `Rerecord` and
`RerecordFails` to `Close`, and every other step to a stutter. The budget of 1 is used
in one place: after a validated mutation the snapshot is not the post any more, and
only the exhausted budget keeps the next mutation from relying on it.

*Posts and ledger.* `SitesMatchTheLedger` is proved about the steps of
`GuardedWrite` and carried over by the refinement. `SiteInv` says that a post
without an open change is accounted for by the claims, and that what an open change would
restore is accounted for by the claims without its own.

*Receipts.* A claim has a receipt, or it is that of a change under way that will correct
it; a `VALIDATED` receipt is never withdrawn, because nobody works on a mutation
that is claimed.

*Pace.* `CycleInv`: an execution that failed did so before it began, hence only one
execution of a cycle has receipts. `CoolInv`: a receipt is backed by a row that is not
younger than it, and while a mutation is worked on all other claims of its URL are past
the cooldown: the guard looked before, and with one execution at a time nobody changed the
table since.

`PortfolioRunProofs` proves `PortfolioTypeCorrect` (`TypeOK`), `OnlyGroundedChosen`
(`GroundedOnly`, if no two findings share an ID, `UniqueIds`; `RunSharedId` shows why),
`FinishedRunsAreComplete` (`ResultsComplete`, without any assumption: row and late updates
say that a run is finished only after all agents were recorded, `ProgressInv`)
and `RowsTellOutcomes` (`RowTellsOutcome`, if the updates of the row itself are
answered, `RowsAnswered`). The merge takes the last verdict on an ID; that there is a last
one is a lemma of `PositionProofs`.

`RunContextProofs` needs no assumption on faults and not the constraint of the run.

| Theorem | Property | Argument |
|---|---|---|
| `ContextTypeCorrect` | `TypeOK` | each component from its own invariant; the run adds what it reads out of the tables (`HistoryType`) |
| `PoolsStayBounded` | `PoolsBounded` | who opens a pool looked before there was one (`PoolInv`) |
| `ComparisonsAreFair` | `ComparisonIsFair` | all records have the windows of the date that the attempt read (`WindowsInv`) |
| `VerifiersCanLookUp` | `VerifierCanLookUp` | by role and kind: the verifier's kinds are all, and its limit is no smaller; only records of evidence are shown (`CollectInv`) |
| `SitesStayIsolated` | `SitesIsolated` | `SitesInv`: the attempt has answered for the sites that it is past and left nothing of the others, from the reset at its beginning to its end |
| `FeedbackIsNotLost` | `NothingLost` | a handler that is about to reply has inserted the row that it will speak of (`FeedbackInv`) |
| `FeedbackIsFactoredIn` | `FactoredIn` | from that and from lemmas on what reversing and cutting a sequence leaves |

`SitesStayIsolated` alone assumes something, `DistinctSites`: no site is listed
twice. It is true of the registry in `prompts/portfolio_context.py:10`;
`load_portfolio_sites` does not reject a `PORTFOLIO_SITES_JSON` that repeats a site, and
then the site may be named in the errors for one of its entries and have records for the
other.

`AgentCallsProofs` proves the safety properties of `AgentCalls` for any documents that models
may write, of any length and in any number, any proposals of the judge, any number of
attempts and any token counts; the run has two documents of an answer and a handful of
words. The constants are restricted by `CallsAssumption`: documents are documents, and what
the verifier writes *of its own* is no report. A copy of the report that it was shown it may
write at any time.

| Theorem | Property |
|---|---|
| `AgentTypes` | `TypeOK`: among others, no list exceeds its schema, no attempt the last, no call two answers |
| `VerdictsWhole` | `VerdictsAreWhole` |
| `EchoClearsNothing` | `EchoGroundsNothing` |
| `TokensAreCounted` | `TokensCounted` |
| `BetterIsAhead` | `NoDominatedAhead` |

*The parser.* `ValuesOf` says which values begin at the brackets of a document: the document
and its list if it is not cut, and otherwise only values without a list. With it,
`VerdictsFrom` says that a verdict that any document yields comes from a list that is
whole, in which every word is known; the parser's two searches for a first success
(`FromOneValue`, `FromOneDocument`) add nothing to that.

*Clearing.* `ClearedInv` has two halves. Until the verifier has returned, there are no
verdicts and every finding is `UNVERIFIED`, which is what `_force_unverified` is for. When the
judge's turn comes, nothing is eligible without verdicts, and the verdicts in force are one
whole document among the recorded answers (`InForce`). The step between the two is
`OwnDocument`: a copy of the specialist results consists of the word `UNVERIFIED`, which is no
alias of a verdict (`CanonicalTypes`), so that its list is not understood.

*Tokens.* `_sum_usage` adds two counts of which either may be missing; the property speaks
of the sum over all answers of the attempt that report one. An attempt has at most two
answers, `OnlyElement` and `TypesInv`, so the library's sum is unfolded at most twice
(`SumUnfolds`, `SumOverOne`, `SumOverTwo`) and no induction is needed.

*Ranking.* A place of the ranking is given to the proposal with as many others ahead of it as
there are places before. That every place is taken by one is a counting argument
(`PlacesTaken`: distinct proposals have distinct numbers ahead of them, hence all numbers
occur). The score is monotonic through the products, the division and the rounding
(`ProductOrder`, `RoundedOrder`, `ScoreOrder`).

`OutcomeMeasurementProofs` proves `MeasurementTypeCorrect`, `PeriodsAreFinal`,
`MeasuredUnlessWithdrawn` and `PeriodsFollowChanges` from one invariant, `MeasureInv`: rows
of mutations that were never rolled back are validated and bear the date of the change; an item
is about a row with its date, validated or corrected after its answer was lost, and a period
that is over; and stored figures are about the days after the date of such a row.

Model-checked only: `RunsClose`, `RowsSettle`, `CallsEnd` and `ListedIsAnswered`. They are
liveness under fairness, which is out of the prover's reach. Every other property
of a passing run is proved, and the violated ones are refuted by TLC. `PositionProofs`
holds what several proofs need of finite sets of positions: a first and a last one, and that
a function defined step by step along an interval exists (`IterationExists`, used for
`DoneRuns`).

## What is not modelled

* What models write, beyond its shape: prompts, texts, reasons, the halved confidence
  of `PARTIAL` findings, which changes what a model reads and no step of the code.
* Search Console figures, deltas and totals; contents of posts beyond title and body, post
  status, hashes and timestamps of receipts, telemetry but for tokens, wording of messages.
* `responses_compatible.py` beyond a request that succeeds with any plan or fails; the mock
  adapter and the provider smoke test, which no workflow uses.
* The validation of settings, which runs once before anything starts, and the three
  read-only endpoints.
* A portfolio in which no site has a hostname (`technical_evidence.py:42` skips such a site;
  `RunContext` needs one that is probed).
* Brackets of a document that is cut off after its list was complete: `ModelAnswers` has the
  list on its own for it, as what the parser finds in both is the same.
* Cancelling or terminating a workflow by hand.
* Host administration (`scripts/`), images, compose files.
* Growth, portfolio and measurement are composed by what they leave for each other (the
  outcome of the child, the rows of the ledger) and not as one state machine: the growth
  workflow takes any interventions, hence also those that a real child returns, and the
  measurement any sequence of rows that the guards admit. A
  property that spans all three, such as "a live change goes back to a cleared finding", holds by
  `GroundedOnly` only as far as the implementer keeps to its intervention, which the code
  checks by the target URL alone.
* Overlapping cycles are checked for what holds with them; a property that two cycles
  violate by working on one post is stated for cycles in turn only.
