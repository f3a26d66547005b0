---------------------------- MODULE FeedbackLoop ----------------------------
(***************************************************************************)
(* How operators' verdicts get into the table intervention_feedback: by    *)
(* /feedback messages that Telegram delivers to the webhook, and by the     *)
(* endpoint POST /v1/runs/{run_id}/feedback (api/main.py, services/         *)
(* telegram.py, services/ledger.py).  An update is one such message; an     *)
(* attempt is one HTTP request that carries it.  Telegram sends an update   *)
(* again when the request failed, or when it was tired of waiting while the *)
(* handler went on; a client of the endpoint may do the same.               *)
(*                                                                         *)
(* An operator whose name has a suffix, as in AfterError_Accepted, is a wrong      *)
(* version of the operator without it; no action uses it.                   *)
(***************************************************************************)
EXTENDS Naturals, Sequences, FiniteSets, SequencesExt

CONSTANTS
    RunIds,    \* run IDs
    Updates,   \* messages
    Reception, \* how each is received, see Receptions
    Matching,  \* runs that the reference in each message is a prefix of
    Tries,     \* bound: attempts of each update
    NoRun,
    FeedbackFaults

Receptions ==
    { "webhook",   \* a /feedback command of an allowed user
      "api",       \* a well-formed request to the endpoint, with a full run ID
      "malformed", \* neither command parses, or the endpoint answers 422
      "stranger" } \* wrong secret, or a user that is not allowed: 403

FeedbackFaultKinds ==
    { "db_fails",    \* the database does not answer
      "insert_lost", \* the row is inserted, and the database does not answer
      "reply_fails", \* sendMessage raises, and the message did not go out
      "reply_lost",  \* it raises, although the message did go out
      "impatient" }  \* a request times out while its handler goes on

Attempts == UNION {{u} \X (1..Tries[u]) : u \in Updates}

ASSUME FeedbackAssumption ==
    /\ Reception \in [Updates -> Receptions]
    /\ Matching \in [Updates -> SUBSET RunIds]
    /\ Tries \in [Updates -> Nat \ {0}]
    /\ NoRun \notin RunIds
    /\ FeedbackFaults \subseteq FeedbackFaultKinds

VARIABLES
    runs,     \* the rows of table runs in the order of created_at
    feedback, \* the rows of intervention_feedback in the order of created_at
    handler,  \* what the handler of each attempt does next
    found,    \* matched_run_id
    told,     \* replies "Feedback recorded for" that went out: update and run
    kept      \* updates that will not be sent again, by the reason

feedbackVars == <<runs, feedback, handler, found, told, kept>>

Ended == {"answered", "failed"}

FeedbackTypeOK ==
    /\ runs \in Seq(RunIds)
    /\ feedback \in Seq([run: RunIds, update: Updates])
    /\ handler \in [Attempts -> {"none", "find", "sorry", "insert", "reply"} \cup Ended]
    /\ found \in [Attempts -> RunIds \cup {NoRun}]
    /\ told \subseteq Updates \X RunIds
    /\ kept \in [Updates -> {"no", "recorded", "refused", "ignored"}]

FeedbackInit(earlier) ==
    /\ runs = earlier
    /\ feedback = <<>>
    /\ handler = [a \in Attempts |-> "none"]
    /\ found = [a \in Attempts |-> NoRun]
    /\ told = {}
    /\ kept = [u \in Updates |-> "no"]
-----------------------------------------------------------------------------
Goto(a, stage) == handler' = [handler EXCEPT ![a] = stage]

\* The answer of attempt a, if the sender still listens to that attempt.
Keep(a, reason) ==
    kept' = [kept EXCEPT ![a[1]] =
        IF \E i \in 1..Tries[a[1]] : i > a[2] /\ handler[<<a[1], i>>] # "none" THEN @ ELSE reason]

\* A request arrives.  Secret, allow-list and the parsing of the command come
\* before any I/O.
Receive(u, i) ==
    /\ kept[u] = "no"
    /\ handler[<<u, i>>] = "none"
    /\ i > 1 => \/ handler[<<u, i - 1>>] = "failed"
                \/ "impatient" \in FeedbackFaults /\ handler[<<u, i - 1>>] # "none"
    /\ \/ Reception[u] = "stranger" /\ Goto(<<u, i>>, "failed") /\ UNCHANGED kept
       \/ Reception[u] = "malformed" /\ Goto(<<u, i>>, "answered") /\ Keep(<<u, i>>, "ignored")
       \/ /\ Reception[u] \in {"webhook", "api"}
          /\ Goto(<<u, i>>, "find")
          /\ UNCHANGED kept
    /\ UNCHANGED <<runs, feedback, found, told>>

\* LIKE prefix || '%' ORDER BY created_at DESC LIMIT 1, or the exact ID.
Newest(S) ==
    LET hits == {i \in DOMAIN runs : runs[i] \in S}
    IN  IF hits = {} THEN NoRun ELSE runs[Max(hits)]

AfterSearch_Blind(a, r) == Goto(a, "insert") /\ UNCHANGED kept

\* The bot answers that no run matches, the endpoint with status 404.
AfterSearch(a, r) ==
    \/ r # NoRun /\ Goto(a, "insert") /\ UNCHANGED kept
    \/ r = NoRun /\ Reception[a[1]] = "webhook" /\ Goto(a, "sorry") /\ UNCHANGED kept
    \/ r = NoRun /\ Reception[a[1]] = "api" /\ Goto(a, "answered") /\ Keep(a, "refused")

FindRun(a) ==
    /\ handler[a] = "find"
    /\ found' = [found EXCEPT ![a] = Newest(Matching[a[1]])]
    /\ AfterSearch(a, found'[a])
    /\ UNCHANGED <<runs, feedback, told>>

\* The reply that no run matches is sent before the handler returns.
Apologise(a) ==
    /\ handler[a] = "sorry"
    /\ Goto(a, "answered") /\ Keep(a, "refused")
    /\ UNCHANGED <<runs, feedback, found, told>>

AddRow(a) == feedback' = Append(feedback, [run |-> found[a], update |-> a[1]])

\* record_feedback, a plain INSERT, and then the pool of this request is closed.
Insert(a) ==
    /\ handler[a] = "insert"
    /\ AddRow(a)
    /\ \/ Reception[a[1]] = "webhook" /\ Goto(a, "reply") /\ UNCHANGED kept
       \/ Reception[a[1]] = "api" /\ Goto(a, "answered") /\ Keep(a, "recorded")
    /\ UNCHANGED <<runs, found, told>>

AfterError_Accepted(a) == Goto(a, "answered") /\ Keep(a, "recorded")

\* Nothing is caught: the request ends with status 500.
AfterError(a) == Goto(a, "failed") /\ UNCHANGED kept

DatabaseFails(a) ==
    /\ \/ "db_fails" \in FeedbackFaults /\ handler[a] \in {"find", "insert"} /\ UNCHANGED feedback
       \/ "insert_lost" \in FeedbackFaults /\ handler[a] = "insert" /\ AddRow(a)
    /\ AfterError(a)
    /\ UNCHANGED <<runs, found, told>>

Reply(a) ==
    /\ handler[a] = "reply"
    /\ told' = told \cup {<<a[1], found[a]>>}
    /\ Goto(a, "answered") /\ Keep(a, "recorded")
    /\ UNCHANGED <<runs, feedback, found>>

ReplyFails(a) ==
    /\ \/ "reply_fails" \in FeedbackFaults /\ handler[a] \in {"sorry", "reply"}
          /\ UNCHANGED told
       \/ "reply_lost" \in FeedbackFaults /\ handler[a] = "reply"
          /\ told' = told \cup {<<a[1], found[a]>>}
    /\ Goto(a, "failed")
    /\ UNCHANGED <<runs, feedback, found, kept>>

FeedbackStep(a) ==
    \/ Receive(a[1], a[2]) \/ FindRun(a) \/ Apologise(a) \/ Insert(a)
    \/ DatabaseFails(a) \/ Reply(a) \/ ReplyFails(a)

\* ledger_create_run of a run that has no row yet.
AddRun(r) ==
    /\ runs' = IF r \in Range(runs) THEN runs ELSE Append(runs, r)
    /\ UNCHANGED <<feedback, handler, found, told, kept>>
-----------------------------------------------------------------------------
RecentFeedback_Oldest(n) == SubSeq(feedback, 1, Min({n, Len(feedback)}))

\* ledger.recent_feedback: ORDER BY created_at DESC LIMIT n.
RecentFeedback(n) == SubSeq(Reverse(feedback), 1, Min({n, Len(feedback)}))

RowsOf(u) == {i \in DOMAIN feedback : feedback[i].update = u}

\* An update that will not be sent again is not lost: it is in the table, or its
\* sender was told that it is not, or it was no command at all (main.py:141-166).
\* What the operator was told is what is in the table.
NothingLost ==
    /\ \A u \in Updates : kept[u] = "recorded" => RowsOf(u) # {}
    /\ \A x \in told : \E i \in RowsOf(x[1]) : feedback[i].run = x[2]
=============================================================================
