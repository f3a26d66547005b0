----------------------------- MODULE AgentCalls -----------------------------
(***************************************************************************)
(* The calls of one run that lead from a specialist's findings to ranked    *)
(* interventions: run_specialist, run_verifier and run_judge (activities/   *)
(* agents.py) with their adapters (models/), their retries, and the merge   *)
(* of the verdicts (workflows/portfolio.py:278-328).  PortfolioRun knows    *)
(* them as single steps with any result; here a call is up to MaxAttempts   *)
(* attempts of the activity, and an attempt is one request to the provider  *)
(* and, for the OpenAI-compatible adapter, at most one more that asks to    *)
(* repair the answer.  An attempt that times out gives up its answers.      *)
(***************************************************************************)
EXTENDS ModelAnswers, DecisionScore

CONSTANTS
    Findings,    \* names of findings
    Documents,   \* the JSON documents that each model writes of its own
    MaxDocs,     \* bound: documents in one answer
    Options,     \* the interventions that the judge may propose
    MaxChosen,   \* most of them, 3 in the code
    MaxAttempts, \* of an activity, 2 in the code
    Usages,      \* what providers report of the tokens of a request
    NoUsage      \* nothing reported

Roles == {"diagnostician", "verifier", "judge"}

ASSUME CallsAssumption ==
    /\ Documents["diagnostician"] \cup Documents["verifier"] \subseteq Document(Findings)
    /\ \A d \in Documents["verifier"] : d.shape # "report"
    /\ Options \subseteq Estimates
    /\ {MaxDocs, MaxChosen} \subseteq Nat
    /\ MaxAttempts \in Nat \ {0}
    /\ Usages \subseteq Nat \cup {NoUsage}
    /\ NoUsage \notin Nat

VARIABLES
    turn,     \* the role whose activity is running
    attempt,  \* its attempt
    heard,    \* the answers of this attempt
    findings, \* the specialist's findings and their stamps, in the workflow
    verdicts, \* the verifier's output
    ranking,  \* the judge's output, in the order of rank
    tokens,   \* total_tokens of the telemetry of the last call that returned
    said      \* the answers of its attempt; the documents of the verifier only

vars == <<turn, attempt, heard, findings, verdicts, ranking, tokens, said>>

Verdict == [finding: Findings, verdict: Stamps]

TypeOK ==
    /\ turn \in Roles \cup {"over", "failed"}
    /\ attempt \in 1..MaxAttempts
    /\ Len(heard) <= 1
    /\ findings \in Seq(Verdict) /\ Len(findings) <= MaxFindings
    /\ verdicts \in Seq(Verdict) /\ Len(verdicts) <= MaxVerdicts
    /\ ranking \in Seq(Options) /\ Len(ranking) <= MaxChosen
    /\ tokens \in Nat \cup {NoUsage}
    /\ Len(said) <= 2

Init ==
    /\ turn = "diagnostician" /\ attempt = 1 /\ heard = <<>>
    /\ findings = <<>> /\ verdicts = <<>> /\ ranking = <<>>
    /\ tokens = NoUsage /\ said = <<>>

\* _eligible_specialist_results.
Eligible == {i \in DOMAIN findings : findings[i].verdict \in {"GROUNDED", "PARTIAL"}}
-----------------------------------------------------------------------------
(***************************************************************************)
(* Requests and attempts.                                                  *)
(***************************************************************************)
\* The specialist results as they stand in the prompt of the verifier.
Echo ==
    [ shape |-> "report", cut |-> FALSE,
      items |-> [i \in DOMAIN findings |->
                    [finding |-> findings[i].finding, word |-> findings[i].verdict]] ]

\* What a model may write: documents of its own, or a copy of what it was shown.
Answers(role) ==
    LET docs == Documents[role] \cup IF role = "verifier" THEN {Echo} ELSE {}
    IN  UNION {[1..n -> docs] : n \in 0..MaxDocs}

\* _sum_usage.
Sum_Last(first, second) == second

Sum(first, second) ==
    IF NoUsage \notin {first, second} THEN first + second
    ELSE IF first = NoUsage THEN second ELSE first

\* The activity returns, after one more answer.
Returns(answer, next) ==
    /\ tokens' = IF heard = <<>> THEN answer.usage ELSE Sum(heard[1].usage, answer.usage)
    /\ said' = Append(heard, answer)
    /\ turn' = next /\ attempt' = 1 /\ heard' = <<>>

\* The next turn when no attempt of a role succeeded.  A specialist without a
\* result has no findings, a verifier without one leaves them as they are.
AfterFailure(role) ==
    CASE role = "diagnostician" -> "verifier" [] role = "verifier" -> "judge" [] OTHER -> "failed"

AttemptFails_Unlimited ==
    /\ heard' = <<>>
    /\ UNCHANGED <<turn, attempt, findings, verdicts, ranking, tokens, said>>

AttemptFails ==
    /\ heard' = <<>>
    /\ IF attempt < MaxAttempts
       THEN attempt' = attempt + 1 /\ UNCHANGED <<turn, tokens, said>>
       ELSE attempt' = 1 /\ turn' = AfterFailure(turn) /\ tokens' = NoUsage /\ said' = <<>>
    /\ UNCHANGED <<findings, verdicts, ranking>>

\* An HTTP error, a response without a message, or a timeout of the request or of
\* the whole attempt, which may come while the repair is under way.
RequestFails ==
    /\ turn \in Roles /\ (turn = "judge" => Eligible # {})
    /\ AttemptFails

\* The answer does not parse: it is asked for again, once.
AskRepair(answer) ==
    /\ heard' = <<answer>>
    /\ UNCHANGED <<turn, attempt, findings, verdicts, ranking, tokens, said>>
-----------------------------------------------------------------------------
(***************************************************************************)
(* The three activities.                                                   *)
(***************************************************************************)
ForceUnverified_Trusts(list) == list

\* Only the verifier grounds a finding.
ForceUnverified(list) ==
    [i \in DOMAIN list |-> [list[i] EXCEPT !.verdict = "UNVERIFIED"]]

RunSpecialist ==
    /\ turn = "diagnostician"
    /\ \E docs \in Answers(turn), usage \in Usages :
          LET answer == [docs |-> <<>>, usage |-> usage]
              output == Parsed(turn, docs)
          IN  \/ \E list \in output :
                    /\ findings' = ForceUnverified(list)
                    /\ Returns(answer, "verifier")
                    /\ UNCHANGED <<verdicts, ranking>>
              \/ output = {} /\ heard = <<>> /\ AskRepair(answer)
              \/ output = {} /\ heard # <<>> /\ AttemptFails

\* by_finding: the last verdict on a finding is the one that counts.
Stamped(list) ==
    [i \in DOMAIN findings |->
        LET about == {n \in DOMAIN list : list[n].finding = findings[i].finding}
        IN  IF about = {} THEN findings[i] ELSE list[Max(about)]]

VerifierReturns(list, answer) ==
    /\ verdicts' = list
    /\ findings' = Stamped(list)
    /\ Returns(answer, "judge")
    /\ UNCHANGED ranking

\* An answer that could not be repaired is no verdict, not a failure.
RunVerifier ==
    /\ turn = "verifier"
    /\ \E docs \in Answers(turn), usage \in Usages :
          LET answer == [docs |-> docs, usage |-> usage]
              output == Parsed(turn, docs)
          IN  \/ \E list \in output : VerifierReturns(list, answer)
              \/ output = {} /\ heard = <<>> /\ AskRepair(answer)
              \/ output = {} /\ heard # <<>> /\ VerifierReturns(<<>>, answer)

\* Nothing is eligible: the judge is not asked, and its telemetry says so.
JudgeSpared ==
    /\ turn = "judge" /\ Eligible = {}
    /\ tokens' = 0 /\ said' = <<>>
    /\ turn' = "over"
    /\ UNCHANGED <<attempt, heard, findings, verdicts, ranking>>

\* The Responses API returns interventions with contiguous ranks, or the request
\* has failed.  The score is computed and the ranks are given anew.
RunJudge ==
    /\ turn = "judge" /\ Eligible # {}
    /\ \E n \in 0..MaxChosen : \E es \in [1..n -> Options], usage \in Usages :
          /\ ranking' = Ranked(es)
          /\ Returns([docs |-> <<>>, usage |-> usage], "over")
    /\ UNCHANGED <<findings, verdicts>>

Next == RequestFails \/ RunSpecialist \/ RunVerifier \/ JudgeSpared \/ RunJudge

\* Every attempt ends: activities have a start_to_close_timeout.
Spec == Init /\ [][Next]_vars /\ WF_vars(Next)
-----------------------------------------------------------------------------
(***************************************************************************)
(* Properties.                                                             *)
(***************************************************************************)
\* The documents that the verifier wrote, once its call has returned.
VerifierDocs == UNION {Range(said[n].docs) : n \in DOMAIN said}

\* Verdicts come from one list that arrived whole and was understood whole: words
\* nobody knows, an answer that broke off or a second list never leave a part of
\* a list in force (verifier_normalization.py:20-25, openai_compatible.py:168).
VerdictsAreWhole ==
    turn = "judge" /\ verdicts # <<>> =>
        \E d \in VerifierDocs :
            /\ ~d.cut /\ Len(d.items) = Len(verdicts)
            /\ \A i \in DOMAIN verdicts :
                  /\ d.items[i].finding = verdicts[i].finding
                  /\ Known(d.items[i])
                  /\ Canonical[d.items[i].word] = verdicts[i].verdict

\* A verifier that repeats the specialist results it was shown clears nothing:
\* the list of a report is called findings, which the normalisation takes for a
\* list of verdicts (verifier_normalization.py:33), and only agents.py:141 keeps
\* the specialist's own word out of it.
EchoGroundsNothing ==
    turn = "judge" /\ Eligible # {} =>
        \E d \in VerifierDocs : d.shape # "report" /\ d.items # <<>>

\* The recorded tokens of a call are those of all requests of the attempt that
\* succeeded, the repair included (openai_compatible.py:94).
TokensCounted ==
    LET reported == {n \in DOMAIN said : said[n].usage # NoUsage}
    IN  said # <<>> =>
            tokens = IF reported = {} THEN NoUsage
                     ELSE SumFunctionOnSet([n \in reported |-> said[n].usage], reported)

\* An intervention that is at least as good as another in every respect is not
\* ranked behind it, unless their scores round to the same (scoring.py:39-42).
NoDominatedAhead ==
    \A i, j \in DOMAIN ranking :
        i < j /\ Dominates(ranking[j], ranking[i]) => Score(ranking[i]) = Score(ranking[j])

\* Agents that fail, time out or answer nonsense for ever do not keep a run from
\* ending (portfolio.py:73-74).
CallsEnd == <>(turn \in {"over", "failed"})
=============================================================================
