---------------------------- MODULE MCRunContext ----------------------------
(***************************************************************************)
(* A small instance of RunContext: one earlier run, feedback by the bot and *)
(* by the endpoint, four sites of which one has no property and one is cut, *)
(* and one other place of the worker.                                      *)
(***************************************************************************)
EXTENDS RunContext

CONSTANTS a, b, w, p, m, x, s1, s2, s3, s4, here, there

Received == [u \in Updates |-> IF u = w THEN "webhook" ELSE IF u = p THEN "api"
                               ELSE IF u = m THEN "malformed" ELSE "stranger"]

\* Some references are a prefix of both run IDs, and the short forms documented
\* for a scheduled run are one of none.
References == [u \in Updates |-> IF u = w THEN {a, b} ELSE IF u = p THEN {b} ELSE {}]

\* Only the bot is sent the same message again.
Retries == [u \in Updates |-> IF u = w THEN 2 ELSE 1]

FourSites  == <<s1, s2, s3, s4>>
EarlierRun == <<a>>

\* What makes no difference to each other need not be combined: the evidence is
\* collected in a run that no feedback reaches, since all that this run reads of
\* feedback it has read before, and the other place of the worker is idle while a
\* handler, which has a pool of its own, is at work.
Quiet ==
    /\ gsc # "idle" => /\ \A h \in Attempts : handler[h] = "none"
                       /\ \A s \in Slots : at[s] = "idle"
    /\ at[there] # "idle" => \A h \in Attempts : handler[h] \in {"none"} \cup Ended
=============================================================================
