------------------------- MODULE EvidenceCollection -------------------------
(***************************************************************************)
(* The two evidence activities of one portfolio run (activities/evidence.py *)
(* and technical_evidence.py), which _build_context awaits together.        *)
(*                                                                         *)
(* For a site with a Search Console property three queries run together:    *)
(* the pages of the current window, the pages of the one before, and the    *)
(* search queries of the current one.  Of their rows only the number is     *)
(* kept, since every later cut takes a prefix.                             *)
(*                                                                         *)
(* An operator whose name has a suffix, as in SiteRecords_Clock, is a wrong    *)
(* version of the operator without it; no action uses it.                  *)
(***************************************************************************)
EXTENDS Integers, Sequences, FiniteSets

CONSTANTS
    Portfolio,   \* the sites of load_context_config, in order
    HasProperty, \* those with a gsc_property
    HasHostname, \* those with a hostname under the key site
    MaxSites,    \* gsc_max_sites_per_run
    Lookback,    \* gsc_lookback_days
    RowCounts,   \* how many rows a query may return
    MaxDay,      \* bound: the last day
    EvidenceFaults

EvidenceFaultKinds ==
    { "query_fails", \* an HTTP error, or an answer that is no JSON object
      "bad_number",  \* a row with a figure that float() rejects
      "no_account",  \* the Search Console connector is not configured
      "gsc_fails",   \* no access token, or the attempt runs out of time
      "probe_slow" } \* both attempts to probe all the sites run out of time

Kinds == {"search_performance_summary", "top_pages", "top_queries", "technical_health"}

Sites == {Portfolio[i] : i \in DOMAIN Portfolio}

\* sites[:gsc_max_sites_per_run], by position.
Selected == {i \in DOMAIN Portfolio : i <= MaxSites}

ASSUME EvidenceAssumption ==
    /\ Portfolio \in Seq(Sites)
    /\ HasProperty \subseteq Sites
    /\ HasHostname \in SUBSET Sites \ {{}}
    /\ {MaxSites, Lookback} \subseteq Nat \ {0}
    /\ MaxDay \in Nat
    /\ RowCounts \subseteq Nat
    /\ EvidenceFaults \subseteq EvidenceFaultKinds

VARIABLES
    day,      \* the clock, in UTC days
    gsc,      \* what collect_gsc_evidence does next
    tries,    \* its attempts
    today,    \* its local variables: the date it read,
    position, \* the site it is at,
    records,  \* evidence,
    errors,   \* and errors, by the site they name
    probes    \* the evidence of collect_technical_evidence

evidenceVars == <<day, gsc, tries, today, position, records, errors, probes>>

\* before is the first day of the window that a summary compares with.
Records == [site: Sites, kind: Kinds, rows: Nat, first: Int, last: Int, before: Int]

EvidenceTypeOK ==
    /\ day \in 0..MaxDay
    /\ today \in 0..MaxDay
    /\ gsc \in {"idle", "sites", "done", "failed"}
    /\ tries \in 0..2
    /\ position \in Nat
    /\ records \subseteq Records
    /\ errors \subseteq Sites
    /\ probes \subseteq Records

EvidenceInit ==
    /\ day = 0
    /\ gsc = "idle"
    /\ tries = 0
    /\ today = 0
    /\ position = 1
    /\ records = {}
    /\ errors = {}
    /\ probes = {}
-----------------------------------------------------------------------------
CurrentEnd(t)   == t - 1
CurrentStart(t) == CurrentEnd(t) - (Lookback - 1)

PreviousStart(t) == CurrentStart(t) - 1 - (Lookback - 1)

\* The three records of a site with the windows of date t.
RecordsOn(t, s, pages, queries) ==
    {[site |-> s, kind |-> x[1], rows |-> x[2],
      first |-> CurrentStart(t), last |-> CurrentEnd(t), before |-> PreviousStart(t)] :
        x \in {<<"search_performance_summary", 0>>, <<"top_pages", pages>>,
               <<"top_queries", queries>>}}

SiteRecords_Clock(s, pages, queries) == RecordsOn(day, s, pages, queries)

\* All sites have the windows of the date that the attempt has read first.
SiteRecords(s, pages, queries) == RecordsOn(today, s, pages, queries)

\* An attempt starts with empty lists and reads the date.
Attempt ==
    /\ gsc' = "sites"
    /\ tries' = tries + 1
    /\ today' = day
    /\ position' = 1
    /\ records' = {}
    /\ errors' = {}

\* maximum_attempts=2: whatever the first attempt had collected is collected again.
AttemptFails ==
    \/ tries < 2 /\ Attempt
    \/ tries = 2 /\ gsc' = "failed" /\ UNCHANGED <<tries, today, position, records, errors>>

BeginCollect ==
    /\ gsc = "idle"
    /\ Attempt
    /\ UNCHANGED <<day, probes>>

\* GSC_SERVICE_ACCOUNT_FILE is not configured: no evidence, and no error.
Disabled ==
    /\ gsc = "idle" /\ "no_account" \in EvidenceFaults
    /\ gsc' = "done"
    /\ UNCHANGED <<day, tries, today, position, records, errors, probes>>

\* The next iteration of the loop over the selected sites.
NextSite == position' = position + 1 /\ UNCHANGED gsc

AfterSiteError_Stops ==
    /\ errors' = errors \cup {Portfolio[position]}
    /\ position' = Len(Portfolio) + 1
    /\ UNCHANGED <<gsc, tries, today, records>>

\* The error is noted and the loop goes on.
AfterSiteError ==
    /\ errors' = errors \cup {Portfolio[position]}
    /\ NextSite
    /\ UNCHANGED <<tries, today, records>>

CollectSite ==
    /\ gsc = "sites" /\ position \in Selected
    /\ LET s == Portfolio[position]
       IN  \/ s \notin HasProperty /\ AfterSiteError
           \/ s \in HasProperty /\ "query_fails" \in EvidenceFaults /\ AfterSiteError
           \/ /\ s \in HasProperty
              /\ \E pages, queries \in RowCounts :
                    records' = records \cup SiteRecords(s, pages, queries)
              /\ NextSite
              /\ UNCHANGED <<tries, today, errors>>
           \* The rows are converted behind the try block.
           \/ s \in HasProperty /\ "bad_number" \in EvidenceFaults /\ AttemptFails
    /\ UNCHANGED <<day, probes>>

CollectFails ==
    /\ gsc = "sites" /\ "gsc_fails" \in EvidenceFaults
    /\ AttemptFails
    /\ UNCHANGED <<day, probes>>

CollectEnds ==
    /\ gsc = "sites" /\ position \notin Selected
    /\ gsc' = "done"
    /\ UNCHANGED <<day, tries, today, position, records, errors, probes>>

\* One record for each site that has a hostname; a probe that fails is part of it.
Probe ==
    /\ gsc # "idle" /\ probes = {}
    /\ probes' = {[site |-> s, kind |-> "technical_health", rows |-> 0,
                   first |-> 0, last |-> 0, before |-> 0] : s \in HasHostname}
    /\ UNCHANGED <<day, gsc, tries, today, position, records, errors>>

Midnight ==
    /\ day < MaxDay
    /\ day' = day + 1
    /\ UNCHANGED <<gsc, tries, today, position, records, errors, probes>>

EvidenceStep == BeginCollect \/ Disabled \/ CollectSite \/ CollectFails \/ CollectEnds \/ Probe

\* asyncio.gather of the two activities has returned.
Collected == gsc = "done" /\ probes # {}
-----------------------------------------------------------------------------
Of(s) == {e \in records : e.site = s}

\* A selected site whose connector worked has its three records, and one whose
\* connector did not is named in the errors, whatever happened at the sites before
\* it and in an earlier attempt (evidence.py:174-212).
SitesIsolated ==
    gsc = "done" /\ tries > 0 =>
        \A i \in Selected :
            IF Portfolio[i] \in errors THEN Of(Portfolio[i]) = {}
            ELSE {e.kind : e \in Of(Portfolio[i])} = Kinds \ {"technical_health"}

\* All sites of one result are compared over the same two windows, of equal
\* length, without a gap or a common day, and over before the attempt began, also
\* when it goes on past midnight or is repeated the next day (evidence.py:162-166).
ComparisonIsFair ==
    \A e, f \in records :
        /\ e.first = f.first /\ e.last = f.last /\ e.before = f.before
        /\ e.last - e.first = (e.first - 1) - e.before
        /\ e.last < today
=============================================================================
