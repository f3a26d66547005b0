-------------------------- MODULE RunContextProofs --------------------------
(***************************************************************************)
(* Theorems about RunContext, for every number of updates, attempts, runs, *)
(* sites and places of the worker, and for every set of faults: what each  *)
(* of the three components promises survives their composition.            *)
(***************************************************************************)
EXTENDS RunContext, SequenceTheorems, PositionProofs

-----------------------------------------------------------------------------
(***************************************************************************)
(* The pool of the worker.                                                 *)
(***************************************************************************)
\* Whoever opens a pool looked before there was any, and has not opened one yet.
PoolInv ==
    /\ PoolTypeOK
    /\ PoolsBounded
    /\ \A s \in Slots : pool = NoPool \/ at[s] = "opening" => made[s] = 0

\* Using the ledger keeps the pools bounded.
LEMMA PoolKept ==
    ASSUME PoolInv, NEW s \in Slots,
           PoolStep(s) \/ Release(s) \/ UNCHANGED poolVars
    PROVE  PoolInv'
<1> USE DEF PoolInv, PoolTypeOK, PoolsBounded
<1>1. CASE Connect(s)
    BY <1>1 DEF Connect
<1>2. CASE Opened(s)
    BY <1>2, PoolAssumption DEF Opened
<1>3. CASE OpenFails(s)
    BY <1>3 DEF OpenFails
<1>4. CASE Release(s)
    BY <1>4 DEF Release
<1>5. CASE UNCHANGED poolVars
    BY <1>5 DEF poolVars
<1> QED BY <1>1, <1>2, <1>3, <1>4, <1>5 DEF PoolStep

\* It holds at first, and every step of the composition keeps it.
LEMMA AlwaysPool == Spec => []PoolInv
<1>1. Init => PoolInv
    BY DEF Init, PoolInit, PoolInv, PoolTypeOK, PoolsBounded
<1>2. PoolInv /\ [Next]_vars => PoolInv'
    <2> SUFFICES ASSUME PoolInv, [Next]_vars PROVE PoolInv'
        OBVIOUS
    <2>1. \/ \E s \in Slots : PoolStep(s) \/ Release(s)
          \/ UNCHANGED poolVars
        BY ContextAssumption
        DEF Next, Build, CreateRow, ReadRuns, ReadFeedback, Collect, ContextBuilt, BuildFails,
            UseLedger, PoolStep, vars
    <2>2. \E s \in Slots : PoolStep(s) \/ Release(s) \/ UNCHANGED poolVars
        BY <2>1, ContextAssumption
    <2> QED BY <2>2, PoolKept
<1> QED BY <1>1, <1>2, PTL DEF Spec

\* However the activities of the worker race for connect(), each of its places
\* opens one pool at most, and no statement runs without one (ledger.py:12-14).
THEOREM PoolsStayBounded == Spec => []PoolsBounded
<1>1. PoolInv => PoolsBounded
    BY DEF PoolInv
<1> QED BY <1>1, AlwaysPool, PTL
-----------------------------------------------------------------------------
(***************************************************************************)
(* The evidence.                                                           *)
(***************************************************************************)
\* Every record has the windows of the date that the attempt has read.
WindowsInv ==
    /\ today \in Nat /\ day \in Nat
    /\ \A e \in records : /\ e.first = CurrentStart(today)
                          /\ e.last = CurrentEnd(today)
                          /\ e.before = PreviousStart(today)

\* A step of the collection keeps the windows together.
LEMMA WindowsKept ==
    ASSUME WindowsInv, EvidenceStep \/ Midnight \/ UNCHANGED evidenceVars
    PROVE  WindowsInv'
<1> USE DEF WindowsInv, CurrentStart, CurrentEnd, PreviousStart
<1>1. ASSUME Attempt PROVE today' = day /\ records' = {}
    BY <1>1 DEF Attempt
<1>2. ASSUME AttemptFails, UNCHANGED day PROVE WindowsInv'
    BY <1>1, <1>2 DEF AttemptFails
<1>3. CASE BeginCollect
    BY <1>1, <1>3 DEF BeginCollect
<1>4. CASE CollectSite
    <2>1. UNCHANGED day
        BY <1>4 DEF CollectSite
    <2>2. CASE AttemptFails
        BY <1>2, <2>1, <2>2
    <2>3. CASE ~AttemptFails
        <3>1. /\ today' = today
              /\ \/ records' = records
                 \/ \E s, pages, queries : records' = records \cup SiteRecords(s, pages, queries)
            BY <1>4, <2>3 DEF CollectSite, AfterSiteError
        <3>2. ASSUME NEW s, NEW pages, NEW queries, NEW e \in SiteRecords(s, pages, queries)
              PROVE  /\ e.first = CurrentStart(today)
                     /\ e.last = CurrentEnd(today)
                     /\ e.before = PreviousStart(today)
            BY <3>2 DEF SiteRecords, RecordsOn
        <3>3. \A e \in records' : /\ e.first = CurrentStart(today)
                                  /\ e.last = CurrentEnd(today)
                                  /\ e.before = PreviousStart(today)
            BY <3>1, <3>2
        <3> QED BY <2>1, <3>1, <3>3
    <2> QED BY <2>2, <2>3
<1>5. CASE CollectFails
    BY <1>2, <1>5 DEF CollectFails
<1>6. CASE Disabled \/ CollectEnds \/ Probe \/ UNCHANGED evidenceVars
    BY <1>6 DEF Disabled, CollectEnds, Probe, evidenceVars
<1>7. CASE Midnight
    BY <1>7 DEF Midnight
<1> QED BY <1>3, <1>4, <1>5, <1>6, <1>7 DEF EvidenceStep

\* All sites are compared over the same two adjacent windows, which are over, also
\* past midnight and in a repeated attempt (evidence.py:162-166).
THEOREM ComparisonsAreFair == Spec => []ComparisonIsFair
<1>1. Init => WindowsInv
    BY DEF Init, EvidenceInit, WindowsInv
<1>2. WindowsInv /\ [Next]_vars => WindowsInv'
    <2> SUFFICES ASSUME WindowsInv, [Next]_vars PROVE WindowsInv'
        OBVIOUS
    <2>1. EvidenceStep \/ Midnight \/ UNCHANGED evidenceVars
        BY DEF Next, Build, CreateRow, ReadRuns, ReadFeedback, Collect, ContextBuilt,
               BuildFails, UseLedger, vars
    <2> QED BY <2>1, WindowsKept
<1>3. WindowsInv => ComparisonIsFair
    BY EvidenceAssumption
    DEF WindowsInv, ComparisonIsFair, CurrentStart, CurrentEnd, PreviousStart
<1> QED BY <1>1, <1>2, <1>3, PTL DEF Spec
-----------------------------------------------------------------------------
(***************************************************************************)
(* The sites, one after the other.                                         *)
(***************************************************************************)
\* An attempt is under way only after it has begun, and there are two of them.
CollectInv ==
    /\ EvidenceTypeOK
    /\ position # 0
    /\ gsc = "idle" => tries = 0
    /\ gsc = "sites" => tries # 0

\* What a site adds to the evidence is evidence.
LEMMA RecordTypes ==
    ASSUME EvidenceTypeOK, NEW s \in Sites, NEW pages \in RowCounts, NEW queries \in RowCounts
    PROVE  SiteRecords(s, pages, queries) \subseteq Records
<1>1. Lookback \in Nat /\ pages \in Nat /\ queries \in Nat /\ today \in Int
    BY EvidenceAssumption DEF EvidenceTypeOK
<1>2. /\ CurrentStart(today) \in Int /\ CurrentEnd(today) \in Int
      /\ PreviousStart(today) \in Int
    BY <1>1 DEF CurrentStart, CurrentEnd, PreviousStart
<1> QED BY <1>1, <1>2 DEF SiteRecords, RecordsOn, Records, Kinds

\* A step of the collection keeps the types.
LEMMA CollectKept ==
    ASSUME CollectInv, EvidenceStep \/ Midnight \/ UNCHANGED evidenceVars
    PROVE  CollectInv'
<1> USE DEF CollectInv, EvidenceTypeOK
<1>1. MaxDay \in Nat
    BY EvidenceAssumption
<1>2. ASSUME Attempt, tries < 2, UNCHANGED <<day, probes>> PROVE CollectInv'
    BY <1>2 DEF Attempt
<1>3. ASSUME AttemptFails, gsc = "sites", UNCHANGED <<day, probes>> PROVE CollectInv'
    BY <1>2, <1>3 DEF AttemptFails
<1>4. CASE BeginCollect
    BY <1>2, <1>4 DEF BeginCollect
<1>5. CASE CollectSite
    <2>1. gsc = "sites" /\ UNCHANGED <<day, probes>> /\ Portfolio[position] \in Sites
        BY <1>5 DEF CollectSite, Selected, Sites
    <2>2. CASE AttemptFails
        BY <1>3, <2>1, <2>2
    <2>3. CASE ~AttemptFails
        <3>1. /\ UNCHANGED <<gsc, tries, today>> /\ position' = position + 1
              /\ errors' = errors \/ errors' = errors \cup {Portfolio[position]}
              /\ \/ records' = records
                 \/ \E pages, queries \in RowCounts :
                       records' = records \cup SiteRecords(Portfolio[position], pages, queries)
            BY <1>5, <2>3 DEF CollectSite, AfterSiteError, NextSite
        <3>2. records' \subseteq Records
            BY <2>1, <3>1, RecordTypes
        <3> QED BY <2>1, <3>1, <3>2
    <2> QED BY <2>2, <2>3
<1>6. CASE CollectFails
    BY <1>3, <1>6 DEF CollectFails
<1>7. CASE Probe
    BY <1>7, EvidenceAssumption DEF Probe, Records, Kinds
<1>8. CASE Disabled \/ CollectEnds \/ UNCHANGED evidenceVars
    BY <1>8 DEF Disabled, CollectEnds, evidenceVars
<1>9. CASE Midnight
    BY <1>1, <1>9 DEF Midnight
<1> QED BY <1>4, <1>5, <1>6, <1>7, <1>8, <1>9 DEF EvidenceStep

\* Every step of the composition is one of the evidence or leaves it alone.
LEMMA EvidenceSteps ==
    ASSUME [Next]_vars PROVE EvidenceStep \/ Midnight \/ UNCHANGED evidenceVars
BY DEF Next, Build, CreateRow, ReadRuns, ReadFeedback, Collect, ContextBuilt, BuildFails,
       UseLedger, vars

LEMMA AlwaysCollect == Spec => []CollectInv
<1>1. Init => CollectInv
    BY EvidenceAssumption DEF Init, EvidenceInit, CollectInv, EvidenceTypeOK
<1>2. CollectInv /\ [Next]_vars => CollectInv'
    BY EvidenceSteps, CollectKept
<1> QED BY <1>1, <1>2, PTL DEF Spec

\* Whatever rows a specialist may cite the verifier can look up (agents.py:17-36 and
\* 85-92): the verifier's kinds are all, and its limit is no smaller than any other.
THEOREM VerifiersCanLookUp == Spec => []VerifierCanLookUp
<1>1. ASSUME EvidenceTypeOK, NEW role \in Roles \ {"judge"}, NEW e \in View(role)
      PROVE  \E f \in View("verifier") : f = [e EXCEPT !.rows = f.rows] /\ f.rows >= e.rows
    <2> DEFINE Seen(r, x) ==
            [x EXCEPT !.rows = IF r \in Summarised THEN 0
                               ELSE IF @ > RowLimit(r) THEN RowLimit(r) ELSE @]
    <2>1. PICK x \in records \cup probes : x.kind \in KindsFor(role) /\ e = Seen(role, x)
        BY <1>1 DEF View
    <2>2. x \in Records
        BY <1>1 DEF EvidenceTypeOK
    <2>3. Seen("verifier", x) \in View("verifier")
        BY <2>1, <2>2 DEF View, KindsFor, Records
    <2>4. Seen("verifier", x) = [e EXCEPT !.rows = Seen("verifier", x).rows]
        BY <2>1, <2>2 DEF Records
    <2>5. Seen("verifier", x).rows >= e.rows
        BY <2>1, <2>2 DEF Records, RowLimit, Summarised
    <2> HIDE DEF Seen
    <2> QED BY <2>3, <2>4, <2>5
<1>2. CollectInv => VerifierCanLookUp
    BY <1>1 DEF CollectInv, VerifierCanLookUp
<1> QED BY <1>2, AlwaysCollect, PTL

\* No site is listed twice, as in the registry that the code comes with.
DistinctSites ==
    \A i, j \in DOMAIN Portfolio : Portfolio[i] = Portfolio[j] => i = j

\* What the result must say of the i-th site.
SiteAnswered(i) ==
    IF Portfolio[i] \in errors THEN Of(Portfolio[i]) = {}
    ELSE {e.kind : e \in Of(Portfolio[i])} = Kinds \ {"technical_health"}

\* The attempt has answered for the sites that it is past, and for no others.
SitesInv ==
    gsc \in {"sites", "done"} /\ tries # 0 =>
        /\ \A i \in Selected : i < position => SiteAnswered(i)
        /\ \A i \in Selected : i >= position =>
              Portfolio[i] \notin errors /\ Of(Portfolio[i]) = {}
        /\ gsc = "done" => position \notin Selected

\* A site adds records of its own, one of each kind.
LEMMA RecordsOfSite ==
    ASSUME NEW s, NEW pages, NEW queries
    PROVE  /\ \A e \in SiteRecords(s, pages, queries) : e.site = s
           /\ {e.kind : e \in SiteRecords(s, pages, queries)} = Kinds \ {"technical_health"}
<1> DEFINE S == SiteRecords(s, pages, queries)
           R(kind, rows) == [site |-> s, kind |-> kind, rows |-> rows,
                             first |-> CurrentStart(today), last |-> CurrentEnd(today),
                             before |-> PreviousStart(today)]
<1>1. S = {R("search_performance_summary", 0), R("top_pages", pages), R("top_queries", queries)}
    BY DEF SiteRecords, RecordsOn
<1>2. \A kind, rows : R(kind, rows).site = s /\ R(kind, rows).kind = kind
    OBVIOUS
<1> HIDE DEF S, R
<1>3. {e.kind : e \in S} = {"search_performance_summary", "top_pages", "top_queries"}
    BY <1>1, <1>2
<1> QED BY <1>1, <1>2, <1>3 DEF S, Kinds

\* Nothing that belongs to a site changes with the evidence of another one.
LEMMA SitesKept ==
    ASSUME DistinctSites, CollectInv, SitesInv,
           EvidenceStep \/ Midnight \/ UNCHANGED evidenceVars
    PROVE  SitesInv'
<1> USE DEF SitesInv, CollectInv, EvidenceTypeOK
<1>0. \A i \in Selected : i \in Nat /\ i # 0 /\ i \in DOMAIN Portfolio
    BY EvidenceAssumption, LenProperties DEF Selected
<1>1. ASSUME Attempt PROVE SitesInv'
    BY <1>0, <1>1 DEF Attempt, Of
<1>2. ASSUME AttemptFails PROVE SitesInv'
    BY <1>1, <1>2 DEF AttemptFails
<1>3. CASE BeginCollect
    BY <1>1, <1>3 DEF BeginCollect
<1>4. CASE CollectSite
    <2>1. gsc = "sites" /\ position \in Selected
        BY <1>4 DEF CollectSite
    <2>4. PICK p \in Selected : p = position
        BY <2>1
    <2>5. PICK s : s = Portfolio[p]
        OBVIOUS
    <2>2. CASE AttemptFails
        BY <1>2, <2>2
    <2>3. CASE ~AttemptFails
        <3>1. /\ UNCHANGED <<gsc, tries>> /\ position' = position + 1
              /\ \/ errors' = errors \cup {s} /\ records' = records
                 \/ /\ errors' = errors
                    /\ \E pages, queries \in RowCounts :
                          records' = records \cup SiteRecords(s, pages, queries)
            BY <1>4, <2>3, <2>4, <2>5 DEF CollectSite, AfterSiteError, NextSite
        <3>2. s \notin errors /\ Of(s) = {}
            BY <2>1, <2>4, <2>5, <3>1
        <3>3. ASSUME NEW pages, NEW queries
              PROVE  /\ \A e \in SiteRecords(s, pages, queries) : e.site = s
                     /\ {e.kind : e \in SiteRecords(s, pages, queries)}
                            = Kinds \ {"technical_health"}
            BY RecordsOfSite
        <3>4. ASSUME NEW i \in Selected, i # p
              PROVE  /\ Portfolio[i] \in errors' <=> Portfolio[i] \in errors
                     /\ Of(Portfolio[i])' = Of(Portfolio[i])
            <4>1. Portfolio[i] # s
                BY <2>5, <3>4 DEF DistinctSites, Selected
            <4> QED BY <3>1, <3>3, <4>1 DEF Of
        <3>5. SiteAnswered(p)'
            <4>1. SiteAnswered(p)'
                    <=> IF s \in errors' THEN Of(s)' = {}
                        ELSE {e.kind : e \in Of(s)'} = Kinds \ {"technical_health"}
                BY <2>5 DEF SiteAnswered
            <4>2. CASE errors' = errors \cup {s} /\ records' = records
                <5>1. Of(s)' = {}
                    BY <3>2, <4>2 DEF Of
                <5> QED BY <4>1, <4>2, <5>1
            <4>3. CASE errors' = errors /\ \E pages, queries \in RowCounts :
                          records' = records \cup SiteRecords(s, pages, queries)
                <5>1. PICK pages \in RowCounts, queries \in RowCounts :
                          records' = records \cup SiteRecords(s, pages, queries)
                    BY <4>3
                <5>2. Of(s)' = SiteRecords(s, pages, queries)
                    BY <3>2, <3>3, <5>1 DEF Of
                <5> QED BY <3>2, <3>3, <4>1, <4>3, <5>2
            <4> QED BY <3>1, <4>2, <4>3
        <3>6. ASSUME NEW i \in Selected, i < position' PROVE SiteAnswered(i)'
            <4>1. CASE i = p
                BY <3>5, <4>1
            <4>2. CASE i # p
                <5>1. SiteAnswered(i)
                    BY <1>0, <2>1, <2>4, <3>1, <3>6, <4>2
                <5> QED BY <3>4, <4>2, <5>1 DEF SiteAnswered
            <4> QED BY <4>1, <4>2
        <3>7. ASSUME NEW i \in Selected, i >= position'
              PROVE  Portfolio[i] \notin errors' /\ Of(Portfolio[i])' = {}
            <4>1. i # p /\ i >= position
                BY <1>0, <2>1, <2>4, <3>1, <3>7
            <4> QED BY <2>1, <3>4, <4>1
        <3> QED BY <2>1, <3>1, <3>6, <3>7
    <2> QED BY <2>2, <2>3
<1>5. CASE CollectFails
    BY <1>2, <1>5 DEF CollectFails
<1>6. CASE Disabled
    BY <1>6 DEF Disabled
<1>7. CASE CollectEnds \/ Probe \/ Midnight \/ UNCHANGED evidenceVars
    BY <1>7 DEF CollectEnds, Probe, Midnight, evidenceVars, SiteAnswered, Of
<1> QED BY <1>3, <1>4, <1>5, <1>6, <1>7 DEF EvidenceStep

\* A selected site has its three records or is named in the errors, whatever happened
\* at the other sites and in an earlier attempt (evidence.py:174-212).
THEOREM SitesStayIsolated == ASSUME DistinctSites PROVE Spec => []SitesIsolated
<1>1. Init => SitesInv
    BY DEF Init, EvidenceInit, SitesInv
<1>2. CollectInv /\ SitesInv /\ [Next]_vars => SitesInv'
    BY DistinctSites, EvidenceSteps, SitesKept
<1>3. CollectInv /\ SitesInv => SitesIsolated
    <2> SUFFICES ASSUME CollectInv, SitesInv, gsc = "done", tries > 0, NEW i \in Selected
                 PROVE  SiteAnswered(i)
        BY DEF SitesIsolated, SiteAnswered
    <2>1. i < position
        <3>1. DOMAIN Portfolio = 1..Len(Portfolio) /\ Len(Portfolio) \in Nat /\ MaxSites \in Nat
            BY EvidenceAssumption, LenProperties
        <3>2. position \in Nat /\ position # 0 /\ position \notin Selected
            BY DEF CollectInv, EvidenceTypeOK, SitesInv
        <3> QED BY <3>1, <3>2 DEF Selected
    <2> QED BY <2>1 DEF SitesInv, CollectInv, EvidenceTypeOK
<1> QED BY <1>1, <1>2, <1>3, AlwaysCollect, PTL DEF Spec
-----------------------------------------------------------------------------
(***************************************************************************)
(* The feedback.                                                           *)
(***************************************************************************)
Row == [run: RunIds, update: Updates]

\* The table has a row from update u for run r.
HasRow(u, r) == \E i \in RowsOf(u) : feedback[i].run = r

\* A handler that is about to insert has found a run, and one that is about to
\* reply has inserted the row that it will speak of.
FeedbackInv ==
    /\ FeedbackTypeOK
    /\ NothingLost
    /\ \A a \in Attempts : /\ handler[a] \in {"insert", "reply"} => found[a] # NoRun
                           /\ handler[a] = "reply" => HasRow(a[1], found[a])

\* An attempt belongs to an update.
LEMMA AttemptType ==
    ASSUME NEW a \in Attempts
    PROVE  a[1] \in Updates /\ a = <<a[1], a[2]>>
<1>1. PICK u \in Updates : a \in {u} \X (1..Tries[u])
    BY DEF Attempts
<1> QED BY <1>1

\* The newest of the matching runs is a run.
LEMMA NewestType ==
    ASSUME runs \in Seq(RunIds), NEW S
    PROVE  Newest(S) \in RunIds \cup {NoRun}
<1> DEFINE hits == {i \in DOMAIN runs : runs[i] \in S}
<1>1. CASE hits = {}
    BY <1>1 DEF Newest
<1>2. CASE hits # {}
    <2>1. Len(runs) \in Nat /\ DOMAIN runs = 1..Len(runs)
        BY LenProperties
    <2>2. hits \in SUBSET (1..Len(runs))
        BY <2>1
    <2>3. \E x \in hits : \A y \in hits : y <= x
        <3> HIDE DEF hits
        <3> QED BY <1>2, <2>1, <2>2, LastPosition
    <2>4. \E x \in hits : \A y \in hits : x >= y
        BY <2>1, <2>3
    <2>5. Max(hits) \in hits
        <3> HIDE DEF hits
        <3> QED BY <2>4 DEF Max
    <2>6. runs[Max(hits)] \in RunIds
        BY <2>1, <2>2, <2>5, ElementOfSeq
    <2> QED BY <1>2, <2>6 DEF Newest
<1> QED BY <1>1, <1>2

\* Rows are never taken out of the table, and the one that is added is there.
LEMMA RowsGrow ==
    ASSUME feedback \in Seq(Row), NEW x \in Row,
           feedback' = feedback \/ feedback' = Append(feedback, x)
    PROVE  /\ feedback' \in Seq(Row)
           /\ \A u : RowsOf(u) # {} => RowsOf(u)' # {}
           /\ \A u, r : HasRow(u, r) => HasRow(u, r)'
           /\ feedback' = Append(feedback, x) => HasRow(x.update, x.run)'
<1>1. CASE feedback' = feedback
    <2>1. ASSUME feedback' = Append(feedback, x) PROVE FALSE
        <3>1. Len(Append(feedback, x)) = Len(feedback) + 1 /\ Len(feedback) \in Nat
            BY AppendProperties, LenProperties
        <3>2. Append(feedback, x) = feedback
            BY <1>1, <2>1
        <3> HIDE <1>1, <2>1
        <3> QED BY <3>1, <3>2
    <2> QED BY <1>1, <2>1 DEF HasRow, RowsOf
<1>2. CASE feedback' = Append(feedback, x)
    <2>1. /\ feedback' \in Seq(Row)
          /\ DOMAIN feedback = 1..Len(feedback) /\ Len(feedback) \in Nat
          /\ DOMAIN feedback' = 1..(Len(feedback) + 1)
          /\ \A i \in DOMAIN feedback : feedback'[i] = feedback[i]
          /\ feedback'[Len(feedback) + 1] = x
        BY <1>2, AppendProperties, LenProperties
    <2>2. \A u : RowsOf(u)' = {i \in DOMAIN feedback' : feedback'[i].update = u}
        BY DEF RowsOf
    <2>3. \A i \in DOMAIN feedback : i \in DOMAIN feedback'
        BY <2>1
    <2>4. \A u : \A i \in RowsOf(u) : i \in RowsOf(u)' /\ feedback'[i] = feedback[i]
        BY <2>1, <2>2, <2>3 DEF RowsOf
    <2>5. Len(feedback) + 1 \in RowsOf(x.update)'
        BY <2>1, <2>2
    <2>6. \A u, r : HasRow(u, r)' <=> \E i \in RowsOf(u)' : feedback'[i].run = r
        BY DEF HasRow
    <2> QED BY <2>1, <2>4, <2>5, <2>6 DEF HasRow
<1> QED BY <1>1, <1>2

\* A step of one handler keeps it.
LEMMA FeedbackKept ==
    ASSUME FeedbackInv, NEW a \in Attempts, FeedbackStep(a)
    PROVE  FeedbackInv'
<1> USE DEF FeedbackInv, FeedbackTypeOK, Ended
<1> DEFINE u == a[1]
           x == [run |-> found[a], update |-> u]
<1>1. u \in Updates /\ a = <<a[1], a[2]>>
    BY AttemptType
<1>2. /\ handler' \in [Attempts -> {"none", "find", "sorry", "insert", "reply"} \cup Ended]
      /\ \A b \in Attempts \ {a} : handler'[b] = handler[b]
    <2>1. \E stage \in {"find", "sorry", "insert", "reply"} \cup Ended : Goto(a, stage)
        BY <1>1 DEF FeedbackStep, Receive, FindRun, AfterSearch, Apologise, Insert, DatabaseFails,
                    AfterError, Reply, ReplyFails
    <2> QED BY <2>1 DEF Goto
<1>3. /\ runs' = runs
      /\ found' \in [Attempts -> RunIds \cup {NoRun}]
      /\ \A b \in Attempts \ {a} : found'[b] = found[b]
      /\ handler[a] # "find" => found' = found
    BY <1>1, NewestType
    DEF FeedbackStep, Receive, FindRun, Apologise, Insert, DatabaseFails, Reply, ReplyFails
<1>4. handler[a] = "insert" => x \in Row
    BY <1>1 DEF Row
<1>5. /\ \/ feedback' = feedback
         \/ handler[a] = "insert" /\ AddRow(a)
      /\ Insert(a) => AddRow(a)
    BY DEF FeedbackStep, Receive, FindRun, Apologise, Insert, DatabaseFails, Reply, ReplyFails
<1>6. /\ feedback' \in Seq(Row)
      /\ \A v : RowsOf(v) # {} => RowsOf(v)' # {}
      /\ \A v, r : HasRow(v, r) => HasRow(v, r)'
      /\ Insert(a) => HasRow(u, found[a])'
    <2>1. CASE feedback' = feedback /\ ~Insert(a)
        BY <2>1 DEF Row, RowsOf, HasRow
    <2>2. CASE handler[a] = "insert" /\ feedback' = Append(feedback, x)
        <3>1. PICK y \in Row : y = x
            BY <1>4, <2>2
        <3>2. feedback \in Seq(Row)
            BY DEF Row
        <3>3. /\ feedback' \in Seq(Row)
              /\ \A v : RowsOf(v) # {} => RowsOf(v)' # {}
              /\ \A v, r : HasRow(v, r) => HasRow(v, r)'
              /\ HasRow(y.update, y.run)'
            <4> HIDE DEF x
            <4> QED BY <2>2, <3>1, <3>2, RowsGrow
        <3>4. y.update = u /\ y.run = found[a] /\ found' = found
            BY <1>3, <2>2, <3>1
        <3> QED BY <3>3, <3>4
    <2> QED BY <1>5, <2>1, <2>2 DEF AddRow, Insert
<1>7. /\ told' \subseteq Updates \X RunIds
      /\ \A y \in told' : y \in told \/ (handler[a] = "reply" /\ y = <<u, found[a]>>)
    BY <1>1 DEF FeedbackStep, Receive, FindRun, Apologise, Insert, DatabaseFails, Reply, ReplyFails
<1>8. /\ kept' \in [Updates -> {"no", "recorded", "refused", "ignored"}]
      /\ \A v \in Updates : kept'[v] = "recorded"
             => kept[v] = "recorded" \/ (v = u /\ (Insert(a) \/ Reply(a)))
    BY <1>1 DEF FeedbackStep, Receive, FindRun, AfterSearch, Apologise, Insert, DatabaseFails,
                AfterError, Reply, ReplyFails, Keep
<1>9. /\ handler[a] = "reply" => HasRow(u, found[a])
      /\ Reply(a) => handler[a] = "reply"
    BY DEF Reply
<1>10. FeedbackTypeOK'
    BY <1>2, <1>3, <1>6, <1>7, <1>8 DEF Row
<1>11. NothingLost'
    <2>1. \A v \in Updates : kept'[v] = "recorded" => RowsOf(v)' # {}
        BY <1>6, <1>8, <1>9 DEF NothingLost, HasRow
    <2>2. \A y \in told' : HasRow(y[1], y[2])'
        <3>1. ASSUME NEW y \in told' PROVE HasRow(y[1], y[2])
            <4>1. CASE y \in told
                BY <4>1 DEF NothingLost, HasRow
            <4>2. CASE handler[a] = "reply" /\ y = <<u, found[a]>>
                BY <1>9, <4>2
            <4> QED BY <1>7, <4>1, <4>2
        <3> QED BY <1>6, <3>1
    <2> QED BY <2>1, <2>2 DEF NothingLost, HasRow
<1>12. ASSUME NEW b \in Attempts
       PROVE  /\ handler'[b] \in {"insert", "reply"} => found'[b] # NoRun
              /\ handler'[b] = "reply" => HasRow(b[1], found[b])'
    <2>1. CASE b # a
        BY <1>2, <1>3, <1>6, <2>1
    <2>2. CASE b = a
        <3>1. handler'[a] \in {"insert", "reply"}
                 => \/ FindRun(a) /\ handler'[a] = "insert" /\ found'[a] # NoRun
                    \/ Insert(a)
            BY <1>1 DEF FeedbackStep, Receive, FindRun, AfterSearch, Apologise, Insert,
                        DatabaseFails, AfterError, Reply, ReplyFails, Goto
        <3> QED BY <1>3, <1>6, <2>2, <3>1 DEF Insert
    <2> QED BY <2>1, <2>2
<1> QED BY <1>10, <1>11, <1>12

\* It holds at first, and every step of the composition keeps it.
LEMMA AlwaysFeedback == Spec => []FeedbackInv
<1>1. Init => FeedbackInv
    <2> SUFFICES ASSUME Init PROVE FeedbackInv
        OBVIOUS
    <2>1. FeedbackTypeOK
        BY ContextAssumption, FeedbackAssumption DEF Init, FeedbackInit, FeedbackTypeOK, Ended
    <2> QED BY <2>1 DEF Init, FeedbackInit, FeedbackInv, NothingLost
<1>2. FeedbackInv /\ [Next]_vars => FeedbackInv'
    <2> SUFFICES ASSUME FeedbackInv, [Next]_vars PROVE FeedbackInv'
        OBVIOUS
    <2>1. CASE \E a \in Attempts : FeedbackStep(a)
        BY <2>1, FeedbackKept
    <2>2. CASE AddRun(Self)
        <3>1. runs' \in Seq(RunIds)
            BY <2>2, ContextAssumption, AppendProperties DEF AddRun, FeedbackInv, FeedbackTypeOK
        <3> QED BY <2>2, <3>1
                DEF AddRun, FeedbackInv, FeedbackTypeOK, NothingLost, HasRow, RowsOf
    <2>3. CASE UNCHANGED feedbackVars
        BY <2>3 DEF feedbackVars, FeedbackInv, FeedbackTypeOK, NothingLost, HasRow, RowsOf
    <2> QED BY <2>1, <2>2, <2>3
            DEF Next, Build, CreateRow, ReadRuns, ReadFeedback, Collect, ContextBuilt,
                BuildFails, UseLedger, vars
<1> QED BY <1>1, <1>2, PTL DEF Spec

\* An update that is not sent again is in the table, or its sender was told that it
\* is not, and what an operator was told is true, however the attempts of an update
\* overlap and whatever fails on the way (main.py:141-166).
THEOREM FeedbackIsNotLost == Spec => []NothingLost
<1>1. FeedbackInv => NothingLost
    BY DEF FeedbackInv
<1> QED BY <1>1, AlwaysFeedback, PTL

\* The smaller of two numbers.
LEMMA MinOfTwo ==
    ASSUME NEW m \in Nat, NEW n \in Nat
    PROVE  Min({m, n}) = IF m <= n THEN m ELSE n
<1> DEFINE x == IF m <= n THEN m ELSE n
<1>1. x \in {m, n} /\ \A y \in {m, n} : x <= y
    OBVIOUS
<1>2. \A z \in {m, n} : (\A y \in {m, n} : z <= y) => z = x
    OBVIOUS
<1> HIDE DEF x
<1>3. (CHOOSE z \in {m, n} : \A y \in {m, n} : z <= y) = x
    BY <1>1, <1>2
<1> QED BY <1>3 DEF Min, x

\* The first elements of a sequence.
LEMMA Prefix ==
    ASSUME NEW S, NEW f \in Seq(S), NEW k \in Nat, k <= Len(f)
    PROVE  /\ SubSeq(f, 1, k) \in Seq(S)
           /\ Len(SubSeq(f, 1, k)) = k
           /\ \A p \in 1..k : SubSeq(f, 1, k)[p] = f[p]
<1>1. Len(f) \in Nat /\ \A p \in 1..k : f[p] \in S
    BY LenProperties, ElementOfSeq
<1>2. /\ SubSeq(f, 1, k) \in Seq(S)
      /\ Len(SubSeq(f, 1, k)) = IF 1 <= k THEN k - 1 + 1 ELSE 0
      /\ \A p \in 1 .. k - 1 + 1 : SubSeq(f, 1, k)[p] = f[1 + p - 1]
    BY <1>1, SubSeqProperties
<1> QED BY <1>1, <1>2

\* What LIMIT k leaves of a list.
First(f, k) == SubSeq(f, 1, Min({k, Len(f)}))

\* It leaves the first k elements, or all of them.
LEMMA Cut ==
    ASSUME NEW S, NEW f \in Seq(S), NEW k \in Nat
    PROVE  /\ First(f, k) \in Seq(S)
           /\ \A p \in 1..Len(f) : p <= k =>
                 p \in 1..Len(First(f, k)) /\ First(f, k)[p] = f[p]
<1> DEFINE m == Min({k, Len(f)})
<1>1. Len(f) \in Nat
    BY LenProperties
<1>2. m \in Nat /\ m <= Len(f) /\ \A p \in 1..Len(f) : p <= k => p \in 1..m
    BY <1>1, MinOfTwo
<1> HIDE DEF m
<1>3. /\ SubSeq(f, 1, m) \in Seq(S)
      /\ Len(SubSeq(f, 1, m)) = m
      /\ \A p \in 1..m : SubSeq(f, 1, m)[p] = f[p]
    BY <1>2, Prefix
<1> QED BY <1>2, <1>3 DEF m, First

\* The same sequence from its end.
LEMMA Reversed ==
    ASSUME NEW S, NEW f \in Seq(S)
    PROVE  /\ Reverse(f) \in Seq(S)
           /\ Len(Reverse(f)) = Len(f)
           /\ \A p \in 1..Len(f) : Reverse(f)[p] = f[Len(f) - p + 1]
<1> DEFINE n == Len(f)
<1>1. n \in Nat /\ \A p \in 1..n : f[p] \in S
    BY LenProperties, ElementOfSeq
<1>2. Reverse(f) = [p \in 1..n |-> f[(n - p) + 1]]
    BY DEF Reverse
<1>3. \A p \in 1..n : f[(n - p) + 1] \in S
    BY <1>1
<1> HIDE DEF n
<1>4. Reverse(f) \in Seq(S) /\ DOMAIN Reverse(f) = 1..n
    BY <1>1, <1>2, <1>3, IsASeq
<1>5. Len(Reverse(f)) = n
    BY <1>1, <1>4, LenProperties
<1> QED BY <1>2, <1>4, <1>5 DEF n

\* Reading the newest rows, twice cut, finds a row that few newer ones hide.
LEMMA ReadBack ==
    ASSUME NEW f \in Seq(Row), NEW i \in 1..Len(f), NEW k \in Nat, NEW l \in Nat,
           Len(f) - i < k, Len(f) - i < l
    PROVE  /\ First(First(Reverse(f), l), k) \in Seq(Row)
           /\ \E p \in 1..Len(First(First(Reverse(f), l), k)) :
                 First(First(Reverse(f), l), k)[p] = f[i]
<1>1. Len(f) \in Nat
    BY LenProperties
<1>2. PICK p \in 1..Len(f) : p = Len(f) - i + 1
    <2>1. Len(f) - i + 1 \in 1..Len(f)
        BY <1>1
    <2> QED BY <2>1
<1>3. p <= k /\ p <= l /\ Len(f) - p + 1 = i
    BY <1>1, <1>2
<1>4. /\ Reverse(f) \in Seq(Row)
      /\ p \in 1..Len(Reverse(f))
      /\ Reverse(f)[p] = f[i]
    <2>1. Reverse(f)[p] = f[Len(f) - p + 1]
        BY Reversed
    <2> QED BY <1>3, <2>1, Reversed
<1>5. /\ First(Reverse(f), l) \in Seq(Row)
      /\ p \in 1..Len(First(Reverse(f), l))
      /\ First(Reverse(f), l)[p] = f[i]
    BY <1>3, <1>4, Cut
<1> QED BY <1>3, <1>5, Cut

\* Feedback of which the operator was told that it is recorded reaches the chief of
\* staff of every run that reads the table afterwards, or newer rows have pushed it
\* out (main.py:162, ledger.py:125-138, agents.py:97).
THEOREM FeedbackIsFactoredIn == Spec => FactoredIn
<1> DEFINE reaches(x) ==
        \/ \E i \in DOMAIN ShownFeedback("chief_of_staff")' :
              ShownFeedback("chief_of_staff")'[i] = [run |-> x[2], update |-> x[1]]
        \/ \E i \in RowsOf(x[1]) : Len(feedback) - i >= Min({ChiefFeedback, MemoryLimit})
<1>1. ASSUME FeedbackInv, ReadFeedback, NEW x \in told PROVE reaches(x)
    <2>1. PICK i \in RowsOf(x[1]) : feedback[i].run = x[2]
        BY <1>1 DEF FeedbackInv, NothingLost
    <2>2. /\ feedback \in Seq(Row) /\ Len(feedback) \in Nat
          /\ i \in 1..Len(feedback) /\ feedback[i].update = x[1]
        BY <1>1, <2>1, LenProperties DEF FeedbackInv, FeedbackTypeOK, Row, RowsOf
    <2>3. feedback[i] = [run |-> x[2], update |-> x[1]]
        <3>1. feedback[i] \in Row
            BY <2>2, ElementOfSeq
        <3> QED BY <2>1, <2>2, <3>1 DEF Row
    <2>4. CASE Len(feedback) - i < Min({ChiefFeedback, MemoryLimit})
        <3>1. Len(feedback) - i < ChiefFeedback /\ Len(feedback) - i < MemoryLimit
            BY <2>2, <2>4, ContextAssumption, MinOfTwo
        <3>2. memory' = First(Reverse(feedback), MemoryLimit)
            BY <1>1, <2>2, Reversed DEF ReadFeedback, RecentFeedback, First
        <3>3. ShownFeedback("chief_of_staff")' = First(memory', ChiefFeedback)
            BY DEF ShownFeedback, First
        <3> DEFINE given(f) == First(First(Reverse(f), MemoryLimit), ChiefFeedback)
        <3>4. given(feedback) \in Seq(Row)
              /\ \E j \in 1..Len(given(feedback)) : given(feedback)[j] = feedback[i]
            <4>1. ChiefFeedback \in Nat /\ MemoryLimit \in Nat
                BY ContextAssumption
            <4>2. ASSUME NEW f \in Seq(Row), NEW n \in 1..Len(f),
                         Len(f) - n < ChiefFeedback, Len(f) - n < MemoryLimit
                  PROVE  given(f) \in Seq(Row)
                         /\ \E j \in 1..Len(given(f)) : given(f)[j] = f[n]
                BY <4>1, <4>2, ReadBack
            <4> HIDE DEF given
            <4> QED BY <2>2, <3>1, <4>2
        <3>5. ShownFeedback("chief_of_staff")' = given(feedback)
            BY <3>2, <3>3
        <3> HIDE DEF given
        <3> QED BY <2>3, <3>4, <3>5, LenProperties
    <2>5. CASE ~(Len(feedback) - i < Min({ChiefFeedback, MemoryLimit}))
        BY <2>1, <2>2, <2>5, ContextAssumption, MinOfTwo
    <2> QED BY <2>4, <2>5
<1>2. FeedbackInv /\ [Next]_vars => [ReadFeedback => \A x \in told : reaches(x)]_vars
    BY <1>1
<1> QED BY <1>2, AlwaysFeedback, PTL DEF Spec, FactoredIn
-----------------------------------------------------------------------------
(***************************************************************************)
(* The types.                                                              *)
(***************************************************************************)
\* The history is a list of runs.
LEMMA HistoryType ==
    ASSUME runs \in Seq(RunIds)
    PROVE  DoneRuns[Len(runs)] \in Seq(RunIds)
<1> DEFINE n == Len(runs)
           T == Seq(RunIds)
           add == [i \in 1..n |->
                       [f \in T |-> IF runs[i] = Self THEN f ELSE <<runs[i]>> \o f]]
           Def(g) == [i \in 0..n |-> IF i = 0 THEN <<>> ELSE IF runs[i] = Self THEN g[i - 1]
                                     ELSE <<runs[i]>> \o g[i - 1]]
<1>1. n \in Nat /\ \A i \in 1..n : runs[i] \in RunIds
    BY LenProperties, ElementOfSeq
<1>2. add \in [1..n -> [T -> T]]
    <2>1. ASSUME NEW i \in 1..n, NEW f \in T PROVE <<runs[i]>> \o f \in T
        BY <1>1, ConcatProperties
    <2> QED BY <2>1
<1>3. <<>> \in T
    OBVIOUS
<1>4. ASSUME NEW F \in [0..n -> T], Iterates(F, n, <<>>, add) PROVE F = Def(F)
    <2>1. F = [i \in 0..n |-> IF i = 0 THEN <<>> ELSE add[i][F[i - 1]]]
        BY <1>4 DEF Iterates
    <2>2. ASSUME NEW i \in 0..n, i # 0
          PROVE  add[i][F[i - 1]] = IF runs[i] = Self THEN F[i - 1] ELSE <<runs[i]>> \o F[i - 1]
        <3>1. i \in 1..n /\ F[i - 1] \in T
            BY <1>1, <1>4, <2>2
        <3> QED BY <3>1
    <2> HIDE DEF n, T, add
    <2> QED BY <2>1, <2>2
<1>5. \E F : F = Def(F)
    <2>1. \E F \in [0..n -> T] : Iterates(F, n, <<>>, add)
        <3> HIDE DEF n, T, add
        <3> QED BY <1>1, <1>2, <1>3, IterationExists
    <2> HIDE DEF n, T, add, Def
    <2> QED BY <1>4, <2>1
<1>6. DoneRuns = CHOOSE F : F = Def(F)
    BY DEF DoneRuns
<1>7. DoneRuns = Def(DoneRuns)
    <2> HIDE DEF Def
    <2> QED BY <1>5, <1>6
<1>8. \A i \in 0..n : DoneRuns[i] = IF i = 0 THEN <<>>
                                   ELSE IF runs[i] = Self THEN DoneRuns[i - 1]
                                   ELSE <<runs[i]>> \o DoneRuns[i - 1]
    <2> DEFINE e(i, g) == IF i = 0 THEN <<>> ELSE IF runs[i] = Self THEN g[i - 1]
                          ELSE <<runs[i]>> \o g[i - 1]
    <2>1. DoneRuns = [i \in 0..n |-> e(i, DoneRuns)]
        BY <1>7
    <2> HIDE DEF e
    <2>2. \A i \in 0..n : DoneRuns[i] = e(i, DoneRuns)
        BY <2>1
    <2> QED BY <2>2 DEF e
<1>9. DoneRuns \in [0..n -> T]
    <2> DEFINE S == {i \in 0..n : DoneRuns[i] \notin T}
    <2>1. DoneRuns[0] = <<>>
        <3>1. 0 \in 0..n
            BY <1>1
        <3> HIDE DEF n
        <3> QED BY <1>8, <3>1
    <2>2. ASSUME NEW x \in 1..n, x \in S, x - 1 \in 0..n, x - 1 \notin S PROVE FALSE
        <3>1. DoneRuns[x - 1] \in T
            BY <2>2
        <3>2. DoneRuns[x] = IF runs[x] = Self THEN DoneRuns[x - 1] ELSE <<runs[x]>> \o DoneRuns[x - 1]
            BY <1>1, <1>8, <2>2
        <3>3. DoneRuns[x] \in T
            BY <1>1, <3>1, <3>2, ConcatProperties
        <3> QED BY <2>2, <3>3
    <2>3. S = {}
        <3>1. S \in SUBSET (0..n) /\ 0 \notin S
            BY <1>3, <2>1
        <3> HIDE DEF S, n, T, Def
        <3> QED BY <1>1, <2>2, <3>1, ExceptionsBegin
    <2> HIDE DEF n, T
    <2> QED BY <1>7, <2>3
<1> QED BY <1>1, <1>9

\* The types of the run's own variables.
ContextTypeOK ==
    /\ step \in {"create", "recent_runs", "recent_feedback", "collect", "ready", "failed"}
    /\ history \in Seq(RunIds)
    /\ memory \in Seq(Row)

LEMMA ContextKept ==
    ASSUME ContextTypeOK, FeedbackTypeOK, [Next]_vars
    PROVE  ContextTypeOK'
<1> USE DEF ContextTypeOK
<1>1. CASE CreateRow
    BY <1>1 DEF CreateRow
<1>2. CASE ReadRuns
    <2>1. history' \in Seq(RunIds)
        BY <1>2, HistoryType DEF ReadRuns, FeedbackTypeOK
    <2> QED BY <1>2, <2>1 DEF ReadRuns
<1>3. CASE ReadFeedback
    <2>1. feedback \in Seq(Row) /\ MemoryLimit \in Nat
        BY ContextAssumption DEF FeedbackTypeOK, Row
    <2>2. memory' = First(Reverse(feedback), MemoryLimit)
        BY <1>3, <2>1, Reversed DEF ReadFeedback, RecentFeedback, First
    <2>3. memory' \in Seq(Row)
        BY <2>1, <2>2, Reversed, Cut
    <2> QED BY <1>3, <2>3 DEF ReadFeedback
<1>4. CASE ContextBuilt \/ BuildFails
    BY <1>4 DEF ContextBuilt, BuildFails
<1>5. CASE UNCHANGED contextVars
    BY <1>5 DEF contextVars
<1> QED BY <1>1, <1>2, <1>3, <1>4, <1>5 DEF Next, Build, Collect, UseLedger, vars

\* Type correctness of the composition.  The types of a component follow from its own
\* invariant; the run adds lists that it reads out of the tables.
THEOREM ContextTypeCorrect == Spec => []TypeOK
<1>1. Init => ContextTypeOK
    BY DEF Init, ContextTypeOK, Row
<1>2. FeedbackInv /\ ContextTypeOK /\ [Next]_vars => ContextTypeOK'
    BY ContextKept DEF FeedbackInv
<1>3. FeedbackInv /\ PoolInv /\ CollectInv /\ ContextTypeOK => TypeOK
    BY DEF FeedbackInv, PoolInv, CollectInv, ContextTypeOK, TypeOK, Row
<1> QED BY <1>1, <1>2, <1>3, AlwaysFeedback, AlwaysPool, AlwaysCollect, PTL DEF Spec
=============================================================================
