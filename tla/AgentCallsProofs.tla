-------------------------- MODULE AgentCallsProofs --------------------------
(***************************************************************************)
(* Theorems about AgentCalls, for every set of documents that models may   *)
(* write, every list of proposals, every number of attempts, and whatever  *)
(* providers report.                                                       *)
(***************************************************************************)
EXTENDS AgentCalls, SequenceTheorems, PositionProofs

-----------------------------------------------------------------------------
(***************************************************************************)
(* The score grows with what dominates (scoring.py:39-42).                 *)
(***************************************************************************)
\* Multiplication keeps the order of natural numbers.
LEMMA ProductOrder ==
    ASSUME NEW a \in Nat, NEW b \in Nat, NEW c \in Nat, NEW d \in Nat, a <= c, b <= d
    PROVE  a * b \in Nat /\ a * b <= c * d
<1>1. a * b <= c * b
    OBVIOUS
<1>2. c * b <= c * d
    OBVIOUS
<1>3. a * b \in Nat /\ c * b \in Nat /\ c * d \in Nat
    OBVIOUS
<1> QED BY <1>1, <1>2, <1>3

\* A larger gain at a lower price is rounded to no less.
LEMMA RoundedOrder ==
    ASSUME NEW m \in Nat, NEW n \in Nat, NEW c \in Nat \ {0}, NEW d \in Nat \ {0},
           m <= n, d <= c
    PROVE  Rounded(m, c) \in Nat /\ Rounded(n, d) \in Nat /\ Rounded(m, c) <= Rounded(n, d)
<1> DEFINE q == (2 * m + c) \div (2 * c)
           r == (2 * n + d) \div (2 * d)
<1>1. q \in Nat /\ q * (2 * c) <= 2 * m + c
    OBVIOUS
<1>2. r \in Nat /\ 2 * n + d < (r + 1) * (2 * d)
    OBVIOUS
<1>3. ASSUME r < q PROVE FALSE
    <2> HIDE DEF q, r
    <2>1. (r + 1) * (2 * d) <= q * (2 * d)
        <3>1. r + 1 \in Nat /\ r + 1 <= q /\ 2 * d \in Nat
            BY <1>1, <1>2, <1>3
        <3> QED BY <1>1, <3>1, ProductOrder
    <2>2. PICK p \in Nat : q = p + 1
        <3>1. q - 1 \in Nat /\ q = (q - 1) + 1
            BY <1>1, <1>2, <1>3
        <3> QED BY <3>1
    <2>3. q * (2 * d) = 2 * (p * d) + 2 * d /\ q * (2 * c) = 2 * (p * c) + 2 * c
        BY <2>2
    <2>4. p * d \in Nat /\ p * c \in Nat /\ p * d <= p * c
        BY ProductOrder
    <2>5. 2 * n + d < 2 * (p * d) + 2 * d
        BY <1>2, <2>1, <2>3, <2>4
    <2>6. 2 * (p * c) + c <= 2 * m
        BY <1>1, <2>3, <2>4
    <2> QED BY <2>4, <2>5, <2>6
<1> QED BY <1>1, <1>2, <1>3 DEF Rounded

\* Gains, prices and scores are natural numbers, and nothing is for free.
LEMMA ScoreTypes ==
    ASSUME NEW e \in Estimates
    PROVE  Gain(e) \in Nat /\ Price(e) \in Nat \ {0} /\ Score(e) \in Nat
<1>1. /\ e.impact \in Nat /\ e.confidence \in Nat /\ e.revenue_alignment \in Nat
      /\ e.reversibility \in Nat /\ e.effort \in Nat /\ e.time_to_signal \in Nat
    BY DEF Estimates, Grade
<1>2. Gain(e) \in Nat
    BY <1>1, ProductOrder DEF Gain
<1>3. Price(e) \in Nat \ {0}
    BY <1>1 DEF Price
<1>4. Rounded(Gain(e), Price(e)) \in Nat
    BY <1>2, <1>3, RoundedOrder
<1> QED BY <1>2, <1>3, <1>4 DEF Score

\* An estimate that dominates another has no lower score.
LEMMA ScoreOrder ==
    ASSUME NEW x \in Estimates, NEW y \in Estimates, Dominates(x, y)
    PROVE  Score(x) >= Score(y)
<1>1. /\ \A e \in Estimates : e.impact \in Nat /\ e.confidence \in Nat
                              /\ e.revenue_alignment \in Nat /\ e.reversibility \in Nat
                              /\ e.effort \in Nat /\ e.time_to_signal \in Nat
      /\ y.impact <= x.impact /\ y.confidence <= x.confidence
      /\ y.revenue_alignment <= x.revenue_alignment /\ y.reversibility <= x.reversibility
      /\ x.effort <= y.effort /\ x.time_to_signal <= y.time_to_signal
    BY DEF Dominates, Estimates, Grade
<1>2. Gain(y) <= Gain(x)
    <2>1. /\ y.impact * y.confidence \in Nat /\ x.impact * x.confidence \in Nat
          /\ y.impact * y.confidence <= x.impact * x.confidence
        BY <1>1, ProductOrder
    <2> DEFINE f(e) == (10 + e.revenue_alignment) * (10 + e.reversibility)
    <2>2. f(y) \in Nat /\ f(x) \in Nat /\ f(y) <= f(x)
        BY <1>1, ProductOrder
    <2> HIDE DEF f
    <2>3. (y.impact * y.confidence) * f(y) <= (x.impact * x.confidence) * f(x)
        BY <2>1, <2>2, ProductOrder
    <2> QED BY <2>3 DEF Gain, f
<1>3. Price(x) <= Price(y)
    <2>1. /\ (10 + x.effort) * (10 + x.time_to_signal) \in Nat
          /\ (10 + y.effort) * (10 + y.time_to_signal) \in Nat
          /\ (10 + x.effort) * (10 + x.time_to_signal)
                <= (10 + y.effort) * (10 + y.time_to_signal)
        BY <1>1, ProductOrder
    <2> QED BY <2>1 DEF Price
<1>4. LET s(e) == Rounded(Gain(e), Price(e))
      IN  s(x) \in Nat /\ s(y) \in Nat /\ s(y) <= s(x)
    BY <1>2, <1>3, ScoreTypes, RoundedOrder
<1> QED BY <1>4 DEF Score
-----------------------------------------------------------------------------
(***************************************************************************)
(* The ranking: each place is taken by one proposal (agents.py:272).       *)
(***************************************************************************)
\* Whatever is ahead of a proposal has fewer ahead of it.
LEMMA FewerAhead ==
    ASSUME NEW n \in Nat, NEW es \in [1..n -> Estimates],
           NEW i \in 1..n, NEW j \in Ahead(es, i)
    PROVE  /\ IsFiniteSet(Ahead(es, i)) /\ Cardinality(Ahead(es, i)) \in Nat
           /\ j \in 1..n /\ Cardinality(Ahead(es, j)) < Cardinality(Ahead(es, i))
<1>1. \A k \in 1..n : Score(es[k]) \in Nat
    BY ScoreTypes
<1>2. Ahead(es, i) \in SUBSET (1..n) /\ j \in 1..n
    BY DEF Ahead
<1>3. IsFiniteSet(1..n)
    BY FS_Interval
<1>4. IsFiniteSet(Ahead(es, i))
    BY <1>2, <1>3, FS_Subset
<1>5. Ahead(es, j) \in SUBSET Ahead(es, i) /\ j \notin Ahead(es, j)
    BY <1>1, <1>2 DEF Ahead
<1>6. /\ IsFiniteSet(Ahead(es, j))
      /\ Cardinality(Ahead(es, j)) <= Cardinality(Ahead(es, i))
      /\ Cardinality(Ahead(es, i)) = Cardinality(Ahead(es, j)) => Ahead(es, i) = Ahead(es, j)
    BY <1>4, <1>5, FS_Subset
<1>7. Cardinality(Ahead(es, i)) \in Nat /\ Cardinality(Ahead(es, j)) \in Nat
    BY <1>4, <1>6, FS_CardinalityType
<1> QED BY <1>2, <1>4, <1>5, <1>6, <1>7

\* There is a proposal for every place, by counting.
LEMMA PlacesTaken ==
    ASSUME NEW n \in Nat, NEW es \in [1..n -> Estimates], NEW k \in 1..n
    PROVE  \E i \in DOMAIN es : Cardinality(Ahead(es, i)) = k - 1
<1> DEFINE T == 0 .. n - 1
           c == [i \in 1..n |-> Cardinality(Ahead(es, i))]
<1>1. IsFiniteSet(1..n) /\ Cardinality(1..n) = n
    BY FS_Interval
<1>2. IsFiniteSet(T) /\ Cardinality(T) = n
    BY FS_Interval
<1>3. \A i \in 1..n : Score(es[i]) \in Nat
    BY ScoreTypes
<1>4. ASSUME NEW i \in 1..n PROVE Cardinality(Ahead(es, i)) \in T
    <2>1. Ahead(es, i) \in SUBSET (1..n) /\ i \notin Ahead(es, i)
        BY <1>3 DEF Ahead
    <2>2. /\ IsFiniteSet(Ahead(es, i))
          /\ Cardinality(Ahead(es, i)) <= n
          /\ n = Cardinality(Ahead(es, i)) => 1..n = Ahead(es, i)
        BY <1>1, <2>1, FS_Subset
    <2>3. Cardinality(Ahead(es, i)) \in Nat
        BY <2>2, FS_CardinalityType
    <2> QED BY <2>1, <2>2, <2>3
<1>5. ASSUME NEW i \in 1..n, NEW j \in 1..n, i # j PROVE c[i] # c[j]
    <2>1. i \in Ahead(es, j) \/ j \in Ahead(es, i)
        BY <1>3, <1>5 DEF Ahead
    <2>2. Cardinality(Ahead(es, i)) \in Nat /\ Cardinality(Ahead(es, j)) \in Nat
        BY <1>4
    <2> QED BY <2>1, <2>2, FewerAhead
<1>6. c \in Injection(1..n, T)
    BY <1>4, <1>5 DEF Injection, IsInjective
<1>7. c \in Surjection(1..n, T)
    <2> HIDE DEF c, T
    <2> QED BY <1>1, <1>2, <1>6, FS_Injection
<1>8. k - 1 \in T
    OBVIOUS
<1>9. PICK i \in 1..n : c[i] = k - 1
    BY <1>7, <1>8 DEF Surjection
<1> QED BY <1>9

\* A ranking is as long as the list of proposals, and has at each place one of them
\* with as many ahead of it as there are places before.
LEMMA RankedPlaces ==
    ASSUME NEW n \in Nat, NEW es \in [1..n -> Estimates]
    PROVE  /\ DOMAIN Ranked(es) = 1..n
           /\ \A k \in 1..n : \E i \in 1..n : /\ Ranked(es)[k] = es[i]
                                              /\ Cardinality(Ahead(es, i)) = k - 1
<1>1. DOMAIN Ranked(es) = 1..n
    BY DEF Ranked
<1>2. ASSUME NEW k \in 1..n
      PROVE  \E i \in 1..n : Ranked(es)[k] = es[i] /\ Cardinality(Ahead(es, i)) = k - 1
    <2> DEFINE i == CHOOSE x \in DOMAIN es : Cardinality(Ahead(es, x)) = k - 1
    <2>1. i \in DOMAIN es /\ Cardinality(Ahead(es, i)) = k - 1
        <3>1. \E x \in DOMAIN es : Cardinality(Ahead(es, x)) = k - 1
            BY PlacesTaken
        <3> QED BY <3>1
    <2>2. Ranked(es)[k] = es[i]
        BY DEF Ranked
    <2> QED BY <2>1, <2>2
<1> QED BY <1>1, <1>2

\* No proposal is behind one that it dominates, unless their scores are equal.
LEMMA RankedOrder ==
    ASSUME NEW n \in Nat, NEW es \in [1..n -> Estimates], NEW k \in 1..n, NEW l \in 1..n,
           k < l, Dominates(Ranked(es)[l], Ranked(es)[k])
    PROVE  Score(Ranked(es)[k]) = Score(Ranked(es)[l])
<1>1. PICK i \in 1..n : Ranked(es)[k] = es[i] /\ Cardinality(Ahead(es, i)) = k - 1
    BY RankedPlaces
<1>2. PICK j \in 1..n : Ranked(es)[l] = es[j] /\ Cardinality(Ahead(es, j)) = l - 1
    BY RankedPlaces
<1>3. j \notin Ahead(es, i)
    <2>1. ASSUME j \in Ahead(es, i) PROVE FALSE
        <3>1. Cardinality(Ahead(es, j)) < Cardinality(Ahead(es, i))
            BY <2>1, FewerAhead
        <3> QED BY <1>1, <1>2, <3>1
    <2> QED BY <2>1
<1>4. Score(es[i]) \in Nat /\ Score(es[j]) \in Nat /\ Score(es[j]) >= Score(es[i])
    BY <1>1, <1>2, ScoreTypes, ScoreOrder
<1> QED BY <1>1, <1>2, <1>3, <1>4 DEF Ahead
-----------------------------------------------------------------------------
(***************************************************************************)
(* What can be read out of an answer.                                      *)
(***************************************************************************)
\* A literal is a string, but the provers do not know that.
Word == STRING \cup Stamps
Item == [finding: Findings, word: Word]
Doc  == [shape: Shapes, items: Seq(Item), cut: BOOLEAN]

\* A document of a model is one.
LEMMA DocTypes == Document(Findings) \subseteq Doc
<1>1. [finding: Findings, word: STRING] \subseteq Item
    BY DEF Item, Word
<1>2. \A items \in Seq([finding: Findings, word: STRING]) : items \in Seq(Item)
    BY <1>1, SeqMonotonic
<1> QED BY <1>2 DEF Document, Doc

\* Every alias stands for a verdict, and the word that a specialist's stamp is replaced
\* by is none (verifier_normalization.py:3-17).
LEMMA CanonicalTypes ==
    /\ \A w \in DOMAIN Canonical : Canonical[w] \in Verdicts
    /\ "UNVERIFIED" \notin DOMAIN Canonical
<1>1. ASSUME NEW w \in DOMAIN Canonical PROVE Canonical[w] \in Verdicts
    <2>1. \E v \in Verdicts : w \in Aliases[v]
        BY <1>1 DEF Canonical
    <2>2. (CHOOSE v \in Verdicts : w \in Aliases[v]) \in Verdicts
        BY <2>1
    <2> QED BY <2>2 DEF Canonical
<1>2. \A v \in Verdicts : "UNVERIFIED" \notin Aliases[v]
    <2>1. /\ "UNVERIFIED" \notin Aliases.GROUNDED
          /\ "UNVERIFIED" \notin Aliases.PARTIAL
          /\ "UNVERIFIED" \notin Aliases.UNGROUNDED
        BY DEF Aliases
    <2> QED BY <2>1 DEF Verdicts
<1> QED BY <1>1, <1>2 DEF Canonical

\* A list that is understood as a whole becomes a list of verdicts.
LEMMA ListTypes ==
    ASSUME NEW items \in Seq(Item), \A i \in DOMAIN items : Known(items[i])
    PROVE  /\ ListOf(items) \in Seq(Verdict) /\ Len(ListOf(items)) = Len(items)
           /\ \A i \in DOMAIN items :
                 ListOf(items)[i] = [finding |-> items[i].finding,
                                     verdict |-> Canonical[items[i].word]]
<1>1. DOMAIN items = 1..Len(items) /\ Len(items) \in Nat
    BY LenProperties
<1>2. \A i \in 1..Len(items) :
          [finding |-> items[i].finding, verdict |-> Canonical[items[i].word]] \in Verdict
    <2>1. ASSUME NEW i \in 1..Len(items)
          PROVE  items[i].finding \in Findings /\ Canonical[items[i].word] \in Verdicts
        <3>1. items[i] \in Item
            BY <2>1, ElementOfSeq
        <3> QED BY <1>1, <2>1, <3>1, CanonicalTypes DEF Item, Known
    <2> QED BY <2>1 DEF Verdict, Stamps
<1>3. ListOf(items) \in [1..Len(items) -> Verdict]
    BY <1>1, <1>2 DEF ListOf
<1>4. ListOf(items) \in Seq(Verdict) /\ Len(ListOf(items)) = Len(items)
    BY <1>1, <1>3
<1> QED BY <1>4 DEF ListOf

\* The first of some positions is one of them.
LEMMA FirstOfPositions ==
    ASSUME NEW n \in Nat, NEW S \in SUBSET (1..n), S # {}
    PROVE  Min(S) \in S
<1>1. \E x \in S : \A y \in S : x <= y
    BY FirstPosition
<1> QED BY <1>1 DEF Min

\* The values of a document, and what they take over from it.
LEMMA ValuesOf ==
    ASSUME NEW doc \in Doc
    PROVE  /\ \E n \in Nat : DOMAIN Values(doc) = 1..n
           /\ \A i \in DOMAIN Values(doc) :
                 LET v == Values(doc)[i]
                 IN  \/ v.shape = "object" /\ v.items = <<>>
                     \/ ~doc.cut /\ v = doc
                     \/ ~doc.cut /\ v.shape = "array" /\ v.items = doc.items
<1> DEFINE whole == IF doc.cut THEN <<>> ELSE <<doc>>
           list  == IF doc.cut \/ doc.shape \in {"array", "object"} THEN <<>>
                    ELSE <<[doc EXCEPT !.shape = "array"]>>
           item  == [shape |-> "object", items |-> <<>>, cut |-> FALSE]
           rest  == [i \in DOMAIN doc.items |-> item]
           Good(v) == \/ v.shape = "object" /\ v.items = <<>>
                      \/ ~doc.cut /\ v = doc
                      \/ ~doc.cut /\ v.shape = "array" /\ v.items = doc.items
           T == {v \in Doc : Good(v)}
<1>1. doc.items \in Seq(Item) /\ doc.shape \in Shapes /\ doc.cut \in BOOLEAN
    BY DEF Doc, Item
<1>2. item \in T
    BY DEF Doc, Shapes
<1>3. ~doc.cut => doc \in T /\ [doc EXCEPT !.shape = "array"] \in T
    BY <1>1 DEF Doc, Shapes
<1> HIDE DEF T
<1>4. whole \in Seq(T)
    BY <1>3
<1>5. list \in Seq(T)
    BY <1>3
<1>6. rest \in Seq(T)
    <2>1. DOMAIN doc.items = 1..Len(doc.items) /\ Len(doc.items) \in Nat
        BY <1>1, LenProperties
    <2>2. rest \in [1..Len(doc.items) -> T]
        BY <1>2, <2>1
    <2> QED BY <2>1, <2>2
<1> HIDE DEF whole, list, rest
<1>7. Values(doc) = whole \o list \o rest
    BY DEF Values, whole, list, rest
<1>8. Values(doc) \in Seq(T)
    <2>1. whole \o list \in Seq(T)
        BY <1>4, <1>5, ConcatProperties
    <2> QED BY <1>6, <1>7, <2>1, ConcatProperties
<1>9. /\ DOMAIN Values(doc) = 1..Len(Values(doc)) /\ Len(Values(doc)) \in Nat
      /\ \A i \in DOMAIN Values(doc) : Values(doc)[i] \in T
    BY <1>8, LenProperties, ElementOfSeq
<1> HIDE DEF Good
<1>10. \A v \in T : Good(v)
    BY DEF T
<1> QED BY <1>9, <1>10 DEF Good

\* What the first accepted value of a document yields is read from one of its values.
LEMMA FromOneValue ==
    ASSUME NEW doc \in Doc, NEW role, NEW out \in FromDocument(role, doc)
    PROVE  \E i \in DOMAIN Values(doc) : out \in AsOutput(role, Values(doc)[i])
<1> DEFINE good == {i \in DOMAIN Values(doc) : AsOutput(role, Values(doc)[i]) # {}}
<1>1. good # {} /\ out \in AsOutput(role, Values(doc)[Min(good)])
    BY DEF FromDocument
<1>2. PICK n \in Nat : DOMAIN Values(doc) = 1..n
    BY ValuesOf
<1>3. Min(good) \in good
    <2>1. good \in SUBSET (1..n)
        BY <1>2
    <2> HIDE DEF good
    <2> QED BY <1>1, <2>1, FirstOfPositions
<1> QED BY <1>1, <1>3

\* And what an answer yields is read from one of its documents.
LEMMA FromOneDocument ==
    ASSUME NEW docs, NEW n \in Nat, DOMAIN docs = 1..n,
           NEW role, NEW out \in Parsed(role, docs)
    PROVE  \E d \in DOMAIN docs : out \in FromDocument(role, docs[d])
<1> DEFINE good == {d \in DOMAIN docs : FromDocument(role, docs[d]) # {}}
<1>1. good # {} /\ out \in FromDocument(role, docs[Min(good)])
    BY DEF Parsed
<1>2. Min(good) \in good
    <2>1. good \in SUBSET (1..n)
        OBVIOUS
    <2> HIDE DEF good
    <2> QED BY <1>1, <2>1, FirstOfPositions
<1> QED BY <1>1, <1>2

\* The verdicts that a document yields, if any, are all that it lists, and it arrived
\* whole and was understood whole.
LEMMA VerdictsFrom ==
    ASSUME NEW doc \in Doc, NEW out \in FromDocument("verifier", doc)
    PROVE  /\ out \in Seq(Verdict) /\ Len(out) <= MaxVerdicts
           /\ out # <<>> => /\ ~doc.cut
                            /\ \A i \in DOMAIN doc.items : Known(doc.items[i])
                            /\ out = ListOf(doc.items)
<1>1. PICK i \in DOMAIN Values(doc) : out \in AsVerdicts(Values(doc)[i])
    BY FromOneValue DEF AsOutput
<1> DEFINE v == Values(doc)[i]
<1>2. \/ v.shape = "object" /\ v.items = <<>>
      \/ ~doc.cut /\ v.items = doc.items
    BY ValuesOf
<1>3. doc.items \in Seq(Item)
    BY DEF Doc, Item
<1>4. MaxVerdicts \in Nat
    BY AnswerAssumption
<1> HIDE DEF v
<1>5. CASE out = <<>>
    BY <1>4, <1>5
<1>6. CASE out # <<>>
    <2>1. v.shape # "object" /\ out \in Normalised(v) /\ Fits(out)
        BY <1>1, <1>6 DEF AsVerdicts, v
    <2>2. (\A k \in DOMAIN v.items : Known(v.items[k])) /\ out = ListOf(v.items)
        BY <2>1 DEF Normalised
    <2>3. ~doc.cut /\ v.items = doc.items
        BY <1>2, <2>1
    <2>4. out \in Seq(Verdict)
        BY <1>3, <2>2, <2>3, ListTypes
    <2> QED BY <2>1, <2>2, <2>3, <2>4 DEF Fits
<1> QED BY <1>5, <1>6

\* The findings that a document yields.
LEMMA FindingsFrom ==
    ASSUME NEW doc \in Doc, NEW out \in FromDocument("diagnostician", doc)
    PROVE  out \in Seq(Verdict) /\ Len(out) <= MaxFindings
<1>1. PICK i \in DOMAIN Values(doc) : out \in AsFindings(Values(doc)[i])
    BY FromOneValue DEF AsOutput
<1> DEFINE v == Values(doc)[i]
           entry(k) == [finding |-> v.items[k].finding, verdict |-> v.items[k].word]
<1>2. v.items = <<>> \/ v.items = doc.items
    BY ValuesOf
<1>3. v.items \in Seq(Item)
    <2>1. doc.items \in Seq(Item) /\ <<>> \in Seq(Item)
        BY DEF Doc, Item
    <2> HIDE DEF v
    <2> QED BY <1>2, <2>1
<1>4. /\ Len(v.items) <= MaxFindings
      /\ \A k \in DOMAIN v.items : v.items[k].word \in Stamps
      /\ out = [k \in DOMAIN v.items |-> entry(k)]
    BY <1>1 DEF AsFindings
<1>5. DOMAIN v.items = 1..Len(v.items) /\ Len(v.items) \in Nat
    BY <1>3, LenProperties
<1>6. \A k \in 1..Len(v.items) : entry(k) \in Verdict
    <2>1. ASSUME NEW k \in 1..Len(v.items) PROVE v.items[k] \in Item
        BY <1>3, <2>1, ElementOfSeq
    <2> QED BY <1>4, <1>5, <2>1 DEF Item, Verdict
<1> HIDE DEF v, entry
<1>7. out \in [1..Len(v.items) -> Verdict]
    BY <1>4, <1>5, <1>6
<1> QED BY <1>4, <1>5, <1>7
-----------------------------------------------------------------------------
(***************************************************************************)
(* Types.                                                                  *)
(***************************************************************************)
Answer == [docs: Seq(Doc), usage: Usages]

\* The answers of an attempt are answers.
TypesInv == TypeOK /\ heard \in Seq(Answer) /\ said \in Seq(Answer)

\* What a model may write is a sequence of documents about findings.
LEMMA AnswerTypes ==
    ASSUME TypesInv, turn \in {"diagnostician", "verifier"}, NEW docs \in Answers(turn)
    PROVE  docs \in Seq(Doc) /\ \A d \in DOMAIN docs :
                docs[d] \in Documents[turn] \/ (turn = "verifier" /\ docs[d] = Echo)
<1> DEFINE own == Documents[turn] \cup IF turn = "verifier" THEN {Echo} ELSE {}
<1>1. PICK n \in 0..MaxDocs : docs \in [1..n -> own]
    BY DEF Answers
<1>2. Documents[turn] \subseteq Doc
    BY CallsAssumption, DocTypes
<1>3. Echo \in Doc
    <2>1. findings \in Seq(Verdict)
        BY DEF TypesInv, TypeOK
    <2> DEFINE entry(k) == [finding |-> findings[k].finding, word |-> findings[k].verdict]
    <2>2. DOMAIN findings = 1..Len(findings) /\ Len(findings) \in Nat
        BY <2>1, LenProperties
    <2>3. \A k \in 1..Len(findings) : entry(k) \in Item
        <3>1. ASSUME NEW k \in 1..Len(findings)
              PROVE  findings[k].finding \in Findings /\ findings[k].verdict \in Stamps
            <4>1. findings[k] \in Verdict
                BY <2>1, <3>1, ElementOfSeq
            <4> QED BY <4>1 DEF Verdict
        <3> QED BY <3>1 DEF Item, Word
    <2> HIDE DEF entry
    <2>4. [k \in DOMAIN findings |-> entry(k)] \in Seq(Item)
        BY <2>2, <2>3
    <2> QED BY <2>4 DEF Echo, Doc, Shapes, entry
<1>4. own \subseteq Doc /\ n \in Nat
    BY <1>2, <1>3, CallsAssumption
<1>5. docs \in [1..n -> Doc] /\ \A d \in 1..n : docs[d] \in own
    BY <1>1, <1>4
<1>6. DOMAIN docs = 1..n
    BY <1>5
<1> QED BY <1>4, <1>5, <1>6

\* A sequence that is not empty and has at most one element has one.
LEMMA OnlyElement ==
    ASSUME NEW S, NEW f \in Seq(S), f # <<>>, Len(f) <= 1
    PROVE  Len(f) = 1 /\ f[1] \in S
<1>1. Len(f) \in Nat /\ Len(f) # 0
    BY EmptySeq, LenProperties
<1>2. Len(f) = 1
    BY <1>1
<1> QED BY <1>2, ElementOfSeq

\* What the adapter returns with its telemetry.
LEMMA ReturnTypes ==
    ASSUME TypesInv, NEW answer \in Answer, NEW next \in {"verifier", "judge", "over"},
           Returns(answer, next)
    PROVE  /\ said' \in Seq(Answer) /\ Len(said') = Len(heard) + 1 /\ Len(said') <= 2
           /\ said'[Len(said')] = answer
           /\ tokens' \in Nat \cup {NoUsage}
           /\ attempt' \in 1..MaxAttempts
           /\ heard' = <<>> /\ turn' = next
<1>1. heard \in Seq(Answer) /\ Len(heard) \in Nat /\ Len(heard) <= 1
    BY LenProperties DEF TypesInv, TypeOK
<1>2. /\ said' \in Seq(Answer) /\ Len(said') = Len(heard) + 1
      /\ said'[Len(heard) + 1] = answer
    BY <1>1, AppendProperties DEF Returns
<1>3. heard # <<>> => heard[1].usage \in Nat \cup {NoUsage}
    <2>1. \A a \in Answer : a.usage \in Usages
        BY DEF Answer
    <2>2. heard # <<>> => heard[1] \in Answer
        BY <1>1, OnlyElement
    <2> QED BY <2>1, <2>2, CallsAssumption
<1>4. tokens' \in Nat \cup {NoUsage}
    <2>1. answer.usage \in Nat \cup {NoUsage}
        BY CallsAssumption DEF Answer
    <2>2. CASE heard = <<>>
        BY <2>1, <2>2 DEF Returns
    <2>3. CASE heard # <<>>
        <3>1. tokens' = Sum(heard[1].usage, answer.usage)
            BY <2>3 DEF Returns
        <3>2. \A x, y \in Nat \cup {NoUsage} : Sum(x, y) \in Nat \cup {NoUsage}
            BY DEF Sum
        <3> QED BY <1>3, <2>1, <2>3, <3>1, <3>2
    <2> QED BY <2>2, <2>3
<1> QED BY <1>1, <1>2, <1>4, CallsAssumption DEF Returns

\* The merge keeps the findings and takes stamps from the verdicts.
LEMMA StampedTypes ==
    ASSUME findings \in Seq(Verdict), NEW list \in Seq(Verdict)
    PROVE  /\ Stamped(list) \in Seq(Verdict) /\ Len(Stamped(list)) = Len(findings)
           /\ \A i \in DOMAIN findings :
                 \/ Stamped(list)[i] = findings[i]
                 \/ list # <<>> /\ \E k \in DOMAIN list : Stamped(list)[i] = list[k]
<1> DEFINE about(i) == {k \in DOMAIN list : list[k].finding = findings[i].finding}
           new(i) == IF about(i) = {} THEN findings[i] ELSE list[Max(about(i))]
<1>1. /\ DOMAIN findings = 1..Len(findings) /\ Len(findings) \in Nat
      /\ DOMAIN list = 1..Len(list) /\ Len(list) \in Nat
    BY LenProperties
<1>2. ASSUME NEW i \in 1..Len(findings)
      PROVE  new(i) = findings[i] \/ \E k \in DOMAIN list : new(i) = list[k]
    <2>1. CASE about(i) # {}
        <3>1. about(i) \in SUBSET (1..Len(list))
            BY <1>1
        <3> HIDE DEF about
        <3>2. PICK x \in about(i) : \A y \in about(i) : y <= x
            BY <1>1, <2>1, <3>1, LastPosition
        <3>3. \A y \in about(i) : x >= y
            BY <3>1, <3>2
        <3>4. Max(about(i)) \in about(i)
            BY <3>3 DEF Max
        <3> QED BY <1>1, <2>1, <3>1, <3>4
    <2> QED BY <2>1
<1>3. ASSUME NEW i \in 1..Len(findings) PROVE new(i) \in Verdict
    BY <1>1, <1>2, <1>3, ElementOfSeq
<1>4. Stamped(list) = [i \in DOMAIN findings |-> new(i)]
    BY DEF Stamped
<1> HIDE DEF new
<1>5. Stamped(list) \in [1..Len(findings) -> Verdict]
    BY <1>1, <1>3, <1>4
<1>6. Stamped(list) \in Seq(Verdict) /\ Len(Stamped(list)) = Len(findings)
    BY <1>1, <1>5
<1>7. \A i \in DOMAIN findings : Stamped(list)[i] = new(i)
    BY <1>4
<1> QED BY <1>1, <1>2, <1>6, <1>7

\* What the specialist's own documents yield are findings.
LEMMA SpecialistOutput ==
    ASSUME TypesInv, turn = "diagnostician", NEW docs \in Answers(turn),
           NEW list \in Parsed(turn, docs)
    PROVE  list \in Seq(Verdict) /\ Len(list) <= MaxFindings
<1>1. docs \in Seq(Doc)
    BY AnswerTypes
<1>2. Len(docs) \in Nat /\ DOMAIN docs = 1..Len(docs)
    BY <1>1, LenProperties
<1>3. PICK d \in DOMAIN docs : list \in FromDocument(turn, docs[d])
    BY <1>2, FromOneDocument
<1>4. docs[d] \in Doc
    BY <1>1, <1>2, <1>3, ElementOfSeq
<1> QED BY <1>3, <1>4, FindingsFrom

\* What the verifier's answer yields are the verdicts of a document of it.
LEMMA VerifierOutput ==
    ASSUME TypesInv, turn = "verifier", NEW docs \in Answers(turn),
           NEW list \in Parsed(turn, docs)
    PROVE  /\ list \in Seq(Verdict) /\ Len(list) <= MaxVerdicts
           /\ list # <<>> =>
                 \E d \in DOMAIN docs :
                    /\ docs[d] \in Doc /\ ~docs[d].cut
                    /\ \A i \in DOMAIN docs[d].items : Known(docs[d].items[i])
                    /\ list = ListOf(docs[d].items)
<1>1. docs \in Seq(Doc)
    BY AnswerTypes
<1>2. Len(docs) \in Nat /\ DOMAIN docs = 1..Len(docs)
    BY <1>1, LenProperties
<1>3. PICK d \in DOMAIN docs : list \in FromDocument(turn, docs[d])
    BY <1>2, FromOneDocument
<1>4. docs[d] \in Doc
    BY <1>1, <1>2, <1>3, ElementOfSeq
<1>5. /\ list \in Seq(Verdict) /\ Len(list) <= MaxVerdicts
      /\ list # <<>> => /\ ~docs[d].cut
                        /\ \A i \in DOMAIN docs[d].items : Known(docs[d].items[i])
                        /\ list = ListOf(docs[d].items)
    BY <1>3, <1>4, VerdictsFrom
<1> QED BY <1>4, <1>5

\* A specialist's findings leave its call unverified.
LEMMA UnverifiedTypes ==
    ASSUME NEW list \in Seq(Verdict)
    PROVE  /\ ForceUnverified(list) \in Seq(Verdict)
           /\ Len(ForceUnverified(list)) = Len(list)
           /\ \A i \in DOMAIN ForceUnverified(list) :
                 ForceUnverified(list)[i].verdict = "UNVERIFIED"
<1>1. DOMAIN list = 1..Len(list) /\ Len(list) \in Nat
    BY LenProperties
<1>2. ASSUME NEW i \in 1..Len(list)
      PROVE  /\ [list[i] EXCEPT !.verdict = "UNVERIFIED"] \in Verdict
             /\ [list[i] EXCEPT !.verdict = "UNVERIFIED"].verdict = "UNVERIFIED"
    <2>1. list[i] \in Verdict
        BY <1>2, ElementOfSeq
    <2> QED BY <2>1 DEF Verdict, Stamps
<1>3. ForceUnverified(list) \in [1..Len(list) -> Verdict]
    BY <1>1, <1>2 DEF ForceUnverified
<1>4. DOMAIN ForceUnverified(list) = 1..Len(list)
    BY <1>3
<1>5. \A i \in 1..Len(list) : ForceUnverified(list)[i].verdict = "UNVERIFIED"
    BY <1>1, <1>2 DEF ForceUnverified
<1>6. ForceUnverified(list) \in Seq(Verdict) /\ Len(ForceUnverified(list)) = Len(list)
    BY <1>1, <1>3
<1> QED BY <1>4, <1>5, <1>6

\* A ranking is a list of the proposals.
LEMMA RankingTypes ==
    ASSUME NEW n \in Nat, NEW es \in [1..n -> Options]
    PROVE  Ranked(es) \in Seq(Options) /\ Len(Ranked(es)) = n /\ es \in [1..n -> Estimates]
<1>1. es \in [1..n -> Estimates]
    BY CallsAssumption
<1>2. /\ DOMAIN Ranked(es) = 1..n
      /\ \A k \in 1..n : \E i \in 1..n : Ranked(es)[k] = es[i]
    BY <1>1, RankedPlaces
<1>3. \A k \in 1..n : Ranked(es)[k] \in Options
    BY <1>2
<1>4. Ranked(es) = [k \in 1..n |-> Ranked(es)[k]]
    BY <1>2 DEF Ranked
<1>5. Ranked(es) \in [1..n -> Options]
    BY <1>3, <1>4
<1> QED BY <1>1, <1>5

\* Every step keeps the types.
LEMMA StepTypes == TypesInv /\ [Next]_vars => TypesInv'
<1> SUFFICES ASSUME TypesInv, [Next]_vars PROVE TypesInv'
    OBVIOUS
<1> USE DEF TypesInv
<1>1. /\ MaxAttempts \in Nat \ {0} /\ Usages \subseteq Nat \cup {NoUsage}
      /\ MaxVerdicts \in Nat /\ MaxFindings \in Nat /\ MaxChosen \in Nat
    BY CallsAssumption, AnswerAssumption
<1>2. \A S : <<>> \in Seq(S) /\ Len(<<>>) = 0
    BY EmptySeq
<1>3. ASSUME AttemptFails, turn \in Roles PROVE TypesInv'
    <2>1. heard' = <<>> /\ UNCHANGED <<findings, verdicts, ranking>>
        BY <1>3 DEF AttemptFails
    <2>2. /\ attempt' \in 1..MaxAttempts /\ turn' \in Roles \cup {"over", "failed"}
          /\ tokens' \in Nat \cup {NoUsage}
          /\ said' \in Seq(Answer) /\ Len(said') <= 2
        <3>1. CASE attempt < MaxAttempts
            BY <1>1, <1>3, <3>1 DEF AttemptFails, TypeOK
        <3>2. CASE ~(attempt < MaxAttempts)
            BY <1>1, <1>2, <1>3, <3>2 DEF AttemptFails, AfterFailure, Roles
        <3> QED BY <3>1, <3>2
    <2> QED BY <1>2, <2>1, <2>2 DEF TypeOK
<1>4. ASSUME NEW answer \in Answer, AskRepair(answer) PROVE TypesInv'
    <2>1. heard' \in Seq(Answer) /\ Len(heard') = 1
        BY <1>4 DEF AskRepair
    <2> QED BY <1>4, <2>1 DEF AskRepair, TypeOK
<1>5. CASE RequestFails
    BY <1>3, <1>5 DEF RequestFails
<1>6. CASE RunSpecialist
    <2>1. PICK docs \in Answers(turn), usage \in Usages :
             LET answer == [docs |-> <<>>, usage |-> usage]
                 output == Parsed(turn, docs)
             IN  \/ \E list \in output :
                       /\ findings' = ForceUnverified(list)
                       /\ Returns(answer, "verifier")
                       /\ UNCHANGED <<verdicts, ranking>>
                 \/ output = {} /\ heard = <<>> /\ AskRepair(answer)
                 \/ output = {} /\ heard # <<>> /\ AttemptFails
        BY <1>6 DEF RunSpecialist
    <2> DEFINE answer == [docs |-> <<>>, usage |-> usage]
    <2>2. answer \in Answer
        BY <1>2 DEF Answer
    <2>3. turn = "diagnostician"
        BY <1>6 DEF RunSpecialist
    <2> HIDE DEF answer
    <2>4. ASSUME NEW list \in Parsed(turn, docs), findings' = ForceUnverified(list),
                 Returns(answer, "verifier"), UNCHANGED <<verdicts, ranking>>
          PROVE  TypesInv'
        <3>1. list \in Seq(Verdict) /\ Len(list) <= MaxFindings
            BY <2>3, SpecialistOutput
        <3>2. findings' \in Seq(Verdict) /\ Len(findings') <= MaxFindings
            BY <2>4, <3>1, UnverifiedTypes
        <3>3. /\ said' \in Seq(Answer) /\ Len(said') <= 2
              /\ tokens' \in Nat \cup {NoUsage} /\ attempt' \in 1..MaxAttempts
              /\ heard' = <<>> /\ turn' = "verifier"
            BY <2>2, <2>4, ReturnTypes
        <3> QED BY <1>2, <2>4, <3>2, <3>3 DEF TypeOK, Roles
    <2> QED BY <1>3, <1>4, <2>1, <2>2, <2>3, <2>4 DEF answer, Roles
<1>7. CASE RunVerifier
    <2>1. PICK docs \in Answers(turn), usage \in Usages :
             LET answer == [docs |-> docs, usage |-> usage]
                 output == Parsed(turn, docs)
             IN  \/ \E list \in output : VerifierReturns(list, answer)
                 \/ output = {} /\ heard = <<>> /\ AskRepair(answer)
                 \/ output = {} /\ heard # <<>> /\ VerifierReturns(<<>>, answer)
        BY <1>7 DEF RunVerifier
    <2> DEFINE answer == [docs |-> docs, usage |-> usage]
    <2>2. turn = "verifier"
        BY <1>7 DEF RunVerifier
    <2>3. answer \in Answer
        BY <2>2, AnswerTypes DEF Answer
    <2> HIDE DEF answer
    <2>4. ASSUME NEW list \in Seq(Verdict), Len(list) <= MaxVerdicts,
                 VerifierReturns(list, answer)
          PROVE  TypesInv'
        <3>1. findings' \in Seq(Verdict) /\ Len(findings') <= MaxFindings
            BY <2>4, StampedTypes DEF VerifierReturns, TypeOK
        <3>2. /\ said' \in Seq(Answer) /\ Len(said') <= 2
              /\ tokens' \in Nat \cup {NoUsage} /\ attempt' \in 1..MaxAttempts
              /\ heard' = <<>> /\ turn' = "judge"
            BY <2>3, <2>4, ReturnTypes DEF VerifierReturns
        <3> QED BY <1>2, <2>4, <3>1, <3>2 DEF TypeOK, Roles, VerifierReturns
    <2>5. \A list \in Parsed(turn, docs) : list \in Seq(Verdict) /\ Len(list) <= MaxVerdicts
        BY <2>2, VerifierOutput
    <2>6. (\E list \in Parsed(turn, docs) : VerifierReturns(list, answer)) => TypesInv'
        BY <2>4, <2>5
    <2>7. VerifierReturns(<<>>, answer) => TypesInv'
        <3>1. <<>> \in Seq(Verdict) /\ Len(<<>>) <= MaxVerdicts
            BY <1>1, <1>2
        <3> QED BY <2>4, <3>1
    <2>8. AskRepair(answer) => TypesInv'
        BY <1>4, <2>3
    <2> HIDE DEF TypesInv
    <2> QED BY <2>1, <2>6, <2>7, <2>8 DEF answer
<1>8. CASE JudgeSpared
    BY <1>2, <1>8 DEF JudgeSpared, TypeOK
<1>9. CASE RunJudge
    <2>1. PICK n \in 0..MaxChosen : \E es \in [1..n -> Options], usage \in Usages :
             /\ ranking' = Ranked(es)
             /\ Returns([docs |-> <<>>, usage |-> usage], "over")
        BY <1>9 DEF RunJudge
    <2>2. PICK es \in [1..n -> Options], usage \in Usages :
             /\ ranking' = Ranked(es)
             /\ Returns([docs |-> <<>>, usage |-> usage], "over")
        BY <2>1
    <2>3. ranking' \in Seq(Options) /\ Len(ranking') <= MaxChosen
        BY <1>1, <2>2, RankingTypes
    <2>4. [docs |-> <<>>, usage |-> usage] \in Answer
        BY <1>2 DEF Answer
    <2>5. /\ said' \in Seq(Answer) /\ Len(said') <= 2
          /\ tokens' \in Nat \cup {NoUsage} /\ attempt' \in 1..MaxAttempts
          /\ heard' = <<>> /\ turn' = "over"
        BY <2>2, <2>4, ReturnTypes
    <2>6. UNCHANGED <<findings, verdicts>>
        BY <1>9 DEF RunJudge
    <2> QED BY <1>2, <2>3, <2>5, <2>6 DEF TypeOK
<1>10. CASE UNCHANGED vars
    BY <1>10 DEF vars, TypeOK
<1> QED BY <1>5, <1>6, <1>7, <1>8, <1>9, <1>10 DEF Next

\* Before the first call nothing has been said.
LEMMA InitTypes == Init => TypesInv
<1>1. \A S : <<>> \in Seq(S) /\ Len(<<>>) = 0
    BY EmptySeq
<1> QED BY <1>1, CallsAssumption, AnswerAssumption DEF Init, TypesInv, TypeOK, Roles

LEMMA AlwaysTypes == Spec => []TypesInv
<1> QED BY InitTypes, StepTypes, PTL DEF Spec

\* Type correctness: whatever models write, no list is longer than its schema
\* admits, no attempt is beyond the last, and no call asks for a third answer
\* (openai_compatible.py:84-108, schemas/agents.py, workflows/portfolio.py:73-74).
THEOREM AgentTypes == Spec => []TypeOK
<1>1. TypesInv => TypeOK
    BY DEF TypesInv
<1> QED BY <1>1, AlwaysTypes, PTL
-----------------------------------------------------------------------------
(***************************************************************************)
(* What clears a finding.                                                  *)
(***************************************************************************)
\* The verdicts are the list of a document of the verifier's own, which arrived
\* whole and was understood whole.
InForce ==
    \E n \in DOMAIN said : \E d \in DOMAIN said[n].docs :
        LET doc == said[n].docs[d]
        IN  /\ ~doc.cut /\ doc.shape # "report"
            /\ \A i \in DOMAIN doc.items : Known(doc.items[i])
            /\ verdicts = ListOf(doc.items)

\* Until the verifier has spoken every finding is unverified, and after it nothing is
\* eligible without a verdict.
ClearedInv ==
    /\ turn \in {"diagnostician", "verifier"} =>
          verdicts = <<>> /\ \A i \in DOMAIN findings : findings[i].verdict = "UNVERIFIED"
    /\ turn = "judge" => /\ Eligible # {} => verdicts # <<>>
                         /\ verdicts # <<>> => InForce

\* Findings that nobody verified are not eligible.
LEMMA NobodyEligible ==
    ASSUME \A i \in DOMAIN findings : findings[i].verdict = "UNVERIFIED"
    PROVE  Eligible = {}
<1> QED BY DEF Eligible

\* A failed attempt clears nothing.
LEMMA FailureClears ==
    ASSUME ClearedInv, turn \in Roles, AttemptFails
    PROVE  ClearedInv'
<1>1. UNCHANGED <<findings, verdicts>>
    BY DEF AttemptFails
<1>2. Eligible' = Eligible
    BY <1>1 DEF Eligible
<1>3. CASE attempt < MaxAttempts
    <2>1. UNCHANGED <<turn, said>>
        BY <1>3 DEF AttemptFails
    <2> QED BY <1>1, <1>2, <2>1 DEF ClearedInv, InForce
<1>4. CASE ~(attempt < MaxAttempts)
    <2>1. turn' = AfterFailure(turn)
        BY <1>4 DEF AttemptFails
    <2>2. CASE turn = "judge"
        BY <2>1, <2>2 DEF AfterFailure, ClearedInv
    <2>3. CASE turn \in {"diagnostician", "verifier"}
        <3>1. verdicts = <<>> /\ \A i \in DOMAIN findings : findings[i].verdict = "UNVERIFIED"
            BY <2>3 DEF ClearedInv
        <3>2. Eligible' = {}
            BY <1>2, <3>1, NobodyEligible
        <3> QED BY <1>1, <3>1, <3>2 DEF ClearedInv
    <2> QED BY <2>2, <2>3 DEF Roles
<1> QED BY <1>3, <1>4

\* The verifier cannot clear a finding by repeating what it was shown.
LEMMA OwnDocument ==
    ASSUME TypesInv, ClearedInv, turn = "verifier", NEW docs \in Answers(turn),
           NEW d \in DOMAIN docs, docs[d].items # <<>>,
           \A i \in DOMAIN docs[d].items : Known(docs[d].items[i])
    PROVE  docs[d].shape # "report"
<1>1. docs[d] \in Documents["verifier"] \/ docs[d] = Echo
    BY AnswerTypes
<1>2. ASSUME docs[d] = Echo PROVE FALSE
    <2>1. findings \in Seq(Verdict)
        BY DEF TypesInv, TypeOK
    <2>2. /\ DOMAIN Echo.items = DOMAIN findings
          /\ \A i \in DOMAIN findings : Echo.items[i].word = findings[i].verdict
        BY DEF Echo
    <2>3. findings # <<>>
        <3>1. CASE findings = <<>>
            <4>1. Echo.items = <<>>
                BY <2>2, <3>1 DEF Echo
            <4> QED BY <1>2, <4>1
        <3> QED BY <3>1
    <2>4. 1 \in DOMAIN findings
        <3>1. Len(findings) \in Nat /\ Len(findings) # 0 /\ DOMAIN findings = 1..Len(findings)
            BY <2>1, <2>3, EmptySeq, LenProperties
        <3> QED BY <3>1
    <2>5. findings[1].verdict = "UNVERIFIED"
        BY <2>4 DEF ClearedInv
    <2> QED BY <1>2, <2>2, <2>4, <2>5, CanonicalTypes DEF Known
<1> QED BY <1>1, <1>2, CallsAssumption

\* A list that the verifier returns is in force, and clears nothing if it is empty.
LEMMA VerdictsClear ==
    ASSUME TypesInv, ClearedInv, turn = "verifier", NEW docs \in Answers(turn),
           NEW usage \in Usages, NEW list,
           list = <<>> \/ list \in Parsed(turn, docs),
           VerifierReturns(list, [docs |-> docs, usage |-> usage])
    PROVE  ClearedInv'
<1> DEFINE answer == [docs |-> docs, usage |-> usage]
<1>1. docs \in Seq(Doc) /\ answer \in Answer
    BY AnswerTypes DEF Answer
<1>2. answer.docs = docs
    OBVIOUS
<1> HIDE DEF answer
<1>3. VerifierReturns(list, answer)
    BY DEF answer
<1>4. /\ verdicts' = list /\ findings' = Stamped(list) /\ turn' = "judge"
      /\ said' \in Seq(Answer) /\ said'[Len(said')] = answer
      /\ Len(said') = Len(heard) + 1
    BY <1>1, <1>3, ReturnTypes DEF VerifierReturns
<1>5. Len(said') \in DOMAIN said'
    <2>1. Len(heard) \in Nat
        BY LenProperties DEF TypesInv
    <2> QED BY <1>4, <2>1, LenProperties
<1>6. CASE list = <<>>
    <2>1. \A i \in DOMAIN findings : findings[i].verdict = "UNVERIFIED"
        BY DEF ClearedInv
    <2>2. findings \in Seq(Verdict) /\ list \in Seq(Verdict)
        BY <1>6, EmptySeq DEF TypesInv, TypeOK
    <2>3. DOMAIN Stamped(list) = DOMAIN findings
        BY DEF Stamped
    <2>4. \A i \in DOMAIN findings' : findings'[i].verdict = "UNVERIFIED"
        BY <1>4, <1>6, <2>1, <2>2, <2>3, StampedTypes
    <2>5. Eligible' = {}
        BY <2>4 DEF Eligible
    <2> QED BY <1>4, <1>6, <2>5 DEF ClearedInv
<1>7. CASE list # <<>>
    <2>1. PICK d \in DOMAIN docs :
             /\ docs[d] \in Doc /\ ~docs[d].cut
             /\ \A i \in DOMAIN docs[d].items : Known(docs[d].items[i])
             /\ list = ListOf(docs[d].items)
        BY <1>7, VerifierOutput
    <2>2. docs[d].items # <<>>
        <3>1. CASE docs[d].items = <<>>
            <4>1. list = <<>>
                BY <2>1, <3>1 DEF ListOf
            <4> QED BY <1>7, <4>1
        <3> QED BY <3>1
    <2>3. docs[d].shape # "report"
        BY <2>1, <2>2, OwnDocument
    <2>4. InForce'
        BY <1>2, <1>4, <1>5, <2>1, <2>3 DEF InForce
    <2> QED BY <1>4, <1>7, <2>4 DEF ClearedInv
<1> QED BY <1>6, <1>7

\* Every step keeps it.
LEMMA StepCleared == TypesInv /\ ClearedInv /\ [Next]_vars => ClearedInv'
<1> SUFFICES ASSUME TypesInv, ClearedInv, [Next]_vars PROVE ClearedInv'
    OBVIOUS
<1>1. ASSUME UNCHANGED <<turn, findings, verdicts, said>> PROVE ClearedInv'
    BY <1>1 DEF ClearedInv, InForce, Eligible
<1>2. CASE RequestFails
    BY <1>2, FailureClears DEF RequestFails
<1>3. CASE RunSpecialist
    <2>1. PICK docs \in Answers(turn), usage \in Usages :
             \/ \E list \in Parsed(turn, docs) :
                    /\ findings' = ForceUnverified(list)
                    /\ Returns([docs |-> <<>>, usage |-> usage], "verifier")
                    /\ UNCHANGED <<verdicts, ranking>>
             \/ AskRepair([docs |-> <<>>, usage |-> usage])
             \/ AttemptFails
        BY <1>3 DEF RunSpecialist
    <2>2. turn = "diagnostician"
        BY <1>3 DEF RunSpecialist
    <2>3. ASSUME NEW list \in Parsed(turn, docs), findings' = ForceUnverified(list),
                 Returns([docs |-> <<>>, usage |-> usage], "verifier"),
                 UNCHANGED <<verdicts, ranking>>
          PROVE  ClearedInv'
        <3>1. list \in Seq(Verdict)
            BY <2>2, SpecialistOutput
        <3>2. \A i \in DOMAIN findings' : findings'[i].verdict = "UNVERIFIED"
            BY <2>3, <3>1, UnverifiedTypes
        <3>3. turn' = "verifier" /\ verdicts' = verdicts
            BY <2>3 DEF Returns
        <3> QED BY <2>2, <3>2, <3>3 DEF ClearedInv
    <2> QED BY <1>1, <2>1, <2>2, <2>3, FailureClears DEF AskRepair, Roles
<1>4. CASE RunVerifier
    <2>1. PICK docs \in Answers(turn), usage \in Usages :
             LET answer == [docs |-> docs, usage |-> usage]
             IN  \/ \E list \in Parsed(turn, docs) : VerifierReturns(list, answer)
                 \/ AskRepair(answer)
                 \/ VerifierReturns(<<>>, answer)
        BY <1>4 DEF RunVerifier
    <2>2. turn = "verifier"
        BY <1>4 DEF RunVerifier
    <2> DEFINE answer == [docs |-> docs, usage |-> usage]
    <2>3. (\E list \in Parsed(turn, docs) : VerifierReturns(list, answer)) => ClearedInv'
        BY <2>2, VerdictsClear
    <2>4. VerifierReturns(<<>>, answer) => ClearedInv'
        BY <2>2, VerdictsClear
    <2>5. AskRepair(answer) => ClearedInv'
        BY <1>1 DEF AskRepair
    <2> QED BY <2>1, <2>3, <2>4, <2>5
<1>5. CASE JudgeSpared
    BY <1>5 DEF JudgeSpared, ClearedInv
<1>6. CASE RunJudge
    <2>1. turn' = "over"
        BY <1>6 DEF RunJudge, Returns
    <2> QED BY <2>1 DEF ClearedInv
<1>7. CASE UNCHANGED vars
    BY <1>1, <1>7 DEF vars
<1> QED BY <1>2, <1>3, <1>4, <1>5, <1>6, <1>7 DEF Next

\* It holds before the first call.
LEMMA InitCleared == Init => ClearedInv
<1>1. DOMAIN <<>> = {}
    OBVIOUS
<1> QED BY <1>1 DEF Init, ClearedInv

LEMMA AlwaysCleared == Spec => [](TypesInv /\ ClearedInv)
<1> QED BY InitTypes, StepTypes, InitCleared, StepCleared, PTL DEF Spec

\* What is in force is whole.
LEMMA ClearedWhole ==
    ASSUME TypesInv, ClearedInv, turn = "judge", verdicts # <<>>
    PROVE  \E d \in VerifierDocs :
              /\ ~d.cut /\ d.shape # "report" /\ d.items # <<>>
              /\ Len(d.items) = Len(verdicts)
              /\ \A i \in DOMAIN verdicts :
                    /\ d.items[i].finding = verdicts[i].finding
                    /\ Known(d.items[i])
                    /\ Canonical[d.items[i].word] = verdicts[i].verdict
<1>1. InForce
    BY DEF ClearedInv
<1>2. PICK n \in DOMAIN said : \E d \in DOMAIN said[n].docs :
            LET doc == said[n].docs[d]
            IN  /\ ~doc.cut /\ doc.shape # "report"
                /\ \A i \in DOMAIN doc.items : Known(doc.items[i])
                /\ verdicts = ListOf(doc.items)
    BY <1>1 DEF InForce
<1>3. PICK k \in DOMAIN said[n].docs :
            LET doc == said[n].docs[k]
            IN  /\ ~doc.cut /\ doc.shape # "report"
                /\ \A i \in DOMAIN doc.items : Known(doc.items[i])
                /\ verdicts = ListOf(doc.items)
    BY <1>2
<1> DEFINE d == said[n].docs[k]
<1>4. d \in VerifierDocs
    BY DEF VerifierDocs, Range
<1>5. d.items \in Seq(Item)
    <2>1. said[n] \in Answer
        BY LenProperties, ElementOfSeq DEF TypesInv
    <2>2. said[n].docs \in Seq(Doc)
        BY <2>1 DEF Answer
    <2>3. d \in Doc
        BY <2>2, LenProperties, ElementOfSeq
    <2> QED BY <2>3 DEF Doc, Item
<1>6. /\ ~d.cut /\ d.shape # "report"
      /\ \A i \in DOMAIN d.items : Known(d.items[i])
      /\ verdicts = ListOf(d.items)
    BY <1>3
<1> HIDE DEF d
<1>7. /\ Len(verdicts) = Len(d.items) /\ DOMAIN verdicts = DOMAIN d.items
      /\ \A i \in DOMAIN d.items :
             verdicts[i] = [finding |-> d.items[i].finding,
                            verdict |-> Canonical[d.items[i].word]]
    BY <1>5, <1>6, ListTypes DEF ListOf
<1>8. d.items # <<>>
    <2>1. CASE d.items = <<>>
        <3>1. verdicts = <<>>
            BY <1>6, <2>1 DEF ListOf
        <3> QED BY <3>1
    <2> QED BY <2>1
<1>9. \A i \in DOMAIN verdicts : /\ d.items[i].finding = verdicts[i].finding
                                 /\ Known(d.items[i])
                                 /\ Canonical[d.items[i].word] = verdicts[i].verdict
    <2> SUFFICES ASSUME NEW i \in DOMAIN verdicts
                 PROVE  /\ d.items[i].finding = verdicts[i].finding
                        /\ Known(d.items[i])
                        /\ Canonical[d.items[i].word] = verdicts[i].verdict
        OBVIOUS
    <2>1. i \in DOMAIN d.items
        BY <1>7
    <2>2. Known(d.items[i])
        BY <1>6, <2>1
    <2>3. verdicts[i] = [finding |-> d.items[i].finding,
                         verdict |-> Canonical[d.items[i].word]]
        BY <1>7, <2>1
    <2> QED BY <2>2, <2>3
<1>10. /\ ~d.cut /\ d.shape # "report" /\ d.items # <<>>
       /\ Len(d.items) = Len(verdicts)
    BY <1>6, <1>7, <1>8
<1> QED BY <1>4, <1>9, <1>10

\* Verdicts come from one list that arrived whole and was understood whole
\* (verifier_normalization.py:20-25, openai_compatible.py:123-209): an answer that
\* broke off, an unknown word or a second list leaves no part of a list in force.
THEOREM VerdictsWhole == Spec => []VerdictsAreWhole
<1>1. TypesInv /\ ClearedInv => VerdictsAreWhole
    BY ClearedWhole DEF VerdictsAreWhole
<1> QED BY <1>1, AlwaysCleared, PTL

\* Nothing is eligible for the judge unless the verifier wrote a list of its own; the
\* report that it was shown, repeated word for word, clears nothing (agents.py:137-141).
THEOREM EchoClearsNothing == Spec => []EchoGroundsNothing
<1>1. ASSUME TypesInv, ClearedInv PROVE EchoGroundsNothing
    <2> SUFFICES ASSUME turn = "judge", Eligible # {}
                 PROVE  \E d \in VerifierDocs : d.shape # "report" /\ d.items # <<>>
        BY DEF EchoGroundsNothing
    <2>1. verdicts # <<>>
        BY <1>1 DEF ClearedInv
    <2> QED BY <1>1, <2>1, ClearedWhole
<1> QED BY <1>1, AlwaysCleared, PTL
-----------------------------------------------------------------------------
(***************************************************************************)
(* What a call has cost.  An attempt has at most two answers, so the sum    *)
(* unfolds into one or two steps.                                           *)
(***************************************************************************)
\* What a sum over a set does with one of its subsets.
SumStep(f, S, iter) ==
    [s \in SUBSET S |->
        IF s = {} THEN 0
        ELSE f[CHOOSE x \in s : TRUE] + iter[s \ {CHOOSE x \in s : TRUE}]]

\* A sum unfolds if any function satisfies its recursion.
LEMMA SumUnfolds ==
    ASSUME NEW S, NEW f, NEW g, g = SumStep(f, S, g)
    PROVE  \E it : SumFunctionOnSet(f, S) = it[S] /\ it = SumStep(f, S, it)
<1> DEFINE it == CHOOSE iter : iter = SumStep(f, S, iter)
<1>1. SumFunctionOnSet(f, S) = it[S]
    BY DEF SumFunctionOnSet, FoldFunctionOnSet, MapThenFoldSet, SumStep
<1>2. it = SumStep(f, S, it)
    OBVIOUS
<1> HIDE DEF it
<1> QED BY <1>1, <1>2

\* Over one index.
LEMMA SumOverOne ==
    ASSUME NEW k, NEW f, f[k] \in Nat
    PROVE  SumFunctionOnSet(f, {k}) = f[k]
<1> DEFINE g == [s \in SUBSET {k} |-> IF s = {} THEN 0 ELSE f[k]]
<1>1. \A s \in SUBSET {k} : s = {} \/ (s = {k} /\ (CHOOSE x \in s : TRUE) = k)
    OBVIOUS
<1>2. {k} \ {k} = {} /\ g[{}] = 0
    OBVIOUS
<1>3. ASSUME NEW s \in SUBSET {k}, s # {}
      PROVE  g[s] = f[CHOOSE x \in s : TRUE] + g[s \ {CHOOSE x \in s : TRUE}]
    BY <1>1, <1>2, <1>3
<1>4. g = SumStep(f, {k}, g)
    BY <1>3 DEF SumStep
<1> HIDE DEF g
<1>5. PICK it : SumFunctionOnSet(f, {k}) = it[{k}] /\ it = SumStep(f, {k}, it)
    BY <1>4, SumUnfolds
<1>6. it[{}] = 0 /\ it[{k}] = f[k] + it[{k} \ {k}]
    BY <1>1, <1>5 DEF SumStep
<1>7. it[{k}] = f[k] + 0
    BY <1>2, <1>6
<1> QED BY <1>5, <1>7

\* Over two indices.
LEMMA SumOverTwo ==
    ASSUME NEW j, NEW k, j # k, NEW f, f[j] \in Nat, f[k] \in Nat
    PROVE  SumFunctionOnSet(f, {j, k}) = f[j] + f[k]
<1> DEFINE T == SUBSET {j, k}
           P(s) == CHOOSE x \in s : TRUE
           g == [s \in T |-> (IF j \in s THEN f[j] ELSE 0) + (IF k \in s THEN f[k] ELSE 0)]
<1>1. \A s \in T : s # {} => P(s) \in s /\ P(s) \in {j, k} /\ s \ {P(s)} \in T
    OBVIOUS
<1> HIDE DEF P
<1>2. ASSUME NEW s \in T, s # {}
      PROVE  g[s] = f[P(s)] + g[s \ {P(s)}]
    <2>1. P(s) \in s /\ s \ {P(s)} \in T
        BY <1>1, <1>2
    <2>2. CASE P(s) = j
        <3>1. j \in s /\ j \notin s \ {j} /\ (k \in s \ {j} <=> k \in s)
            BY <2>1, <2>2
        <3> QED BY <2>1, <2>2, <3>1
    <2>3. CASE P(s) = k
        <3>1. k \in s /\ k \notin s \ {k} /\ (j \in s \ {k} <=> j \in s)
            BY <2>1, <2>3
        <3> QED BY <2>1, <2>3, <3>1
    <2> QED BY <1>1, <1>2, <2>2, <2>3
<1>3. g[{}] = 0
    OBVIOUS
<1>4. g = SumStep(f, {j, k}, g)
    BY <1>2, <1>3 DEF SumStep, P
<1> HIDE DEF g
<1>5. PICK it : SumFunctionOnSet(f, {j, k}) = it[{j, k}] /\ it = SumStep(f, {j, k}, it)
    BY <1>4, SumUnfolds
<1>6. \A s \in T : it[s] = IF s = {} THEN 0 ELSE f[P(s)] + it[s \ {P(s)}]
    BY <1>5 DEF SumStep, P
<1>7. it[{}] = 0
    BY <1>6
<1>8. it[{j}] = f[j] /\ it[{k}] = f[k]
    <2>1. P({j}) = j /\ P({k}) = k /\ {j} \ {j} = {} /\ {k} \ {k} = {}
        BY DEF P
    <2>2. {j} \in T /\ {k} \in T /\ {j} # {} /\ {k} # {}
        OBVIOUS
    <2>3. it[{j}] = f[j] + it[{}] /\ it[{k}] = f[k] + it[{}]
        BY <1>6, <2>1, <2>2
    <2> QED BY <1>7, <2>3
<1>9. it[{j, k}] = f[j] + f[k]
    <2>1. {j, k} \ {j} = {k} /\ {j, k} \ {k} = {j} /\ {j, k} # {} /\ {j, k} \in T
        OBVIOUS
    <2>2. P({j, k}) \in {j, k}
        BY <1>1, <2>1
    <2>3. it[{j, k}] = f[P({j, k})] + it[{j, k} \ {P({j, k})}]
        BY <1>6, <2>1
    <2>4. CASE P({j, k}) = j
        BY <1>8, <2>1, <2>3, <2>4
    <2>5. CASE P({j, k}) = k
        <3>1. it[{j, k}] = f[k] + it[{j}]
            BY <2>1, <2>3, <2>5
        <3> QED BY <1>8, <3>1
    <2> QED BY <2>2, <2>4, <2>5
<1> QED BY <1>5, <1>9

\* What one answer or two together report.
Reported(s) == {n \in DOMAIN s : s[n].usage # NoUsage}

Total(s) ==
    IF Reported(s) = {} THEN NoUsage
    ELSE SumFunctionOnSet([n \in Reported(s) |-> s[n].usage], Reported(s))

\* One answer costs what it reports.
LEMMA TotalOfOne ==
    ASSUME NEW s \in Seq(Answer), Len(s) = 1
    PROVE  Total(s) = s[1].usage
<1> DEFINE f == [n \in Reported(s) |-> s[n].usage]
<1>1. DOMAIN s = {1} /\ s[1] \in Answer
    BY LenProperties, ElementOfSeq
<1>2. s[1].usage \in Nat \cup {NoUsage} /\ NoUsage \notin Nat
    BY <1>1, CallsAssumption DEF Answer
<1>3. CASE s[1].usage = NoUsage
    BY <1>1, <1>3 DEF Total, Reported
<1>4. CASE s[1].usage # NoUsage
    <2>1. Reported(s) = {1}
        BY <1>1, <1>4 DEF Reported
    <2>2. f[1] = s[1].usage /\ f[1] \in Nat
        BY <1>2, <1>4, <2>1
    <2> HIDE DEF f
    <2>3. SumFunctionOnSet(f, {1}) = f[1]
        BY <2>2, SumOverOne
    <2> QED BY <2>1, <2>2, <2>3 DEF Total, f
<1> QED BY <1>3, <1>4

\* Two cost what _sum_usage makes of what they report.
LEMMA TotalOfTwo ==
    ASSUME NEW s \in Seq(Answer), Len(s) = 2
    PROVE  Total(s) = Sum(s[1].usage, s[2].usage)
<1> DEFINE f == [n \in Reported(s) |-> s[n].usage]
<1>1. DOMAIN s = {1, 2} /\ s[1] \in Answer /\ s[2] \in Answer
    BY LenProperties, ElementOfSeq
<1>2. /\ s[1].usage \in Nat \cup {NoUsage} /\ s[2].usage \in Nat \cup {NoUsage}
      /\ NoUsage \notin Nat
    BY <1>1, CallsAssumption DEF Answer
<1>3. CASE s[1].usage = NoUsage /\ s[2].usage = NoUsage
    BY <1>1, <1>3 DEF Total, Reported, Sum
<1>4. CASE s[1].usage # NoUsage /\ s[2].usage = NoUsage
    <2>1. Reported(s) = {1}
        BY <1>1, <1>4 DEF Reported
    <2>2. f[1] = s[1].usage /\ f[1] \in Nat
        BY <1>2, <1>4, <2>1
    <2> HIDE DEF f
    <2>3. SumFunctionOnSet(f, {1}) = f[1]
        BY <2>2, SumOverOne
    <2>4. Total(s) = s[1].usage
        BY <2>1, <2>2, <2>3 DEF Total, f
    <2> QED BY <1>4, <2>4 DEF Sum
<1>5. CASE s[1].usage = NoUsage /\ s[2].usage # NoUsage
    <2>1. Reported(s) = {2}
        BY <1>1, <1>5 DEF Reported
    <2>2. f[2] = s[2].usage /\ f[2] \in Nat
        BY <1>2, <1>5, <2>1
    <2> HIDE DEF f
    <2>3. SumFunctionOnSet(f, {2}) = f[2]
        BY <2>2, SumOverOne
    <2>4. Total(s) = s[2].usage
        BY <2>1, <2>2, <2>3 DEF Total, f
    <2> QED BY <1>5, <2>4 DEF Sum
<1>6. CASE s[1].usage # NoUsage /\ s[2].usage # NoUsage
    <2>1. Reported(s) = {1, 2}
        BY <1>1, <1>6 DEF Reported
    <2>2. f[1] = s[1].usage /\ f[1] \in Nat /\ f[2] = s[2].usage /\ f[2] \in Nat
        BY <1>2, <1>6, <2>1
    <2> HIDE DEF f
    <2>3. SumFunctionOnSet(f, {1, 2}) = f[1] + f[2]
        <3>1. 1 # 2 /\ f[1] \in Nat /\ f[2] \in Nat
            BY <2>2
        <3> QED BY <3>1, SumOverTwo
    <2>4. Total(s) = f[1] + f[2]
        BY <2>1, <2>3 DEF Total, f
    <2> QED BY <1>6, <2>2, <2>4 DEF Sum
<1> QED BY <1>3, <1>4, <1>5, <1>6

\* The telemetry of a call that returns counts all its answers.
LEMMA ReturnCounts ==
    ASSUME TypesInv, NEW answer \in Answer, NEW next, Returns(answer, next)
    PROVE  said' \in Seq(Answer) /\ tokens' = Total(said')
<1>1. heard \in Seq(Answer) /\ Len(heard) \in Nat /\ Len(heard) <= 1
    BY LenProperties DEF TypesInv, TypeOK
<1>2. /\ said' \in Seq(Answer) /\ Len(said') = Len(heard) + 1
      /\ said'[Len(heard) + 1] = answer
      /\ \A i \in 1..Len(heard) : said'[i] = heard[i]
    BY <1>1, AppendProperties DEF Returns
<1>3. CASE heard = <<>>
    <2>1. Len(said') = 1 /\ said'[1] = answer
        <3>1. Len(heard) = 0
            BY <1>3
        <3> QED BY <1>2, <3>1
    <2>2. tokens' = answer.usage
        BY <1>3 DEF Returns
    <2> QED BY <1>2, <2>1, <2>2, TotalOfOne
<1>4. CASE heard # <<>>
    <2>1. Len(heard) = 1
        BY <1>1, <1>4, OnlyElement
    <2>2. Len(said') = 2 /\ said'[1] = heard[1] /\ said'[2] = answer
        BY <1>2, <2>1
    <2>3. tokens' = Sum(heard[1].usage, answer.usage)
        BY <1>4 DEF Returns
    <2> QED BY <1>2, <2>2, <2>3, TotalOfTwo
<1> QED BY <1>3, <1>4

\* Every step keeps the count.
LEMMA StepCounts == TypesInv /\ TokensCounted /\ [Next]_vars => TokensCounted'
<1> SUFFICES ASSUME TypesInv, TokensCounted, [Next]_vars PROVE TokensCounted'
    OBVIOUS
<1>1. TokensCounted' <=> (said' # <<>> => tokens' = Total(said'))
    BY DEF TokensCounted, Total, Reported
<1>2. TokensCounted <=> (said # <<>> => tokens = Total(said))
    BY DEF TokensCounted, Total, Reported
<1>3. \A docs \in Seq(Doc), usage \in Usages : [docs |-> docs, usage |-> usage] \in Answer
    BY DEF Answer
<1>4. <<>> \in Seq(Doc)
    BY EmptySeq
<1>5. ASSUME UNCHANGED <<tokens, said>> PROVE TokensCounted'
    <2>1. said' = said /\ tokens' = tokens
        BY <1>5
    <2>2. Total(said') = Total(said)
        BY <2>1
    <2> QED BY <1>1, <1>2, <2>1, <2>2
<1>6. ASSUME NEW answer \in Answer, NEW next, Returns(answer, next) PROVE TokensCounted'
    BY <1>1, <1>6, ReturnCounts
<1>7. ASSUME AttemptFails PROVE TokensCounted'
    <2>1. UNCHANGED <<tokens, said>> \/ said' = <<>>
        BY <1>7 DEF AttemptFails
    <2> QED BY <1>1, <1>5, <2>1
<1>8. ASSUME NEW answer, AskRepair(answer) PROVE TokensCounted'
    BY <1>5, <1>8 DEF AskRepair
<1>9. CASE RequestFails
    BY <1>7, <1>9 DEF RequestFails
<1>10. CASE RunSpecialist
    <2>1. PICK usage \in Usages :
             \/ Returns([docs |-> <<>>, usage |-> usage], "verifier")
             \/ AskRepair([docs |-> <<>>, usage |-> usage])
             \/ AttemptFails
        BY <1>10 DEF RunSpecialist
    <2>2. [docs |-> <<>>, usage |-> usage] \in Answer
        BY <1>3, <1>4
    <2> QED BY <1>6, <1>7, <1>8, <2>1, <2>2
<1>11. CASE RunVerifier
    <2>1. PICK docs \in Answers(turn), usage \in Usages :
             \/ Returns([docs |-> docs, usage |-> usage], "judge")
             \/ AskRepair([docs |-> docs, usage |-> usage])
        BY <1>11 DEF RunVerifier, VerifierReturns
    <2>2. [docs |-> docs, usage |-> usage] \in Answer
        <3>1. docs \in Seq(Doc)
            BY <1>11, AnswerTypes DEF RunVerifier
        <3> QED BY <1>3, <3>1
    <2> QED BY <1>6, <1>8, <2>1, <2>2
<1>12. CASE JudgeSpared
    BY <1>1, <1>12 DEF JudgeSpared
<1>13. CASE RunJudge
    <2>1. PICK usage \in Usages : Returns([docs |-> <<>>, usage |-> usage], "over")
        BY <1>13 DEF RunJudge
    <2> QED BY <1>3, <1>4, <1>6, <2>1
<1>14. CASE UNCHANGED vars
    BY <1>5, <1>14 DEF vars
<1> QED BY <1>9, <1>10, <1>11, <1>12, <1>13, <1>14 DEF Next

\* The tokens recorded for a call are those of all requests of the attempt that
\* succeeded, the repair included, whichever of them reported any
\* (openai_compatible.py:94, _sum_usage).
THEOREM TokensAreCounted == Spec => []TokensCounted
<1>1. Init => TokensCounted
    BY DEF Init, TokensCounted
<1> QED BY <1>1, InitTypes, StepTypes, StepCounts, PTL DEF Spec
-----------------------------------------------------------------------------
(***************************************************************************)
(* The order of the interventions.                                         *)
(***************************************************************************)
\* A ranking is none yet, or one of proposals.
RankingInv ==
    \/ ranking = <<>>
    \/ \E n \in Nat : \E es \in [1..n -> Estimates] : ranking = Ranked(es)

LEMMA StepRanks == RankingInv /\ [Next]_vars => RankingInv'
<1> SUFFICES ASSUME RankingInv, [Next]_vars PROVE RankingInv'
    OBVIOUS
<1>1. CASE RunJudge
    <2>1. PICK n \in 0..MaxChosen : \E es \in [1..n -> Options] : ranking' = Ranked(es)
        BY <1>1 DEF RunJudge
    <2>2. PICK es \in [1..n -> Options] : ranking' = Ranked(es)
        BY <2>1
    <2>3. n \in Nat /\ es \in [1..n -> Estimates]
        BY CallsAssumption
    <2> QED BY <2>2, <2>3 DEF RankingInv
<1>2. CASE ~RunJudge
    <2>1. ranking' = ranking
        BY <1>2 DEF Next, vars, RequestFails, AttemptFails, RunSpecialist, RunVerifier,
                    AskRepair, VerifierReturns, JudgeSpared
    <2> QED BY <2>1 DEF RankingInv
<1> QED BY <1>1, <1>2

\* An intervention that is at least as good as another in every respect is not ranked
\* behind it, unless their scores round to the same (scoring.py:39-42, agents.py:272).
THEOREM BetterIsAhead == Spec => []NoDominatedAhead
<1>1. Init => RankingInv
    BY DEF Init, RankingInv
<1>2. ASSUME RankingInv PROVE NoDominatedAhead
    <2> SUFFICES ASSUME NEW i \in DOMAIN ranking, NEW j \in DOMAIN ranking, i < j,
                        Dominates(ranking[j], ranking[i])
                 PROVE  Score(ranking[i]) = Score(ranking[j])
        BY DEF NoDominatedAhead
    <2>1. ranking # <<>>
        OBVIOUS
    <2>2. PICK n \in Nat : \E es \in [1..n -> Estimates] : ranking = Ranked(es)
        BY <1>2, <2>1 DEF RankingInv
    <2>3. PICK es \in [1..n -> Estimates] : ranking = Ranked(es)
        BY <2>2
    <2>4. DOMAIN ranking = 1..n
        BY <2>3, RankedPlaces
    <2> QED BY <2>3, <2>4, RankedOrder
<1> QED BY <1>1, <1>2, StepRanks, PTL DEF Spec
=============================================================================
