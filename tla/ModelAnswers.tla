---------------------------- MODULE ModelAnswers ----------------------------
(***************************************************************************)
(* How the text that a model answers becomes a structured output, or none: *)
(* the parser of the OpenAI-compatible adapter (models/                    *)
(* openai_compatible.py:123-209) and the normalisation of verdicts         *)
(* (services/verifier_normalization.py).                                   *)
(*                                                                         *)
(* An answer is the sequence of the JSON documents in it, in the order in   *)
(* which the parser comes to them: those of the content, and then those of  *)
(* the reasoning.  Prose around them makes no difference.  A document is    *)
(* what it contains:                                                       *)
(*   shape "verdicts"  an object with the key verdicts,                     *)
(*         "alias"     an object with verifications, results, or the like,  *)
(*         "array"     a bare array,                                        *)
(*         "report"    a SpecialistOutput, whose list is called findings,   *)
(*         "object"    an object with none of these lists;                  *)
(*   items the elements of its list: a finding and a word about it;         *)
(*   cut   the text ended before the list did, after these items; a text    *)
(*         that ended behind the list only is a bare array of its items here, *)
(*         which has the values that are left of such a document.            *)
(* Keys of an item, blanks, case and reasons are left out, as are items     *)
(* that are no objects or name no finding: they act like an unknown word.   *)
(***************************************************************************)
EXTENDS Naturals, Sequences, SequencesExt

CONSTANTS
    MaxVerdicts, \* 40: most verdicts that VerifierOutput admits
    MaxFindings  \* 10: most findings that SpecialistOutput admits

ASSUME AnswerAssumption == {MaxVerdicts, MaxFindings} \subseteq Nat

Shapes == {"verdicts", "alias", "array", "report", "object"}

\* The documents whose items are about some findings.
Document(findings) ==
    [shape: Shapes, items: Seq([finding: findings, word: STRING]), cut: BOOLEAN]

Verdicts == {"GROUNDED", "PARTIAL", "UNGROUNDED"}
Stamps   == Verdicts \cup {"UNVERIFIED"}

\* _VERDICT_ALIASES: the words that are taken for each verdict.
Aliases ==
    [ GROUNDED   |-> {"GROUNDED", "VERIFIED", "VALID", "SUPPORTED"},
      PARTIAL    |-> {"PARTIAL", "PARTIALLY_SUPPORTED", "PARTIALLY GROUNDED",
                      "PARTIALLY_GROUNDED"},
      UNGROUNDED |-> {"UNGROUNDED", "UNSUPPORTED", "INVALID", "NOT_GROUNDED",
                      "NOT GROUNDED"} ]

Canonical ==
    [w \in UNION {Aliases[v] : v \in Verdicts} |-> CHOOSE v \in Verdicts : w \in Aliases[v]]

Known(item) == item.word \in DOMAIN Canonical

\* An operator that reads a value returns the set of what it makes of it: one
\* output, or none.
ListOf(items) ==
    [i \in DOMAIN items |->
        [finding |-> items[i].finding, verdict |-> Canonical[items[i].word]]]

Normalised_Each(doc) == {ListOf(SelectSeq(doc.items, Known))}

\* normalize_verifier_value: the whole list, or the value as it was.
Normalised(doc) ==
    IF \A i \in DOMAIN doc.items : Known(doc.items[i]) THEN {ListOf(doc.items)} ELSE {}

Fits_Any(list) == TRUE

Fits(list) == Len(list) <= MaxVerdicts

\* VerifierOutput of one value.  What is not recognised as a list of verdicts is
\* ignored as an extra key, which leaves an output with no verdict.
AsVerdicts(doc) ==
    IF doc.shape = "object" \/ (doc.shape \in {"alias", "report"} /\ Normalised(doc) = {})
    THEN {<<>>}
    ELSE {list \in Normalised(doc) : Fits(list)}

\* SpecialistOutput of one value: its findings, with the author's own stamps.
AsFindings(doc) ==
    IF /\ doc.shape = "report" /\ Len(doc.items) <= MaxFindings
       /\ \A i \in DOMAIN doc.items : doc.items[i].word \in Stamps
    THEN {[i \in DOMAIN doc.items |->
              [finding |-> doc.items[i].finding, verdict |-> doc.items[i].word]]}
    ELSE {}

\* The values that begin at the brackets of a document: itself unless it is cut,
\* its list unless that is cut, and the items.
Values(doc) ==
    LET whole == IF doc.cut THEN <<>> ELSE <<doc>>
        list  == IF doc.cut \/ doc.shape \in {"array", "object"} THEN <<>>
                 ELSE <<[doc EXCEPT !.shape = "array"]>>
        item  == [shape |-> "object", items |-> <<>>, cut |-> FALSE]
    IN  whole \o list \o [i \in DOMAIN doc.items |-> item]

AsOutput(role, value) == IF role = "verifier" THEN AsVerdicts(value) ELSE AsFindings(value)

\* What a document yields: the output of the first of its values that is accepted.
FromDocument(role, doc) ==
    LET good == {i \in DOMAIN Values(doc) : AsOutput(role, Values(doc)[i]) # {}}
    IN  IF good = {} THEN {} ELSE AsOutput(role, Values(doc)[Min(good)])

\* _parse_structured_message: the first document that yields one counts.
Parsed(role, answer) ==
    LET good == {d \in DOMAIN answer : FromDocument(role, answer[d]) # {}}
    IN  IF good = {} THEN {} ELSE FromDocument(role, answer[Min(good)])
=============================================================================
