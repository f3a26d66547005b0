--------------------------- MODULE MutationLedger ---------------------------
(***************************************************************************)
(* The table autonomous_mutations (003_autonomous_outcomes.sql in          *)
(* db/migrations) and the queries that decide whether a WordPress target   *)
(* may be changed.  The operators take the table as an argument, so that   *)
(* every component that uses the table speaks of it in the same words.     *)
(*                                                                         *)
(* A mutation is identified by what _deterministic_mutation_id hashes: the *)
(* URL (which fixes the site and the post), the field and the value.       *)
(* Values are compared modulo surrounding blanks and URLs modulo a         *)
(* trailing slash, as the code compares them.                              *)
(*                                                                         *)
(* An operator whose name has a suffix, as in Upsert_NullDate, is a wrong  *)
(* version of the operator without it; nothing uses it.                    *)
(***************************************************************************)
EXTENDS Naturals

CONSTANTS Urls,      \* target URLs, without their trailing slash
          Values,    \* titles and bodies a post field can hold
          Cooldown,  \* _URL_COOLDOWN_DAYS, 7 in the code
          None       \* absence: no row, no backup file, no snapshot

Fields == {"TITLE", "CONTENT"}

Mutations == [url: Urls, field: Fields, value: Values]

(***************************************************************************)
(* status and rolled_back always move together: a receipt is recorded      *)
(* either as VALIDATED with rolled_back=false or as ROLLED_BACK with       *)
(* rolled_back=true.                                                       *)
(***************************************************************************)
Statuses == {"VALIDATED", "ROLLED_BACK"}

Rows == [status: Statuses, appliedAt: Nat]

Ledgers == [Mutations -> Rows \cup {None}]

ASSUME LedgerAssumption ==
    /\ Cooldown \in Nat \ {0}
    /\ None \notin Rows
-----------------------------------------------------------------------------
Upsert_NullDate(ledger, m, status, today) ==
    [ledger EXCEPT ![m] =
        [status    |-> status,
         appliedAt |-> IF ledger[m] = None THEN None ELSE ledger[m].appliedAt]]

\* INSERT ... ON CONFLICT (mutation_id) DO UPDATE: applied_at has a default of
\* now() and is not among the columns that the update sets.
Upsert(ledger, m, status, today) ==
    [ledger EXCEPT ![m] =
        [status    |-> status,
         appliedAt |-> IF ledger[m] = None THEN today ELSE ledger[m].appliedAt]]

Validated(ledger, m) == ledger[m] # None /\ ledger[m].status = "VALIDATED"

TargetEligible_OffByOne(ledger, url, today) ==
    \A m \in Mutations :
        m.url = url /\ Validated(ledger, m)
            => ledger[m].appliedAt + Cooldown <= today + 1

\* The latest validated row of the URL is mature, hence every one of them is.
TargetEligible(ledger, url, today) ==
    \A m \in Mutations :
        m.url = url /\ Validated(ledger, m)
            => ledger[m].appliedAt + Cooldown <= today

CandidateEligible(ledger, m, today) ==
    /\ ~Validated(ledger, m)
    /\ TargetEligible(ledger, m.url, today)
=============================================================================
