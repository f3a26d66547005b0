---------------------------- MODULE GuardedWrite ----------------------------
(***************************************************************************)
(* What a change of a live post promises, without saying how it is made: a  *)
(* change is either live and claimed by the ledger, or not claimed and the  *)
(* old content sent back.  WordPress may make something else of whatever it *)
(* is sent.  While a change is open the post may hold the new value, the    *)
(* old content may be back already, and the claim may come and go; when it  *)
(* closes, a claim is exactly what the post shows.                          *)
(*                                                                         *)
(* AutonomousGrowth implements this, see WritesAreGuarded there.            *)
(***************************************************************************)
EXTENDS MutationLedger

CONSTANTS Runs, Posts, PostOf, StoredAs

VARIABLES
    live,     \* title and content of each post
    claims,   \* the mutations that the ledger says are validated
    change    \* the change each run has open: mutation and content before it

vars == <<live, claims, change>>

Contents == [Fields -> Values]

Changes == [mutation: Mutations, before: Contents]

TypeOK ==
    /\ live \in [Posts -> Contents]
    /\ claims \subseteq Mutations
    /\ change \in [Runs -> Changes \cup {None}]

Init ==
    /\ live \in [Posts -> Contents]
    /\ claims = {}
    /\ change = [r \in Runs |-> None]

PostOfChange(r) == PostOf[change[r].mutation.url]

\* What a post may hold after content c was sent to it.
SentBack(c) == {d \in Contents : \A f \in Fields : d[f] \in StoredAs[c[f]]}

\* A run starts to change a post that no run is changing.  The old content is what
\* the post holds, or that which WordPress made this of when it was last sent back.
Begin(r, m) ==
    /\ change[r] = None
    /\ m \notin claims
    /\ \A q \in Runs : change[q] # None => PostOfChange(q) # PostOf[m.url]
    /\ \E v \in StoredAs[m.value] : live' = [live EXCEPT ![PostOf[m.url]][m.field] = v]
    /\ \E c \in Contents :
          /\ c = live[PostOf[m.url]] \/ live[PostOf[m.url]] \in SentBack(c)
          /\ change' = [change EXCEPT ![r] = [mutation |-> m, before |-> c]]
    /\ UNCHANGED claims

Undone(r) ==
    {[live EXCEPT ![PostOfChange(r)] = c] : c \in SentBack(change[r].before)}

\* What may happen to the post and to the claim of an open change.
Touch(r) ==
    /\ live' \in {live} \cup Undone(r)
    /\ claims' \in {claims \cup {change[r].mutation}, claims \ {change[r].mutation}}

Work(r) ==
    /\ change[r] # None
    /\ Touch(r)
    /\ UNCHANGED change

Claimed(r) ==
    /\ change[r].mutation \in claims'
    /\ live'[PostOfChange(r)][change[r].mutation.field] = change[r].mutation.value

NotClaimed(r) ==
    /\ change[r].mutation \notin claims'
    /\ live' \in Undone(r)

\* The run is done with the change: all of it, or nothing.
Close(r) ==
    /\ change[r] # None
    /\ Touch(r)
    /\ Claimed(r) \/ NotClaimed(r)
    /\ change' = [change EXCEPT ![r] = None]

Next == \E r \in Runs : Work(r) \/ Close(r) \/ \E m \in Mutations : Begin(r, m)

Spec == Init /\ [][Next]_vars
=============================================================================
