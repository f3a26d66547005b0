------------------------- MODULE MCAutonomousGrowth -------------------------
(***************************************************************************)
(* Small instances of AutonomousGrowth: two executions, up to two URLs and *)
(* posts, and values enough for a field to change twice.                   *)
(***************************************************************************)
EXTENDS AutonomousGrowth

CONSTANTS r1, r2, c1, c2, u1, u2, s1, p1, p2, v0, v1, v2

\* Every execution is a cycle of its own, or all are tries of the same cycle.
OwnCycle  == [r \in Runs |-> IF r = r1 THEN c1 ELSE c2]
SameCycle == [r \in Runs |-> c1]

OneSite == [u \in Urls |-> s1]

\* Every URL has a post of its own.
OwnPost == [u \in Urls |-> IF u = u1 THEN p1 ELSE p2]

\* The last segments of all URLs are the same: they name one post.
SharedPost == [u \in Urls |-> p1]

\* WordPress stores what it is sent.
Verbatim == [v \in Values |-> {v}]

\* A filter of WordPress makes v1 of v0, which was there before the first run, and
\* lets through what it has let through once.
Filtering == [v \in Values |-> IF v = v0 THEN {v1} ELSE {v}]

\* A filter that is switched on and off in WordPress: v1 may become v0.
Wavering == [v \in Values |-> IF v = v1 THEN {v0, v1} ELSE {v}]
=============================================================================
