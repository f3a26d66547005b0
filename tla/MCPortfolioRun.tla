--------------------------- MODULE MCPortfolioRun ---------------------------
(***************************************************************************)
(* Small instances of PortfolioRun: one workflow ID, whose executions are   *)
(* the only ones that touch its rows, and two findings.                    *)
(***************************************************************************)
EXTENDS PortfolioRun

CONSTANTS a, f, g, id1, id2

Specialists == <<"diagnostician", "strategist">>

\* Every finding has an ID of its own, or two specialists chose the same one.
OwnIds  == [c \in Claims |-> IF c = f THEN id1 ELSE id2]
SameIds == [c \in Claims |-> id1]
=============================================================================
