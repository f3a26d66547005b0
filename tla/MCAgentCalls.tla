---------------------------- MODULE MCAgentCalls ----------------------------
(***************************************************************************)
(* A small instance of AgentCalls: two findings, and answers that show each *)
(* way in which the parser goes.                                           *)
(***************************************************************************)
EXTENDS AgentCalls

CONSTANTS f, g

Says(finding, word) == [finding |-> finding, word |-> word]
Doc(shape, items) == [shape |-> shape, items |-> items, cut |-> FALSE]
Broken(shape, items) == [shape |-> shape, items |-> items, cut |-> TRUE]

Written ==
    [ diagnostician |->
        { Doc("report", <<Says(f, "GROUNDED"), Says(g, "UNVERIFIED")>>),
          Doc("report", <<Says(f, "PROVEN")>>),
          Broken("report", <<Says(g, "GROUNDED")>>),
          Doc("object", <<>>) },
      verifier |->
        { Doc("verdicts", <<Says(f, "GROUNDED"), Says(g, "UNGROUNDED")>>),
          Doc("verdicts", <<Says(f, "GROUNDED"), Says(g, "LIKELY")>>),
          Doc("verdicts", <<Says(f, "VALID"), Says(g, "VALID"), Says(f, "INVALID")>>),
          Doc("alias", <<Says(g, "VERIFIED")>>),
          Doc("alias", <<Says(g, "LIKELY")>>),
          Doc("array", <<Says(f, "PARTIAL"), Says(f, "UNSUPPORTED")>>),
          Broken("verdicts", <<Says(f, "GROUNDED")>>),
          Broken("verdicts", <<>>),
          Doc("object", <<>>) },
      judge |-> {} ]

Proposal(impact, confidence, effort, reversibility) ==
    [ impact |-> impact, confidence |-> confidence, revenue_alignment |-> 5,
      effort |-> effort, reversibility |-> reversibility, time_to_signal |-> 3 ]

\* The second is as good as the first with less effort; the third is worth nothing.
Proposals == { Proposal(6, 80, 8, 5), Proposal(6, 80, 2, 5), Proposal(0, 90, 0, 10), Proposal(9, 40, 8, 2) }
=============================================================================
