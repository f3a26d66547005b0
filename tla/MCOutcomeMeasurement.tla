------------------------ MODULE MCOutcomeMeasurement ------------------------
(***************************************************************************)
(* Small instances of OutcomeMeasurement: the title and the content of one  *)
(* URL, each with one value to be changed to.                              *)
(***************************************************************************)
EXTENDS OutcomeMeasurement

CONSTANTS u, v

TitleIsBroken == {m \in Mutations : m.field = "TITLE"}
NoneBroken    == {}
=============================================================================
