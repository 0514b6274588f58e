---------------------------- MODULE MCGrillLane ----------------------------
(* Three decisions: two of them put the third in question, and one of the  *)
(* two the other, so a ruling can be superseded, failed and retried.       *)
EXTENDS GrillLane, TLC

CONSTANTS a, b, c

MCMarks == a :> {c} @@ b :> {a, c} @@ c :> {}
=============================================================================
