---------------------------- MODULE MCGrindStore ----------------------------
(* Checking GrindStore. *)
EXTENDS GrindStore
=============================================================================
