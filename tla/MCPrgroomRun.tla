---------------------------- MODULE MCPrgroomRun ----------------------------
(* Model values for checking PrgroomRun. *)
EXTENDS PrgroomRun

CONSTANTS thread, remark

-----------------------------------------------------------------------------
\* The commits of a cluster whose fix failed are kept for inspection and not
\* published (design.md: "orphan commits are stash-isolated").  They are
\* pushed with the rest by the push that follows.
FailedIsIsolated == \A i \in Items : disk.kind[i] = "failed" => i \notin published
=============================================================================
