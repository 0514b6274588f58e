---------------------------- MODULE MCGrindFold ----------------------------
(* Model values for checking GrindFold. *)
EXTENDS GrindFold, TLC

CONSTANTS a, b, L1

\* Two seeded items on one lane, the second waiting for the first; or one
\* seeded item, waiting for the other to be discovered.
MCSeeds ==
    { [queue |-> (L1 :> {a, b}), on |-> (a :> {} @@ b :> {a})],
      [queue |-> (L1 :> {b}), on |-> (a :> {} @@ b :> {a})] }

\* `closed_ledger`, `fresh` and the round history are written by the fold and
\* read by the executor and the conditions alone: no guard, no other variable
\* and no property of this run but TypeOK looks at them.
FoldView == <<phase, [i \in Items |-> [item[i] EXCEPT !.round_history = <<>>]],
              queue, merged_ledger>>

============================================================================
