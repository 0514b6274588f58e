----------------------------- MODULE MCExecutor -----------------------------
(* Model values for checking Executor. *)
EXTENDS Executor, TLC

CONSTANTS a, L1

\* The run's one item, seeded or still to be discovered.
MCSeeds == { [queue |-> (L1 :> q), on |-> (a :> {})] : q \in {{a}, {}} }

\* With a tracker handle, or unpromoted.
MCHandles == {{a}, {}}

=============================================================================
