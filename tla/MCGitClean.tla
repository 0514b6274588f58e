----------------------------- MODULE MCGitClean -----------------------------
(* Model values for checking GitClean.                                     *)
EXTENDS GitClean, TLC

CONSTANTS feature, fix, main, side

Symmetry == Permutations(Branch)

-----------------------------------------------------------------------------
\* What `branch -D` takes stays in a reflog for git's configured expiry
\* (packages/gitclean/README.md, execute.py).  The branch's own reflog goes
\* with the branch, and that of the worktree's HEAD went with the worktree,
\* one step before.
Reflogged == UNION {reflog[p] : p \in {q \in Path : on[q] # Gone}}
UndoExists ==
  [][\A b \in Branch : tip[b] # NoCommit /\ tip'[b] = NoCommit =>
        hist[tip[b]] \subseteq Reachable' \cup Reflogged']_vars
=============================================================================
