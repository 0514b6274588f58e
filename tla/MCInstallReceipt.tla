-------------------------- MODULE MCInstallReceipt --------------------------
(* Model values for checking InstallReceipt.                               *)
EXTENDS InstallReceipt

CONSTANTS file, dir, claude, kit, renamed, v1, v2, mine, torn, none

-----------------------------------------------------------------------------
\* A path that a run has installed, or found installed, is not pruned by the
\* same run: "the receipt mirrors disk" (install-receipt-pruning-design.md).
\* When a path passes to another owner, the entry of the old one is an orphan
\* whose bytes are the recorded ones.
InstalledIsThere ==
    [][\A p \in Paths : Deletes(p) => p \notin Installed]_vars
=============================================================================
