------------------------------ MODULE GrindLog ------------------------------
(***************************************************************************)
(* What the grind directory promises the skill that drives it: one log,    *)
(* that grows by whole events in the order of the commands, and an answer  *)
(* only for an event that is on it.  A command may be recorded and never   *)
(* answered.  The one thing that shortens the log is a repair that is cut  *)
(* short, and it leaves a prefix.                                          *)
(***************************************************************************)
EXTENDS Naturals, Sequences

CONSTANT Events  \* numbers

VARIABLES
    log,       \* the events recorded
    answered,  \* the events whose command has answered
    cut        \* has a repair ever been cut short?

vars == <<log, answered, cut>>

Init == log = <<>> /\ answered = {} /\ cut = FALSE

Record(e) ==
    /\ \A n \in DOMAIN log : log[n] < e
    /\ log' = Append(log, e)
    /\ UNCHANGED <<answered, cut>>

Answer(e) ==
    /\ \E n \in DOMAIN log : log[n] = e
    /\ answered' = answered \cup {e}
    /\ UNCHANGED <<log, cut>>

CutShort(n) ==
    /\ log' = SubSeq(log, 1, n)
    /\ cut' = TRUE
    /\ UNCHANGED answered

Next ==
    \/ \E e \in Events : Record(e) \/ Answer(e)
    \/ \E n \in 0 .. Len(log) : CutShort(n)

Spec == Init /\ [][Next]_vars
=============================================================================
