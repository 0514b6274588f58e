----------------------------- MODULE WaitingBoard -----------------------------
(***************************************************************************)
(* What the board promises the human of a decision that waits (grillui's   *)
(* projector): it waits for one task, the latest that was opened for it; a *)
(* live task lets it go by replying, a failed one not at all, so only a    *)
(* later task takes it over; and a task that was answered on the log does  *)
(* not fail.  Nothing else unlocks a decision but the death of the         *)
(* process, in the middle of handing it from one task to the next.         *)
(***************************************************************************)
EXTENDS Integers

CONSTANT Decision

VARIABLES
    holder,  \* the task each decision waits for, 0 for none
    failed,  \* the decisions whose task has failed
    heard,   \* the turns whose result is on the log
    last,    \* the youngest gesture
    alive    \* is a process at work on the session?

vars == <<holder, failed, heard, last, alive>>

Of(n) == {x \in Decision : holder[x] = n}

Init ==
    /\ holder = [x \in Decision |-> 0]
    /\ failed = {} /\ heard = {}
    /\ last = 0 /\ alive = TRUE

(* A gesture puts T in question: whatever they waited for, now it is this. *)
Ask(T) ==
    /\ alive /\ last' = last + 1 /\ UNCHANGED <<heard, alive>>
    /\ holder' = [x \in Decision |-> IF x \in T THEN last' ELSE holder[x]]
    /\ failed' = failed \ T

Land(n) ==
    /\ alive /\ n \notin heard /\ heard' = heard \cup {n}
    /\ Of(n) \cap failed = {}
    /\ UNCHANGED <<holder, failed, last, alive>>

Fail(n) ==
    /\ alive /\ n \notin heard /\ UNCHANGED <<heard, last, alive>>
    /\ failed' = failed \cup Of(n)
    /\ UNCHANGED holder

Release(n) ==
    /\ alive /\ UNCHANGED <<failed, heard, last, alive>>
    /\ Of(n) \cap failed = {}
    /\ holder' = [x \in Decision |-> IF x \in Of(n) THEN 0 ELSE holder[x]]

(* What was being handed over to a gesture now lost waits for nothing.     *)
Die(T) ==
    /\ alive /\ alive' = FALSE /\ last' \in {last, last + 1} /\ UNCHANGED heard
    /\ holder' = [x \in Decision |-> IF x \in T THEN 0 ELSE holder[x]]
    /\ failed' = failed \ T

Revive == ~alive /\ alive' = TRUE /\ UNCHANGED <<holder, failed, heard, last>>

Next ==
    \/ \E n \in 1..last : Land(n) \/ Fail(n) \/ Release(n)
    \/ \E T \in SUBSET Decision : Ask(T) \/ Die(T)
    \/ Revive

Spec == Init /\ [][Next]_vars
=============================================================================
