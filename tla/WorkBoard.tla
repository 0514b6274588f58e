------------------------------ MODULE WorkBoard ------------------------------
(***************************************************************************)
(* What the grind runtime promises of a run's items (grind's fold): each   *)
(* is in one place, a lane or the parking lot; one in play is blocked      *)
(* because of unfinished items, by a merge that finishes the last of them  *)
(* it is queued, and by nothing else while it stays on its lane and its    *)
(* edges stay; the lot keeps items as they are; and what is merged stays   *)
(* merged.  It knows of no log, event, review or attempt.                  *)
(***************************************************************************)

CONSTANTS Items, Lanes, Shas, None

VARIABLES
    place,   \* the lanes that queue an item; {None}: the lot
    stage,   \* how far it is; None: not in the run
    edges,   \* the unfinished items it is to wait for
    open,    \* the items with an open PR
    commit   \* the merge commit, None before

vars == <<commit, stage, place, open, edges>>

Lot   == {None}
Final == {"merged", "done"}

InPlay(i)     == stage[i] # None /\ place[i] # Lot
Unfinished(i) == InPlay(i) /\ stage[i] \notin Final

Fresh(on) == IF on = {} THEN "queued" ELSE "blocked"

Init ==
    /\ place = [i \in Items |-> {}]
    /\ stage = [i \in Items |-> None]
    /\ edges = [i \in Items |-> {}]
    /\ open = {}
    /\ commit = [i \in Items |-> None]

(* The seed puts the items H on lanes, each with what it is to wait for.   *)
Begin(H, lane, on) ==
    /\ place' = [i \in Items |-> IF i \in H THEN {lane[i]} ELSE {}]
    /\ stage' = [i \in Items |-> IF i \in H THEN Fresh(on[i]) ELSE None]
    /\ edges' = [i \in Items |-> IF i \in H THEN on[i] ELSE {}]
    /\ UNCHANGED <<open, commit>>

(* Work found on the way, put on a lane or in the lot.                     *)
Enter(i, p) ==
    /\ stage[i] = None
    /\ stage' = [stage EXCEPT ![i] = "queued"]
    /\ place' = [place EXCEPT ![i] = p]
    /\ UNCHANGED <<edges, open, commit>>

(* Work goes on, by whoever has it, opens a PR or closes one: nobody is    *)
(* blocked by it without a cause, nor queued again while blocked.          *)
Work(i) ==
    /\ Unfinished(i)
    /\ \/ stage' = [stage EXCEPT ![i] = "in-progress"]
       \/ stage[i] = "in-progress" /\ stage' = [stage EXCEPT ![i] = "queued"]
       \/ stage[i] = "in-progress" /\ edges[i] # {} /\ stage' = [stage EXCEPT ![i] = "blocked"]
    /\ open' \in {open, open \cup {i}, open \ {i}}
    /\ UNCHANGED <<place, edges, commit>>

(* What an item waits for is said anew.                                    *)
Rewire(i, on) ==
    /\ \A j \in on : stage[j] \notin Final
    /\ edges' = [edges EXCEPT ![i] = on]
    /\ stage' = [stage EXCEPT ![i] = IF on = {} /\ @ # "blocked" THEN @ ELSE Fresh(on)]
    /\ UNCHANGED <<place, open, commit>>

Park(i) ==
    /\ Unfinished(i)
    /\ place' = [place EXCEPT ![i] = Lot]
    /\ open' \in {open, open \ {i}}
    /\ UNCHANGED <<stage, edges, commit>>

(* The one way out of the lot.                                             *)
Return(i, l) ==
    /\ place[i] = Lot
    /\ place' = [place EXCEPT ![i] = {l}]
    /\ stage' = [stage EXCEPT ![i] = Fresh(edges[i])]
    /\ open' \in {open, open \ {i}}
    /\ UNCHANGED <<edges, commit>>

(* A merge resolves the edges to i, and queues in play whom that frees.    *)
Merge(i, sha) ==
    /\ InPlay(i) /\ stage[i] = "in-progress"
    /\ commit' = [commit EXCEPT ![i] = sha]
    /\ edges' = [j \in Items |-> edges[j] \ {i}]
    /\ stage' = [j \in Items |->
           IF j = i THEN "merged"
           ELSE IF InPlay(j) /\ stage[j] = "blocked" /\ edges[j] = {i} THEN "queued"
           ELSE stage[j]]
    /\ open' = open \ {i}
    /\ UNCHANGED place

Finish(i) ==
    /\ InPlay(i) /\ stage[i] = "merged"
    /\ stage' = [stage EXCEPT ![i] = "done"]
    /\ UNCHANGED <<place, edges, open, commit>>

(* What the board does not show: reviews, attempts, pauses, what is flagged. *)
Elsewhere == UNCHANGED vars

Next ==
    \/ Elsewhere
    \/ /\ \A i \in Items : stage[i] = None
       /\ \E H \in SUBSET Items : \E lane \in [H -> Lanes], on \in [H -> SUBSET Items] :
              Begin(H, lane, on)
    \/ \E i \in Items :
        \/ Enter(i, Lot) \/ \E l \in Lanes : Enter(i, {l}) \/ Return(i, l)
        \/ Work(i) \/ Park(i)
        \/ Unfinished(i) /\ \E on \in SUBSET Items : Rewire(i, on)
        \/ \E sha \in Shas : Merge(i, sha)
        \/ Finish(i)

Spec == Init /\ [][Next]_vars
=============================================================================
