------------------------------ MODULE GrindFold ------------------------------
(***************************************************************************)
(* The fold of the event-sourced grind runtime                             *)
(* (packages/grind/src/grind/fold.py): the state `grind` derives from      *)
(* events.jsonl, one action per event type.  An event that is illegal in   *)
(* the current state is still in the log; the fold flags it and leaves the *)
(* state alone (accept-and-flag), which is the action Flag here.           *)
(*                                                                         *)
(* Data kept: what some handler or executor rule reads.  The order of a    *)
(* lane's queue, free text, agents, observations, attention entries and    *)
(* the anomaly records themselves are display data and are left out.       *)
(* Timestamps have one-second resolution and are only ever compared for    *)
(* equality with a closure's, so what is kept of them is `fresh`: the      *)
(* closures stamped with the item's last-touched time.                     *)
(***************************************************************************)
EXTENDS Naturals, Sequences, FiniteSets

CONSTANTS
    Items,              \* item ids, those not yet in the run included
    Lanes,              \* lane ids of the run
    PRs,                \* pull-request numbers
    Shas,               \* commit ids
    Rounds,             \* review round numbers
    Kinds,              \* kinds of fix attempt (ATTEMPT_BUDGETS)
    FailureReasons,     \* park reasons on the failure axis
    SchedulingReasons,  \* park reasons on the scheduling axis
    Untyped,            \* a park whose reason names no vocabulary member
    None,               \* Python's None
    Seeds,              \* the seed files `grind create` may be given
    SameSecond,         \* may an event share its second with the one before?
    MaxAttempts         \* bound on the attempt counter, which the code never caps

ParkReasons == FailureReasons \cup SchedulingReasons
ParkTypes   == ParkReasons \cup {Untyped}

SeedType == [queue : [Lanes -> SUBSET Items], on : [Items -> SUBSET Items]]

\* A seed names each item once: the validator does not check it, the fold
\* relies on it.
WellFormed(seed) ==
    \A l, m \in Lanes : l # m => seed.queue[l] \cap seed.queue[m] = {}

VARIABLES
    phase,          \* "new" (empty log), "unseeded" (a log that does not begin
                    \* with the seed), "running", "paused" or "finished"
    item,           \* state.items
    queue,          \* lane.item_ids, per lane
    closed_ledger,  \* state.closed_ledger: the PRs closed, per item
    fresh,          \* the closures stamped with the item's last_item_ts
    merged_ledger   \* state.merged_ledger: the merge commit, per item

ledgers == <<closed_ledger, merged_ledger>>
vars == <<phase, item, queue, closed_ledger, fresh, merged_ledger>>

-----------------------------------------------------------------------------
(* Items *)

ItemStatus == {"queued", "in-progress", "pr-open", "in-review",
               "waiting-human", "blocked", "merged", "done"}
Terminal   == {"merged", "done"}
Reviewable == {"pr-open", "in-review", "waiting-human"}
Blockable  == {"queued", "in-progress", "pr-open", "in-review", "blocked"}

Parkable   == ItemStatus \ Terminal

ASSUME ReasonsAssumption ==
    /\ FailureReasons \cap SchedulingReasons = {}
    /\ Untyped \notin ParkReasons
ASSUME NoneAssumption ==
    /\ None \notin ItemStatus /\ None \notin Lanes /\ None \notin PRs
    /\ None \notin Shas /\ None \notin Rounds /\ None \notin ParkTypes
ASSUME SeedsAssumption == \A s \in Seeds : s \in SeedType /\ WellFormed(s)
ASSUME SameSecondAssumption == SameSecond \subseteq BOOLEAN
ASSUME MaxAttemptsAssumption == MaxAttempts \in Nat

PrRef  == [number : PRs \cup {None}, closed : BOOLEAN]
Round  == [round : Rounds, head_sha : Shas]

NoPr       == [number |-> None, closed |-> FALSE]
NoAttempts == [k \in Kinds |-> 0]

ItemType == [status        : ItemStatus \cup {None},  \* None: not in state.items
             lane          : Lanes \cup {None},
             blocked_on    : SUBSET Items,
             pr            : PrRef,
             parked        : ParkTypes \cup {None},
             attempts      : [Kinds -> Nat],
             round_history : Seq(Round)]

NewItem(l, s) == [status |-> s, lane |-> l, blocked_on |-> {}, pr |-> NoPr,
                  parked |-> None, attempts |-> NoAttempts, round_history |-> <<>>]

Known(i)  == item[i].status # None
Active(i) == Known(i) /\ item[i].parked = None
From(i, legal) == Active(i) /\ item[i].status \in legal
HoldsPr(i)     == item[i].pr.number # None
HoldsOpenPr(i) == HoldsPr(i) /\ ~item[i].pr.closed

\* The ref outlives its PR and says so.
ClosedRef(pr) == IF pr.number = None THEN pr ELSE [pr EXCEPT !.closed = TRUE]

-----------------------------------------------------------------------------
(* Blocker edges *)

Unresolved(items, i) ==
    {t \in items[i].blocked_on : items[t].status \notin Terminal}

\* mutant: an item whose edges are replaced is freed without looking at them
RecomputeFrees(items, i) ==
    [items EXCEPT ![i].status = IF @ = "blocked" THEN "queued" ELSE @]

Recompute(items, i) ==
    [items EXCEPT ![i].status =
        IF Unresolved(items, i) # {} THEN "blocked"
        ELSE IF @ = "blocked" THEN "queued" ELSE @]

\* mutant: a merge frees nobody
NoCascade(items) == items

\* mutant: a merge queues whom it frees in the parking lot too
CascadeToLot(items) ==
    [j \in Items |->
        IF items[j].status = "blocked" /\ Unresolved(items, j) = {}
        THEN [items[j] EXCEPT !.status = "queued"]
        ELSE items[j]]

\* The code iterates to a fixpoint; no unblocked item becomes terminal, so
\* one pass reaches it.
Cascade(items) ==
    [j \in Items |->
        IF /\ items[j].parked = None
           /\ items[j].status = "blocked"
           /\ Unresolved(items, j) = {}
        THEN [items[j] EXCEPT !.status = "queued"]
        ELSE items[j]]

-----------------------------------------------------------------------------
(* What every handled event does besides its own effect *)

\* A paused run takes events as a running one does.
Live == phase \in {"running", "paused"}

\* _record_last_referenced: the event's time is the item's last_item_ts, and
\* `closing` the PRs whose closure carries it too.
Touch(i, closing) ==
    \E same \in SameSecond :
        fresh' = [fresh EXCEPT ![i] = (IF same THEN @ ELSE {}) \cup closing]

Flag(i) ==
    /\ Touch(i, {})
    /\ UNCHANGED <<phase, item, queue, ledgers>>

Applies(i) ==
    /\ Touch(i, {})
    /\ UNCHANGED phase

\* The handlers that change one item and nothing else.
Update(i, next) ==
    /\ Applies(i)
    /\ item' = [item EXCEPT ![i] = next]
    /\ UNCHANGED <<queue, ledgers>>

\* An event the loop never dispatches: before the seed or after the end.
Ignored ==
    /\ ~Live
    /\ phase' = IF phase = "new" THEN "unseeded" ELSE phase
    /\ UNCHANGED <<item, queue, ledgers, fresh>>

-----------------------------------------------------------------------------
(* Run-level events *)

Blank == [i \in Items |-> NewItem(None, None)]

GrindCreated(seed) ==
    /\ phase = "new"
    /\ phase' = "running"
    /\ item' = [i \in Items |->
           LET home == {l \in Lanes : i \in seed.queue[l]}
           IN  IF home = {} THEN Blank[i]
               ELSE [NewItem(CHOOSE l \in home : TRUE,
                             IF seed.on[i] = {} THEN "queued" ELSE "blocked")
                     EXCEPT !.blocked_on = seed.on[i]]]
    /\ queue' = seed.queue
    /\ UNCHANGED <<ledgers, fresh>>

GrindPaused ==
    /\ phase' = "paused"
    /\ UNCHANGED <<item, queue, ledgers, fresh>>

\* Resuming a run that is not paused is an anomaly that changes nothing.
GrindResumed ==
    /\ phase' = "running"
    /\ UNCHANGED <<item, queue, ledgers, fresh>>

GrindFinished ==
    /\ phase' = "finished"
    /\ UNCHANGED <<item, queue, ledgers, fresh>>

-----------------------------------------------------------------------------
(* Item events.  Can... is the handler's guard, and the action named after *)
(* the event is what it does when the guard holds.                         *)

\* mutant: parking leaves the item in its lane's queue
StaysQueued(i) == queue

Dequeued(i) ==
    IF item[i].lane = None THEN queue
    ELSE [queue EXCEPT ![item[i].lane] = @ \ {i}]

CanStart(i) == From(i, {"queued"})
ItemStarted(i) ==
    /\ CanStart(i)
    /\ Update(i, [item[i] EXCEPT !.status = "in-progress"])

CanOpenPr(i) == From(i, {"in-progress", "waiting-human"})
PrOpened(i, p) ==
    /\ CanOpenPr(i)
    /\ Update(i, [item[i] EXCEPT !.status = "pr-open",
                                 !.pr = [number |-> p, closed |-> FALSE]])

\* The latest event of a round replaces that round's entry in place.
Recorded(history, r, sha) ==
    LET entry == [round |-> r, head_sha |-> sha]
        same  == {n \in DOMAIN history : history[n].round = r}
    IN  IF same = {} THEN Append(history, entry)
        ELSE [n \in DOMAIN history |-> IF n \in same THEN entry ELSE history[n]]

Reviewed(i, r, sha) ==
    [item[i] EXCEPT !.status = "in-review",
                    !.round_history = Recorded(@, r, sha)]

CanReview(i) == From(i, Reviewable)
ReviewRound(i, r, sha) ==
    /\ CanReview(i)
    /\ Update(i, Reviewed(i, r, sha))

\* A verdict on another commit than its round's is flagged and still counts;
\* the counts it brings are reported only.
ReviewVerdict(i, r, sha) ==
    /\ CanReview(i)
    /\ Update(i, Reviewed(i, r, sha))

\* mutant: the fix budget survives the closure
CycleKeepsBudget(it) == [it EXCEPT !.round_history = <<>>, !.pr = ClosedRef(@)]

\* The closure ends the review cycle and the fix budget spent in it.
CycleEnded(it) ==
    [it EXCEPT !.round_history = <<>>, !.attempts = NoAttempts,
               !.pr = ClosedRef(@)]

\* mutant: `next: parked` is taken for a status
PrClosedAnyNext(i, p, next) ==
    /\ From(i, Reviewable)
    /\ Touch(i, {p})
    /\ closed_ledger' = [closed_ledger EXCEPT ![i] = @ \cup {p}]
    /\ item' = [item EXCEPT ![i] = [CycleEnded(@) EXCEPT !.status = next]]
    /\ UNCHANGED <<phase, queue, merged_ledger>>

\* `next` is a status, or the type of the park that `next: parked` makes.
CanClosePr(i) == From(i, Reviewable)
PrClosed(i, p, next) ==
    /\ CanClosePr(i)
    /\ Touch(i, {p})
    /\ closed_ledger' = [closed_ledger EXCEPT ![i] = @ \cup {p}]
    /\ IF next \in ParkTypes
       THEN /\ item' = [item EXCEPT ![i] = [CycleEnded(@) EXCEPT !.parked = next]]
            /\ queue' = Dequeued(i)
       ELSE /\ item' = [item EXCEPT ![i] = [CycleEnded(@) EXCEPT !.status = next]]
            /\ UNCHANGED queue
    /\ UNCHANGED <<phase, merged_ledger>>

CanAttempt(i) == From(i, ItemStatus \ Terminal) /\ HoldsOpenPr(i)
FixAttempted(i, k) ==
    /\ CanAttempt(i)
    /\ item[i].attempts[k] < MaxAttempts
    /\ Update(i, [item[i] EXCEPT !.attempts[k] = @ + 1])

CanBlock(i) == From(i, Blockable)
ItemBlocked(i, on) ==
    /\ CanBlock(i)
    /\ Applies(i)
    /\ item' = Recompute([item EXCEPT ![i].blocked_on = on], i)
    /\ UNCHANGED <<queue, ledgers>>

CanWait(i) == From(i, Blockable)
ItemWaitingHuman(i) ==
    /\ CanWait(i)
    /\ Applies(i)
    /\ item' = [item EXCEPT ![i].status = "waiting-human"]
    /\ UNCHANGED <<queue, ledgers>>

CanResume(i) == From(i, {"waiting-human"})
ItemResumed(i) ==
    /\ CanResume(i)
    /\ Applies(i)
    /\ item' = [item EXCEPT ![i].status =
           IF Unresolved(item, i) # {} THEN "blocked" ELSE "in-progress"]
    /\ UNCHANGED <<queue, ledgers>>

CanMerge(i) == From(i, Reviewable)
ItemMerged(i, sha) ==
    /\ CanMerge(i)
    /\ Applies(i)
    /\ item' = Cascade([item EXCEPT ![i].status = "merged",
                                    ![i].pr = ClosedRef(@)])
    /\ merged_ledger' = [merged_ledger EXCEPT ![i] = sha]
    /\ UNCHANGED <<queue, closed_ledger>>

CanFinishItem(i) == From(i, {"merged"})
ItemDone(i) ==
    /\ CanFinishItem(i)
    /\ Applies(i)
    /\ item' = Cascade([item EXCEPT ![i].status = "done"])
    /\ UNCHANGED <<queue, ledgers>>

\* A failure says the item's PR did not merge, so there has to be one.  A
\* reason that is none of the vocabulary's, in a log older than the check at
\* the boundary, parks untyped.
CanPark(i, reason) ==
    From(i, Parkable) /\ (reason \in FailureReasons => HoldsPr(i))
ItemParked(i, reason) ==
    /\ CanPark(i, reason)
    /\ Applies(i)
    /\ item' = [item EXCEPT ![i].parked = reason]
    /\ queue' = Dequeued(i)
    /\ UNCHANGED ledgers

\* The one exit of the parking lot.  `closure` is the abandoned PR, or None;
\* one that is not the item's own is flagged and not applied, while the item
\* still leaves the lot.
CanEnqueue(i) == Known(i) /\ item[i].parked # None
ItemEnqueued(i, l, closure) ==
    LET abandons == closure # None /\ item[i].pr.number = closure
        back     == [item[i] EXCEPT !.parked = None, !.lane = l,
                                    !.attempts = NoAttempts, !.status = "queued"]
        entering == IF abandons
                    THEN [back EXCEPT !.pr = NoPr, !.round_history = <<>>]
                    ELSE back
        closing  == IF abandons THEN {closure} ELSE {}
    IN  /\ CanEnqueue(i)
        /\ Touch(i, closing)
        /\ item' = Recompute([item EXCEPT ![i] = entering], i)
        /\ queue' = [queue EXCEPT ![l] = @ \cup {i}]
        /\ closed_ledger' = [closed_ledger EXCEPT ![i] = @ \cup closing]
        /\ UNCHANGED <<phase, merged_ledger>>

\* Work found on the way: parked for a scheduling reason, untyped if an older
\* log names any other, or on a lane.
DiscoveredParked(i, reason) ==
    /\ ~Known(i)
    /\ Applies(i)
    /\ item' = [item EXCEPT ![i] = [NewItem(None, "queued") EXCEPT !.parked = reason]]
    /\ UNCHANGED <<queue, ledgers>>

DiscoveredEnqueued(i, l) ==
    /\ ~Known(i)
    /\ Applies(i)
    /\ item' = [item EXCEPT ![i] = NewItem(l, "queued")]
    /\ queue' = [queue EXCEPT ![l] = @ \cup {i}]
    /\ UNCHANGED ledgers

\* Observations, and attention raised or cleared on an item: they stamp its
\* time and change nothing else that is kept here.
Observation(i) ==
    /\ Known(i)
    /\ Applies(i)
    /\ UNCHANGED <<item, queue, ledgers>>

-----------------------------------------------------------------------------
(* The events the executor appends, and the rest *)

PairedEvent(i) ==
    \/ ItemStarted(i)
    \/ \E p \in PRs : PrOpened(i, p)
    \/ \E p \in PRs, next \in {"in-progress", "queued"} \cup ParkTypes : PrClosed(i, p, next)
    \/ \E k \in Kinds : FixAttempted(i, k)
    \/ \E sha \in Shas : ItemMerged(i, sha)
    \/ ItemDone(i)
    \/ \E reason \in ParkTypes : ItemParked(i, reason)
    \/ \E l \in Lanes, closure \in PRs \cup {None} : ItemEnqueued(i, l, closure)

UnpairedEvent(i) ==
    \/ \E r \in Rounds, sha \in Shas : ReviewRound(i, r, sha)
    \/ \E r \in Rounds, sha \in Shas : ReviewVerdict(i, r, sha)
    \/ \E on \in SUBSET Items : ItemBlocked(i, on)
    \/ ItemWaitingHuman(i)
    \/ ItemResumed(i)
    \/ \E reason \in SchedulingReasons \cup {Untyped} : DiscoveredParked(i, reason)
    \/ \E l \in Lanes : DiscoveredEnqueued(i, l)
    \/ Observation(i)

Init ==
    /\ phase = "new"
    /\ item = Blank
    /\ queue = [l \in Lanes |-> {}]
    /\ closed_ledger = [i \in Items |-> {}]
    /\ fresh = [i \in Items |-> {}]
    /\ merged_ledger = [i \in Items |-> None]

Next ==
    \/ \E seed \in Seeds : GrindCreated(seed)
    \/ Ignored
    \/ /\ Live
       /\ \/ GrindPaused
          \/ GrindResumed
          \/ GrindFinished
          \/ \E i \in Items : PairedEvent(i) \/ UnpairedEvent(i) \/ Flag(i)

Spec == Init /\ [][Next]_vars

-----------------------------------------------------------------------------
(* Properties *)

TypeOK ==
    /\ phase \in {"new", "unseeded", "running", "paused", "finished"}
    /\ item \in [Items -> ItemType]
    /\ queue \in [Lanes -> SUBSET Items]
    /\ closed_ledger \in [Items -> SUBSET PRs]
    /\ fresh \in [Items -> SUBSET PRs]
    /\ merged_ledger \in [Items -> Shas \cup {None}]

\* An item is in a lane's queue exactly while it is in play on that lane: it
\* is never in two queues, never in one while parked, and never lost from its
\* lane by a park and the enqueue that ends it, whatever lane that one names.
QueueMembership ==
    \A i \in Items, l \in Lanes :
        i \in queue[l] <=> Active(i) /\ item[i].lane = l

\* An item in play is blocked only while some edge of it is unresolved: the
\* merge that resolves the last one frees it in the same event.
BlockedHasCause ==
    \A i \in Items :
        Active(i) /\ item[i].status = "blocked" => Unresolved(item, i) # {}

\* The converse, for the event that unblocks: `item_unblocked` is reported
\* when a blocked item is queued, and then no edge of it is open.
UnblockedIsFree ==
    [][\A i \in Items :
        item[i].status = "blocked" /\ item'[i].status = "queued"
            => Unresolved(item', i) = {}]_vars

\* What a merge settles stays settled: the status never leaves merged/done,
\* the item is not parked, its PR does not reopen and the recorded commit
\* does not change.  Blocker edges rely on it.
MergedIsFinal ==
    [][\A i \in Items :
        item[i].status \in Terminal =>
            /\ item'[i].status \in {item[i].status, "done"}
            /\ item'[i].parked = None
            /\ ~HoldsOpenPr(i)'
            /\ merged_ledger'[i] = merged_ledger[i]]_vars

\* The attempt ledger lives one PR cycle: a count is only ever held against a
\* PR that is open, or was merged with it, and it passes to another PR only
\* where `pr_opened` replaces one that is still open.  (There the fold keeps
\* the count, although "a new PR must not inherit spent budget", model.py.)
AttemptsWithinCycle ==
    [][\A i \in Items : item'[i].attempts # NoAttempts =>
        /\ HoldsOpenPr(i)' \/ item'[i].status \in Terminal
        /\ item'[i].pr.number # item[i].pr.number => HoldsOpenPr(i) /\ HoldsOpenPr(i)']_vars

\* Rounds are distinct in the history, which is what makes its last N entries
\* the last N rounds for review_stalemate_risk.
DistinctRounds ==
    \A i \in Items : LET h == item[i].round_history IN
        \A m, n \in DOMAIN h : h[m].round = h[n].round => m = n

-----------------------------------------------------------------------------
(* What the fold promises of the items *)

Places == [i \in Items |->
    {l \in Lanes : i \in queue[l]} \cup (IF item[i].parked # None THEN {None} ELSE {})]

Stages == [i \in Items |->
    IF item[i].status \in Reviewable THEN "in-progress" ELSE item[i].status]

Edges == [i \in Items |-> IF Known(i) THEN Unresolved(item, i) ELSE {}]

OpenPrs == {i \in Items : Known(i) /\ HoldsOpenPr(i)}

Board == INSTANCE WorkBoard WITH
    place <- Places, stage <- Stages, edges <- Edges, open <- OpenPrs,
    commit <- merged_ledger

\* Through any log, items behave as on the board: each in one place, blocked
\* for a cause and freed by the merge that removes it, parked as it is, and
\* merged for good (fold.py: recompute, cascade, park and enqueue together).
IsWorkBoard == Board!Spec

=============================================================================
