------------------------------ MODULE Executor ------------------------------
(***************************************************************************)
(* The executor (packages/executor): one command pairs at most one event   *)
(* appended to the grind log with at most one call of the tracker facade   *)
(* `work`, and ends with one `work sync` when the tracker was written.     *)
(* The runtime it writes to is GrindFold; the tracker is outside the       *)
(* repository and modelled from what this package relies on.               *)
(*                                                                         *)
(* One command runs at a time: the executor is the log's single writer.    *)
(* Between commands the operator appends the unpaired events with          *)
(* `grind log`.  Every call may fail before it is launched, fail with its  *)
(* effect in place, or never return because the process dies.              *)
(***************************************************************************)
EXTENDS GrindFold

CONSTANTS
    HandleChoices,    \* the sets of items that may have a tracker handle
    Budget,           \* the fix budget of each kind, seeded into config
    BudgetExhausted,  \* the park reason of a spent budget
    Untracked         \* the "no tracker call" of a row

ASSUME HandleAssumption == HandleChoices \subseteq SUBSET Items
ASSUME BudgetAssumption == Budget \in Nat /\ Budget <= MaxAttempts
ASSUME BudgetExhaustedAssumption == BudgetExhausted \in FailureReasons

TrackerVerbs == {"claim", "park", "redispatch", "abandon", "close"}

\* A parked tracker item is named by the reason it is parked for.
TrackerStatus == {"open", "in_progress", "closed"} \cup FailureReasons
ASSUME TrackerAssumption ==
    /\ {"open", "in_progress", "closed"} \cap FailureReasons = {}
    /\ Untracked \notin TrackerVerbs

VARIABLES
    handled,   \* items with a tracker handle: all but the `disc-<n>` slugs
    tracker,   \* the facade's status of each item
    unsynced,  \* items with a tracker write that `work sync` has not pushed
    stranded,  \* the unsynced ones no running command will sync: its process
               \* died, or it reported the failed sync
    session,   \* the command being enacted
    owed,      \* the last command, while it is failed and not yet followed
    granted    \* "proceed" answers given out of the current attempt ledger

execVars == <<handled, tracker, unsynced, stranded, session, owed, granted>>
allVars  == <<vars, execVars>>

-----------------------------------------------------------------------------
(* Commands and the pairing table.  `arg` is the PR, commit, park reason   *)
(* or attempt kind; `next` is a status, or the type of the park that       *)
(* `--next parked` makes.                                                  *)

Command(verb, i, arg, next) == [verb |-> verb, item |-> i, arg |-> arg, next |-> next]

ClosureOutcomes == {"in-progress", "queued"} \cup ParkTypes

Commands(i) ==
    {Command(verb, i, None, None) : verb \in {"start", "redispatch", "done"}}
    \cup {Command("park", i, reason, None) : reason \in ParkReasons}
    \cup {Command(verb, i, p, None) : verb \in {"abandon", "pr-opened"}, p \in PRs}
    \cup {Command("pr-closed", i, p, next) : p \in PRs, next \in ClosureOutcomes}
    \cup {Command("merged", i, sha, None) : sha \in Shas}
    \cup {Command("attempt", i, k, None) : k \in Kinds}

\* mutant: the budget is spent one attempt late
BudgetPassed(i, k) ==
    From(i, ItemStatus \ Terminal) /\ item[i].attempts[k] > Budget

\* The runtime's condition attempt_budget_spent.
BudgetSpent(i, k) ==
    From(i, ItemStatus \ Terminal) /\ item[i].attempts[k] >= Budget

RowOf(c) ==
    CASE c.verb = "park"    -> IF c.arg \in FailureReasons THEN "park:failure"
                                                           ELSE "park:scheduling"
      [] c.verb = "attempt" -> IF BudgetSpent(c.item, c.arg) THEN "attempt:exhausted"
                                                             ELSE "attempt:under-budget"
      [] OTHER              -> c.verb

FailureParks == {"park:failure", "attempt:exhausted"}

TrackerVerb(row) ==
    CASE row = "start"           -> "claim"
      [] row \in FailureParks    -> "park"
      [] row = "redispatch"      -> "redispatch"
      [] row = "abandon"         -> "abandon"
      [] row = "merged"          -> "close"
      [] OTHER                   -> Untracked

\* mutant: a merge closes the tracker item before it is recorded
RuntimeFirstButMerge(row) == row \in {"pr-opened", "pr-closed", "done"}

\* Facts about the world are recorded first; intents are enacted first.
RuntimeFirst(row) == row \in {"pr-opened", "pr-closed", "merged", "done"}

\* mutant: the exhaustion park passes the attempt's kind on
ParkReasonRaw(row, c) == c.arg

ParkReason(row, c) == IF row = "attempt:exhausted" THEN BudgetExhausted ELSE c.arg

-----------------------------------------------------------------------------
(* Matrix B: whether the fold has the row on record for the item, and      *)
(* whether what it recorded is this command.                               *)

ClosedOut(i) ==
    item[i].parked # None \/ item[i].status \in {"in-progress", "queued"}

\* mutant: a closure to `parked` is looked for in the status
PositionOfStatus(i) == item[i].status

Position(i) == IF item[i].parked # None THEN item[i].parked ELSE item[i].status

OnRecord(row, c) == LET i == c.item IN
    CASE row = "start"      -> From(i, {"in-progress"})
      [] row \in {"park:failure", "park:scheduling"} -> item[i].parked # None
      [] row = "redispatch" -> From(i, {"queued", "blocked"})
      [] row = "abandon"    -> ~HoldsPr(i) /\ c.arg \in closed_ledger[i]
      [] row = "pr-opened"  -> HoldsPr(i) /\ ~ClosedOut(i)
      [] row = "pr-closed"  -> ClosedOut(i) /\ c.arg \in fresh[i]
      [] row = "merged"     -> From(i, Terminal)
      [] row = "done"       -> From(i, {"done"})
      [] OTHER              -> FALSE

SameAsRecorded(row, c) == LET i == c.item IN
    CASE row \in {"park:failure", "park:scheduling"} -> item[i].parked = c.arg
      [] row = "pr-opened"  -> item[i].pr.number = c.arg
      [] row = "pr-closed"  -> Position(i) = c.next
      [] row = "merged"     -> merged_ledger[i] = c.arg
      [] OTHER              -> TRUE

-----------------------------------------------------------------------------
(* Matrix A: the states a row may fire from, duplicating the fold's.       *)

OnPr(i, p) == item[i].pr.number = p
OnLane(i)  == item[i].lane # None
Parked(i)  == item[i].parked # None

LegalStates(row) ==
    CASE row = "start"     -> {"queued"}
      [] row = "pr-opened" -> {"in-progress", "waiting-human"}
      [] row \in {"pr-closed", "merged"} -> {"pr-open", "in-review", "waiting-human"}
      [] row = "done"      -> {"merged"}
      [] OTHER             -> ItemStatus \ Terminal

Requires(row, c) == LET i == c.item IN
    CASE row \in {"park:failure", "merged"}   -> HoldsPr(i)
      [] row = "redispatch"                   -> OnLane(i)
      [] row = "abandon"                      -> OnPr(i, c.arg) /\ OnLane(i)
      [] row = "pr-closed"                    -> OnPr(i, c.arg)
      [] row \in {"attempt:under-budget",
                  "attempt:exhausted"}        -> HoldsOpenPr(i)
      [] OTHER                                -> TRUE

Legal(row, c) ==
    /\ IF row \in {"redispatch", "abandon"} THEN Parked(c.item)
       ELSE From(c.item, LegalStates(row))
    /\ Requires(row, c)

\* mutant: what the fold would flag is not refused
RefusedOnRecord(c) == LET row == RowOf(c) IN
    \/ ~Known(c.item)
    \/ OnRecord(row, c) /\ ~SameAsRecorded(row, c)

\* What build_plan makes of a command: "refuse", or the steps enact takes.  A
\* command on record is not appended again; its tracker call is repeated.
Refused(c) == LET row == RowOf(c) IN
    \/ ~Known(c.item)
    \/ IF OnRecord(row, c) THEN ~SameAsRecorded(row, c) ELSE ~Legal(row, c)

Steps(c) == LET row == RowOf(c)
                append == IF OnRecord(row, c) THEN <<>> ELSE <<"runtime">>
                call   == IF c.item \in handled /\ TrackerVerb(row) # Untracked
                          THEN <<"tracker">> ELSE <<>>
            IN  IF RuntimeFirst(row) THEN append \o call ELSE call \o append

-----------------------------------------------------------------------------
(* The tracker: when each verb of the facade goes through, and to what.    *)

Accepts(verb, i) ==
    CASE verb = "claim"                    -> tracker[i] \in {"open", "in_progress"}
      [] verb = "park"                     -> tracker[i] # "closed"
      [] verb \in {"redispatch", "abandon"} ->
            tracker[i] \in {"open"} \cup FailureReasons
      [] OTHER                             -> TRUE

\* Parking what is parked changes nothing, and the reply is the old reason.
Outcome(verb, i, reason) ==
    CASE verb = "claim"                     -> "in_progress"
      [] verb = "park"                      ->
            IF tracker[i] \in FailureReasons THEN tracker[i] ELSE reason
      [] verb \in {"redispatch", "abandon"} -> "open"
      [] OTHER                              -> "closed"

CallLands(verb, i, reason) ==
    /\ Accepts(verb, i)
    /\ tracker' = [tracker EXCEPT ![i] = Outcome(verb, i, reason)]
    /\ unsynced' = IF tracker'[i] = tracker[i] THEN unsynced ELSE unsynced \cup {i}

-----------------------------------------------------------------------------
(* Enacting a command *)

Idle == [cmd |-> None, row |-> None, todo |-> <<>>, appends |-> FALSE,
         mutated |-> FALSE, failed |-> "no"]

\* A refused command changes nothing and is a stuttering step.
Invoke(c) ==
    /\ session = Idle
    /\ ~Refused(c)
    /\ session' = [Idle EXCEPT !.cmd = c, !.row = RowOf(c), !.todo = Steps(c),
                               !.appends = ~OnRecord(RowOf(c), c)]
    /\ owed' = None
    /\ UNCHANGED <<vars, handled, tracker, unsynced, stranded, granted>>

At(step) == session.failed = "no" /\ session.todo # <<>> /\ Head(session.todo) = step

Done(mutated) == session' = [session EXCEPT !.todo = Tail(@), !.mutated = @ \/ mutated]

\* mutant: a call that failed is taken not to have written
FailsClean(how, mutated) ==
    session' = [session EXCEPT !.todo = <<>>, !.failed = how]

\* A failed step ends the command; the steps after it are not taken.
Fails(how, mutated) ==
    session' = [session EXCEPT !.todo = <<>>, !.mutated = @ \/ mutated, !.failed = how]

\* mutant: the reply to a park is not read
ReplyUnread(verb, i, reason) == FALSE

\* The reply to a park names another reason: the item was parked before.
Contradicted(verb, i, reason) == verb = "park" /\ tracker'[i] # reason

TrackerStep ==
    LET verb   == TrackerVerb(session.row)
        i      == session.cmd.item
        reason == ParkReason(session.row, session.cmd)
    IN  /\ At("tracker")
        /\ \/ /\ CallLands(verb, i, reason)
              /\ IF Contradicted(verb, i, reason)
                 THEN Fails("refused", FALSE)
                 ELSE Done(TRUE)
           \* launched, and the reply is an error, unreadable or missing
           \/ /\ \/ CallLands(verb, i, reason)
                 \/ UNCHANGED <<tracker, unsynced>>
              /\ Fails("retryable", TRUE)
           \* never launched
           \/ /\ Fails("retryable", FALSE)
              /\ UNCHANGED <<tracker, unsynced>>
        /\ UNCHANGED <<vars, handled, stranded, owed, granted>>

\* The event the row appends, and the fold's condition for applying it.
Event(row, c) == LET i == c.item IN
    \/ row = "start"      /\ ItemStarted(i)
    \/ row \in FailureParks \cup {"park:scheduling"} /\ ItemParked(i, ParkReason(row, c))
    \/ row = "redispatch" /\ ItemEnqueued(i, item[i].lane, None)
    \/ row = "abandon"    /\ ItemEnqueued(i, item[i].lane, c.arg)
    \/ row = "pr-opened"  /\ PrOpened(i, c.arg)
    \/ row = "pr-closed"  /\ PrClosed(i, c.arg, c.next)
    \/ row = "merged"     /\ ItemMerged(i, c.arg)
    \/ row = "done"       /\ ItemDone(i)
    \/ row = "attempt:under-budget" /\ FixAttempted(i, c.arg)

Applicable(row, c) == LET i == c.item IN
    CASE row = "start"       -> CanStart(i)
      [] row \in FailureParks \cup {"park:scheduling"} -> CanPark(i, ParkReason(row, c))
      [] row \in {"redispatch", "abandon"} -> CanEnqueue(i)
      [] row = "pr-opened"   -> CanOpenPr(i)
      [] row = "pr-closed"   -> CanClosePr(i)
      [] row = "merged"      -> CanMerge(i)
      [] row = "done"        -> CanFinishItem(i)
      [] OTHER               -> CanAttempt(i)

\* The event is written: applied, or flagged and the item left alone.
Write(row, c) ==
    \/ Live /\ Event(row, c)
    \/ Live /\ ~Applicable(row, c) /\ Flag(c.item)
    \/ Ignored

Applied(row, c) == Live /\ Applicable(row, c)

\* Answers given out of a ledger that was reset are no longer counted.
LedgerKept(i) ==
    granted' = [granted EXCEPT ![i] = IF item'[i].attempts = NoAttempts
                                      THEN NoAttempts ELSE @]

RuntimeStep ==
    LET c == session.cmd
    IN  /\ At("runtime")
        /\ \/ /\ Write(session.row, c)
              /\ LedgerKept(c.item)
              /\ IF Applied(session.row, c)
                 THEN Done(FALSE) \/ Fails("retryable", FALSE)
                 ELSE Fails("refused", FALSE) \/ Fails("retryable", FALSE)
           \/ /\ Fails("retryable", FALSE)
              /\ UNCHANGED <<vars, granted>>
        /\ UNCHANGED <<handled, tracker, unsynced, stranded, owed>>

Over == session # Idle /\ session.todo = <<>>

Synced ==
    \/ unsynced' = {} /\ stranded' = {}
    \/ \E left \in {unsynced, {}} : unsynced' = left /\ stranded' = left

\* The single sync, owed by a failed command too, and the report.
Conclude ==
    /\ Over
    /\ IF session.mutated THEN Synced ELSE UNCHANGED <<unsynced, stranded>>
    /\ owed' = IF session.failed = "retryable" THEN session.cmd ELSE None
    /\ granted' =
           IF session.row = "attempt:under-budget" /\ session.failed = "no"
           THEN [granted EXCEPT ![session.cmd.item][session.cmd.arg] = @ + 1]
           ELSE granted
    /\ session' = Idle
    /\ UNCHANGED <<vars, handled, tracker>>

\* The process dies; whoever called it sees a failure.
Crash ==
    /\ session # Idle
    /\ session' = Idle
    /\ owed' = session.cmd
    /\ stranded' = unsynced
    /\ UNCHANGED <<vars, handled, tracker, unsynced, granted>>

\* The repair a failed sync names.
WorkSync ==
    /\ session = Idle
    /\ unsynced # {}
    /\ unsynced' = {}
    /\ stranded' = {}
    /\ UNCHANGED <<vars, handled, tracker, session, owed, granted>>

\* Events with no pairing row, appended with `grind log` between commands.
Direct ==
    /\ session = Idle
    /\ \/ \E seed \in Seeds : GrindCreated(seed)
       \/ Live /\ (GrindPaused \/ GrindResumed \/ GrindFinished)
       \/ Live /\ \E i \in Items : UnpairedEvent(i)
    /\ owed' = None
    /\ UNCHANGED <<handled, tracker, unsynced, stranded, session, granted>>

ExecInit ==
    /\ Init
    /\ handled \in HandleChoices
    /\ tracker = [i \in Items |-> "open"]
    /\ unsynced = {}
    /\ stranded = {}
    /\ session = Idle
    /\ owed = None
    /\ granted = [i \in Items |-> NoAttempts]

ExecNext ==
    \/ \E i \in Items : \E c \in Commands(i) : Invoke(c)
    \/ TrackerStep
    \/ RuntimeStep
    \/ Conclude
    \/ Crash
    \/ WorkSync
    \/ Direct

ExecSpec == ExecInit /\ [][ExecNext]_allVars

-----------------------------------------------------------------------------
(* Properties *)

Rows == {"start", "park:failure", "park:scheduling", "redispatch", "abandon",
         "pr-opened", "pr-closed", "merged", "done",
         "attempt:under-budget", "attempt:exhausted"}

SessionType ==
    [cmd : (UNION {Commands(i) : i \in Items}) \cup {None}, row : Rows \cup {None},
     todo : {<<>>, <<"tracker">>, <<"runtime">>,
             <<"tracker", "runtime">>, <<"runtime", "tracker">>},
     appends : BOOLEAN, mutated : BOOLEAN, failed : {"no", "retryable", "refused"}]

ExecTypeOK ==
    /\ TypeOK
    /\ handled \in HandleChoices
    /\ tracker \in [Items -> TrackerStatus]
    /\ unsynced \in SUBSET Items
    /\ stranded \in SUBSET Items
    /\ session \in SessionType
    /\ owed \in (UNION {Commands(i) : i \in Items}) \cup {None}
    /\ granted \in [Items -> [Kinds -> Nat]]

Pending(step) == \E n \in DOMAIN session.todo : session.todo[n] = step

\* Matrix A mirrors the fold: an append the executor still has to make is one
\* the fold applies, unless the run is finished.  A tracker-first row has
\* written the tracker by then, so a flagged append would leave the planes
\* apart.
AppendNeverFlagged ==
    Live /\ Pending("runtime") => Applicable(session.row, session.cmd)

\* Closed means merged: whatever fails, in whatever order, the tracker closes
\* an item only after the runtime has recorded its merge, and no later event
\* takes the merge back.
ClosedMeansMerged ==
    \A i \in Items : tracker[i] = "closed" => item[i].status \in Terminal

\* The budget bounds the fixes begun: an answer to proceed is always covered
\* by a charge that survives crashes and lost replies, and the charges of one
\* ledger never pass the budget.
PreCharged ==
    \A i \in Items, k \in Kinds :
        /\ granted[i][k] <= item[i].attempts[k]
        /\ item[i].attempts[k] <= Budget

\* A tracker write leaves the machine with the command that made it, whether
\* the command succeeded or not: only a dead process or a failed sync leaves
\* one behind.
NothingStranded == session = Idle => unsynced \subseteq stranded

\* A command that failed can be run again: whichever of its steps took effect,
\* the plan of the same command is not a refusal.  (An attempt whose park is
\* already recorded is: the park is the answer.)
RetryNeverRefused ==
    session = Idle /\ owed # None =>
        ~Refused(owed) \/ (owed.verb = "attempt" /\ Parked(owed.item))

Agreed(row, c) == LET i == c.item IN
    CASE row = "start"           -> From(i, {"in-progress"})
      [] row \in FailureParks \cup {"park:scheduling"} ->
             item[i].parked = ParkReason(row, c)
      [] row = "redispatch"      -> Active(i)
      [] row = "abandon"         ->
             Active(i) /\ ~HoldsPr(i) /\ c.arg \in closed_ledger[i]
      [] row = "pr-opened"       -> OnPr(i, c.arg)
      [] row = "pr-closed"       -> ~HoldsOpenPr(i) /\ c.arg \in closed_ledger[i]
      [] row = "merged"          -> From(i, Terminal) /\ merged_ledger[i] = c.arg
      [] row = "done"            -> From(i, {"done"})
      [] OTHER                   -> HoldsOpenPr(i)

TrackerGoal(row, c) ==
    CASE row = "start"                      -> "in_progress"
      [] row \in FailureParks               -> ParkReason(row, c)
      [] row \in {"redispatch", "abandon"}  -> "open"
      [] OTHER                              -> "closed"

\* The item was abandoned before, and parked again since.
AbandonedBefore(row, c) ==
    /\ row = "abandon" /\ Parked(c.item)
    /\ ~HoldsPr(c.item) /\ c.arg \in closed_ledger[c.item]

\* A command that reports success has brought both planes where it says, also
\* when it appended nothing because an earlier run had.  There is one case in
\* which it has not: an abandon found on record appends nothing although the
\* item was parked again, so the command whose help says "return a parked item
\* to its lane" succeeds and leaves it in the parking lot (_abandon_recorded).
SuccessMeansBoth ==
    Over /\ session.failed = "no" =>
        LET c == session.cmd IN
        /\ Agreed(session.row, c) \/ (~session.appends /\ AbandonedBefore(session.row, c))
        /\ c.item \in handled /\ TrackerVerb(session.row) # Untracked =>
               tracker[c.item] = TrackerGoal(session.row, c)

=============================================================================
