----------------------------- MODULE PrgroomRun -----------------------------
(***************************************************************************)
(* prgroom's run loop over one pull request (packages/prgroom lifecycle):  *)
(* poll, then wait or the pipeline cluster - fix - cap - push - reply -     *)
(* resolve, then the end-of-cycle phase.  Every step works on a copy of    *)
(* the state and is persisted when it returns, so what it did to GitHub or *)
(* to the worktree may stand while its state is lost: the process dies, a  *)
(* call fails half way, a response does not arrive.                        *)
(*                                                                         *)
(* Required reviewers are left out (nothing in the code ever registers     *)
(* one), as are memory routing, the review label and reply texts.  The     *)
(* per-PR lock admits one run at a time; a second one exits and is no step *)
(* here.                                                                   *)
(***************************************************************************)
EXTENDS Naturals, FiniteSets

CONSTANTS
    Items,      \* review comments that may be filed
    Threads,    \* those that are inline review threads
    Budgets,    \* the values of --pr-review-retries a run may be given
    MaxForeign, \* bound on the pushes of others, the PR's first one included
    MaxFaults   \* bound on crashes, failing calls and signals

ASSUME ItemsAssumption == IsFiniteSet(Items) /\ Threads \subseteq Items
ASSUME BudgetsAssumption == Budgets \subseteq Nat
ASSUME BoundsAssumption == MaxForeign \in Nat /\ MaxFaults \in Nat

Phases == {"idle", "awaiting", "fixes", "quiesced", "gated", "merged"}
TerminalForCli == {"quiesced", "gated", "merged"}
Waiting == {"idle", "awaiting"}

Dispositions == {"fixed", "skipped", "escalated", "failed"}
Blockers == {"escalated", "failed"}
Replyable == {"fixed", "skipped", "escalated"}

\* not ingested, ingested, clustered, dispositioned
Stages == {"unseen", "new", "clustered"} \cup Dispositions

Errors == {"none", "transient", "terminal", "exhausted"}

\* PRGroomingState.  A SHA is the number of the push that made it the head.
StateType ==
    [phase : Phases, err : Errors, filed : BOOLEAN, retries : Nat,
     pollSha : Nat, pushedSha : Nat,
     kind : [Items -> Stages], replied : [Items -> BOOLEAN],
     resolved : [Items -> BOOLEAN], told : [Items -> BOOLEAN],
     ci : BOOLEAN,   \* was CI green, or absent, when last polled?
     idle : BOOLEAN] \* is the last activity further back than the threshold?

Bootstrap ==
    [phase |-> "idle", err |-> "none", filed |-> FALSE, retries |-> 0,
     pollSha |-> 0, pushedSha |-> 0,
     kind |-> [i \in Items |-> "unseen"], replied |-> [i \in Items |-> FALSE],
     resolved |-> [i \in Items |-> FALSE], told |-> [i \in Items |-> FALSE],
     ci |-> FALSE, idle |-> FALSE]

VARIABLES
    disk,       \* the state file
    mem,        \* ctx.state of the run
    pc,         \* its next step; "off" between runs
    cycle,      \* what _run notes when a pipeline cycle begins
    options,    \* the run's mode and budget
    exit,       \* "clean": the state is as the last run left it, by itself
    comments,   \* GitHub: the review items filed
    posted,     \* GitHub: replies of prgroom, per item
    closed,     \* GitHub: threads resolved
    head,       \* GitHub: the head branch's last push; 0 when it has none
    own,        \* how many pushes were prgroom's
    merged,     \* GitHub: is the PR merged?
    green,      \* GitHub: is CI green, or absent?
    queue,      \* items with commits in the worktree that the head has not
    published,  \* items with commits on the head branch
    behind,     \* does the head branch have commits the worktree lacks?
    announced,  \* was the gate in force sent to the sink?
    faults

vars == <<disk, mem, pc, cycle, options, exit, comments, posted, closed, head,
          own, merged, green, queue, published, behind, announced, faults>>

github == <<comments, posted, closed, head, own, merged, green>>
worktree == <<queue, published, behind>>
world == <<github, worktree>>

-----------------------------------------------------------------------------
(* What the steps compute *)

Undispositioned(s) == {i \in Items : s.kind[i] \in {"new", "clustered"}}
Blocking(s) == {i \in Items : s.kind[i] \in Blockers}

\* failing_gate: CI, then dispositions, then blockers, then the idle timer.
Quiescent(s) == s.ci /\ Undispositioned(s) = {} /\ Blocking(s) = {} /\ s.idle

\* retry_budget_exhausted
Exhausted(s) == s.retries >= options.budget

\* mutant: a comment on a resting PR does not wake it
PollPhaseAsleep(s, fresh, external) ==
    IF s.phase = "merged" \/ merged THEN "merged"
    ELSE IF s.phase = "idle" THEN
        IF \E i \in Items : s.kind[i] # "unseen" \/ i \in fresh THEN "fixes" ELSE "awaiting"
    ELSE IF fresh # {} /\ s.phase # "quiesced" THEN "fixes"
    ELSE IF external /\ s.phase = "quiesced" THEN "awaiting"
    ELSE IF external /\ s.phase = "gated" THEN "fixes"
    ELSE s.phase

\* _resolve_poll_phase: the first applicable edge.
PollPhase(s, fresh, external) ==
    IF s.phase = "merged" \/ merged THEN "merged"
    ELSE IF s.phase = "idle" THEN
        IF \E i \in Items : s.kind[i] # "unseen" \/ i \in fresh THEN "fixes" ELSE "awaiting"
    ELSE IF fresh # {} THEN "fixes"
    ELSE IF external /\ s.phase = "quiesced" THEN "awaiting"
    ELSE IF external /\ s.phase = "gated" THEN "fixes"
    ELSE s.phase

\* _apply_sha_attribution: the first head seen is free, prgroom's own was
\* counted when it was pushed, any other is counted here.
External(s) == s.pollSha # 0 /\ head \notin {s.pollSha, s.pushedSha}

\* poll_pr.  prgroom's own replies carry a marker and are never ingested.
Polled(s) ==
    LET fresh == {i \in comments : s.kind[i] = "unseen"}
        activity == fresh # {} \/ External(s) \/ green # s.ci
    IN IF head = 0 THEN s
       ELSE [s EXCEPT !.kind = [i \in Items |-> IF i \in fresh THEN "new" ELSE @[i]],
                      !.ci = green,
                      !.idle = @ /\ ~activity,
                      !.retries = IF External(s) THEN @ + 1 ELSE @,
                      !.pollSha = head,
                      !.phase = PollPhase(s, fresh, External(s))]

\* mutant: what the agent leaves out stays unclustered
ClusteredByAgent(s) == s

\* cluster_pr: the fallback puts what the agent left out into one cluster.
Clustered(s) ==
    [s EXCEPT !.kind = [i \in Items |-> IF @[i] = "new" THEN "clustered" ELSE @[i]]]

\* fix_pr: what the audits make of the agents' verdicts.
Decided(s, verdict) ==
    [s EXCEPT !.kind = [i \in Items |-> IF i \in DOMAIN verdict THEN verdict[i] ELSE @[i]]]

\* mutant: a push is counted by the poll that sees it
PushedUncounted(s) == [s EXCEPT !.pushedSha = head + 1]

\* push_pr, after the upload.  The first push of all is free.
Pushed(s) ==
    [s EXCEPT !.pushedSha = head + 1,
              !.retries = IF s.pollSha = 0 /\ s.pushedSha = 0 THEN @ ELSE @ + 1]

\* reply_pr: a skipped item outside a thread gets no post.
Internal(s, i) == s.kind[i] = "skipped" /\ i \notin Threads
Unreplied(s) == {i \in Items : ~s.replied[i] /\ s.kind[i] \in Replyable}

\* mutant: GitHub is not asked what is there already
PostAgain(s) == {i \in Unreplied(s) : ~Internal(s, i)}

\* The replies to post: those whose marker no comment carries yet.
ToPost(s) == {i \in Unreplied(s) : ~Internal(s, i) /\ posted[i] = 0}
Replied(s) == [s EXCEPT !.replied = [i \in Items |-> @[i] \/ i \in Unreplied(s)]]

\* mutant: any fixed item is resolved, thread or not
ResolveAny(s) == {i \in Items : s.kind[i] = "fixed" /\ ~s.resolved[i]}

\* resolve_pr
ToResolve(s) == {i \in Threads : s.kind[i] = "fixed" /\ ~s.resolved[i]}
Resolved(s) == [s EXCEPT !.resolved = [i \in Items |-> @[i] \/ i \in ToResolve(s)]]

\* mutant: the refusal leaves the flag of the gate before it
BudgetGateQuiet(s) == [s EXCEPT !.phase = "gated", !.err = "exhausted"]

\* apply_retry_budget_gate
BudgetGate(s) == [s EXCEPT !.phase = "gated", !.err = "exhausted", !.filed = FALSE]

\* The gating error and its flag go when a gate is left or a cycle succeeds.
Cleared(s, phase) == [s EXCEPT !.phase = phase, !.err = "none", !.filed = FALSE]

\* mutant: what blocks does not gate
SettledPast(s) ==
    IF queue # {} /\ Exhausted(s) THEN BudgetGate(s)
    ELSE IF s.pushedSha = cycle.pushedSha /\ Quiescent(s) THEN Cleared(s, "quiesced")
    ELSE Cleared(s, "awaiting")

\* mutant: a PR that may not rest yet is worked on again
SettledOn(s) ==
    IF queue # {} /\ Exhausted(s) THEN BudgetGate(s)
    ELSE IF Blocking(s) # {} THEN [s EXCEPT !.phase = "gated"]
    ELSE IF s.pushedSha = cycle.pushedSha /\ Quiescent(s) THEN Cleared(s, "quiesced")
    ELSE Cleared(s, "fixes")

\* resolve_end_of_cycle_phase and what _resolve_end_of_cycle makes of it.
Settled(s) ==
    IF queue # {} /\ Exhausted(s) THEN
        [s EXCEPT !.phase = "gated", !.err = "exhausted",
                  !.filed = @ /\ cycle.err # "none"]
    ELSE IF Blocking(s) # {} THEN
        [s EXCEPT !.phase = "gated",
                  !.filed = @ /\ ~(cycle.err = "none" /\ s.err # "none")]
    ELSE IF s.pushedSha = cycle.pushedSha /\ Quiescent(s) THEN Cleared(s, "quiesced")
    ELSE Cleared(s, "awaiting")

\* handle_verb_error.  A cancelled wait and a failed precondition change
\* nothing.
Mishandled(s, e) ==
    CASE e = "transient" -> [s EXCEPT !.err = "transient"]
      [] e = "terminal" -> [s EXCEPT !.phase = "gated", !.err = "terminal", !.filed = FALSE]
      [] OTHER -> s

\* escalate_if_needed, with a sink that accepts.
Escalated(s) ==
    [s EXCEPT !.told = [i \in Items |-> @[i] \/ i \in Blocking(s)],
              !.filed = @ \/ s.err # "none"]

-----------------------------------------------------------------------------
(* The run *)

Loop(s) == IF s.phase \in TerminalForCli THEN "flush" ELSE "poll"

NoCycle == [pushedSha |-> 0, err |-> "none"]
NoOptions == [blocking |-> FALSE, budget |-> 0]
Pipeline == {"cluster", "fix", "cap", "push", "reply", "resolve", "settle"}

\* _execute_step: a verb that returns is persisted.  A cycle begins with a note
\* of where it started, which is of no use once it is over.
Done(s, next) ==
    /\ mem' = s /\ disk' = s
    /\ pc' = next
    /\ exit' = IF next = "off" THEN "clean" ELSE exit
    /\ options' = IF next = "off" THEN NoOptions ELSE options
    /\ cycle' = CASE next = "cluster" -> [pushedSha |-> s.pushedSha, err |-> s.err]
                  [] next \in Pipeline \ {"cluster"} -> cycle
                  [] OTHER -> NoCycle

\* mutant: the step after a failed one still runs
Continue(e) ==
    /\ Done(Mishandled(mem, e), CASE pc = "push" -> "reply" [] OTHER -> "flush")
    /\ announced' = (announced /\ e # "terminal")

\* _execute_step, and _guarded_has_queued: a tagged error discards the verb's
\* copy; the state from before it is marked, persisted and flushed.
Abort(e) ==
    /\ Done(Mishandled(mem, e), "flush")
    /\ announced' = (announced /\ e # "terminal")

\* The process dies.
Die ==
    /\ pc' = "off" /\ exit' = "broken" /\ options' = NoOptions
    /\ mem' = disk /\ cycle' = NoCycle
    /\ UNCHANGED <<disk, announced>>

Faulty == faults < MaxFaults /\ faults' = faults + 1

\* A verb is cut short: GitHub or git fails, or the process dies.
CutShort == Faulty /\ (Die \/ \E e \in {"transient", "terminal"} : Abort(e))

\* run_lifecycle takes the lock and reads the state, or starts a blank one.
Start(blocking, budget) ==
    /\ pc = "off"
    /\ options' = [blocking |-> blocking, budget |-> budget]
    /\ mem' = disk
    /\ pc' = IF disk.phase \in {"quiesced", "gated"} THEN "probe" ELSE Loop(disk)
    /\ exit' = "running"
    /\ UNCHANGED <<disk, cycle, world, announced, faults>>

\* _entry_probe: poll once, then see whether a spent budget still gates.
Probe ==
    /\ pc = "probe"
    /\ Done(Polled(mem), "rearm")
    /\ UNCHANGED <<world, announced, faults>>

\* `rev_list` fails when the head is a commit the worktree has never fetched.
AskQueue == behind /\ Abort("transient")

Rearm ==
    /\ pc = "rearm"
    /\ LET spent == mem.phase = "gated" /\ mem.err = "exhausted"
       IN \/ /\ spent /\ Exhausted(mem) /\ AskQueue
          \/ /\ spent /\ (~Exhausted(mem) \/ (~behind /\ queue = {}))
             /\ Done(Cleared(mem, "fixes"), "poll")
             /\ UNCHANGED announced
          \/ /\ ~spent \/ (Exhausted(mem) /\ ~behind /\ queue # {})
             /\ Done(mem, Loop(mem))
             /\ UNCHANGED announced
    /\ UNCHANGED <<world, faults>>

Poll ==
    /\ pc = "poll"
    /\ LET s == Polled(mem)
       IN Done(s, CASE s.phase \in TerminalForCli -> "flush"
                    [] s.phase \in Waiting -> IF options.blocking THEN "wait" ELSE "off"
                    [] OTHER -> "cluster")
    /\ UNCHANGED <<world, announced, faults>>

\* One turn of wait_pr.  It polls a state of its own, which is what it left on
\* disk, and persists that; the run's copy is untouched until it returns.
WaitPoll ==
    /\ pc = "wait"
    /\ disk' = Polled(disk)
    /\ IF disk'.phase \in Waiting
       THEN pc' = "judge" /\ UNCHANGED mem
       ELSE pc' = Loop(disk') /\ mem' = disk'
    /\ UNCHANGED <<cycle, options, exit, world, announced, faults>>

WaitJudge ==
    /\ pc = "judge"
    /\ IF Quiescent(disk)
       THEN Done([disk EXCEPT !.phase = "quiesced"], "flush")
       ELSE pc' = "wait" /\ UNCHANGED <<disk, mem, exit, cycle, options>>
    /\ UNCHANGED <<world, announced, faults>>

\* A signal ends the wait.
Cancel ==
    /\ pc = "wait"
    /\ Faulty /\ Abort("cancelled")
    /\ UNCHANGED world

Cluster ==
    /\ pc = "cluster"
    /\ Done(Clustered(mem), "fix")
    /\ UNCHANGED <<world, announced, faults>>

\* The agents decide each clustered item, and any of them may have left commits:
\* a fixed one, unless a commit the head has addresses it already, a skipped one
\* that claims what it did, a failed one whose cluster broke the audit's rules
\* (`git stash` leaves commits where they are).
Fix ==
    /\ pc = "fix"
    /\ LET due == {i \in Items : mem.kind[i] = "clustered"}
       IN /\ \E committed \in SUBSET due : queue' = queue \cup committed
          /\ \E verdict \in [due -> Dispositions] : Done(Decided(mem, verdict), "cap")
    /\ UNCHANGED <<github, published, behind, announced, faults>>

\* Some agents committed; the state that says so is lost.
FixCutShort ==
    /\ pc = "fix"
    /\ \E committed \in SUBSET {i \in Items : mem.kind[i] = "clustered"} :
          queue' = queue \cup committed
    /\ CutShort
    /\ UNCHANGED <<github, published, behind>>

\* _cap_guard_step: the queue is looked at only when the budget is spent.
CapGuard ==
    /\ pc = "cap"
    /\ \/ /\ Exhausted(mem) /\ AskQueue
       \/ /\ Exhausted(mem) /\ ~behind /\ queue # {}
          /\ Done(BudgetGate(mem), "flush")
          /\ announced' = FALSE
       \/ /\ ~Exhausted(mem) \/ (~behind /\ queue = {})
          /\ Done(mem, "push")
          /\ UNCHANGED announced
    /\ UNCHANGED <<world, faults>>

\* The head branch takes what is queued.
Upload ==
    /\ head' = head + 1 /\ own' = own + 1
    /\ published' = published \cup queue /\ queue' = {}
    /\ UNCHANGED <<comments, posted, closed, merged, green, behind>>

Push ==
    /\ pc = "push"
    /\ \/ /\ AskQueue
          /\ UNCHANGED world
       \/ /\ ~behind /\ queue = {}
          /\ Done(mem, "reply")
          /\ UNCHANGED <<world, announced>>
       \/ /\ ~behind /\ queue # {}
          /\ Upload
          /\ Done(Pushed(mem), "reply")
          /\ UNCHANGED announced
    /\ UNCHANGED faults

\* The upload went through; its reply, or the process, did not.
PushCutShort ==
    /\ pc = "push" /\ ~behind /\ queue # {}
    /\ Upload
    /\ CutShort

\* The worktree has another branch checked out.
WrongBranch ==
    /\ pc = "push"
    /\ Faulty /\ Abort("refused")
    /\ UNCHANGED world

Post(due) == posted' = [i \in Items |-> IF i \in due THEN posted[i] + 1 ELSE posted[i]]

Reply ==
    /\ pc = "reply"
    /\ Post(ToPost(mem))
    /\ Done(Replied(mem), "resolve")
    /\ UNCHANGED <<comments, closed, head, own, merged, green, worktree,
                   announced, faults>>

ReplyCutShort ==
    /\ pc = "reply"
    /\ \E due \in SUBSET ToPost(mem) : Post(due)
    /\ CutShort
    /\ UNCHANGED <<comments, closed, head, own, merged, green, worktree>>

Resolve ==
    /\ pc = "resolve"
    /\ closed' = closed \cup ToResolve(mem)
    /\ Done(Resolved(mem), "settle")
    /\ UNCHANGED <<comments, posted, head, own, merged, green, worktree,
                   announced, faults>>

ResolveCutShort ==
    /\ pc = "resolve"
    /\ \E due \in SUBSET ToResolve(mem) : closed' = closed \cup due
    /\ CutShort
    /\ UNCHANGED <<comments, posted, head, own, merged, green, worktree>>

\* _resolve_end_of_cycle
Settle ==
    /\ pc = "settle"
    /\ \/ AskQueue
       \/ /\ ~behind
          /\ Done(Settled(mem), Loop(Settled(mem)))
          /\ announced' = (announced /\ ~(queue # {} /\ Exhausted(mem)))
    /\ UNCHANGED <<world, faults>>

\* A read fails in a step that had changed nothing yet.
ReadFails ==
    /\ pc \in {"probe", "rearm", "poll", "wait", "cluster", "cap", "push", "settle"}
    /\ Faulty /\ \E e \in {"transient", "terminal"} : Abort(e)
    /\ UNCHANGED world

\* _flush_terminal_signals, on the way out.  A sink that refuses is passed over.
Flush ==
    /\ pc = "flush"
    /\ mem' = Escalated(mem) /\ disk' = mem'
    /\ announced' = (announced \/ (mem.err # "none" /\ ~mem.filed))
    /\ pc' = "off" /\ exit' = "clean" /\ options' = NoOptions
    /\ UNCHANGED <<cycle, world, faults>>

FlushRefused ==
    /\ pc = "flush"
    /\ Faulty
    /\ pc' = "off" /\ exit' = "broken" /\ options' = NoOptions
    /\ UNCHANGED <<disk, mem, cycle, world, announced>>

Crash ==
    /\ pc # "off"
    /\ Faulty /\ Die
    /\ UNCHANGED world

-----------------------------------------------------------------------------
(* GitHub, its users and the operator *)

Unaware == UNCHANGED <<disk, mem, pc, cycle, options, exit, announced, faults>>

\* prgroom reads comments, CI and the merge only where it polls: what happens in
\* between may as well happen just before, and nothing after the merge matters.
Observed == pc \in {"off", "probe", "poll", "wait"} /\ ~merged

Comment(i) ==
    /\ Observed /\ i \notin comments
    /\ comments' = comments \cup {i}
    /\ UNCHANGED <<posted, closed, head, own, merged, green, worktree>> /\ Unaware

\* Somebody pushes: from elsewhere, or from this worktree with all it has.
ForeignPush(elsewhere) ==
    /\ head - own < MaxForeign /\ ~merged
    /\ head' = head + 1
    /\ IF elsewhere
       THEN behind' = TRUE /\ UNCHANGED <<queue, published>>
       ELSE /\ ~behind /\ pc = "off"
            /\ published' = published \cup queue /\ queue' = {}
            /\ UNCHANGED behind
    /\ UNCHANGED <<comments, posted, closed, own, merged, green>> /\ Unaware

\* The operator brings the worktree up to the head branch.
SyncWorktree ==
    /\ behind
    /\ behind' = FALSE
    /\ UNCHANGED <<github, queue, published>> /\ Unaware

Merge ==
    /\ Observed /\ head > 0
    /\ merged' = TRUE
    /\ UNCHANGED <<comments, posted, closed, head, own, green, worktree>> /\ Unaware

CiTurns ==
    /\ Observed /\ head > 0
    /\ green' = ~green
    /\ UNCHANGED <<comments, posted, closed, head, own, merged, worktree>> /\ Unaware

\* The idle threshold passes.
Elapse ==
    /\ mem' = [mem EXCEPT !.idle = TRUE] /\ disk' = [disk EXCEPT !.idle = TRUE]
    /\ UNCHANGED <<pc, cycle, options, exit, announced, faults, world>>

\* resolve_escalated_pr: a human decides an escalated item, and the last one
\* releases a gate that nothing else holds.
Reclassified(s, i, kind) ==
    LET t == [s EXCEPT !.kind[i] = kind, !.told[i] = FALSE]
    IN IF s.phase = "gated" /\ Blocking(t) = {} /\ s.err \notin {"terminal", "exhausted"}
       THEN [t EXCEPT !.phase = "fixes"] ELSE t

ResolveEscalated(i, kind) ==
    /\ pc = "off" /\ disk.kind[i] = "escalated"
    /\ disk' = Reclassified(disk, i, kind) /\ mem' = disk'
    /\ exit' = "broken"
    /\ UNCHANGED <<pc, cycle, options, announced, faults, world>>

-----------------------------------------------------------------------------

Init ==
    /\ disk = Bootstrap /\ mem = Bootstrap /\ pc = "off"
    /\ cycle = NoCycle
    /\ options = NoOptions
    /\ exit = "clean"
    /\ comments = {} /\ posted = [i \in Items |-> 0] /\ closed = {}
    /\ head = 0 /\ own = 0 /\ merged = FALSE /\ green = FALSE
    /\ queue = {} /\ published = {} /\ behind = FALSE
    /\ announced = FALSE
    /\ faults = 0

Begin == \E blocking \in BOOLEAN, budget \in Budgets : Start(blocking, budget)

\* What the process does when nothing goes wrong.
RunStep ==
    \/ Probe \/ Rearm \/ Poll \/ WaitPoll \/ WaitJudge
    \/ Cluster \/ Fix \/ CapGuard \/ Push \/ Reply \/ Resolve \/ Settle
    \/ Flush

Fault ==
    \/ Cancel \/ FixCutShort \/ PushCutShort \/ WrongBranch \/ ReplyCutShort
    \/ ResolveCutShort \/ ReadFails \/ FlushRefused \/ Crash

Environment ==
    \/ \E i \in Items : Comment(i)
    \/ \E elsewhere \in BOOLEAN : ForeignPush(elsewhere)
    \/ SyncWorktree \/ Merge \/ CiTurns \/ Elapse
    \/ \E i \in Items, kind \in {"fixed", "skipped"} : ResolveEscalated(i, kind)

Next == Begin \/ RunStep \/ Fault \/ Environment

Spec == Init /\ [][Next]_vars

\* The process runs on, the scheduler invokes it again, and time passes.
\* Nothing is asked of GitHub's users, of CI or of the operator.
Fairness == WF_vars(Begin) /\ WF_vars(RunStep) /\ WF_vars(Elapse)
FairSpec == Spec /\ Fairness

-----------------------------------------------------------------------------
(* Properties *)

\* Types: every variable holds a value of its kind.
TypeOK ==
    /\ disk \in StateType /\ mem \in StateType
    /\ pc \in {"off", "probe", "rearm", "poll", "wait", "judge", "cluster", "fix", "cap",
               "push", "reply", "resolve", "settle", "flush"}
    /\ cycle \in [pushedSha : Nat, err : Errors]
    /\ options \in [blocking : BOOLEAN, budget : Budgets \cup {0}]
    /\ exit \in {"running", "clean", "broken"}
    /\ comments \subseteq Items /\ posted \in [Items -> Nat] /\ closed \subseteq Threads
    /\ head \in Nat /\ own \in Nat /\ merged \in BOOLEAN /\ green \in BOOLEAN
    /\ queue \subseteq Items /\ published \subseteq Items /\ behind \in BOOLEAN
    /\ announced \in BOOLEAN /\ faults \in 0 .. MaxFaults

\* A comment is answered once, however often a pass that had answered it is
\* lost and done again (reply.py, idempotency.py).
RepliesOnce == \A i \in Items : posted[i] <= 1

\* A PR that waits for its reviewers or rests has nothing undecided and nothing
\* that blocks: no comment is ingested and forgotten (poll.py, resolver.py).
NothingForgotten ==
    disk.phase \in {"awaiting", "quiesced"} => Undispositioned(disk) \cup Blocking(disk) = {}

\* A fix is announced, a thread resolved and a PR rested only when the commits
\* are on the head branch (the pipeline's order, and what an abort skips).
FixesArePublished ==
    /\ \A i \in queue : posted[i] = 0 /\ i \notin closed
    /\ disk.phase \in {"awaiting", "quiesced"} => queue = {}

\* prgroom pushes no more often than the budget of the run that pushes allows,
\* the pushes whose state was lost included (push.py, poll.py).
BudgetHolds == [][own' > own => own < options.budget]_vars

\* A run that leaves the PR gated, with a sink that listens, has said so: the
\* gate in force and every item that blocks (escalation.py, the flush sites).
GateIsAnnounced ==
    pc = "off" /\ exit = "clean" /\ disk.phase = "gated" =>
        /\ disk.err \in {"terminal", "exhausted"} => announced
        /\ \A i \in Blocking(disk) : disk.told[i]

\* The steps a run has ahead of it, waiting aside: to its end from where it is,
\* and one more turn of the loop for each comment it has not ingested.
Unseen(s) == {i \in Items : s.kind[i] = "unseen"}

ToTheEnd(s, next) ==
    CASE next = "off" -> 0
      [] next = "flush" -> 1
      [] next \in {"wait", "judge"} -> 2
      [] next = "poll" -> IF s.phase = "fixes" THEN 11 ELSE 3
      [] next = "settle" -> 4
      [] next = "resolve" -> 5
      [] next = "reply" -> 6
      [] next = "push" -> 7
      [] next = "cap" -> 8
      [] next = "fix" -> 9
      [] next = "cluster" -> 10
      [] next = "rearm" -> 12
      [] OTHER -> 13  \* the probe

StepsLeft(s, next) == 10 * Cardinality(Unseen(s)) + ToTheEnd(s, next)

\* The loop has no iteration cap and needs none (run.py): nothing that pushes,
\* CI, a human, a failed verb or a new comment does gives a run more to do, and
\* each of its steps but a turn of the wait leaves it less.
RunAdvances ==
    [][pc # "off" =>
        \/ StepsLeft(mem', pc') < StepsLeft(mem, pc)
        \/ /\ StepsLeft(mem', pc') = StepsLeft(mem, pc)
           /\ RunStep \/ Fault => {pc, pc'} = {"wait", "judge"}]_vars

\* Once CI stays green on a PR that has commits, no run waits for ever.
RunEnds == <>[](green /\ head > 0) => []<>(pc = "off")

\* Every comment on a PR with commits comes to a decision, a gate or the merge,
\* whatever runs die on the way.
CommentsAreHandled ==
    \A i \in Items :
        i \in comments /\ head > 0 ~>
            disk.kind[i] \in Dispositions \/ disk.phase \in {"gated", "merged"}
=============================================================================
