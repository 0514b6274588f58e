# agents-config: a verification project

TLA+ models of the programs under `src/packages` that keep state across commands,
model-checked with TLC, and theorems about them checked with TLAPS. Paths below are
relative to the repository's `src/`.

## 1. The system

The repository is a toolbox for running coding agents. Its Python packages are separate
programs that meet in files, processes and one issue tracker.

| part | what it is | state it keeps |
|---|---|---|
| `packages/grind` | the runtime of one run ("grind") over a set of work items: an append-only event log, folded into the run's state | `events.jsonl`; `state.json` and `dashboard.html` are projections of it |
| `packages/executor` | the commands an operator (an agent) gives: each pairs one event of the log with one call of the tracker | none of its own: the two planes it writes |
| `work` (workcli) | the tracker's facade, in another repository | status of each tracker item; local writes pushed by `work sync` |
| `packages/prgroom` | grooms one pull request: poll reviews, cluster, fix, push, reply, resolve, wait, quiesce | one session file per PR under one lock; GitHub and a worktree outside |
| `packages/grillui` | a local web UI for reviewing a spec with an agent: a session log, turns that run as threads, tasks, a claim on the one main window | `session.jsonl`; what a process has in memory of it |
| `packages/gitclean` | finds and deletes branches and worktrees whose work is elsewhere | none: surveys a repository and a server, plans, executes |
| `packages/installer` | installs the configuration into a home directory, prunes what an earlier install left, remembers it in a receipt; stamps gate runs for the commit hook | receipts, backups, gate stamps |
| `packages/agentprobe` | drives an agent in a pseudo-terminal for experiments | none |
| skill scripts | linters and generators of single documents | none |

### How the parts interact

* `executor -> grind`: the executor appends events with grind's own `log` and reads the
  folded state before it plans. It is the log's only writer while a command runs.
  Between commands the operator uses `grind log` for the events that have no tracker
  counterpart (reviews, blocker edges, discoveries).
* `executor -> work`: at most one call per command, then one `work sync`. Either plane
  can fail alone; nothing spans both.
* `grind` inside: every writing command runs *repair the torn tail, append, fold the
  whole log again, rewrite `state.json`, rewrite `dashboard.html`*. `render`, `check`,
  `status` and `conditions` read.
* `prgroom -> gh, git, agents`: effects on GitHub and a remote that are not undone when
  the session write after them is lost.
* `grillui`: HTTP routes in a thread pool, turns in threads of their own, one re-entrant
  lock in the session log, a page that polls.
* `gitclean`, `installer`: a long read, a decision, then writes; a user or a server may
  change what was read meanwhile.

### What is hard about each, and what makes it correct

* **grind fold.** Events arrive in any order from a fallible operator; what is illegal
  is flagged and must change nothing. Eight statuses, a park, blocker edges, a PR
  reference, two ledgers and an attempt counter are updated by twenty-three handlers
  that rely on each other. *Correct:* an item is in a lane's queue exactly while in play
  there; blocked exactly for a reason; merged for good; attempts counted for one PR
  cycle; one history entry per round.
* **grind store.** A process may die in or between the writes of three files. *Correct:*
  the log stays readable and ordered, whole lines stay, an answered command's event is
  in all three files.
* **executor.** Two planes without a transaction; every call may fail, take effect and
  lose its answer, or never return. *Correct:* success means both planes are where the
  command says; a failure can be retried; closed in the tracker implies merged in the
  runtime; a tracker write does not stay on the machine; the budget bounds the fixes.
* **prgroom.** Effects outside, state inside, a crash between them; retries; reviewers
  who answer late; a budget; an unbounded loop. *Correct:* nothing is replied twice, a
  push is counted once, each gate escalates once, the loop ends in a resting phase.
* **grillui.** Threads over one log, a process that dies mid-turn, idempotent re-sends,
  two presses of one button. *Correct:* the log is a prefix of what was acknowledged,
  each announcement is closed once, at most one holder of the main window.
* **gitclean.** Stale reads before deletes. *Correct:* nothing is deleted whose commits
  were not elsewhere when it was judged. Commits made after the survey began are
  excepted, and with them a local branch that moved since and is deleted all the same.
* **installer.** Install, prune and receipt without a transaction, over files the user edits
  meanwhile; a stamp that claims what a gate saw. *Correct:* a file the user changed is
  not deleted, and what is written over is backed up; the receipt owns what is installed
  until the user declines its update; a stamp names checked content. The instant between
  the last check, the backup and the delete is conceded by the code.

`PROJECT.json` lists the hazards one by one, each at its line, with the property that
covers it or the reason none does yet.

## 2. The plan

In order. The first eight rows are built.

| module | models | over | properties, theorems |
|---|---|---|---|
| `GrindFold`, `WorkBoard`, `GrindFoldProofs`, `GrindFoldSafety` | `grind/fold.py`: one action per event type, and the board it promises | `GrindFold` implements `WorkBoard` | queues, edges, merges, attempts, rounds, the refinement; all proved |
| `Executor`, `ExecutorProofs` | `executor`: one command, its steps, failures, crashes | extends `GrindFold` | agreement of the planes, retries, budget; all proved |
| `GrindStore`, `GrindLog`, `GrindStoreProofs` | `grind/store.py`, `log.py`, `verbs.py`: the files, and the log they promise | `GrindStore` implements `GrindLog` | durability, order, projections, the refinement; all proved |
| `PrgroomRun`, `PrgroomRunProofs` | prgroom's run loop of one PR, GitHub outside | - | one reply per comment, fixes published, gates announced, the budget kept, the loop's variant, all proved; that waits end is checked |
| `GrillLane`, `WaitingBoard`, `GrillLaneProofs` | grillui's turns and impact tasks over one log, and the board they promise | `GrillLane` implements `WaitingBoard` | one holder, nothing landed fails, only the holder rules, the refinement; all proved |
| `GitClean`, `GitCleanProofs` | survey, plan, execute against a repository that moves | - | nothing unmerged is lost unattended, losses are told, the server's are bundled; all proved |
| `InstallReceipt`, `InstallReceiptProofs` | install, prune, receipt | - | ownership, backups, spared edits; all proved |
| the MC modules | instances for TLC | each of the above | - |
| `GateStamps` | a gate run, its stamp, the commit hook, over a worktree and an index that change | - | a stamp names content that was checked |
| executor liveness | an operator that retries, calls that stop failing | `Executor` | a failed command eventually takes effect in both planes |
| grillui receipts | idempotency keys and receipts of the session log | `GrillLane` | a re-sent gesture is accepted once |
| prgroom reviewers | required reviewers, re-review and its timeout | `PrgroomRun` | a review asked for again is not taken for answered |

The grind runtime and the executor come first because everything an agent does in a run
passes through them, because their rules are spread over the most handlers, and because
their failures are silent: two planes that disagree look right from either side. Next
come the programs that act on what they read a while ago: prgroom, the lane, gitclean,
the installer.

Modules meant for proofs have their parameters as CONSTANTS with named assumptions, one
action per operation, no RECURSIVE operator, and invariants named one by one.

## 3. The modules

### GrindFold

One action per event type of `grind/fold.py`, with `model.py` for the vocabulary.

* `item` is `state.items` as a function of every item id; status `None` stands for an id
  not in the run. A record keeps `status`, `lane`, `blocked_on`, the PR reference
  (`number`, `closed`), `parked` (the reason, or `Untyped` for a text that names none),
  `attempts` and `round_history`. `queue` holds each lane's `item_ids` as a set;
  `closed_ledger` and `merged_ledger` are the state's. `phase` joins `created`, `paused`
  and `finished`.
* A handler's legality test is `Can...`, its effect the action of the event's name. An
  event that fails the test is still in the log: `Flag`, which stamps the item's time
  and changes nothing else. `Flag` is enabled in every live state: an ill-formed event
  (an unknown kind, a missing field) is always possible. `Ignored` is an event before
  the seed or after the end.
* `Recompute` is `_recompute_blocked`, `Cascade` is `_cascade_unblock`: a fixpoint loop
  in the code, one pass here, because no item it frees becomes terminal.
* **Time.** `last_item_ts` and the ledger's timestamps have a resolution of one second,
  and the only thing done with them is to ask whether a closure carries the item's last
  time. `fresh` is the set of closures of which that is true, and `SameSecond` says
  whether two events may share a second.
* **Left out**, as display data no handler or rule reads: the queue's order, lane
  standing-down and handover, attention entries, observations, reviewer snapshots apart
  from the round history, anomaly records, text.
* **Assumed of a seed** (`WellFormed`): it names no item twice. The validator does not
  check this; with such a seed an item is in two queues from the first event (hazard at
  `payloads.py:145`).

`WorkBoard` is what the runtime promises of a run's items, without log, events, reviews or
attempts. An item has a place (a lane or the lot), a stage, the unfinished items it is to
wait for, perhaps an open PR and a merge commit. A seed puts items on lanes (`Begin`), new
ones are found (`Enter`); work goes on (`Work`), what is waited for is said anew
(`Rewire`), items are parked (`Park`) and come back (`Return`), queued or blocked by what
is then unfinished; a merge (`Merge`) removes an item from everybody's edges and queues
whom that frees in play, and it is final. Four statuses of the fold (in-progress and the
reviewable ones) are one stage. `GrindFold` implements it with `Places`, `Stages`,
`Edges` and `OpenPrs`: `IsWorkBoard` is checked by TLC and proved as theorem
`KeepsTheBoard`. The board lets queued work start with edges open, as the code does
(section 5).

### Executor

Extends `GrindFold` with the tracker and one running command.

* `Invoke` is `build_plan` of an accepted command: `RowOf` picks the pairing row,
  `OnRecord`/`SameAsRecorded` are Matrix B, `Legal` Matrix A, and `Steps` the calls that
  are left, runtime-first for facts and tracker-first for intents. A refused command is
  a stuttering step.
* `TrackerStep` and `RuntimeStep` are `enact`'s two steps with every outcome: done,
  failed unlaunched, launched with the reply lost with or without its effect, and the
  contradicting reply to a park. `Conclude` is the owed sync and the report, `Crash` the
  process's death anywhere.
* `RuntimeStep` appends through GrindFold's actions, so what the fold makes of an append
  is the fold's model and not a copy. The executor's legality tests (`LegalStates`,
  `Requires`) *are* copies, as in the code, where Matrix A duplicates the fold: that is
  what `AppendNeverFlagged` checks.
* `WorkSync` and `Direct` are what happens between commands.
* `tracker`, `Accepts`, `Outcome` and `CallLands` are **external**: the facade lives in
  another repository. They say what `rules.py`, `ports.py` and
  `docs/specs/2026-07-22-workcli-completion-s2.md` (40-58, 118-130) rely on: what each
  verb accepts, and that parking a parked item changes nothing and answers with the old
  reason. Nobody else writes the tracker in this model.
* History variables, in no file of the program: `owed` (the last command, while failed
  and not followed by another), `stranded` (unsynced writes whose command died or
  reported the failed sync) and `granted` (answers to proceed given out of the current
  attempt ledger).

### GrindStore and GrindLog

The three files as the writes leave them. A line is the number of an append, or a mark
for a fragment or two lines run together. One writing command moves through `repair`,
(`truncate`, `rewrite`), `append`, `fold`, `state`, `dashboard`; `CrashInAppend`,
`CrashInRewrite` and `CrashBetween` stop it anywhere, leaving any prefix of what it
wrote. `RenderRead` and `RenderWrite` are `grind render` in another process, which takes
no lock. Python's `write_text`/`write_bytes` truncate and then write, two steps here;
the renderer's write is one, since nothing reads the dashboard. `acked`, `creation`,
`appended` and `lost` are history variables.

`GrindLog` is what all this promises a caller: one log that grows by whole events in the
order of the commands (`Record`), answers only for events on it (`Answer`), and one way
to get shorter, to a prefix (`CutShort`: the repair's rewrite dies). `GrindStore`
implements it: `WholeLog` instantiates `GrindLog` with the log that the file's readable
lines spell (while the repair is between truncate and rewrite, the one it holds in
memory), and `IsOneLog` is its specification, checked by TLC and proved as theorem
`OneLog`.

### PrgroomRun

`prgroom run` over one PR: `lifecycle/run.py` and the verbs it calls.

* `disk` is the session file, `mem` the copy a verb works on. A verb persists when it
  returns (`Done`, `Continue`, `Abort`), so its effects on GitHub and on the worktree
  may stand while its state is lost: `Die` at any step, and the actions `...CutShort`,
  where a loop over several items stops in the middle or a request goes through and its
  answer does not.
* `pc` walks poll, then wait or the pipeline cluster, fix, cap, push, reply, resolve,
  then settle and flush, as `_run` and `_drive_pipeline` do. `cycle` is what the loop
  notes when a cycle begins, `options` the mode (blocking or not) and the budget.
* An item is one review comment: `kind` is its stage from unseen to its disposition,
  `replied` and `resolved` its marks. A SHA is the number of the push that made it.
* `Comment`, `ForeignPush`, `SyncWorktree`, `Merge`, `CiTurns`, `Elapse` and
  `ResolveEscalated` move between any two steps. GitHub, CI and the worktree are
  **external**: `comments`, `posted`, `closed`, `head`, `merged`, `green`, `queue` say
  what `gh/` and `git/` rely on.
* The lock per PR admits one run; a second one exits and is no step here.
* **Left out:** required reviewers (nothing in the code registers one) with re-review
  and its timeout, memory routing, the review label, reply texts, and the verbs run one
  by one beside `run`.

### GrillLane and WaitingBoard

`grillui`'s turn lane: `lane.py`, `log.py`, `projector.py`, `escalation.py`, and
`record_document` of `drivers.py`.

* The log is kept as what its replay yields: `status`, `answered` and `queue` are the
  board, `phase` the impact task of each pair (gesture, target), as in `task_id`, `lane`
  the announcement of each gesture's turn, `resulted` and `unreplied` what the closing
  rules ask of the log. `turn` is the process's threads, `up` and `epoch` its tenure
  over the session.
* `Settle`, `Answer`, `Talk`, `Apply`, `Dismiss`, `Retry` are the gestures: each is
  refused or appended under the log's lock, and those that take a turn announce it and
  start its thread. `AnswerCut` and `RetryCut` are a process that dies between the
  entries of one gesture. `Reply` lands a document, `Fail` and `Close` end a turn,
  `Crash`, `Restart`, `CloseDead`, `CloseDeadFailed` and `Serve` are a death and the
  next tenure's clean-up.
* The board has no prereqs and no fog, so `_pre_rule`, `_opened` and
  `_resting_obligation` come back empty. Of an agent's document there are the
  rulings that invalidate or settle a decision and what is proposed for the queue, up to
  `MaxChanges` of them; its other updates are left out.

`WaitingBoard` is what the page tells the human of a decision that waits. It knows of no
log, thread or announcement: a gesture puts decisions in question, which from then on
wait for it alone (`Ask`); a turn's result arrives (`Land`) or its task fails (`Fail`), a
task that has not failed lets its decisions go (`Release`), and the process dies, at worst
while handing decisions to a gesture that is lost with it (`Die`). `GrillLane` implements
it with the one task of the projector's `waiting` field (`Holder`): `IsWaitingBoard` is
checked by TLC and proved as theorem `KeepsThePromise`.

### GitClean

One run after another of `gitclean`, over a repository others go on working in.

* A commit is a number, `hist` the commits it reaches; `landed` are those whose change
  is on the published trunk, `merged` those a pull request took to any branch. `tip`,
  `on`, `at`, `dirty`, `reflog`, `server`, `cache` and `scratch` are git's own state,
  **external** with the moves of others (`CommitIn`, `Switch`, `Push`,
  `ColleaguePushes`, `Fetch`, `MergePr`, ...).
* The survey reads in the code's order: `ReadTrees`, `ReadPullRequests`, `ReadRefs`,
  with the others in between. `Judge` is the proof tiers of `survey.py` and
  `classify.py`'s verdict. The tiers after the pull request's ask git about the name,
  which may have moved since it was read (`Now`). All refs are judged in one step:
  branches only grow and nothing is unmerged, so verdicts reached one after the other
  could have been reached together.
* `Sweep`, `AfterMerge` and `Cleanup` are the plans. `NextUp` is the plan's order;
  `doing` the target under way. A worktree is weighed again and removed or kept
  (`Weigh`, `RemoveTree`, `KeepTree`), a branch deleted or kept (`DeleteBranch`,
  `KeepBranch`), a server branch copied, bundled and deleted under a lease
  (`AlreadyGone`, `Copy`, `Bundle`, `DeleteServer`, `KeepServer`). `Report` ends a run,
  `Die` is one that dies.
* A probe that fails is a target that is not proved: it withholds what rests on it.
* `renewed` is a history variable: the branches whose tracking ref was pushed off its
  line since the run began. That takes a branch the forge dropped, an unrelated commit
  pushed under its name, and, to pass the lease, the old commit pushed back: then what
  the survey had seen contained in that branch is nowhere, and the bundle lacks it. The
  three action properties except such runs. The attempt to prove them without the
  exception is what showed the need for it; it takes four moves of others, one more than
  the run's bound.

### InstallReceipt

`installer`: `sync.py`, `prune_flow.py`, `receipt*.py`, `backup.py`, over one home.

* A run takes the lock and reads the receipt (`Begin`), syncs each shipped path
  (`UpToDate`, or `Absent` and then `Write`, or `Ask` and then `Decline`, or `Accept`,
  which backs up, and then `Write`), scans for orphans (`Scan`), asks (`Confirm`), looks
  at each one again (`Recheck`, `Drifted`), reads its identity once more (`Changed`,
  `Same`), backs it up (`Copy`), deletes it (`Unlink`) and writes the receipt (`Record`).
  `Die` stops it between any two of these, `DieWriting` inside a write or an `rmtree`.
* `disk`, `backups`, `receipt` and `readable` are the files, `ships` what the checkout
  ships, `run` the running command. `Edit`, `Ship`, `Damage` and `Reset` are the user,
  the repository and a receipt that broke. An edit may fall between any two steps, so also
  between the last check of a path, its backup and its write or delete: `touched` and
  `late` note that it did.
* History variables: `ours` is what a completed run put there and recorded, while nobody
  touches it; `kept` what the user declined to have overwritten, from the answer on,
  until a later run records it as installed; `unsaid` the part of it that was answered
  to a run which then died.
* A path is installed whole: a file, or a directory as one unit. A directory's digest is
  taken when the receipt is written, a file's is of what was shipped: `Digest`. Plugins
  and kits ship files only (`DirsOfTools`).
* **Assumed:** a path is shipped by one owner at a time, and the checkout stands still
  during a run. `back_up` copies what is there at one instant, and so does a digest.

### MC modules

`MCGrindFold`, `MCExecutor`, `MCGrindStore`, `MCPrgroomRun`, `MCGrillLane`, `MCGitClean`
and `MCInstallReceipt` give the model values, seeds, markings and symmetry. Three of
them also hold a statement of the repository that the code does not satisfy (section 5):
`FailedIsIsolated`, `UndoExists` and `InstalledIsThere`. The fourth such statement,
`FailureHasAWayOut`, is in `GrillLane` itself.

### Proof modules

`GrindFoldProofs`, `GrindFoldSafety`, `ExecutorProofs`, `GrindStoreProofs`,
`PrgroomRunProofs`, `GrillLaneProofs`, `GitCleanProofs` and `InstallReceiptProofs`:
section 6.

## 4. The runs

| run | states | bounds | why they are enough |
|---|---|---|---|
| `grind_fold` | 0.9 million | two items, one lane, two PRs, one commit, one reason on each park axis, one kind, one attempt; two seeds | every rule relates an item to itself, its lane or one blocker; two items give self, mutual and one-way edges, and the second seed a blocker that is only discovered later; two PRs let one replace the other |
| `executor` | 1.6 million | one item with and without a tracker handle, two PRs, two commits, two failure reasons, budget 1, counter up to 2 | a command touches one item; two PRs and commits give a retry that names the wrong one, budget 1 of 2 a charge that would pass the budget |
| `grind_store` | 85 thousand | four appends | a seed, a whole event, a crashed one and the one that repairs it |
| `prgroom` | 5.4 million | a thread and a remark, budget 1, two foreign pushes, one fault | a comment that is resolved and one that cannot be, so that a step can stop between two items; the first push is the PR's own, the second one races a fix; every fault is followed by a run without one |
| `prgroom_live` | 0.5 million | one thread, budgets 0 and 1, two foreign pushes, one fault | liveness of one comment; budget 0 gates at once |
| `grill` | 2.7 million | three decisions, the answers of two of them putting the third in question and one of these the other, three gestures, one restart, documents of one update | a task, one that supersedes it, and a retry; a second tenure closes what the first left |
| `gitclean` | 3.4 million | two branches, the main worktree and another, four commits, three moves of others, two runs; symmetric branches | a branch and one stacked on it, a worktree that moves between survey and removal, a second run after one that died |
| `install` | 4.3 million | a file and a directory, one tool, one plugin, two versions, one edit, one backup kept, three runs, two moves | install, change, prune; retention 1 makes a second backup push out the first |

Bounds in the guards: `MaxAttempts` on the attempt counter, `MaxEvents` on appends,
`MaxForeign` and `MaxFaults` on foreign pushes and faults, `MaxGestures`, `MaxEpochs`
and `MaxChanges` in the lane, `MaxCommits`, `MaxMoves` and `MaxRuns` in gitclean,
`MaxRuns` and `MaxMoves` in the installer. The code has none of these limits; nothing
else is bounded but the sets of values.

`grind_fold` is checked under a `VIEW` without `closed_ledger`, `fresh` and the items'
`round_history`: in the fold no guard, no other variable and no property but `TypeOK` reads
them, so states that differ
there alone behave alike. The run `executor`, whose rules do read them, has no view.

`CHECK_DEADLOCK FALSE` stands where a finished run, or one with an exhausted bound, may
stop as the program may. The runs of `PrgroomRun` do not set it.

* **grind_fold**: any log two items can produce. `QueueMembership` (never in two queues,
  never in one while parked, never lost from a lane), `BlockedHasCause` and
  `UnblockedIsFree` (both directions of "blocked exactly while an edge is open", the
  second at the event that `item_unblocked` is reported for), `AttemptsWithinCycle` (who
  has spent attempts holds an open PR or is done, and takes them to another PR only when
  that one replaces a PR still open: section 5), `IsWorkBoard` (the refinement: one place per item, merges that free whom they should and
  nobody in the lot, and are never taken back).
* **executor**: any sequence of commands with every failure. `AppendNeverFlagged`
  (Matrix A is nowhere wider than the fold), `ClosedMeansMerged`, `PreCharged`,
  `NothingStranded`, `RetryNeverRefused`, `SuccessMeansBoth` (success means that both
  planes are where the command says, an abandoned item back in play included, but for the
  repeated abandon of section 5). All within one-second
  distinct events (`SameSecond = {FALSE}`): `_pr_closed_recorded` admits in its
  docstring that a closure in the same second is mistaken for a repeat.
* **grind_store**: `CreationFirst` (one creation, first), `DurableStays` (what was
  durable is only lost by a crash in the repair's own rewrite), `AnswerIsProjected` (an
  answered event is in all three files), `IsOneLog` (the refinement).
* **prgroom**: `RepliesOnce` (no item is answered twice, whatever is lost between a
  reply and its mark), `NothingForgotten` (a PR that waits or rests has nothing
  undecided), `FixesArePublished` (a reply, a resolved thread and a rest come after the
  commits are on the head branch), `GateIsAnnounced` (a run that leaves the PR gated has
  announced the gate and every item that blocks), `BudgetHolds` (no push past the budget
  of the run that pushes, pushes whose state was lost included), `RunAdvances` (the loop
  has a variant: each step of a run leaves it less to do, but for a turn of the wait loop,
  and nothing that happens beside it adds to that).
* **prgroom_live**: `RunEnds` (a run stops by itself once CI stays green on a PR that
  has commits) and `CommentsAreHandled` (a comment is dispositioned, or the PR closed or
  handed over).
* **grill**: `OneHolder` (a decision waits for one task at most), `OnlyTheHolderRules`
  (an agent kills a decision directly only by the task still holding it and never over
  an answer; what a superseded task says of its target reaches neither board nor queue),
  `IsWaitingBoard` (the refinement: a decision waits for the youngest task opened for it,
  is let go only by one that has not failed, a failed one holds it until another takes
  over, a result that landed does not fail, and the one loss is a death inside the appends
  of one supersession).
* **gitclean**: `SweepLosesOnlyMerged` (what an unattended run puts out of reach was
  merged, or committed after its survey began), `RemovalIsTold` (a commit lost with a
  worktree is in the report, or came after the question was asked),
  `ServerLossIsBundled` (a server branch goes only as judged and after its bundle).
  Excepted are runs beside which a branch was renewed (section 3).
* **install**: `OursIsOwned` (what a completed run installed and nobody touched is in the
  receipt, so a later run can prune it; a declined overwrite alone takes the entry away,
  and nothing is claimed of a damaged receipt), `UserWorkKept` (user-only content leaves
  the disk only into a backup, unless it was written after the backup was made),
  `PruneSparesEdits` (a prune takes no file the user changed before its identity was read
  the second time), `DeclinedIsKept` (a declined path is not pruned until it is installed
  again, with two exceptions: section 5). The run reaches each exception: without it, TLC
  finds the property violated.

All hold. Each module's first invariant (`TypeOK`, `ExecTypeOK`, `StoreTypeOK`) is its
type.

Each property also has a mutant in `PROJECT.json`: a definition changed as a slip in the
code would change it, under which TLC finds the property violated. The operators marked
`mutant:` in the modules are those changed forms and are used nowhere else.

**Fairness.** Only `PrgroomRun` has any (`FairSpec`), for `prgroom_live`: weak fairness
on `Begin` (the operator's schedule starts runs), on `RunStep` (the process's own steps)
and on `Elapse` (time passes, so the waits of the loop end). None on comments, pushes,
merges, CI, a human or a fault; `RunEnds` therefore assumes in its statement that CI
stays green from some point on: a run may wait for a red one. Every other specification
is `Init /\ [][Next]_vars` and its properties are safety properties.

## 5. Where the code and its documents differ

Four runs end in the violation of a statement of the repository.

* `prgroom_orphan` / `FailedIsIsolated`. A cluster whose fix is rejected is said to be
  isolated by a stash. `git stash` sets uncommitted edits aside; commits the agent had
  made stay on HEAD, and the next push uploads them.
* `grill_frozen` / `FailureHasAWayOut`. A failed ruling is said to be retried. When
  another turn settled the decision while it was being weighed, the retry finds nothing
  left to ask and the decision waits for good.
* `gitclean_undo` / `UndoExists`. A deleted local branch is said to be in the reflog.
  Git deletes the branch's reflog with it, and the plan removes the worktree, whose HEAD
  reflog had the commits, one step before.
* `install_renamed` / `InstalledIsThere`. A kit that is renamed is installed under its
  new name and pruned under its old one, by the same run, which records it as installed.
  Confirmed by executing the installer.

Observed while modelling, and without a run:

* `item_started` on an item with open blocker edges is applied, although the runtime
  spec makes it an anomaly (`fold.py:346`): the handler asks for status `queued` only,
  and an item that was blocked, moved to waiting-human and closed out to `queued` is
  queued with its edges open.
* After an `abandon` and a new scheduling park, the same `abandon` finds its closure on
  record, skips the append and succeeds: the item stays parked (`rules.py:328`), although
  `cli.py:136` says that abandon brings it back into play. `SuccessMeansBoth` excepts this.
* `pr_opened` is applied to an item whose PR is still open. The handler replaces the
  reference (`fold.py:360`) and resets nothing, so the new PR inherits the attempts spent
  on the old one, although `model.py:199-201` says that it must not; the round history
  passes on in the same way. `AttemptsWithinCycle` excepts this.
* A path that passes to another owner is an orphan of the old one. When the user declines
  what the new owner ships, the prune of the same run deletes the file they have just
  declined to have overwritten: `run.py:140-155` does not look at what was declined. The
  cause is that of `install_renamed`. `DeclinedIsKept` excepts this, and also a decline
  in a run that dies before it writes the receipt: the entry stays, and a later run that
  finds the recorded bytes may prune them.
* Declining the update of an installed file the user never touched drops its entry
  (`run.py:248-249`), as the design has it; the file is then nobody's to prune.
  `OursIsOwned` excepts this.
* Between the last look at a path and its write or delete, an edit is lost.
  `prune_flow.py:296-297` concedes it for the prune; `sync.py:504-507` and `646-653` have
  the same window, and creating a file has it between finding nothing there and the write.
  `UserWorkKept` and `PruneSparesEdits` except it.
* The repair before an append rewrites the whole log in place, and a crash inside it
  loses answered events (`store.py:96`), although `log.py` says that a crash can only
  truncate the line being written. `DurableStays` and `CutShort` except this.
* A kit with a file at the top of its tree stops the installer with an `IndexError`
  (`ownership.py:62`), after files are written and before the receipt is.

## 6. The proofs

For every value of the constants that satisfies the modules' assumptions (any items,
lanes, PRs, rounds, kinds and well-formed seeds, finite or not).

About the fold (`GrindFoldProofs`, `GrindFoldSafety`):

* `TypeCorrect`: `Spec => []TypeOK`. `TypeOK` is inductive; one step per action, over
  lemmas on what each record update keeps (`StatusSet`, `CycleEndedType`, ...).
* `QueueCorrect`: `Spec => []QueueMembership`, inductive given `TypeOK`. Each action
  falls under one of three lemmas: places are kept (`PlacesKept`, `PlaceKept`), one item
  leaves play (`LeavesPlay`), or one enters it (`EntersPlay`).
* `SafeCorrect`: `Spec => []Safe`, with `Safe == Settled /\ BlockedHasCause /\
  AttemptsHeld`. The last two are not inductive: a resolved edge must stay
  resolved, so a merged item must never be moved, which rests on its not being parked
  and its PR not being open, which is `Settled`. Most events are covered by `OneItem`
  (an event that changes one item not merged before or after resolves no edge of
  another), the merge by `AllSafe`, whose hypotheses are what `CascadeEffect` proves of
  `Cascade`.
* `BlockedCorrect` is its corollary; `MergedCorrect` (`Spec => MergedIsFinal`),
  `UnblockedCorrect` (`Spec => UnblockedIsFree`) and `AttemptsCorrect` (`Spec =>
  AttemptsWithinCycle`) are the action properties from the same invariant: the first one
  step per event, the second over the lemmas that say what each event does
  (`MergedEffect`, `EnqueuedEffect`, ...), down to `CascadeEffect` and
  `RecomputeEffect`, the third over `ChargesHeld` and `ChargedStep` (no event but a
  pr_opened over an open PR leaves an item's charge to another PR).
* `KeepsTheBoard` (`Spec => IsWorkBoard`): `StepRefines` gives each event the board's step
  (`WorkRefines`, `ParkRefines`, `ReturnRefines`, `RewireRefines`, `EnterRefines`,
  `MergeRefines`, `FinishRefines`, `BeginRefines`) or `Elsewhere` (`BoardStays`). `OneCard`
  lifts what an event does to one item to the board's functions; the three invariants do
  the rest: `QueueMembership` says that an item is in one place before and after,
  `Settled` that what changes is not merged, and `BlockedHasCause` that a merge frees just
  those whose last edge it resolves, so that `item_done`, which cascades as well, frees
  nobody.
* `OnePassSuffices`: the fixpoint loop of `_cascade_unblock` reaches it in one pass, which
  is how `Cascade` is written.
* `RoundsCorrect`: `Spec => []DistinctRounds`, inductive given `TypeOK`, over
  `RecordedDistinct`: replacing a round's entry in place keeps rounds distinct.

About the executor (`ExecutorProofs`):

* `DrivesTheFold`: `ExecSpec => Spec`, where `Spec` is GrindFold's. A step of a command
  is an event of the fold or leaves it alone, so the theorems above hold of every log
  the executor writes. It needs the invariant `PlanOK`: while an append is due, the row
  is still legal and its arguments are what the row takes, because nothing moves the
  item between the plan and its append; and a tracker call that is due for a merge
  either follows the append in the plan or finds the item merged. `DrivesTheBoard` is its
  corollary for `IsWorkBoard`.
* `AppendCorrect`: `AppendNeverFlagged` follows from `PlanOK` and `LegalIsApplicable`,
  which compares Matrix A with the fold's guards row by row.
* `ClosedCorrect`: `ClosedMeansMerged`, inductive given `PlanOK` (a `close` is called
  for merged items only) and the fold's `MergedStep` (no event takes a merge back).
* `StrandedCorrect`: `NothingStranded`, from the stronger fact that an unsynced write
  not stranded belongs to a running command that remembers it.
* `ExecTyped`: `ExecTypeOK`, given `PlanOK`.
* `ChargedCorrect`: `PreCharged`, as part of `ChargeOK == Unborn /\ PreCharged /\
  Charged`. The answer is counted when the command is over, its charge when the event is
  written, and neither is bounded by the other alone: `Charged` says of the command
  between the two that the budget had room for the charge, and that the charge is not
  yet matched by an answer. `Unborn` (an item not in the run has spent nothing) is for
  the events that create items.
* `RetryCorrect`: `RetryNeverRefused`, from `RetryOK`, which says the same of the command
  while it runs. Its steps are `AppendedAgain` (what an append puts on record Matrix B
  recognises as this command's, row by row) and `LegalIsApplicable` (no append of a plan
  is flagged); a tracker call does not touch what the plan is made from. `Running` ties
  the row to the command: only an attempt's row depends on the state. It holds also when
  events share a second.
* `SuccessCorrect`: `SameSecond = {FALSE}` implies `SuccessMeansBoth`, from `BothSoFar`,
  which speaks of each plane once no step for it is left. The one command excepted is an
  abandon that appended nothing because its event was on record (`AbandonedBefore`): the
  item may have been parked since, and its success leaves it where it is. The hypothesis
  `SameSecond = {FALSE}` is what
  `FreshClosed` needs: a closure stamped with the item's last-touched time is then the
  last thing that happened to the item, so it holds no open PR. Without it a closure is
  taken for a repeat of one in the same second, as the docstring of
  `_pr_closed_recorded` admits.

`PlanOK` and the other strengthenings were model-checked on the executor's instance
before they were proved.

About the store (`GrindStoreProofs`), for any number of appends and crashes:

* `Invariance`: `IInv == StoreTypeOK /\ LinesAreEvents /\ LatestEvent /\
  RepairIsFaithful /\ LogIsOrdered /\ CreatesAlone /\ ReadsBack`. `CreationFirst` alone
  is not inductive: what an append adds comes last only because every line is the number
  of an earlier command (`LatestEvent`), and a repair keeps the order only because what
  it holds in memory is what the file said (`RepairIsFaithful`).
* `StoreTyped`, `ReadableLog`, `OrderedLog`, `DurableLog`, `AnswersProject` follow, and
  `OneLog`: each step of the store is a step of `GrindLog` or a stutter under
  `WholeLog`.

About prgroom's run loop (`PrgroomRunProofs`), for any comments, threads, budgets, foreign
pushes and faults:

* `Invariance`: `IInv == TypeOK /\ StateOK(mem) /\ StateOK(disk) /\ PcOK /\ Unanswered
  /\ RepliesOnce /\ GateIsAnnounced`. A step that is lost has done its work on GitHub and
  left the state of before, so the invariant says what that state still knows of the
  world. `StateOK`, of the run's copy as of the one on disk: what was answered or resolved
  was decided; commits wait in the worktree only for items that were clustered, and not
  while the PR waits or rests; a PR that was never polled has nothing ingested; a gating
  error marked as filed was announced; prgroom's pushes are counted, or there is exactly
  one that the next poll will count. `PcOK` says what each step finds: past the poll
  every push is counted, past `fix` nothing is undecided, past `push` nothing waits in
  the worktree.
* `WorldMoves` is the lemma the rest hangs on: what others, and lost steps, may do to
  GitHub and the worktree (`Moves`) keeps `StateOK` of a state that does not change. A
  step is then what it computes (`PolledOK`, `DecidedOK`, `SettledOK`, ...), and how it
  ends: it returns (`DoneOK`) or is cut short (`CutOK`).
* `Typed`, `AnsweredOnce`, `Remembered`, `Published` and `GateTold` follow. `BudgetKept`
  is the action property: only a push adds to prgroom's pushes, and what the cap guard
  read still holds there.
* `LoopEnds` (`RunAdvances`) and `WorkIsBounded` are about the loop, which has no cap on
  its cycles. `StepsLeft` counts ten steps for each comment not ingested and those from
  here to the end of the cycle: a poll goes round again only with a comment it has just
  ingested (`Onward`, `PolledUnseen`), and pushes, CI, faults and new comments take no
  comment back to unseen (`OthersAddNothing`). That a cycle ends at all rests on the part
  of `PcOK` that says a poll is never of a PR at rest. Together the theorems say that a
  run makes a bounded number of steps besides turns of its wait loops; that those end is
  the part of `RunEnds` that needs fairness, and stays with TLC.

About the lane (`GrillLaneProofs`), for any decisions, markings, gestures and tenures:

* `Invariance`: `IInv == TypeOK /\ Unborn /\ Live /\ OneHolder /\ LandedIsNotFailed /\
  ComposingIsAnnounced`. `Unborn` (nothing is known of a gesture not yet made) lets a
  new task be the only one of its gesture; `Live` (a thread means a serving process and
  tasks that have not failed) keeps a turn from failing what a restart closed.
* `Typed`, `WaitsForOne`, `LandedStaysLanded` and `WeighedIsAnnounced` are its parts.
* `UnlockedByReply` (a decision stops waiting only with a turn that replied, unless the
  process dies) and `OnlyHolderRules` are the action properties. The first follows
  from what each step does to the rows of the task table (`AnswerRows`, `RetryRows`,
  `EndedLemma`). The second needs one fact more: what a document may still say is struck
  by what the turn owes, not by the table, so `Owing` says that a running turn carries
  every decision its tasks were opened for (`ReplyRules`).
* `KeepsThePromise` (`Spec => IsWaitingBoard`): `StepRefines` gives each step the board's
  (`AskRefines`, `EndRefines`, `DieRefines`) or a stutter, when what the step changed is
  not on the board (`BoardStays`). The abstract holder is a choice, and a choice is only
  known where there is one candidate at most: `HolderIs` and `HolderWillBe` name it
  before and after a step by `OneHolder`, which `Invariance` gives for both states.

About gitclean (`GitCleanProofs`), for any branches, worktrees, commits, moves and runs:

* `Invariance`: `IInv == TypeOK /\ History /\ Merges /\ Ahead /\ Stages /\ Followed /\
  Salvaged /\ BranchesGrow /\ TreesFollow /\ WeighedFollows /\ ProofsHold /\
  Unattended`. The properties compare what is deleted now with what was read many moves
  ago, so the invariant says what the moves of others cannot do to it: commits form a
  transitive history that only grows (`History`), what is merged is merged with all it
  reaches (`Merges`), a server branch is ahead of its tracking ref (`Ahead`), the
  tracking ref still follows from the commit that was read and so does the copy the
  bundle is made from (`Followed`, `Salvaged`), a branch has grown by new commits only
  (`BranchesGrow`), and where a worktree has gone is new or under a ref (`TreesFollow`,
  `WeighedFollows`). `ProofsHold` and `Unattended` tie the plan to what was merged.
* `Typed` is a part of it. `SweepSpares`, `RemovalTold` and `ServerBundled` are the
  action properties: every step but a removal loses nothing (`LosesNothing`), and each
  removal loses at most what its ref or HEAD reached (`RemovalLoses`, `BranchLoses`).

About the installer (`InstallReceiptProofs`), for any paths, owners, contents and
retention:

* `Invariance`: `IInv == TypeOK /\ OneRun /\ Work /\ Looked /\ Copied /\ Fresh /\
  History`, with `History == Owned /\ OursIsOwned /\ Recorded /\ GivenUp`.
  `OursIsOwned` speaks of the receipt on disk, but a run replaces it by what it carries
  in memory since `Begin`: the other parts say that the receipt it read is still the one
  on disk (`OneRun`), that what it has put there is what is there or was touched
  (`Fresh`), and that what it deletes it will not record (`Owned`). `Looked` says that
  a file between the second look and the unlink is still safe to prune unless it was
  touched since, `Copied` that what is about to be written over or removed is in the
  backups unless it was touched since it was copied, and `GivenUp` that what was declined
  has no entry, but for the declines of this run and of runs that died.
* `Typed` and `ReceiptOwns` are parts of it; `BackedUpFirst`, `EditsSpared` and
  `DeclinedSpared` are the action properties, one step per action from the same
  invariant.

The strengthenings (`PlanOK` and the invariants named `IInv`) were model-checked on the
runs' instances before they were proved.

Assumptions used: `None` is no status, lane, PR, commit, round or reason
(`NoneAssumption`), the two reason axes are disjoint (`ReasonsAssumption`), seeds are
well typed and name an item once (`SeedsAssumption`), `MaxAttempts` is a natural number;
for the executor, the tracker's own statuses are no park reasons (`TrackerAssumption`),
a spent budget's reason is on the failure axis (`BudgetExhaustedAssumption`), the budget
is a natural number (`BudgetAssumption`) and, for `SuccessCorrect` alone, no two events
share a second; for
the lane, `LaneAssumption` (an option puts decisions of the board in question); for
gitclean, `CleanAssumption` (the main worktree is a path, the markers are no branches);
for prgroom, `ItemsAssumption` (a PR has finitely many comments), `BudgetsAssumption` and
`BoundsAssumption` (budgets and bounds are natural numbers); for the installer, `ContentsAssumption` (shipped, edited and torn contents differ, tools
are no plugins) and `BoundsAssumption` (a backup is kept).

Proved for every instance are thus all properties of the runs `grind_fold`, `executor`,
`grind_store`, `prgroom`, `grill`, `gitclean` and `install`. **Only model-checked:**
`RunEnds` and `CommentsAreHandled` (`prgroom_live`). They are liveness under fairness,
which with `ENABLED` and what a recursive definition computes for every input is out of
the prover's reach.

## 7. What is not modelled

* **grind.** Conditions apart from the attempt budget and `item_unblocked`: the ages
  need a clock; `review_stalemate_risk` and the lane status are derived and change
  nothing. A `render` that writes an older dashboard than a writer beside it is
  modelled, but no property forbids it. `handoff`, `render`, `serialize` and the command
  lines are projections and argument parsing.
* **prgroom.** Reviewers and re-review, memory routing, the review label, reply texts,
  the verbs called one by one beside `run`; `agents`, `gh` and `git` ports, whose
  outcomes are inputs of the loop.
* **grillui.** Pre-rulings and gated boards, custom text, the distrust count and
  hand-up, the doctor, thread turns, withdrawals, re-answers that come late, batches of
  several events, receipts and the log's bytes; the page.
* **gitclean.** Refused selectors, the dry run, resolving the trunk and the remotes,
  several remotes. Forced pushes: a server branch that moves away and back passes the
  lease, and the bundle then lacks what was there in between. The same can happen
  without force to a branch the forge dropped; that is modelled, and excepted (section
  3). Base branches: a pull request merged into any branch counts, as in the code, which
  does not read `baseRefName`.
* **installer.** `settings.json` and instruction files, which are merged; deploying and
  pruning the CLIs; roots and their validation; missing route sources; dry runs; two
  owners that ship one path at once; two backups in one second, which take one name.
  Gate stamps are planned (section 2). Merge, staging, profiles, admission and linters
  are sequential computations over text.
* **agentprobe**: terminal I/O and timing heuristics for manual experiments.
* **Skill scripts**: linters and generators of one document, text in and text out.
* **workcli**: not in this repository; only what the executor relies on is there, as
  external definitions.
