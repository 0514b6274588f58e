------------------------------ MODULE GitClean ------------------------------
(***************************************************************************)
(* One run of gitclean over a repository that others go on working in:     *)
(* the survey (survey.py), the judgement of each target (classify.py), the *)
(* plan (plan.py) and the deletions in its order (execute.py).  Agents     *)
(* commit, edit and switch in their worktrees, colleagues push, the forge  *)
(* merges and deletes branches, between any two commands of the run.       *)
(*                                                                         *)
(* A commit is a number, hist what it reaches; 0 is no commit and Trunk    *)
(* the tip of the local trunk, whose own branch is not in Branch.  One     *)
(* remote; its branches have the names of the local ones.  Pushes fast     *)
(* forward.  Rows nobody could parse, unsplittable refs, ambiguous names   *)
(* and the dry run, which end in refusals and change nothing, are left     *)
(* out.                                                                    *)
(***************************************************************************)
EXTENDS Integers, FiniteSets

CONSTANTS Branch,      \* branch names
          Path,        \* places a worktree can be
          Main,        \* the main worktree, in which the run is executing
          Detached,    \* a worktree on no branch
          Gone,        \* a path with no worktree
          MaxCommits,  \* bound: commits made
          MaxMoves,    \* bound: moves of others
          MaxRuns      \* bound: runs of gitclean

Trunk    == 1
Commit   == 1..MaxCommits
NoCommit == 0

ASSUME CleanAssumption == /\ Main \in Path /\ Detached \notin Branch /\ Gone \notin Branch
                          /\ Detached # Gone
                          /\ MaxCommits \in Nat /\ MaxCommits > 1
                          /\ MaxMoves \in Nat /\ MaxRuns \in Nat

VARIABLES hist,      \* the commits each commit reaches, {} before it is made
          landed,    \* the commits whose change is on the published trunk
          merged,    \* and those whose change a pull request took to any branch
          prHead,    \* where each branch's merged pull request had its head
          tip,       \* local branches
          on, at,    \* what each worktree has checked out, and its detached HEAD
          dirty,     \* the worktrees with uncommitted work
          reflog,    \* what each worktree's HEAD has pointed at
          server,    \* the branches on the server
          cache,     \* the remote-tracking refs
          scratch,   \* the salvage branch of each server ref
          pc, mode,  \* where the run is, and what authorises it
          read,      \* what the survey read
          plan,      \* the targets still to delete
          doing,     \* the one that is under way
          stranded,  \* the worktrees that would not go
          weighed,   \* the commit of the worktree about to go, and if a ref has it
          bundle,    \* what the salvage of the current server ref restores
          told,      \* the commits the report names as out of reach
          moves, runs,
          renewed    \* history: the branches whose tracking ref left its line
                     \* since the run began

repo  == <<hist, landed, merged, prHead, tip, on, at, dirty, reflog, server, cache>>
steps == <<pc, mode, read, plan, doing, stranded, weighed, bundle, told>>
vars  == <<repo, scratch, steps, moves, runs, renewed>>

-----------------------------------------------------------------------------
Head(p) == IF on[p] = Gone THEN NoCommit ELSE IF on[p] = Detached THEN at[p] ELSE tip[on[p]]
HeldBy(b) == {p \in Path : on[p] = b}
Reaches(cs) == UNION {hist[c] : c \in cs \ {NoCommit}}
Made == {c \in Commit : hist[c] # {}}

(* git for-each-ref --contains, over every ref of this repository.         *)
Refs == {Trunk} \cup {tip[b] : b \in Branch} \cup {cache[b] : b \in Branch}
                \cup {scratch[b] : b \in Branch}
Contained(c) == c \in Reaches(Refs)

(* What somebody can still reach by name.                                  *)
Reachable == Reaches(Refs \cup {server[b] : b \in Branch} \cup {Head(p) : p \in Path})

TreeOf(p)   == [kind |-> "worktree", of |-> p]
BranchOf(b) == [kind |-> "branch", of |-> b]
ServerOf(b) == [kind |-> "server", of |-> b]
Target == {TreeOf(p) : p \in Path} \cup {BranchOf(b) : b \in Branch} \cup {ServerOf(b) : b \in Branch}

NoTarget == [kind |-> "none"]
NoRefs  == [b \in Branch |-> NoCommit]
Unread  == [on |-> [p \in Path |-> Gone], head |-> [p \in Path |-> NoCommit], clean |-> {},
            pr |-> NoRefs, tip |-> NoRefs, cache |-> NoRefs, proven |-> {}, offered |-> {},
            made |-> {}]
Nothing == [head |-> NoCommit, held |-> TRUE, made |-> {}]

(* One branch with a commit that is on the server too, made in the main    *)
(* worktree, which has gone back to the trunk's commit.                    *)
Init ==
  /\ hist = [c \in Commit |-> IF c = 1 THEN {1} ELSE IF c = 2 THEN {1, 2} ELSE {}]
  /\ landed = {Trunk} /\ merged = {Trunk} /\ prHead = NoRefs
  /\ \E b \in Branch : tip = [NoRefs EXCEPT ![b] = 2]
  /\ server = tip /\ cache = tip
  /\ on = [p \in Path |-> IF p = Main THEN Detached ELSE Gone]
  /\ at = [p \in Path |-> IF p = Main THEN Trunk ELSE NoCommit]
  /\ dirty = {} /\ reflog = [p \in Path |-> IF p = Main THEN {1, 2} ELSE {}]
  /\ scratch = NoRefs
  /\ pc = "idle" /\ mode = "none" /\ read = Unread
  /\ plan = {} /\ doing = NoTarget /\ stranded = {} /\ weighed = Nothing /\ bundle = {} /\ told = {}
  /\ moves = 0 /\ runs = 0 /\ renewed = {}

-----------------------------------------------------------------------------
(* The others.                                                             *)
Somebody == /\ moves < MaxMoves /\ moves' = moves + 1
            /\ UNCHANGED <<scratch, steps, runs>>
Others   == Somebody /\ UNCHANGED renewed

(* The next commit, on top of h.                                           *)
Make(c, h) == /\ hist[c] = {} /\ \A d \in Commit : d < c => hist[d] # {}
              /\ hist' = [hist EXCEPT ![c] = hist[h] \cup {c}]

CommitIn(p) == \E c \in Commit :
  /\ Others /\ on[p] # Gone /\ Make(c, Head(p))
  /\ tip' = IF on[p] = Detached THEN tip ELSE [tip EXCEPT ![on[p]] = c]
  /\ at' = IF on[p] = Detached THEN [at EXCEPT ![p] = c] ELSE at
  /\ reflog' = [reflog EXCEPT ![p] = @ \cup {c}] /\ dirty' \in {dirty, dirty \ {p}}
  /\ UNCHANGED <<landed, merged, prHead, on, server, cache>>

Edit(p) == /\ Others /\ on[p] # Gone /\ p \notin dirty
           /\ dirty' = dirty \cup {p}
           /\ UNCHANGED <<hist, landed, merged, prHead, tip, on, at, reflog, server, cache>>

(* A worktree is made, or switched, to a branch nobody else holds.         *)
Switch(p, b) == /\ Others /\ tip[b] # NoCommit /\ HeldBy(b) = {} /\ p \notin dirty
                /\ on' = [on EXCEPT ![p] = b] /\ at' = [at EXCEPT ![p] = NoCommit]
                /\ reflog' = [reflog EXCEPT ![p] = @ \cup {tip[b]}]
                /\ UNCHANGED <<hist, landed, merged, prHead, tip, dirty, server, cache>>

(* A worktree is made, or moved, on no branch, or on a new one.            *)
Detach(p, c) == /\ Others /\ c \in Reaches(Refs) /\ p \notin dirty
                /\ on' = [on EXCEPT ![p] = Detached] /\ at' = [at EXCEPT ![p] = c]
                /\ reflog' = [reflog EXCEPT ![p] = @ \cup {c}]
                /\ UNCHANGED <<hist, landed, merged, prHead, tip, dirty, server, cache>>
NewBranch(p, b) == /\ Others /\ on[p] # Gone /\ tip[b] = NoCommit
                   /\ tip' = [tip EXCEPT ![b] = Head(p)]
                   /\ on' = [on EXCEPT ![p] = b] /\ at' = [at EXCEPT ![p] = NoCommit]
                   /\ UNCHANGED <<hist, landed, merged, prHead, dirty, reflog, server, cache>>

(* Where the forge has dropped the branch, the one pushed need not follow  *)
(* from the one the tracking ref still shows.                              *)
Push(b) == /\ Somebody /\ tip[b] # NoCommit /\ tip[b] # server[b]
           /\ server[b] = NoCommit \/ server[b] \in hist[tip[b]]
           /\ renewed' = IF pc = "idle" \/ cache[b] \in hist[tip[b]] \cup {NoCommit}
                         THEN renewed ELSE renewed \cup {b}
           /\ server' = [server EXCEPT ![b] = tip[b]] /\ cache' = [cache EXCEPT ![b] = tip[b]]
           /\ UNCHANGED <<hist, landed, merged, prHead, tip, on, at, dirty, reflog>>

ColleaguePushes(b) == \E c \in Commit :
  /\ Others /\ server[b] # NoCommit /\ Make(c, server[b])
  /\ server' = [server EXCEPT ![b] = c]
  /\ UNCHANGED <<landed, merged, prHead, tip, on, at, dirty, reflog, cache>>

Fetch(b) == /\ Others /\ server[b] # NoCommit /\ cache[b] # server[b]
            /\ cache' = [cache EXCEPT ![b] = server[b]]
            /\ UNCHANGED <<hist, landed, merged, prHead, tip, on, at, dirty, reflog, server>>

(* The pull request of b is merged, by whatever kind of merge, to the      *)
(* trunk or to the branch it is stacked on, and the forge drops b or       *)
(* keeps it.                                                               *)
MergePr(b) == \E drops, stacked \in BOOLEAN :
  /\ Others /\ server[b] # NoCommit
  /\ merged' = merged \cup hist[server[b]]
  /\ landed' = IF stacked THEN landed ELSE landed \cup hist[server[b]]
  /\ prHead' = [prHead EXCEPT ![b] = server[b]]
  /\ server' = IF drops THEN [server EXCEPT ![b] = NoCommit] ELSE server
  /\ UNCHANGED <<hist, tip, on, at, dirty, reflog, cache>>

OthersMove == \/ \E p \in Path : CommitIn(p) \/ Edit(p) \/ \E c \in Commit : Detach(p, c)
              \/ \E b \in Branch : Push(b) \/ ColleaguePushes(b) \/ Fetch(b) \/ MergePr(b)
              \/ \E p \in Path, b \in Branch : Switch(p, b) \/ NewBranch(p, b)

-----------------------------------------------------------------------------
(* The survey.  What could not be read counts as dirty, as unproved, and   *)
(* as still on the server.  clean leaves out Main, where the run is.       *)
Still == UNCHANGED <<hist, landed, merged, prHead, dirty, moves>>
Tool  == Still /\ UNCHANGED renewed
Keep == UNCHANGED <<tip, on, at, reflog, server, cache, scratch>>

ReadTrees == \E unread \in SUBSET (Path \ {Main}) :
  /\ pc = "idle" /\ runs < MaxRuns /\ runs' = runs + 1 /\ pc' = "trees"
  /\ read' = [Unread EXCEPT !.on = on, !.head = [p \in Path |-> Head(p)],
                            !.clean = Path \ ({Main} \cup dirty \cup unread), !.made = Made]
  /\ Tool /\ Keep /\ UNCHANGED <<mode, plan, doing, stranded, weighed, bundle, told>>

ReadPullRequests == \E answers \in BOOLEAN :
  /\ pc = "trees" /\ pc' = "prs"
  /\ read' = IF answers THEN [read EXCEPT !.pr = prHead] ELSE read
  /\ Tool /\ Keep /\ UNCHANGED <<mode, plan, doing, stranded, weighed, bundle, told, runs>>

ReadRefs == /\ pc = "prs" /\ pc' = "refs"
            /\ read' = [read EXCEPT !.tip = tip, !.cache = cache]
            /\ Tool /\ Keep /\ UNCHANGED <<mode, plan, doing, stranded, weighed, bundle, told, runs>>

Surveyed(t) == IF t.kind = "branch" THEN read.tip[t.of] ELSE read.cache[t.of]
Now(t)      == IF t.kind = "branch" THEN tip[t.of] ELSE cache[t.of]
RefTargets  == {t \in Target : t.kind # "worktree"}

(* Mutant: any merged pull request of that name speaks for the branch.     *)
PrMerged(t) == read.pr[t.of] # NoCommit

(* The merged pull request of that name had its head at this commit or     *)
(* past it.                                                                *)
PrCovers(t) == /\ read.pr[t.of] # NoCommit
               /\ Surveyed(t) \in hist[read.pr[t.of]]
(* Ancestry, patch and squash equality ask git about the name, as it is by *)
(* now.                                                                    *)
ContentLanded(t) == Now(t) \in landed
Provable == {t \in RefTargets : Surveyed(t) # NoCommit /\ (PrCovers(t) \/ ContentLanded(t))}

(* Each ref is proved merged or a probe went unanswered; then the server   *)
(* is asked what it has, or does not answer.                               *)
Judge == \E unproved \in SUBSET Provable, answers \in BOOLEAN :
  /\ pc = "refs" /\ pc' = "judged"
  /\ read' = [read EXCEPT
       !.proven  = Provable \ unproved,
       !.offered = {TreeOf(p) : p \in {q \in Path : read.on[q] # Gone}} \cup
                   {t \in RefTargets : /\ Surveyed(t) # NoCommit
                                       /\ t.kind = "server" /\ answers => server[t.of] # NoCommit}]
  /\ Tool /\ Keep /\ UNCHANGED <<mode, plan, doing, stranded, weighed, bundle, told, runs>>

-----------------------------------------------------------------------------
(* Judgement: what an unattended run may take.                             *)
CommitProven(c) == \E t \in read.proven \cap read.offered : Surveyed(t) = c
Withheld(t) ==
  \/ t.kind = "server"
  \/ t.kind = "branch"   /\ (t \notin read.proven \/ Surveyed(t) = Trunk)
  \/ t.kind = "worktree" /\ \/ ~CommitProven(read.head[t.of])
                            \/ read.head[t.of] = Trunk
                            \/ t.of \notin read.clean

Occupied(t, chosen) == /\ t.kind = "branch"
                       /\ \E p \in Path : read.on[p] = t.of /\ TreeOf(p) \notin chosen
Unoccupied(chosen) == {t \in chosen : ~Occupied(t, chosen)}
Sweepable == {t \in read.offered : ~Withheld(t)}

Plan(how, chosen) ==
  /\ pc = "judged" /\ pc' = "delete" /\ mode' = how /\ plan' = chosen
  /\ Tool /\ Keep /\ UNCHANGED <<read, doing, stranded, weighed, bundle, told, runs>>

Sweep == Plan("unattended", Unoccupied(Sweepable))
AfterMerge(b) ==
  /\ prHead[b] # NoCommit
  /\ LET scope == {BranchOf(b)} \cup {TreeOf(p) : p \in {q \in Path : read.on[q] = b}}
     IN Plan("unattended", IF BranchOf(b) \in read.offered
                           THEN Unoccupied(Sweepable \cap scope) ELSE {})
Cleanup(named) == named # {} /\ Plan("named", named \ {TreeOf(Main)})

-----------------------------------------------------------------------------
(* Execution: worktrees, then local branches, then server refs.            *)
Rank(t) == CASE t.kind = "worktree" -> 1 [] t.kind = "branch" -> 2 [] OTHER -> 3
NextUp(t) == pc = "delete" /\ t \in plan /\ \A u \in plan : Rank(t) <= Rank(u)
Begin(t, step)   == NextUp(t) /\ doing' = t /\ pc' = step /\ UNCHANGED plan
Working(t, step) == pc = step /\ doing = t
Done(t) == plan' = plan \ {t} /\ doing' = NoTarget /\ pc' = "delete"

(* Mutant: the commit the survey read.                                     *)
WeighSurveyed(p) ==
  /\ Begin(TreeOf(p), "weighed")
  /\ weighed' = [head |-> read.head[p], held |-> Contained(read.head[p]), made |-> Made]
  /\ Tool /\ Keep /\ UNCHANGED <<mode, read, stranded, bundle, told, runs>>

Weigh(p) ==
  /\ Begin(TreeOf(p), "weighed")
  /\ LET head == IF Head(p) # NoCommit THEN Head(p) ELSE read.head[p]
     IN weighed' = [head |-> head, held |-> Contained(head), made |-> Made]
  /\ Tool /\ Keep /\ UNCHANGED <<mode, read, stranded, bundle, told, runs>>

(* git refuses a tree with uncommitted work; its HEAD's reflog goes with   *)
(* the tree.                                                               *)
RemoveTree(p) ==
  /\ Working(TreeOf(p), "weighed") /\ on[p] # Gone /\ p \notin dirty /\ Done(TreeOf(p))
  /\ on' = [on EXCEPT ![p] = Gone] /\ at' = [at EXCEPT ![p] = NoCommit]
  /\ reflog' = [reflog EXCEPT ![p] = {}]
  /\ told' = IF weighed.held THEN told ELSE told \cup {weighed.head}
  /\ weighed' = Nothing
  /\ Tool /\ UNCHANGED <<tip, server, cache, scratch, mode, read, stranded, bundle, runs>>

(* git refuses, for whatever reason of its own.                            *)
KeepTree(p) == /\ Working(TreeOf(p), "weighed") /\ Done(TreeOf(p))
               /\ stranded' = stranded \cup {p} /\ weighed' = Nothing
               /\ Tool /\ Keep /\ UNCHANGED <<mode, read, bundle, told, runs>>

HolderStranded(b) == \E p \in stranded : read.on[p] = b

DeleteBranch(b) ==
  /\ NextUp(BranchOf(b)) /\ ~HolderStranded(b)
  /\ tip[b] # NoCommit /\ HeldBy(b) = {} /\ Done(BranchOf(b))
  /\ tip' = [tip EXCEPT ![b] = NoCommit]
  /\ Tool /\ UNCHANGED <<on, at, reflog, server, cache, scratch, mode, read, stranded, weighed,
                         bundle, told, runs>>

(* Skipped beside a stranded tree, refused, or failed.                     *)
KeepBranch(b) == /\ NextUp(BranchOf(b)) /\ Done(BranchOf(b))
                 /\ Tool /\ Keep /\ UNCHANGED <<mode, read, stranded, weighed, bundle, told, runs>>

(* The server does not have the branch any more: nothing to do.            *)
AlreadyGone(b) == /\ NextUp(ServerOf(b)) /\ server[b] = NoCommit /\ Done(ServerOf(b))
                  /\ Tool /\ Keep /\ UNCHANGED <<mode, read, stranded, weighed, bundle, told, runs>>

(* The server has it, or did not say: a branch to bundle from.  git        *)
(* refuses a name in use.                                                  *)
Copy(b) == /\ Begin(ServerOf(b), "copied") /\ cache[b] # NoCommit /\ scratch[b] = NoCommit
           /\ scratch' = [scratch EXCEPT ![b] = cache[b]]
           /\ Tool /\ UNCHANGED <<tip, on, at, reflog, server, cache, mode, read, stranded,
                                  weighed, bundle, told, runs>>

(* The archive was written and gives its commit back; the branch goes, if  *)
(* git lets it.                                                            *)
Discard(b) == scratch' \in {scratch, [scratch EXCEPT ![b] = NoCommit]}
Bundle(b) == /\ Working(ServerOf(b), "copied") /\ pc' = "bundled"
             /\ bundle' = hist[scratch[b]] /\ Discard(b)
             /\ Tool /\ UNCHANGED <<tip, on, at, reflog, server, cache, mode, read, plan, doing,
                                    stranded, weighed, told, runs>>

(* Mutant: a plain push --delete.                                          *)
NoLease(b) == TRUE

(* The server deletes the branch if it is still where the survey saw it.   *)
LeaseHolds(b) == server[b] = read.cache[b]
DeleteServer(b) ==
  /\ Working(ServerOf(b), "bundled") /\ server[b] # NoCommit /\ LeaseHolds(b)
  /\ Done(ServerOf(b)) /\ bundle' = {}
  /\ server' = [server EXCEPT ![b] = NoCommit] /\ cache' = [cache EXCEPT ![b] = NoCommit]
  /\ Tool /\ UNCHANGED <<tip, on, at, reflog, scratch, mode, read, stranded, weighed, told, runs>>

(* The copy was refused, no archive restored, or the push was rejected.    *)
KeptServer(b) ==
  /\ NextUp(ServerOf(b)) \/ \E step \in {"copied", "bundled"} : Working(ServerOf(b), step)
  /\ Done(ServerOf(b))
  /\ IF pc = "copied" THEN Discard(b) ELSE UNCHANGED scratch
  /\ Tool /\ UNCHANGED <<tip, on, at, reflog, server, cache, mode, read, stranded, weighed, told, runs>>

(* Mutant: the archive of one ref is still there for the next.             *)
KeepServerAndBundle(b) == KeptServer(b) /\ UNCHANGED bundle

KeepServer(b) == KeptServer(b) /\ bundle' = {}

(* The report is printed, or the process dies with whatever it left.       *)
Leave == /\ pc' = "idle" /\ mode' = "none" /\ read' = Unread /\ plan' = {} /\ doing' = NoTarget /\ stranded' = {}
         /\ weighed' = Nothing /\ bundle' = {} /\ told' = {} /\ renewed' = {}
         /\ Still /\ Keep /\ UNCHANGED runs
Report == pc = "delete" /\ plan = {} /\ Leave
Die    == pc # "idle" /\ (pc = "delete" => plan # {}) /\ Leave

Survey  == ReadTrees \/ ReadPullRequests \/ ReadRefs \/ Judge
Decide  == Sweep \/ (\E b \in Branch : AfterMerge(b)) \/ (\E named \in SUBSET read.offered : Cleanup(named))
Execute == \/ \E p \in Path : Weigh(p) \/ RemoveTree(p) \/ KeepTree(p)
           \/ \E b \in Branch : \/ DeleteBranch(b) \/ KeepBranch(b)
                                \/ AlreadyGone(b) \/ Copy(b) \/ Bundle(b)
                                \/ DeleteServer(b) \/ KeepServer(b)
           \/ Report \/ Die
Next == OthersMove \/ Survey \/ Decide \/ Execute

Spec == Init /\ [][Next]_vars

-----------------------------------------------------------------------------
CommitOrNone == Commit \cup {NoCommit}
ReadType == [on : [Path -> Branch \cup {Detached, Gone}], head : [Path -> CommitOrNone],
             clean : SUBSET Path, pr : [Branch -> CommitOrNone],
             tip : [Branch -> CommitOrNone], cache : [Branch -> CommitOrNone],
             proven : SUBSET Target, offered : SUBSET Target, made : SUBSET Commit]
TypeOK ==
  /\ hist \in [Commit -> SUBSET Commit] /\ landed \subseteq merged /\ merged \subseteq Made
  /\ {prHead, tip, server, cache, scratch} \subseteq [Branch -> Made \cup {NoCommit}]
  /\ on \in [Path -> Branch \cup {Detached, Gone}] /\ at \in [Path -> CommitOrNone]
  /\ \A p \in Path : on[p] # Gone => Head(p) \in Made
  /\ dirty \subseteq {p \in Path : on[p] # Gone} /\ reflog \in [Path -> SUBSET Made]
  /\ pc \in {"idle", "trees", "prs", "refs", "judged", "delete", "weighed", "copied", "bundled"}
  /\ mode \in {"none", "unattended", "named"} /\ read \in ReadType
  /\ plan \subseteq read.offered /\ (doing # NoTarget) = (pc \in {"weighed", "copied", "bundled"})
  /\ doing # NoTarget => doing \in plan
  /\ stranded \subseteq Path
  /\ weighed \in [head : CommitOrNone, held : BOOLEAN, made : SUBSET Commit]
  /\ (pc = "bundled") = (bundle # {}) /\ bundle \subseteq Commit /\ told \subseteq Made
  /\ moves \in Nat /\ runs \in Nat /\ renewed \subseteq Branch

ToolMoves == moves' = moves
Lost == Reachable \ Reachable'

\* What a run nobody named a target for puts out of everybody's reach is on
\* the published trunk or in a merged pull request, or was committed after
\* the survey began: a merge does not speak for what came after it
\* (classify.withheld_reason, survey._pr_covers_tip).  Here and below, a run
\* beside which a tracking ref was pushed off its line is excepted: what it
\* had been asked for is then nowhere.
SweepLosesOnlyMerged ==
  [][ToolMoves /\ mode = "unattended" /\ renewed = {} =>
        Lost \subseteq merged \cup (Commit \ read.made)]_vars

\* A commit that goes out of reach with a worktree is one the report names,
\* or stands below one, unless it was committed between the question and the
\* removal: the survey's HEAD is not what is asked about
\* (execute._commit_only_this_worktree_holds).
RemovalIsTold ==
  [][\A p \in Path : on[p] # Gone /\ on'[p] = Gone /\ renewed = {} =>
        Lost \subseteq Reaches(told') \cup (Commit \ weighed.made)]_vars

\* A branch the tool deletes on the server stood where it was judged, and a
\* bundle that restores all of it was written first, whoever pushed, fetched
\* or merged in between (execute._salvage_remote_branch, the lease).  A
\* branch that was renewed and put back passes the lease without that.
ServerLossIsBundled ==
  [][ToolMoves => \A b \in Branch : server[b] # NoCommit /\ server'[b] = NoCommit =>
        /\ server[b] = read.cache[b]
        /\ b \notin renewed => hist[server[b]] \subseteq bundle]_vars
=============================================================================
