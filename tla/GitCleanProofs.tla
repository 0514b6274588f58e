--------------------------- MODULE GitCleanProofs ---------------------------
(***************************************************************************)
(* What the runs check of gitclean on two branches and two worktrees,      *)
(* proved for any branches and worktrees and any number of commits, moves  *)
(* and runs: the types, that a sweep puts out of reach only what was       *)
(* merged, that a worktree's last commit is reported, and that a server    *)
(* branch is bundled before it goes.                                       *)
(***************************************************************************)
EXTENDS GitClean, TLAPS

(* What a commit reaches is made, and reaches no further than it does.     *)
History ==
  /\ Trunk \in Made
  /\ \A c \in Made : c \in hist[c]
  /\ \A c \in Commit : \A d \in hist[c] : d \in Made /\ hist[d] \subseteq hist[c]

(* What is merged is merged with all it rests on.                          *)
Merges ==
  /\ \A c \in landed : hist[c] \subseteq landed
  /\ \A c \in merged : hist[c] \subseteq merged
  /\ \A b \in Branch : prHead[b] \in merged \cup {NoCommit}

(* The server only runs ahead of the tracking ref.                         *)
Ahead == \A b \in Branch : cache[b] # NoCommit /\ server[b] # NoCommit => cache[b] \in hist[server[b]]

(* Each stage of a run has read what it goes by, and has targets of its    *)
(* kind left.                                                              *)
ReadOf(t) == IF t.kind = "worktree" THEN read.head[t.of] ELSE Surveyed(t)
Stages ==
  /\ read.made \subseteq Made
  /\ \A p \in Path : read.head[p] \in Made \cup {NoCommit}
  /\ \A b \in Branch : {read.pr[b], read.tip[b], read.cache[b]} \subseteq Made \cup {NoCommit}
  /\ \A p \in Path : (read.on[p] # Gone) = (read.head[p] # NoCommit)
  /\ \A t \in read.offered : ReadOf(t) # NoCommit
  /\ pc \in {"idle", "trees", "prs", "refs"} => read.offered = {} /\ read.proven = {}
  /\ \A b \in Branch : read.pr[b] \in merged \cup {NoCommit}
  /\ pc = "weighed" => doing.kind = "worktree"
  /\ pc \in {"copied", "bundled"} => \A t \in plan : t.kind = "server"
  /\ pc = "copied" => scratch[doing.of] # NoCommit

(* The tracking ref still follows from the commit the survey read.         *)
Asked(t)  == pc \in {"refs", "judged"} \/ t \in plan
Followed ==
  \A b \in Branch \ renewed : read.cache[b] # NoCommit /\ Asked(ServerOf(b)) =>
     cache[b] # NoCommit /\ read.cache[b] \in hist[cache[b]]
Salvaged ==
  \A b \in Branch \ renewed : doing = ServerOf(b) /\ read.cache[b] # NoCommit =>
     /\ pc = "copied"  => read.cache[b] \in hist[scratch[b]]
     /\ pc = "bundled" => hist[read.cache[b]] \subseteq bundle

(* A branch has only grown since it was read, by new commits.              *)
BranchesGrow ==
  \A b \in Branch : read.tip[b] # NoCommit /\ Asked(BranchOf(b)) =>
     /\ tip[b] # NoCommit /\ read.tip[b] \in hist[tip[b]]
     /\ hist[tip[b]] \cap read.made \subseteq hist[read.tip[b]]

(* Where a worktree has gone since is new, or under a ref.                 *)
Surveying == pc \in {"trees", "prs", "refs", "judged"}
TreesFollow ==
  renewed = {} => \A p \in Path :
     on[p] # Gone /\ read.on[p] # Gone /\ (Surveying \/ TreeOf(p) \in plan) =>
        hist[Head(p)] \cap read.made \subseteq hist[read.head[p]] \cup Reaches(Refs)
WeighedFollows ==
  pc = "weighed" =>
     /\ weighed.made \subseteq Made /\ weighed.head \in Made
     /\ renewed = {} =>
          /\ weighed.held => weighed.head \in Reaches(Refs)
          /\ on[doing.of] # Gone =>
               hist[Head(doing.of)] \cap weighed.made \subseteq hist[weighed.head] \cup Reaches(Refs)

(* What was proved merged was merged, and an unattended run goes by that.  *)
ProofsHold ==
  /\ \A b \in Branch : BranchOf(b) \in read.proven => hist[read.tip[b]] \subseteq merged
  /\ renewed = {} => \A t \in read.proven : hist[ReadOf(t)] \subseteq merged
  /\ \A t \in read.proven : t.kind # "worktree" /\ ReadOf(t) # NoCommit
Unattended == mode = "unattended" => \A t \in plan : ~Withheld(t)

IInv == /\ TypeOK /\ History /\ Merges /\ Ahead /\ Stages
        /\ Followed /\ Salvaged
        /\ BranchesGrow /\ TreesFollow /\ WeighedFollows
        /\ ProofsHold /\ Unattended

-----------------------------------------------------------------------------
(* What the type invariant says of each variable, and of the refs.         *)
LEMMA TypeLemma ==
  ASSUME TypeOK
  PROVE  /\ hist \in [Commit -> SUBSET Commit] /\ Made \subseteq Commit /\ NoCommit \notin Commit
         /\ prHead \in [Branch -> Made \cup {NoCommit}] /\ tip \in [Branch -> Made \cup {NoCommit}]
         /\ server \in [Branch -> Made \cup {NoCommit}] /\ cache \in [Branch -> Made \cup {NoCommit}]
         /\ scratch \in [Branch -> Made \cup {NoCommit}]
         /\ landed \subseteq merged /\ merged \subseteq Made
         /\ \A c \in Commit : c \in Made <=> hist[c] # {}
BY DEF TypeOK, Made, Commit, NoCommit

LEMMA RefsLemma ==
  ASSUME TypeOK, History
  PROVE  /\ Refs \subseteq Made \cup {NoCommit}
         /\ \A x : x \in Reaches(Refs) <=> \E c \in Refs : c # NoCommit /\ x \in hist[c]
         /\ \A b \in Branch : tip[b] \in Refs /\ cache[b] \in Refs
         /\ \A c \in Reaches(Refs) : c \in Made /\ hist[c] \subseteq Reaches(Refs)
<1>1. Refs \subseteq Made \cup {NoCommit} BY TypeLemma DEF Refs, History
<1>2. \A x : x \in Reaches(Refs) <=> \E c \in Refs : c # NoCommit /\ x \in hist[c]
  BY DEF Reaches
<1>3. \A b \in Branch : tip[b] \in Refs /\ cache[b] \in Refs BY DEF Refs
<1>4. ASSUME NEW c \in Reaches(Refs) PROVE c \in Made /\ hist[c] \subseteq Reaches(Refs)
  <2>1. PICK d \in Refs : d # NoCommit /\ c \in hist[d] BY <1>2
  <2>2. d \in Commit /\ c \in Made /\ hist[c] \subseteq hist[d] BY <1>1, <2>1, TypeLemma DEF History
  <2> QED BY <1>2, <2>1, <2>2
<1> QED BY <1>1, <1>2, <1>3, <1>4

(* A new commit is on top of the one it was made on, and changes no other. *)
LEMMA MakeLemma ==
  ASSUME TypeOK, History, NEW c \in Commit, NEW h \in Made, Make(c, h)
  PROVE  /\ hist' \in [Commit -> SUBSET Commit]
         /\ c \notin Made /\ Made' = Made \cup {c} /\ hist'[c] = hist[h] \cup {c}
         /\ \A d \in Made : hist'[d] = hist[d]
         /\ \A d \in Commit : hist'[d] \cap Made = hist[d] \cap Made \/ d = c
         /\ History'
<1> USE TypeLemma
<1>1. hist[c] = {} /\ hist' = [hist EXCEPT ![c] = hist[h] \cup {c}] BY DEF Make
<1>2. hist' \in [Commit -> SUBSET Commit] /\ h \in Commit /\ h # c BY <1>1 DEF Made
<1>3. c \notin Made /\ hist'[c] = hist[h] \cup {c} /\ \A d \in Commit : d # c => hist'[d] = hist[d]
  BY <1>1, <1>2
<1>4. Made' = Made \cup {c} BY <1>2, <1>3 DEF Made
<1>5. \A d \in Made : hist'[d] = hist[d] BY <1>3
<1>6. History'
  <2>1. Trunk \in Made' /\ \A d \in Made' : d \in hist'[d] BY <1>3, <1>4, <1>5 DEF History
  <2>2. ASSUME NEW d \in Commit, NEW e \in hist'[d] PROVE e \in Made' /\ hist'[e] \subseteq hist'[d]
    <3>1. CASE d # c
      <4>1. e \in hist[d] BY <1>3, <3>1
      <4>2. e \in Made /\ hist[e] \subseteq hist[d] BY <4>1 DEF History
      <4> QED BY <4>2, <1>3, <1>4, <1>5, <3>1
    <3>2. CASE d = c /\ e = c BY <3>2, <1>4
    <3>3. CASE d = c /\ e # c
      <4>1. e \in hist[h] BY <1>3, <3>3
      <4>2. e \in Made /\ hist[e] \subseteq hist[h] BY <4>1, <1>2 DEF History
      <4> QED BY <4>2, <1>3, <1>4, <1>5, <3>3
    <3> QED BY <3>1, <3>2, <3>3
  <2> QED BY <2>1, <2>2 DEF History
<1> QED BY <1>2, <1>3, <1>4, <1>5, <1>6


-----------------------------------------------------------------------------
(* What others do: they take nothing from a branch or from what is merged, *)
(* move a tracking ref off its line only by renewing it, and have a        *)
(* worktree only where it was, on a new commit or under a ref.             *)
RepoType ==
  /\ hist \in [Commit -> SUBSET Commit] /\ landed \subseteq merged /\ merged \subseteq Made
  /\ prHead \in [Branch -> Made \cup {NoCommit}] /\ tip \in [Branch -> Made \cup {NoCommit}]
  /\ server \in [Branch -> Made \cup {NoCommit}] /\ cache \in [Branch -> Made \cup {NoCommit}]
  /\ on \in [Path -> Branch \cup {Detached, Gone}] /\ at \in [Path -> CommitOrNone]
  /\ \A p \in Path : on[p] # Gone => Head(p) \in Made
  /\ dirty \subseteq {p \in Path : on[p] # Gone} /\ reflog \in [Path -> SUBSET Made]

HistGrows == \A c \in Made : c \in Made' /\ hist'[c] = hist[c]
TipsGrow ==
  \A b \in Branch : tip[b] # NoCommit =>
     /\ tip'[b] # NoCommit /\ tip[b] \in hist'[tip'[b]]
     /\ hist'[tip'[b]] \cap Made \subseteq hist[tip[b]]
CachesFollow ==
  /\ renewed \subseteq renewed' /\ renewed' \subseteq Branch
  /\ \A b \in Branch : cache[b] # NoCommit =>
        /\ cache'[b] # NoCommit
        /\ pc # "idle" /\ b \notin renewed' => cache[b] \in hist'[cache'[b]]
HeadsFollow ==
  \A p \in Path : on'[p] # Gone =>
     hist'[Head(p)'] \cap Made \subseteq (IF on[p] # Gone THEN hist[Head(p)] ELSE {}) \cup Reaches(Refs)'
MergesGrow == merged \subseteq merged'
Beside == /\ RepoType' /\ History' /\ Merges' /\ Ahead'
          /\ HistGrows /\ TipsGrow /\ CachesFollow /\ HeadsFollow /\ MergesGrow

LEMMA RepoTypeLemma == ASSUME TypeOK PROVE RepoType
BY TypeLemma DEF TypeOK, RepoType

LEMMA CommitBeside ==
  ASSUME TypeOK, History, Merges, Ahead, NEW p \in Path, CommitIn(p)
  PROVE  Beside
<1> USE TypeLemma, RepoTypeLemma
<1>1. PICK c \in Commit :
        /\ Others /\ on[p] # Gone /\ Make(c, Head(p))
        /\ tip' = IF on[p] = Detached THEN tip ELSE [tip EXCEPT ![on[p]] = c]
        /\ at' = IF on[p] = Detached THEN [at EXCEPT ![p] = c] ELSE at
        /\ reflog' = [reflog EXCEPT ![p] = @ \cup {c}] /\ dirty' \in {dirty, dirty \ {p}}
        /\ UNCHANGED <<landed, merged, prHead, on, server, cache>>
  BY DEF CommitIn
<1>2. Head(p) \in Made BY <1>1 DEF RepoType
<1>3. /\ hist' \in [Commit -> SUBSET Commit]
      /\ c \notin Made /\ Made' = Made \cup {c} /\ hist'[c] = hist[Head(p)] \cup {c}
      /\ \A d \in Made : hist'[d] = hist[d]
      /\ History'
  BY <1>1, <1>2, MakeLemma
<1>4. UNCHANGED renewed /\ renewed \subseteq Branch BY <1>1 DEF Others, TypeOK
<1>5. \A b \in Branch : \/ tip'[b] = tip[b]
                        \/ on[p] = b /\ on[p] \notin {Detached, Gone} /\ tip'[b] = c /\ Head(p) = tip[b]
  BY <1>1, CleanAssumption DEF Head, RepoType
<1>6. ASSUME NEW q \in Path, on'[q] # Gone
      PROVE  \/ Head(q)' = c /\ Head(q) = Head(p)
             \/ Head(q)' = Head(q) /\ Head(q) \in Made
  <2>1. on[q] # Gone /\ on' = on /\ Head(q) \in Made BY <1>1, <1>6 DEF RepoType
  <2> QED BY <2>1, <1>1, <1>5, CleanAssumption DEF Head, RepoType
<1>7. RepoType'
  <2>1. tip' \in [Branch -> Made' \cup {NoCommit}] /\ at' \in [Path -> CommitOrNone]
    BY <1>1, <1>3 DEF RepoType, CommitOrNone
  <2>2. \A q \in Path : on'[q] # Gone => Head(q)' \in Made' BY <1>3, <1>6
  <2>3. dirty' \subseteq {q \in Path : on'[q] # Gone} /\ reflog' \in [Path -> SUBSET Made']
    BY <1>1, <1>3 DEF RepoType
  <2> QED BY <2>1, <2>2, <2>3, <1>1, <1>3 DEF RepoType
<1>8. Merges' BY <1>1, <1>3 DEF Merges
<1>9. Ahead' BY <1>1, <1>3 DEF Ahead
<1>10. HistGrows /\ MergesGrow BY <1>1, <1>3 DEF HistGrows, MergesGrow
<1>11. TipsGrow
  <2> SUFFICES ASSUME NEW b \in Branch, tip[b] # NoCommit
               PROVE  /\ tip'[b] # NoCommit /\ tip[b] \in hist'[tip'[b]]
                      /\ hist'[tip'[b]] \cap Made \subseteq hist[tip[b]]
    BY DEF TipsGrow
  <2>1. tip[b] \in Made /\ tip[b] \in hist[tip[b]] BY DEF History
  <2> QED BY <2>1, <1>3, <1>5
<1>12. CachesFollow
  <2>1. \A b \in Branch : cache[b] # NoCommit => cache[b] \in Made /\ cache[b] \in hist[cache[b]]
    BY DEF History
  <2> QED BY <2>1, <1>1, <1>3, <1>4 DEF CachesFollow
<1>13. HeadsFollow
  <2> SUFFICES ASSUME NEW q \in Path, on'[q] # Gone
               PROVE  on[q] # Gone /\ hist'[Head(q)'] \cap Made \subseteq hist[Head(q)]
    BY DEF HeadsFollow
  <2> QED BY <1>1, <1>2, <1>3, <1>6
<1> QED BY <1>3, <1>7, <1>8, <1>9, <1>10, <1>11, <1>12, <1>13 DEF Beside

LEMMA HistoryStays == ASSUME TypeOK, History, UNCHANGED hist PROVE Made' = Made /\ History' /\ HistGrows
BY DEF Made, History, HistGrows

LEMMA RefsStay == ASSUME UNCHANGED <<hist, tip, cache, scratch>> PROVE Reaches(Refs)' = Reaches(Refs)
BY DEF Reaches, Refs

LEMMA TreesBeside ==
  ASSUME TypeOK, History, Merges, Ahead, NEW p \in Path,
         \/ Edit(p) \/ (\E c \in Commit : Detach(p, c))
         \/ (\E b \in Branch : Switch(p, b) \/ NewBranch(p, b))
  PROVE  Beside
<1> USE TypeLemma, RepoTypeLemma, HistoryStays
<1>1. UNCHANGED <<hist, landed, merged, prHead, server, cache, scratch, renewed>> /\ renewed \subseteq Branch
  BY DEF Edit, Detach, Switch, NewBranch, Others, Somebody, TypeOK
<1>2. \A b \in Branch : tip[b] # NoCommit => tip'[b] = tip[b] /\ tip[b] \in hist[tip[b]]
  BY DEF Edit, Detach, Switch, NewBranch, History
<1>3. Merges' /\ Ahead' /\ MergesGrow BY <1>1 DEF Merges, Ahead, MergesGrow
<1>4. TipsGrow BY <1>1, <1>2 DEF TipsGrow
<1>5. CachesFollow
  <2>1. \A b \in Branch : cache[b] # NoCommit => cache[b] \in Made /\ cache[b] \in hist[cache[b]]
    BY DEF History
  <2> QED BY <2>1, <1>1 DEF CachesFollow
<1>6. CASE Edit(p)
  <2>1. UNCHANGED <<tip, on, at, reflog>> /\ \A q \in Path : Head(q)' = Head(q)
    BY <1>6 DEF Edit, Head
  <2>2. RepoType' BY <2>1, <1>1, <1>6 DEF RepoType, Edit
  <2>3. HeadsFollow BY <2>1, <1>1 DEF HeadsFollow
  <2> QED BY <2>2, <2>3, <1>1, <1>3, <1>4, <1>5 DEF Beside
<1>7. ASSUME NEW c \in Commit, Detach(p, c) PROVE Beside
  <2>1. /\ c \in Reaches(Refs) /\ p \notin dirty
        /\ on' = [on EXCEPT ![p] = Detached] /\ at' = [at EXCEPT ![p] = c]
        /\ reflog' = [reflog EXCEPT ![p] = @ \cup {c}] /\ UNCHANGED <<tip, dirty>>
    BY <1>7 DEF Detach
  <2>2. c \in Made /\ hist[c] \subseteq Reaches(Refs) BY <2>1, RefsLemma
  <2>3. Head(p)' = c /\ \A q \in Path \ {p} : Head(q)' = Head(q) /\ on'[q] = on[q]
    BY <2>1, CleanAssumption DEF Head, RepoType
  <2>4. RepoType' BY <2>1, <2>2, <2>3, <1>1 DEF RepoType, CommitOrNone
  <2>5. Reaches(Refs)' = Reaches(Refs) BY <2>1, <1>1, RefsStay
  <2>6. HeadsFollow BY <2>2, <2>3, <2>5, <1>1 DEF HeadsFollow
  <2> QED BY <2>4, <2>6, <1>1, <1>3, <1>4, <1>5 DEF Beside
<1>8. ASSUME NEW b \in Branch, Switch(p, b) PROVE Beside
  <2>1. /\ tip[b] # NoCommit /\ p \notin dirty
        /\ on' = [on EXCEPT ![p] = b] /\ at' = [at EXCEPT ![p] = NoCommit]
        /\ reflog' = [reflog EXCEPT ![p] = @ \cup {tip[b]}] /\ UNCHANGED <<tip, dirty>>
    BY <1>8 DEF Switch
  <2>2. tip[b] \in Made /\ hist[tip[b]] \subseteq Reaches(Refs) BY <2>1, RefsLemma
  <2>3. Head(p)' = tip[b] /\ \A q \in Path \ {p} : Head(q)' = Head(q) /\ on'[q] = on[q]
    BY <2>1, CleanAssumption DEF Head, RepoType
  <2>4. RepoType' BY <2>1, <2>2, <2>3, <1>1 DEF RepoType, CommitOrNone
  <2>5. Reaches(Refs)' = Reaches(Refs) BY <2>1, <1>1, RefsStay
  <2>6. HeadsFollow BY <2>2, <2>3, <2>5, <1>1 DEF HeadsFollow
  <2> QED BY <2>4, <2>6, <1>1, <1>3, <1>4, <1>5 DEF Beside
<1>9. ASSUME NEW b \in Branch, NewBranch(p, b) PROVE Beside
  <2>1. /\ on[p] # Gone /\ tip[b] = NoCommit /\ tip' = [tip EXCEPT ![b] = Head(p)]
        /\ on' = [on EXCEPT ![p] = b] /\ at' = [at EXCEPT ![p] = NoCommit]
        /\ UNCHANGED <<dirty, reflog>>
    BY <1>9 DEF NewBranch
  <2>2. Head(p) \in Made BY <2>1 DEF RepoType
  <2>3. Head(p)' = Head(p) /\ \A q \in Path \ {p} : on'[q] # Gone => Head(q)' = Head(q) /\ on'[q] = on[q]
    BY <2>1, CleanAssumption DEF Head, RepoType
  <2>4. RepoType' BY <2>1, <2>2, <2>3, <1>1, CleanAssumption DEF RepoType, CommitOrNone
  <2>5. HeadsFollow BY <2>1, <2>2, <2>3, <1>1 DEF HeadsFollow
  <2> QED BY <2>4, <2>5, <1>1, <1>3, <1>4, <1>5 DEF Beside
<1> QED BY <1>6, <1>7, <1>8, <1>9

LEMMA ServerBeside ==
  ASSUME TypeOK, History, Merges, Ahead, NEW b \in Branch,
         Push(b) \/ Fetch(b) \/ ColleaguePushes(b) \/ MergePr(b)
  PROVE  Beside
<1> USE TypeLemma, RepoTypeLemma, HistoryStays
<1>1. UNCHANGED <<tip, on, at, dirty, reflog, scratch>> /\ renewed \subseteq Branch
  BY DEF Push, Fetch, ColleaguePushes, MergePr, Others, Somebody, TypeOK
<1>2. \A p \in Path : Head(p)' = Head(p) BY <1>1 DEF Head
<1>3. \A d \in Branch : /\ cache[d] # NoCommit => cache[d] \in Made /\ cache[d] \in hist[cache[d]]
                        /\ tip[d] # NoCommit => tip[d] \in Made /\ tip[d] \in hist[tip[d]]
  BY DEF History
<1>4. ASSUME UNCHANGED hist, UNCHANGED <<merged, landed, prHead>>,
             server' \in [Branch -> Made \cup {NoCommit}], cache' \in [Branch -> Made \cup {NoCommit}],
             Ahead', CachesFollow
      PROVE  Beside
  <2>1. RepoType' BY <1>1, <1>2, <1>4 DEF RepoType
  <2>2. Merges' /\ MergesGrow BY <1>4 DEF Merges, MergesGrow
  <2>3. TipsGrow /\ HeadsFollow BY <1>1, <1>2, <1>3, <1>4 DEF TipsGrow, HeadsFollow
  <2> QED BY <2>1, <2>2, <2>3, <1>4 DEF Beside
<1>5. CASE Push(b)
  <2>1. /\ tip[b] # NoCommit /\ UNCHANGED <<hist, landed, merged, prHead>>
        /\ server' = [server EXCEPT ![b] = tip[b]] /\ cache' = [cache EXCEPT ![b] = tip[b]]
        /\ renewed' = IF pc = "idle" \/ cache[b] \in hist[tip[b]] \cup {NoCommit}
                      THEN renewed ELSE renewed \cup {b}
    BY <1>5 DEF Push
  <2>2. Ahead' BY <2>1, <1>3 DEF Ahead
  <2>3. CachesFollow BY <2>1, <1>1, <1>3 DEF CachesFollow
  <2> QED BY <2>1, <2>2, <2>3, <1>4
<1>6. CASE Fetch(b)
  <2>1. /\ server[b] # NoCommit /\ UNCHANGED <<hist, landed, merged, prHead, server, renewed>>
        /\ cache' = [cache EXCEPT ![b] = server[b]]
    BY <1>6 DEF Fetch, Others
  <2>2. Ahead' BY <2>1 DEF Ahead, History
  <2>3. CachesFollow BY <2>1, <1>1, <1>3 DEF CachesFollow, Ahead
  <2> QED BY <2>1, <2>2, <2>3, <1>4
<1>7. CASE MergePr(b)
  <2>1. PICK drops, stacked \in BOOLEAN :
          /\ server[b] # NoCommit /\ UNCHANGED <<hist, cache, renewed>>
          /\ merged' = merged \cup hist[server[b]]
          /\ landed' = IF stacked THEN landed ELSE landed \cup hist[server[b]]
          /\ prHead' = [prHead EXCEPT ![b] = server[b]]
          /\ server' = IF drops THEN [server EXCEPT ![b] = NoCommit] ELSE server
    BY <1>7 DEF MergePr, Others
  <2>2. server[b] \in Made /\ server[b] \in hist[server[b]] /\ hist[server[b]] \subseteq Made
    BY <2>1 DEF History
  <2>3. \A c \in hist[server[b]] : hist[c] \subseteq hist[server[b]] BY <2>2 DEF History
  <2>4. RepoType' BY <2>1, <2>2, <1>1, <1>2 DEF RepoType
  <2>5. Merges' BY <2>1, <2>2, <2>3 DEF Merges
  <2>6. Ahead' /\ MergesGrow BY <2>1 DEF Ahead, MergesGrow
  <2>7. CachesFollow BY <2>1, <1>1, <1>3 DEF CachesFollow
  <2>8. TipsGrow /\ HeadsFollow BY <2>1, <1>1, <1>2, <1>3 DEF TipsGrow, HeadsFollow
  <2> QED BY <2>1, <2>4, <2>5, <2>6, <2>7, <2>8 DEF Beside
<1>8. CASE ColleaguePushes(b)
  <2>1. PICK c \in Commit :
          /\ server[b] # NoCommit /\ Make(c, server[b]) /\ server' = [server EXCEPT ![b] = c]
          /\ UNCHANGED <<landed, merged, prHead, cache, renewed>>
    BY <1>8 DEF ColleaguePushes, Others
  <2>2. server[b] \in Made /\ server[b] \in hist[server[b]] BY <2>1 DEF History
  <2>3. /\ hist' \in [Commit -> SUBSET Commit]
        /\ c \notin Made /\ Made' = Made \cup {c} /\ hist'[c] = hist[server[b]] \cup {c}
        /\ \A d \in Made : hist'[d] = hist[d]
        /\ History'
    BY <2>1, <2>2, MakeLemma
  <2>4. RepoType' BY <2>1, <2>3, <1>1, <1>2 DEF RepoType
  <2>5. Merges' /\ MergesGrow BY <2>1, <2>3 DEF Merges, MergesGrow
  <2>6. Ahead' BY <2>1, <2>3 DEF Ahead
  <2>7. HistGrows BY <2>3 DEF HistGrows
  <2>8. CachesFollow BY <2>1, <2>3, <1>1, <1>3 DEF CachesFollow
  <2>9. TipsGrow BY <2>3, <1>1, <1>3 DEF TipsGrow
  <2>10. HeadsFollow BY <2>3, <1>1, <1>2 DEF HeadsFollow, RepoType
  <2> QED BY <2>3, <2>4, <2>5, <2>6, <2>7, <2>8, <2>9, <2>10 DEF Beside
<1> QED BY <1>5, <1>6, <1>7, <1>8

LEMMA OthersBeside ==
  ASSUME TypeOK, History, Merges, Ahead, OthersMove
  PROVE  Beside /\ Somebody
BY CommitBeside, TreesBeside, ServerBeside
   DEF OthersMove, Others, CommitIn, Edit, Detach, Push, ColleaguePushes, Fetch, MergePr, Switch, NewBranch

(* While no ref is renewed, what a ref had is still under one.             *)
LEMMA ReachGrows ==
  ASSUME TypeOK, History, Beside, Somebody, pc # "idle", renewed' = {}
  PROVE  Reaches(Refs) \subseteq Reaches(Refs)'
<1> SUFFICES ASSUME NEW x \in Reaches(Refs) PROVE x \in Reaches(Refs)'
  OBVIOUS
<1> USE TypeLemma
<1>1. PICK c \in Refs : c # NoCommit /\ x \in hist[c] BY RefsLemma
<1>2. c \in Made /\ hist'[c] = hist[c] /\ c \in hist[c]
  BY <1>1, RefsLemma DEF Beside, HistGrows, History
<1>3. SUFFICES ASSUME NEW d \in Refs', d # NoCommit, c \in hist'[d] PROVE x \in Reaches(Refs)'
  <2>1. CASE c = Trunk BY <2>1, <1>2, <1>1 DEF Refs, Reaches
  <2>2. ASSUME NEW b \in Branch, c = tip[b] PROVE tip'[b] \in Refs' /\ tip'[b] # NoCommit /\ c \in hist'[tip'[b]]
    BY <2>2, <1>1 DEF Beside, TipsGrow, Refs
  <2>3. ASSUME NEW b \in Branch, c = cache[b] PROVE cache'[b] \in Refs' /\ cache'[b] # NoCommit /\ c \in hist'[cache'[b]]
    BY <2>3, <1>1 DEF Beside, CachesFollow, Refs
  <2>4. ASSUME NEW b \in Branch, c = scratch[b] PROVE c \in Refs' /\ c \in hist'[c]
    BY <2>4, <1>2 DEF Somebody, Refs
  <2> QED BY <1>1, <1>2, <1>3, <2>1, <2>2, <2>3, <2>4 DEF Refs, Reaches
<1>4. d \in Commit /\ hist'[c] \subseteq hist'[d]
  <2>1. \A r \in Refs' : r \in Commit \cup {NoCommit}
    BY DEF Refs, Beside, RepoType, Somebody, Made, History
  <2> QED BY <2>1, <1>3 DEF Beside, History
<1> QED BY <1>1, <1>2, <1>3, <1>4 DEF Reaches

LEMMA OthersStep == ASSUME IInv, OthersMove PROVE IInv'
<1> USE TypeLemma DEF IInv
<1>1. Beside /\ Somebody BY OthersBeside
<1>2. UNCHANGED <<scratch, pc, mode, read, plan, doing, stranded, weighed, bundle, told, runs>>
  BY <1>1 DEF Somebody, steps
<1>3. \A c \in Made : c \in Made' /\ hist'[c] = hist[c] BY <1>1 DEF Beside, HistGrows
<1>4. renewed \subseteq renewed' BY <1>1 DEF Beside, CachesFollow
<1>5. plan # {} => pc # "idle" BY DEF Stages, TypeOK
<1>6. TypeOK'
  <2>1. moves' \in Nat BY <1>1 DEF Somebody, TypeOK
  <2>2. renewed' \subseteq Branch BY <1>1 DEF Beside, CachesFollow
  <2>3. scratch' \in [Branch -> Made' \cup {NoCommit}] BY <1>2, <1>3
  <2> QED BY <1>1, <1>2, <1>3, <2>1, <2>2, <2>3 DEF TypeOK, RepoType, Beside
<1>7. History' /\ Merges' /\ Ahead' BY <1>1 DEF Beside
<1>8. Stages' BY <1>1, <1>2, <1>3 DEF Stages, ReadOf, Surveyed, Beside, MergesGrow
<1>9. Followed'
  <2> SUFFICES ASSUME NEW b \in Branch \ renewed', read.cache[b] # NoCommit, Asked(ServerOf(b))
               PROVE  cache'[b] # NoCommit /\ read.cache[b] \in hist'[cache'[b]]
    BY <1>2 DEF Followed, Asked
  <2>1. cache[b] # NoCommit /\ read.cache[b] \in hist[cache[b]] BY <1>4 DEF Followed
  <2>2. pc # "idle" BY <1>5 DEF Asked
  <2>3. cache'[b] # NoCommit /\ cache[b] \in hist'[cache'[b]]
    BY <2>1, <2>2, <1>1 DEF Beside, CachesFollow
  <2>4. cache'[b] \in Commit /\ hist'[cache[b]] = hist[cache[b]]
    BY <2>1, <2>3, <1>1, <1>3 DEF Beside, RepoType, Made
  <2> QED BY <2>1, <2>3, <2>4, <1>7 DEF History
<1>10. Salvaged'
  <2>1. \A b \in Branch : read.cache[b] # NoCommit => hist'[read.cache[b]] = hist[read.cache[b]]
    BY <1>3 DEF Stages
  <2>2. \A b \in Branch : doing = ServerOf(b) /\ pc = "copied" => hist'[scratch[b]] = hist[scratch[b]]
    BY <1>3 DEF Stages, ServerOf
  <2> QED BY <2>1, <2>2, <1>2, <1>4 DEF Salvaged
<1>11. BranchesGrow'
  <2> SUFFICES ASSUME NEW b \in Branch, read.tip[b] # NoCommit, Asked(BranchOf(b))
               PROVE  /\ tip'[b] # NoCommit /\ read.tip[b] \in hist'[tip'[b]]
                      /\ hist'[tip'[b]] \cap read.made \subseteq hist'[read.tip[b]]
    BY <1>2 DEF BranchesGrow, Asked
  <2>1. /\ tip[b] # NoCommit /\ read.tip[b] \in hist[tip[b]]
        /\ hist[tip[b]] \cap read.made \subseteq hist[read.tip[b]]
    BY DEF BranchesGrow
  <2>2. /\ tip'[b] # NoCommit /\ tip[b] \in hist'[tip'[b]]
        /\ hist'[tip'[b]] \cap Made \subseteq hist[tip[b]]
    BY <2>1, <1>1 DEF Beside, TipsGrow
  <2>3. tip'[b] \in Commit /\ hist'[tip[b]] = hist[tip[b]] /\ hist'[read.tip[b]] = hist[read.tip[b]]
    BY <2>1, <2>2, <1>1, <1>3 DEF Beside, RepoType, Made, Stages
  <2> QED BY <2>1, <2>2, <2>3, <1>7 DEF History, Stages
<1>12. ASSUME pc # "idle", renewed' = {}, NEW p \in Path, on'[p] # Gone, NEW S \in SUBSET Made, NEW h \in Made,
              on[p] # Gone => hist[Head(p)] \cap S \subseteq hist[h] \cup Reaches(Refs)
       PROVE  hist'[Head(p)'] \cap S \subseteq hist'[h] \cup Reaches(Refs)'
  <2>1. Reaches(Refs) \subseteq Reaches(Refs)' BY <1>1, <1>12, ReachGrows
  <2>2. hist'[Head(p)'] \cap Made \subseteq (IF on[p] # Gone THEN hist[Head(p)] ELSE {}) \cup Reaches(Refs)'
    BY <1>1, <1>12 DEF Beside, HeadsFollow
  <2> QED BY <2>1, <2>2, <1>3, <1>12
<1>13. TreesFollow'
  <2> SUFFICES ASSUME renewed' = {}, NEW p \in Path, on'[p] # Gone, read.on[p] # Gone,
                      Surveying \/ TreeOf(p) \in plan
               PROVE  hist'[Head(p)'] \cap read.made \subseteq hist'[read.head[p]] \cup Reaches(Refs)'
    BY <1>2 DEF TreesFollow, Surveying
  <2>1. read.made \subseteq Made /\ read.head[p] \in Made BY DEF Stages
  <2>2. pc # "idle" BY <1>5 DEF Surveying
  <2>3. on[p] # Gone => hist[Head(p)] \cap read.made \subseteq hist[read.head[p]] \cup Reaches(Refs)
    BY <1>4 DEF TreesFollow
  <2> QED BY <2>1, <2>2, <2>3, <1>12
<1>14. WeighedFollows'
  <2>1. ASSUME pc = "weighed" PROVE doing.of \in Path
    BY <2>1 DEF Stages, TypeOK, ReadType, Target, TreeOf, BranchOf, ServerOf
  <2> SUFFICES ASSUME pc = "weighed", NEW p \in Path, doing.of = p
               PROVE  /\ weighed.made \subseteq Made' /\ weighed.head \in Made'
                      /\ renewed' = {} =>
                           /\ weighed.held => weighed.head \in Reaches(Refs)'
                           /\ on'[p] # Gone => hist'[Head(p)'] \cap weighed.made
                                                 \subseteq hist'[weighed.head] \cup Reaches(Refs)'
    BY <1>2, <2>1 DEF WeighedFollows, Head
  <2>2. weighed.made \subseteq Made /\ weighed.head \in Made BY DEF WeighedFollows
  <2>3. ASSUME renewed' = {} PROVE Reaches(Refs) \subseteq Reaches(Refs)'
    BY <1>1, <2>3, ReachGrows
  <2>4. renewed' = {} /\ on[p] # Gone =>
           hist[Head(p)] \cap weighed.made \subseteq hist[weighed.head] \cup Reaches(Refs)
    BY <1>4 DEF WeighedFollows
  <2>5. ASSUME renewed' = {}, on'[p] # Gone
        PROVE  hist'[Head(p)'] \cap weighed.made \subseteq hist'[weighed.head] \cup Reaches(Refs)'
    <3>1. hist'[Head(p)'] \cap Made \subseteq (IF on[p] # Gone THEN hist[Head(p)] ELSE {}) \cup Reaches(Refs)'
      BY <2>5, <1>1 DEF Beside, HeadsFollow
    <3>2. hist'[weighed.head] = hist[weighed.head] BY <2>2, <1>3
    <3> QED BY <3>1, <3>2, <2>2, <2>3, <2>4, <2>5
  <2> QED BY <2>2, <2>3, <2>5, <1>3, <1>4 DEF WeighedFollows
<1>15. ProofsHold'
  <2>1. \A t \in read.proven : ReadOf(t) \in Made
    BY DEF ProofsHold, Stages, ReadOf, Surveyed, TypeOK, ReadType, Target, TreeOf, BranchOf, ServerOf
  <2>2. \A t \in read.proven : ReadOf(t)' = ReadOf(t) BY <1>2 DEF ReadOf, Surveyed
  <2>3. \A b \in Branch : BranchOf(b) \in read.proven => ReadOf(BranchOf(b)) = read.tip[b]
    BY DEF ReadOf, Surveyed, BranchOf
  <2> QED BY <2>1, <2>2, <2>3, <1>1, <1>2, <1>3, <1>4 DEF ProofsHold, Beside, MergesGrow
<1>16. Unattended' BY <1>2 DEF Unattended, Withheld, CommitProven, Surveyed
<1> QED BY <1>6, <1>7, <1>8, <1>9, <1>10, <1>11, <1>13, <1>14, <1>15, <1>16

-----------------------------------------------------------------------------
(* The run's own steps.  Those that change no ref and no worktree leave    *)
(* what is said of the repository alone.                                   *)
LEMMA KeptLemma ==
  ASSUME UNCHANGED <<hist, landed, merged, prHead, dirty, tip, on, at, reflog, server, cache, scratch>>
  PROVE  /\ Made' = Made /\ Reaches(Refs)' = Reaches(Refs)
         /\ RepoType => RepoType'
         /\ History => History'
         /\ Merges => Merges'
         /\ Ahead => Ahead'
BY DEF Made, RepoType, Head, History, Merges, Ahead, Reaches, Refs

LEMMA InitStep == Init => IInv
<1> SUFFICES ASSUME Init PROVE IInv
  OBVIOUS
<1> USE CleanAssumption DEF Init
<1>1. 1 \in Commit /\ 2 \in Commit /\ 0 \notin Commit BY DEF Commit
<1>2. PICK b \in Branch : tip = [NoRefs EXCEPT ![b] = 2] OBVIOUS
<1>3. hist \in [Commit -> SUBSET Commit] /\ hist[1] = {1} /\ hist[2] = {1, 2} /\ Made = {1, 2}
  <2>1. hist \in [Commit -> SUBSET Commit] /\ hist[1] = {1} /\ hist[2] = {1, 2} BY <1>1
  <2>2. \A c \in Commit : hist[c] # {} <=> c \in {1, 2} BY <1>1
  <2> QED BY <1>1, <2>1, <2>2 DEF Made
<1>4. tip \in [Branch -> {0, 2}] BY <1>2 DEF NoRefs, NoCommit
<1>5. \A p \in Path : /\ on[p] = IF p = Main THEN Detached ELSE Gone
                      /\ at[p] = IF p = Main THEN 1 ELSE 0
                      /\ reflog[p] \subseteq {1, 2}
  BY DEF Trunk, NoCommit
<1>6. RepoType
  <2>1. \A p \in Path : on[p] # Gone => Head(p) \in Made BY <1>3, <1>5 DEF Head
  <2>2. prHead \in [Branch -> Made \cup {NoCommit}] /\ tip \in [Branch -> Made \cup {NoCommit}]
    BY <1>3, <1>4 DEF NoRefs, NoCommit
  <2>3. on \in [Path -> Branch \cup {Detached, Gone}] /\ at \in [Path -> CommitOrNone]
    BY <1>1 DEF CommitOrNone, NoCommit, Trunk
  <2>4. reflog \in [Path -> SUBSET Made] BY <1>3
  <2> QED BY <1>3, <2>1, <2>2, <2>3, <2>4 DEF RepoType, Trunk
<1>7. Unread \in ReadType /\ Nothing \in [head : CommitOrNone, held : BOOLEAN, made : SUBSET Commit]
  BY DEF Unread, ReadType, NoRefs, CommitOrNone, Nothing
<1>8. TypeOK
  <2>1. scratch \in [Branch -> Made \cup {NoCommit}] BY DEF NoRefs
  <2>2. {prHead, tip, server, cache, scratch} \subseteq [Branch -> Made \cup {NoCommit}]
    BY <2>1, <1>6 DEF RepoType
  <2>3. pc = "idle" /\ mode = "none" /\ plan = {} /\ doing = NoTarget /\ stranded = {} /\ bundle = {}
        /\ told = {} /\ moves = 0 /\ runs = 0 /\ renewed = {} /\ read = Unread /\ weighed = Nothing
    OBVIOUS
  <2> HIDE DEF Init
  <2> QED BY <1>6, <1>7, <2>2, <2>3 DEF TypeOK, RepoType
<1>9. History BY <1>1, <1>3 DEF History, Trunk
<1>10. Merges BY <1>3 DEF Merges, Trunk, NoRefs, NoCommit
<1>11. Ahead BY <1>3, <1>4 DEF Ahead, NoCommit
<1>12. Stages BY DEF Stages, Unread, NoRefs, NoCommit
<1>13. Followed /\ Salvaged /\ BranchesGrow BY DEF Followed, Salvaged, BranchesGrow, Unread, NoRefs
<1>14. TreesFollow /\ WeighedFollows BY DEF TreesFollow, WeighedFollows, Unread
<1>15. ProofsHold /\ Unattended BY DEF ProofsHold, Unattended, Unread
<1> QED BY <1>8, <1>9, <1>10, <1>11, <1>12, <1>13, <1>14, <1>15 DEF IInv

LEMMA SurveyStep == ASSUME IInv, Survey PROVE IInv'
<1> USE TypeLemma, RepoTypeLemma DEF IInv
<1>1. /\ UNCHANGED <<hist, landed, merged, prHead, dirty, tip, on, at, reflog, server, cache, scratch>>
      /\ UNCHANGED <<mode, plan, doing, stranded, weighed, bundle, told, moves, renewed>>
  BY DEF Survey, ReadTrees, ReadPullRequests, ReadRefs, Judge, Tool, Still, Keep
<1>2. pc \in {"idle", "trees", "prs", "refs"} /\ plan = {} /\ doing = NoTarget /\ bundle = {}
  BY DEF Survey, ReadTrees, ReadPullRequests, ReadRefs, Judge, Stages, TypeOK
<1>3. /\ Made' = Made /\ Reaches(Refs)' = Reaches(Refs) /\ RepoType'
      /\ History' /\ Merges' /\ Ahead'
  BY <1>1, KeptLemma
<1>4. \A p \in Path : Head(p)' = Head(p) /\ (on[p] # Gone => Head(p) \in Made) /\ (on[p] = Gone => Head(p) = NoCommit)
  BY <1>1 DEF Head, RepoType
<1>5. ASSUME read' \in ReadType, runs' \in Nat, pc' \in {"trees", "prs", "refs", "judged"} PROVE TypeOK'
  <2>1. scratch' \in [Branch -> Made' \cup {NoCommit}] BY <1>1, <1>3
  <2> QED BY <1>1, <1>2, <1>3, <1>5, <2>1 DEF TypeOK, RepoType
<1>6. ASSUME pc' \in {"trees", "prs", "refs", "judged"} PROVE Salvaged' /\ WeighedFollows' /\ Unattended'
  BY <1>1, <1>2, <1>6 DEF Salvaged, WeighedFollows, Unattended
<1>7. CASE ReadTrees
  <2>1. PICK unread \in SUBSET (Path \ {Main}) :
          /\ pc = "idle" /\ runs' = runs + 1 /\ pc' = "trees"
          /\ read' = [Unread EXCEPT !.on = on, !.head = [p \in Path |-> Head(p)],
                                    !.clean = Path \ ({Main} \cup dirty \cup unread), !.made = Made]
    BY <1>7 DEF ReadTrees
  <2>2. /\ read'.on = on /\ read'.head = [p \in Path |-> Head(p)] /\ read'.made = Made
        /\ read'.pr = NoRefs /\ read'.tip = NoRefs /\ read'.cache = NoRefs
        /\ read'.proven = {} /\ read'.offered = {}
    BY <2>1 DEF Unread
  <2>3. read' \in ReadType
    <3>1. [p \in Path |-> Head(p)] \in [Path -> CommitOrNone] BY <1>4 DEF CommitOrNone
    <3> QED BY <2>1, <3>1 DEF Unread, ReadType, NoRefs, CommitOrNone, RepoType
  <2>4. runs' \in Nat BY <2>1 DEF TypeOK
  <2>5. Stages' BY <2>1, <2>2, <1>2, <1>3, <1>4 DEF Stages, NoRefs, NoCommit, TypeOK
  <2>6. Followed' /\ BranchesGrow' BY <2>2 DEF Followed, BranchesGrow, NoRefs
  <2>7. TreesFollow' BY <2>2, <1>1, <1>4 DEF TreesFollow
  <2>8. ProofsHold' BY <2>2 DEF ProofsHold
  <2> QED BY <1>3, <1>5, <1>6, <2>1, <2>3, <2>4, <2>5, <2>6, <2>7, <2>8
<1>8. CASE ReadPullRequests
  <2>1. /\ pc = "trees" /\ pc' = "prs" /\ UNCHANGED runs
        /\ \/ read' = [read EXCEPT !.pr = prHead]
           \/ read' = read
    BY <1>8 DEF ReadPullRequests
  <2>2. /\ read'.pr \in {prHead, read.pr} /\ read' \in ReadType
        /\ read'.on = read.on /\ read'.head = read.head /\ read'.made = read.made
        /\ read'.tip = read.tip /\ read'.cache = read.cache
        /\ read'.proven = read.proven /\ read'.offered = read.offered
    BY <2>1 DEF TypeOK, ReadType, CommitOrNone
  <2>3. runs' \in Nat BY <2>1 DEF TypeOK
  <2>4. Stages' BY <2>1, <2>2, <1>1, <1>2, <1>3 DEF Stages, ReadOf, Surveyed, Merges, TypeOK
  <2>5. Followed' /\ BranchesGrow' BY <2>1, <1>1, <1>2 DEF Followed, BranchesGrow, Asked
  <2>6. TreesFollow' BY <2>1, <2>2, <1>1, <1>3, <1>4 DEF TreesFollow, Surveying
  <2>7. ProofsHold' BY <2>2, <1>1 DEF ProofsHold, ReadOf, Surveyed
  <2> QED BY <1>3, <1>5, <1>6, <2>1, <2>2, <2>3, <2>4, <2>5, <2>6, <2>7
<1>9. CASE ReadRefs
  <2>1. /\ pc = "prs" /\ pc' = "refs" /\ UNCHANGED runs
        /\ read' = [read EXCEPT !.tip = tip, !.cache = cache]
    BY <1>9 DEF ReadRefs
  <2>2. /\ read'.pr = read.pr /\ read' \in ReadType
        /\ read'.on = read.on /\ read'.head = read.head /\ read'.made = read.made
        /\ read'.tip = tip /\ read'.cache = cache
        /\ read'.proven = read.proven /\ read'.offered = read.offered
    BY <2>1 DEF TypeOK, ReadType, CommitOrNone
  <2>3. runs' \in Nat BY <2>1 DEF TypeOK
  <2>4. Stages' BY <2>1, <2>2, <1>1, <1>2, <1>3 DEF Stages, TypeOK
  <2>5. Followed' /\ BranchesGrow' BY <2>2, <1>1, <1>3 DEF Followed, BranchesGrow, History
  <2>6. TreesFollow' BY <2>1, <2>2, <1>1, <1>3, <1>4 DEF TreesFollow, Surveying
  <2>7. ProofsHold'
    <3>1. read.proven = {} BY <2>1 DEF Stages
    <3> QED BY <2>2, <3>1 DEF ProofsHold
  <2> QED BY <1>3, <1>5, <1>6, <2>1, <2>2, <2>3, <2>4, <2>5, <2>6, <2>7
<1>10. CASE Judge
  <2> DEFINE offer(answers) ==
        {TreeOf(p) : p \in {q \in Path : read.on[q] # Gone}} \cup
        {t \in RefTargets : /\ Surveyed(t) # NoCommit
                            /\ t.kind = "server" /\ answers => server[t.of] # NoCommit}
  <2>1. PICK unproved \in SUBSET Provable, answers \in BOOLEAN :
          /\ pc = "refs" /\ pc' = "judged" /\ UNCHANGED runs
          /\ read' = [read EXCEPT !.proven = Provable \ unproved, !.offered = offer(answers)]
    BY <1>10 DEF Judge
  <2>offer. ASSUME NEW t \in offer(answers)
            PROVE  \/ \E p \in Path : t = TreeOf(p) /\ read.on[p] # Gone
                   \/ t \in RefTargets /\ Surveyed(t) # NoCommit
    BY <2>offer
  <2>sets. offer(answers) \subseteq Target /\ Provable \subseteq Target
    BY DEF Target, RefTargets, Provable
  <2> HIDE DEF offer
  <2>2. /\ read'.pr = read.pr /\ read'.on = read.on /\ read'.head = read.head /\ read'.made = read.made
        /\ read'.tip = read.tip /\ read'.cache = read.cache
        /\ read'.proven \subseteq Provable
        /\ \A t \in read'.offered : \/ \E p \in Path : t = TreeOf(p) /\ read.on[p] # Gone
                                    \/ t \in RefTargets /\ Surveyed(t) # NoCommit
    BY <2>1, <2>offer DEF TypeOK, ReadType
  <2>3. \A t \in Target : ReadOf(t)' = ReadOf(t) BY <2>2 DEF ReadOf, Surveyed
  <2>4. read' \in ReadType
    BY <2>1, <2>sets DEF TypeOK, ReadType
  <2>5. runs' \in Nat BY <2>1 DEF TypeOK
  <2>6. \A t \in read'.offered : ReadOf(t) # NoCommit
    BY <2>2 DEF Stages, ReadOf, TreeOf, RefTargets
  <2>7. Stages'
    <3>1. read'.offered \subseteq Target BY <2>4 DEF ReadType
    <3>2. \A t \in read'.offered : ReadOf(t)' # NoCommit BY <2>3, <2>6, <3>1
    <3> QED BY <2>1, <2>2, <3>2, <1>1, <1>3 DEF Stages
  <2>8. Followed' /\ BranchesGrow'
    BY <2>1, <2>2, <1>1 DEF Followed, BranchesGrow, Asked
  <2>9. TreesFollow' BY <2>1, <2>2, <1>1, <1>3, <1>4 DEF TreesFollow, Surveying
  <2>10. ASSUME NEW t \in Provable, Surveyed(t) \in hist[Now(t)] \/ PrCovers(t)
         PROVE  hist[Surveyed(t)] \subseteq merged
    <3>1. t.of \in Branch BY DEF Provable, RefTargets, Target, TreeOf, BranchOf, ServerOf
    <3>2. CASE PrCovers(t)
      <4>1. read.pr[t.of] \in merged /\ Surveyed(t) \in hist[read.pr[t.of]]
        BY <3>1, <3>2 DEF PrCovers, Stages
      <4> QED BY <4>1 DEF Merges, History
    <3>3. CASE ~PrCovers(t)
      <4>1. Now(t) \in merged /\ Surveyed(t) \in hist[Now(t)]
        BY <2>10, <3>3 DEF Provable, ContentLanded
      <4> QED BY <4>1 DEF Merges, History
    <3> QED BY <3>2, <3>3
  <2>11. ProofsHold'
    <3>1. ASSUME NEW b \in Branch, BranchOf(b) \in Provable PROVE hist[read.tip[b]] \subseteq merged
      <4>1. Surveyed(BranchOf(b)) = read.tip[b] /\ Now(BranchOf(b)) = tip[b]
        BY DEF Surveyed, Now, BranchOf
      <4>2. read.tip[b] # NoCommit BY <3>1, <4>1 DEF Provable
      <4>3. read.tip[b] \in hist[tip[b]] BY <4>2, <2>1 DEF BranchesGrow, Asked
      <4> QED BY <3>1, <4>1, <4>3, <2>10
    <3>2. ASSUME renewed = {}, NEW t \in Provable PROVE hist[Surveyed(t)] \subseteq merged
      <4>1. PICK b \in Branch : t = BranchOf(b) \/ t = ServerOf(b)
        BY DEF Provable, RefTargets, Target, TreeOf
      <4>2. CASE t = BranchOf(b) BY <4>2, <3>1 DEF Surveyed, BranchOf
      <4>3. CASE t = ServerOf(b)
        <5>1. Surveyed(t) = read.cache[b] /\ Now(t) = cache[b] BY <4>3 DEF Surveyed, Now, ServerOf
        <5>2. read.cache[b] # NoCommit BY <5>1 DEF Provable
        <5>3. read.cache[b] \in hist[cache[b]] BY <5>2, <2>1, <3>2 DEF Followed, Asked
        <5> QED BY <5>1, <5>3, <2>10
      <4> QED BY <4>1, <4>2, <4>3
    <3>3. \A t \in Provable : t \in Target /\ t.kind # "worktree" /\ ReadOf(t) = Surveyed(t) /\ Surveyed(t) # NoCommit
      BY DEF Provable, RefTargets, ReadOf
    <3> QED BY <2>2, <2>3, <3>1, <3>2, <3>3, <1>1 DEF ProofsHold
  <2> QED BY <1>3, <1>5, <1>6, <2>1, <2>4, <2>5, <2>7, <2>8, <2>9, <2>11
<1> QED BY <1>7, <1>8, <1>9, <1>10 DEF Survey

LEMMA DecideStep == ASSUME IInv, Decide PROVE IInv'
<1> USE TypeLemma, RepoTypeLemma DEF IInv
<1>1. \A t \in Sweepable : t \in read.offered /\ ~Withheld(t) BY DEF Sweepable
<1>2. \A S : Unoccupied(S) \subseteq S BY DEF Unoccupied
<1>3. PICK how \in {"unattended", "named"}, chosen \in SUBSET read.offered :
        Plan(how, chosen) /\ (how = "unattended" => \A t \in chosen : ~Withheld(t))
  <2>1. CASE Sweep BY <2>1, <1>1, <1>2 DEF Sweep
  <2>2. ASSUME NEW b \in Branch, AfterMerge(b)
        PROVE  \E chosen \in SUBSET read.offered :
                  Plan("unattended", chosen) /\ \A t \in chosen : ~Withheld(t)
    <3> DEFINE scope  == {BranchOf(b)} \cup {TreeOf(p) : p \in {q \in Path : read.on[q] = b}}
               chosen == IF BranchOf(b) \in read.offered
                         THEN Unoccupied(Sweepable \cap scope) ELSE {}
    <3>1. Plan("unattended", chosen) BY <2>2 DEF AfterMerge
    <3>2. chosen \subseteq Sweepable BY <1>2
    <3> HIDE DEF chosen
    <3> QED BY <3>1, <3>2, <1>1
  <2>3. ASSUME NEW named \in SUBSET read.offered, Cleanup(named)
        PROVE  \E chosen \in SUBSET read.offered : Plan("named", chosen)
    BY <2>3 DEF Cleanup
  <2> QED BY <2>1, <2>2, <2>3 DEF Decide
<1>4. /\ UNCHANGED <<hist, landed, merged, prHead, dirty, tip, on, at, reflog, server, cache, scratch>>
      /\ UNCHANGED <<read, doing, stranded, weighed, bundle, told, moves, runs, renewed>>
      /\ pc = "judged" /\ pc' = "delete" /\ mode' = how /\ plan' = chosen
  BY <1>3 DEF Plan, Tool, Still, Keep
<1>5. doing = NoTarget /\ bundle = {} BY <1>4 DEF TypeOK
<1>6. /\ Made' = Made /\ Reaches(Refs)' = Reaches(Refs) /\ RepoType'
      /\ History' /\ Merges' /\ Ahead'
  BY <1>4, KeptLemma
<1>7. TypeOK'
  <2>1. scratch' \in [Branch -> Made' \cup {NoCommit}] BY <1>4, <1>6
  <2> QED BY <1>4, <1>5, <1>6, <2>1 DEF TypeOK, RepoType
<1>8. Stages' BY <1>4, <1>6 DEF Stages, ReadOf, Surveyed
<1>9. Followed' /\ BranchesGrow' BY <1>4 DEF Followed, BranchesGrow, Asked
<1>10. Salvaged' /\ WeighedFollows' BY <1>4 DEF Salvaged, WeighedFollows
<1>11. TreesFollow'
  <2>1. \A p \in Path : Head(p)' = Head(p) BY <1>4 DEF Head
  <2> QED BY <2>1, <1>4, <1>6 DEF TreesFollow, Surveying
<1>12. ProofsHold' BY <1>4 DEF ProofsHold, ReadOf, Surveyed
<1>13. Unattended' BY <1>3, <1>4 DEF Unattended, Withheld, CommitProven, Surveyed
<1> QED BY <1>6, <1>7, <1>8, <1>9, <1>10, <1>11, <1>12, <1>13

(* A deletion goes by what was read and takes its target off the plan.     *)
Deleting == /\ UNCHANGED <<hist, landed, merged, prHead, dirty, moves, renewed, mode, read, runs>>
            /\ plan' \subseteq plan
            /\ pc' \in {"delete", "weighed", "copied", "bundled"}

LEMMA DeletingLemma ==
  ASSUME IInv, Deleting
  PROVE  /\ Made' = Made /\ History' /\ Merges' /\ ProofsHold' /\ Unattended'
         /\ UNCHANGED tip => BranchesGrow'
         /\ UNCHANGED cache => Followed'
         /\ UNCHANGED <<server, cache>> => Ahead'
         /\ (\A t \in plan' : t.kind # "worktree") => TreesFollow'
<1> USE DEF IInv, Deleting
<1>1. Made' = Made /\ History' /\ Merges' BY DEF Made, History, Merges
<1>2. ProofsHold' BY DEF ProofsHold, ReadOf, Surveyed
<1>3. Unattended' BY DEF Unattended, Withheld, CommitProven, Surveyed
<1>4. UNCHANGED tip => BranchesGrow' BY DEF BranchesGrow, Asked
<1>5. UNCHANGED cache => Followed' BY DEF Followed, Asked
<1>6. UNCHANGED <<server, cache>> => Ahead' BY DEF Ahead
<1>7. (\A t \in plan' : t.kind # "worktree") => TreesFollow' BY DEF TreesFollow, Surveying, TreeOf
<1> QED BY <1>1, <1>2, <1>3, <1>4, <1>5, <1>6, <1>7

(* Targets of different kinds, or of different things, differ.             *)
LEMMA TargetLemma ==
  /\ \A p, q : TreeOf(p) = TreeOf(q) => p = q
  /\ \A b, d : (BranchOf(b) = BranchOf(d) => b = d) /\ (ServerOf(b) = ServerOf(d) => b = d)
  /\ \A p, b : /\ TreeOf(p).kind = "worktree" /\ TreeOf(p).of = p
               /\ BranchOf(b).kind = "branch" /\ BranchOf(b).of = b
               /\ ServerOf(b).kind = "server" /\ ServerOf(b).of = b
  /\ NoTarget.kind = "none"
BY DEF TreeOf, BranchOf, ServerOf, NoTarget

LEMMA TreeStep ==
  ASSUME IInv, NEW p \in Path, Weigh(p) \/ RemoveTree(p) \/ KeepTree(p)
  PROVE  IInv'
<1> USE TypeLemma, RepoTypeLemma DEF IInv
<1>1. /\ UNCHANGED <<hist, landed, merged, prHead, dirty, moves, renewed, mode, read, runs>>
      /\ UNCHANGED <<tip, server, cache, scratch, bundle>>
      /\ TreeOf(p) \in plan
  BY DEF Weigh, RemoveTree, KeepTree, Tool, Still, Keep, Begin, NextUp, Working, Done, TypeOK
<1>2. Reaches(Refs)' = Reaches(Refs) /\ bundle = {}
  BY <1>1, RefsStay DEF Weigh, RemoveTree, KeepTree, Begin, NextUp, Working, TypeOK
<1>3. CASE Weigh(p)
  <2> DEFINE head == IF Head(p) # NoCommit THEN Head(p) ELSE read.head[p]
  <2>1. /\ UNCHANGED <<on, at, reflog, plan, stranded, told>>
        /\ doing' = TreeOf(p) /\ pc' = "weighed"
        /\ weighed' = [head |-> head, held |-> Contained(head), made |-> Made]
    BY <1>3 DEF Weigh, Tool, Keep, Begin
  <2>2. Deleting BY <1>1, <2>1 DEF Deleting
  <2>3. \A q \in Path : Head(q)' = Head(q) /\ (on[q] # Gone => Head(q) \in Made) BY <1>1, <2>1 DEF Head, RepoType
  <2>4. head \in Made
    <3>1. ReadOf(TreeOf(p)) = read.head[p] BY TargetLemma DEF ReadOf
    <3>2. read.head[p] \in Made BY <1>1, <3>1 DEF Stages, TypeOK
    <3> QED BY <3>2, <2>3 DEF Head
  <2> HIDE DEF head
  <2>5. RepoType' BY <1>1, <2>1, <2>3, <2>2, DeletingLemma DEF RepoType
  <2>6. TypeOK'
    <3>1. scratch' \in [Branch -> Made' \cup {NoCommit}] BY <1>1, <2>2, DeletingLemma
    <3>2. weighed' \in [head : CommitOrNone, held : BOOLEAN, made : SUBSET Commit]
      BY <2>1, <2>4 DEF CommitOrNone, Contained
    <3>3. doing' # NoTarget BY <2>1, TargetLemma
    <3> QED BY <1>1, <1>2, <2>1, <2>5, <3>1, <3>2, <3>3, <2>2, DeletingLemma DEF TypeOK, RepoType
  <2>7. Stages'
    BY <1>1, <2>1, <2>2, DeletingLemma, TargetLemma DEF Stages, ReadOf, Surveyed
  <2>8. Salvaged' BY <2>1 DEF Salvaged
  <2>9. TreesFollow' BY <1>1, <1>2, <2>1, <2>3 DEF TreesFollow, Surveying
  <2>10. WeighedFollows'
    <3>1. on[p] # Gone => head = Head(p) BY <2>3 DEF head
    <3>2. weighed'.head = head /\ weighed'.made = Made /\ (weighed'.held <=> head \in Reaches(Refs))
      BY <2>1 DEF Contained
    <3>3. doing'.of = p BY <2>1, TargetLemma
    <3>4. Head(doing.of)' = Head(p) BY <3>3, <2>1, <1>1 DEF Head
    <3> QED BY <3>1, <3>2, <3>3, <3>4, <1>1, <1>2, <2>1, <2>2, <2>4, DeletingLemma DEF WeighedFollows
  <2> QED BY <2>2, <2>6, <2>7, <2>8, <2>9, <2>10, <1>1, DeletingLemma
<1>4. CASE RemoveTree(p) \/ KeepTree(p)
  <2>1. /\ plan' = plan \ {TreeOf(p)} /\ doing' = NoTarget /\ pc' = "delete" /\ pc = "weighed"
        /\ weighed' = Nothing
    BY <1>4 DEF RemoveTree, KeepTree, Done, Working
  <2>2. Deleting BY <1>1, <2>1 DEF Deleting
  <2>3. \/ UNCHANGED <<on, at, reflog, told>> /\ stranded' = stranded \cup {p}
        \/ /\ p \notin dirty /\ UNCHANGED stranded
           /\ on' = [on EXCEPT ![p] = Gone] /\ at' = [at EXCEPT ![p] = NoCommit]
           /\ reflog' = [reflog EXCEPT ![p] = {}] /\ told' \subseteq told \cup {weighed.head}
    BY <1>4 DEF RemoveTree, KeepTree, Keep
  <2>4. \A q \in Path : on'[q] # Gone => on'[q] = on[q] /\ Head(q)' = Head(q) /\ Head(q) \in Made
    BY <1>1, <2>3 DEF Head, RepoType
  <2>5. RepoType'
    BY <1>1, <2>2, <2>3, <2>4, DeletingLemma DEF RepoType, CommitOrNone
  <2>6. TypeOK'
    <3>1. scratch' \in [Branch -> Made' \cup {NoCommit}] BY <1>1, <2>2, DeletingLemma
    <3>2. weighed' \in [head : CommitOrNone, held : BOOLEAN, made : SUBSET Commit]
      BY <2>1 DEF Nothing, CommitOrNone
    <3>3. told' \subseteq Made BY <2>1, <2>3 DEF WeighedFollows, TypeOK
    <3> QED BY <1>1, <1>2, <2>1, <2>3, <2>5, <3>1, <3>2, <3>3, <2>2, DeletingLemma DEF TypeOK, RepoType
  <2>7. Stages' BY <1>1, <2>1, <2>2, DeletingLemma DEF Stages, ReadOf, Surveyed
  <2>8. Salvaged' /\ WeighedFollows' BY <2>1 DEF Salvaged, WeighedFollows
  <2>9. TreesFollow' BY <1>1, <1>2, <2>1, <2>4 DEF TreesFollow, Surveying
  <2> QED BY <2>2, <2>6, <2>7, <2>8, <2>9, <1>1, DeletingLemma
<1> QED BY <1>3, <1>4

(* When a branch or a server branch is next, no worktree is left; when a   *)
(* server branch is, nothing else is.                                      *)
LEMMA RankLemma ==
  ASSUME TypeOK, NEW t, NextUp(t)
  PROVE  /\ t.kind # "worktree" => \A u \in plan : u.kind # "worktree"
         /\ t.kind = "server" => \A u \in plan : u.kind = "server"
<1> SUFFICES ASSUME NEW u \in plan
             PROVE  /\ t.kind # "worktree" => u.kind # "worktree"
                    /\ t.kind = "server" => u.kind = "server"
  OBVIOUS
<1>1. Rank(t) <= Rank(u) /\ t \in Target /\ u \in Target BY DEF NextUp, TypeOK, ReadType
<1>2. u.kind \in {"worktree", "branch", "server"} /\ t.kind \in {"worktree", "branch", "server"}
  BY <1>1, TargetLemma DEF Target
<1> QED BY <1>1, <1>2 DEF Rank

LEMMA BranchStep ==
  ASSUME IInv, NEW b \in Branch, DeleteBranch(b) \/ KeepBranch(b)
  PROVE  IInv'
<1> USE TypeLemma, RepoTypeLemma DEF IInv
<1>1. /\ UNCHANGED <<hist, landed, merged, prHead, dirty, moves, renewed, mode, read, runs>>
      /\ UNCHANGED <<on, at, reflog, server, cache, scratch, stranded, weighed, bundle, told>>
      /\ plan' = plan \ {BranchOf(b)} /\ doing' = NoTarget /\ pc' = "delete"
      /\ NextUp(BranchOf(b)) /\ pc = "delete"
  BY DEF DeleteBranch, KeepBranch, Tool, Still, Keep, NextUp, Done
<1>2. Deleting BY <1>1 DEF Deleting
<1>3. \/ UNCHANGED tip
      \/ HeldBy(b) = {} /\ tip' = [tip EXCEPT ![b] = NoCommit]
  BY DEF DeleteBranch, KeepBranch, Keep
<1>4. \A q \in Path : Head(q)' = Head(q)
  BY <1>1, <1>3 DEF Head, RepoType, HeldBy
<1>5. tip' \in [Branch -> Made \cup {NoCommit}] BY <1>3
<1>6. RepoType' BY <1>1, <1>2, <1>4, <1>5, DeletingLemma DEF RepoType
<1>7. TypeOK'
  <2>1. scratch' \in [Branch -> Made' \cup {NoCommit}] BY <1>1, <1>2, DeletingLemma
  <2>2. bundle = {} BY <1>1 DEF TypeOK
  <2> QED BY <1>1, <1>2, <1>6, <2>1, <2>2, DeletingLemma DEF TypeOK, RepoType
<1>8. Stages' BY <1>1, <1>2, DeletingLemma DEF Stages, ReadOf, Surveyed
<1>9. Salvaged' /\ WeighedFollows' BY <1>1 DEF Salvaged, WeighedFollows
<1>10. TreesFollow' BY <1>1, <1>2, RankLemma, TargetLemma, DeletingLemma
<1>11. BranchesGrow'
  <2> SUFFICES ASSUME NEW d \in Branch, read.tip[d] # NoCommit, BranchOf(d) \in plan, d # b
               PROVE  /\ tip'[d] # NoCommit /\ read.tip[d] \in hist[tip'[d]]
                      /\ hist[tip'[d]] \cap read.made \subseteq hist[read.tip[d]]
    BY <1>1, TargetLemma DEF BranchesGrow, Asked
  <2>1. tip'[d] = tip[d] BY <1>3
  <2> QED BY <2>1 DEF BranchesGrow, Asked
<1> QED BY <1>1, <1>2, <1>7, <1>8, <1>9, <1>10, <1>11, DeletingLemma

LEMMA ServerStep ==
  ASSUME IInv, NEW b \in Branch,
         AlreadyGone(b) \/ Copy(b) \/ Bundle(b) \/ DeleteServer(b) \/ KeepServer(b)
  PROVE  IInv'
<1> USE TypeLemma, RepoTypeLemma DEF IInv
<1>1. /\ UNCHANGED <<hist, landed, merged, prHead, dirty, moves, renewed, mode, read, runs>>
      /\ UNCHANGED <<tip, on, at, reflog, stranded, weighed, told>>
  BY DEF AlreadyGone, Copy, Bundle, DeleteServer, KeepServer, KeptServer, Tool, Still, Keep
<1>2. /\ \A t \in plan : t.kind = "server"
      /\ ServerOf(b) \in plan
  <2>1. CASE NextUp(ServerOf(b)) BY <2>1, RankLemma, TargetLemma DEF NextUp
  <2>2. CASE \E step \in {"copied", "bundled"} : Working(ServerOf(b), step)
    BY <2>2, TargetLemma DEF Working, Stages, TypeOK
  <2> QED BY <2>1, <2>2 DEF AlreadyGone, Copy, Bundle, DeleteServer, KeepServer, KeptServer, Begin
<1>3. \A q \in Path : Head(q)' = Head(q) BY <1>1 DEF Head
<1>4. ASSUME Deleting, server' \in [Branch -> Made \cup {NoCommit}],
             cache' \in [Branch -> Made \cup {NoCommit}], scratch' \in [Branch -> Made \cup {NoCommit}],
             plan' \subseteq plan, bundle' \subseteq Commit,
             \/ doing' = NoTarget /\ pc' = "delete" /\ bundle' = {}
             \/ /\ doing' = ServerOf(b) /\ plan' = plan
                /\ \/ pc' = "copied" /\ bundle' = {} /\ scratch'[b] # NoCommit
                   \/ pc' = "bundled" /\ bundle' # {}
      PROVE  TypeOK' /\ Stages' /\ TreesFollow' /\ WeighedFollows'
  <2>1. RepoType' BY <1>1, <1>3, <1>4, DeletingLemma DEF RepoType
  <2>2. scratch' \in [Branch -> Made' \cup {NoCommit}] BY <1>4, DeletingLemma
  <2>3. TypeOK' BY <1>1, <1>2, <1>4, <2>1, <2>2, DeletingLemma, TargetLemma DEF TypeOK, RepoType
  <2>4. Stages' BY <1>1, <1>2, <1>4, DeletingLemma, TargetLemma DEF Stages, ReadOf, Surveyed
  <2>5. TreesFollow'
    <3>1. \A t \in plan' : t.kind # "worktree" BY <1>2, <1>4
    <3> QED BY <3>1, <1>4, DeletingLemma
  <2>6. WeighedFollows' BY <1>4 DEF WeighedFollows
  <2> QED BY <2>3, <2>4, <2>5, <2>6
<1>5. CASE AlreadyGone(b) \/ KeepServer(b)
  <2>1. /\ plan' = plan \ {ServerOf(b)} /\ doing' = NoTarget /\ pc' = "delete"
        /\ UNCHANGED <<server, cache>>
    BY <1>5 DEF AlreadyGone, KeepServer, KeptServer, Done, Keep
  <2>2. bundle' = {} BY <1>5 DEF AlreadyGone, KeepServer, NextUp, TypeOK
  <2>3. scratch' \in {scratch, [scratch EXCEPT ![b] = NoCommit]}
    BY <1>5 DEF AlreadyGone, KeepServer, KeptServer, Keep, Discard
  <2>4. Deleting BY <1>1, <2>1 DEF Deleting
  <2>5. scratch' \in [Branch -> Made \cup {NoCommit}] BY <2>3
  <2>6. Salvaged' BY <2>1, TargetLemma DEF Salvaged
  <2> QED BY <1>1, <1>4, <2>1, <2>2, <2>4, <2>5, <2>6, DeletingLemma
<1>6. CASE Copy(b)
  <2>1. /\ UNCHANGED <<server, cache, plan, bundle>> /\ doing' = ServerOf(b) /\ pc' = "copied" /\ pc = "delete"
        /\ cache[b] # NoCommit /\ scratch' = [scratch EXCEPT ![b] = cache[b]]
    BY <1>6 DEF Copy, Begin, NextUp
  <2>2. bundle = {} BY <2>1 DEF TypeOK
  <2>3. Deleting BY <1>1, <2>1 DEF Deleting
  <2>4. scratch' \in [Branch -> Made \cup {NoCommit}] /\ scratch'[b] = cache[b] BY <2>1
  <2>5. Salvaged'
    <3>1. b \notin renewed /\ read.cache[b] # NoCommit => read.cache[b] \in hist[cache[b]]
      BY <1>2 DEF Followed, Asked
    <3>2. renewed' = renewed /\ read' = read /\ hist' = hist BY <1>1
    <3>3. ASSUME NEW d \in Branch \ renewed, doing' = ServerOf(d), read.cache[d] # NoCommit
          PROVE  d = b /\ read.cache[d] \in hist[scratch'[d]]
      <4>1. d = b BY <2>1, <3>3, TargetLemma
      <4> QED BY <4>1, <3>1, <3>3, <2>4
    <3> QED BY <3>2, <3>3, <2>1 DEF Salvaged
  <2> QED BY <1>1, <1>4, <2>1, <2>2, <2>3, <2>4, <2>5, DeletingLemma
<1>7. CASE Bundle(b)
  <2>1. /\ UNCHANGED <<server, cache, plan, doing>> /\ doing = ServerOf(b) /\ pc' = "bundled" /\ pc = "copied"
        /\ bundle' = hist[scratch[b]]
        /\ scratch' \in {scratch, [scratch EXCEPT ![b] = NoCommit]}
    BY <1>7 DEF Bundle, Working, Discard
  <2>2. scratch[b] \in Made /\ hist[scratch[b]] # {}
    BY <2>1, TargetLemma DEF Stages
  <2>3. Deleting BY <1>1, <2>1 DEF Deleting
  <2>4. scratch' \in [Branch -> Made \cup {NoCommit}] /\ bundle' \subseteq Commit BY <2>1, <2>2
  <2>5. Salvaged'
    <3>1. ASSUME b \notin renewed, read.cache[b] # NoCommit PROVE hist[read.cache[b]] \subseteq hist[scratch[b]]
      <4>1. read.cache[b] \in hist[scratch[b]] BY <2>1, <3>1 DEF Salvaged
      <4> QED BY <4>1, <2>2 DEF History
    <3> QED BY <3>1, <1>1, <2>1, TargetLemma DEF Salvaged
  <2> QED BY <1>1, <1>4, <2>1, <2>2, <2>3, <2>4, <2>5, DeletingLemma
<1>8. CASE DeleteServer(b)
  <2>1. /\ plan' = plan \ {ServerOf(b)} /\ doing' = NoTarget /\ pc' = "delete" /\ bundle' = {}
        /\ UNCHANGED scratch
        /\ server' = [server EXCEPT ![b] = NoCommit] /\ cache' = [cache EXCEPT ![b] = NoCommit]
    BY <1>8 DEF DeleteServer, Done
  <2>2. Deleting BY <1>1, <2>1 DEF Deleting
  <2>3. Salvaged' BY <2>1, TargetLemma DEF Salvaged
  <2>4. Ahead' BY <1>1, <2>1 DEF Ahead
  <2>5. Followed'
    <3> SUFFICES ASSUME NEW d \in Branch \ renewed, read.cache[d] # NoCommit, ServerOf(d) \in plan, d # b
                 PROVE  cache'[d] # NoCommit /\ read.cache[d] \in hist[cache'[d]]
      BY <1>1, <2>1, TargetLemma DEF Followed, Asked
    <3>1. cache'[d] = cache[d] BY <2>1
    <3> QED BY <3>1 DEF Followed, Asked
  <2> QED BY <1>1, <1>4, <2>1, <2>2, <2>3, <2>4, <2>5, DeletingLemma
<1> QED BY <1>5, <1>6, <1>7, <1>8

LEMMA LeaveStep == ASSUME IInv, Leave PROVE IInv'
<1> USE TypeLemma, RepoTypeLemma DEF IInv
<1>1. /\ UNCHANGED <<hist, landed, merged, prHead, dirty, tip, on, at, reflog, server, cache, scratch>>
      /\ UNCHANGED <<moves, runs>>
      /\ pc' = "idle" /\ mode' = "none" /\ read' = Unread /\ plan' = {} /\ doing' = NoTarget
      /\ stranded' = {} /\ weighed' = Nothing /\ bundle' = {} /\ told' = {} /\ renewed' = {}
  BY DEF Leave, Still, Keep
<1>2. /\ Made' = Made /\ RepoType' /\ History' /\ Merges' /\ Ahead'
  BY <1>1, KeptLemma
<1>3. Unread \in ReadType /\ Nothing \in [head : CommitOrNone, held : BOOLEAN, made : SUBSET Commit]
  BY DEF Unread, ReadType, NoRefs, CommitOrNone, Nothing
<1>4. TypeOK'
  <2>1. scratch' \in [Branch -> Made' \cup {NoCommit}] BY <1>1, <1>2
  <2> QED BY <1>1, <1>2, <1>3, <2>1 DEF TypeOK, RepoType
<1>5. Stages' BY <1>1, <1>2 DEF Stages, Unread, NoRefs, NoCommit
<1>6. Followed' /\ Salvaged' /\ BranchesGrow'
  BY <1>1 DEF Followed, Salvaged, BranchesGrow, Unread, NoRefs
<1>7. TreesFollow' /\ WeighedFollows' BY <1>1 DEF TreesFollow, WeighedFollows, Unread
<1>8. ProofsHold' /\ Unattended' BY <1>1 DEF ProofsHold, Unattended, Unread
<1> QED BY <1>2, <1>4, <1>5, <1>6, <1>7, <1>8

LEMMA NextStep == ASSUME IInv, [Next]_vars PROVE IInv'
<1>1. CASE OthersMove BY <1>1, OthersStep
<1>2. CASE Survey BY <1>2, SurveyStep
<1>3. CASE Decide BY <1>3, DecideStep
<1>4. CASE Execute BY <1>4, TreeStep, BranchStep, ServerStep, LeaveStep DEF Execute, Report, Die
<1>5. CASE UNCHANGED vars
  <2>1. UNCHANGED <<hist, landed, merged, prHead, dirty, tip, on, at, reflog, server, cache, scratch>>
        /\ UNCHANGED <<pc, mode, read, plan, doing, stranded, weighed, bundle, told, moves, runs, renewed>>
    BY <1>5 DEF vars, repo, steps
  <2>2. /\ Made' = Made /\ Reaches(Refs)' = Reaches(Refs) /\ \A p \in Path : Head(p)' = Head(p)
        /\ History' /\ Merges' /\ Ahead'
    BY <2>1, KeptLemma DEF IInv, Head
  <2>3. TypeOK' BY <2>1, <2>2 DEF IInv, TypeOK
  <2>4. Stages' /\ Followed' /\ Salvaged' /\ BranchesGrow'
    BY <2>1, <2>2 DEF IInv, Stages, ReadOf, Surveyed, Followed, Asked, Salvaged, BranchesGrow
  <2>5. TreesFollow' BY <2>1, <2>2 DEF IInv, TreesFollow, Surveying
  <2>6. WeighedFollows'
    <3>1. Head(doing.of)' = Head(doing.of) BY <2>1 DEF Head
    <3> QED BY <3>1, <2>1, <2>2 DEF IInv, WeighedFollows
  <2>7. ProofsHold' /\ Unattended'
    BY <2>1 DEF IInv, ProofsHold, ReadOf, Surveyed, Unattended, Withheld, CommitProven
  <2> QED BY <2>2, <2>3, <2>4, <2>5, <2>6, <2>7 DEF IInv
<1> QED BY <1>1, <1>2, <1>3, <1>4, <1>5 DEF Next

(* The inductive invariant holds.                                          *)
THEOREM Invariance == Spec => []IInv
<1>1. IInv /\ [Next]_vars => IInv' BY NextStep
<1> QED BY InitStep, <1>1, PTL DEF Spec

(* Every variable holds a value of its kind.                               *)
THEOREM Typed == Spec => []TypeOK
<1>1. IInv => TypeOK BY DEF IInv
<1> QED BY Invariance, <1>1, PTL

-----------------------------------------------------------------------------
(* What a step of the run puts out of reach.                               *)
LEMMA OthersMoved == ASSUME TypeOK, OthersMove PROVE moves' # moves
<1>1. Somebody
  BY DEF OthersMove, Others, CommitIn, Edit, Detach, Push, ColleaguePushes, Fetch, MergePr, Switch, NewBranch
<1> QED BY <1>1 DEF Somebody, TypeOK

Deletes == \/ \E p \in Path : RemoveTree(p)
           \/ \E b \in Branch : \/ DeleteBranch(b)
                                \/ Copy(b) \/ Bundle(b) \/ DeleteServer(b) \/ KeepServer(b)

LEMMA LosesNothing ==
  ASSUME TypeOK, [Next]_vars, moves' = moves, ~Deletes
  PROVE  UNCHANGED <<on, server>> /\ Lost = {}
<1>1. UNCHANGED <<hist, tip, on, at, server, cache, scratch>>
  <2>1. CASE Survey BY <2>1 DEF Survey, ReadTrees, ReadPullRequests, ReadRefs, Judge, Tool, Still, Keep
  <2>2. CASE Decide BY <2>2 DEF Decide, Sweep, AfterMerge, Cleanup, Plan, Tool, Still, Keep
  <2>3. CASE Execute
    BY <2>3 DEF Execute, Deletes, Weigh, KeepTree, KeepBranch, AlreadyGone, Report, Die, Leave, Tool, Still, Keep
  <2>4. CASE UNCHANGED vars BY <2>4 DEF vars, repo
  <2> QED BY <2>1, <2>2, <2>3, <2>4, OthersMoved DEF Next
<1>2. Reachable' = Reachable
  BY <1>1 DEF Reachable, Reaches, Refs, Head
<1> QED BY <1>1, <1>2 DEF Lost

(* A worktree's removal loses what its HEAD reaches and no ref does.       *)
LEMMA RemovalLoses ==
  ASSUME IInv, NEW p \in Path, RemoveTree(p)
  PROVE  Lost \subseteq hist[Head(p)] \ Reaches(Refs)
<1> USE TypeLemma DEF IInv
<1>1. /\ UNCHANGED <<hist, tip, server, cache, scratch>>
      /\ on' = [on EXCEPT ![p] = Gone] /\ at' = [at EXCEPT ![p] = NoCommit] /\ on[p] # Gone
  BY DEF RemoveTree, Tool, Still
<1>2. \A q \in Path \ {p} : Head(q)' = Head(q) BY <1>1 DEF Head, TypeOK
<1>3. ASSUME NEW x \in Lost PROVE x \in hist[Head(p)] \ Reaches(Refs)
  <2>1. x \in Reachable /\ x \notin Reachable' BY <1>3 DEF Lost
  <2>2. PICK c \in Refs \cup {server[b] : b \in Branch} \cup {Head(q) : q \in Path} :
          c # NoCommit /\ x \in hist[c]
    BY <2>1 DEF Reachable, Reaches
  <2>3. \A d \in Refs \cup {server[b] : b \in Branch} \cup {Head(q)' : q \in Path} :
           d # NoCommit => x \notin hist[d]
    BY <2>1, <1>1 DEF Reachable, Reaches, Refs
  <2>4. c = Head(p) BY <2>2, <2>3, <1>2
  <2>5. x \notin Reaches(Refs) BY <2>3 DEF Reaches
  <2> QED BY <2>2, <2>4, <2>5
<1> QED BY <1>3

(* A branch's deletion loses what it reaches at most.                      *)
LEMMA BranchLoses ==
  ASSUME IInv, NEW b \in Branch, DeleteBranch(b)
  PROVE  Lost \subseteq hist[tip[b]]
<1> USE TypeLemma DEF IInv
<1>1. /\ UNCHANGED <<hist, on, at, server, cache, scratch>>
      /\ tip' = [tip EXCEPT ![b] = NoCommit] /\ HeldBy(b) = {}
  BY DEF DeleteBranch, Tool, Still
<1>2. \A q \in Path : Head(q)' = Head(q) BY <1>1 DEF Head, HeldBy, TypeOK
<1>3. ASSUME NEW x \in Lost PROVE x \in hist[tip[b]]
  <2>1. x \in Reachable /\ x \notin Reachable' BY <1>3 DEF Lost
  <2>2. PICK c \in Refs \cup {server[d] : d \in Branch} \cup {Head(q) : q \in Path} :
          c # NoCommit /\ x \in hist[c]
    BY <2>1 DEF Reachable, Reaches
  <2>3. c \notin Refs' \cup {server[d] : d \in Branch} \cup {Head(q) : q \in Path}
    BY <2>1, <2>2, <1>1, <1>2 DEF Reachable, Reaches
  <2>4. c \in Refs \ Refs' BY <2>2, <2>3
  <2>5. PICK d \in Branch : c = tip[d] BY <2>4, <1>1 DEF Refs
  <2>6. d = b BY <2>4, <2>5, <1>1 DEF Refs
  <2> QED BY <2>2, <2>5, <2>6
<1> QED BY <1>3

(* An unattended run loses only what was merged, or came after its survey, *)
(* whatever others do meanwhile, unless they renew a branch.               *)
THEOREM SweepSpares == Spec => SweepLosesOnlyMerged
<1>1. ASSUME IInv, [Next]_vars
      PROVE  [ToolMoves /\ mode = "unattended" /\ renewed = {} =>
                Lost \subseteq merged \cup (Commit \ read.made)]_vars
  <2> SUFFICES ASSUME moves' = moves, mode = "unattended", renewed = {}
               PROVE  Lost \subseteq merged \cup (Commit \ read.made)
    BY DEF ToolMoves
  <2> USE <1>1, TypeLemma DEF IInv
  <2>1. CASE ~Deletes BY <2>1, LosesNothing
  <2>2. ASSUME NEW p \in Path, RemoveTree(p) PROVE Lost \subseteq merged \cup (Commit \ read.made)
    <3>1. TreeOf(p) \in plan /\ on[p] # Gone BY <2>2 DEF RemoveTree, Working, TypeOK
    <3>2. CommitProven(read.head[p]) BY <3>1, TargetLemma DEF Unattended, Withheld
    <3>3. hist[read.head[p]] \subseteq merged BY <3>2 DEF CommitProven, ProofsHold, ReadOf
    <3>4. read.on[p] # Gone
      <4>1. ReadOf(TreeOf(p)) = read.head[p] BY TargetLemma DEF ReadOf
      <4> QED BY <3>1, <4>1 DEF Stages, TypeOK
    <3>5. hist[Head(p)] \cap read.made \subseteq hist[read.head[p]] \cup Reaches(Refs)
      BY <3>1, <3>4 DEF TreesFollow
    <3>6. Lost \subseteq hist[Head(p)] \ Reaches(Refs) BY <2>2, RemovalLoses
    <3>7. hist[Head(p)] \subseteq Commit BY <3>1 DEF TypeOK
    <3> QED BY <3>3, <3>5, <3>6, <3>7
  <2>3. ASSUME NEW b \in Branch, DeleteBranch(b) PROVE Lost \subseteq merged \cup (Commit \ read.made)
    <3>1. BranchOf(b) \in plan /\ tip[b] # NoCommit BY <2>3 DEF DeleteBranch, NextUp
    <3>2. BranchOf(b) \in read.proven BY <3>1, TargetLemma DEF Unattended, Withheld
    <3>3. hist[read.tip[b]] \subseteq merged /\ read.tip[b] # NoCommit
      BY <3>2, TargetLemma DEF ProofsHold, ReadOf, Surveyed
    <3>4. hist[tip[b]] \cap read.made \subseteq hist[read.tip[b]]
      BY <3>1, <3>3 DEF BranchesGrow, Asked
    <3>5. Lost \subseteq hist[tip[b]] BY <2>3, BranchLoses
    <3>6. hist[tip[b]] \subseteq Commit BY <3>1
    <3> QED BY <3>3, <3>4, <3>5, <3>6
  <2>4. ASSUME NEW b \in Branch, Copy(b) \/ Bundle(b) \/ DeleteServer(b) \/ KeepServer(b) PROVE FALSE
    <3>1. ServerOf(b) \in plan
      BY <2>4 DEF Copy, Bundle, DeleteServer, KeepServer, KeptServer, Begin, NextUp, Working, TypeOK
    <3> QED BY <3>1, TargetLemma DEF Unattended, Withheld
  <2> QED BY <2>1, <2>2, <2>3, <2>4 DEF Deletes
<1> QED BY Invariance, <1>1, PTL DEF Spec, SweepLosesOnlyMerged

(* Whatever a worktree takes with it is under the commit the report names, *)
(* unless it came after the question.                                      *)
THEOREM RemovalTold == Spec => RemovalIsTold
<1>1. ASSUME IInv, [Next]_vars
      PROVE  [\A p \in Path : on[p] # Gone /\ on'[p] = Gone /\ renewed = {} =>
                Lost \subseteq Reaches(told') \cup (Commit \ weighed.made)]_vars
  <2> SUFFICES ASSUME NEW p \in Path, on[p] # Gone, on'[p] = Gone, renewed = {}
               PROVE  Lost \subseteq Reaches(told') \cup (Commit \ weighed.made)
    OBVIOUS
  <2> USE <1>1, TypeLemma DEF IInv
  <2>1. ~OthersMove
    <3>1. on \in [Path -> Branch \cup {Detached, Gone}] BY DEF TypeOK
    <3> QED BY <3>1, CleanAssumption
            DEF OthersMove, CommitIn, Edit, Detach, Push, ColleaguePushes, Fetch, MergePr, Switch, NewBranch
  <2>2. moves' = moves
    BY <2>1 DEF Next, Survey, ReadTrees, ReadPullRequests, ReadRefs, Judge, Decide, Sweep, AfterMerge, Cleanup,
                Plan, Execute, Weigh, RemoveTree, KeepTree, DeleteBranch, KeepBranch, AlreadyGone, Copy, Bundle,
                DeleteServer, KeepServer, KeptServer, Report, Die, Leave, Tool, Still, vars
  <2>3. PICK q \in Path : RemoveTree(q)
    BY <2>2, LosesNothing DEF Deletes, DeleteBranch, Copy, Bundle, DeleteServer, KeepServer, KeptServer
  <2>4. q = p BY <2>3 DEF RemoveTree, TypeOK
  <2>5. /\ pc = "weighed" /\ doing = TreeOf(p) /\ told' = IF weighed.held THEN told ELSE told \cup {weighed.head}
    BY <2>3, <2>4 DEF RemoveTree, Working
  <2>6. doing.of = p BY <2>5, TargetLemma
  <2>7. /\ weighed.head \in Made /\ (weighed.held => weighed.head \in Reaches(Refs))
        /\ hist[Head(p)] \cap weighed.made \subseteq hist[weighed.head] \cup Reaches(Refs)
    BY <2>5, <2>6 DEF WeighedFollows
  <2>8. Lost \subseteq hist[Head(p)] \ Reaches(Refs) BY <2>3, <2>4, RemovalLoses
  <2>9. weighed.held => hist[weighed.head] \subseteq Reaches(Refs) BY <2>7, RefsLemma
  <2>10. ~weighed.held => hist[weighed.head] \subseteq Reaches(told')
    BY <2>5, <2>7 DEF Reaches
  <2>11. hist[Head(p)] \subseteq Commit BY DEF TypeOK
  <2> QED BY <2>7, <2>8, <2>9, <2>10, <2>11
<1> QED BY Invariance, <1>1, PTL DEF Spec, RemovalIsTold

(* The lease holds a server branch to what was judged, and the copy taken  *)
(* of the tracking ref restores that, unless the branch was renewed.       *)
THEOREM ServerBundled == Spec => ServerLossIsBundled
<1>1. ASSUME IInv, [Next]_vars
      PROVE  [ToolMoves => \A b \in Branch : server[b] # NoCommit /\ server'[b] = NoCommit =>
                /\ server[b] = read.cache[b]
                /\ b \notin renewed => hist[server[b]] \subseteq bundle]_vars
  <2> SUFFICES ASSUME moves' = moves, NEW b \in Branch, server[b] # NoCommit, server'[b] = NoCommit
               PROVE  /\ server[b] = read.cache[b]
                      /\ b \notin renewed => hist[server[b]] \subseteq bundle
    BY DEF ToolMoves
  <2> USE <1>1, TypeLemma DEF IInv
  <2>1. PICK d \in Branch : DeleteServer(d)
    BY LosesNothing DEF Deletes, RemoveTree, DeleteBranch, Copy, Bundle, KeepServer, KeptServer
  <2>2. d = b BY <2>1 DEF DeleteServer
  <2>3. pc = "bundled" /\ doing = ServerOf(b) /\ server[b] = read.cache[b]
    BY <2>1, <2>2 DEF DeleteServer, Working, LeaseHolds
  <2> QED BY <2>3 DEF Salvaged
<1> QED BY Invariance, <1>1, PTL DEF Spec, ServerLossIsBundled
=============================================================================
