------------------------ MODULE InstallReceiptProofs ------------------------
(***************************************************************************)
(* What the runs check of the installer's receipt on two paths, proved for *)
(* any paths, owners and contents and any number of runs and moves: the    *)
(* types, that the receipt owns what was installed unless its overwriting  *)
(* was declined, that what only the user wrote is backed up before it      *)
(* goes, and that neither an edited file nor a declined path is pruned,    *)
(* with the exceptions each of these properties names.                     *)
(***************************************************************************)
EXTENDS InstallReceipt, TLAPS

RunType == [pc : Stages, prune : BOOLEAN, tools : SUBSET Tools,
            prior : [Paths -> Entries \cup {None}], plan : [Paths -> Offers \cup {None}],
            todo : SUBSET Paths, at : Paths \cup {None}, touched : BOOLEAN, late : BOOLEAN,
            done : [Paths -> Outcomes], fresh : SUBSET Paths, pruned : SUBSET Paths,
            freed : SUBSET Paths]

Live == run.pc # "idle"

(* A run goes by the receipt it found, which nothing else writes.          *)
OneRun == /\ ~Live => run = Idle
          /\ Live => run.prior = IF readable THEN receipt ELSE Nothing

Installing == {"sync", "create", "ask", "write"}
Pruned     == {"confirm", "prune", "delete", "copy", "unlink"}
Looking    == {"delete", "copy", "unlink"}

(* Each stage has work of its own kind left: what is shipped and has no    *)
(* outcome yet, then what was recorded for an owner who does not ship it.  *)
Work ==
    /\ \A p \in Paths : run.done[p] # "none" => run.plan[p] # None
    /\ run.pc \in Installing => \A p \in run.todo : run.done[p] = "none" /\ run.plan[p] # None
    /\ run.pc \in Pruned => \A p \in run.todo : p \in Orphans
    /\ run.pc \in {"create", "ask", "write"} \cup Looking => run.at \in run.todo

(* A file about to be deleted was safe to prune when it was last looked    *)
(* at, and is so unless it was touched since.                              *)
Looked == run.pc \in Looking /\ ~run.touched /\ run.at \notin Dirs => IsSafe(run.at)

Saved(p) == 1 \in DOMAIN backups[p] /\ backups[p][1] = disk[p]

(* What is about to be written over or removed is in the backups, unless   *)
(* it was touched since it was copied, or found absent.                    *)
Copied ==
    ~run.late => /\ run.pc = "create" => disk[run.at] = None
                 /\ run.pc \in {"write", "unlink"} => disk[run.at] = None \/ Saved(run.at)

(* What this run put there, as far as nobody has touched it.               *)
Fresh ==
    /\ run.fresh \subseteq Installed /\ Installed \cap ours \subseteq run.fresh
    /\ \A p \in run.fresh : disk[p] = run.plan[p].content
    /\ \A p \in Installed : disk[p] # Torn

Owned ==
    /\ ours \cap (run.pruned \cup run.freed) = {}
    /\ \A p \in ours : disk[p] \in Versions

(* Only a directory is recorded with what the user made of it.             *)
Recorded == \A p \in Paths \ Dirs : receipt[p] # None => receipt[p].content \in Versions

(* What was declined has no entry, but for this run's declines and those   *)
(* of a run that died.                                                     *)
GivenUp ==
    /\ Declined \subseteq kept
    /\ readable => \A p \in kept \ (unsaid \cup Declined) : receipt[p] = None

History == Owned /\ OursIsOwned /\ Recorded /\ GivenUp

IInv == TypeOK /\ OneRun /\ Work /\ Looked /\ Copied /\ Fresh /\ History

-----------------------------------------------------------------------------
(* Backing up puts what is there at the head of the copies.                *)
LEMMA RetainedLemma ==
    ASSUME BoundsAssumption, NEW s \in Seq(Contents), Len(s) >= 1
    PROVE  Retained(s) \in Seq(Contents) /\ 1 \in DOMAIN Retained(s) /\ Retained(s)[1] = s[1]
BY DEF Retained, BoundsAssumption

LEMMA BackUpLemma ==
    ASSUME TypeOK, NEW p \in Paths, disk[p] # None
    PROVE  /\ BackUp(p) \in [Paths -> Seq(Contents)]
           /\ 1 \in DOMAIN BackUp(p)[p] /\ BackUp(p)[p][1] = disk[p]
<1> DEFINE s == <<disk[p]>> \o backups[p]
<1>1. s \in Seq(Contents) /\ Len(s) >= 1 /\ s[1] = disk[p]
  BY DEF TypeOK
<1>2. Retained(s) \in Seq(Contents) /\ 1 \in DOMAIN Retained(s) /\ Retained(s)[1] = s[1]
  BY <1>1, BoundsAssumption, RetainedLemma
<1> HIDE DEF s
<1>3. BackUp(p) = [backups EXCEPT ![p] = Retained(s)]
  BY DEF BackUp, s
<1> QED BY <1>1, <1>2, <1>3 DEF TypeOK

LEMMA IdleLemma == Idle \in RunType /\ Idle.pc = "idle"
BY DEF Idle, RunType, Nothing, Outcomes, Stages

LEMMA TypeLemma == TypeOK <=>
    /\ disk \in [Paths -> Contents \cup {None}]
    /\ backups \in [Paths -> Seq(Contents)]
    /\ ships \in [Paths -> Offers \cup {None}]
    /\ receipt \in [Paths -> Entries \cup {None}]
    /\ readable \in BOOLEAN /\ run \in RunType
    /\ ours \subseteq Paths /\ kept \subseteq Paths /\ unsaid \subseteq Paths
    /\ runs \in 0 .. MaxRuns /\ moves \in 0 .. MaxMoves
BY DEF TypeOK, RunType

(* What one item's outcome does to the run.                                *)
LEMMA ThroughLemma ==
    ASSUME run \in RunType, NEW p \in Paths, NEW o \in Outcomes
    PROVE  /\ Through(p, o) \in RunType
           /\ Through(p, o).pc = "sync" /\ Through(p, o).todo = run.todo \ {p}
           /\ Through(p, o).prior = run.prior /\ Through(p, o).tools = run.tools
           /\ Through(p, o).plan = run.plan /\ Through(p, o).done = [run.done EXCEPT ![p] = o]
           /\ Through(p, o).fresh = IF o = "declined" THEN run.fresh ELSE run.fresh \cup {p}
           /\ Through(p, o).pruned = run.pruned /\ Through(p, o).freed = run.freed
BY DEF Through, RunType, Outcomes, Stages

-----------------------------------------------------------------------------
LEMMA InitStep == Init => IInv
<1> SUFFICES ASSUME Init PROVE IInv OBVIOUS
<1>1. TypeOK
  BY IdleLemma, BoundsAssumption, TypeLemma, ContentsAssumption DEF Init, Nothing, Contents
<1>2. OneRun /\ Work /\ Looked /\ Copied
  BY DEF Init, OneRun, Live, Work, Looked, Copied, Idle, Installing, Pruned, Looking
<1>3. Fresh /\ History
  BY DEF Init, Fresh, Installed, History, Owned, OursIsOwned, Recorded, GivenUp, Declined, Idle,
         Nothing
<1> QED BY <1>1, <1>2, <1>3 DEF IInv

(* A step that changes nothing but the run's place in its work.            *)
LEMMA PlaceStep ==
    ASSUME IInv, run' \in RunType, Live, Live',
           UNCHANGED <<disk, backups, ships, receipt, readable, ours, kept, unsaid, runs, moves>>,
           run'.prior = run.prior, run'.plan = run.plan, run'.tools = run.tools,
           run'.done = run.done, run'.fresh = run.fresh, run'.pruned = run.pruned,
           ours \cap run'.freed = {}
    PROVE  TypeOK' /\ OneRun' /\ Fresh' /\ History' /\ Orphans' = Orphans
<1> USE DEF IInv
<1>1. TypeOK' BY TypeLemma DEF TypeOK, RunType
<1>2. OneRun' BY DEF OneRun, Live
<1>3. Fresh' BY DEF Fresh, Installed
<1>4. History'
  BY DEF History, Owned, OursIsOwned, Recorded, GivenUp, Declined
<1>5. Orphans' = Orphans BY DEF Orphans, InScope, Desired
<1> QED BY <1>1, <1>2, <1>3, <1>4, <1>5

LEMMA EditStep ==
    ASSUME IInv, NEW p \in Paths, NEW c \in Edits \cup {None}, Edit(p, c) PROVE IInv'
<1> USE DEF IInv
<1>1. run \in RunType /\ run'.touched \in BOOLEAN /\ run'.late \in BOOLEAN
  BY TypeLemma DEF Edit, RunType
<1>2. run' = [run EXCEPT !.touched = run'.touched, !.late = run'.late, !.fresh = run.fresh \ {p}]
  BY <1>1 DEF Edit, RunType
<1>3. TypeOK'
  <2>1. run' \in RunType BY <1>1, <1>2 DEF RunType
  <2>2. disk' \in [Paths -> Contents \cup {None}]
    BY TypeLemma DEF Edit, Contents
  <2>3. moves' \in 0 .. MaxMoves BY TypeLemma, BoundsAssumption DEF Edit, Move
  <2> QED BY <2>1, <2>2, <2>3, TypeLemma DEF TypeOK, RunType, Edit, Move
<1>4. OneRun'
  <2>1. CASE Live BY <2>1, <1>1, <1>2 DEF OneRun, Live, Edit, RunType
  <2>2. CASE ~Live
    <3>1. run = Idle /\ run'.touched = FALSE /\ run'.late = FALSE
      BY <2>2, <1>1 DEF OneRun, Live, Edit, Idle, RunType
    <3>2. run' = [Idle EXCEPT !.touched = FALSE, !.late = FALSE, !.fresh = {}]
      BY <3>1, <1>2 DEF Idle
    <3>3. run' = Idle BY <3>2 DEF Idle
    <3> QED BY <3>3, <2>2 DEF OneRun, Live, Idle
  <2> QED BY <2>1, <2>2
<1>5. Work'
  <2>1. /\ run'.pc = run.pc /\ run'.at = run.at /\ run'.todo = run.todo /\ run'.done = run.done
        /\ run'.plan = run.plan /\ run'.prior = run.prior /\ run'.tools = run.tools
    BY <1>1, <1>2 DEF RunType
  <2>2. Orphans' = Orphans BY <2>1 DEF Orphans, InScope, Desired
  <2> QED BY <2>1, <2>2 DEF Work
<1>6. /\ run'.at = run.at /\ run'.pc = run.pc /\ run'.prior = run.prior
      /\ disk' = [disk EXCEPT ![p] = c] /\ backups' = backups
      /\ run'.touched = (run.touched \/ (run.at = p /\ run.pc \in Looking))
      /\ run'.late = (run.late \/ (run.at = p /\ run.pc \in {"create", "write", "unlink"}))
  BY <1>1, <1>2 DEF Edit, Move, RunType, Looking
<1>7. Looked'
  BY <1>1, <1>6, TypeLemma DEF Looked, Work, IsSafe, RunType, Looking
<1>8. Copied'
  BY <1>1, <1>6, TypeLemma DEF Copied, Saved, Work, RunType, Looking
<1>9. Fresh'
  BY <1>1, <1>2, TypeLemma, ContentsAssumption DEF Fresh, Installed, Edit, RunType
<1>10. History'
  BY <1>1, <1>2, TypeLemma DEF History, Owned, OursIsOwned, Recorded, GivenUp, Declined, Edit, Move,
                               RunType
<1> QED BY <1>3, <1>4, <1>5, <1>7, <1>8, <1>9, <1>10

(* Between two runs there is no work.                                      *)
LEMMA IdleStep ==
    ASSUME run' = Idle, OneRun
    PROVE  OneRun' /\ Work' /\ Looked' /\ Copied' /\ Installed' = {} /\ Declined' = {}
BY DEF OneRun, Live, Work, Looked, Copied, Idle, Installing, Pruned, Looking, Installed, Declined

LEMMA ShipStep ==
    ASSUME IInv, NEW p \in Paths, NEW offer \in Offers \cup {None}, Ship(p, offer) PROVE IInv'
<1> USE DEF IInv
<1>1. TypeOK'
  BY TypeLemma, BoundsAssumption DEF TypeOK, RunType, Ship, Move
<1>2. OneRun' /\ Work' /\ Looked' /\ Copied'
  BY IdleStep DEF Ship
<1>3. Fresh' /\ History'
  BY DEF Ship, Move, Fresh, Installed, History, Owned, OursIsOwned, Recorded, GivenUp, Declined
<1> QED BY <1>1, <1>2, <1>3

LEMMA DamageStep ==
    ASSUME IInv, Damage \/ Reset PROVE IInv'
<1> USE DEF IInv
<1>1. TypeOK'
  <2>1. Nothing \in [Paths -> Entries \cup {None}] BY DEF Nothing
  <2>2. moves' \in 0 .. MaxMoves BY BoundsAssumption, TypeLemma DEF Damage, Reset, Move
  <2>3. readable' \in BOOLEAN /\ receipt' \in [Paths -> Entries \cup {None}] /\ ours' \subseteq Paths
    BY <2>1, TypeLemma DEF Damage, Reset
  <2>4. UNCHANGED <<disk, backups, ships, run, kept, unsaid, runs>> BY DEF Damage, Reset, Move
  <2> QED BY <2>2, <2>3, <2>4, TypeLemma DEF TypeOK, RunType
<1>2. run = Idle /\ run' = Idle BY DEF Damage, Reset
<1>3. OneRun' /\ Work' /\ Looked' /\ Copied'
  BY <1>2, IdleStep
<1>4. CASE Damage
  BY <1>1, <1>3, <1>4
     DEF Damage, Move, Fresh, Installed, History, Owned, OursIsOwned, Recorded, GivenUp, Declined
<1>5. CASE Reset
  <2>1. ours' = {} /\ receipt' = Nothing /\ kept' = kept /\ run' = run
    BY <1>5 DEF Reset, Move
  <2>2. Fresh' BY <1>2, <2>1 DEF Fresh, Installed, Idle
  <2>3. GivenUp'
    BY <2>1, <1>2, <1>1 DEF GivenUp, Declined, Nothing, Idle, TypeOK
  <2>4. Owned' /\ OursIsOwned' /\ Recorded'
    BY <2>1 DEF Owned, OursIsOwned, Recorded, Nothing
  <2> QED BY <1>1, <1>3, <2>2, <2>3, <2>4 DEF History
<1> QED BY <1>4, <1>5

LEMMA BeginStep ==
    ASSUME IInv, NEW prune \in BOOLEAN, NEW only \in BOOLEAN, NEW tools \in SUBSET Tools,
           Begin(prune, only, tools)
    PROVE  IInv'
<1> USE DEF IInv
<1> DEFINE plan == [p \in Paths |-> IF ships[p] # None /\ ships[p].owner \in tools \cup Plugins
                                    THEN ships[p] ELSE None]
           prior == IF readable THEN receipt ELSE Nothing
           todo == IF only THEN {} ELSE {p \in Paths : plan[p] # None}
<1>1. run' = [Idle EXCEPT !.pc = "sync", !.prune = prune, !.tools = tools, !.plan = plan,
                          !.prior = prior, !.todo = todo]
  BY DEF Begin
<1>2. plan \in [Paths -> Offers \cup {None}] /\ prior \in [Paths -> Entries \cup {None}]
      /\ todo \in SUBSET Paths
  BY TypeLemma DEF Nothing
<1>3. \A p \in todo : plan[p] # None OBVIOUS
<1> HIDE DEF plan, prior, todo
<1>4. /\ run' \in RunType /\ run'.pc = "sync" /\ run'.prior = prior /\ run'.plan = plan
      /\ run'.todo = todo /\ run'.done = [p \in Paths |-> "none"]
      /\ run'.fresh = {} /\ run'.pruned = {} /\ run'.freed = {}
  BY <1>1, <1>2, IdleLemma DEF RunType, Idle, Stages
<1>5. /\ UNCHANGED <<disk, backups, ships, receipt, readable, ours, kept, unsaid, moves>>
      /\ run = Idle /\ runs' \in 0 .. MaxRuns
  BY TypeLemma, BoundsAssumption DEF Begin
<1>6. TypeOK'
  BY <1>5, <1>4, TypeLemma DEF TypeOK, RunType
<1>7. OneRun' /\ Looked' /\ Copied'
  BY <1>4, <1>5 DEF OneRun, Live, Looked, Copied, Looking, prior
<1>8. Work' BY <1>3, <1>4, <1>2 DEF Work, Installing, Pruned, Looking
<1>9. Fresh' BY <1>4 DEF Fresh, Installed
<1>10. Declined = {} /\ Declined' = {}
  BY <1>4, <1>5 DEF Declined, Idle
<1>11. History'
  BY <1>4, <1>5, <1>10 DEF History, Owned, OursIsOwned, Recorded, GivenUp
<1> QED BY <1>6, <1>7, <1>8, <1>9, <1>11

-----------------------------------------------------------------------------
(* An item that is through leaves the rest of the run as it was.           *)
LEMMA ThroughStep ==
    ASSUME IInv, NEW p \in run.todo, NEW o \in Outcomes \ {"none"}, run.pc \in Installing,
           run' = Through(p, o), receipt' = receipt, readable' = readable
    PROVE  /\ p \in Paths /\ run.plan[p] \in Offers /\ run.plan[p].content \in Versions
           /\ OneRun' /\ Work' /\ Looked' /\ Copied' /\ run' \in RunType
           /\ Installed' = IF o = "declined" THEN Installed ELSE Installed \cup {p}
           /\ Declined' = IF o = "declined" THEN Declined \cup {p} ELSE Declined
           /\ p \notin Installed /\ p \notin Declined
           /\ run'.fresh = IF o = "declined" THEN run.fresh ELSE run.fresh \cup {p}
           /\ run'.plan = run.plan /\ run'.pruned = run.pruned /\ run'.freed = run.freed
<1> USE DEF IInv
<1>1. p \in Paths /\ run \in RunType
  BY TypeLemma DEF RunType
<1>2. run.plan[p] \in Offers /\ run.plan[p].content \in Versions /\ run.done[p] = "none"
  BY <1>1 DEF Work, RunType, Offers
<1>3. /\ run' \in RunType /\ run'.pc = "sync" /\ run'.todo = run.todo \ {p}
      /\ run'.prior = run.prior /\ run'.plan = run.plan /\ run'.done = [run.done EXCEPT ![p] = o]
      /\ run'.fresh = IF o = "declined" THEN run.fresh ELSE run.fresh \cup {p}
      /\ run'.pruned = run.pruned /\ run'.freed = run.freed
  BY <1>1, ThroughLemma
<1>4. OneRun' /\ Looked' /\ Copied'
  BY <1>3 DEF OneRun, Live, Looked, Copied, Looking, Installing
<1>5. Work' BY <1>1, <1>3 DEF Work, RunType, Installing, Pruned, Looking
<1>6. /\ Installed' = IF o = "declined" THEN Installed ELSE Installed \cup {p}
      /\ Declined' = IF o = "declined" THEN Declined \cup {p} ELSE Declined
      /\ p \notin Installed /\ p \notin Declined
  BY <1>1, <1>2, <1>3 DEF Installed, Declined, RunType, Outcomes
<1> QED BY <1>1, <1>2, <1>3, <1>4, <1>5, <1>6

LEMMA UpToDateStep ==
    ASSUME IInv, NEW p \in Paths, UpToDate(p) PROVE IInv'
<1> USE DEF IInv
<1>1. /\ p \in run.todo /\ run.pc \in Installing /\ run' = Through(p, "same")
      /\ UNCHANGED <<disk, backups, ships, receipt, readable, ours, kept, unsaid, runs, moves>>
      /\ disk[p] = run.plan[p].content
  BY DEF UpToDate, Syncing, Quiet, Running, Installing
<1>2. /\ run.plan[p].content \in Versions /\ OneRun' /\ Work' /\ Looked' /\ Copied'
      /\ run' \in RunType /\ Installed' = Installed \cup {p} /\ Declined' = Declined
      /\ run'.fresh = run.fresh \cup {p}
      /\ run'.plan = run.plan /\ run'.pruned = run.pruned /\ run'.freed = run.freed
  <2>1. "same" \in Outcomes \ {"none"} /\ "same" # "declined" BY DEF Outcomes
  <2> HIDE DEF IInv
  <2> QED BY <1>1, <2>1, ThroughStep
<1>3. TypeOK' BY <1>1, <1>2, TypeLemma DEF TypeOK, RunType
<1>4. Fresh' BY <1>1, <1>2, ContentsAssumption DEF Fresh
<1>5. History'
  BY <1>1, <1>2 DEF History, Owned, OursIsOwned, Recorded, GivenUp
<1> QED BY <1>2, <1>3, <1>4, <1>5

LEMMA AbsentAskStep ==
    ASSUME IInv, NEW p \in Paths, Absent(p) \/ Ask(p) PROVE IInv'
<1> USE DEF IInv
<1>1. /\ run' \in RunType /\ run'.pc \in {"create", "ask"} /\ run'.at = p /\ run'.todo = run.todo
      /\ run'.pc = "create" => disk[p] = None
      /\ run'.prior = run.prior /\ run'.plan = run.plan /\ run'.tools = run.tools
      /\ run'.done = run.done /\ run'.fresh = run.fresh /\ run'.pruned = run.pruned
      /\ run'.freed = run.freed /\ p \in run.todo /\ run.pc = "sync"
  <2>1. run \in RunType /\ run.todo \subseteq Paths BY TypeLemma DEF RunType
  <2>2. p \in run.todo /\ run.pc = "sync" BY DEF Absent, Ask, Syncing
  <2>3. CASE Absent(p) BY <2>1, <2>2, <2>3 DEF Absent, RunType, Stages
  <2>4. CASE Ask(p) BY <2>1, <2>2, <2>4 DEF Ask, RunType, Stages
  <2> QED BY <2>3, <2>4
<1>2. UNCHANGED <<disk, backups, ships, receipt, readable, ours, kept, unsaid, runs, moves>>
  BY DEF Absent, Ask, Quiet, Running
<1>3. TypeOK' /\ OneRun' /\ Fresh' /\ History'
  BY <1>1, <1>2, PlaceStep DEF Live, History, Owned
<1>4. Work' /\ Looked' /\ Copied'
  BY <1>1, <1>2 DEF Work, Looked, Copied, Installing, Pruned, Looking
<1> QED BY <1>3, <1>4

LEMMA DeclineStep ==
    ASSUME IInv, Decline PROVE IInv'
<1> USE DEF IInv
<1>1. /\ run.at \in run.todo /\ run.pc \in Installing /\ run' = Through(run.at, "declined")
      /\ UNCHANGED <<disk, backups, ships, receipt, readable, ours, unsaid, runs, moves>>
      /\ kept' = kept \cup {run.at}
  BY DEF Decline, Work, Running, Installing
<1>2. /\ run.at \in Paths /\ OneRun' /\ Work' /\ Looked' /\ Copied'
      /\ run' \in RunType /\ Installed' = Installed /\ Declined' = Declined \cup {run.at}
      /\ run'.fresh = run.fresh
      /\ run'.plan = run.plan /\ run'.pruned = run.pruned /\ run'.freed = run.freed
  BY <1>1, ThroughStep DEF Outcomes
<1>3. TypeOK' BY <1>1, <1>2, TypeLemma DEF TypeOK, RunType
<1>4. Fresh' BY <1>1, <1>2 DEF Fresh
<1>5. Owned' /\ OursIsOwned' /\ Recorded'
  BY <1>1, <1>2 DEF History, Owned, OursIsOwned, Recorded
<1>6. GivenUp' BY <1>1, <1>2 DEF History, GivenUp
<1> QED BY <1>2, <1>3, <1>4, <1>5, <1>6 DEF History

LEMMA AcceptStep ==
    ASSUME IInv, Accept PROVE IInv'
<1> USE DEF IInv
<1>1. /\ run' \in RunType /\ run'.pc = "write" /\ run'.at = run.at /\ run'.todo = run.todo
      /\ run'.prior = run.prior /\ run'.plan = run.plan /\ run'.tools = run.tools
      /\ run'.done = run.done /\ run'.fresh = run.fresh /\ run'.pruned = run.pruned
      /\ run'.freed = run.freed /\ run.at \in run.todo /\ run.at \in Paths /\ run.pc = "ask"
  BY TypeLemma DEF Accept, Work, RunType, Stages
<1>2. /\ UNCHANGED <<disk, ships, receipt, readable, ours, kept, unsaid, runs, moves>>
      /\ backups' = BackUp(run.at) /\ disk[run.at] # None
  BY DEF Accept, Running
<1>3. backups' \in [Paths -> Seq(Contents)] /\ Saved(run.at)'
  BY <1>1, <1>2, BackUpLemma DEF Saved
<1>4. TypeOK' BY <1>1, <1>2, <1>3, TypeLemma DEF TypeOK, RunType
<1>5. OneRun' /\ Work' /\ Looked'
  BY <1>1, <1>2 DEF OneRun, Live, Work, Looked, Installing, Pruned, Looking
<1>6. Copied' BY <1>1, <1>3 DEF Copied, Saved
<1>7. Fresh' /\ History'
  BY <1>1, <1>2 DEF Fresh, Installed, History, Owned, OursIsOwned, Recorded, GivenUp, Declined
<1> QED BY <1>4, <1>5, <1>6, <1>7

LEMMA WriteStep ==
    ASSUME IInv, Write PROVE IInv'
<1> USE DEF IInv
<1>1. /\ run.at \in run.todo /\ run.pc \in Installing /\ run' = Through(run.at, "written")
      /\ UNCHANGED <<backups, ships, receipt, readable, kept, unsaid, runs, moves>>
      /\ disk' = [disk EXCEPT ![run.at] = run.plan[run.at].content]
      /\ ours' = ours \ {run.at}
  BY DEF Write, Writing, Work, Running, Installing
<1>2. /\ run.at \in Paths /\ run.plan[run.at].content \in Versions
      /\ OneRun' /\ Work' /\ Looked' /\ Copied'
      /\ run' \in RunType /\ Installed' = Installed \cup {run.at} /\ Declined' = Declined
      /\ run'.fresh = run.fresh \cup {run.at}
      /\ run'.plan = run.plan /\ run'.pruned = run.pruned /\ run'.freed = run.freed
  <2>1. "written" \in Outcomes \ {"none"} /\ "written" # "declined" BY DEF Outcomes
  <2> HIDE DEF IInv
  <2> QED BY <1>1, <2>1, ThroughStep
<1>3. TypeOK' BY <1>1, <1>2, TypeLemma DEF TypeOK, RunType, Contents
<1>4. Fresh'
  BY <1>1, <1>2, TypeLemma, ContentsAssumption DEF Fresh
<1>5. History'
  BY <1>1, <1>2, TypeLemma DEF History, Owned, OursIsOwned, Recorded, GivenUp
<1> QED BY <1>2, <1>3, <1>4, <1>5

-----------------------------------------------------------------------------
LEMMA ScanStep ==
    ASSUME IInv, Scan PROVE IInv'
<1> USE DEF IInv
<1>1. /\ run' \in RunType /\ run'.pc = "confirm" /\ run'.todo = {p \in Orphans : IsSafe(p)}
      /\ run'.freed = {p \in Orphans : ~IsSafe(p)} /\ run'.prior = run.prior /\ run'.plan = run.plan
      /\ run'.tools = run.tools /\ run'.done = run.done /\ run'.fresh = run.fresh
      /\ run'.pruned = run.pruned /\ run.pc = "sync" /\ readable
  BY TypeLemma DEF Scan, RunType, Orphans, Stages
<1>2. UNCHANGED <<disk, backups, ships, receipt, readable, ours, kept, unsaid, runs, moves>>
  BY DEF Scan, Quiet, Running
<1>3. ours \cap run'.freed = {}
  BY <1>1 DEF OneRun, Live, History, OursIsOwned, IsSafe, Orphans
<1>4. TypeOK' /\ OneRun' /\ Fresh' /\ History' /\ Orphans' = Orphans
  BY <1>1, <1>2, <1>3, PlaceStep DEF Live
<1>5. Work' /\ Looked' /\ Copied'
  BY <1>1, <1>4 DEF Work, Looked, Copied, Installing, Pruned, Looking
<1> QED BY <1>4, <1>5

LEMMA ConfirmStep ==
    ASSUME IInv, NEW chosen \in SUBSET Paths, Confirm(chosen) PROVE IInv'
<1> USE DEF IInv
<1>1. /\ run' \in RunType /\ run'.pc = "prune" /\ run'.todo = chosen /\ chosen \subseteq run.todo
      /\ run'.prior = run.prior /\ run'.plan = run.plan /\ run'.tools = run.tools
      /\ run'.done = run.done /\ run'.fresh = run.fresh /\ run'.pruned = run.pruned
      /\ run'.freed = run.freed /\ run.pc = "confirm"
  BY TypeLemma DEF Confirm, RunType, Stages
<1>2. UNCHANGED <<disk, backups, ships, receipt, readable, ours, kept, unsaid, runs, moves>>
  BY DEF Confirm, Quiet, Running
<1>3. TypeOK' /\ OneRun' /\ Fresh' /\ History' /\ Orphans' = Orphans
  BY <1>1, <1>2, PlaceStep DEF Live, History, Owned
<1>4. Work' /\ Looked' /\ Copied'
  BY <1>1, <1>3 DEF Work, Looked, Copied, Installing, Pruned, Looking
<1> QED BY <1>3, <1>4

LEMMA RecheckStep ==
    ASSUME IInv, NEW p \in Paths, Recheck(p) PROVE IInv'
<1> USE DEF IInv
<1>1. /\ run' \in RunType /\ run'.pc = "delete" /\ run'.at = p /\ run'.todo = run.todo
      /\ run'.prior = run.prior /\ run'.plan = run.plan /\ run'.tools = run.tools
      /\ run'.done = run.done /\ run'.fresh = run.fresh /\ run'.pruned = run.pruned
      /\ run'.freed = run.freed /\ run.pc = "prune" /\ p \in run.todo /\ IsSafe(p)
  BY TypeLemma DEF Recheck, Pruning, RunType, Stages
<1>2. UNCHANGED <<disk, backups, ships, receipt, readable, ours, kept, unsaid, runs, moves>>
  BY DEF Recheck, Quiet, Running
<1>3. TypeOK' /\ OneRun' /\ Fresh' /\ History' /\ Orphans' = Orphans
  BY <1>1, <1>2, PlaceStep DEF Live, History, Owned
<1>4. Work' /\ Copied'
  BY <1>1, <1>3 DEF Work, Copied, Installing, Pruned, Looking
<1>5. Looked' BY <1>1, <1>2 DEF Looked, IsSafe
<1> QED BY <1>3, <1>4, <1>5

LEMMA PassStep ==
    ASSUME IInv, Changed \/ \E p \in Paths : Drifted(p) PROVE IInv'
<1> USE DEF IInv
<1>1. /\ run' \in RunType /\ run'.pc = "prune" /\ run'.todo \subseteq run.todo
      /\ run'.prior = run.prior /\ run'.plan = run.plan /\ run'.tools = run.tools
      /\ run'.done = run.done /\ run'.fresh = run.fresh /\ run'.pruned = run.pruned
      /\ run'.freed = run.freed /\ run.pc \in {"prune", "delete"}
  <2>1. CASE Changed
    BY <2>1, TypeLemma DEF Changed, Past, RunType, Stages
  <2>2. ASSUME NEW p \in Paths, Drifted(p) PROVE run' = [run EXCEPT !.todo = @ \ {p}] /\ run.pc = "prune"
    BY <2>2 DEF Drifted, Pruning
  <2>3. CASE \E p \in Paths : Drifted(p)
    <3>1. PICK p \in Paths : run' = [run EXCEPT !.todo = @ \ {p}] /\ run.pc = "prune"
      BY <2>2, <2>3
    <3> QED BY <3>1, TypeLemma DEF RunType
  <2> QED BY <2>1, <2>3
<1>2. UNCHANGED <<disk, backups, ships, receipt, readable, ours, kept, unsaid, runs, moves>>
  BY DEF Changed, Drifted, Quiet, Running
<1>3. TypeOK' /\ OneRun' /\ Fresh' /\ History' /\ Orphans' = Orphans
  BY <1>1, <1>2, PlaceStep DEF Live, History, Owned
<1>4. Work' /\ Looked' /\ Copied'
  BY <1>1, <1>3 DEF Work, Looked, Copied, Installing, Pruned, Looking
<1> QED BY <1>3, <1>4

LEMMA SameStep ==
    ASSUME IInv, Same PROVE IInv'
<1> USE DEF IInv
<1>1. /\ run' \in RunType /\ run'.pc = "copy" /\ run'.at = run.at /\ run'.todo = run.todo
      /\ run'.prior = run.prior /\ run'.plan = run.plan /\ run'.tools = run.tools
      /\ run'.done = run.done /\ run'.fresh = run.fresh /\ run'.pruned = run.pruned
      /\ run'.freed = run.freed /\ run.pc = "delete"
  BY TypeLemma DEF Same, RunType, Stages
<1>2. UNCHANGED <<disk, backups, ships, receipt, readable, ours, kept, unsaid, runs, moves>>
  BY DEF Same, Quiet, Running
<1>3. TypeOK' /\ OneRun' /\ Fresh' /\ History' /\ Orphans' = Orphans
  BY <1>1, <1>2, PlaceStep DEF Live, History, Owned
<1>4. Work' /\ Copied'
  BY <1>1, <1>3 DEF Work, Copied, Installing, Pruned, Looking
<1>5. Looked'
  BY <1>1, <1>2 DEF Looked, Looking, IsSafe, Same, Replaced
<1> QED BY <1>3, <1>4, <1>5

LEMMA CopyStep ==
    ASSUME IInv, Copy PROVE IInv'
<1> USE DEF IInv
<1>1. /\ run' \in RunType /\ run'.pc = "unlink" /\ run'.at = run.at /\ run'.todo = run.todo
      /\ run'.prior = run.prior /\ run'.plan = run.plan /\ run'.tools = run.tools
      /\ run'.done = run.done /\ run'.fresh = run.fresh /\ run'.pruned = run.pruned
      /\ run'.freed = run.freed /\ run'.touched = run.touched
      /\ run.pc = "copy" /\ run.at \in run.todo /\ run.at \in Paths
  BY TypeLemma DEF Copy, Work, Looking, RunType, Stages
<1>2. /\ UNCHANGED <<disk, ships, receipt, readable, ours, kept, unsaid, runs, moves>>
      /\ backups' = CopyIfThere
  BY DEF Copy, Running
<1>3. backups' \in [Paths -> Seq(Contents)] /\ (disk[run.at] = None \/ Saved(run.at)')
  BY <1>1, <1>2, BackUpLemma, TypeLemma DEF CopyIfThere, Saved
<1>4. TypeOK' BY <1>1, <1>2, <1>3, TypeLemma DEF TypeOK, RunType
<1>5. OneRun' /\ Work'
  BY <1>1, <1>2 DEF OneRun, Live, Work, Installing, Pruned, Looking, Orphans, InScope, Desired
<1>6. Looked' BY <1>1, <1>2 DEF Looked, IsSafe, Looking
<1>7. Copied' BY <1>1, <1>2, <1>3 DEF Copied, Saved
<1>8. Fresh' /\ History'
  BY <1>1, <1>2 DEF Fresh, Installed, History, Owned, OursIsOwned, Recorded, GivenUp, Declined
<1> QED BY <1>4, <1>5, <1>6, <1>7, <1>8

LEMMA UnlinkStep ==
    ASSUME IInv, Unlink PROVE IInv'
<1> USE DEF IInv
<1> DEFINE p == run.at
<1>1. p \in Paths /\ run.pc = "unlink"
  BY TypeLemma DEF Unlink, Work, Looking, RunType
<1>2. /\ run' \in RunType /\ run'.pc = "prune" /\ run'.todo = run.todo \ {p}
      /\ run'.prior = run.prior /\ run'.plan = run.plan /\ run'.tools = run.tools
      /\ run'.done = run.done /\ run'.fresh = run.fresh \ {p}
      /\ run'.pruned = run.pruned \cup {p} /\ run'.freed = run.freed
  <2>1. /\ Past \in RunType /\ Past.pc = "prune" /\ Past.todo = run.todo \ {p}
        /\ Past.prior = run.prior /\ Past.plan = run.plan /\ Past.tools = run.tools
        /\ Past.done = run.done /\ Past.fresh = run.fresh /\ Past.pruned = run.pruned
        /\ Past.freed = run.freed
    BY TypeLemma DEF Past, RunType, Stages
  <2>2. run' = [Past EXCEPT !.pruned = @ \cup {p}, !.fresh = @ \ {p}]
    BY DEF Unlink
  <2> QED BY <1>1, <2>1, <2>2 DEF RunType
<1>3. /\ UNCHANGED <<backups, ships, receipt, readable, kept, unsaid, runs, moves>>
      /\ disk' = [disk EXCEPT ![p] = None] /\ ours' = ours \ {p}
  BY DEF Unlink, Running
<1> HIDE DEF p
<1>4. TypeOK'
  BY <1>1, <1>2, <1>3, TypeLemma DEF TypeOK, RunType
<1>5. OneRun' /\ Work' /\ Looked' /\ Copied'
  BY <1>1, <1>2, <1>3 DEF OneRun, Live, Work, Looked, Copied, Installing, Pruned, Looking,
                          Orphans, InScope, Desired
<1>6. Fresh'
  BY <1>1, <1>2, <1>3, TypeLemma, ContentsAssumption DEF Fresh, Installed
<1>7. History'
  BY <1>1, <1>2, <1>3, TypeLemma DEF History, Owned, OursIsOwned, Recorded, GivenUp, Declined
<1> QED BY <1>4, <1>5, <1>6, <1>7

-----------------------------------------------------------------------------
(* The new receipt has what was installed with the bytes on the disk, the  *)
(* shipped ones for a file, and otherwise only entries it had before.      *)
LEMMA MergedLemma ==
    ASSUME IInv, run # Idle, readable
    PROVE  /\ Merged \in [Paths -> Entries \cup {None}]
           /\ \A p \in Installed : /\ Merged[p] # None /\ Merged[p].content = Digest(p)
                                   /\ p \notin Dirs => Digest(p) \in Versions
           /\ \A p \in Paths \ Installed :
                  Merged[p] = IF p \in run.pruned \cup GivenBack THEN None ELSE receipt[p]
<1> USE DEF IInv
<1>1. run.prior = receipt BY DEF OneRun, Live
<1>2. ASSUME NEW p \in Installed
      PROVE  /\ Merged[p] = [owner |-> run.plan[p].owner, content |-> Digest(p)]
             /\ Merged[p] \in Entries /\ Merged[p] # None /\ Merged[p].content = Digest(p)
             /\ p \notin Dirs => Digest(p) \in Versions
  <2>1. p \in Paths /\ run.plan[p] \in Offers
    BY TypeLemma DEF Installed, Work, RunType
  <2>2. Digest(p) \in Versions \cup Edits \cup {None} /\ (p \notin Dirs => Digest(p) \in Versions)
    BY <2>1, TypeLemma DEF Digest, Fresh, Contents, Offers
  <2>3. Merged[p] = [owner |-> run.plan[p].owner, content |-> Digest(p)]
    BY <2>1 DEF Merged
  <2>4. Merged[p] \in Entries BY <2>1, <2>2, <2>3 DEF Entries, Offers
  <2> QED BY <2>2, <2>3, <2>4, ContentsAssumption DEF Entries, Owners
<1>3. \A p \in Paths \ Installed :
          Merged[p] = IF p \in run.pruned \cup GivenBack THEN None ELSE receipt[p]
  BY <1>1 DEF Merged
<1>4. Merged \in [Paths -> Entries \cup {None}]
  <2>1. \A p \in Paths : Merged[p] \in Entries \cup {None}
    BY <1>2, <1>3, TypeLemma
  <2> QED BY <2>1 DEF Merged
<1> QED BY <1>2, <1>3, <1>4

LEMMA RecordStep ==
    ASSUME IInv, Record PROVE IInv'
<1> USE DEF IInv
<1>1. run # Idle /\ run' = Idle /\ Live
  BY IdleLemma DEF Record, Complete, Live
<1>2. UNCHANGED <<disk, backups, ships, readable, runs, moves>>
  BY DEF Record, Running
<1>3. OneRun' /\ Work' /\ Looked' /\ Copied' /\ Installed' = {} /\ Declined' = {}
  BY <1>1, IdleStep
<1>4. run'.fresh = {} /\ run'.pruned = {} /\ run'.freed = {}
  BY <1>1 DEF Idle
<1>5. Fresh' BY <1>3, <1>4 DEF Fresh
<1>6. CASE ~readable
  <2>1. receipt' = receipt /\ ours' = ours /\ kept' = kept /\ unsaid' = unsaid
    BY <1>6 DEF Record
  <2>2. TypeOK' BY <1>1, <1>2, <2>1, TypeLemma, IdleLemma DEF TypeOK, RunType
  <2>3. History'
    BY <1>2, <1>3, <1>4, <1>6, <2>1 DEF History, Owned, OursIsOwned, Recorded, GivenUp
  <2> QED BY <1>3, <1>5, <2>2, <2>3
<1>7. CASE readable
  <2>1. /\ receipt' = Merged /\ ours' = ours \cup run.fresh
        /\ kept' = kept \ Installed /\ unsaid' = unsaid \ (Installed \cup Declined)
    BY <1>7 DEF Record
  <2>2. /\ Merged \in [Paths -> Entries \cup {None}]
        /\ \A p \in Installed : /\ Merged[p] # None /\ Merged[p].content = Digest(p)
                                /\ p \notin Dirs => Digest(p) \in Versions
        /\ \A p \in Paths \ Installed :
               Merged[p] = IF p \in run.pruned \cup GivenBack THEN None ELSE receipt[p]
    BY <1>1, <1>7, MergedLemma
  <2>3. ours' \subseteq Paths /\ kept' \subseteq Paths /\ unsaid' \subseteq Paths
    BY <2>1, TypeLemma DEF Fresh, Installed
  <2>4. TypeOK'
    BY <1>1, <1>2, <2>1, <2>2, <2>3, TypeLemma, IdleLemma DEF TypeOK, RunType
  <2>5. \A p \in run.fresh : /\ p \in Installed /\ Digest(p) = disk[p]
                             /\ disk[p] \in Versions
    BY TypeLemma DEF Fresh, Digest, Installed, Work, RunType, Offers
  <2>6. Owned'
    BY <1>2, <1>4, <2>1, <2>5 DEF History, Owned
  <2>7. ASSUME NEW p \in ours'
        PROVE  IF Merged[p] = None THEN p \in kept' ELSE Merged[p].content = disk[p]
    <3>1. CASE p \in run.fresh BY <3>1, <2>2, <2>5
    <3>2. CASE p \notin run.fresh
      <4>1. p \in ours /\ p \in Paths /\ p \notin Installed
        BY <3>2, <2>1, <2>7, TypeLemma DEF Fresh
      <4>2. IF receipt[p] = None THEN p \in kept ELSE receipt[p].content = disk[p]
        BY <4>1, <1>7 DEF History, OursIsOwned
      <4>3. CASE p \in Declined
        <5>1. p \in kept' BY <4>1, <4>3, <2>1 DEF History, GivenUp
        <5> QED BY <5>1, <4>1, <4>2, <2>2
      <4>4. CASE p \notin Declined
        <5>1. p \notin run.pruned \cup GivenBack
          BY <4>1, <4>4 DEF History, Owned, GivenBack
        <5> QED BY <5>1, <4>1, <4>2, <2>1, <2>2
      <4> QED BY <4>3, <4>4
    <3> QED BY <3>1, <3>2
  <2>8. OursIsOwned' BY <2>7, <2>1, <1>2 DEF OursIsOwned
  <2>9. Recorded' BY <2>1, <2>2 DEF History, Recorded
  <2>10. GivenUp'
    <3>1. ASSUME NEW p \in kept' \ unsaid' PROVE Merged[p] = None
      <4>1. p \in kept /\ p \in Paths \ Installed BY <2>1, <2>3
      <4>2. CASE p \in Declined
        BY <4>1, <4>2, <2>2, <1>1, <1>7 DEF GivenBack, OneRun
      <4>3. CASE p \notin Declined
        <5>1. receipt[p] = None BY <4>1, <4>3, <2>1, <1>7 DEF History, GivenUp
        <5> QED BY <5>1, <4>1, <2>2
      <4> QED BY <4>2, <4>3
    <3> QED BY <3>1, <2>1, <1>3 DEF GivenUp
  <2> QED BY <1>3, <1>5, <2>4, <2>6, <2>8, <2>9, <2>10 DEF History
<1> QED BY <1>6, <1>7

LEMMA DeadStep ==
    ASSUME IInv, NEW left \in {Torn, None}, Die \/ DieWriting(left) PROVE IInv'
<1> USE DEF IInv
<1>1. /\ run' = Idle /\ unsaid' = unsaid \cup Declined
      /\ UNCHANGED <<backups, ships, receipt, readable, kept, runs, moves>>
  BY DEF Die, DieWriting, Dead, Running
<1>2. \/ UNCHANGED <<disk, ours>>
      \/ disk' = [disk EXCEPT ![run.at] = left] /\ ours' = ours \ {run.at}
  BY DEF Die, DieWriting
<1>3. TypeOK'
  <2>1. disk' \in [Paths -> Contents \cup {None}] /\ ours' \subseteq Paths
    BY <1>2, TypeLemma DEF Contents
  <2>2. unsaid' \subseteq Paths BY <1>1, TypeLemma DEF Declined
  <2> QED BY <1>1, <2>1, <2>2, IdleLemma, TypeLemma DEF TypeOK, RunType
<1>4. OneRun' /\ Work' /\ Looked' /\ Copied' /\ Installed' = {} /\ Declined' = {}
  BY <1>1, IdleStep
<1>5. run'.fresh = {} /\ run'.pruned = {} /\ run'.freed = {}
  BY <1>1 DEF Idle
<1>6. \A p \in ours' : p \in ours /\ disk'[p] = disk[p]
  BY <1>2, TypeLemma
<1>7. Fresh' BY <1>4, <1>5 DEF Fresh
<1>8. History'
  BY <1>1, <1>4, <1>5, <1>6 DEF History, Owned, OursIsOwned, Recorded, GivenUp
<1> QED BY <1>3, <1>4, <1>7, <1>8

-----------------------------------------------------------------------------
LEMMA NextStep ==
    ASSUME IInv, [Next]_vars PROVE IInv'
<1>1. CASE Outside
  BY <1>1, EditStep, ShipStep, DamageStep DEF Outside
<1>2. CASE \E prune, only \in BOOLEAN, tools \in SUBSET Tools :
               (only => prune) /\ Begin(prune, only, tools)
  BY <1>2, BeginStep
<1>3. CASE Sync
  BY <1>3, UpToDateStep, AbsentAskStep, DeclineStep, AcceptStep, WriteStep DEF Sync
<1>4. CASE Prune
  BY <1>4, ScanStep, ConfirmStep, RecheckStep, PassStep, SameStep, CopyStep, UnlinkStep DEF Prune
<1>5. CASE Record \/ Die \/ \E left \in {Torn, None} : DieWriting(left)
  BY <1>5, RecordStep, DeadStep
<1>6. CASE UNCHANGED vars
  <2>1. TypeOK' BY <1>6 DEF IInv, TypeOK, vars
  <2>2. OneRun' /\ Work' /\ Looked' /\ Copied'
    BY <1>6 DEF vars, IInv, OneRun, Live, Work, Orphans, InScope, Desired, Looked, IsSafe, Copied,
                Saved
  <2>3. Fresh' /\ History'
    BY <1>6 DEF vars, IInv, Fresh, Installed, History, Owned, OursIsOwned, Recorded, GivenUp,
                Declined
  <2> QED BY <2>1, <2>2, <2>3 DEF IInv
<1> QED BY <1>1, <1>2, <1>3, <1>4, <1>5, <1>6 DEF Next

(* The inductive invariant holds.                                          *)
THEOREM Invariance == Spec => []IInv
<1>1. IInv /\ [Next]_vars => IInv' BY NextStep
<1> QED BY InitStep, <1>1, PTL DEF Spec

(* Every variable holds a value of its kind.                               *)
THEOREM Typed == Spec => []TypeOK
<1>1. IInv => TypeOK BY DEF IInv
<1> QED BY Invariance, <1>1, PTL

(* What a completed run installed, and no one has touched since, is in the *)
(* readable receipt with the bytes it has; only a declined overwrite can   *)
(* have taken its entry away.                                              *)
THEOREM ReceiptOwns == Spec => []OursIsOwned
<1>1. IInv => OursIsOwned BY DEF IInv, History
<1> QED BY Invariance, <1>1, PTL

LEMMA OutsideMoves == ASSUME TypeOK, Outside PROVE moves' # moves
<1>1. Move BY DEF Outside, Edit, Ship, Damage, Reset
<1> QED BY <1>1, TypeLemma, BoundsAssumption DEF Move

(* A step of the run that changes a path with content only the user has    *)
(* written finds that content in the path's backups, unless it was touched *)
(* since it was copied or found absent.                                    *)
THEOREM BackedUpFirst == Spec => UserWorkKept
<1>1. ASSUME IInv, [Next]_vars
      PROVE  [\A p \in Paths :
                 disk[p] \in Edits /\ disk'[p] # disk[p] /\ moves' = moves =>
                     \/ \E n \in DOMAIN backups'[p] : backups'[p][n] = disk[p]
                     \/ run.at = p /\ run.late]_vars
  <2> SUFFICES ASSUME Next, NEW p \in Paths,
                      disk[p] \in Edits, disk'[p] # disk[p], moves' = moves
               PROVE  \/ \E n \in DOMAIN backups'[p] : backups'[p][n] = disk[p]
                      \/ run.at = p /\ run.late
    BY <1>1
  <2>1. TypeOK /\ Copied /\ disk[p] # None BY <1>1, ContentsAssumption DEF IInv
  <2>2. ASSUME p = run.at, run.pc \in {"create", "write", "unlink"}, backups' = backups
        PROVE  \/ \E n \in DOMAIN backups'[p] : backups'[p][n] = disk[p]
               \/ run.at = p /\ run.late
    BY <2>1, <2>2 DEF Copied, Saved
  <2>3. ~Outside
    BY <2>1, OutsideMoves
  <2>4. CASE \E prune, only \in BOOLEAN, tools \in SUBSET Tools :
                 (only => prune) /\ Begin(prune, only, tools)
    BY <2>4 DEF Begin
  <2>5. CASE Sync
    <3>1. \A q \in Paths : ~UpToDate(q) /\ ~Absent(q) /\ ~Ask(q)
      BY DEF UpToDate, Absent, Ask, Quiet
    <3>2. ~Decline /\ ~Accept BY DEF Decline, Accept
    <3>3. Write BY <2>5, <3>1, <3>2 DEF Sync
    <3>4. p = run.at BY <3>3, <2>1, TypeLemma DEF Write
    <3> QED BY <3>3, <3>4, <2>2 DEF Write, Writing
  <2>6. CASE Prune
    <3>1. Unlink BY <2>6 DEF Prune, Scan, Changed, Same, Copy, Confirm, Recheck, Drifted, Quiet
    <3>2. p = run.at BY <3>1, <2>1, TypeLemma DEF Unlink
    <3> QED BY <3>1, <3>2, <2>2 DEF Unlink
  <2>7. CASE Record \/ Die
    BY <2>7 DEF Record, Die
  <2>8. ASSUME NEW left \in {Torn, None}, DieWriting(left)
        PROVE  \/ \E n \in DOMAIN backups'[p] : backups'[p][n] = disk[p]
               \/ run.at = p /\ run.late
    <3>1. p = run.at BY <2>8, <2>1, TypeLemma DEF DieWriting
    <3> QED BY <2>8, <3>1, <2>2 DEF DieWriting, Writing
  <2> QED BY <2>3, <2>4, <2>5, <2>6, <2>7, <2>8 DEF Next
<1> QED BY Invariance, <1>1, PTL DEF Spec, UserWorkKept

(* What is pruned is an orphan of the run; a file nobody has touched since *)
(* its identity was read the second time has the recorded bytes.           *)
LEMMA DeletesSafe ==
    ASSUME IInv, [Next]_vars, NEW p \in Paths, Deletes(p)
    PROVE  /\ p = run.at /\ p \in Orphans /\ run.prior = receipt /\ readable
           /\ p \notin Dirs /\ ~run.touched => disk[p] = receipt[p].content
<1> USE DEF IInv
<1>1. /\ run.pc = "unlink" /\ run'.pc = "prune" /\ disk[p] # disk'[p]
      /\ disk[p] # None /\ disk'[p] = None
  BY DEF Deletes
<1>2. Next /\ run # Idle /\ run' # Idle BY <1>1 DEF vars, Idle
<1>3. ~Outside
  <2>1. \A q \in Paths, c \in Edits \cup {None} : ~Edit(q, c)
    BY <1>1, TypeLemma DEF Edit, RunType
  <2> QED BY <1>2, <2>1 DEF Outside, Ship, Damage, Reset
<1>4. ~Sync
  BY <1>1 DEF Sync, UpToDate, Absent, Ask, Decline, Accept, Write, Writing, Syncing
<1>5. ~\E prune, only \in BOOLEAN, tools \in SUBSET Tools :
          (only => prune) /\ Begin(prune, only, tools)
  BY <1>2 DEF Begin
<1>6. ~Record /\ ~Die /\ ~\E left \in {Torn, None} : DieWriting(left)
  BY <1>2 DEF Record, Die, DieWriting, Dead
<1>7. Unlink
  BY <1>1, <1>2, <1>3, <1>4, <1>5, <1>6
     DEF Next, Prune, Scan, Changed, Same, Copy, Confirm, Recheck, Drifted, Quiet
<1>8. p = run.at BY <1>1, <1>7, TypeLemma DEF Unlink
<1>9. p \in Orphans BY <1>1, <1>8 DEF Work, Pruned, Looking
<1>10. run.prior = receipt /\ readable
  BY <1>1, <1>9 DEF OneRun, Live, Orphans, Nothing
<1>11. ASSUME p \notin Dirs, ~run.touched PROVE disk[p] = receipt[p].content
  BY <1>11, <1>1, <1>8, <1>10 DEF Looked, Looking, IsSafe
<1> QED BY <1>8, <1>9, <1>10, <1>11

(* No file with bytes the user wrote is pruned, unless they wrote them     *)
(* after its identity was read the second time.                            *)
THEOREM EditsSpared == Spec => PruneSparesEdits
<1>1. ASSUME IInv, [Next]_vars
      PROVE  [\A p \in Paths \ Dirs : Deletes(p) => disk[p] \notin Edits \/ run.touched]_vars
  <2> SUFFICES ASSUME NEW p \in Paths \ Dirs, Deletes(p), ~run.touched PROVE disk[p] \notin Edits
    OBVIOUS
  <2>1. disk[p] = receipt[p].content /\ receipt[p] # None
    BY <1>1, DeletesSafe DEF Orphans
  <2> QED BY <1>1, <2>1, ContentsAssumption DEF IInv, History, Recorded
<1> QED BY Invariance, <1>1, PTL DEF Spec, PruneSparesEdits

(* What the user declined to have overwritten is in no receipt, and so is  *)
(* no orphan, but for the entry of another owner in the very run, and for  *)
(* what a run that died left.                                              *)
THEOREM DeclinedSpared == Spec => DeclinedIsKept
<1>1. ASSUME IInv, [Next]_vars
      PROVE  [\A p \in kept :
                 Deletes(p) => HandedOver(p) \/ p \in unsaid]_vars
  <2> SUFFICES ASSUME NEW p \in kept, Deletes(p), p \notin unsaid
               PROVE  HandedOver(p)
    OBVIOUS
  <2>1. p \in Paths BY <1>1, TypeLemma DEF IInv
  <2>2. p \in Orphans /\ run.prior = receipt /\ readable
    BY <1>1, <2>1, DeletesSafe
  <2>3. p \in Declined
    BY <1>1, <2>2 DEF IInv, History, GivenUp, Orphans
  <2>4. run.plan[p] # None
    BY <1>1, <2>1, <2>3 DEF IInv, Work, Declined
  <2> QED BY <2>2, <2>3, <2>4 DEF Orphans, Desired, HandedOver
<1> QED BY Invariance, <1>1, PTL DEF Spec, DeclinedIsKept
=============================================================================
