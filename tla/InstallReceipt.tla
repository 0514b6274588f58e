--------------------------- MODULE InstallReceipt ---------------------------
(***************************************************************************)
(* The installer's runs over one home or project, and the receipt that     *)
(* tells them apart from the user (packages/installer): sync.py writes     *)
(* what the checkout ships, prune_flow.py takes away what it no longer     *)
(* ships, record_receipt says what is installed.  Between any two steps    *)
(* the user edits or deletes a file, and the run may die.                  *)
(*                                                                         *)
(* A path is one that is installed whole: a file, or a directory as one    *)
(* unit.  settings.json and instruction files, which are merged and never  *)
(* pruned, the CLIs, modes, roots and dry runs are left out.  A path is    *)
(* shipped by one owner at a time, and the checkout stands still while a   *)
(* run is going.                                                           *)
(***************************************************************************)
EXTENDS Integers, Sequences, FiniteSets

CONSTANTS Paths,      \* paths an owner may ship
          Dirs,       \* the directories among them
          Tools,      \* owners a run may leave out (--tools)
          Plugins,    \* owners every run looks at: plugins and kits
          Versions,   \* what is shipped
          Edits,      \* what only the user writes
          Torn,       \* what a dying process leaves of a write
          None,       \* nothing there
          Retention,  \* how many backups of a path are kept
          MaxRuns,    \* bound: runs
          MaxMoves    \* bound: moves of the user and of the repository

ASSUME ContentsAssumption ==
    /\ Dirs \subseteq Paths /\ Tools \cap Plugins = {}
    /\ Versions \cap Edits = {} /\ Torn \notin Versions \cup Edits
    /\ None \notin Versions \cup Edits \cup {Torn}
    /\ None \notin [owner : Tools \cup Plugins, content : Versions \cup Edits \cup {None}]
    /\ None \notin Paths
ASSUME BoundsAssumption == Retention \in Nat \ {0} /\ MaxRuns \in Nat /\ MaxMoves \in Nat

VARIABLES disk,      \* what is at each path
          backups,   \* and the copies made of it, newest first
          ships,     \* what the checkout ships there, and for whom
          receipt,   \* the entry of each path
          readable,  \* the receipt parses and its digest holds
          run,       \* the run that has the lock
          ours,      \* history: recorded by a run as it was put there, untouched since
          kept,      \* history: the user declined to have it overwritten
          unsaid,    \* history: in a run that died before it recorded that
          runs, moves

vars == <<disk, backups, ships, receipt, readable, run, ours, kept, unsaid, runs, moves>>

Owners   == Tools \cup Plugins
Contents == Versions \cup Edits \cup {Torn}
Offers   == [owner : Owners, content : Versions]
Entries  == [owner : Owners, content : Versions \cup Edits \cup {None}]
Nothing  == [p \in Paths |-> None]
Outcomes == {"none", "same", "written", "declined"}

Idle == [pc |-> "idle", prune |-> FALSE, tools |-> {}, prior |-> Nothing, plan |-> Nothing,
         todo |-> {}, at |-> None, touched |-> FALSE, late |-> FALSE,
         done |-> [p \in Paths |-> "none"], fresh |-> {}, pruned |-> {}, freed |-> {}]

(* Plugins and kits ship files only.                                       *)
DirsOfTools(offered) == \A p \in Dirs : offered[p] # None => offered[p].owner \in Tools

Init ==
    /\ disk \in [Paths -> Edits \cup {None}]
    /\ ships \in [Paths -> Offers \cup {None}] /\ DirsOfTools(ships)
    /\ backups = [p \in Paths |-> <<>>] /\ receipt = Nothing /\ readable = TRUE
    /\ run = Idle /\ ours = {} /\ kept = {} /\ unsaid = {} /\ runs = 0 /\ moves = 0

-----------------------------------------------------------------------------
(* The user, and the repository the checkout follows.                      *)
Move == /\ moves < MaxMoves /\ moves' = moves + 1
        /\ UNCHANGED <<backups, kept, unsaid, runs>>

(* touched: since a prune last looked at the path; late: since it was      *)
(* copied, or found absent.                                                *)
Edit(p, c) ==
    /\ Move /\ disk[p] # c
    /\ disk' = [disk EXCEPT ![p] = c]
    /\ ours' = ours \ {p}
    /\ run' = [run EXCEPT
                 !.touched = @ \/ (run.at = p /\ run.pc \in {"delete", "copy", "unlink"}),
                 !.late    = @ \/ (run.at = p /\ run.pc \in {"create", "write", "unlink"}),
                 !.fresh   = @ \ {p}]
    /\ UNCHANGED <<ships, receipt, readable>>

Ship(p, offer) ==
    /\ Move /\ run = Idle /\ ships[p] # offer
    /\ ships' = [ships EXCEPT ![p] = offer] /\ DirsOfTools(ships')
    /\ UNCHANGED <<disk, receipt, readable, run, ours>>

(* The receipt is damaged; the user removes it to start afresh, and takes  *)
(* back all it recorded.                                                   *)
Damage ==
    /\ Move /\ run = Idle /\ readable
    /\ readable' = FALSE
    /\ UNCHANGED <<disk, ships, receipt, run, ours>>

Reset ==
    /\ Move /\ run = Idle /\ ~readable
    /\ readable' = TRUE /\ receipt' = Nothing /\ ours' = {}
    /\ UNCHANGED <<disk, ships, run>>

-----------------------------------------------------------------------------
(* A run, under the lock.                                                  *)
Running == UNCHANGED <<ships, readable, runs, moves>>

InScope(o) == o \in run.tools \cup Plugins

Begin(prune, only, tools) ==
    LET plan == [p \in Paths |-> IF ships[p] # None /\ ships[p].owner \in tools \cup Plugins
                                 THEN ships[p] ELSE None]
    IN  /\ run = Idle /\ runs < MaxRuns /\ runs' = runs + 1
        /\ run' = [Idle EXCEPT !.pc = "sync", !.prune = prune, !.tools = tools, !.plan = plan,
                               !.prior = IF readable THEN receipt ELSE Nothing,
                               !.todo = IF only THEN {} ELSE {p \in Paths : plan[p] # None}]
        /\ UNCHANGED <<disk, backups, ships, receipt, readable, ours, kept, unsaid, moves>>

Syncing(p) == run.pc = "sync" /\ p \in run.todo

(* One item is through; o is its outcome.                                  *)
Through(p, o) == [run EXCEPT !.pc = "sync", !.at = None, !.late = FALSE, !.todo = @ \ {p},
                             !.done[p] = o,
                             !.fresh = IF o = "declined" THEN @ ELSE @ \cup {p}]

(* Mutant: the oldest copies are kept.                                     *)
RetainedOldest(s) == SubSeq(s, IF Len(s) < Retention THEN 1 ELSE Len(s) - Retention + 1, Len(s))

(* back_up copies what is there now and keeps the newest copies.           *)
Retained(s) == SubSeq(s, 1, IF Len(s) < Retention THEN Len(s) ELSE Retention)
BackUp(p)   == [backups EXCEPT ![p] = Retained(<<disk[p]>> \o @)]

(* What a step leaves alone that touches neither disk nor history.         *)
Quiet == Running /\ UNCHANGED <<disk, backups, receipt, ours, kept, unsaid>>

UpToDate(p) ==
    /\ Syncing(p) /\ disk[p] = run.plan[p].content
    /\ run' = Through(p, "same")
    /\ Quiet

Absent(p) ==
    /\ Syncing(p) /\ disk[p] = None
    /\ run' = [run EXCEPT !.pc = "create", !.at = p]
    /\ Quiet

Ask(p) ==
    /\ Syncing(p) /\ disk[p] \notin {None, run.plan[p].content}
    /\ run' = [run EXCEPT !.pc = "ask", !.at = p]
    /\ Quiet

Decline ==
    /\ run.pc = "ask" /\ run' = Through(run.at, "declined")
    /\ kept' = kept \cup {run.at}
    /\ Running /\ UNCHANGED <<disk, backups, receipt, ours, unsaid>>

(* The user agrees, or is not asked under --yes; back_up raises for what   *)
(* went away meanwhile.                                                    *)
Accept ==
    /\ run.pc = "ask" /\ disk[run.at] # None
    /\ backups' = BackUp(run.at)
    /\ run' = [run EXCEPT !.pc = "write"]
    /\ Running /\ UNCHANGED <<disk, receipt, ours, kept, unsaid>>

(* A file is written over whatever is there; of a directory, rmtree wants  *)
(* the one that was found and copytree wants none.                         *)
Writing == /\ run.pc \in {"create", "write"}
           /\ run.at \in Dirs => (disk[run.at] # None <=> run.pc = "write")

Write ==
    /\ Writing
    /\ disk' = [disk EXCEPT ![run.at] = run.plan[run.at].content]
    /\ ours' = ours \ {run.at}
    /\ run' = Through(run.at, "written")
    /\ Running /\ UNCHANGED <<backups, receipt, kept, unsaid>>

-----------------------------------------------------------------------------
(* Prune: what the receipt has, whose owner this run looks at and ships    *)
(* nothing there, and whose bytes are the recorded ones, or gone.          *)
Desired(o, p) == run.plan[p] # None /\ run.plan[p].owner = o
Orphans == {p \in Paths : /\ run.prior[p] # None /\ InScope(run.prior[p].owner)
                          /\ ~Desired(run.prior[p].owner, p)}
IsSafe(p) == disk[p] = None \/ disk[p] = run.prior[p].content

Scan ==
    /\ run.pc = "sync" /\ run.todo = {} /\ run.prune /\ readable
    /\ run' = [run EXCEPT !.pc = "confirm", !.todo = {p \in Orphans : IsSafe(p)},
                          !.freed = {p \in Orphans : ~IsSafe(p)}]
    /\ Quiet

(* All, some, or none; not asked under --yes.                              *)
Confirm(chosen) ==
    /\ run.pc = "confirm" /\ chosen \subseteq run.todo
    /\ run' = [run EXCEPT !.pc = "prune", !.todo = chosen]
    /\ Quiet

Pruning(p) == run.pc = "prune" /\ p \in run.todo

(* Mutant: only the scan looks at the bytes.                               *)
RecheckBlind(p) ==
    /\ Pruning(p)
    /\ run' = [run EXCEPT !.pc = "delete", !.at = p, !.touched = FALSE]
    /\ Quiet

(* The path's identity is noted, and its bytes are looked at once more.    *)
Recheck(p) ==
    /\ Pruning(p) /\ IsSafe(p)
    /\ run' = [run EXCEPT !.pc = "delete", !.at = p, !.touched = FALSE]
    /\ Quiet

Drifted(p) ==
    /\ Pruning(p) /\ ~IsSafe(p)
    /\ run' = [run EXCEPT !.todo = @ \ {p}]
    /\ Quiet

(* Its identity is read again: a directory may have been edited inside and *)
(* have kept its own.                                                      *)
Replaced == run.touched /\ disk[run.at] # None

Past == [run EXCEPT !.pc = "prune", !.at = None, !.touched = FALSE, !.late = FALSE,
                    !.todo = @ \ {run.at}]

Changed ==
    /\ run.pc = "delete" /\ Replaced
    /\ run' = Past
    /\ Quiet

Same ==
    /\ run.pc = "delete" /\ (~Replaced \/ run.at \in Dirs)
    /\ run' = [run EXCEPT !.pc = "copy", !.touched = FALSE]
    /\ Quiet

(* Mutant: what is gone is backed up too.                                  *)
CopyAlways == BackUp(run.at)

CopyIfThere == IF disk[run.at] = None THEN backups ELSE BackUp(run.at)

Copy ==
    /\ run.pc = "copy"
    /\ backups' = CopyIfThere
    /\ run' = [run EXCEPT !.pc = "unlink"]
    /\ Running /\ UNCHANGED <<disk, receipt, ours, kept, unsaid>>

(* What is there now goes, which may be more than what was looked at.      *)
Unlink ==
    /\ run.pc = "unlink"
    /\ disk' = [disk EXCEPT ![run.at] = None]
    /\ ours' = ours \ {run.at}
    /\ run' = [Past EXCEPT !.pruned = @ \cup {run.at}, !.fresh = @ \ {run.at}]
    /\ Running /\ UNCHANGED <<backups, receipt, kept, unsaid>>

-----------------------------------------------------------------------------
(* The receipt of the run: what it installed, and of the prior entries     *)
(* those neither pruned nor given back.  A directory's digest is taken     *)
(* here, a file's when it was written.                                     *)
Installed == {p \in Paths : run.done[p] \in {"same", "written"}}
Declined  == {p \in Paths : run.done[p] = "declined"}
(* Mutant: a declined overwrite gives nothing back.                        *)
FreedOnly == run.freed

GivenBack == run.freed \cup {p \in Declined : run.prior[p] # None}
Digest(p) == IF p \in Dirs THEN disk[p] ELSE run.plan[p].content

(* Mutant: the receipt is what this run installed.                         *)
InstalledOnly ==
    [p \in Paths |->
        IF p \in Installed THEN [owner |-> run.plan[p].owner, content |-> Digest(p)] ELSE None]

Merged ==
    [p \in Paths |->
        IF p \in Installed THEN [owner |-> run.plan[p].owner, content |-> Digest(p)]
        ELSE IF p \in run.pruned \cup GivenBack THEN None
        ELSE run.prior[p]]

Complete ==
    \/ run.pc = "sync" /\ run.todo = {} /\ ~(run.prune /\ readable)
    \/ run.pc = "prune" /\ run.todo = {}

Record ==
    /\ Complete /\ run' = Idle
    /\ IF readable
       THEN /\ receipt' = Merged
            /\ ours' = ours \cup run.fresh
            /\ kept' = kept \ Installed /\ unsaid' = unsaid \ (Installed \cup Declined)
       ELSE UNCHANGED <<receipt, ours, kept, unsaid>>
    /\ Running /\ UNCHANGED <<disk, backups>>

(* The run dies between two steps, or an exception nobody catches ends it. *)
Dead == run' = Idle /\ unsaid' = unsaid \cup Declined

Die ==
    /\ run # Idle /\ Dead
    /\ Running /\ UNCHANGED <<disk, backups, receipt, ours, kept>>

(* It dies in the middle of a write, or of an rmtree: the one before a     *)
(* copytree may have left nothing.                                         *)
DieWriting(left) ==
    /\ \/ Writing /\ left \in {Torn} \cup (IF run.at \in Dirs THEN {None} ELSE {})
       \/ run.pc = "unlink" /\ run.at \in Dirs /\ disk[run.at] # None /\ left = Torn
    /\ disk' = [disk EXCEPT ![run.at] = left]
    /\ ours' = ours \ {run.at}
    /\ Dead /\ Running /\ UNCHANGED <<backups, receipt, kept>>

-----------------------------------------------------------------------------
Outside ==
    \/ \E p \in Paths, c \in Edits \cup {None} : Edit(p, c)
    \/ \E p \in Paths, offer \in Offers \cup {None} : Ship(p, offer)
    \/ Damage \/ Reset

Sync == \/ \E p \in Paths : UpToDate(p) \/ Absent(p) \/ Ask(p)
        \/ Decline \/ Accept \/ Write

Prune == \/ Scan \/ Changed \/ Same \/ Copy \/ Unlink
         \/ \E chosen \in SUBSET Paths : Confirm(chosen)
         \/ \E p \in Paths : Recheck(p) \/ Drifted(p)

Next ==
    \/ Outside
    \/ \E prune, only \in BOOLEAN, tools \in SUBSET Tools :
           (only => prune) /\ Begin(prune, only, tools)
    \/ Sync \/ Prune \/ Record
    \/ Die \/ \E left \in {Torn, None} : DieWriting(left)

Spec == Init /\ [][Next]_vars

-----------------------------------------------------------------------------
(* Properties *)

Stages == {"idle", "sync", "create", "ask", "write",
           "confirm", "prune", "delete", "copy", "unlink"}

\* Types: every variable holds a value of its kind.
TypeOK ==
    /\ disk \in [Paths -> Contents \cup {None}]
    /\ backups \in [Paths -> Seq(Contents)]
    /\ ships \in [Paths -> Offers \cup {None}]
    /\ receipt \in [Paths -> Entries \cup {None}]
    /\ readable \in BOOLEAN
    /\ run \in [pc : Stages, prune : BOOLEAN, tools : SUBSET Tools,
                prior : [Paths -> Entries \cup {None}], plan : [Paths -> Offers \cup {None}],
                todo : SUBSET Paths, at : Paths \cup {None}, touched : BOOLEAN, late : BOOLEAN,
                done : [Paths -> Outcomes], fresh : SUBSET Paths, pruned : SUBSET Paths,
                freed : SUBSET Paths]
    /\ ours \subseteq Paths /\ kept \subseteq Paths /\ unsaid \subseteq Paths
    /\ runs \in 0 .. MaxRuns /\ moves \in 0 .. MaxMoves

Deletes(p) == run.pc = "unlink" /\ disk[p] # None /\ disk'[p] = None /\ run'.pc = "prune"

\* Whatever a run takes off the disk that only the user has written is in the
\* newest backups of its path, edits made while a prompt was open included.
\* What is excepted is an edit made after the path was copied (or, where it is
\* created, after it was found absent) and before it is written or removed:
\* the window prune_flow.py concedes as irreducible, which sync.py has too.
UserWorkKept ==
    [][\A p \in Paths :
        disk[p] \in Edits /\ disk'[p] # disk[p] /\ moves' = moves =>
            \/ \E n \in DOMAIN backups'[p] : backups'[p][n] = disk[p]
            \/ run.at = p /\ run.late]_vars

\* No file the user has edited is pruned: not when the edit was made before
\* the scan, nor while the prompt was open, nor while the bytes were looked at
\* once more.  Nothing is claimed of an edit made after the identity was read
\* the second time, which the copy and the unlink that follow do not see; nor
\* of a directory, whose digest is taken when the receipt is written, with
\* the edits made since it was installed.
PruneSparesEdits ==
    [][\A p \in Paths \ Dirs : Deletes(p) => disk[p] \notin Edits \/ run.touched]_vars

\* What a completed run installed and no one, user or later run, has touched
\* since is in the receipt with the bytes it has, whatever other runs left
\* out, pruned, or died of.  It loses its entry in one way only, and is litter
\* from then on: the user declined to have it overwritten, and the run drops
\* the entry though the bytes are the installer's own.  Nothing is claimed
\* while the receipt is damaged, nor of what it recorded once the user has
\* removed it.
OursIsOwned ==
    readable =>
        \A p \in ours : IF receipt[p] = None THEN p \in kept
                                             ELSE receipt[p].content = disk[p]

HandedOver(p) == p \in Declined /\ run.prior[p].owner # run.plan[p].owner

\* What the user declined to have overwritten is not pruned, by that run or a
\* later one, though it may be the very bytes an earlier run installed and
\* recorded, until a later run has installed it again.  There are two
\* exceptions.  The path has passed to another owner, and the user declines
\* what the new one ships: the entry of the old one is an orphan of the same
\* run, whose prune does not look at what was declined.  And the run in which
\* the user declined died before it recorded that: the entry is still there.
DeclinedIsKept ==
    [][\A p \in kept :
        Deletes(p) => HandedOver(p) \/ p \in unsaid]_vars
=============================================================================
