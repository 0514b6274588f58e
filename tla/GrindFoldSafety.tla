--------------------------- MODULE GrindFoldSafety ---------------------------
(***************************************************************************)
(* The safety of GrindFold's items, for every value of the constants.      *)
(* BlockedHasCause and AttemptsHeld are not inductive: they need to *)
(* know that an edge once resolved stays resolved and that a PR once       *)
(* merged is closed.  Settled says so, and the three are proved together.  *)
(***************************************************************************)
EXTENDS GrindFoldProofs

\* A merged item is in play with a PR that is not open, and before the seed
\* there are no items.
Settled ==
    /\ phase = "new" => \A i \in Items : item[i].status = None
    /\ \A i \in Items :
           item[i].status \in Terminal => item[i].parked = None /\ ~HoldsOpenPr(i)

\* A count is held against a PR that is open, or was merged with it.
AttemptsHeld ==
    \A i \in Items, k \in Kinds :
        item[i].attempts[k] > 0 => HoldsOpenPr(i) \/ item[i].status \in Terminal

Safe == Settled /\ BlockedHasCause /\ AttemptsHeld

\* An event that changes one item, which is not merged before or after it,
\* resolves and opens no edge of any other.
LEMMA EdgesKept ==
    ASSUME TypeOK, TypeOK', NEW i \in Items, Only(i),
           item[i].status \notin Terminal, item'[i].status \notin Terminal,
           NEW j \in Items, item'[j].blocked_on = item[j].blocked_on
    PROVE  Unresolved(item', j) = Unresolved(item, j)
<1>1. item[j] \in ItemType
  BY DEF TypeOK
<1>. QED BY <1>1, FieldTypes DEF Unresolved, Only

LEMMA OneItem ==
    ASSUME TypeOK, TypeOK', Safe, NEW i \in Items, Only(i), phase' = phase, Live,
           item[i].status \notin Terminal, item'[i].status \notin Terminal,
           item'[i].parked = None /\ item'[i].status = "blocked"
               => Unresolved(item', i) # {},
           \A k \in Kinds : item'[i].attempts[k] > 0 => HoldsOpenPr(i)'
    PROVE  Safe'
<1>1. Settled'
  BY DEF Safe, Settled, Live, Only, HoldsOpenPr, HoldsPr
<1>2. BlockedHasCause'
  <2>1. ASSUME NEW j \in Items \ {i}, Active(j)', item'[j].status = "blocked"
        PROVE  Unresolved(item', j) # {}
    BY <2>1, EdgesKept DEF Only, Safe, BlockedHasCause, Active, Known
  <2>. QED BY <2>1 DEF BlockedHasCause, Active
<1>3. AttemptsHeld'
  BY DEF Only, Safe, AttemptsHeld, HoldsOpenPr, HoldsPr
<1>. QED BY <1>1, <1>2, <1>3 DEF Safe

\* A closed or absent PR's ref does not become an open one.
LEMMA ClosedRefHoldsNone ==
    ASSUME NEW pr \in PrRef
    PROVE  ~(ClosedRef(pr).number # None /\ ~ClosedRef(pr).closed)
  BY DEF ClosedRef, PrRef

LEMMA AllSafe ==
    ASSUME TypeOK, TypeOK', Safe, Live, phase' = phase, NEW i \in Items,
           item[i].parked = None, item[i].status # None,
           item'[i].status \in Terminal, ~HoldsOpenPr(i)',
           \A j \in Items :
               /\ SamePlace(item'[j], item[j])
               /\ item'[j].attempts = item[j].attempts
               /\ j # i => item'[j].pr = item[j].pr
               /\ j # i /\ item[j].status # "blocked" => item'[j].status = item[j].status
               /\ j # i /\ item[j].status = "blocked"
                      => item'[j].status \in {"blocked", "queued"}
               /\ item'[j].parked = None /\ item'[j].status = "blocked"
                      => Unresolved(item', j) # {}
    PROVE  Safe'
<1>1. Settled'
  BY DEF Safe, Settled, Live, SamePlace, HoldsOpenPr, HoldsPr, Terminal
<1>2. BlockedHasCause'
  BY DEF BlockedHasCause, Active
<1>3. AttemptsHeld'
  BY DEF Safe, AttemptsHeld, HoldsOpenPr, HoldsPr, Terminal
<1>. QED BY <1>1, <1>2, <1>3 DEF Safe

LEMMA SafeInit ==
    ASSUME Init
    PROVE  Safe
<1>1. \A i \in Items : item[i] = NewItem(None, None)
  BY DEF Init, Blank
<1>2. \A i \in Items : /\ item[i].status = None /\ item[i].attempts = NoAttempts
  BY <1>1 DEF NewItem
<1>3. None \notin Terminal /\ None # "blocked"
  BY NoneAssumption DEF ItemStatus, Terminal
<1>4. \A k \in Kinds : NoAttempts[k] = 0
  BY DEF NoAttempts
<1>. QED BY <1>2, <1>3, <1>4
         DEF Safe, Settled, BlockedHasCause, AttemptsHeld

LEMMA SafeStep ==
    ASSUME TypeOK, TypeOK', Safe, [Next]_vars
    PROVE  Safe'
<1>0. /\ None \notin ItemStatus
      /\ \A j \in Items : item[j] \in ItemType /\ item'[j] \in ItemType
      /\ \A k \in Kinds : NoAttempts[k] = 0
  BY NoneAssumption DEF TypeOK, NoAttempts
\* of a charged item that is not merged, the PR is open
<1>a. ASSUME NEW i \in Items, item[i].status \notin Terminal,
             item'[i].attempts = item[i].attempts, item'[i].pr = item[i].pr
      PROVE  \A k \in Kinds : item'[i].attempts[k] > 0 => HoldsOpenPr(i)'
  BY <1>a DEF Safe, AttemptsHeld, HoldsOpenPr, HoldsPr
<1>1. CASE UNCHANGED vars
  BY <1>1 DEF vars, Safe, Settled, BlockedHasCause, AttemptsHeld,
              Active, Known, HoldsOpenPr, HoldsPr
<1>2. CASE \/ Ignored \/ (Live /\ (GrindPaused \/ GrindResumed \/ GrindFinished))
  <2>1. item' = item /\ (phase' = "new" => phase = "new")
    BY <1>2 DEF Ignored, GrindPaused, GrindResumed, GrindFinished
  <2>. QED BY <2>1 DEF Safe, Settled, BlockedHasCause, AttemptsHeld,
                       Active, Known, HoldsOpenPr, HoldsPr
<1>3. ASSUME NEW seed \in Seeds, GrindCreated(seed) PROVE Safe'
  <2>1. ASSUME NEW i \in Items
        PROVE  /\ item'[i].status \in {None, "queued", "blocked"}
               /\ item'[i].attempts = NoAttempts
               /\ item'[i].status = "blocked" => item'[i].blocked_on # {}
    <3> DEFINE home == {m \in Lanes : i \in seed.queue[m]}
               st   == IF seed.on[i] = {} THEN "queued" ELSE "blocked"
               new  == NewItem(CHOOSE m \in home : TRUE, st)
    <3>1. CASE home = {}
      <4>1. item'[i] = NewItem(None, None)
        BY <1>3, <3>1 DEF GrindCreated, Blank
      <4>. QED BY <1>0, <4>1 DEF NewItem, ItemStatus
    <3>2. CASE home # {}
      <4>1. item'[i] = [new EXCEPT !.blocked_on = seed.on[i]]
        BY <1>3, <3>2 DEF GrindCreated
      <4>2. /\ item'[i].status = st /\ item'[i].attempts = NoAttempts
            /\ item'[i].blocked_on = seed.on[i]
        BY <4>1 DEF NewItem
      <4>. QED BY <4>2
    <3>. QED BY <3>1, <3>2
  <2>2. \A i \in Items : item'[i].status \notin Terminal
    BY <1>0, <2>1 DEF Terminal, ItemStatus
  <2>3. \A i \in Items : Unresolved(item', i) = item'[i].blocked_on
    BY <1>0, <2>2, FieldTypes DEF Unresolved
  <2>4. phase' = "running"
    BY <1>3 DEF GrindCreated
  <2>. QED BY <1>0, <2>1, <2>2, <2>3, <2>4
           DEF Safe, Settled, BlockedHasCause, AttemptsHeld
<1>4. ASSUME NEW i \in Items, Live, PairedEvent(i) PROVE Safe'
  <2>1. CASE ItemStarted(i)
    <3>1. item[i].status \notin Terminal /\ phase' = phase
      BY <2>1 DEF ItemStarted, CanStart, From, Update, Applies, Terminal
    <3>. QED BY <1>4, <1>a, <2>1, <3>1, StartedEffect, OneItem DEF SameWork, Terminal
  <2>2. ASSUME NEW p \in PRs, PrOpened(i, p) PROVE Safe'
    <3>1. item[i].status \notin Terminal /\ phase' = phase
      BY <2>2 DEF PrOpened, CanOpenPr, From, Update, Applies, Terminal
    <3>2. HoldsOpenPr(i)'
      <4>1. item'[i].pr = [number |-> p, closed |-> FALSE]
        BY <2>2, PrOpenedEffect
      <4>2. item'[i].pr.number = p /\ ~item'[i].pr.closed /\ p # None
        BY <4>1, NoneAssumption
      <4>. QED BY <4>2 DEF HoldsOpenPr, HoldsPr
    <3>. QED BY <1>4, <2>2, <3>1, <3>2, PrOpenedEffect, OneItem DEF Terminal
  <2>3. ASSUME NEW p \in PRs, NEW next \in {"in-progress", "queued"} \cup ParkTypes,
               PrClosed(i, p, next)
        PROVE  Safe'
    <3>1. /\ item[i].status \notin Terminal /\ phase' = phase
          /\ item[i].status # "blocked"
      BY <2>3 DEF PrClosed, CanClosePr, From, Terminal, Reviewable
    <3>2. item'[i].status \notin Terminal /\ item'[i].status # "blocked"
      BY <2>3, <3>1, PrClosedEffect DEF Terminal
    <3>3. \A k \in Kinds : ~(item'[i].attempts[k] > 0)
      BY <1>0, <2>3, PrClosedEffect
    <3>. QED BY <1>4, <2>3, <3>1, <3>2, <3>3, PrClosedEffect, OneItem
  <2>4. ASSUME NEW k \in Kinds, FixAttempted(i, k) PROVE Safe'
    <3>1. /\ item[i].status \notin Terminal /\ phase' = phase
          /\ HoldsOpenPr(i) /\ Active(i)
      BY <2>4 DEF FixAttempted, CanAttempt, From, Update, Applies
    <3>2. /\ item'[i].status = item[i].status /\ item'[i].blocked_on = item[i].blocked_on
          /\ Only(i) /\ HoldsOpenPr(i)'
      BY <2>4, <3>1, FixAttemptedEffect DEF SamePlace, HoldsOpenPr, HoldsPr
    <3>3. Unresolved(item', i) = Unresolved(item, i)
      BY <3>1, <3>2, EdgesKept
    <3>. QED BY <1>4, <3>1, <3>2, <3>3, OneItem DEF Safe, BlockedHasCause
  <2>5. ASSUME NEW sha \in Shas, ItemMerged(i, sha) PROVE Safe'
    <3>1. item[i].parked = None /\ item[i].status # None /\ phase' = phase
      BY <2>5 DEF ItemMerged, CanMerge, From, Active, Known, Applies
    <3>2. item[i].pr \in PrRef
      BY <1>0, FieldTypes
    <3>3. ~HoldsOpenPr(i)'
      BY <2>5, <3>2, MergedEffect, ClosedRefHoldsNone DEF HoldsOpenPr, HoldsPr
    <3>4. item'[i].status \in Terminal
      BY <2>5, MergedEffect DEF Terminal
    <3>. QED BY <1>4, <2>5, <3>1, <3>3, <3>4, MergedEffect, AllSafe
  <2>6. CASE ItemDone(i)
    <3>1. /\ item[i].parked = None /\ item[i].status # None /\ phase' = phase
          /\ item[i].status \in Terminal
      BY <2>6 DEF ItemDone, CanFinishItem, From, Active, Known, Applies, Terminal
    <3>2. ~HoldsOpenPr(i)'
      BY <2>6, <3>1, DoneEffect DEF Safe, Settled, HoldsOpenPr, HoldsPr, SameWork
    <3>3. item'[i].status \in Terminal
      BY <2>6, DoneEffect DEF Terminal
    <3>4. \A j \in Items : /\ item'[j].attempts = item[j].attempts
                           /\ item'[j].pr = item[j].pr
      BY <2>6, DoneEffect DEF SameWork
    <3>. QED BY <1>4, <2>6, <3>1, <3>2, <3>3, <3>4, DoneEffect, AllSafe
  <2>7. ASSUME NEW reason \in ParkTypes, ItemParked(i, reason) PROVE Safe'
    <3>1. item[i].status \notin Terminal /\ phase' = phase /\ reason # None
      BY <2>7, NoneAssumption DEF ItemParked, CanPark, From, Applies, Parkable, ParkTypes
    <3>. QED BY <1>4, <1>a, <2>7, <3>1, ParkedEffect, OneItem DEF SameWork
  <2>8. ASSUME NEW l \in Lanes, NEW closure \in PRs \cup {None},
               ItemEnqueued(i, l, closure)
        PROVE  Safe'
    <3>1. item[i].status \notin Terminal /\ phase' = phase
      BY <2>8 DEF ItemEnqueued, CanEnqueue, Safe, Settled
    <3>2. item'[i].status \notin Terminal
      BY <2>8, EnqueuedEffect DEF Terminal
    <3>3. \A k \in Kinds : ~(item'[i].attempts[k] > 0)
      BY <1>0, <2>8, EnqueuedEffect
    <3>. QED BY <1>4, <2>8, <3>1, <3>2, <3>3, EnqueuedEffect, OneItem
  <2>. QED BY <1>4, <2>1, <2>2, <2>3, <2>4, <2>5, <2>6, <2>7, <2>8 DEF PairedEvent
<1>5. ASSUME NEW i \in Items, Live, UnpairedEvent(i) PROVE Safe'
  <2>1. ASSUME NEW r \in Rounds, NEW sha \in Shas,
               ReviewRound(i, r, sha) \/ ReviewVerdict(i, r, sha)
        PROVE  Safe'
    <3>1. item[i].status \notin Terminal /\ phase' = phase
      BY <2>1 DEF ReviewRound, ReviewVerdict, CanReview, From, Update, Applies,
                  Reviewable, Terminal
    <3>. QED BY <1>5, <1>a, <2>1, <3>1, ReviewEffect, OneItem DEF Terminal
  <2>2. ASSUME NEW on \in SUBSET Items, ItemBlocked(i, on) PROVE Safe'
    <3>1. item[i].status \notin Terminal /\ phase' = phase
      BY <2>2 DEF ItemBlocked, CanBlock, From, Applies, Blockable, Terminal
    <3>2. item'[i].status \notin Terminal
      BY <2>2, <3>1, BlockedEffect DEF Terminal
    <3>. QED BY <1>5, <1>a, <2>2, <3>1, <3>2, BlockedEffect, OneItem DEF SameWork
  <2>3. CASE ItemWaitingHuman(i)
    <3>1. item[i].status \notin Terminal /\ phase' = phase
      BY <2>3 DEF ItemWaitingHuman, CanWait, From, Applies, Blockable, Terminal
    <3>. QED BY <1>5, <1>a, <2>3, <3>1, WaitingEffect, OneItem DEF SameWork, Terminal
  <2>4. CASE ItemResumed(i)
    <3>1. item[i].status \notin Terminal /\ phase' = phase
      BY <2>4 DEF ItemResumed, CanResume, From, Applies, Terminal
    <3>2. item'[i].status \notin Terminal /\ item'[i].blocked_on = item[i].blocked_on
      BY <2>4, ResumedEffect DEF Terminal, SamePlace
    <3>3. Unresolved(item', i) = Unresolved(item, i)
      BY <2>4, <3>1, <3>2, ResumedEffect, EdgesKept
    <3>. QED BY <1>5, <1>a, <2>4, <3>1, <3>2, <3>3, ResumedEffect, OneItem DEF SameWork
  <2>5. ASSUME \/ \E reason \in SchedulingReasons \cup {Untyped} : DiscoveredParked(i, reason)
               \/ \E l \in Lanes : DiscoveredEnqueued(i, l)
        PROVE  Safe'
    <3>1. item[i].status \notin Terminal /\ phase' = phase
      BY <1>0, <2>5 DEF DiscoveredParked, DiscoveredEnqueued, Known, Applies,
                        Terminal, ItemStatus
    <3>2. Only(i) /\ item'[i].status = "queued" /\ item'[i].attempts = NoAttempts
      BY <2>5, DiscoveredEffect
    <3>. QED BY <1>0, <1>5, <3>1, <3>2, OneItem DEF Terminal
  <2>6. CASE Observation(i)
    BY <2>6 DEF Observation, Applies, Safe, Settled, BlockedHasCause,
                AttemptsHeld, Active, Known, HoldsOpenPr, HoldsPr
  <2>. QED BY <1>5, <2>1, <2>2, <2>3, <2>4, <2>5, <2>6 DEF UnpairedEvent
<1>6. ASSUME NEW i \in Items, Flag(i) PROVE Safe'
  BY <1>6 DEF Flag, Safe, Settled, BlockedHasCause, AttemptsHeld,
              Active, Known, HoldsOpenPr, HoldsPr
<1>. QED BY <1>1, <1>2, <1>3, <1>4, <1>5, <1>6 DEF Next

\* The blocked have a cause, the fix budget lives one PR cycle, and what is
\* merged is settled.
THEOREM SafeCorrect == Spec => []Safe
<1>. QED BY SafeInit, SafeStep, TypeCorrect, PTL DEF Spec

\* An item in play is blocked only while some edge of it is unresolved.
THEOREM BlockedCorrect == Spec => []BlockedHasCause
<1>1. Safe => BlockedHasCause
  BY DEF Safe
<1>. QED BY <1>1, SafeCorrect, PTL

-----------------------------------------------------------------------------
(* The attempt ledger *)

\* An item's charges stay with its PR, unless the PR changes while open.
ChargeStays(i) ==
    item'[i].attempts # NoAttempts /\ item'[i].pr.number # item[i].pr.number
        => HoldsOpenPr(i) /\ HoldsOpenPr(i)'

LEMMA ChargesHeld ==
    ASSUME TypeOK, AttemptsHeld, NEW i \in Items, item[i].attempts # NoAttempts
    PROVE  HoldsOpenPr(i) \/ item[i].status \in Terminal
<1>1. item[i].attempts \in [Kinds -> Nat]
  BY DEF TypeOK, ItemType
<1>2. \E k \in Kinds : item[i].attempts[k] > 0
  BY <1>1 DEF NoAttempts
<1>. QED BY <1>2 DEF AttemptsHeld

LEMMA ChargedStep ==
    ASSUME TypeOK, TypeOK', Safe, Safe', [Next]_vars, NEW j \in Items
    PROVE  ChargeStays(j)
<1>. USE DEF ChargeStays
\* but for three events, the item's PR keeps its number
<1>a. ASSUME item'[j].pr.number = item[j].pr.number PROVE ChargeStays(j)
  BY <1>a
<1>b. ASSUME NEW i \in Items, j # i, Only(i) PROVE ChargeStays(j)
  BY <1>a, <1>b DEF Only
<1>c. item[j] \in ItemType /\ item[j].pr \in PrRef
  BY DEF TypeOK, ItemType
<1>d. ClosedRef(item[j].pr).number = item[j].pr.number
  BY <1>c DEF ClosedRef, PrRef
<1>1. CASE \/ UNCHANGED vars
           \/ Ignored \/ GrindPaused \/ GrindResumed \/ GrindFinished
  BY <1>1, <1>a DEF vars, Ignored, GrindPaused, GrindResumed, GrindFinished
<1>2. ASSUME NEW seed \in Seeds, GrindCreated(seed) PROVE ChargeStays(j)
  BY <1>2 DEF GrindCreated, NewItem, Blank
<1>3. ASSUME NEW i \in Items, PairedEvent(i) PROVE ChargeStays(j)
  <2>1. CASE ItemStarted(i) \/ \E k \in Kinds : FixAttempted(i, k)
    BY <1>a, <1>b, <2>1, StartedEffect, FixAttemptedEffect DEF SameWork
  <2>2. ASSUME NEW p \in PRs, PrOpened(i, p) PROVE ChargeStays(j)
    <3>1. Only(i) /\ item'[i].attempts = item[i].attempts
      BY <2>2, PrOpenedEffect
    <3>2. item'[i].pr = [number |-> p, closed |-> FALSE] /\ p # None
      BY <2>2, PrOpenedEffect, NoneAssumption
    <3>3. item[i].status \notin Terminal
      BY <2>2 DEF PrOpened, CanOpenPr, From, Terminal
    <3>4. item'[i].attempts # NoAttempts => HoldsOpenPr(i)
      BY <3>1, <3>3, ChargesHeld DEF Safe
    <3>. QED BY <1>b, <3>1, <3>2, <3>4 DEF HoldsOpenPr, HoldsPr
  <2>3. ASSUME NEW p \in PRs, NEW next \in {"in-progress", "queued"} \cup ParkTypes,
               PrClosed(i, p, next)
        PROVE  ChargeStays(j)
    BY <1>b, <2>3, PrClosedEffect
  <2>4. ASSUME NEW sha \in Shas, ItemMerged(i, sha) PROVE ChargeStays(j)
    BY <1>a, <1>d, <2>4, MergedEffect
  <2>5. CASE ItemDone(i)
    BY <1>a, <2>5, DoneEffect DEF SameWork
  <2>6. ASSUME NEW reason \in ParkTypes, ItemParked(i, reason) PROVE ChargeStays(j)
    BY <1>a, <1>b, <2>6, ParkedEffect DEF SameWork
  <2>7. ASSUME NEW l \in Lanes, NEW closure \in PRs \cup {None},
               ItemEnqueued(i, l, closure)
        PROVE  ChargeStays(j)
    BY <1>b, <2>7, EnqueuedEffect
  <2>. QED BY <1>3, <2>1, <2>2, <2>3, <2>4, <2>5, <2>6, <2>7 DEF PairedEvent
<1>4. ASSUME NEW i \in Items, UnpairedEvent(i) PROVE ChargeStays(j)
  <2>1. CASE Observation(i)
    BY <1>a, <2>1 DEF Observation
  <2>2. CASE \/ \E r \in Rounds, sha \in Shas : ReviewRound(i, r, sha)
             \/ \E r \in Rounds, sha \in Shas : ReviewVerdict(i, r, sha)
    BY <1>a, <1>b, <2>2, ReviewEffect
  <2>3. CASE \/ \E on \in SUBSET Items : ItemBlocked(i, on)
             \/ ItemWaitingHuman(i) \/ ItemResumed(i)
    BY <1>a, <1>b, <2>3, BlockedEffect, WaitingEffect, ResumedEffect DEF SameWork
  <2>4. CASE \/ \E reason \in SchedulingReasons \cup {Untyped} : DiscoveredParked(i, reason)
             \/ \E l \in Lanes : DiscoveredEnqueued(i, l)
    BY <1>b, <2>4, DiscoveredEffect DEF NewItem
  <2>. QED BY <1>4, <2>1, <2>2, <2>3, <2>4 DEF UnpairedEvent
<1>5. ASSUME NEW i \in Items, Flag(i) PROVE ChargeStays(j)
  BY <1>5, <1>a DEF Flag
<1>. QED BY <1>1, <1>2, <1>3, <1>4, <1>5 DEF Next

\* A count of fix attempts is held against a PR that is open, or was merged with
\* it, and passes to another PR only where one replaces it while it is open.
THEOREM AttemptsCorrect == Spec => AttemptsWithinCycle
<1> DEFINE Within(i) == item'[i].attempts # NoAttempts =>
        /\ HoldsOpenPr(i)' \/ item'[i].status \in Terminal
        /\ item'[i].pr.number # item[i].pr.number => HoldsOpenPr(i) /\ HoldsOpenPr(i)'
<1>1. ASSUME TypeOK', AttemptsHeld', NEW i \in Items, item'[i].attempts # NoAttempts
      PROVE  HoldsOpenPr(i)' \/ item'[i].status \in Terminal
  <2>1. item'[i].attempts \in [Kinds -> Nat]
    BY <1>1 DEF TypeOK, ItemType
  <2>2. \E k \in Kinds : item'[i].attempts[k] > 0
    BY <1>1, <2>1 DEF NoAttempts
  <2>. QED BY <1>1, <2>2 DEF AttemptsHeld
<1>2. TypeOK /\ TypeOK' /\ Safe /\ Safe' /\ [Next]_vars => [\A i \in Items : Within(i)]_vars
  BY <1>1, ChargedStep DEF Safe, ChargeStays
<1>. QED BY <1>2, TypeCorrect, SafeCorrect, PTL DEF Spec, AttemptsWithinCycle

-----------------------------------------------------------------------------
(* What a merge settles *)

Kept(i) == /\ item'[i].status \in {item[i].status, "done"}
           /\ item'[i].parked = None
           /\ ~HoldsOpenPr(i)'
           /\ merged_ledger'[i] = merged_ledger[i]

LEMMA MergedStep ==
    ASSUME TypeOK, Safe, [Next]_vars, NEW j \in Items, item[j].status \in Terminal
    PROVE  Kept(j)
<1>. USE DEF Kept
<1>0. /\ item[j].parked = None /\ ~HoldsOpenPr(j) /\ phase # "new"
  BY NoneAssumption DEF Safe, Settled, Terminal, ItemStatus
\* the events of another item, and those that leave every item alone
<1>a. ASSUME item'[j] = item[j], merged_ledger' = merged_ledger PROVE Kept(j)
  BY <1>0, <1>a DEF HoldsOpenPr, HoldsPr
<1>b. ASSUME NEW i \in Items, j # i, Only(i), merged_ledger' = merged_ledger
      PROVE  Kept(j)
  BY <1>a, <1>b DEF Only
<1>1. CASE UNCHANGED vars
  BY <1>1, <1>a DEF vars
<1>2. CASE \/ Ignored \/ GrindPaused \/ GrindResumed \/ GrindFinished
  BY <1>2, <1>a DEF Ignored, GrindPaused, GrindResumed, GrindFinished, ledgers
<1>3. ASSUME NEW seed \in Seeds, GrindCreated(seed) PROVE Kept(j)
  BY <1>0, <1>3 DEF GrindCreated
<1>4. ASSUME NEW i \in Items, PairedEvent(i) PROVE Kept(j)
  <2>1. ASSUME \/ ItemStarted(i)
               \/ \E p \in PRs : PrOpened(i, p)
               \/ \E k \in Kinds : FixAttempted(i, k)
        PROVE  Kept(j)
    <3>1. Only(i) /\ merged_ledger' = merged_ledger
      BY <2>1, UpdateEffect DEF ItemStarted, PrOpened, FixAttempted
    <3>2. CASE j # i
      BY <1>b, <3>1, <3>2
    <3>3. CASE j = i
      BY <1>0, <2>1, <3>3 DEF ItemStarted, PrOpened, FixAttempted, CanStart,
         CanOpenPr, CanAttempt, From, Terminal
    <3>. QED BY <3>2, <3>3
  <2>2. ASSUME NEW p \in PRs, NEW next \in {"in-progress", "queued"} \cup ParkTypes,
               PrClosed(i, p, next)
        PROVE  Kept(j)
    <3>1. j # i
      BY <2>2 DEF PrClosed, CanClosePr, From, Reviewable, Terminal
    <3>2. Only(i) /\ merged_ledger' = merged_ledger
      BY <2>2, PrClosedEffect DEF PrClosed
    <3>. QED BY <1>b, <3>1, <3>2
  <2>3. ASSUME NEW sha \in Shas, ItemMerged(i, sha) PROVE Kept(j)
    <3>1. j # i
      BY <2>3 DEF ItemMerged, CanMerge, From, Reviewable, Terminal
    <3>2. /\ item'[j].status = item[j].status /\ item'[j].pr = item[j].pr
          /\ item'[j].parked = item[j].parked
      BY <2>3, <3>1, MergedEffect DEF SamePlace, Terminal
    <3>3. merged_ledger'[j] = merged_ledger[j]
      BY <2>3, <3>1 DEF ItemMerged, TypeOK
    <3>. QED BY <1>0, <3>2, <3>3 DEF HoldsOpenPr, HoldsPr
  <2>4. CASE ItemDone(i)
    <3>1. /\ item'[j].status \in {item[j].status, "done"}
          /\ item'[j].pr = item[j].pr /\ item'[j].parked = item[j].parked
      BY <2>4, DoneEffect DEF SamePlace, SameWork, Terminal
    <3>2. merged_ledger' = merged_ledger
      BY <2>4 DEF ItemDone, ledgers
    <3>. QED BY <1>0, <3>1, <3>2 DEF HoldsOpenPr, HoldsPr
  <2>5. ASSUME NEW reason \in ParkTypes, ItemParked(i, reason) PROVE Kept(j)
    <3>1. j # i
      BY <2>5 DEF ItemParked, CanPark, From, Parkable
    <3>2. Only(i) /\ merged_ledger' = merged_ledger
      BY <2>5, ParkedEffect DEF ItemParked, ledgers
    <3>. QED BY <1>b, <3>1, <3>2
  <2>6. ASSUME NEW l \in Lanes, NEW closure \in PRs \cup {None},
               ItemEnqueued(i, l, closure)
        PROVE  Kept(j)
    <3>1. j # i
      BY <1>0, <2>6 DEF ItemEnqueued, CanEnqueue
    <3>2. Only(i) /\ merged_ledger' = merged_ledger
      BY <2>6, EnqueuedEffect DEF ItemEnqueued
    <3>. QED BY <1>b, <3>1, <3>2
  <2>. QED BY <1>4, <2>1, <2>2, <2>3, <2>4, <2>5, <2>6 DEF PairedEvent
<1>5. ASSUME NEW i \in Items, UnpairedEvent(i) PROVE Kept(j)
  <2>1. CASE Observation(i)
    BY <1>a, <2>1 DEF Observation, ledgers
  <2>2. CASE ~Observation(i)
    <3>1. merged_ledger' = merged_ledger
      BY <1>5, <2>2 DEF UnpairedEvent, ReviewRound, ReviewVerdict, ItemBlocked,
         ItemWaitingHuman, ItemResumed, DiscoveredParked, DiscoveredEnqueued,
         Update, ledgers
    <3>2. Only(i)
      BY <1>5, <2>2, ReviewEffect, BlockedEffect, WaitingEffect, ResumedEffect,
         DiscoveredEffect DEF UnpairedEvent
    <3>3. j # i
      BY <1>5, <2>2, NoneAssumption
         DEF UnpairedEvent, ReviewRound, ReviewVerdict, ItemBlocked,
             ItemWaitingHuman, ItemResumed, DiscoveredParked, DiscoveredEnqueued,
             CanReview, CanBlock, CanWait, CanResume, From, Reviewable, Blockable,
             Terminal, Known, ItemStatus
    <3>. QED BY <1>b, <3>1, <3>2, <3>3
  <2>. QED BY <2>1, <2>2
<1>6. ASSUME NEW i \in Items, Flag(i) PROVE Kept(j)
  BY <1>6, <1>a DEF Flag, ledgers
<1>. QED BY <1>1, <1>2, <1>3, <1>4, <1>5, <1>6 DEF Next

\* The status never leaves merged/done, the item is not parked, its PR does not
\* reopen and the merge commit on record does not change.
THEOREM MergedCorrect == Spec => MergedIsFinal
<1>1. TypeOK /\ Safe /\ [Next]_vars =>
          [\A i \in Items : item[i].status \in Terminal => Kept(i)]_vars
  BY MergedStep
<1>. QED BY <1>1, TypeCorrect, SafeCorrect, PTL DEF Spec, MergedIsFinal, Kept

-----------------------------------------------------------------------------
(* What is freed is free *)

\* A blocked item that is queued has no open edge: by a merge that resolved the
\* last one, by an update of its edges or by its way back from the parking lot.
THEOREM UnblockedCorrect == Spec => UnblockedIsFree
<1> DEFINE Freed(i) == item[i].status = "blocked" /\ item'[i].status = "queued"
<1>1. TypeOK /\ Safe /\ [Next]_vars =>
          \A i \in Items : Freed(i) => Unresolved(item', i) = {}
  <2>. SUFFICES ASSUME TypeOK, Safe, [Next]_vars, NEW j \in Items, Freed(j)
                PROVE  Unresolved(item', j) = {}
    OBVIOUS
  <2>0. item'[j] # item[j] /\ phase # "new"
    BY NoneAssumption DEF Safe, Settled, ItemStatus
  <2>1. CASE \/ UNCHANGED vars
             \/ Ignored \/ GrindPaused \/ GrindResumed \/ GrindFinished
    BY <2>0, <2>1 DEF vars, Ignored, GrindPaused, GrindResumed, GrindFinished
  <2>2. ASSUME NEW seed \in Seeds, GrindCreated(seed) PROVE FALSE
    BY <2>0, <2>2 DEF GrindCreated
  <2>3. ASSUME NEW i \in Items, PairedEvent(i) PROVE Unresolved(item', j) = {}
    <3>1. ASSUME \/ ItemStarted(i)
                 \/ \E p \in PRs : PrOpened(i, p)
                 \/ \E k \in Kinds : FixAttempted(i, k)
          PROVE  FALSE
      <4>1. Only(i)
        BY <3>1, UpdateEffect DEF ItemStarted, PrOpened, FixAttempted
      <4>2. item'[i].status \in {"in-progress", "pr-open", item[i].status}
        <5>1. ASSUME NEW p \in PRs, PrOpened(i, p) PROVE item'[i].status = "pr-open"
          BY <5>1, PrOpenedEffect
        <5>2. ASSUME NEW k \in Kinds, FixAttempted(i, k)
              PROVE  item'[i].status = item[i].status
          BY <5>2, FixAttemptedEffect
        <5>. QED BY <3>1, <5>1, <5>2, StartedEffect
      <4>. QED BY <2>0, <4>1, <4>2 DEF Only
    <3>2. ASSUME NEW p \in PRs, NEW next \in {"in-progress", "queued"} \cup ParkTypes,
                 PrClosed(i, p, next)
          PROVE  FALSE
      <4>1. Only(i) /\ item[i].status # "blocked"
        BY <3>2, PrClosedEffect DEF PrClosed, CanClosePr, From, Reviewable
      <4>. QED BY <2>0, <4>1 DEF Only
    <3>3. ASSUME NEW sha \in Shas, ItemMerged(i, sha) PROVE Unresolved(item', j) = {}
      BY <3>3, MergedEffect
    <3>4. CASE ItemDone(i)
      BY <3>4, DoneEffect
    <3>5. ASSUME NEW reason \in ParkTypes, ItemParked(i, reason) PROVE FALSE
      BY <2>0, <3>5, ParkedEffect DEF Only
    <3>6. ASSUME NEW l \in Lanes, NEW closure \in PRs \cup {None},
                 ItemEnqueued(i, l, closure)
          PROVE  Unresolved(item', j) = {}
      <4>1. j = i
        BY <2>0, <3>6, EnqueuedEffect DEF Only
      <4>. QED BY <3>6, <4>1, EnqueuedEffect
    <3>. QED BY <2>3, <3>1, <3>2, <3>3, <3>4, <3>5, <3>6 DEF PairedEvent
  <2>4. ASSUME NEW i \in Items, UnpairedEvent(i) PROVE Unresolved(item', j) = {}
    <3>1. ASSUME NEW r \in Rounds, NEW sha \in Shas,
                 ReviewRound(i, r, sha) \/ ReviewVerdict(i, r, sha)
          PROVE  FALSE
      BY <2>0, <3>1, ReviewEffect DEF Only
    <3>2. ASSUME NEW on \in SUBSET Items, ItemBlocked(i, on)
          PROVE  Unresolved(item', j) = {}
      <4>1. j = i
        BY <2>0, <3>2, BlockedEffect DEF Only
      <4>. QED BY <3>2, <4>1, BlockedEffect
    <3>3. CASE ItemWaitingHuman(i) \/ ItemResumed(i)
      <4>1. Only(i) /\ item'[i].status # "queued"
        BY <3>3, WaitingEffect, ResumedEffect
      <4>. QED BY <2>0, <4>1 DEF Only
    <3>4. ASSUME \/ \E reason \in SchedulingReasons \cup {Untyped} : DiscoveredParked(i, reason)
                 \/ \E l \in Lanes : DiscoveredEnqueued(i, l)
          PROVE  FALSE
      <4>1. Only(i) /\ item[i].status = None
        BY <3>4, DiscoveredEffect DEF DiscoveredParked, DiscoveredEnqueued, Known
      <4>. QED BY <2>0, <4>1, NoneAssumption DEF Only, ItemStatus
    <3>5. CASE Observation(i)
      BY <2>0, <3>5 DEF Observation
    <3>. QED BY <2>4, <3>1, <3>2, <3>3, <3>4, <3>5 DEF UnpairedEvent
  <2>5. ASSUME NEW i \in Items, Flag(i) PROVE FALSE
    BY <2>0, <2>5 DEF Flag
  <2>. QED BY <2>1, <2>2, <2>3, <2>4, <2>5 DEF Next
<1>2. TypeOK /\ Safe /\ [Next]_vars =>
          [\A i \in Items : Freed(i) => Unresolved(item', i) = {}]_vars
  BY <1>1
<1>. QED BY <1>2, TypeCorrect, SafeCorrect, PTL DEF Spec, UnblockedIsFree

-----------------------------------------------------------------------------
(* One entry per review round *)

Distinct(h) == \A m, n \in DOMAIN h : h[m].round = h[n].round => m = n

\* An event of a round on record replaces its entry, any other adds one.
LEMMA RecordedDistinct ==
    ASSUME NEW h \in Seq(Round), NEW r \in Rounds, NEW sha \in Shas, Distinct(h)
    PROVE  Distinct(Recorded(h, r, sha))
<1> DEFINE entry == [round |-> r, head_sha |-> sha]
           same  == {n \in DOMAIN h : h[n].round = r}
<1>1. CASE same = {}
  <2>1. Recorded(h, r, sha) = Append(h, entry)
    BY <1>1 DEF Recorded
  <2>2. \A n \in DOMAIN h : h[n].round # r
    BY <1>1
  <2>. QED BY <2>1, <2>2 DEF Distinct
<1>2. CASE same # {}
  <2>1. Recorded(h, r, sha) = [n \in DOMAIN h |-> IF n \in same THEN entry ELSE h[n]]
    BY <1>2 DEF Recorded
  <2>2. \A n \in DOMAIN h : Recorded(h, r, sha)[n].round = h[n].round
    BY <2>1
  <2>3. DOMAIN Recorded(h, r, sha) = DOMAIN h
    BY <2>1
  <2>. QED BY <2>2, <2>3 DEF Distinct
<1>. QED BY <1>1, <1>2

\* The round history names no round twice, in whatever order the events of a
\* round come and however late.
THEOREM RoundsCorrect == Spec => []DistinctRounds
<1> DEFINE H(i) == Distinct(item[i].round_history)
<1>0. DistinctRounds <=> \A i \in Items : H(i)
  BY DEF DistinctRounds, Distinct
<1>1. Distinct(<<>>)
  BY DEF Distinct
<1>2. Init => DistinctRounds
  BY <1>0, <1>1 DEF Init, Blank, NewItem
<1>3. TypeOK /\ DistinctRounds /\ [Next]_vars => DistinctRounds'
  <2>. SUFFICES ASSUME TypeOK, DistinctRounds, [Next]_vars, NEW j \in Items
                PROVE  H(j)'
    BY DEF DistinctRounds, Distinct
  <2>0. H(j)
    BY <1>0
  <2>a. ASSUME item'[j].round_history \in {item[j].round_history, <<>>} PROVE H(j)'
    BY <1>1, <2>0, <2>a
  <2>1. CASE \/ UNCHANGED vars
             \/ Ignored \/ GrindPaused \/ GrindResumed \/ GrindFinished
    BY <2>0, <2>1 DEF vars, Ignored, GrindPaused, GrindResumed, GrindFinished
  <2>2. ASSUME NEW seed \in Seeds, GrindCreated(seed) PROVE H(j)'
    BY <1>1, <2>2 DEF GrindCreated, Blank, NewItem
  <2>3. ASSUME NEW i \in Items, PairedEvent(i) PROVE H(j)'
    <3>1. ASSUME NEW p \in PRs, PrOpened(i, p) PROVE H(j)'
      BY <2>a, <3>1, PrOpenedEffect DEF Only
    <3>2. ASSUME NEW p \in PRs, NEW next \in {"in-progress", "queued"} \cup ParkTypes,
                 PrClosed(i, p, next)
          PROVE  H(j)'
      BY <2>a, <3>2, PrClosedEffect DEF Only
    <3>3. ASSUME NEW k \in Kinds, FixAttempted(i, k) PROVE H(j)'
      BY <2>a, <3>3, FixAttemptedEffect DEF Only
    <3>4. ASSUME NEW sha \in Shas, ItemMerged(i, sha) PROVE H(j)'
      BY <2>a, <3>4, MergedEffect
    <3>5. ASSUME NEW reason \in ParkTypes, ItemParked(i, reason) PROVE H(j)'
      BY <2>a, <3>5, ParkedEffect DEF Only, SameWork
    <3>6. ASSUME NEW l \in Lanes, NEW closure \in PRs \cup {None},
                 ItemEnqueued(i, l, closure)
          PROVE  H(j)'
      BY <2>a, <3>6, EnqueuedEffect DEF Only
    <3>7. CASE ItemStarted(i)
      BY <2>a, <3>7, StartedEffect DEF Only, SameWork
    <3>8. CASE ItemDone(i)
      BY <2>a, <3>8, DoneEffect DEF SameWork
    <3>. QED BY <2>3, <3>1, <3>2, <3>3, <3>4, <3>5, <3>6, <3>7, <3>8 DEF PairedEvent
  <2>4. ASSUME NEW i \in Items, UnpairedEvent(i) PROVE H(j)'
    <3>1. ASSUME NEW r \in Rounds, NEW sha \in Shas,
                 ReviewRound(i, r, sha) \/ ReviewVerdict(i, r, sha)
          PROVE  H(j)'
      <4>1. CASE j # i
        BY <2>a, <3>1, <4>1, ReviewEffect DEF Only
      <4>2. CASE j = i
        <5>1. item[j].round_history \in Seq(Round)
          BY FieldTypes DEF TypeOK
        <5>2. item'[j].round_history = Recorded(item[j].round_history, r, sha)
          BY <3>1, <4>2, ReviewEffect
        <5>. QED BY <2>0, <5>1, <5>2, RecordedDistinct
      <4>. QED BY <4>1, <4>2
    <3>2. ASSUME \/ \E on \in SUBSET Items : ItemBlocked(i, on)
                 \/ ItemWaitingHuman(i) \/ ItemResumed(i)
          PROVE  H(j)'
      <4>1. Only(i) /\ SameWork(item'[i], item[i])
        BY <3>2, BlockedEffect, WaitingEffect, ResumedEffect
      <4>. QED BY <2>a, <4>1 DEF Only, SameWork
    <3>3. ASSUME \/ \E reason \in SchedulingReasons \cup {Untyped} : DiscoveredParked(i, reason)
                 \/ \E l \in Lanes : DiscoveredEnqueued(i, l)
          PROVE  H(j)'
      BY <2>a, <3>3, DiscoveredEffect DEF Only
    <3>4. CASE Observation(i)
      BY <2>0, <3>4 DEF Observation
    <3>. QED BY <2>4, <3>1, <3>2, <3>3, <3>4 DEF UnpairedEvent
  <2>5. ASSUME NEW i \in Items, Flag(i) PROVE H(j)'
    BY <2>0, <2>5 DEF Flag
  <2>. QED BY <2>1, <2>2, <2>3, <2>4, <2>5 DEF Next
<1>. QED BY <1>2, <1>3, TypeCorrect, PTL DEF Spec

-----------------------------------------------------------------------------
(* The board the fold keeps *)

\* In play on the fold is in play on the board.
LEMMA OnTheBoard ==
    ASSUME TypeOK, NEW i \in Items, Active(i)
    PROVE  /\ Board!InPlay(i)
           /\ item[i].status \notin Terminal => Board!Unfinished(i)
<1>1. Places[i] = {l \in Lanes : i \in queue[l]}
  BY DEF Places, Active
<1>2. Places[i] # {None}
  BY <1>1, NoneAssumption
<1>3. /\ Stages[i] # None
      /\ item[i].status \notin Terminal => Stages[i] \notin Terminal
  BY NoneAssumption DEF Stages, Active, Known, ItemStatus, Terminal, Reviewable
<1>. QED BY <1>2, <1>3 DEF Board!InPlay, Board!Unfinished, Board!Lot, Board!Final, Terminal

\* Two functions over the items that differ in one.
LEMMA OnAll ==
    ASSUME NEW f, NEW g, f = [j \in Items |-> f[j]], g = [j \in Items |-> g[j]],
           NEW i \in Items, \A j \in Items \ {i} : g[j] = f[j]
    PROVE  g = [f EXCEPT ![i] = g[i]]
  OBVIOUS

\* An event that moves one item, not merged, changes that item's card only.
LEMMA OneCard ==
    ASSUME TypeOK, TypeOK', NEW i \in Items, Only(i),
           item[i].status \notin Terminal, item'[i].status \notin Terminal,
           \A l \in Lanes : queue'[l] \ {i} = queue[l] \ {i}
    PROVE  /\ Places' = [Places EXCEPT ![i] = Places'[i]]
           /\ Stages' = [Stages EXCEPT ![i] = Stages'[i]]
           /\ Edges' = [Edges EXCEPT ![i] = Edges'[i]]
           /\ OpenPrs' \in {OpenPrs, OpenPrs \cup {i}, OpenPrs \ {i}}
           /\ ~(Known(i) /\ HoldsOpenPr(i))' => OpenPrs' = OpenPrs \ {i}
           /\ (Known(i) /\ HoldsOpenPr(i))' = (Known(i) /\ HoldsOpenPr(i)) => OpenPrs' = OpenPrs
<1>1. \A j \in Items \ {i} : Places'[j] = Places[j]
  BY DEF Places, Only
<1>2. \A j \in Items \ {i} : Stages'[j] = Stages[j]
  BY DEF Stages, Only
<1>3. \A j \in Items \ {i} : Edges'[j] = Edges[j]
  BY EdgesKept DEF Edges, Only, Known
<1>4. \A j \in Items \ {i} : j \in OpenPrs' <=> j \in OpenPrs
  BY DEF OpenPrs, Only, Known, HoldsOpenPr, HoldsPr
<1>5. /\ i \in OpenPrs' <=> (Known(i) /\ HoldsOpenPr(i))'
      /\ i \in OpenPrs <=> (Known(i) /\ HoldsOpenPr(i))
      /\ OpenPrs \subseteq Items /\ OpenPrs' \subseteq Items
  BY DEF OpenPrs
<1>6. Places' = [Places EXCEPT ![i] = Places'[i]]
  <2>1. /\ Places = [j \in Items |-> Places[j]]
        /\ Places' = [j \in Items |-> Places'[j]]
    BY DEF Places
  <2>. QED BY <1>1, <2>1, OnAll
<1>7. Stages' = [Stages EXCEPT ![i] = Stages'[i]]
  <2>1. /\ Stages = [j \in Items |-> Stages[j]]
        /\ Stages' = [j \in Items |-> Stages'[j]]
    BY DEF Stages
  <2>. QED BY <1>2, <2>1, OnAll
<1>8. Edges' = [Edges EXCEPT ![i] = Edges'[i]]
  <2>1. /\ Edges = [j \in Items |-> Edges[j]]
        /\ Edges' = [j \in Items |-> Edges'[j]]
    BY DEF Edges
  <2>. QED BY <1>3, <2>1, OnAll
<1>. QED BY <1>4, <1>5, <1>6, <1>7, <1>8

\* What the board does not show.
LEMMA BoardStays ==
    ASSUME TypeOK, queue' = queue, merged_ledger' = merged_ledger,
           \A j \in Items : /\ item'[j].status = item[j].status
                            /\ SamePlace(item'[j], item[j])
                            /\ item'[j].pr = item[j].pr
    PROVE  Board!Next
<1>1. \A j \in Items : Unresolved(item', j) = Unresolved(item, j)
  <2>. SUFFICES ASSUME NEW j \in Items, NEW t
                PROVE  t \in Unresolved(item', j) <=> t \in Unresolved(item, j)
    OBVIOUS
  <2>1. item[j].blocked_on \subseteq Items /\ item'[j].blocked_on = item[j].blocked_on
    BY FieldTypes DEF TypeOK, SamePlace
  <2>. QED BY <2>1 DEF Unresolved
<1>2. Places' = Places /\ Stages' = Stages /\ Edges' = Edges /\ OpenPrs' = OpenPrs
  BY <1>1 DEF Places, Stages, Edges, OpenPrs, SamePlace, Known, HoldsOpenPr, HoldsPr
<1>. QED BY <1>2 DEF Board!Next, Board!Elsewhere, Board!vars

\* An event of somebody's work on an item in play.
LEMMA WorkRefines ==
    ASSUME TypeOK, TypeOK', NEW i \in Items, Only(i), Active(i),
           queue' = queue, merged_ledger' = merged_ledger,
           SamePlace(item'[i], item[i]), item[i].status \notin Terminal,
           \/ item'[i].status \in {"in-progress"} \cup Reviewable
           \/ item'[i].status = "queued" /\ item[i].status \in Reviewable
           \/ /\ item'[i].status = "blocked" /\ item[i].status \in Reviewable
              /\ Unresolved(item, i) # {}
    PROVE  Board!Next
<1>1. item'[i].status \notin Terminal /\ item'[i].status # None /\ item[i].status # None
  BY NoneAssumption DEF Terminal, Reviewable, ItemStatus, Active, Known
<1>2. /\ Stages' = [Stages EXCEPT ![i] = Stages'[i]]
      /\ Edges' = [Edges EXCEPT ![i] = Edges'[i]]
      /\ OpenPrs' \in {OpenPrs, OpenPrs \cup {i}, OpenPrs \ {i}}
  BY <1>1, OneCard
<1>3. Places' = Places
  BY DEF Places, Only, SamePlace
<1>4. Edges' = Edges
  <2>1. Unresolved(item', i) = Unresolved(item, i)
    BY <1>1, EdgesKept DEF SamePlace
  <2>2. Edges'[i] = Edges[i]
    BY <1>1, <2>1 DEF Edges, Known
  <2>. QED BY <1>2, <2>2 DEF Edges
<1>5. Board!Unfinished(i)
  BY OnTheBoard
<1>6. /\ Stages'[i] = IF item'[i].status \in Reviewable THEN "in-progress" ELSE item'[i].status
      /\ Stages[i] = IF item[i].status \in Reviewable THEN "in-progress" ELSE item[i].status
      /\ Edges[i] = Unresolved(item, i)
  BY <1>1 DEF Stages, Edges, Known
<1>7. \/ Stages'[i] = "in-progress"
      \/ Stages[i] = "in-progress" /\ Stages'[i] = "queued"
      \/ Stages[i] = "in-progress" /\ Edges[i] # {} /\ Stages'[i] = "blocked"
  BY <1>6 DEF Reviewable
<1>8. Board!Work(i)
  BY <1>2, <1>3, <1>4, <1>5, <1>7 DEF Board!Work
<1>. QED BY <1>8 DEF Board!Next

\* A park, whether or not it comes with a closed PR.
LEMMA ParkRefines ==
    ASSUME TypeOK, TypeOK', QueueMembership', NEW i \in Items, Only(i), Active(i),
           queue' = Dequeued(i), merged_ledger' = merged_ledger,
           item'[i].parked # None, item'[i].status = item[i].status,
           item'[i].blocked_on = item[i].blocked_on, item[i].status \notin Terminal,
           item'[i].pr = item[i].pr \/ ~HoldsOpenPr(i)'
    PROVE  Board!Next
<1>1. \A l \in Lanes : queue'[l] \ {i} = queue[l] \ {i}
  BY DEF Dequeued, TypeOK
<1>2. /\ Places' = [Places EXCEPT ![i] = Places'[i]]
      /\ Stages' = [Stages EXCEPT ![i] = Stages'[i]]
      /\ Edges' = [Edges EXCEPT ![i] = Edges'[i]]
  BY <1>1, OneCard
<1>3. OpenPrs' \in {OpenPrs, OpenPrs \ {i}}
  BY <1>1, OneCard DEF Known, HoldsOpenPr, HoldsPr
<1>4. Places'[i] = {None}
  BY DEF Places, QueueMembership, Active
<1>5. Stages'[i] = Stages[i]
  BY DEF Stages
<1>6. Unresolved(item', i) = Unresolved(item, i)
  BY EdgesKept
<1>7. Edges'[i] = Edges[i]
  BY <1>6 DEF Edges, Known
<1>8. Stages' = Stages /\ Edges' = Edges
  BY <1>2, <1>5, <1>7 DEF Stages, Edges
<1>9. Board!Unfinished(i)
  BY OnTheBoard
<1>10. Board!Park(i)
  BY <1>2, <1>3, <1>4, <1>8, <1>9 DEF Board!Park, Board!Lot
<1>. QED BY <1>10 DEF Board!Next

\* The way back from the lot.
LEMMA ReturnRefines ==
    ASSUME TypeOK, TypeOK', QueueMembership, QueueMembership', Safe,
           NEW i \in Items, NEW l \in Lanes, NEW closure \in PRs \cup {None},
           ItemEnqueued(i, l, closure)
    PROVE  Board!Next
<1>1. /\ Only(i) /\ queue' = [queue EXCEPT ![l] = @ \cup {i}]
      /\ item'[i].lane = l /\ item'[i].parked = None
      /\ item'[i].blocked_on = item[i].blocked_on
      /\ item'[i].pr \in {NoPr, item[i].pr}
      /\ item'[i].status \in {"blocked", "queued"}
      /\ item'[i].status = "blocked" <=> Unresolved(item', i) # {}
  BY EnqueuedEffect
<1>2. /\ item[i].status \notin Terminal /\ item[i].status # None /\ item[i].parked # None
      /\ item'[i].status \notin Terminal /\ item'[i].status # None
      /\ merged_ledger' = merged_ledger
  BY <1>1, NoneAssumption
     DEF ItemEnqueued, CanEnqueue, Known, Safe, Settled, Terminal, ItemStatus
<1>3. \A m \in Lanes : queue'[m] \ {i} = queue[m] \ {i}
  BY <1>1 DEF TypeOK
<1>4. /\ Places' = [Places EXCEPT ![i] = Places'[i]]
      /\ Stages' = [Stages EXCEPT ![i] = Stages'[i]]
      /\ Edges' = [Edges EXCEPT ![i] = Edges'[i]]
  BY <1>1, <1>2, <1>3, OneCard
<1>5. OpenPrs' \in {OpenPrs, OpenPrs \ {i}}
  <2>1. \/ ~HoldsOpenPr(i)'
        \/ HoldsOpenPr(i)' = HoldsOpenPr(i)
    BY <1>1, NoneAssumption DEF HoldsOpenPr, HoldsPr, NoPr
  <2>. QED BY <1>1, <1>2, <1>3, <2>1, OneCard DEF Known
<1>6. Places[i] = {None} /\ Places'[i] = {l}
  BY <1>1, <1>2 DEF Places, QueueMembership, Active, Known
<1>7. Unresolved(item', i) = Unresolved(item, i)
  BY <1>1, <1>2, EdgesKept
<1>8. Edges'[i] = Edges[i] /\ Edges[i] = Unresolved(item, i)
  BY <1>2, <1>7 DEF Edges, Known
<1>9. Edges' = Edges
  BY <1>4, <1>8 DEF Edges
<1>10. Stages'[i] = IF Edges[i] = {} THEN "queued" ELSE "blocked"
  BY <1>1, <1>7, <1>8 DEF Stages, Reviewable
<1>11. Board!Return(i, l)
  BY <1>4, <1>5, <1>6, <1>9, <1>10, <1>2 DEF Board!Return, Board!Lot, Board!Fresh
<1>. QED BY <1>11 DEF Board!Next

\* The edges are said anew.
LEMMA RewireRefines ==
    ASSUME TypeOK, TypeOK', NEW i \in Items, NEW on \in SUBSET Items, ItemBlocked(i, on)
    PROVE  Board!Next
<1> DEFINE left == Unresolved(item', i)
<1>1. /\ Only(i) /\ queue' = queue /\ SameWork(item'[i], item[i])
      /\ item'[i].parked = item[i].parked
      /\ item'[i].status \in {"blocked", "queued", item[i].status}
      /\ item[i].status # "blocked" => item'[i].status \in {"blocked", item[i].status}
      /\ item'[i].status = "blocked" <=> left # {}
  BY BlockedEffect
<1>2. /\ Active(i) /\ item[i].status \notin Terminal /\ item[i].status # None
      /\ item'[i].status \notin Terminal /\ item'[i].status # None
      /\ merged_ledger' = merged_ledger
  BY <1>1, NoneAssumption
     DEF ItemBlocked, CanBlock, From, Active, Known, Blockable, Terminal, ItemStatus, ledgers
<1>3. /\ Stages' = [Stages EXCEPT ![i] = Stages'[i]]
      /\ Edges' = [Edges EXCEPT ![i] = Edges'[i]]
  BY <1>1, <1>2, OneCard
<1>4. OpenPrs' = OpenPrs
  BY <1>1, <1>2, OneCard DEF SameWork, Known, HoldsOpenPr, HoldsPr
<1>5. Places' = Places
  BY <1>1 DEF Places, Only
<1>6. Edges'[i] = left
  BY <1>2 DEF Edges, Known
<1>7. left \subseteq Items /\ \A j \in left : Stages[j] \notin Terminal
  <2>1. item'[i] \in ItemType
    BY DEF TypeOK
  <2>2. left \subseteq Items
    BY <2>1, FieldTypes DEF Unresolved
  <2>3. \A j \in left : item[j].status \notin Terminal
    BY <1>1, <1>2, <2>2 DEF Unresolved, Only
  <2>. QED BY <2>2, <2>3 DEF Stages, Terminal, Reviewable
<1>. HIDE DEF left
<1>8. Stages'[i] = IF left = {} /\ Stages[i] # "blocked" THEN Stages[i]
                   ELSE IF left = {} THEN "queued" ELSE "blocked"
  BY <1>1 DEF Stages, Reviewable
<1>9. Board!Unfinished(i)
  BY <1>2, OnTheBoard
<1>10. Board!Rewire(i, left)
  BY <1>3, <1>4, <1>5, <1>6, <1>7, <1>8, <1>2
     DEF Board!Rewire, Board!Final, Board!Fresh, Terminal, Stages
<1>. QED BY <1>7, <1>9, <1>10 DEF Board!Next

\* Work found on the way.
LEMMA EnterRefines ==
    ASSUME TypeOK, TypeOK', QueueMembership, QueueMembership', NEW i \in Items,
           \/ \E reason \in SchedulingReasons \cup {Untyped} : DiscoveredParked(i, reason)
           \/ \E l \in Lanes : DiscoveredEnqueued(i, l)
    PROVE  Board!Next
<1>1. /\ item[i].status = None /\ None \notin Terminal /\ None \notin Reviewable
      /\ merged_ledger' = merged_ledger
  BY NoneAssumption DEF DiscoveredParked, DiscoveredEnqueued, Known, ledgers,
                        Terminal, Reviewable, ItemStatus
<1>2. /\ Only(i) /\ item'[i].status = "queued" /\ item'[i].blocked_on = {}
      /\ item'[i].pr = NoPr
      /\ \/ /\ queue' = queue /\ item'[i].parked # None
         \/ \E l \in Lanes : /\ queue' = [queue EXCEPT ![l] = @ \cup {i}]
                             /\ item'[i].lane = l /\ item'[i].parked = None
  BY DiscoveredEffect, NoneAssumption DEF ParkTypes, ParkReasons
<1>3. \A m \in Lanes : queue'[m] \ {i} = queue[m] \ {i}
  BY <1>2 DEF TypeOK
<1>4. /\ Places' = [Places EXCEPT ![i] = Places'[i]]
      /\ Stages' = [Stages EXCEPT ![i] = Stages'[i]]
      /\ Edges' = [Edges EXCEPT ![i] = Edges'[i]]
  BY <1>1, <1>2, <1>3, OneCard DEF Terminal
<1>5. OpenPrs' = OpenPrs
  <2>1. ~HoldsOpenPr(i)'
    BY <1>2 DEF HoldsOpenPr, HoldsPr, NoPr
  <2>2. OpenPrs' = OpenPrs \ {i}
    BY <1>1, <1>2, <1>3, <2>1, OneCard DEF Terminal
  <2>. QED BY <1>1, <2>2 DEF OpenPrs, Known
<1>6. /\ Stages[i] = None /\ Stages'[i] = "queued"
      /\ Edges[i] = {} /\ Edges'[i] = {}
  BY <1>1, <1>2 DEF Stages, Edges, Known, Unresolved, Reviewable
<1>7. Edges' = Edges
  BY <1>4, <1>6 DEF Edges
<1>8. \/ Places'[i] = {None}
      \/ \E l \in Lanes : Places'[i] = {l}
  <2>1. item'[i].status # None
    BY <1>2, NoneAssumption DEF ItemStatus
  <2>. QED BY <1>2, <2>1 DEF Places, QueueMembership, Active, Known
<1>9. Board!Enter(i, Places'[i])
  BY <1>1, <1>4, <1>5, <1>6, <1>7 DEF Board!Enter
<1>. QED BY <1>8, <1>9 DEF Board!Next, Board!Lot

\* A merge: who waited for nothing else is queued where it is in play.
LEMMA MergeRefines ==
    ASSUME TypeOK, TypeOK', QueueMembership, Safe,
           NEW i \in Items, NEW sha \in Shas, ItemMerged(i, sha)
    PROVE  Board!Next
<1>1. /\ Active(i) /\ item[i].status \in Reviewable
      /\ merged_ledger' = [merged_ledger EXCEPT ![i] = sha]
  BY DEF ItemMerged, CanMerge, From
<1>2. \A j \in Items :
          /\ SamePlace(item'[j], item[j])
          /\ item'[j].pr = IF j = i THEN ClosedRef(item[j].pr) ELSE item[j].pr
          /\ j # i /\ item[j].status # "blocked" => item'[j].status = item[j].status
          /\ j # i /\ item[j].parked # None => item'[j].status = item[j].status
          /\ j # i /\ item[j].status = "blocked" => item'[j].status \in {"blocked", "queued"}
          /\ j # i /\ item[j].status = "blocked" /\ item'[j].status = "queued"
                 => Unresolved(item', j) = {}
          /\ item'[j].parked = None /\ item'[j].status = "blocked"
                 => Unresolved(item', j) # {}
  BY MergedEffect
<1>3. queue' = queue /\ item'[i].status = "merged"
  BY MergedEffect
<1>4. Places' = Places
  BY <1>2, <1>3 DEF Places, SamePlace
<1>5. \A j \in Items : j # i => (item'[j].status \in Terminal <=> item[j].status \in Terminal)
  BY <1>2 DEF Terminal
<1>6. \A j \in Items : Unresolved(item', j) = Unresolved(item, j) \ {i}
  <2>. SUFFICES ASSUME NEW j \in Items, NEW t
                PROVE  t \in Unresolved(item', j) <=> t \in Unresolved(item, j) \ {i}
    OBVIOUS
  <2>1. item[j].blocked_on \subseteq Items /\ item'[j].blocked_on = item[j].blocked_on
    BY <1>2, FieldTypes DEF TypeOK, SamePlace
  <2>2. item'[i].status \in Terminal
    BY <1>3 DEF Terminal
  <2>. QED BY <1>5, <2>1, <2>2 DEF Unresolved
<1>7. \A j \in Items : item'[j].status = None <=> item[j].status = None
  BY <1>1, <1>2, <1>3, NoneAssumption DEF ItemStatus, Reviewable
<1>8. Edges' = [j \in Items |-> Edges[j] \ {i}]
  BY <1>6, <1>7 DEF Edges, Known
<1>9. OpenPrs' = OpenPrs \ {i}
  <2>1. item[i].pr \in PrRef
    BY FieldTypes DEF TypeOK
  <2>2. ~HoldsOpenPr(i)'
    BY <1>2, <2>1, ClosedRefHoldsNone DEF HoldsOpenPr, HoldsPr
  <2>3. \A j \in Items : j # i => (HoldsOpenPr(j)' <=> HoldsOpenPr(j))
    BY <1>2 DEF HoldsOpenPr, HoldsPr
  <2>. QED BY <1>7, <2>2, <2>3 DEF OpenPrs, Known
<1>10. ASSUME NEW j \in Items, j # i
       PROVE  Stages'[j] = IF Board!InPlay(j) /\ Stages[j] = "blocked" /\ Edges[j] = {i}
                           THEN "queued" ELSE Stages[j]
  <2>1. CASE item[j].status # "blocked"
    BY <1>2, <1>10, <2>1 DEF Stages, Reviewable
  <2>2. CASE item[j].status = "blocked" /\ item[j].parked # None
    <3>1. ~Board!InPlay(j)
      BY <2>2 DEF Board!InPlay, Board!Lot, Places, QueueMembership, Active
    <3>2. Stages'[j] = Stages[j]
      BY <1>2, <1>10, <2>2 DEF Stages
    <3>. QED BY <3>1, <3>2
  <2>3. CASE item[j].status = "blocked" /\ item[j].parked = None
    <3>1. Active(j)
      BY <2>3, NoneAssumption DEF Active, Known, ItemStatus
    <3>2. Board!InPlay(j) /\ Stages[j] = "blocked" /\ Edges[j] = Unresolved(item, j)
      BY <2>3, <3>1, OnTheBoard DEF Stages, Edges, Active, Reviewable
    <3>3. Unresolved(item, j) # {} /\ Unresolved(item', j) = Unresolved(item, j) \ {i}
      BY <1>6, <2>3, <3>1 DEF Safe, BlockedHasCause
    <3>4. /\ item'[j].status \in {"blocked", "queued"}
          /\ item'[j].status = "blocked" <=> Unresolved(item', j) # {}
      BY <1>2, <1>10, <2>3 DEF SamePlace
    <3>5. Stages'[j] = item'[j].status
      BY <3>4 DEF Stages, Reviewable
    <3>. QED BY <3>2, <3>3, <3>4, <3>5
  <2>. QED BY <2>1, <2>2, <2>3
<1>11. Stages'[i] = "merged" /\ Stages[i] = "in-progress"
  BY <1>1, <1>3 DEF Stages, Reviewable
<1>12. Stages' = [j \in Items |->
           IF j = i THEN "merged"
           ELSE IF Board!InPlay(j) /\ Stages[j] = "blocked" /\ Edges[j] = {i} THEN "queued"
           ELSE Stages[j]]
  <2>1. Stages' = [j \in Items |-> Stages'[j]]
    BY DEF Stages
  <2>. QED BY <1>10, <1>11, <2>1
<1>13. Board!InPlay(i)
  BY <1>1, OnTheBoard
<1>14. Board!Merge(i, sha)
  BY <1>1, <1>4, <1>8, <1>9, <1>11, <1>12, <1>13 DEF Board!Merge
<1>. QED BY <1>14 DEF Board!Next

\* The post-merge leg frees nobody: the merge has.
LEMMA FinishRefines ==
    ASSUME TypeOK, TypeOK', Safe, NEW i \in Items, ItemDone(i)
    PROVE  Board!Next
<1>1. /\ Active(i) /\ item[i].status = "merged" /\ merged_ledger' = merged_ledger
  BY DEF ItemDone, CanFinishItem, From, ledgers
<1>2. \A j \in Items :
          /\ SamePlace(item'[j], item[j]) /\ SameWork(item'[j], item[j])
          /\ j # i /\ item[j].status # "blocked" => item'[j].status = item[j].status
          /\ j # i /\ item[j].parked # None => item'[j].status = item[j].status
          /\ j # i /\ item[j].status = "blocked" => item'[j].status \in {"blocked", "queued"}
          /\ j # i /\ item[j].status = "blocked" /\ item'[j].status = "queued"
                 => Unresolved(item', j) = {}
  BY DoneEffect
<1>3. queue' = queue /\ item'[i].status = "done"
  BY DoneEffect
<1>4. \A j \in Items : item'[j].status \in Terminal <=> item[j].status \in Terminal
  BY <1>1, <1>2, <1>3 DEF Terminal
<1>5. \A j \in Items : Unresolved(item', j) = Unresolved(item, j)
  <2>. SUFFICES ASSUME NEW j \in Items, NEW t
                PROVE  t \in Unresolved(item', j) <=> t \in Unresolved(item, j)
    OBVIOUS
  <2>1. item[j].blocked_on \subseteq Items /\ item'[j].blocked_on = item[j].blocked_on
    BY <1>2, FieldTypes DEF TypeOK, SamePlace
  <2>. QED BY <1>4, <2>1 DEF Unresolved
<1>6. ASSUME NEW j \in Items, j # i PROVE item'[j].status = item[j].status
  <2>1. CASE item[j].status = "blocked" /\ item[j].parked = None
    <3>1. Unresolved(item, j) # {}
      BY <2>1, NoneAssumption DEF Safe, BlockedHasCause, Active, Known, ItemStatus
    <3>. QED BY <1>2, <1>5, <1>6, <2>1, <3>1
  <2>. QED BY <1>2, <1>6, <2>1
<1>7. Places' = Places
  BY <1>2, <1>3 DEF Places, SamePlace
<1>8. Edges' = Edges /\ OpenPrs' = OpenPrs
  <2>1. \A j \in Items : Known(j)' <=> Known(j)
    BY <1>1, <1>3, <1>6, NoneAssumption DEF Known, ItemStatus
  <2>. QED BY <1>2, <1>5, <2>1 DEF Edges, OpenPrs, HoldsOpenPr, HoldsPr, SameWork
<1>9. /\ \A j \in Items \ {i} : Stages'[j] = Stages[j]
      /\ Stages[i] = "merged" /\ Stages'[i] = "done"
  BY <1>1, <1>3, <1>6 DEF Stages, Reviewable
<1>10. Stages' = [Stages EXCEPT ![i] = "done"]
  <2>1. /\ Stages = [j \in Items |-> Stages[j]]
        /\ Stages' = [j \in Items |-> Stages'[j]]
    BY DEF Stages
  <2>. QED BY <1>9, <2>1, OnAll
<1>11. Board!Finish(i)
  BY <1>1, <1>7, <1>8, <1>9, <1>10, OnTheBoard DEF Board!Finish
<1>. QED BY <1>11 DEF Board!Next

\* The seed.
LEMMA BeginRefines ==
    ASSUME TypeOK, TypeOK', Safe, NEW seed \in Seeds, GrindCreated(seed)
    PROVE  Board!Next
<1> DEFINE home(i) == {l \in Lanes : i \in seed.queue[l]}
           H == {i \in Items : home(i) # {}}
           lane == [i \in H |-> CHOOSE l \in home(i) : TRUE]
           on == [i \in H |-> seed.on[i]]
<1>1. /\ \A i \in Items : item[i].status = None
      /\ queue' = seed.queue /\ merged_ledger' = merged_ledger
      /\ seed \in SeedType /\ WellFormed(seed)
  BY SeedsAssumption DEF GrindCreated, Safe, Settled, ledgers
<1>2. /\ None \notin Reviewable \cup Terminal
      /\ None \notin {"queued", "blocked"}
  BY NoneAssumption DEF Reviewable, Terminal, ItemStatus
<1>3. ASSUME NEW i \in Items, i \notin H
      PROVE  item'[i] = NewItem(None, None)
  BY <1>3 DEF GrindCreated, Blank
<1>4. ASSUME NEW i \in H
      PROVE  /\ item'[i].status = IF on[i] = {} THEN "queued" ELSE "blocked"
             /\ item'[i].blocked_on = on[i] /\ item'[i].parked = None
             /\ item'[i].pr = NoPr
  <2> DEFINE st == IF seed.on[i] = {} THEN "queued" ELSE "blocked"
             new == NewItem(CHOOSE l \in home(i) : TRUE, st)
  <2>1. item'[i] = [new EXCEPT !.blocked_on = seed.on[i]]
    BY <1>4 DEF GrindCreated
  <2>2. /\ item'[i].status = st /\ item'[i].blocked_on = seed.on[i]
        /\ item'[i].parked = None /\ item'[i].pr = NoPr
    BY <2>1 DEF NewItem
  <2>. QED BY <2>2
<1>5. /\ lane \in [H -> Lanes] /\ on \in [H -> SUBSET Items]
      /\ \A i \in H : home(i) = {lane[i]}
  <2>1. \A i \in H : lane[i] \in home(i)
    OBVIOUS
  <2>2. \A i \in H : home(i) = {lane[i]}
    BY <1>1, <2>1 DEF WellFormed
  <2>3. on \in [H -> SUBSET Items]
    BY <1>1 DEF SeedType
  <2>. QED BY <2>1, <2>2, <2>3
<1>6. H \subseteq Items /\ \A i \in Items \ H : home(i) = {}
  OBVIOUS
<1>7. \A i \in Items : home(i) = {l \in Lanes : i \in queue'[l]}
  BY <1>1
<1>. HIDE DEF H, lane, on, home
<1>8. \A i \in Items \ H : /\ item'[i].status = None /\ item'[i].blocked_on = {}
                           /\ item'[i].parked = None /\ item'[i].pr = NoPr
  BY <1>3 DEF NewItem
<1>9. \A j \in Items : item'[j].status \notin Terminal
  BY <1>2, <1>4, <1>8 DEF Terminal
<1>10. Places' = [i \in Items |-> IF i \in H THEN {lane[i]} ELSE {}]
  BY <1>4, <1>5, <1>6, <1>7, <1>8 DEF Places
<1>11. Stages' = [i \in Items |->
           IF i \in H THEN IF on[i] = {} THEN "queued" ELSE "blocked" ELSE None]
  <2>1. ASSUME NEW i \in Items
        PROVE  Stages'[i] = IF i \in H THEN IF on[i] = {} THEN "queued" ELSE "blocked"
                            ELSE None
    <3>1. CASE i \in H
      BY <1>4, <3>1 DEF Stages, Reviewable
    <3>2. CASE i \notin H
      BY <1>2, <1>8, <3>2 DEF Stages
    <3>. QED BY <3>1, <3>2
  <2>. QED BY <2>1 DEF Stages
<1>12. Edges' = [i \in Items |-> IF i \in H THEN on[i] ELSE {}]
  <2>1. ASSUME NEW i \in H PROVE Edges'[i] = on[i]
    <3>1. Unresolved(item', i) = on[i]
      BY <1>4, <1>5, <1>9 DEF Unresolved
    <3>2. item'[i].status # None
      BY <1>2, <1>4
    <3>. QED BY <1>6, <3>1, <3>2 DEF Edges, Known
  <2>2. ASSUME NEW i \in Items \ H PROVE Edges'[i] = {}
    BY <1>8 DEF Edges, Known
  <2>. QED BY <2>1, <2>2 DEF Edges
<1>13. OpenPrs' = OpenPrs
  <2>1. \A i \in Items : item'[i].pr = NoPr
    BY <1>4, <1>8
  <2>2. OpenPrs' = {}
    BY <2>1 DEF OpenPrs, HoldsOpenPr, HoldsPr, NoPr
  <2>. QED BY <1>1, <2>2 DEF OpenPrs, Known
<1>14. \A i \in Items : Stages[i] = None
  BY <1>1, <1>2 DEF Stages
<1>15. Board!Begin(H, lane, on)
  BY <1>1, <1>10, <1>11, <1>12, <1>13 DEF Board!Begin, Board!Fresh
<1>16. H \in SUBSET Items
  BY <1>6
<1>. QED BY <1>5, <1>14, <1>15, <1>16 DEF Board!Next

LEMMA BoardInit ==
    ASSUME Init
    PROVE  Board!Init
<1>1. \A i \in Items : item[i] = NewItem(None, None)
  BY DEF Init, Blank
<1>2. \A i \in Items : item[i].status = None /\ item[i].parked = None
  BY <1>1 DEF NewItem
<1>3. None \notin Reviewable
  BY NoneAssumption DEF Reviewable, ItemStatus
<1>4. Places = [i \in Items |-> {}]
  BY <1>2 DEF Init, Places
<1>5. Stages = [i \in Items |-> None]
  BY <1>2, <1>3 DEF Stages
<1>6. Edges = [i \in Items |-> {}] /\ OpenPrs = {}
  BY <1>2 DEF Edges, OpenPrs, Known
<1>. QED BY <1>4, <1>5, <1>6 DEF Init, Board!Init

\* Each event is what the board has it be, or is not on the board.
LEMMA StepRefines ==
    ASSUME TypeOK, TypeOK', QueueMembership, QueueMembership', Safe, [Next]_vars
    PROVE  [Board!Next]_(Board!vars)
<1>1. SUFFICES ASSUME Next PROVE Board!Next
  <2>1. CASE UNCHANGED vars
    <3>1. Board!Next
      BY <2>1, BoardStays DEF vars, SamePlace
    <3>. QED BY <3>1
  <2>. QED BY <1>1, <2>1
<1>2. CASE \/ Ignored \/ GrindPaused \/ GrindResumed \/ GrindFinished
           \/ \E i \in Items : Flag(i) \/ Observation(i)
  <2>1. item' = item /\ queue' = queue /\ merged_ledger' = merged_ledger
    BY <1>2 DEF Ignored, GrindPaused, GrindResumed, GrindFinished, Flag, Observation, ledgers
  <2>. QED BY <2>1, BoardStays DEF SamePlace
<1>3. ASSUME NEW i \in Items, PairedEvent(i) PROVE Board!Next
  <2>1. CASE ItemStarted(i)
    <3>1. /\ Active(i) /\ item[i].status \notin Terminal
          /\ merged_ledger' = merged_ledger
      BY <2>1 DEF ItemStarted, CanStart, From, Update, ledgers, Terminal
    <3>. QED BY <2>1, <3>1, StartedEffect, WorkRefines
  <2>2. ASSUME NEW p \in PRs, PrOpened(i, p) PROVE Board!Next
    <3>1. /\ Active(i) /\ item[i].status \notin Terminal
          /\ merged_ledger' = merged_ledger
      BY <2>2 DEF PrOpened, CanOpenPr, From, Update, ledgers, Terminal
    <3>. QED BY <2>2, <3>1, PrOpenedEffect, WorkRefines DEF Reviewable
  <2>3. ASSUME NEW p \in PRs, NEW next \in {"in-progress", "queued"} \cup ParkTypes,
               PrClosed(i, p, next)
        PROVE  Board!Next
    <3>1. /\ Active(i) /\ item[i].status \in Reviewable /\ item[i].status \notin Terminal
          /\ merged_ledger' = merged_ledger
      BY <2>3 DEF PrClosed, CanClosePr, From, Terminal, Reviewable
    <3>2. item[i].pr \in PrRef
      BY FieldTypes DEF TypeOK
    <3>3. ~HoldsOpenPr(i)'
      BY <2>3, <3>2, PrClosedEffect, ClosedRefHoldsNone DEF HoldsOpenPr, HoldsPr
    <3>4. CASE /\ next \in ParkTypes /\ queue' = Dequeued(i)
               /\ item'[i].parked = next /\ item'[i].status = item[i].status
      BY <2>3, <3>1, <3>3, <3>4, PrClosedEffect, ParkRefines, NoneAssumption
    <3>5. CASE /\ next \in {"in-progress", "queued"} /\ queue' = queue
               /\ item'[i].parked = item[i].parked /\ item'[i].status = next
      BY <2>3, <3>1, <3>5, PrClosedEffect, WorkRefines DEF SamePlace
    <3>. QED BY <2>3, <3>4, <3>5, PrClosedEffect
  <2>4. ASSUME NEW k \in Kinds, FixAttempted(i, k) PROVE Board!Next
    <3>1. merged_ledger' = merged_ledger
      BY <2>4 DEF FixAttempted, Update, ledgers
    <3>. QED BY <2>4, <3>1, FixAttemptedEffect, BoardStays DEF Only, SamePlace
  <2>5. ASSUME NEW sha \in Shas, ItemMerged(i, sha) PROVE Board!Next
    BY <2>5, MergeRefines
  <2>6. CASE ItemDone(i)
    BY <2>6, FinishRefines
  <2>7. ASSUME NEW reason \in ParkTypes, ItemParked(i, reason) PROVE Board!Next
    <3>1. /\ Active(i) /\ item[i].status \notin Terminal /\ reason # None
          /\ merged_ledger' = merged_ledger
      BY <2>7, NoneAssumption
         DEF ItemParked, CanPark, From, Parkable, ParkTypes, ledgers
    <3>. QED BY <2>7, <3>1, ParkedEffect, ParkRefines DEF SameWork
  <2>8. ASSUME NEW l \in Lanes, NEW closure \in PRs \cup {None},
               ItemEnqueued(i, l, closure)
        PROVE  Board!Next
    BY <2>8, ReturnRefines
  <2>. QED BY <1>3, <2>1, <2>2, <2>3, <2>4, <2>5, <2>6, <2>7, <2>8 DEF PairedEvent
<1>4. ASSUME NEW i \in Items, UnpairedEvent(i), ~Observation(i) PROVE Board!Next
  <2>1. ASSUME NEW r \in Rounds, NEW sha \in Shas,
               ReviewRound(i, r, sha) \/ ReviewVerdict(i, r, sha)
        PROVE  Board!Next
    <3>1. /\ Active(i) /\ item[i].status \notin Terminal
          /\ merged_ledger' = merged_ledger
      BY <2>1 DEF ReviewRound, ReviewVerdict, CanReview, From, Update, Reviewable,
                  Terminal, ledgers
    <3>. QED BY <2>1, <3>1, ReviewEffect, WorkRefines DEF Reviewable
  <2>2. ASSUME NEW on \in SUBSET Items, ItemBlocked(i, on) PROVE Board!Next
    BY <2>2, RewireRefines
  <2>3. CASE ItemWaitingHuman(i)
    <3>1. /\ Active(i) /\ item[i].status \notin Terminal
          /\ merged_ledger' = merged_ledger
      BY <2>3 DEF ItemWaitingHuman, CanWait, From, Blockable, Terminal, ledgers
    <3>. QED BY <2>3, <3>1, WaitingEffect, WorkRefines DEF Reviewable
  <2>4. CASE ItemResumed(i)
    <3>1. /\ Active(i) /\ item[i].status = "waiting-human"
          /\ merged_ledger' = merged_ledger
      BY <2>4 DEF ItemResumed, CanResume, From, ledgers
    <3>. QED BY <2>4, <3>1, ResumedEffect, WorkRefines DEF Reviewable, Terminal
  <2>5. CASE \/ \E reason \in SchedulingReasons \cup {Untyped} : DiscoveredParked(i, reason)
             \/ \E l \in Lanes : DiscoveredEnqueued(i, l)
    BY <2>5, EnterRefines
  <2>. QED BY <1>4, <2>1, <2>2, <2>3, <2>4, <2>5 DEF UnpairedEvent
<1>5. ASSUME NEW seed \in Seeds, GrindCreated(seed) PROVE Board!Next
  BY <1>5, BeginRefines
<1>. QED BY <1>1, <1>2, <1>3, <1>4, <1>5 DEF Next

\* Through any log the items behave as on the board.
THEOREM KeepsTheBoard == Spec => IsWorkBoard
<1>1. Init => Board!Init
  BY BoardInit
<1>2. /\ TypeOK /\ TypeOK' /\ QueueMembership /\ QueueMembership' /\ Safe
      /\ [Next]_vars
      => [Board!Next]_(Board!vars)
  BY StepRefines
<1>. QED BY <1>1, <1>2, TypeCorrect, QueueCorrect, SafeCorrect, PTL
         DEF Spec, IsWorkBoard, Board!Spec

=============================================================================
