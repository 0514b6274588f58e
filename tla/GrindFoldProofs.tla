--------------------------- MODULE GrindFoldProofs ---------------------------
(***************************************************************************)
(* Theorems about GrindFold, for every set of items, lanes, pull requests, *)
(* rounds and seeds.  TypeCorrect comes first and is inductive by itself;  *)
(* every later invariant is inductive relative to it.                      *)
(***************************************************************************)
EXTENDS GrindFold, TLAPS

AnyStatus == ItemStatus \cup {None}

-----------------------------------------------------------------------------
(* Types of the operators the actions are built from *)

LEMMA FieldTypes ==
    ASSUME NEW it \in ItemType
    PROVE  /\ it.status \in AnyStatus /\ it.lane \in Lanes \cup {None}
           /\ it.blocked_on \in SUBSET Items /\ it.pr \in PrRef
           /\ it.parked \in ParkTypes \cup {None}
           /\ it.attempts \in [Kinds -> Nat]
           /\ it.round_history \in Seq(Round)
  BY DEF ItemType, AnyStatus

\* What an item keeps when only its place, or only its work, changes.
SamePlace(x, y) == x.lane = y.lane /\ x.parked = y.parked /\ x.blocked_on = y.blocked_on
SameWork(x, y)  == x.pr = y.pr /\ x.attempts = y.attempts /\ x.round_history = y.round_history

LEMMA StatusSet ==
    ASSUME NEW it \in ItemType, NEW s \in AnyStatus
    PROVE  LET new == [it EXCEPT !.status = s] IN
           new \in ItemType /\ new.status = s /\ SamePlace(new, it) /\ SameWork(new, it)
  BY DEF ItemType, AnyStatus, SamePlace, SameWork

LEMMA StatusAndPrSet ==
    ASSUME NEW it \in ItemType, NEW s \in AnyStatus, NEW pr \in PrRef
    PROVE  LET new == [it EXCEPT !.status = s, !.pr = pr] IN
           /\ new \in ItemType /\ new.status = s /\ new.pr = pr /\ SamePlace(new, it)
           /\ new.attempts = it.attempts /\ new.round_history = it.round_history
  BY DEF ItemType, AnyStatus, SamePlace

LEMMA AttemptsSet ==
    ASSUME NEW it \in ItemType, NEW n \in [Kinds -> Nat]
    PROVE  LET new == [it EXCEPT !.attempts = n] IN
           /\ new \in ItemType /\ new.attempts = n /\ SamePlace(new, it)
           /\ new.status = it.status /\ new.pr = it.pr
           /\ new.round_history = it.round_history
  BY DEF ItemType, SamePlace

LEMMA HistorySet ==
    ASSUME NEW it \in ItemType, NEW s \in AnyStatus, NEW h \in Seq(Round)
    PROVE  LET new == [it EXCEPT !.status = s, !.round_history = h] IN
           /\ new \in ItemType /\ new.status = s /\ new.round_history = h
           /\ SamePlace(new, it) /\ new.pr = it.pr /\ new.attempts = it.attempts
  BY DEF ItemType, AnyStatus, SamePlace

LEMMA ParkedSet ==
    ASSUME NEW it \in ItemType, NEW reason \in ParkTypes
    PROVE  LET new == [it EXCEPT !.parked = reason] IN
           /\ new \in ItemType /\ new.parked = reason /\ new.status = it.status
           /\ new.lane = it.lane /\ new.blocked_on = it.blocked_on /\ SameWork(new, it)
  BY DEF ItemType, SameWork

LEMMA BlockedOnSet ==
    ASSUME NEW it \in ItemType, NEW on \in SUBSET Items
    PROVE  LET new == [it EXCEPT !.blocked_on = on] IN
           /\ new \in ItemType /\ new.blocked_on = on /\ new.status = it.status
           /\ new.lane = it.lane /\ new.parked = it.parked /\ SameWork(new, it)
  BY DEF ItemType, SameWork

LEMMA BackSet ==
    ASSUME NEW it \in ItemType, NEW l \in Lanes
    PROVE  LET new == [it EXCEPT !.parked = None, !.lane = l,
                                 !.attempts = NoAttempts, !.status = "queued"] IN
           /\ new \in ItemType /\ new.status = "queued" /\ new.lane = l
           /\ new.parked = None /\ new.attempts = NoAttempts
           /\ new.blocked_on = it.blocked_on /\ new.pr = it.pr
           /\ new.round_history = it.round_history
<1>1. NoAttempts \in [Kinds -> Nat]
  BY DEF NoAttempts
<1>. QED BY <1>1 DEF ItemType, ItemStatus

LEMMA CycleDropped ==
    ASSUME NEW it \in ItemType
    PROVE  LET new == [it EXCEPT !.pr = NoPr, !.round_history = <<>>] IN
           /\ new \in ItemType /\ new.pr = NoPr /\ new.round_history = <<>>
           /\ new.status = it.status /\ SamePlace(new, it) /\ new.attempts = it.attempts
<1>1. NoPr \in PrRef /\ <<>> \in Seq(Round)
  BY DEF PrRef, NoPr
<1>. QED BY <1>1 DEF ItemType, SamePlace

LEMMA NewItemType ==
    ASSUME NEW l \in Lanes \cup {None}, NEW s \in AnyStatus
    PROVE  NewItem(l, s) \in ItemType
  BY DEF NewItem, ItemType, PrRef, NoPr, NoAttempts, AnyStatus

LEMMA ClosedRefType ==
    ASSUME NEW pr \in PrRef
    PROVE  ClosedRef(pr) \in PrRef
  BY DEF ClosedRef, PrRef

LEMMA RecomputeType ==
    ASSUME NEW items \in [Items -> ItemType], NEW i \in Items
    PROVE  Recompute(items, i) \in [Items -> ItemType]
<1> DEFINE s == IF Unresolved(items, i) # {} THEN "blocked"
                ELSE IF items[i].status = "blocked" THEN "queued" ELSE items[i].status
<1>1. s \in AnyStatus
  BY FieldTypes DEF AnyStatus, ItemStatus
<1>2. Recompute(items, i) = [items EXCEPT ![i].status = s]
  BY DEF Recompute
<1>. HIDE DEF s
<1>. QED BY <1>1, <1>2, StatusSet

LEMMA CascadeType ==
    ASSUME NEW items \in [Items -> ItemType]
    PROVE  Cascade(items) \in [Items -> ItemType]
<1>1. \A j \in Items : [items[j] EXCEPT !.status = "queued"] \in ItemType
  BY StatusSet DEF AnyStatus, ItemStatus
<1>. QED BY <1>1 DEF Cascade

LEMMA CycleEndedType ==
    ASSUME NEW it \in ItemType
    PROVE  LET new == CycleEnded(it) IN
           /\ new \in ItemType /\ new.status = it.status /\ SamePlace(new, it)
           /\ new.attempts = NoAttempts /\ new.pr = ClosedRef(it.pr)
           /\ new.round_history = <<>>
<1> DEFINE pr == ClosedRef(it.pr)
<1>1. pr \in PrRef /\ NoAttempts \in [Kinds -> Nat] /\ <<>> \in Seq(Round)
  BY FieldTypes, ClosedRefType DEF NoAttempts
<1>2. CycleEnded(it) =
        [it EXCEPT !.round_history = <<>>, !.attempts = NoAttempts, !.pr = pr]
  BY DEF CycleEnded, ItemType
<1>. HIDE DEF pr
<1>3. LET new == CycleEnded(it) IN
      /\ new \in ItemType /\ new.status = it.status /\ SamePlace(new, it)
      /\ new.attempts = NoAttempts /\ new.pr = pr /\ new.round_history = <<>>
  BY <1>1, <1>2 DEF ItemType, SamePlace
<1>. QED BY <1>3 DEF pr

LEMMA RecordedType ==
    ASSUME NEW h \in Seq(Round), NEW r \in Rounds, NEW sha \in Shas
    PROVE  Recorded(h, r, sha) \in Seq(Round)
<1> DEFINE entry == [round |-> r, head_sha |-> sha]
           same  == {n \in DOMAIN h : h[n].round = r}
<1>1. entry \in Round
  BY DEF Round
<1>. HIDE DEF entry
<1>2. CASE same = {}
  BY <1>1, <1>2 DEF Recorded, entry
<1>3. CASE same # {}
  BY <1>1, <1>3 DEF Recorded, entry
<1>. QED BY <1>2, <1>3

LEMMA TouchType ==
    ASSUME fresh \in [Items -> SUBSET PRs], NEW i \in Items,
           NEW closing \in SUBSET PRs, Touch(i, closing)
    PROVE  fresh' \in [Items -> SUBSET PRs]
  BY DEF Touch

LEMMA AppliesType ==
    ASSUME TypeOK, NEW i \in Items, Applies(i)
    PROVE  fresh' \in [Items -> SUBSET PRs] /\ phase' = phase
  BY TouchType DEF Applies, TypeOK

LEMMA DequeuedType ==
    ASSUME TypeOK, NEW i \in Items
    PROVE  Dequeued(i) \in [Lanes -> SUBSET Items]
  BY FieldTypes DEF Dequeued, TypeOK

-----------------------------------------------------------------------------
(* Types of the actions *)

\* The part of TypeOK that Update leaves to the new item.
LEMMA UpdateType ==
    ASSUME TypeOK, NEW i \in Items, NEW next \in ItemType, Update(i, next)
    PROVE  TypeOK'
<1>1. fresh' \in [Items -> SUBSET PRs]
  BY TouchType DEF Update, Applies, TypeOK
<1>. QED BY <1>1 DEF Update, Applies, TypeOK, ledgers

LEMMA ReviewedType ==
    ASSUME TypeOK, NEW i \in Items, NEW r \in Rounds, NEW sha \in Shas
    PROVE  Reviewed(i, r, sha) \in ItemType
<1> DEFINE h == Recorded(item[i].round_history, r, sha)
<1>1. item[i] \in ItemType
  BY DEF TypeOK
<1>2. h \in Seq(Round)
  BY <1>1, FieldTypes, RecordedType
<1>3. Reviewed(i, r, sha) = [item[i] EXCEPT !.status = "in-review", !.round_history = h]
  BY <1>1 DEF Reviewed, ItemType
<1>. HIDE DEF h
<1>. QED BY <1>1, <1>2, <1>3 DEF ItemType, ItemStatus

LEMMA GrindCreatedType ==
    ASSUME TypeOK, NEW seed \in Seeds, GrindCreated(seed)
    PROVE  TypeOK'
<1>1. seed.queue \in [Lanes -> SUBSET Items] /\ seed.on \in [Items -> SUBSET Items]
  BY SeedsAssumption DEF SeedType
<1>2. ASSUME NEW i \in Items
      PROVE  item'[i] \in ItemType
  <2> DEFINE home == {l \in Lanes : i \in seed.queue[l]}
             st   == IF seed.on[i] = {} THEN "queued" ELSE "blocked"
             new  == NewItem(CHOOSE l \in home : TRUE, st)
  <2>1. CASE home = {}
    <3>1. item'[i] = NewItem(None, None)
      BY <2>1 DEF GrindCreated, Blank
    <3>. QED BY <3>1, NewItemType DEF AnyStatus
  <2>2. CASE home # {}
    <3>1. (CHOOSE l \in home : TRUE) \in Lanes
      BY <2>2
    <3>2. st \in AnyStatus
      BY DEF AnyStatus, ItemStatus
    <3>3. new \in ItemType
      BY <3>1, <3>2, NewItemType
    <3>4. item'[i] = [new EXCEPT !.blocked_on = seed.on[i]]
      BY <2>2 DEF GrindCreated
    <3>. HIDE DEF new
    <3>. QED BY <1>1, <3>3, <3>4 DEF ItemType
  <2>. QED BY <2>1, <2>2
<1>3. item' \in [Items -> ItemType]
  BY <1>2 DEF GrindCreated
<1>. QED BY <1>1, <1>3 DEF GrindCreated, TypeOK, ledgers

LEMMA PrClosedType ==
    ASSUME TypeOK, NEW i \in Items, NEW p \in PRs,
           NEW next \in {"in-progress", "queued"} \cup ParkTypes, PrClosed(i, p, next)
    PROVE  TypeOK'
<1>1. item[i] \in ItemType /\ CycleEnded(item[i]) \in ItemType
  BY CycleEndedType DEF TypeOK
<1>2. fresh' \in [Items -> SUBSET PRs]
  BY TouchType DEF PrClosed, TypeOK
<1>3. closed_ledger' \in [Items -> SUBSET PRs]
  BY DEF PrClosed, TypeOK
<1>4. CASE next \in ParkTypes
  <2>1. [CycleEnded(item[i]) EXCEPT !.parked = next] \in ItemType
    BY <1>1, <1>4 DEF ItemType
  <2>2. item' \in [Items -> ItemType] /\ queue' \in [Lanes -> SUBSET Items]
    BY <1>4, <2>1, DequeuedType DEF PrClosed, TypeOK
  <2>. QED BY <1>2, <1>3, <2>2 DEF PrClosed, TypeOK
<1>5. CASE next \notin ParkTypes
  <2>1. [CycleEnded(item[i]) EXCEPT !.status = next] \in ItemType
    BY <1>1, <1>5 DEF ItemType, ItemStatus
  <2>2. item' \in [Items -> ItemType] /\ queue' \in [Lanes -> SUBSET Items]
    BY <1>5, <2>1 DEF PrClosed, TypeOK
  <2>. QED BY <1>2, <1>3, <2>2 DEF PrClosed, TypeOK
<1>. QED BY <1>4, <1>5

LEMMA ItemMergedType ==
    ASSUME TypeOK, NEW i \in Items, NEW sha \in Shas, ItemMerged(i, sha)
    PROVE  TypeOK'
<1> DEFINE pr == ClosedRef(item[i].pr)
           it == [item[i] EXCEPT !.status = "merged", !.pr = pr]
           items == [item EXCEPT ![i] = it]
<1>1. item[i] \in ItemType /\ pr \in PrRef
  BY FieldTypes, ClosedRefType DEF TypeOK
<1>2. it \in ItemType
  BY <1>1, StatusAndPrSet DEF AnyStatus, ItemStatus
<1>3. [item EXCEPT ![i].status = "merged", ![i].pr = ClosedRef(@)] = items
  BY <1>1 DEF TypeOK, ItemType
<1>4. items \in [Items -> ItemType]
  <2>. HIDE DEF it
  <2>. QED BY <1>2 DEF TypeOK
<1>5. item' \in [Items -> ItemType]
  <2>1. item' = Cascade(items)
    BY <1>3 DEF ItemMerged
  <2>. HIDE DEF items
  <2>. QED BY <1>4, <2>1, CascadeType
<1>6. fresh' \in [Items -> SUBSET PRs]
  BY TouchType DEF ItemMerged, Applies, TypeOK
<1>. QED BY <1>5, <1>6 DEF ItemMerged, Applies, TypeOK

LEMMA ItemEnqueuedType ==
    ASSUME TypeOK, NEW i \in Items, NEW l \in Lanes, NEW closure \in PRs \cup {None},
           ItemEnqueued(i, l, closure)
    PROVE  TypeOK'
<1> DEFINE abandons == closure # None /\ item[i].pr.number = closure
           back     == [item[i] EXCEPT !.parked = None, !.lane = l,
                                       !.attempts = NoAttempts, !.status = "queued"]
           entering == IF abandons
                       THEN [back EXCEPT !.pr = NoPr, !.round_history = <<>>]
                       ELSE back
           closing  == IF abandons THEN {closure} ELSE {}
<1>1. item[i] \in ItemType /\ NoAttempts \in [Kinds -> Nat] /\ NoPr \in PrRef
  BY DEF TypeOK, NoAttempts, NoPr, PrRef
<1>2. back \in ItemType
  BY <1>1 DEF ItemType, ItemStatus
<1>3. [back EXCEPT !.pr = NoPr, !.round_history = <<>>] \in ItemType
  BY <1>1, <1>2, CycleDropped
<1>4. entering \in ItemType
  BY <1>2, <1>3
<1>5. closing \in SUBSET PRs
  OBVIOUS
<1>6. /\ Touch(i, closing)
      /\ item' = Recompute([item EXCEPT ![i] = entering], i)
      /\ queue' = [queue EXCEPT ![l] = @ \cup {i}]
      /\ closed_ledger' = [closed_ledger EXCEPT ![i] = @ \cup closing]
      /\ UNCHANGED <<phase, merged_ledger>>
  BY DEF ItemEnqueued
<1>. HIDE DEF entering, closing
<1>7. item' \in [Items -> ItemType]
  <2>1. [item EXCEPT ![i] = entering] \in [Items -> ItemType]
    BY <1>4 DEF TypeOK
  <2>. QED BY <1>6, <2>1, RecomputeType
<1>8. fresh' \in [Items -> SUBSET PRs]
  BY <1>5, <1>6, TouchType DEF TypeOK
<1>. QED BY <1>5, <1>6, <1>7, <1>8 DEF TypeOK

LEMMA StatusUpdateType ==
    ASSUME TypeOK, NEW i \in Items, NEW s \in AnyStatus
    PROVE  [item EXCEPT ![i].status = s] \in [Items -> ItemType]
  BY StatusSet DEF TypeOK

LEMMA TypeInit ==
    ASSUME Init
    PROVE  TypeOK
<1>1. item \in [Items -> ItemType]
  BY NewItemType DEF Init, Blank, AnyStatus
<1>. QED BY <1>1 DEF Init, TypeOK

LEMMA TypeStep ==
    ASSUME TypeOK, [Next]_vars
    PROVE  TypeOK'
<1>. USE DEF ledgers
<1>1. CASE UNCHANGED vars
  BY <1>1 DEF vars, TypeOK
<1>2. CASE \/ Ignored \/ GrindPaused \/ GrindResumed \/ GrindFinished
  BY <1>2 DEF Ignored, GrindPaused, GrindResumed, GrindFinished, TypeOK
<1>3. ASSUME NEW seed \in Seeds, GrindCreated(seed) PROVE TypeOK'
  BY <1>3, GrindCreatedType
<1>4. ASSUME NEW i \in Items, PairedEvent(i) PROVE TypeOK'
  <2>0. item[i] \in ItemType
    BY DEF TypeOK
  <2>1. CASE ItemStarted(i)
    <3>1. [item[i] EXCEPT !.status = "in-progress"] \in ItemType
      BY <2>0, StatusSet DEF AnyStatus, ItemStatus
    <3>. QED BY <2>1, <3>1, UpdateType DEF ItemStarted
  <2>2. ASSUME NEW p \in PRs, PrOpened(i, p) PROVE TypeOK'
    <3>1. [number |-> p, closed |-> FALSE] \in PrRef
      BY DEF PrRef
    <3>2. [item[i] EXCEPT !.status = "pr-open",
                          !.pr = [number |-> p, closed |-> FALSE]] \in ItemType
      BY <2>0, <3>1, StatusAndPrSet DEF AnyStatus, ItemStatus
    <3>. QED BY <2>2, <3>2, UpdateType DEF PrOpened
  <2>3. ASSUME NEW p \in PRs, NEW next \in {"in-progress", "queued"} \cup ParkTypes,
               PrClosed(i, p, next)
        PROVE  TypeOK'
    BY <2>3, PrClosedType
  <2>4. ASSUME NEW k \in Kinds, FixAttempted(i, k) PROVE TypeOK'
    <3> DEFINE n == [item[i].attempts EXCEPT ![k] = @ + 1]
    <3>1. n \in [Kinds -> Nat]
      BY <2>0, FieldTypes
    <3>2. [item[i] EXCEPT !.attempts[k] = @ + 1] = [item[i] EXCEPT !.attempts = n]
      BY <2>0 DEF ItemType
    <3>. HIDE DEF n
    <3>3. [item[i] EXCEPT !.attempts = n] \in ItemType
      BY <2>0, <3>1, AttemptsSet
    <3>. QED BY <2>4, <3>2, <3>3, UpdateType DEF FixAttempted
  <2>5. ASSUME NEW sha \in Shas, ItemMerged(i, sha) PROVE TypeOK'
    BY <2>5, ItemMergedType
  <2>6. CASE ItemDone(i)
    <3>1. [item EXCEPT ![i].status = "done"] \in [Items -> ItemType]
      BY StatusUpdateType DEF AnyStatus, ItemStatus
    <3>2. item' \in [Items -> ItemType]
      BY <2>6, <3>1, CascadeType DEF ItemDone
    <3>. QED BY <2>6, <3>2, AppliesType DEF ItemDone, TypeOK
  <2>7. ASSUME NEW reason \in ParkTypes, ItemParked(i, reason) PROVE TypeOK'
    <3>1. [item[i] EXCEPT !.parked = reason] \in ItemType
      BY <2>0, <2>7, ParkedSet DEF ParkTypes
    <3>2. item' \in [Items -> ItemType]
      BY <2>7, <3>1 DEF ItemParked, TypeOK
    <3>. QED BY <2>7, <3>2, AppliesType, DequeuedType DEF ItemParked, TypeOK
  <2>8. ASSUME NEW l \in Lanes, NEW closure \in PRs \cup {None},
               ItemEnqueued(i, l, closure)
        PROVE  TypeOK'
    BY <2>8, ItemEnqueuedType
  <2>. QED BY <1>4, <2>1, <2>2, <2>3, <2>4, <2>5, <2>6, <2>7, <2>8 DEF PairedEvent
<1>5. ASSUME NEW i \in Items, UnpairedEvent(i) PROVE TypeOK'
  <2>1. ASSUME NEW r \in Rounds, NEW sha \in Shas,
               ReviewRound(i, r, sha) \/ ReviewVerdict(i, r, sha)
        PROVE  TypeOK'
    BY <2>1, ReviewedType, UpdateType DEF ReviewRound, ReviewVerdict
  <2>2. ASSUME NEW on \in SUBSET Items, ItemBlocked(i, on) PROVE TypeOK'
    <3>1. item[i] \in ItemType
      BY DEF TypeOK
    <3>2. [item[i] EXCEPT !.blocked_on = on] \in ItemType
      BY <3>1, BlockedOnSet
    <3>3. [item EXCEPT ![i].blocked_on = on] \in [Items -> ItemType]
      BY <3>2 DEF TypeOK
    <3>4. item' \in [Items -> ItemType]
      BY <2>2, <3>3, RecomputeType DEF ItemBlocked
    <3>. QED BY <2>2, <3>4, AppliesType DEF ItemBlocked, TypeOK
  <2>3. CASE ItemWaitingHuman(i)
    <3>1. item' \in [Items -> ItemType]
      BY <2>3, StatusUpdateType DEF ItemWaitingHuman, AnyStatus, ItemStatus
    <3>. QED BY <2>3, <3>1, AppliesType DEF ItemWaitingHuman, TypeOK
  <2>4. CASE ItemResumed(i)
    <3> DEFINE s == IF Unresolved(item, i) # {} THEN "blocked" ELSE "in-progress"
    <3>1. s \in AnyStatus
      BY DEF AnyStatus, ItemStatus
    <3>2. item' = [item EXCEPT ![i].status = s]
      BY <2>4 DEF ItemResumed
    <3>. HIDE DEF s
    <3>3. item' \in [Items -> ItemType]
      BY <3>1, <3>2, StatusUpdateType
    <3>. QED BY <2>4, <3>3, AppliesType DEF ItemResumed, TypeOK
  <2>5. ASSUME NEW reason \in SchedulingReasons \cup {Untyped}, DiscoveredParked(i, reason)
        PROVE  TypeOK'
    <3>1. [NewItem(None, "queued") EXCEPT !.parked = reason] \in ItemType
      BY NewItemType, ParkedSet DEF AnyStatus, ItemStatus, ParkTypes, ParkReasons
    <3>2. item' \in [Items -> ItemType]
      BY <2>5, <3>1 DEF DiscoveredParked, TypeOK
    <3>. QED BY <2>5, <3>2, AppliesType DEF DiscoveredParked, TypeOK
  <2>6. ASSUME NEW l \in Lanes, DiscoveredEnqueued(i, l) PROVE TypeOK'
    <3>1. item' \in [Items -> ItemType]
      BY <2>6, NewItemType DEF DiscoveredEnqueued, AnyStatus, ItemStatus, TypeOK
    <3>. QED BY <2>6, <3>1, AppliesType DEF DiscoveredEnqueued, TypeOK
  <2>7. CASE Observation(i)
    BY <2>7, AppliesType DEF Observation, TypeOK
  <2>. QED BY <1>5, <2>1, <2>2, <2>3, <2>4, <2>5, <2>6, <2>7 DEF UnpairedEvent
<1>6. ASSUME NEW i \in Items, Flag(i) PROVE TypeOK'
  BY <1>6, TouchType DEF Flag, TypeOK
<1>. QED BY <1>1, <1>2, <1>3, <1>4, <1>5, <1>6 DEF Next

\* Every event leaves a state of the right type.
THEOREM TypeCorrect == Spec => []TypeOK
<1>. QED BY TypeInit, TypeStep, PTL DEF Spec

-----------------------------------------------------------------------------
(* What each item event does to the items *)

LEMMA RecomputeEffect ==
    ASSUME NEW items \in [Items -> ItemType], NEW i \in Items,
           items[i].status \notin Terminal
    PROVE  LET new == Recompute(items, i) IN
           /\ \A j \in Items \ {i} : new[j] = items[j]
           /\ SamePlace(new[i], items[i]) /\ SameWork(new[i], items[i])
           /\ new[i].status \in {"blocked", "queued", items[i].status}
           /\ items[i].status # "blocked" => new[i].status \in {"blocked", items[i].status}
           /\ new[i].status = "blocked" <=> Unresolved(new, i) # {}
<1> DEFINE s == IF Unresolved(items, i) # {} THEN "blocked"
                ELSE IF items[i].status = "blocked" THEN "queued" ELSE items[i].status
           new == Recompute(items, i)
<1>1. s \in AnyStatus /\ s \notin Terminal
  BY FieldTypes DEF AnyStatus, ItemStatus, Terminal
<1>2. new = [items EXCEPT ![i] = [items[i] EXCEPT !.status = s]]
  BY DEF Recompute
<1>3. s = "blocked" <=> Unresolved(items, i) # {}
  OBVIOUS
<1>4. /\ s \in {"blocked", "queued", items[i].status}
      /\ items[i].status # "blocked" => s \in {"blocked", items[i].status}
  OBVIOUS
<1>. HIDE DEF s
<1>5. /\ new[i].status = s /\ SamePlace(new[i], items[i]) /\ SameWork(new[i], items[i])
      /\ \A j \in Items \ {i} : new[j] = items[j]
  BY <1>1, <1>2, StatusSet
<1>. HIDE DEF new
<1>6. Unresolved(new, i) = Unresolved(items, i)
  BY <1>1, <1>5, FieldTypes DEF Unresolved, SamePlace
<1>. QED BY <1>3, <1>4, <1>5, <1>6 DEF new

\* Cascading frees items and makes none terminal, so it opens and closes no edge.
LEMMA CascadeEffect ==
    ASSUME NEW items \in [Items -> ItemType]
    PROVE  LET new == Cascade(items) IN
           \A j \in Items :
               /\ SamePlace(new[j], items[j]) /\ SameWork(new[j], items[j])
               /\ items[j].status # "blocked" => new[j].status = items[j].status
               /\ items[j].parked # None => new[j].status = items[j].status
               /\ items[j].status = "blocked" => new[j].status \in {"blocked", "queued"}
               /\ items[j].status = "blocked" /\ new[j].status = "queued"
                      => Unresolved(new, j) = {}
               /\ new[j].parked = None /\ new[j].status = "blocked"
                      => Unresolved(new, j) # {}
<1> DEFINE new == Cascade(items)
           freed(j) == /\ items[j].parked = None /\ items[j].status = "blocked"
                       /\ Unresolved(items, j) = {}
<1>1. \A j \in Items :
          /\ SamePlace(new[j], items[j]) /\ SameWork(new[j], items[j])
          /\ new[j].status = IF freed(j) THEN "queued" ELSE items[j].status
  BY StatusSet DEF Cascade, SamePlace, SameWork, AnyStatus, ItemStatus
<1>. HIDE DEF new
<1>2. \A t \in Items : new[t].status \in Terminal <=> items[t].status \in Terminal
  BY <1>1 DEF Terminal
<1>3. \A j \in Items : Unresolved(new, j) = Unresolved(items, j)
  BY <1>1, <1>2, FieldTypes DEF Unresolved, SamePlace
<1>4. \A j \in Items : new[j].parked = items[j].parked
  BY <1>1 DEF SamePlace
<1>. QED BY <1>1, <1>3, <1>4 DEF new

Only(i) == \A j \in Items \ {i} : item'[j] = item[j]

LEMMA UpdateEffect ==
    ASSUME TypeOK, NEW i \in Items, NEW next, Update(i, next)
    PROVE  Only(i) /\ item'[i] = next /\ queue' = queue /\ merged_ledger' = merged_ledger
  BY DEF Update, Only, TypeOK, ledgers

LEMMA StartedEffect ==
    ASSUME TypeOK, NEW i \in Items, ItemStarted(i)
    PROVE  /\ item'[i].status = "in-progress" /\ Only(i) /\ queue' = queue
           /\ SamePlace(item'[i], item[i]) /\ SameWork(item'[i], item[i])
<1>1. item[i] \in ItemType
  BY DEF TypeOK
<1>2. /\ item'[i] = [item[i] EXCEPT !.status = "in-progress"]
      /\ Only(i) /\ queue' = queue
  BY UpdateEffect DEF ItemStarted
<1>. QED BY <1>1, <1>2, StatusSet, ZenonT(40) DEF AnyStatus, ItemStatus

LEMMA PrOpenedEffect ==
    ASSUME TypeOK, NEW i \in Items, NEW p \in PRs, PrOpened(i, p)
    PROVE  /\ item'[i].status = "pr-open" /\ Only(i) /\ queue' = queue
           /\ SamePlace(item'[i], item[i])
           /\ item'[i].pr = [number |-> p, closed |-> FALSE]
           /\ item'[i].attempts = item[i].attempts
           /\ item'[i].round_history = item[i].round_history
<1> DEFINE pr == [number |-> p, closed |-> FALSE]
<1>1. item[i] \in ItemType /\ pr \in PrRef
  BY DEF TypeOK, PrRef
<1>2. Update(i, [item[i] EXCEPT !.status = "pr-open", !.pr = pr])
  BY DEF PrOpened
<1>. HIDE DEF pr
<1>3. /\ item'[i] = [item[i] EXCEPT !.status = "pr-open", !.pr = pr]
      /\ Only(i) /\ queue' = queue
  BY <1>2, UpdateEffect
<1>4. /\ item'[i].status = "pr-open" /\ SamePlace(item'[i], item[i])
      /\ item'[i].pr = pr /\ item'[i].attempts = item[i].attempts
      /\ item'[i].round_history = item[i].round_history
  BY <1>1, <1>3 DEF ItemType, SamePlace
<1>. QED BY <1>3, <1>4 DEF pr

LEMMA ReviewEffect ==
    ASSUME TypeOK, NEW i \in Items, NEW r \in Rounds, NEW sha \in Shas,
           ReviewRound(i, r, sha) \/ ReviewVerdict(i, r, sha)
    PROVE  /\ item'[i].status = "in-review" /\ Only(i) /\ queue' = queue
           /\ SamePlace(item'[i], item[i])
           /\ item'[i].pr = item[i].pr /\ item'[i].attempts = item[i].attempts
           /\ item'[i].round_history = Recorded(item[i].round_history, r, sha)
<1> DEFINE h == Recorded(item[i].round_history, r, sha)
<1>1. item[i] \in ItemType
  BY DEF TypeOK
<1>2. h \in Seq(Round)
  BY <1>1, FieldTypes, RecordedType
<1>3. Reviewed(i, r, sha) = [item[i] EXCEPT !.status = "in-review", !.round_history = h]
  BY <1>1 DEF Reviewed, ItemType
<1>4. Update(i, [item[i] EXCEPT !.status = "in-review", !.round_history = h])
  BY <1>3 DEF ReviewRound, ReviewVerdict
<1>. HIDE DEF h
<1>5. /\ item'[i] = [item[i] EXCEPT !.status = "in-review", !.round_history = h]
      /\ Only(i) /\ queue' = queue
  BY <1>4, UpdateEffect
<1>6. /\ item'[i].status = "in-review" /\ SamePlace(item'[i], item[i])
      /\ item'[i].pr = item[i].pr
      /\ item'[i].attempts = item[i].attempts /\ item'[i].round_history = h
  BY <1>1, <1>5 DEF ItemType, SamePlace
<1>. QED BY <1>5, <1>6 DEF h

LEMMA PrClosedEffect ==
    ASSUME TypeOK, NEW i \in Items, NEW p \in PRs,
           NEW next \in {"in-progress", "queued"} \cup ParkTypes, PrClosed(i, p, next)
    PROVE  /\ Only(i) /\ item'[i].lane = item[i].lane
           /\ item'[i].blocked_on = item[i].blocked_on
           /\ item'[i].attempts = NoAttempts /\ item'[i].pr = ClosedRef(item[i].pr)
           /\ item'[i].round_history = <<>>
           /\ \/ /\ next \in ParkTypes /\ queue' = Dequeued(i)
                 /\ item'[i].parked = next /\ item'[i].status = item[i].status
              \/ /\ next \in {"in-progress", "queued"} /\ queue' = queue
                 /\ item'[i].parked = item[i].parked /\ item'[i].status = next
<1> DEFINE ended == CycleEnded(item[i])
<1>1. item[i] \in ItemType
  BY DEF TypeOK
<1>2. /\ ended \in ItemType /\ ended.status = item[i].status
      /\ SamePlace(ended, item[i]) /\ ended.attempts = NoAttempts
      /\ ended.pr = ClosedRef(item[i].pr) /\ ended.round_history = <<>>
  BY <1>1, CycleEndedType
<1>3. \/ /\ next \in ParkTypes /\ queue' = Dequeued(i)
         /\ item' = [item EXCEPT ![i] = [ended EXCEPT !.parked = next]]
      \/ /\ next \in {"in-progress", "queued"} /\ queue' = queue
         /\ item' = [item EXCEPT ![i] = [ended EXCEPT !.status = next]]
  BY DEF PrClosed
<1>. HIDE DEF ended
<1>4. CASE /\ next \in ParkTypes /\ queue' = Dequeued(i)
           /\ item' = [item EXCEPT ![i] = [ended EXCEPT !.parked = next]]
  <2>1. item'[i] = [ended EXCEPT !.parked = next] /\ Only(i)
    BY <1>4 DEF TypeOK, Only
  <2>2. /\ item'[i].parked = next /\ item'[i].status = ended.status
        /\ item'[i].lane = ended.lane /\ item'[i].blocked_on = ended.blocked_on
        /\ SameWork(item'[i], ended)
    BY <1>2, <2>1 DEF ItemType, SameWork
  <2>. QED BY <1>2, <1>4, <2>1, <2>2 DEF SamePlace, SameWork
<1>5. CASE /\ next \in {"in-progress", "queued"} /\ queue' = queue
           /\ item' = [item EXCEPT ![i] = [ended EXCEPT !.status = next]]
  <2>1. item'[i] = [ended EXCEPT !.status = next] /\ Only(i)
    BY <1>5 DEF TypeOK, Only
  <2>2. next \in AnyStatus
    BY <1>5 DEF AnyStatus, ItemStatus
  <2>3. /\ item'[i].status = next
        /\ SamePlace(item'[i], ended) /\ SameWork(item'[i], ended)
    BY <1>2, <2>1, <2>2, StatusSet
  <2>. QED BY <1>2, <1>5, <2>1, <2>3 DEF SamePlace, SameWork
<1>. QED BY <1>3, <1>4, <1>5

LEMMA FixAttemptedEffect ==
    ASSUME TypeOK, NEW i \in Items, NEW k \in Kinds, FixAttempted(i, k)
    PROVE  /\ item'[i].status = item[i].status /\ Only(i) /\ queue' = queue
           /\ SamePlace(item'[i], item[i]) /\ item'[i].pr = item[i].pr
           /\ item'[i].attempts = [item[i].attempts EXCEPT ![k] = @ + 1]
           /\ item'[i].round_history = item[i].round_history
<1> DEFINE n == [item[i].attempts EXCEPT ![k] = @ + 1]
<1>1. item[i] \in ItemType
  BY DEF TypeOK
<1>2. n \in [Kinds -> Nat]
  BY <1>1, FieldTypes
<1>3. [item[i] EXCEPT !.attempts[k] = @ + 1] = [item[i] EXCEPT !.attempts = n]
  BY <1>1 DEF ItemType
<1>4. Update(i, [item[i] EXCEPT !.attempts = n])
  BY <1>3 DEF FixAttempted
<1>. HIDE DEF n
<1>5. item'[i] = [item[i] EXCEPT !.attempts = n] /\ Only(i) /\ queue' = queue
  BY <1>4, UpdateEffect
<1>6. n = [item[i].attempts EXCEPT ![k] = @ + 1]
  BY DEF n
<1>. QED BY <1>1, <1>2, <1>5, <1>6, AttemptsSet

\* The loop of _cascade_unblock makes one pass: freeing an item resolves and opens
\* no edge, in whatever order a pass takes the items, and a second one frees nobody.
THEOREM OnePassSuffices ==
    ASSUME NEW items \in [Items -> ItemType]
    PROVE  /\ \A j \in Items : Unresolved(Cascade(items), j) = Unresolved(items, j)
           /\ Cascade(Cascade(items)) = Cascade(items)
<1> DEFINE new == Cascade(items)
<1>1. new = [j \in Items |-> new[j]]
  BY DEF Cascade
<1>2. \A j \in Items :
          /\ SamePlace(new[j], items[j])
          /\ new[j].status \in Terminal <=> items[j].status \in Terminal
          /\ new[j].parked = None /\ new[j].status = "blocked" => Unresolved(new, j) # {}
  BY CascadeEffect DEF Terminal
<1>. HIDE DEF new
<1>3. \A j \in Items : Unresolved(new, j) = Unresolved(items, j)
  BY <1>2, FieldTypes DEF Unresolved, SamePlace
<1>4. Cascade(new) = [j \in Items |-> new[j]]
  BY <1>2 DEF Cascade
<1>. QED BY <1>1, <1>3, <1>4 DEF new

LEMMA MergedEffect ==
    ASSUME TypeOK, NEW i \in Items, NEW sha \in Shas, ItemMerged(i, sha)
    PROVE  /\ queue' = queue
           /\ item'[i].status = "merged"
           /\ \A j \in Items :
                /\ SamePlace(item'[j], item[j])
                /\ item'[j].attempts = item[j].attempts
                /\ item'[j].round_history = item[j].round_history
                /\ item'[j].pr = IF j = i THEN ClosedRef(item[j].pr) ELSE item[j].pr
                /\ j # i /\ item[j].status # "blocked" => item'[j].status = item[j].status
                /\ j # i /\ item[j].parked # None => item'[j].status = item[j].status
                /\ j # i /\ item[j].status = "blocked"
                       => item'[j].status \in {"blocked", "queued"}
                /\ j # i /\ item[j].status = "blocked" /\ item'[j].status = "queued"
                       => Unresolved(item', j) = {}
                /\ item'[j].parked = None /\ item'[j].status = "blocked"
                       => Unresolved(item', j) # {}
<1> DEFINE pr == ClosedRef(item[i].pr)
           it == [item[i] EXCEPT !.status = "merged", !.pr = pr]
           items == [item EXCEPT ![i] = it]
<1>1. item[i] \in ItemType /\ pr \in PrRef
  BY FieldTypes, ClosedRefType DEF TypeOK
<1>2. item' = Cascade(items) /\ queue' = queue
  BY <1>1 DEF ItemMerged, TypeOK, ItemType
<1>. HIDE DEF pr
<1>3. /\ it \in ItemType /\ it.status = "merged" /\ it.pr = pr /\ SamePlace(it, item[i])
      /\ it.attempts = item[i].attempts /\ it.round_history = item[i].round_history
  <2>1. it \in ItemType
    BY <1>1, StatusAndPrSet DEF AnyStatus, ItemStatus
  <2>. QED BY <1>1, <2>1 DEF ItemType, SamePlace
<1>. HIDE DEF it
<1>4. /\ items \in [Items -> ItemType] /\ items[i] = it
      /\ \A j \in Items \ {i} : items[j] = item[j]
  BY <1>3 DEF TypeOK
<1>. HIDE DEF items
<1>5. \A j \in Items :
          /\ SamePlace(item'[j], items[j]) /\ SameWork(item'[j], items[j])
          /\ items[j].status # "blocked" => item'[j].status = items[j].status
          /\ items[j].parked # None => item'[j].status = items[j].status
          /\ items[j].status = "blocked" => item'[j].status \in {"blocked", "queued"}
          /\ items[j].status = "blocked" /\ item'[j].status = "queued"
                 => Unresolved(item', j) = {}
          /\ item'[j].parked = None /\ item'[j].status = "blocked"
                 => Unresolved(item', j) # {}
  BY <1>2, <1>4, CascadeEffect
<1>. QED BY <1>2, <1>3, <1>4, <1>5 DEF SamePlace, SameWork, pr

LEMMA DoneEffect ==
    ASSUME TypeOK, NEW i \in Items, ItemDone(i)
    PROVE  /\ queue' = queue
           /\ item'[i].status = "done"
           /\ \A j \in Items :
                /\ SamePlace(item'[j], item[j]) /\ SameWork(item'[j], item[j])
                /\ j # i /\ item[j].status # "blocked" => item'[j].status = item[j].status
                /\ j # i /\ item[j].parked # None => item'[j].status = item[j].status
                /\ j # i /\ item[j].status = "blocked"
                       => item'[j].status \in {"blocked", "queued"}
                /\ j # i /\ item[j].status = "blocked" /\ item'[j].status = "queued"
                       => Unresolved(item', j) = {}
                /\ item'[j].parked = None /\ item'[j].status = "blocked"
                       => Unresolved(item', j) # {}
<1> DEFINE it == [item[i] EXCEPT !.status = "done"]
           items == [item EXCEPT ![i] = it]
<1>1. item[i] \in ItemType
  BY DEF TypeOK
<1>2. item' = Cascade(items) /\ queue' = queue
  BY DEF ItemDone
<1>3. /\ it \in ItemType /\ it.status = "done"
      /\ SamePlace(it, item[i]) /\ SameWork(it, item[i])
  BY <1>1, StatusSet DEF AnyStatus, ItemStatus
<1>. HIDE DEF it
<1>4. /\ items \in [Items -> ItemType] /\ items[i] = it
      /\ \A j \in Items \ {i} : items[j] = item[j]
  BY <1>3 DEF TypeOK
<1>. HIDE DEF items
<1>5. \A j \in Items :
          /\ SamePlace(item'[j], items[j]) /\ SameWork(item'[j], items[j])
          /\ items[j].status # "blocked" => item'[j].status = items[j].status
          /\ items[j].parked # None => item'[j].status = items[j].status
          /\ items[j].status = "blocked" => item'[j].status \in {"blocked", "queued"}
          /\ items[j].status = "blocked" /\ item'[j].status = "queued"
                 => Unresolved(item', j) = {}
          /\ item'[j].parked = None /\ item'[j].status = "blocked"
                 => Unresolved(item', j) # {}
  BY <1>2, <1>4, CascadeEffect
<1>. QED BY <1>2, <1>3, <1>4, <1>5 DEF SamePlace, SameWork

LEMMA ParkedEffect ==
    ASSUME TypeOK, NEW i \in Items, NEW reason \in ParkTypes, ItemParked(i, reason)
    PROVE  /\ Only(i) /\ queue' = Dequeued(i) /\ item'[i].parked = reason
           /\ item'[i].status = item[i].status /\ item'[i].lane = item[i].lane
           /\ item'[i].blocked_on = item[i].blocked_on /\ SameWork(item'[i], item[i])
<1>1. item[i] \in ItemType /\ reason \in ParkTypes
  BY DEF TypeOK, ParkTypes
<1>2. item' = [item EXCEPT ![i] = [item[i] EXCEPT !.parked = reason]]
  BY DEF ItemParked
<1>3. item'[i] = [item[i] EXCEPT !.parked = reason] /\ Only(i)
  BY <1>2 DEF TypeOK, Only
<1>4. queue' = Dequeued(i)
  BY DEF ItemParked
<1>. QED BY <1>1, <1>3, <1>4, ParkedSet

LEMMA EnqueuedEffect ==
    ASSUME TypeOK, NEW i \in Items, NEW l \in Lanes, NEW closure \in PRs \cup {None},
           ItemEnqueued(i, l, closure)
    PROVE  /\ Only(i) /\ queue' = [queue EXCEPT ![l] = @ \cup {i}]
           /\ item'[i].lane = l /\ item'[i].parked = None
           /\ item'[i].blocked_on = item[i].blocked_on /\ item'[i].attempts = NoAttempts
           /\ item'[i].round_history \in {item[i].round_history, <<>>}
           /\ item'[i].pr = IF closure # None /\ item[i].pr.number = closure
                            THEN NoPr ELSE item[i].pr
           /\ item'[i].status \in {"blocked", "queued"}
           /\ item'[i].status = "blocked" <=> Unresolved(item', i) # {}
<1> DEFINE abandons == closure # None /\ item[i].pr.number = closure
           back     == [item[i] EXCEPT !.parked = None, !.lane = l,
                                       !.attempts = NoAttempts, !.status = "queued"]
           entering == IF abandons
                       THEN [back EXCEPT !.pr = NoPr, !.round_history = <<>>]
                       ELSE back
           items    == [item EXCEPT ![i] = entering]
<1>1. item[i] \in ItemType
  BY DEF TypeOK
<1>2. /\ back \in ItemType /\ back.status = "queued" /\ back.pr = item[i].pr
      /\ back.lane = l /\ back.parked = None
      /\ back.blocked_on = item[i].blocked_on /\ back.attempts = NoAttempts
      /\ back.round_history = item[i].round_history
  BY <1>1, BackSet, ZenonT(40)
<1>3. item' = Recompute(items, i) /\ queue' = [queue EXCEPT ![l] = @ \cup {i}]
  BY DEF ItemEnqueued
<1>. HIDE DEF back, abandons
<1>4. /\ entering \in ItemType /\ entering.status = "queued"
      /\ entering.pr = IF abandons THEN NoPr ELSE item[i].pr
      /\ entering.lane = l /\ entering.parked = None
      /\ entering.blocked_on = item[i].blocked_on /\ entering.attempts = NoAttempts
      /\ entering.round_history \in {item[i].round_history, <<>>}
  <2>1. CASE ~abandons
    BY <1>2, <2>1
  <2>2. CASE abandons
    <3>1. entering = [back EXCEPT !.pr = NoPr, !.round_history = <<>>]
      BY <2>2
    <3>. HIDE DEF entering
    <3>2. /\ entering \in ItemType /\ entering.pr = NoPr /\ entering.round_history = <<>>
          /\ entering.status = back.status /\ SamePlace(entering, back)
          /\ entering.attempts = back.attempts
      BY <1>2, <3>1, CycleDropped
    <3>. QED BY <1>2, <2>2, <3>2 DEF SamePlace
  <2>. QED BY <2>1, <2>2
<1>. HIDE DEF entering
<1>5. /\ items \in [Items -> ItemType] /\ items[i] = entering
      /\ \A j \in Items \ {i} : items[j] = item[j]
  BY <1>4 DEF TypeOK
<1>6. items[i].status \notin Terminal
  BY <1>4, <1>5 DEF Terminal
<1>. HIDE DEF items
<1>. QED BY <1>3, <1>4, <1>5, <1>6, RecomputeEffect DEF SamePlace, SameWork, Only, abandons

LEMMA BlockedEffect ==
    ASSUME TypeOK, NEW i \in Items, NEW on \in SUBSET Items, ItemBlocked(i, on)
    PROVE  /\ Only(i) /\ queue' = queue
           /\ item'[i].lane = item[i].lane /\ item'[i].parked = item[i].parked
           /\ item'[i].blocked_on = on /\ SameWork(item'[i], item[i])
           /\ item'[i].status \in {"blocked", "queued", item[i].status}
           /\ item[i].status # "blocked" => item'[i].status \in {"blocked", item[i].status}
           /\ item'[i].status = "blocked" <=> Unresolved(item', i) # {}
<1> DEFINE it == [item[i] EXCEPT !.blocked_on = on]
           items == [item EXCEPT ![i] = it]
<1>1. item[i] \in ItemType /\ item[i].status \notin Terminal
  BY DEF TypeOK, ItemBlocked, CanBlock, From, Blockable, Terminal
<1>2. /\ it \in ItemType /\ it.status = item[i].status /\ it.lane = item[i].lane
      /\ it.parked = item[i].parked /\ it.blocked_on = on /\ SameWork(it, item[i])
  BY <1>1, BlockedOnSet
<1>3. item' = Recompute(items, i) /\ queue' = queue
  BY DEF ItemBlocked
<1>. HIDE DEF it
<1>4. /\ items \in [Items -> ItemType] /\ items[i] = it
      /\ \A j \in Items \ {i} : items[j] = item[j]
  BY <1>2 DEF TypeOK
<1>. HIDE DEF items
<1>. QED BY <1>1, <1>2, <1>3, <1>4, RecomputeEffect DEF SamePlace, SameWork, Only

LEMMA WaitingEffect ==
    ASSUME TypeOK, NEW i \in Items, ItemWaitingHuman(i)
    PROVE  /\ item'[i].status = "waiting-human" /\ Only(i) /\ queue' = queue
           /\ SamePlace(item'[i], item[i]) /\ SameWork(item'[i], item[i])
<1>1. item[i] \in ItemType
  BY DEF TypeOK
<1>2. item'[i] = [item[i] EXCEPT !.status = "waiting-human"] /\ Only(i) /\ queue' = queue
  BY DEF ItemWaitingHuman, Only, TypeOK
<1>. QED BY <1>1, <1>2, StatusSet, ZenonT(40) DEF AnyStatus, ItemStatus

LEMMA ResumedEffect ==
    ASSUME TypeOK, NEW i \in Items, ItemResumed(i)
    PROVE  /\ item'[i].status = IF Unresolved(item, i) # {} THEN "blocked" ELSE "in-progress"
           /\ Only(i) /\ queue' = queue
           /\ SamePlace(item'[i], item[i]) /\ SameWork(item'[i], item[i])
<1> DEFINE s == IF Unresolved(item, i) # {} THEN "blocked" ELSE "in-progress"
<1>1. item[i] \in ItemType /\ s \in AnyStatus
  BY DEF TypeOK, AnyStatus, ItemStatus
<1>2. item' = [item EXCEPT ![i].status = s] /\ queue' = queue
  BY DEF ItemResumed
<1>. HIDE DEF s
<1>3. item'[i] = [item[i] EXCEPT !.status = s] /\ Only(i)
  BY <1>2 DEF Only, TypeOK
<1>4. /\ item'[i].status = s
      /\ SamePlace(item'[i], item[i]) /\ SameWork(item'[i], item[i])
  BY <1>1, <1>3, StatusSet
<1>. QED BY <1>2, <1>3, <1>4 DEF s

LEMMA DiscoveredEffect ==
    ASSUME TypeOK, NEW i \in Items
    PROVE  /\ \A reason \in SchedulingReasons \cup {Untyped} : DiscoveredParked(i, reason) =>
                /\ Only(i) /\ queue' = queue /\ item'[i].parked = reason
                /\ item'[i].status = "queued" /\ item'[i].attempts = NoAttempts
                /\ item'[i].round_history = <<>>
                /\ item'[i].blocked_on = {} /\ item'[i].pr = NoPr
           /\ \A l \in Lanes : DiscoveredEnqueued(i, l) =>
                /\ Only(i) /\ queue' = [queue EXCEPT ![l] = @ \cup {i}]
                /\ item'[i].lane = l /\ item'[i].parked = None
                /\ item'[i].status = "queued" /\ item'[i].attempts = NoAttempts
                /\ item'[i].round_history = <<>>
                /\ item'[i].blocked_on = {} /\ item'[i].pr = NoPr
  BY DEF DiscoveredParked, DiscoveredEnqueued, NewItem, Only, TypeOK

-----------------------------------------------------------------------------
(* An item is queued exactly on the lane where it is in play *)

\* The events that move no item in or out of play, or between lanes.
LEMMA PlacesKept ==
    ASSUME QueueMembership, queue' = queue,
           \A j \in Items : /\ item'[j].status = None <=> item[j].status = None
                            /\ item'[j].parked = item[j].parked
                            /\ item'[j].lane = item[j].lane
    PROVE  QueueMembership'
  BY DEF QueueMembership, Active, Known

LEMMA PlaceKept ==
    ASSUME QueueMembership, queue' = queue, NEW i \in Items, Only(i),
           item[i].status # None, item'[i].status # None,
           item'[i].parked = item[i].parked, item'[i].lane = item[i].lane
    PROVE  QueueMembership'
<1>1. \A j \in Items : j # i => item'[j] = item[j]
  BY DEF Only
<1>. QED BY <1>1, PlacesKept

LEMMA LeavesPlay ==
    ASSUME TypeOK, QueueMembership, NEW i \in Items, Only(i), Active(i),
           item'[i].parked # None, queue' = Dequeued(i)
    PROVE  QueueMembership'
<1>1. ASSUME NEW j \in Items, NEW l \in Lanes
      PROVE  j \in queue'[l] <=> Active(j)' /\ item'[j].lane = l
  <2>1. j \in queue'[l] <=> j \in queue[l] /\ j # i
    <3>1. item[i].lane \in Lanes \cup {None} /\ None \notin Lanes
      BY FieldTypes, NoneAssumption DEF TypeOK
    <3>2. i \in queue[l] <=> item[i].lane = l
      BY DEF QueueMembership
    <3>3. CASE item[i].lane = None
      BY <3>1, <3>2, <3>3 DEF Dequeued
    <3>4. CASE item[i].lane \in Lanes
      BY <3>1, <3>2, <3>4 DEF Dequeued, TypeOK
    <3>. QED BY <3>1, <3>3, <3>4
  <2>2. CASE j = i
    BY <2>1, <2>2 DEF Active
  <2>3. CASE j # i
    BY <2>1, <2>3 DEF Only, QueueMembership, Active, Known
  <2>. QED BY <2>2, <2>3
<1>. QED BY <1>1 DEF QueueMembership

LEMMA EntersPlay ==
    ASSUME TypeOK, QueueMembership, NEW i \in Items, NEW l \in Lanes, ~Active(i), Only(i),
           queue' = [queue EXCEPT ![l] = @ \cup {i}],
           item'[i].parked = None, item'[i].status # None, item'[i].lane = l
    PROVE  QueueMembership'
<1>1. ASSUME NEW j \in Items, NEW m \in Lanes
      PROVE  j \in queue'[m] <=> Active(j)' /\ item'[j].lane = m
  <2>1. j \in queue'[m] <=> j \in queue[m] \/ (j = i /\ m = l)
    BY DEF TypeOK
  <2>2. CASE j = i
    BY <2>1, <2>2 DEF QueueMembership, Active, Known
  <2>3. CASE j # i
    BY <2>1, <2>3 DEF Only, QueueMembership, Active, Known
  <2>. QED BY <2>2, <2>3
<1>. QED BY <1>1 DEF QueueMembership

\* An item is in a lane's queue exactly while it is in play on that lane.
THEOREM QueueCorrect == Spec => []QueueMembership
<1>1. Init => QueueMembership
  BY DEF Init, Blank, NewItem, QueueMembership, Active, Known
<1>2. TypeOK /\ QueueMembership /\ [Next]_vars => QueueMembership'
  <2>. SUFFICES ASSUME TypeOK, QueueMembership, [Next]_vars
                PROVE  QueueMembership'
    OBVIOUS
  <2>0. \A s \in ItemStatus : s # None
    BY NoneAssumption
  <2>1. CASE UNCHANGED vars
    BY <2>1 DEF vars, QueueMembership, Active, Known
  <2>2. CASE \/ Ignored \/ GrindPaused \/ GrindResumed \/ GrindFinished
    BY <2>2 DEF Ignored, GrindPaused, GrindResumed, GrindFinished,
                QueueMembership, Active, Known
  <2>3. ASSUME NEW seed \in Seeds, GrindCreated(seed) PROVE QueueMembership'
    <3>1. ASSUME NEW i \in Items, NEW l \in Lanes
          PROVE  i \in queue'[l] <=> Active(i)' /\ item'[i].lane = l
      <4> DEFINE home == {m \in Lanes : i \in seed.queue[m]}
                 st   == IF seed.on[i] = {} THEN "queued" ELSE "blocked"
                 new  == NewItem(CHOOSE m \in home : TRUE, st)
      <4>0. queue' = seed.queue
        BY <2>3 DEF GrindCreated
      <4>1. CASE home = {}
        <5>1. item'[i] = NewItem(None, None)
          BY <2>3, <4>1 DEF GrindCreated, Blank
        <5>2. item'[i].status = None
          BY <5>1 DEF NewItem
        <5>. QED BY <4>0, <4>1, <5>2 DEF Active, Known
      <4>2. CASE home # {}
        <5>1. (CHOOSE m \in home : TRUE) \in home
          BY <4>2
        <5>2. item'[i] = [new EXCEPT !.blocked_on = seed.on[i]]
          BY <2>3, <4>2 DEF GrindCreated
        <5>3. /\ item'[i].lane = (CHOOSE m \in home : TRUE)
              /\ item'[i].parked = None /\ item'[i].status = st
          BY <5>2 DEF NewItem
        <5>4. st # None
          BY <2>0 DEF ItemStatus
        <5>5. \A m \in home : m = (CHOOSE n \in home : TRUE)
          BY <5>1, SeedsAssumption DEF WellFormed
        <5>. QED BY <4>0, <5>1, <5>3, <5>4, <5>5 DEF Active, Known
      <4>. QED BY <4>1, <4>2
    <3>. QED BY <3>1 DEF QueueMembership
  <2>4. ASSUME NEW i \in Items, PairedEvent(i) PROVE QueueMembership'
    <3>1. CASE ItemStarted(i)
      BY <2>0, <3>1, StartedEffect, PlaceKept
         DEF ItemStarted, CanStart, From, Active, Known, SamePlace, ItemStatus
    <3>2. ASSUME NEW p \in PRs, PrOpened(i, p) PROVE QueueMembership'
      BY <2>0, <3>2, PrOpenedEffect, PlaceKept
         DEF PrOpened, CanOpenPr, From, Active, Known, SamePlace, ItemStatus
    <3>3. ASSUME NEW p \in PRs, NEW next \in {"in-progress", "queued"} \cup ParkTypes,
                 PrClosed(i, p, next)
          PROVE  QueueMembership'
      <4>1. Active(i) /\ item[i].status # None
        BY <3>3 DEF PrClosed, CanClosePr, From, Active, Known
      <4>2. next \in ParkTypes => next # None
        BY NoneAssumption
      <4>. QED BY <2>0, <3>3, <4>1, <4>2, PrClosedEffect, PlaceKept, LeavesPlay DEF ItemStatus
    <3>4. ASSUME NEW k \in Kinds, FixAttempted(i, k) PROVE QueueMembership'
      BY <3>4, FixAttemptedEffect, PlaceKept
         DEF FixAttempted, CanAttempt, From, Active, Known, SamePlace
    <3>5. ASSUME NEW sha \in Shas, ItemMerged(i, sha) PROVE QueueMembership'
      <4>1. item[i].status # None
        BY <3>5 DEF ItemMerged, CanMerge, From, Active, Known
      <4>. QED BY <2>0, <3>5, <4>1, MergedEffect, PlacesKept DEF SamePlace, ItemStatus
    <3>6. CASE ItemDone(i)
      <4>1. item[i].status # None
        BY <3>6 DEF ItemDone, CanFinishItem, From, Active, Known
      <4>. QED BY <2>0, <3>6, <4>1, DoneEffect, PlacesKept DEF SamePlace, ItemStatus
    <3>7. ASSUME NEW reason \in ParkTypes, ItemParked(i, reason) PROVE QueueMembership'
      <4>1. Active(i) /\ reason # None
        BY <3>7, NoneAssumption DEF ItemParked, CanPark, From, ParkTypes
      <4>. QED BY <3>7, <4>1, ParkedEffect, LeavesPlay
    <3>8. ASSUME NEW l \in Lanes, NEW closure \in PRs \cup {None},
                 ItemEnqueued(i, l, closure)
          PROVE  QueueMembership'
      <4>1. ~Active(i)
        BY <3>8 DEF ItemEnqueued, CanEnqueue, Active
      <4>. QED BY <2>0, <3>8, <4>1, EnqueuedEffect, EntersPlay DEF ItemStatus
    <3>. QED BY <2>4, <3>1, <3>2, <3>3, <3>4, <3>5, <3>6, <3>7, <3>8 DEF PairedEvent
  <2>5. ASSUME NEW i \in Items, UnpairedEvent(i) PROVE QueueMembership'
    <3>1. ASSUME NEW r \in Rounds, NEW sha \in Shas,
                 ReviewRound(i, r, sha) \/ ReviewVerdict(i, r, sha)
          PROVE  QueueMembership'
      <4>1. item[i].status # None
        BY <3>1 DEF ReviewRound, ReviewVerdict, CanReview, From, Active, Known
      <4>. QED BY <2>0, <3>1, <4>1, ReviewEffect, PlaceKept DEF SamePlace, ItemStatus
    <3>2. ASSUME NEW on \in SUBSET Items, ItemBlocked(i, on) PROVE QueueMembership'
      <4>1. item[i].status # None
        BY <3>2 DEF ItemBlocked, CanBlock, From, Active, Known
      <4>. QED BY <2>0, <3>2, <4>1, BlockedEffect, PlaceKept DEF ItemStatus
    <3>3. CASE ItemWaitingHuman(i)
      BY <2>0, <3>3, WaitingEffect, PlaceKept
         DEF ItemWaitingHuman, CanWait, From, Active, Known, SamePlace, ItemStatus
    <3>4. CASE ItemResumed(i)
      BY <2>0, <3>4, ResumedEffect, PlaceKept
         DEF ItemResumed, CanResume, From, Active, Known, SamePlace, ItemStatus
    <3>5. ASSUME NEW reason \in SchedulingReasons \cup {Untyped}, DiscoveredParked(i, reason)
          PROVE  QueueMembership'
      <4>1. ~Active(i) /\ reason # None
        BY <3>5, NoneAssumption DEF DiscoveredParked, Active, ParkTypes, ParkReasons
      <4>. QED BY <3>5, <4>1, DiscoveredEffect DEF QueueMembership, Active, Known, Only
    <3>6. ASSUME NEW l \in Lanes, DiscoveredEnqueued(i, l) PROVE QueueMembership'
      <4>1. ~Active(i)
        BY <3>6 DEF DiscoveredEnqueued, Active
      <4>. QED BY <2>0, <3>6, <4>1, DiscoveredEffect, EntersPlay DEF ItemStatus
    <3>7. CASE Observation(i)
      BY <3>7 DEF Observation, QueueMembership, Active, Known
    <3>. QED BY <2>5, <3>1, <3>2, <3>3, <3>4, <3>5, <3>6, <3>7 DEF UnpairedEvent
  <2>6. ASSUME NEW i \in Items, Flag(i) PROVE QueueMembership'
    BY <2>6 DEF Flag, QueueMembership, Active, Known
  <2>. QED BY <2>1, <2>2, <2>3, <2>4, <2>5, <2>6 DEF Next
<1>. QED BY <1>1, <1>2, TypeCorrect, PTL DEF Spec

=============================================================================
