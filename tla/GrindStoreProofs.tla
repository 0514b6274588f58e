-------------------------- MODULE GrindStoreProofs --------------------------
(***************************************************************************)
(* What the run checks of the grind directory on four events, proved for   *)
(* any number of them: no crash runs two lines together, the log is in the *)
(* order of the commands with its creation first, an event that reached    *)
(* the disk whole stays, an answer is a projection of the whole log, and   *)
(* the directory implements the one growing log of GrindLog.               *)
(***************************************************************************)
EXTENDS GrindStore, FiniteSetTheorems, SequenceTheorems, TLAPS

(* The append of the current command is still to come.                     *)
Ahead == op.pc \in {"repair", "truncate", "rewrite", "append"}

(* A sequence of events as the log holds them: in order, none past `top`,  *)
(* none that creates the grind but the first.                              *)
InOrder(s) == \A m, n \in DOMAIN s : m < n => s[m] < s[n]
UpTo(s, top) == \A n \in DOMAIN s : s[n] <= top
CreatedFirst(s, C) == \A n \in DOMAIN s : s[n] \in C => n = 1
Ordered(s, top, C) == InOrder(s) /\ UpTo(s, top) /\ CreatedFirst(s, C)

(* Every terminated line is an event.                                      *)
LinesAreEvents == lines \in Seq(Events)

(* A command carries the event begun last, and creations were begun.       *)
LatestEvent ==
    /\ op.pc # "idle" => op.event = appended /\ appended \in Events
    /\ creation \subseteq 1 .. appended

(* The repair takes the tail off, and puts back the log it found.          *)
RepairIsFaithful ==
    /\ op.pc \in {"rewrite", "append"} => tail = Nothing
    /\ op.pc = "truncate" => op.content = Log
    /\ op.pc = "rewrite" => lines = <<>>

(* The log, as GrindLog sees it, is older than the event still to come.    *)
LogIsOrdered ==
    Ordered(WholeLog, IF Ahead THEN appended - 1 ELSE appended, creation)

(* A creation still to come finds no log.                                  *)
CreatesAlone ==
    Ahead /\ appended \in creation =>
        op.pc \in {"repair", "append"} /\ lines = <<>> /\ tail = Nothing

(* What the command has recorded and what it has read of the log.          *)
ReadsBack ==
    /\ op.pc \in {"fold", "state", "dashboard"} => InLog(op.event)
    /\ op.pc \in {"state", "dashboard"} => op.seen = Log
    /\ op.pc = "dashboard" => cache = op.seen

IInv == /\ StoreTypeOK /\ LinesAreEvents
        /\ LatestEvent /\ RepairIsFaithful
        /\ LogIsOrdered /\ CreatesAlone /\ ReadsBack

-----------------------------------------------------------------------------
(* Reading the file back adds a last line that is whole, and drops any     *)
(* other.                                                                  *)
LEMMA EventsOfLemma ==
  ASSUME NEW ls \in Seq(Events), NEW t \in Events \cup {Nothing, Torn}
  PROVE  /\ EventsOf(ls, t) \in Seq(Events)
         /\ t \in Events => EventsOf(ls, t) = Append(ls, t)
         /\ t \in {Nothing, Torn} => EventsOf(ls, t) = ls
BY MarksAssumption, AppendProperties DEF EventsOf, IsEvent

LEMMA TornIsNotNothing == Torn # Nothing
<1>1. SUFFICES ASSUME Torn = Nothing PROVE FALSE
  OBVIOUS
<1>2. {Nothing, Torn, RunTogether} = {Nothing} \cup {RunTogether}
  BY <1>1
<1>3. IsFiniteSet({Nothing}) /\ Cardinality({Nothing}) = 1
  BY FS_Singleton
<1>4. Cardinality({Nothing} \cup {RunTogether}) \in {1, 2}
  BY <1>3, FS_AddElement
<1>5. QED
  BY <1>2, <1>4, MarksAssumption

LEMMA EventsAreNumbers == Events \subseteq Int
BY BoundsAssumption DEF Events

(* An event younger than all keeps the order when it is appended, and      *)
(* takes nothing out of the log.                                           *)
LEMMA AppendLemma ==
  ASSUME NEW s \in Seq(Events), NEW e \in Events, NEW C,
         Ordered(s, e - 1, C), e \in C => s = <<>>
  PROVE  /\ Append(s, e) \in Seq(Events)
         /\ Ordered(Append(s, e), e, C)
         /\ \A n \in DOMAIN s : n \in DOMAIN Append(s, e) /\ Append(s, e)[n] = s[n]
         /\ \E n \in DOMAIN Append(s, e) : Append(s, e)[n] = e
<1>1. s \in Seq(Int) /\ e \in Int
  BY SeqMonotonic, EventsAreNumbers
<1>2. /\ Append(s, e) \in Seq(Events)
      /\ DOMAIN s = 1 .. Len(s) /\ Len(s) \in Nat
      /\ DOMAIN Append(s, e) = 1 .. Len(s) + 1
      /\ \A n \in 1 .. Len(s) : Append(s, e)[n] = s[n]
      /\ Append(s, e)[Len(s) + 1] = e
  BY AppendProperties, LenProperties
<1>3. \A n \in 1 .. Len(s) : s[n] \in Int /\ s[n] < e
  BY <1>1, <1>2, ElementOfSeq DEF Ordered, UpTo
<1>4. InOrder(Append(s, e)) /\ UpTo(Append(s, e), e)
  BY <1>1, <1>2, <1>3 DEF Ordered, InOrder, UpTo
<1>5. CreatedFirst(Append(s, e), C)
  BY <1>2, EmptySeq DEF Ordered, CreatedFirst
<1>6. QED
  BY <1>2, <1>4, <1>5 DEF Ordered

(* So does any prefix of the log.                                          *)
LEMMA PrefixLemma ==
  ASSUME NEW s \in Seq(Events), NEW k \in 0 .. Len(s), NEW top, NEW C,
         Ordered(s, top, C)
  PROVE  SubSeq(s, 1, k) \in Seq(Events) /\ Ordered(SubSeq(s, 1, k), top, C)
<1>1. /\ DOMAIN s = 1 .. Len(s) /\ Len(s) \in Nat
      /\ \A i \in 1 .. Len(s) : s[i] \in Events
  BY LenProperties, ElementOfSeq
<1>2. /\ SubSeq(s, 1, k) \in Seq(Events)
      /\ Len(SubSeq(s, 1, k)) = k
      /\ \A i \in 1 .. k : SubSeq(s, 1, k)[i] = s[i]
  <2>1. \A i \in 1 .. k : s[i] \in Events
    BY <1>1
  <2>2. QED
    BY <2>1, SubSeqProperties, SMTT(30)
<1>3. DOMAIN SubSeq(s, 1, k) = 1 .. k
  BY <1>2, LenProperties
<1>4. QED
  BY <1>1, <1>2, <1>3 DEF Ordered, InOrder, UpTo, CreatedFirst

(* A line cut in its newline only is the same prefix.                      *)
LEMMA CutLemma ==
  ASSUME NEW s \in Seq(Events), NEW k \in 1 .. Len(s)
  PROVE  /\ SubSeq(s, 1, k - 1) \in Seq(Events)
         /\ s[k] \in Events
         /\ Append(SubSeq(s, 1, k - 1), s[k]) = SubSeq(s, 1, k)
<1>1. Len(s) \in Nat /\ \A i \in 1 .. Len(s) : s[i] \in Events
  BY LenProperties, ElementOfSeq
<1>2. SubSeq(s, 1, k - 1) \in Seq(Events)
  <2>1. \A i \in 1 .. k - 1 : s[i] \in Events
    BY <1>1
  <2>2. QED
    BY <2>1, SubSeqProperties, SMTT(30)
<1>3. SubSeq(s, 1, k) = SubSeq(s, 1, k - 1) \o <<s[k]>>
  BY <1>1, SubSeqRecursiveSecond
<1>4. QED
  BY <1>1, <1>2, <1>3, AppendIsConcat

(* A longer bound and a smaller set of creations are no stricter.          *)
LEMMA WeakenLemma ==
  ASSUME NEW s \in Seq(Events), NEW a \in Int, NEW b \in Int, NEW C, NEW D,
         Ordered(s, a, C), a <= b, \A x \in D : x <= a => x \in C
  PROVE  Ordered(s, b, D)
<1>1. \A n \in DOMAIN s : s[n] \in Int
  BY LenProperties, ElementOfSeq, EventsAreNumbers
<1>2. QED
  BY <1>1 DEF Ordered, InOrder, UpTo, CreatedFirst

-----------------------------------------------------------------------------
(* The inductive invariant.                                                *)
LEMMA InitIInv == Init => IInv
<1>1. SUFFICES ASSUME Init PROVE IInv
  OBVIOUS
<1>2. <<>> \in Seq(Events) /\ <<>> \in Seq(Events \cup {RunTogether}) /\ DOMAIN <<>> = {}
  BY EmptySeq
<1>3. Log = <<>> /\ WholeLog = <<>>
  BY <1>1 DEF Init, Log, EventsOf, IsEvent, WholeLog, Idle
<1>4. StoreTypeOK
  <2>1. op \in [pc : {"idle", "repair", "truncate", "rewrite", "append", "fold",
                     "state", "dashboard"},
               event : Events \cup {Nothing},
               content : Seq(Events), seen : Seq(Events)]
    BY <1>1, <1>2 DEF Init, Idle
  <2>2. appended \in 0 .. MaxEvents
    BY <1>1, BoundsAssumption DEF Init
  <2>3. QED
    BY <1>1, <1>2, <2>1, <2>2 DEF Init, StoreTypeOK
<1>5. LinesAreEvents /\ LatestEvent /\ RepairIsFaithful /\ CreatesAlone /\ ReadsBack
  BY <1>1, <1>2, <1>3 DEF Init, LinesAreEvents, LatestEvent, RepairIsFaithful, CreatesAlone,
     ReadsBack, Idle, Ahead
<1>6. LogIsOrdered
  BY <1>1, <1>2, <1>3 DEF LogIsOrdered, Ordered, InOrder, UpTo, CreatedFirst
<1>7. QED
  BY <1>4, <1>5, <1>6 DEF IInv

(* What the parts of the invariant say of the sequences at hand.           *)
LEMMA Facts ==
  ASSUME IInv
  PROVE  /\ lines \in Seq(Events) /\ tail \in Events \cup {Nothing, Torn}
         /\ op.content \in Seq(Events) /\ op.seen \in Seq(Events)
         /\ Log \in Seq(Events) /\ WholeLog \in Seq(Events)
         /\ tail \notin Events => Log = lines
         /\ tail \in Events => Log = Append(lines, tail)
         /\ op.pc # "rewrite" => WholeLog = Log
         /\ op.pc = "rewrite" => WholeLog = op.content /\ Log = <<>>
         /\ appended \in Int
<1>1. /\ lines \in Seq(Events) /\ tail \in Events \cup {Nothing, Torn}
      /\ op.content \in Seq(Events) /\ op.seen \in Seq(Events)
      /\ appended \in Int
  BY BoundsAssumption DEF IInv, StoreTypeOK, LinesAreEvents
<1>2. /\ Log \in Seq(Events)
      /\ tail \notin Events => Log = lines
      /\ tail \in Events => Log = Append(lines, tail)
  BY <1>1, EventsOfLemma DEF Log
<1>3. op.pc = "rewrite" => lines = <<>> /\ tail = Nothing
  BY DEF IInv, RepairIsFaithful
<1>4. QED
  BY <1>1, <1>2, <1>3, MarksAssumption DEF WholeLog

(* One command step: the last event begun is younger than the whole log.   *)
LEMMA BeginKeeps ==
  ASSUME IInv, Create \/ LogEvent
  PROVE  IInv' /\ WholeLog' = WholeLog
<1>1. /\ op.pc = "idle" /\ appended < MaxEvents
      /\ op' = [Idle EXCEPT !.pc = "repair", !.event = appended + 1]
      /\ appended' = appended + 1
      /\ UNCHANGED <<lines, tail, quarantine, cache, board, view, acked, lost>>
  BY DEF Create, LogEvent, Begin, Idle, files
<1>2. \/ creation' = creation \cup {appended + 1} /\ lines = <<>> /\ tail = Nothing
      \/ creation' = creation
  BY DEF Create, LogEvent, LogNonempty
<1>3. appended + 1 \in Events /\ appended' \in 0 .. MaxEvents /\ appended \in Nat
  BY <1>1, BoundsAssumption DEF IInv, StoreTypeOK, Events
<1>4. op' \in [pc : {"idle", "repair", "truncate", "rewrite", "append", "fold",
                     "state", "dashboard"},
               event : Events \cup {Nothing},
               content : Seq(Events), seen : Seq(Events)]
  BY <1>1, <1>3, EmptySeq DEF Idle
<1>5. op'.pc = "repair" /\ op'.event = appended + 1
  BY <1>1 DEF Idle
<1>6. StoreTypeOK' /\ LinesAreEvents'
  BY <1>1, <1>2, <1>3, <1>4 DEF IInv, StoreTypeOK, LinesAreEvents
<1>7. LatestEvent'
  <2>1. creation \subseteq 1 .. appended
    BY DEF IInv, LatestEvent
  <2>2. creation' \subseteq 1 .. appended + 1
    <3>1. 1 .. appended \subseteq 1 .. appended + 1 /\ appended + 1 \in 1 .. appended + 1
      BY <1>3
    <3>2. QED
      BY <1>2, <2>1, <3>1, Zenon
  <2>3. QED
    BY <1>1, <1>3, <1>5, <2>2 DEF LatestEvent
<1>8. RepairIsFaithful' /\ ReadsBack'
  BY <1>5 DEF RepairIsFaithful, ReadsBack
<1>9. CreatesAlone'
  BY <1>1, <1>2, <1>3, <1>5 DEF CreatesAlone, IInv, LatestEvent
<1>10. WholeLog = Log /\ WholeLog' = Log
  BY <1>1, <1>5 DEF WholeLog, Log
<1>11. LogIsOrdered'
  <2>2. Ordered(Log, appended, creation)
    BY <1>1, <1>10 DEF IInv, LogIsOrdered, Ahead
  <2>3. \A x \in creation' : x <= appended => x \in creation
    BY <1>2, <1>3
  <2>4. Ordered(Log, appended, creation')
    BY <1>3, <2>2, <2>3, Facts, WeakenLemma
  <2>5. QED
    BY <1>1, <1>3, <1>5, <1>10, <2>4 DEF LogIsOrdered, Ahead
<1>12. QED
  BY <1>6, <1>7, <1>8, <1>9, <1>10, <1>11 DEF IInv

(* The repair writes nothing, and keeps the log it will put back.          *)
LEMMA RepairKeeps ==
  ASSUME IInv, RepairTail
  PROVE  IInv' /\ WholeLog' = WholeLog
<1>1. /\ op.pc = "repair"
      /\ UNCHANGED <<lines, tail, cache, board, view, appended, creation, acked, lost>>
      /\ quarantine' \in Nat
  BY DEF RepairTail, IInv, StoreTypeOK
<1>2. \/ tail = Nothing /\ op' = [op EXCEPT !.pc = "append"]
      \/ /\ tail # Nothing
         /\ op' = [op EXCEPT !.pc = "truncate", !.content = Log]
  <2>1. tail \in Events => IsEvent(tail)
    BY MarksAssumption DEF IsEvent
  <2>2. IsEvent(tail) => tail \in Events
    BY Facts DEF IsEvent
  <2>3. Nothing \notin Events /\ Torn \notin Events
    BY MarksAssumption
  <2>4. CASE tail = Torn /\ tail # Nothing
    BY <2>2, <2>3, <2>4, Facts DEF RepairTail, Goto
  <2>5. CASE tail = Nothing
    BY <2>2, <2>3, <2>5, TornIsNotNothing DEF RepairTail, Goto
  <2>6. CASE tail \in Events
    BY <2>1, <2>2, <2>3, <2>6, Facts DEF RepairTail, Goto
  <2>7. QED
    BY <2>4, <2>5, <2>6, Facts
<1>3. op' \in [pc : {"idle", "repair", "truncate", "rewrite", "append", "fold",
                     "state", "dashboard"},
               event : Events \cup {Nothing},
               content : Seq(Events), seen : Seq(Events)]
  BY <1>2, Facts DEF IInv, StoreTypeOK
<1>4. /\ op'.pc \in {"append", "truncate"} /\ op'.event = op.event
      /\ op'.pc = "append" => tail = Nothing
      /\ op'.pc = "truncate" => op'.content = Log /\ tail # Nothing
  BY <1>2 DEF IInv, StoreTypeOK
<1>5. StoreTypeOK' /\ LinesAreEvents'
  BY <1>1, <1>3 DEF IInv, StoreTypeOK, LinesAreEvents
<1>6. LatestEvent' /\ CreatesAlone' /\ ReadsBack'
  BY <1>1, <1>4 DEF IInv, LatestEvent, CreatesAlone, ReadsBack, Ahead
<1>7. WholeLog' = WholeLog /\ Log' = Log
  BY <1>1, <1>4 DEF WholeLog, Log
<1>8. RepairIsFaithful' /\ LogIsOrdered'
  BY <1>1, <1>4, <1>7 DEF IInv, RepairIsFaithful, LogIsOrdered, Ahead
<1>9. QED
  BY <1>5, <1>6, <1>7, <1>8 DEF IInv

(* The two writes of the repair: the file is empty, then what it was.      *)
LEMMA TruncateKeeps ==
  ASSUME IInv, Truncate
  PROVE  IInv' /\ WholeLog' = WholeLog
<1>1. /\ op.pc = "truncate" /\ op.content = Log
      /\ op' = [op EXCEPT !.pc = "rewrite"]
      /\ lines' = <<>> /\ tail' = Nothing
      /\ UNCHANGED <<quarantine, cache, board, view, appended, creation, acked, lost>>
  BY DEF Truncate, Goto, IInv, RepairIsFaithful
<1>2. op' \in [pc : {"idle", "repair", "truncate", "rewrite", "append", "fold",
                     "state", "dashboard"},
               event : Events \cup {Nothing},
               content : Seq(Events), seen : Seq(Events)]
  BY <1>1 DEF IInv, StoreTypeOK
<1>3. op'.pc = "rewrite" /\ op'.content = Log /\ op'.event = op.event
  BY <1>1 DEF IInv, StoreTypeOK
<1>4. StoreTypeOK' /\ LinesAreEvents'
  BY <1>1, <1>2, EmptySeq DEF IInv, StoreTypeOK, LinesAreEvents
<1>5. LatestEvent' /\ CreatesAlone' /\ ReadsBack' /\ RepairIsFaithful'
  BY <1>1, <1>3 DEF IInv, LatestEvent, CreatesAlone, ReadsBack, RepairIsFaithful, Ahead
<1>6. WholeLog' = WholeLog
  BY <1>1, <1>3 DEF WholeLog
<1>7. LogIsOrdered'
  BY <1>1, <1>3, <1>6 DEF IInv, LogIsOrdered, Ahead
<1>8. QED
  BY <1>4, <1>5, <1>6, <1>7 DEF IInv

LEMMA RewriteKeeps ==
  ASSUME IInv, Rewrite
  PROVE  IInv' /\ WholeLog' = WholeLog
<1>1. /\ op.pc = "rewrite" /\ tail = Nothing
      /\ op' = [op EXCEPT !.pc = "append"]
      /\ lines' = op.content
      /\ UNCHANGED <<tail, quarantine, cache, board, view, appended, creation, acked, lost>>
  BY DEF Rewrite, Goto, IInv, RepairIsFaithful
<1>2. op' \in [pc : {"idle", "repair", "truncate", "rewrite", "append", "fold",
                     "state", "dashboard"},
               event : Events \cup {Nothing},
               content : Seq(Events), seen : Seq(Events)]
  BY <1>1 DEF IInv, StoreTypeOK
<1>3. op'.pc = "append" /\ op'.event = op.event
  BY <1>1 DEF IInv, StoreTypeOK
<1>4. lines' \in Seq(Events) /\ lines' \in Seq(Events \cup {RunTogether})
  BY <1>1, Facts, SeqMonotonic
<1>5. StoreTypeOK' /\ LinesAreEvents'
  BY <1>1, <1>2, <1>4 DEF IInv, StoreTypeOK, LinesAreEvents
<1>6. LatestEvent' /\ CreatesAlone' /\ ReadsBack' /\ RepairIsFaithful'
  BY <1>1, <1>3 DEF IInv, LatestEvent, CreatesAlone, ReadsBack, RepairIsFaithful, Ahead
<1>7. WholeLog' = WholeLog
  <2>1. EventsOf(lines', tail') = lines'
    BY <1>1, <1>4, EventsOfLemma
  <2>2. QED
    BY <1>1, <1>3, <2>1, Facts DEF WholeLog, Log
<1>8. LogIsOrdered'
  BY <1>1, <1>3, <1>7 DEF IInv, LogIsOrdered, Ahead
<1>9. QED
  BY <1>5, <1>6, <1>7, <1>8 DEF IInv

(* The log an appending command finds takes its event.                     *)
LEMMA AppendableLemma ==
  ASSUME IInv, op.pc = "append"
  PROVE  /\ tail = Nothing /\ Log = lines /\ WholeLog = lines
         /\ op.event = appended /\ appended \in Events
         /\ Append(lines, appended) \in Seq(Events)
         /\ \A n \in DOMAIN lines : lines[n] < appended
         /\ Ordered(Append(lines, appended), appended, creation)
         /\ \A n \in DOMAIN lines : /\ n \in DOMAIN Append(lines, appended)
                                    /\ Append(lines, appended)[n] = lines[n]
         /\ \E n \in DOMAIN Append(lines, appended) : Append(lines, appended)[n] = appended
<1>1. tail = Nothing /\ op.event = appended /\ appended \in Events
  BY DEF IInv, RepairIsFaithful, LatestEvent
<1>2. Log = lines /\ WholeLog = lines /\ lines \in Seq(Events)
  BY <1>1, Facts, MarksAssumption
<1>3. Ordered(lines, appended - 1, creation) /\ (appended \in creation => lines = <<>>)
  BY <1>2 DEF IInv, LogIsOrdered, CreatesAlone, Ahead
<1>4. \A n \in DOMAIN lines : lines[n] < appended
  <2>1. \A n \in DOMAIN lines : lines[n] \in Int /\ lines[n] <= appended - 1
    BY <1>2, <1>3, LenProperties, ElementOfSeq, EventsAreNumbers DEF Ordered, UpTo
  <2>2. QED
    BY <1>1, <2>1, EventsAreNumbers
<1>5. QED
  BY <1>1, <1>2, <1>3, <1>4, AppendLemma

LEMMA AppendKeeps ==
  ASSUME IInv, AppendLine
  PROVE  IInv' /\ WholeLog' = Append(WholeLog, appended)
<1>1. /\ op.pc = "append"
      /\ op' = [op EXCEPT !.pc = "fold"]
      /\ lines' = Append(lines, appended) /\ tail' = Nothing
      /\ UNCHANGED <<quarantine, cache, board, view, appended, creation, acked, lost>>
  BY AppendableLemma DEF AppendLine, Goto, Terminated
<1>2. op' \in [pc : {"idle", "repair", "truncate", "rewrite", "append", "fold",
                     "state", "dashboard"},
               event : Events \cup {Nothing},
               content : Seq(Events), seen : Seq(Events)]
  BY <1>1 DEF IInv, StoreTypeOK
<1>3. op'.pc = "fold" /\ op'.event = appended
  BY <1>1, AppendableLemma DEF IInv, StoreTypeOK
<1>4. /\ lines' \in Seq(Events) /\ lines' \in Seq(Events \cup {RunTogether})
      /\ Log' = lines' /\ WholeLog' = lines'
  <2>1. lines' \in Seq(Events)
    BY <1>1, AppendableLemma
  <2>2. EventsOf(lines', tail') = lines'
    BY <1>1, <2>1, EventsOfLemma
  <2>3. QED
    BY <1>3, <2>1, <2>2, SeqMonotonic DEF Log, WholeLog
<1>5. StoreTypeOK' /\ LinesAreEvents'
  BY <1>1, <1>2, <1>4 DEF IInv, StoreTypeOK, LinesAreEvents
<1>6. LatestEvent' /\ CreatesAlone' /\ RepairIsFaithful'
  BY <1>1, <1>3, AppendableLemma DEF IInv, LatestEvent, CreatesAlone, RepairIsFaithful, Ahead
<1>7. ReadsBack'
  BY <1>1, <1>3, <1>4, AppendableLemma DEF ReadsBack, InLog
<1>8. LogIsOrdered'
  BY <1>1, <1>3, <1>4, AppendableLemma DEF LogIsOrdered, Ahead
<1>9. QED
  BY <1>1, <1>4, <1>5, <1>6, <1>7, <1>8, AppendableLemma DEF IInv

(* The projections are read and written; the log stays as it is.           *)
LEMMA ProjectKeeps ==
  ASSUME IInv, Refold \/ WriteState \/ WriteDashboard
  PROVE  IInv' /\ WholeLog' = WholeLog
<1>1. /\ op.pc \in {"fold", "state", "dashboard"}
      /\ UNCHANGED <<lines, tail, quarantine, view, appended, creation, lost>>
  BY DEF Refold, WriteState, WriteDashboard
<1>2. \/ op.pc = "fold" /\ op' = [op EXCEPT !.pc = "state", !.seen = Log]
         /\ cache' = Torn /\ UNCHANGED <<board, acked>>
      \/ op.pc = "state" /\ op' = [op EXCEPT !.pc = "dashboard"]
         /\ cache' = op.seen /\ board' = Torn /\ UNCHANGED acked
      \/ op.pc = "dashboard" /\ op' = Idle
         /\ board' = op.seen /\ acked' = acked \cup {op.event} /\ UNCHANGED cache
  BY DEF Refold, WriteState, WriteDashboard, Goto
<1>3. op.event = appended /\ appended \in Events
  BY <1>1 DEF IInv, LatestEvent
<1>4. op \in [pc : {"idle", "repair", "truncate", "rewrite", "append", "fold",
                    "state", "dashboard"},
              event : Events \cup {Nothing},
              content : Seq(Events), seen : Seq(Events)]
  BY DEF IInv, StoreTypeOK
<1>5. /\ op' \in [pc : {"idle", "repair", "truncate", "rewrite", "append", "fold",
                     "state", "dashboard"},
               event : Events \cup {Nothing},
               content : Seq(Events), seen : Seq(Events)]
      /\ op'.pc \in {"state", "dashboard", "idle"}
      /\ op'.pc # "idle" => op'.event = op.event
      /\ op'.pc = "state" => op'.seen = Log
      /\ op'.pc = "dashboard" => op'.seen = op.seen /\ op.pc = "state" /\ cache' = op.seen
  <2>1. CASE op.pc = "fold"
    BY <1>2, <1>4, <2>1, Facts
  <2>2. CASE op.pc = "state"
    BY <1>2, <1>4, <2>2
  <2>3. CASE op.pc = "dashboard"
    <3>1. op' = [pc |-> "idle", event |-> Nothing, content |-> <<>>, seen |-> <<>>]
      BY <1>2, <2>3 DEF Idle
    <3>2. QED
      BY <3>1, EmptySeq
  <2>4. QED
    BY <1>1, <2>1, <2>2, <2>3
<1>6. acked' \in SUBSET Events /\ cache' \in Seq(Events) \cup {Torn}
      /\ board' \in Seq(Events) \cup {Torn}
  BY <1>2, <1>3, Facts DEF IInv, StoreTypeOK
<1>7. StoreTypeOK' /\ LinesAreEvents'
  BY <1>1, <1>5, <1>6 DEF IInv, StoreTypeOK, LinesAreEvents
<1>8. Log' = Log /\ WholeLog' = WholeLog
  BY <1>1, <1>5 DEF Log, WholeLog
<1>9. LatestEvent' /\ CreatesAlone' /\ RepairIsFaithful'
  BY <1>1, <1>3, <1>5 DEF IInv, LatestEvent, CreatesAlone, RepairIsFaithful, Ahead
<1>10. ReadsBack'
  BY <1>1, <1>5, <1>8 DEF IInv, ReadsBack, InLog
<1>11. LogIsOrdered'
  BY <1>1, <1>5, <1>8 DEF IInv, LogIsOrdered, Ahead
<1>12. QED
  BY <1>7, <1>8, <1>9, <1>10, <1>11 DEF IInv

(* A command that dies while it appends leaves the event whole, or a       *)
(* fragment that reads back as nothing.                                    *)
LEMMA CrashInAppendKeeps ==
  ASSUME IInv, CrashInAppend
  PROVE  IInv' /\ WholeLog' \in {WholeLog, Append(WholeLog, appended)}
<1>1. /\ op.pc = "append" /\ op' = Idle /\ tail' \in {Torn, appended}
      /\ UNCHANGED <<lines, quarantine, cache, board, view, appended, creation, acked, lost>>
  BY AppendableLemma DEF CrashInAppend
<1>2. op'.pc = "idle" /\ op' = [pc |-> "idle", event |-> Nothing, content |-> <<>>, seen |-> <<>>]
  BY <1>1 DEF Idle
<1>3. StoreTypeOK' /\ LinesAreEvents'
  BY <1>1, <1>2, AppendableLemma, EmptySeq DEF IInv, StoreTypeOK, LinesAreEvents
<1>4. LatestEvent' /\ CreatesAlone' /\ RepairIsFaithful' /\ ReadsBack'
  BY <1>1, <1>2 DEF IInv, LatestEvent, CreatesAlone, RepairIsFaithful, ReadsBack, Ahead
<1>5. WholeLog' = EventsOf(lines, tail')
  BY <1>1, <1>2 DEF WholeLog, Log
<1>6. WholeLog' = lines \/ WholeLog' = Append(lines, appended)
  BY <1>1, <1>5, EventsOfLemma, AppendableLemma, Facts
<1>7. Ordered(lines, appended, creation)
  <2>1. Ordered(lines, appended - 1, creation) /\ lines \in Seq(Events) /\ appended \in Int
    BY <1>1, AppendableLemma, Facts DEF IInv, LogIsOrdered, Ahead
  <2>2. QED
    BY <2>1, WeakenLemma
<1>8. LogIsOrdered'
  BY <1>1, <1>2, <1>6, <1>7, AppendableLemma DEF LogIsOrdered, Ahead
<1>9. QED
  BY <1>1, <1>3, <1>4, <1>6, <1>8, AppendableLemma DEF IInv

(* A repair that dies in its second write leaves a prefix of the log.      *)
LEMMA CrashInRewriteKeeps ==
  ASSUME IInv, CrashInRewrite
  PROVE  IInv' /\ lost' /\ \E k \in 0 .. Len(WholeLog) : WholeLog' = SubSeq(WholeLog, 1, k)
<1>1. /\ op.pc = "rewrite" /\ op' = Idle /\ lost' = TRUE
      /\ <<lines', tail'>> \in Prefixes(op.content)
      /\ UNCHANGED <<quarantine, cache, board, view, appended, creation, acked>>
  BY DEF CrashInRewrite, Prefixes
<1>2. op'.pc = "idle" /\ op' = [pc |-> "idle", event |-> Nothing, content |-> <<>>, seen |-> <<>>]
  BY <1>1 DEF Idle
<1>3. /\ op.content \in Seq(Events) /\ WholeLog = op.content /\ Len(op.content) \in Nat
      /\ DOMAIN op.content = 1 .. Len(op.content)
      /\ Ordered(op.content, appended - 1, creation) /\ appended \in Int
  BY <1>1, Facts, LenProperties DEF IInv, LogIsOrdered, Ahead
<1>4. PICK k \in 0 .. Len(op.content) :
        /\ lines' \in Seq(Events) /\ tail' \in Events \cup {Nothing, Torn}
        /\ EventsOf(lines', tail') = SubSeq(op.content, 1, k)
  <2>1. CASE \E n \in 0 .. Len(op.content), t \in {Nothing, Torn} :
               <<lines', tail'>> = <<SubSeq(op.content, 1, n), t>>
    <3>1. PICK n \in 0 .. Len(op.content) :
            lines' = SubSeq(op.content, 1, n) /\ tail' \in {Nothing, Torn}
      BY <2>1
    <3>2. lines' \in Seq(Events)
      BY <1>3, <3>1, PrefixLemma
    <3>3. QED
      BY <3>1, <3>2, EventsOfLemma
  <2>2. CASE \E n \in DOMAIN op.content :
               <<lines', tail'>> = <<SubSeq(op.content, 1, n - 1), op.content[n]>>
    <3>1. PICK n \in 1 .. Len(op.content) :
            lines' = SubSeq(op.content, 1, n - 1) /\ tail' = op.content[n]
      BY <1>3, <2>2
    <3>2. /\ lines' \in Seq(Events) /\ tail' \in Events
          /\ Append(lines', tail') = SubSeq(op.content, 1, n)
      BY <1>3, <3>1, CutLemma
    <3>3. n \in 0 .. Len(op.content)
      BY <1>3
    <3>4. QED
      BY <3>2, <3>3, EventsOfLemma
  <2>3. QED
    BY <1>1, <2>1, <2>2 DEF Prefixes
<1>5. WholeLog' = SubSeq(op.content, 1, k)
  BY <1>2, <1>4 DEF WholeLog, Log
<1>6. Ordered(WholeLog', appended, creation)
  <2>1. WholeLog' \in Seq(Events) /\ Ordered(WholeLog', appended - 1, creation)
    BY <1>3, <1>4, <1>5, PrefixLemma
  <2>2. QED
    BY <1>3, <2>1, WeakenLemma
<1>7. lines' \in Seq(Events \cup {RunTogether})
  BY <1>4, SeqMonotonic
<1>8. StoreTypeOK' /\ LinesAreEvents'
  BY <1>1, <1>2, <1>4, <1>7, EmptySeq DEF IInv, StoreTypeOK, LinesAreEvents
<1>9. LatestEvent' /\ CreatesAlone' /\ RepairIsFaithful' /\ ReadsBack'
  BY <1>1, <1>2 DEF IInv, LatestEvent, CreatesAlone, RepairIsFaithful, ReadsBack, Ahead
<1>10. LogIsOrdered'
  BY <1>1, <1>2, <1>6 DEF LogIsOrdered, Ahead
<1>11. QED
  BY <1>1, <1>3, <1>5, <1>8, <1>9, <1>10 DEF IInv

(* A death elsewhere, and `grind render`, leave the log alone.             *)
LEMMA AsideKeeps ==
  ASSUME IInv, CrashBetween \/ RenderRead \/ RenderWrite
  PROVE  IInv' /\ WholeLog' = WholeLog
<1>1. /\ op' = op \/ (op' = Idle /\ op.pc # "rewrite" /\ UNCHANGED <<view, board>>)
      /\ UNCHANGED <<lines, tail, quarantine, cache, appended, creation, acked, lost>>
  BY DEF CrashBetween, RenderRead, RenderWrite, files
<1>2. Idle \in [pc : {"idle", "repair", "truncate", "rewrite", "append", "fold",
                      "state", "dashboard"},
                event : Events \cup {Nothing},
                content : Seq(Events), seen : Seq(Events)]
  BY EmptySeq DEF Idle
<1>3. view' \in Seq(Events) \cup {Nothing} /\ board' \in Seq(Events) \cup {Torn}
  BY Facts DEF IInv, StoreTypeOK, CrashBetween, RenderRead, RenderWrite, files
<1>4. op' = op \/ op'.pc = "idle"
  BY <1>1 DEF Idle
<1>5. StoreTypeOK' /\ LinesAreEvents'
  BY <1>1, <1>2, <1>3 DEF IInv, StoreTypeOK, LinesAreEvents
<1>6. Log' = Log /\ WholeLog' = WholeLog
  BY <1>1, <1>4 DEF Log, WholeLog, Idle
<1>7. LatestEvent' /\ CreatesAlone' /\ RepairIsFaithful'
  BY <1>1, <1>4, <1>6 DEF IInv, LatestEvent, CreatesAlone, RepairIsFaithful, Ahead
<1>8. ReadsBack'
  BY <1>1, <1>4, <1>6 DEF IInv, ReadsBack, InLog
<1>9. LogIsOrdered'
  <2>1. CASE op' = op
    BY <1>1, <1>6, <2>1 DEF IInv, LogIsOrdered, Ahead
  <2>2. CASE op'.pc = "idle"
    <3>1. Ordered(WholeLog, appended, creation)
      <4>1. appended \in Int /\ WholeLog \in Seq(Events)
        BY Facts
      <4>2. Ordered(WholeLog, appended - 1, creation) \/ Ordered(WholeLog, appended, creation)
        BY DEF IInv, LogIsOrdered
      <4>3. QED
        BY <4>1, <4>2, WeakenLemma
    <3>2. QED
      BY <1>1, <1>6, <2>2, <3>1 DEF LogIsOrdered, Ahead
  <2>3. QED
    BY <1>4, <2>1, <2>2
<1>10. QED
  BY <1>5, <1>6, <1>7, <1>8, <1>9 DEF IInv

(* Every step keeps the invariant.                                         *)
LEMMA NextIInv == IInv /\ [Next]_vars => IInv'
<1>1. SUFFICES ASSUME IInv, [Next]_vars PROVE IInv'
  OBVIOUS
<1>2. CASE Create \/ LogEvent
  BY <1>1, <1>2, BeginKeeps
<1>3. CASE RepairTail
  BY <1>1, <1>3, RepairKeeps
<1>4. CASE Truncate
  BY <1>1, <1>4, TruncateKeeps
<1>5. CASE Rewrite
  BY <1>1, <1>5, RewriteKeeps
<1>6. CASE AppendLine
  BY <1>1, <1>6, AppendKeeps
<1>7. CASE Refold \/ WriteState \/ WriteDashboard
  BY <1>1, <1>7, ProjectKeeps
<1>8. CASE CrashInAppend
  BY <1>1, <1>8, CrashInAppendKeeps
<1>9. CASE CrashInRewrite
  BY <1>1, <1>9, CrashInRewriteKeeps
<1>10. CASE CrashBetween \/ RenderRead \/ RenderWrite
  BY <1>1, <1>10, AsideKeeps
<1>11. CASE UNCHANGED vars
  BY <1>1, <1>11 DEF vars, IInv, StoreTypeOK, LinesAreEvents, LatestEvent, RepairIsFaithful,
     LogIsOrdered, CreatesAlone, ReadsBack, Ahead, WholeLog, Log, InLog
<1>12. QED
  BY <1>1, <1>2, <1>3, <1>4, <1>5, <1>6, <1>7, <1>8, <1>9, <1>10, <1>11 DEF Next

(* The invariant holds of every run of the directory.                      *)
THEOREM Invariance == Spec => []IInv
<1>1. QED
  BY InitIInv, NextIInv, PTL DEF Spec

(* The files, the command and the counters keep their types.               *)
THEOREM StoreTyped == Spec => []StoreTypeOK
<1>1. IInv => StoreTypeOK
  BY DEF IInv
<1>2. QED
  BY <1>1, Invariance, PTL

(* No crash leaves a line that cannot be read back, for any number of      *)
(* commands and crashes.                                                   *)
THEOREM ReadableLog == Spec => []NeverRunTogether
<1>1. IInv => NeverRunTogether
  <2>1. SUFFICES ASSUME IInv, NEW n \in DOMAIN lines PROVE lines[n] # RunTogether
    BY DEF NeverRunTogether
  <2>2. lines[n] \in Events
    BY <2>1, Facts, LenProperties, ElementOfSeq
  <2>3. QED
    BY <2>2, MarksAssumption
<1>2. QED
  BY <1>1, Invariance, PTL

(* The log is in the order of the commands, its creation first.            *)
THEOREM OrderedLog == Spec => []CreationFirst
<1>1. IInv => CreationFirst
  <2>1. SUFFICES ASSUME IInv PROVE CreationFirst
    OBVIOUS
  <2>2. CASE op.pc # "rewrite"
    BY <2>1, <2>2, Facts DEF IInv, LogIsOrdered, Ordered, InOrder, CreatedFirst, CreationFirst
  <2>3. CASE op.pc = "rewrite"
    BY <2>1, <2>3, Facts DEF CreationFirst
  <2>4. QED
    BY <2>2, <2>3
<1>2. QED
  BY <1>1, Invariance, PTL

-----------------------------------------------------------------------------
(* What a step does to the log as GrindLog sees it.                        *)
LEMMA LogSteps ==
  ASSUME IInv, [Next]_vars
  PROVE  \/ WholeLog' = WholeLog /\ UNCHANGED <<acked, lost>>
         \/ /\ WholeLog' = WholeLog /\ UNCHANGED lost
            /\ WriteDashboard /\ acked' = acked \cup {op.event}
         \/ /\ op.pc = "append" /\ UNCHANGED <<acked, lost>>
            /\ WholeLog' = Append(WholeLog, appended)
         \/ /\ op.pc = "rewrite" /\ lost' = TRUE /\ UNCHANGED acked
            /\ \E k \in 0 .. Len(WholeLog) : WholeLog' = SubSeq(WholeLog, 1, k)
<1>1. CASE Create \/ LogEvent
  BY <1>1, BeginKeeps DEF Create, LogEvent
<1>2. CASE RepairTail
  BY <1>2, RepairKeeps DEF RepairTail
<1>3. CASE Truncate
  BY <1>3, TruncateKeeps DEF Truncate
<1>4. CASE Rewrite
  BY <1>4, RewriteKeeps DEF Rewrite
<1>5. CASE AppendLine
  BY <1>5, AppendKeeps DEF AppendLine
<1>6. CASE Refold \/ WriteState
  BY <1>6, ProjectKeeps DEF Refold, WriteState
<1>7. CASE WriteDashboard
  BY <1>7, ProjectKeeps DEF WriteDashboard
<1>8. CASE CrashInAppend
  BY <1>8, CrashInAppendKeeps DEF CrashInAppend
<1>9. CASE CrashInRewrite
  BY <1>9, CrashInRewriteKeeps DEF CrashInRewrite
<1>10. CASE CrashBetween \/ RenderRead \/ RenderWrite
  BY <1>10, AsideKeeps DEF CrashBetween, RenderRead, RenderWrite
<1>11. CASE UNCHANGED vars
  BY <1>11 DEF vars, WholeLog, Log
<1>12. QED
  BY <1>1, <1>2, <1>3, <1>4, <1>5, <1>6, <1>7, <1>8, <1>9, <1>10, <1>11 DEF Next

(* An event is durable when it is on that log.                             *)
OnLog(e) == \E n \in DOMAIN WholeLog : WholeLog[n] = e
DurableMeans == \A e \in Events : Durable(e) <=> OnLog(e)

LEMMA DurableIsOnLog == IInv => DurableMeans
<1>1. SUFFICES ASSUME IInv PROVE DurableMeans
  OBVIOUS
<1>2. CASE op.pc # "rewrite"
  BY <1>1, <1>2, Facts DEF DurableMeans, Durable, InLog, OnLog
<1>3. CASE op.pc = "rewrite"
  BY <1>1, <1>3, Facts DEF DurableMeans, Durable, InLog, OnLog
<1>4. QED
  BY <1>2, <1>3

LEMMA OnLogStays ==
  IInv /\ [Next]_vars => \A e \in Events : OnLog(e) /\ ~lost' => OnLog(e)'
<1>1. SUFFICES ASSUME IInv, [Next]_vars, NEW e \in Events, OnLog(e), ~lost'
               PROVE  OnLog(e)'
  OBVIOUS
<1>2. CASE WholeLog' = WholeLog
  BY <1>1, <1>2 DEF OnLog
<1>3. CASE op.pc = "append" /\ WholeLog' = Append(WholeLog, appended)
  BY <1>1, <1>3, AppendableLemma DEF OnLog
<1>4. QED
  BY <1>1, <1>2, <1>3, LogSteps

(* What has reached the disk whole stays, unless a repair is cut short.    *)
THEOREM DurableLog == Spec => DurableStays
<1>1. IInv /\ DurableMeans /\ DurableMeans' /\ [Next]_vars =>
        [\A e \in Events : Durable(e) /\ ~lost' => Durable(e)']_vars
  BY OnLogStays DEF DurableMeans
<1>2. QED
  BY <1>1, DurableIsOnLog, Invariance, PTL DEF Spec, DurableStays

(* An answer is a projection of the whole log, its event among it.         *)
THEOREM AnswersProject == Spec => AnswerIsProjected
<1>1. IInv /\ [Next]_vars =>
        [\A e \in acked' \ acked : InLog(e)' /\ cache' = Log' /\ board' = Log']_vars
  <2>1. SUFFICES ASSUME IInv, [Next]_vars, NEW e \in acked' \ acked
                 PROVE  InLog(e)' /\ cache' = Log' /\ board' = Log'
    OBVIOUS
  <2>2. WriteDashboard /\ e = op.event
    BY <2>1, LogSteps
  <2>3. /\ op.pc = "dashboard" /\ board' = op.seen
        /\ UNCHANGED <<lines, tail, cache>>
    BY <2>2 DEF WriteDashboard
  <2>4. Log' = Log /\ InLog(e) /\ cache = Log /\ op.seen = Log
    BY <2>1, <2>2, <2>3 DEF IInv, ReadsBack, Log
  <2>5. QED
    BY <2>3, <2>4 DEF InLog
<1>2. QED
  BY <1>1, Invariance, PTL DEF Spec, AnswerIsProjected

-----------------------------------------------------------------------------
(* The directory implements the one growing log.                           *)
LEMMA InitRefines == Init => Promise!Init
BY DEF Init, Promise!Init, WholeLog, Log, EventsOf, IsEvent, Idle

LEMMA StepRefines == IInv /\ [Next]_vars => [Promise!Next]_(Promise!vars)
<1>1. SUFFICES ASSUME IInv, [Next]_vars PROVE [Promise!Next]_(Promise!vars)
  OBVIOUS
<1>2. CASE WholeLog' = WholeLog /\ UNCHANGED <<acked, lost>>
  BY <1>2 DEF Promise!vars
<1>3. CASE /\ WholeLog' = WholeLog /\ UNCHANGED lost
           /\ WriteDashboard /\ acked' = acked \cup {op.event}
  <2>1. op.pc = "dashboard"
    BY <1>3 DEF WriteDashboard
  <2>2. op.event \in Events /\ InLog(op.event) /\ WholeLog = Log
    BY <1>1, <2>1, Facts DEF IInv, LatestEvent, ReadsBack
  <2>3. Promise!Answer(op.event)
    BY <1>3, <2>2 DEF Promise!Answer, InLog
  <2>4. QED
    BY <2>2, <2>3 DEF Promise!Next
<1>4. CASE /\ op.pc = "append" /\ UNCHANGED <<acked, lost>>
           /\ WholeLog' = Append(WholeLog, appended)
  <2>1. Promise!Record(appended) /\ appended \in Events
    BY <1>1, <1>4, AppendableLemma DEF Promise!Record
  <2>2. QED
    BY <2>1 DEF Promise!Next
<1>5. CASE /\ op.pc = "rewrite" /\ lost' = TRUE /\ UNCHANGED acked
           /\ \E k \in 0 .. Len(WholeLog) : WholeLog' = SubSeq(WholeLog, 1, k)
  BY <1>5 DEF Promise!Next, Promise!CutShort
<1>6. QED
  BY <1>1, <1>2, <1>3, <1>4, <1>5, LogSteps

(* Whatever crashes and repairs a grind directory goes through, its reader *)
(* sees the log of GrindLog.                                               *)
THEOREM OneLog == Spec => IsOneLog
<1>1. QED
  BY InitRefines, StepRefines, Invariance, PTL DEF Spec, IsOneLog, Promise!Spec

=============================================================================
