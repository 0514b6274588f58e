--------------------------- MODULE GrillLaneProofs ---------------------------
(***************************************************************************)
(* What the runs check of the turn lane on three decisions, proved for     *)
(* every set of decisions, every marking and any number of gestures and    *)
(* tenures: that one task at most holds a decision, that a landed ruling   *)
(* never reads as failed, that only the holder rules, that nothing unlocks *)
(* but by a reply, and that the lane implements the board of WaitingBoard. *)
(***************************************************************************)
EXTENDS GrillLane, TLAPS

Turn == [state : {"none", "running", "answered", "failed"},
         owes : SUBSET Decision, for : 0..MaxGestures, scope : SUBSET Decision]
Phase == [Gesture -> [Decision -> Phases]]

(* The parts of the type the inductive step uses.                          *)
LaneType == /\ phase \in Phase
            /\ turn \in [Gesture -> Turn]
            /\ lane \in [Gesture -> {"none", "open", "closed"}]
            /\ next \in 1..MaxGestures + 1

(* Nothing is known of a gesture before it is made.                        *)
Unborn == \A g \in Gesture : g >= next =>
             /\ \A x \in Decision : phase[g][x] = "none"
             /\ turn[g].state = "none"
             /\ g \notin resulted

(* A turn's thread lives in a serving process, no task of it has failed,   *)
(* and until it has been answered it has no entry on the log.              *)
Live == \A g \in Gesture : turn[g].state # "none" =>
             /\ up = "serving"
             /\ \A x \in Decision : phase[g][x] # "error"
             /\ turn[g].state # "answered" => g \notin resulted

IInv == /\ TypeOK
        /\ Unborn /\ Live
        /\ OneHolder /\ LandedIsNotFailed /\ ComposingIsAnnounced

-----------------------------------------------------------------------------
(* Superseding ends exactly the holders of the targets, and makes no       *)
(* failed and no composing task.                                           *)
LEMMA SupersedeLemma ==
  ASSUME NEW ph \in Phase, NEW T \in SUBSET Decision
  PROVE  /\ Supersede(ph, T) \in Phase
         /\ \A g \in Gesture, x \in Decision :
              Supersede(ph, T)[g][x] = IF x \in T /\ ph[g][x] \in Holding THEN "superseded" ELSE ph[g][x]
BY DEF Supersede, Phase, Phases, Holding

(* Opening tasks touches one gesture's row.                                *)
LEMMA OpenLemma ==
  ASSUME NEW ph \in Phase, NEW h \in Gesture, NEW T \in SUBSET Decision
  PROVE  /\ Open(ph, h, T) \in Phase
         /\ \A g \in Gesture, x \in Decision :
              Open(ph, h, T)[g][x] = IF g = h /\ x \in T THEN "composing" ELSE ph[g][x]
BY DEF Open, Phase, Phases

(* Ending a turn's tasks turns what composes into the phase it ended in.   *)
LEMMA EndedLemma ==
  ASSUME LaneType, NEW h \in Gesture, NEW p \in {"replied", "error"}
  PROVE  /\ Ended(h, p) \in Phase
         /\ \A g \in Gesture, x \in Decision :
              Ended(h, p)[g][x] = IF g = h /\ phase[g][x] = "composing" THEN p ELSE phase[g][x]
BY DEF Ended, Phase, Phases, LaneType

LEMMA StandingLemma ==
  ASSUME NEW ids, NEW st, NEW q PROVE Standing(ids, st, q) \subseteq ids
BY DEF Standing

LEMMA OwedLemma ==
  ASSUME LaneAssumption, NEW st, NEW q, unreplied \in 0..MaxGestures,
         asked \in [Gesture -> Decision \cup {NoDecision}]
  PROVE  Owed(st, q) \in SUBSET Decision
<1>1. CASE unreplied = 0 \/ asked[unreplied] = NoDecision
  BY <1>1 DEF Owed
<1>2. CASE ~(unreplied = 0 \/ asked[unreplied] = NoDecision)
  <2>1. asked[unreplied] \in Decision BY <1>2 DEF LaneAssumption, Gesture
  <2>2. Marks[asked[unreplied]] \in SUBSET Decision BY <2>1 DEF LaneAssumption
  <2> QED BY <1>2, <2>2, StandingLemma DEF Owed
<1> QED BY <1>1, <1>2

LEMMA IdleTurn == LaneAssumption => Idle \in Turn
BY DEF Idle, Turn, LaneAssumption

LEMMA TypeIsLaneType == TypeOK => LaneType
BY DEF TypeOK, LaneType, Phase, Turn

LEMMA ChangedLemma ==
  ASSUME NEW st \in [Decision -> {"open", "settled", "invalidated"}],
         NEW c, c.target \in Decision
  PROVE  Changed(c, st) \in [Decision -> {"open", "settled", "invalidated"}]
BY DEF Changed

LEMMA TouchedLemma ==
  ASSUME NEW q, q \subseteq Proposal, NEW x \in Decision
  PROVE  Touched(x, q) \subseteq Proposal
BY DEF Touched, Proposal

(* An announced turn is well formed.                                       *)
LEMMA AnnounceType ==
  ASSUME TypeOK, NEW g \in Gesture, g = next, NEW ids \in SUBSET Decision, NEW for \in 0..MaxGestures,
         NEW within \in SUBSET Decision, Announce(g, ids, for, within), LaneAssumption
  PROVE  /\ lane' \in [Gesture -> {"none", "open", "closed"}]
         /\ turn' \in [Gesture -> Turn]
         /\ next' \in 1..MaxGestures + 1
<1>1. [state |-> "running", owes |-> ids, scope |-> within, for |-> IF ids = {} THEN 0 ELSE for] \in Turn
  BY DEF Turn, LaneAssumption
<1>2. turn \in [Gesture -> Turn] BY DEF TypeOK, Turn
<1>3. next' \in 1..MaxGestures + 1 BY DEF Announce, Gesture, LaneAssumption
<1> QED BY <1>1, <1>2, <1>3 DEF Announce, TypeOK

LEMMA TypeInit == LaneAssumption /\ Init => TypeOK
<1> SUFFICES ASSUME LaneAssumption, Init PROVE TypeOK OBVIOUS
<1>1. MaxGestures + 1 \in Nat /\ 1 \in 1..MaxGestures + 1 BY DEF LaneAssumption
<1>2. turn \in [Gesture -> Turn] BY IdleTurn DEF Init
<1> QED BY <1>1, <1>2 DEF Init, TypeOK, Turn, LaneAssumption, Phases

LEMMA TypeNext == LaneAssumption /\ TypeOK /\ [Next]_vars => TypeOK'
<1> SUFFICES ASSUME LaneAssumption, TypeOK, [Next]_vars PROVE TypeOK' OBVIOUS
<1> USE TypeIsLaneType
<1>t. turn \in [Gesture -> Turn] /\ phase \in Phase BY DEF TypeOK, Turn, Phase
<1>i. [g \in Gesture |-> Idle] \in [Gesture -> Turn] BY IdleTurn
<1>1. ASSUME NEW d \in Decision, NEW m \in BOOLEAN, Answer(d, m) PROVE TypeOK'
  <2> DEFINE T == Targets(d, m)
  <2>1. next \in Gesture /\ unreplied' = next BY <1>1 DEF Answer, Settle
  <2>2. T \in SUBSET Decision
    BY StandingLemma DEF Targets, LaneAssumption
  <2>3. phase' \in Phase
    BY <1>1, <1>t, <2>1, <2>2, SupersedeLemma, OpenLemma DEF Answer
  <2>4. Announce(next, T, next, {}) BY <1>1 DEF Answer
  <2>5. next \in 0..MaxGestures BY <2>1 DEF Gesture, LaneAssumption
  <2>6. /\ lane' \in [Gesture -> {"none", "open", "closed"}]
        /\ turn' \in [Gesture -> Turn] /\ next' \in 1..MaxGestures + 1
    BY <2>1, <2>2, <2>4, <2>5, AnnounceType
  <2>7. queue' \subseteq Proposal BY <1>1, TouchedLemma DEF Answer, Settle, TypeOK
  <2>8. status' \in [Decision -> {"open", "settled", "invalidated"}] /\ answered' \subseteq Decision
    BY <1>1 DEF Answer, Settle, TypeOK
  <2>9. asked' \in [Gesture -> Decision \cup {NoDecision}] BY <1>1 DEF Answer, TypeOK
  <2> QED BY <1>1, <2>1, <2>3, <2>5, <2>6, <2>7, <2>8, <2>9 DEF Answer, TypeOK, Turn, Phase
<1>2. ASSUME NEW d \in Decision, NEW m \in BOOLEAN, NEW n \in {1, 2}, AnswerCut(d, m, n) PROVE TypeOK'
  <2> DEFINE T == Targets(d, m)
  <2>1. next \in Gesture /\ unreplied' = next BY <1>2 DEF AnswerCut, Settle
  <2>2. T \in SUBSET Decision
    BY StandingLemma DEF Targets, LaneAssumption
  <2>3. phase' \in Phase BY <1>2, <1>t, <2>2, SupersedeLemma DEF AnswerCut
  <2>4. next' \in 1..MaxGestures + 1 /\ next \in 0..MaxGestures
    BY <1>2, <2>1 DEF AnswerCut, Gesture, LaneAssumption
  <2>5. queue' \subseteq Proposal BY <1>2, TouchedLemma DEF AnswerCut, Settle, TypeOK
  <2>6. status' \in [Decision -> {"open", "settled", "invalidated"}] /\ answered' \subseteq Decision
    BY <1>2 DEF AnswerCut, Settle, TypeOK
  <2>7. asked' \in [Gesture -> Decision \cup {NoDecision}] BY <1>2 DEF AnswerCut, TypeOK
  <2>8. up' = "down" /\ turn' \in [Gesture -> Turn] BY <1>2, <1>i DEF AnswerCut, Die
  <2> QED BY <1>2, <2>1, <2>3, <2>4, <2>5, <2>6, <2>7, <2>8 DEF AnswerCut, Die, TypeOK, Turn, Phase
<1>3. CASE Talk
  <2>1. Owed(status, queue) \in SUBSET Decision BY OwedLemma DEF TypeOK
  <2>2. /\ lane' \in [Gesture -> {"none", "open", "closed"}]
        /\ turn' \in [Gesture -> Turn] /\ next' \in 1..MaxGestures + 1
    BY <1>3, <2>1, AnnounceType DEF Talk, TypeOK
  <2> QED BY <1>3, <2>2 DEF Talk, TypeOK, Turn, board
<1>4. ASSUME NEW p \in queue, Apply(p) PROVE TypeOK'
  <2>1. p \in Proposal BY DEF TypeOK
  <2>2. status' \in [Decision -> {"open", "settled", "invalidated"}]
    BY <1>4, <2>1, ChangedLemma DEF Apply, TypeOK, Proposal
  <2>3. answered' \subseteq Decision BY <1>4, <2>1 DEF Apply, TypeOK, Proposal
  <2>4. queue' \subseteq Proposal BY <1>4, <2>1, TouchedLemma DEF Apply, TypeOK, Proposal
  <2>5. CASE Owed(status', queue') = {}
    BY <1>4, <2>2, <2>3, <2>4, <2>5 DEF Apply, TypeOK, tasks
  <2>6. CASE Owed(status', queue') # {}
    <3>1. Owed(status', queue') \in SUBSET Decision BY OwedLemma DEF TypeOK
    <3>2. next \in Gesture /\ Announce(next, Owed(status', queue'), unreplied, {})
      BY <1>4, <2>6 DEF Apply
    <3>3. /\ lane' \in [Gesture -> {"none", "open", "closed"}]
          /\ turn' \in [Gesture -> Turn] /\ next' \in 1..MaxGestures + 1
      BY <3>1, <3>2, AnnounceType DEF TypeOK
    <3> QED BY <1>4, <2>2, <2>3, <2>4, <2>6, <3>3 DEF Apply, TypeOK, Turn
  <2> QED BY <2>5, <2>6
<1>5. ASSUME NEW p \in queue, Dismiss(p) PROVE TypeOK'
  BY <1>5 DEF Dismiss, TypeOK, tasks
<1>6. ASSUME NEW g \in Gesture, NEW x \in Decision, Retry(g, x) PROVE TypeOK'
  <2> DEFINE ph == [phase EXCEPT ![g][x] = "superseded"]
  <2>1. next \in Gesture /\ Announce(next, {x}, next, {x}) BY <1>6 DEF Retry
  <2>2. ph \in Phase BY <1>t DEF Phase, Phases
  <2>3. phase' \in Phase BY <1>6, <2>1, <2>2, OpenLemma DEF Retry
  <2>4. next \in 0..MaxGestures BY <2>1 DEF Gesture, LaneAssumption
  <2>5. /\ lane' \in [Gesture -> {"none", "open", "closed"}]
        /\ turn' \in [Gesture -> Turn] /\ next' \in 1..MaxGestures + 1
    BY <2>1, <2>4, AnnounceType
  <2>6. asked' \in [Gesture -> Decision \cup {NoDecision}] BY <1>6 DEF Retry, TypeOK
  <2> QED BY <1>6, <2>3, <2>5, <2>6 DEF Retry, TypeOK, Turn, Phase, board
<1>7. ASSUME NEW g \in Gesture, NEW x \in Decision, RetryCut(g, x) PROVE TypeOK'
  <2>1. phase' \in Phase BY <1>7, <1>t DEF RetryCut, Phase, Phases
  <2>2. up' = "down" /\ turn' \in [Gesture -> Turn] BY <1>7, <1>i DEF RetryCut, Die
  <2> QED BY <1>7, <2>1, <2>2 DEF RetryCut, Die, TypeOK, Turn, Phase, board
<1>8. CASE Crash
  <2>1. up' = "down" /\ turn' \in [Gesture -> Turn] BY <1>8, <1>i DEF Crash, Die
  <2> QED BY <1>8, <2>1 DEF Crash, Die, TypeOK, Turn, board, tasks
<1>9. CASE Restart
  BY <1>9 DEF Restart, TypeOK, board, tasks, LaneAssumption
<1>10. CASE Serve
  BY <1>10 DEF Serve, TypeOK, board, tasks
<1>11. ASSUME NEW g \in Gesture, Fail(g) PROVE TypeOK'
  <2>1. turn' \in [Gesture -> Turn] BY <1>11, <1>t DEF Fail, Turn
  <2> QED BY <1>11, <2>1 DEF Fail, TypeOK, Turn, board, tasks
<1>12. ASSUME NEW g \in Gesture, NEW doc \in Document, NEW says \in BOOLEAN, Reply(g, doc, says)
       PROVE TypeOK'
  <2>1. turn' \in [Gesture -> Turn] BY <1>12, <1>t DEF Reply, Turn
  <2>2. doc \subseteq Update BY DEF Document
  <2>3. Landing(g, doc) \subseteq Update BY <2>2 DEF Landing, Kept
  <2>4. \A c \in Update : c.target \in Decision BY DEF Update
  <2>5. answered' \subseteq Decision BY <1>12, <2>3, <2>4 DEF Reply, TypeOK
  <2>6. Queued(g, doc) \subseteq Proposal
    <3>1. ASSUME NEW c \in Update
          PROVE  [kind |-> c.kind, target |-> c.target, from |-> g, moved |-> FALSE] \in Proposal
      BY DEF Update, Proposal
    <3> QED BY <2>2, <3>1 DEF Queued, Kept
  <2>7. queue' \subseteq Proposal BY <1>12, <2>6 DEF Reply, TypeOK
  <2>8. status' \in [Decision -> {"open", "settled", "invalidated"}]
    <3>1. ASSUME NEW x \in Decision, \E c \in Landing(g, doc) : c.target = x
          PROVE  Changed(CHOOSE c \in Landing(g, doc) : c.target = x, status)[x]
                   \in {"open", "settled", "invalidated"}
      <4>1. PICK c \in Update : c = CHOOSE e \in Landing(g, doc) : e.target = x
        BY <3>1, <2>3
      <4>2. Changed(c, status) \in [Decision -> {"open", "settled", "invalidated"}]
        BY <2>4, ChangedLemma DEF TypeOK
      <4> QED BY <4>1, <4>2
    <3> QED BY <1>12, <3>1 DEF Reply, TypeOK
  <2>9. resulted' \subseteq Gesture /\ unreplied' \in 0..MaxGestures
    BY <1>12 DEF Reply, TypeOK, LaneAssumption
  <2> QED BY <1>12, <2>1, <2>5, <2>7, <2>8, <2>9 DEF Reply, TypeOK, Turn
<1>13. ASSUME NEW g \in Gesture, Close(g) PROVE TypeOK'
  <2>1. phase' \in Phase BY <1>13, EndedLemma DEF Close
  <2>2. turn' \in [Gesture -> Turn] BY <1>13, <1>t, IdleTurn DEF Close
  <2> QED BY <1>13, <2>1, <2>2 DEF Close, TypeOK, Turn, Phase, board
<1>14. ASSUME NEW g \in Gesture, CloseDead(g) PROVE TypeOK'
  <2>1. phase' \in Phase BY <1>14, EndedLemma DEF CloseDead
  <2> QED BY <1>14, <2>1 DEF CloseDead, TypeOK, Phase, board
<1>15. CASE UNCHANGED vars
  BY <1>15 DEF vars, board, tasks, TypeOK
<1> QED
  BY <1>1, <1>2, <1>3, <1>4, <1>5, <1>6, <1>7, <1>8, <1>9, <1>10, <1>11, <1>12, <1>13, <1>14, <1>15
     DEF Next, Human, Cut, Ends

-----------------------------------------------------------------------------
(* What an answer and a retry do to the rows of the task table.            *)
LEMMA AnswerRows ==
  ASSUME LaneAssumption, LaneType, NEW d \in Decision, NEW m \in BOOLEAN, Answer(d, m)
  PROVE  \A g \in Gesture, x \in Decision :
           phase'[g][x] = IF g = next /\ x \in Targets(d, m) THEN "composing"
                          ELSE IF x \in Targets(d, m) /\ phase[g][x] \in Holding
                               THEN "superseded" ELSE phase[g][x]
<1> DEFINE T == Targets(d, m)
           S == Supersede(phase, T)
<1>1. T \in SUBSET Decision /\ next \in Gesture
  BY StandingLemma DEF Targets, LaneAssumption, Answer, Settle
<1>2. phase' = Open(S, next, T) BY DEF Answer
<1>3. S \in Phase /\ \A g \in Gesture, x \in Decision :
        S[g][x] = IF x \in T /\ phase[g][x] \in Holding THEN "superseded" ELSE phase[g][x]
  BY <1>1, SupersedeLemma DEF LaneType
<1>4. \A g \in Gesture, x \in Decision :
        Open(S, next, T)[g][x] = IF g = next /\ x \in T THEN "composing" ELSE S[g][x]
  BY <1>1, <1>3, OpenLemma
<1> HIDE DEF S, T
<1> QED BY <1>2, <1>3, <1>4 DEF T

LEMMA RetryRows ==
  ASSUME LaneType, NEW h \in Gesture, NEW y \in Decision, Retry(h, y)
  PROVE  \A g \in Gesture, x \in Decision :
           phase'[g][x] = IF g = next /\ x = y THEN "composing"
                          ELSE IF g = h /\ x = y THEN "superseded" ELSE phase[g][x]
<1> DEFINE S == [phase EXCEPT ![h][y] = "superseded"]
<1>1. S \in Phase /\ \A g \in Gesture, x \in Decision :
        S[g][x] = IF g = h /\ x = y THEN "superseded" ELSE phase[g][x]
  BY DEF LaneType, Phase, Phases
<1>2. phase' = Open(S, next, {y}) /\ next \in Gesture BY DEF Retry
<1> HIDE DEF S
<1> QED BY <1>1, <1>2, OpenLemma

LEMMA InvInit == LaneAssumption /\ Init => IInv
<1> SUFFICES ASSUME LaneAssumption, Init PROVE IInv OBVIOUS
<1>1. TypeOK BY TypeInit
<1>2. Unborn /\ Live BY DEF Init, Unborn, Live, Idle
<1>3. OneHolder BY DEF Init, OneHolder, Holds, Holding
<1>4. LandedIsNotFailed /\ ComposingIsAnnounced BY DEF Init, LandedIsNotFailed, ComposingIsAnnounced
<1> QED BY <1>1, <1>2, <1>3, <1>4 DEF IInv

(* Every step keeps the invariant: what each does to the rows of the task  *)
(* table is read off first, and the invariants are argued from the rows.   *)
LEMMA InvNext == LaneAssumption /\ IInv /\ [Next]_vars => IInv'
<1> SUFFICES ASSUME LaneAssumption, IInv, [Next]_vars PROVE IInv' OBVIOUS
<1>t. TypeOK /\ TypeOK' BY TypeNext DEF IInv
<1>l. LaneType /\ LaneType' BY <1>t, TypeIsLaneType DEF TypeOK, LaneType, Phase, Turn
<1>r. resulted \subseteq Gesture /\ resulted' \subseteq Gesture BY <1>t DEF TypeOK
<1>n. next \in Int /\ Gesture \subseteq Int BY DEF LaneType, LaneAssumption, Gesture, IInv, TypeOK
<1>p. phase \in Phase /\ turn \in [Gesture -> Turn] BY <1>l DEF LaneType
<1> DEFINE Rest == Unborn' /\ Live' /\ OneHolder' /\ LandedIsNotFailed' /\ ComposingIsAnnounced'
<1> SUFFICES Rest BY <1>t DEF IInv
<1>1. ASSUME NEW d \in Decision, NEW m \in BOOLEAN, Answer(d, m) PROVE Rest
  <2> DEFINE T == Targets(d, m)
  <2>1. T \in SUBSET Decision BY StandingLemma DEF Targets, LaneAssumption
  <2>2. next \in Gesture /\ next' = next + 1 /\ up = "serving" /\ up' = up /\ resulted' = resulted
    BY <1>1 DEF Answer, Settle, Announce
  <2>3. \A g \in Gesture, x \in Decision :
          phase'[g][x] = IF g = next /\ x \in T THEN "composing"
                         ELSE IF x \in T /\ phase[g][x] \in Holding THEN "superseded" ELSE phase[g][x]
    BY <1>1, <1>l, AnswerRows
  <2>4. /\ \A g \in Gesture : g # next => turn'[g] = turn[g] /\ lane'[g] = lane[g]
        /\ lane'[next] = "open" /\ turn'[next].state = "running"
    BY <1>1, <1>t, <2>2 DEF Answer, Announce, TypeOK
  <2> HIDE DEF T
  <2>5. \A x \in Decision : phase[next][x] = "none" BY <1>n, <2>2 DEF IInv, Unborn
  <2>6. next \notin resulted BY <1>n, <2>2 DEF IInv, Unborn
  <2>7. Unborn' BY <1>n, <2>2, <2>3, <2>4 DEF IInv, Unborn, Holding
  <2>8. Live' BY <2>2, <2>3, <2>4, <2>5, <2>6 DEF IInv, Live
  <2>9. OneHolder' BY <2>2, <2>3, <2>5 DEF IInv, OneHolder, Holds, Holding
  <2>10. LandedIsNotFailed' BY <1>r, <2>2, <2>3 DEF IInv, LandedIsNotFailed
  <2>11. ComposingIsAnnounced' BY <2>2, <2>3, <2>4 DEF IInv, ComposingIsAnnounced
  <2> QED BY <2>7, <2>8, <2>9, <2>10, <2>11
<1>2. ASSUME NEW d \in Decision, NEW m \in BOOLEAN, NEW n \in {1, 2}, AnswerCut(d, m, n) PROVE Rest
  <2> DEFINE T == Targets(d, m)
  <2>1. T \in SUBSET Decision BY StandingLemma DEF Targets, LaneAssumption
  <2>2. next' = next + 1 /\ resulted' = resulted /\ lane' = lane BY <1>2 DEF AnswerCut
  <2>3. \A g \in Gesture, x \in Decision :
           phase'[g][x] = phase[g][x] \/ (phase[g][x] \in Holding /\ phase'[g][x] = "superseded")
    <3>1. phase' = phase \/ phase' = Supersede(phase, T) BY <1>2 DEF AnswerCut
    <3>2. \A g \in Gesture, x \in Decision :
            Supersede(phase, T)[g][x] = IF x \in T /\ phase[g][x] \in Holding
                                        THEN "superseded" ELSE phase[g][x]
      BY <1>p, <2>1, SupersedeLemma
    <3> QED BY <3>1, <3>2
  <2>4. \A g \in Gesture : turn'[g].state = "none" BY <1>2 DEF AnswerCut, Die, Idle
  <2> HIDE DEF T
  <2>5. Unborn'
    <3>1. \A g \in Gesture : g >= next' => g >= next BY <1>n, <2>2
    <3> QED BY <2>2, <2>3, <2>4, <3>1 DEF IInv, Unborn, Holding
  <2>6. Live' BY <2>4 DEF Live
  <2>7. OneHolder' BY <2>3 DEF IInv, OneHolder, Holds, Holding
  <2>8. LandedIsNotFailed' /\ ComposingIsAnnounced'
    BY <1>r, <2>2, <2>3 DEF IInv, LandedIsNotFailed, ComposingIsAnnounced, Holding
  <2> QED BY <2>5, <2>6, <2>7, <2>8
<1>3. ASSUME NEW ids, NEW for, NEW within, next \in Gesture, Announce(next, ids, for, within),
             up = "serving", UNCHANGED <<phase, resulted, up>>
      PROVE Rest
  <2>1. /\ \A g \in Gesture : g # next => turn'[g] = turn[g] /\ lane'[g] = lane[g]
        /\ lane'[next] = "open" /\ turn'[next].state = "running" /\ next' = next + 1
    BY <1>3, <1>t DEF Announce, TypeOK
  <2>2. Unborn'
    <3>1. \A g \in Gesture : g >= next' => g >= next /\ g # next BY <1>n, <2>1
    <3> QED BY <1>3, <2>1, <3>1 DEF IInv, Unborn
  <2>3. \A x \in Decision : phase[next][x] = "none" BY <1>n, <1>3 DEF IInv, Unborn
  <2>4. next \notin resulted BY <1>n, <1>3 DEF IInv, Unborn
  <2>5. Live' BY <1>3, <2>1, <2>3, <2>4 DEF IInv, Live
  <2>6. OneHolder' /\ LandedIsNotFailed' BY <1>3 DEF IInv, OneHolder, Holds, LandedIsNotFailed
  <2>7. ComposingIsAnnounced' BY <1>3, <2>1 DEF IInv, ComposingIsAnnounced
  <2> QED BY <2>2, <2>5, <2>6, <2>7
<1>4. CASE UNCHANGED <<phase, resulted, up, turn, lane, next>>
  BY <1>4 DEF IInv, Unborn, Live, OneHolder, Holds, LandedIsNotFailed, ComposingIsAnnounced
<1>5. CASE Talk BY <1>3, <1>5 DEF Talk
<1>6. ASSUME NEW p \in queue, Apply(p) PROVE Rest
  <2>1. CASE Owed(status', queue') = {} BY <1>4, <1>6, <2>1 DEF Apply, tasks
  <2>2. CASE Owed(status', queue') # {} BY <1>3, <1>6, <2>2 DEF Apply
  <2> QED BY <2>1, <2>2
<1>7. ASSUME NEW p \in queue, Dismiss(p) PROVE Rest BY <1>4, <1>7 DEF Dismiss, tasks
<1>8. ASSUME NEW h \in Gesture, NEW y \in Decision, Retry(h, y) PROVE Rest
  <2>1. next \in Gesture /\ next' = next + 1 /\ up = "serving" /\ up' = up /\ resulted' = resulted
        /\ phase[h][y] = "error"
    BY <1>8 DEF Retry, Announce, RetryStarts
  <2>4. \A g \in Gesture, x \in Decision :
          phase'[g][x] = IF g = next /\ x = y THEN "composing"
                         ELSE IF g = h /\ x = y THEN "superseded" ELSE phase[g][x]
    BY <1>8, <1>l, RetryRows
  <2>5. /\ \A g \in Gesture : g # next => turn'[g] = turn[g] /\ lane'[g] = lane[g]
        /\ lane'[next] = "open" /\ turn'[next].state = "running"
    BY <1>8, <1>t, <2>1 DEF Retry, Announce, TypeOK
  <2>6. (\A x \in Decision : phase[next][x] = "none") /\ next \notin resulted
    BY <1>n, <2>1 DEF IInv, Unborn
  <2>7. h < next BY <1>n, <2>1 DEF IInv, Unborn
  <2>8. Unborn' BY <1>n, <2>1, <2>4, <2>5, <2>7 DEF IInv, Unborn
  <2>9. Live' BY <2>1, <2>4, <2>5, <2>6 DEF IInv, Live
  <2>10. OneHolder'
    <3>1. \A g \in Gesture : Holds(g, y) => g = h BY <2>1 DEF IInv, OneHolder, Holds, Holding
    <3>2. \A g \in Gesture : Holds(g, y)' => g = next BY <2>4, <3>1 DEF Holds, Holding
    <3>3. \A g \in Gesture, x \in Decision : x # y /\ Holds(g, x)' => Holds(g, x)
      BY <2>4 DEF Holds, Holding
    <3> QED BY <3>2, <3>3 DEF IInv, OneHolder
  <2>11. LandedIsNotFailed' BY <1>r, <2>1, <2>4 DEF IInv, LandedIsNotFailed
  <2>12. ComposingIsAnnounced' BY <2>4, <2>5 DEF IInv, ComposingIsAnnounced
  <2> QED BY <2>8, <2>9, <2>10, <2>11, <2>12
<1>9. ASSUME NEW h \in Gesture, NEW y \in Decision, RetryCut(h, y) PROVE Rest
  <2>1. \A g \in Gesture, x \in Decision :
          phase'[g][x] = phase[g][x] \/ (phase[g][x] \in Holding /\ phase'[g][x] = "superseded")
    <3>1. phase' = [phase EXCEPT ![h][y] = "superseded"] /\ phase[h][y] = "error"
      BY <1>9 DEF RetryCut, RetryStarts
    <3>2. \A g \in Gesture, x \in Decision :
            phase'[g][x] = IF g = h /\ x = y THEN "superseded" ELSE phase[g][x]
      BY <1>p, <3>1 DEF Phase
    <3> QED BY <3>1, <3>2 DEF Holding
  <2>2. (\A g \in Gesture : turn'[g].state = "none") /\ UNCHANGED <<next, resulted, lane>>
    BY <1>9 DEF RetryCut, Die, Idle
  <2>3. Unborn'
    <3> SUFFICES ASSUME NEW g \in Gesture, g >= next
                 PROVE (\A x \in Decision : phase'[g][x] = "none") /\ turn'[g].state = "none"
                       /\ g \notin resulted
      BY <2>2 DEF Unborn
    <3>1. (\A x \in Decision : phase[g][x] = "none") /\ g \notin resulted BY DEF IInv, Unborn
    <3>2. \A x \in Decision : phase'[g][x] = "none" BY <2>1, <3>1 DEF Holding
    <3> QED BY <2>2, <3>1, <3>2
  <2>4. Live' BY <2>2 DEF Live
  <2>5. OneHolder' BY <2>1 DEF IInv, OneHolder, Holds, Holding
  <2>6. LandedIsNotFailed' /\ ComposingIsAnnounced'
    BY <1>r, <2>1, <2>2 DEF IInv, LandedIsNotFailed, ComposingIsAnnounced, Holding
  <2> QED BY <2>3, <2>4, <2>5, <2>6
<1>10. CASE Crash \/ Restart \/ Serve
  <2>1. UNCHANGED <<phase, resulted, lane, next>> BY <1>10 DEF Crash, Restart, Serve, tasks
  <2>2. \A g \in Gesture : turn'[g].state # "none" => turn'[g] = turn[g] /\ up' = "serving"
    BY <1>10 DEF Crash, Die, Idle, Restart, Serve, IInv, Live
  <2>3. Live' BY <2>1, <2>2 DEF IInv, Live
  <2>4. \A g \in Gesture : turn[g].state = "none" => turn'[g].state = "none" BY <2>2
  <2>5. Unborn' BY <2>1, <2>4 DEF IInv, Unborn
  <2> QED BY <2>1, <2>3, <2>5 DEF IInv, OneHolder, Holds, LandedIsNotFailed, ComposingIsAnnounced
<1>11. ASSUME NEW h \in Gesture, Fail(h) PROVE Rest
  <2>1. UNCHANGED <<phase, resulted, lane, next, up>> BY <1>11 DEF Fail, tasks
  <2>2. /\ turn[h].state = "running" /\ turn'[h].state = "failed"
        /\ \A g \in Gesture : g # h => turn'[g] = turn[g]
    BY <1>11, <1>p DEF Fail, Turn
  <2>3. Unborn' BY <2>1, <2>2 DEF IInv, Unborn
  <2>4. Live' BY <2>1, <2>2 DEF IInv, Live
  <2> QED BY <2>1, <2>3, <2>4 DEF IInv, OneHolder, Holds, LandedIsNotFailed, ComposingIsAnnounced
<1>12. ASSUME NEW h \in Gesture, NEW doc \in Document, NEW says \in BOOLEAN, Reply(h, doc, says)
       PROVE Rest
  <2>1. UNCHANGED <<phase, lane, next, up>> BY <1>12 DEF Reply
  <2>2. /\ turn[h].state = "running" /\ turn'[h].state = "answered"
        /\ \A g \in Gesture : g # h => turn'[g] = turn[g]
    BY <1>12, <1>p DEF Reply, Turn
  <2>3. \A g \in resulted' : g \in resulted \/ g = h BY <1>12 DEF Reply
  <2>4. \A x \in Decision : phase[h][x] # "error" BY <2>2 DEF IInv, Live
  <2>5. Unborn' BY <2>1, <2>2, <2>3 DEF IInv, Unborn
  <2>6. Live' BY <2>1, <2>2, <2>3 DEF IInv, Live
  <2>7. LandedIsNotFailed' BY <2>1, <2>3, <2>4 DEF IInv, LandedIsNotFailed
  <2> QED BY <2>1, <2>5, <2>6, <2>7 DEF IInv, OneHolder, Holds, ComposingIsAnnounced
<1>13. ASSUME NEW h \in Gesture, NEW p \in {"replied", "error"},
              phase' = Ended(h, p), lane' = [lane EXCEPT ![h] = "closed"],
              p = "error" => h \notin resulted, turn'[h].state = "none",
              \A g \in Gesture : g # h => turn'[g] = turn[g],
              UNCHANGED <<next, resulted, up>>
       PROVE Rest
  <2>1. \A g \in Gesture, x \in Decision :
          phase'[g][x] = IF g = h /\ phase[g][x] = "composing" THEN p ELSE phase[g][x]
    BY <1>l, <1>13, EndedLemma
  <2>2. lane'[h] = "closed" /\ \A g \in Gesture : g # h => lane'[g] = lane[g]
    BY <1>13, <1>t DEF TypeOK
  <2>3. Unborn' BY <1>13, <2>1 DEF IInv, Unborn
  <2>4. Live' BY <1>13, <2>1 DEF IInv, Live
  <2>5. OneHolder' BY <2>1 DEF IInv, OneHolder, Holds, Holding
  <2>6. LandedIsNotFailed' BY <1>13, <1>r, <2>1 DEF IInv, LandedIsNotFailed
  <2>7. ComposingIsAnnounced' BY <2>1, <2>2 DEF IInv, ComposingIsAnnounced
  <2> QED BY <2>3, <2>4, <2>5, <2>6, <2>7
<1>14. ASSUME NEW h \in Gesture, Close(h) PROVE Rest
  <2> DEFINE p == IF turn[h].state = "answered" THEN "replied" ELSE "error"
  <2>1. p = "error" => h \notin resulted BY <1>14 DEF Close, IInv, Live
  <2>2. turn'[h].state = "none" /\ \A g \in Gesture : g # h => turn'[g] = turn[g]
    BY <1>14, <1>p DEF Close, Idle
  <2> QED BY <1>13, <1>14, <2>1, <2>2 DEF Close
<1>15. ASSUME NEW h \in Gesture, CloseDead(h) PROVE Rest
  <2> DEFINE p == IF h \in resulted THEN "replied" ELSE "error"
  <2>1. turn[h].state = "none" BY <1>15 DEF CloseDead, IInv, Live
  <2> QED BY <1>13, <1>15, <2>1 DEF CloseDead
<1>16. CASE UNCHANGED vars BY <1>4, <1>16 DEF vars, tasks
<1> QED
  BY <1>1, <1>2, <1>5, <1>6, <1>7, <1>8, <1>9, <1>10, <1>11, <1>12, <1>14, <1>15, <1>16
     DEF Next, Human, Cut, Ends

(* The invariant of the specification: all that is proved here rests on it. *)
THEOREM Invariance == Spec => []IInv
<1>1. Init => IInv BY InvInit, LaneAssumption
<1>2. IInv /\ [Next]_vars => IInv' BY InvNext, LaneAssumption
<1> QED BY <1>1, <1>2, PTL DEF Spec

(* The folded log and the process keep their types.                        *)
THEOREM Typed == Spec => []TypeOK
<1>1. IInv => TypeOK BY DEF IInv
<1> QED BY <1>1, Invariance, PTL

(* Whatever is superseded, retried, cut short by a crash or closed by the  *)
(* next tenure, a decision waits for one task at most (PND-A3).            *)
THEOREM WaitsForOne == Spec => []OneHolder
<1>1. IInv => OneHolder BY DEF IInv
<1> QED BY <1>1, Invariance, PTL

(* A ruling that reached the log is never asked for again as a failed one. *)
THEOREM LandedStaysLanded == Spec => []LandedIsNotFailed
<1>1. IInv => LandedIsNotFailed BY DEF IInv
<1> QED BY <1>1, Invariance, PTL

(* What is being weighed is announced, so a restart finds all of it.       *)
THEOREM WeighedIsAnnounced == Spec => []ComposingIsAnnounced
<1>1. IInv => ComposingIsAnnounced BY DEF IInv
<1> QED BY <1>1, Invariance, PTL
-----------------------------------------------------------------------------
(* A running turn knows the gesture whose tasks it carries, and what it    *)
(* owes: so it sees it when one of them is taken over.                     *)
Owing == \A g \in Gesture : turn[g].state = "running" =>
           \A x \in Decision : phase[g][x] # "none" => x \in turn[g].owes /\ turn[g].for = g

(* What a step makes of the table: rows change only from a task that is    *)
(* there, but for those of the turn it announces.                          *)
LEMMA OwingNext ==
  ASSUME LaneAssumption, IInv, Owing, [Next]_vars
  PROVE  Owing'
<1>t. TypeOK BY DEF IInv
<1>l. LaneType /\ phase \in Phase /\ turn \in [Gesture -> Turn] BY <1>t, TypeIsLaneType DEF LaneType
<1>n. next \in Gesture => \A x \in Decision : phase[next][x] = "none"
  BY DEF IInv, Unborn, Gesture, LaneAssumption
<1>1. ASSUME NEW ids, NEW for, NEW within, next \in Gesture, Announce(next, ids, for, within)
      PROVE  /\ \A g \in Gesture : g # next => turn'[g] = turn[g]
             /\ turn'[next].owes = ids /\ (ids # {} => turn'[next].for = for)
  BY <1>l, <1>1 DEF Announce
<1>2. ASSUME NEW d \in Decision, NEW m \in BOOLEAN, Answer(d, m) PROVE Owing'
  <2>1. next \in Gesture /\ Announce(next, Targets(d, m), next, {}) BY <1>2 DEF Answer, Settle
  <2>2. \A g \in Gesture, x \in Decision :
          /\ g # next /\ phase'[g][x] # "none" => phase[g][x] # "none"
          /\ phase'[next][x] # "none" => x \in Targets(d, m)
    BY <1>2, <1>l, <1>n, <2>1, AnswerRows DEF Holding
  <2> QED BY <1>1, <2>1, <2>2 DEF Owing
<1>3. ASSUME NEW h \in Gesture, NEW y \in Decision, Retry(h, y) PROVE Owing'
  <2>1. next \in Gesture /\ Announce(next, {y}, next, {y}) BY <1>3 DEF Retry
  <2>2. phase[h][y] = "error" BY <1>3 DEF Retry, RetryStarts
  <2>3. \A g \in Gesture, x \in Decision :
          /\ g # next /\ phase'[g][x] # "none" => phase[g][x] # "none"
          /\ phase'[next][x] # "none" => x = y
    BY <1>3, <1>l, <1>n, <2>1, <2>2, RetryRows
  <2> QED BY <1>1, <2>1, <2>3 DEF Owing
<1>4. ASSUME NEW ids, NEW for, next \in Gesture, Announce(next, ids, for, {}), phase' = phase
      PROVE Owing'
  BY <1>1, <1>4, <1>n DEF Owing
<1>5. ASSUME phase' = phase, \A g \in Gesture : turn'[g] = turn[g] \/ turn'[g].state # "running"
      PROVE Owing'
  BY <1>5 DEF Owing
<1>6. CASE Talk BY <1>4, <1>6 DEF Talk
<1>7. ASSUME NEW p \in queue, Apply(p) PROVE Owing'
  BY <1>4, <1>5, <1>7 DEF Apply, tasks
<1>8. CASE (\E p \in queue : Dismiss(p)) \/ Restart \/ Serve \/ UNCHANGED vars
  BY <1>5, <1>8 DEF Dismiss, Restart, Serve, vars, tasks
<1>9. CASE Cut \/ Crash
  <2>1. turn' = [g \in Gesture |-> Idle] BY <1>9 DEF Cut, Crash, AnswerCut, RetryCut, Die
  <2> QED BY <2>1 DEF Owing, Idle
<1>10. ASSUME NEW h \in Gesture, Ends(h) PROVE Owing'
  <2>1. phase' = phase BY <1>10 DEF Ends, Fail, Reply, tasks
  <2>2. \A g \in Gesture : turn'[g] = turn[g] \/ turn'[g].state # "running"
    BY <1>10, <1>l DEF Ends, Fail, Reply, Turn
  <2> QED BY <1>5, <2>1, <2>2
<1>11. ASSUME NEW h \in Gesture, NEW p \in {"replied", "error"}, phase' = Ended(h, p),
              \A g \in Gesture : turn'[g] = turn[g] \/ turn'[g].state # "running"
       PROVE Owing'
  BY <1>11, <1>l, EndedLemma DEF Owing
<1>12. ASSUME NEW h \in Gesture, Close(h) \/ CloseDead(h) PROVE Owing'
  <2>1. \A g \in Gesture : turn'[g] = turn[g] \/ turn'[g].state # "running"
    BY <1>12, <1>l DEF Close, CloseDead, Idle
  <2> QED BY <1>11, <1>12, <2>1 DEF Close, CloseDead
<1> QED BY <1>2, <1>3, <1>6, <1>7, <1>8, <1>9, <1>10, <1>12 DEF Next, Human

LEMMA OwingAlways == Spec => []Owing
<1>1. Init => Owing BY DEF Init, Owing, Idle
<1>2. IInv /\ Owing /\ [Next]_vars => Owing' BY OwingNext, LaneAssumption
<1> QED BY <1>1, <1>2, Invariance, PTL DEF Spec

-----------------------------------------------------------------------------
(* A decision in question stays so until the turn that weighs it replies;  *)
(* only a process that dies inside the appends of a supersession lets one  *)
(* go with nothing in its place.                                           *)
THEOREM UnlockedByReply == Spec => UnlockedOnlyByReply
<1> DEFINE Fine == \A x \in Decision : (Held(x) /\ ~Held(x)' /\ up' # "down") =>
                     \E g \in Gesture : phase[g][x] = "composing" /\ phase'[g][x] = "replied"
<1>1. IInv /\ [Next]_vars => Fine
  <2> SUFFICES ASSUME IInv, [Next]_vars PROVE Fine OBVIOUS
  <2>l. LaneType BY TypeIsLaneType DEF IInv
  <2>1. ASSUME NEW d \in Decision, NEW m \in BOOLEAN, Answer(d, m) PROVE Fine
    <3>1. next \in Gesture BY <2>1 DEF Answer, Settle
    <3> QED BY <2>1, <2>l, <3>1, AnswerRows, LaneAssumption DEF Held, Holds, Holding
  <2>2. ASSUME NEW h \in Gesture, NEW y \in Decision, Retry(h, y) PROVE Fine
    <3>1. next \in Gesture BY <2>2 DEF Retry
    <3> QED BY <2>2, <2>l, <3>1, RetryRows DEF Held, Holds, Holding
  <2>3. CASE phase' = phase BY <2>3 DEF Held, Holds
  <2>4. CASE Cut BY <2>4 DEF Cut, AnswerCut, RetryCut, Die
  <2>5. ASSUME NEW h \in Gesture, NEW p \in {"replied", "error"}, phase' = Ended(h, p) PROVE Fine
    BY <2>5, <2>l, EndedLemma DEF Held, Holds, Holding
  <2>6. ASSUME NEW h \in Gesture, Close(h) \/ CloseDead(h) PROVE Fine
    BY <2>5, <2>6 DEF Close, CloseDead
  <2>7. ASSUME \/ Talk \/ Crash \/ Restart \/ Serve \/ UNCHANGED vars
               \/ \E p \in queue : Apply(p) \/ Dismiss(p)
               \/ \E g \in Gesture : Ends(g)
        PROVE phase' = phase
    BY <2>7 DEF Talk, Crash, Restart, Serve, vars, tasks, Apply, Announce, Dismiss, Ends, Fail, Reply
  <2> QED BY <2>1, <2>2, <2>3, <2>4, <2>6, <2>7 DEF Next, Human
<1> QED BY <1>1, Invariance, PTL DEF Spec, UnlockedOnlyByReply

(* A proposal that is new in a touched queue is one the human moved.       *)
LEMMA TouchedIsMoved ==
  ASSUME NEW q, q \subseteq Proposal, NEW x \in Decision, NEW p \in Touched(x, q)
  PROVE  /\ p \notin q => p.moved
         /\ p.target = x => p.moved
<1>1. PICK r \in q : p = [r EXCEPT !.moved = r.moved \/ r.target = x] BY DEF Touched
<1>2. r \in Proposal BY <1>1
<1>3. p.moved = (r.moved \/ r.target = x) /\ p.target = r.target BY <1>1, <1>2 DEF Proposal
<1>4. ~(r.target = x) => p = r BY <1>1, <1>2 DEF Proposal
<1> QED BY <1>1, <1>3, <1>4

(* An update that a turn lands kills a decision only as the ruling its     *)
(* task was held for; one it queues is of no task that was superseded.     *)
LEMMA ReplyRules ==
  ASSUME IInv, Owing, NEW g \in Gesture, NEW doc \in Document, NEW says \in BOOLEAN,
         Reply(g, doc, says), NEW x \in Decision
  PROVE  /\ status[x] # "invalidated" /\ status'[x] = "invalidated" =>
              x \notin answered /\ phase[g][x] = "composing" /\ turn[g] # turn'[g]
         /\ \A p \in queue' \ queue : p.target = x => phase[p.from][x] # "superseded"
<1>t. /\ turn \in [Gesture -> Turn] /\ status \in [Decision -> {"open", "settled", "invalidated"}]
      /\ turn[g].state = "running"
  BY TypeIsLaneType DEF IInv, TypeOK, LaneType, Reply
<1>1. ASSUME status[x] # "invalidated", status'[x] = "invalidated"
      PROVE  x \notin answered /\ phase[g][x] = "composing" /\ turn[g] # turn'[g]
  <2> DEFINE c == CHOOSE e \in Landing(g, doc) : e.target = x
  <2>1. /\ \E e \in Landing(g, doc) : e.target = x
        /\ status'[x] = Changed(c, status)[x]
    BY <1>1 DEF Reply
  <2>2. c \in Landing(g, doc) /\ c.target = x BY <2>1
  <2>3. Changed(c, status)[x] = IF c.kind = "settle" THEN "settled" ELSE "invalidated"
    BY <1>t, <2>2 DEF Changed
  <2>4. c.kind = "invalidate"
    <3>1. c \in Update BY <2>2 DEF Landing, Kept, Document
    <3> QED BY <1>1, <2>1, <2>3, <3>1 DEF Update, Kinds
  <2>5. ~Proposes(g, c) BY <2>2 DEF Landing
  <2> HIDE DEF c
  <2>6. x \notin answered /\ x \in Own(g) BY <2>2, <2>4, <2>5 DEF Proposes
  <2>7. turn'[g].state = "answered" BY <1>t DEF Reply, Turn
  <2> QED BY <1>t, <2>6, <2>7 DEF Own
<1>2. ASSUME NEW p \in queue' \ queue, p.target = x PROVE phase[p.from][x] # "superseded"
  <2>1. PICK c \in Kept(g, doc) : p = [kind |-> c.kind, target |-> c.target, from |-> g, moved |-> FALSE]
    BY DEF Reply, Queued
  <2>2. p.from = g /\ x \notin Gone(g) BY <1>2, <2>1 DEF Kept
  <2> QED BY <1>t, <2>2 DEF Owing, Gone
<1> QED BY <1>1, <1>2

(* A ruling reaches the board or the queue only from the task its decision *)
(* is waiting for, or with the human's consent.                            *)
THEOREM OnlyHolderRules == Spec => OnlyTheHolderRules
<1> DEFINE Fine(x) ==
      /\ (status[x] # "invalidated" /\ status'[x] = "invalidated") =>
           \/ \E p \in queue : p.target = x /\ p \notin queue'
           \/ x \notin answered /\ \E g \in Gesture : phase[g][x] = "composing" /\ turn[g] # turn'[g]
      /\ \A p \in queue' \ queue : p.target = x =>
           p.moved \/ phase[p.from][x] # "superseded"
<1>1. IInv /\ Owing /\ [Next]_vars => \A x \in Decision : Fine(x)
  <2> SUFFICES ASSUME IInv, Owing, [Next]_vars, NEW x \in Decision PROVE Fine(x) OBVIOUS
  <2>t. /\ status \in [Decision -> {"open", "settled", "invalidated"}] /\ queue \subseteq Proposal
    BY DEF IInv, TypeOK
  <2>1. ASSUME NEW d \in Decision, NEW m \in BOOLEAN, Settle(d, m) PROVE Fine(x)
    <3>1. status'[x] \in {status[x], "settled"} BY <2>1, <2>t DEF Settle
    <3>2. \A p \in queue' \ queue : p.moved BY <2>1, <2>t, TouchedIsMoved DEF Settle
    <3> QED BY <3>1, <3>2
  <2>2. ASSUME NEW p \in queue, Apply(p) PROVE Fine(x)
    <3>1. /\ status' = Changed(p, status) /\ queue' = Touched(p.target, queue \ {p}) /\ ~p.moved
          /\ p.target \in Decision
      BY <2>2, <2>t DEF Apply, Proposal
    <3>2. p.target # x => status'[x] = status[x] BY <2>t, <3>1 DEF Changed
    <3>3. queue \ {p} \subseteq Proposal BY <2>t
    <3>4. \A r \in queue' : /\ r \notin queue \ {p} => r.moved
                            /\ r.target = p.target => r.moved
      BY <3>1, <3>3, TouchedIsMoved
    <3>5. p \notin queue' /\ \A r \in queue' \ queue : r.moved BY <3>1, <3>4
    <3> QED BY <3>2, <3>5
  <2>3. ASSUME NEW g \in Gesture, NEW doc \in Document, NEW says \in BOOLEAN, Reply(g, doc, says)
        PROVE Fine(x)
    BY <2>3, ReplyRules
  <2>4. CASE status' = status /\ queue' \subseteq queue BY <2>4
  <2>5. ASSUME \/ Talk \/ Crash \/ Restart \/ Serve \/ UNCHANGED vars
               \/ \E p \in queue : Dismiss(p)
               \/ \E g \in Gesture : Fail(g) \/ Close(g) \/ CloseDead(g)
               \/ \E g \in Gesture, y \in Decision : Retry(g, y) \/ RetryCut(g, y)
        PROVE status' = status /\ queue' \subseteq queue
    BY <2>5 DEF Talk, Crash, Restart, Serve, vars, board, Dismiss, Fail, Close, CloseDead, Retry, RetryCut
  <2> QED BY <2>1, <2>2, <2>3, <2>4, <2>5 DEF Next, Human, Cut, Ends, Answer, AnswerCut
<1> QED BY <1>1, Invariance, OwingAlways, PTL DEF Spec, OnlyTheHolderRules

-----------------------------------------------------------------------------
(* The lane implements the board the human sees.                           *)

HolderOf   == [x \in Decision |-> Holder(x)]
FailedOnes == {x \in Decision : \E g \in Gesture : phase[g][x] = "error"}

(* The holder the projector names is the one task that holds.              *)
LEMMA HolderIs ==
  ASSUME OneHolder, NEW x \in Decision
  PROVE  /\ \A g \in Gesture : Holds(g, x) => Holder(x) = g
         /\ Held(x) => Holder(x) \in Gesture /\ Holds(Holder(x), x)
         /\ ~Held(x) => Holder(x) = 0
<1>1. Held(x) => Holder(x) \in Gesture /\ Holds(Holder(x), x) BY DEF Held, Holder
<1>2. \A g \in Gesture : Holds(g, x) => Held(x) BY DEF Held
<1>3. ~Held(x) => Holder(x) = 0 BY DEF Holder
<1> QED BY <1>1, <1>2, <1>3 DEF OneHolder

LEMMA HolderWillBe ==
  ASSUME OneHolder', NEW x \in Decision
  PROVE  /\ \A g \in Gesture : Holds(g, x)' => Holder(x)' = g
         /\ ~Held(x)' => Holder(x)' = 0
<1>1. Held(x)' => Holder(x)' \in Gesture /\ (Holds(Holder(x), x))' BY DEF Held, Holder
<1>2. \A g \in Gesture : Holds(g, x)' => Held(x)' BY DEF Held
<1>3. ~Held(x)' => Holder(x)' = 0 BY DEF Holder
<1> QED BY <1>1, <1>2, <1>3 DEF OneHolder

(* Where the column of a decision stands still, so does its holder.        *)
LEMMA HolderStays ==
  ASSUME OneHolder, OneHolder', NEW x \in Decision,
         \A g \in Gesture : phase'[g][x] = phase[g][x]
  PROVE  Holder(x)' = Holder(x)
<1>1. \A g \in Gesture : Holds(g, x)' <=> Holds(g, x) BY DEF Holds
<1>2. CASE Held(x)
  BY <1>1, <1>2, HolderIs, HolderWillBe
<1>3. CASE ~Held(x)
  <2>1. ~Held(x)' BY <1>1, <1>3 DEF Held
  <2> QED BY <1>3, <2>1, HolderIs, HolderWillBe
<1> QED BY <1>2, <1>3

(* What a step shows of the board that it leaves alone.                    *)
LEMMA BoardStays ==
  ASSUME UNCHANGED <<phase, resulted, next>>, (up # "down")' = (up # "down")
  PROVE  [Waits!Next]_(Waits!vars)
<1>1. \A x \in Decision : Holder(x)' = Holder(x) BY DEF Holder, Held, Holds
<1>2. HolderOf' = HolderOf BY <1>1 DEF HolderOf
<1>3. FailedOnes' = FailedOnes BY DEF FailedOnes
<1> QED BY <1>2, <1>3 DEF Waits!vars, HolderOf, FailedOnes

(* A gesture takes its targets over from whatever held them.               *)
LEMMA AskRefines ==
  ASSUME OneHolder, OneHolder', next \in Int, NEW T \in SUBSET Decision,
         \A g \in Gesture, x \in Decision : x \notin T => phase'[g][x] = phase[g][x],
         NEW n \in Gesture, n = next,
         \A x \in T : phase'[n][x] = "composing" /\ \A g \in Gesture : phase'[g][x] # "error",
         up # "down", next' = next + 1, UNCHANGED <<resulted, up>>
  PROVE  Waits!Next
<1>1. HolderOf' = [x \in Decision |-> IF x \in T THEN (next - 1)' ELSE HolderOf[x]]
  <2>1. ASSUME NEW x \in T PROVE Holder(x)' = (next - 1)'
    <3>1. Holds(n, x)' BY <2>1 DEF Holds, Holding
    <3> QED BY <2>1, <3>1, HolderWillBe
  <2>2. ASSUME NEW x \in Decision, x \notin T PROVE Holder(x)' = Holder(x) BY <2>2, HolderStays
  <2> QED BY <2>1, <2>2 DEF HolderOf
<1>2. FailedOnes' = FailedOnes \ T BY DEF FailedOnes
<1>3. Waits!Ask(T) BY <1>1, <1>2 DEF Waits!Ask, HolderOf, FailedOnes
<1> QED BY <1>3 DEF Waits!Next

(* A process that dies lets go what it was handing over.                   *)
LEMMA DieRefines ==
  ASSUME OneHolder, OneHolder', next \in Int, NEW T \in SUBSET Decision,
         \A g \in Gesture, x \in Decision :
           phase'[g][x] = IF x \in T /\ phase[g][x] \in Holding THEN "superseded" ELSE phase[g][x],
         up # "down", up' = "down", next' \in {next, next + 1}, UNCHANGED resulted
  PROVE  Waits!Next
<1>1. HolderOf' = [x \in Decision |-> IF x \in T THEN 0 ELSE HolderOf[x]]
  <2>1. ASSUME NEW x \in T PROVE Holder(x)' = 0
    <3>1. ~Held(x)' BY DEF Held, Holds, Holding
    <3> QED BY <3>1, HolderWillBe
  <2>2. ASSUME NEW x \in Decision, x \notin T PROVE Holder(x)' = Holder(x) BY <2>2, HolderStays
  <2> QED BY <2>1, <2>2 DEF HolderOf
<1>2. FailedOnes' = FailedOnes \ T BY DEF FailedOnes, Holding
<1>3. (up # "down")' = FALSE OBVIOUS
<1>4. (next - 1)' \in {next - 1, (next - 1) + 1}
  <2>1. CASE next' = next BY <2>1
  <2>2. CASE next' = next + 1 BY <2>2
  <2> QED BY <2>1, <2>2
<1>5. Waits!Die(T) BY <1>1, <1>2, <1>3, <1>4 DEF Waits!Die, HolderOf, FailedOnes
<1> QED BY <1>5 DEF Waits!Next

(* A turn that ends lets its decisions go, or fails them all.              *)
LEMMA EndRefines ==
  ASSUME IInv, OneHolder', LaneAssumption, NEW h \in Gesture, NEW p \in {"replied", "error"},
         phase' = Ended(h, p),
         p = "error" => h \notin resulted,
         p = "replied" => \A x \in Decision : phase[h][x] # "error",
         up # "down", UNCHANGED <<resulted, next, up>>
  PROVE  [Waits!Next]_(Waits!vars)
<1>t. LaneType BY TypeIsLaneType DEF IInv
<1>l. next \in Int /\ h \in Int /\ h > 0 /\ OneHolder
  BY DEF IInv, TypeOK, Gesture, LaneAssumption
<1>r. \A g \in Gesture, x \in Decision :
        phase'[g][x] = IF g = h /\ phase[g][x] = "composing" THEN p ELSE phase[g][x]
  BY <1>t, EndedLemma
<1>1. CASE h >= next
  <2>1. \A g \in Gesture, x \in Decision : phase'[g][x] = phase[g][x]
    BY <1>1, <1>r DEF IInv, Unborn
  <2>2. HolderOf' = HolderOf /\ FailedOnes' = FailedOnes
    BY <1>l, <2>1, HolderStays DEF HolderOf, FailedOnes
  <2> QED BY <2>2 DEF Waits!vars, HolderOf, FailedOnes
<1>2. CASE h < next
  <2>1. h \in 1..(next - 1) BY <1>l, <1>2
  <2>2. \A x \in Decision : phase[h][x] # "composing" => Holder(x)' = Holder(x)
    BY <1>l, <1>r, HolderStays
  <2>3. \A x \in Decision : phase[h][x] = "composing" => Holder(x) = h
    BY <1>l, HolderIs DEF Holds, Holding
  <2>4. \A x \in Decision : Holder(x) = h => Holds(h, x)
    BY <1>l, HolderIs DEF LaneAssumption
  <2>5. CASE p = "replied"
    <3>1. ASSUME NEW x \in Decision PROVE Holder(x)' = IF Holder(x) = h THEN 0 ELSE Holder(x)
      <4>1. CASE phase[h][x] = "composing"
        <5>1. ~Held(x)' BY <1>l, <1>r, <2>5, <4>1 DEF Held, Holds, Holding, OneHolder
        <5> QED BY <2>3, <4>1, <5>1, HolderWillBe
      <4>2. CASE phase[h][x] # "composing"
        <5>1. Holder(x) # h BY <2>4, <2>5, <4>2 DEF Holds, Holding
        <5> QED BY <2>2, <4>2, <5>1
      <4> QED BY <4>1, <4>2
    <3>2. FailedOnes' = FailedOnes BY <1>r, <2>5 DEF FailedOnes
    <3>3. Waits!Of(h) \cap FailedOnes = {}
      <4> SUFFICES ASSUME NEW x \in Decision, Holder(x) = h, NEW g \in Gesture, phase[g][x] = "error"
                   PROVE FALSE
        BY DEF Waits!Of, FailedOnes
      <4>1. Holds(h, x) /\ Holds(g, x) BY <2>4 DEF Holds, Holding
      <4> QED BY <1>l, <2>5, <4>1 DEF OneHolder
    <3>4. Waits!Release(h) BY <3>1, <3>2, <3>3 DEF Waits!Release, Waits!Of, FailedOnes
    <3> QED BY <2>1, <3>4 DEF Waits!Next
  <2>6. CASE p = "error"
    <3>1. ASSUME NEW x \in Decision, phase[h][x] = "composing" PROVE Holder(x)' = Holder(x)
      <4>1. Holds(h, x)' BY <1>r, <2>6, <3>1 DEF Holds, Holding
      <4> QED BY <2>3, <3>1, <4>1, HolderWillBe
    <3>2. HolderOf' = HolderOf BY <2>2, <3>1 DEF HolderOf
    <3>3. FailedOnes' = FailedOnes \cup Waits!Of(h)
      <4>1. \A x \in Decision : Holder(x) = h => phase[h][x] \in {"composing", "error"}
        BY <2>4 DEF Holds, Holding
      <4> QED BY <1>r, <2>3, <2>6, <4>1 DEF FailedOnes, Waits!Of
    <3>4. Waits!Fail(h) BY <2>6, <3>2, <3>3 DEF Waits!Fail, HolderOf, FailedOnes
    <3> QED BY <2>1, <3>4 DEF Waits!Next
  <2> QED BY <2>5, <2>6
<1> QED BY <1>1, <1>2, <1>l

LEMMA StepRefines ==
  ASSUME LaneAssumption, IInv, IInv', [Next]_vars
  PROVE  [Waits!Next]_(Waits!vars)
<1>t. LaneType BY TypeIsLaneType DEF IInv
<1>o. OneHolder /\ OneHolder' BY DEF IInv
<1>n. next \in Int BY DEF IInv, TypeOK, LaneAssumption
<1>e. next \in Gesture => \A x \in Decision : phase[next][x] = "none"
  BY DEF IInv, Unborn, Gesture, LaneAssumption
<1>1. ASSUME NEW d \in Decision, NEW m \in BOOLEAN, Answer(d, m) PROVE Waits!Next
  <2>1. PICK n \in Gesture : n = next BY <1>1 DEF Answer, Settle
  <2>2. up = "serving" /\ next' = next + 1 /\ UNCHANGED <<resulted, up>>
    BY <1>1 DEF Answer, Settle, Announce
  <2>3. PICK T \in SUBSET Decision : T = Targets(d, m)
    BY StandingLemma DEF Targets, LaneAssumption
  <2>4. \A g \in Gesture, x \in Decision :
          phase'[g][x] = IF g = n /\ x \in T THEN "composing"
                         ELSE IF x \in T /\ phase[g][x] \in Holding THEN "superseded" ELSE phase[g][x]
    BY <1>t, <1>1, <2>1, <2>3, AnswerRows
  <2>5. \A g \in Gesture, x \in Decision : x \notin T => phase'[g][x] = phase[g][x]
    BY <2>4
  <2>6. \A x \in T : phase'[n][x] = "composing" /\ \A g \in Gesture : phase'[g][x] # "error"
    BY <2>4 DEF Holding
  <2> QED BY <1>o, <1>n, <2>1, <2>2, <2>5, <2>6, AskRefines
<1>2. ASSUME NEW h \in Gesture, NEW y \in Decision, Retry(h, y) PROVE Waits!Next
  <2>1. PICK n \in Gesture : n = next BY <1>2 DEF Retry
  <2>2. up = "serving" /\ next' = next + 1 /\ UNCHANGED <<resulted, up>> /\ phase[h][y] = "error"
    BY <1>2 DEF Retry, RetryStarts, Announce
  <2>3. \A g \in Gesture, x \in Decision :
          phase'[g][x] = IF g = n /\ x = y THEN "composing"
                         ELSE IF g = h /\ x = y THEN "superseded" ELSE phase[g][x]
    BY <1>t, <1>2, <2>1, RetryRows
  <2>4. \A g \in Gesture : g # h => phase[g][y] # "error"
    BY <1>o, <2>2 DEF OneHolder, Holds, Holding
  <2>5. \A g \in Gesture, x \in Decision : x \notin {y} => phase'[g][x] = phase[g][x]
    BY <2>3
  <2>6. \A x \in {y} : phase'[n][x] = "composing" /\ \A g \in Gesture : phase'[g][x] # "error"
    BY <2>3, <2>4
  <2>7. {y} \in SUBSET Decision OBVIOUS
  <2> QED BY <1>o, <1>n, <2>1, <2>2, <2>5, <2>6, <2>7, AskRefines
<1>3. ASSUME NEW n \in Gesture, n = next, up = "serving", next' = next + 1, UNCHANGED <<phase, resulted, up>>
      PROVE Waits!Next
  <2>1. {} \in SUBSET Decision OBVIOUS
  <2>2. \A g \in Gesture, x \in Decision : x \notin {} => phase'[g][x] = phase[g][x] BY <1>3
  <2>3. \A x \in {} : phase'[n][x] = "composing" /\ \A g \in Gesture : phase'[g][x] # "error" OBVIOUS
  <2> QED BY <1>o, <1>n, <1>3, <2>1, <2>2, <2>3, AskRefines
<1>4. CASE Talk BY <1>3, <1>4 DEF Talk, Announce
<1>5. ASSUME NEW q \in queue, Apply(q) PROVE [Waits!Next]_(Waits!vars)
  <2>1. CASE Owed(status', queue') = {} BY <1>5, <2>1, BoardStays DEF Apply, tasks
  <2>2. CASE Owed(status', queue') # {} BY <1>3, <1>5, <2>2 DEF Apply, Announce
  <2> QED BY <2>1, <2>2
<1>6. ASSUME NEW T \in SUBSET Decision, up # "down", up' = "down", next' \in {next, next + 1},
             UNCHANGED resulted,
             \A g \in Gesture, x \in Decision :
               phase'[g][x] = IF x \in T /\ phase[g][x] \in Holding THEN "superseded" ELSE phase[g][x]
      PROVE Waits!Next
  BY <1>o, <1>n, <1>6, DieRefines
<1>7. ASSUME NEW d \in Decision, NEW m \in BOOLEAN, NEW n \in {1, 2}, AnswerCut(d, m, n) PROVE Waits!Next
  <2>1. PICK T \in SUBSET Decision : T = Targets(d, m)
    BY StandingLemma DEF Targets, LaneAssumption
  <2>2. /\ up # "down" /\ up' = "down" /\ next' \in {next, next + 1} /\ UNCHANGED resulted
        /\ phase' = phase \/ phase' = Supersede(phase, T)
    BY <1>7, <2>1 DEF AnswerCut, Settle, Die
  <2>3. CASE phase' = phase
    <3>1. {} \in SUBSET Decision OBVIOUS
    <3>2. \A g \in Gesture, x \in Decision :
            phase'[g][x] = IF x \in {} /\ phase[g][x] \in Holding THEN "superseded" ELSE phase[g][x]
      BY <2>3
    <3> QED BY <1>6, <2>2, <3>1, <3>2
  <2>4. CASE phase' = Supersede(phase, T)
    <3>1. \A g \in Gesture, x \in Decision :
            phase'[g][x] = IF x \in T /\ phase[g][x] \in Holding THEN "superseded" ELSE phase[g][x]
      BY <1>t, <2>4, SupersedeLemma DEF LaneType
    <3> QED BY <1>6, <2>2, <3>1
  <2> QED BY <2>2, <2>3, <2>4
<1>8. ASSUME NEW h \in Gesture, NEW y \in Decision, RetryCut(h, y) PROVE Waits!Next
  <2>1. /\ up # "down" /\ up' = "down" /\ next' \in {next, next + 1} /\ UNCHANGED resulted
        /\ phase[h][y] = "error" /\ phase' = [phase EXCEPT ![h][y] = "superseded"]
    BY <1>8 DEF RetryCut, RetryStarts, Die
  <2>2. \A g \in Gesture, x \in Decision :
          phase'[g][x] = IF g = h /\ x = y THEN "superseded" ELSE phase[g][x]
    BY <1>t, <2>1 DEF LaneType, Phase
  <2>3. \A g \in Gesture : phase[g][y] \in Holding => g = h
    BY <1>o, <2>1 DEF OneHolder, Holds, Holding
  <2>4. \A g \in Gesture, x \in Decision :
          phase'[g][x] = IF x \in {y} /\ phase[g][x] \in Holding THEN "superseded" ELSE phase[g][x]
    BY <2>1, <2>2, <2>3 DEF Holding
  <2>5. {y} \in SUBSET Decision OBVIOUS
  <2> QED BY <1>6, <2>1, <2>4, <2>5
<1>9. CASE Crash
  <2>1. up # "down" /\ up' = "down" /\ UNCHANGED <<next, resulted, phase>>
    BY <1>9 DEF Crash, Die, tasks
  <2>2. {} \in SUBSET Decision OBVIOUS
  <2>3. \A g \in Gesture, x \in Decision :
          phase'[g][x] = IF x \in {} /\ phase[g][x] \in Holding THEN "superseded" ELSE phase[g][x]
    BY <2>1
  <2> QED BY <1>6, <2>1, <2>2, <2>3
<1>10. CASE Restart
  <2>1. /\ UNCHANGED <<phase, resulted, next>>
        /\ (up # "down") = FALSE /\ (up # "down")' = TRUE
    BY <1>10 DEF Restart, tasks
  <2>2. \A x \in Decision : Holder(x)' = Holder(x) BY <2>1 DEF Holder, Held, Holds
  <2>3. HolderOf' = HolderOf /\ FailedOnes' = FailedOnes BY <2>1, <2>2 DEF HolderOf, FailedOnes
  <2>4. Waits!Revive BY <2>1, <2>3 DEF Waits!Revive, HolderOf, FailedOnes
  <2> QED BY <2>4 DEF Waits!Next
<1>11. ASSUME NEW h \in Gesture, NEW doc \in Document, NEW says \in BOOLEAN, Reply(h, doc, says)
       PROVE [Waits!Next]_(Waits!vars)
  <2>1. /\ UNCHANGED <<phase, next, up>> /\ turn[h].state = "running"
        /\ resulted' = IF says THEN resulted \cup {h} ELSE resulted
    BY <1>11 DEF Reply
  <2>2. CASE ~says BY <2>1, <2>2, BoardStays
  <2>3. CASE says
    <3>1. h < next /\ h \in 1..(next - 1) /\ h # 0
      BY <1>n, <2>1 DEF IInv, Unborn, Gesture, LaneAssumption
    <3>2. h \notin resulted /\ up # "down" /\ \A x \in Decision : phase[h][x] # "error"
      BY <2>1 DEF IInv, Live
    <3>3. Waits!Of(h) \cap FailedOnes = {}
      <4> SUFFICES ASSUME NEW x \in Decision, Holder(x) = h, NEW g \in Gesture, phase[g][x] = "error"
                   PROVE FALSE
        BY DEF Waits!Of, FailedOnes
      <4>1. Holds(g, x) BY DEF Holds, Holding
      <4>2. g = h BY <1>o, <4>1, HolderIs
      <4> QED BY <3>2, <4>2
    <3>4. \A x \in Decision : Holder(x)' = Holder(x) BY <2>1 DEF Holder, Held, Holds
    <3>5. HolderOf' = HolderOf /\ FailedOnes' = FailedOnes BY <2>1, <3>4 DEF HolderOf, FailedOnes
    <3>6. Waits!Land(h) BY <2>1, <2>3, <3>2, <3>3, <3>5 DEF Waits!Land, HolderOf, FailedOnes
    <3> QED BY <3>1, <3>6 DEF Waits!Next
  <2> QED BY <2>2, <2>3
<1>12. ASSUME NEW h \in Gesture, Close(h) PROVE [Waits!Next]_(Waits!vars)
  <2> DEFINE p == IF turn[h].state = "answered" THEN "replied" ELSE "error"
  <2>1. /\ p = "error" => h \notin resulted
        /\ \A x \in Decision : phase[h][x] # "error"
        /\ up # "down"
    BY <1>12 DEF Close, IInv, Live
  <2> QED BY <1>o, <1>12, <2>1, EndRefines DEF Close
<1>13. ASSUME NEW h \in Gesture, CloseDead(h) PROVE [Waits!Next]_(Waits!vars)
  <2> DEFINE p == IF h \in resulted THEN "replied" ELSE "error"
  <2>1. p = "replied" => \A x \in Decision : phase[h][x] # "error"
    BY DEF IInv, LandedIsNotFailed
  <2> QED BY <1>o, <1>13, <2>1, EndRefines DEF CloseDead
<1>14. ASSUME \/ Serve \/ UNCHANGED vars
              \/ \E q \in queue : Dismiss(q)
              \/ \E g \in Gesture : Fail(g)
       PROVE [Waits!Next]_(Waits!vars)
  <2>1. UNCHANGED <<phase, resulted, next>> /\ (up # "down")' = (up # "down")
    BY <1>14 DEF Serve, vars, tasks, Dismiss, Fail
  <2> QED BY <2>1, BoardStays
<1> QED
  BY <1>1, <1>2, <1>4, <1>5, <1>7, <1>8, <1>9, <1>10, <1>11, <1>12, <1>13, <1>14
     DEF Next, Human, Cut, Ends

LEMMA InitRefines == LaneAssumption /\ Init => Waits!Init
<1> SUFFICES ASSUME LaneAssumption, Init PROVE Waits!Init OBVIOUS
<1>1. \A g \in Gesture, x \in Decision : phase[g][x] = "none" BY DEF Init
<1>2. \A x \in Decision : Holder(x) = 0 BY <1>1 DEF Holder, Held, Holds, Holding
<1>3. FailedOnes = {} BY <1>1 DEF FailedOnes
<1>4. (up # "down") = TRUE /\ next - 1 = 0 /\ resulted = {} BY DEF Init
<1> QED BY <1>2, <1>3, <1>4 DEF Waits!Init, FailedOnes

(* Whatever is superseded, retried, cut short, closed late or restarted,   *)
(* what the human sees of the waiting decisions is a behaviour of the      *)
(* board the projector promises.                                           *)
THEOREM KeepsThePromise == Spec => IsWaitingBoard
<1>1. Init => Waits!Init BY InitRefines, LaneAssumption
<1>2. IInv /\ IInv' /\ [Next]_vars => [Waits!Next]_(Waits!vars) BY StepRefines, LaneAssumption
<1> QED BY <1>1, <1>2, Invariance, PTL DEF Spec, IsWaitingBoard, Waits!Spec
=============================================================================
