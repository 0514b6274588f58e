------------------------------ MODULE GrillLane ------------------------------
(***************************************************************************)
(* The turn lane of a grilling session: human gestures accepted over one   *)
(* append-only log, the turns they start, the impact tasks that hold a     *)
(* decision while a seat weighs it, and what a restarted backend makes of  *)
(* the turns its predecessor left open (grillui lane.py, log.py,           *)
(* projector.py, escalation.py, drivers.py record_document).               *)
(*                                                                         *)
(* The log is kept as what its replay yields: the board, the queue, the    *)
(* phase of every task, and which announcements are still open.  A gesture *)
(* is numbered by its order; a task is a pair (gesture, target), as in     *)
(* task_id.  The board here has no prereqs and no fog, so no decision is   *)
(* gated: no pre-ruling starts, custom text opens nothing and an applied   *)
(* invalidate strands nobody (_pre_rule, _opened and _resting_obligation   *)
(* all come back empty).                                                   *)
(***************************************************************************)
EXTENDS Integers, FiniteSets

CONSTANTS Decision,     \* the decisions on the board
          NoDecision,   \* no decision asked about
          Marks,        \* what the marked option of a decision puts in question
          MaxGestures,  \* bound: gestures that take a turn
          MaxEpochs,    \* bound: tenures of the backend over the session
          MaxChanges    \* bound: updates in one grill-master document

ASSUME LaneAssumption == /\ NoDecision \notin Decision
                         /\ Marks \in [Decision -> SUBSET Decision]
                         /\ MaxGestures \in Nat /\ MaxEpochs \in Nat \ {0}

Gesture == 1..MaxGestures
Kinds   == {"invalidate", "settle"}
Phases  == {"none", "composing", "replied", "error", "superseded"}

VARIABLES status,    \* of each decision, as the replay reads it
          answered,  \* the decisions carrying an answer
          queue,     \* the proposals waiting for the human
          next,      \* the number the next gesture takes
          asked,     \* the decision whose marked answer a gesture's turn weighs
          phase,     \* of the task of each gesture and target
          lane,      \* the turn's announcement: not made, open or closed
          resulted,  \* the turns whose own entry is on the log
          unreplied, \* the latest answer no agent has spoken after, 0 for none
          turn,      \* the thread taking each turn, and what that turn carries
          up,        \* the backend: serving, starting (closing dead turns) or down
          epoch

board == <<status, answered, queue>>
tasks == <<asked, phase, lane, resulted, unreplied>>
vars  == <<board, next, tasks, turn, up, epoch>>

-----------------------------------------------------------------------------
\* mutant: a failed task lets its decision go
HoldingLive == {"composing"}

Holding == {"composing", "error"}
Holds(g, x) == phase[g][x] \in Holding
Held(x)    == \E g \in Gesture : Holds(g, x)
Carried(g) == {x \in Decision : phase[g][x] # "none"}

Waiting(q) == {p.target : p \in {r \in q : r.kind = "invalidate"}}
(* What an answer put in question and is still worth asking about: on the  *)
(* board, not dead, and with no change of it already in the queue.         *)
Standing(ids, st, q) == {x \in ids : st[x] = "open" /\ x \notin Waiting(q)}

(* The obligation a gesture finds: that of the latest answer no agent has  *)
(* spoken after.                                                           *)
Owed(st, q) == IF unreplied = 0 \/ asked[unreplied] = NoDecision THEN {}
               ELSE Standing(Marks[asked[unreplied]], st, q)

(* The human changed x: a proposal about it now sits on a moved board.     *)
Touched(x, q) == {[p EXCEPT !.moved = p.moved \/ p.target = x] : p \in q}

Changed(c, st) == [st EXCEPT ![c.target] = IF c.kind = "settle" THEN "settled" ELSE "invalidated"]

\* mutant: only a live task is superseded, and a failed one goes on holding
SupersedeLive(ph, T) == [g \in Gesture |-> [x \in Decision |->
  IF x \in T /\ ph[g][x] = "composing" THEN "superseded" ELSE ph[g][x]]]

Supersede(ph, T) == [g \in Gesture |-> [x \in Decision |->
                       IF x \in T /\ ph[g][x] \in Holding THEN "superseded" ELSE ph[g][x]]]
Open(ph, g, T)   == [ph EXCEPT ![g] = [x \in Decision |-> IF x \in T THEN "composing" ELSE @[x]]]

Idle == [state |-> "none", owes |-> {}, for |-> 0, scope |-> {}]

Init ==
  /\ status = [x \in Decision |-> "open"] /\ answered = {} /\ queue = {}
  /\ next = 1
  /\ asked = [g \in Gesture |-> NoDecision]
  /\ phase = [g \in Gesture |-> [x \in Decision |-> "none"]]
  /\ lane = [g \in Gesture |-> "none"]
  /\ resulted = {} /\ unreplied = 0
  /\ turn = [g \in Gesture |-> Idle]
  /\ up = "serving" /\ epoch = 1

-----------------------------------------------------------------------------
(* Announcing a turn opens its tasks, and its thread starts once the       *)
(* append lock is let go.  The turn takes along what it owes rulings on,   *)
(* the gesture whose tasks those are, and what a retry may change.         *)
Announce(g, ids, for, within) ==
  /\ lane' = [lane EXCEPT ![g] = "open"]
  /\ turn' = [turn EXCEPT ![g] = [state |-> "running", owes |-> ids, scope |-> within,
                                  for |-> IF ids = {} THEN 0 ELSE for]]
  /\ next' = next + 1

(* What an answer writes on the board, refused while a ruling on that      *)
(* decision is in flight.  The page offers an answer on open decisions.    *)
Settle(d, marked) ==
  /\ up = "serving" /\ next \in Gesture
  /\ marked => Marks[d] # {}
  /\ status[d] = "open" /\ ~Held(d)
  /\ status' = [status EXCEPT ![d] = "settled"]
  /\ answered' = answered \cup {d}
  /\ queue' = Touched(d, queue)
  /\ unreplied' = next

Targets(d, marked) == IF marked THEN Standing(Marks[d], status', queue') ELSE {}

(* An answer: it lands, the tasks holding its targets are superseded on    *)
(* the accepted entry, and its own tasks open on the composing entry, in   *)
(* one hold of the append lock.                                            *)
Answer(d, marked) ==
  /\ Settle(d, marked)
  /\ asked' = [asked EXCEPT ![next] = IF marked THEN d ELSE NoDecision]
  /\ LET T == Targets(d, marked) IN
       /\ phase' = Open(Supersede(phase, T), next, T)
       /\ Announce(next, T, next, {})
  /\ UNCHANGED <<resulted, up, epoch>>

Die == /\ epoch < MaxEpochs
       /\ up' = "down"
       /\ turn' = [g \in Gesture |-> Idle]
       /\ UNCHANGED epoch

(* The process dies after `entries` of the answer's three appends.         *)
AnswerCut(d, marked, entries) ==
  /\ Settle(d, marked) /\ Die
  /\ asked' = [asked EXCEPT ![next] = IF marked THEN d ELSE NoDecision]
  /\ phase' = IF entries = 1 THEN phase ELSE Supersede(phase, Targets(d, marked))
  /\ next' = next + 1
  /\ UNCHANGED <<lane, resulted>>

(* A message on the map, or a thread folded into it: a turn with no task,  *)
(* which inherits what is owed.                                            *)
Talk == /\ up = "serving" /\ next \in Gesture
        /\ Announce(next, Owed(status, queue), unreplied, {})
        /\ UNCHANGED <<board, asked, phase, resulted, unreplied, up, epoch>>

(* Applying a proposal puts the agent's own update on the board, and takes *)
(* a turn only where it finds an obligation.                               *)
Apply(p) ==
  /\ up = "serving" /\ ~p.moved /\ ~Held(p.target)
  /\ status' = Changed(p, status)
  /\ answered' = IF p.kind = "settle" THEN answered \cup {p.target} ELSE answered
  /\ queue' = Touched(p.target, queue \ {p})
  /\ IF Owed(status', queue') = {} THEN UNCHANGED <<next, tasks, turn>>
     ELSE /\ next \in Gesture
          /\ Announce(next, Owed(status', queue'), unreplied, {})
          /\ UNCHANGED <<asked, phase, resulted, unreplied>>
  /\ UNCHANGED <<up, epoch>>

Dismiss(p) == /\ up = "serving"
              /\ queue' = queue \ {p}
              /\ UNCHANGED <<status, answered, next, tasks, turn, up, epoch>>

(* Whether a retry of this failed task starts a turn: the answer that put  *)
(* the decision in question still does.                                    *)
RetryStarts(g, x) == /\ phase[g][x] = "error"
                     /\ asked[g] # NoDecision
                     /\ x \in Standing(Marks[asked[g]], status, queue)

(* The press ends the failed task and opens another in its place.          *)
Retry(g, x) ==
  /\ up = "serving" /\ next \in Gesture /\ RetryStarts(g, x)
  /\ asked' = [asked EXCEPT ![next] = asked[g]]
  /\ phase' = Open([phase EXCEPT ![g][x] = "superseded"], next, {x})
  /\ Announce(next, {x}, next, {x})
  /\ UNCHANGED <<board, resulted, unreplied, up, epoch>>

(* The process dies between the press's two appends.                       *)
RetryCut(g, x) ==
  /\ up = "serving" /\ RetryStarts(g, x) /\ Die
  /\ phase' = [phase EXCEPT ![g][x] = "superseded"]
  /\ UNCHANGED <<board, next, asked, lane, resulted, unreplied>>

-----------------------------------------------------------------------------
Update   == [kind : Kinds, target : Decision]
Document == {doc \in SUBSET Update : /\ Cardinality(doc) <= MaxChanges
                                     /\ \A c, e \in doc : c.target = e.target => c = e}

\* mutant: the document is recorded whole
NothingGone(g) == {}

(* What a later gesture took over is struck before the append.             *)
Gone(g) == {x \in turn[g].owes : phase[turn[g].for][x] = "superseded"}
Kept(g, doc) == {c \in doc : c.target \notin Gone(g)}

(* The targets the turn's own tasks still weigh.                           *)
Own(g) == {x \in Decision : phase[g][x] = "composing"}

(* Whether an update waits for the human: it would overwrite an answer, or *)
(* it is a task's change to something else, or an invalidate no task       *)
(* bought.                                                                 *)
Proposes(g, c) == \/ c.target \in answered
                  \/ Carried(g) # {} /\ c.target \notin Own(g)
                  \/ Carried(g) = {} /\ c.kind = "invalidate"

Landing(g, doc) == {c \in Kept(g, doc) : ~Proposes(g, c)}
Queued(g, doc)  == {[kind |-> c.kind, target |-> c.target, from |-> g, moved |-> FALSE] :
                      c \in {e \in Kept(g, doc) : Proposes(g, e)}}

(* The seat's document, recorded in one hold of the append lock.  It may   *)
(* say something and change nothing; a turn with nothing left to say       *)
(* appends no entry.  A retry's document stays on its own decision.        *)
Reply(g, doc, says) ==
  /\ turn[g].state = "running"
  /\ turn[g].scope # {} => \A c \in doc : c.target \in turn[g].scope
  /\ Kept(g, doc) # {} => says
  /\ LET L == Landing(g, doc) IN
       /\ status' = [x \in Decision |->
             IF \E c \in L : c.target = x
             THEN Changed(CHOOSE c \in L : c.target = x, status)[x] ELSE status[x]]
       /\ answered' = answered \cup {c.target : c \in {e \in L : e.kind = "settle"}}
       /\ queue' = queue \cup Queued(g, doc)
       /\ resulted' = IF says THEN resulted \cup {g} ELSE resulted
       /\ unreplied' = IF says THEN 0 ELSE unreplied
  /\ turn' = [turn EXCEPT ![g].state = "answered"]
  /\ UNCHANGED <<next, asked, phase, lane, up, epoch>>

(* No seat answered: unreachable, out of time, or refused twice.           *)
Fail(g) == /\ turn[g].state = "running"
           /\ turn' = [turn EXCEPT ![g].state = "failed"]
           /\ UNCHANGED <<board, next, tasks, up, epoch>>

\* mutant: the closing entry carries the thread's own word for how it ended
EndedAsTurn(g, ph) == [phase EXCEPT ![g] = [x \in Decision |->
  IF @[x] = "composing" THEN (IF turn[g].state = "none" THEN ph ELSE turn[g].state) ELSE @[x]]]

Ended(g, ph) == [phase EXCEPT ![g] = [x \in Decision |-> IF @[x] = "composing" THEN ph ELSE @[x]]]

(* The closing entry ends the turn's tasks still live, in one phase.       *)
Close(g) ==
  /\ turn[g].state \in {"answered", "failed"}
  /\ phase' = Ended(g, IF turn[g].state = "answered" THEN "replied" ELSE "error")
  /\ lane' = [lane EXCEPT ![g] = "closed"]
  /\ turn' = [turn EXCEPT ![g] = Idle]
  /\ UNCHANGED <<board, next, asked, resulted, unreplied, up, epoch>>

-----------------------------------------------------------------------------
Crash == /\ up # "down" /\ Die
         /\ UNCHANGED <<board, next, tasks>>

Restart == /\ up = "down" /\ epoch < MaxEpochs
           /\ up' = "starting" /\ epoch' = epoch + 1
           /\ UNCHANGED <<board, next, tasks, turn>>

\* mutant: every dead turn failed
CloseDeadFailed(g) ==
  /\ up = "starting" /\ lane[g] = "open"
  /\ phase' = Ended(g, "error")
  /\ lane' = [lane EXCEPT ![g] = "closed"]
  /\ UNCHANGED <<board, next, asked, resulted, unreplied, turn, up, epoch>>

(* Before it serves, a tenure closes what the last one announced: replied  *)
(* where the turn's result is on the log, failed where it is not.          *)
CloseDead(g) ==
  /\ up = "starting" /\ lane[g] = "open"
  /\ phase' = Ended(g, IF g \in resulted THEN "replied" ELSE "error")
  /\ lane' = [lane EXCEPT ![g] = "closed"]
  /\ UNCHANGED <<board, next, asked, resulted, unreplied, turn, up, epoch>>

Serve == /\ up = "starting" /\ \A g \in Gesture : lane[g] # "open"
         /\ up' = "serving"
         /\ UNCHANGED <<board, next, tasks, turn, epoch>>

Human == \/ \E d \in Decision, m \in BOOLEAN : Answer(d, m)
         \/ Talk
         \/ \E p \in queue : Apply(p) \/ Dismiss(p)
         \/ \E g \in Gesture, x \in Decision : Retry(g, x)
Cut   == \/ \E d \in Decision, m \in BOOLEAN, n \in {1, 2} : AnswerCut(d, m, n)
         \/ \E g \in Gesture, x \in Decision : RetryCut(g, x)
Ends(g) == Fail(g) \/ \E doc \in Document, says \in BOOLEAN : Reply(g, doc, says)

Next == \/ Human \/ Cut \/ Crash \/ Restart \/ Serve
        \/ \E g \in Gesture : Ends(g) \/ Close(g) \/ CloseDead(g)

Spec == Init /\ [][Next]_vars

-----------------------------------------------------------------------------
Proposal == [kind : Kinds, target : Decision, from : Gesture, moved : BOOLEAN]

(* The type of the folded log and of the process.                          *)
TypeOK ==
  /\ status \in [Decision -> {"open", "settled", "invalidated"}]
  /\ answered \subseteq Decision
  /\ queue \subseteq Proposal
  /\ next \in 1..MaxGestures + 1
  /\ asked \in [Gesture -> Decision \cup {NoDecision}]
  /\ phase \in [Gesture -> [Decision -> Phases]]
  /\ lane \in [Gesture -> {"none", "open", "closed"}]
  /\ resulted \subseteq Gesture
  /\ unreplied \in 0..MaxGestures
  /\ turn \in [Gesture -> [state : {"none", "running", "answered", "failed"},
                           owes : SUBSET Decision, for : 0..MaxGestures, scope : SUBSET Decision]]
  /\ up \in {"serving", "starting", "down"}
  /\ epoch \in 1..MaxEpochs

(* At most one task holds a decision, across supersession, retry, crash    *)
(* and restart: the board's one `waiting` field says all there is.         *)
OneHolder == \A x \in Decision : \A g, h \in Gesture : Holds(g, x) /\ Holds(h, x) => g = h

(* A task whose ruling is on the log never reads as a failed one, so no    *)
(* retry asks for a ruling that was made: not even when the process died   *)
(* between the ruling and the turn's closing entry.                        *)
LandedIsNotFailed == \A g \in resulted, x \in Decision : phase[g][x] # "error"

(* A task is being weighed only while its turn is announced and unclosed,  *)
(* so a restart, which reads announcements, finds every one of them.       *)
ComposingIsAnnounced == \A g \in Gesture, x \in Decision : phase[g][x] = "composing" => lane[g] = "open"

(* A ruling lands only as the one its decision is waiting for: an agent    *)
(* kills a decision directly only by a task still holding it and never     *)
(* over an answer, and what a superseded task says of its target reaches   *)
(* neither the board nor the queue.                                        *)
OnlyTheHolderRules ==
  [][\A x \in Decision :
       /\ (status[x] # "invalidated" /\ status'[x] = "invalidated") =>
            \/ \E p \in queue : p.target = x /\ p \notin queue'
            \/ x \notin answered /\ \E g \in Gesture : phase[g][x] = "composing" /\ turn[g] # turn'[g]
       /\ \A p \in queue' \ queue : p.target = x =>
            p.moved \/ phase[p.from][x] # "superseded"]_vars

(* Nothing unlocks on inaction: while the backend lives, and when it is    *)
(* restarted, a decision stops waiting only with a turn that replied.  (A  *)
(* process that dies inside the two appends of one supersession is         *)
(* excepted: the new task's announcement is lost with it.)                 *)
UnlockedOnlyByReply ==
  [][\A x \in Decision : (Held(x) /\ ~Held(x)' /\ up' # "down") =>
       \E g \in Gesture : phase[g][x] = "composing" /\ phase'[g][x] = "replied"]_vars

(* The one task of the projector's `waiting` field.                        *)
Holder(x) == IF Held(x) THEN CHOOSE g \in Gesture : Holds(g, x) ELSE 0

(* The board as the human sees it.                                         *)
Waits == INSTANCE WaitingBoard WITH
  holder <- [x \in Decision |-> Holder(x)],
  failed <- {x \in Decision : \E g \in Gesture : phase[g][x] = "error"},
  heard  <- resulted,
  last   <- next - 1,
  alive  <- (up # "down")

(* The lane keeps what the board promises of a waiting decision, across    *)
(* threads, supersession, retries, crashes and restarts: it goes from task *)
(* to younger task, is let go only by a task that replied, and a failed    *)
(* task holds it until another takes over.                                 *)
IsWaitingBoard == Waits!Spec

(* The page's account of a failed ruling: a control releases it.  There is *)
(* something the human can do, now or once a proposal is out of the way.   *)
FailureHasAWayOut ==
  \A g \in Gesture, x \in Decision :
     phase[g][x] = "error" => RetryStarts(g, x) \/ \E p \in queue : p.target = x
=============================================================================
