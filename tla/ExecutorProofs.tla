---------------------------- MODULE ExecutorProofs ----------------------------
(***************************************************************************)
(* Theorems about the executor, for every value of the constants.  The     *)
(* commands drive the runtime through its own events only (DrivesTheFold), *)
(* so what is proved of GrindFold holds under the executor too.  The       *)
(* invariant is about the step that a command still has to take: what was  *)
(* legal when the plan was made is still legal when its append comes, and  *)
(* a merge's tracker call comes after the merge.                           *)
(***************************************************************************)
EXTENDS Executor, GrindFoldSafety, SequenceTheorems

\* What a row's arguments are.
Fits(row, c) ==
    /\ c.item \in Items
    /\ row = "park:failure" => c.arg \in FailureReasons
    /\ row = "park:scheduling" => c.arg \in SchedulingReasons
    /\ row \in {"abandon", "pr-opened", "pr-closed"} => c.arg \in PRs
    /\ row = "pr-closed" => c.next \in ClosureOutcomes
    /\ row = "merged" => c.arg \in Shas
    /\ row \in {"attempt:under-budget", "attempt:exhausted"} => c.arg \in Kinds

Todos == {<<>>, <<"tracker">>, <<"runtime">>,
          <<"tracker", "runtime">>, <<"runtime", "tracker">>}

AppendDue == session.todo \in {<<"runtime">>, <<"tracker", "runtime">>,
                               <<"runtime", "tracker">>}
CallDue   == session.todo \in {<<"tracker">>, <<"tracker", "runtime">>,
                               <<"runtime", "tracker">>}

PlanOK ==
    /\ session \in SessionType
    /\ session.todo # <<>> =>
           session.row \in Rows /\ Fits(session.row, session.cmd)
    \* nothing moves the item between the plan and its append
    /\ AppendDue =>
           Known(session.cmd.item) /\ Legal(session.row, session.cmd)
    /\ CallDue =>
           /\ TrackerVerb(session.row) # Untracked
           /\ session.row = "merged" =>
                  \/ session.todo = <<"runtime", "tracker">>
                  \/ session.todo = <<"tracker">>
                     /\ item[session.cmd.item].status \in Terminal

TrackerOK ==
    /\ tracker \in [Items -> TrackerStatus]
    /\ unsynced \in SUBSET Items

-----------------------------------------------------------------------------
(* Plans *)

LEMMA CommandFits ==
    ASSUME NEW i \in Items, NEW c \in Commands(i)
    PROVE  c.item = i /\ RowOf(c) \in Rows /\ Fits(RowOf(c), c)
<1>1. CASE c \in {Command(verb, i, None, None) : verb \in {"start", "redispatch", "done"}}
  BY <1>1 DEF Command, RowOf, Rows, Fits
<1>2. CASE c \in {Command("park", i, reason, None) : reason \in ParkReasons}
  <2>1. PICK reason \in ParkReasons : c = Command("park", i, reason, None)
    BY <1>2
  <2>2. c.verb = "park" /\ c.item = i /\ c.arg = reason
    BY <2>1 DEF Command
  <2>3. RowOf(c) = IF reason \in FailureReasons THEN "park:failure" ELSE "park:scheduling"
    BY <2>2 DEF RowOf
  <2>. QED BY <2>2, <2>3 DEF Rows, Fits, ParkReasons
<1>3. CASE c \in {Command(verb, i, p, None) : verb \in {"abandon", "pr-opened"}, p \in PRs}
  BY <1>3 DEF Command, RowOf, Rows, Fits
<1>4. CASE c \in {Command("pr-closed", i, p, next) : p \in PRs, next \in ClosureOutcomes}
  BY <1>4 DEF Command, RowOf, Rows, Fits
<1>5. CASE c \in {Command("merged", i, sha, None) : sha \in Shas}
  BY <1>5 DEF Command, RowOf, Rows, Fits
<1>6. CASE c \in {Command("attempt", i, k, None) : k \in Kinds}
  BY <1>6 DEF Command, RowOf, Rows, Fits
<1>. QED BY <1>1, <1>2, <1>3, <1>4, <1>5, <1>6 DEF Commands

LEMMA PairOf ==
    ASSUME NEW x, NEW y
    PROVE  <<x>> \o <<y>> = <<x, y>>
<1>1. /\ <<x>> \in Seq({x, y}) /\ <<y>> \in Seq({x, y}) /\ <<x, y>> \in Seq({x, y})
      /\ Len(<<x, y>>) = 2 /\ <<x, y>>[1] = x /\ <<x, y>>[2] = y
  OBVIOUS
<1>2. /\ <<x>> \o <<y>> \in Seq({x, y}) /\ Len(<<x>> \o <<y>>) = 2
      /\ (<<x>> \o <<y>>)[1] = x /\ (<<x>> \o <<y>>)[2] = y
  BY <1>1
<1>3. \A n \in 1 .. 2 : (<<x>> \o <<y>>)[n] = <<x, y>>[n]
  BY <1>1, <1>2
<1>. QED BY <1>1, <1>2, <1>3, SeqEqual

LEMMA TodosDiffer ==
    /\ <<"runtime">> \notin {<<>>, <<"tracker">>, <<"tracker", "runtime">>,
                             <<"runtime", "tracker">>}
    /\ <<"tracker">> \notin {<<>>, <<"runtime">>, <<"tracker", "runtime">>,
                             <<"runtime", "tracker">>}
    /\ <<"runtime", "tracker">> \notin {<<>>, <<"tracker", "runtime">>}
    /\ <<"tracker", "runtime">> # <<>>
  OBVIOUS

\* The steps are taken from the front.
LEMMA StepTaken ==
    ASSUME PlanOK, NEW step \in {"tracker", "runtime"}, At(step)
    PROVE  /\ session.todo # <<>>
           /\ step = "runtime" =>
                  AppendDue /\ Tail(session.todo) \in {<<>>, <<"tracker">>}
           /\ step = "runtime" /\ Tail(session.todo) = <<"tracker">> =>
                  session.todo = <<"runtime", "tracker">>
           /\ step = "tracker" =>
                  CallDue /\ Tail(session.todo) \in {<<>>, <<"runtime">>}
           /\ step = "tracker" /\ Tail(session.todo) = <<"runtime">> =>
                  session.todo = <<"tracker", "runtime">>
           /\ step = "tracker" =>
                  session.todo \in {<<"tracker">>, <<"tracker", "runtime">>}
<1>1. session.todo \in Todos \ {<<>>} /\ Head(session.todo) = step
  BY DEF At, PlanOK, SessionType, Todos
<1>2. \A x : Head(<<x>>) = x /\ Tail(<<x>>) = <<>>
  OBVIOUS
<1>3. \A x, y : Head(<<x, y>>) = x /\ Tail(<<x, y>>) = <<y>>
  OBVIOUS
<1>4. CASE session.todo = <<"tracker">>
  BY <1>1, <1>2, <1>4 DEF CallDue
<1>5. CASE session.todo = <<"runtime">>
  BY <1>1, <1>2, <1>5 DEF AppendDue
<1>6. CASE session.todo = <<"tracker", "runtime">>
  BY <1>1, <1>3, <1>6 DEF CallDue
<1>7. CASE session.todo = <<"runtime", "tracker">>
  BY <1>1, <1>3, <1>7 DEF AppendDue
<1>. QED BY <1>1, <1>4, <1>5, <1>6, <1>7 DEF Todos

LEMMA StepsOf ==
    ASSUME NEW c
    PROVE  /\ Steps(c) \in Todos
           /\ Steps(c) \in {<<"runtime">>, <<"tracker", "runtime">>, <<"runtime", "tracker">>}
                  => ~OnRecord(RowOf(c), c)
           /\ Steps(c) \in {<<"tracker">>, <<"tracker", "runtime">>, <<"runtime", "tracker">>}
                  => TrackerVerb(RowOf(c)) # Untracked
           /\ Steps(c) = <<"tracker">> => OnRecord(RowOf(c), c)
           /\ Steps(c) = <<"tracker", "runtime">> => ~RuntimeFirst(RowOf(c))
           /\ Steps(c) \in {<<>>, <<"tracker">>} => OnRecord(RowOf(c), c)
           /\ Steps(c) \in {<<>>, <<"runtime">>} =>
                  ~(c.item \in handled /\ TrackerVerb(RowOf(c)) # Untracked)
<1> DEFINE append == IF OnRecord(RowOf(c), c) THEN <<>> ELSE <<"runtime">>
           call   == IF c.item \in handled /\ TrackerVerb(RowOf(c)) # Untracked
                     THEN <<"tracker">> ELSE <<>>
<1>1. Steps(c) = IF RuntimeFirst(RowOf(c)) THEN append \o call ELSE call \o append
  BY DEF Steps
<1>2. /\ <<>> \o <<>> = <<>>
      /\ \A x : <<x>> \o <<>> = <<x>> /\ <<>> \o <<x>> = <<x>>
  OBVIOUS
<1>9. \A x, y : <<x>> \o <<y>> = <<x, y>>
  BY PairOf
<1>3. /\ <<"runtime">> # <<"tracker">> /\ <<"runtime">> # <<>> /\ <<"tracker">> # <<>>
      /\ \A x, y, z : <<x, y>> # <<z>> /\ <<x, y>> # <<>>
      /\ <<"runtime", "tracker">> # <<"tracker", "runtime">>
  OBVIOUS
<1>4. /\ append = IF OnRecord(RowOf(c), c) THEN <<>> ELSE <<"runtime">>
      /\ \/ call = <<>> /\ ~(c.item \in handled /\ TrackerVerb(RowOf(c)) # Untracked)
         \/ call = <<"tracker">> /\ TrackerVerb(RowOf(c)) # Untracked
  OBVIOUS
<1>. HIDE DEF append, call
<1>5. CASE append = <<>> /\ call = <<>>
  <2>1. Steps(c) = <<>>
    BY <1>1, <1>2, <1>5
  <2>. QED BY <1>3, <1>4, <1>5, <2>1 DEF Todos
<1>6. CASE append = <<>> /\ call = <<"tracker">>
  <2>1. Steps(c) = <<"tracker">>
    BY <1>1, <1>2, <1>6
  <2>. QED BY <1>3, <1>4, <1>6, <2>1 DEF Todos
<1>7. CASE append = <<"runtime">> /\ call = <<>>
  <2>1. Steps(c) = <<"runtime">>
    BY <1>1, <1>2, <1>7
  <2>. QED BY <1>3, <1>4, <1>7, <2>1 DEF Todos
<1>8. CASE append = <<"runtime">> /\ call = <<"tracker">>
  <2>1. Steps(c) = IF RuntimeFirst(RowOf(c)) THEN <<"runtime", "tracker">>
                   ELSE <<"tracker", "runtime">>
    BY <1>1, <1>9, <1>8
  <2>. QED BY <1>3, <1>4, <1>8, <2>1 DEF Todos
<1>. QED BY <1>4, <1>5, <1>6, <1>7, <1>8

\* Matrix A is nowhere wider than the fold.
LEMMA LegalIsApplicable ==
    ASSUME TypeOK, NEW row \in Rows, NEW c, Fits(row, c), Known(c.item), Legal(row, c)
    PROVE  Applicable(row, c)
<1>1. CASE row \in {"start", "pr-opened", "pr-closed", "merged", "done"}
  BY <1>1 DEF Legal, LegalStates, From, Applicable, FailureParks, CanStart, CanOpenPr,
              CanClosePr, CanMerge, CanFinishItem, Reviewable
<1>2. CASE row \in FailureParks \cup {"park:scheduling"}
  BY <1>2, ReasonsAssumption
     DEF Legal, LegalStates, Requires, Fits, From, Applicable, FailureParks, CanPark,
         Parkable, ParkReason, HoldsOpenPr, ParkReasons
<1>3. CASE row \in {"redispatch", "abandon"}
  BY <1>3 DEF Legal, Applicable, FailureParks, CanEnqueue, Parked
<1>4. CASE row = "attempt:under-budget"
  BY <1>4 DEF Legal, LegalStates, Requires, Applicable, FailureParks, CanAttempt
<1>. QED BY <1>1, <1>2, <1>3, <1>4 DEF Rows, FailureParks

\* An append of a plan is an event of the fold.
LEMMA WriteIsNext ==
    ASSUME TypeOK, NEW row \in Rows, NEW c, Fits(row, c), Legal(row, c), Write(row, c)
    PROVE  Next
<1> DEFINE i == c.item
<1>0. i \in Items
  BY DEF Fits
<1>1. CASE Ignored
  BY <1>1 DEF Next
<1>2. CASE Live /\ Flag(i)
  BY <1>0, <1>2 DEF Next
<1>3. ASSUME Live, Event(row, c) PROVE Next
  <2>1. CASE row \in {"start", "pr-opened", "pr-closed", "merged", "done"}
    BY <1>0, <1>3, <2>1 DEF Event, Fits, FailureParks, PairedEvent, Next, ClosureOutcomes
  <2>2. CASE row \in FailureParks \cup {"park:scheduling"}
    <3>1. ParkReason(row, c) \in ParkReasons
      BY <2>2, BudgetExhaustedAssumption DEF Fits, FailureParks, ParkReason, ParkReasons
    <3>2. ItemParked(i, ParkReason(row, c))
      BY <1>3, <2>2 DEF Event, FailureParks
    <3>. QED BY <1>0, <1>3, <3>1, <3>2 DEF PairedEvent, Next, ParkTypes
  <2>3. CASE row \in {"redispatch", "abandon"}
    <3>1. item[i].lane \in Lanes
      BY <1>0, <2>3, FieldTypes DEF Legal, Requires, OnLane, TypeOK
    <3>2. \E closure \in PRs \cup {None} : ItemEnqueued(i, item[i].lane, closure)
      BY <1>3, <2>3 DEF Event, FailureParks, Fits
    <3>. QED BY <1>0, <1>3, <3>1, <3>2 DEF PairedEvent, Next
  <2>4. CASE row = "attempt:under-budget"
    BY <1>0, <1>3, <2>4 DEF Event, FailureParks, Fits, PairedEvent, Next
  <2>. QED BY <2>1, <2>2, <2>3, <2>4 DEF Rows, FailureParks
<1>. QED BY <1>1, <1>2, <1>3 DEF Write

-----------------------------------------------------------------------------
(* The executor drives the fold *)

LEMMA StepIsFoldStep ==
    ASSUME TypeOK, PlanOK, [ExecNext]_allVars
    PROVE  [Next]_vars
<1>1. CASE UNCHANGED allVars
  BY <1>1 DEF allVars
<1>2. CASE \E i \in Items : \E c \in Commands(i) : Invoke(c)
  BY <1>2 DEF Invoke
<1>3. CASE TrackerStep \/ Conclude \/ Crash \/ WorkSync
  BY <1>3 DEF TrackerStep, Conclude, Crash, WorkSync
<1>4. CASE RuntimeStep
  <2>1. AppendDue /\ session.todo # <<>>
    BY <1>4, StepTaken DEF RuntimeStep
  <2>. QED BY <1>4, <2>1, WriteIsNext DEF RuntimeStep, PlanOK, vars
<1>5. CASE Direct
  <2>. QED BY <1>5 DEF Direct, Next
<1>. QED BY <1>1, <1>2, <1>3, <1>4, <1>5 DEF ExecNext

LEMMA LegalKept ==
    ASSUME item' = item, NEW row, NEW c
    PROVE  Legal(row, c)' <=> Legal(row, c)
  BY DEF Legal, LegalStates, Requires, From, Active, Known, HoldsPr, HoldsOpenPr,
         OnPr, OnLane, Parked

LEMMA IdleFits == Idle \in SessionType /\ Idle.todo = <<>>
<1> DEFINE cmds == (UNION {Commands(i) : i \in Items}) \cup {None}
<1>1. None \in cmds
  OBVIOUS
<1>. HIDE DEF cmds
<1>2. Idle \in [cmd : cmds, row : Rows \cup {None},
                todo : {<<>>, <<"tracker">>, <<"runtime">>,
                        <<"tracker", "runtime">>, <<"runtime", "tracker">>},
                appends : BOOLEAN, mutated : BOOLEAN, failed : {"no", "retryable", "refused"}]
  BY <1>1 DEF Idle
<1>. QED BY <1>2 DEF Idle, SessionType, cmds

LEMMA PlanStep ==
    ASSUME TypeOK, Safe, PlanOK, [ExecNext]_allVars
    PROVE  PlanOK'
<1>0. /\ session \in SessionType
      /\ session.mutated \in BOOLEAN
      /\ session.cmd \in (UNION {Commands(i) : i \in Items}) \cup {None}
      /\ session.row \in Rows \cup {None}
  BY DEF PlanOK, SessionType
\* a command that has ended or died, and one that failed
<1>a. ASSUME session' \in SessionType, session'.todo = <<>> PROVE PlanOK'
  BY <1>a DEF PlanOK, AppendDue, CallDue
<1>c. ASSUME NEW how \in {"retryable", "refused"}, NEW mutated \in BOOLEAN,
             Fails(how, mutated)
      PROVE  PlanOK'
  BY <1>0, <1>a, <1>c DEF Fails, SessionType
<1>d. ASSUME NEW step \in {"tracker", "runtime"}, NEW mutated \in BOOLEAN,
             At(step), Done(mutated)
      PROVE  /\ session' \in SessionType
             /\ session'.cmd = session.cmd /\ session'.row = session.row
             /\ session'.todo = Tail(session.todo)
  <2>1. Tail(session.todo) \in Todos
    BY <1>d, StepTaken DEF Todos
  <2>. QED BY <1>0, <1>d, <2>1 DEF Done, SessionType, Todos
<1>1. CASE UNCHANGED allVars
  <2>1. session' = session /\ item' = item
    BY <1>1 DEF allVars, vars, execVars
  <2>. QED BY <2>1, LegalKept DEF PlanOK, AppendDue, CallDue, Known
<1>2. ASSUME NEW i \in Items, NEW c \in Commands(i), Invoke(c) PROVE PlanOK'
  <2>1. /\ session' = [Idle EXCEPT !.cmd = c, !.row = RowOf(c), !.todo = Steps(c),
                                   !.appends = ~OnRecord(RowOf(c), c)]
        /\ item' = item /\ ~Refused(c)
    BY <1>2 DEF Invoke, vars
  <2>2. Steps(c) \in Todos /\ RowOf(c) \in Rows /\ Fits(RowOf(c), c)
    BY CommandFits, StepsOf
  <2>3. /\ session'.cmd = c /\ session'.row = RowOf(c) /\ session'.todo = Steps(c)
        /\ session' \in SessionType
    BY <2>1, <2>2 DEF Idle, SessionType, Todos
  <2>4. ASSUME AppendDue'
        PROVE  Known(session.cmd.item)' /\ Legal(session.row, session.cmd)'
    <3>1. ~OnRecord(RowOf(c), c)
      BY <2>3, <2>4, StepsOf DEF AppendDue
    <3>2. Known(c.item) /\ Legal(RowOf(c), c)
      BY <2>1, <3>1 DEF Refused
    <3>. QED BY <2>1, <2>3, <3>2, LegalKept DEF Known
  <2>5. CallDue' => TrackerVerb(RowOf(c)) # Untracked
    BY <2>3, StepsOf DEF CallDue
  <2>6. ASSUME CallDue', RowOf(c) = "merged"
        PROVE  \/ Steps(c) = <<"runtime", "tracker">>
               \/ /\ Steps(c) = <<"tracker">>
                  /\ item'[c.item].status \in Terminal
    <3>1. RuntimeFirst("merged")
      BY DEF RuntimeFirst
    <3>2. OnRecord("merged", c) => item[c.item].status \in Terminal
      BY DEF OnRecord, From
    <3>. QED BY <2>1, <2>3, <2>6, <3>1, <3>2, StepsOf DEF CallDue
  <2>. QED BY <2>2, <2>3, <2>4, <2>5, <2>6 DEF PlanOK
<1>3. CASE TrackerStep
  <2>1. At("tracker") /\ item' = item
    BY <1>3 DEF TrackerStep, vars
  <2>2. Done(TRUE) \/ \E how \in {"retryable", "refused"}, m \in BOOLEAN : Fails(how, m)
    BY <1>3 DEF TrackerStep
  <2>3. CASE Done(TRUE)
    <3>1. /\ session' \in SessionType
          /\ session'.cmd = session.cmd /\ session'.row = session.row
          /\ session'.todo = Tail(session.todo)
      BY <1>d, <2>1, <2>3
    <3>2. /\ session.todo # <<>> /\ session'.todo \in {<<>>, <<"runtime">>}
          /\ session'.todo = <<"runtime">> => session.todo = <<"tracker", "runtime">>
      BY <2>1, <3>1, StepTaken
    <3>3. CASE session'.todo = <<>>
      BY <1>a, <3>1, <3>3
    <3>4. CASE session'.todo = <<"runtime">>
      <4>1. AppendDue /\ ~CallDue'
        BY <3>2, <3>4, TodosDiffer DEF AppendDue, CallDue
      <4>. QED BY <2>1, <3>1, <3>2, <4>1, LegalKept DEF PlanOK, Known
    <3>. QED BY <3>2, <3>3, <3>4
  <2>. QED BY <1>c, <2>2, <2>3
<1>4. CASE RuntimeStep
  <2>1. At("runtime")
    BY <1>4 DEF RuntimeStep
  <2>2. \/ /\ Write(session.row, session.cmd) /\ Applied(session.row, session.cmd)
           /\ Done(FALSE)
        \/ \E how \in {"retryable", "refused"}, m \in BOOLEAN : Fails(how, m)
    BY <1>4 DEF RuntimeStep
  <2>3. ASSUME Write(session.row, session.cmd), Applied(session.row, session.cmd),
               Done(FALSE)
        PROVE  PlanOK'
    <3>1. /\ session' \in SessionType
          /\ session'.cmd = session.cmd /\ session'.row = session.row
          /\ session'.todo = Tail(session.todo)
      BY <1>d, <2>1, <2>3
    <3>2. /\ session.todo # <<>> /\ session'.todo \in {<<>>, <<"tracker">>}
          /\ session'.todo = <<"tracker">> => session.todo = <<"runtime", "tracker">>
      BY <2>1, <3>1, StepTaken
    <3>3. CASE session'.todo = <<>>
      BY <1>a, <3>1, <3>3
    <3>4. CASE session'.todo = <<"tracker">>
      <4>1. ~AppendDue' /\ CallDue
        BY <3>2, <3>4, TodosDiffer DEF AppendDue, CallDue
      <4>2. ASSUME session.row = "merged"
            PROVE  item'[session.cmd.item].status \in Terminal
        <5>1. session.cmd.item \in Items /\ session.cmd.arg \in Shas
          BY <3>2, <4>2 DEF PlanOK, Fits
        <5>2. ItemMerged(session.cmd.item, session.cmd.arg)
          BY <2>3, <4>2 DEF Write, Applied, Ignored, Event, FailureParks
        <5>. QED BY <5>1, <5>2, MergedEffect DEF Terminal
      <4>. QED BY <3>1, <3>2, <3>4, <4>1, <4>2 DEF PlanOK
    <3>. QED BY <3>2, <3>3, <3>4
  <2>. QED BY <1>c, <2>2, <2>3
<1>5. CASE Conclude \/ Crash
  BY <1>a, IdleFits, <1>5 DEF Conclude, Crash
<1>6. CASE WorkSync \/ Direct
  BY <1>a, IdleFits, <1>6 DEF WorkSync, Direct
<1>. QED BY <1>1, <1>2, <1>3, <1>4, <1>5, <1>6 DEF ExecNext

LEMMA PlanCorrect == ExecSpec => Spec /\ []PlanOK
<1>1. ExecInit => Init /\ TypeOK /\ Safe /\ PlanOK
  <2>1. ExecInit => Init /\ TypeOK /\ Safe
    BY TypeInit, SafeInit DEF ExecInit
  <2>2. ExecInit => PlanOK
    BY IdleFits DEF ExecInit, PlanOK, AppendDue, CallDue
  <2>. QED BY <2>1, <2>2
<1>2. TypeOK /\ Safe /\ PlanOK /\ [ExecNext]_allVars =>
          [Next]_vars /\ TypeOK' /\ Safe' /\ PlanOK'
  BY StepIsFoldStep, TypeStep, SafeStep, PlanStep
<1>. QED BY <1>1, <1>2, PTL DEF ExecSpec, Spec

\* Every step of a command is an event of the fold, or none: whatever the
\* executor does, and wherever it fails, what holds of every log holds of its.
THEOREM DrivesTheFold == ExecSpec => Spec
<1>. QED BY PlanCorrect, PTL

\* Whatever commands do, repeat and leave half done, the run's items behave as on
\* the abstract board.
THEOREM DrivesTheBoard == ExecSpec => IsWorkBoard
<1>. QED BY DrivesTheFold, KeepsTheBoard, PTL

\* An append that a command still has to make is one the fold applies: Matrix A
\* is nowhere wider than the fold, and nothing moves the item in between.
THEOREM AppendCorrect == ExecSpec => []AppendNeverFlagged
<1>1. TypeOK /\ PlanOK => AppendNeverFlagged
  <2>. SUFFICES ASSUME TypeOK, PlanOK, Pending("runtime")
                PROVE  Applicable(session.row, session.cmd)
    BY DEF AppendNeverFlagged
  <2>1. session.todo \in Todos
    BY DEF PlanOK, SessionType, Todos
  <2>2. session.todo # <<>> /\ session.todo # <<"tracker">>
    BY DEF Pending
  <2>. QED BY <2>1, <2>2, LegalIsApplicable DEF PlanOK, Todos, AppendDue
<1>. QED BY <1>1, PlanCorrect, TypeCorrect, PTL

-----------------------------------------------------------------------------
(* Closed means merged *)

LEMMA TrackerStepEffect ==
    ASSUME PlanOK, TrackerOK, TrackerStep
    PROVE  /\ TrackerOK'
           /\ \A i \in Items : tracker'[i] = "closed" =>
                  tracker[i] = "closed" \/ item[i].status \in Terminal
           /\ unsynced' = unsynced \/ session'.mutated
           /\ session'.mutated \in BOOLEAN
           /\ session.mutated => session'.mutated
<1> DEFINE verb == TrackerVerb(session.row)
           i    == session.cmd.item
           reason == ParkReason(session.row, session.cmd)
<1>1. /\ At("tracker") /\ session.todo # <<>> /\ CallDue
      /\ session.todo \in {<<"tracker">>, <<"tracker", "runtime">>}
  BY StepTaken DEF TrackerStep
<1>2. /\ i \in Items /\ session.row \in Rows /\ verb # Untracked
      /\ session.row = "merged" => item[i].status \in Terminal
  BY <1>1, TodosDiffer DEF PlanOK, Fits
<1>3. /\ verb = "close" => session.row = "merged"
      /\ verb \in {"claim", "park", "redispatch", "abandon", "close"}
      /\ verb = "park" => session.row \in FailureParks
  BY <1>2 DEF TrackerVerb, Rows, FailureParks
<1>4. verb = "park" => reason \in FailureReasons
  BY <1>1, <1>3, BudgetExhaustedAssumption DEF PlanOK, Fits, ParkReason, FailureParks
<1>5. session \in SessionType
  BY DEF PlanOK
<1>. HIDE DEF verb, i, reason
<1>6. ASSUME CallLands(verb, i, reason)
      PROVE  /\ TrackerOK'
             /\ \A j \in Items : tracker'[j] = "closed" =>
                    tracker[j] = "closed" \/ item[j].status \in Terminal
             /\ Contradicted(verb, i, reason) => unsynced' = unsynced
  <2>1. tracker[i] \in TrackerStatus /\ "closed" \notin FailureReasons
    BY <1>2, TrackerAssumption DEF TrackerOK
  <2>2. /\ Outcome(verb, i, reason) \in TrackerStatus
        /\ Outcome(verb, i, reason) = "closed" => verb = "close"
        /\ verb = "park" => Outcome(verb, i, reason) \in {tracker[i], reason}
    BY <1>3, <1>4, <2>1 DEF Outcome, TrackerStatus
  <2>3. /\ tracker' = [tracker EXCEPT ![i] = Outcome(verb, i, reason)]
        /\ unsynced' = IF tracker'[i] = tracker[i] THEN unsynced ELSE unsynced \cup {i}
    BY <1>6 DEF CallLands
  <2>4. /\ tracker'[i] = Outcome(verb, i, reason)
        /\ \A j \in Items \ {i} : tracker'[j] = tracker[j]
        /\ tracker' \in [Items -> TrackerStatus]
    BY <1>2, <2>2, <2>3 DEF TrackerOK
  <2>5. unsynced' \in SUBSET Items
    BY <1>2, <2>3 DEF TrackerOK
  <2>6. \A j \in Items : tracker'[j] = "closed" =>
            tracker[j] = "closed" \/ item[j].status \in Terminal
    BY <1>2, <1>3, <2>2, <2>4 DEF i
  <2>7. Contradicted(verb, i, reason) => unsynced' = unsynced
    BY <2>2, <2>3, <2>4 DEF Contradicted
  <2>. QED BY <2>4, <2>5, <2>6, <2>7 DEF TrackerOK
<1>7. /\ \A how \in {"retryable", "refused"}, m \in BOOLEAN :
             Fails(how, m) => session'.mutated = (session.mutated \/ m)
      /\ Done(TRUE) => session'.mutated = TRUE
  BY <1>5 DEF Fails, Done, SessionType
<1>8. \/ CallLands(verb, i, reason) /\ Contradicted(verb, i, reason)
            /\ Fails("refused", FALSE)
      \/ CallLands(verb, i, reason) /\ Done(TRUE)
      \/ (CallLands(verb, i, reason) \/ UNCHANGED <<tracker, unsynced>>)
            /\ Fails("retryable", TRUE)
      \/ Fails("retryable", FALSE) /\ UNCHANGED <<tracker, unsynced>>
  BY DEF TrackerStep, verb, i, reason
<1>9. UNCHANGED <<tracker, unsynced>> =>
          /\ TrackerOK'
          /\ \A j \in Items : tracker'[j] = "closed" => tracker[j] = "closed"
  BY DEF TrackerOK
<1>10. session.mutated \in BOOLEAN
  BY <1>5 DEF SessionType
<1>. QED BY <1>6, <1>7, <1>8, <1>9, <1>10

\* A tracker item is closed only after the runtime has recorded its merge.
THEOREM ClosedCorrect == ExecSpec => []ClosedMeansMerged
<1> DEFINE Inv == TrackerOK /\ ClosedMeansMerged
<1>1. ExecInit => Inv
  BY DEF ExecInit, TrackerOK, TrackerStatus, ClosedMeansMerged
<1>2. TypeOK /\ Safe /\ PlanOK /\ Inv /\ [ExecNext]_allVars => Inv'
  <2>. SUFFICES ASSUME TypeOK, Safe, PlanOK, Inv, [ExecNext]_allVars PROVE Inv'
    OBVIOUS
  <2>0. \A i \in Items : item[i].status \in Terminal => item'[i].status \in Terminal
    BY StepIsFoldStep, MergedStep DEF Kept, Terminal
  <2>1. CASE TrackerStep
    BY <2>0, <2>1, TrackerStepEffect DEF ClosedMeansMerged
  <2>2. CASE ~TrackerStep
    <3>1. tracker' = tracker /\ unsynced' \in SUBSET Items
      BY <2>2 DEF ExecNext, allVars, execVars, Invoke, RuntimeStep, Conclude, Synced,
                  Crash, WorkSync, Direct, TrackerOK
    <3>. QED BY <2>0, <3>1 DEF ClosedMeansMerged, TrackerOK
  <2>. QED BY <2>1, <2>2
<1>3. Inv => ClosedMeansMerged
  OBVIOUS
<1>. QED BY <1>1, <1>2, <1>3, PlanCorrect, TypeCorrect, SafeCorrect, PTL DEF ExecSpec

-----------------------------------------------------------------------------
(* Nothing is left unsynced by accident *)

\* A tracker write leaves the machine with the command that made it; only a
\* dead process or a failed sync leaves one behind.
THEOREM StrandedCorrect == ExecSpec => []NothingStranded
<1> DEFINE Debt == unsynced \subseteq stranded \/ (session # Idle /\ session.mutated)
           Inv  == TrackerOK /\ Debt
<1>1. ExecInit => Inv
  BY DEF ExecInit, TrackerOK, TrackerStatus
<1>2. PlanOK /\ Inv /\ [ExecNext]_allVars => Inv'
  <2>. SUFFICES ASSUME PlanOK, Inv, [ExecNext]_allVars PROVE Inv'
    OBVIOUS
  <2>0. ~Idle.mutated
    BY DEF Idle
  <2>1. CASE UNCHANGED allVars
    BY <2>1 DEF allVars, execVars, TrackerOK
  <2>2. CASE \E i \in Items : \E c \in Commands(i) : Invoke(c)
    BY <2>0, <2>2 DEF Invoke, TrackerOK
  <2>3. CASE TrackerStep
    <3>1. /\ TrackerOK' /\ stranded' = stranded
          /\ unsynced' = unsynced \/ session'.mutated
          /\ session.mutated => session'.mutated
      BY <2>3, TrackerStepEffect DEF TrackerStep
    <3>. QED BY <2>0, <3>1
  <2>4. CASE RuntimeStep
    <3>1. /\ UNCHANGED <<tracker, unsynced, stranded>>
          /\ session.mutated => session'.mutated
      <4>1. \/ Done(FALSE)
            \/ \E how \in {"retryable", "refused"} : Fails(how, FALSE)
        BY <2>4 DEF RuntimeStep
      <4>. QED BY <2>4, <4>1 DEF RuntimeStep, Done, Fails, PlanOK, SessionType
    <3>. QED BY <2>0, <3>1 DEF TrackerOK
  <2>5. CASE Conclude
    BY <2>5 DEF Conclude, Synced, TrackerOK
  <2>6. CASE Crash \/ WorkSync
    BY <2>6 DEF Crash, WorkSync, TrackerOK
  <2>7. CASE Direct
    BY <2>7 DEF Direct, TrackerOK
  <2>. QED BY <2>1, <2>2, <2>3, <2>4, <2>5, <2>6, <2>7 DEF ExecNext
<1>3. Inv => NothingStranded
  BY DEF NothingStranded
<1>. QED BY <1>1, <1>2, <1>3, PlanCorrect, PTL DEF ExecSpec

-----------------------------------------------------------------------------
(* The running command *)

AttemptRows == {"attempt:under-budget", "attempt:exhausted"}

\* The row of a command: only an attempt's depends on the state.
Named(row, c) ==
    /\ c.verb = "attempt" <=> row \in AttemptRows
    /\ c.verb # "attempt" => row = RowOf(c)

Running ==
    session # Idle =>
        LET c == session.cmd IN
        /\ c.item \in Items /\ c \in Commands(c.item)
        /\ session.row \in Rows /\ Fits(session.row, c) /\ Named(session.row, c)

LEMMA CommandNamed ==
    ASSUME NEW i \in Items, NEW c \in Commands(i)
    PROVE  Named(RowOf(c), c)
<1>1. c.verb \in {"start", "redispatch", "done", "park", "abandon", "pr-opened",
                  "pr-closed", "merged", "attempt"}
  BY DEF Commands, Command
<1>. QED BY <1>1 DEF Named, RowOf, AttemptRows

\* A row of a command that is no attempt is its row in every state.
LEMMA RowKept ==
    ASSUME NEW c, c.verb # "attempt"
    PROVE  RowOf(c)' = RowOf(c)
  BY DEF RowOf

LEMMA StepsTakenOf ==
    ASSUME PlanOK, [ExecNext]_allVars, session' # Idle, session # Idle
    PROVE  session'.cmd = session.cmd /\ session'.row = session.row
  BY DEF ExecNext, allVars, execVars, Invoke, TrackerStep, RuntimeStep, Done, Fails,
         Conclude, Crash, WorkSync, Direct, PlanOK, SessionType

LEMMA RunningStep ==
    ASSUME PlanOK, Running, [ExecNext]_allVars
    PROVE  Running'
<1>1. CASE \E i \in Items : \E c \in Commands(i) : Invoke(c)
  <2>1. PICK i \in Items : \E c \in Commands(i) : Invoke(c)
    BY <1>1
  <2>2. PICK c \in Commands(i) : Invoke(c)
    BY <2>1
  <2>3. session'.cmd = c /\ session'.row = RowOf(c)
    BY <2>2 DEF Invoke, Idle
  <2>4. c.item = i /\ RowOf(c) \in Rows /\ Fits(RowOf(c), c) /\ Named(RowOf(c), c)
    BY CommandFits, CommandNamed
  <2>5. Fits(session.row, session.cmd)' /\ Named(session.row, session.cmd)'
    BY <2>3, <2>4, RowKept DEF Fits, Named
  <2>. QED BY <2>3, <2>4, <2>5 DEF Running, Commands
<1>2. CASE session' # Idle /\ session # Idle
  <2>1. session'.cmd = session.cmd /\ session'.row = session.row
    BY <1>2, StepsTakenOf
  <2>. QED BY <1>2, <2>1, RowKept DEF Running, Fits, Named
<1>3. CASE session' = Idle
  BY <1>3 DEF Running
<1>4. CASE session = Idle /\ ~\E i \in Items : \E c \in Commands(i) : Invoke(c)
  <2>1. ~At("tracker") /\ ~At("runtime")
    BY <1>4, IdleFits DEF At
  <2>2. session' = session
    BY <1>4, <2>1 DEF ExecNext, allVars, execVars, TrackerStep, RuntimeStep, Conclude,
                      Over, Crash, WorkSync, Direct
  <2>. QED BY <1>4, <2>2 DEF Running
<1>. QED BY <1>1, <1>2, <1>3, <1>4

\* Every variable of the executor stays well typed.
THEOREM ExecTyped == ExecSpec => []ExecTypeOK
<1> DEFINE cmds == (UNION {Commands(i) : i \in Items}) \cup {None}
           Inv == /\ handled \in HandleChoices /\ TrackerOK /\ stranded \in SUBSET Items
                  /\ owed \in cmds /\ granted \in [Items -> [Kinds -> Nat]]
<1>1. ExecInit => Inv
  BY DEF ExecInit, TrackerOK, TrackerStatus, NoAttempts
<1>2. PlanOK /\ Inv /\ [ExecNext]_allVars => Inv'
  <2>. SUFFICES ASSUME PlanOK, Inv, [ExecNext]_allVars PROVE Inv'
    OBVIOUS
  <2>0. session.cmd \in cmds
    BY DEF PlanOK, SessionType
  <2>. HIDE DEF cmds
  <2>1. CASE UNCHANGED allVars
    BY <2>1 DEF allVars, execVars, TrackerOK, cmds
  <2>2. CASE \E i \in Items : \E c \in Commands(i) : Invoke(c)
    BY <2>2 DEF Invoke, TrackerOK, cmds
  <2>3. CASE TrackerStep
    BY <2>3, TrackerStepEffect DEF TrackerStep, cmds
  <2>4. CASE RuntimeStep
    <3>1. granted' = granted \/ LedgerKept(session.cmd.item)
      BY <2>4 DEF RuntimeStep
    <3>2. granted' \in [Items -> [Kinds -> Nat]]
      BY <3>1 DEF LedgerKept, NoAttempts
    <3>. QED BY <2>4, <3>2 DEF RuntimeStep, TrackerOK, cmds
  <2>5. CASE Conclude
    <3> DEFINE x == session.cmd.item
               y == session.cmd.arg
    <3>a. ASSUME NEW f \in [Kinds -> Nat], NEW z
          PROVE  [f EXCEPT ![z] = @ + 1] \in [Kinds -> Nat]
      <4>1. CASE z \in Kinds
        BY <4>1
      <4>2. CASE z \notin Kinds
        <5>1. [f EXCEPT ![z] = @ + 1] = f
          BY <4>2, Zenon
        <5>. QED BY <5>1
      <4>. QED BY <4>1, <4>2
    <3>b. granted' = granted \/ granted' = [granted EXCEPT ![x] = [granted[x] EXCEPT ![y] = @ + 1]]
      BY <2>5 DEF Conclude
    <3>. HIDE DEF x, y
    <3>1. granted' \in [Items -> [Kinds -> Nat]]
      <4>1. CASE x \in Items
        BY <3>a, <3>b, <4>1
      <4>2. CASE x \notin Items
        BY <3>b, <4>2
      <4>. QED BY <4>1, <4>2
    <3>2. owed' \in cmds
      BY <2>0, <2>5 DEF Conclude, cmds
    <3>. QED BY <2>5, <3>1, <3>2 DEF Conclude, Synced, TrackerOK, cmds
  <2>6. CASE Crash \/ WorkSync \/ Direct
    BY <2>0, <2>6 DEF Crash, WorkSync, Direct, TrackerOK, cmds
  <2>. QED BY <2>1, <2>2, <2>3, <2>4, <2>5, <2>6 DEF ExecNext
<1>3. TypeOK /\ PlanOK /\ Inv => ExecTypeOK
  BY DEF ExecTypeOK, PlanOK, TrackerOK
<1>. QED BY <1>1, <1>2, <1>3, PlanCorrect, TypeCorrect, PTL DEF ExecSpec

-----------------------------------------------------------------------------
(* The fix budget *)

Charge(row) == row = "attempt:under-budget"

Unborn == \A i \in Items : item[i].status = None => item[i].attempts = NoAttempts

\* An answer to proceed, once its event is written, is not yet among those
\* that were granted; while the event is due, the budget has room for it.
Charged ==
    session # Idle /\ Charge(session.row) =>
        LET count == item[session.cmd.item].attempts[session.cmd.arg] IN
        /\ AppendDue => count < Budget
        /\ session.todo = <<>> /\ session.failed = "no" =>
               granted[session.cmd.item][session.cmd.arg] < count

\* What an append does to the ledgers.
LEMMA EventCharges ==
    ASSUME TypeOK, NEW row \in Rows, NEW c, Fits(row, c), Legal(row, c), Event(row, c)
    PROVE  LET i == c.item IN
           /\ \A j \in Items \ {i} : item'[j].attempts = item[j].attempts
           /\ \A j \in Items : item'[j].status = None <=> item[j].status = None
           /\ Charge(row) => item'[i].attempts = [item[i].attempts EXCEPT ![c.arg] = @ + 1]
           /\ ~Charge(row) => item'[i].attempts \in {item[i].attempts, NoAttempts}
<1> DEFINE i == c.item
<1>. USE DEF Charge
<1>0. i \in Items /\ None \notin ItemStatus
  BY NoneAssumption DEF Fits
<1>a. /\ None # "in-progress" /\ None # "queued" /\ None # "blocked" /\ None # "pr-open"
      /\ None # "merged" /\ None # "done"
  BY <1>0 DEF ItemStatus
<1>. USE DEF Only, SameWork, SamePlace
<1>1. CASE row = "start"
  <2>1. ItemStarted(i) /\ item[i].status = "queued"
    BY <1>1 DEF Event, FailureParks, ItemStarted, CanStart, From
  <2>. QED BY <1>0, <1>a, <1>1, <2>1, StartedEffect
<1>2. CASE row \in FailureParks \cup {"park:scheduling"}
  <2>1. ParkReason(row, c) \in ParkReasons
    BY <1>2, BudgetExhaustedAssumption DEF Fits, FailureParks, ParkReason, ParkReasons
  <2>2. ItemParked(i, ParkReason(row, c))
    BY <1>2 DEF Event, FailureParks
  <2>. QED BY <1>0, <1>2, <2>1, <2>2, ParkedEffect DEF FailureParks, ParkTypes
<1>3. CASE row \in {"redispatch", "abandon"}
  <2>1. item[i].lane \in Lanes
    BY <1>0, <1>3, FieldTypes DEF Legal, Requires, OnLane, TypeOK
  <2>2. \E closure \in PRs \cup {None} : ItemEnqueued(i, item[i].lane, closure)
    BY <1>3 DEF Event, FailureParks, Fits
  <2>3. item[i].status # None
    BY <2>2 DEF ItemEnqueued, CanEnqueue, Known
  <2>. QED BY <1>0, <1>a, <1>3, <2>1, <2>2, <2>3, EnqueuedEffect
<1>4. CASE row = "pr-opened"
  <2>1. PrOpened(i, c.arg) /\ c.arg \in PRs /\ item[i].status # None
    BY <1>4 DEF Event, FailureParks, Fits, PrOpened, CanOpenPr, From, Active, Known
  <2>. QED BY <1>0, <1>a, <1>4, <2>1, PrOpenedEffect
<1>5. CASE row = "pr-closed"
  <2>1. /\ PrClosed(i, c.arg, c.next) /\ c.arg \in PRs /\ item[i].status # None
        /\ c.next \in {"in-progress", "queued"} \cup ParkTypes
    BY <1>5 DEF Event, FailureParks, Fits, PrClosed, CanClosePr, From, Active, Known,
                ClosureOutcomes
  <2>. QED BY <1>0, <1>a, <1>5, <2>1, PrClosedEffect
<1>6. CASE row = "merged"
  <2>1. ItemMerged(i, c.arg) /\ c.arg \in Shas /\ item[i].status # None
    BY <1>6 DEF Event, FailureParks, Fits, ItemMerged, CanMerge, From, Active, Known
  <2>. QED BY <1>0, <1>a, <1>6, <2>1, MergedEffect
<1>7. CASE row = "done"
  <2>1. ItemDone(i) /\ item[i].status # None
    BY <1>7 DEF Event, FailureParks, ItemDone, CanFinishItem, From, Active, Known
  <2>. QED BY <1>0, <1>a, <1>7, <2>1, DoneEffect
<1>8. CASE row = "attempt:under-budget"
  <2>1. FixAttempted(i, c.arg) /\ c.arg \in Kinds
    BY <1>8 DEF Event, FailureParks, Fits
  <2>. QED BY <1>0, <1>8, <2>1, FixAttemptedEffect
<1>. QED BY <1>1, <1>2, <1>3, <1>4, <1>5, <1>6, <1>7, <1>8 DEF Rows, FailureParks

\* Nothing else moves a ledger.
LEMMA DirectCharges ==
    ASSUME TypeOK, Safe, Unborn, Direct, NEW j \in Items
    PROVE  /\ item'[j].attempts = item[j].attempts
           /\ item'[j].status = None => item[j].status = None
<1>0. None \notin ItemStatus
  BY NoneAssumption
<1>1. ASSUME NEW seed \in Seeds, GrindCreated(seed)
      PROVE  item'[j].attempts = NoAttempts /\ item[j].status = None
  <2>1. item'[j].attempts = NoAttempts
    BY <1>1 DEF GrindCreated, Blank, NewItem
  <2>. QED BY <1>1, <2>1 DEF GrindCreated, Safe, Settled
<1>2. ASSUME NEW i \in Items, UnpairedEvent(i)
      PROVE  /\ item'[j].attempts = item[j].attempts
             /\ item'[j].status = None => item[j].status = None
  <2>. USE DEF Only, SameWork
  <2>1. ASSUME NEW r \in Rounds, NEW sha \in Shas,
               ReviewRound(i, r, sha) \/ ReviewVerdict(i, r, sha)
        PROVE  /\ item'[j].attempts = item[j].attempts
               /\ item'[j].status = None => item[j].status = None
    BY <1>0, <2>1, ReviewEffect DEF ItemStatus
  <2>2. ASSUME NEW on \in SUBSET Items, ItemBlocked(i, on)
        PROVE  /\ item'[j].attempts = item[j].attempts
               /\ item'[j].status = None => item[j].status = None
    BY <1>0, <2>2, BlockedEffect DEF ItemStatus
  <2>3. CASE ItemWaitingHuman(i) \/ ItemResumed(i)
    BY <1>0, <2>3, WaitingEffect, ResumedEffect DEF ItemStatus
  <2>4. CASE \/ \E reason \in SchedulingReasons \cup {Untyped} : DiscoveredParked(i, reason)
             \/ \E l \in Lanes : DiscoveredEnqueued(i, l)
    <3>1. item[i].status = None
      BY <2>4 DEF DiscoveredParked, DiscoveredEnqueued, Known
    <3>. QED BY <1>0, <2>4, <3>1, DiscoveredEffect DEF Unborn, ItemStatus
  <2>5. CASE Observation(i)
    BY <2>5 DEF Observation
  <2>. QED BY <1>2, <2>1, <2>2, <2>3, <2>4, <2>5 DEF UnpairedEvent
<1>3. CASE GrindPaused \/ GrindResumed \/ GrindFinished
  BY <1>3 DEF GrindPaused, GrindResumed, GrindFinished
<1>. QED BY <1>1, <1>2, <1>3 DEF Direct, Unborn

ChargeOK == Unborn /\ PreCharged /\ Charged

LEMMA AttemptIsRuntimeOnly ==
    ASSUME NEW row, Charge(row)
    PROVE  TrackerVerb(row) = Untracked /\ \A c : ~OnRecord(row, c)
  BY DEF Charge, TrackerVerb, FailureParks, OnRecord

\* A ledger that grew by its charge, was reset, or stayed.
LEMMA LedgerStep ==
    ASSUME ExecTypeOK, TypeOK', PreCharged, NEW i \in Items, LedgerKept(i),
           \A j \in Items \ {i} : item'[j].attempts = item[j].attempts,
           \/ item'[i].attempts \in {item[i].attempts, NoAttempts}
           \/ \E k \in Kinds : /\ item[i].attempts[k] < Budget
                               /\ item'[i].attempts = [item[i].attempts EXCEPT ![k] = @ + 1]
    PROVE  /\ PreCharged'
           /\ \A k \in Kinds : granted'[i][k] <= item[i].attempts[k]
<1>0. /\ Budget \in Nat /\ \A k \in Kinds : NoAttempts[k] = 0
      /\ \A j \in Items : /\ granted[j] \in [Kinds -> Nat] /\ item[j].attempts \in [Kinds -> Nat]
                          /\ item'[j].attempts \in [Kinds -> Nat]
  BY BudgetAssumption, FieldTypes DEF ExecTypeOK, TypeOK, NoAttempts
<1>1. \A j \in Items \ {i} : granted'[j] = granted[j]
  BY DEF LedgerKept, ExecTypeOK
<1>2. granted'[i] = IF item'[i].attempts = NoAttempts THEN NoAttempts ELSE granted[i]
  BY DEF LedgerKept, ExecTypeOK
<1>3. ASSUME NEW k \in Kinds
      PROVE  /\ granted'[i][k] <= item'[i].attempts[k]
             /\ granted'[i][k] <= item[i].attempts[k]
             /\ item'[i].attempts[k] <= Budget
  <2>1. granted[i][k] <= item[i].attempts[k] /\ item[i].attempts[k] <= Budget
    BY DEF PreCharged
  <2>2. CASE item'[i].attempts = NoAttempts
    BY <1>0, <1>2, <2>1, <2>2
  <2>3. CASE item'[i].attempts = item[i].attempts
    BY <1>0, <1>2, <2>1, <2>3
  <2>4. CASE \E m \in Kinds : /\ item[i].attempts[m] < Budget
                              /\ item'[i].attempts = [item[i].attempts EXCEPT ![m] = @ + 1]
    <3>1. PICK m \in Kinds : /\ item[i].attempts[m] < Budget
                             /\ item'[i].attempts = [item[i].attempts EXCEPT ![m] = @ + 1]
      BY <2>4
    <3>2. item'[i].attempts[k] = IF k = m THEN item[i].attempts[k] + 1 ELSE item[i].attempts[k]
      BY <1>0, <3>1
    <3>. QED BY <1>0, <1>2, <2>1, <3>1, <3>2
  <2>. QED BY <2>2, <2>3, <2>4
<1>. QED BY <1>1, <1>3 DEF PreCharged

LEMMA ChargeStep ==
    ASSUME ExecTypeOK, TypeOK', Safe, PlanOK, Running, ChargeOK, [ExecNext]_allVars
    PROVE  ChargeOK'
<1>. USE DEF ChargeOK, ExecTypeOK
<1>0. /\ Budget \in Nat
      /\ \A j \in Items : granted[j] \in [Kinds -> Nat] /\ item[j].attempts \in [Kinds -> Nat]
  BY BudgetAssumption, FieldTypes DEF TypeOK
<1>a. ASSUME UNCHANGED <<item, granted>> PROVE Unborn' /\ PreCharged'
  BY <1>a DEF Unborn, PreCharged
<1>b. ASSUME NEW how \in {"retryable", "refused"}, NEW m \in BOOLEAN, Fails(how, m)
      PROVE  Charged'
  <2>1. session'.todo = <<>> /\ session'.failed = how
    BY <1>b DEF Fails, PlanOK, SessionType
  <2>. QED BY <2>1 DEF Charged, AppendDue
<1>1. CASE UNCHANGED allVars
  BY <1>1, <1>a DEF allVars, vars, execVars, Charged, AppendDue
<1>2. ASSUME NEW i \in Items, NEW c \in Commands(i), Invoke(c) PROVE ChargeOK'
  <2>1. /\ session'.cmd = c /\ session'.row = RowOf(c) /\ session'.todo = Steps(c)
        /\ item' = item /\ granted' = granted /\ ~Refused(c)
    BY <1>2 DEF Invoke, Idle, vars
  <2>2. ASSUME Charge(RowOf(c))
        PROVE  Steps(c) # <<>> /\ item[c.item].attempts[c.arg] < Budget
    <3>1. ~OnRecord(RowOf(c), c) /\ Steps(c) # <<>>
      BY <2>2, AttemptIsRuntimeOnly, StepsOf
    <3>2. Legal(RowOf(c), c)
      BY <2>1, <3>1 DEF Refused
    <3>3. c.verb = "attempt" /\ c.item = i /\ c.arg \in Kinds
      BY <2>2, CommandNamed, CommandFits DEF Named, AttemptRows, Charge, Fits
    <3>4. ~BudgetSpent(c.item, c.arg)
      BY <2>2, <3>3 DEF RowOf, Charge
    <3>5. From(c.item, ItemStatus \ Terminal)
      BY <2>2, <3>2 DEF Charge, Legal, LegalStates
    <3>. QED BY <1>0, <3>1, <3>3, <3>4, <3>5 DEF BudgetSpent
  <2>. QED BY <1>a, <2>1, <2>2 DEF Charged
<1>3. CASE TrackerStep
  <2>1. session # Idle /\ ~Charge(session.row)
    BY <1>3, StepTaken, IdleFits, AttemptIsRuntimeOnly DEF TrackerStep, PlanOK
  <2>2. session'.row = session.row
    BY <1>3 DEF TrackerStep, Done, Fails, PlanOK, SessionType
  <2>. QED BY <1>3, <1>a, <2>1, <2>2 DEF TrackerStep, vars, Charged
<1>4. CASE RuntimeStep
  <2> DEFINE c == session.cmd
             i == session.cmd.item
             row == session.row
  <2>1. At("runtime") /\ AppendDue /\ session.todo # <<>> /\ session # Idle
    BY <1>4, StepTaken, IdleFits DEF RuntimeStep
  <2>2. row \in Rows /\ Fits(row, c) /\ Legal(row, c) /\ i \in Items
    BY <2>1 DEF PlanOK, Running
  <2>3. CASE UNCHANGED <<vars, granted>> /\ Fails("retryable", FALSE)
    BY <1>a, <1>b, <2>3 DEF vars
  <2>4. ASSUME Write(row, c), LedgerKept(i)
        PROVE  /\ Unborn' /\ PreCharged'
               /\ Applied(row, c) /\ Done(FALSE) => Charged'
    <3>1. CASE item' = item /\ ~Applied(row, c)
      BY <2>2, <2>4, <3>1, LedgerStep DEF Unborn
    <3>2. CASE Event(row, c)
      <4>1. /\ \A j \in Items \ {i} : item'[j].attempts = item[j].attempts
            /\ \A j \in Items : item'[j].status = None <=> item[j].status = None
            /\ Charge(row) => item'[i].attempts = [item[i].attempts EXCEPT ![c.arg] = @ + 1]
            /\ ~Charge(row) => item'[i].attempts \in {item[i].attempts, NoAttempts}
        BY <2>2, <3>2, EventCharges
      <4>2. Charge(row) => c.arg \in Kinds /\ item[i].attempts[c.arg] < Budget
        BY <2>1, <2>2 DEF Charged, Charge, Fits
      <4>3. PreCharged' /\ \A k \in Kinds : granted'[i][k] <= item[i].attempts[k]
        BY <2>2, <2>4, <4>1, <4>2, LedgerStep
      <4>4. item[i].status # None
        BY <2>1 DEF PlanOK, Known
      <4>5. Unborn'
        BY <4>1, <4>4 DEF Unborn
      <4>6. ASSUME Done(FALSE), Charge(row)
            PROVE  /\ session'.todo \in {<<>>, <<"tracker">>}
                   /\ granted'[i][c.arg] < item'[i].attempts[c.arg]
        <5>1. session'.todo \in {<<>>, <<"tracker">>}
          BY <2>1, <4>6, StepTaken DEF Done, PlanOK, SessionType
        <5>2. item'[i].attempts[c.arg] = item[i].attempts[c.arg] + 1
          BY <1>0, <2>2, <4>1, <4>2, <4>6
        <5>3. granted'[i][c.arg] <= item[i].attempts[c.arg] /\ granted'[i][c.arg] \in Nat
          <6>1. granted' [i] \in {granted[i], NoAttempts}
            BY <2>2, <2>4 DEF LedgerKept
          <6>. QED BY <1>0, <2>2, <4>2, <4>3, <4>6, <6>1 DEF NoAttempts
        <5>. QED BY <1>0, <2>2, <4>2, <4>6, <5>1, <5>2, <5>3
      <4>7. Done(FALSE) => session'.cmd = session.cmd /\ session'.row = session.row
        BY DEF Done, PlanOK, SessionType
      <4>. QED BY <4>3, <4>5, <4>6, <4>7, TodosDiffer DEF Charged, AppendDue
    <3>. QED BY <2>4, <3>1, <3>2 DEF Write, Ignored, Flag, Applied
  <2>. QED BY <1>4, <1>b, <2>3, <2>4 DEF RuntimeStep
<1>5. CASE Conclude
  <2>1. Charged' /\ item' = item
    BY <1>5 DEF Conclude, Charged, vars
  <2>2. CASE granted' = granted
    BY <1>a, <2>1, <2>2
  <2>3. CASE /\ session.row = "attempt:under-budget" /\ session.failed = "no"
             /\ granted' = [granted EXCEPT ![session.cmd.item][session.cmd.arg] = @ + 1]
    <3>1. /\ session # Idle /\ session.todo = <<>>
          /\ session.cmd.item \in Items /\ session.cmd.arg \in Kinds
      BY <1>5, <2>3 DEF Conclude, Over, Running, Fits
    <3>2. granted[session.cmd.item][session.cmd.arg]
              < item[session.cmd.item].attempts[session.cmd.arg]
      BY <2>3, <3>1 DEF Charged, Charge
    <3>3. \A j \in Items, k \in Kinds :
              granted'[j][k] = IF j = session.cmd.item /\ k = session.cmd.arg
                               THEN granted[j][k] + 1 ELSE granted[j][k]
      BY <1>0, <2>3, <3>1
    <3>4. PreCharged'
      BY <1>0, <2>1, <3>1, <3>2, <3>3 DEF PreCharged
    <3>. QED BY <2>1, <3>4 DEF Unborn
  <2>. QED BY <1>5, <2>2, <2>3 DEF Conclude
<1>6. CASE Crash \/ WorkSync
  BY <1>6, <1>a DEF Crash, WorkSync, vars, Charged, AppendDue
<1>7. CASE Direct
  <2>1. session = Idle /\ session' = session /\ granted' = granted
    BY <1>7 DEF Direct
  <2>. QED BY <1>7, <2>1, DirectCharges DEF Unborn, PreCharged, Charged
<1>. QED BY <1>1, <1>2, <1>3, <1>4, <1>5, <1>6, <1>7 DEF ExecNext

LEMMA RunningCorrect == ExecSpec => []Running
<1>1. ExecInit => Running
  BY DEF ExecInit, Running
<1>. QED BY <1>1, RunningStep, PlanCorrect, PTL DEF ExecSpec

\* The fix budget bounds the fixes begun: an answer to proceed is covered by a
\* charge in the log, whatever crashes or fails between the two, and the
\* charges of one ledger never pass the budget.
THEOREM ChargedCorrect == ExecSpec => []PreCharged
<1>1. ExecInit => ChargeOK
  <2>. SUFFICES ASSUME ExecInit PROVE ChargeOK
    OBVIOUS
  <2>1. \A i \in Items : item[i].attempts = NoAttempts /\ granted[i] = NoAttempts
    BY DEF ExecInit, Init, Blank, NewItem
  <2>2. Charged /\ Unborn
    BY <2>1 DEF ExecInit, Charged, Unborn
  <2>3. PreCharged
    BY <2>1, BudgetAssumption DEF PreCharged, NoAttempts
  <2>. QED BY <2>2, <2>3 DEF ChargeOK
<1>2. ChargeOK => PreCharged
  BY DEF ChargeOK
<1>. QED BY <1>1, <1>2, ChargeStep, ExecTyped, PlanCorrect, TypeCorrect, SafeCorrect,
            RunningCorrect, PTL DEF ExecSpec

-----------------------------------------------------------------------------
(* What an append leaves on record *)

ParkRows == FailureParks \cup {"park:scheduling"}

LEMMA AppendEffect ==
    ASSUME TypeOK, NEW row \in Rows, NEW c, Fits(row, c), Legal(row, c), Event(row, c)
    PROVE  LET i  == c.item
               it == item'[c.item]
           IN  /\ row = "start" => it.status = "in-progress" /\ it.parked = None
               /\ row \in ParkRows =>
                      /\ ParkReason(row, c) \in ParkReasons
                      /\ it.parked = ParkReason(row, c) /\ it.status = item[i].status
               /\ row \in {"redispatch", "abandon"} =>
                      it.status \in {"queued", "blocked"} /\ it.parked = None
               /\ row = "abandon" => it.pr = NoPr /\ c.arg \in closed_ledger'[i]
               /\ row = "pr-opened" =>
                      /\ it.status = "pr-open" /\ it.parked = None
                      /\ it.pr = [number |-> c.arg, closed |-> FALSE]
               /\ row = "pr-closed" =>
                      /\ it.pr = ClosedRef(item[i].pr)
                      /\ c.arg \in fresh'[i] /\ c.arg \in closed_ledger'[i]
                      /\ \/ c.next \in ParkTypes /\ it.parked = c.next
                                /\ it.status = item[i].status
                         \/ it.parked = None /\ it.status = c.next
                                /\ c.next \in {"in-progress", "queued"}
               /\ row = "merged" =>
                      it.status = "merged" /\ it.parked = None /\ merged_ledger'[i] = c.arg
               /\ row = "done" => it.status = "done" /\ it.parked = None
               /\ row = "attempt:under-budget" =>
                      it.status = item[i].status /\ it.parked = None /\ it.pr = item[i].pr
<1> DEFINE i == c.item
<1>0. i \in Items
  BY DEF Fits
<1>a. /\ closed_ledger \in [Items -> SUBSET PRs] /\ fresh \in [Items -> SUBSET PRs]
      /\ merged_ledger \in [Items -> Shas \cup {None}]
  BY DEF TypeOK
<1>. USE DEF SameWork, SamePlace, ParkRows
<1>1. CASE row = "start"
  <2>1. ItemStarted(i) /\ item[i].parked = None
    BY <1>1 DEF Event, FailureParks, ItemStarted, CanStart, From, Active
  <2>. QED BY <1>0, <1>1, <2>1, StartedEffect DEF FailureParks
<1>2. CASE row \in FailureParks \cup {"park:scheduling"}
  <2>1. ParkReason(row, c) \in ParkReasons
    BY <1>2, BudgetExhaustedAssumption DEF Fits, FailureParks, ParkReason, ParkReasons
  <2>2. ItemParked(i, ParkReason(row, c))
    BY <1>2 DEF Event, FailureParks
  <2>. QED BY <1>0, <1>2, <2>1, <2>2, ParkedEffect DEF FailureParks, ParkTypes
<1>3. CASE row \in {"redispatch", "abandon"}
  <2>1. item[i].lane \in Lanes
    BY <1>0, <1>3, FieldTypes DEF Legal, Requires, OnLane, TypeOK
  <2>2. PICK closure \in PRs \cup {None} :
            /\ ItemEnqueued(i, item[i].lane, closure)
            /\ row = "abandon" => closure = c.arg
    BY <1>3 DEF Event, FailureParks, Fits
  <2>3. /\ item'[i].status \in {"queued", "blocked"} /\ item'[i].parked = None
        /\ item'[i].pr = IF closure # None /\ item[i].pr.number = closure
                         THEN NoPr ELSE item[i].pr
    BY <1>0, <2>1, <2>2, EnqueuedEffect
  <2>4. CASE row = "abandon"
    <3>1. closure # None /\ item[i].pr.number = closure /\ closure = c.arg
      BY <2>2, <2>4, NoneAssumption DEF Fits, Legal, Requires, OnPr
    <3>2. closed_ledger' = [closed_ledger EXCEPT ![i] = @ \cup {closure}]
      BY <2>2, <3>1 DEF ItemEnqueued
    <3>. QED BY <1>0, <1>a, <2>3, <2>4, <3>1, <3>2 DEF FailureParks
  <2>. QED BY <1>3, <2>3, <2>4 DEF FailureParks
<1>4. CASE row = "pr-opened"
  <2>1. PrOpened(i, c.arg) /\ c.arg \in PRs /\ item[i].parked = None
    BY <1>4 DEF Event, FailureParks, Fits, PrOpened, CanOpenPr, From, Active
  <2>. QED BY <1>0, <1>4, <2>1, PrOpenedEffect DEF FailureParks
<1>5. CASE row = "pr-closed"
  <2>1. /\ PrClosed(i, c.arg, c.next) /\ c.arg \in PRs /\ item[i].parked = None
        /\ c.next \in {"in-progress", "queued"} \cup ParkTypes
    BY <1>5 DEF Event, FailureParks, Fits, PrClosed, CanClosePr, From, Active, ClosureOutcomes
  <2>2. c.arg \in fresh'[i] /\ c.arg \in closed_ledger'[i]
    BY <1>0, <1>a, <2>1 DEF PrClosed, Touch
  <2>. QED BY <1>0, <1>5, <2>1, <2>2, PrClosedEffect DEF FailureParks
<1>6. CASE row = "merged"
  <2>1. ItemMerged(i, c.arg) /\ c.arg \in Shas /\ item[i].parked = None
    BY <1>6 DEF Event, FailureParks, Fits, ItemMerged, CanMerge, From, Active
  <2>2. merged_ledger'[i] = c.arg
    BY <1>0, <1>a, <2>1 DEF ItemMerged
  <2>. QED BY <1>0, <1>6, <2>1, <2>2, MergedEffect DEF FailureParks
<1>7. CASE row = "done"
  <2>1. ItemDone(i) /\ item[i].parked = None
    BY <1>7 DEF Event, FailureParks, ItemDone, CanFinishItem, From, Active
  <2>. QED BY <1>0, <1>7, <2>1, DoneEffect DEF FailureParks
<1>8. CASE row = "attempt:under-budget"
  <2>1. FixAttempted(i, c.arg) /\ c.arg \in Kinds /\ item[i].parked = None
    BY <1>8 DEF Event, FailureParks, Fits, FixAttempted, CanAttempt, From, Active
  <2>. QED BY <1>0, <1>8, <2>1, FixAttemptedEffect DEF FailureParks
<1>. QED BY <1>1, <1>2, <1>3, <1>4, <1>5, <1>6, <1>7, <1>8 DEF Rows, FailureParks

-----------------------------------------------------------------------------
(* A failed command can be run again *)

Again(c) == ~Refused(c) \/ (c.verb = "attempt" /\ Parked(c.item))

\* What is on record as this command is no refusal.
LEMMA AppendedAgain ==
    ASSUME TypeOK, NEW row \in Rows, NEW c, Fits(row, c), Named(row, c), Known(c.item),
           Legal(row, c), Event(row, c)
    PROVE  Again(c)'
<1> DEFINE i == c.item
<1>0. i \in Items /\ None \notin ItemStatus
  BY NoneAssumption DEF Fits
<1>a. /\ None # "in-progress" /\ None # "queued" /\ None # "blocked" /\ None # "pr-open"
      /\ None # "merged" /\ None # "done"
  BY <1>0 DEF ItemStatus
<1>b. ASSUME NEW x, RowOf(c)' = x, Known(i)', OnRecord(x, c)', SameAsRecorded(x, c)'
      PROVE  Again(c)'
  BY <1>b DEF Again, Refused
<1>c. row \notin AttemptRows => RowOf(c)' = row
  BY RowKept DEF Named
<1>1. CASE row = "start"
  <2>1. item'[i].status = "in-progress" /\ item'[i].parked = None
    BY <1>1, AppendEffect
  <2>2. Known(i)' /\ OnRecord(row, c)' /\ SameAsRecorded(row, c)'
    BY <1>a, <1>1, <2>1 DEF Known, OnRecord, SameAsRecorded, From, Active
  <2>. QED BY <1>b, <1>c, <1>1, <2>2 DEF AttemptRows
<1>2. CASE row \in FailureParks \cup {"park:scheduling"}
  <2>1. /\ ParkReason(row, c) \in ParkReasons
        /\ item'[i].parked = ParkReason(row, c) /\ item'[i].status = item[i].status
    BY <1>2, AppendEffect DEF ParkRows
  <2>2. item'[i].parked # None
    BY <2>1, NoneAssumption DEF ParkTypes
  <2>3. CASE row = "attempt:exhausted"
    BY <2>2, <2>3 DEF Again, Parked, Named, AttemptRows
  <2>4. CASE row \in {"park:failure", "park:scheduling"}
    <3>1. ParkReason(row, c) = c.arg
      BY <2>4 DEF ParkReason
    <3>2. Known(i)' /\ OnRecord(row, c)' /\ SameAsRecorded(row, c)'
      BY <2>1, <2>2, <2>4, <3>1 DEF Known, OnRecord, SameAsRecorded
    <3>. QED BY <1>b, <1>c, <2>4, <3>2 DEF AttemptRows
  <2>. QED BY <1>2, <2>3, <2>4 DEF FailureParks
<1>3. CASE row \in {"redispatch", "abandon"}
  <2>1. /\ item'[i].status \in {"queued", "blocked"} /\ item'[i].parked = None
        /\ row = "abandon" => item'[i].pr = NoPr /\ c.arg \in closed_ledger'[i]
    BY <1>3, AppendEffect
  <2>2. Known(i)' /\ OnRecord(row, c)' /\ SameAsRecorded(row, c)'
    BY <1>a, <1>3, <2>1 DEF Known, OnRecord, SameAsRecorded, From, Active, HoldsPr, NoPr
  <2>. QED BY <1>b, <1>c, <1>3, <2>2 DEF AttemptRows
<1>4. CASE row = "pr-opened"
  <2>1. /\ item'[i].status = "pr-open" /\ item'[i].parked = None
        /\ item'[i].pr = [number |-> c.arg, closed |-> FALSE] /\ c.arg # None
    BY <1>4, AppendEffect, NoneAssumption DEF Fits
  <2>2. Known(i)' /\ OnRecord(row, c)' /\ SameAsRecorded(row, c)'
    BY <1>a, <1>4, <2>1 DEF Known, OnRecord, SameAsRecorded, HoldsPr, ClosedOut
  <2>. QED BY <1>b, <1>c, <1>4, <2>2 DEF AttemptRows
<1>5. CASE row = "pr-closed"
  <2>1. /\ c.arg \in fresh'[i]
        /\ \/ c.next \in ParkTypes /\ item'[i].parked = c.next
                  /\ item'[i].status = item[i].status
           \/ item'[i].parked = None /\ item'[i].status = c.next
                  /\ c.next \in {"in-progress", "queued"}
    BY <1>5, AppendEffect
  <2>2. Known(i)' /\ OnRecord(row, c)' /\ SameAsRecorded(row, c)'
    BY <1>a, <1>5, <2>1, NoneAssumption
       DEF Known, OnRecord, SameAsRecorded, ClosedOut, Position
  <2>. QED BY <1>b, <1>c, <1>5, <2>2 DEF AttemptRows
<1>6. CASE row \in {"merged", "done"}
  <2>1. /\ item'[i].status = row /\ item'[i].parked = None
        /\ row = "merged" => merged_ledger'[i] = c.arg
    BY <1>6, AppendEffect, ZenonT(60)
  <2>2. Known(i)' /\ OnRecord(row, c)' /\ SameAsRecorded(row, c)'
    BY <1>a, <1>6, <2>1
       DEF Known, OnRecord, SameAsRecorded, From, Active, Terminal
  <2>. QED BY <1>b, <1>c, <1>6, <2>2 DEF AttemptRows
<1>7. CASE row = "attempt:under-budget"
  <2>1. /\ item'[i].status = item[i].status /\ item'[i].parked = None
        /\ item'[i].pr = item[i].pr /\ c.verb = "attempt"
    BY <1>7, AppendEffect DEF Named, AttemptRows
  <2>2. /\ item[i].status \in ItemStatus \ Terminal /\ item[i].status # None
        /\ item[i].pr.number # None /\ ~item[i].pr.closed
    BY <1>7 DEF Legal, LegalStates, Requires, From, HoldsOpenPr, HoldsPr, Known
  <2>3. ASSUME NEW x \in AttemptRows
        PROVE  Known(i)' /\ ~OnRecord(x, c)' /\ Legal(x, c)'
    BY <2>1, <2>2 DEF AttemptRows, Known, OnRecord, Legal, LegalStates, Requires, From,
                      Active, HoldsOpenPr, HoldsPr
  <2>4. RowOf(c)' \in AttemptRows
    BY <2>1 DEF RowOf, AttemptRows
  <2>5. PICK x : x = RowOf(c)'
    OBVIOUS
  <2>. QED BY <2>3, <2>4, <2>5 DEF Again, Refused
<1>. QED BY <1>1, <1>2, <1>3, <1>4, <1>5, <1>6, <1>7 DEF Rows, FailureParks

\* A step that leaves the items and the ledgers alone refuses nothing new.
LEMMA AgainKept ==
    ASSUME NEW c, item' = item, fresh' = fresh, closed_ledger' = closed_ledger,
           merged_ledger' = merged_ledger, Again(c)
    PROVE  Again(c)'
<1>1. RowOf(c)' = RowOf(c) /\ Parked(c.item)' = Parked(c.item)
  BY DEF RowOf, BudgetSpent, From, Active, Known, Parked
<1>2. PICK row : row = RowOf(c)
  OBVIOUS
<1>3. /\ Known(c.item)' <=> Known(c.item)
      /\ OnRecord(row, c)' <=> OnRecord(row, c)
      /\ SameAsRecorded(row, c)' <=> SameAsRecorded(row, c)
  BY DEF Known, OnRecord, SameAsRecorded, From, Active, HoldsPr, ClosedOut, Position
<1>4. Legal(row, c)' <=> Legal(row, c)
  BY LegalKept
<1>. QED BY <1>1, <1>2, <1>3, <1>4 DEF Again, Refused

\* A command the plan of which is not a refusal stays so until it is over, and
\* as long as it is owed nothing else is written.
RetryOK ==
    /\ session # Idle => Again(session.cmd)
    /\ owed # None => session = Idle /\ Again(owed)

LEMMA RetryStep ==
    ASSUME TypeOK, PlanOK, Running, RetryOK, [ExecNext]_allVars
    PROVE  RetryOK'
<1>. USE DEF RetryOK
<1>1. ASSUME UNCHANGED vars, NEW c, Again(c) PROVE Again(c)'
  BY <1>1, AgainKept DEF vars, ledgers
<1>2. CASE UNCHANGED <<vars, session, owed>>
  <2>1. PICK c, d : c = session.cmd /\ d = owed
    OBVIOUS
  <2>. QED BY <1>1, <1>2, <2>1
<1>3. ASSUME NEW i \in Items, NEW c \in Commands(i), Invoke(c) PROVE RetryOK'
  <2>1. /\ session' = [Idle EXCEPT !.cmd = c, !.row = RowOf(c), !.todo = Steps(c),
                                   !.appends = ~OnRecord(RowOf(c), c)]
        /\ owed' = None /\ UNCHANGED vars /\ Again(c)
    BY <1>3 DEF Invoke, Again
  <2>2. session'.cmd = c
    BY <2>1 DEF Idle
  <2>. QED BY <1>1, <2>1, <2>2
<1>4. CASE TrackerStep
  <2>1. session # Idle /\ session'.cmd = session.cmd
    BY <1>4, StepTaken, IdleFits DEF TrackerStep, Done, Fails, PlanOK, SessionType
  <2>2. PICK c : c = session.cmd
    OBVIOUS
  <2>. QED BY <1>1, <1>4, <2>1, <2>2 DEF TrackerStep
<1>5. CASE RuntimeStep
  <2>1. At("runtime") /\ AppendDue /\ session.todo # <<>> /\ session # Idle
    BY <1>5, StepTaken, IdleFits DEF RuntimeStep
  <2>2. session'.cmd = session.cmd /\ owed' = None
    BY <1>5, <2>1 DEF RuntimeStep, Done, Fails, PlanOK, SessionType
  <2>3. PICK c : c = session.cmd
    OBVIOUS
  <2>4. PICK row : row = session.row
    OBVIOUS
  <2>5. row \in Rows /\ Fits(row, c) /\ Named(row, c) /\ Legal(row, c) /\ Known(c.item)
    BY <2>1, <2>3, <2>4 DEF PlanOK, Running
  <2>6. Again(c)'
    <3>1. CASE UNCHANGED vars
      BY <1>1, <2>1, <2>3, <3>1
    <3>2. CASE Event(row, c)
      BY <2>5, <3>2, AppendedAgain
    <3>3. CASE Ignored
      BY <2>1, <2>3, <3>3, AgainKept DEF Ignored, ledgers
    <3>4. CASE ~Applicable(row, c)
      BY <2>5, <3>4, LegalIsApplicable
    <3>. QED BY <1>5, <2>3, <2>4, <3>1, <3>2, <3>3, <3>4 DEF RuntimeStep, Write
  <2>. QED BY <2>2, <2>3, <2>6
<1>6. CASE Conclude \/ Crash
  <2>1. /\ session # Idle /\ session' = Idle /\ UNCHANGED vars
        /\ owed' \in {session.cmd, None}
    BY <1>6 DEF Conclude, Over, Crash
  <2>2. PICK c : c = session.cmd
    OBVIOUS
  <2>. QED BY <1>1, <2>1, <2>2
<1>7. CASE WorkSync
  BY <1>2, <1>7 DEF WorkSync
<1>8. CASE Direct
  BY <1>8 DEF Direct
<1>. QED BY <1>2, <1>3, <1>4, <1>5, <1>6, <1>7, <1>8 DEF ExecNext, allVars, execVars

\* A command that failed or died can be run again, whichever of its steps took
\* effect: what its append recorded is recognised as this command's, and what
\* was not appended is still legal.
THEOREM RetryCorrect == ExecSpec => []RetryNeverRefused
<1>1. ExecInit => RetryOK
  BY DEF ExecInit, RetryOK
<1>2. RetryOK => RetryNeverRefused
  BY DEF RetryOK, RetryNeverRefused, Again
<1>. QED BY <1>1, <1>2, RetryStep, PlanCorrect, TypeCorrect, RunningCorrect, PTL
        DEF ExecSpec

-----------------------------------------------------------------------------
(* A fresh closure, when no two events share their second *)

\* What was closed at the item's last-touched time is on the ledger, and the
\* item holds no open PR.
FreshClosed ==
    \A i \in Items :
        /\ fresh[i] \subseteq closed_ledger[i]
        /\ fresh[i] # {} => ~HoldsOpenPr(i)

LEMMA FreshKept ==
    ASSUME FreshClosed, NEW i \in Items,
           \A j \in Items \ {i} : /\ fresh'[j] = fresh[j] /\ item'[j].pr = item[j].pr
                                  /\ closed_ledger'[j] = closed_ledger[j],
           fresh'[i] \subseteq closed_ledger'[i],
           fresh'[i] # {} => ~HoldsOpenPr(i)'
    PROVE  FreshClosed'
<1>1. ASSUME NEW j \in Items
      PROVE  fresh'[j] \subseteq closed_ledger'[j] /\ (fresh'[j] # {} => ~HoldsOpenPr(j)')
  BY DEF FreshClosed, HoldsOpenPr, HoldsPr
<1>. QED BY <1>1 DEF FreshClosed

LEMMA TouchEffect ==
    ASSUME SameSecond = {FALSE}, TypeOK, NEW i \in Items, NEW closing, Touch(i, closing)
    PROVE  fresh'[i] = closing /\ \A j \in Items \ {i} : fresh'[j] = fresh[j]
  BY DEF Touch, TypeOK

LEMMA FreshStep ==
    ASSUME SameSecond = {FALSE}, TypeOK, FreshClosed, [Next]_vars
    PROVE  FreshClosed'
<1>a. ASSUME NEW i \in Items, Touch(i, {}),
             closed_ledger' = closed_ledger, \A j \in Items \ {i} : item'[j].pr = item[j].pr
      PROVE  FreshClosed'
  BY <1>a, TouchEffect, FreshKept
<1>1. CASE UNCHANGED <<item, closed_ledger, fresh>>
  BY <1>1 DEF FreshClosed, HoldsOpenPr, HoldsPr
<1>2. ASSUME NEW seed \in Seeds, GrindCreated(seed) PROVE FreshClosed'
  <2>1. ASSUME NEW i \in Items PROVE item'[i].pr = NoPr
    BY <1>2 DEF GrindCreated, Blank, NewItem
  <2>. QED BY <1>2, <2>1 DEF GrindCreated, ledgers, FreshClosed, HoldsOpenPr, HoldsPr, NoPr
<1>3. ASSUME NEW i \in Items, PairedEvent(i) \/ UnpairedEvent(i) \/ Flag(i)
      PROVE  FreshClosed'
  <2>1. CASE Flag(i)
    BY <1>a, <2>1 DEF Flag, ledgers
  <2>2. CASE \/ ItemStarted(i) \/ \E k \in Kinds : FixAttempted(i, k)
             \/ \E p \in PRs : PrOpened(i, p)
             \/ \E r \in Rounds, sha \in Shas : ReviewRound(i, r, sha) \/ ReviewVerdict(i, r, sha)
    <3>1. \E next : Update(i, next)
      BY <2>2 DEF ItemStarted, FixAttempted, PrOpened, ReviewRound, ReviewVerdict
    <3>. QED BY <1>a, <3>1, UpdateEffect DEF Update, Applies, ledgers, Only
  <2>3. ASSUME NEW p \in PRs, NEW next \in {"in-progress", "queued"} \cup ParkTypes,
               PrClosed(i, p, next)
        PROVE  FreshClosed'
    <3>1. Touch(i, {p}) /\ closed_ledger' = [closed_ledger EXCEPT ![i] = @ \cup {p}]
      BY <2>3 DEF PrClosed
    <3>2. Only(i) /\ item'[i].pr = ClosedRef(item[i].pr)
      BY <2>3, PrClosedEffect
    <3>3. ~HoldsOpenPr(i)'
      BY <3>2, FieldTypes DEF HoldsOpenPr, HoldsPr, ClosedRef, TypeOK, PrRef
    <3>. QED BY <3>1, <3>2, <3>3, TouchEffect, FreshKept DEF Only, TypeOK
  <2>4. ASSUME NEW sha \in Shas, ItemMerged(i, sha) PROVE FreshClosed'
    <3>1. Touch(i, {}) /\ closed_ledger' = closed_ledger
      BY <2>4 DEF ItemMerged, Applies
    <3>2. \A j \in Items \ {i} : item'[j].pr = item[j].pr
      BY <2>4, MergedEffect
    <3>. QED BY <1>a, <3>1, <3>2
  <2>5. CASE ItemDone(i)
    BY <1>a, <2>5, DoneEffect DEF ItemDone, Applies, ledgers, SameWork
  <2>6. ASSUME NEW reason \in ParkTypes, ItemParked(i, reason) PROVE FreshClosed'
    BY <1>a, <2>6, ParkedEffect DEF ItemParked, Applies, ledgers, Only
  <2>7. ASSUME NEW l \in Lanes, NEW closure \in PRs \cup {None}, ItemEnqueued(i, l, closure)
        PROVE  FreshClosed'
    <3>1. PICK closing : /\ closing = IF closure # None /\ item[i].pr.number = closure
                                      THEN {closure} ELSE {}
                         /\ Touch(i, closing)
                         /\ closed_ledger' = [closed_ledger EXCEPT ![i] = @ \cup closing]
      BY <2>7 DEF ItemEnqueued
    <3>2. /\ Only(i)
          /\ item'[i].pr = IF closure # None /\ item[i].pr.number = closure
                           THEN NoPr ELSE item[i].pr
      BY <2>7, EnqueuedEffect
    <3>3. closing # {} => ~HoldsOpenPr(i)'
      BY <3>1, <3>2 DEF HoldsOpenPr, HoldsPr, NoPr
    <3>. QED BY <3>1, <3>2, <3>3, TouchEffect, FreshKept DEF Only, TypeOK
  <2>8. ASSUME NEW on \in SUBSET Items, ItemBlocked(i, on) PROVE FreshClosed'
    BY <1>a, <2>8, BlockedEffect DEF ItemBlocked, Applies, ledgers, Only
  <2>9. CASE ItemWaitingHuman(i) \/ ItemResumed(i)
    BY <1>a, <2>9, WaitingEffect, ResumedEffect
       DEF ItemWaitingHuman, ItemResumed, Applies, ledgers, Only
  <2>10. CASE \/ \E reason \in SchedulingReasons \cup {Untyped} : DiscoveredParked(i, reason)
              \/ \E l \in Lanes : DiscoveredEnqueued(i, l)
    BY <1>a, <2>10, DiscoveredEffect
       DEF DiscoveredParked, DiscoveredEnqueued, Applies, ledgers, Only
  <2>11. CASE Observation(i)
    BY <1>a, <2>11 DEF Observation, Applies, ledgers
  <2>. QED BY <1>3, <2>1, <2>2, <2>3, <2>4, <2>5, <2>6, <2>7, <2>8, <2>9, <2>10, <2>11
           DEF PairedEvent, UnpairedEvent
<1>. QED BY <1>1, <1>2, <1>3 DEF Next, vars, ledgers, Ignored, GrindPaused, GrindResumed,
                                 GrindFinished

-----------------------------------------------------------------------------
(* Success means both planes, when no two events share their second *)

\* What an append recorded is what the command says.
LEMMA AppendAgreed ==
    ASSUME TypeOK, NEW row \in Rows, NEW c, Fits(row, c), Legal(row, c), Known(c.item),
           Event(row, c)
    PROVE  Agreed(row, c)'
<1> DEFINE i == c.item
<1>0. i \in Items /\ None \notin ItemStatus
  BY NoneAssumption DEF Fits
<1>a. /\ None # "in-progress" /\ None # "queued" /\ None # "blocked" /\ None # "pr-open"
      /\ None # "merged" /\ None # "done"
  BY <1>0 DEF ItemStatus
<1>1. CASE row \in {"start", "done"}
  <2>1. /\ row = "start" => item'[i].status = "in-progress" /\ item'[i].parked = None
        /\ row = "done" => item'[i].status = "done" /\ item'[i].parked = None
    BY AppendEffect, ZenonT(60)
  <2>. QED BY <1>a, <1>1, <2>1 DEF Agreed, FailureParks, From, Active, Known
<1>2. CASE row \in FailureParks \cup {"park:scheduling"}
  <2>1. item'[i].parked = ParkReason(row, c)
    BY <1>2, AppendEffect, ZenonT(60) DEF ParkRows
  <2>. QED BY <1>2, <2>1 DEF Agreed, FailureParks, ParkReason
<1>3. CASE row \in {"redispatch", "abandon"}
  <2>1. /\ item'[i].status \in {"queued", "blocked"} /\ item'[i].parked = None
        /\ row = "abandon" => item'[i].pr = NoPr /\ c.arg \in closed_ledger'[i]
    BY <1>3, AppendEffect
  <2>. QED BY <1>a, <1>3, <2>1 DEF Agreed, FailureParks, Active, Known, HoldsPr, NoPr
<1>4. CASE row = "pr-opened"
  <2>1. item'[i].pr = [number |-> c.arg, closed |-> FALSE]
    BY <1>4, AppendEffect
  <2>. QED BY <1>4, <2>1 DEF Agreed, FailureParks, OnPr
<1>5. CASE row = "pr-closed"
  <2>1. item'[i].pr = ClosedRef(item[i].pr) /\ c.arg \in closed_ledger'[i]
    BY <1>5, AppendEffect
  <2>2. ~HoldsOpenPr(i)'
    BY <1>0, <2>1, FieldTypes DEF HoldsOpenPr, HoldsPr, ClosedRef, TypeOK, PrRef
  <2>. QED BY <1>5, <2>1, <2>2 DEF Agreed, FailureParks
<1>6. CASE row = "merged"
  <2>1. item'[i].status = "merged" /\ item'[i].parked = None /\ merged_ledger'[i] = c.arg
    BY <1>6, AppendEffect
  <2>. QED BY <1>a, <1>6, <2>1 DEF Agreed, FailureParks, From, Active, Known, Terminal
<1>7. CASE row = "attempt:under-budget"
  <2>1. item'[i].pr = item[i].pr /\ HoldsOpenPr(i)
    BY <1>7, AppendEffect DEF Legal, Requires
  <2>. QED BY <1>7, <2>1 DEF Agreed, FailureParks, HoldsOpenPr, HoldsPr
<1>. QED BY <1>1, <1>2, <1>3, <1>4, <1>5, <1>6, <1>7 DEF Rows, FailureParks

\* A command that appends nothing finds on record what it says, but for an
\* abandoned item that was parked again.
LEMMA RecordAgreed ==
    ASSUME FreshClosed, NEW row \in Rows, NEW c, Fits(row, c), OnRecord(row, c),
           SameAsRecorded(row, c), Known(c.item)
    PROVE  Agreed(row, c) \/ AbandonedBefore(row, c)
<1>1. row \notin AttemptRows
  BY DEF OnRecord, AttemptRows
<1>2. CASE row \in {"start", "done", "merged", "pr-opened"}
  BY <1>2 DEF OnRecord, SameAsRecorded, Agreed, FailureParks, OnPr
<1>3. CASE row \in {"park:failure", "park:scheduling"}
  BY <1>3 DEF OnRecord, SameAsRecorded, Agreed, FailureParks, ParkReason
<1>4. CASE row = "redispatch"
  BY <1>4 DEF OnRecord, Agreed, FailureParks, From
<1>5. CASE row = "pr-closed"
  BY <1>5 DEF OnRecord, Agreed, FailureParks, FreshClosed, Fits
<1>6. CASE row = "abandon"
  BY <1>6 DEF OnRecord, Agreed, AbandonedBefore, FailureParks, Active, Parked
<1>. QED BY <1>1, <1>2, <1>3, <1>4, <1>5, <1>6 DEF Rows, AttemptRows

LEMMA AgreedKept ==
    ASSUME NEW row, NEW c, item' = item, closed_ledger' = closed_ledger,
           merged_ledger' = merged_ledger
    PROVE  /\ Agreed(row, c) => Agreed(row, c)'
           /\ AbandonedBefore(row, c) => AbandonedBefore(row, c)'
  BY DEF Agreed, AbandonedBefore, From, Active, Known, Parked, HoldsPr, HoldsOpenPr, OnPr,
         ParkReason

\* The runtime is where the command says, or was before it.
InPlace == \/ Agreed(session.row, session.cmd)
           \/ ~session.appends /\ AbandonedBefore(session.row, session.cmd)

\* The planes a command has left behind so far, as long as nothing failed.
BothSoFar ==
    session # Idle /\ session.failed = "no" =>
        /\ ~AppendDue => InPlace
        /\ ~CallDue /\ session.cmd.item \in handled /\ TrackerVerb(session.row) # Untracked =>
               tracker[session.cmd.item] = TrackerGoal(session.row, session.cmd)

\* A call that goes through and is not contradicted ends where the row says.
LEMMA CallReaches ==
    ASSUME NEW row \in Rows, NEW c, tracker \in [Items -> TrackerStatus], c.item \in Items,
           TrackerVerb(row) # Untracked,
           CallLands(TrackerVerb(row), c.item, ParkReason(row, c)),
           ~Contradicted(TrackerVerb(row), c.item, ParkReason(row, c))
    PROVE  tracker'[c.item] = TrackerGoal(row, c)
<1> DEFINE verb == TrackerVerb(row)
           reason == ParkReason(row, c)
<1>1. tracker'[c.item] = Outcome(verb, c.item, reason)
  BY DEF CallLands
<1>2. \/ row = "start" /\ verb = "claim"
      \/ row \in FailureParks /\ verb = "park"
      \/ row = "redispatch" /\ verb = "redispatch"
      \/ row = "abandon" /\ verb = "abandon"
      \/ row = "merged" /\ verb = "close"
  BY DEF Rows, TrackerVerb, FailureParks
<1>3. verb = "park" => tracker'[c.item] = reason
  BY DEF Contradicted
<1>. QED BY <1>1, <1>2, <1>3 DEF Outcome, TrackerGoal, FailureParks

LEMMA BothStep ==
    ASSUME ExecTypeOK, PlanOK, Running, FreshClosed, BothSoFar, [ExecNext]_allVars
    PROVE  BothSoFar'
<1>. USE DEF BothSoFar
<1>0. TypeOK /\ tracker \in [Items -> TrackerStatus]
  BY DEF ExecTypeOK
<1>a. PICK c, row : c = session.cmd /\ row = session.row
  OBVIOUS
<1>b. \A how \in {"retryable", "refused"}, m \in BOOLEAN :
          Fails(how, m) => session'.failed = how
  BY DEF Fails, PlanOK, SessionType
<1>c. \A m \in BOOLEAN : Done(m) =>
          /\ session'.cmd = c /\ session'.row = row /\ session'.failed = session.failed
          /\ session'.todo = Tail(session.todo) /\ session'.appends = session.appends
  BY <1>a DEF Done, PlanOK, SessionType
<1>d. \A x, y : Tail(<<x, y>>) = <<y>>
  OBVIOUS
<1>1. CASE session' = Idle
  BY <1>1
<1>2. CASE UNCHANGED <<vars, handled, tracker, session>>
  <2>1. InPlace => InPlace'
    BY <1>2, AgreedKept DEF InPlace, vars, ledgers
  <2>2. TrackerGoal(row, c)' = TrackerGoal(row, c)
    BY DEF TrackerGoal, ParkReason
  <2>. QED BY <1>a, <1>2, <2>1, <2>2 DEF AppendDue, CallDue
<1>3. ASSUME NEW i \in Items, NEW d \in Commands(i), Invoke(d) PROVE BothSoFar'
  <2>1. PICK r : r = RowOf(d)
    OBVIOUS
  <2>2. /\ session'.cmd = d /\ session'.row = r /\ session'.todo = Steps(d)
        /\ session'.appends = ~OnRecord(r, d)
        /\ UNCHANGED <<vars, handled, tracker>> /\ ~Refused(d)
    BY <1>3, <2>1 DEF Invoke, Idle
  <2>3. r \in Rows /\ Fits(r, d)
    BY <2>1, CommandFits
  <2>4. Steps(d) \in {<<>>, <<"tracker">>} => InPlace'
    <3>1. ASSUME OnRecord(r, d) PROVE Agreed(r, d) \/ AbandonedBefore(r, d)
      BY <2>1, <2>2, <2>3, <3>1, RecordAgreed DEF Refused
    <3>2. /\ Agreed(r, d) => Agreed(r, d)'
          /\ AbandonedBefore(r, d) => AbandonedBefore(r, d)'
      BY <2>2, AgreedKept DEF vars, ledgers
    <3>3. Steps(d) \in {<<>>, <<"tracker">>} => OnRecord(r, d)
      BY <2>1, StepsOf
    <3>. QED BY <2>2, <3>1, <3>2, <3>3 DEF InPlace
  <2>5. Steps(d) \in {<<>>, <<"runtime">>} =>
            ~(d.item \in handled /\ TrackerVerb(r) # Untracked)
    BY <2>1, StepsOf
  <2>6. Steps(d) \in Todos
    BY StepsOf
  <2>. QED BY <2>2, <2>4, <2>5, <2>6 DEF AppendDue, CallDue, Todos
<1>4. CASE TrackerStep
  <2>1. /\ session # Idle /\ session.failed = "no" /\ session.todo # <<>>
        /\ session.todo \in {<<"tracker">>, <<"tracker", "runtime">>}
        /\ CallDue
    BY <1>4, StepTaken, IdleFits DEF TrackerStep, At
  <2>2. row \in Rows /\ c.item \in Items /\ TrackerVerb(row) # Untracked
    BY <1>a, <2>1 DEF PlanOK, Fits
  <2>3. CASE \E how \in {"retryable", "refused"}, m \in BOOLEAN : Fails(how, m)
    BY <1>b, <2>3
  <2>4. CASE /\ CallLands(TrackerVerb(row), c.item, ParkReason(row, c))
             /\ ~Contradicted(TrackerVerb(row), c.item, ParkReason(row, c))
             /\ Done(TRUE)
    <3>1. tracker'[c.item] = TrackerGoal(row, c)
      BY <1>0, <2>2, <2>4, CallReaches
    <3>2. TrackerGoal(row, c)' = TrackerGoal(row, c)
      BY DEF TrackerGoal, ParkReason
    <3>3. session.todo = <<"tracker">> => InPlace'
      <4>1. session.todo = <<"tracker">> => InPlace
        BY <1>a, <2>1, TodosDiffer DEF AppendDue
      <4>2. /\ Agreed(row, c) => Agreed(row, c)'
            /\ AbandonedBefore(row, c) => AbandonedBefore(row, c)'
        BY <1>4, AgreedKept DEF TrackerStep, vars, ledgers
      <4>3. /\ session'.appends = session.appends
            /\ session'.cmd = c /\ session'.row = row
        BY <1>c, <2>4
      <4>. QED BY <1>a, <4>1, <4>2, <4>3 DEF InPlace
    <3>4. session.todo = <<"tracker", "runtime">> => session'.todo = <<"runtime">>
      BY <1>c, <1>d, <2>4
    <3>. QED BY <1>c, <2>1, <2>4, <3>1, <3>2, <3>3, <3>4 DEF AppendDue
  <2>. QED BY <1>4, <1>a, <2>3, <2>4 DEF TrackerStep
<1>5. CASE RuntimeStep
  <2>1. /\ session # Idle /\ session.failed = "no" /\ session.todo # <<>> /\ AppendDue
        /\ At("runtime")
    BY <1>5, StepTaken, IdleFits DEF RuntimeStep, At
  <2>2. row \in Rows /\ Fits(row, c) /\ Legal(row, c) /\ Known(c.item)
    BY <1>a, <2>1 DEF PlanOK
  <2>3. CASE \E how \in {"retryable", "refused"}, m \in BOOLEAN : Fails(how, m)
    BY <1>b, <2>3
  <2>4. CASE Write(row, c) /\ Applied(row, c) /\ Done(FALSE)
    <3>1. Event(row, c)
      BY <2>4 DEF Write, Applied, Ignored
    <3>2. InPlace'
      BY <1>0, <1>c, <2>2, <2>4, <3>1, AppendAgreed DEF InPlace
    <3>3. TrackerGoal(row, c)' = TrackerGoal(row, c)
      BY DEF TrackerGoal, ParkReason
    <3>4. session'.todo = <<"tracker">> \/ ~CallDue
      <4>1. session.todo = <<"runtime", "tracker">> => session'.todo = <<"tracker">>
        BY <1>c, <1>d, <2>4
      <4>2. session.todo \in {<<"runtime">>, <<"runtime", "tracker">>}
        <5>1. Head(<<"tracker", "runtime">>) # "runtime"
          OBVIOUS
        <5>. QED BY <2>1, <5>1 DEF At, AppendDue
      <4>. QED BY <4>1, <4>2, TodosDiffer DEF CallDue
    <3>5. UNCHANGED <<handled, tracker>>
      BY <1>5 DEF RuntimeStep
    <3>. QED BY <1>a, <1>c, <2>1, <2>4, <3>2, <3>3, <3>4, <3>5 DEF CallDue
  <2>. QED BY <1>5, <1>a, <2>3, <2>4 DEF RuntimeStep
<1>6. CASE Conclude \/ Crash
  BY <1>1, <1>6 DEF Conclude, Crash
<1>7. CASE WorkSync \/ Direct
  <2>1. session' = session /\ session = Idle
    BY <1>7 DEF WorkSync, Direct
  <2>. QED BY <1>1, <2>1
<1>. QED BY <1>2, <1>3, <1>4, <1>5, <1>6, <1>7 DEF ExecNext, allVars, execVars

\* Unless two events share a second, a command that reports success has
\* brought both planes where it says, also when it found its event on record
\* and appended nothing: all but the abandon that finds itself on record and the
\* item parked again.
THEOREM SuccessCorrect ==
    ASSUME SameSecond = {FALSE}
    PROVE  ExecSpec => []SuccessMeansBoth
<1>1. ExecInit => FreshClosed /\ BothSoFar
  BY DEF ExecInit, Init, FreshClosed, BothSoFar
<1>2. TypeOK /\ FreshClosed /\ [Next]_vars => FreshClosed'
  BY FreshStep
<1>3. PlanOK /\ BothSoFar => SuccessMeansBoth
  <2>. SUFFICES ASSUME PlanOK, BothSoFar, Over, session.failed = "no"
                PROVE  /\ InPlace
                       /\ /\ session.cmd.item \in handled
                          /\ TrackerVerb(session.row) # Untracked
                          => tracker[session.cmd.item] = TrackerGoal(session.row, session.cmd)
    BY DEF SuccessMeansBoth, InPlace
  <2>1. ~AppendDue /\ ~CallDue /\ session # Idle
    BY TodosDiffer DEF Over, AppendDue, CallDue
  <2>. QED BY <2>1 DEF BothSoFar
<1>. QED BY <1>1, <1>2, <1>3, BothStep, ExecTyped, PlanCorrect, TypeCorrect, RunningCorrect, PTL
        DEF ExecSpec, Spec

=============================================================================
