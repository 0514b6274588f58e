--------------------------- MODULE PrgroomRunProofs ---------------------------
(***************************************************************************)
(* Theorems about prgroom's run loop, for any comments, threads, budgets   *)
(* and numbers of pushes and faults.  A step persists its state when it    *)
(* returns, so what a lost step did to GitHub is not in the state it is    *)
(* done again from.  The invariant says what that state still tells of it. *)
(***************************************************************************)
EXTENDS PrgroomRun, FiniteSetTheorems, TLAPS

\* What is true of every state the loop carries or has persisted.
StateOK(s) ==
    \* a PR that was never polled has nothing ingested
    /\ s.phase = "idle" => \A i \in Items : s.kind[i] = "unseen"
    /\ s.phase \in {"awaiting", "quiesced"} => Undispositioned(s) \cup Blocking(s) = {}
    /\ s.phase \in Waiting \cup {"quiesced"} => queue = {}
    \* what was answered or resolved was decided
    /\ \A i \in Items : s.kind[i] \in {"unseen", "new", "clustered"} =>
           posted[i] = 0 /\ i \notin closed
    /\ \A i \in queue : s.kind[i] \notin {"unseen", "new"}
    \* a gating error on file was announced
    /\ s.err \in {"terminal", "exhausted"} /\ s.filed => announced
    \* prgroom's pushes are counted, but for those the next poll counts
    /\ s.pollSha <= head /\ s.pushedSha <= head
    /\ \/ s.phase \notin {"idle", "gated"} \/ s.err = "exhausted" \/ s.ci
       \/ \E i \in Items : s.kind[i] # "unseen"
       => s.pollSha # 0
    /\ own <= s.retries + (IF External(s) THEN 1 ELSE 0)

\* What a step finds in the state it starts from.
PcFits(s, next) ==
    /\ next = "poll" => s.phase \notin TerminalForCli
    /\ next \in {"wait", "judge"} => s.phase \in Waiting
    /\ next \in Pipeline => s.phase = "fixes" /\ own <= s.retries
    /\ next = "fix" => \A i \in Items : s.kind[i] # "new"
    /\ next \in {"cap", "push", "reply", "resolve", "settle"} => Undispositioned(s) = {}
    /\ next = "push" /\ queue # {} => ~Exhausted(s)
    /\ next \in {"reply", "resolve", "settle"} => queue = {}

\* Only a wait polls a state of its own, and ingests nothing while it lasts.
PcOK ==
    /\ pc \notin {"wait", "judge"} => mem = disk
    /\ mem.kind = disk.kind
    /\ pc \in {"wait", "judge"} => disk.phase \in Waiting
    /\ PcFits(mem, pc)

Unanswered == \A i \in queue : posted[i] = 0 /\ i \notin closed

IInv ==
    /\ TypeOK /\ StateOK(mem) /\ StateOK(disk) /\ PcOK
    /\ Unanswered /\ RepliesOnce /\ GateIsAnnounced

-----------------------------------------------------------------------------
(* Types *)

LEMMA Fields ==
    ASSUME NEW s \in StateType
    PROVE  /\ s.phase \in Phases /\ s.err \in Errors /\ s.filed \in BOOLEAN
           /\ s.retries \in Nat /\ s.pollSha \in Nat /\ s.pushedSha \in Nat
           /\ s.kind \in [Items -> Stages] /\ s.replied \in [Items -> BOOLEAN]
           /\ s.resolved \in [Items -> BOOLEAN] /\ s.told \in [Items -> BOOLEAN]
           /\ s.ci \in BOOLEAN /\ s.idle \in BOOLEAN
  BY DEF StateType

LEMMA BootstrapType == Bootstrap \in StateType
  BY DEF Bootstrap, StateType, Phases, Errors, Stages

\* A field is replaced by a value of its type.
LEMMA KindSet ==
    ASSUME NEW s \in StateType, NEW k \in [Items -> Stages]
    PROVE  LET t == [s EXCEPT !.kind = k] IN
           /\ t \in StateType /\ t.phase = s.phase /\ t.err = s.err /\ t.filed = s.filed
           /\ t.kind = k /\ t.ci = s.ci /\ t.retries = s.retries
           /\ t.pollSha = s.pollSha /\ t.pushedSha = s.pushedSha
  BY DEF StateType

LEMMA PolledType ==
    ASSUME TypeOK, NEW s \in StateType
    PROVE  LET t == Polled(s)
               fresh == {i \in comments : s.kind[i] = "unseen"}
           IN  /\ t \in StateType
               /\ head = 0 => t = s
               /\ head # 0 =>
                      /\ t.kind = [i \in Items |-> IF i \in fresh THEN "new" ELSE s.kind[i]]
                      /\ t.retries = IF External(s) THEN s.retries + 1 ELSE s.retries
                      /\ t.pollSha = head /\ t.pushedSha = s.pushedSha
                      /\ t.phase = PollPhase(s, fresh, External(s))
                      /\ t.err = s.err /\ t.filed = s.filed
<1> DEFINE fresh == {i \in comments : s.kind[i] = "unseen"}
           k == [i \in Items |-> IF i \in fresh THEN "new" ELSE s.kind[i]]
           r == IF External(s) THEN s.retries + 1 ELSE s.retries
           p == PollPhase(s, fresh, External(s))
           d == s.idle /\ ~(fresh # {} \/ External(s) \/ green # s.ci)
<1>1. /\ k \in [Items -> Stages] /\ r \in Nat /\ p \in Phases /\ head \in Nat
      /\ green \in BOOLEAN /\ d \in BOOLEAN
  BY Fields DEF PollPhase, Phases, Stages, TypeOK
<1>2. Polled(s) = IF head = 0 THEN s
                  ELSE [s EXCEPT !.kind = k, !.ci = green, !.idle = d, !.retries = r,
                                 !.pollSha = head, !.phase = p]
  BY Fields DEF Polled
<1>. HIDE DEF k, r, p, d, fresh
<1>3. LET t == [s EXCEPT !.kind = k, !.ci = green, !.idle = d, !.retries = r,
                         !.pollSha = head, !.phase = p]
      IN  /\ t \in StateType /\ t.kind = k /\ t.retries = r /\ t.pollSha = head
          /\ t.phase = p /\ t.pushedSha = s.pushedSha /\ t.err = s.err /\ t.filed = s.filed
  BY <1>1 DEF StateType
<1>. QED BY <1>2, <1>3 DEF k, r, p, fresh

-----------------------------------------------------------------------------
(* What the steps compute keeps what is true of the state *)

\* StateOK of a state whose facts are those of another.
LEMMA SameFacts ==
    ASSUME NEW s, NEW t, StateOK(s), t.kind = s.kind, t.phase = s.phase,
           t.err = s.err \/ t.err \in {"none", "transient"}, t.filed = s.filed \/ ~t.filed,
           t.ci = s.ci, t.retries = s.retries, t.pollSha = s.pollSha, t.pushedSha = s.pushedSha
    PROVE  StateOK(t)
  BY DEF StateOK, Undispositioned, Blocking, External

LEMMA PolledOK ==
    ASSUME TypeOK, NEW s \in StateType, StateOK(s)
    PROVE  LET t == Polled(s) IN
           /\ t \in StateType /\ StateOK(t)
           /\ t.phase = "fixes" => own <= t.retries
           /\ s.phase \in Waiting /\ t.phase \in Waiting => t.kind = s.kind
<1>0. head \in Nat /\ own \in Nat /\ comments \subseteq Items
  BY DEF TypeOK
<1>1. CASE head = 0
  <2>1. Polled(s) = s
    BY <1>1, PolledType
  <2>2. s.phase = "fixes" => own <= s.retries
    BY <1>0, <1>1, Fields DEF StateOK
  <2>. QED BY <2>1, <2>2
<1>2. CASE head # 0
  <2> DEFINE fresh == {i \in comments : s.kind[i] = "unseen"}
  <2>1. PICK t : t = Polled(s)
    OBVIOUS
  <2>2. /\ t \in StateType
        /\ t.kind = [i \in Items |-> IF i \in fresh THEN "new" ELSE s.kind[i]]
        /\ t.retries = IF External(s) THEN s.retries + 1 ELSE s.retries
        /\ t.pollSha = head /\ t.pushedSha = s.pushedSha
        /\ t.phase = PollPhase(s, fresh, External(s))
        /\ t.err = s.err /\ t.filed = s.filed
    BY <1>2, <2>1, PolledType
  <2>3. s.phase \in Phases /\ s.kind \in [Items -> Stages] /\ s.retries \in Nat
    BY Fields
  <2>4. t.phase \in Waiting \cup {"quiesced"} =>
            /\ fresh = {} /\ t.kind = s.kind
            /\ \/ t.phase = s.phase
               \/ s.phase \in {"idle", "quiesced"} /\ t.phase = "awaiting"
    <3>1. t.phase \in Waiting \cup {"quiesced"} => fresh = {}
      BY <1>0, <2>2, <2>3 DEF PollPhase, Waiting, Phases
    <3>2. fresh = {} => t.kind = s.kind
      BY <2>2, <2>3
    <3>3. t.phase \in Waiting \cup {"quiesced"} =>
              t.phase = s.phase \/ (s.phase \in {"idle", "quiesced"} /\ t.phase = "awaiting")
      BY <2>2, <2>3 DEF PollPhase, Waiting, Phases
    <3>. QED BY <3>1, <3>2, <3>3
  <2>. HIDE DEF fresh
  <2>5. ~External(t) /\ own <= t.retries
    BY <1>0, <2>2, <2>3 DEF External, StateOK
  <2>6. t.phase # "idle"
    BY <2>2, <2>3 DEF PollPhase, Phases
  <2>7. \A i \in Items : /\ t.kind[i] \in {s.kind[i], "new"}
                         /\ t.kind[i] = "new" /\ s.kind[i] # "new" => s.kind[i] = "unseen"
    BY <2>2, <2>3 DEF fresh
  <2>8. /\ t.phase \in {"awaiting", "quiesced"} => Undispositioned(t) \cup Blocking(t) = {}
        /\ t.phase \in Waiting \cup {"quiesced"} => queue = {}
    BY <2>4, <2>6 DEF StateOK, Undispositioned, Blocking, Waiting, Blockers
  <2>9. StateOK(t)
    <3>1. \A i \in Items : t.kind[i] \in {"unseen", "new", "clustered"} =>
              posted[i] = 0 /\ i \notin closed
      BY <2>7 DEF StateOK
    <3>2. \A i \in queue : t.kind[i] \notin {"unseen", "new"}
      BY <2>7 DEF StateOK, TypeOK
    <3>3. t.pushedSha <= head /\ (t.err \in {"terminal", "exhausted"} /\ t.filed => announced)
      BY <2>2 DEF StateOK
    <3>4. own <= t.retries + (IF External(t) THEN 1 ELSE 0) /\ t.pollSha <= head
      BY <1>0, <2>2, <2>5, Fields
    <3>5. t.pollSha # 0
      BY <1>2, <2>2
    <3>. QED BY <2>6, <2>8, <3>1, <3>2, <3>3, <3>4, <3>5 DEF StateOK
  <2>. QED BY <2>1, <2>2, <2>4, <2>5, <2>9
<1>. QED BY <1>1, <1>2

\* The items of one stage move on.
LEMMA ClusteredOK ==
    ASSUME TypeOK, NEW s \in StateType, StateOK(s), s.phase = "fixes"
    PROVE  LET t == Clustered(s) IN
           /\ t \in StateType /\ StateOK(t) /\ t.phase = s.phase /\ t.retries = s.retries
           /\ \A i \in Items : t.kind[i] # "new"
<1> DEFINE k == [i \in Items |-> IF s.kind[i] = "new" THEN "clustered" ELSE s.kind[i]]
<1>1. k \in [Items -> Stages] /\ \A i \in Items : k[i] # "new"
  BY Fields DEF Stages
<1>2. Clustered(s) = [s EXCEPT !.kind = k]
  BY DEF Clustered, StateType
<1>3. \A i \in Items : k[i] = s.kind[i] \/ (s.kind[i] = "new" /\ k[i] = "clustered")
  OBVIOUS
<1>. HIDE DEF k
<1>4. PICK t : t = Clustered(s)
  OBVIOUS
<1>5. /\ t \in StateType /\ t.phase = s.phase /\ t.err = s.err /\ t.filed = s.filed
      /\ t.kind = k /\ t.ci = s.ci /\ t.retries = s.retries
      /\ t.pollSha = s.pollSha /\ t.pushedSha = s.pushedSha
  BY <1>1, <1>2, <1>4, KindSet
<1>6. StateOK(t)
  <2>1. \A i \in queue : i \in Items
    BY DEF TypeOK
  <2>. QED BY <1>3, <1>5, <2>1 DEF StateOK, External, Waiting
<1>. QED BY <1>1, <1>4, <1>5, <1>6

LEMMA DecidedOK ==
    ASSUME TypeOK, NEW s \in StateType, StateOK(s), s.phase = "fixes",
           \A i \in Items : s.kind[i] # "new",
           NEW verdict \in [{i \in Items : s.kind[i] = "clustered"} -> Dispositions]
    PROVE  LET t == Decided(s, verdict) IN
           /\ t \in StateType /\ StateOK(t) /\ t.phase = s.phase /\ t.retries = s.retries
           /\ Undispositioned(t) = {}
           /\ \A i \in Items : s.kind[i] = "clustered" => t.kind[i] \in Dispositions
<1> DEFINE due == {i \in Items : s.kind[i] = "clustered"}
           k == [i \in Items |-> IF i \in DOMAIN verdict THEN verdict[i] ELSE s.kind[i]]
<1>1. \A i \in Items : /\ i \in due => k[i] \in Dispositions
                       /\ i \notin due => k[i] = s.kind[i]
  OBVIOUS
<1>2. k \in [Items -> Stages]
  BY <1>1, Fields DEF Stages
<1>3. Decided(s, verdict) = [s EXCEPT !.kind = k]
  BY DEF Decided, StateType
<1>. HIDE DEF k
<1>4. PICK t : t = Decided(s, verdict)
  OBVIOUS
<1>5. /\ t \in StateType /\ t.phase = s.phase /\ t.err = s.err /\ t.filed = s.filed
      /\ t.kind = k /\ t.ci = s.ci /\ t.retries = s.retries
      /\ t.pollSha = s.pollSha /\ t.pushedSha = s.pushedSha
  BY <1>2, <1>3, <1>4, KindSet
<1>6. \A i \in Items : t.kind[i] \in {"unseen"} \cup Dispositions
  BY <1>1, <1>5, Fields DEF Stages
<1>7. \A i \in Items : t.kind[i] = "unseen" => s.kind[i] = "unseen"
  BY <1>1, <1>5 DEF Dispositions
<1>8. StateOK(t)
  <2>1. \A i \in queue : i \in Items
    BY DEF TypeOK
  <2>2. \A i \in Items : t.kind[i] \in {"unseen", "new", "clustered"} =>
            posted[i] = 0 /\ i \notin closed
    BY <1>6, <1>7 DEF StateOK, Dispositions
  <2>3. \A i \in queue : t.kind[i] \notin {"unseen", "new"}
    BY <1>6, <1>7, <2>1 DEF StateOK, Dispositions
  <2>. QED BY <1>5, <2>2, <2>3 DEF StateOK, External, Waiting
<1>9. Undispositioned(t) = {}
  BY <1>6 DEF Undispositioned, Dispositions
<1>. QED BY <1>1, <1>4, <1>5, <1>8, <1>9

LEMMA MarkedOK ==
    ASSUME NEW s \in StateType, StateOK(s)
    PROVE  /\ Replied(s) \in StateType /\ StateOK(Replied(s))
           /\ Resolved(s) \in StateType /\ StateOK(Resolved(s))
           /\ \A t \in {Replied(s), Resolved(s)} :
                  t.phase = s.phase /\ t.kind = s.kind /\ t.retries = s.retries
<1> DEFINE f == [i \in Items |-> s.replied[i] \/ i \in Unreplied(s)]
           g == [i \in Items |-> s.resolved[i] \/ i \in ToResolve(s)]
<1>1. f \in [Items -> BOOLEAN] /\ g \in [Items -> BOOLEAN]
  BY Fields
<1>2. Replied(s) = [s EXCEPT !.replied = f] /\ Resolved(s) = [s EXCEPT !.resolved = g]
  BY DEF Replied, Resolved, StateType
<1>. HIDE DEF f, g
<1>3. \A t \in {[s EXCEPT !.replied = f], [s EXCEPT !.resolved = g]} :
          /\ t \in StateType /\ t.phase = s.phase /\ t.err = s.err /\ t.filed = s.filed
          /\ t.kind = s.kind /\ t.ci = s.ci /\ t.retries = s.retries
          /\ t.pollSha = s.pollSha /\ t.pushedSha = s.pushedSha
  BY <1>1 DEF StateType
<1>. QED BY <1>2, <1>3, SameFacts

\* A phase is given up for "fixes" or a gate, an error for another.
LEMMA PhaseOK ==
    ASSUME TypeOK, NEW s \in StateType, StateOK(s), NEW p \in Phases, NEW e \in Errors,
           NEW f \in BOOLEAN,
           p \in {s.phase, "gated"} \/ (s.pollSha # 0 /\ p = "fixes"),
           e \in {"terminal", "exhausted"} /\ f => announced,
           e = "exhausted" => s.pollSha # 0
    PROVE  LET t == [s EXCEPT !.phase = p, !.err = e, !.filed = f] IN
           t \in StateType /\ StateOK(t)
<1>1. PICK t : t = [s EXCEPT !.phase = p, !.err = e, !.filed = f]
  OBVIOUS
<1>2. /\ t \in StateType /\ t.phase = p /\ t.err = e /\ t.filed = f
      /\ t.kind = s.kind /\ t.ci = s.ci /\ t.retries = s.retries
      /\ t.pollSha = s.pollSha /\ t.pushedSha = s.pushedSha /\ t.told = s.told
  BY <1>1 DEF StateType
<1>3. StateOK(t)
  BY <1>2 DEF StateOK, Undispositioned, Blocking, External, Waiting
<1>. QED BY <1>1, <1>2, <1>3

LEMMA MishandledOK ==
    ASSUME TypeOK, NEW s \in StateType, StateOK(s),
           NEW e \in {"transient", "terminal", "cancelled", "refused"}
    PROVE  LET t == Mishandled(s, e) IN
           /\ t \in StateType /\ StateOK(t) /\ t.kind = s.kind /\ t.retries = s.retries
           /\ t.pollSha = s.pollSha /\ t.pushedSha = s.pushedSha
           /\ t.phase \in {s.phase, "gated"}
           /\ t.err = "terminal" /\ t.filed => e # "terminal"
<1>0. /\ s.phase \in Phases /\ "gated" \in Phases /\ "transient" \in Errors
      /\ "terminal" \in Errors /\ s.filed \in BOOLEAN /\ s.err \in Errors
  BY Fields DEF Phases, Errors
<1>1. CASE e = "transient"
  <2>1. Mishandled(s, e) = [s EXCEPT !.phase = s.phase, !.err = "transient", !.filed = s.filed]
    BY <1>1 DEF Mishandled, StateType
  <2> DEFINE t == [s EXCEPT !.phase = s.phase, !.err = "transient", !.filed = s.filed]
  <2>2. t \in StateType /\ StateOK(t)
    BY <1>0, PhaseOK
  <2>3. /\ t.err = "transient" /\ t.phase = s.phase /\ t.kind = s.kind
        /\ t.retries = s.retries /\ t.pollSha = s.pollSha /\ t.pushedSha = s.pushedSha
    BY DEF StateType
  <2>. QED BY <2>1, <2>2, <2>3
<1>2. CASE e = "terminal"
  <2>1. Mishandled(s, e) = [s EXCEPT !.phase = "gated", !.err = "terminal", !.filed = FALSE]
    BY <1>2 DEF Mishandled, StateType
  <2> DEFINE t == [s EXCEPT !.phase = "gated", !.err = "terminal", !.filed = FALSE]
  <2>2. t \in StateType /\ StateOK(t)
    BY <1>0, PhaseOK
  <2>3. /\ ~t.filed /\ t.phase = "gated" /\ t.kind = s.kind
        /\ t.retries = s.retries /\ t.pollSha = s.pollSha /\ t.pushedSha = s.pushedSha
    BY DEF StateType
  <2>. QED BY <2>1, <2>2, <2>3
<1>3. CASE e \notin {"transient", "terminal"}
  <2>1. Mishandled(s, e) = s
    BY <1>3 DEF Mishandled
  <2>. QED BY <1>3, <2>1
<1>. QED BY <1>1, <1>2, <1>3

\* A phase that waits or rests, taken when nothing is open.
LEMMA RestOK ==
    ASSUME NEW s, NEW t, StateOK(s), s.pollSha # 0, queue = {},
           Undispositioned(s) = {}, Blocking(s) = {}, t.phase \in {"awaiting", "quiesced"},
           t.kind = s.kind, t.ci = s.ci, t.retries = s.retries, t.pollSha = s.pollSha,
           t.pushedSha = s.pushedSha, t.err = "none" \/ (t.err = s.err /\ t.filed = s.filed)
    PROVE  StateOK(t)
  BY DEF StateOK, Undispositioned, Blocking, External, Waiting

LEMMA SettledOK ==
    ASSUME TypeOK, NEW s \in StateType, StateOK(s), s.phase = "fixes", queue = {},
           Undispositioned(s) = {}
    PROVE  LET t == Settled(s) IN
           /\ t \in StateType /\ StateOK(t) /\ t.kind = s.kind
           /\ t.phase \in {"gated", "awaiting", "quiesced"}
<1>0. /\ s.pollSha # 0 /\ s.err \in Errors /\ s.filed \in BOOLEAN
      /\ "gated" \in Phases /\ "none" \in Errors
  BY Fields DEF StateOK, Phases, Errors
<1>1. CASE Blocking(s) # {}
  <2>1. PICK f \in BOOLEAN : f = (s.filed /\ ~(cycle.err = "none" /\ s.err # "none"))
    BY <1>0
  <2> DEFINE t == [s EXCEPT !.phase = "gated", !.err = s.err, !.filed = f]
  <2>2. Settled(s) = t
    BY <1>1, <2>1 DEF Settled, StateType
  <2>a. /\ s.err \in {"terminal", "exhausted"} /\ f => announced
        /\ s.err = "exhausted" => s.pollSha # 0
    BY <2>1 DEF StateOK
  <2>3. t \in StateType /\ StateOK(t)
    BY <1>0, <2>1, <2>a, PhaseOK
  <2>4. t.phase = "gated" /\ t.kind = s.kind
    BY DEF StateType
  <2>. QED BY <2>2, <2>3, <2>4
<1>2. CASE Blocking(s) = {}
  <2>1. PICK p \in {"awaiting", "quiesced"} : Settled(s) = Cleared(s, p)
    BY <1>2 DEF Settled
  <2>2. PICK t : t = Settled(s)
    OBVIOUS
  <2>3. /\ t \in StateType /\ t.phase = p /\ t.kind = s.kind /\ t.ci = s.ci
        /\ t.retries = s.retries /\ t.pollSha = s.pollSha /\ t.pushedSha = s.pushedSha
        /\ t.err = "none"
    BY <2>1, <2>2 DEF StateType, Phases, Errors, Cleared
  <2>4. StateOK(t)
    BY <1>0, <1>2, <2>3, RestOK
  <2>. QED BY <2>2, <2>3, <2>4
<1>. QED BY <1>1, <1>2

\* What may happen around a state: the worktree takes commits of items that
\* are being decided, what is decided is answered or resolved, others push, and
\* so does prgroom, which a later poll will count.
Moves(s) ==
    /\ \/ queue' \subseteq queue
       \/ s.phase \in {"fixes", "gated"}
          /\ \A i \in queue' \ queue : s.kind[i] \notin {"unseen", "new"}
    /\ \A i \in Items : s.kind[i] \in {"unseen", "new", "clustered"} =>
           posted'[i] = posted[i] /\ (i \in closed' => i \in closed)
    /\ \/ head' = head /\ own' = own
       \/ head' = head + 1 /\ own' = own
       \/ head' = head + 1 /\ own' = own + 1 /\ own <= s.retries /\ s.pollSha # 0

LEMMA WorldMoves ==
    ASSUME TypeOK, NEW s \in StateType, StateOK(s), Moves(s),
           s.err \in {"terminal", "exhausted"} /\ s.filed /\ announced => announced'
    PROVE  StateOK(s)'
<1>1. /\ head \in Nat /\ own \in Nat /\ s.retries \in Nat /\ s.pollSha \in Nat
      /\ s.pushedSha \in Nat
  BY Fields DEF TypeOK
<1>2. own' <= s.retries + (IF External(s)' THEN 1 ELSE 0)
  BY <1>1 DEF StateOK, External, Moves
<1>3. s.pollSha <= head' /\ s.pushedSha <= head'
  BY <1>1 DEF StateOK, Moves
<1>4. s.phase \in {"fixes", "gated"} => s.phase \notin Waiting \cup {"quiesced", "idle", "awaiting"}
  BY DEF Waiting
<1>5. \A i \in queue' : s.kind[i] \notin {"unseen", "new"}
  BY DEF StateOK, Moves
<1>6. s.phase \in Waiting \cup {"quiesced"} => queue' = {}
  BY <1>4 DEF StateOK, Moves
<1>. QED BY <1>2, <1>3, <1>5, <1>6 DEF StateOK, Undispositioned, Blocking, Moves

-----------------------------------------------------------------------------
(* How a step ends *)

\* The types of what is outside the process.
WorldOK ==
    /\ comments \subseteq Items /\ posted \in [Items -> Nat] /\ closed \subseteq Threads
    /\ head \in Nat /\ own \in Nat /\ merged \in BOOLEAN /\ green \in BOOLEAN
    /\ queue \subseteq Items /\ published \subseteq Items /\ behind \in BOOLEAN
    /\ announced \in BOOLEAN /\ faults \in 0 .. MaxFaults

Outside == WorldOK /\ Unanswered /\ RepliesOnce

Steps == {"off", "probe", "rearm", "poll", "wait", "judge", "cluster", "fix", "cap",
          "push", "reply", "resolve", "settle", "flush"}

LEMMA DoneOK ==
    ASSUME IInv, NEW s \in StateType, NEW next \in Steps \ {"judge"}, Done(s, next),
           StateOK(s)', PcFits(s, next)', Outside', next = "off" => s.phase # "gated"
    PROVE  IInv'
<1>1. /\ mem' = s /\ disk' = s /\ pc' = next
      /\ exit' \in {"running", "clean", "broken"}
      /\ options' \in [blocking : BOOLEAN, budget : Budgets \cup {0}]
  BY DEF Done, IInv, TypeOK, NoOptions
<1>2. cycle' \in [pushedSha : Nat, err : Errors]
  <2>1. cycle' \in {[pushedSha |-> s.pushedSha, err |-> s.err], cycle, NoCycle}
    BY DEF Done, Pipeline
  <2>2. "none" \in Errors
    BY DEF Errors
  <2>. QED BY <2>1, <2>2, Fields DEF NoCycle, IInv, TypeOK
<1>3. TypeOK'
  BY <1>1, <1>2 DEF TypeOK, Outside, WorldOK, Steps
<1>4. PcOK'
  BY <1>1 DEF PcOK, PcFits
<1>5. GateIsAnnounced'
  BY <1>1 DEF GateIsAnnounced
<1>. QED BY <1>1, <1>3, <1>4, <1>5 DEF IInv, Outside

\* A verb that fails, and a process that dies, end the run; what they did to
\* GitHub and to the worktree stands.
LEMMA CutOK ==
    ASSUME IInv, pc # "off", Moves(mem), Moves(disk), Outside',
           \/ Die
           \/ \E e \in {"transient", "terminal", "cancelled", "refused"} : Abort(e)
    PROVE  IInv'
<1>. USE DEF IInv
<1>0. mem \in StateType /\ disk \in StateType
  BY DEF TypeOK
<1>1. CASE Die
  <2>1. StateOK(disk)'
    <3>1. PICK s : s = disk
      OBVIOUS
    <3>2. StateOK(s)'
      BY <1>0, <1>1, <3>1, WorldMoves DEF Die
    <3>. QED BY <1>1, <3>1, <3>2 DEF Die
  <2>2. TypeOK'
    <3>1. "none" \in Errors
      BY DEF Errors
    <3>. QED BY <1>1, <3>1 DEF Die, TypeOK, Outside, WorldOK, NoOptions, NoCycle
  <2>3. mem' = disk' /\ pc' = "off" /\ exit' = "broken"
    BY <1>1 DEF Die
  <2>. QED BY <2>1, <2>2, <2>3 DEF PcOK, PcFits, Pipeline, Outside, GateIsAnnounced
<1>2. ASSUME NEW e \in {"transient", "terminal", "cancelled", "refused"}, Abort(e)
      PROVE  IInv'
  <2>1. PICK s, t : s = mem /\ t = Mishandled(mem, e)
    OBVIOUS
  <2>2. /\ t \in StateType /\ StateOK(t) /\ t.kind = s.kind /\ t.retries = s.retries
        /\ t.pollSha = s.pollSha /\ t.pushedSha = s.pushedSha
        /\ t.phase \in {s.phase, "gated"}
        /\ t.err = "terminal" /\ t.filed => e # "terminal"
    BY <1>0, <2>1, MishandledOK
  <2>3. Moves(t)
    BY <2>1, <2>2 DEF Moves
  <2>4. Done(t, "flush") /\ announced' = (announced /\ e # "terminal")
    BY <1>2, <2>1 DEF Abort
  <2>5. t.err = "exhausted" => e # "terminal"
    BY <1>0, <2>1 DEF Mishandled, StateType
  <2>6. StateOK(t)'
    BY <2>2, <2>3, <2>4, <2>5, WorldMoves
  <2>7. PcFits(t, "flush")'
    BY DEF PcFits, Pipeline
  <2>. QED BY <2>2, <2>4, <2>6, <2>7, DoneOK DEF Steps
<1>. QED BY <1>1, <1>2

LEMMA Still ==
    ASSUME IInv, UNCHANGED world, announced' \in BOOLEAN, faults' \in 0 .. MaxFaults
    PROVE  /\ Outside'
           /\ \A s : Moves(s)
           /\ \A s \in StateType : StateOK(s) /\ announced' = announced => StateOK(s)'
           /\ \A s, next : PcFits(s, next) /\ options' = options => PcFits(s, next)'
<1>. USE DEF IInv, world, github, worktree
<1>1. Outside'
  BY DEF Outside, WorldOK, TypeOK, Unanswered, RepliesOnce
<1>2. \A s : Moves(s)
  BY DEF Moves
<1>3. ASSUME NEW s \in StateType, StateOK(s), announced' = announced PROVE StateOK(s)'
  BY <1>2, <1>3, WorldMoves
<1>4. ASSUME NEW s, NEW next, PcFits(s, next), options' = options PROVE PcFits(s, next)'
  BY <1>4 DEF PcFits, Undispositioned, Exhausted
<1>. QED BY <1>1, <1>2, <1>3, <1>4

\* A step that touches nothing but the state, and returns.
LEMMA QuietDoneOK ==
    ASSUME IInv, NEW s \in StateType, NEW next \in Steps \ {"judge"}, Done(s, next),
           StateOK(s), PcFits(s, next), next = "off" => s.phase # "gated",
           UNCHANGED <<world, announced, faults>>
    PROVE  IInv'
<1>1. /\ Outside' /\ StateOK(s)'
      /\ options' = options => PcFits(s, next)'
  BY Still DEF IInv, TypeOK
<1>2. PcFits(s, next)'
  <2>1. CASE next = "off"
    BY <2>1 DEF PcFits, Pipeline
  <2>2. CASE next # "off"
    BY <1>1, <2>2 DEF Done
  <2>. QED BY <2>1, <2>2
<1>. QED BY <1>1, <1>2, DoneOK

LEMMA FaultTyped ==
    ASSUME TypeOK, Faulty
    PROVE  faults' \in 0 .. MaxFaults
  BY BoundsAssumption DEF TypeOK, Faulty

\* A failure outside of which nothing moves.
LEMMA QuietCutOK ==
    ASSUME IInv, pc # "off", UNCHANGED world, faults' \in 0 .. MaxFaults,
           \/ Die
           \/ \E e \in {"transient", "terminal", "cancelled", "refused"} : Abort(e)
    PROVE  IInv'
<1>1. announced' \in BOOLEAN
  BY DEF Die, Abort, IInv, TypeOK
<1>. QED BY <1>1, Still, CutOK

LEMMA AskQueueOK ==
    ASSUME IInv, pc # "off", AskQueue, UNCHANGED <<world, faults>>
    PROVE  IInv'
<1>1. faults' \in 0 .. MaxFaults
  BY DEF IInv, TypeOK
<1>. QED BY <1>1, QuietCutOK DEF AskQueue

-----------------------------------------------------------------------------
(* The steps of a run *)

\* A state that is not resting goes to the poll.
LEMMA LoopFits ==
    ASSUME NEW s
    PROVE  /\ Loop(s) \in {"flush", "poll"} /\ PcFits(s, Loop(s))
           /\ Loop(s) = "poll" => s.phase \notin TerminalForCli
  BY DEF Loop, PcFits, Pipeline

LEMMA StartStep ==
    ASSUME IInv, Begin
    PROVE  IInv'
<1>. USE DEF IInv
<1>1. PICK blocking \in BOOLEAN, budget \in Budgets : Start(blocking, budget)
  BY DEF Begin
<1>2. PICK s : s = disk
  OBVIOUS
<1>3. s \in StateType /\ StateOK(s) /\ pc = "off"
  BY <1>1, <1>2 DEF TypeOK, Start
<1>4. /\ mem' = s /\ disk' = s /\ pc' \in {"probe", "flush", "poll"}
      /\ pc' = "poll" => s.phase \notin TerminalForCli
      /\ exit' = "running" /\ cycle' = cycle
      /\ UNCHANGED <<world, announced, faults>>
      /\ options' = [blocking |-> blocking, budget |-> budget]
  BY <1>1, <1>2, LoopFits DEF Start
<1>5. Outside' /\ StateOK(s)'
  BY <1>3, <1>4, Still DEF TypeOK
<1>6. TypeOK'
  BY <1>3, <1>4, <1>5 DEF TypeOK, Outside, WorldOK
<1>7. PcOK' /\ GateIsAnnounced'
  BY <1>4 DEF PcOK, PcFits, Pipeline, GateIsAnnounced
<1>. QED BY <1>4, <1>5, <1>6, <1>7 DEF Outside

LEMMA ProbeStep ==
    ASSUME IInv, Probe
    PROVE  IInv'
<1>1. PICK s : s = Polled(mem)
  OBVIOUS
<1>2. s \in StateType /\ StateOK(s)
  BY <1>1, PolledOK DEF IInv, TypeOK
<1>3. PcFits(s, "rearm") /\ "rearm" \in Steps \ {"judge"}
  BY DEF PcFits, Pipeline, Steps
<1>. QED BY <1>1, <1>2, <1>3, QuietDoneOK DEF Probe

LEMMA RearmStep ==
    ASSUME IInv, Rearm
    PROVE  IInv'
<1>. USE DEF IInv
<1>0. mem \in StateType /\ pc = "rearm"
  BY DEF TypeOK, Rearm
<1>1. CASE AskQueue
  BY <1>0, <1>1, AskQueueOK DEF Rearm
<1>2. CASE Done(mem, Loop(mem)) /\ UNCHANGED <<world, announced, faults>>
  BY <1>0, <1>2, LoopFits, QuietDoneOK DEF Steps
<1>3. CASE /\ mem.err = "exhausted" /\ Done(Cleared(mem, "fixes"), "poll")
           /\ UNCHANGED <<world, announced, faults>>
  <2>1. PICK s, t : s = mem /\ t = Cleared(mem, "fixes")
    OBVIOUS
  <2>2. /\ t \in StateType /\ t.phase = "fixes" /\ t.kind = s.kind /\ t.ci = s.ci
        /\ t.retries = s.retries /\ t.pollSha = s.pollSha /\ t.pushedSha = s.pushedSha
        /\ t.err = "none"
    BY <1>0, <2>1 DEF StateType, Phases, Errors, Cleared
  <2>3. StateOK(t)
    BY <1>3, <2>1, <2>2 DEF StateOK, External, Waiting
  <2>4. PcFits(t, "poll") /\ "poll" \in Steps \ {"judge"}
    BY <2>2 DEF PcFits, Pipeline, Steps, TerminalForCli
  <2>. QED BY <1>3, <2>1, <2>2, <2>3, <2>4, QuietDoneOK
<1>. QED BY <1>1, <1>2, <1>3 DEF Rearm

LEMMA PollStep ==
    ASSUME IInv, Poll
    PROVE  IInv'
<1>1. PICK s : s = Polled(mem)
  OBVIOUS
<1>2. /\ s \in StateType /\ StateOK(s) /\ s.phase \in Phases
      /\ s.phase = "fixes" => own <= s.retries
  BY <1>1, PolledOK, Fields DEF IInv, TypeOK
<1>3. PICK next : /\ next = CASE s.phase \in TerminalForCli -> "flush"
                               [] s.phase \in Waiting ->
                                      IF options.blocking THEN "wait" ELSE "off"
                               [] OTHER -> "cluster"
                  /\ Done(s, next)
  BY <1>1 DEF Poll
<1>4. /\ next \in {"flush", "wait", "off", "cluster"}
      /\ next \in {"wait", "off"} => s.phase \in Waiting
      /\ next = "cluster" => s.phase = "fixes"
  BY <1>2, <1>3 DEF Phases, TerminalForCli, Waiting
<1>5. PcFits(s, next)
  BY <1>2, <1>4 DEF PcFits, Pipeline
<1>6. next \in Steps \ {"judge"} /\ (next = "off" => s.phase # "gated")
  BY <1>4 DEF Steps, Waiting
<1>. QED BY <1>2, <1>3, <1>5, <1>6, QuietDoneOK DEF Poll

\* A wait leaves the run's copy as it was, but for what it never looks at.
LEMMA WaitPollStep ==
    ASSUME IInv, WaitPoll
    PROVE  IInv'
<1>. USE DEF IInv
<1>1. PICK s : s = disk
  OBVIOUS
<1>2. PICK t : t = Polled(s)
  OBVIOUS
<1>3. /\ s \in StateType /\ s.phase \in Waiting /\ StateOK(s) /\ mem.kind = s.kind
      /\ mem \in StateType /\ mem.phase \in Waiting
  BY <1>1 DEF PcOK, PcFits, TypeOK, WaitPoll
<1>4. /\ t \in StateType /\ StateOK(t)
      /\ t.phase \in Waiting => t.kind = s.kind
  BY <1>2, <1>3, PolledOK
<1>5. /\ UNCHANGED <<world, announced, faults, cycle, options, exit>>
      /\ disk' = t
  BY <1>1, <1>2 DEF WaitPoll
<1>6. Outside' /\ StateOK(disk)'
  BY <1>4, <1>5, Still DEF TypeOK
<1>7. PICK m : m = mem
  OBVIOUS
<1>8. StateOK(m)'
  BY <1>3, <1>5, <1>7, Still DEF TypeOK
<1>9. /\ \/ t.phase \in Waiting /\ pc' = "judge" /\ mem' = m
         \/ pc' \in {"flush", "poll"} /\ mem' = t
            /\ (pc' = "poll" => t.phase \notin TerminalForCli)
  BY <1>5, <1>7, LoopFits DEF WaitPoll
<1>10. StateOK(mem)'
  BY <1>5, <1>6, <1>8, <1>9
<1>11. TypeOK'
  BY <1>3, <1>4, <1>5, <1>6, <1>7, <1>9 DEF TypeOK, Outside, WorldOK
<1>12. PcOK'
  BY <1>3, <1>4, <1>5, <1>7, <1>9 DEF PcOK, PcFits, Pipeline
<1>13. GateIsAnnounced'
  BY <1>9 DEF GateIsAnnounced
<1>. QED BY <1>6, <1>10, <1>11, <1>12, <1>13 DEF Outside

LEMMA WaitJudgeStep ==
    ASSUME IInv, WaitJudge
    PROVE  IInv'
<1>. USE DEF IInv
<1>0. disk \in StateType /\ disk.phase \in Waiting /\ pc = "judge"
  BY DEF PcOK, TypeOK, WaitJudge
<1>1. CASE Quiescent(disk) /\ Done([disk EXCEPT !.phase = "quiesced"], "flush")
  <2>1. PICK s, t : s = disk /\ t = [disk EXCEPT !.phase = "quiesced"]
    OBVIOUS
  <2>2. /\ t \in StateType /\ t.phase = "quiesced" /\ t.kind = s.kind /\ t.ci = s.ci
        /\ t.retries = s.retries /\ t.pollSha = s.pollSha /\ t.pushedSha = s.pushedSha
        /\ t.err = s.err /\ t.filed = s.filed
    BY <1>0, <2>1 DEF StateType, Phases
  <2>3. s.pollSha # 0 /\ queue = {} /\ Undispositioned(s) = {} /\ Blocking(s) = {}
    BY <1>0, <1>1, <2>1 DEF StateOK, Quiescent
  <2>4. StateOK(t)
    BY <2>1, <2>2, <2>3, RestOK
  <2>5. PcFits(t, "flush") /\ "flush" \in Steps \ {"judge"}
    BY DEF PcFits, Pipeline, Steps
  <2>. QED BY <1>1, <2>1, <2>2, <2>4, <2>5, QuietDoneOK DEF WaitJudge
<1>2. CASE pc' = "wait" /\ UNCHANGED <<disk, mem, exit, cycle, options>>
  <2>1. UNCHANGED <<world, announced, faults>>
    BY DEF WaitJudge
  <2>2. Outside'
    BY <2>1, Still DEF TypeOK
  <2>3. PICK s, m : s = disk /\ m = mem
    OBVIOUS
  <2>4. StateOK(s)' /\ StateOK(m)'
    BY <2>1, <2>3, Still DEF TypeOK
  <2>5. StateOK(disk)' /\ StateOK(mem)'
    BY <1>2, <2>3, <2>4
  <2>6. TypeOK'
    BY <1>2, <2>2 DEF TypeOK, Outside, WorldOK
  <2>7. PcOK' /\ GateIsAnnounced'
    BY <1>0, <1>2 DEF PcOK, PcFits, Pipeline, GateIsAnnounced
  <2>. QED BY <2>2, <2>5, <2>6, <2>7 DEF Outside
<1>. QED BY <1>1, <1>2 DEF WaitJudge

LEMMA CancelStep ==
    ASSUME IInv, Cancel
    PROVE  IInv'
<1>1. pc # "off" /\ Abort("cancelled") /\ UNCHANGED world /\ faults' \in 0 .. MaxFaults
  BY FaultTyped DEF Cancel, IInv
<1>. QED BY <1>1, QuietCutOK

LEMMA WrongBranchStep ==
    ASSUME IInv, WrongBranch
    PROVE  IInv'
<1>1. pc # "off" /\ Abort("refused") /\ UNCHANGED world /\ faults' \in 0 .. MaxFaults
  BY FaultTyped DEF WrongBranch, IInv
<1>. QED BY <1>1, QuietCutOK

LEMMA ReadFailsStep ==
    ASSUME IInv, ReadFails
    PROVE  IInv'
<1>1. /\ pc # "off" /\ UNCHANGED world /\ faults' \in 0 .. MaxFaults
      /\ \E e \in {"transient", "terminal"} : Abort(e)
  BY FaultTyped DEF ReadFails, IInv
<1>. QED BY <1>1, QuietCutOK

LEMMA CrashStep ==
    ASSUME IInv, Crash
    PROVE  IInv'
<1>1. pc # "off" /\ Die /\ UNCHANGED world /\ faults' \in 0 .. MaxFaults
  BY FaultTyped DEF Crash, IInv
<1>. QED BY <1>1, QuietCutOK

LEMMA ClusterStep ==
    ASSUME IInv, Cluster
    PROVE  IInv'
<1>1. PICK s, t : s = mem /\ t = Clustered(mem)
  OBVIOUS
<1>2. /\ mem \in StateType /\ StateOK(mem) /\ mem.phase = "fixes" /\ own <= mem.retries
      /\ TypeOK
  BY DEF IInv, TypeOK, PcOK, PcFits, Cluster, Pipeline
<1>3. /\ t \in StateType /\ StateOK(t) /\ t.phase = s.phase /\ t.retries = s.retries
      /\ \A i \in Items : t.kind[i] # "new"
  BY <1>1, <1>2, ClusteredOK
<1>4. PcFits(t, "fix") /\ "fix" \in Steps \ {"judge"}
  BY <1>1, <1>2, <1>3 DEF PcFits, Steps
<1>. QED BY <1>1, <1>3, <1>4, QuietDoneOK DEF Cluster

\* What the agents commit belongs to items that were clustered.
LEMMA FixStep ==
    ASSUME IInv, Fix
    PROVE  IInv'
<1>. USE DEF IInv
<1> DEFINE due == {i \in Items : mem.kind[i] = "clustered"}
<1>1. PICK committed \in SUBSET due : queue' = queue \cup committed
  BY DEF Fix
<1>2. PICK verdict \in [due -> Dispositions] : Done(Decided(mem, verdict), "cap")
  BY DEF Fix
<1>3. PICK s, t : s = mem /\ t = Decided(mem, verdict)
  OBVIOUS
<1>4. /\ s \in StateType /\ StateOK(s) /\ s.phase = "fixes" /\ own <= s.retries
      /\ \A i \in Items : s.kind[i] # "new"
  BY <1>3 DEF TypeOK, PcOK, PcFits, Fix, Pipeline
<1>5. /\ t \in StateType /\ StateOK(t) /\ t.phase = s.phase /\ t.retries = s.retries
      /\ Undispositioned(t) = {}
      /\ \A i \in Items : s.kind[i] = "clustered" => t.kind[i] \in Dispositions
  BY <1>3, <1>4, DecidedOK
<1>6. UNCHANGED <<github, published, behind, announced, faults>>
  BY DEF Fix
<1>7. Moves(t)
  BY <1>1, <1>3, <1>4, <1>5, <1>6 DEF Moves, github, Dispositions
<1>8. StateOK(t)'
  BY <1>5, <1>6, <1>7, WorldMoves
<1>9. \A i \in due : posted[i] = 0 /\ i \notin closed
  BY DEF StateOK
<1>10. Outside'
  BY <1>1, <1>6, <1>9 DEF Outside, WorldOK, TypeOK, Unanswered, RepliesOnce, github
<1>11. PcFits(t, "cap")' /\ "cap" \in Steps \ {"judge"}
  BY <1>4, <1>5, <1>6 DEF PcFits, Steps, github, Undispositioned
<1>. QED BY <1>2, <1>3, <1>5, <1>8, <1>10, <1>11, DoneOK

LEMMA FixCutShortStep ==
    ASSUME IInv, FixCutShort
    PROVE  IInv'
<1>. USE DEF IInv
<1> DEFINE due == {i \in Items : mem.kind[i] = "clustered"}
<1>1. PICK committed \in SUBSET due : queue' = queue \cup committed
  BY DEF FixCutShort
<1>2. /\ UNCHANGED <<github, published, behind>> /\ faults' \in 0 .. MaxFaults
      /\ pc # "off" /\ (Die \/ \E e \in {"transient", "terminal"} : Abort(e))
  BY FaultTyped DEF FixCutShort, CutShort
<1>3. mem = disk /\ mem.phase = "fixes"
  BY DEF FixCutShort, PcOK, PcFits, Pipeline
<1>4. Moves(mem) /\ Moves(disk)
  BY <1>1, <1>2, <1>3 DEF Moves, github
<1>5. \A i \in due : posted[i] = 0 /\ i \notin closed
  BY DEF StateOK
<1>6. announced' \in BOOLEAN
  BY <1>2 DEF Die, Abort, TypeOK
<1>7. Outside'
  BY <1>1, <1>2, <1>5, <1>6 DEF Outside, WorldOK, TypeOK, Unanswered, RepliesOnce, github
<1>. QED BY <1>2, <1>4, <1>7, CutOK

LEMMA CapGuardStep ==
    ASSUME IInv, CapGuard
    PROVE  IInv'
<1>. USE DEF IInv
<1>0. /\ mem \in StateType /\ pc = "cap" /\ mem.phase = "fixes" /\ own <= mem.retries
      /\ Undispositioned(mem) = {}
  BY DEF TypeOK, PcOK, PcFits, Pipeline, CapGuard
<1>1. CASE AskQueue
  BY <1>0, <1>1, AskQueueOK DEF CapGuard
<1>2. CASE /\ Done(BudgetGate(mem), "flush") /\ announced' = FALSE
           /\ UNCHANGED <<world, faults>>
  <2>1. PICK t : t = BudgetGate(mem)
    OBVIOUS
  <2>2. /\ "gated" \in Phases /\ "exhausted" \in Errors /\ mem.pollSha # 0
    BY <1>0 DEF Phases, Errors, StateOK
  <2>3. t \in StateType /\ StateOK(t)
    BY <1>0, <2>1, <2>2, PhaseOK DEF BudgetGate
  <2>4. ~t.filed
    BY <1>0, <2>1 DEF BudgetGate, StateType
  <2>5. Outside' /\ Moves(t)
    BY <1>2, Still DEF TypeOK
  <2>6. StateOK(t)'
    BY <2>3, <2>4, <2>5, WorldMoves
  <2>7. PcFits(t, "flush")' /\ "flush" \in Steps \ {"judge"}
    BY DEF PcFits, Pipeline, Steps
  <2>. QED BY <1>2, <2>1, <2>3, <2>5, <2>6, <2>7, DoneOK
<1>3. CASE /\ ~Exhausted(mem) \/ queue = {}
           /\ Done(mem, "push")
           /\ UNCHANGED <<world, announced, faults>>
  <2>1. PcFits(mem, "push") /\ "push" \in Steps \ {"judge"}
    BY <1>0, <1>3 DEF PcFits, Steps
  <2>. QED BY <1>0, <1>3, <2>1, QuietDoneOK
<1>. QED BY <1>1, <1>2, <1>3 DEF CapGuard

\* What a state at the push knows of prgroom's own pushes.
LEMMA PushFits ==
    ASSUME IInv, pc = "push"
    PROVE  /\ mem \in StateType /\ mem = disk /\ mem.phase = "fixes" /\ mem.pollSha # 0
           /\ own <= mem.retries /\ Undispositioned(mem) = {}
           /\ queue # {} => ~Exhausted(mem)
  BY DEF IInv, TypeOK, PcOK, PcFits, Pipeline, StateOK

LEMMA UploadOK ==
    ASSUME IInv, pc = "push", Upload, faults' \in 0 .. MaxFaults, announced' \in BOOLEAN
    PROVE  Outside' /\ Moves(mem) /\ Moves(disk)
<1>1. Moves(mem) /\ Moves(disk)
  BY PushFits DEF Moves, Upload
<1>2. Outside'
  BY DEF Outside, WorldOK, IInv, TypeOK, Unanswered, RepliesOnce, Upload
<1>. QED BY <1>1, <1>2

LEMMA PushStep ==
    ASSUME IInv, Push
    PROVE  IInv'
<1>. USE DEF IInv
<1>0. pc = "push" /\ "reply" \in Steps \ {"judge"}
  BY DEF Push, Steps
<1>1. CASE AskQueue /\ UNCHANGED <<world, faults>>
  BY <1>0, <1>1, AskQueueOK
<1>2. CASE queue = {} /\ Done(mem, "reply") /\ UNCHANGED <<world, announced, faults>>
  <2>1. PcFits(mem, "reply")
    BY <1>0, <1>2, PushFits DEF PcFits
  <2>. QED BY <1>0, <1>2, <2>1, PushFits, QuietDoneOK
<1>3. CASE Upload /\ Done(Pushed(mem), "reply") /\ UNCHANGED <<announced, faults>>
  <2>1. PICK s, t : s = mem /\ t = Pushed(mem)
    OBVIOUS
  <2>2. head \in Nat /\ own \in Nat /\ s.retries \in Nat /\ s.pollSha # 0 /\ s \in StateType
    BY <1>0, <2>1, PushFits DEF TypeOK, StateType
  <2>b. PICK h, r \in Nat : h = head + 1 /\ r = s.retries + 1
    BY <2>2
  <2>a. t = [s EXCEPT !.pushedSha = h, !.retries = r]
    BY <2>1, <2>2, <2>b DEF Pushed, StateType
  <2>3. /\ t \in StateType /\ t.phase = s.phase /\ t.err = s.err /\ t.filed = s.filed
        /\ t.kind = s.kind /\ t.ci = s.ci /\ t.pollSha = s.pollSha
        /\ t.retries = s.retries + 1 /\ t.pushedSha = head + 1
    BY <2>2, <2>a, <2>b DEF StateType
  <2>4. Outside' /\ Moves(s)
    BY <1>0, <1>3, <2>1, UploadOK DEF TypeOK
  <2>5. head' = head + 1 /\ own' = own + 1 /\ queue' = {} /\ own <= s.retries
    BY <1>0, <1>3, <2>1, PushFits DEF Upload
  <2>6. StateOK(s)'
    BY <1>3, <2>1, <2>2, <2>4, WorldMoves
  <2>7. StateOK(t)'
    BY <2>2, <2>3, <2>5, <2>6 DEF StateOK, Undispositioned, Blocking, External
  <2>8. PcFits(t, "reply")'
    BY <1>0, <2>1, <2>2, <2>3, <2>5, PushFits DEF PcFits, Undispositioned
  <2>. QED BY <1>0, <1>3, <2>1, <2>3, <2>4, <2>7, <2>8, DoneOK
<1>. QED BY <1>1, <1>2, <1>3 DEF Push

LEMMA PushCutShortStep ==
    ASSUME IInv, PushCutShort
    PROVE  IInv'
<1>1. /\ pc = "push" /\ Upload /\ faults' \in 0 .. MaxFaults
      /\ (Die \/ \E e \in {"transient", "terminal"} : Abort(e))
  BY FaultTyped DEF PushCutShort, CutShort, IInv
<1>2. announced' \in BOOLEAN
  BY <1>1 DEF Die, Abort, IInv, TypeOK
<1>. QED BY <1>1, <1>2, UploadOK, CutOK

\* What is answered was decided, was not answered before and has no commits
\* left in the worktree.
LEMMA AnswerOK ==
    ASSUME IInv, pc \in {"reply", "resolve"}, faults' \in 0 .. MaxFaults,
           announced' \in BOOLEAN,
           NEW due \in SUBSET ToPost(mem), NEW done \in SUBSET ToResolve(mem),
           Post(due), closed' = closed \cup done,
           UNCHANGED <<comments, head, own, merged, green, worktree>>
    PROVE  Outside' /\ Moves(mem) /\ Moves(disk)
<1>. USE DEF IInv
<1>1. /\ mem = disk /\ queue = {} /\ Undispositioned(mem) = {}
      /\ queue' = {} /\ mem.kind \in [Items -> Stages]
  BY DEF PcOK, PcFits, worktree, TypeOK, StateType
<1>2. /\ due \subseteq Items /\ done \subseteq Threads
      /\ \A i \in due : posted[i] = 0 /\ mem.kind[i] \in Replyable
      /\ \A i \in done : mem.kind[i] = "fixed"
  BY DEF ToPost, Unreplied, ToResolve
<1>3. \A i \in Items : posted'[i] = IF i \in due THEN posted[i] + 1 ELSE posted[i]
  BY DEF Post
<1>4. posted' \in [Items -> Nat] /\ RepliesOnce'
  BY <1>2, <1>3 DEF Post, RepliesOnce, TypeOK
<1>5. Moves(mem)
  BY <1>1, <1>2, <1>3 DEF Moves, Replyable
<1>6. WorldOK' /\ Unanswered'
  BY <1>1, <1>2, <1>4 DEF WorldOK, TypeOK, Unanswered, worktree
<1>. QED BY <1>1, <1>4, <1>5, <1>6 DEF Outside

LEMMA NothingPosted ==
    ASSUME TypeOK, posted' = posted
    PROVE  Post({})
  BY DEF TypeOK, Post

LEMMA ReplyStep ==
    ASSUME IInv, Reply
    PROVE  IInv'
<1>. USE DEF IInv
<1>1. /\ pc = "reply" /\ Post(ToPost(mem)) /\ Done(Replied(mem), "resolve")
      /\ UNCHANGED <<comments, closed, head, own, merged, green, worktree, announced, faults>>
  BY DEF Reply
<1>2. PICK s, t : s = mem /\ t = Replied(mem)
  OBVIOUS
<1>3. /\ s \in StateType /\ s.phase = "fixes" /\ own <= s.retries /\ queue = {}
      /\ Undispositioned(s) = {}
  BY <1>1, <1>2 DEF TypeOK, PcOK, PcFits, Pipeline
<1>4. /\ t \in StateType /\ StateOK(t) /\ t.phase = s.phase /\ t.kind = s.kind
      /\ t.retries = s.retries
  BY <1>2, <1>3, MarkedOK
<1>5. faults' \in 0 .. MaxFaults /\ announced' \in BOOLEAN
  BY <1>1 DEF TypeOK
<1>6. Outside' /\ Moves(s)
  <2>1. {} \in SUBSET ToResolve(mem) /\ closed' = closed \cup {}
    BY <1>1
  <2>. QED BY <1>1, <1>2, <1>5, <2>1, AnswerOK
<1>7. StateOK(t)'
  <2>1. Moves(t)
    BY <1>1, <1>4, <1>6 DEF Moves
  <2>. QED BY <1>1, <1>4, <2>1, WorldMoves
<1>8. PcFits(t, "resolve")' /\ "resolve" \in Steps \ {"judge"}
  BY <1>1, <1>3, <1>4 DEF PcFits, Undispositioned, worktree, Steps
<1>. QED BY <1>1, <1>2, <1>4, <1>6, <1>7, <1>8, DoneOK

LEMMA ReplyCutShortStep ==
    ASSUME IInv, ReplyCutShort
    PROVE  IInv'
<1>1. /\ pc = "reply" /\ faults' \in 0 .. MaxFaults
      /\ (Die \/ \E e \in {"transient", "terminal"} : Abort(e))
      /\ UNCHANGED <<comments, closed, head, own, merged, green, worktree>>
  BY FaultTyped DEF ReplyCutShort, CutShort, IInv
<1>2. PICK due \in SUBSET ToPost(mem) : Post(due)
  BY DEF ReplyCutShort
<1>3. announced' \in BOOLEAN
  BY <1>1 DEF Die, Abort, IInv, TypeOK
<1>4. Outside' /\ Moves(mem) /\ Moves(disk)
  <2>1. {} \in SUBSET ToResolve(mem) /\ closed' = closed \cup {}
    BY <1>1
  <2>. QED BY <1>1, <1>2, <1>3, <2>1, AnswerOK
<1>. QED BY <1>1, <1>4, CutOK

LEMMA ResolveStep ==
    ASSUME IInv, Resolve
    PROVE  IInv'
<1>. USE DEF IInv
<1>1. /\ pc = "resolve" /\ closed' = closed \cup ToResolve(mem)
      /\ Done(Resolved(mem), "settle")
      /\ UNCHANGED <<comments, posted, head, own, merged, green, worktree, announced, faults>>
  BY DEF Resolve
<1>2. PICK s, t : s = mem /\ t = Resolved(mem)
  OBVIOUS
<1>3. /\ s \in StateType /\ s.phase = "fixes" /\ own <= s.retries /\ queue = {}
      /\ Undispositioned(s) = {}
  BY <1>1, <1>2 DEF TypeOK, PcOK, PcFits, Pipeline
<1>4. /\ t \in StateType /\ StateOK(t) /\ t.phase = s.phase /\ t.kind = s.kind
      /\ t.retries = s.retries
  BY <1>2, <1>3, MarkedOK
<1>5. faults' \in 0 .. MaxFaults /\ announced' \in BOOLEAN
  BY <1>1 DEF TypeOK
<1>6. Outside' /\ Moves(s)
  <2>1. Post({}) /\ {} \in SUBSET ToPost(mem)
    BY <1>1, NothingPosted
  <2>. QED BY <1>1, <1>2, <1>5, <2>1, AnswerOK
<1>7. StateOK(t)'
  <2>1. Moves(t)
    BY <1>1, <1>4, <1>6 DEF Moves
  <2>. QED BY <1>1, <1>4, <2>1, WorldMoves
<1>8. PcFits(t, "settle")' /\ "settle" \in Steps \ {"judge"}
  BY <1>1, <1>3, <1>4 DEF PcFits, Undispositioned, worktree, Steps
<1>. QED BY <1>1, <1>2, <1>4, <1>6, <1>7, <1>8, DoneOK

LEMMA ResolveCutShortStep ==
    ASSUME IInv, ResolveCutShort
    PROVE  IInv'
<1>1. /\ pc = "resolve" /\ faults' \in 0 .. MaxFaults
      /\ (Die \/ \E e \in {"transient", "terminal"} : Abort(e))
      /\ UNCHANGED <<comments, posted, head, own, merged, green, worktree>>
  BY FaultTyped DEF ResolveCutShort, CutShort, IInv
<1>2. PICK due \in SUBSET ToResolve(mem) : closed' = closed \cup due
  BY DEF ResolveCutShort
<1>3. announced' \in BOOLEAN
  BY <1>1 DEF Die, Abort, IInv, TypeOK
<1>4. Outside' /\ Moves(mem) /\ Moves(disk)
  <2>1. Post({}) /\ {} \in SUBSET ToPost(mem)
    BY <1>1, NothingPosted DEF IInv
  <2>. QED BY <1>1, <1>2, <1>3, <2>1, AnswerOK
<1>. QED BY <1>1, <1>4, CutOK

LEMMA SettleStep ==
    ASSUME IInv, Settle
    PROVE  IInv'
<1>. USE DEF IInv
<1>0. /\ mem \in StateType /\ pc = "settle" /\ mem.phase = "fixes" /\ queue = {}
      /\ Undispositioned(mem) = {}
  BY DEF TypeOK, PcOK, PcFits, Pipeline, Settle
<1>1. CASE AskQueue
  BY <1>0, <1>1, AskQueueOK DEF Settle
<1>2. CASE Done(Settled(mem), Loop(Settled(mem))) /\ announced' = announced
  <2>1. PICK t : t = Settled(mem)
    OBVIOUS
  <2>2. t \in StateType /\ StateOK(t)
    BY <1>0, <2>1, SettledOK
  <2>3. PcFits(t, Loop(t)) /\ Loop(t) \in {"flush", "poll"}
    BY LoopFits
  <2>4. Loop(t) \in Steps \ {"judge"} /\ Loop(t) # "off"
    BY <2>3 DEF Steps
  <2>. QED BY <1>2, <2>1, <2>2, <2>3, <2>4, QuietDoneOK DEF Settle
<1>3. announced \in BOOLEAN
  BY DEF TypeOK
<1>. QED BY <1>0, <1>1, <1>2, <1>3 DEF Settle

\* The signals that a gate owes are sent before the flag says so.
LEMMA FlushStep ==
    ASSUME IInv, Flush
    PROVE  IInv'
<1>. USE DEF IInv
<1>1. PICK s, t : s = mem /\ t = Escalated(mem)
  OBVIOUS
<1> DEFINE told == [i \in Items |-> s.told[i] \/ i \in Blocking(s)]
<1>2. s \in StateType /\ StateOK(s) /\ s.filed \in BOOLEAN /\ s.told \in [Items -> BOOLEAN]
  BY <1>1, Fields DEF TypeOK
<1>3. told \in [Items -> BOOLEAN] /\ \A i \in Blocking(s) : told[i]
  BY <1>2 DEF Blocking
<1>4. PICK f \in BOOLEAN : f = (s.filed \/ s.err # "none")
  BY <1>2
<1>5. t = [s EXCEPT !.told = told, !.filed = f]
  BY <1>1, <1>2, <1>4 DEF Escalated, StateType
<1>. HIDE DEF told
<1>6. /\ t \in StateType /\ t.phase = s.phase /\ t.err = s.err /\ t.filed = f
      /\ t.kind = s.kind /\ t.ci = s.ci /\ t.retries = s.retries
      /\ t.pollSha = s.pollSha /\ t.pushedSha = s.pushedSha /\ t.told = told
  BY <1>2, <1>3, <1>5 DEF StateType
<1>7. /\ mem' = t /\ disk' = t /\ pc' = "off" /\ exit' = "clean" /\ options' = NoOptions
      /\ UNCHANGED <<cycle, world, faults>>
      /\ announced' = (announced \/ (s.err # "none" /\ ~s.filed))
  BY <1>1 DEF Flush
<1>8. announced' \in BOOLEAN /\ faults' \in 0 .. MaxFaults
  BY <1>7 DEF TypeOK
<1>9. Outside' /\ Moves(s)
  BY <1>7, <1>8, Still
<1>10. StateOK(s)'
  BY <1>2, <1>7, <1>9, WorldMoves
<1>11. t.err \in {"terminal", "exhausted"} => announced'
  BY <1>2, <1>6, <1>7 DEF StateOK
<1>12. StateOK(t)'
  BY <1>6, <1>10, <1>11 DEF StateOK, Undispositioned, Blocking, External
<1>13. TypeOK'
  BY <1>6, <1>7, <1>9 DEF TypeOK, Outside, WorldOK, NoOptions
<1>14. PcOK'
  BY <1>7 DEF PcOK, PcFits, Pipeline
<1>15. GateIsAnnounced'
  BY <1>3, <1>6, <1>7, <1>11 DEF GateIsAnnounced, Blocking
<1>. QED BY <1>7, <1>9, <1>12, <1>13, <1>14, <1>15 DEF Outside

\* A run that ends otherwise leaves what it persisted.
LEMMA FlushRefusedStep ==
    ASSUME IInv, FlushRefused
    PROVE  IInv'
<1>. USE DEF IInv
<1>1. /\ pc = "flush" /\ mem = disk /\ pc' = "off" /\ exit' = "broken"
      /\ options' = NoOptions /\ faults' \in 0 .. MaxFaults
      /\ UNCHANGED <<disk, mem, cycle, world, announced>>
  BY FaultTyped DEF FlushRefused, PcOK
<1>2. PICK s : s = disk
  OBVIOUS
<1>3. Outside' /\ StateOK(s)'
  BY <1>1, <1>2, Still DEF TypeOK
<1>4. TypeOK'
  BY <1>1, <1>3 DEF TypeOK, Outside, WorldOK, NoOptions
<1>5. PcOK' /\ GateIsAnnounced'
  BY <1>1 DEF PcOK, PcFits, Pipeline, GateIsAnnounced
<1>6. StateOK(mem)' /\ StateOK(disk)'
  BY <1>1, <1>2, <1>3
<1>. QED BY <1>3, <1>4, <1>5, <1>6 DEF Outside

LEMMA RunStepOK ==
    ASSUME IInv, RunStep
    PROVE  IInv'
  BY ProbeStep, RearmStep, PollStep, WaitPollStep, WaitJudgeStep, ClusterStep, FixStep,
     CapGuardStep, PushStep, ReplyStep, ResolveStep, SettleStep, FlushStep DEF RunStep

LEMMA FaultOK ==
    ASSUME IInv, Fault
    PROVE  IInv'
  BY CancelStep, FixCutShortStep, PushCutShortStep, WrongBranchStep, ReplyCutShortStep,
     ResolveCutShortStep, ReadFailsStep, FlushRefusedStep, CrashStep DEF Fault

-----------------------------------------------------------------------------
(* What others do *)

\* Nobody else answers, resolves or commits, and a push of others takes the
\* whole queue or leaves it.
LEMMA OthersOK ==
    ASSUME IInv, Unaware, WorldOK', UNCHANGED <<posted, closed, own>>,
           queue' \subseteq queue, head' \in {head, head + 1}
    PROVE  IInv'
<1>. USE DEF IInv
<1>1. PICK s, m : s = disk /\ m = mem
  OBVIOUS
<1>2. s \in StateType /\ m \in StateType /\ StateOK(s) /\ StateOK(m)
  BY <1>1 DEF TypeOK
<1>3. /\ UNCHANGED <<disk, mem, pc, cycle, options, exit, announced, faults>>
  BY DEF Unaware
<1>4. Moves(s) /\ Moves(m)
  BY DEF Moves
<1>5. StateOK(s)' /\ StateOK(m)'
  BY <1>2, <1>3, <1>4, WorldMoves
<1>6. StateOK(disk)' /\ StateOK(mem)'
  BY <1>1, <1>3, <1>5
<1>7. TypeOK'
  BY <1>3 DEF TypeOK, WorldOK
<1>8. PcOK' /\ GateIsAnnounced' /\ Unanswered' /\ RepliesOnce'
  BY <1>3 DEF PcOK, PcFits, GateIsAnnounced, Unanswered, RepliesOnce, Exhausted,
              Undispositioned, Blocking
<1>. QED BY <1>6, <1>7, <1>8

LEMMA ElapseStep ==
    ASSUME IInv, Elapse
    PROVE  IInv'
<1>. USE DEF IInv
<1>1. PICK s, m : s = [disk EXCEPT !.idle = TRUE] /\ m = [mem EXCEPT !.idle = TRUE]
  OBVIOUS
<1>2. /\ disk' = s /\ mem' = m
      /\ UNCHANGED <<pc, cycle, options, exit, announced, faults, world>>
  BY <1>1 DEF Elapse
<1>3. /\ s \in StateType /\ s.phase = disk.phase /\ s.err = disk.err /\ s.filed = disk.filed
      /\ s.kind = disk.kind /\ s.ci = disk.ci /\ s.retries = disk.retries
      /\ s.pollSha = disk.pollSha /\ s.pushedSha = disk.pushedSha /\ s.told = disk.told
  BY <1>1 DEF TypeOK, StateType
<1>4. /\ m \in StateType /\ m.phase = mem.phase /\ m.err = mem.err /\ m.filed = mem.filed
      /\ m.kind = mem.kind /\ m.ci = mem.ci /\ m.retries = mem.retries
      /\ m.pollSha = mem.pollSha /\ m.pushedSha = mem.pushedSha
  BY <1>1 DEF TypeOK, StateType
<1>5. StateOK(s) /\ StateOK(m)
  BY <1>3, <1>4, SameFacts
<1>6. Outside' /\ StateOK(s)' /\ StateOK(m)'
  BY <1>2, <1>3, <1>4, <1>5, Still DEF TypeOK
<1>7. StateOK(disk)' /\ StateOK(mem)'
  BY <1>2, <1>6
<1>8. TypeOK'
  BY <1>2, <1>3, <1>4, <1>6 DEF TypeOK, Outside, WorldOK
<1>9. mem = disk => m = s
  BY <1>1
<1>10. PcOK'
  BY <1>2, <1>3, <1>4, <1>9 DEF PcOK, PcFits, Exhausted, Undispositioned,
                                world, github, worktree
<1>11. GateIsAnnounced'
  BY <1>2, <1>3 DEF GateIsAnnounced, Blocking
<1>. QED BY <1>6, <1>7, <1>8, <1>10, <1>11 DEF Outside

LEMMA ResolveEscalatedStep ==
    ASSUME IInv, NEW i \in Items, NEW kind \in {"fixed", "skipped"}, ResolveEscalated(i, kind)
    PROVE  IInv'
<1>. USE DEF IInv
<1> DEFINE k == [disk.kind EXCEPT ![i] = kind]
           told == [disk.told EXCEPT ![i] = FALSE]
<1>1. PICK s : s = disk
  OBVIOUS
<1>2. /\ s \in StateType /\ StateOK(s) /\ s.kind[i] = "escalated" /\ pc = "off"
      /\ s.kind \in [Items -> Stages] /\ s.phase \in Phases
  BY <1>1 DEF TypeOK, ResolveEscalated, StateType
<1>3. k \in [Items -> Stages] /\ told \in [Items -> BOOLEAN]
  BY DEF TypeOK, StateType, Stages, Dispositions
<1>4. \A j \in Items : k[j] = IF j = i THEN kind ELSE s.kind[j]
  BY <1>1, <1>2
<1>. HIDE DEF k, told
<1>5. PICK p \in Phases : /\ p = s.phase \/ (s.phase = "gated" /\ p = "fixes")
                          /\ disk' = [disk EXCEPT !.kind = k, !.told = told, !.phase = p]
  <2> DEFINE r == [disk EXCEPT !.kind[i] = kind, !.told[i] = FALSE]
  <2>1. r = [disk EXCEPT !.kind = k, !.told = told]
    BY DEF TypeOK, StateType, k, told
  <2>2. (disk' = [r EXCEPT !.phase = "fixes"] /\ s.phase = "gated") \/ disk' = r
    BY <1>1 DEF ResolveEscalated, Reclassified
  <2>. HIDE DEF r
  <2>3. CASE disk' = r
    BY <1>1, <1>2, <2>1, <2>3 DEF TypeOK, StateType
  <2>4. CASE disk' = [r EXCEPT !.phase = "fixes"] /\ s.phase = "gated"
    BY <2>1, <2>4 DEF TypeOK, StateType, Phases
  <2>. QED BY <2>2, <2>3, <2>4
<1>6. PICK t : t = disk'
  OBVIOUS
<1>7. /\ t \in StateType /\ t.phase = p /\ t.err = s.err /\ t.filed = s.filed
      /\ t.kind = k /\ t.ci = s.ci /\ t.retries = s.retries
      /\ t.pollSha = s.pollSha /\ t.pushedSha = s.pushedSha
  BY <1>1, <1>3, <1>5, <1>6 DEF TypeOK, StateType
<1>8. /\ s.phase \notin {"idle", "awaiting", "quiesced"} /\ s.pollSha # 0
  BY <1>2 DEF StateOK, Blocking, Blockers
<1>9. StateOK(t)
  BY <1>2, <1>4, <1>5, <1>7, <1>8 DEF StateOK, External, Waiting, TypeOK
<1>10. /\ disk' = t /\ mem' = t /\ pc' = "off" /\ exit' = "broken"
       /\ UNCHANGED <<cycle, options, announced, faults, world>>
  BY <1>2, <1>6 DEF ResolveEscalated
<1>11. Outside' /\ StateOK(t)'
  BY <1>7, <1>9, <1>10, Still DEF TypeOK
<1>12. TypeOK'
  BY <1>7, <1>10, <1>11 DEF TypeOK, Outside, WorldOK
<1>13. PcOK' /\ GateIsAnnounced'
  BY <1>10 DEF PcOK, PcFits, Pipeline, GateIsAnnounced
<1>. QED BY <1>10, <1>11, <1>12, <1>13 DEF Outside

LEMMA EnvironmentOK ==
    ASSUME IInv, Environment
    PROVE  IInv'
<1>. USE DEF IInv
<1>0. head \in Nat /\ own \in Nat
  BY DEF TypeOK
<1>1. ASSUME NEW i \in Items, Comment(i) PROVE IInv'
  <2>1. /\ Unaware /\ WorldOK' /\ UNCHANGED <<posted, closed, own, queue, head>>
    BY <1>1 DEF Comment, WorldOK, TypeOK, worktree, Unaware
  <2>. QED BY <2>1, OthersOK
<1>2. ASSUME NEW elsewhere \in BOOLEAN, ForeignPush(elsewhere) PROVE IInv'
  <2>1. /\ Unaware /\ WorldOK' /\ UNCHANGED <<posted, closed, own>>
        /\ queue' \subseteq queue /\ head' = head + 1
    <3>1. /\ Unaware /\ UNCHANGED <<comments, posted, closed, own, merged, green>>
          /\ head' = head + 1
      BY <1>2 DEF ForeignPush
    <3>2. /\ queue' \subseteq queue /\ published' \subseteq published \cup queue
          /\ behind' \in BOOLEAN
      <4>1. CASE elsewhere
        BY <1>2, <4>1 DEF ForeignPush
      <4>2. CASE ~elsewhere
        BY <1>2, <4>2 DEF ForeignPush, TypeOK
      <4>. QED BY <4>1, <4>2
    <3>. QED BY <1>0, <3>1, <3>2 DEF WorldOK, TypeOK, Unaware
  <2>. QED BY <2>1, OthersOK
<1>3. ASSUME SyncWorktree \/ Merge \/ CiTurns PROVE IInv'
  <2>1. /\ Unaware /\ WorldOK' /\ UNCHANGED <<posted, closed, own, queue, head>>
    BY <1>3 DEF SyncWorktree, Merge, CiTurns, WorldOK, TypeOK, worktree, github, Unaware
  <2>. QED BY <2>1, OthersOK
<1>. QED BY <1>1, <1>2, <1>3, ElapseStep, ResolveEscalatedStep DEF Environment

-----------------------------------------------------------------------------
(* The theorems *)

LEMMA InitOK ==
    ASSUME Init
    PROVE  IInv
<1>1. /\ Bootstrap \in StateType /\ Bootstrap.phase = "idle" /\ Bootstrap.err = "none"
      /\ Bootstrap.retries = 0 /\ Bootstrap.pollSha = 0 /\ Bootstrap.pushedSha = 0
      /\ Bootstrap.ci = FALSE /\ \A i \in Items : Bootstrap.kind[i] = "unseen"
  BY BootstrapType DEF Bootstrap
<1>2. TypeOK
  <2>1. NoCycle \in [pushedSha : Nat, err : Errors]
    BY DEF NoCycle, Errors
  <2>2. NoOptions \in [blocking : BOOLEAN, budget : Budgets \cup {0}]
    BY DEF NoOptions
  <2>3. posted \in [Items -> Nat] /\ faults \in 0 .. MaxFaults
    BY BoundsAssumption DEF Init
  <2>. QED BY <1>1, <2>1, <2>2, <2>3 DEF Init, TypeOK
<1>3. PICK s : s = Bootstrap
  OBVIOUS
<1>4. StateOK(s)
  BY <1>1, <1>3 DEF StateOK, Init
<1>5. PcOK
  BY DEF Init, PcOK, PcFits, Pipeline
<1>6. Unanswered /\ RepliesOnce /\ GateIsAnnounced
  BY <1>1 DEF Init, Unanswered, RepliesOnce, GateIsAnnounced
<1>. QED BY <1>2, <1>3, <1>4, <1>5, <1>6 DEF IInv, Init

LEMMA StutterOK ==
    ASSUME IInv, UNCHANGED vars
    PROVE  IInv'
<1>. USE DEF IInv
<1>1. UNCHANGED <<world, announced, faults, disk, mem, pc, cycle, options, exit>>
  BY DEF vars, world, github, worktree
<1>2. PICK s, m : s = disk /\ m = mem
  OBVIOUS
<1>3. Outside' /\ StateOK(s)' /\ StateOK(m)'
  BY <1>1, <1>2, Still DEF TypeOK
<1>4. StateOK(disk)' /\ StateOK(mem)'
  BY <1>1, <1>2, <1>3
<1>5. TypeOK'
  BY <1>1, <1>3 DEF TypeOK, Outside, WorldOK
<1>6. PcOK' /\ GateIsAnnounced'
  BY <1>1 DEF PcOK, PcFits, Exhausted, Undispositioned, GateIsAnnounced, Blocking,
              world, github, worktree
<1>. QED BY <1>3, <1>4, <1>5, <1>6 DEF Outside

LEMMA Invariance == Spec => []IInv
<1>1. Init => IInv
  BY InitOK
<1>2. IInv /\ [Next]_vars => IInv'
  BY StartStep, RunStepOK, FaultOK, EnvironmentOK, StutterOK DEF Next
<1>. QED BY <1>1, <1>2, PTL DEF Spec

\* Every variable of the run, of GitHub and of the worktree keeps its type.
THEOREM Typed == Spec => []TypeOK
<1>1. IInv => TypeOK
  BY DEF IInv
<1>. QED BY <1>1, Invariance, PTL

\* reply_pr asks GitHub which markers are there, so that no comment is answered
\* twice, wherever a pass that had answered some is lost.
THEOREM AnsweredOnce == Spec => []RepliesOnce
<1>1. IInv => RepliesOnce
  BY DEF IInv
<1>. QED BY <1>1, Invariance, PTL

\* The persisted state never waits or rests with an item that is undecided or
\* blocks: an item enters the state together with the phase that handles it.
THEOREM Remembered == Spec => []NothingForgotten
<1>1. IInv => NothingForgotten
  BY DEF IInv, StateOK, NothingForgotten
<1>. QED BY <1>1, Invariance, PTL

\* Replies and resolutions come after the push of what they speak of, in every
\* pass, and no PR waits or rests on commits that were not pushed.
THEOREM Published == Spec => []FixesArePublished
<1>1. IInv => FixesArePublished
  BY DEF IInv, Unanswered, StateOK, FixesArePublished, Waiting
<1>. QED BY <1>1, Invariance, PTL

\* A run that ends by itself at a gate has told its sink of the error and of
\* every item that blocks.
THEOREM GateTold == Spec => []GateIsAnnounced
<1>1. IInv => GateIsAnnounced
  BY DEF IInv
<1>. QED BY <1>1, Invariance, PTL

\* No push of prgroom exceeds the budget: a push whose state was lost is counted
\* by the next poll, before the cap guard looks again.
THEOREM BudgetKept == Spec => BudgetHolds
<1>1. IInv /\ [Next]_vars => (own' > own => own < options.budget)
  <2>1. SUFFICES ASSUME IInv, Next, own' # own
                 PROVE  own < options.budget
    BY DEF vars, IInv, TypeOK
  <2>2. pc = "push" /\ queue # {}
    BY <2>1 DEF Next, Begin, RunStep, Fault, Environment, Start, Probe, Rearm, Poll, WaitPoll,
                WaitJudge, Cluster, Fix, CapGuard, Push, Reply, Resolve, Settle, Flush, Cancel,
                FixCutShort, PushCutShort, WrongBranch, ReplyCutShort, ResolveCutShort,
                ReadFails, FlushRefused, Crash, Comment, ForeignPush, SyncWorktree, Merge,
                CiTurns, Elapse, ResolveEscalated, world, github
  <2>3. own <= mem.retries /\ ~(mem.retries >= options.budget)
    BY <2>1, <2>2, PushFits DEF Exhausted
  <2>4. mem.retries \in Nat /\ options.budget \in Nat /\ own \in Nat
    <3>1. options.budget \in Budgets \cup {0}
      BY <2>1 DEF IInv, TypeOK
    <3>2. \A b \in Budgets \cup {0} : b \in Nat
      BY BudgetsAssumption
    <3>3. mem.retries \in Nat /\ own \in Nat
      BY <2>1, Fields DEF IInv, TypeOK
    <3>. QED BY <3>1, <3>2, <3>3
  <2>. QED BY <2>3, <2>4
<1>. QED BY <1>1, Invariance, PTL DEF Spec, BudgetHolds

-----------------------------------------------------------------------------
(* The loop ends: what a run has ahead of it shrinks *)

LEMMA Counted ==
    ASSUME NEW s
    PROVE  IsFiniteSet(Unseen(s)) /\ Cardinality(Unseen(s)) \in Nat
<1>1. Unseen(s) \in SUBSET Items
  BY DEF Unseen
<1>2. IsFiniteSet(Unseen(s))
  BY <1>1, ItemsAssumption, FS_Subset
<1>. QED BY <1>2, FS_CardinalityType

LEMMA EndInSight ==
    ASSUME NEW s, NEW next \in Steps
    PROVE  ToTheEnd(s, next) \in 0 .. 13
  BY DEF ToTheEnd, Steps

\* A step is one forward where nothing was ingested, and may go back ten where
\* something was.
LEMMA Onward ==
    ASSUME NEW s, NEW t, NEW from \in Steps, NEW to \in Steps,
           Unseen(t) \subseteq Unseen(s),
           Unseen(t) = Unseen(s) => ToTheEnd(t, to) < ToTheEnd(s, from),
           ToTheEnd(t, to) < ToTheEnd(s, from) + 10
    PROVE  StepsLeft(t, to) < StepsLeft(s, from)
<1>1. PICK m, n \in Nat : m = Cardinality(Unseen(s)) /\ n = Cardinality(Unseen(t))
  BY Counted
<1>2. n <= m /\ (m = n => Unseen(t) = Unseen(s))
  <2>1. Unseen(t) \in SUBSET Unseen(s)
    OBVIOUS
  <2>. QED BY <1>1, <2>1, Counted, FS_Subset
<1>3. PICK p, q \in Nat : p = ToTheEnd(s, from) /\ q = ToTheEnd(t, to)
  BY EndInSight
<1>4. (m = n => q < p) /\ q < p + 10
  BY <1>2, <1>3
<1>5. 10 * n + q < 10 * m + p
  BY <1>2, <1>4
<1>. QED BY <1>1, <1>3, <1>5 DEF StepsLeft

LEMMA SameKinds ==
    ASSUME NEW s, NEW t, t.kind = s.kind
    PROVE  Unseen(t) = Unseen(s)
  BY DEF Unseen

\* Nothing but a comment wakes a PR that waits.
LEMMA PolledUnseen ==
    ASSUME TypeOK, NEW s \in StateType, StateOK(s)
    PROVE  LET t == Polled(s) IN
           /\ Unseen(t) \subseteq Unseen(s)
           /\ s.phase \in Waiting /\ Unseen(t) = Unseen(s) => t.phase # "fixes"
<1>1. CASE head = 0
  <2>1. Polled(s) = s
    BY <1>1, PolledType
  <2>. QED BY <2>1 DEF Waiting
<1>2. CASE head # 0
  <2> DEFINE fresh == {i \in comments : s.kind[i] = "unseen"}
  <2>1. PICK t : t = Polled(s)
    OBVIOUS
  <2>2. /\ t.kind = [i \in Items |-> IF i \in fresh THEN "new" ELSE s.kind[i]]
        /\ t.phase = PollPhase(s, fresh, External(s))
    BY <1>2, <2>1, PolledType
  <2>3. Unseen(t) \subseteq Unseen(s)
    BY <2>2 DEF Unseen
  <2>4. Unseen(t) = Unseen(s) => fresh = {}
    BY <2>2 DEF Unseen, TypeOK
  <2>5. s.phase \in Waiting /\ fresh = {} => t.phase # "fixes"
    BY <2>2 DEF PollPhase, Waiting, StateOK
  <2>. QED BY <2>1, <2>3, <2>4, <2>5
<1>. QED BY <1>1, <1>2

\* A run that fails or dies has nothing left but to say so.
LEMMA CutAdvances ==
    ASSUME IInv, pc # "off",
           \/ Die
           \/ pc # "flush" /\ \E e \in {"transient", "terminal", "cancelled", "refused"} : Abort(e)
    PROVE  StepsLeft(mem', pc') < StepsLeft(mem, pc)
<1>. USE DEF IInv
<1>0. pc \in Steps /\ mem \in StateType
  BY DEF TypeOK, Steps
<1>1. CASE Die
  <2>1. mem' = disk /\ mem.kind = disk.kind /\ pc' = "off"
    BY <1>1 DEF Die, PcOK
  <2>2. PICK t : t = mem'
    OBVIOUS
  <2>3. Unseen(t) = Unseen(mem)
    BY <2>1, <2>2, SameKinds
  <2>4. ToTheEnd(t, "off") < ToTheEnd(mem, pc)
    BY <1>0 DEF ToTheEnd, Steps
  <2>. QED BY <1>0, <2>1, <2>2, <2>3, <2>4, EndInSight, Onward DEF Steps
<1>2. ASSUME pc # "flush", NEW e \in {"transient", "terminal", "cancelled", "refused"}, Abort(e)
      PROVE  StepsLeft(mem', pc') < StepsLeft(mem, pc)
  <2>1. PICK t : t = Mishandled(mem, e)
    OBVIOUS
  <2>2. mem' = t /\ pc' = "flush"
    BY <1>2, <2>1 DEF Abort, Done
  <2>3. t.kind = mem.kind
    BY <1>0, <2>1, MishandledOK
  <2>4. Unseen(t) = Unseen(mem)
    BY <2>3, SameKinds
  <2>5. ToTheEnd(t, "flush") < ToTheEnd(mem, pc)
    BY <1>0, <1>2 DEF ToTheEnd, Steps
  <2>. QED BY <1>0, <2>2, <2>4, <2>5, EndInSight, Onward DEF Steps
<1>. QED BY <1>1, <1>2

LEMMA MovesOn ==
    ASSUME IInv, NEW t, NEW next \in Steps, mem' = t, pc' = next,
           Unseen(t) \subseteq Unseen(mem),
           Unseen(t) = Unseen(mem) => ToTheEnd(t, next) < ToTheEnd(mem, pc),
           ToTheEnd(t, next) < ToTheEnd(mem, pc) + 10
    PROVE  StepsLeft(mem', pc') < StepsLeft(mem, pc)
<1>1. pc \in Steps
  BY DEF IInv, TypeOK, Steps
<1>. QED BY <1>1, Onward

\* A step that ingests nothing.
LEMMA MovesOnAlone ==
    ASSUME IInv, NEW t, NEW next \in Steps, mem' = t, pc' = next, t.kind = mem.kind,
           ToTheEnd(t, next) < ToTheEnd(mem, pc)
    PROVE  StepsLeft(mem', pc') < StepsLeft(mem, pc)
<1>1. pc \in Steps
  BY DEF IInv, TypeOK, Steps
<1>2. Unseen(t) = Unseen(mem)
  BY SameKinds
<1>3. ToTheEnd(t, next) < ToTheEnd(mem, pc) + 10
  BY <1>1, EndInSight
<1>. QED BY <1>2, <1>3, MovesOn

LEMMA AskQueueAdvances ==
    ASSUME IInv, pc \notin {"off", "flush"}, AskQueue
    PROVE  StepsLeft(mem', pc') < StepsLeft(mem, pc)
  BY CutAdvances DEF AskQueue

LEMMA ProbeAdvances ==
    ASSUME IInv, Probe
    PROVE  StepsLeft(mem', pc') < StepsLeft(mem, pc)
<1>1. PICK t : t = Polled(mem)
  OBVIOUS
<1>2. mem' = t /\ pc' = "rearm" /\ pc = "probe" /\ "rearm" \in Steps
  BY <1>1 DEF Probe, Done, Steps
<1>3. Unseen(t) \subseteq Unseen(mem)
  BY <1>1, PolledUnseen DEF IInv, TypeOK
<1>. QED BY <1>2, <1>3, MovesOn DEF ToTheEnd

LEMMA RearmAdvances ==
    ASSUME IInv, Rearm
    PROVE  StepsLeft(mem', pc') < StepsLeft(mem, pc)
<1>0. pc = "rearm" /\ mem \in StateType
  BY DEF Rearm, IInv, TypeOK
<1>1. CASE AskQueue
  BY <1>0, <1>1, AskQueueAdvances
<1>2. CASE Done(Cleared(mem, "fixes"), "poll")
  <2>1. PICK t : t = Cleared(mem, "fixes")
    OBVIOUS
  <2>2. t.kind = mem.kind /\ t.phase = "fixes"
    BY <1>0, <2>1 DEF Cleared, StateType
  <2>3. mem' = t /\ pc' = "poll" /\ "poll" \in Steps
    BY <1>2, <2>1 DEF Done, Steps
  <2>. QED BY <1>0, <2>2, <2>3, MovesOnAlone DEF ToTheEnd
<1>3. CASE Done(mem, Loop(mem))
  <2>1. mem' = mem /\ pc' = Loop(mem) /\ Loop(mem) \in {"flush", "poll"}
    BY <1>3, LoopFits DEF Done
  <2>. QED BY <1>0, <2>1, MovesOnAlone DEF ToTheEnd, Steps
<1>. QED BY <1>1, <1>2, <1>3 DEF Rearm

LEMMA PollAdvances ==
    ASSUME IInv, Poll
    PROVE  StepsLeft(mem', pc') < StepsLeft(mem, pc)
<1>1. PICK t : t = Polled(mem)
  OBVIOUS
<1>2. /\ mem \in StateType /\ StateOK(mem) /\ TypeOK /\ pc = "poll"
      /\ mem.phase \in {"idle", "awaiting", "fixes"}
  BY DEF IInv, TypeOK, PcOK, PcFits, Poll, StateType, Phases, TerminalForCli
<1>3. /\ Unseen(t) \subseteq Unseen(mem)
      /\ mem.phase \in Waiting /\ Unseen(t) = Unseen(mem) => t.phase # "fixes"
      /\ t.phase \in Phases
  BY <1>1, <1>2, PolledUnseen, PolledOK, Fields
<1>4. PICK next : /\ next = CASE t.phase \in TerminalForCli -> "flush"
                               [] t.phase \in Waiting ->
                                      IF options.blocking THEN "wait" ELSE "off"
                               [] OTHER -> "cluster"
                  /\ Done(t, next)
  BY <1>1 DEF Poll
<1>5. /\ next \in {"flush", "wait", "off", "cluster"}
      /\ next = "cluster" => t.phase = "fixes"
  BY <1>3, <1>4 DEF Phases, TerminalForCli, Waiting
<1>6. mem' = t /\ pc' = next /\ next \in Steps
  BY <1>4, <1>5 DEF Done, Steps
<1>7. ToTheEnd(t, next) <= 10 /\ (next # "cluster" => ToTheEnd(t, next) <= 2)
  BY <1>5 DEF ToTheEnd
<1>8. ToTheEnd(mem, pc) = IF mem.phase = "fixes" THEN 11 ELSE 3
  BY <1>2 DEF ToTheEnd
<1>9. ToTheEnd(t, next) \in 0 .. 13
  BY <1>6, EndInSight
<1>10. Unseen(t) = Unseen(mem) => ToTheEnd(t, next) < ToTheEnd(mem, pc)
  BY <1>2, <1>3, <1>5, <1>7, <1>8, <1>9 DEF Waiting
<1>11. ToTheEnd(t, next) < ToTheEnd(mem, pc) + 10
  BY <1>7, <1>8, <1>9
<1>. QED BY <1>3, <1>6, <1>10, <1>11, MovesOn

\* A turn of the wait leaves things as they are, or ends it.
LEMMA WaitPollAdvances ==
    ASSUME IInv, WaitPoll
    PROVE  \/ StepsLeft(mem', pc') < StepsLeft(mem, pc)
           \/ mem' = mem /\ pc = "wait" /\ pc' = "judge"
<1>. USE DEF IInv
<1>1. PICK t : t = Polled(disk)
  OBVIOUS
<1>2. /\ disk \in StateType /\ disk.phase \in Waiting /\ StateOK(disk) /\ TypeOK
      /\ pc = "wait" /\ mem.kind = disk.kind
  BY DEF PcOK, TypeOK, WaitPoll
<1>3. /\ Unseen(t) \subseteq Unseen(disk)
      /\ Unseen(t) = Unseen(disk) => t.phase # "fixes"
      /\ t.phase \in Phases
  BY <1>1, <1>2, PolledUnseen, PolledOK, Fields
<1>4. Unseen(mem) = Unseen(disk)
  BY <1>2, SameKinds
<1>5. CASE t.phase \in Waiting
  BY <1>1, <1>2, <1>5 DEF WaitPoll
<1>6. CASE t.phase \notin Waiting
  <2>1. mem' = t /\ pc' = Loop(t)
    BY <1>1, <1>6 DEF WaitPoll
  <2>2. \/ Loop(t) = "flush"
        \/ Loop(t) = "poll" /\ t.phase = "fixes"
    BY <1>3, <1>6 DEF Loop, Phases, Waiting, TerminalForCli
  <2>3. /\ Loop(t) \in Steps /\ ToTheEnd(mem, pc) = 2
        /\ Loop(t) = "flush" => ToTheEnd(t, Loop(t)) = 1
        /\ Loop(t) = "poll" => ToTheEnd(t, Loop(t)) = 11
    BY <1>2, <2>2 DEF Steps, ToTheEnd
  <2>. QED BY <1>3, <1>4, <2>1, <2>2, <2>3, MovesOn
<1>. QED BY <1>5, <1>6

LEMMA WaitJudgeAdvances ==
    ASSUME IInv, WaitJudge
    PROVE  \/ StepsLeft(mem', pc') < StepsLeft(mem, pc)
           \/ mem' = mem /\ pc = "judge" /\ pc' = "wait"
<1>0. disk \in StateType /\ mem.kind = disk.kind /\ pc = "judge"
  BY DEF IInv, PcOK, TypeOK, WaitJudge
<1>1. CASE Done([disk EXCEPT !.phase = "quiesced"], "flush")
  <2>1. PICK t : t = [disk EXCEPT !.phase = "quiesced"]
    OBVIOUS
  <2>2. t.kind = mem.kind
    BY <1>0, <2>1 DEF StateType
  <2>3. mem' = t /\ pc' = "flush" /\ "flush" \in Steps
    BY <1>1, <2>1 DEF Done, Steps
  <2>. QED BY <1>0, <2>2, <2>3, MovesOnAlone DEF ToTheEnd
<1>. QED BY <1>0, <1>1 DEF WaitJudge

\* The pipeline: the state changes, its unseen items do not.
LEMMA PipelineAdvances ==
    ASSUME IInv, Cluster \/ Fix \/ CapGuard \/ Push \/ Reply \/ Resolve
    PROVE  StepsLeft(mem', pc') < StepsLeft(mem, pc)
<1>. USE DEF IInv
<1>0. mem \in StateType /\ mem.kind \in [Items -> Stages]
  BY Fields DEF TypeOK
<1>1. CASE Cluster
  <2>1. PICK t : t = Clustered(mem)
    OBVIOUS
  <2>2. t.kind = [i \in Items |-> IF mem.kind[i] = "new" THEN "clustered" ELSE mem.kind[i]]
    BY <1>0, <2>1 DEF Clustered, StateType
  <2>3. Unseen(t) = Unseen(mem)
    BY <2>2 DEF Unseen
  <2>4. mem' = t /\ pc' = "fix" /\ pc = "cluster" /\ "fix" \in Steps
    BY <1>1, <2>1 DEF Cluster, Done, Steps
  <2>. QED BY <2>3, <2>4, MovesOn DEF ToTheEnd
<1>2. CASE Fix
  <2> DEFINE due == {i \in Items : mem.kind[i] = "clustered"}
  <2>1. PICK verdict \in [due -> Dispositions] : Done(Decided(mem, verdict), "cap")
    BY <1>2 DEF Fix
  <2>2. PICK t : t = Decided(mem, verdict)
    OBVIOUS
  <2>3. t.kind = [i \in Items |-> IF i \in DOMAIN verdict THEN verdict[i] ELSE mem.kind[i]]
    BY <1>0, <2>2 DEF Decided, StateType
  <2>4. Unseen(t) = Unseen(mem)
    BY <2>3 DEF Unseen, Dispositions
  <2>5. mem' = t /\ pc' = "cap" /\ pc = "fix" /\ "cap" \in Steps
    BY <1>2, <2>1, <2>2 DEF Fix, Done, Steps
  <2>. QED BY <2>4, <2>5, MovesOn DEF ToTheEnd
<1>3. CASE CapGuard
  <2>0. pc = "cap" /\ "flush" \in Steps /\ "push" \in Steps
    BY <1>3 DEF CapGuard, Steps
  <2>1. CASE AskQueue
    BY <2>0, <2>1, AskQueueAdvances
  <2>2. CASE Done(BudgetGate(mem), "flush")
    <3>1. PICK t : t = BudgetGate(mem)
      OBVIOUS
    <3>2. t.kind = mem.kind
      BY <1>0, <3>1 DEF BudgetGate, StateType
    <3>3. mem' = t /\ pc' = "flush"
      BY <2>2, <3>1 DEF Done
    <3>. QED BY <2>0, <3>2, <3>3, MovesOnAlone DEF ToTheEnd
  <2>3. CASE Done(mem, "push")
    <3>1. mem' = mem /\ pc' = "push"
      BY <2>3 DEF Done
    <3>. QED BY <2>0, <3>1, MovesOnAlone DEF ToTheEnd
  <2>. QED BY <1>3, <2>1, <2>2, <2>3 DEF CapGuard
<1>4. CASE Push
  <2>0. pc = "push" /\ "reply" \in Steps
    BY <1>4 DEF Push, Steps
  <2>1. CASE AskQueue
    BY <2>0, <2>1, AskQueueAdvances
  <2>2. ASSUME NEW t \in {mem, Pushed(mem)}, Done(t, "reply")
        PROVE  StepsLeft(mem', pc') < StepsLeft(mem, pc)
    <3>1. t.kind = mem.kind
      BY <1>0 DEF Pushed, StateType
    <3>2. mem' = t /\ pc' = "reply"
      BY <2>2 DEF Done
    <3>. QED BY <2>0, <3>1, <3>2, MovesOnAlone DEF ToTheEnd
  <2>. QED BY <1>4, <2>1, <2>2 DEF Push
<1>5. CASE Reply
  <2>1. PICK t : t = Replied(mem)
    OBVIOUS
  <2>2. t.kind = mem.kind
    BY <1>0, <2>1, MarkedOK
  <2>3. mem' = t /\ pc' = "resolve" /\ pc = "reply" /\ "resolve" \in Steps
    BY <1>5, <2>1 DEF Reply, Done, Steps
  <2>. QED BY <2>2, <2>3, MovesOnAlone DEF ToTheEnd
<1>6. CASE Resolve
  <2>1. PICK t : t = Resolved(mem)
    OBVIOUS
  <2>2. t.kind = mem.kind
    BY <1>0, <2>1, MarkedOK
  <2>3. mem' = t /\ pc' = "settle" /\ pc = "resolve" /\ "settle" \in Steps
    BY <1>6, <2>1 DEF Resolve, Done, Steps
  <2>. QED BY <2>2, <2>3, MovesOnAlone DEF ToTheEnd
<1>. QED BY <1>1, <1>2, <1>3, <1>4, <1>5, <1>6

\* A cycle that is over is not begun again: what is settled waits, or stops.
LEMMA SettleAdvances ==
    ASSUME IInv, Settle
    PROVE  StepsLeft(mem', pc') < StepsLeft(mem, pc)
<1>. USE DEF IInv
<1>0. /\ mem \in StateType /\ pc = "settle" /\ mem.phase = "fixes" /\ queue = {}
      /\ Undispositioned(mem) = {} /\ TypeOK /\ StateOK(mem)
  BY DEF TypeOK, PcOK, PcFits, Pipeline, Settle
<1>1. CASE AskQueue
  BY <1>0, <1>1, AskQueueAdvances
<1>2. CASE Done(Settled(mem), Loop(Settled(mem)))
  <2>1. PICK t : t = Settled(mem)
    OBVIOUS
  <2>2. t.kind = mem.kind /\ t.phase \in {"gated", "awaiting", "quiesced"}
    BY <1>0, <2>1, SettledOK
  <2>3. mem' = t /\ pc' = Loop(t) /\ Loop(t) \in {"flush", "poll"}
    BY <1>2, <2>1, LoopFits DEF Done
  <2>4. Loop(t) \in Steps /\ ToTheEnd(t, Loop(t)) < ToTheEnd(mem, pc)
    BY <1>0, <2>2, <2>3 DEF Steps, ToTheEnd
  <2>. QED BY <2>2, <2>3, <2>4, MovesOnAlone
<1>. QED BY <1>1, <1>2 DEF Settle

LEMMA FlushAdvances ==
    ASSUME IInv, Flush \/ FlushRefused
    PROVE  StepsLeft(mem', pc') < StepsLeft(mem, pc)
<1>0. pc = "flush" /\ pc' = "off" /\ "off" \in Steps /\ mem \in StateType
  BY DEF Flush, FlushRefused, Steps, IInv, TypeOK
<1>1. PICK t : t = mem'
  OBVIOUS
<1>2. t.kind = mem.kind
  BY <1>0, <1>1 DEF Flush, FlushRefused, Escalated, StateType
<1>. QED BY <1>0, <1>1, <1>2, MovesOnAlone DEF ToTheEnd

LEMMA RunStepAdvances ==
    ASSUME IInv, RunStep
    PROVE  \/ StepsLeft(mem', pc') < StepsLeft(mem, pc)
           \/ mem' = mem /\ {pc, pc'} = {"wait", "judge"}
  BY ProbeAdvances, RearmAdvances, PollAdvances, WaitPollAdvances, WaitJudgeAdvances,
     PipelineAdvances, SettleAdvances, FlushAdvances DEF RunStep

LEMMA FaultAdvances ==
    ASSUME IInv, Fault
    PROVE  StepsLeft(mem', pc') < StepsLeft(mem, pc)
<1>1. CASE FlushRefused
  BY <1>1, FlushAdvances
<1>2. CASE ~FlushRefused
  <2>1. /\ pc # "off"
        /\ Die \/ (pc # "flush" /\ \E e \in {"transient", "terminal", "cancelled", "refused"} :
                                       Abort(e))
    BY <1>2 DEF Fault, Cancel, FixCutShort, PushCutShort, WrongBranch, ReplyCutShort,
                ResolveCutShort, ReadFails, Crash, CutShort
  <2>. QED BY <2>1, CutAdvances
<1>. QED BY <1>1, <1>2

\* What others do gives a run nothing to do until it polls.
LEMMA OthersAddNothing ==
    ASSUME IInv, pc # "off", Environment \/ UNCHANGED vars
    PROVE  StepsLeft(mem', pc') = StepsLeft(mem, pc)
<1>1. pc' = pc /\ mem'.kind = mem.kind /\ mem'.phase = mem.phase
  <2>1. CASE Elapse
    BY <2>1 DEF Elapse, IInv, TypeOK, StateType
  <2>2. CASE UNCHANGED <<mem, pc>>
    BY <2>2
  <2>. QED BY <2>1, <2>2 DEF Environment, Comment, ForeignPush, SyncWorktree, Merge, CiTurns,
                          ResolveEscalated, Unaware, vars
<1>2. PICK s, t, next : s = mem /\ t = mem' /\ next = pc
  OBVIOUS
<1>3. Unseen(t) = Unseen(s)
  BY <1>1, <1>2, SameKinds
<1>4. ToTheEnd(t, next) = ToTheEnd(s, next)
  BY <1>1, <1>2 DEF ToTheEnd
<1>. QED BY <1>1, <1>2, <1>3, <1>4 DEF StepsLeft

\* The loop of a run, which has no iteration cap, has no need of one: each of
\* its steps but a turn of the wait leaves less to do, failed ones included, and
\* no comment, push, merge, CI result or human gives it more.
THEOREM LoopEnds == Spec => RunAdvances
<1>1. IInv /\ [Next]_vars =>
        (pc # "off" =>
            \/ StepsLeft(mem', pc') < StepsLeft(mem, pc)
            \/ /\ StepsLeft(mem', pc') = StepsLeft(mem, pc)
               /\ RunStep \/ Fault => {pc, pc'} = {"wait", "judge"})
  <2>1. SUFFICES ASSUME IInv, [Next]_vars, pc # "off"
                 PROVE  \/ StepsLeft(mem', pc') < StepsLeft(mem, pc)
                        \/ /\ StepsLeft(mem', pc') = StepsLeft(mem, pc)
                           /\ RunStep \/ Fault => {pc, pc'} = {"wait", "judge"}
    OBVIOUS
  <2>2. CASE RunStep
    <3>1. CASE mem' = mem /\ {pc, pc'} = {"wait", "judge"}
      <4>1. pc \in {"wait", "judge"} /\ pc' \in {"wait", "judge"}
        BY <3>1
      <4>2. ToTheEnd(mem', pc') = ToTheEnd(mem, pc)
        BY <4>1 DEF ToTheEnd
      <4>. QED BY <3>1, <4>2 DEF StepsLeft
    <3>. QED BY <2>1, <2>2, <3>1, RunStepAdvances
  <2>3. CASE Fault
    BY <2>1, <2>3, FaultAdvances
  <2>4. CASE ~RunStep /\ ~Fault
    <3>1. Environment \/ UNCHANGED vars
      BY <2>1, <2>4 DEF Next, Begin, Start
    <3>. QED BY <2>1, <2>4, <3>1, OthersAddNothing
  <2>. QED BY <2>2, <2>3, <2>4
<1>. QED BY <1>1, Invariance, PTL DEF Spec, RunAdvances

\* A run has at most ten steps ahead of it for each comment that may be filed,
\* and thirteen besides: with the theorem before it, a bound on what it does.
THEOREM WorkIsBounded == Spec => [](StepsLeft(mem, pc) \in 0 .. 10 * Cardinality(Items) + 13)
<1>1. IInv => StepsLeft(mem, pc) \in 0 .. 10 * Cardinality(Items) + 13
  <2>1. SUFFICES ASSUME IInv PROVE StepsLeft(mem, pc) \in 0 .. 10 * Cardinality(Items) + 13
    OBVIOUS
  <2>2. Unseen(mem) \in SUBSET Items
    BY DEF Unseen
  <2>3. Cardinality(Unseen(mem)) <= Cardinality(Items) /\ Cardinality(Items) \in Nat
    BY <2>2, ItemsAssumption, FS_Subset, FS_CardinalityType
  <2>4. pc \in Steps
    BY <2>1 DEF IInv, TypeOK, Steps
  <2>5. PICK n, m, k \in Nat : /\ n = Cardinality(Unseen(mem)) /\ k = Cardinality(Items)
                               /\ m = ToTheEnd(mem, pc) /\ m <= 13 /\ n <= k
    BY <2>3, <2>4, Counted, EndInSight
  <2>6. 10 * n + m \in 0 .. 10 * k + 13
    BY <2>5
  <2>. QED BY <2>5, <2>6 DEF StepsLeft
<1>. QED BY <1>1, Invariance, PTL
=============================================================================
