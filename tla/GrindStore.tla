----------------------------- MODULE GrindStore -----------------------------
(***************************************************************************)
(* The grind directory (packages/grind store.py, log.py, verbs.py):        *)
(* events.jsonl with the repair of a torn tail before each append, and the *)
(* two projections rewritten after it, state.json and dashboard.html.      *)
(*                                                                         *)
(* One writing command runs at a time and may die between or inside any of *)
(* its writes.  `grind render` and the readers run beside it.  An event is *)
(* the number of its append; a line is an event, a fragment of one, or two *)
(* of them run together.                                                   *)
(***************************************************************************)
EXTENDS Naturals, Sequences, FiniteSets

CONSTANTS
    MaxEvents,    \* bound on the appends
    Nothing,      \* no event, no tail
    Torn,         \* an unparsable fragment
    RunTogether   \* a line that starts with a fragment

Events == 1 .. MaxEvents

ASSUME BoundsAssumption == MaxEvents \in Nat
ASSUME MarksAssumption ==
    /\ Nothing \notin Events /\ Torn \notin Events /\ RunTogether \notin Events
    /\ Cardinality({Nothing, Torn, RunTogether}) = 3

VARIABLES
    lines,       \* the terminated lines of events.jsonl
    tail,        \* what follows the last newline
    quarantine,  \* fragments in events.quarantine
    cache,       \* the events state.json was folded from; Torn while it is written
    board,       \* the same, of dashboard.html
    op,          \* the writing command
    view,        \* what `grind render` has read and not written yet
    appended,    \* how many events were ever begun
    creation,    \* the events that are grind_created
    acked,       \* events whose command has answered
    lost         \* has a rewrite of the log been cut short?

vars == <<lines, tail, quarantine, cache, board, op, view, appended, creation,
          acked, lost>>

files == <<lines, tail, quarantine, cache, board>>

IsEvent(x) == x \notin {Nothing, Torn, RunTogether}

\* mutant: a tail that does not parse is kept
EventsKeepingTail(ls, t) == IF t = Nothing THEN ls ELSE Append(ls, t)

\* parse_event_log: the last line is read when it parses, and dropped when not.
EventsOf(ls, t) == IF IsEvent(t) THEN Append(ls, t) ELSE ls
Log == EventsOf(lines, tail)

LogNonempty == lines # <<>> \/ tail # Nothing

InLog(e) == \E n \in DOMAIN Log : Log[n] = e

Idle == [pc |-> "idle", event |-> Nothing, content |-> <<>>, seen |-> <<>>]

-----------------------------------------------------------------------------
(* A writing command: repair, append, refold, state.json, dashboard, reply *)

Begin(pc) == op' = [Idle EXCEPT !.pc = pc, !.event = appended + 1]

\* mutant: `create` does not look for a log
CreateAgain ==
    /\ op = Idle /\ appended < MaxEvents
    /\ Begin("repair")
    /\ appended' = appended + 1
    /\ creation' = creation \cup {appended + 1}
    /\ UNCHANGED <<files, view, acked, lost>>

\* `create` refuses a directory that has a log; `log` and `finish` do not ask.
Create ==
    /\ op = Idle /\ appended < MaxEvents
    /\ ~LogNonempty
    /\ Begin("repair")
    /\ appended' = appended + 1
    /\ creation' = creation \cup {appended + 1}
    /\ UNCHANGED <<files, view, acked, lost>>

LogEvent ==
    /\ op = Idle /\ appended < MaxEvents
    /\ Begin("repair")
    /\ appended' = appended + 1
    /\ UNCHANGED <<files, view, creation, acked, lost>>

Goto(pc) == op' = [op EXCEPT !.pc = pc]

\* mutant: the repair is skipped
AppendAtOnce ==
    /\ op.pc = "repair"
    /\ Goto("append")
    /\ UNCHANGED <<files, view, appended, creation, acked, lost>>

\* mutant: any unterminated tail is quarantined
QuarantineTail ==
    /\ op.pc = "repair"
    /\ op' = [op EXCEPT !.pc = IF tail = Nothing THEN "append" ELSE "truncate",
                        !.content = lines]
    /\ quarantine' = IF tail = Nothing THEN quarantine ELSE quarantine + 1
    /\ UNCHANGED <<lines, tail, cache, board, view, appended, creation, acked, lost>>

\* repair_torn_tail.  A tail that is a whole event gets its newline, by
\* writing the whole file anew; a fragment is copied to the sidecar first.
RepairTail ==
    /\ op.pc = "repair"
    /\ \/ /\ tail = Nothing
          /\ Goto("append")
          /\ UNCHANGED quarantine
       \/ /\ IsEvent(tail)
          /\ op' = [op EXCEPT !.pc = "truncate", !.content = Append(lines, tail)]
          /\ UNCHANGED quarantine
       \/ /\ tail = Torn
          /\ op' = [op EXCEPT !.pc = "truncate", !.content = lines]
          /\ quarantine' = quarantine + 1
    /\ UNCHANGED <<lines, tail, cache, board, view, appended, creation, acked, lost>>

\* Path.write_bytes truncates the file and then writes it.
Truncate ==
    /\ op.pc = "truncate"
    /\ Goto("rewrite")
    /\ lines' = <<>> /\ tail' = Nothing
    /\ UNCHANGED <<quarantine, cache, board, view, appended, creation, acked, lost>>

Rewrite ==
    /\ op.pc = "rewrite"
    /\ Goto("append")
    /\ lines' = op.content
    /\ UNCHANGED <<tail, quarantine, cache, board, view, appended, creation, acked, lost>>

\* A terminated line on top of what follows the last newline.
Terminated(t, e) == IF t = Nothing THEN e ELSE RunTogether

AppendLine ==
    /\ op.pc = "append"
    /\ Goto("fold")
    /\ lines' = Append(lines, Terminated(tail, op.event))
    /\ tail' = Nothing
    /\ UNCHANGED <<quarantine, cache, board, view, appended, creation, acked, lost>>

\* mutant: state.json is written from memory, with the event just appended
RefoldFromMemory ==
    /\ op.pc = "fold"
    /\ op' = [op EXCEPT !.pc = "state", !.seen = IF cache = Torn THEN <<op.event>>
                                                 ELSE Append(cache, op.event)]
    /\ cache' = Torn
    /\ UNCHANGED <<lines, tail, quarantine, board, view, appended, creation, acked, lost>>

\* fold_dir reads the log back; write_state truncates state.json ...
Refold ==
    /\ op.pc = "fold"
    /\ op' = [op EXCEPT !.pc = "state", !.seen = Log]
    /\ cache' = Torn
    /\ UNCHANGED <<lines, tail, quarantine, board, view, appended, creation, acked, lost>>

\* ... and writes it; so does write_dashboard with dashboard.html.
WriteState ==
    /\ op.pc = "state"
    /\ Goto("dashboard")
    /\ cache' = op.seen
    /\ board' = Torn
    /\ UNCHANGED <<lines, tail, quarantine, view, appended, creation, acked, lost>>

WriteDashboard ==
    /\ op.pc = "dashboard"
    /\ op' = Idle
    /\ board' = op.seen
    /\ acked' = acked \cup {op.event}
    /\ UNCHANGED <<lines, tail, quarantine, cache, view, appended, creation, lost>>

-----------------------------------------------------------------------------
(* The writer dies, leaving what its current write had put on disk *)

\* Every prefix of the file `content`: whole lines and a cut one.
Prefixes(content) ==
    {<<SubSeq(content, 1, n), t>> :
        n \in 0 .. Len(content), t \in {Nothing, Torn}}
    \cup {<<SubSeq(content, 1, n - 1), content[n]>> : n \in DOMAIN content}

CrashInAppend ==
    /\ op.pc = "append"
    /\ \E cut \in {Torn, op.event} : tail' = IF tail = Nothing THEN cut ELSE Torn
    /\ op' = Idle
    /\ UNCHANGED <<lines, quarantine, cache, board, view, appended, creation, acked, lost>>

CrashInRewrite ==
    /\ op.pc = "rewrite"
    /\ \E left \in Prefixes(op.content) : lines' = left[1] /\ tail' = left[2]
    /\ lost' = TRUE
    /\ op' = Idle
    /\ UNCHANGED <<quarantine, cache, board, view, appended, creation, acked>>

CrashBetween ==
    /\ op # Idle /\ op.pc # "rewrite"
    /\ op' = Idle
    /\ UNCHANGED <<files, view, appended, creation, acked, lost>>

-----------------------------------------------------------------------------
(* `grind render`, beside the writer: fold, then rewrite the dashboard.     *)

RenderRead ==
    /\ view = Nothing
    /\ view' = Log
    /\ UNCHANGED <<files, op, appended, creation, acked, lost>>

RenderWrite ==
    /\ view # Nothing
    /\ board' = view
    /\ view' = Nothing
    /\ UNCHANGED <<lines, tail, quarantine, cache, op, appended, creation, acked, lost>>

Init ==
    /\ lines = <<>> /\ tail = Nothing /\ quarantine = 0
    /\ cache = <<>> /\ board = <<>>
    /\ op = Idle /\ view = Nothing
    /\ appended = 0 /\ creation = {} /\ acked = {} /\ lost = FALSE

Next ==
    \/ Create
    \/ LogEvent
    \/ RepairTail
    \/ Truncate
    \/ Rewrite
    \/ AppendLine
    \/ Refold
    \/ WriteState
    \/ WriteDashboard
    \/ CrashInAppend
    \/ CrashInRewrite
    \/ CrashBetween
    \/ RenderRead
    \/ RenderWrite

Spec == Init /\ [][Next]_vars

-----------------------------------------------------------------------------
(* Properties *)

StoreTypeOK ==
    /\ lines \in Seq(Events \cup {RunTogether})
    /\ tail \in Events \cup {Nothing, Torn}
    /\ quarantine \in Nat
    /\ cache \in Seq(Events) \cup {Torn}
    /\ board \in Seq(Events) \cup {Torn}
    /\ op \in [pc : {"idle", "repair", "truncate", "rewrite", "append", "fold",
                     "state", "dashboard"},
              event : Events \cup {Nothing},
              content : Seq(Events), seen : Seq(Events)]
    /\ view \in Seq(Events) \cup {Nothing}
    /\ appended \in 0 .. MaxEvents
    /\ creation \in SUBSET Events
    /\ acked \in SUBSET Events
    /\ lost \in BOOLEAN

\* No crash, wherever it falls, leaves a log that cannot be read back: what is
\* malformed is the last line or nothing, so LogCorruptionError is not a crash
\* artifact.
NeverRunTogether == \A n \in DOMAIN lines : lines[n] # RunTogether

\* The events of the log are in the order of their appends, each once.
\* grind_created is among them only as the first, however often `create` and
\* `log` were tried around crashes.
CreationFirst ==
    /\ \A m, n \in DOMAIN Log : m < n => Log[m] < Log[n]
    /\ \A n \in DOMAIN Log : Log[n] \in creation => n = 1

\* An event whose line reached the disk whole stays in the log, also when the
\* crash took its newline: as long as no rewrite of the file is cut short.
Durable(e) ==
    \/ InLog(e)
    \/ op.pc = "rewrite" /\ \E n \in DOMAIN op.content : op.content[n] = e
DurableStays ==
    [][\A e \in Events : Durable(e) /\ ~lost' => Durable(e)']_vars

\* When a command answers, its event is in the log, and state.json and the
\* dashboard are projections of the whole log, whatever crashes went before.
AnswerIsProjected ==
    [][\A e \in acked' \ acked :
          InLog(e)' /\ cache' = Log' /\ board' = Log']_vars

\* The directory, with its repairs, rewrites and crashes, is one growing log:
\* every step of it is a step of GrindLog or leaves that log alone.  While the
\* repair has the file truncated, the log is what it is about to write.
WholeLog == IF op.pc = "rewrite" THEN op.content ELSE Log

Promise == INSTANCE GrindLog WITH
    log <- WholeLog, answered <- acked, cut <- lost

IsOneLog == Promise!Spec
=============================================================================
