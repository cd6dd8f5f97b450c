----------------------------- MODULE DebugReport -----------------------------
(***************************************************************************)
(* The per-session report (src/src/debug_report.cpp) and the crash         *)
(* handlers that write to it (src/src/crash_report.cpp).                   *)
(*                                                                         *)
(* Threads: Main, the mirror's Pump, and the game and renderer threads.    *)
(* g_mutex guards single bounded sections that never block, so each such   *)
(* section is one action.  g_crash_mutex is held across sections and is    *)
(* state.  The counters are atomics bumped outside g_mutex, so a bump and  *)
(* the write it announces are separate actions.                            *)
(***************************************************************************)
EXTENDS Naturals, Sequences, FiniteSets

CONSTANTS Game,         \* threads running recompiled code
          Main, Pump,   \* the main thread and the mirror's pump thread
          None,         \* nobody holds the crash mutex
          Faulters,     \* threads that may fault (exception or terminate)
          Refaulters,   \* threads that may fault again inside their block
          MayTimeOut,   \* a crash block may outlast the pump's bounded wait
          MaxBody,      \* bound: lines of one crash block
          MaxCalls,     \* bound: calls of info, warn, error, add_context
          MaxPrint,     \* bound: lines printed to stdout or stderr
          PipeCap       \* lines the mirror's pipe holds before writers block

Threads == Game \cup {Main, Pump}

ASSUME ThreadsAssumption ==
  /\ Main # Pump
  /\ Main \notin Game
  /\ Pump \notin Game
  /\ None \notin Threads
  /\ Faulters \subseteq Threads
  /\ Refaulters \subseteq Threads

ASSUME BoundsAssumption ==
  /\ MayTimeOut \in BOOLEAN
  /\ MaxBody \in Nat \ {0}
  /\ MaxCalls \in Nat
  /\ MaxPrint \in Nat
  /\ PipeCap \in Nat \ {0}

VARIABLES
  pc,           \* where each thread stands
  handler,      \* what sent a thread to end_session
  crashMutex,   \* g_crash_mutex: its holder, or None
  file,         \* g_file is not null
  report,       \* the lines of the report file
  headerOpen,   \* g_header_open
  counters,     \* g_errors, g_warnings, g_crashes
  summary,      \* the counters as the SUMMARY block printed them
  ending,       \* end_session's once flag
  reporting,    \* on_lookup_failure's once flag
  redirected,   \* fds 1 and 2 lead into the pipe
  mirrorOpen,   \* g_pipe_read is not null
  pipe,         \* lines in the pipe, by the level classify will give them
  pumpLine,     \* the line the pump has taken out of the pipe
  body,         \* lines written in the thread's crash block
  calls,        \* calls made so far (bound)
  printed,      \* lines printed into the pipe so far
  exit          \* "alive", or how the process ended

vars == <<pc, handler, crashMutex, file, report, headerOpen, counters, summary,
          ending, reporting, redirected, mirrorOpen, pipe, pumpLine, body,
          calls, printed, exit>>

fileVars   == <<file, report, headerOpen>>
mirrorVars == <<redirected, mirrorOpen, pipe, pumpLine, printed>>
crashVars  == <<crashMutex, handler, body, reporting>>

MirrorLevels == {"LOG", "WARN", "ERROR"}
EventLevels  == {"CONTEXT", "INFO", "WARN", "ERROR", "LOG"}
CrashLevels  == {"BEGIN", "BODY", "END"}
Lines == [level : EventLevels \cup CrashLevels \cup {"SUMMARY"}, by : Threads]
Counts == [errors : Nat, warnings : Nat, crashes : Nat]

PumpPCs  == {"off", "read", "await", "write", "done"}
CrashPCs == {"begin", "lock", "open", "body", "unlock"}
EndPCs   == {"end", "stop", "join", "sum", "leave"}
PCs == {"boot", "unborn", "run", "warn", "error", "asleep"}
         \cup PumpPCs \cup CrashPCs \cup EndPCs

Zero == [errors |-> 0, warnings |-> 0, crashes |-> 0]

Init ==
  /\ pc = [t \in Threads |-> IF t = Main THEN "boot"
                             ELSE IF t = Pump THEN "off" ELSE "unborn"]
  /\ handler = [t \in Threads |-> "none"]
  /\ crashMutex = None
  /\ file = FALSE
  /\ report = <<>>
  /\ headerOpen = TRUE
  /\ counters = Zero
  /\ summary = [written |-> FALSE, counts |-> Zero]
  /\ ending = FALSE
  /\ reporting = FALSE
  /\ redirected = FALSE
  /\ mirrorOpen = FALSE
  /\ pipe = <<>>
  /\ pumpLine = "LOG"
  /\ body = [t \in Threads |-> 0]
  /\ calls = 0
  /\ printed = 0
  /\ exit = "alive"

Goto(t, label) == pc' = [pc EXCEPT ![t] = label]
At(t, label) == exit = "alive" /\ pc[t] = label

-----------------------------------------------------------------------------
(* Writing one line, under g_mutex                                         *)

Count(which) == counters' = [counters EXCEPT ![which] = @ + 1]

\* A line straight to the file, the header left as it is.
Emit(level, t) ==
  report' = IF file THEN Append(report, [level |-> level, by |-> t]) ELSE report

\* g_header_open after an event line: the first one written closes the header.
HeaderAfterEvent_kept == headerOpen
HeaderAfterEvent == headerOpen /\ ~file

write_line(level, t) ==
  /\ Emit(level, t)
  /\ headerOpen' = HeaderAfterEvent
  /\ UNCHANGED file

-----------------------------------------------------------------------------
(* Opening the session.  The file may fail to open in both directories,    *)
(* and the mirror may be disabled or fail to start.  The game threads only *)
(* exist afterwards.                                                       *)

start_mirror(works) ==
  /\ mirrorOpen' = works
  /\ redirected' = works
  /\ pc' = [t \in Threads |-> IF t # Pump THEN "run"
                              ELSE IF works THEN "read" ELSE "off"]
  /\ UNCHANGED <<pipe, pumpLine, printed>>

begin_session(opens, mirrors) ==
  /\ At(Main, "boot")
  /\ mirrors => opens
  /\ file' = opens
  /\ start_mirror(mirrors)
  /\ UNCHANGED <<report, headerOpen, counters, summary, ending, calls, exit>>
  /\ UNCHANGED crashVars

-----------------------------------------------------------------------------
(* The report's API, callable from any thread that is not the pump         *)

Call(t) ==
  /\ At(t, "run")
  /\ calls < MaxCalls
  /\ calls' = calls + 1
  /\ UNCHANGED <<summary, ending, exit>>
  /\ UNCHANGED crashVars
  /\ UNCHANGED mirrorVars

add_context(t) ==
  /\ Call(t)
  /\ IF headerOpen
       THEN Emit("CONTEXT", t) /\ UNCHANGED <<file, headerOpen>>
       ELSE write_line("INFO", t)
  /\ UNCHANGED <<pc, counters>>

info(t) ==
  /\ Call(t)
  /\ write_line("INFO", t)
  /\ UNCHANGED <<pc, counters>>

warn(t) ==
  /\ Call(t)
  /\ Count("warnings")
  /\ Goto(t, "warn")
  /\ UNCHANGED fileVars

error_counts_late(t) ==
  /\ Call(t)
  /\ write_line("ERROR", t)
  /\ UNCHANGED <<pc, counters>>

error(t) ==
  /\ Call(t)
  /\ Count("errors")
  /\ Goto(t, "error")
  /\ UNCHANGED fileVars

\* The second half of warn and error: the line itself.
write_event(t) ==
  /\ \/ At(t, "warn") /\ write_line("WARN", t)
     \/ At(t, "error") /\ write_line("ERROR", t)
  /\ Goto(t, "run")
  /\ UNCHANGED <<counters, summary, ending, calls, exit>>
  /\ UNCHANGED crashVars
  /\ UNCHANGED mirrorVars

-----------------------------------------------------------------------------
(* The mirror: printed lines, the pump                                     *)

\* stdout and stderr are unbuffered and the pipe blocks its writers when it
\* is full.  Printing past a restored descriptor reaches only the console.
Printf(t, level) ==
  /\ At(t, "run")
  /\ redirected
  /\ printed < MaxPrint
  /\ Len(pipe) < PipeCap
  /\ pipe' = Append(pipe, level)
  /\ printed' = printed + 1
  /\ UNCHANGED <<pc, counters, summary, ending, calls, exit, redirected,
                 mirrorOpen, pumpLine>>
  /\ UNCHANGED fileVars
  /\ UNCHANGED crashVars

PumpRead ==
  /\ At(Pump, "read")
  /\ pipe # <<>>
  /\ pumpLine' = Head(pipe)
  /\ pipe' = Tail(pipe)
  /\ Goto(Pump, "await")
  /\ UNCHANGED <<counters, summary, ending, calls, exit, redirected,
                 mirrorOpen, printed>>
  /\ UNCHANGED fileVars
  /\ UNCHANGED crashVars

\* ReadFile returns zero once the last write handle is closed and the pipe
\* has been drained.
PumpEnd ==
  /\ At(Pump, "read")
  /\ pipe = <<>>
  /\ ~redirected
  /\ Goto(Pump, "done")
  /\ UNCHANGED <<counters, summary, ending, calls, exit>>
  /\ UNCHANGED fileVars
  /\ UNCHANGED mirrorVars
  /\ UNCHANGED crashVars

\* The crash mutex is taken and given back at once, or the two seconds pass.
WaitIsOver_unbounded == crashMutex = None
WaitIsOver == crashMutex = None \/ MayTimeOut

await_crash_block ==
  /\ At(Pump, "await")
  /\ WaitIsOver
  /\ Goto(Pump, "write")
  /\ UNCHANGED <<counters, summary, ending, calls, exit>>
  /\ UNCHANGED fileVars
  /\ UNCHANGED mirrorVars
  /\ UNCHANGED crashVars

\* What classify counts for a mirrored line of this level.
classify(level) ==
  CASE level = "ERROR" -> Count("errors")
    [] level = "WARN" -> Count("warnings")
    [] OTHER -> UNCHANGED counters

PumpWrite ==
  /\ At(Pump, "write")
  /\ classify(pumpLine)
  /\ write_line(pumpLine, Pump)
  /\ Goto(Pump, "read")
  /\ UNCHANGED <<summary, ending, calls, exit>>
  /\ UNCHANGED mirrorVars
  /\ UNCHANGED crashVars

-----------------------------------------------------------------------------
(* The crash handlers                                                      *)

Handler(t, why) ==
  /\ handler' = [handler EXCEPT ![t] = why]
  /\ Goto(t, "begin")
  /\ UNCHANGED <<crashMutex, body, counters, summary, ending, calls, exit>>
  /\ UNCHANGED fileVars
  /\ UNCHANGED mirrorVars

\* on_unhandled_exception and on_terminate differ only in what they say.  A
\* thread faults outside the report's own critical sections.
on_fault(t) ==
  /\ t \in Faulters
  /\ At(t, "run") \/ At(t, "read") \/ At(t, "await")
  /\ Handler(t, "fault")
  /\ UNCHANGED reporting

\* The handler itself faults while it holds the crash mutex and is entered
\* again on the same thread.
on_nested_fault(t) ==
  /\ t \in Refaulters
  /\ At(t, "body")
  /\ Handler(t, "fault")
  /\ UNCHANGED reporting

\* The first game thread to get here reports, a later one sleeps for ever.
on_lookup_failure(t) ==
  /\ t \in Game
  /\ At(t, "run")
  /\ \/ /\ reporting
        /\ Goto(t, "asleep")
        /\ UNCHANGED <<handler, crashMutex, body, counters, summary, ending,
                       calls, exit, reporting>>
        /\ UNCHANGED fileVars
        /\ UNCHANGED mirrorVars
     \/ /\ ~reporting
        /\ reporting' = TRUE
        /\ Handler(t, "lookup")

CrashStep ==
  /\ UNCHANGED <<handler, reporting, summary, ending, calls, exit>>
  /\ UNCHANGED mirrorVars

\* crash_begin counts before it has the lock.
CrashCount(t) ==
  /\ At(t, "begin")
  /\ Count("crashes")
  /\ Goto(t, "lock")
  /\ CrashStep
  /\ UNCHANGED <<crashMutex, body>>
  /\ UNCHANGED fileVars

\* The lock is held for the whole block.
BlockMayStart_unlocked == TRUE
BlockMayStart == crashMutex = None

CrashLock(t) ==
  /\ At(t, "lock")
  /\ BlockMayStart
  /\ crashMutex' = t
  /\ Goto(t, "open")
  /\ CrashStep
  /\ UNCHANGED <<body, counters>>
  /\ UNCHANGED fileVars

CrashBegin(t) ==
  /\ At(t, "open")
  /\ write_line("BEGIN", t)
  /\ Goto(t, "body")
  /\ body' = [body EXCEPT ![t] = 0]
  /\ CrashStep
  /\ UNCHANGED <<crashMutex, counters>>

crash_line(t) ==
  /\ At(t, "body")
  /\ body[t] < MaxBody
  /\ body' = [body EXCEPT ![t] = @ + 1]
  /\ Emit("BODY", t)
  /\ CrashStep
  /\ UNCHANGED <<pc, crashMutex, counters, file, headerOpen>>

CrashEnd(t) ==
  /\ At(t, "body")
  /\ body[t] > 0
  /\ write_line("END", t)
  /\ Goto(t, "unlock")
  /\ CrashStep
  /\ UNCHANGED <<crashMutex, body, counters>>

CrashUnlock(t) ==
  /\ At(t, "unlock")
  /\ crashMutex' = None
  /\ Goto(t, "end")
  /\ CrashStep
  /\ UNCHANGED <<body, counters>>
  /\ UNCHANGED fileVars

-----------------------------------------------------------------------------
(* Ending the session                                                      *)

EndStep ==
  /\ UNCHANGED <<handler, crashMutex, body, reporting, counters, calls>>
  /\ UNCHANGED <<pipe, pumpLine, printed>>

\* The end of main: frontend and runtime are down, end_session(true) follows.
MainEnds ==
  /\ At(Main, "run")
  /\ handler' = [handler EXCEPT ![Main] = "clean"]
  /\ Goto(Main, "end")
  /\ UNCHANGED <<crashMutex, body, reporting, counters, summary, ending, calls,
                 exit>>
  /\ UNCHANGED fileVars
  /\ UNCHANGED mirrorVars

\* main's early returns: no ROM in a headless run, or recomp::start threw.
MainReturnsEarly ==
  /\ At(Main, "run")
  /\ exit' = "early"
  /\ UNCHANGED <<pc, counters, summary, ending, calls>>
  /\ UNCHANGED fileVars
  /\ UNCHANGED mirrorVars
  /\ UNCHANGED crashVars

\* Whoever gets here first ends the session, everybody else goes on to leave.
end_session(t) ==
  /\ At(t, "end")
  /\ ending' = TRUE
  /\ Goto(t, IF ending THEN "leave" ELSE "stop")
  /\ EndStep
  /\ UNCHANGED <<summary, exit, redirected, mirrorOpen>>
  /\ UNCHANGED fileVars

\* The descriptors are restored; the pump is joined, but not by itself.
JoinsPump_always(t) == mirrorOpen
JoinsPump_never(t) == FALSE
JoinsPump(t) == mirrorOpen /\ t # Pump

stop_mirror(t) ==
  /\ At(t, "stop")
  /\ redirected' = FALSE
  /\ IF JoinsPump(t)
       THEN Goto(t, "join") /\ UNCHANGED mirrorOpen
       ELSE Goto(t, "sum") /\ mirrorOpen' = FALSE
  /\ EndStep
  /\ UNCHANGED <<summary, ending, exit>>
  /\ UNCHANGED fileVars

Joined(t) ==
  /\ At(t, "join")
  /\ pc[Pump] = "done"
  /\ mirrorOpen' = FALSE
  /\ Goto(t, "sum")
  /\ EndStep
  /\ UNCHANGED <<summary, ending, exit, redirected>>
  /\ UNCHANGED fileVars

\* g_file is closed and reset to null.
FileAfterSummary_kept == file
FileAfterSummary == FALSE

write_summary(t) ==
  /\ At(t, "sum")
  /\ Emit("SUMMARY", t)
  /\ summary' = IF file THEN [written |-> TRUE, counts |-> counters] ELSE summary
  /\ file' = FileAfterSummary
  /\ Goto(t, "leave")
  /\ EndStep
  /\ UNCHANGED <<headerOpen, ending, exit, redirected, mirrorOpen>>

\* The handler's last act, or main's return: the process is gone.  The dialog
\* the lookup handler shows first takes bounded time and touches nothing here.
Leave(t) ==
  /\ At(t, "leave")
  /\ exit' = handler[t]
  /\ UNCHANGED <<pc, counters, summary, ending, calls>>
  /\ UNCHANGED fileVars
  /\ UNCHANGED mirrorVars
  /\ UNCHANGED crashVars

-----------------------------------------------------------------------------

\* What a thread does once it has something to do: it is scheduled.
Progress(t) ==
  \/ write_event(t)
  \/ CrashCount(t) \/ CrashLock(t) \/ CrashBegin(t) \/ CrashEnd(t) \/ CrashUnlock(t)
  \/ end_session(t) \/ stop_mirror(t) \/ Joined(t) \/ write_summary(t) \/ Leave(t)
  \/ crash_line(t)

PumpProgress == PumpRead \/ PumpEnd \/ await_crash_block \/ PumpWrite

\* What the game, the player and the machine decide.
Environment ==
  \/ \E opens, mirrors \in BOOLEAN : begin_session(opens, mirrors)
  \/ \E t \in Threads : \/ add_context(t) \/ info(t) \/ warn(t) \/ error(t)
                        \/ \E level \in MirrorLevels : Printf(t, level)
                        \/ on_fault(t) \/ on_nested_fault(t) \/ on_lookup_failure(t)
  \/ MainEnds
  \/ MainReturnsEarly

\* A process that is gone does nothing more.
Gone == exit # "alive" /\ UNCHANGED vars

Next ==
  \/ Environment
  \/ \E t \in Threads : Progress(t)
  \/ PumpProgress
  \/ Gone

Spec == Init /\ [][Next]_vars

\* The operating system schedules every runnable thread.
FairSpec ==
  /\ Spec
  /\ \A t \in Threads : WF_vars(Progress(t))
  /\ WF_vars(PumpProgress)

-----------------------------------------------------------------------------
(* The report as its reader sees it: whose crash block is being written    *)

Owner == IF crashMutex = None THEN None
         ELSE IF pc[crashMutex] \in {"open", "unlock"} THEN None
         ELSE crashMutex

Log == INSTANCE ReportLog WITH
         Writers <- Threads, NoOwner <- None,
         log <- report, open <- file, owner <- Owner

-----------------------------------------------------------------------------
(* Properties                                                              *)

ThreadsOK ==
  /\ pc \in [Threads -> PCs]
  /\ pc[Pump] # "join"
  /\ handler \in [Threads -> {"none", "fault", "lookup", "clean"}]
  /\ crashMutex \in Threads \cup {None}
  /\ body \in [Threads -> 0 .. MaxBody]
  /\ exit \in {"alive", "early", "clean", "fault", "lookup"}

FlagsOK ==
  /\ file \in BOOLEAN
  /\ headerOpen \in BOOLEAN
  /\ ending \in BOOLEAN
  /\ reporting \in BOOLEAN
  /\ redirected \in BOOLEAN
  /\ mirrorOpen \in BOOLEAN

DataOK ==
  /\ report \in Seq(Lines)
  /\ counters \in Counts
  /\ summary \in [written : BOOLEAN, counts : Counts]
  /\ pipe \in Seq(MirrorLevels)
  /\ pumpLine \in MirrorLevels
  /\ calls \in 0 .. MaxCalls
  /\ printed \in 0 .. MaxPrint

\* Every variable holds a value of its kind.
TypeOK == ThreadsOK /\ FlagsOK /\ DataOK

\* crash_begin: two threads faulting at once never shuffle their crash blocks
\* into each other.  Between one thread's BEGIN and its END there is no line
\* of another thread's block.
BlocksDisjoint == Log!BlocksDisjoint

\* end_session: there is at most one SUMMARY and the report ends with it, no
\* matter how many of its callers run.
SummaryIsLast == Log!SummaryIsLast

\* debug_report.cpp keeps every promise of ReportLog.
ImplementsLog == Log!LogSpec

HowMany(levels) == Cardinality({i \in DOMAIN report : report[i].level \in levels})

\* The text of the EVENTS heading: the summary cannot undercount.  Whatever
\* ERROR and WARN lines and crash blocks the file holds are in its counts.
SummaryNeverUndercounts ==
  summary.written =>
    /\ summary.counts.errors >= HowMany({"ERROR"})
    /\ summary.counts.warnings >= HowMany({"WARN"})
    /\ summary.counts.crashes >= HowMany({"BEGIN"})

\* add_context: a context line is in the header block, before every event, or
\* it is an event; the two sections never mix although any thread or the pump
\* may close the header between two calls.
HeaderFirst ==
  \A i, j \in DOMAIN report :
    i < j /\ report[j].level = "CONTEXT" => report[i].level = "CONTEXT"

Mirrored == {i \in DOMAIN report : report[i].by = Pump /\ report[i].level \in MirrorLevels}

\* stop_mirror: a SUMMARY written by a thread that joined the pump comes after
\* every line that was printed into the mirror; none is left in the pipe or
\* in the pump's hands.
MirrorComplete ==
  summary.written /\ report[Len(report)].by # Pump =>
    /\ pc[Pump] \in {"off", "done"}
    /\ Cardinality(Mirrored) = printed

\* crash_begin's mutex is not recursive: a thread that faults again inside its
\* block waits for itself, and with it everybody who needs the mutex.
Wedged == crashMutex # None /\ pc[crashMutex] \in {"begin", "lock"}

\* A session that has begun to end leads to the end of the process: no thread
\* of the shutdown waits for another that waits for it.  A wedged crash mutex
\* alone does not stop it, nor does a fault of the pump; both together do.
SessionEnds == ending ~> exit # "alive" \/ (Wedged /\ handler[Pump] = "fault")

\* The comment in pump_thread: a mirrored line is never in the middle of a
\* crash block.
PumpOutsideBlocks ==
  \A i \in DOMAIN report, j \in Mirrored : i < j => ~Log!OpenIn(report, i, j)

=============================================================================
