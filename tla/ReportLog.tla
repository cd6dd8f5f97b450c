------------------------------ MODULE ReportLog ------------------------------
(***************************************************************************)
(* What the session report promises its reader, with no locks, threads or  *)
(* pipes: a log that only grows, crash blocks that belong to one thread at *)
(* a time, and a SUMMARY after which nothing is written.                   *)
(***************************************************************************)
EXTENDS Naturals, Sequences

CONSTANTS Writers,   \* whoever may write to the report
          NoOwner    \* no crash block is being written

VARIABLES log,       \* the lines of the file, in order
          open,      \* the file accepts lines
          owner      \* the thread whose crash block is being written

logVars == <<log, open, owner>>

EventLevels == {"CONTEXT", "INFO", "WARN", "ERROR", "LOG"}
CrashLevels == {"BEGIN", "BODY", "END"}
Levels == EventLevels \cup CrashLevels \cup {"SUMMARY"}

Line(level, t) == [level |-> level, by |-> t]

Record(level, t) == log' = IF open THEN Append(log, Line(level, t)) ELSE log

LogInit ==
  /\ log = <<>>
  /\ open = FALSE
  /\ owner = NoOwner

Open ==
  /\ log = <<>>
  /\ open' = TRUE
  /\ UNCHANGED <<log, owner>>

\* An ordinary line. It may fall inside somebody's crash block.
Event(t) ==
  /\ \E level \in EventLevels : Record(level, t)
  /\ UNCHANGED <<open, owner>>

BeginBlock(t) ==
  /\ owner = NoOwner
  /\ owner' = t
  /\ Record("BEGIN", t)
  /\ UNCHANGED open

ExtendBlock(t) ==
  /\ owner = t
  /\ Record("BODY", t)
  /\ UNCHANGED <<open, owner>>

EndBlock(t) ==
  /\ owner = t
  /\ owner' = NoOwner
  /\ Record("END", t)
  /\ UNCHANGED open

\* The last line, once: the log is closed with it.
Close(t) ==
  /\ open
  /\ Record("SUMMARY", t)
  /\ open' = FALSE
  /\ UNCHANGED owner

LogNext ==
  \/ Open
  \/ \E t \in Writers :
       Event(t) \/ BeginBlock(t) \/ ExtendBlock(t) \/ EndBlock(t) \/ Close(t)

LogSpec == LogInit /\ [][LogNext]_logVars

-----------------------------------------------------------------------------

\* In s, the block opened at line i is still open just before line j.
OpenIn(s, i, j) ==
  /\ s[i].level = "BEGIN"
  /\ \A k \in DOMAIN s : i < k /\ k < j => s[k] # Line("END", s[i].by)

\* Two crash blocks are never shuffled into each other: between one thread's
\* BEGIN and its END there is no line of another thread's block.
BlocksDisjoint ==
  \A i, j \in DOMAIN log :
    /\ i < j
    /\ OpenIn(log, i, j)
    /\ log[j].level \in CrashLevels
    => log[j].by = log[i].by

\* There is at most one SUMMARY and the log ends with it.
SummaryIsLast ==
  \A i \in DOMAIN log :
    log[i].level = "SUMMARY" => i = Len(log) /\ ~open
=============================================================================
