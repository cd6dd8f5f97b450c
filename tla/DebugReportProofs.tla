-------------------------- MODULE DebugReportProofs --------------------------
(***************************************************************************)
(* What holds of the session report for any number of threads, any bounds  *)
(* and any choice of which threads fault, proved with TLAPS.               *)
(***************************************************************************)
EXTENDS DebugReport, FiniteSetTheorems, SequenceTheorems, TLAPS

-----------------------------------------------------------------------------
(* Type correctness.  The exit code of the process is the handler of the   *)
(* thread that left, so the type needs to know that such a thread has one. *)

HandlerKnown ==
  \A t \in Threads : pc[t] \in CrashPCs \cup EndPCs => handler[t] # "none"

TypeInv == TypeOK /\ HandlerKnown

\* Counting keeps the counters natural numbers.
LEMMA CountType ==
  ASSUME counters \in Counts, NEW which \in {"errors", "warnings", "crashes"},
         Count(which)
  PROVE  counters' \in Counts
  BY DEF Counts, Count

\* Appending a line, or leaving the file alone, keeps the report a sequence
\* of lines.
LEMMA EmitType ==
  ASSUME report \in Seq(Lines), NEW t \in Threads,
         NEW level \in EventLevels \cup CrashLevels \cup {"SUMMARY"},
         Emit(level, t)
  PROVE  report' \in Seq(Lines)
  <1>1. [level |-> level, by |-> t] \in Lines
    BY DEF Lines
  <1>2. QED
    BY <1>1 DEF Emit

\* Sending a thread to a label keeps pc a function into the labels.
LEMMA GotoType ==
  ASSUME pc \in [Threads -> PCs], NEW t \in Threads, NEW label \in PCs,
         Goto(t, label)
  PROVE  /\ pc' \in [Threads -> PCs]
         /\ pc'[t] = label
         /\ \A u \in Threads : u # t => pc'[u] = pc[u]
  BY DEF Goto

LEMMA TypeInit == Init => TypeInv
  <1> SUFFICES ASSUME Init PROVE TypeInv
    OBVIOUS
  <1> USE DEF Init
  <1>1. ThreadsOK
    <2>1. pc \in [Threads -> PCs]
      BY DEF PCs, PumpPCs
    <2>2. pc[Pump] # "join"
      BY DEF Threads
    <2>3. QED
      BY <2>1, <2>2, BoundsAssumption DEF ThreadsOK
  <1>2. FlagsOK
    BY DEF FlagsOK
  <1>3. DataOK
    BY BoundsAssumption DEF DataOK, Zero, Counts, MirrorLevels
  <1>4. HandlerKnown
    BY DEF HandlerKnown, CrashPCs, EndPCs
  <1>5. QED
    BY <1>1, <1>2, <1>3, <1>4 DEF TypeInv, TypeOK

\* One step per action; appended lines and counts by the lemmas above.
LEMMA TypeStep ==
  ASSUME TypeInv, [Next]_vars
  PROVE  TypeInv'
  <1>inv. ThreadsOK /\ FlagsOK /\ DataOK /\ HandlerKnown
    BY DEF TypeInv, TypeOK
  <1>pumpThread. Pump \in Threads
    BY DEF Threads
  <1> USE <1>inv, <1>pumpThread, ThreadsAssumption, BoundsAssumption
      DEF fileVars, mirrorVars, crashVars, At, PCs, PumpPCs, CrashPCs, EndPCs
  <1>add_context. ASSUME NEW t \in Threads, add_context(t) PROVE TypeInv'
    <2>1. report' \in Seq(Lines)
      BY <1>add_context, EmitType DEF add_context, write_line, DataOK, EventLevels, CrashLevels
    <2>2. ThreadsOK' /\ HandlerKnown'
      BY <1>add_context DEF ThreadsOK, HandlerKnown, add_context, Call, write_line, HeaderAfterEvent
    <2>3. FlagsOK'
      BY <1>add_context DEF FlagsOK, add_context, Call, write_line, HeaderAfterEvent
    <2>4. DataOK'
      BY <1>add_context, <2>1 DEF DataOK, add_context, Call, write_line, HeaderAfterEvent
    <2>5. QED
      BY <2>2, <2>3, <2>4 DEF TypeInv, TypeOK
  <1>info. ASSUME NEW t \in Threads, info(t) PROVE TypeInv'
    <2>1. report' \in Seq(Lines)
      BY <1>info, EmitType DEF info, write_line, DataOK, EventLevels, CrashLevels
    <2>2. ThreadsOK' /\ HandlerKnown'
      BY <1>info DEF ThreadsOK, HandlerKnown, info, Call, write_line, HeaderAfterEvent
    <2>3. FlagsOK'
      BY <1>info DEF FlagsOK, info, Call, write_line, HeaderAfterEvent
    <2>4. DataOK'
      BY <1>info, <2>1 DEF DataOK, info, Call, write_line, HeaderAfterEvent
    <2>5. QED
      BY <2>2, <2>3, <2>4 DEF TypeInv, TypeOK
  <1>warn. ASSUME NEW t \in Threads, warn(t) PROVE TypeInv'
    <2>1. counters' \in Counts
      BY <1>warn, CountType DEF warn, DataOK
    <2>2. ThreadsOK' /\ HandlerKnown'
      BY <1>warn DEF ThreadsOK, HandlerKnown, warn, Call, Goto
    <2>3. FlagsOK'
      BY <1>warn DEF FlagsOK, warn, Call, Goto
    <2>4. DataOK'
      BY <1>warn, <2>1 DEF DataOK, warn, Call, Goto
    <2>5. QED
      BY <2>2, <2>3, <2>4 DEF TypeInv, TypeOK
  <1>error. ASSUME NEW t \in Threads, error(t) PROVE TypeInv'
    <2>1. counters' \in Counts
      BY <1>error, CountType DEF error, DataOK
    <2>2. ThreadsOK' /\ HandlerKnown'
      BY <1>error DEF ThreadsOK, HandlerKnown, error, Call, Goto
    <2>3. FlagsOK'
      BY <1>error DEF FlagsOK, error, Call, Goto
    <2>4. DataOK'
      BY <1>error, <2>1 DEF DataOK, error, Call, Goto
    <2>5. QED
      BY <2>2, <2>3, <2>4 DEF TypeInv, TypeOK
  <1>on_fault. ASSUME NEW t \in Threads, on_fault(t) PROVE TypeInv'
    <2>2. ThreadsOK' /\ HandlerKnown'
      BY <1>on_fault DEF ThreadsOK, HandlerKnown, on_fault, Handler, Goto
    <2>3. FlagsOK'
      BY <1>on_fault DEF FlagsOK, on_fault, Handler, Goto
    <2>4. DataOK'
      BY <1>on_fault DEF DataOK, on_fault, Handler, Goto
    <2>5. QED
      BY <2>2, <2>3, <2>4 DEF TypeInv, TypeOK
  <1>on_nested_fault. ASSUME NEW t \in Threads, on_nested_fault(t) PROVE TypeInv'
    <2>2. ThreadsOK' /\ HandlerKnown'
      BY <1>on_nested_fault DEF ThreadsOK, HandlerKnown, on_nested_fault, Handler, Goto
    <2>3. FlagsOK'
      BY <1>on_nested_fault DEF FlagsOK, on_nested_fault, Handler, Goto
    <2>4. DataOK'
      BY <1>on_nested_fault DEF DataOK, on_nested_fault, Handler, Goto
    <2>5. QED
      BY <2>2, <2>3, <2>4 DEF TypeInv, TypeOK
  <1>on_lookup_failure. ASSUME NEW t \in Threads, on_lookup_failure(t) PROVE TypeInv'
    <2>2. ThreadsOK' /\ HandlerKnown'
      BY <1>on_lookup_failure DEF ThreadsOK, HandlerKnown, on_lookup_failure, Handler, Goto
    <2>3. FlagsOK'
      BY <1>on_lookup_failure DEF FlagsOK, on_lookup_failure, Handler, Goto
    <2>4. DataOK'
      BY <1>on_lookup_failure DEF DataOK, on_lookup_failure, Handler, Goto
    <2>5. QED
      BY <2>2, <2>3, <2>4 DEF TypeInv, TypeOK
  <1>write_event. ASSUME NEW t \in Threads, write_event(t) PROVE TypeInv'
    <2>1. report' \in Seq(Lines)
      BY <1>write_event, EmitType DEF write_event, write_line, DataOK, EventLevels, CrashLevels
    <2>2. ThreadsOK' /\ HandlerKnown'
      BY <1>write_event DEF ThreadsOK, HandlerKnown, write_event, write_line, HeaderAfterEvent, Goto
    <2>3. FlagsOK'
      BY <1>write_event DEF FlagsOK, write_event, write_line, HeaderAfterEvent, Goto
    <2>4. DataOK'
      BY <1>write_event, <2>1 DEF DataOK, write_event, write_line, HeaderAfterEvent, Goto
    <2>5. QED
      BY <2>2, <2>3, <2>4 DEF TypeInv, TypeOK
  <1>CrashCount. ASSUME NEW t \in Threads, CrashCount(t) PROVE TypeInv'
    <2>1. counters' \in Counts
      BY <1>CrashCount, CountType DEF CrashCount, DataOK
    <2>2. ThreadsOK' /\ HandlerKnown'
      BY <1>CrashCount DEF ThreadsOK, HandlerKnown, CrashCount, CrashStep, Goto
    <2>3. FlagsOK'
      BY <1>CrashCount DEF FlagsOK, CrashCount, CrashStep, Goto
    <2>4. DataOK'
      BY <1>CrashCount, <2>1 DEF DataOK, CrashCount, CrashStep, Goto
    <2>5. QED
      BY <2>2, <2>3, <2>4 DEF TypeInv, TypeOK
  <1>CrashLock. ASSUME NEW t \in Threads, CrashLock(t) PROVE TypeInv'
    <2>2. ThreadsOK' /\ HandlerKnown'
      BY <1>CrashLock DEF ThreadsOK, HandlerKnown, CrashLock, CrashStep, Goto, BlockMayStart
    <2>3. FlagsOK'
      BY <1>CrashLock DEF FlagsOK, CrashLock, CrashStep, Goto, BlockMayStart
    <2>4. DataOK'
      BY <1>CrashLock DEF DataOK, CrashLock, CrashStep, Goto, BlockMayStart
    <2>5. QED
      BY <2>2, <2>3, <2>4 DEF TypeInv, TypeOK
  <1>CrashBegin. ASSUME NEW t \in Threads, CrashBegin(t) PROVE TypeInv'
    <2>1. report' \in Seq(Lines)
      BY <1>CrashBegin, EmitType DEF CrashBegin, write_line, DataOK, EventLevels, CrashLevels
    <2>2. ThreadsOK' /\ HandlerKnown'
      BY <1>CrashBegin DEF ThreadsOK, HandlerKnown, CrashBegin, CrashStep, Goto, write_line, HeaderAfterEvent
    <2>3. FlagsOK'
      BY <1>CrashBegin DEF FlagsOK, CrashBegin, CrashStep, Goto, write_line, HeaderAfterEvent
    <2>4. DataOK'
      BY <1>CrashBegin, <2>1 DEF DataOK, CrashBegin, CrashStep, Goto, write_line, HeaderAfterEvent
    <2>5. QED
      BY <2>2, <2>3, <2>4 DEF TypeInv, TypeOK
  <1>crash_line. ASSUME NEW t \in Threads, crash_line(t) PROVE TypeInv'
    <2>1. report' \in Seq(Lines)
      BY <1>crash_line, EmitType DEF crash_line, write_line, DataOK, EventLevels, CrashLevels
    <2>2. ThreadsOK' /\ HandlerKnown'
      BY <1>crash_line DEF ThreadsOK, HandlerKnown, crash_line, CrashStep
    <2>3. FlagsOK'
      BY <1>crash_line DEF FlagsOK, crash_line, CrashStep
    <2>4. DataOK'
      BY <1>crash_line, <2>1 DEF DataOK, crash_line, CrashStep
    <2>5. QED
      BY <2>2, <2>3, <2>4 DEF TypeInv, TypeOK
  <1>CrashEnd. ASSUME NEW t \in Threads, CrashEnd(t) PROVE TypeInv'
    <2>1. report' \in Seq(Lines)
      BY <1>CrashEnd, EmitType DEF CrashEnd, write_line, DataOK, EventLevels, CrashLevels
    <2>2. ThreadsOK' /\ HandlerKnown'
      BY <1>CrashEnd DEF ThreadsOK, HandlerKnown, CrashEnd, CrashStep, Goto, write_line, HeaderAfterEvent
    <2>3. FlagsOK'
      BY <1>CrashEnd DEF FlagsOK, CrashEnd, CrashStep, Goto, write_line, HeaderAfterEvent
    <2>4. DataOK'
      BY <1>CrashEnd, <2>1 DEF DataOK, CrashEnd, CrashStep, Goto, write_line, HeaderAfterEvent
    <2>5. QED
      BY <2>2, <2>3, <2>4 DEF TypeInv, TypeOK
  <1>CrashUnlock. ASSUME NEW t \in Threads, CrashUnlock(t) PROVE TypeInv'
    <2>2. ThreadsOK' /\ HandlerKnown'
      BY <1>CrashUnlock DEF ThreadsOK, HandlerKnown, CrashUnlock, CrashStep, Goto
    <2>3. FlagsOK'
      BY <1>CrashUnlock DEF FlagsOK, CrashUnlock, CrashStep, Goto
    <2>4. DataOK'
      BY <1>CrashUnlock DEF DataOK, CrashUnlock, CrashStep, Goto
    <2>5. QED
      BY <2>2, <2>3, <2>4 DEF TypeInv, TypeOK
  <1>end_session. ASSUME NEW t \in Threads, end_session(t) PROVE TypeInv'
    <2>2. ThreadsOK' /\ HandlerKnown'
      BY <1>end_session DEF ThreadsOK, HandlerKnown, end_session, EndStep, Goto
    <2>3. FlagsOK'
      BY <1>end_session DEF FlagsOK, end_session, EndStep, Goto
    <2>4. DataOK'
      BY <1>end_session DEF DataOK, end_session, EndStep, Goto
    <2>5. QED
      BY <2>2, <2>3, <2>4 DEF TypeInv, TypeOK
  <1>stop_mirror. ASSUME NEW t \in Threads, stop_mirror(t) PROVE TypeInv'
    <2>2. ThreadsOK' /\ HandlerKnown'
      BY <1>stop_mirror DEF ThreadsOK, HandlerKnown, stop_mirror, EndStep, Goto, JoinsPump
    <2>3. FlagsOK'
      BY <1>stop_mirror DEF FlagsOK, stop_mirror, EndStep, Goto, JoinsPump
    <2>4. DataOK'
      BY <1>stop_mirror DEF DataOK, stop_mirror, EndStep, Goto, JoinsPump
    <2>5. QED
      BY <2>2, <2>3, <2>4 DEF TypeInv, TypeOK
  <1>Joined. ASSUME NEW t \in Threads, Joined(t) PROVE TypeInv'
    <2>2. ThreadsOK' /\ HandlerKnown'
      BY <1>Joined DEF ThreadsOK, HandlerKnown, Joined, EndStep, Goto
    <2>3. FlagsOK'
      BY <1>Joined DEF FlagsOK, Joined, EndStep, Goto
    <2>4. DataOK'
      BY <1>Joined DEF DataOK, Joined, EndStep, Goto
    <2>5. QED
      BY <2>2, <2>3, <2>4 DEF TypeInv, TypeOK
  <1>write_summary. ASSUME NEW t \in Threads, write_summary(t) PROVE TypeInv'
    <2>1. report' \in Seq(Lines)
      BY <1>write_summary, EmitType DEF write_summary, write_line, DataOK, EventLevels, CrashLevels
    <2>2. ThreadsOK' /\ HandlerKnown'
      BY <1>write_summary DEF ThreadsOK, HandlerKnown, write_summary, EndStep, Goto, FileAfterSummary
    <2>3. FlagsOK'
      BY <1>write_summary DEF FlagsOK, write_summary, EndStep, Goto, FileAfterSummary
    <2>4. DataOK'
      BY <1>write_summary, <2>1 DEF DataOK, write_summary, EndStep, Goto, FileAfterSummary
    <2>5. QED
      BY <2>2, <2>3, <2>4 DEF TypeInv, TypeOK
  <1>Leave. ASSUME NEW t \in Threads, Leave(t) PROVE TypeInv'
    <2>2. ThreadsOK' /\ HandlerKnown'
      BY <1>Leave DEF ThreadsOK, HandlerKnown, Leave
    <2>3. FlagsOK'
      BY <1>Leave DEF FlagsOK, Leave
    <2>4. DataOK'
      BY <1>Leave DEF DataOK, Leave
    <2>5. QED
      BY <2>2, <2>3, <2>4 DEF TypeInv, TypeOK
  <1>begin_session. ASSUME NEW opens \in BOOLEAN, NEW mirrors \in BOOLEAN,
                           begin_session(opens, mirrors)
                    PROVE  TypeInv'
    <2>1. ThreadsOK' /\ HandlerKnown'
      BY <1>begin_session DEF ThreadsOK, HandlerKnown, begin_session, start_mirror
    <2>2. FlagsOK'
      BY <1>begin_session DEF FlagsOK, begin_session, start_mirror
    <2>3. DataOK'
      BY <1>begin_session DEF DataOK, begin_session, start_mirror
    <2>4. QED
      BY <2>1, <2>2, <2>3 DEF TypeInv, TypeOK
  <1>Printf. ASSUME NEW t \in Threads, NEW level \in MirrorLevels, Printf(t, level)
             PROVE  TypeInv'
    <2>1. ThreadsOK' /\ HandlerKnown'
      BY <1>Printf DEF ThreadsOK, HandlerKnown, Printf
    <2>2. FlagsOK'
      BY <1>Printf DEF FlagsOK, Printf
    <2>3. DataOK'
      BY <1>Printf DEF DataOK, Printf
    <2>4. QED
      BY <2>1, <2>2, <2>3 DEF TypeInv, TypeOK
  <1>main. ASSUME MainEnds \/ MainReturnsEarly PROVE TypeInv'
    <2>1. ThreadsOK' /\ HandlerKnown'
      BY <1>main DEF ThreadsOK, HandlerKnown, MainEnds, MainReturnsEarly, Goto, Threads
    <2>2. FlagsOK'
      BY <1>main DEF FlagsOK, MainEnds, MainReturnsEarly
    <2>3. DataOK'
      BY <1>main DEF DataOK, MainEnds, MainReturnsEarly
    <2>4. QED
      BY <2>1, <2>2, <2>3 DEF TypeInv, TypeOK
  <1>PumpRead. ASSUME PumpRead PROVE TypeInv'
    <2>1. ThreadsOK' /\ HandlerKnown'
      BY <1>PumpRead DEF ThreadsOK, HandlerKnown, PumpRead, Goto, Threads
    <2>2. FlagsOK'
      BY <1>PumpRead DEF FlagsOK, PumpRead
    <2>3. DataOK'
      BY <1>PumpRead DEF DataOK, PumpRead
    <2>4. QED
      BY <2>1, <2>2, <2>3 DEF TypeInv, TypeOK
  <1>pumpStep. ASSUME PumpEnd \/ await_crash_block PROVE TypeInv'
    <2>1. ThreadsOK' /\ HandlerKnown'
      BY <1>pumpStep DEF ThreadsOK, HandlerKnown, PumpEnd, await_crash_block, Goto, Threads
    <2>2. FlagsOK'
      BY <1>pumpStep DEF FlagsOK, PumpEnd, await_crash_block
    <2>3. DataOK'
      BY <1>pumpStep DEF DataOK, PumpEnd, await_crash_block
    <2>4. QED
      BY <2>1, <2>2, <2>3 DEF TypeInv, TypeOK
  <1>PumpWrite. ASSUME PumpWrite PROVE TypeInv'
    <2>1. report' \in Seq(Lines)
      BY <1>PumpWrite, EmitType
      DEF PumpWrite, write_line, DataOK, EventLevels, CrashLevels, MirrorLevels, Threads
    <2>2. counters' \in Counts
      BY <1>PumpWrite, CountType DEF PumpWrite, classify, DataOK
    <2>3. ThreadsOK' /\ HandlerKnown'
      BY <1>PumpWrite DEF ThreadsOK, HandlerKnown, PumpWrite, Goto, Threads
    <2>4. FlagsOK'
      BY <1>PumpWrite DEF FlagsOK, PumpWrite, write_line, HeaderAfterEvent
    <2>5. DataOK'
      BY <1>PumpWrite, <2>1, <2>2 DEF DataOK, PumpWrite
    <2>6. QED
      BY <2>3, <2>4, <2>5 DEF TypeInv, TypeOK
  <1>stutter. CASE UNCHANGED vars
    BY <1>stutter DEF TypeInv, TypeOK, ThreadsOK, FlagsOK, DataOK, HandlerKnown, vars
  <1>q. QED
    BY <1>add_context, <1>info, <1>warn, <1>error, <1>on_fault, <1>on_nested_fault,
       <1>on_lookup_failure, <1>write_event, <1>CrashCount, <1>CrashLock,
       <1>CrashBegin, <1>crash_line, <1>CrashEnd, <1>CrashUnlock, <1>end_session,
       <1>stop_mirror, <1>Joined, <1>write_summary, <1>Leave, <1>begin_session,
       <1>Printf, <1>main, <1>PumpRead, <1>pumpStep, <1>PumpWrite, <1>stutter
    DEF Next, Environment, Progress, PumpProgress, Gone

\* Every reachable state is well typed, whatever threads there are and
\* however many lines they write.
THEOREM TypeCorrect == Spec => []TypeOK
  <1>1. Spec => []TypeInv
    BY TypeInit, TypeStep, PTL DEF Spec
  <1>2. TypeInv => TypeOK
    BY DEF TypeInv
  <1>3. QED
    BY <1>1, <1>2, PTL

-----------------------------------------------------------------------------
(* The crash mutex, and the state before begin_session                     *)

\* A thread that is writing its block holds g_crash_mutex.
MutexInv ==
  \A t \in Threads : pc[t] \in {"open", "body", "unlock"} => crashMutex = t

\* Nothing is written and no other thread runs before begin_session.
BootInv ==
  pc[Main] = "boot" =>
    /\ crashMutex = None
    /\ report = <<>>
    /\ file = FALSE
    /\ \A t \in Threads \ {Main} : pc[t] \in {"unborn", "off"}

SafeInv == TypeInv /\ MutexInv /\ BootInv

LEMMA SafeInit == Init => SafeInv
  <1> SUFFICES ASSUME Init PROVE SafeInv
    OBVIOUS
  <1>1. TypeInv
    BY TypeInit
  <1>2. MutexInv
    BY DEF Init, MutexInv
  <1>3. BootInv
    BY ThreadsAssumption DEF Init, BootInv, Threads
  <1>4. QED
    BY <1>1, <1>2, <1>3 DEF SafeInv

\* Only CrashLock takes the mutex, when it is free, and only CrashUnlock
\* gives it back; every other step keeps it and enters none of the guarded
\* labels except from another guarded one.
LEMMA MutexStep ==
  ASSUME TypeInv, MutexInv, BootInv, [Next]_vars
  PROVE  MutexInv'
  <1> USE ThreadsAssumption DEF MutexInv, At, Goto, crashVars
  <1>inv. pc \in [Threads -> PCs]
    BY DEF TypeInv, TypeOK, ThreadsOK
  <1> USE <1>inv
  <1>begin. ASSUME NEW opens \in BOOLEAN, NEW mirrors \in BOOLEAN,
                   begin_session(opens, mirrors)
            PROVE  MutexInv'
    BY <1>begin DEF begin_session, start_mirror
  <1>calls. ASSUME NEW t \in Threads,
                   add_context(t) \/ info(t) \/ warn(t) \/ error(t) \/ write_event(t)
            PROVE  MutexInv'
    BY <1>calls DEF add_context, info, warn, error, write_event, Call
  <1>Printf. ASSUME NEW t \in Threads, NEW level \in MirrorLevels, Printf(t, level)
             PROVE  MutexInv'
    BY <1>Printf DEF Printf
  <1>handlers. ASSUME NEW t \in Threads,
                      on_fault(t) \/ on_nested_fault(t) \/ on_lookup_failure(t)
               PROVE  MutexInv'
    BY <1>handlers DEF on_fault, on_nested_fault, on_lookup_failure, Handler
  <1>CrashLock. ASSUME NEW t \in Threads, CrashLock(t) PROVE MutexInv'
    BY <1>CrashLock DEF CrashLock, BlockMayStart
  <1>CrashUnlock. ASSUME NEW t \in Threads, CrashUnlock(t) PROVE MutexInv'
    BY <1>CrashUnlock DEF CrashUnlock
  <1>block. ASSUME NEW t \in Threads,
                   CrashCount(t) \/ CrashBegin(t) \/ crash_line(t) \/ CrashEnd(t)
            PROVE  MutexInv'
    BY <1>block DEF CrashCount, CrashBegin, crash_line, CrashEnd
  <1>end. ASSUME NEW t \in Threads,
                 end_session(t) \/ stop_mirror(t) \/ Joined(t) \/ write_summary(t) \/ Leave(t)
          PROVE  MutexInv'
    BY <1>end DEF end_session, stop_mirror, Joined, write_summary, Leave, EndStep
  <1>main. ASSUME MainEnds \/ MainReturnsEarly PROVE MutexInv'
    BY <1>main DEF MainEnds, MainReturnsEarly, Threads
  <1>pump. ASSUME PumpProgress PROVE MutexInv'
    BY <1>pump DEF PumpProgress, PumpRead, PumpEnd, await_crash_block, PumpWrite, Threads
  <1>stutter. CASE UNCHANGED vars
    BY <1>stutter DEF vars
  <1>q. QED
    BY <1>begin, <1>calls, <1>Printf, <1>handlers, <1>CrashLock, <1>CrashUnlock,
       <1>block, <1>end, <1>main, <1>pump, <1>stutter
    DEF Next, Environment, Progress, Gone

\* No step leads back to "boot", and before it only begin_session runs.
LEMMA BootStep ==
  ASSUME TypeInv, BootInv, [Next]_vars
  PROVE  BootInv'
  <1> SUFFICES ASSUME pc'[Main] = "boot" PROVE BootInv'
    BY DEF BootInv
  <1> USE ThreadsAssumption DEF At, Goto, Threads
  <1>inv. pc \in [Threads -> PCs]
    BY DEF TypeInv, TypeOK, ThreadsOK
  <1> USE <1>inv
  <1>1. CASE UNCHANGED vars
    BY <1>1 DEF vars, BootInv
  <1>2. CASE Environment
    BY <1>2 DEF Environment, begin_session, start_mirror, add_context, info, warn,
                error, Call, Printf, on_fault, on_nested_fault, on_lookup_failure,
                Handler, MainEnds, MainReturnsEarly, BootInv
  <1>3. ASSUME NEW t \in Threads, Progress(t) PROVE BootInv'
    BY <1>3 DEF Progress, write_event, CrashCount, CrashLock, CrashBegin, CrashEnd,
                CrashUnlock, end_session, stop_mirror, Joined, write_summary, Leave,
                crash_line, BootInv
  <1>4. CASE PumpProgress
    BY <1>4 DEF PumpProgress, PumpRead, PumpEnd, await_crash_block, PumpWrite, BootInv
  <1>5. QED
    BY <1>1, <1>2, <1>3, <1>4 DEF Next, Gone

LEMMA SafeStep ==
  ASSUME SafeInv, [Next]_vars
  PROVE  SafeInv'
  BY TypeStep, MutexStep, BootStep DEF SafeInv

-----------------------------------------------------------------------------
(* debug_report.cpp implements ReportLog                                   *)

LP == INSTANCE ReportLogProofs WITH
        Writers <- Threads, NoOwner <- None,
        log <- report, open <- file, owner <- Owner

LEMMA RefInit == Init => LP!LogInit
  BY DEF Init, LP!LogInit, Owner

\* A step of another thread, or between unguarded labels, leaves the owner.
LEMMA OwnerKept ==
  ASSUME SafeInv, NEW t \in Threads, NEW label \in PCs \ {"open", "unlock"},
         Goto(t, label), pc[t] \notin {"open", "unlock"}, crashMutex' = crashMutex
  PROVE  Owner' = Owner
  <1>1. pc \in [Threads -> PCs] /\ crashMutex \in Threads \cup {None}
    BY DEF SafeInv, TypeInv, TypeOK, ThreadsOK
  <1>2. QED
    BY <1>1, GotoType DEF Owner

\* Every step of the port's threads is a step of ReportLog or leaves its log,
\* its owner and its openness alone.
LEMMA RefStep ==
  ASSUME SafeInv, [Next]_vars
  PROVE  [LP!LogNext]_(LP!logVars)
  <1> USE ThreadsAssumption DEF At
  <1>inv. pc \in [Threads -> PCs] /\ crashMutex \in Threads \cup {None}
    BY DEF SafeInv, TypeInv, TypeOK, ThreadsOK
  <1>begin. ASSUME NEW opens \in BOOLEAN, NEW mirrors \in BOOLEAN,
                   begin_session(opens, mirrors)
            PROVE  LP!Open \/ UNCHANGED LP!logVars
    <2>1. crashMutex = None /\ report = <<>> /\ file = FALSE
      BY <1>begin DEF SafeInv, BootInv, begin_session
    <2>2. report' = report /\ crashMutex' = crashMutex /\ file' = opens
      BY <1>begin DEF begin_session, crashVars
    <2>3. Owner = None /\ Owner' = None
      BY <2>1, <2>2 DEF Owner
    <2>4. QED
      BY <2>1, <2>2, <2>3 DEF LP!Open, LP!logVars
  <1>event. ASSUME NEW t \in Threads, NEW level \in EventLevels, Emit(level, t),
                   file' = file, Owner' = Owner
            PROVE  LP!Event(t)
    BY <1>event DEF Emit, LP!Event, LP!Record, LP!Line, EventLevels, LP!EventLevels
  <1>calls. ASSUME NEW t \in Threads, add_context(t) \/ info(t)
            PROVE  LP!Event(t)
    <2>1. Owner' = Owner /\ file' = file
      BY <1>calls DEF add_context, info, Call, crashVars, write_line, Owner
    <2>2. PICK level \in EventLevels : Emit(level, t)
      BY <1>calls DEF add_context, info, write_line, EventLevels
    <2>3. QED
      BY <2>1, <2>2, <1>event
  <1>counted. ASSUME NEW t \in Threads, warn(t) \/ error(t)
              PROVE  UNCHANGED LP!logVars
    <2>1. Owner' = Owner
      <3>1. crashMutex' = crashMutex /\ pc[t] = "run"
        BY <1>counted DEF warn, error, Call, crashVars
      <3>2. Goto(t, "warn") \/ Goto(t, "error")
        BY <1>counted DEF warn, error
      <3>3. QED
        BY <3>1, <3>2, OwnerKept DEF PCs
    <2>2. QED
      BY <1>counted, <2>1 DEF warn, error, fileVars, LP!logVars
  <1>write. ASSUME NEW t \in Threads, write_event(t)
            PROVE  LP!Event(t)
    <2>1. Owner' = Owner
      <3>1. crashMutex' = crashMutex /\ pc[t] \in {"warn", "error"} /\ Goto(t, "run")
        BY <1>write DEF write_event, crashVars
      <3>2. QED
        BY <3>1, OwnerKept DEF PCs
    <2>2. PICK level \in EventLevels : Emit(level, t)
      BY <1>write DEF write_event, write_line, EventLevels
    <2>3. QED
      BY <1>write, <2>1, <2>2, <1>event DEF write_event, write_line
  <1>Printf. ASSUME NEW t \in Threads, NEW level \in MirrorLevels, Printf(t, level)
             PROVE  UNCHANGED LP!logVars
    BY <1>Printf DEF Printf, fileVars, crashVars, LP!logVars, Owner
  <1>handlers. ASSUME NEW t \in Threads,
                      on_fault(t) \/ on_nested_fault(t) \/ on_lookup_failure(t)
               PROVE  UNCHANGED LP!logVars
    <2>1. Owner' = Owner
      <3>1. crashMutex' = crashMutex /\ pc[t] \in {"run", "read", "await", "body"}
        BY <1>handlers DEF on_fault, on_nested_fault, on_lookup_failure, Handler
      <3>2. Goto(t, "begin") \/ Goto(t, "asleep")
        BY <1>handlers DEF on_fault, on_nested_fault, on_lookup_failure, Handler
      <3>3. QED
        BY <3>1, <3>2, OwnerKept DEF PCs, CrashPCs
    <2>2. QED
      BY <1>handlers, <2>1
      DEF on_fault, on_nested_fault, on_lookup_failure, Handler, fileVars, LP!logVars
  <1>CrashCount. ASSUME NEW t \in Threads, CrashCount(t)
                 PROVE  UNCHANGED LP!logVars
    <2>1. Owner' = Owner
      BY <1>CrashCount, OwnerKept DEF CrashCount, PCs, CrashPCs
    <2>2. QED
      BY <1>CrashCount, <2>1 DEF CrashCount, fileVars, LP!logVars
  <1>CrashLock. ASSUME NEW t \in Threads, CrashLock(t)
                PROVE  UNCHANGED LP!logVars
    <2>1. Owner = None /\ Owner' = None
      BY <1>CrashLock, <1>inv DEF CrashLock, BlockMayStart, Goto, Owner
    <2>2. QED
      BY <1>CrashLock, <2>1 DEF CrashLock, fileVars, LP!logVars
  <1>CrashBegin. ASSUME NEW t \in Threads, CrashBegin(t)
                 PROVE  LP!BeginBlock(t)
    <2>1. crashMutex = t /\ crashMutex' = t
      BY <1>CrashBegin DEF CrashBegin, SafeInv, MutexInv
    <2>2. Owner = None /\ Owner' = t
      BY <1>CrashBegin, <1>inv, <2>1 DEF CrashBegin, Goto, Owner
    <2>3. QED
      BY <1>CrashBegin, <2>2
      DEF CrashBegin, write_line, Emit, LP!BeginBlock, LP!Record, LP!Line
  <1>crash_line. ASSUME NEW t \in Threads, crash_line(t)
                 PROVE  LP!ExtendBlock(t)
    <2>1. crashMutex = t /\ Owner = t /\ Owner' = t
      BY <1>crash_line DEF crash_line, SafeInv, MutexInv, Owner
    <2>2. QED
      BY <1>crash_line, <2>1 DEF crash_line, Emit, LP!ExtendBlock, LP!Record, LP!Line
  <1>CrashEnd. ASSUME NEW t \in Threads, CrashEnd(t)
               PROVE  LP!EndBlock(t)
    <2>1. crashMutex = t /\ crashMutex' = t
      BY <1>CrashEnd DEF CrashEnd, SafeInv, MutexInv
    <2>2. Owner = t /\ Owner' = None
      BY <1>CrashEnd, <1>inv, <2>1 DEF CrashEnd, Goto, Owner
    <2>3. QED
      BY <1>CrashEnd, <2>2
      DEF CrashEnd, write_line, Emit, LP!EndBlock, LP!Record, LP!Line
  <1>CrashUnlock. ASSUME NEW t \in Threads, CrashUnlock(t)
                  PROVE  UNCHANGED LP!logVars
    <2>1. crashMutex = t
      BY <1>CrashUnlock DEF CrashUnlock, SafeInv, MutexInv
    <2>2. Owner = None /\ Owner' = None
      BY <1>CrashUnlock, <2>1 DEF CrashUnlock, Owner
    <2>3. QED
      BY <1>CrashUnlock, <2>2 DEF CrashUnlock, fileVars, LP!logVars
  <1>end. ASSUME NEW t \in Threads, end_session(t) \/ stop_mirror(t) \/ Joined(t)
          PROVE  UNCHANGED LP!logVars
    <2>1. crashMutex' = crashMutex /\ pc[t] \in {"end", "stop", "join"}
      BY <1>end DEF end_session, stop_mirror, Joined, EndStep
    <2>2. PICK label \in {"leave", "stop", "join", "sum"} : Goto(t, label)
      BY <1>end DEF end_session, stop_mirror, Joined
    <2>3. Owner' = Owner
      BY <2>1, <2>2, OwnerKept DEF PCs, EndPCs
    <2>4. QED
      BY <1>end, <2>3 DEF end_session, stop_mirror, Joined, fileVars, LP!logVars
  <1>summary. ASSUME NEW t \in Threads, write_summary(t)
              PROVE  LP!Close(t) \/ UNCHANGED LP!logVars
    <2>1. Owner' = Owner
      BY <1>summary, OwnerKept DEF write_summary, EndStep, PCs, EndPCs
    <2>2. CASE file
      BY <1>summary, <2>1, <2>2
      DEF write_summary, Emit, FileAfterSummary, LP!Close, LP!Record, LP!Line
    <2>3. CASE ~file
      <3>1. file = FALSE
        BY <2>3 DEF SafeInv, TypeInv, TypeOK, FlagsOK
      <3>2. QED
        BY <1>summary, <2>1, <3>1
        DEF write_summary, Emit, FileAfterSummary, LP!logVars
    <2>4. QED
      BY <2>2, <2>3
  <1>exit. ASSUME MainReturnsEarly \/ (\E t \in Threads : Leave(t))
           PROVE  UNCHANGED LP!logVars
    BY <1>exit DEF MainReturnsEarly, Leave, fileVars, crashVars, LP!logVars, Owner
  <1>MainEnds. ASSUME MainEnds PROVE UNCHANGED LP!logVars
    <2>1. Owner' = Owner
      BY <1>MainEnds, OwnerKept DEF MainEnds, PCs, EndPCs, Threads
    <2>2. QED
      BY <1>MainEnds, <2>1 DEF MainEnds, fileVars, LP!logVars
  <1>pump. ASSUME PumpRead \/ PumpEnd \/ await_crash_block
           PROVE  UNCHANGED LP!logVars
    <2>1. crashMutex' = crashMutex /\ pc[Pump] \in {"read", "await"}
      BY <1>pump DEF PumpRead, PumpEnd, await_crash_block, crashVars
    <2>2. PICK label \in {"await", "done", "write"} : Goto(Pump, label)
      BY <1>pump DEF PumpRead, PumpEnd, await_crash_block
    <2>3. Owner' = Owner
      BY <2>1, <2>2, OwnerKept DEF PCs, PumpPCs, Threads
    <2>4. QED
      BY <1>pump, <2>3 DEF PumpRead, PumpEnd, await_crash_block, fileVars, LP!logVars
  <1>PumpWrite. ASSUME PumpWrite PROVE LP!Event(Pump)
    <2>1. Owner' = Owner
      BY <1>PumpWrite, OwnerKept DEF PumpWrite, crashVars, PCs, PumpPCs, Threads
    <2>2. pumpLine \in EventLevels
      BY DEF SafeInv, TypeInv, TypeOK, DataOK, MirrorLevels, EventLevels
    <2>3. QED
      BY <1>PumpWrite, <2>1, <2>2, <1>event DEF PumpWrite, write_line, Threads
  <1>stutter. CASE UNCHANGED vars
    BY <1>stutter DEF vars, LP!logVars, Owner
  <1>q. QED
    BY <1>begin, <1>calls, <1>counted, <1>write, <1>Printf, <1>handlers,
       <1>CrashCount, <1>CrashLock, <1>CrashBegin, <1>crash_line, <1>CrashEnd,
       <1>CrashUnlock, <1>end, <1>summary, <1>exit, <1>MainEnds, <1>pump,
       <1>PumpWrite, <1>stutter
    DEF Next, Environment, Progress, PumpProgress, Gone, LP!LogNext, Threads

\* The report follows ReportLog, whatever the threads do.
THEOREM Implements == Spec => ImplementsLog
  <1>1. Spec => []SafeInv
    BY SafeInit, SafeStep, PTL DEF Spec
  <1>2. Log!LogInit <=> LP!LogInit
    BY DEF Log!LogInit, LP!LogInit
  <1>3. [Log!LogNext]_(Log!logVars) <=> [LP!LogNext]_(LP!logVars)
    BY DEF Log!LogNext, LP!LogNext, Log!logVars, LP!logVars,
           Log!Open, LP!Open, Log!Event, LP!Event, Log!BeginBlock, LP!BeginBlock,
           Log!ExtendBlock, LP!ExtendBlock, Log!EndBlock, LP!EndBlock,
           Log!Close, LP!Close, Log!Record, LP!Record, Log!Line, LP!Line,
           Log!EventLevels, LP!EventLevels
  <1>4. QED
    BY <1>1, <1>2, <1>3, RefInit, RefStep, PTL DEF Spec, ImplementsLog, Log!LogSpec

LEMMA LogSafe == Spec => [](LP!BlocksDisjoint /\ LP!SummaryIsLast)
  <1>1. Spec => []SafeInv
    BY SafeInit, SafeStep, PTL DEF Spec
  <1>2. None \notin Threads
    BY ThreadsAssumption
  <1>3. LP!LogInit => LP!LogInv
    BY <1>2, LP!LogInitInv
  <1>4. LP!LogInv /\ [LP!LogNext]_(LP!logVars) => LP!LogInv'
    BY <1>2, LP!LogStep
  <1>5. LP!LogInv => LP!BlocksDisjoint /\ LP!SummaryIsLast
    BY DEF LP!LogInv
  <1>6. QED
    BY <1>1, <1>3, <1>4, <1>5, RefInit, RefStep, PTL DEF Spec

\* Two threads that fault at once never shuffle their crash blocks.
THEOREM CrashBlocksDisjoint == Spec => []BlocksDisjoint
  <1>1. LP!BlocksDisjoint => BlocksDisjoint
    BY DEF BlocksDisjoint, LP!BlocksDisjoint, Log!BlocksDisjoint, LP!OpenIn,
           Log!OpenIn, LP!CrashLevels, Log!CrashLevels, LP!Line, Log!Line
  <1>2. QED
    BY LogSafe, <1>1, PTL

\* Whoever ends the session and however many try, the report holds at most
\* one SUMMARY and nothing after it.
THEOREM OneSummaryAtTheEnd == Spec => []SummaryIsLast
  <1>1. LP!SummaryIsLast => SummaryIsLast
    BY DEF SummaryIsLast, LP!SummaryIsLast, Log!SummaryIsLast
  <1>2. QED
    BY LogSafe, <1>1, PTL

-----------------------------------------------------------------------------
(* Counting lines                                                          *)

\* Which lines of the report have one of these levels.
Places(levels) == {i \in DOMAIN report : report[i].level \in levels}

LEMMA PlacesFinite ==
  ASSUME report \in Seq(Lines), NEW levels
  PROVE  IsFiniteSet(Places(levels)) /\ HowMany(levels) = Cardinality(Places(levels))
         /\ HowMany(levels) \in Nat
  <1>1. DOMAIN report = 1 .. Len(report) /\ Len(report) \in Nat
    BY LenProperties
  <1>2. IsFiniteSet(DOMAIN report)
    BY <1>1, FS_Interval
  <1>3. IsFiniteSet(Places(levels))
    BY <1>2, FS_Subset DEF Places
  <1>4. QED
    BY <1>3, FS_CardinalityType DEF HowMany, Places

\* A line more is counted where its level is asked for, and nowhere else.
LEMMA HowManyAppend ==
  ASSUME report \in Seq(Lines), NEW levels, NEW line \in Lines,
         report' = Append(report, line)
  PROVE  HowMany(levels)' = HowMany(levels) + IF line.level \in levels THEN 1 ELSE 0
  <1> DEFINE n == Len(report) + 1
  <1>1. /\ DOMAIN report = 1 .. Len(report) /\ Len(report) \in Nat
        /\ DOMAIN report' = 1 .. n
        /\ report'[n] = line
        /\ \A i \in 1 .. Len(report) : report'[i] = report[i]
    BY AppendProperties, LenProperties
  <1>2. n \notin Places(levels)
    BY <1>1 DEF Places
  <1>3. Places(levels)' = IF line.level \in levels THEN Places(levels) \cup {n}
                                                   ELSE Places(levels)
    BY <1>1 DEF Places
  <1>4. HowMany(levels) = Cardinality(Places(levels)) /\ IsFiniteSet(Places(levels))
    BY PlacesFinite
  <1>5. HowMany(levels)' = Cardinality(Places(levels)')
    BY DEF HowMany, Places
  <1>6. Cardinality(Places(levels) \cup {n}) = Cardinality(Places(levels)) + 1
    BY <1>2, <1>4, FS_AddElement
  <1>7. Cardinality(Places(levels)) \in Nat
    BY <1>4, FS_CardinalityType
  <1>8. CASE line.level \in levels
    BY <1>3, <1>4, <1>5, <1>6, <1>8
  <1>9. CASE line.level \notin levels
    BY <1>3, <1>4, <1>5, <1>7, <1>9
  <1>10. QED
    BY <1>8, <1>9

-----------------------------------------------------------------------------
(* The header                                                              *)

\* While the header is open nothing but context is in the file, and nobody has
\* begun a crash block in it.
HeaderInv ==
  /\ file /\ headerOpen => /\ \A i \in DOMAIN report : report[i].level = "CONTEXT"
                           /\ \A t \in Threads : pc[t] # "body"
  /\ HeaderFirst

\* A line that is no context may follow anything.
LEMMA HeaderAppend ==
  ASSUME report \in Seq(Lines), HeaderFirst, NEW line \in Lines,
         report' = Append(report, line),
         line.level = "CONTEXT" => \A i \in DOMAIN report : report[i].level = "CONTEXT"
  PROVE  HeaderFirst'
  <1>1. /\ DOMAIN report = 1 .. Len(report) /\ Len(report) \in Nat
        /\ DOMAIN report' = 1 .. Len(report) + 1
        /\ report'[Len(report) + 1] = line
        /\ \A i \in 1 .. Len(report) : report'[i] = report[i]
    BY AppendProperties, LenProperties
  <1>2. SUFFICES ASSUME NEW i \in DOMAIN report', NEW j \in DOMAIN report',
                        i < j, report'[j].level = "CONTEXT"
                 PROVE  report'[i].level = "CONTEXT"
    BY DEF HeaderFirst
  <1>3. i \in DOMAIN report
    BY <1>1, <1>2
  <1>4. CASE j \in DOMAIN report
    BY <1>1, <1>2, <1>3, <1>4 DEF HeaderFirst
  <1>5. CASE j = Len(report) + 1
    BY <1>1, <1>2, <1>3, <1>5
  <1>6. QED
    BY <1>1, <1>4, <1>5

\* Writing an event, or a line of a block whose BEGIN closed the header.
LEMMA HeaderEmit ==
  ASSUME TypeInv, HeaderInv, NEW t \in Threads,
         NEW level \in (EventLevels \cup CrashLevels \cup {"SUMMARY"}) \ {"CONTEXT"},
         Emit(level, t), ~(file' /\ headerOpen')
  PROVE  HeaderInv'
  <1>1. report \in Seq(Lines)
    BY DEF TypeInv, TypeOK, DataOK
  <1>2. [level |-> level, by |-> t] \in Lines
    BY DEF Lines
  <1>3. HeaderFirst'
    BY <1>1, <1>2, HeaderAppend DEF Emit, HeaderInv, HeaderFirst
  <1>4. QED
    BY <1>3 DEF HeaderInv

LEMMA HeaderStep ==
  ASSUME SafeInv, HeaderInv, [Next]_vars
  PROVE  HeaderInv'
  <1> USE ThreadsAssumption DEF At, fileVars
  <1>inv. TypeInv /\ pc \in [Threads -> PCs] /\ report \in Seq(Lines)
          /\ file \in BOOLEAN /\ headerOpen \in BOOLEAN
    BY DEF SafeInv, TypeInv, TypeOK, ThreadsOK, DataOK, FlagsOK
  <1> USE <1>inv
  <1>quiet. ASSUME UNCHANGED fileVars,
                   \A t \in Threads : pc'[t] = "body" => pc[t] = "body"
            PROVE  HeaderInv'
    BY <1>quiet DEF HeaderInv, HeaderFirst
  <1>event. ASSUME NEW t \in Threads,
                   NEW level \in (EventLevels \cup CrashLevels) \ {"CONTEXT"},
                   write_line(level, t)
            PROVE  HeaderInv'
    BY <1>event, HeaderEmit DEF write_line, HeaderAfterEvent
  <1>begin. ASSUME NEW opens \in BOOLEAN, NEW mirrors \in BOOLEAN,
                   begin_session(opens, mirrors)
            PROVE  HeaderInv'
    <2>1. report = <<>> /\ report' = <<>>
      BY <1>begin DEF SafeInv, BootInv, begin_session
    <2>2. \A t \in Threads : pc'[t] # "body"
      BY <1>begin DEF begin_session, start_mirror
    <2>3. QED
      BY <2>1, <2>2 DEF HeaderInv, HeaderFirst
  <1>add_context. ASSUME NEW t \in Threads, add_context(t) PROVE HeaderInv'
    <2>1. CASE headerOpen
      <3>1. Emit("CONTEXT", t) /\ UNCHANGED <<file, headerOpen, pc>>
        BY <1>add_context, <2>1 DEF add_context
      <3>2. CASE file
        <4>1. \A i \in DOMAIN report : report[i].level = "CONTEXT"
          BY <2>1, <3>2 DEF HeaderInv
        <4>2. [level |-> "CONTEXT", by |-> t] \in Lines
          BY DEF Lines, EventLevels
        <4>3. report' = Append(report, [level |-> "CONTEXT", by |-> t])
          BY <3>1, <3>2 DEF Emit
        <4>4. HeaderFirst'
          BY <4>1, <4>2, <4>3, HeaderAppend DEF HeaderInv
        <4>5. \A i \in DOMAIN report' : report'[i].level = "CONTEXT"
          BY <4>1, <4>2, <4>3, AppendProperties, LenProperties
        <4>6. QED
          BY <3>1, <4>4, <4>5 DEF HeaderInv
      <3>3. CASE ~file
        BY <3>1, <3>3, <1>quiet DEF Emit
      <3>4. QED
        BY <3>2, <3>3
    <2>2. CASE ~headerOpen
      BY <1>add_context, <2>2, <1>event DEF add_context, EventLevels
    <2>3. QED
      BY <2>1, <2>2
  <1>info. ASSUME NEW t \in Threads, info(t) PROVE HeaderInv'
    BY <1>info, <1>event DEF info, EventLevels
  <1>counted. ASSUME NEW t \in Threads, warn(t) \/ error(t) PROVE HeaderInv'
    BY <1>counted, <1>quiet DEF warn, error, Goto
  <1>write. ASSUME NEW t \in Threads, write_event(t) PROVE HeaderInv'
    BY <1>write, <1>event DEF write_event, EventLevels
  <1>Printf. ASSUME NEW t \in Threads, NEW level \in MirrorLevels, Printf(t, level)
             PROVE  HeaderInv'
    BY <1>Printf, <1>quiet DEF Printf
  <1>handlers. ASSUME NEW t \in Threads,
                      on_fault(t) \/ on_nested_fault(t) \/ on_lookup_failure(t)
               PROVE  HeaderInv'
    BY <1>handlers, <1>quiet
    DEF on_fault, on_nested_fault, on_lookup_failure, Handler, Goto
  <1>locks. ASSUME NEW t \in Threads, CrashCount(t) \/ CrashLock(t) \/ CrashUnlock(t)
            PROVE  HeaderInv'
    BY <1>locks, <1>quiet DEF CrashCount, CrashLock, CrashUnlock, Goto
  <1>CrashBegin. ASSUME NEW t \in Threads, CrashBegin(t) PROVE HeaderInv'
    BY <1>CrashBegin, <1>event DEF CrashBegin, CrashLevels
  <1>crash_line. ASSUME NEW t \in Threads, crash_line(t) PROVE HeaderInv'
    <2>1. ~(file' /\ headerOpen')
      BY <1>crash_line DEF crash_line, HeaderInv
    <2>2. QED
      BY <1>crash_line, <2>1, HeaderEmit DEF crash_line, CrashLevels
  <1>CrashEnd. ASSUME NEW t \in Threads, CrashEnd(t) PROVE HeaderInv'
    BY <1>CrashEnd, <1>event DEF CrashEnd, CrashLevels
  <1>end. ASSUME NEW t \in Threads, end_session(t) \/ stop_mirror(t) \/ Joined(t) \/ Leave(t)
          PROVE  HeaderInv'
    BY <1>end, <1>quiet DEF end_session, stop_mirror, Joined, Leave, Goto
  <1>summary. ASSUME NEW t \in Threads, write_summary(t) PROVE HeaderInv'
    BY <1>summary, HeaderEmit DEF write_summary, FileAfterSummary, EventLevels
  <1>main. ASSUME MainEnds \/ MainReturnsEarly PROVE HeaderInv'
    BY <1>main, <1>quiet DEF MainEnds, MainReturnsEarly, Goto
  <1>pump. ASSUME PumpRead \/ PumpEnd \/ await_crash_block PROVE HeaderInv'
    BY <1>pump, <1>quiet DEF PumpRead, PumpEnd, await_crash_block, Goto
  <1>PumpWrite. ASSUME PumpWrite PROVE HeaderInv'
    <2>1. pumpLine \in MirrorLevels
      BY DEF TypeInv, TypeOK, DataOK
    <2>2. QED
      BY <1>PumpWrite, <2>1, <1>event DEF PumpWrite, Threads, MirrorLevels, EventLevels
  <1>stutter. CASE UNCHANGED vars
    BY <1>stutter, <1>quiet DEF vars
  <1>q. QED
    BY <1>begin, <1>add_context, <1>info, <1>counted, <1>write, <1>Printf, <1>handlers,
       <1>locks, <1>CrashBegin, <1>crash_line, <1>CrashEnd, <1>end, <1>summary,
       <1>main, <1>pump, <1>PumpWrite, <1>stutter
    DEF Next, Environment, Progress, PumpProgress, Gone

\* The header stays in front of the events, whoever closes it and whenever.
THEOREM HeaderStaysFirst == Spec => []HeaderFirst
  <1>1. Spec => []SafeInv
    BY SafeInit, SafeStep, PTL DEF Spec
  <1>2. Init => HeaderInv
    BY DEF Init, HeaderInv, HeaderFirst
  <1>3. SafeInv /\ HeaderInv /\ [Next]_vars => HeaderInv'
    BY HeaderStep
  <1>4. HeaderInv => HeaderFirst
    BY DEF HeaderInv
  <1>5. QED
    BY <1>1, <1>2, <1>3, <1>4, PTL DEF Spec

-----------------------------------------------------------------------------
(* The counters                                                            *)

\* The threads between a count and the line it announces.
Pending(labels) == {t \in Threads : pc[t] \in labels}

\* A counter is ahead of the file by at least the threads that have counted
\* and not written yet.
Counted(which, level, labels) ==
  /\ IsFiniteSet(Pending(labels))
  /\ counters[which] >= HowMany({level}) + Cardinality(Pending(labels))

CountInv ==
  /\ Counted("errors", "ERROR", {"error"})
  /\ Counted("warnings", "WARN", {"warn"})
  /\ Counted("crashes", "BEGIN", {"lock", "open"})
  /\ summary.written => ~file /\ pc[Main] # "boot"
  /\ SummaryNeverUndercounts

Counters == {"errors", "warnings", "crashes"}

\* The file has gained a line that the counter which does not count, or none.
NoLineOf(level) ==
  \/ UNCHANGED report
  \/ \E line \in Lines : line.level # level /\ report' = Append(report, line)

LEMMA NoLineKeepsCount ==
  ASSUME report \in Seq(Lines), NEW level, NoLineOf(level)
  PROVE  HowMany({level})' = HowMany({level})
  <1>1. CASE UNCHANGED report
    BY <1>1 DEF HowMany
  <1>2. ASSUME NEW line \in Lines, line.level # level, report' = Append(report, line)
        PROVE  HowMany({level})' = HowMany({level})
    BY <1>2, HowManyAppend, PlacesFinite
  <1>3. QED
    BY <1>1, <1>2 DEF NoLineOf

\* Nothing of this counter's concern has happened, or it was only counted up.
LEMMA CountedKept ==
  ASSUME TypeInv, TypeInv', NEW which \in Counters, NEW level, NEW labels,
         Counted(which, level, labels), NoLineOf(level),
         Pending(labels)' = Pending(labels), counters'[which] >= counters[which]
  PROVE  Counted(which, level, labels)'
  <1>1. report \in Seq(Lines) /\ counters[which] \in Nat /\ counters'[which] \in Nat
    BY DEF TypeInv, TypeOK, DataOK, Counts, Counters
  <1>2. HowMany({level})' = HowMany({level}) /\ HowMany({level}) \in Nat
    BY <1>1, NoLineKeepsCount, PlacesFinite
  <1>3. Cardinality(Pending(labels)) \in Nat
    BY FS_CardinalityType DEF Counted
  <1>4. QED
    BY <1>1, <1>2, <1>3 DEF Counted

\* Counted first: a thread more may be pending.
LEMMA CountedFirst ==
  ASSUME TypeInv, TypeInv', NEW which \in Counters, NEW level, NEW labels,
         Counted(which, level, labels), UNCHANGED report, NEW t,
         Pending(labels)' = Pending(labels) \cup {t},
         counters'[which] = counters[which] + 1
  PROVE  Counted(which, level, labels)'
  <1>1. report \in Seq(Lines) /\ counters[which] \in Nat
    BY DEF TypeInv, TypeOK, DataOK, Counts, Counters
  <1>2. HowMany({level})' = HowMany({level}) /\ HowMany({level}) \in Nat
    BY <1>1, PlacesFinite DEF HowMany
  <1>3. Cardinality(Pending(labels)) \in Nat
    BY FS_CardinalityType DEF Counted
  <1>4. /\ IsFiniteSet(Pending(labels)')
        /\ Cardinality(Pending(labels)') <= Cardinality(Pending(labels)) + 1
    <2> DEFINE S == Pending(labels)
    <2>1. IsFiniteSet(S)
      BY DEF Counted
    <2>2. /\ IsFiniteSet(S \cup {t})
          /\ Cardinality(S \cup {t}) = IF t \in S THEN Cardinality(S) ELSE Cardinality(S) + 1
      BY <2>1, FS_AddElement
    <2>3. Cardinality(S \cup {t}) <= Cardinality(S) + 1
      BY <1>3, <2>2
    <2>4. QED
      BY <2>2, <2>3
  <1>5. Cardinality(Pending(labels)') \in Nat
    BY <1>4, FS_CardinalityType
  <1>6. QED
    BY <1>1, <1>2, <1>3, <1>4, <1>5 DEF Counted

\* Then the line: its thread is pending no longer, whether or not there is a
\* file to write to.
LEMMA CountedThen ==
  ASSUME TypeInv, TypeInv', NEW which \in Counters, NEW level, NEW labels,
         Counted(which, level, labels), NEW t \in Pending(labels),
         NEW line \in Lines, UNCHANGED report \/ report' = Append(report, line),
         Pending(labels)' = Pending(labels) \ {t}, UNCHANGED counters
  PROVE  Counted(which, level, labels)'
  <1>1. report \in Seq(Lines) /\ counters[which] \in Nat
    BY DEF TypeInv, TypeOK, DataOK, Counts, Counters
  <1>2. HowMany({level}) \in Nat
    BY <1>1, PlacesFinite
  <1>3. HowMany({level})' \in Nat /\ HowMany({level})' <= HowMany({level}) + 1
    <2>1. CASE UNCHANGED report
      BY <1>2, <2>1 DEF HowMany
    <2>2. CASE report' = Append(report, line)
      BY <1>1, <1>2, <2>2, HowManyAppend
    <2>3. QED
      BY <2>1, <2>2
  <1>4. /\ IsFiniteSet(Pending(labels)')
        /\ Cardinality(Pending(labels)') = Cardinality(Pending(labels)) - 1
    BY FS_RemoveElement DEF Counted
  <1>5. Cardinality(Pending(labels)) \in Nat
    BY FS_CardinalityType DEF Counted
  <1>6. QED
    BY <1>1, <1>2, <1>3, <1>4, <1>5 DEF Counted

\* The pump counts and writes under one lock.
LEMMA CountedAtOnce ==
  ASSUME TypeInv, TypeInv', NEW which \in Counters, NEW level, NEW labels,
         Counted(which, level, labels),
         NEW line \in Lines, UNCHANGED report \/ report' = Append(report, line),
         Pending(labels)' = Pending(labels), counters'[which] = counters[which] + 1
  PROVE  Counted(which, level, labels)'
  <1>1. report \in Seq(Lines) /\ counters[which] \in Nat
    BY DEF TypeInv, TypeOK, DataOK, Counts, Counters
  <1>2. HowMany({level}) \in Nat
    BY <1>1, PlacesFinite
  <1>3. HowMany({level})' \in Nat /\ HowMany({level})' <= HowMany({level}) + 1
    <2>1. CASE UNCHANGED report
      BY <1>2, <2>1 DEF HowMany
    <2>2. CASE report' = Append(report, line)
      BY <1>1, <1>2, <2>2, HowManyAppend
    <2>3. QED
      BY <2>1, <2>2
  <1>4. Cardinality(Pending(labels)) \in Nat
    BY FS_CardinalityType DEF Counted
  <1>5. QED
    BY <1>1, <1>2, <1>3, <1>4 DEF Counted

\* The labels between a count and its line.
Waiting == {"error", "warn", "lock", "open"}

Counters3 ==
  /\ Counted("errors", "ERROR", {"error"})
  /\ Counted("warnings", "WARN", {"warn"})
  /\ Counted("crashes", "BEGIN", {"lock", "open"})

\* Every counter keeps ahead of its lines: whoever counts does so before, or
\* under the same lock as, the line goes into the file.
LEMMA CountedStep ==
  ASSUME SafeInv, CountInv, [Next]_vars
  PROVE  Counters3'
  <1> USE ThreadsAssumption DEF At, fileVars, mirrorVars, crashVars
  <1>inv. TypeInv /\ TypeInv' /\ pc \in [Threads -> PCs] /\ report \in Seq(Lines)
          /\ counters \in Counts /\ Counters3
    BY SafeStep DEF SafeInv, TypeInv, TypeOK, ThreadsOK, DataOK, CountInv, Counters3
  <1> USE <1>inv
  <1>quiet. ASSUME NoLineOf("ERROR"), NoLineOf("WARN"), NoLineOf("BEGIN"),
                   UNCHANGED counters,
                   \A t \in Threads : \/ pc'[t] = pc[t]
                                      \/ pc[t] \notin Waiting /\ pc'[t] \notin Waiting
            PROVE  Counters3'
    <2>1. \A labels \in SUBSET Waiting : Pending(labels)' = Pending(labels)
      BY <1>quiet DEF Pending
    <2>2. /\ Pending({"error"})' = Pending({"error"})
          /\ Pending({"warn"})' = Pending({"warn"})
          /\ Pending({"lock", "open"})' = Pending({"lock", "open"})
      BY <2>1 DEF Waiting
    <2>3. counters.errors \in Nat /\ counters.warnings \in Nat /\ counters.crashes \in Nat
      BY DEF Counts
    <2>4. QED
      BY <1>quiet, <2>2, <2>3, CountedKept DEF Counters3, Counters
  <1>line. ASSUME NEW t \in Threads,
                  NEW level \in {"CONTEXT", "INFO", "LOG", "BODY", "END", "SUMMARY"},
                  Emit(level, t)
           PROVE  NoLineOf("ERROR") /\ NoLineOf("WARN") /\ NoLineOf("BEGIN")
    <2>1. [level |-> level, by |-> t] \in Lines
      BY DEF Lines, EventLevels, CrashLevels
    <2>2. QED
      BY <1>line, <2>1 DEF Emit, NoLineOf
  <1>noline. UNCHANGED report => NoLineOf("ERROR") /\ NoLineOf("WARN") /\ NoLineOf("BEGIN")
    BY DEF NoLineOf
  <1>begin. ASSUME NEW opens \in BOOLEAN, NEW mirrors \in BOOLEAN,
                   begin_session(opens, mirrors)
            PROVE  Counters3'
    <2>1. \A t \in Threads : pc[t] \in {"boot", "unborn", "off"}
      BY <1>begin DEF begin_session, SafeInv, BootInv
    <2>2. \A t \in Threads : pc'[t] \in {"run", "read", "off"}
      BY <1>begin DEF begin_session, start_mirror
    <2>3. UNCHANGED <<report, counters>>
      BY <1>begin DEF begin_session
    <2>4. QED
      BY <2>1, <2>2, <2>3, <1>quiet, <1>noline DEF Waiting
  <1>calls. ASSUME NEW t \in Threads, add_context(t) \/ info(t) PROVE Counters3'
    <2>1. UNCHANGED <<pc, counters>>
      BY <1>calls DEF add_context, info
    <2>2. Emit("CONTEXT", t) \/ Emit("INFO", t)
      BY <1>calls DEF add_context, info, write_line
    <2>3. QED
      BY <2>1, <2>2, <1>line, <1>quiet
  <1>warn. ASSUME NEW t \in Threads, warn(t) PROVE Counters3'
    <2>1. UNCHANGED report /\ counters' = [counters EXCEPT !.warnings = @ + 1]
      BY <1>warn DEF warn, Count
    <2>2. /\ Pending({"error"})' = Pending({"error"})
          /\ Pending({"warn"})' = Pending({"warn"}) \cup {t}
          /\ Pending({"lock", "open"})' = Pending({"lock", "open"})
      BY <1>warn DEF warn, Call, Pending, Goto
    <2>3. /\ counters'.errors >= counters.errors
          /\ counters'.warnings = counters.warnings + 1
          /\ counters'.crashes >= counters.crashes
      BY <2>1 DEF Counts
    <2>4. QED
      BY <2>1, <2>2, <2>3, <1>noline, CountedKept, CountedFirst DEF Counters3, Counters
  <1>error. ASSUME NEW t \in Threads, error(t) PROVE Counters3'
    <2>1. UNCHANGED report /\ counters' = [counters EXCEPT !.errors = @ + 1]
      BY <1>error DEF error, Count
    <2>2. /\ Pending({"error"})' = Pending({"error"}) \cup {t}
          /\ Pending({"warn"})' = Pending({"warn"})
          /\ Pending({"lock", "open"})' = Pending({"lock", "open"})
      BY <1>error DEF error, Call, Pending, Goto
    <2>3. /\ counters'.errors = counters.errors + 1
          /\ counters'.warnings >= counters.warnings
          /\ counters'.crashes >= counters.crashes
      BY <2>1 DEF Counts
    <2>4. QED
      BY <2>1, <2>2, <2>3, <1>noline, CountedKept, CountedFirst DEF Counters3, Counters
  <1>write. ASSUME NEW t \in Threads, write_event(t) PROVE Counters3'
    <2> DEFINE line(level) == [level |-> level, by |-> t]
    <2>1. UNCHANGED counters
      BY <1>write DEF write_event
    <2>2. counters.errors \in Nat /\ counters.warnings \in Nat /\ counters.crashes \in Nat
      BY DEF Counts
    <2>3. CASE At(t, "warn") /\ write_line("WARN", t)
      <3>1. /\ Pending({"error"})' = Pending({"error"})
            /\ Pending({"warn"})' = Pending({"warn"}) \ {t}
            /\ Pending({"lock", "open"})' = Pending({"lock", "open"})
            /\ t \in Pending({"warn"})
        BY <1>write, <2>3 DEF write_event, Pending, Goto
      <3>2. line("WARN") \in Lines /\ line("WARN").level = "WARN"
        BY DEF Lines, EventLevels
      <3>3. UNCHANGED report \/ report' = Append(report, line("WARN"))
        BY <2>3 DEF write_line, Emit
      <3>4. NoLineOf("ERROR") /\ NoLineOf("BEGIN")
        BY <3>2, <3>3 DEF NoLineOf
      <3>5. QED
        BY <2>1, <2>2, <3>1, <3>2, <3>3, <3>4, CountedKept, CountedThen
        DEF Counters3, Counters
    <2>4. CASE At(t, "error") /\ write_line("ERROR", t)
      <3>1. /\ Pending({"error"})' = Pending({"error"}) \ {t}
            /\ Pending({"warn"})' = Pending({"warn"})
            /\ Pending({"lock", "open"})' = Pending({"lock", "open"})
            /\ t \in Pending({"error"})
        BY <1>write, <2>4 DEF write_event, Pending, Goto
      <3>2. line("ERROR") \in Lines /\ line("ERROR").level = "ERROR"
        BY DEF Lines, EventLevels
      <3>3. UNCHANGED report \/ report' = Append(report, line("ERROR"))
        BY <2>4 DEF write_line, Emit
      <3>4. NoLineOf("WARN") /\ NoLineOf("BEGIN")
        BY <3>2, <3>3 DEF NoLineOf
      <3>5. QED
        BY <2>1, <2>2, <3>1, <3>2, <3>3, <3>4, CountedKept, CountedThen
        DEF Counters3, Counters
    <2>5. QED
      BY <1>write, <2>3, <2>4 DEF write_event
  <1>Printf. ASSUME NEW t \in Threads, NEW level \in MirrorLevels, Printf(t, level)
             PROVE  Counters3'
    BY <1>Printf, <1>quiet, <1>noline DEF Printf
  <1>handlers. ASSUME NEW t \in Threads,
                      on_fault(t) \/ on_nested_fault(t) \/ on_lookup_failure(t)
               PROVE  Counters3'
    BY <1>handlers, <1>quiet, <1>noline
    DEF on_fault, on_nested_fault, on_lookup_failure, Handler, Goto, Waiting
  <1>CrashCount. ASSUME NEW t \in Threads, CrashCount(t) PROVE Counters3'
    <2>1. UNCHANGED report /\ counters' = [counters EXCEPT !.crashes = @ + 1]
      BY <1>CrashCount DEF CrashCount, Count
    <2>2. /\ Pending({"error"})' = Pending({"error"})
          /\ Pending({"warn"})' = Pending({"warn"})
          /\ Pending({"lock", "open"})' = Pending({"lock", "open"}) \cup {t}
      BY <1>CrashCount DEF CrashCount, Pending, Goto
    <2>3. /\ counters'.errors >= counters.errors
          /\ counters'.warnings >= counters.warnings
          /\ counters'.crashes = counters.crashes + 1
      BY <2>1 DEF Counts
    <2>4. QED
      BY <2>1, <2>2, <2>3, <1>noline, CountedKept, CountedFirst DEF Counters3, Counters
  <1>CrashLock. ASSUME NEW t \in Threads, CrashLock(t) PROVE Counters3'
    <2>1. UNCHANGED <<report, counters>>
      BY <1>CrashLock DEF CrashLock
    <2>2. /\ Pending({"error"})' = Pending({"error"})
          /\ Pending({"warn"})' = Pending({"warn"})
          /\ Pending({"lock", "open"})' = Pending({"lock", "open"})
      BY <1>CrashLock DEF CrashLock, Pending, Goto
    <2>3. counters.errors \in Nat /\ counters.warnings \in Nat /\ counters.crashes \in Nat
      BY DEF Counts
    <2>4. QED
      BY <2>1, <2>2, <2>3, <1>noline, CountedKept DEF Counters3, Counters
  <1>CrashBegin. ASSUME NEW t \in Threads, CrashBegin(t) PROVE Counters3'
    <2> DEFINE line == [level |-> "BEGIN", by |-> t]
    <2>1. UNCHANGED counters
      BY <1>CrashBegin DEF CrashBegin
    <2>2. counters.errors \in Nat /\ counters.warnings \in Nat /\ counters.crashes \in Nat
      BY DEF Counts
    <2>3. /\ Pending({"error"})' = Pending({"error"})
          /\ Pending({"warn"})' = Pending({"warn"})
          /\ Pending({"lock", "open"})' = Pending({"lock", "open"}) \ {t}
          /\ t \in Pending({"lock", "open"})
      BY <1>CrashBegin DEF CrashBegin, Pending, Goto
    <2>4. line \in Lines /\ line.level = "BEGIN"
      BY DEF Lines, CrashLevels
    <2>5. UNCHANGED report \/ report' = Append(report, line)
      BY <1>CrashBegin DEF CrashBegin, write_line, Emit
    <2>6. NoLineOf("WARN") /\ NoLineOf("ERROR")
      BY <2>4, <2>5 DEF NoLineOf
    <2>7. QED
      BY <2>1, <2>2, <2>3, <2>4, <2>5, <2>6, CountedKept, CountedThen DEF Counters3, Counters
  <1>block. ASSUME NEW t \in Threads, crash_line(t) \/ CrashEnd(t) \/ write_summary(t)
            PROVE  Counters3'
    <2>1. Emit("BODY", t) \/ Emit("END", t) \/ Emit("SUMMARY", t)
      BY <1>block DEF crash_line, CrashEnd, write_summary, write_line
    <2>2. UNCHANGED counters
      BY <1>block DEF crash_line, CrashEnd, write_summary, EndStep
    <2>3. \A u \in Threads : \/ pc'[u] = pc[u]
                             \/ pc[u] \notin Waiting /\ pc'[u] \notin Waiting
      BY <1>block DEF crash_line, CrashEnd, write_summary, Goto, Waiting
    <2>4. QED
      BY <2>1, <2>2, <2>3, <1>line, <1>quiet
  <1>end. ASSUME NEW t \in Threads,
                 CrashUnlock(t) \/ end_session(t) \/ stop_mirror(t) \/ Joined(t) \/ Leave(t)
          PROVE  Counters3'
    BY <1>end, <1>quiet, <1>noline
    DEF CrashUnlock, end_session, stop_mirror, Joined, Leave, Goto, EndStep, Waiting
  <1>main. ASSUME MainEnds \/ MainReturnsEarly PROVE Counters3'
    BY <1>main, <1>quiet, <1>noline DEF MainEnds, MainReturnsEarly, Goto, Waiting
  <1>pump. ASSUME PumpRead \/ PumpEnd \/ await_crash_block PROVE Counters3'
    BY <1>pump, <1>quiet, <1>noline DEF PumpRead, PumpEnd, await_crash_block, Goto, Waiting
  <1>PumpWrite. ASSUME PumpWrite PROVE Counters3'
    <2> DEFINE line == [level |-> pumpLine, by |-> Pump]
    <2>1. /\ Pending({"error"})' = Pending({"error"})
          /\ Pending({"warn"})' = Pending({"warn"})
          /\ Pending({"lock", "open"})' = Pending({"lock", "open"})
          /\ \A t \in Threads : \/ pc'[t] = pc[t]
                                \/ pc[t] \notin Waiting /\ pc'[t] \notin Waiting
      BY <1>PumpWrite DEF PumpWrite, Pending, Goto, Waiting
    <2>2. pumpLine \in MirrorLevels /\ Emit(pumpLine, Pump)
      BY <1>PumpWrite DEF PumpWrite, write_line, TypeInv, TypeOK, DataOK
    <2>3. line \in Lines /\ (UNCHANGED report \/ report' = Append(report, line))
      BY <2>2 DEF Emit, Lines, Threads, MirrorLevels, EventLevels
    <2>4. CASE pumpLine = "LOG"
      <3>1. UNCHANGED counters
        BY <1>PumpWrite, <2>4 DEF PumpWrite, classify
      <3>2. QED
        BY <2>1, <2>2, <2>4, <3>1, <1>line, <1>quiet DEF Threads
    <2>5. CASE pumpLine = "WARN"
      <3>1. counters' = [counters EXCEPT !.warnings = @ + 1]
        BY <1>PumpWrite, <2>5 DEF PumpWrite, classify, Count
      <3>2. /\ counters'.errors >= counters.errors
            /\ counters'.warnings = counters.warnings + 1
            /\ counters'.crashes >= counters.crashes
        BY <3>1 DEF Counts
      <3>3. NoLineOf("ERROR") /\ NoLineOf("BEGIN")
        BY <2>3, <2>5 DEF NoLineOf
      <3>4. QED
        BY <2>1, <2>3, <2>5, <3>2, <3>3, CountedKept, CountedAtOnce DEF Counters3, Counters
    <2>6. CASE pumpLine = "ERROR"
      <3>1. counters' = [counters EXCEPT !.errors = @ + 1]
        BY <1>PumpWrite, <2>6 DEF PumpWrite, classify, Count
      <3>2. /\ counters'.errors = counters.errors + 1
            /\ counters'.warnings >= counters.warnings
            /\ counters'.crashes >= counters.crashes
        BY <3>1 DEF Counts
      <3>3. NoLineOf("WARN") /\ NoLineOf("BEGIN")
        BY <2>3, <2>6 DEF NoLineOf
      <3>4. QED
        BY <2>1, <2>3, <2>6, <3>2, <3>3, CountedKept, CountedAtOnce DEF Counters3, Counters
    <2>7. QED
      BY <2>2, <2>4, <2>5, <2>6 DEF MirrorLevels
  <1>stutter. CASE UNCHANGED vars
    BY <1>stutter, <1>quiet, <1>noline DEF vars
  <1>q. QED
    BY <1>begin, <1>calls, <1>warn, <1>error, <1>write, <1>Printf, <1>handlers,
       <1>CrashCount, <1>CrashLock, <1>CrashBegin, <1>block, <1>end, <1>main, <1>pump,
       <1>PumpWrite, <1>stutter
    DEF Next, Environment, Progress, PumpProgress, Gone

\* Once the file is closed nothing opens it or adds to it: sessions do not
\* begin twice, and every line is written through g_file.
LEMMA ClosedStays ==
  ASSUME SafeInv, [Next]_vars, ~file, pc[Main] # "boot"
  PROVE  UNCHANGED <<file, report, summary>> /\ pc'[Main] # "boot"
  <1> USE ThreadsAssumption DEF At, fileVars, Threads
  <1>inv. pc \in [Threads -> PCs] /\ file = FALSE
    BY DEF SafeInv, TypeInv, TypeOK, ThreadsOK, FlagsOK
  <1> USE <1>inv
  <1>1. CASE UNCHANGED vars
    BY <1>1 DEF vars
  <1>2. CASE Environment
    BY <1>2 DEF Environment, begin_session, add_context, info, warn, error, Call, Printf,
                on_fault, on_nested_fault, on_lookup_failure, Handler, MainEnds,
                MainReturnsEarly, Goto, write_line, Emit
  <1>3. ASSUME NEW t \in Threads, Progress(t)
        PROVE  UNCHANGED <<file, report, summary>> /\ pc'[Main] # "boot"
    <2>1. CASE \/ write_event(t) \/ CrashBegin(t) \/ CrashEnd(t) \/ crash_line(t)
               \/ write_summary(t)
      <3>1. UNCHANGED report
        BY <2>1 DEF write_event, CrashBegin, CrashEnd, write_summary, crash_line,
                    write_line, Emit
      <3>2. UNCHANGED <<file, summary>>
        BY <2>1 DEF write_event, CrashBegin, CrashEnd, write_summary, crash_line,
                    CrashStep, EndStep, FileAfterSummary, write_line
      <3>3. pc'[Main] # "boot"
        BY <2>1 DEF write_event, CrashBegin, CrashEnd, write_summary, crash_line, Goto
      <3>4. QED
        BY <3>1, <3>2, <3>3
    <2>2. CASE \/ CrashCount(t) \/ CrashLock(t) \/ CrashUnlock(t)
               \/ end_session(t) \/ stop_mirror(t) \/ Joined(t) \/ Leave(t)
      BY <2>2 DEF CrashCount, CrashLock, CrashUnlock, end_session, stop_mirror, Joined,
                  Leave, CrashStep, EndStep, Goto
    <2>3. QED
      BY <1>3, <2>1, <2>2 DEF Progress
  <1>4. CASE PumpProgress
    BY <1>4 DEF PumpProgress, PumpRead, PumpEnd, await_crash_block, PumpWrite, Goto,
                write_line, Emit
  <1>5. QED
    BY <1>1, <1>2, <1>3, <1>4 DEF Next, Gone

\* Only write_summary fills in the summary.
LEMMA SummaryWritten ==
  ASSUME [Next]_vars, summary' # summary
  PROVE  \E t \in Threads : write_summary(t)
  <1>1. ~ UNCHANGED vars
    BY DEF vars
  <1>2. ~ Environment
    BY DEF Environment, begin_session, add_context, info, warn, error, Call, Printf,
           on_fault, on_nested_fault, on_lookup_failure, Handler, MainEnds,
           MainReturnsEarly
  <1>3. ~ PumpProgress
    BY DEF PumpProgress, PumpRead, PumpEnd, await_crash_block, PumpWrite
  <1>4. PICK t \in Threads : Progress(t)
    BY <1>1, <1>2, <1>3 DEF Next, Gone
  <1>5. write_summary(t)
    BY <1>4 DEF Progress, write_event, CrashCount, CrashLock, CrashBegin, CrashEnd,
                CrashUnlock, end_session, stop_mirror, Joined, Leave,
                crash_line, CrashStep, EndStep
  <1>6. QED
    BY <1>5

\* It does so with the counters as they are, and closes the file.
LEMMA SummaryStep ==
  ASSUME SafeInv, [Next]_vars, summary' # summary
  PROVE  /\ summary'.counts = counters /\ UNCHANGED counters
         /\ ~file' /\ pc'[Main] # "boot"
  <1> USE ThreadsAssumption DEF At, Threads
  <1>inv. pc \in [Threads -> PCs]
    BY DEF SafeInv, TypeInv, TypeOK, ThreadsOK
  <1> USE <1>inv
  <1>1. PICK t \in Threads : write_summary(t)
    BY SummaryWritten
  <1>2. pc[Main] # "boot"
    BY <1>1 DEF write_summary, SafeInv, BootInv
  <1>3. QED
    BY <1>1, <1>2 DEF write_summary, EndStep, Goto, FileAfterSummary

LEMMA CountStep ==
  ASSUME SafeInv, CountInv, [Next]_vars
  PROVE  CountInv'
  <1>1. Counters3'
    BY CountedStep
  <1>inv. /\ report \in Seq(Lines) /\ report' \in Seq(Lines)
          /\ counters' \in Counts
    BY SafeStep DEF SafeInv, TypeInv, TypeOK, DataOK
  <1>2. summary'.written => ~file' /\ pc'[Main] # "boot"
    BY ClosedStays, SummaryStep DEF CountInv
  <1>3. SummaryNeverUndercounts'
    <2>1. CASE summary' = summary /\ summary.written
      <3>1. UNCHANGED report
        BY <2>1, ClosedStays DEF CountInv
      <3>2. QED
        BY <2>1, <3>1 DEF CountInv, SummaryNeverUndercounts, HowMany
    <2>2. CASE summary' = summary /\ ~summary.written
      BY <2>2 DEF SummaryNeverUndercounts
    <2>3. CASE summary' # summary
      <3>1. summary'.counts = counters'
        BY <2>3, SummaryStep
      <3>2. /\ HowMany({"ERROR"})' \in Nat /\ HowMany({"WARN"})' \in Nat
            /\ HowMany({"BEGIN"})' \in Nat
        <4>1. ASSUME NEW levels PROVE HowMany(levels)' \in Nat
          <5>1. DOMAIN report' = 1 .. Len(report') /\ Len(report') \in Nat
            BY <1>inv, LenProperties
          <5>2. IsFiniteSet(1 .. Len(report'))
            BY <5>1, FS_Interval
          <5>3. IsFiniteSet({i \in DOMAIN report' : report'[i].level \in levels})
            BY <5>1, <5>2, FS_Subset
          <5>4. QED
            BY <5>3, FS_CardinalityType DEF HowMany
        <4>2. QED
          BY <4>1
      <3>3. /\ Cardinality(Pending({"error"})') \in Nat
            /\ Cardinality(Pending({"warn"})') \in Nat
            /\ Cardinality(Pending({"lock", "open"})') \in Nat
        BY <1>1, FS_CardinalityType DEF Counters3, Counted
      <3>4. counters'.errors \in Nat /\ counters'.warnings \in Nat /\ counters'.crashes \in Nat
        BY <1>inv DEF Counts
      <3>5. QED
        BY <1>1, <3>1, <3>2, <3>3, <3>4 DEF Counters3, Counted, SummaryNeverUndercounts
    <2>4. QED
      BY <2>1, <2>2, <2>3
  <1>4. QED
    BY <1>1, <1>2, <1>3 DEF CountInv, Counters3

LEMMA CountInit == Init => CountInv
  <1> SUFFICES ASSUME Init PROVE CountInv
    OBVIOUS
  <1>1. \A labels \in SUBSET Waiting : Pending(labels) = {}
    BY DEF Init, Pending, Waiting
  <1>2. /\ Pending({"error"}) = {} /\ Pending({"warn"}) = {}
        /\ Pending({"lock", "open"}) = {}
    BY <1>1 DEF Waiting
  <1>3. ASSUME NEW levels PROVE HowMany(levels) = 0
    <2>1. {i \in DOMAIN report : report[i].level \in levels} = {}
      BY DEF Init
    <2>2. QED
      BY <2>1, FS_EmptySet DEF HowMany
  <1>4. counters = [errors |-> 0, warnings |-> 0, crashes |-> 0]
    BY DEF Init, Zero
  <1>5. Cardinality({}) = 0 /\ IsFiniteSet({})
    BY FS_EmptySet
  <1>6. HowMany({"ERROR"}) = 0 /\ HowMany({"WARN"}) = 0 /\ HowMany({"BEGIN"}) = 0
    BY <1>3
  <1>7. Counters3
    BY <1>2, <1>4, <1>5, <1>6 DEF Counters3, Counted
  <1>8. QED
    BY <1>7 DEF Init, CountInv, Counters3, SummaryNeverUndercounts

\* The summary cannot undercount: however counts, lines and the end of the
\* session interleave, every ERROR and WARN line and every crash block of the
\* file is in its numbers.
THEOREM SummaryCountsAll == Spec => []SummaryNeverUndercounts
  <1>1. Spec => []SafeInv
    BY SafeInit, SafeStep, PTL DEF Spec
  <1>2. Init => CountInv
    BY CountInit
  <1>3. SafeInv /\ CountInv /\ [Next]_vars => CountInv'
    BY CountStep
  <1>4. CountInv => SummaryNeverUndercounts
    BY DEF CountInv
  <1>5. QED
    BY <1>1, <1>2, <1>3, <1>4, PTL DEF Spec

-----------------------------------------------------------------------------
(* The mirror                                                              *)

Closing == {"stop", "join", "sum"}

\* One thread at most is taking the session down.  The pump works only while
\* its pipe and the file are open, and there is nothing in the pipe when it is
\* not running.  If the pipe is closed and the pump neither off nor done, it
\* was the pump that closed it.
PumpInv ==
  /\ pc[Pump] \in PumpPCs \cup CrashPCs \cup EndPCs
  /\ \A t, u \in Threads : pc[t] \in Closing /\ pc[u] \in Closing => t = u
  /\ \A t \in Threads : pc[t] \in Closing => ending
  /\ \A t \in Threads : pc[t] = "sum" => ~mirrorOpen
  /\ pc[Pump] \in {"read", "await", "write"} => mirrorOpen /\ file
  /\ redirected => pc[Pump] \notin {"off", "done"}
  /\ pc[Pump] \in {"off", "done"} => pipe = <<>>
  /\ ~mirrorOpen /\ pc[Pump] \notin {"off", "done"} =>
       ending /\ \A t \in Threads \ {Pump} : pc[t] \notin Closing

LEMMA PumpStep ==
  ASSUME SafeInv, PumpInv, [Next]_vars
  PROVE  PumpInv'
  <1> USE ThreadsAssumption DEF At, fileVars, mirrorVars, crashVars
  <1>inv. /\ pc \in [Threads -> PCs] /\ pc[Pump] # "join"
          /\ file \in BOOLEAN /\ mirrorOpen \in BOOLEAN /\ redirected \in BOOLEAN
          /\ ending \in BOOLEAN /\ Pump \in Threads
    BY DEF SafeInv, TypeInv, TypeOK, ThreadsOK, FlagsOK, Threads
  <1> USE <1>inv
  <1>quiet. ASSUME UNCHANGED <<mirrorOpen, redirected, pipe, ending, file>>,
                   NEW t \in Threads, NEW label \in PCs \ Closing,
                   pc' = [pc EXCEPT ![t] = label],
                   t = Pump => /\ pc[Pump] \notin {"off", "done"}
                               /\ \/ label \in CrashPCs \cup EndPCs
                                  \/ /\ pc[Pump] \in {"read", "await", "write"}
                                     /\ label \in {"read", "await", "write"}
            PROVE  PumpInv'
    BY <1>quiet DEF PumpInv, Closing, PumpPCs, CrashPCs, EndPCs, PCs
  <1>still. ASSUME UNCHANGED <<mirrorOpen, redirected, pipe, ending, file, pc>>
            PROVE  PumpInv'
    BY <1>still DEF PumpInv
  <1>begin. ASSUME NEW opens \in BOOLEAN, NEW mirrors \in BOOLEAN,
                   begin_session(opens, mirrors)
            PROVE  PumpInv'
    <2>1. /\ \A t \in Threads : pc'[t] \in {"run", "read", "off"}
          /\ pc'[Pump] = IF mirrors THEN "read" ELSE "off"
          /\ mirrorOpen' = mirrors /\ redirected' = mirrors /\ file' = opens
          /\ UNCHANGED <<pipe, ending>> /\ (mirrors => opens)
      BY <1>begin DEF begin_session, start_mirror
    <2>2. pc[Pump] = "off" /\ pipe = <<>>
      BY <1>begin DEF begin_session, SafeInv, BootInv, PumpInv, PumpPCs, CrashPCs, EndPCs
    <2>3. QED
      BY <2>1, <2>2 DEF PumpInv, Closing, PumpPCs, CrashPCs, EndPCs
  <1>calls. ASSUME NEW t \in Threads, add_context(t) \/ info(t) PROVE PumpInv'
    BY <1>calls, <1>still DEF add_context, info, Call, write_line
  <1>counts. ASSUME NEW t \in Threads, warn(t) \/ error(t) PROVE PumpInv'
    <2>1. t # Pump
      BY <1>counts DEF warn, error, Call, PumpInv, PumpPCs, CrashPCs, EndPCs
    <2>2. pc' = [pc EXCEPT ![t] = "warn"] \/ pc' = [pc EXCEPT ![t] = "error"]
      BY <1>counts DEF warn, error, Goto
    <2>3. UNCHANGED <<mirrorOpen, redirected, pipe, ending, file>>
      BY <1>counts DEF warn, error, Call
    <2>4. {"warn", "error"} \subseteq PCs \ Closing
      BY DEF PCs, Closing
    <2>5. QED
      BY <2>1, <2>2, <2>3, <2>4, <1>quiet
  <1>write. ASSUME NEW t \in Threads, write_event(t) PROVE PumpInv'
    <2>1. t # Pump
      BY <1>write DEF write_event, PumpInv, PumpPCs, CrashPCs, EndPCs
    <2>2. pc' = [pc EXCEPT ![t] = "run"] /\ UNCHANGED <<mirrorOpen, redirected, pipe, ending, file>>
      BY <1>write DEF write_event, Goto, write_line
    <2>3. "run" \in PCs \ Closing
      BY DEF PCs, Closing
    <2>4. QED
      BY <2>1, <2>2, <2>3, <1>quiet
  <1>Printf. ASSUME NEW t \in Threads, NEW level \in MirrorLevels, Printf(t, level)
             PROVE  PumpInv'
    BY <1>Printf DEF Printf, PumpInv
  <1>handler. ASSUME NEW t \in Threads, NEW why, Handler(t, why),
                     pc[t] \in {"run", "read", "await", "body"}
              PROVE  PumpInv'
    <2>1. "begin" \in PCs \ Closing /\ "begin" \in CrashPCs
      BY DEF PCs, Closing, CrashPCs
    <2>2. QED
      BY <1>handler, <1>quiet, <2>1 DEF Handler, Goto
  <1>lookup. ASSUME NEW t \in Threads, on_lookup_failure(t) PROVE PumpInv'
    <2>1. CASE reporting
      <3>1. "asleep" \in PCs \ Closing /\ t # Pump
        BY <1>lookup DEF PCs, Closing, on_lookup_failure
      <3>2. CASE Goto(t, "asleep") /\ UNCHANGED <<mirrorOpen, redirected, pipe, ending, file>>
        BY <3>1, <3>2, <1>quiet DEF Goto
      <3>3. QED
        BY <1>lookup, <2>1, <3>2 DEF on_lookup_failure
    <2>2. CASE ~reporting
      BY <1>lookup, <2>2, <1>handler DEF on_lookup_failure
    <2>3. QED
      BY <2>1, <2>2
  <1>fault. ASSUME NEW t \in Threads, on_fault(t) \/ on_nested_fault(t) PROVE PumpInv'
    BY <1>fault, <1>handler DEF on_fault, on_nested_fault
  <1>block. ASSUME NEW t \in Threads,
                   \/ CrashCount(t) \/ CrashLock(t) \/ CrashBegin(t)
                   \/ CrashEnd(t) \/ CrashUnlock(t)
            PROVE  PumpInv'
    <2>1. PICK label \in {"lock", "open", "body", "unlock", "end"} :
            pc' = [pc EXCEPT ![t] = label]
      BY <1>block DEF CrashCount, CrashLock, CrashBegin, CrashEnd, CrashUnlock, Goto
    <2>2. UNCHANGED <<mirrorOpen, redirected, pipe, ending, file>> /\ pc[t] \in CrashPCs
      BY <1>block DEF CrashCount, CrashLock, CrashBegin, CrashEnd, CrashUnlock, CrashStep,
                      write_line, CrashPCs
    <2>3. {"lock", "open", "body", "unlock", "end"} \subseteq
            (PCs \ Closing) \cap (CrashPCs \cup EndPCs)
      BY DEF PCs, Closing, CrashPCs, EndPCs
    <2>4. QED
      BY <2>1, <2>2, <2>3, <1>quiet DEF CrashPCs
  <1>crash_line. ASSUME NEW t \in Threads, crash_line(t) PROVE PumpInv'
    BY <1>crash_line, <1>still DEF crash_line, CrashStep
  <1>end_session. ASSUME NEW t \in Threads, end_session(t) PROVE PumpInv'
    BY <1>end_session DEF end_session, EndStep, Goto, PumpInv, Closing, PumpPCs, EndPCs
  <1>stop_mirror. ASSUME NEW t \in Threads, stop_mirror(t) PROVE PumpInv'
    BY <1>stop_mirror
    DEF stop_mirror, JoinsPump, EndStep, Goto, PumpInv, Closing, PumpPCs, EndPCs
  <1>Joined. ASSUME NEW t \in Threads, Joined(t) PROVE PumpInv'
    BY <1>Joined DEF Joined, EndStep, Goto, PumpInv, Closing, PumpPCs, EndPCs
  <1>summary. ASSUME NEW t \in Threads, write_summary(t) PROVE PumpInv'
    BY <1>summary DEF write_summary, EndStep, Goto, PumpInv, Closing, PumpPCs, EndPCs
  <1>gone. ASSUME MainReturnsEarly \/ (\E t \in Threads : Leave(t)) \/ UNCHANGED vars
           PROVE  PumpInv'
    BY <1>gone, <1>still DEF MainReturnsEarly, Leave, vars
  <1>MainEnds. ASSUME MainEnds PROVE PumpInv'
    <2>1. "end" \in PCs \ Closing
      BY DEF PCs, Closing, EndPCs
    <2>2. /\ pc' = [pc EXCEPT ![Main] = "end"]
          /\ UNCHANGED <<mirrorOpen, redirected, pipe, ending, file>>
      BY <1>MainEnds DEF MainEnds, Goto
    <2>3. QED
      BY <2>1, <2>2, <1>quiet DEF Threads
  <1>PumpRead. ASSUME PumpRead PROVE PumpInv'
    BY <1>PumpRead DEF PumpRead, PumpInv, Goto, Closing, PumpPCs
  <1>PumpEnd. ASSUME PumpEnd PROVE PumpInv'
    BY <1>PumpEnd DEF PumpEnd, PumpInv, Goto, Closing, PumpPCs
  <1>PumpGoes. ASSUME await_crash_block \/ PumpWrite PROVE PumpInv'
    <2>1. PICK label \in {"read", "write"} : pc' = [pc EXCEPT ![Pump] = label]
      BY <1>PumpGoes DEF await_crash_block, PumpWrite, Goto
    <2>2. /\ UNCHANGED <<mirrorOpen, redirected, pipe, ending, file>>
          /\ pc[Pump] \in {"await", "write"}
      BY <1>PumpGoes DEF await_crash_block, PumpWrite, write_line
    <2>3. {"read", "write"} \subseteq PCs \ Closing
      BY DEF PCs, Closing, PumpPCs
    <2>4. QED
      BY <2>1, <2>2, <2>3, <1>quiet
  <1>q. QED
    BY <1>begin, <1>calls, <1>counts, <1>write, <1>Printf, <1>lookup, <1>fault, <1>block,
       <1>crash_line, <1>end_session, <1>stop_mirror, <1>Joined, <1>summary, <1>gone,
       <1>MainEnds, <1>PumpRead, <1>PumpEnd, <1>PumpGoes
    DEF Next, Environment, Progress, PumpProgress, Gone

LEMMA MirroredFinite ==
  ASSUME report \in Seq(Lines)
  PROVE  IsFiniteSet(Mirrored) /\ Cardinality(Mirrored) \in Nat
  <1>1. DOMAIN report = 1 .. Len(report) /\ Len(report) \in Nat
    BY LenProperties
  <1>2. IsFiniteSet(DOMAIN report)
    BY <1>1, FS_Interval
  <1>3. IsFiniteSet(Mirrored)
    BY <1>2, FS_Subset DEF Mirrored
  <1>4. QED
    BY <1>3, FS_CardinalityType

\* A mirrored line more in the file is one more, another line is none.
LEMMA MirroredAppend ==
  ASSUME report \in Seq(Lines), NEW line \in Lines, report' = Append(report, line)
  PROVE  IF line.by = Pump /\ line.level \in MirrorLevels
           THEN Cardinality(Mirrored)' = Cardinality(Mirrored) + 1
           ELSE Mirrored' = Mirrored
  <1> DEFINE n == Len(report) + 1
  <1>1. /\ DOMAIN report = 1 .. Len(report) /\ Len(report) \in Nat
        /\ DOMAIN report' = 1 .. n
        /\ report'[n] = line
        /\ \A i \in 1 .. Len(report) : report'[i] = report[i]
    BY AppendProperties, LenProperties
  <1>2. n \notin Mirrored
    BY <1>1 DEF Mirrored
  <1>3. Mirrored' = IF line.by = Pump /\ line.level \in MirrorLevels
                      THEN Mirrored \cup {n} ELSE Mirrored
    BY <1>1 DEF Mirrored
  <1>4. Cardinality(Mirrored \cup {n}) = Cardinality(Mirrored) + 1
    BY <1>2, MirroredFinite, FS_AddElement
  <1>5. QED
    BY <1>3, <1>4

\* The line the pump has taken out of the pipe and not written yet.
InHand == IF pc[Pump] \in {"await", "write"} THEN 1 ELSE 0

\* While the pump is whole, every printed line is in the file, in the pump's
\* hands or in the pipe.
FlowInv ==
  pc[Pump] \in PumpPCs => Cardinality(Mirrored) + InHand + Len(pipe) = printed

LEMMA FlowStep ==
  ASSUME SafeInv, PumpInv, FlowInv, [Next]_vars
  PROVE  FlowInv'
  <1> USE ThreadsAssumption DEF At, fileVars, mirrorVars, crashVars
  <1>inv. /\ pc \in [Threads -> PCs] /\ report \in Seq(Lines) /\ Pump \in Threads
          /\ Cardinality(Mirrored) \in Nat /\ pipe \in Seq(MirrorLevels)
          /\ printed \in Nat
    BY MirroredFinite, BoundsAssumption
    DEF SafeInv, TypeInv, TypeOK, ThreadsOK, DataOK, Threads
  <1> USE <1>inv
  <1>quiet. ASSUME UNCHANGED <<pipe, printed>>, UNCHANGED Mirrored,
                   \/ pc'[Pump] \notin PumpPCs
                   \/ pc[Pump] \in PumpPCs /\ UNCHANGED InHand
            PROVE  FlowInv'
    BY <1>quiet DEF FlowInv
  <1>line. ASSUME NEW t \in Threads, NEW level \in EventLevels \cup CrashLevels \cup {"SUMMARY"},
                  t # Pump \/ level \notin MirrorLevels, Emit(level, t)
           PROVE  UNCHANGED Mirrored
    <2>1. [level |-> level, by |-> t] \in Lines
      BY DEF Lines
    <2>2. CASE report' = Append(report, [level |-> level, by |-> t])
      BY <1>line, <2>1, <2>2, MirroredAppend
    <2>3. CASE UNCHANGED report
      BY <2>3 DEF Mirrored
    <2>4. QED
      BY <1>line, <2>2, <2>3 DEF Emit
  <1>noline. UNCHANGED report => UNCHANGED Mirrored
    BY DEF Mirrored
  <1>begin. ASSUME NEW opens \in BOOLEAN, NEW mirrors \in BOOLEAN,
                   begin_session(opens, mirrors)
            PROVE  FlowInv'
    <2>1. pc[Pump] = "off" /\ pc'[Pump] \in {"read", "off"}
      BY <1>begin DEF begin_session, start_mirror, SafeInv, BootInv, PumpInv, PumpPCs,
                      CrashPCs, EndPCs
    <2>2. UNCHANGED <<pipe, printed, report>>
      BY <1>begin DEF begin_session, start_mirror
    <2>3. QED
      BY <2>1, <2>2, <1>noline, <1>quiet DEF PumpPCs, InHand
  <1>calls. ASSUME NEW t \in Threads, add_context(t) \/ info(t) PROVE FlowInv'
    <2>1. UNCHANGED <<pc, pipe, printed>>
      BY <1>calls DEF add_context, info, Call
    <2>2. t # Pump
      BY <1>calls DEF add_context, info, Call, PumpInv, PumpPCs, CrashPCs, EndPCs
    <2>3. Emit("CONTEXT", t) \/ Emit("INFO", t)
      BY <1>calls DEF add_context, info, write_line
    <2>4. UNCHANGED Mirrored
      BY <2>2, <2>3, <1>line DEF EventLevels
    <2>5. QED
      BY <2>1, <2>4 DEF FlowInv, InHand
  <1>counts. ASSUME NEW t \in Threads, warn(t) \/ error(t) PROVE FlowInv'
    <2>1. t # Pump
      BY <1>counts DEF warn, error, Call, PumpInv, PumpPCs, CrashPCs, EndPCs
    <2>2. UNCHANGED <<report, pipe, printed>> /\ pc'[Pump] = pc[Pump]
      BY <1>counts, <2>1 DEF warn, error, Goto, Call
    <2>3. QED
      BY <2>2, <1>noline DEF FlowInv, InHand
  <1>write. ASSUME NEW t \in Threads, write_event(t) PROVE FlowInv'
    <2>1. t # Pump
      BY <1>write DEF write_event, PumpInv, PumpPCs, CrashPCs, EndPCs
    <2>2. UNCHANGED <<pipe, printed>> /\ pc'[Pump] = pc[Pump]
      BY <1>write, <2>1 DEF write_event, Goto
    <2>3. Emit("WARN", t) \/ Emit("ERROR", t)
      BY <1>write DEF write_event, write_line
    <2>4. UNCHANGED Mirrored
      BY <2>1, <2>3, <1>line DEF EventLevels
    <2>5. QED
      BY <2>2, <2>4 DEF FlowInv, InHand
  <1>Printf. ASSUME NEW t \in Threads, NEW level \in MirrorLevels, Printf(t, level)
             PROVE  FlowInv'
    <2>1. /\ pipe' = Append(pipe, level) /\ printed' = printed + 1
          /\ UNCHANGED <<pc, report>>
      BY <1>Printf DEF Printf
    <2>2. Len(pipe') = Len(pipe) + 1 /\ Len(pipe) \in Nat
      BY <2>1, AppendProperties, LenProperties
    <2>3. Mirrored' = Mirrored /\ InHand' = InHand /\ InHand \in Nat /\ pc' = pc
      BY <2>1, <1>noline DEF InHand
    <2>4. ASSUME pc[Pump] \in PumpPCs
          PROVE  Cardinality(Mirrored)' + InHand' + Len(pipe') = printed'
      <3>1. Cardinality(Mirrored) + InHand + Len(pipe) = printed
        BY <2>4 DEF FlowInv
      <3>2. printed' = printed + 1
        BY <2>1
      <3>3. Cardinality(Mirrored)' = Cardinality(Mirrored)
        BY <2>3
      <3>4. Len(pipe') = Len(pipe) + 1 /\ Len(pipe) \in Nat
        BY <2>2
      <3>5. InHand' = InHand /\ InHand \in Nat
        BY <2>3
      <3>6. Cardinality(Mirrored)' + InHand' = Cardinality(Mirrored) + InHand
        BY <3>3, <3>5
      <3>7. QED
        BY <3>1, <3>2, <3>3, <3>4, <3>5
    <2>5. QED
      BY <2>3, <2>4 DEF FlowInv
  <1>handler. ASSUME NEW t \in Threads, NEW why, Handler(t, why) PROVE FlowInv'
    <2>1. UNCHANGED <<pipe, printed, report>>
      BY <1>handler DEF Handler
    <2>2. \/ pc'[Pump] = "begin"
          \/ pc'[Pump] = pc[Pump]
      BY <1>handler DEF Handler, Goto
    <2>3. QED
      BY <2>1, <2>2, <1>noline DEF FlowInv, InHand, PumpPCs
  <1>lookup. ASSUME NEW t \in Threads, on_lookup_failure(t) PROVE FlowInv'
    <2>1. CASE reporting
      <3>1. t # Pump
        BY <1>lookup DEF on_lookup_failure
      <3>2. CASE Goto(t, "asleep") /\ UNCHANGED <<pipe, printed, report>>
        BY <3>1, <3>2, <1>noline DEF Goto, FlowInv, InHand
      <3>3. QED
        BY <1>lookup, <2>1, <3>2 DEF on_lookup_failure
    <2>2. CASE ~reporting
      BY <1>lookup, <2>2, <1>handler DEF on_lookup_failure
    <2>3. QED
      BY <2>1, <2>2
  <1>fault. ASSUME NEW t \in Threads, on_fault(t) \/ on_nested_fault(t) PROVE FlowInv'
    BY <1>fault, <1>handler DEF on_fault, on_nested_fault
  <1>block. ASSUME NEW t \in Threads,
                   \/ CrashCount(t) \/ CrashLock(t) \/ CrashBegin(t) \/ crash_line(t)
                   \/ CrashEnd(t) \/ CrashUnlock(t)
            PROVE  FlowInv'
    <2>1. UNCHANGED <<pipe, printed>>
      BY <1>block DEF CrashCount, CrashLock, CrashBegin, crash_line, CrashEnd,
                      CrashUnlock, CrashStep
    <2>2. \/ pc'[Pump] \in CrashPCs \cup EndPCs
          \/ pc'[Pump] = pc[Pump]
      BY <1>block DEF CrashCount, CrashLock, CrashBegin, crash_line, CrashEnd,
                      CrashUnlock, Goto, CrashPCs, EndPCs
    <2>3. UNCHANGED report \/ (\E level \in CrashLevels : Emit(level, t))
      BY <1>block DEF CrashCount, CrashLock, CrashBegin, crash_line, CrashEnd,
                      CrashUnlock, write_line, CrashLevels
    <2>4. UNCHANGED Mirrored
      BY <2>3, <1>line, <1>noline DEF CrashLevels, MirrorLevels
    <2>5. QED
      BY <2>1, <2>2, <2>4 DEF FlowInv, InHand, PumpPCs, CrashPCs, EndPCs
  <1>end. ASSUME NEW t \in Threads,
                 end_session(t) \/ stop_mirror(t) \/ Joined(t) \/ write_summary(t) \/ Leave(t)
          PROVE  FlowInv'
    <2>1. UNCHANGED <<pipe, printed>>
      BY <1>end DEF end_session, stop_mirror, Joined, write_summary, Leave, EndStep
    <2>2. \/ pc'[Pump] \in EndPCs
          \/ pc'[Pump] = pc[Pump]
      BY <1>end DEF end_session, stop_mirror, Joined, write_summary, Leave, Goto, EndPCs
    <2>3. UNCHANGED report \/ Emit("SUMMARY", t)
      BY <1>end DEF end_session, stop_mirror, Joined, write_summary, Leave
    <2>4. UNCHANGED Mirrored
      BY <2>3, <1>line, <1>noline DEF MirrorLevels
    <2>5. QED
      BY <2>1, <2>2, <2>4 DEF FlowInv, InHand, PumpPCs, EndPCs
  <1>main. ASSUME MainEnds \/ MainReturnsEarly \/ UNCHANGED vars PROVE FlowInv'
    <2>1. UNCHANGED <<pipe, printed, report>> /\ pc'[Pump] = pc[Pump]
      BY <1>main DEF MainEnds, MainReturnsEarly, Goto, vars
    <2>2. QED
      BY <2>1, <1>noline DEF FlowInv, InHand
  <1>PumpRead. ASSUME PumpRead PROVE FlowInv'
    <2>1. /\ pc[Pump] = "read" /\ pc'[Pump] = "await" /\ pipe # <<>> /\ pipe' = Tail(pipe)
          /\ UNCHANGED <<printed, report>>
      BY <1>PumpRead DEF PumpRead, Goto
    <2>2. Len(pipe') = Len(pipe) - 1 /\ Len(pipe) \in Nat
      BY <2>1, HeadTailProperties, LenProperties
    <2>3. QED
      BY <2>1, <2>2, <1>noline DEF FlowInv, InHand, PumpPCs
  <1>PumpEnd. ASSUME PumpEnd PROVE FlowInv'
    <2>1. /\ pc[Pump] = "read" /\ pc'[Pump] = "done"
          /\ UNCHANGED <<printed, report, pipe>>
      BY <1>PumpEnd DEF PumpEnd, Goto
    <2>2. QED
      BY <2>1, <1>noline DEF FlowInv, InHand, PumpPCs
  <1>await. ASSUME await_crash_block PROVE FlowInv'
    <2>1. /\ pc[Pump] = "await" /\ pc'[Pump] = "write"
          /\ UNCHANGED <<printed, report, pipe>>
      BY <1>await DEF await_crash_block, Goto
    <2>2. QED
      BY <2>1, <1>noline DEF FlowInv, InHand, PumpPCs
  <1>PumpWrite. ASSUME PumpWrite PROVE FlowInv'
    <2> DEFINE line == [level |-> pumpLine, by |-> Pump]
    <2>1. /\ pc[Pump] = "write" /\ pc'[Pump] = "read" /\ UNCHANGED <<printed, pipe>>
          /\ Emit(pumpLine, Pump)
      BY <1>PumpWrite DEF PumpWrite, Goto, write_line
    <2>2. pumpLine \in MirrorLevels
      BY DEF SafeInv, TypeInv, TypeOK, DataOK
    <2>3. line \in Lines /\ line.by = Pump /\ line.level \in MirrorLevels
      BY <2>2 DEF Lines, MirrorLevels, EventLevels
    <2>4. report' = Append(report, line)
      BY <2>1 DEF Emit, PumpInv
    <2>5. Cardinality(Mirrored)' = Cardinality(Mirrored) + 1
      BY <2>3, <2>4, MirroredAppend
    <2>6. Len(pipe) \in Nat
      BY LenProperties
    <2>7. QED
      BY <2>1, <2>5, <2>6 DEF FlowInv, InHand, PumpPCs
  <1>q. QED
    BY <1>begin, <1>calls, <1>counts, <1>write, <1>Printf, <1>lookup, <1>fault, <1>block,
       <1>end, <1>main, <1>PumpRead, <1>PumpEnd, <1>await, <1>PumpWrite
    DEF Next, Environment, Progress, PumpProgress, Gone

\* A pump that has come to its end, or never began, stays there once the
\* session is open, and its pipe takes no line more.
LEMMA PumpStays ==
  ASSUME SafeInv, PumpInv, [Next]_vars, pc[Pump] \in {"off", "done"}, pc[Main] # "boot"
  PROVE  pc'[Pump] = pc[Pump] /\ printed' = printed
  <1> USE ThreadsAssumption DEF At, mirrorVars, Threads
  <1>inv. pc \in [Threads -> PCs] /\ redirected = FALSE
    BY DEF SafeInv, TypeInv, TypeOK, ThreadsOK, FlagsOK, PumpInv
  <1> USE <1>inv
  <1>1. CASE UNCHANGED vars
    BY <1>1 DEF vars
  <1>2. CASE Environment
    BY <1>2 DEF Environment, begin_session, add_context, info, warn, error, Call, Printf,
                on_fault, on_nested_fault, on_lookup_failure, Handler, MainEnds,
                MainReturnsEarly, Goto
  <1>3. ASSUME NEW t \in Threads, Progress(t)
        PROVE  pc'[Pump] = pc[Pump] /\ printed' = printed
    BY <1>3 DEF Progress, write_event, CrashCount, CrashLock, CrashBegin, CrashEnd,
                CrashUnlock, end_session, stop_mirror, Joined, write_summary, Leave,
                crash_line, CrashStep, EndStep, Goto
  <1>4. CASE PumpProgress
    BY <1>4 DEF PumpProgress, PumpRead, PumpEnd, await_crash_block, PumpWrite
  <1>5. QED
    BY <1>1, <1>2, <1>3, <1>4 DEF Next, Gone

\* Only write_summary fills in the summary: it is called with the mirror down,
\* and its line is its thread's.
LEMMA SummaryByJoiner ==
  ASSUME SafeInv, PumpInv, FlowInv, [Next]_vars, summary' # summary,
         report'[Len(report')].by # Pump
  PROVE  /\ pc'[Pump] \in {"off", "done"}
         /\ Cardinality(Mirrored)' = printed'
  <1> USE ThreadsAssumption DEF At, Threads
  <1>inv. /\ pc \in [Threads -> PCs] /\ report \in Seq(Lines) /\ file \in BOOLEAN
          /\ printed \in Nat /\ Cardinality(Mirrored) \in Nat
    BY MirroredFinite, BoundsAssumption
    DEF SafeInv, TypeInv, TypeOK, ThreadsOK, DataOK, FlagsOK
  <1> USE <1>inv
  <1>1. PICK t \in Threads : write_summary(t)
    BY SummaryWritten
  <1>2. file
    BY <1>1 DEF write_summary
  <1>3. [level |-> "SUMMARY", by |-> t] \in Lines
    BY DEF Lines
  <1>4. report' = Append(report, [level |-> "SUMMARY", by |-> t])
    BY <1>1, <1>2 DEF write_summary, Emit
  <1>5. t # Pump
    BY <1>3, <1>4, AppendProperties
  <1>6. pc[Pump] \in {"off", "done"} /\ pc'[Pump] = pc[Pump]
    BY <1>1, <1>5 DEF write_summary, Goto, PumpInv, Closing
  <1>7. pipe = <<>> /\ UNCHANGED printed
    BY <1>1, <1>6 DEF PumpInv, write_summary, EndStep
  <1>8. Cardinality(Mirrored) = printed
    BY <1>6, <1>7 DEF FlowInv, InHand, PumpPCs
  <1>9. Mirrored' = Mirrored
    BY <1>3, <1>4, MirroredAppend DEF MirrorLevels
  <1>10. QED
    BY <1>6, <1>7, <1>8, <1>9

MirrorInv == CountInv /\ PumpInv /\ FlowInv /\ MirrorComplete

\* A summary that comes after the join of the pump comes after every line that
\* was printed: none is lost in the pipe, in the pump's hands or behind the
\* closed file.
THEOREM MirrorLosesNothing == Spec => []MirrorComplete
  <1>1. Spec => []SafeInv
    BY SafeInit, SafeStep, PTL DEF Spec
  <1>2. Init => MirrorInv
    <2> SUFFICES ASSUME Init PROVE MirrorInv
      OBVIOUS
    <2>1. CountInv
      BY CountInit
    <2>2. PumpInv
      BY ThreadsAssumption DEF Init, PumpInv, Closing, PumpPCs, Threads
    <2>3. Mirrored = {} /\ Cardinality({}) = 0
      BY FS_EmptySet DEF Init, Mirrored
    <2>4. FlowInv
      BY <2>3, ThreadsAssumption DEF Init, FlowInv, InHand, Threads
    <2>5. QED
      BY <2>1, <2>2, <2>4 DEF Init, MirrorInv, MirrorComplete
  <1>3. SafeInv /\ MirrorInv /\ [Next]_vars => MirrorInv'
    <2> SUFFICES ASSUME SafeInv, MirrorInv, [Next]_vars PROVE MirrorInv'
      OBVIOUS
    <2>1. CountInv' /\ PumpInv' /\ FlowInv'
      BY CountStep, PumpStep, FlowStep DEF MirrorInv
    <2>2. MirrorComplete'
      <3>1. CASE summary' = summary /\ summary.written
        <4>1. /\ UNCHANGED report
              /\ pc[Pump] \in {"off", "done"} => pc'[Pump] = pc[Pump] /\ printed' = printed
          BY <3>1, ClosedStays, PumpStays DEF MirrorInv, CountInv
        <4>2. QED
          BY <3>1, <4>1 DEF MirrorInv, MirrorComplete, Mirrored
      <3>2. CASE summary' = summary /\ ~summary.written
        BY <3>2 DEF MirrorComplete
      <3>3. CASE summary' # summary
        BY <3>3, SummaryByJoiner DEF MirrorInv, MirrorComplete
      <3>4. QED
        BY <3>1, <3>2, <3>3
    <2>3. QED
      BY <2>1, <2>2 DEF MirrorInv
  <1>4. MirrorInv => MirrorComplete
    BY DEF MirrorInv
  <1>5. QED
    BY <1>1, <1>2, <1>3, <1>4, PTL DEF Spec

-----------------------------------------------------------------------------
(* How far a mirrored line can get into a crash block                      *)

\* pump_thread waits for the crash block with the mutex taken and given back,
\* so a block may begin between that and the pump's write.  It is one line at
\* most: the next one waits for that block, as long as the wait does.
OnePumpLineABlock ==
  \A i \in DOMAIN report, j, k \in Mirrored :
    i < j /\ j < k => ~Log!OpenIn(report, i, k)

\* A block that is open while the pump is about to write holds no line of its.
ClearToWrite ==
  pc[Pump] = "write" =>
    \A i \in DOMAIN report, j \in Mirrored :
      LP!OpenIn(report, i, Len(report) + 1) => ~(i < j)

PumpLineInv == ClearToWrite /\ OnePumpLineABlock

LEMMA SameOpenIn ==
  ASSUME NEW s, NEW i, NEW j
  PROVE  Log!OpenIn(s, i, j) <=> LP!OpenIn(s, i, j)
  BY DEF Log!OpenIn, LP!OpenIn, Log!Line, LP!Line

\* A step writes one line at most; a mirrored one is PumpWrite's, and the pump
\* comes to write from its wait alone.
LEMMA WhoWrites ==
  ASSUME SafeInv, PumpInv, [Next]_vars
  PROVE  /\ \/ report' = report
            \/ \E line \in Lines :
                 /\ report' = Append(report, line)
                 /\ line.by = Pump /\ line.level \in MirrorLevels =>
                      pc[Pump] = "write" /\ pc'[Pump] = "read"
         /\ pc'[Pump] = "write" =>
              pc[Pump] = "write" \/ await_crash_block
  <1> USE ThreadsAssumption DEF At, fileVars, crashVars, mirrorVars
  <1>inv. pc \in [Threads -> PCs] /\ Pump \in Threads /\ pumpLine \in MirrorLevels
    BY DEF SafeInv, TypeInv, TypeOK, ThreadsOK, DataOK, Threads
  <1> USE <1>inv
  <1> DEFINE OneLine ==
        \/ report' = report
        \/ \E line \in Lines :
             /\ report' = Append(report, line)
             /\ line.by = Pump /\ line.level \in MirrorLevels =>
                  pc[Pump] = "write" /\ pc'[Pump] = "read"
  <1>line. ASSUME NEW t \in Threads,
                  NEW level \in EventLevels \cup CrashLevels \cup {"SUMMARY"},
                  Emit(level, t), t # Pump \/ level \notin MirrorLevels
           PROVE  OneLine
    <2>1. CASE report' = report
      BY <2>1
    <2>2. CASE report' = Append(report, [level |-> level, by |-> t])
      <3>1. [level |-> level, by |-> t] \in Lines
        BY DEF Lines
      <3>2. QED
        BY <1>line, <2>2, <3>1
    <2>3. QED
      BY <1>line, <2>1, <2>2 DEF Emit
  <1>written. OneLine
    <2> HIDE DEF OneLine
    <2>kept. ASSUME UNCHANGED report PROVE OneLine
      BY <2>kept DEF OneLine
    <2>callers. ASSUME NEW t \in Threads, add_context(t) \/ info(t) \/ write_event(t)
                PROVE  OneLine
      <3>1. t # Pump
        BY <2>callers DEF add_context, info, write_event, Call, PumpInv, PumpPCs, CrashPCs,
                          EndPCs
      <3>2. \E level \in EventLevels : Emit(level, t)
        BY <2>callers DEF add_context, info, write_event, write_line, EventLevels
      <3>3. QED
        BY <3>1, <3>2, <1>line
    <2>block. ASSUME NEW t \in Threads,
                     CrashBegin(t) \/ crash_line(t) \/ CrashEnd(t) \/ write_summary(t)
              PROVE  OneLine
      <3>1. \E level \in CrashLevels \cup {"SUMMARY"} : Emit(level, t)
        BY <2>block DEF CrashBegin, crash_line, CrashEnd, write_summary, write_line,
                        CrashLevels
      <3>2. (CrashLevels \cup {"SUMMARY"}) \cap MirrorLevels = {}
        BY DEF CrashLevels, MirrorLevels
      <3>3. QED
        BY <3>1, <3>2, <1>line
    <2>pump. ASSUME PumpWrite PROVE OneLine
      <3>1. [level |-> pumpLine, by |-> Pump] \in Lines
        BY DEF Lines, MirrorLevels, EventLevels
      <3>2. pc[Pump] = "write" /\ pc'[Pump] = "read" /\ Emit(pumpLine, Pump)
        BY <2>pump DEF PumpWrite, write_line, Goto
      <3>3. QED
        BY <3>1, <3>2 DEF Emit, OneLine
    <2>environment. ASSUME Environment PROVE OneLine
      <3>1. \A t \in Threads : add_context(t) \/ info(t) => OneLine
        BY <2>callers
      <3>2. QED
        BY <2>environment, <2>kept, <3>1
        DEF Environment, begin_session, warn, error, Printf, on_fault, on_nested_fault,
            on_lookup_failure, Handler, MainEnds, MainReturnsEarly
    <2>progress. ASSUME NEW t \in Threads, Progress(t) PROVE OneLine
      BY <2>progress, <2>kept, <2>callers, <2>block
      DEF Progress, CrashCount, CrashLock, CrashUnlock, end_session, stop_mirror, Joined, Leave
    <2>q. QED
      BY <2>kept, <2>environment, <2>progress, <2>pump
      DEF Next, PumpProgress, PumpRead, PumpEnd, await_crash_block, Gone, vars
  <1>enters. ASSUME pc'[Pump] = "write", pc[Pump] # "write"
             PROVE  await_crash_block
    <2>1. CASE Environment
      BY <2>1, <1>enters
      DEF Environment, begin_session, start_mirror, add_context, info, warn, error, Call,
          Printf, on_fault, on_nested_fault, on_lookup_failure, Handler, MainEnds,
          MainReturnsEarly, Goto
    <2>2. ASSUME NEW t \in Threads, Progress(t) PROVE FALSE
      BY <2>2, <1>enters
      DEF Progress, write_event, CrashCount, CrashLock, CrashBegin, CrashEnd, CrashUnlock,
          end_session, stop_mirror, Joined, write_summary, Leave, crash_line, Goto
    <2>3. CASE UNCHANGED vars
      BY <2>3, <1>enters DEF vars
    <2>4. CASE PumpProgress
      BY <2>4, <1>enters DEF PumpProgress, PumpRead, PumpEnd, PumpWrite, Goto
    <2>5. QED
      BY <2>1, <2>2, <2>3, <2>4 DEF Next, Gone
  <1>q. QED
    BY <1>written, <1>enters

\* The pump starts to write with the mutex free, so with no block open; what
\* opens afterwards holds none of its lines before the one it writes.
LEMMA PumpLineStep ==
  ASSUME ~MayTimeOut, SafeInv, PumpInv, LP!LogInv, PumpLineInv, [Next]_vars
  PROVE  PumpLineInv'
  <1> DEFINE n == Len(report)
             OpenAt(i, k) == LP!OpenIn(report, i, k)
  <1>inv. /\ pc \in [Threads -> PCs] /\ report \in Seq(Lines) /\ report \in Seq(LP!LogLines)
          /\ n \in Nat /\ DOMAIN report = 1 .. n
    BY LenProperties DEF SafeInv, TypeInv, TypeOK, ThreadsOK, DataOK, LP!LogInv
  <1>before. /\ \A i \in DOMAIN report, j, k \in Mirrored : i < j /\ j < k => ~OpenAt(i, k)
             /\ Mirrored \subseteq 1 .. n
    BY <1>inv, SameOpenIn DEF PumpLineInv, OnePumpLineABlock, Mirrored
  <1>enters. ASSUME await_crash_block
             PROVE  \A i \in DOMAIN report : ~OpenAt(i, n + 1)
    <2>1. crashMutex = None /\ file
      BY <1>enters DEF await_crash_block, WaitIsOver, At, PumpInv
    <2>2. Owner = None
      BY <2>1 DEF Owner
    <2>3. \A i \in DOMAIN report : report[i].by \in Threads
      <3>1. \A i \in DOMAIN report : report[i] \in Lines
        BY <1>inv
      <3>2. QED
        BY <3>1 DEF Lines
    <2>4. QED
      BY <2>1, <2>2, <2>3, ThreadsAssumption DEF LP!LogInv, LP!OwnerInv
  <1>still. ASSUME report' = report PROVE PumpLineInv'
    <2>1. Mirrored' = Mirrored
      BY <1>still DEF Mirrored
    <2>2. OnePumpLineABlock'
      BY <1>still, <2>1 DEF PumpLineInv, OnePumpLineABlock, Log!OpenIn, Log!Line
    <2>3. CASE pc'[Pump] = "write" /\ pc[Pump] = "write"
      BY <1>still, <2>1, <2>2, <2>3 DEF PumpLineInv, ClearToWrite, LP!OpenIn, LP!Line
    <2>4. CASE await_crash_block
      <3>1. ClearToWrite'
        BY <2>4, <1>still, <1>enters DEF ClearToWrite, LP!OpenIn, LP!Line
      <3>2. QED
        BY <2>2, <3>1 DEF PumpLineInv
    <2>5. CASE pc'[Pump] # "write"
      BY <2>2, <2>5 DEF PumpLineInv, ClearToWrite
    <2>6. QED
      BY <2>3, <2>4, <2>5, WhoWrites
  <1>line. ASSUME NEW x \in Lines, report' = Append(report, x),
                  x.by = Pump /\ x.level \in MirrorLevels =>
                    pc[Pump] = "write" /\ pc'[Pump] = "read"
           PROVE  PumpLineInv'
    <2> DEFINE mirrors == x.by = Pump /\ x.level \in MirrorLevels
               OpenAtP(i, k) == LP!OpenIn(report', i, k)
    <2>1. /\ Len(report') = n + 1 /\ DOMAIN report' = 1 .. n + 1
          /\ report'[n + 1] = x
          /\ \A i \in 1 .. n : report'[i] = report[i]
      BY <1>line, <1>inv, AppendProperties
    <2>2. Mirrored' = IF mirrors THEN Mirrored \cup {n + 1} ELSE Mirrored
      BY <1>inv, <2>1 DEF Mirrored
    <2>3. x \in LP!LogLines
      BY DEF Lines, LP!LogLines, LP!Levels, EventLevels, CrashLevels, LP!EventLevels,
             LP!CrashLevels
    <2>4. \A i \in 1 .. n :
            /\ \A k \in 1 .. n + 1 : OpenAtP(i, k) <=> OpenAt(i, k)
            /\ OpenAtP(i, n + 2) => OpenAt(i, n + 1)
      BY <1>line, <1>inv, <2>3, LP!OpenAfterAppend
    <2> HIDE DEF OpenAt, OpenAtP, n
    <2>5. ASSUME NEW i \in 1 .. n + 1, NEW j \in Mirrored', NEW k \in Mirrored', i < j, j < k
          PROVE  ~OpenAtP(i, k)
      <3>1. i \in 1 .. n /\ j \in 1 .. n /\ j \in Mirrored /\ k \in 1 .. n + 1
        BY <2>2, <2>5, <1>before, <1>inv
      <3>2. CASE k \in Mirrored
        BY <3>1, <3>2, <2>4, <2>5, <1>before, <1>inv
      <3>3. CASE k \notin Mirrored
        <4>1. k = n + 1 /\ mirrors
          BY <2>2, <3>3
        <4>2. ~OpenAt(i, n + 1)
          BY <4>1, <3>1, <1>line, <2>5, <1>inv DEF PumpLineInv, ClearToWrite, OpenAt, n
        <4>3. QED
          BY <4>1, <4>2, <3>1, <2>4, <1>inv
      <3>4. QED
        BY <3>2, <3>3
    <2>6. OnePumpLineABlock'
      <3>1. \A i \in DOMAIN report', j, k \in Mirrored' :
              i < j /\ j < k => ~LP!OpenIn(report', i, k)
        BY <2>1, <2>5 DEF OpenAtP
      <3>2. \A i, k : Log!OpenIn(report', i, k) <=> LP!OpenIn(report', i, k)
        BY DEF Log!OpenIn, LP!OpenIn, Log!Line, LP!Line
      <3>3. QED
        BY <3>1, <3>2 DEF OnePumpLineABlock
    <2>7. ASSUME pc'[Pump] = "write", NEW i \in 1 .. n + 1, NEW j \in Mirrored',
                 OpenAtP(i, n + 2), i < j
          PROVE  FALSE
      <3>1. ~mirrors
        BY <2>7, <1>line
      <3>2. j \in Mirrored /\ i \in 1 .. n /\ j \in 1 .. n
        BY <3>1, <2>2, <2>7, <1>before, <1>inv
      <3>3. OpenAt(i, n + 1)
        BY <3>2, <2>4, <2>7
      <3>4. CASE pc[Pump] = "write"
        BY <3>2, <3>3, <3>4, <2>7, <1>inv DEF PumpLineInv, ClearToWrite, OpenAt, n
      <3>5. CASE await_crash_block
        BY <3>2, <3>3, <3>5, <1>enters, <1>inv
      <3>6. QED
        BY <3>4, <3>5, <2>7, WhoWrites
    <2>8. ClearToWrite'
      <3>1. Len(report') + 1 = n + 2
        BY <2>1, <1>inv
      <3>2. QED
        BY <2>1, <2>7, <3>1 DEF ClearToWrite, OpenAtP
    <2>9. QED
      BY <2>6, <2>8 DEF PumpLineInv
  <1>q. QED
    BY <1>still, <1>line, WhoWrites

LEMMA PumpInit == Init => PumpInv
  BY ThreadsAssumption DEF Init, PumpInv, Closing, PumpPCs, Threads

LEMMA PumpSafe == Spec => [](SafeInv /\ PumpInv)
  <1>1. SafeInv /\ PumpInv /\ [Next]_vars => (SafeInv /\ PumpInv)'
    BY SafeStep, PumpStep
  <1>2. Init => SafeInv /\ PumpInv
    BY SafeInit, PumpInit
  <1>3. QED
    BY <1>1, <1>2, PTL DEF Spec

\* If no crash block outlasts the pump's wait, a block holds at most one
\* mirrored line, whatever is printed and however many threads fault.
THEOREM OnePumpLine ==
  ASSUME ~MayTimeOut
  PROVE  Spec => []OnePumpLineABlock
  <1>1. Spec => [](SafeInv /\ PumpInv)
    BY PumpSafe
  <1>2. None \notin Threads
    BY ThreadsAssumption
  <1>3. LP!LogInit => LP!LogInv
    BY <1>2, LP!LogInitInv
  <1>4. LP!LogInv /\ [LP!LogNext]_(LP!logVars) => LP!LogInv'
    BY <1>2, LP!LogStep
  <1>5. Init => PumpLineInv
    BY ThreadsAssumption
    DEF Init, PumpLineInv, ClearToWrite, OnePumpLineABlock, Mirrored, Threads
  <1>6. SafeInv /\ PumpInv /\ LP!LogInv /\ PumpLineInv /\ [Next]_vars => PumpLineInv'
    BY PumpLineStep
  <1>7. PumpLineInv => OnePumpLineABlock
    BY DEF PumpLineInv
  <1>8. QED
    BY <1>1, <1>3, <1>4, <1>5, <1>6, <1>7, RefInit, RefStep, PTL DEF Spec

-----------------------------------------------------------------------------
(* The shutdown waits for nobody who waits for it                          *)

\* The guards of Progress and of PumpProgress, read off the code: only the
\* crash mutex, the join of the pump and the pump's two waits block anybody.
CanGo(t) ==
  \/ pc[t] \in {"warn", "error", "begin", "open", "body", "unlock", "end", "stop", "sum",
                "leave"}
  \/ pc[t] = "lock" /\ crashMutex = None
  \/ pc[t] = "join" /\ pc[Pump] = "done"

PumpCanGo ==
  \/ pc[Pump] = "read" /\ (pipe # <<>> \/ ~redirected)
  \/ pc[Pump] = "await" /\ WaitIsOver
  \/ pc[Pump] = "write"

\* end_session: once it has begun, and until the process is gone, some thread
\* has a step it can take.  The exception needs two failures: a crash mutex
\* wedged by a fault inside a block, and a pump that faulted too, or one whose
\* wait were unbounded.
ShutdownMoves ==
  ending /\ exit = "alive" =>
    \/ \E t \in Threads : CanGo(t)
    \/ PumpCanGo
    \/ Wedged /\ (handler[Pump] = "fault" \/ ~MayTimeOut)

\* Somebody sees to the end until the process is gone; whoever joins the pump
\* has given the pipe back, and there is a pump to join; the mutex is held
\* inside a crash block only; the pump enters one through a fault only.
ShutdownInv ==
  /\ ending /\ exit = "alive" =>
       \E t \in Threads : pc[t] \in {"stop", "join", "sum", "leave"}
  /\ mirrorOpen => pc[Pump] # "off"
  /\ \A t \in Threads : pc[t] = "join" => ~redirected /\ pc[Pump] # "off"
  /\ crashMutex \in Threads => pc[crashMutex] \in CrashPCs
  /\ pc[Pump] \in CrashPCs \cup EndPCs => handler[Pump] = "fault"

LEMMA ShutdownStep ==
  ASSUME SafeInv, PumpInv, ShutdownInv, [Next]_vars
  PROVE  ShutdownInv'
  <1> USE ThreadsAssumption DEF At, fileVars, mirrorVars, crashVars
  <1>inv. /\ pc \in [Threads -> PCs] /\ Pump \in Threads /\ Main \in Threads
          /\ handler \in [Threads -> {"none", "fault", "lookup", "clean"}]
          /\ crashMutex \in Threads \cup {None}
          /\ mirrorOpen \in BOOLEAN /\ redirected \in BOOLEAN /\ ending \in BOOLEAN
          /\ pc[Pump] \in PumpPCs \cup CrashPCs \cup EndPCs
    BY DEF SafeInv, TypeInv, TypeOK, ThreadsOK, FlagsOK, Threads, PumpInv
  <1> USE <1>inv
  \* A step that only moves one thread, none that sees to the end.
  <1>quiet. ASSUME UNCHANGED <<mirrorOpen, redirected, ending, exit, crashMutex, handler>>,
                   NEW t \in Threads, NEW label, pc' = [pc EXCEPT ![t] = label],
                   pc[t] \notin {"stop", "join", "sum", "leave"},
                   label \notin {"join", "off"},
                   t = Pump => (label \in CrashPCs \cup EndPCs =>
                                  pc[Pump] \in CrashPCs \cup EndPCs),
                   crashMutex = t => label \in CrashPCs
            PROVE  ShutdownInv'
    BY <1>quiet DEF ShutdownInv
  <1>still. ASSUME UNCHANGED <<mirrorOpen, redirected, ending, pc, crashMutex, handler>>,
                   exit' = exit \/ exit' # "alive"
            PROVE  ShutdownInv'
    BY <1>still DEF ShutdownInv
  <1>free. ASSUME NEW t \in Threads, pc[t] \notin CrashPCs PROVE crashMutex # t
    BY <1>free DEF ShutdownInv
  <1>begin. ASSUME NEW opens \in BOOLEAN, NEW mirrors \in BOOLEAN,
                   begin_session(opens, mirrors)
            PROVE  ShutdownInv'
    <2>1. /\ \A t \in Threads : pc'[t] \in {"run", "read", "off"}
          /\ pc'[Pump] = IF mirrors THEN "read" ELSE "off"
          /\ mirrorOpen' = mirrors /\ UNCHANGED <<ending, exit, crashMutex>>
      BY <1>begin DEF begin_session, start_mirror
    <2>2. pc[Main] = "boot" /\ crashMutex = None
      BY <1>begin DEF begin_session, SafeInv, BootInv
    <2>3. \A t \in Threads : pc[t] \in {"boot", "unborn", "off"}
      BY <2>2 DEF SafeInv, BootInv
    <2>4. ~(ending /\ exit = "alive")
      BY <2>3 DEF ShutdownInv
    <2>5. QED
      BY <2>1, <2>2, <2>4 DEF ShutdownInv, CrashPCs, EndPCs
  <1>calls. ASSUME NEW t \in Threads, add_context(t) \/ info(t) PROVE ShutdownInv'
    BY <1>calls, <1>still DEF add_context, info, Call
  <1>counts. ASSUME NEW t \in Threads, warn(t) \/ error(t) \/ write_event(t)
             PROVE  ShutdownInv'
    <2>1. pc[t] \in {"run", "warn", "error"}
      BY <1>counts DEF warn, error, write_event, Call
    <2>2. PICK label \in {"run", "warn", "error"} : pc' = [pc EXCEPT ![t] = label]
      BY <1>counts DEF warn, error, write_event, Goto
    <2>3. UNCHANGED <<mirrorOpen, redirected, ending, exit, crashMutex, handler>>
      BY <1>counts DEF warn, error, write_event, Call
    <2>4. crashMutex # t /\ t # Pump
      BY <2>1, <1>free DEF CrashPCs, PumpPCs, EndPCs
    <2>5. QED
      BY <2>1, <2>2, <2>3, <2>4, <1>quiet
  <1>Printf. ASSUME NEW t \in Threads, NEW level \in MirrorLevels, Printf(t, level)
             PROVE  ShutdownInv'
    BY <1>Printf, <1>still DEF Printf
  <1>handler. ASSUME NEW t \in Threads, NEW why, Handler(t, why),
                     pc[t] \in {"run", "read", "await", "body"},
                     t = Pump => why = "fault"
              PROVE  ShutdownInv'
    <2>1. /\ pc' = [pc EXCEPT ![t] = "begin"] /\ handler' = [handler EXCEPT ![t] = why]
          /\ UNCHANGED <<mirrorOpen, redirected, ending, exit, crashMutex>>
      BY <1>handler DEF Handler, Goto
    <2>2. QED
      BY <1>handler, <2>1 DEF ShutdownInv, CrashPCs
  <1>lookup. ASSUME NEW t \in Threads, on_lookup_failure(t) PROVE ShutdownInv'
    <2>1. t # Pump /\ pc[t] = "run"
      BY <1>lookup DEF on_lookup_failure
    <2>2. CASE Handler(t, "lookup")
      BY <2>1, <2>2, <1>handler
    <2>3. CASE /\ Goto(t, "asleep")
               /\ UNCHANGED <<mirrorOpen, redirected, ending, exit, crashMutex, handler>>
      <3>1. crashMutex # t
        BY <2>1, <1>free DEF CrashPCs
      <3>2. pc' = [pc EXCEPT ![t] = "asleep"]
        BY <2>3 DEF Goto
      <3>3. QED
        BY <2>1, <2>3, <3>1, <3>2 DEF ShutdownInv, CrashPCs, EndPCs
    <2>4. QED
      BY <1>lookup, <2>2, <2>3 DEF on_lookup_failure
  <1>fault. ASSUME NEW t \in Threads, on_fault(t) \/ on_nested_fault(t) PROVE ShutdownInv'
    BY <1>fault, <1>handler DEF on_fault, on_nested_fault
  <1>CrashCount. ASSUME NEW t \in Threads, CrashCount(t) \/ CrashBegin(t) \/ CrashEnd(t)
                 PROVE  ShutdownInv'
    <2>1. PICK label \in {"lock", "body", "unlock"} : pc' = [pc EXCEPT ![t] = label]
      BY <1>CrashCount DEF CrashCount, CrashBegin, CrashEnd, Goto
    <2>2. /\ UNCHANGED <<mirrorOpen, redirected, ending, exit, crashMutex, handler>>
          /\ pc[t] \in {"begin", "open", "body"}
      BY <1>CrashCount DEF CrashCount, CrashBegin, CrashEnd, CrashStep
    <2>3. QED
      BY <2>1, <2>2, <1>quiet DEF CrashPCs
  <1>CrashLock. ASSUME NEW t \in Threads, CrashLock(t) PROVE ShutdownInv'
    <2>1. /\ pc' = [pc EXCEPT ![t] = "open"] /\ pc[t] = "lock" /\ crashMutex' = t
          /\ UNCHANGED <<mirrorOpen, redirected, ending, exit, handler>>
      BY <1>CrashLock DEF CrashLock, CrashStep, Goto
    <2>2. QED
      BY <2>1 DEF ShutdownInv, CrashPCs
  <1>CrashUnlock. ASSUME NEW t \in Threads, CrashUnlock(t) PROVE ShutdownInv'
    <2>1. /\ pc' = [pc EXCEPT ![t] = "end"] /\ pc[t] = "unlock" /\ crashMutex' = None
          /\ UNCHANGED <<mirrorOpen, redirected, ending, exit, handler>>
      BY <1>CrashUnlock DEF CrashUnlock, CrashStep, Goto
    <2>2. QED
      BY <2>1 DEF ShutdownInv, CrashPCs
  <1>crash_line. ASSUME NEW t \in Threads, crash_line(t) PROVE ShutdownInv'
    BY <1>crash_line, <1>still DEF crash_line, CrashStep
  <1>MainEnds. ASSUME MainEnds PROVE ShutdownInv'
    <2>1. /\ pc' = [pc EXCEPT ![Main] = "end"] /\ pc[Main] = "run"
          /\ handler' = [handler EXCEPT ![Main] = "clean"]
          /\ UNCHANGED <<mirrorOpen, redirected, ending, exit, crashMutex>>
      BY <1>MainEnds DEF MainEnds, Goto
    <2>2. crashMutex # Main
      BY <2>1, <1>free DEF CrashPCs
    <2>3. QED
      BY <2>1, <2>2 DEF ShutdownInv, CrashPCs, EndPCs
  <1>end_session. ASSUME NEW t \in Threads, end_session(t) PROVE ShutdownInv'
    <2>1. /\ pc[t] = "end" /\ UNCHANGED <<mirrorOpen, redirected, exit, crashMutex, handler>>
          /\ pc' = [pc EXCEPT ![t] = IF ending THEN "leave" ELSE "stop"]
      BY <1>end_session DEF end_session, EndStep, Goto
    <2>2. crashMutex # t
      BY <2>1, <1>free DEF CrashPCs
    <2>3. QED
      BY <2>1, <2>2 DEF ShutdownInv, CrashPCs, EndPCs
  <1>stop_mirror. ASSUME NEW t \in Threads, stop_mirror(t) PROVE ShutdownInv'
    <2>1. /\ pc[t] = "stop" /\ ~redirected'
          /\ UNCHANGED <<ending, exit, crashMutex, handler>>
      BY <1>stop_mirror DEF stop_mirror, EndStep
    <2>2. crashMutex # t
      BY <2>1, <1>free DEF CrashPCs
    <2>3. CASE JoinsPump(t)
      <3>1. /\ mirrorOpen /\ t # Pump /\ pc' = [pc EXCEPT ![t] = "join"]
            /\ mirrorOpen' = mirrorOpen
        BY <1>stop_mirror, <2>3 DEF stop_mirror, JoinsPump, Goto
      <3>2. QED
        BY <2>1, <2>2, <3>1 DEF ShutdownInv, CrashPCs, EndPCs
    <2>4. CASE ~JoinsPump(t)
      <3>1. pc' = [pc EXCEPT ![t] = "sum"] /\ mirrorOpen' = FALSE
        BY <1>stop_mirror, <2>4 DEF stop_mirror, Goto
      <3>2. QED
        BY <2>1, <2>2, <3>1 DEF ShutdownInv, CrashPCs, EndPCs
    <2>5. QED
      BY <2>3, <2>4
  <1>Joined. ASSUME NEW t \in Threads, Joined(t) \/ write_summary(t) PROVE ShutdownInv'
    <2>1. /\ pc[t] \in {"join", "sum"} /\ UNCHANGED <<ending, exit, crashMutex, handler>>
          /\ UNCHANGED redirected /\ mirrorOpen' \in {mirrorOpen, FALSE}
      BY <1>Joined DEF Joined, write_summary, EndStep
    <2>2. crashMutex # t
      BY <2>1, <1>free DEF CrashPCs
    <2>3. PICK label \in {"sum", "leave"} : pc' = [pc EXCEPT ![t] = label]
      BY <1>Joined DEF Joined, write_summary, Goto
    <2>4. pc'[t] = label /\ \A u \in Threads \ {t} : pc'[u] = pc[u]
      BY <2>3
    <2>5. mirrorOpen' => mirrorOpen
      BY <2>1
    <2>6. pc'[Pump] # "off" \/ pc[Pump] = "off"
      BY <2>4
    <2>7. \A u \in Threads : pc'[u] = "join" => pc[u] = "join"
      BY <2>4
    <2>8. pc'[Pump] \in CrashPCs \cup EndPCs => pc[Pump] \in CrashPCs \cup EndPCs
      BY <2>1, <2>4 DEF EndPCs
    <2>9. crashMutex \in Threads => pc'[crashMutex] = pc[crashMutex]
      BY <2>2, <2>4
    <2>10. QED
      BY <2>1, <2>4, <2>5, <2>6, <2>7, <2>8, <2>9 DEF ShutdownInv
  <1>gone. ASSUME MainReturnsEarly \/ (\E t \in Threads : Leave(t)) \/ UNCHANGED vars
           PROVE  ShutdownInv'
    <2>1. CASE MainReturnsEarly
      BY <2>1, <1>still DEF MainReturnsEarly
    <2>2. ASSUME NEW t \in Threads, Leave(t) PROVE ShutdownInv'
      <3>1. handler[t] # "none"
        BY <2>2 DEF Leave, SafeInv, TypeInv, HandlerKnown, EndPCs
      <3>2. QED
        BY <2>2, <3>1, <1>still DEF Leave, SafeInv, TypeInv, TypeOK, ThreadsOK
    <2>3. CASE UNCHANGED vars
      BY <2>3, <1>still DEF vars
    <2>4. QED
      BY <1>gone, <2>1, <2>2, <2>3
  <1>pump. ASSUME PumpProgress PROVE ShutdownInv'
    <2>1. PICK label \in {"read", "await", "write", "done"} : pc' = [pc EXCEPT ![Pump] = label]
      BY <1>pump DEF PumpProgress, PumpRead, PumpEnd, await_crash_block, PumpWrite, Goto
    <2>2. /\ UNCHANGED <<mirrorOpen, redirected, ending, exit, crashMutex, handler>>
          /\ pc[Pump] \in {"read", "await", "write"}
      BY <1>pump DEF PumpProgress, PumpRead, PumpEnd, await_crash_block, PumpWrite
    <2>3. crashMutex # Pump
      BY <2>2, <1>free DEF CrashPCs
    <2>4. QED
      BY <2>1, <2>2, <2>3, <1>quiet DEF CrashPCs, EndPCs
  <1>q. QED
    BY <1>begin, <1>calls, <1>counts, <1>Printf, <1>lookup, <1>fault, <1>CrashCount,
       <1>CrashLock, <1>CrashUnlock, <1>crash_line, <1>end_session, <1>stop_mirror,
       <1>Joined, <1>gone, <1>MainEnds, <1>pump
    DEF Next, Environment, Progress, Gone

\* Whoever waits for the crash mutex waits for its holder, who is inside its
\* block, and so able to move or wedged.
LEMMA HolderMoves ==
  ASSUME SafeInv, ShutdownInv, crashMutex # None
  PROVE  (\E t \in Threads : CanGo(t)) \/ Wedged
  <1>1. crashMutex \in Threads /\ pc[crashMutex] \in CrashPCs
    BY DEF SafeInv, TypeInv, TypeOK, ThreadsOK, ShutdownInv
  <1>2. CASE pc[crashMutex] \in {"begin", "open", "body", "unlock"}
    BY <1>1, <1>2 DEF CanGo
  <1>3. CASE pc[crashMutex] = "lock"
    BY <1>3 DEF Wedged
  <1>4. QED
    BY <1>1, <1>2, <1>3 DEF CrashPCs

\* No thread of the shutdown waits for another that waits for it, whoever
\* faults and whatever is printed: the reason why SessionEnds needs no more
\* than that the threads are scheduled.
THEOREM ShutdownNeverStuck == Spec => []ShutdownMoves
  <1>1. Init => ShutdownInv
    BY ThreadsAssumption DEF Init, ShutdownInv, Threads, CrashPCs, EndPCs
  <1>2. SafeInv /\ PumpInv /\ ShutdownInv => ShutdownMoves
    <2> SUFFICES ASSUME SafeInv, PumpInv, ShutdownInv, ending, exit = "alive"
                 PROVE  \/ \E t \in Threads : CanGo(t)
                        \/ PumpCanGo
                        \/ Wedged /\ (handler[Pump] = "fault" \/ ~MayTimeOut)
      BY DEF ShutdownMoves
    <2>1. PICK t \in Threads : pc[t] \in {"stop", "join", "sum", "leave"}
      BY DEF ShutdownInv
    <2>2. CASE pc[t] # "join"
      BY <2>1, <2>2 DEF CanGo
    <2>3. CASE pc[t] = "join"
      <3>1. ~redirected /\ pc[Pump] # "off" /\ pc[Pump] # "join" /\ Pump \in Threads
        BY <2>3 DEF ShutdownInv, SafeInv, TypeInv, TypeOK, ThreadsOK, Threads
      <3>2. CASE pc[Pump] = "done"
        BY <2>3, <3>2 DEF CanGo
      <3>3. CASE pc[Pump] \in {"read", "write"}
        BY <3>1, <3>3 DEF PumpCanGo
      <3>4. CASE pc[Pump] = "await"
        BY <3>4, HolderMoves, BoundsAssumption DEF PumpCanGo, WaitIsOver
      <3>5. CASE pc[Pump] \in CrashPCs
        <4>1. handler[Pump] = "fault"
          BY <3>5 DEF ShutdownInv
        <4>2. CASE pc[Pump] = "lock"
          BY <4>1, <4>2, <3>1, HolderMoves DEF CanGo
        <4>3. QED
          BY <4>1, <4>2, <3>1, <3>5 DEF CanGo, CrashPCs
      <3>6. CASE pc[Pump] \in EndPCs
        BY <3>1, <3>6 DEF CanGo, EndPCs
      <3>7. QED
        BY <3>1, <3>2, <3>3, <3>4, <3>5, <3>6 DEF PumpInv, PumpPCs
    <2>4. QED
      BY <2>2, <2>3
  <1>3. SafeInv /\ PumpInv /\ ShutdownInv /\ [Next]_vars => ShutdownInv'
    BY ShutdownStep
  <1>4. QED
    BY <1>1, <1>2, <1>3, PumpSafe, PTL DEF Spec
=============================================================================
