--------------------------- MODULE ReportLogProofs ---------------------------
(***************************************************************************)
(* The abstract report keeps crash blocks apart and ends with its SUMMARY, *)
(* for any set of writers and any length.                                  *)
(***************************************************************************)
EXTENDS ReportLog, TLAPS

LogLines == [level : Levels, by : Writers]

\* While the log is open, a block that has not ended belongs to the owner.
OwnerInv ==
  open => \A i \in DOMAIN log : OpenIn(log, i, Len(log) + 1) => owner = log[i].by

LogInv ==
  /\ log \in Seq(LogLines)
  /\ open \in BOOLEAN
  /\ OwnerInv
  /\ BlocksDisjoint
  /\ SummaryIsLast

\* What appending one line does to the blocks that were open.
LEMMA OpenAfterAppend ==
  ASSUME NEW s \in Seq(LogLines), NEW x \in LogLines,
         NEW i \in 1 .. Len(s)
  PROVE  /\ \A j \in 1 .. Len(s) + 1 :
              OpenIn(Append(s, x), i, j) <=> OpenIn(s, i, j)
         /\ OpenIn(Append(s, x), i, Len(s) + 2) =>
              OpenIn(s, i, Len(s) + 1) /\ x # Line("END", s[i].by)
  <1> DEFINE r == Append(s, x)
  <1>1. /\ Len(r) = Len(s) + 1
        /\ DOMAIN r = 1 .. Len(s) + 1
        /\ DOMAIN s = 1 .. Len(s)
        /\ \A k \in 1 .. Len(s) : r[k] = s[k]
        /\ r[Len(s) + 1] = x
        /\ Len(s) \in Nat
    OBVIOUS
  <1> HIDE DEF r
  <1>2. \A j \in 1 .. Len(s) + 1 : OpenIn(r, i, j) <=> OpenIn(s, i, j)
    BY <1>1 DEF OpenIn
  <1>3. OpenIn(r, i, Len(s) + 2) => OpenIn(s, i, Len(s) + 1) /\ x # Line("END", s[i].by)
    BY <1>1 DEF OpenIn
  <1>4. QED
    BY <1>2, <1>3 DEF r

\* A line may be added to an open log if crash lines come from the owner, a
\* BEGIN only when nobody owns a block, and no SUMMARY is added.
LEMMA AppendKeeps ==
  ASSUME LogInv, open, NEW x \in LogLines, log' = Append(log, x), open' = open,
         x.level # "SUMMARY",
         x.level \in CrashLevels =>
            \A i \in DOMAIN log : OpenIn(log, i, Len(log) + 1) => x.by = log[i].by
  PROVE  /\ log' \in Seq(LogLines)
         /\ BlocksDisjoint'
         /\ SummaryIsLast'
  <1> DEFINE n == Len(log)
  <1>1. /\ log' \in Seq(LogLines)
        /\ n \in Nat
        /\ Len(log') = n + 1
        /\ DOMAIN log' = 1 .. n + 1
        /\ DOMAIN log = 1 .. n
        /\ \A k \in 1 .. n : log'[k] = log[k]
        /\ log'[n + 1] = x
    BY DEF LogInv
  <1>2. BlocksDisjoint'
    <2> SUFFICES ASSUME NEW i \in 1 .. n + 1, NEW j \in 1 .. n + 1, i < j,
                        OpenIn(log', i, j), log'[j].level \in CrashLevels
                 PROVE  log'[j].by = log'[i].by
      BY <1>1 DEF BlocksDisjoint
    <2>1. i \in 1 .. n
      BY <1>1
    <2>2. OpenIn(log, i, j)
      BY <2>1, <1>1, OpenAfterAppend DEF LogInv
    <2>3. CASE j \in 1 .. n
      BY <2>1, <2>2, <2>3, <1>1 DEF LogInv, BlocksDisjoint
    <2>4. CASE j = n + 1
      BY <2>1, <2>2, <2>4, <1>1
    <2>5. QED
      BY <2>3, <2>4, <1>1
  <1>3. SummaryIsLast'
    BY <1>1 DEF SummaryIsLast, LogInv
  <1>4. QED
    BY <1>1, <1>2, <1>3

LEMMA LogInitInv == LogInit => LogInv
  <1> SUFFICES ASSUME LogInit PROVE LogInv
    OBVIOUS
  <1>1. log \in Seq(LogLines) /\ DOMAIN log = {}
    BY DEF LogInit
  <1>2. open = FALSE
    BY DEF LogInit
  <1>3. QED
    BY <1>1, <1>2 DEF LogInv, OwnerInv, BlocksDisjoint, SummaryIsLast

LEMMA LogStep ==
  ASSUME NoOwner \notin Writers, LogInv, [LogNext]_logVars
  PROVE  LogInv'
  <1> USE DEF LogInv
  <1>1. CASE Open
    BY <1>1 DEF Open, OwnerInv, BlocksDisjoint, SummaryIsLast
  <1>2. CASE UNCHANGED logVars
    BY <1>2 DEF logVars, OwnerInv, BlocksDisjoint, SummaryIsLast
  <1>3. ASSUME NEW t \in Writers, ~open,
               Event(t) \/ BeginBlock(t) \/ ExtendBlock(t) \/ EndBlock(t)
        PROVE  LogInv'
    <2>1. log' = log /\ open' = open
      BY <1>3 DEF Event, BeginBlock, ExtendBlock, EndBlock, Record
    <2>2. QED
      BY <1>3, <2>1 DEF OwnerInv, BlocksDisjoint, SummaryIsLast
  <1>4. ASSUME NEW t \in Writers, open,
               Event(t) \/ BeginBlock(t) \/ ExtendBlock(t) \/ EndBlock(t)
        PROVE  LogInv'
    <2>1. PICK level \in EventLevels \cup CrashLevels :
            /\ log' = Append(log, Line(level, t))
            /\ level \in EventLevels => owner' = owner
            /\ level = "BEGIN" => owner = NoOwner /\ owner' = t
            /\ level = "BODY" => owner = t /\ owner' = t
            /\ level = "END" => owner = t
      <3>1. CASE Event(t)
        BY <1>4, <3>1 DEF Event, Record, EventLevels, CrashLevels
      <3>2. CASE BeginBlock(t)
        BY <1>4, <3>2 DEF BeginBlock, Record, EventLevels, CrashLevels
      <3>3. CASE ExtendBlock(t)
        BY <1>4, <3>3 DEF ExtendBlock, Record, EventLevels, CrashLevels
      <3>4. CASE EndBlock(t)
        BY <1>4, <3>4 DEF EndBlock, Record, EventLevels, CrashLevels
      <3>5. QED
        BY <1>4, <3>1, <3>2, <3>3, <3>4
    <2> DEFINE x == Line(level, t)
    <2>2. open' = open
      BY <1>4 DEF Event, BeginBlock, ExtendBlock, EndBlock
    <2>3. x \in LogLines /\ x.level = level /\ x.by = t /\ level # "SUMMARY"
      BY DEF LogLines, Line, Levels, EventLevels, CrashLevels
    <2>4. \A i \in DOMAIN log :
            OpenIn(log, i, Len(log) + 1) => owner = log[i].by /\ log[i].by \in Writers
      <3>1. \A i \in DOMAIN log : log[i] \in LogLines
        OBVIOUS
      <3>2. \A i \in DOMAIN log : log[i].by \in Writers
        BY <3>1 DEF LogLines
      <3>3. QED
        BY <1>4, <3>2 DEF OwnerInv
    <2>5. level \in CrashLevels =>
            \A i \in DOMAIN log : OpenIn(log, i, Len(log) + 1) => t = log[i].by
      BY <2>1, <2>4 DEF CrashLevels
    <2> HIDE DEF x
    <2>6. log' \in Seq(LogLines) /\ BlocksDisjoint' /\ SummaryIsLast'
      BY <1>4, <2>1, <2>2, <2>3, <2>5, AppendKeeps DEF x
    <2>7. OwnerInv'
      <3> SUFFICES ASSUME NEW i \in DOMAIN log', OpenIn(log', i, Len(log') + 1)
                   PROVE  owner' = log'[i].by
        BY DEF OwnerInv
      <3> DEFINE n == Len(log)
      <3>1. /\ log' = Append(log, x)
            /\ n \in Nat
            /\ Len(log') = n + 1
            /\ DOMAIN log' = 1 .. n + 1
            /\ DOMAIN log = 1 .. n
            /\ \A k \in 1 .. n : log'[k] = log[k]
            /\ log'[n + 1] = x
        BY <2>1 DEF x
      <3>2. CASE i \in 1 .. n
        <4>1. OpenIn(log, i, n + 1) /\ x # Line("END", log[i].by)
          BY <3>1, <3>2, <2>3, OpenAfterAppend
        <4>2. owner = log[i].by
          BY <4>1, <3>1, <3>2, <2>4
        <4>3. log[i].by \in Writers
          BY <4>1, <3>1, <3>2, <2>4
        <4>4. level # "BEGIN"
          BY <4>2, <4>3, <2>1
        <4>5. level # "END"
          BY <4>1, <4>2, <2>1 DEF x
        <4>6. QED
          BY <4>2, <4>4, <4>5, <3>1, <3>2, <2>1 DEF EventLevels, CrashLevels
      <3>3. CASE i = n + 1
        <4>1. level = "BEGIN"
          BY <3>1, <3>3, <2>3 DEF OpenIn
        <4>2. QED
          BY <4>1, <3>1, <3>3, <2>1, <2>3
      <3>4. QED
        BY <3>1, <3>2, <3>3
    <2>8. QED
      BY <2>2, <2>6, <2>7
  <1>5. ASSUME NEW t \in Writers, Close(t)
        PROVE  LogInv'
    <2> DEFINE x == Line("SUMMARY", t)
               n == Len(log)
    <2>1. open /\ open' = FALSE /\ log' = Append(log, x)
      BY <1>5 DEF Close, Record
    <2>2. x \in LogLines /\ x.level = "SUMMARY"
      BY DEF LogLines, Line, Levels
    <2> HIDE DEF x
    <2>3. /\ log' \in Seq(LogLines)
          /\ n \in Nat
          /\ Len(log') = n + 1
          /\ DOMAIN log' = 1 .. n + 1
          /\ DOMAIN log = 1 .. n
          /\ \A k \in 1 .. n : log'[k] = log[k]
          /\ log'[n + 1] = x
      BY <2>1, <2>2
    <2>4. BlocksDisjoint'
      <3> SUFFICES ASSUME NEW i \in 1 .. n + 1, NEW j \in 1 .. n + 1, i < j,
                          OpenIn(log', i, j), log'[j].level \in CrashLevels
                   PROVE  log'[j].by = log'[i].by
        BY <2>3 DEF BlocksDisjoint
      <3>1. j \in 1 .. n /\ i \in 1 .. n
        BY <2>2, <2>3 DEF CrashLevels
      <3>2. OpenIn(log, i, j)
        BY <3>1, <2>1, <2>2, <2>3, OpenAfterAppend
      <3>3. QED
        BY <3>1, <3>2, <2>3 DEF BlocksDisjoint
    <2>5. SummaryIsLast'
      BY <2>1, <2>3 DEF SummaryIsLast
    <2>6. QED
      BY <2>1, <2>3, <2>4, <2>5 DEF OwnerInv
  <1>6. QED
    BY <1>1, <1>2, <1>3, <1>4, <1>5 DEF LogNext

\* A log that follows ReportLog never mixes two crash blocks and holds at
\* most one SUMMARY, as its last line.
THEOREM LogIsReadable ==
  ASSUME NoOwner \notin Writers
  PROVE  LogSpec => [](BlocksDisjoint /\ SummaryIsLast)
  <1>1. LogSpec => []LogInv
    BY LogInitInv, LogStep, PTL DEF LogSpec
  <1>2. LogInv => BlocksDisjoint /\ SummaryIsLast
    BY DEF LogInv
  <1>3. QED
    BY <1>1, <1>2, PTL
=============================================================================
