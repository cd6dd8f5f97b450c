-------------------------- MODULE AudioUcodeProofs ---------------------------
(***************************************************************************)
(* What holds of the audio microcode for any lists its library may lay out, *)
(* any block length and any number of tasks, proved with TLAPS: no handler  *)
(* writes over what the dispatch needs, the recompiled code carries every    *)
(* list out as AudioList says, and what it hands over is this task's.       *)
(***************************************************************************)
EXTENDS AudioBuffers, SequenceTheorems, TLAPS

-----------------------------------------------------------------------------
(* What a list says                                                        *)

\* The latest position grows with the list: it is the new one, or the old one.
LEMMA LastGrows ==
  ASSUME NEW n \in Nat, NEW K, K \subseteq 1 .. n
  PROVE  AL!Last(K \cup {n + 1}) = n + 1
  <1> DEFINE J == K \cup {n + 1}
  <1>1. n + 1 \in J /\ \A k \in J : k <= n + 1
    OBVIOUS
  <1>2. \A j \in J : (\A k \in J : k <= j) => j = n + 1
    OBVIOUS
  <1> HIDE DEF J
  <1>3. J # {}
    BY <1>1
  <1>4. (CHOOSE j \in J : \A k \in J : k <= j) = n + 1
    BY <1>1, <1>2
  <1>5. AL!Last(J) = n + 1
    BY <1>3, <1>4 DEF AL!Last
  <1>6. QED
    BY <1>5 DEF J

LEMMA LastOfNone == AL!Last({}) = 0
  BY DEF AL!Last

\* Each of the questions a handler's parameters answer, one command further on.
LEMMA SetsGrow ==
  ASSUME NEW l, NEW n \in Nat, NEW s, NEW v
  PROVE  /\ AL!SegmentSet(l, n + 1, s) =
              IF l[n + 1].op = "SEGMENT" /\ l[n + 1].seg = s THEN n + 1
              ELSE AL!SegmentSet(l, n, s)
         /\ AL!BuffersSet(l, n + 1) =
              IF l[n + 1].op = "SETBUFF" /\ ~l[n + 1].aux THEN n + 1 ELSE AL!BuffersSet(l, n)
         /\ AL!AuxSet(l, n + 1) =
              IF l[n + 1].op = "SETBUFF" /\ l[n + 1].aux THEN n + 1 ELSE AL!AuxSet(l, n)
         /\ AL!LoopSet(l, n + 1) =
              IF l[n + 1].op = "SETLOOP" THEN n + 1 ELSE AL!LoopSet(l, n)
         /\ AL!VolumeSet(l, n + 1, v) =
              IF l[n + 1].op = "SETVOL" /\ l[n + 1].what = v THEN n + 1
              ELSE AL!VolumeSet(l, n, v)
  <1>0. 1 .. n + 1 = (1 .. n) \cup {n + 1}
    OBVIOUS
  <1>1. AL!SegmentSet(l, n + 1, s) =
          IF l[n + 1].op = "SEGMENT" /\ l[n + 1].seg = s THEN n + 1 ELSE AL!SegmentSet(l, n, s)
    <2> DEFINE P(j) == l[j].op = "SEGMENT" /\ l[j].seg = s
               K == {j \in 1 .. n : P(j)}
    <2>1. {j \in 1 .. n + 1 : P(j)} = IF P(n + 1) THEN K \cup {n + 1} ELSE K
      BY <1>0
    <2>2. K \subseteq 1 .. n
      OBVIOUS
    <2>3. AL!SegmentSet(l, n, s) = AL!Last(K)
          /\ AL!SegmentSet(l, n + 1, s) = AL!Last({j \in 1 .. n + 1 : P(j)})
      BY DEF AL!SegmentSet
    <2>4. P(n + 1) <=> l[n + 1].op = "SEGMENT" /\ l[n + 1].seg = s
      OBVIOUS
    <2> HIDE DEF K, P
    <2>5. QED
      BY <2>1, <2>2, <2>3, <2>4, LastGrows
  <1>2. AL!BuffersSet(l, n + 1) =
          IF l[n + 1].op = "SETBUFF" /\ ~l[n + 1].aux THEN n + 1 ELSE AL!BuffersSet(l, n)
    <2> DEFINE P(j) == l[j].op = "SETBUFF" /\ ~l[j].aux
               K == {j \in 1 .. n : P(j)}
    <2>1. {j \in 1 .. n + 1 : P(j)} = IF P(n + 1) THEN K \cup {n + 1} ELSE K
      BY <1>0
    <2>2. K \subseteq 1 .. n
      OBVIOUS
    <2>3. AL!BuffersSet(l, n) = AL!Last(K)
          /\ AL!BuffersSet(l, n + 1) = AL!Last({j \in 1 .. n + 1 : P(j)})
      BY DEF AL!BuffersSet
    <2>4. P(n + 1) <=> l[n + 1].op = "SETBUFF" /\ ~l[n + 1].aux
      OBVIOUS
    <2> HIDE DEF K, P
    <2>5. QED
      BY <2>1, <2>2, <2>3, <2>4, LastGrows
  <1>3. AL!AuxSet(l, n + 1) =
          IF l[n + 1].op = "SETBUFF" /\ l[n + 1].aux THEN n + 1 ELSE AL!AuxSet(l, n)
    <2> DEFINE P(j) == l[j].op = "SETBUFF" /\ l[j].aux
               K == {j \in 1 .. n : P(j)}
    <2>1. {j \in 1 .. n + 1 : P(j)} = IF P(n + 1) THEN K \cup {n + 1} ELSE K
      BY <1>0
    <2>2. K \subseteq 1 .. n
      OBVIOUS
    <2>3. AL!AuxSet(l, n) = AL!Last(K)
          /\ AL!AuxSet(l, n + 1) = AL!Last({j \in 1 .. n + 1 : P(j)})
      BY DEF AL!AuxSet
    <2>4. P(n + 1) <=> l[n + 1].op = "SETBUFF" /\ l[n + 1].aux
      OBVIOUS
    <2> HIDE DEF K, P
    <2>5. QED
      BY <2>1, <2>2, <2>3, <2>4, LastGrows
  <1>4. AL!LoopSet(l, n + 1) = IF l[n + 1].op = "SETLOOP" THEN n + 1 ELSE AL!LoopSet(l, n)
    <2> DEFINE P(j) == l[j].op = "SETLOOP"
               K == {j \in 1 .. n : P(j)}
    <2>1. {j \in 1 .. n + 1 : P(j)} = IF P(n + 1) THEN K \cup {n + 1} ELSE K
      BY <1>0
    <2>2. K \subseteq 1 .. n
      OBVIOUS
    <2>3. AL!LoopSet(l, n) = AL!Last(K)
          /\ AL!LoopSet(l, n + 1) = AL!Last({j \in 1 .. n + 1 : P(j)})
      BY DEF AL!LoopSet
    <2>4. P(n + 1) <=> l[n + 1].op = "SETLOOP"
      OBVIOUS
    <2> HIDE DEF K, P
    <2>5. QED
      BY <2>1, <2>2, <2>3, <2>4, LastGrows
  <1>5. AL!VolumeSet(l, n + 1, v) =
          IF l[n + 1].op = "SETVOL" /\ l[n + 1].what = v THEN n + 1
          ELSE AL!VolumeSet(l, n, v)
    <2> DEFINE P(j) == l[j].op = "SETVOL" /\ l[j].what = v
               K == {j \in 1 .. n : P(j)}
    <2>1. {j \in 1 .. n + 1 : P(j)} = IF P(n + 1) THEN K \cup {n + 1} ELSE K
      BY <1>0
    <2>2. K \subseteq 1 .. n
      OBVIOUS
    <2>3. AL!VolumeSet(l, n, v) = AL!Last(K)
          /\ AL!VolumeSet(l, n + 1, v) = AL!Last({j \in 1 .. n + 1 : P(j)})
      BY DEF AL!VolumeSet
    <2>4. P(n + 1) <=> l[n + 1].op = "SETVOL" /\ l[n + 1].what = v
      OBVIOUS
    <2> HIDE DEF K, P
    <2>5. QED
      BY <2>1, <2>2, <2>3, <2>4, LastGrows
  <1>6. QED
    BY <1>1, <1>2, <1>3, <1>4, <1>5

LEMMA NothingSet ==
  ASSUME NEW l, NEW s, NEW v
  PROVE  /\ AL!SegmentSet(l, 0, s) = 0 /\ AL!BuffersSet(l, 0) = 0 /\ AL!AuxSet(l, 0) = 0
         /\ AL!LoopSet(l, 0) = 0 /\ AL!VolumeSet(l, 0, v) = 0
  <1>1. \A j : j \notin 1 .. 0
    OBVIOUS
  <1>2. QED
    BY <1>1, LastOfNone
    DEF AL!SegmentSet, AL!BuffersSet, AL!AuxSet, AL!LoopSet, AL!VolumeSet

-----------------------------------------------------------------------------
(* The invariant                                                           *)

\* The dispatch: what is left of the block is the beginning of what is left of
\* the list.
ControlInv ==
  /\ phase \in {"idle", "loop", "fetch"}
  /\ r27 \in Nat /\ r28 \in Nat \ {0} /\ r29 \in Nat \ {0} /\ r30 \in Nat
  /\ r29 + r30 <= Block + 1
  /\ buf = [k \in 1 .. Block |-> buf[k]]
  /\ phase = "idle" => list = <<>> /\ r30 = 0
  /\ phase # "idle" => list \in Lists /\ r27 = Len(list) - r28 + 1 /\ r30 <= r27
  /\ phase = "fetch" => r30 > 0
  /\ \A k \in 0 .. r30 - 1 : buf[r29 + k] = list[r28 + k]

\* Of the segments sg and the parameters p, those that the first n commands of l
\* set are what they were set to, and segment 0 is 0 until it is set.  The others
\* are an earlier list's, of which nothing is said.
SegmentsMean(l, n, sg) ==
  \A s \in 0 .. 15 : s = 0 \/ AL!SegmentSet(l, n, s) # 0 => sg[s] = AL!Base(l, n, s)
VolumesMean(l, n, vol) ==
  \A v \in AL!Volumes :
    AL!VolumeSet(l, n, v) # 0 => vol[v] = l[AL!VolumeSet(l, n, v)].level

Meaning(l, n, sg, p) ==
  /\ SegmentsMean(l, n, sg)
  /\ VolumesMean(l, n, p.vol)
  /\ AL!BuffersSet(l, n) # 0 =>
       LET b == l[AL!BuffersSet(l, n)]
       IN  /\ b.in \in Nat /\ b.out \in Nat
           /\ p.in = Buffers + b.in /\ p.out = Buffers + b.out /\ p.count = b.count
  /\ AL!AuxSet(l, n) # 0 =>
       LET a == l[AL!AuxSet(l, n)]
       IN  /\ a.in \in Nat /\ a.out \in Nat /\ a.count \in Nat
           /\ p.dry = Buffers + a.in /\ p.wetl = Buffers + a.out /\ p.wetr = Buffers + a.count
  /\ AL!LoopSet(l, n) \in 0 .. n /\ AL!LeftSet(l, n) \in 0 .. n
  /\ AL!LoopSet(l, n) # 0 => l[AL!LoopSet(l, n)].op = "SETLOOP"
  /\ AL!LoopSet(l, n) > AL!LeftSet(l, n) =>
       p.word = "loop" /\ p.loop = AL!Place(l, AL!LoopSet(l, n))
  /\ AL!LeftSet(l, n) > AL!LoopSet(l, n) => p.word = "volume"

Parameters == [in : Nat, out : Nat, count : Nat, dry : Nat, wetl : Nat, wetr : Nat,
               vol : AL!Levels, word : {"nothing", "loop", "volume"}, loop : Nat]

ParamInv ==
  /\ segs \in [0 .. 15 -> Nat] /\ par \in Parameters
  /\ phase # "idle" => Meaning(list, r28 - 1, segs, par)

MemoryInv == intact = TRUE /\ fresh \subseteq 0 .. 511

StreamInv ==
  /\ saved \in [Places -> AL!State]
  /\ scratch \in {AL!Silence, AL!Stale}
  /\ output \in {"nothing", "new", "stale"}

Inv == ControlInv /\ ParamInv /\ MemoryInv /\ StreamInv

-----------------------------------------------------------------------------
(* The command at hand                                                     *)

\* Each kind of command has the fields its handler reads.
LEMMA Formats ==
  ASSUME NEW c \in AL!Command
  PROVE  /\ c.op = "SEGMENT" => c.seg \in 0 .. 15 /\ c.base \in Nat
         /\ c.op = "SETBUFF" =>
              c.aux \in BOOLEAN /\ c.in \in Nat /\ c.out \in Nat /\ c.count \in Nat
         /\ c.op = "SETVOL" => c.what \in AL!Volumes /\ c.level \in Nat
         /\ c.op \in {"SETLOOP", "ADPCM", "POLEF", "RESAMPLE", "ENVMIXER"} =>
              c.seg \in 0 .. 15 /\ c.off \in Nat
         /\ c.op \in {"LOADADPCM", "CLEARBUFF", "DMEMMOVE"} => c.count \in Nat
         /\ c.op \in {"CLEARBUFF", "DMEMMOVE", "MIXER"} => c.dst \in Nat
         /\ c.op \in {"ADPCM", "POLEF", "RESAMPLE", "ENVMIXER"} => c.init \in BOOLEAN
         /\ c.op = "ADPCM" => c.loop \in BOOLEAN
         /\ c.op = "ENVMIXER" => c.aux \in BOOLEAN
         /\ c.op = "INTERLEAVE" => c.left \in Nat /\ c.right \in Nat
         /\ c.op \in {"DMEMMOVE", "MIXER"} => c.src \in Nat
  BY DEF AL!Command, AL!Segments

\* When the dispatch is at a command, it is the next one of the list, one the
\* list's rules hold of.
LEMMA AtHand ==
  ASSUME ControlInv, phase = "fetch"
  PROVE  /\ list \in Lists /\ r28 \in 1 .. Len(list) /\ r29 \in 1 .. Block
         /\ Len(list) \in Nat
         /\ Cmd = list[r28] /\ Cmd \in AL!Command
         /\ AL!CommandFits(list, r28) /\ LaidOut(list, r28)
  <1>1. list \in Lists /\ list \in Seq(AL!Command)
    BY ListsAssumption DEF ControlInv
  <1>2. /\ r27 \in Nat /\ r28 \in Nat \ {0} /\ r29 \in Nat \ {0} /\ r30 \in Nat /\ r30 > 0
        /\ r29 + r30 <= Block + 1 /\ r27 = Len(list) - r28 + 1 /\ r30 <= r27
        /\ \A k \in 0 .. r30 - 1 : buf[r29 + k] = list[r28 + k]
    BY DEF ControlInv
  <1>len. Len(list) \in Nat
    BY <1>1
  <1>3. r28 \in 1 .. Len(list) /\ r29 \in 1 .. Block
    BY <1>2, <1>len, BlockAssumption
  <1>4. Cmd = list[r28]
    <2>1. 0 \in 0 .. r30 - 1
      BY <1>2
    <2>2. buf[r29 + 0] = list[r28 + 0]
      BY <1>2, <2>1
    <2>3. r29 + 0 = r29 /\ r28 + 0 = r28
      BY <1>2
    <2>4. QED
      BY <2>2, <2>3 DEF Cmd
  <1>5. list[r28] \in AL!Command
    BY <1>1, <1>3
  <1>6. AL!CommandFits(list, r28) /\ LaidOut(list, r28)
    BY <1>1, <1>3, ListsAssumption, LayoutAssumption DEF AL!WellFormed
  <1>7. QED
    BY <1>1, <1>len, <1>3, <1>4, <1>5, <1>6

\* After the command the dispatch is one further, if its handler left the block.
LEMMA Carried ==
  ASSUME ControlInv, NEW op, Dispatch(op), buf' = buf
  PROVE  ControlInv'
  <1>1. phase = "fetch" /\ phase' = "loop" /\ list' = list
        /\ r27' = r27 - 1 /\ r28' = r28 + 1 /\ r29' = r29 + 1 /\ r30' = r30 - 1
    BY DEF Dispatch
  <1>2. /\ r27 \in Nat /\ r28 \in Nat \ {0} /\ r29 \in Nat \ {0} /\ r30 \in Nat /\ r30 > 0
        /\ r29 + r30 <= Block + 1 /\ r27 = Len(list) - r28 + 1 /\ r30 <= r27
        /\ list \in Lists
        /\ \A k \in 0 .. r30 - 1 : buf[r29 + k] = list[r28 + k]
    BY <1>1 DEF ControlInv
  <1>3. r28 \in 1 .. Len(list) /\ Len(list) \in Nat
    BY <1>1, AtHand
  <1>4. \A k \in 0 .. r30' - 1 : buf'[r29' + k] = list'[r28' + k]
    <2> SUFFICES ASSUME NEW k \in 0 .. r30 - 2
                 PROVE  buf[r29 + 1 + k] = list[r28 + 1 + k]
      BY <1>1, <1>2
    <2>1. k + 1 \in 0 .. r30 - 1
      BY <1>2
    <2>2. buf[r29 + (k + 1)] = list[r28 + (k + 1)]
      BY <1>2, <2>1
    <2>3. r29 + (k + 1) = r29 + 1 + k /\ r28 + (k + 1) = r28 + 1 + k
      BY <1>2
    <2>4. QED
      BY <2>2, <2>3
  <1>5. /\ r27' \in Nat /\ r28' \in Nat \ {0} /\ r29' \in Nat \ {0} /\ r30' \in Nat
        /\ r29' + r30' <= Block + 1 /\ r27' = Len(list') - r28' + 1 /\ r30' <= r27'
    BY <1>1, <1>2, <1>3, BlockAssumption
  <1>6. buf' = [k \in 1 .. Block |-> buf'[k]]
    BY DEF ControlInv
  <1>7. QED
    BY <1>1, <1>2, <1>4, <1>5, <1>6 DEF ControlInv

-----------------------------------------------------------------------------
(* Data memory                                                             *)

\* The commands fetched lie below the codebook: doublewords 112 to 151.
Above == 152 .. 511
DataEnd == 4096

LEMMA WriteKeeps ==
  ASSUME ControlInv, MemoryInv, NEW w, w \subseteq Above, NEW f, f \subseteq 0 .. 511, Write(w, f)
  PROVE  MemoryInv' /\ buf' = buf
  <1>1. \A d \in w : d \in 112 .. 511
    BY DEF Above
  <1>2. MemoryInv'
    BY <1>1 DEF Write, MemoryInv
  <1>3. Left(w) = [k \in 1 .. Block |-> buf[k]]
    <2>1. \A k \in 1 .. Block : (Commands + 8 * (k - 1)) \div 8 \notin w
      BY BlockAssumption DEF Commands, Above
    <2>2. QED
      BY <2>1 DEF Left
  <1>4. QED
    BY <1>2, <1>3 DEF Write, ControlInv

\* A span that begins at or above the codebook and ends within data memory.
LEMMA Spans ==
  ASSUME NEW from \in Nat, NEW n \in Nat, from + n <= DataEnd
  PROVE  /\ from >= Codebook => Touched(from, n) \subseteq Above
         /\ Covered(from, n) \subseteq 0 .. 511
  <1>1. \A d \in Covered(from, n) : d \in Nat /\ d <= 511
    BY SMT DEF Covered, Up, DataEnd
  <1>2. from >= Codebook => \A d \in Touched(from, n) : d \in Nat /\ 152 <= d /\ d <= 511
    BY SMT DEF Touched, Codebook, DataEnd
  <1>3. \A d \in Nat : d <= 511 => d \in 0 .. 511 /\ (152 <= d => d \in Above)
    BY SMT DEF Above
  <1>4. QED
    BY <1>1, <1>2, <1>3

\* Rounding up to d bytes adds less than d.
LEMMA Rounds ==
  ASSUME NEW n \in Nat
  PROVE  /\ Up(n, 16) \in Nat /\ 16 * Up(n, 16) \in Nat /\ 16 * Up(n, 16) <= n + 15
         /\ Up(n, 32) \in Nat /\ 32 * Up(n, 32) \in Nat /\ 32 * Up(n, 32) <= n + 31
  BY DEF Up

-----------------------------------------------------------------------------
(* Segments, buffers, volumes and loop points                              *)

\* A list that sets nothing yet means nothing, but for segment 0.
LEMMA MeaningStarts ==
  ASSUME NEW l, NEW sg, sg[0] = 0, NEW p
  PROVE  Meaning(l, 0, sg, p)
  <1>1. /\ AL!BuffersSet(l, 0) = 0 /\ AL!AuxSet(l, 0) = 0 /\ AL!LoopSet(l, 0) = 0
        /\ \A v : AL!VolumeSet(l, 0, v) = 0
        /\ \A s : AL!SegmentSet(l, 0, s) = 0
    BY NothingSet
  <1>2. SegmentsMean(l, 0, sg) /\ VolumesMean(l, 0, p.vol)
    BY <1>1 DEF SegmentsMean, VolumesMean, AL!Base
  <1>3. AL!LeftSet(l, 0) = 0
    BY <1>1 DEF AL!LeftSet
  <1>4. QED
    BY <1>1, <1>2, <1>3 DEF Meaning

\* What sets none of them leaves their meaning.
LEMMA MeaningSame ==
  ASSUME NEW l, NEW n \in Nat, NEW sg, NEW p, Meaning(l, n, sg, p),
         \A s : AL!SegmentSet(l, n + 1, s) = AL!SegmentSet(l, n, s),
         AL!BuffersSet(l, n + 1) = AL!BuffersSet(l, n),
         AL!AuxSet(l, n + 1) = AL!AuxSet(l, n),
         AL!LoopSet(l, n + 1) = AL!LoopSet(l, n),
         \A v : AL!VolumeSet(l, n + 1, v) = AL!VolumeSet(l, n, v)
  PROVE  Meaning(l, n + 1, sg, p)
  <1>1. SegmentsMean(l, n + 1, sg) /\ VolumesMean(l, n + 1, p.vol)
    BY DEF Meaning, SegmentsMean, VolumesMean, AL!Base
  <1>2. AL!LeftSet(l, n + 1) = AL!LeftSet(l, n)
    BY DEF AL!LeftSet
  <1>3. QED
    BY <1>1, <1>2 DEF Meaning

LEMMA MeaningKept ==
  ASSUME NEW l, NEW n \in Nat, NEW sg, NEW p, Meaning(l, n, sg, p),
         l[n + 1].op \notin {"SEGMENT", "SETBUFF", "SETVOL", "SETLOOP"}
  PROVE  Meaning(l, n + 1, sg, p)
  <1>1. /\ \A s : AL!SegmentSet(l, n + 1, s) = AL!SegmentSet(l, n, s)
        /\ AL!BuffersSet(l, n + 1) = AL!BuffersSet(l, n)
        /\ AL!AuxSet(l, n + 1) = AL!AuxSet(l, n)
        /\ AL!LoopSet(l, n + 1) = AL!LoopSet(l, n)
        /\ \A v : AL!VolumeSet(l, n + 1, v) = AL!VolumeSet(l, n, v)
    BY SetsGrow
  <1>2. QED
    BY <1>1, MeaningSame

LEMMA SegmentMeans ==
  ASSUME NEW l, NEW n \in Nat, NEW sg \in [0 .. 15 -> Nat], NEW p, Meaning(l, n, sg, p),
         l[n + 1].op = "SEGMENT"
  PROVE  Meaning(l, n + 1, [sg EXCEPT ![l[n + 1].seg] = l[n + 1].base], p)
  <1> DEFINE c == l[n + 1]
             sg2 == [sg EXCEPT ![c.seg] = c.base]
  <1>1. /\ \A s : AL!SegmentSet(l, n + 1, s) = IF c.seg = s THEN n + 1 ELSE AL!SegmentSet(l, n, s)
        /\ AL!BuffersSet(l, n + 1) = AL!BuffersSet(l, n)
        /\ AL!AuxSet(l, n + 1) = AL!AuxSet(l, n)
        /\ AL!LoopSet(l, n + 1) = AL!LoopSet(l, n)
        /\ \A v : AL!VolumeSet(l, n + 1, v) = AL!VolumeSet(l, n, v)
    BY SetsGrow
  <1>2. SegmentsMean(l, n + 1, sg2)
    <2> SUFFICES ASSUME NEW s \in 0 .. 15, s = 0 \/ AL!SegmentSet(l, n + 1, s) # 0
                 PROVE  sg2[s] = AL!Base(l, n + 1, s)
      BY DEF SegmentsMean
    <2>1. CASE c.seg = s
      BY <1>1, <2>1 DEF AL!Base
    <2>2. CASE c.seg # s
      BY <1>1, <2>2 DEF AL!Base, Meaning, SegmentsMean
    <2>3. QED
      BY <2>1, <2>2
  <1> HIDE DEF sg2
  <1>vol. VolumesMean(l, n + 1, p.vol) /\ AL!LeftSet(l, n + 1) = AL!LeftSet(l, n)
    BY <1>1 DEF Meaning, VolumesMean, AL!LeftSet
  <1>3. Meaning(l, n + 1, sg2, p)
    BY <1>1, <1>vol, <1>2 DEF Meaning
  <1>4. QED
    BY <1>3 DEF sg2

LEMMA SetbuffMeans ==
  ASSUME NEW l, NEW n \in Nat, NEW sg, NEW p, NEW q, Meaning(l, n, sg, p),
         l[n + 1].op = "SETBUFF", l[n + 1].in \in Nat, l[n + 1].out \in Nat,
         l[n + 1].count \in Nat, q.vol = p.vol, q.word = p.word, q.loop = p.loop,
         IF l[n + 1].aux
           THEN /\ q.dry = Buffers + l[n + 1].in /\ q.wetl = Buffers + l[n + 1].out
                /\ q.wetr = Buffers + l[n + 1].count
                /\ q.in = p.in /\ q.out = p.out /\ q.count = p.count
           ELSE /\ q.in = Buffers + l[n + 1].in /\ q.out = Buffers + l[n + 1].out
                /\ q.count = l[n + 1].count
                /\ q.dry = p.dry /\ q.wetl = p.wetl /\ q.wetr = p.wetr
  PROVE  Meaning(l, n + 1, sg, q)
  <1>1. /\ \A s : AL!SegmentSet(l, n + 1, s) = AL!SegmentSet(l, n, s)
        /\ AL!BuffersSet(l, n + 1) = IF l[n + 1].aux THEN AL!BuffersSet(l, n) ELSE n + 1
        /\ AL!AuxSet(l, n + 1) = IF l[n + 1].aux THEN n + 1 ELSE AL!AuxSet(l, n)
        /\ AL!LoopSet(l, n + 1) = AL!LoopSet(l, n)
        /\ \A v : AL!VolumeSet(l, n + 1, v) = AL!VolumeSet(l, n, v)
    BY SetsGrow
  <1>vol. /\ SegmentsMean(l, n + 1, sg) /\ VolumesMean(l, n + 1, q.vol)
          /\ AL!LeftSet(l, n + 1) = AL!LeftSet(l, n)
    BY <1>1 DEF Meaning, SegmentsMean, VolumesMean, AL!Base, AL!LeftSet
  <1>2. CASE l[n + 1].aux
    BY <1>1, <1>vol, <1>2 DEF Meaning
  <1>3. CASE ~l[n + 1].aux
    BY <1>1, <1>vol, <1>3 DEF Meaning
  <1>4. QED
    BY <1>2, <1>3

\* The parameters q are p with the volume that c sets.
VolumeStored(c, p, q) ==
  /\ q.in = p.in /\ q.out = p.out /\ q.count = p.count
  /\ q.dry = p.dry /\ q.wetl = p.wetl /\ q.wetr = p.wetr /\ q.loop = p.loop
  /\ q.vol = [p.vol EXCEPT ![c.what] = c.level]
  /\ q.word = IF c.what = "left target" THEN "volume" ELSE p.word

LEMMA SetvolMeans ==
  ASSUME NEW l, NEW n \in Nat, NEW sg, NEW p \in Parameters, Meaning(l, n, sg, p),
         l[n + 1].op = "SETVOL", l[n + 1].what \in AL!Volumes, NEW q,
         VolumeStored(l[n + 1], p, q)
  PROVE  Meaning(l, n + 1, sg, q)
  <1> DEFINE c == l[n + 1]
  <1>1. /\ \A s : AL!SegmentSet(l, n + 1, s) = AL!SegmentSet(l, n, s)
        /\ AL!BuffersSet(l, n + 1) = AL!BuffersSet(l, n)
        /\ AL!AuxSet(l, n + 1) = AL!AuxSet(l, n)
        /\ AL!LoopSet(l, n + 1) = AL!LoopSet(l, n)
        /\ \A v : AL!VolumeSet(l, n + 1, v) =
                    IF c.what = v THEN n + 1 ELSE AL!VolumeSet(l, n, v)
    BY SetsGrow
  <1>range. /\ AL!LoopSet(l, n) \in 0 .. n /\ AL!LeftSet(l, n) \in 0 .. n
            /\ AL!LeftSet(l, n + 1) = IF c.what = "left target" THEN n + 1
                                      ELSE AL!LeftSet(l, n)
    BY <1>1 DEF Meaning, AL!LeftSet
  <1> DEFINE vols == [p.vol EXCEPT ![c.what] = c.level]
  <1>3. VolumesMean(l, n + 1, vols)
    <2>0. p.vol \in [AL!Volumes -> Nat]
      BY DEF Parameters, AL!Levels
    <2> SUFFICES ASSUME NEW v \in AL!Volumes, AL!VolumeSet(l, n + 1, v) # 0
                 PROVE  vols[v] = l[AL!VolumeSet(l, n + 1, v)].level
      BY DEF VolumesMean
    <2>1. CASE c.what = v
      BY <1>1, <2>0, <2>1
    <2>2. CASE c.what # v
      BY <1>1, <2>0, <2>2 DEF Meaning, VolumesMean
    <2>3. QED
      BY <2>1, <2>2
  <1> HIDE DEF vols
  <1>4. SegmentsMean(l, n + 1, sg)
    BY <1>1 DEF Meaning, SegmentsMean, AL!Base
  <1>5. /\ AL!BuffersSet(l, n + 1) # 0 =>
             LET b == l[AL!BuffersSet(l, n + 1)]
             IN  /\ b.in \in Nat /\ b.out \in Nat
                 /\ q.in = Buffers + b.in /\ q.out = Buffers + b.out /\ q.count = b.count
        /\ AL!AuxSet(l, n + 1) # 0 =>
             LET a == l[AL!AuxSet(l, n + 1)]
             IN  /\ a.in \in Nat /\ a.out \in Nat /\ a.count \in Nat
                 /\ q.dry = Buffers + a.in /\ q.wetl = Buffers + a.out
                 /\ q.wetr = Buffers + a.count
        /\ AL!LoopSet(l, n + 1) # 0 => l[AL!LoopSet(l, n + 1)].op = "SETLOOP"
    BY <1>1 DEF Meaning, VolumeStored
  <1>6. /\ AL!LoopSet(l, n + 1) \in 0 .. n + 1 /\ AL!LeftSet(l, n + 1) \in 0 .. n + 1
        /\ AL!LoopSet(l, n + 1) > AL!LeftSet(l, n + 1) =>
             q.word = "loop" /\ q.loop = AL!Place(l, AL!LoopSet(l, n + 1))
        /\ AL!LeftSet(l, n + 1) > AL!LoopSet(l, n + 1) => q.word = "volume"
    <2>1. AL!LoopSet(l, n + 1) = AL!LoopSet(l, n)
      BY <1>1
    <2>2. CASE c.what = "left target"
      <3>1. AL!LeftSet(l, n + 1) = n + 1 /\ q.word = "volume"
        BY <1>range, <2>2 DEF VolumeStored
      <3>2. AL!LoopSet(l, n + 1) \in 0 .. n
        BY <1>range, <2>1
      <3> HIDE DEF c
      <3>3. QED
        BY <3>1, <3>2
    <2>3. CASE c.what # "left target"
      <3>1. AL!LeftSet(l, n + 1) = AL!LeftSet(l, n) /\ q.word = p.word /\ q.loop = p.loop
        BY <1>range, <2>3 DEF VolumeStored
      <3>2. /\ AL!LoopSet(l, n) > AL!LeftSet(l, n) =>
                 p.word = "loop" /\ p.loop = AL!Place(l, AL!LoopSet(l, n))
            /\ AL!LeftSet(l, n) > AL!LoopSet(l, n) => p.word = "volume"
        BY DEF Meaning
      <3>3. /\ AL!LoopSet(l, n) \in 0 .. n + 1 /\ AL!LeftSet(l, n) \in 0 .. n + 1
        <4>1. \A k \in 0 .. n : k \in 0 .. n + 1
          OBVIOUS
        <4>2. QED
          BY <1>range, <4>1
      <3>4. QED
        BY <2>1, <3>1, <3>2, <3>3
    <2>4. QED
      BY <2>2, <2>3
  <1>7. q.vol = vols
    BY DEF vols, VolumeStored
  <1>8. QED
    BY <1>3, <1>4, <1>5, <1>6, <1>7 DEF Meaning

LEMMA SetloopMeans ==
  ASSUME NEW l, NEW n \in Nat, NEW sg, NEW p \in Parameters, Meaning(l, n, sg, p),
         l[n + 1].op = "SETLOOP", l[n + 1].seg \in 0 .. 15,
         l[n + 1].seg = 0 \/ AL!SegmentSet(l, n, l[n + 1].seg) # 0
  PROVE  Meaning(l, n + 1, sg,
                 [p EXCEPT !.word = "loop", !.loop = sg[l[n + 1].seg] + l[n + 1].off])
  <1>1. /\ \A s : AL!SegmentSet(l, n + 1, s) = AL!SegmentSet(l, n, s)
        /\ AL!BuffersSet(l, n + 1) = AL!BuffersSet(l, n)
        /\ AL!AuxSet(l, n + 1) = AL!AuxSet(l, n)
        /\ AL!LoopSet(l, n + 1) = n + 1
        /\ \A v : AL!VolumeSet(l, n + 1, v) = AL!VolumeSet(l, n, v)
    BY SetsGrow
  <1> DEFINE at == sg[l[n + 1].seg] + l[n + 1].off
             q == [p EXCEPT !.word = "loop", !.loop = at]
  <1>2. at = AL!Place(l, n + 1)
    <2>1. n + 1 - 1 = n
      OBVIOUS
    <2>2. QED
      BY <2>1 DEF Meaning, SegmentsMean, AL!Place
  <1> HIDE DEF at
  <1>3. /\ q.in = p.in /\ q.out = p.out /\ q.count = p.count
        /\ q.dry = p.dry /\ q.wetl = p.wetl /\ q.wetr = p.wetr
        /\ q.vol = p.vol /\ q.word = "loop" /\ q.loop = at
    BY DEF Parameters
  <1> HIDE DEF q
  <1>vol. /\ SegmentsMean(l, n + 1, sg) /\ VolumesMean(l, n + 1, q.vol)
          /\ AL!LeftSet(l, n + 1) = AL!LeftSet(l, n)
    BY <1>1, <1>3 DEF Meaning, SegmentsMean, VolumesMean, AL!Base, AL!LeftSet
  <1>4. Meaning(l, n + 1, sg, q)
    BY <1>1, <1>vol, <1>2, <1>3 DEF Meaning
  <1>5. QED
    BY <1>4 DEF q, at

\* The buffers of the command at hand, in the parameters and in the list.
LEMMA BuffersAtHand ==
  ASSUME ControlInv, ParamInv, phase = "fetch", AL!UsesBuffers(Cmd)
  PROVE  LET b == list[AL!BuffersSet(list, r28 - 1)]
         IN  /\ b.in \in Nat /\ b.out \in Nat /\ b.count \in Nat
             /\ par.in = Buffers + b.in /\ par.out = Buffers + b.out
             /\ par.count = b.count /\ par.count = AL!Count(list, r28)
  <1>1. AL!BuffersSet(list, r28 - 1) # 0
    BY AtHand DEF AL!CommandFits
  <1>2. Meaning(list, r28 - 1, segs, par) /\ par.count \in Nat
    BY DEF ParamInv, Parameters
  <1>3. QED
    BY <1>1, <1>2 DEF Meaning, AL!Count

LEMMA AuxAtHand ==
  ASSUME ControlInv, ParamInv, phase = "fetch", Cmd.op = "ENVMIXER"
  PROVE  LET a == list[AL!AuxSet(list, r28 - 1)]
         IN  /\ a.in \in Nat /\ a.out \in Nat /\ a.count \in Nat
             /\ par.dry = Buffers + a.in /\ par.wetl = Buffers + a.out
             /\ par.wetr = Buffers + a.count
  <1>1. AL!AuxSet(list, r28 - 1) # 0
    BY AtHand DEF AL!CommandFits, AL!Mixes
  <1>2. Meaning(list, r28 - 1, segs, par)
    BY DEF ParamInv
  <1>3. QED
    BY <1>1, <1>2 DEF Meaning

\* A segment's address is the one the list means.
LEMMA PlaceAtHand ==
  ASSUME ControlInv, ParamInv, phase = "fetch", AL!UsesSegment(Cmd), Cmd.seg \in 0 .. 15
  PROVE  Resolve(Cmd) = AL!Place(list, r28)
  <1>1. Cmd = list[r28] /\ Meaning(list, r28 - 1, segs, par)
    BY AtHand DEF ParamInv
  <1>2. Cmd.seg = 0 \/ AL!SegmentSet(list, r28 - 1, Cmd.seg) # 0
    BY <1>1, AtHand DEF AL!CommandFits
  <1>3. QED
    BY <1>1, <1>2 DEF Meaning, SegmentsMean, Resolve, AL!Place

-----------------------------------------------------------------------------
(* What the handlers write                                                 *)

\* In bytes: where the output of each handler lies once it is rounded.
LEMMA OutputFits ==
  ASSUME ControlInv, ParamInv, phase = "fetch",
         Cmd.op \in {"ADPCM", "POLEF", "RESAMPLE", "ENVMIXER"}
  PROVE  /\ par.in \in Nat /\ par.in >= Buffers /\ par.out \in Nat /\ par.out >= Buffers
         /\ par.count \in Nat /\ par.out + par.count <= Buffers + Room
  <1> DEFINE b == list[AL!BuffersSet(list, r28 - 1)]
  <1>1. AL!UsesBuffers(Cmd)
    BY DEF AL!UsesBuffers, AL!Decodes, AL!Filters, AL!Runs, AL!Mixes
  <1>2. /\ b.in \in Nat /\ b.out \in Nat /\ b.count \in Nat
        /\ par.in = Buffers + b.in /\ par.out = Buffers + b.out /\ par.count = b.count
    BY <1>1, BuffersAtHand
  <1>3. b.out + b.count <= Room
    BY AtHand DEF LaidOut
  <1> HIDE DEF b
  <1>4. QED
    BY <1>2, <1>3, SMT DEF Buffers, Room

\* The blocks a handler makes, sixteen bytes wide or thirty-two, lie in data
\* memory with the last of them.
LEMMA BlocksWithin ==
  ASSUME NEW srcs, NEW dst \in Nat, NEW w, NEW n \in Nat, NEW bytes \in Nat,
         (w = 16 /\ bytes = 16 * n) \/ (w = 32 /\ bytes = 32 * n),
         dst + bytes <= DataEnd
  PROVE  BlocksFresh(srcs, dst, w, n) \subseteq 0 .. 511
  <1> DEFINE part(k) == Covered(dst + w * k, w)
  <1>1. ASSUME NEW k \in 0 .. n - 1
        PROVE  part(k) \subseteq 0 .. 511
    <2>1. CASE w = 16
      <3>1. dst + 16 * k \in Nat /\ dst + 16 * k + 16 <= DataEnd
        BY <2>1, SMT DEF DataEnd
      <3>2. Covered(dst + 16 * k, 16) \subseteq 0 .. 511
        BY <3>1, Spans
      <3>3. QED
        BY <2>1, <3>2
    <2>2. CASE w = 32
      <3>1. dst + 32 * k \in Nat /\ dst + 32 * k + 32 <= DataEnd
        BY <2>2, SMT DEF DataEnd
      <3>2. Covered(dst + 32 * k, 32) \subseteq 0 .. 511
        BY <3>1, Spans
      <3>3. QED
        BY <2>2, <3>2
    <2>3. QED
      BY <2>1, <2>2
  <1> DEFINE good(k) == \A s \in srcs : Touched(s + 16 * k, 16) \subseteq fresh
             K == {k \in 0 .. n - 1 : good(k)}
  <1>2. BlocksFresh(srcs, dst, w, n) = UNION {Covered(dst + w * k, w) : k \in K}
    BY DEF BlocksFresh
  <1>3. K \subseteq 0 .. n - 1
    OBVIOUS
  <1> HIDE DEF K
  <1>4. BlocksFresh(srcs, dst, w, n) = UNION {part(k) : k \in K}
    BY <1>2
  <1> HIDE DEF part
  <1>5. QED
    BY <1>1, <1>3, <1>4

\* A handler that works on blocks of sixteen bytes, or of the width w, writes
\* where it may.
LEMMA ThroughKeeps ==
  ASSUME ControlInv, MemoryInv, NEW srcs, NEW dst \in Nat, NEW w, NEW n \in Nat,
         NEW bytes \in Nat, (w = 16 /\ bytes = 16 * n) \/ (w = 32 /\ bytes = 32 * n),
         dst >= Codebook, dst + bytes <= DataEnd, Through(srcs, dst, w, n)
  PROVE  MemoryInv' /\ buf' = buf
  <1>1. w * n = bytes
    OBVIOUS
  <1>2. Touched(dst, w * n) \subseteq Above
    BY <1>1, Spans
  <1>3. BlocksFresh(srcs, dst, w, n) \subseteq 0 .. 511
    BY BlocksWithin
  <1> DEFINE t == Touched(dst, w * n)
             f == (fresh \ t) \cup BlocksFresh(srcs, dst, w, n)
  <1>4. Write(t, f)
    BY DEF Through
  <1>5. f \subseteq 0 .. 511
    BY <1>3 DEF MemoryInv
  <1> HIDE DEF t, f
  <1>6. t \subseteq Above
    BY <1>2 DEF t
  <1>7. QED
    BY <1>4, <1>5, <1>6, WriteKeeps

LEMMA MakeKeeps ==
  ASSUME ControlInv, MemoryInv, NEW reads, NEW w, w \subseteq Above, NEW covers,
         covers \subseteq 0 .. 511, Make(reads, w, covers)
  PROVE  MemoryInv' /\ buf' = buf
  <1> DEFINE f == (fresh \ w) \cup (IF reads \subseteq fresh THEN covers ELSE {})
  <1>1. f \subseteq 0 .. 511
    BY DEF MemoryInv
  <1>2. Write(w, f)
    BY DEF Make
  <1> HIDE DEF f
  <1>3. QED
    BY <1>1, <1>2, WriteKeeps

\* No handler writes below the codebook, and none beyond data memory.
LEMMA HandlersKeep ==
  ASSUME ControlInv, ParamInv, MemoryInv, Handlers
  PROVE  MemoryInv' /\ buf' = buf
  <1> DEFINE b == list[AL!BuffersSet(list, r28 - 1)]
             a == list[AL!AuxSet(list, r28 - 1)]
             Kept == MemoryInv' /\ buf' = buf
  <1>fetch. phase = "fetch"
    BY DEF Handlers, Dispatch, SPNOOP, CLEARBUFF, LOADBUFF, SAVEBUFF, LOADADPCM, SEGMENT,
           SETBUFF, SETVOL, SETLOOP, INTERLEAVE, DMEMMOVE, MIXER, ADPCM, POLEF, RESAMPLE, ENVMIXER
  <1>c. Cmd \in AL!Command /\ LaidOut(list, r28) /\ Cmd = list[r28]
    BY <1>fetch, AtHand
  <1>b. ASSUME AL!UsesBuffers(Cmd)
        PROVE  /\ b.in \in Nat /\ b.out \in Nat /\ b.count \in Nat
               /\ par.in = Buffers + b.in /\ par.out = Buffers + b.out /\ par.count = b.count
    BY <1>b, <1>fetch, BuffersAtHand
  <1>1. CASE UNCHANGED memory
    BY <1>1 DEF memory, MemoryInv
  <1>2. CASE CLEARBUFF
    <2> DEFINE at == Buffers + Cmd.dst
               n == 16 * Up(Cmd.count, 16)
    <2>1. Cmd.op = "CLEARBUFF" /\ Write(Touched(at, n), fresh \cup Covered(at, n))
      BY <1>2 DEF CLEARBUFF, Dispatch
    <2>2. Cmd.dst \in Nat /\ Cmd.count \in Nat /\ Cmd.dst + Cmd.count <= Room
      BY <1>c, <2>1, Formats DEF LaidOut
    <2>3. n \in Nat /\ n <= Cmd.count + 15
      BY <2>2, Rounds
    <2> HIDE DEF n
    <2>4. at \in Nat /\ at >= Codebook /\ at + n <= DataEnd
      BY <2>2, <2>3, SMT DEF Buffers, Codebook, Room, DataEnd
    <2> HIDE DEF at
    <2>5. Touched(at, n) \subseteq Above /\ Covered(at, n) \subseteq 0 .. 511
      BY <2>3, <2>4, Spans
    <2>6. QED
      BY <2>1, <2>5, WriteKeeps DEF MemoryInv
  <1>3. CASE LOADBUFF
    <2>1. Cmd.op = "LOADBUFF"
          /\ Write(Touched(par.in, par.count), fresh \cup Covered(par.in, par.count))
      BY <1>3 DEF LOADBUFF, Dispatch
    <2>2. b.in + b.count <= Room
      BY <1>c, <2>1 DEF LaidOut
    <2>3. /\ b.in \in Nat /\ b.count \in Nat /\ par.in = Buffers + b.in /\ par.count = b.count
      BY <1>b, <2>1 DEF AL!UsesBuffers
    <2> HIDE DEF b
    <2>4. par.in \in Nat /\ par.count \in Nat /\ par.in >= Codebook
          /\ par.in + par.count <= DataEnd
      BY <2>2, <2>3, SMT DEF Buffers, Codebook, Room, DataEnd
    <2>5. /\ Touched(par.in, par.count) \subseteq Above
          /\ Covered(par.in, par.count) \subseteq 0 .. 511
      BY <2>4, Spans
    <2>6. QED
      BY <2>1, <2>5, WriteKeeps DEF MemoryInv
  <1>4. CASE LOADADPCM
    <2>1. Cmd.op = "LOADADPCM"
          /\ Write(Touched(Codebook, Cmd.count), fresh \cup Covered(Codebook, Cmd.count))
      BY <1>4 DEF LOADADPCM, Dispatch
    <2>2. Cmd.count \in Nat /\ Cmd.count <= Buffers - Codebook
      BY <1>c, <2>1, Formats DEF LaidOut
    <2>3. Codebook \in Nat /\ Codebook + Cmd.count <= DataEnd /\ Codebook >= Codebook
      BY <2>2, SMT DEF Buffers, Codebook, Room, DataEnd
    <2>4. /\ Touched(Codebook, Cmd.count) \subseteq Above
          /\ Covered(Codebook, Cmd.count) \subseteq 0 .. 511
      BY <2>2, <2>3, Spans
    <2>5. QED
      BY <2>1, <2>4, WriteKeeps DEF MemoryInv
  <1>5. CASE INTERLEAVE
    <2> DEFINE n == Up(par.count, 16)
    <2>1. Cmd.op = "INTERLEAVE"
          /\ Through({Buffers + Cmd.left, Buffers + Cmd.right}, par.out, 32, n)
      BY <1>5 DEF INTERLEAVE, Dispatch
    <2>2. b.out + 2 * b.count <= Room
      BY <1>c, <2>1 DEF LaidOut
    <2>3. b.out \in Nat /\ b.count \in Nat /\ par.out = Buffers + b.out /\ par.count = b.count
      BY <1>b, <2>1 DEF AL!UsesBuffers
    <2>4. n \in Nat /\ 16 * n <= par.count + 15
      BY <2>3, Rounds
    <2> HIDE DEF b, n
    <2>5. par.out \in Nat /\ par.out >= Codebook /\ par.out + 32 * n <= DataEnd
      BY <2>2, <2>3, <2>4, SMT DEF Buffers, Codebook, Room, DataEnd
    <2>6. QED
      BY <2>1, <2>4, <2>5, ThroughKeeps
  <1>6. CASE DMEMMOVE
    <2> DEFINE n == Up(Cmd.count, 16)
               dst == Buffers + Cmd.dst
    <2>1. Cmd.op = "DMEMMOVE" /\ Through({Buffers + Cmd.src}, dst, 16, n)
      BY <1>6 DEF DMEMMOVE, Dispatch
    <2>2. Cmd.dst \in Nat /\ Cmd.count \in Nat /\ Cmd.dst + Cmd.count <= Room
      BY <1>c, <2>1, Formats DEF LaidOut
    <2>3. n \in Nat /\ 16 * n <= Cmd.count + 15
      BY <2>2, Rounds
    <2> HIDE DEF n
    <2>4. dst \in Nat /\ dst >= Codebook /\ dst + 16 * n <= DataEnd
      BY <2>2, <2>3, SMT DEF Buffers, Codebook, Room, DataEnd
    <2> HIDE DEF dst
    <2>5. QED
      BY <2>1, <2>3, <2>4, ThroughKeeps
  <1>7. CASE MIXER
    <2> DEFINE n == 2 * Up(par.count, 32)
               dst == Buffers + Cmd.dst
               srcs == {Buffers + Cmd.src, dst}
               bytes == 16 * n
    <2>1. Cmd.op = "MIXER" /\ Through(srcs, dst, 16, n)
      BY <1>7 DEF MIXER, Dispatch
    <2>2. Cmd.dst \in Nat /\ Cmd.dst + b.count <= Room
      BY <1>c, <2>1, Formats DEF LaidOut
    <2>3. b.count \in Nat /\ par.count = b.count
      BY <1>b, <2>1 DEF AL!UsesBuffers
    <2>4. n \in Nat /\ 16 * n <= par.count + 31
      <3> DEFINE m == Up(par.count, 32)
      <3>1. m \in Nat /\ 32 * m <= par.count + 31
        BY <2>3, Rounds
      <3>2. n = 2 * m
        OBVIOUS
      <3> HIDE DEF m, n
      <3>3. QED
        BY <3>1, <3>2
    <2> HIDE DEF b, n, srcs
    <2>5. dst \in Nat /\ dst >= Codebook /\ bytes \in Nat /\ dst + bytes <= DataEnd
      BY <2>2, <2>3, <2>4, SMT DEF Buffers, Codebook, Room, DataEnd
    <2> HIDE DEF dst
    <2>6. QED
      BY <2>1, <2>4, <2>5, ThroughKeeps
  <1>8. CASE ADPCM
    <2> DEFINE n == 32 + 32 * AdpcmFrames
    <2>1. Cmd.op = "ADPCM" /\ Make(AdpcmReads, Touched(par.out, n), Covered(par.out, n))
      BY <1>8 DEF ADPCM, Dispatch
    <2>2. par.out \in Nat /\ par.out >= Buffers /\ par.count \in Nat
          /\ par.out + par.count <= Buffers + Room
      BY <1>fetch, <2>1, OutputFits
    <2>3. n \in Nat /\ n <= par.count + 63
      <3>1. 32 * AdpcmFrames \in Nat /\ 32 * AdpcmFrames <= par.count + 31
        BY <2>2, Rounds DEF AdpcmFrames
      <3>2. QED
        BY <2>2, <3>1
    <2> HIDE DEF n
    <2>4. par.out >= Codebook /\ par.out + n <= DataEnd
      BY <2>2, <2>3, SMT DEF Buffers, Codebook, Room, DataEnd
    <2>5. Touched(par.out, n) \subseteq Above /\ Covered(par.out, n) \subseteq 0 .. 511
      BY <2>2, <2>3, <2>4, Spans
    <2>6. QED
      BY <2>1, <2>5, MakeKeeps
  <1>9. CASE POLEF /\ PolefBlocks
    <2> DEFINE n == 16 * Up(par.count, 16)
               out == Touched(par.out, n)
               covers == IF Touched(par.in, n) \cup Touched(Codebook, 32) \subseteq fresh
                           THEN Covered(par.out, n) ELSE {}
               w == out \cup PolefScaled
               f == (fresh \ w) \cup covers
    <2>1. Cmd.op = "POLEF" /\ Write(w, f)
      BY <1>9 DEF POLEF, Dispatch, PolefBlocks
    <2>2. par.out \in Nat /\ par.out >= Buffers /\ par.count \in Nat
          /\ par.out + par.count <= Buffers + Room
      BY <1>fetch, <2>1, OutputFits
    <2>3. n \in Nat /\ n <= par.count + 15
      BY <2>2, Rounds
    <2> HIDE DEF n
    <2>4. par.out >= Codebook /\ par.out + n <= DataEnd
      BY <2>2, <2>3, SMT DEF Buffers, Codebook, Room, DataEnd
    <2>5. out \subseteq Above /\ Covered(par.out, n) \subseteq 0 .. 511
      BY <2>2, <2>3, <2>4, Spans
    <2>6. PolefScaled \subseteq Above
      <3>1. Codebook + 16 \in Nat /\ Codebook + 16 + 16 <= DataEnd /\ Codebook + 16 >= Codebook
        BY SMT DEF Codebook, DataEnd
      <3>2. QED
        BY <3>1, Spans DEF PolefScaled
    <2>7. w \subseteq Above /\ f \subseteq 0 .. 511
      BY <2>5, <2>6 DEF MemoryInv
    <2> HIDE DEF w, f
    <2>8. QED
      BY <2>1, <2>7, WriteKeeps
  <1>10. CASE RESAMPLE
    <2> DEFINE n == 16 * ResampleBlocks
               w == ResampleHistory \cup Touched(par.out, n)
    <2>1. Cmd.op = "RESAMPLE" /\ Make(ResampleReads, w, Covered(par.out, n))
      BY <1>10 DEF RESAMPLE, Dispatch
    <2>2. par.out \in Nat /\ par.out >= Buffers /\ par.count \in Nat
          /\ par.out + par.count <= Buffers + Room /\ par.in \in Nat /\ par.in >= Buffers
      BY <1>fetch, <2>1, OutputFits
    <2>3. n \in Nat /\ n <= par.count + 16
      <3>1. Up(par.count, 16) \in Nat /\ 16 * Up(par.count, 16) <= par.count + 15
        BY <2>2, Rounds
      <3>2. QED
        BY <2>2, <3>1 DEF ResampleBlocks, AtLeast
    <2> HIDE DEF n
    <2>4. par.out >= Codebook /\ par.out + n <= DataEnd
      BY <2>2, <2>3, SMT DEF Buffers, Codebook, Room, DataEnd
    <2>5. Touched(par.out, n) \subseteq Above /\ Covered(par.out, n) \subseteq 0 .. 511
      BY <2>2, <2>3, <2>4, Spans
    <2>6. ResampleHistory \subseteq Above
      <3>1. b.in <= Room /\ b.in \in Nat /\ par.in = Buffers + b.in
        BY <1>b, <1>c, <2>1 DEF LaidOut, AL!UsesBuffers, AL!Runs, AL!Mixes
      <3> HIDE DEF b
      <3>2. ASSUME NEW h \in {8, 24}
            PROVE  Touched(par.in - h, h) \subseteq Above
        <4>1. par.in - h \in Nat /\ par.in - h >= Codebook /\ par.in - h + h <= DataEnd
          BY <2>2, <3>1, SMT DEF Buffers, Codebook, Room, DataEnd
        <4>2. QED
          BY <4>1, Spans
      <3>3. QED
        BY <3>2 DEF ResampleHistory
    <2>7. w \subseteq Above
      BY <2>5, <2>6
    <2> HIDE DEF w
    <2>8. QED
      BY <2>1, <2>5, <2>7, MakeKeeps
  <1>11. CASE ENVMIXER
    <2> DEFINE n == 16 * EnvBlocks
               part(d) == Touched(d, n)
               made(d) == BlocksFresh({par.in, d}, d, 16, EnvBlocks)
               w == EnvWet \cup UNION {part(d) : d \in EnvMixes}
               f == (fresh \ w) \cup UNION {made(d) : d \in EnvMixes}
    <2>1. Cmd.op = "ENVMIXER" /\ Write(w, f)
      BY <1>11 DEF ENVMIXER, Dispatch
    <2>2. par.out \in Nat /\ par.out >= Buffers /\ par.count \in Nat
          /\ par.out + par.count <= Buffers + Room
      BY <1>fetch, <2>1, OutputFits
    <2>3. EnvBlocks \in Nat /\ n \in Nat /\ n <= par.count + 32
      <3>1. Up(par.count, 16) \in Nat /\ 16 * Up(par.count, 16) <= par.count + 15
        BY <2>2, Rounds
      <3>2. QED
        BY <2>2, <3>1 DEF EnvBlocks, AtLeast
    <2>4. ASSUME NEW d \in EnvMixes
          PROVE  d \in Nat /\ d >= Buffers /\ d + par.count <= Buffers + Room
      <3>1. /\ a.in \in Nat /\ a.out \in Nat /\ a.count \in Nat
            /\ par.dry = Buffers + a.in /\ par.wetl = Buffers + a.out
            /\ par.wetr = Buffers + a.count
        BY <1>fetch, <2>1, AuxAtHand
      <3>2. /\ a.in + b.count <= Room
            /\ Cmd.aux => a.out + b.count <= Room /\ a.count + b.count <= Room
        BY <1>c, <2>1 DEF LaidOut
      <3>3. par.count = b.count
        BY <1>b, <2>1 DEF AL!UsesBuffers, AL!Runs, AL!Mixes
      <3> HIDE DEF a, b
      <3>4. /\ par.dry \in Nat /\ par.dry >= Buffers /\ par.dry + par.count <= Buffers + Room
            /\ Cmd.aux => /\ par.wetl \in Nat /\ par.wetl >= Buffers
                           /\ par.wetl + par.count <= Buffers + Room
                           /\ par.wetr \in Nat /\ par.wetr >= Buffers
                           /\ par.wetr + par.count <= Buffers + Room
        BY <2>2, <3>1, <3>2, <3>3, SMT DEF Buffers, Room
      <3>5. d \in {par.out, par.dry} \/ (Cmd.aux /\ d \in {par.wetl, par.wetr})
        BY DEF EnvMixes
      <3>6. QED
        BY <2>2, <3>4, <3>5
    <2>5. n = 16 * EnvBlocks
      OBVIOUS
    <2> HIDE DEF n
    <2>6. ASSUME NEW d \in EnvMixes
          PROVE  part(d) \subseteq Above /\ made(d) \subseteq 0 .. 511
      <3>1. d \in Nat /\ d >= Codebook /\ d + n <= DataEnd
        BY <2>2, <2>3, <2>4, SMT DEF Buffers, Codebook, Room, DataEnd
      <3>2. part(d) \subseteq Above
        BY <2>3, <3>1, Spans
      <3>3. made(d) \subseteq 0 .. 511
        BY <2>3, <2>5, <3>1, BlocksWithin
      <3>4. QED
        BY <3>2, <3>3
    <2>7. EnvWet \subseteq Above
      <3>1. Wet \in Nat /\ Wet + 16 <= DataEnd /\ Wet >= Codebook
        BY SMT DEF Wet, Codebook, DataEnd
      <3>2. QED
        BY <3>1, Spans DEF EnvWet
    <2> HIDE DEF part, made
    <2>8. w \subseteq Above /\ f \subseteq 0 .. 511
      BY <2>6, <2>7 DEF MemoryInv
    <2> HIDE DEF w, f
    <2>9. QED
      BY <2>1, <2>8, WriteKeeps
  <1>12. QED
    BY <1>1, <1>2, <1>3, <1>4, <1>5, <1>6, <1>7, <1>8, <1>9, <1>10, <1>11
    DEF Handlers, SPNOOP, SAVEBUFF, SEGMENT, SETBUFF, SETVOL, SETLOOP, POLEF, data, memory

-----------------------------------------------------------------------------
(* What the handlers set                                                   *)

\* Every handler leaves segments and parameters that mean what the list says
\* up to and with its command.
LEMMA HandlersMean ==
  ASSUME ControlInv, ParamInv, Handlers
  PROVE  ParamInv'
  <1> DEFINE n == r28 - 1
  <1>1. phase = "fetch" /\ phase' = "loop" /\ list' = list /\ r28' = r28 + 1
    BY DEF Handlers, Dispatch, SPNOOP, CLEARBUFF, LOADBUFF, SAVEBUFF, LOADADPCM, SEGMENT,
           SETBUFF, SETVOL, SETLOOP, INTERLEAVE, DMEMMOVE, MIXER, ADPCM, POLEF, RESAMPLE, ENVMIXER
  <1>2. Cmd = list[r28] /\ Cmd \in AL!Command
    BY <1>1, AtHand
  <1>3. n \in Nat /\ n + 1 = r28 /\ r28' - 1 = n + 1
    BY <1>1 DEF ControlInv
  <1>4. segs \in [0 .. 15 -> Nat] /\ par \in Parameters /\ Meaning(list, n, segs, par)
    BY <1>1 DEF ParamInv
  <1> HIDE DEF n
  <1>next. SUFFICES /\ segs' \in [0 .. 15 -> Nat] /\ par' \in Parameters
                    /\ Meaning(list, n + 1, segs', par')
    BY <1>1, <1>3 DEF ParamInv
  <1>5. CASE UNCHANGED <<segs, par>> /\ Cmd.op \notin {"SEGMENT", "SETBUFF", "SETVOL", "SETLOOP"}
    BY <1>2, <1>3, <1>4, <1>5, MeaningKept
  <1>6. CASE SEGMENT
    <2>1. Cmd.op = "SEGMENT" /\ segs' = [segs EXCEPT ![Cmd.seg] = Cmd.base] /\ par' = par
      BY <1>6 DEF SEGMENT, Dispatch
    <2>2. Cmd.base \in Nat
      BY <1>2, <2>1, Formats
    <2>3. Meaning(list, n + 1, [segs EXCEPT ![Cmd.seg] = Cmd.base], par)
      BY <1>2, <1>3, <1>4, <2>1, SegmentMeans
    <2>4. QED
      BY <1>4, <2>1, <2>2, <2>3
  <1>7. CASE SETBUFF
    <2>1. /\ Cmd.op = "SETBUFF" /\ segs' = segs
          /\ par' = IF Cmd.aux
                      THEN [par EXCEPT !.dry = Buffers + Cmd.in,
                                       !.wetl = Buffers + Cmd.out,
                                       !.wetr = Buffers + Cmd.count]
                      ELSE [par EXCEPT !.in = Buffers + Cmd.in,
                                       !.out = Buffers + Cmd.out,
                                       !.count = Cmd.count]
      BY <1>7 DEF SETBUFF, Dispatch
    <2>2. Cmd.in \in Nat /\ Cmd.out \in Nat /\ Cmd.count \in Nat
      BY <1>2, <2>1, Formats
    <2>3. \A x \in Nat : Buffers + x \in Nat
      BY SMT DEF Buffers
    <2>4. par' \in Parameters
      BY <1>4, <2>1, <2>2, <2>3 DEF Parameters
    <2>5. /\ par'.vol = par.vol /\ par'.word = par.word /\ par'.loop = par.loop
          /\ IF Cmd.aux
               THEN /\ par'.dry = Buffers + Cmd.in /\ par'.wetl = Buffers + Cmd.out
                    /\ par'.wetr = Buffers + Cmd.count
                    /\ par'.in = par.in /\ par'.out = par.out /\ par'.count = par.count
               ELSE /\ par'.in = Buffers + Cmd.in /\ par'.out = Buffers + Cmd.out
                    /\ par'.count = Cmd.count
                    /\ par'.dry = par.dry /\ par'.wetl = par.wetl /\ par'.wetr = par.wetr
      BY <1>4, <2>1 DEF Parameters
    <2>6. Meaning(list, n + 1, segs, par')
      BY <1>2, <1>3, <1>4, <2>1, <2>2, <2>5, SetbuffMeans
    <2>7. QED
      BY <1>4, <2>1, <2>4, <2>6
  <1>8. CASE SETVOL
    <2>1. /\ Cmd.op = "SETVOL" /\ segs' = segs
          /\ par' = [par EXCEPT !.vol[Cmd.what] = Cmd.level,
                                 !.word = IF Cmd.what = "left target" THEN "volume" ELSE @]
      BY <1>8 DEF SETVOL, Dispatch
    <2>2. Cmd.what \in AL!Volumes /\ Cmd.level \in Nat
      BY <1>2, <2>1, Formats
    <2>3. par' \in Parameters
      BY <1>4, <2>1, <2>2 DEF Parameters, AL!Levels
    <2>4. VolumeStored(Cmd, par, par')
      BY <1>4, <2>1 DEF Parameters, VolumeStored
    <2>5. Meaning(list, n + 1, segs, par')
      BY <1>2, <1>3, <1>4, <2>1, <2>2, <2>4, SetvolMeans
    <2>6. QED
      BY <1>4, <2>1, <2>3, <2>5
  <1>9. CASE SETLOOP
    <2>1. /\ Cmd.op = "SETLOOP" /\ segs' = segs
          /\ par' = [par EXCEPT !.word = "loop", !.loop = segs[Cmd.seg] + Cmd.off]
      BY <1>9 DEF SETLOOP, Dispatch, Resolve
    <2>2. Cmd.seg \in 0 .. 15 /\ Cmd.off \in Nat
      BY <1>2, <2>1, Formats
    <2>3. segs[Cmd.seg] + Cmd.off \in Nat
      BY <1>4, <2>2
    <2>4. par' \in Parameters
      BY <1>4, <2>1, <2>3 DEF Parameters
    <2>set. Cmd.seg = 0 \/ AL!SegmentSet(list, n, Cmd.seg) # 0
      BY <1>1, <1>2, <2>1, AtHand DEF AL!CommandFits, AL!UsesSegment, n
    <2>5. Meaning(list, n + 1, segs,
                  [par EXCEPT !.word = "loop", !.loop = segs[Cmd.seg] + Cmd.off])
      BY <1>2, <1>3, <1>4, <2>1, <2>2, <2>set, SetloopMeans
    <2>6. QED
      BY <1>4, <2>1, <2>4, <2>5
  <1>10. QED
    BY <1>5, <1>6, <1>7, <1>8, <1>9
    DEF Handlers, SPNOOP, CLEARBUFF, LOADBUFF, SAVEBUFF, LOADADPCM, INTERLEAVE, DMEMMOVE, MIXER,
        ADPCM, POLEF, RESAMPLE, ENVMIXER, Dispatch, data

-----------------------------------------------------------------------------
(* Streams                                                                 *)

LEMMA StreamTypes ==
  /\ \A o \in Places \cup {AL!Silence, AL!Stale} : AL!From(o) \in AL!State
  /\ AL!From(AL!Silence) \in AL!State /\ AL!From(AL!Stale) \in AL!State
  /\ \A v \in AL!Levels : AL!Started(v) \in AL!State
  /\ \A s \in AL!State : \A n \in Nat :
       Advance(s, n) \in AL!State /\ AL!Advance(s, n) = Advance(s, n)
  <1>0. AL!NoLevels \in AL!Levels
    BY DEF AL!NoLevels, AL!Levels
  <1>1. /\ \A o \in Places \cup {AL!Silence, AL!Stale} : AL!From(o) \in AL!State
        /\ AL!From(AL!Silence) \in AL!State /\ AL!From(AL!Stale) \in AL!State
    BY <1>0 DEF AL!From, AL!State
  <1>v. \A v \in AL!Levels : AL!Started(v) \in AL!State
    BY <1>0, <1>1 DEF AL!Started, AL!From, AL!State
  <1>2. ASSUME NEW s \in AL!State, NEW n \in Nat
        PROVE  Advance(s, n) \in AL!State /\ AL!Advance(s, n) = Advance(s, n)
    BY DEF AL!State, Advance, AL!Advance
  <1>3. QED
    BY <1>1, <1>v, <1>2

\* What a command that makes part of a stream does is what its list says.
LEMMA StreamCarried ==
  ASSUME ControlInv, ParamInv, StreamInv, NEW op, Dispatch(op),
         AL!Ongoing(Cmd), ~(AL!Filters(Cmd) /\ AL!Count(list, r28) = 0),
         NEW s \in AL!State, s \in AL!Starts(list, r28),
         NEW n \in Nat, n = AL!Made(list, r28), Save(Cmd, Advance(s, n))
  PROVE  AL!Carry /\ saved' \in [Places -> AL!State]
  <1>1. /\ phase = "fetch" /\ phase' = "loop" /\ list' = list /\ r28' = r28 + 1
        /\ saved' = [saved EXCEPT ![Resolve(Cmd)] = Advance(s, n)]
    BY DEF Dispatch, Save
  <1>2. Cmd = list[r28] /\ Cmd \in AL!Command /\ r28 \in 1 .. Len(list) /\ Len(list) \in Nat
        /\ AL!CommandFits(list, r28)
    BY <1>1, AtHand
  <1>3. Cmd.seg \in 0 .. 15
    <2>1. Cmd.op \in {"ADPCM", "POLEF", "RESAMPLE", "ENVMIXER"}
      BY DEF AL!Ongoing, AL!Decodes, AL!Filters, AL!Runs, AL!Mixes
    <2>2. QED
      BY <1>2, <2>1, Formats
  <1>4. Resolve(Cmd) = AL!Place(list, r28)
    BY <1>1, <1>3, PlaceAtHand DEF AL!UsesSegment, AL!Ongoing
  <1>5. AL!Place(list, r28) \in Places
    BY <1>2 DEF AL!CommandFits, AL!Ongoing
  <1>6. Advance(s, n) \in AL!State /\ AL!Advance(s, n) = Advance(s, n)
    BY StreamTypes
  <1>7. saved' \in [Places -> AL!State]
    BY <1>1, <1>4, <1>5, <1>6 DEF StreamInv
  <1>8. saved' = [saved EXCEPT ![AL!Place(list, r28)] = AL!Advance(s, AL!Made(list, r28))]
    BY <1>1, <1>4, <1>6
  <1>9. r28 <= Len(list)
    BY <1>2
  <1>10. AL!Ongoing(list[r28]) /\ ~(AL!Filters(list[r28]) /\ AL!Count(list, r28) = 0)
    BY <1>2
  <1>11. AL!Carry
    BY <1>1, <1>8, <1>9, <1>10 DEF AL!Carry
  <1>12. QED
    BY <1>7, <1>11

\* A command that makes none leaves the streams alone.
LEMMA QuietCarried ==
  ASSUME ControlInv, NEW op, Dispatch(op), saved' = saved,
         ~AL!Ongoing(Cmd) \/ (AL!Filters(Cmd) /\ AL!Count(list, r28) = 0)
  PROVE  AL!Carry
  <1>1. phase = "fetch" /\ phase' = "loop" /\ list' = list /\ r28' = r28 + 1
    BY DEF Dispatch
  <1>2. Cmd = list[r28] /\ r28 \in 1 .. Len(list) /\ Len(list) \in Nat
    BY <1>1, AtHand
  <1>3. r28 <= Len(list)
    BY <1>2
  <1>4. ~(AL!Ongoing(list[r28]) /\ ~(AL!Filters(list[r28]) /\ AL!Count(list, r28) = 0))
    BY <1>2
  <1>5. QED
    BY <1>1, <1>3, <1>4 DEF AL!Carry

\* The place a stream of the command at hand is kept, and the blocks it counts.
LEMMA OngoingAtHand ==
  ASSUME ControlInv, ParamInv, phase = "fetch", AL!Ongoing(Cmd)
  PROVE  /\ Cmd = list[r28] /\ Cmd.init \in BOOLEAN
         /\ Resolve(Cmd) = AL!Place(list, r28) /\ AL!Place(list, r28) \in Places
         /\ par.count \in Nat /\ par.count = AL!Count(list, r28)
         /\ AL!Made(list, r28) = Up(par.count, IF AL!Decodes(Cmd) THEN 32 ELSE 16)
  <1>1. Cmd.op \in {"ADPCM", "POLEF", "RESAMPLE", "ENVMIXER"}
    BY DEF AL!Ongoing, AL!Decodes, AL!Filters, AL!Runs, AL!Mixes
  <1>2. Cmd = list[r28] /\ Cmd \in AL!Command /\ AL!CommandFits(list, r28)
    BY AtHand
  <1>3. Cmd.seg \in 0 .. 15 /\ Cmd.init \in BOOLEAN
    BY <1>1, <1>2, Formats
  <1>4. Resolve(Cmd) = AL!Place(list, r28)
    BY <1>3, PlaceAtHand DEF AL!UsesSegment, AL!Ongoing
  <1>5. AL!Place(list, r28) \in Places
    BY <1>2 DEF AL!CommandFits, AL!Ongoing
  <1>6. AL!UsesBuffers(Cmd)
    BY DEF AL!UsesBuffers, AL!Ongoing
  <1>7. par.count = AL!Count(list, r28)
    BY <1>6, BuffersAtHand
  <1>8. par.count \in Nat
    BY DEF ParamInv, Parameters
  <1>9. AL!Made(list, r28) = Up(par.count, IF AL!Decodes(Cmd) THEN 32 ELSE 16)
    BY <1>2, <1>7 DEF AL!Made, AL!Up, Up
  <1>10. QED
    BY <1>2, <1>3, <1>4, <1>5, <1>7, <1>8, <1>9

\* The loop point the decoder's parameters hold is the one the list set last.
LEMMA LoopAtHand ==
  ASSUME ControlInv, ParamInv, phase = "fetch", Cmd.op = "ADPCM", ~Cmd.init, Cmd.loop
  PROVE  /\ par.word = "loop" /\ par.loop = AL!Place(list, AL!LoopSet(list, r28 - 1))
         /\ par.loop \in Places
  <1> DEFINE i == AL!LoopSet(list, r28 - 1)
             j == AL!LeftSet(list, r28 - 1)
  <1>1. /\ Cmd = list[r28] /\ AL!CommandFits(list, r28) /\ list \in Lists
        /\ Len(list) \in Nat /\ r28 \in 1 .. Len(list)
    BY AtHand
  <1>2. Meaning(list, r28 - 1, segs, par)
    BY DEF ParamInv
  <1>3. i > j
    BY <1>1 DEF AL!CommandFits, AL!Decodes
  <1>4. i \in 0 .. r28 - 1 /\ j \in 0 .. r28 - 1 /\ (i # 0 => list[i].op = "SETLOOP")
        /\ (i > j => par.word = "loop" /\ par.loop = AL!Place(list, i))
    BY <1>2 DEF Meaning
  <1> HIDE DEF i, j
  <1>5. i \in 1 .. Len(list)
    BY <1>1, <1>3, <1>4
  <1>6. AL!CommandFits(list, i)
    BY <1>1, <1>5, ListsAssumption DEF AL!WellFormed
  <1>7. AL!Place(list, i) \in Places
    BY <1>3, <1>4, <1>5, <1>6 DEF AL!CommandFits
  <1>8. QED
    BY <1>3, <1>4, <1>7 DEF i

\* A stream's handler carries the stream on as the list says; every other one
\* leaves the streams alone.
LEMMA HandlersStream ==
  ASSUME ControlInv, ParamInv, StreamInv, Handlers
  PROVE  StreamInv' /\ AL!Carry
  <1>fetch. phase = "fetch"
    BY DEF Handlers, Dispatch, SPNOOP, CLEARBUFF, LOADBUFF, SAVEBUFF, LOADADPCM, SEGMENT,
           SETBUFF, SETVOL, SETLOOP, INTERLEAVE, DMEMMOVE, MIXER, ADPCM, POLEF, RESAMPLE, ENVMIXER
  <1>saved. ASSUME NEW p \in Places PROVE saved[p] \in AL!State
    BY <1>saved DEF StreamInv
  <1>1. CASE /\ \E op : Dispatch(op)
             /\ Cmd.op \notin {"ADPCM", "POLEF", "RESAMPLE", "ENVMIXER"}
             /\ UNCHANGED <<scratch, saved>>
             /\ output' \in {output, "new", "stale"}
    <2>1. ~AL!Ongoing(Cmd)
      BY <1>1 DEF AL!Ongoing, AL!Decodes, AL!Filters, AL!Runs, AL!Mixes
    <2>2. AL!Carry
      BY <1>1, <2>1, QuietCarried
    <2>3. QED
      BY <1>1, <2>2 DEF StreamInv
  <1>2. CASE ADPCM
    <2>1. /\ Dispatch("ADPCM") /\ Cmd.op = "ADPCM" /\ UNCHANGED <<scratch, output>>
          /\ Save(Cmd, Advance(AdpcmStart, AdpcmFrames))
      BY <1>2 DEF ADPCM, Dispatch
    <2>2. AL!Decodes(Cmd) /\ AL!Ongoing(Cmd) /\ ~AL!Filters(Cmd) /\ ~AL!Mixes(Cmd)
      BY <2>1 DEF AL!Ongoing, AL!Decodes, AL!Filters, AL!Mixes
    <2>3. /\ Cmd = list[r28] /\ Cmd.init \in BOOLEAN
          /\ Resolve(Cmd) = AL!Place(list, r28) /\ AL!Place(list, r28) \in Places
          /\ par.count \in Nat /\ AL!Made(list, r28) = AdpcmFrames
      BY <1>fetch, <2>2, OngoingAtHand DEF AdpcmFrames
    <2>4. AdpcmFrames \in Nat
      BY <2>3, Rounds DEF AdpcmFrames
    <2>5. AdpcmStart \in AL!State /\ AdpcmStart \in AL!Starts(list, r28)
      <3>1. CASE Cmd.init
        BY <2>2, <2>3, <3>1, StreamTypes DEF AdpcmStart, AL!Starts
      <3>2. CASE ~Cmd.init /\ Cmd.loop
        <4>1. /\ par.word = "loop" /\ par.loop = AL!Place(list, AL!LoopSet(list, r28 - 1))
              /\ par.loop \in Places
          BY <1>fetch, <2>1, <3>2, LoopAtHand
        <4>2. QED
          BY <1>saved, <2>2, <2>3, <3>2, <4>1 DEF AdpcmStart, AL!Starts
      <3>3. CASE ~Cmd.init /\ ~Cmd.loop
        BY <1>saved, <2>2, <2>3, <3>3 DEF AdpcmStart, AL!Starts
      <3>4. QED
        BY <3>1, <3>2, <3>3
    <2>6. AL!Carry /\ saved' \in [Places -> AL!State]
      BY <2>1, <2>2, <2>3, <2>4, <2>5, StreamCarried
    <2>7. QED
      BY <2>1, <2>6 DEF StreamInv
  <1>3. CASE POLEF
    <2>1. Dispatch("POLEF") /\ Cmd.op = "POLEF" /\ output' = output
      BY <1>3 DEF POLEF, Dispatch
    <2>2. AL!Filters(Cmd) /\ AL!Ongoing(Cmd) /\ ~AL!Decodes(Cmd)
      BY <2>1 DEF AL!Ongoing, AL!Decodes, AL!Filters
    <2>3. /\ Cmd = list[r28] /\ Cmd.init \in BOOLEAN
          /\ Resolve(Cmd) = AL!Place(list, r28) /\ AL!Place(list, r28) \in Places
          /\ par.count \in Nat /\ par.count = AL!Count(list, r28)
          /\ AL!Made(list, r28) = Up(par.count, 16)
      BY <1>fetch, <2>2, OngoingAtHand
    <2>4. CASE par.count = 0
      <3>1. UNCHANGED <<saved, scratch>>
        BY <1>3, <2>4 DEF POLEF
      <3>2. AL!Carry
        BY <2>1, <2>2, <2>3, <2>4, <3>1, QuietCarried
      <3>3. QED
        BY <2>1, <3>1, <3>2 DEF StreamInv
    <2>5. CASE par.count # 0
      <3>1. /\ Save(Cmd, Advance(PolefStart, Up(par.count, 16)))
            /\ scratch' = IF Cmd.init THEN scratch ELSE AL!Stale
        BY <1>3, <2>5 DEF POLEF
      <3>2. Up(par.count, 16) \in Nat
        BY <2>3, Rounds
      <3>3. PolefStart \in AL!State /\ PolefStart \in AL!Starts(list, r28)
        <4>1. CASE Cmd.init
          <5>1. scratch \in {AL!Silence, AL!Stale}
            BY DEF StreamInv
          <5>2. QED
            BY <2>2, <2>3, <4>1, <5>1, StreamTypes DEF PolefStart, AL!Starts
        <4>2. CASE ~Cmd.init
          BY <1>saved, <2>2, <2>3, <4>2 DEF PolefStart, AL!Starts
        <4>3. QED
          BY <4>1, <4>2
      <3>4. AL!Carry /\ saved' \in [Places -> AL!State]
        BY <2>1, <2>2, <2>3, <2>5, <3>1, <3>2, <3>3, StreamCarried
      <3>5. QED
        BY <2>1, <3>1, <3>4 DEF StreamInv
    <2>6. QED
      BY <2>4, <2>5
  <1>4. CASE RESAMPLE
    <2>1. /\ Dispatch("RESAMPLE") /\ Cmd.op = "RESAMPLE" /\ output' = output
          /\ Save(Cmd, Advance(Start, ResampleBlocks)) /\ scratch' = AL!Stale
      BY <1>4 DEF RESAMPLE, Dispatch
    <2>2. /\ AL!Runs(Cmd) /\ AL!Ongoing(Cmd) /\ ~AL!Decodes(Cmd) /\ ~AL!Filters(Cmd)
          /\ ~AL!Mixes(Cmd)
      BY <2>1 DEF AL!Ongoing, AL!Decodes, AL!Filters, AL!Runs, AL!Mixes
    <2>3. /\ Cmd = list[r28] /\ Cmd.init \in BOOLEAN
          /\ Resolve(Cmd) = AL!Place(list, r28) /\ AL!Place(list, r28) \in Places
          /\ par.count \in Nat /\ par.count = AL!Count(list, r28)
          /\ AL!Made(list, r28) = Up(par.count, 16)
      BY <1>fetch, <2>2, OngoingAtHand
    <2>4. par.count > 0
      BY <1>fetch, <2>2, <2>3, AtHand DEF AL!CommandFits
    <2>5. ResampleBlocks \in Nat /\ ResampleBlocks = AL!Made(list, r28)
      <3>1. Up(par.count, 16) \in Nat /\ Up(par.count, 16) >= 1
        BY <2>3, <2>4 DEF Up
      <3>2. QED
        BY <2>3, <3>1 DEF ResampleBlocks, AtLeast
    <2>6. Start \in AL!State /\ Start \in AL!Starts(list, r28)
      <3>1. CASE Cmd.init
        BY <2>2, <2>3, <3>1, StreamTypes DEF Start, AL!Starts
      <3>2. CASE ~Cmd.init
        BY <1>saved, <2>2, <2>3, <3>2 DEF Start, AL!Starts
      <3>3. QED
        BY <3>1, <3>2
    <2>7. AL!Carry /\ saved' \in [Places -> AL!State]
      BY <2>1, <2>2, <2>5, <2>6, StreamCarried
    <2>8. QED
      BY <2>1, <2>7 DEF StreamInv
  <1>5. CASE ENVMIXER
    <2>1. /\ Dispatch("ENVMIXER") /\ Cmd.op = "ENVMIXER" /\ output' = output
          /\ Save(Cmd, Advance(EnvStart, EnvBlocks)) /\ scratch' = AL!Stale
      BY <1>5 DEF ENVMIXER, Dispatch
    <2>2. /\ AL!Runs(Cmd) /\ AL!Ongoing(Cmd) /\ ~AL!Decodes(Cmd) /\ ~AL!Filters(Cmd)
          /\ AL!Mixes(Cmd)
      BY <2>1 DEF AL!Ongoing, AL!Decodes, AL!Filters, AL!Runs, AL!Mixes
    <2>3. /\ Cmd = list[r28] /\ Cmd.init \in BOOLEAN
          /\ Resolve(Cmd) = AL!Place(list, r28) /\ AL!Place(list, r28) \in Places
          /\ par.count \in Nat /\ par.count = AL!Count(list, r28)
          /\ AL!Made(list, r28) = Up(par.count, 16)
      BY <1>fetch, <2>2, OngoingAtHand
    <2>4. /\ par.count > 0
          /\ Cmd.init => par.count > 16
                          /\ AL!LeftSet(list, r28 - 1) > AL!LoopSet(list, r28 - 1)
                          /\ \A v \in AL!Volumes : AL!VolumeSet(list, r28 - 1, v) # 0
      BY <1>fetch, <2>1, <2>2, <2>3, AtHand DEF AL!CommandFits
    <2>5. EnvBlocks \in Nat /\ EnvBlocks = AL!Made(list, r28)
      <3>1. /\ Up(par.count, 16) \in Nat /\ Up(par.count, 16) >= 1
            /\ Cmd.init => Up(par.count, 16) >= 2
        BY <2>3, <2>4 DEF Up
      <3>2. QED
        BY <2>3, <3>1 DEF EnvBlocks, AtLeast
    <2>6. EnvStart \in AL!State /\ EnvStart \in AL!Starts(list, r28)
      <3>1. CASE Cmd.init
        <4>1. par.word = "volume"
          BY <1>fetch, <2>4, <3>1 DEF ParamInv, Meaning
        <4>2. par.vol \in AL!Levels /\ par.vol = AL!LevelsAt(list, r28)
          <5>1. par.vol \in AL!Levels /\ VolumesMean(list, r28 - 1, par.vol)
            BY <1>fetch DEF ParamInv, Meaning, Parameters
          <5>2. \A v \in AL!Volumes :
                  par.vol[v] = list[AL!VolumeSet(list, r28 - 1, v)].level
            BY <2>4, <3>1, <5>1 DEF VolumesMean
          <5>3. QED
            BY <5>1, <5>2 DEF AL!Levels, AL!LevelsAt
        <4>3. EnvStart = AL!Started(par.vol)
          BY <3>1, <4>1 DEF EnvStart
        <4>4. AL!Starts(list, r28) = {AL!Started(AL!LevelsAt(list, r28))}
          BY <2>2, <2>3, <3>1 DEF AL!Starts
        <4>5. QED
          BY <4>2, <4>3, <4>4, StreamTypes
      <3>2. CASE ~Cmd.init
        BY <1>saved, <2>2, <2>3, <3>2 DEF EnvStart, AL!Starts
      <3>3. QED
        BY <3>1, <3>2
    <2>7. AL!Carry /\ saved' \in [Places -> AL!State]
      BY <2>1, <2>2, <2>5, <2>6, StreamCarried
    <2>8. QED
      BY <2>1, <2>7 DEF StreamInv
  <1>6. QED
    <2>1. CASE SAVEBUFF
      BY <1>1, <2>1 DEF SAVEBUFF, Dispatch
    <2>2. CASE SPNOOP \/ CLEARBUFF \/ LOADBUFF \/ LOADADPCM \/ SEGMENT \/ SETBUFF
      BY <1>1, <2>2 DEF SPNOOP, CLEARBUFF, LOADBUFF, LOADADPCM, SEGMENT, SETBUFF, Dispatch, data
    <2>3. CASE SETVOL \/ SETLOOP \/ INTERLEAVE \/ DMEMMOVE \/ MIXER
      BY <1>1, <2>3 DEF SETVOL, SETLOOP, INTERLEAVE, DMEMMOVE, MIXER, Dispatch
    <2>4. QED
      BY <1>2, <1>3, <1>4, <1>5, <2>1, <2>2, <2>3 DEF Handlers

-----------------------------------------------------------------------------
(* The dispatch                                                            *)

\* A block holds as much of what is left of the list as fits.
LEMMA BlockFetched ==
  ASSUME NEW l, NEW n \in Nat, NEW c \in Nat, c > 0, FetchBlock(l, n, c)
  PROVE  /\ r29' = 1 /\ r30' \in 1 .. c /\ r29' + r30' <= Block + 1
         /\ buf' = [k \in 1 .. Block |-> buf'[k]]
         /\ \A k \in 0 .. r30' - 1 : buf'[r29' + k] = l[n + k]
  <1> DEFINE len == IF c <= Block THEN c ELSE Block
  <1>1. /\ buf' = [k \in 1 .. Block |-> IF k <= len THEN l[n + k - 1] ELSE buf[k]]
        /\ r29' = 1 /\ r30' = len
    BY DEF FetchBlock
  <1>2. len \in 1 .. c /\ len <= Block /\ Block \in Nat
    BY BlockAssumption
  <1> HIDE DEF len
  <1>3. ASSUME NEW k \in 0 .. r30' - 1
        PROVE  buf'[r29' + k] = l[n + k]
    <2>1. 1 + k \in 1 .. Block /\ 1 + k <= len /\ n + (1 + k) - 1 = n + k
      BY <1>1, <1>2
    <2>2. buf'[1 + k] = l[n + (1 + k) - 1]
      BY <1>1, <2>1
    <2>3. QED
      BY <1>1, <2>1, <2>2
  <1>4. buf' = [k \in 1 .. Block |-> buf'[k]]
    BY <1>1
  <1>5. QED
    BY <1>1, <1>2, <1>3, <1>4

\* What the session keeps of its own.
SessionInv == noAudio \in BOOLEAN /\ warned \in BOOLEAN /\ tasks \in 0 .. MaxTasks

UcodeInv == Inv /\ SessionInv

LEMMA InvInit == Init => UcodeInv
  <1> SUFFICES ASSUME Init PROVE UcodeInv
    OBVIOUS
  <1>1. ControlInv
    BY BlockAssumption DEF Init, ControlInv
  <1>2. ParamInv
    <2>1. AL!NoLevels \in AL!Levels
      BY DEF AL!NoLevels, AL!Levels
    <2>2. QED
      BY <2>1 DEF Init, ParamInv, NoPar, Parameters
  <1>3. MemoryInv
    BY DEF Init, MemoryInv
  <1>4. StreamInv
    <2>1. AL!Untouched \in [Places -> AL!State]
      BY StreamTypes DEF AL!Untouched
    <2>2. QED
      BY <2>1 DEF Init, StreamInv
  <1>5. SessionInv
    <2>1. 0 \in 0 .. MaxTasks
      BY BlockAssumption
    <2>2. QED
      BY <2>1 DEF Init, SessionInv
  <1>6. QED
    BY <1>1, <1>2, <1>3, <1>4, <1>5 DEF UcodeInv, Inv

LEMMA BeginKeeps ==
  ASSUME UcodeInv, BeginTask
  PROVE  UcodeInv' /\ AL!Begin
  <1>1. PICK l \in Lists : list' = l /\ r27' = Len(l) /\ r28' = 1 /\ FetchBlock(l, 1, Len(l))
    BY DEF BeginTask
  <1>2. /\ phase = "idle" /\ phase' = "fetch" /\ segs' = [segs EXCEPT ![0] = 0] /\ fresh' = {}
        /\ output' = "nothing" /\ tasks < MaxTasks /\ tasks' = tasks + 1
        /\ UNCHANGED <<par, scratch, intact, saved, noAudio, warned>>
    BY DEF BeginTask
  <1>3. Len(l) \in Nat /\ Len(l) > 0
    BY ListsAssumption DEF AL!WellFormed
  <1>4. /\ r29' = 1 /\ r30' \in 1 .. Len(l) /\ r29' + r30' <= Block + 1
        /\ buf' = [k \in 1 .. Block |-> buf'[k]]
        /\ \A k \in 0 .. r30' - 1 : buf'[r29' + k] = l[1 + k]
    <2>1. 1 \in Nat
      OBVIOUS
    <2>2. QED
      BY <1>1, <1>3, <2>1, BlockFetched
  <1>5. ControlInv'
    BY <1>1, <1>2, <1>3, <1>4 DEF ControlInv
  <1>6. ParamInv'
    <2>0. segs' \in [0 .. 15 -> Nat] /\ segs'[0] = 0
      BY <1>2 DEF ParamInv, UcodeInv, Inv
    <2>1. Meaning(l, 0, segs', par')
      BY <2>0, MeaningStarts
    <2>2. r28' - 1 = 0
      BY <1>1
    <2>3. QED
      BY <1>1, <1>2, <2>0, <2>1, <2>2 DEF ParamInv, UcodeInv, Inv
  <1>7. MemoryInv' /\ StreamInv'
    BY <1>2 DEF MemoryInv, StreamInv, UcodeInv, Inv
  <1>8. SessionInv'
    BY <1>2, BlockAssumption DEF SessionInv, UcodeInv
  <1>9. AL!Begin
    BY <1>1, <1>2 DEF AL!Begin, ControlInv, UcodeInv, Inv
  <1>10. QED
    BY <1>5, <1>6, <1>7, <1>8, <1>9 DEF UcodeInv, Inv

LEMMA StaysSame ==
  ASSUME ControlInv, ParamInv, MemoryInv, StreamInv, UNCHANGED <<ctl, data>>
  PROVE  ControlInv' /\ ParamInv' /\ MemoryInv' /\ StreamInv'
  <1>1. UNCHANGED <<phase, list, r27, r28, r29, r30, buf>>
        /\ UNCHANGED <<segs, par, scratch, fresh, intact, saved, output>>
    BY DEF ctl, data
  <1>2. ControlInv'
    BY <1>1 DEF ControlInv
  <1>3. ParamInv'
    BY <1>1 DEF ParamInv, Meaning
  <1>4. MemoryInv' /\ StreamInv'
    BY <1>1 DEF MemoryInv, StreamInv
  <1>5. QED
    BY <1>2, <1>3, <1>4

LEMMA StubKeeps ==
  ASSUME UcodeInv, silent_task_stub
  PROVE  UcodeInv' /\ UNCHANGED AL!vars
  <1>1. UNCHANGED <<ctl, data, noAudio>> /\ tasks' = tasks + 1 /\ tasks < MaxTasks
        /\ warned' \in {warned, TRUE}
    BY DEF silent_task_stub
  <1>2. ControlInv' /\ ParamInv' /\ MemoryInv' /\ StreamInv'
    BY <1>1, StaysSame DEF UcodeInv, Inv
  <1>3. SessionInv'
    <2>1. tasks + 1 \in 0 .. MaxTasks
      BY <1>1, BlockAssumption DEF SessionInv, UcodeInv
    <2>2. QED
      BY <1>1, <2>1 DEF SessionInv, UcodeInv
  <1>4. UNCHANGED AL!vars
    BY <1>1 DEF AL!vars, ctl, data
  <1>5. QED
    BY <1>2, <1>3, <1>4 DEF UcodeInv, Inv

LEMMA ContinueKeeps ==
  ASSUME UcodeInv, Continue
  PROVE  UcodeInv' /\ UNCHANGED AL!vars
  <1>1. /\ phase = "loop" /\ r30 > 0 /\ phase' = "fetch"
        /\ UNCHANGED <<list, r27, r28, r29, r30, data, noAudio, warned, tasks>>
    BY DEF Continue
  <1>2. ControlInv'
    BY <1>1 DEF ControlInv, data, UcodeInv, Inv
  <1>3. ParamInv' /\ MemoryInv' /\ StreamInv'
    BY <1>1 DEF ParamInv, Meaning, MemoryInv, StreamInv, data, UcodeInv, Inv
  <1>4. SessionInv'
    BY <1>1 DEF SessionInv, UcodeInv
  <1>5. UNCHANGED AL!vars
    BY <1>1 DEF AL!vars, data
  <1>6. QED
    BY <1>2, <1>3, <1>4, <1>5 DEF UcodeInv, Inv

LEMMA RefillKeeps ==
  ASSUME UcodeInv, Refill
  PROVE  UcodeInv' /\ UNCHANGED AL!vars
  <1>1. /\ phase = "loop" /\ phase' = "fetch" /\ r27 > 0 /\ FetchBlock(list, r28, r27)
        /\ UNCHANGED <<list, r27, r28, segs, par, scratch, fresh, intact, saved, output,
                       noAudio, warned, tasks>>
    BY DEF Refill
  <1>2. r27 \in Nat /\ r28 \in Nat \ {0} /\ list \in Lists /\ r27 = Len(list) - r28 + 1
    BY <1>1 DEF ControlInv, UcodeInv, Inv
  <1>3. /\ r29' = 1 /\ r30' \in 1 .. r27 /\ r29' + r30' <= Block + 1
        /\ buf' = [k \in 1 .. Block |-> buf'[k]]
        /\ \A k \in 0 .. r30' - 1 : buf'[r29' + k] = list[r28 + k]
    BY <1>1, <1>2, BlockFetched
  <1>4. ControlInv'
    BY <1>1, <1>2, <1>3 DEF ControlInv
  <1>5. ParamInv' /\ MemoryInv' /\ StreamInv'
    BY <1>1 DEF ParamInv, Meaning, MemoryInv, StreamInv, UcodeInv, Inv
  <1>6. SessionInv'
    BY <1>1 DEF SessionInv, UcodeInv
  <1>7. UNCHANGED AL!vars
    BY <1>1 DEF AL!vars
  <1>8. QED
    BY <1>4, <1>5, <1>6, <1>7 DEF UcodeInv, Inv

LEMMA FinishKeeps ==
  ASSUME UcodeInv, Finish
  PROVE  UcodeInv' /\ AL!End
  <1>1. /\ phase = "loop" /\ r30 <= 0 /\ r27 <= 0 /\ phase' = "idle" /\ list' = <<>>
        /\ UNCHANGED <<r27, r28, r29, r30, data, noAudio, warned, tasks>>
    BY DEF Finish
  <1>2. /\ r27 \in Nat /\ r30 \in Nat /\ r28 \in Nat /\ list \in Lists
        /\ r27 = Len(list) - r28 + 1
    BY <1>1 DEF ControlInv, UcodeInv, Inv
  <1>3. Len(list) \in Nat /\ Len(list) > 0
    BY <1>2, ListsAssumption DEF AL!WellFormed
  <1>4. r27 = 0 /\ r30 = 0 /\ r28 > Len(list) /\ list # <<>>
    BY <1>1, <1>2, <1>3
  <1>5. ControlInv'
    BY <1>1, <1>4 DEF ControlInv, data, UcodeInv, Inv
  <1>6. ParamInv' /\ MemoryInv' /\ StreamInv'
    BY <1>1 DEF ParamInv, MemoryInv, StreamInv, data, UcodeInv, Inv
  <1>7. SessionInv'
    BY <1>1 DEF SessionInv, UcodeInv
  <1>8. AL!End
    BY <1>1, <1>4 DEF AL!End, data
  <1>9. QED
    BY <1>5, <1>6, <1>7, <1>8 DEF UcodeInv, Inv

LEMMA HandlersCarry ==
  ASSUME UcodeInv, Handlers
  PROVE  UcodeInv' /\ AL!Carry
  <1>1. ControlInv /\ ParamInv /\ MemoryInv /\ StreamInv /\ SessionInv
    BY DEF UcodeInv, Inv
  <1>2. MemoryInv' /\ buf' = buf
    BY <1>1, HandlersKeep
  <1>3. ParamInv'
    BY <1>1, HandlersMean
  <1>4. StreamInv' /\ AL!Carry
    BY <1>1, HandlersStream
  <1>5. PICK op : Dispatch(op)
    BY DEF Handlers, SPNOOP, CLEARBUFF, LOADBUFF, SAVEBUFF, LOADADPCM, SEGMENT,
           SETBUFF, SETVOL, SETLOOP, INTERLEAVE, DMEMMOVE, MIXER, ADPCM, POLEF, RESAMPLE, ENVMIXER
  <1>6. ControlInv'
    BY <1>1, <1>2, <1>5, Carried
  <1>7. SessionInv'
    BY <1>1, <1>5 DEF SessionInv, Dispatch
  <1>8. QED
    BY <1>2, <1>3, <1>4, <1>6, <1>7 DEF UcodeInv, Inv

\* Every step keeps the invariant, and is one of the list's or none.
LEMMA UcodeStep == UcodeInv /\ [Next]_vars => UcodeInv' /\ [AL!Next]_(AL!vars)
  <1> SUFFICES ASSUME UcodeInv, [Next]_vars
               PROVE  UcodeInv' /\ [AL!Next]_(AL!vars)
    OBVIOUS
  <1>1. CASE BeginTask
    BY <1>1, BeginKeeps DEF AL!Next
  <1>2. CASE silent_task_stub
    BY <1>2, StubKeeps
  <1>3. CASE Continue
    BY <1>3, ContinueKeeps
  <1>4. CASE Refill
    BY <1>4, RefillKeeps
  <1>5. CASE Finish
    BY <1>5, FinishKeeps DEF AL!Next
  <1>6. CASE Handlers
    BY <1>6, HandlersCarry DEF AL!Next
  <1>7. CASE UNCHANGED vars
    <2>1. UNCHANGED <<ctl, data>> /\ UNCHANGED <<noAudio, warned, tasks>>
      BY <1>7 DEF vars
    <2>2. ControlInv' /\ ParamInv' /\ MemoryInv' /\ StreamInv'
      BY <2>1, StaysSame DEF UcodeInv, Inv
    <2>3. SessionInv'
      BY <2>1 DEF SessionInv, UcodeInv
    <2>4. UNCHANGED AL!vars
      BY <2>1 DEF AL!vars, ctl, data
    <2>5. QED
      BY <2>2, <2>3, <2>4 DEF UcodeInv, Inv
  <1>8. QED
    BY <1>1, <1>2, <1>3, <1>4, <1>5, <1>6, <1>7 DEF Next, Running

LEMMA ListInit == Init => AL!Init
  BY DEF Init, AL!Init

LEMMA UcodeSafe == Spec => []UcodeInv
  BY InvInit, UcodeStep, PTL DEF Spec

-----------------------------------------------------------------------------
(* What is fresh                                                           *)

\* Nothing that the list has made so far is taken for stale.
SoundInv ==
  /\ phase # "idle" => Known(list, r28 - 1) \subseteq fresh
  /\ output # "stale"

\* What a list's commands made, one command further on.
LEMMA KnownGrows ==
  ASSUME NEW l, NEW n \in Nat
  PROVE  Known(l, n + 1) \subseteq (Known(l, n) \ Writes(l, n + 1)) \cup Makes(l, n + 1)
  <1> SUFFICES ASSUME NEW d \in Known(l, n + 1), d \notin Makes(l, n + 1)
               PROVE  d \in Known(l, n) /\ d \notin Writes(l, n + 1)
    OBVIOUS
  <1>1. d \in 0 .. 511
    BY DEF Known
  <1>2. PICK j \in 1 .. n + 1 : d \in Makes(l, j) /\ \A k \in j + 1 .. n + 1 : d \notin Writes(l, k)
    BY DEF Known
  <1>3. j # n + 1
    BY <1>2
  <1>4. j \in 1 .. n /\ n + 1 \in j + 1 .. n + 1 /\ j + 1 .. n \subseteq j + 1 .. n + 1
    BY <1>2, <1>3
  <1>5. \A k \in j + 1 .. n : d \notin Writes(l, k)
    BY <1>2, <1>4
  <1>6. QED
    BY <1>1, <1>2, <1>4, <1>5 DEF Known

LEMMA NothingKnown == ASSUME NEW l PROVE Known(l, 0) = {}
  BY DEF Known

\* Blocks that follow one another cover what they cover together, when they
\* begin on a doubleword.
LEMMA BlocksCover ==
  ASSUME NEW dst \in Nat, dst % 8 = 0, NEW w, NEW n \in Nat, NEW bytes \in Nat,
         (w = 16 /\ bytes = 16 * n) \/ (w = 32 /\ bytes = 32 * n), NEW d \in Covered(dst, bytes)
  PROVE  \E k \in 0 .. n - 1 : d \in Covered(dst + w * k, w)
  <1> DEFINE first == dst \div 8
  <1>1. first \in Nat /\ dst = 8 * first
    OBVIOUS
  <1> HIDE DEF first
  <1>2. CASE w = 16
    <2>1. Covered(dst, bytes) = first .. first + 2 * n - 1
      BY <1>1, <1>2 DEF Covered, Up
    <2>2. \A k \in 0 .. n - 1 : Covered(dst + 16 * k, 16) = first + 2 * k .. first + 2 * k + 1
      BY <1>1 DEF Covered, Up
    <2> DEFINE m == (d - first) \div 2
    <2>3. m \in 0 .. n - 1 /\ d \in first + 2 * m .. first + 2 * m + 1
      BY <1>1, <2>1
    <2> HIDE DEF m
    <2>4. QED
      BY <1>2, <2>2, <2>3
  <1>3. CASE w = 32
    <2>1. Covered(dst, bytes) = first .. first + 4 * n - 1
      BY <1>1, <1>3 DEF Covered, Up
    <2>2. \A k \in 0 .. n - 1 : Covered(dst + 32 * k, 32) = first + 4 * k .. first + 4 * k + 3
      BY <1>1 DEF Covered, Up
    <2> DEFINE m == (d - first) \div 4
    <2>3. m \in 0 .. n - 1 /\ d \in first + 4 * m .. first + 4 * m + 3
      BY <1>1, <2>1
    <2> HIDE DEF m
    <2>4. QED
      BY <1>3, <2>2, <2>3
  <1>4. QED
    BY <1>2, <1>3

\* A handler that finds every byte of its sources fresh makes every byte of
\* its output.
LEMMA BlocksMade ==
  ASSUME NEW srcs, srcs \subseteq Nat, NEW dst \in Nat, dst % 8 = 0, NEW w, NEW n \in Nat,
         NEW bytes \in Nat, (w = 16 /\ bytes = 16 * n) \/ (w = 32 /\ bytes = 32 * n),
         \A s \in srcs : Touched(s, 16 * n) \subseteq fresh
  PROVE  Covered(dst, bytes) \subseteq BlocksFresh(srcs, dst, w, n)
  <1>1. ASSUME NEW s \in Nat, NEW k \in 0 .. n - 1
        PROVE  Touched(s + 16 * k, 16) \subseteq Touched(s, 16 * n)
    BY DEF Touched
  <1>2. \A k \in 0 .. n - 1 : \A s \in srcs : Touched(s + 16 * k, 16) \subseteq fresh
    BY <1>1
  <1>3. BlocksFresh(srcs, dst, w, n) = UNION {Covered(dst + w * k, w) : k \in 0 .. n - 1}
    <2> DEFINE good(k) == \A s \in srcs : Touched(s + 16 * k, 16) \subseteq fresh
    <2>1. {k \in 0 .. n - 1 : good(k)} = 0 .. n - 1
      BY <1>2
    <2>2. QED
      BY <2>1 DEF BlocksFresh
  <1>4. ASSUME NEW d \in Covered(dst, bytes)
        PROVE  \E k \in 0 .. n - 1 : d \in Covered(dst + w * k, w)
    <2> HIDE DEF Covered
    <2>1. QED
      BY BlocksCover
  <1>5. QED
    BY <1>3, <1>4

LEMMA OneOutput ==
  ASSUME NEW l, NEW i, NEW from, NEW n, Outputs(l, i) = {<<from, n>>}
  PROVE  /\ Makes(l, i) = Covered(from, n)
         /\ Writes(l, i) = Spoils(l, i) \cup Touched(from, n)
  BY DEF Makes, Writes

LEMMA ThroughSound ==
  ASSUME NEW srcs, srcs \subseteq Nat, NEW dst \in Nat, dst % 8 = 0, NEW w, NEW n \in Nat,
         NEW bytes \in Nat, (w = 16 /\ bytes = 16 * n) \/ (w = 32 /\ bytes = 32 * n),
         \A s \in srcs : Touched(s, 16 * n) \subseteq fresh, Through(srcs, dst, w, n)
  PROVE  fresh \ Touched(dst, bytes) \subseteq fresh' /\ Covered(dst, bytes) \subseteq fresh'
  <1>1. fresh' = (fresh \ Touched(dst, w * n)) \cup BlocksFresh(srcs, dst, w, n)
    BY DEF Through, Write
  <1>2. Covered(dst, bytes) \subseteq BlocksFresh(srcs, dst, w, n)
    BY BlocksMade
  <1>3. w * n = bytes
    OBVIOUS
  <1>4. QED
    BY <1>1, <1>2, <1>3

LEMMA ManyOutputs ==
  ASSUME NEW l, NEW i, NEW D, NEW n, Outputs(l, i) = {<<d, n>> : d \in D}
  PROVE  /\ Makes(l, i) = UNION {Covered(d, n) : d \in D}
         /\ Writes(l, i) = Spoils(l, i) \cup UNION {Touched(d, n) : d \in D}
  <1> DEFINE outputs == {<<d, n>> : d \in D}
             covered(o) == Covered(o[1], o[2])
             touched(o) == Touched(o[1], o[2])
  <1>1. \A d \in D : <<d, n>> \in outputs
    OBVIOUS
  <1>2. \A d : covered(<<d, n>>) = Covered(d, n) /\ touched(<<d, n>>) = Touched(d, n)
    OBVIOUS
  <1>3. \A o \in outputs : \E d \in D : o = <<d, n>>
    OBVIOUS
  <1>4. /\ Makes(l, i) = UNION {covered(o) : o \in outputs}
        /\ Writes(l, i) = Spoils(l, i) \cup UNION {touched(o) : o \in outputs}
    BY DEF Makes, Writes
  <1> HIDE DEF outputs, covered, touched
  <1>5. {covered(o) : o \in outputs} = {Covered(d, n) : d \in D}
    BY <1>1, <1>2, <1>3, Zenon
  <1>6. {touched(o) : o \in outputs} = {Touched(d, n) : d \in D}
    BY <1>1, <1>2, <1>3, Zenon
  <1>7. QED
    BY <1>4, <1>5, <1>6

\* The buffers a command names, in the parameters and in the list.
LEMMA InAndOut ==
  ASSUME ControlInv, ParamInv, phase = "fetch", AL!UsesBuffers(Cmd)
  PROVE  /\ In(list, r28) = par.in /\ Out(list, r28) = par.out
         /\ AL!Count(list, r28) = par.count
         /\ par.in \in Nat /\ par.out \in Nat /\ par.count \in Nat
  <1>1. par \in Parameters
    BY DEF ParamInv
  <1>2. QED
    BY <1>1, BuffersAtHand DEF In, Out, Parameters

\* Every handler keeps fresh what was, but for what the list says it writes,
\* and makes fresh what the list says it makes; one that hands over a buffer
\* hands over what it reads.
LEMMA HandlersSound ==
  ASSUME ControlInv, ParamInv, Handlers, Reads(list, r28) \subseteq fresh, Aligned(list, r28)
  PROVE  /\ fresh \ Writes(list, r28) \subseteq fresh' /\ Makes(list, r28) \subseteq fresh'
         /\ output' \in {output, "new"}
  <1> DEFINE W == Writes(list, r28)
             M == Makes(list, r28)
             R == Reads(list, r28)
             n == Worked(list, r28)
             Sound == fresh \ W \subseteq fresh' /\ M \subseteq fresh'
  <1>fetch. phase = "fetch"
    BY DEF Handlers, Dispatch, SPNOOP, CLEARBUFF, LOADBUFF, SAVEBUFF, LOADADPCM, SEGMENT,
           SETBUFF, SETVOL, SETLOOP, INTERLEAVE, DMEMMOVE, MIXER, ADPCM, POLEF, RESAMPLE, ENVMIXER
  <1>c. Cmd \in AL!Command /\ Cmd = list[r28]
    BY <1>fetch, AtHand
  <1>b. ASSUME AL!UsesBuffers(Cmd)
        PROVE  /\ In(list, r28) = par.in /\ Out(list, r28) = par.out
               /\ AL!Count(list, r28) = par.count
               /\ par.in \in Nat /\ par.out \in Nat /\ par.count \in Nat
    BY <1>b, <1>fetch, InAndOut
  <1>1. CASE /\ Cmd.op \in {"SPNOOP", "SEGMENT", "SETBUFF", "SETVOL", "SETLOOP"}
             /\ UNCHANGED <<fresh, output>>
    <2>1. Outputs(list, r28) = {}
      BY <1>c, <1>1 DEF Outputs
    <2>2. M = {}
      BY <2>1 DEF Makes
    <2>3. QED
      BY <1>1, <2>2
  <1>2. CASE SAVEBUFF
    <2>1. /\ Cmd.op = "SAVEBUFF" /\ fresh' = fresh
          /\ IF par.count = 0 THEN UNCHANGED output
             ELSE output' = IF Touched(par.out, par.count) \subseteq fresh THEN "new" ELSE "stale"
      BY <1>2 DEF SAVEBUFF, Dispatch, memory
    <2>2. Outputs(list, r28) = {} /\ R = Touched(par.out, par.count)
      BY <1>b, <1>c, <2>1 DEF Outputs, Reads, AL!UsesBuffers
    <2>3. M = {}
      BY <2>2 DEF Makes
    <2>4. QED
      BY <2>1, <2>2, <2>3
  <1>3. CASE CLEARBUFF
    <2>1. /\ Cmd.op = "CLEARBUFF" /\ output' = output
          /\ fresh' = fresh \cup Covered(Buffers + Cmd.dst, 16 * Up(Cmd.count, 16))
      BY <1>3 DEF CLEARBUFF, Dispatch, Write
    <2>2. n = 16 * Up(Cmd.count, 16)
      BY <1>c, <2>1 DEF Worked
    <2>3. Outputs(list, r28) = {<<Buffers + Cmd.dst, n>>}
      BY <1>c, <2>1 DEF Outputs
    <2>4. QED
      BY <2>1, <2>2, <2>3, OneOutput
  <1>4. CASE LOADBUFF
    <2>1. /\ Cmd.op = "LOADBUFF" /\ output' = output
          /\ fresh' = fresh \cup Covered(par.in, par.count)
      BY <1>4 DEF LOADBUFF, Dispatch, Write
    <2>2. Outputs(list, r28) = {<<par.in, par.count>>}
      BY <1>b, <1>c, <2>1 DEF Outputs, AL!UsesBuffers
    <2>3. QED
      BY <2>1, <2>2, OneOutput
  <1>5. CASE LOADADPCM
    <2>1. /\ Cmd.op = "LOADADPCM" /\ output' = output
          /\ fresh' = fresh \cup Covered(Codebook, Cmd.count)
      BY <1>5 DEF LOADADPCM, Dispatch, Write
    <2>2. Outputs(list, r28) = {<<Codebook, Cmd.count>>}
      BY <1>c, <2>1 DEF Outputs
    <2>3. QED
      BY <2>1, <2>2, OneOutput
  <1>6. CASE INTERLEAVE
    <2> DEFINE k == Up(par.count, 16)
               left == Buffers + Cmd.left
               right == Buffers + Cmd.right
               srcs == {left, right}
               bytes == 2 * n
    <2>1. Cmd.op = "INTERLEAVE" /\ output' = output /\ Through(srcs, par.out, 32, k)
      BY <1>6 DEF INTERLEAVE, Dispatch
    <2>2. /\ Out(list, r28) = par.out /\ AL!Count(list, r28) = par.count
          /\ par.out \in Nat /\ par.count \in Nat
      BY <1>b, <2>1 DEF AL!UsesBuffers
    <2>3. n = 16 * k
      BY <1>c, <2>1, <2>2 DEF Worked
    <2>4. Outputs(list, r28) = {<<par.out, bytes>>}
      BY <1>c, <2>1, <2>2 DEF Outputs
    <2>5. R = Touched(left, n) \cup Touched(right, n)
      BY <1>c, <2>1 DEF Reads
    <2>6. left \in Nat /\ right \in Nat
      BY <1>c, <2>1, Formats DEF Buffers
    <2>7. par.out % 8 = 0
      BY <1>c, <2>1, <2>2 DEF Aligned
    <2>8. k \in Nat
      BY <2>2, Rounds
    <2>9. \A s \in srcs : s \in Nat /\ Touched(s, 16 * k) \subseteq fresh
      BY <2>3, <2>5, <2>6
    <2> HIDE DEF k, srcs
    <2>10. bytes \in Nat /\ bytes = 32 * k
      BY <2>3, <2>8
    <2> HIDE DEF bytes
    <2>11. /\ fresh \ Touched(par.out, bytes) \subseteq fresh'
           /\ Covered(par.out, bytes) \subseteq fresh'
      BY <2>1, <2>2, <2>7, <2>8, <2>9, <2>10, ThroughSound
    <2>12. M = Covered(par.out, bytes) /\ W = Spoils(list, r28) \cup Touched(par.out, bytes)
      BY <2>4 DEF Makes, Writes
    <2>13. QED
      BY <2>1, <2>11, <2>12
  <1>7. CASE DMEMMOVE
    <2> DEFINE k == Up(Cmd.count, 16)
               src == Buffers + Cmd.src
               dst == Buffers + Cmd.dst
               srcs == {src}
    <2>1. Cmd.op = "DMEMMOVE" /\ output' = output /\ Through(srcs, dst, 16, k)
      BY <1>7 DEF DMEMMOVE, Dispatch
    <2>2. n = 16 * k
      BY <1>c, <2>1 DEF Worked
    <2>3. Outputs(list, r28) = {<<dst, n>>}
      BY <1>c, <2>1 DEF Outputs
    <2>4. R = Touched(src, n)
      BY <1>c, <2>1 DEF Reads
    <2>5. src \in Nat /\ dst \in Nat /\ Cmd.count \in Nat
      BY <1>c, <2>1, Formats DEF Buffers
    <2>6. dst % 8 = 0
      BY <1>c, <2>1 DEF Aligned
    <2>7. k \in Nat
      BY <2>5, Rounds
    <2>8. \A s \in srcs : s \in Nat /\ Touched(s, 16 * k) \subseteq fresh
      BY <2>2, <2>4, <2>5
    <2> HIDE DEF k, srcs, dst, n
    <2>9. n \in Nat
      BY <2>2, <2>7
    <2>10. fresh \ Touched(dst, n) \subseteq fresh' /\ Covered(dst, n) \subseteq fresh'
      BY <2>1, <2>2, <2>5, <2>6, <2>7, <2>8, <2>9, ThroughSound
    <2>11. M = Covered(dst, n) /\ W = Spoils(list, r28) \cup Touched(dst, n)
      BY <2>3 DEF Makes, Writes
    <2>12. QED
      BY <2>1, <2>10, <2>11
  <1>8. CASE MIXER
    <2> DEFINE m == Up(par.count, 32)
               k == 2 * m
               src == Buffers + Cmd.src
               dst == Buffers + Cmd.dst
               srcs == {src, dst}
    <2>1. Cmd.op = "MIXER" /\ output' = output /\ Through(srcs, dst, 16, k)
      BY <1>8 DEF MIXER, Dispatch
    <2>2. AL!Count(list, r28) = par.count /\ par.count \in Nat
      BY <1>b, <2>1 DEF AL!UsesBuffers
    <2>3. n = 32 * m
      BY <1>c, <2>1, <2>2 DEF Worked
    <2>4. Outputs(list, r28) = {<<dst, n>>}
      BY <1>c, <2>1 DEF Outputs
    <2>5. R = Touched(src, n) \cup Touched(dst, n)
      BY <1>c, <2>1 DEF Reads
    <2>6. src \in Nat /\ dst \in Nat
      BY <1>c, <2>1, Formats DEF Buffers
    <2>7. dst % 8 = 0
      BY <1>c, <2>1 DEF Aligned
    <2>8. m \in Nat
      BY <2>2, Rounds
    <2>9. k = 2 * m
      OBVIOUS
    <2> HIDE DEF m, k, n
    <2>10. n \in Nat /\ k \in Nat /\ n = 16 * k
      BY <2>3, <2>8, <2>9
    <2>11. \A s \in srcs : s \in Nat /\ Touched(s, 16 * k) \subseteq fresh
      BY <2>5, <2>6, <2>10
    <2> HIDE DEF srcs, dst
    <2>12. fresh \ Touched(dst, n) \subseteq fresh' /\ Covered(dst, n) \subseteq fresh'
      BY <2>1, <2>6, <2>7, <2>10, <2>11, ThroughSound
    <2>13. M = Covered(dst, n) /\ W = Spoils(list, r28) \cup Touched(dst, n)
      BY <2>4 DEF Makes, Writes
    <2>14. QED
      BY <2>1, <2>12, <2>13
  <1>9. CASE ADPCM
    <2> DEFINE m == Up(par.count, 32)
               bytes == 32 + 32 * m
    <2>1. /\ Cmd.op = "ADPCM" /\ output' = output
          /\ Make(AdpcmReads, Touched(par.out, bytes), Covered(par.out, bytes))
      BY <1>9 DEF ADPCM, Dispatch, AdpcmFrames
    <2>2. /\ In(list, r28) = par.in /\ Out(list, r28) = par.out
          /\ AL!Count(list, r28) = par.count /\ par.count \in Nat
      BY <1>b, <2>1 DEF AL!UsesBuffers, AL!Decodes
    <2>3. n = 32 * m /\ AL!Made(list, r28) = m
      BY <1>c, <2>1, <2>2 DEF Worked, AL!Made, AL!Decodes, AL!Up, Up
    <2>4. Outputs(list, r28) = {<<par.out, bytes>>}
      <3>1. Outputs(list, r28) = {<<par.out, 32 + n>>}
        BY <1>c, <2>1, <2>2 DEF Outputs
      <3>2. QED
        BY <2>3, <3>1
    <2>5. R = IF n > 0 THEN Touched(par.in, 9 * m) \cup Touched(Codebook, 32) ELSE {}
      BY <1>c, <2>1, <2>2, <2>3 DEF Reads
    <2>6. AdpcmReads = IF m = 0 THEN {} ELSE Touched(par.in, 9 * m) \cup Touched(Codebook, 32)
      BY DEF AdpcmReads, AdpcmFrames
    <2>7. m \in Nat
      BY <2>2, Rounds
    <2> HIDE DEF m, bytes, n
    <2>8. n > 0 <=> m # 0
      BY <2>3, <2>7
    <2>9. AdpcmReads \subseteq fresh
      BY <2>5, <2>6, <2>8
    <2>10. /\ fresh \ Touched(par.out, bytes) \subseteq fresh'
           /\ Covered(par.out, bytes) \subseteq fresh'
      BY <2>1, <2>9 DEF Make, Write
    <2>11. M = Covered(par.out, bytes) /\ W = Spoils(list, r28) \cup Touched(par.out, bytes)
      BY <2>4 DEF Makes, Writes
    <2>12. QED
      BY <2>1, <2>10, <2>11
  <1>10. CASE POLEF
    <2> DEFINE bytes == 16 * Up(par.count, 16)
               sources == Touched(par.in, bytes) \cup Touched(Codebook, 32)
               out == Touched(par.out, bytes)
    <2>1. Cmd.op = "POLEF" /\ output' = output
      BY <1>10 DEF POLEF, Dispatch
    <2>2. /\ In(list, r28) = par.in /\ Out(list, r28) = par.out
          /\ AL!Count(list, r28) = par.count /\ par.count \in Nat /\ par.out \in Nat
      BY <1>b, <2>1 DEF AL!UsesBuffers, AL!Filters
    <2>3. n = bytes
      BY <1>c, <2>1, <2>2 DEF Worked
    <2>4. Outputs(list, r28) = {<<par.out, n>>}
      BY <1>c, <2>1, <2>2 DEF Outputs
    <2>5. Outputs(list, r28) = {<<par.out, bytes>>}
      BY <2>3, <2>4
    <2>6. /\ bytes \in Nat
          /\ par.count # 0 => bytes > 0
          /\ par.count = 0 => bytes = 0
      BY <2>2 DEF Up
    <2>7. R = IF n > 0 THEN Touched(par.in, n) \cup Touched(Codebook, 32) ELSE {}
      BY <1>c, <2>1, <2>2 DEF Reads
    <2>8. Spoils(list, r28) = IF n > 0 THEN PolefScaled ELSE {}
      BY <1>c, <2>1 DEF Spoils, PolefScaled
    <2>9. CASE par.count = 0
      <3>1. fresh' = fresh
        BY <1>10, <2>9 DEF POLEF, memory
      <3>2. Covered(par.out, 0) = {}
        BY <2>2 DEF Covered, Up
      <3>3. M = Covered(par.out, bytes)
        BY <2>5 DEF Makes
      <3> HIDE DEF bytes
      <3>4. M = {}
        BY <2>6, <2>9, <3>2, <3>3
      <3>5. QED
        BY <2>1, <3>1, <3>4
    <2>10. CASE par.count # 0
      <3>1. fresh' = (fresh \ (out \cup PolefScaled)) \cup
                       IF sources \subseteq fresh THEN Covered(par.out, bytes) ELSE {}
        BY <1>10, <2>10 DEF POLEF, PolefBlocks, Write
      <3> HIDE DEF bytes
      <3>2. n > 0
        BY <2>3, <2>6, <2>10
      <3>3. sources \subseteq fresh /\ Spoils(list, r28) = PolefScaled
        BY <2>3, <2>7, <2>8, <3>2
      <3>4. M = Covered(par.out, bytes) /\ W = Spoils(list, r28) \cup out
        BY <2>5 DEF Makes, Writes
      <3>5. QED
        BY <2>1, <3>1, <3>3, <3>4
    <2>11. QED
      BY <2>9, <2>10
  <1>11. CASE RESAMPLE
    <2> DEFINE bytes == 16 * ResampleBlocks
               out == Touched(par.out, bytes)
    <2>1. /\ Cmd.op = "RESAMPLE" /\ output' = output
          /\ Make(ResampleReads, ResampleHistory \cup out, Covered(par.out, bytes))
      BY <1>11 DEF RESAMPLE, Dispatch
    <2>2. /\ In(list, r28) = par.in /\ Out(list, r28) = par.out
          /\ AL!Count(list, r28) = par.count /\ par.count \in Nat
      BY <1>b, <2>1 DEF AL!UsesBuffers, AL!Runs, AL!Mixes
    <2>3. par.count > 0
      BY <1>fetch, <1>c, <2>1, <2>2, AtHand DEF AL!CommandFits, AL!Runs, AL!Mixes
    <2>4. ResampleBlocks = Up(par.count, 16)
      BY <2>2, <2>3 DEF ResampleBlocks, AtLeast, Up
    <2>5. n = bytes
      BY <1>c, <2>1, <2>2, <2>4 DEF Worked
    <2>6. Outputs(list, r28) = {<<par.out, n>>}
      BY <1>c, <2>1, <2>2 DEF Outputs
    <2>7. Outputs(list, r28) = {<<par.out, bytes>>}
      BY <2>5, <2>6
    <2>8. R = ResampleReads
      BY <1>c, <2>1, <2>2 DEF Reads, ResampleReads
    <2>9. Spoils(list, r28) = ResampleHistory
      BY <1>c, <2>1, <2>2 DEF Spoils, ResampleHistory
    <2>10. M = Covered(par.out, bytes) /\ W = Spoils(list, r28) \cup out
      BY <2>7 DEF Makes, Writes
    <2>11. fresh' = (fresh \ (ResampleHistory \cup out)) \cup Covered(par.out, bytes)
      BY <2>1, <2>8 DEF Make, Write
    <2>12. QED
      BY <2>1, <2>9, <2>10, <2>11
  <1>12. CASE ENVMIXER
    <2> DEFINE bytes == 16 * EnvBlocks
               out(d) == Touched(d, bytes)
               made(d) == BlocksFresh({par.in, d}, d, 16, EnvBlocks)
               a == list[AL!AuxSet(list, r28 - 1)]
               mixed == Mixed(list, r28)
    <2>1. /\ Cmd.op = "ENVMIXER" /\ output' = output
          /\ fresh' = (fresh \ (EnvWet \cup UNION {out(d) : d \in EnvMixes}))
                        \cup UNION {made(d) : d \in EnvMixes}
      BY <1>12 DEF ENVMIXER, Dispatch, Write
    <2>2. /\ In(list, r28) = par.in /\ Out(list, r28) = par.out
          /\ AL!Count(list, r28) = par.count
          /\ par.count \in Nat /\ par.in \in Nat /\ par.out \in Nat
      BY <1>b, <2>1 DEF AL!UsesBuffers, AL!Runs, AL!Mixes
    <2>3. /\ par.count > 0 /\ Cmd.init \in BOOLEAN /\ Cmd.aux \in BOOLEAN
          /\ Cmd.init => par.count > 16
      BY <1>fetch, <1>c, <2>1, <2>2, AtHand, Formats DEF AL!CommandFits, AL!Runs, AL!Mixes
    <2>4. EnvBlocks = Up(par.count, 16) /\ EnvBlocks \in Nat
      <3>1. /\ Up(par.count, 16) \in Nat /\ Up(par.count, 16) >= 1
            /\ Cmd.init => Up(par.count, 16) >= 2
        BY <2>2, <2>3 DEF Up
      <3>2. QED
        BY <3>1 DEF EnvBlocks, AtLeast
    <2>5. n = bytes
      BY <1>c, <2>1, <2>2, <2>4 DEF Worked
    <2>6. EnvMixes = mixed /\ mixed \subseteq Nat
      <3>1. /\ a.in \in Nat /\ a.out \in Nat /\ a.count \in Nat
            /\ par.dry = Buffers + a.in /\ par.wetl = Buffers + a.out
            /\ par.wetr = Buffers + a.count
        BY <1>fetch, <2>1, AuxAtHand
      <3>2. mixed = {par.out, Buffers + a.in} \cup
                      IF Cmd.aux THEN {Buffers + a.out, Buffers + a.count} ELSE {}
        BY <1>c, <2>2 DEF Mixed
      <3> HIDE DEF a, mixed
      <3>3. EnvMixes = mixed
        BY <3>1, <3>2 DEF EnvMixes
      <3>4. \A x \in Nat : Buffers + x \in Nat
        BY SMT DEF Buffers
      <3>5. QED
        BY <2>2, <3>1, <3>2, <3>3, <3>4
    <2>7. \A d \in mixed : d % 8 = 0
      BY <1>c, <2>1 DEF Aligned
    <2>8. R = UNION {Touched(d, n) : d \in {par.in} \cup mixed}
      BY <1>c, <2>1, <2>2 DEF Reads
    <2>9. Outputs(list, r28) = {<<d, n>> : d \in mixed}
      BY <1>c, <2>1 DEF Outputs
    <2>10. Spoils(list, r28) = EnvWet
      BY <1>c, <2>1, <2>3 DEF Spoils, EnvWet
    <2>11. bytes = 16 * EnvBlocks /\ bytes \in Nat
      BY <2>4
    <2> HIDE DEF bytes, mixed, n
    <2>12. /\ W = EnvWet \cup UNION {out(d) : d \in mixed}
           /\ M = UNION {Covered(d, bytes) : d \in mixed}
      <3>1. Outputs(list, r28) = {<<d, bytes>> : d \in mixed}
        BY <2>5, <2>9
      <3>2. QED
        BY <2>10, <3>1, ManyOutputs
    <2>13. ASSUME NEW d \in mixed
           PROVE  Covered(d, bytes) \subseteq made(d)
      <3> DEFINE srcs == {par.in, d}
      <3>1. srcs \subseteq Nat /\ d \in Nat /\ d % 8 = 0
        BY <2>2, <2>6, <2>7
      <3>2. \A s \in srcs : Touched(s, 16 * EnvBlocks) \subseteq fresh
        BY <2>5, <2>8, <2>11
      <3> HIDE DEF srcs
      <3>3. Covered(d, bytes) \subseteq BlocksFresh(srcs, d, 16, EnvBlocks)
        BY <2>4, <2>11, <3>1, <3>2, BlocksMade
      <3>4. QED
        BY <3>3 DEF srcs
    <2> HIDE DEF out, made
    <2>14. QED
      BY <2>1, <2>6, <2>12, <2>13
  <1>13. QED
    BY <1>1, <1>2, <1>3, <1>4, <1>5, <1>6, <1>7, <1>8, <1>9, <1>10, <1>11, <1>12
    DEF Handlers, SPNOOP, SEGMENT, SETBUFF, SETVOL, SETLOOP, Dispatch, data, memory

\* A task begins with nothing fresh and nothing known, and no step of its
\* dispatch touches data memory outside the buffer of commands.
LEMMA SoundStep == UcodeInv /\ SoundInv /\ [Next]_vars => SoundInv'
  <1> SUFFICES ASSUME UcodeInv, SoundInv, [Next]_vars
               PROVE  SoundInv'
    OBVIOUS
  <1>1. CASE BeginTask
    <2>1. PICK l \in Lists : list' = l /\ r28' = 1
      BY <1>1 DEF BeginTask
    <2>2. r28' - 1 = 0 /\ output' = "nothing"
      BY <1>1, <2>1 DEF BeginTask
    <2>3. Known(list', r28' - 1) = {}
      BY <2>2, NothingKnown
    <2>4. QED
      BY <2>2, <2>3 DEF SoundInv
  <1>2. CASE /\ output' = output
             /\ phase' # "idle" => phase # "idle" /\ UNCHANGED <<list, r28, fresh>>
    BY <1>2 DEF SoundInv
  <1>3. CASE Handlers
    <2>1. ControlInv /\ ParamInv
      BY DEF UcodeInv, Inv
    <2>2. phase = "fetch" /\ phase' = "loop" /\ list' = list /\ r28' = r28 + 1
      BY <1>3 DEF Handlers, Dispatch, SPNOOP, CLEARBUFF, LOADBUFF, SAVEBUFF, LOADADPCM, SEGMENT,
           SETBUFF, SETVOL, SETLOOP, INTERLEAVE, DMEMMOVE, MIXER, ADPCM, POLEF, RESAMPLE, ENVMIXER
    <2>3. list \in Lists /\ r28 \in 1 .. Len(list) /\ Len(list) \in Nat
      BY <2>1, <2>2, AtHand
    <2>4. Reads(list, r28) \subseteq Known(list, r28 - 1) /\ Aligned(list, r28)
      BY <2>3, SourcesAssumption
    <2>5. Known(list, r28 - 1) \subseteq fresh /\ output # "stale"
      BY <2>2 DEF SoundInv
    <2>6. /\ fresh \ Writes(list, r28) \subseteq fresh' /\ Makes(list, r28) \subseteq fresh'
          /\ output' \in {output, "new"}
      BY <1>3, <2>1, <2>4, <2>5, HandlersSound
    <2> DEFINE n == r28 - 1
    <2>7. n \in Nat /\ n + 1 = r28 /\ r28' - 1 = r28
      BY <2>2, <2>3
    <2>8. Known(list, r28) \subseteq (Known(list, n) \ Writes(list, r28)) \cup Makes(list, r28)
      <3> HIDE DEF n
      <3>1. Known(list, n + 1) \subseteq
              (Known(list, n) \ Writes(list, n + 1)) \cup Makes(list, n + 1)
        BY <2>7, KnownGrows
      <3>2. QED
        BY <2>7, <3>1
    <2>9. Known(list', r28' - 1) \subseteq fresh'
      BY <2>2, <2>5, <2>6, <2>7, <2>8
    <2>10. QED
      BY <2>5, <2>6, <2>9 DEF SoundInv
  <1>4. QED
    BY <1>1, <1>2, <1>3
    DEF Next, Running, silent_task_stub, Continue, Refill, Finish, vars, ctl, data

-----------------------------------------------------------------------------
(* The end of a task                                                       *)

\* The steps a task still has before it: two a command, and the last.
Remaining == IF phase = "idle" THEN 0 ELSE 2 * r27 + IF phase = "loop" THEN 2 ELSE 1

LEMMA RunningShortens == UcodeInv /\ Running => Remaining' \in Nat /\ Remaining' < Remaining
  <1> SUFFICES ASSUME UcodeInv, Running PROVE Remaining' \in Nat /\ Remaining' < Remaining
    OBVIOUS
  <1>1. /\ phase \in {"idle", "loop", "fetch"} /\ r27 \in Nat /\ r30 \in Nat
        /\ phase = "fetch" => r30 > 0
        /\ phase # "idle" => r30 <= r27
    BY DEF UcodeInv, Inv, ControlInv
  <1>2. CASE Continue \/ Refill
    <2>1. phase = "loop" /\ phase' = "fetch" /\ r27' = r27
      BY <1>2 DEF Continue, Refill
    <2>2. QED
      BY <1>1, <2>1 DEF Remaining
  <1>3. CASE Finish
    <2>1. phase = "loop" /\ phase' = "idle"
      BY <1>3 DEF Finish
    <2>2. QED
      BY <1>1, <2>1 DEF Remaining
  <1>4. CASE Handlers
    <2>1. phase = "fetch" /\ phase' = "loop" /\ r27' = r27 - 1
      BY <1>4 DEF Handlers, Dispatch, SPNOOP, CLEARBUFF, LOADBUFF, SAVEBUFF, LOADADPCM, SEGMENT,
           SETBUFF, SETVOL, SETLOOP, INTERLEAVE, DMEMMOVE, MIXER, ADPCM, POLEF, RESAMPLE, ENVMIXER
    <2>2. r27 > 0
      BY <1>1, <2>1
    <2>3. QED
      BY <1>1, <2>1, <2>2 DEF Remaining
  <1>5. QED
    BY <1>2, <1>3, <1>4 DEF Running

-----------------------------------------------------------------------------
(* Results                                                                 *)

\* No handler, whatever the counts and wherever the library laid its buffers
\* out, writes over a command still to come, the dispatch table or the
\* constants below it.
THEOREM HandlersSpareCommands == Spec => []NothingOverwritten
  <1>1. UcodeInv => NothingOverwritten
    BY DEF UcodeInv, Inv, ControlInv, MemoryInv, NothingOverwritten
  <1>2. QED
    BY <1>1, UcodeSafe, PTL

\* The registers and every word of data memory hold values of their kind.
THEOREM UcodeTypes == Spec => []TypeOK
  <1>1. UcodeInv => TypeOK
    <2> SUFFICES ASSUME UcodeInv PROVE TypeOK
      OBVIOUS
    <2>1. /\ phase \in {"idle", "loop", "fetch"} /\ r27 \in Nat /\ r28 \in Nat
          /\ r29 \in 1 .. Block + 1 /\ r30 \in 0 .. Block
      <3>1. /\ phase \in {"idle", "loop", "fetch"} /\ r27 \in Nat /\ r28 \in Nat
            /\ r29 \in Nat \ {0} /\ r30 \in Nat /\ r29 + r30 <= Block + 1
        BY DEF ControlInv, UcodeInv, Inv
      <3>2. QED
        BY <3>1, BlockAssumption
    <2>2. segs \in [0 .. 15 -> Nat] /\ par.vol \in AL!Levels /\ par.word \in {"nothing", "loop", "volume"}
      BY DEF ParamInv, Parameters, UcodeInv, Inv
    <2>3. fresh \subseteq 0 .. 511 /\ intact \in BOOLEAN
      BY DEF MemoryInv, UcodeInv, Inv
    <2>4. QED
      BY <2>1, <2>2, <2>3 DEF StreamInv, SessionInv, UcodeInv, Inv, TypeOK
  <1>2. QED
    BY <1>1, UcodeSafe, PTL

\* The recompiled microcode carries every list out as AudioList says: each
\* command once and in order, with this list's segments, buffers, volumes and
\* loop points although the last task's are still in the tables, and every stream
\* from where its last command left it.  Of a list it asks that it set what it
\* uses before it uses it, segment 0 apart.
THEOREM CarriesListsOut == Spec => ImplementsList
  BY ListInit, UcodeSafe, UcodeStep, PTL DEF Spec, ImplementsList, AL!Spec

\* What is handed to the game was made by this task, every byte of it, as long
\* as no command of a list reads what the commands before it have not made:
\* the blocks handlers round to, the histories they put before their inputs
\* and the buffers their registers name make nothing worse of a sound list.
THEOREM SoundIsThisTasks == Spec => []NoStaleSound
  <1>1. Init => SoundInv
    BY DEF Init, SoundInv
  <1>2. SoundInv => NoStaleSound
    BY DEF SoundInv, NoStaleSound
  <1>3. QED
    BY <1>1, <1>2, UcodeSafe, SoundStep, PTL DEF Spec

\* Every step of a task brings its end nearer, and its end is never passed:
\* the count of steps left is a natural number that each of them lowers.
THEOREM TaskShortens == Spec => [][Running => Remaining' \in Nat /\ Remaining' < Remaining]_vars
  <1>1. UcodeInv /\ [Next]_vars => [Running => Remaining' \in Nat /\ Remaining' < Remaining]_vars
    BY RunningShortens
  <1>2. QED
    BY <1>1, UcodeSafe, PTL DEF Spec

\* Until then there is a step to take: the dispatch is at a command its table
\* has a handler for, never at what an earlier block or task left behind.
THEOREM CommandAtHand == Spec => [](phase = "fetch" => Cmd = list[r28] /\ Cmd \in AL!Command)
  <1>1. UcodeInv => (phase = "fetch" => Cmd = list[r28] /\ Cmd \in AL!Command)
    BY AtHand DEF UcodeInv, Inv
  <1>2. QED
    BY <1>1, UcodeSafe, PTL
=============================================================================
