----------------------------- MODULE AudioUcode ------------------------------
(***************************************************************************)
(* The recompiled audio microcode (src/RecompiledRsp/rsp_audio.cpp) and the *)
(* dispatch that reaches it (src/src/rsp.cpp).                             *)
(*                                                                         *)
(* A task's list is fetched in blocks into 0x380..0x4BF of the RSP's data  *)
(* memory; a table in that memory sends each command to its handler.  The  *)
(* handlers read parameters (0x360) and segments (0x320) earlier commands  *)
(* stored, work on buffers between 0x5C0 and 0xF8F in blocks of 16 or 32   *)
(* bytes, and keep the state of a stream in the game's memory between      *)
(* commands.  Data memory survives from one task to the next.              *)
(*                                                                         *)
(* Sound itself is left out.  Of the bytes of data memory the model keeps  *)
(* where they are and whether they come from this task; of a stream, where *)
(* it set out from and how many blocks it has made.  The handlers have no  *)
(* names in the source: they carry those of the commands.                  *)
(***************************************************************************)
EXTENDS Integers, Sequences

CONSTANTS Lists, Places,  \* as in AudioList
          Block,          \* commands the buffer at 0x380 holds: 40
          MaxTasks        \* bound: tasks of a session

ASSUME BlockAssumption == Block \in 1 .. 40 /\ MaxTasks \in Nat

VARIABLES
  phase,    \* "idle", or where the task is: "loop" (L_1118) or "fetch" (L_10E4)
  list,     \* the task's commands in memory
  r27,      \* commands of the list not carried out yet
  r28,      \* the next command in memory
  r29,      \* the next command in the buffer
  r30,      \* commands of the buffer not carried out yet
  buf,      \* 0x380: the commands fetched
  segs,     \* 0x320: the segment table
  par,      \* 0x360: buffers and count, volumes, and what the word at 0x370 is
  scratch,  \* 0xF94: what a filter that starts over finds for its history
  fresh,    \* the doublewords of data memory that derive from this task only
  intact,   \* nothing below 0x360 was written but the segment table
  saved,    \* the streams' states in the game's memory
  output,   \* what the last SAVEBUFF handed to the game
  noAudio,  \* RAYMAN2_NOAUDIOUCODE
  warned,   \* g_warned_unhandled
  tasks     \* tasks run, for the bound

ctl == <<phase, list, r27, r28, r29, r30>>
data == <<buf, segs, par, scratch, fresh, intact, saved, output>>
vars == <<ctl, data, noAudio, warned, tasks>>

AL == INSTANCE AudioList WITH next <- IF phase = "idle" THEN 1 ELSE r28,
                              stream <- saved

\* The game keeps to what its own library does: lists that make sense.
ASSUME ListsAssumption ==
  /\ Places \subseteq Nat
  /\ Lists \subseteq Seq(AL!Command)
  /\ \A l \in Lists : AL!WellFormed(l)

-----------------------------------------------------------------------------
(* Data memory                                                             *)

Commands == 896     \* 0x380
Codebook == 1216    \* 0x4C0
Buffers == 1472     \* 0x5C0
Wet == 4064         \* 0xFE0: where an envelope without auxiliary buffers mixes

\* Its library also lays its buffers out between 0x5C0 and the workspace at
\* 0xF90, as the counts say: not as the handlers round them.
Room == 3984 - Buffers
LaidOut(l, i) ==
  LET c == l[i]
      b == l[AL!BuffersSet(l, i - 1)]
      a == l[AL!AuxSet(l, i - 1)]
  IN  /\ c.op = "LOADADPCM" => c.count <= Buffers - Codebook
      /\ c.op \in {"CLEARBUFF", "DMEMMOVE"} => c.dst + c.count <= Room
      /\ c.op = "LOADBUFF" => b.in + b.count <= Room
      /\ c.op = "MIXER" => c.dst + b.count <= Room
      /\ c.op = "INTERLEAVE" => b.out + 2 * b.count <= Room
      /\ c.op \in {"ADPCM", "POLEF", "RESAMPLE", "ENVMIXER"} => b.out + b.count <= Room
      /\ c.op = "RESAMPLE" => b.in <= Room
      /\ c.op = "ENVMIXER" => a.in + b.count <= Room
      /\ c.op = "ENVMIXER" /\ c.aux => a.out + b.count <= Room /\ a.count + b.count <= Room
ASSUME LayoutAssumption == \A l \in Lists : \A i \in 1 .. Len(l) : LaidOut(l, i)

Up(n, d) == (n + d - 1) \div d

\* The doublewords a span of bytes touches, and those it covers.
Touched(from, n) == IF n = 0 THEN {} ELSE from \div 8 .. (from + n - 1) \div 8
Covered(from, n) == Up(from, 8) .. (from + n) \div 8 - 1

\* What is left of the commands fetched when a span is written over.
Garbage == [op |-> "garbage"]
Left(w) == [k \in 1 .. Block |->
              IF (Commands + 8 * (k - 1)) \div 8 \in w THEN Garbage ELSE buf[k]]

\* A write into data memory: f is what is fresh afterwards.
Write(w, f) ==
  /\ buf' = Left(w)
  /\ intact' = (intact /\ \A d \in w : d \in 112 .. 511)
  /\ fresh' = f

\* A handler whose output depends on every byte it reads.
Make(reads, writes, covers) ==
  Write(writes, (fresh \ writes) \cup (IF reads \subseteq fresh THEN covers ELSE {}))

\* A handler that makes block k of its output, w bytes, from 16-byte block k
\* of each source.
BlocksFresh(srcs, dst, w, n) ==
  LET good(k) == \A s \in srcs : Touched(s + 16 * k, 16) \subseteq fresh
  IN  UNION {Covered(dst + w * k, w) : k \in {j \in 0 .. n - 1 : good(j)}}
Through(srcs, dst, w, n) ==
  Write(Touched(dst, w * n), (fresh \ Touched(dst, w * n)) \cup BlocksFresh(srcs, dst, w, n))

-----------------------------------------------------------------------------

NoPar == [in |-> 0, out |-> 0, count |-> 0, dry |-> 0, wetl |-> 0, wetr |-> 0,
          vol |-> AL!NoLevels, word |-> "nothing", loop |-> 0]

Init ==
  /\ phase = "idle"
  /\ list = <<>>
  /\ r27 = 0 /\ r28 = 1 /\ r29 = 1 /\ r30 = 0
  /\ buf = [k \in 1 .. Block |-> Garbage]
  /\ segs = [s \in 0 .. 15 |-> 0]
  /\ par = NoPar
  /\ scratch = AL!Silence
  /\ fresh = {}
  /\ intact = TRUE
  /\ saved = AL!Untouched
  /\ output = "nothing"
  /\ noAudio \in BOOLEAN
  /\ warned = FALSE
  /\ tasks = 0

-----------------------------------------------------------------------------
(* Tasks                                                                   *)

\* The block at address n of l, when c commands are left: as many as fit.
\* What an earlier block left behind them stays in the buffer.
FetchBlock_whole_list(l, n, c) ==
  /\ buf' = [k \in 1 .. Block |-> IF n + k - 1 <= Len(l) THEN l[n + k - 1] ELSE buf[k]]
  /\ r29' = 1
  /\ r30' = c
FetchBlock(l, n, c) ==
  LET len == IF c <= Block THEN c ELSE Block
  IN  /\ buf' = [k \in 1 .. Block |-> IF k <= len THEN l[n + k - 1] ELSE buf[k]]
      /\ r29' = 1
      /\ r30' = len

\* The audio microcode's address: the header's list is fetched from.  The loop
\* that should clear the segment table stores to its first entry sixteen times:
\* the other segments are the last task's, as the parameters are.
BeginTask_keeps_segments ==
  /\ phase = "idle"
  /\ ~noAudio
  /\ tasks < MaxTasks
  /\ \E l \in Lists :
       /\ list' = l
       /\ r27' = Len(l)
       /\ r28' = 1
       /\ FetchBlock(l, 1, Len(l))
  /\ phase' = "fetch"
  /\ fresh' = {}
  /\ output' = "nothing"
  /\ tasks' = tasks + 1
  /\ UNCHANGED <<segs, par, scratch, intact, saved, noAudio, warned>>
BeginTask ==
  /\ phase = "idle"
  /\ ~noAudio
  /\ tasks < MaxTasks
  /\ \E l \in Lists :
       /\ list' = l
       /\ r27' = Len(l)
       /\ r28' = 1
       /\ FetchBlock(l, 1, Len(l))
  /\ segs' = [segs EXCEPT ![0] = 0]
  /\ phase' = "fetch"
  /\ fresh' = {}
  /\ output' = "nothing"
  /\ tasks' = tasks + 1
  /\ UNCHANGED <<par, scratch, intact, saved, noAudio, warned>>

\* Audio switched off, or another microcode's task: reported complete, and the
\* first of the latter is warned about.
silent_task_stub ==
  /\ phase = "idle"
  /\ tasks < MaxTasks
  /\ \/ noAudio /\ UNCHANGED warned
     \/ warned' = TRUE
  /\ tasks' = tasks + 1
  /\ UNCHANGED <<ctl, data, noAudio>>

\* L_1118, after every command: on with the block, with the next one, or done.
Continue ==
  /\ phase = "loop"
  /\ r30 > 0
  /\ phase' = "fetch"
  /\ UNCHANGED <<list, r27, r28, r29, r30, data, noAudio, warned, tasks>>

Refill ==
  /\ phase = "loop"
  /\ r30 <= 0
  /\ r27 > 0
  /\ FetchBlock(list, r28, r27)
  /\ phase' = "fetch"
  /\ UNCHANGED <<list, r27, r28, segs, par, scratch, fresh, intact, saved, output,
                 noAudio, warned, tasks>>

Finish_past_the_end ==
  /\ phase = "loop"
  /\ r30 <= 0
  /\ r27 < 0
  /\ phase' = "idle"
  /\ list' = <<>>
  /\ UNCHANGED <<r27, r28, r29, r30, data, noAudio, warned, tasks>>
Finish ==
  /\ phase = "loop"
  /\ r30 <= 0
  /\ r27 <= 0
  /\ phase' = "idle"
  /\ list' = <<>>
  /\ UNCHANGED <<r27, r28, r29, r30, data, noAudio, warned, tasks>>

\* L_10E4: the command is read, the pointers move on, the table's entry for it
\* is jumped to; the handler comes back to L_1118.  Garbage has no handler.
Cmd == buf[r29]
Dispatch(op) ==
  /\ phase = "fetch"
  /\ Cmd.op = op
  /\ phase' = "loop"
  /\ r27' = r27 - 1
  /\ r28' = r28 + 1
  /\ r29' = r29 + 1
  /\ r30' = r30 - 1
  /\ UNCHANGED <<list, noAudio, warned, tasks>>

Resolve(c) == segs[c.seg] + c.off

-----------------------------------------------------------------------------
(* Handlers: memory and parameters                                         *)

memory == <<buf, intact, fresh>>

SPNOOP == Dispatch("SPNOOP") /\ UNCHANGED data

\* Sixteen bytes at a time, none when the count is zero.
CLEARBUFF ==
  /\ Dispatch("CLEARBUFF")
  /\ LET at == Buffers + Cmd.dst
         n == 16 * Up(Cmd.count, 16)
     IN  Write(Touched(at, n), fresh \cup Covered(at, n))
  /\ UNCHANGED <<segs, par, scratch, saved, output>>

LOADBUFF ==
  /\ Dispatch("LOADBUFF")
  /\ Write(Touched(par.in, par.count), fresh \cup Covered(par.in, par.count))
  /\ UNCHANGED <<segs, par, scratch, saved, output>>

SAVEBUFF ==
  /\ Dispatch("SAVEBUFF")
  /\ IF par.count = 0
       THEN UNCHANGED output
       ELSE output' = IF Touched(par.out, par.count) \subseteq fresh THEN "new" ELSE "stale"
  /\ UNCHANGED <<memory, segs, par, scratch, saved>>

LOADADPCM ==
  /\ Dispatch("LOADADPCM")
  /\ Write(Touched(Codebook, Cmd.count), fresh \cup Covered(Codebook, Cmd.count))
  /\ UNCHANGED <<segs, par, scratch, saved, output>>

SEGMENT ==
  /\ Dispatch("SEGMENT")
  /\ segs' = [segs EXCEPT ![Cmd.seg] = Cmd.base]
  /\ UNCHANGED <<memory, par, scratch, saved, output>>

SETBUFF_no_base ==
  /\ Dispatch("SETBUFF")
  /\ par' = IF Cmd.aux
              THEN [par EXCEPT !.dry = Buffers + Cmd.in,
                               !.wetl = Buffers + Cmd.out,
                               !.wetr = Buffers + Cmd.count]
              ELSE [par EXCEPT !.in = Cmd.in, !.out = Cmd.out, !.count = Cmd.count]
  /\ UNCHANGED <<memory, segs, scratch, saved, output>>
SETBUFF ==
  /\ Dispatch("SETBUFF")
  /\ par' = IF Cmd.aux
              THEN [par EXCEPT !.dry = Buffers + Cmd.in,
                               !.wetl = Buffers + Cmd.out,
                               !.wetr = Buffers + Cmd.count]
              ELSE [par EXCEPT !.in = Buffers + Cmd.in,
                               !.out = Buffers + Cmd.out,
                               !.count = Cmd.count]
  /\ UNCHANGED <<memory, segs, scratch, saved, output>>

\* Five places: the volumes at 0x366 and 0x368, the targets with their rates at
\* 0x370 and 0x376, and the auxiliary levels at 0x37C.
SETVOL ==
  /\ Dispatch("SETVOL")
  /\ par' = [par EXCEPT !.vol[Cmd.what] = Cmd.level,
                         !.word = IF Cmd.what = "left target" THEN "volume" ELSE @]
  /\ UNCHANGED <<memory, segs, scratch, saved, output>>

\* The loop point is stored over the left target and half of its rate.
SETLOOP ==
  /\ Dispatch("SETLOOP")
  /\ par' = [par EXCEPT !.word = "loop", !.loop = Resolve(Cmd)]
  /\ UNCHANGED <<memory, segs, scratch, saved, output>>

\* Two buffers into one of twice the size.
INTERLEAVE_one_channel ==
  /\ Dispatch("INTERLEAVE")
  /\ Through({Buffers + Cmd.left, Buffers + Cmd.right}, par.out, 16, Up(par.count, 16))
  /\ UNCHANGED <<segs, par, scratch, saved, output>>
INTERLEAVE ==
  /\ Dispatch("INTERLEAVE")
  /\ Through({Buffers + Cmd.left, Buffers + Cmd.right}, par.out, 32, Up(par.count, 16))
  /\ UNCHANGED <<segs, par, scratch, saved, output>>

\* Upwards, sixteen bytes at a time: a buffer moves down or clear of itself.
DMEMMOVE ==
  /\ Dispatch("DMEMMOVE")
  /\ Through({Buffers + Cmd.src}, Buffers + Cmd.dst, 16, Up(Cmd.count, 16))
  /\ UNCHANGED <<segs, par, scratch, saved, output>>

\* Thirty-two bytes at a time, onto what the destination holds.
MIXER ==
  /\ Dispatch("MIXER")
  /\ LET dst == Buffers + Cmd.dst
     IN  Through({Buffers + Cmd.src, dst}, dst, 16, 2 * Up(par.count, 32))
  /\ UNCHANGED <<segs, par, scratch, saved, output>>

-----------------------------------------------------------------------------
(* Handlers: streams                                                       *)

Advance(s, n) == [s EXCEPT !.blocks = @ + n]
Save(c, s) == saved' = [saved EXCEPT ![Resolve(c)] = s]
AtLeast(n, m) == IF n < m THEN m ELSE n

\* The decoder starts from silence, the loop point or the stream's state,
\* which it puts before its output.
AdpcmStart ==
  IF Cmd.init THEN AL!From(AL!Silence)
  ELSE IF ~Cmd.loop THEN saved[Resolve(Cmd)]
  ELSE IF par.word = "loop" THEN saved[par.loop] ELSE AL!From(AL!Stale)

\* Nine bytes in, thirty-two out; the last thirty-two are the state to save.
AdpcmFrames == Up(par.count, 32)
AdpcmReads == IF AdpcmFrames = 0 THEN {}
              ELSE Touched(par.in, 9 * AdpcmFrames) \cup Touched(Codebook, 32)
ADPCM ==
  /\ Dispatch("ADPCM")
  /\ LET n == 32 + 32 * AdpcmFrames
     IN  Make(AdpcmReads, Touched(par.out, n), Covered(par.out, n))
  /\ Save(Cmd, Advance(AdpcmStart, AdpcmFrames))
  /\ UNCHANGED <<segs, par, scratch, output>>

\* A filter that starts over clears the first four bytes of its history and
\* reads the other four.
PolefStart == IF Cmd.init THEN AL!From(scratch) ELSE saved[Resolve(Cmd)]

\* The gain is worked into the second row of the codebook where it lies.
PolefScaled == Touched(Codebook + 16, 16)
PolefBlocks ==
  LET n == 16 * Up(par.count, 16)
      out == Touched(par.out, n)
  IN  Write(out \cup PolefScaled,
            (fresh \ (out \cup PolefScaled)) \cup
              IF Touched(par.in, n) \cup Touched(Codebook, 32) \subseteq fresh
                THEN Covered(par.out, n) ELSE {})
POLEF ==
  /\ Dispatch("POLEF")
  /\ IF par.count = 0
       THEN UNCHANGED <<memory, saved, scratch>>
       ELSE /\ PolefBlocks
            /\ Save(Cmd, Advance(PolefStart, Up(par.count, 16)))
            /\ scratch' = IF Cmd.init THEN scratch ELSE AL!Stale
  /\ UNCHANGED <<segs, par, output>>

\* A resampler puts the last samples of its stream before its input: eight
\* bytes, or sixteen more when it splices.
Start == IF Cmd.init THEN AL!From(AL!Silence) ELSE saved[Resolve(Cmd)]
ResampleHistory ==
  LET n == IF Cmd.splice THEN 24 ELSE 8 IN Touched(par.in - n, n)

\* The pitch decides how far it reads; one block is made whatever the count.
ResampleReads == Touched(par.in, Cmd.reads)
ResampleBlocks == AtLeast(Up(par.count, 16), 1)
RESAMPLE ==
  /\ Dispatch("RESAMPLE")
  /\ LET n == 16 * ResampleBlocks
     IN  Make(ResampleReads, ResampleHistory \cup Touched(par.out, n),
              Covered(par.out, n))
  /\ Save(Cmd, Advance(Start, ResampleBlocks))
  /\ scratch' = AL!Stale
  /\ UNCHANGED <<segs, par, output>>

\* An envelope that starts takes volumes, ramps and auxiliary levels from the
\* parameters, whichever list set them; its state keeps them afterwards.
EnvStart ==
  IF ~Cmd.init THEN saved[Resolve(Cmd)]
  ELSE IF par.word = "volume" THEN AL!Started(par.vol) ELSE AL!From(AL!Stale)

\* It mixes its input onto the main buffers and, with auxiliary ones, onto
\* those; without, one scratch block takes what they would get.
EnvMixes == {par.out, par.dry} \cup IF Cmd.aux THEN {par.wetl, par.wetr} ELSE {}
EnvWet == IF Cmd.aux THEN {} ELSE Touched(Wet, 16)

\* A block of its own to start with, then one at least.
EnvBlocks == AtLeast(Up(par.count, 16), IF Cmd.init THEN 2 ELSE 1)
ENVMIXER ==
  /\ Dispatch("ENVMIXER")
  /\ LET writes == EnvWet \cup UNION {Touched(d, 16 * EnvBlocks) : d \in EnvMixes}
     IN  Write(writes, (fresh \ writes) \cup
                 UNION {BlocksFresh({par.in, d}, d, 16, EnvBlocks) : d \in EnvMixes})
  /\ Save(Cmd, Advance(EnvStart, EnvBlocks))
  /\ scratch' = AL!Stale
  /\ UNCHANGED <<segs, par, output>>

Handlers ==
  \/ SPNOOP \/ CLEARBUFF \/ LOADBUFF \/ SAVEBUFF \/ LOADADPCM \/ SEGMENT
  \/ SETBUFF \/ SETVOL \/ SETLOOP \/ INTERLEAVE \/ DMEMMOVE \/ MIXER
  \/ ADPCM \/ POLEF \/ RESAMPLE \/ ENVMIXER

\* The RSP task thread runs a task to its end.
Running == Continue \/ Refill \/ Finish \/ Handlers

Next == BeginTask \/ silent_task_stub \/ Running

Spec == Init /\ [][Next]_vars /\ WF_vars(Running)

-----------------------------------------------------------------------------
(* Properties                                                              *)

\* Every register and every word of data memory holds a value of its kind, and
\* the pointers agree: what is left of the block is left of the list.
TypeOK ==
  /\ phase \in {"idle", "loop", "fetch"}
  /\ r27 \in Nat /\ r28 \in Nat /\ r29 \in 1 .. Block + 1 /\ r30 \in 0 .. Block
  /\ segs \in [0 .. 15 -> Nat]
  /\ par.vol \in AL!Levels /\ par.word \in {"nothing", "loop", "volume"}
  /\ scratch \in {AL!Silence, AL!Stale}
  /\ fresh \subseteq 0 .. 511
  /\ saved \in [Places -> AL!State]
  /\ output \in {"nothing", "new", "stale"}
  /\ noAudio \in BOOLEAN /\ warned \in BOOLEAN
  /\ intact \in BOOLEAN
  /\ tasks \in 0 .. MaxTasks

\* The commands of every list are carried out once each and in order, whatever
\* the blocks they are fetched in, with the segments, buffers, loop points and
\* volumes of this list although those of earlier ones are still there, and every
\* stream goes on from where its last command left it, however many tasks ago.
ImplementsList == AL!Spec

\* No handler, with its rounding to 16 or 32 bytes and the history it puts
\* before its input, writes over a command that is still to come, the table that
\* commands are dispatched by, or the constants below it.
NothingOverwritten ==
  /\ intact
  /\ \A k \in 0 .. r30 - 1 : buf[r29 + k] = list[r28 + k]

\* What is handed to the game was made by this task, every byte of it: no block
\* that rounding left out, and no buffer of an earlier list, gets into it.
NoStaleSound == output # "stale"

\* A task ends: the list's length and the block's run out together.
TaskEnds == phase # "idle" ~> phase = "idle"
=============================================================================
