------------------------------ MODULE AudioList ------------------------------
(***************************************************************************)
(* What the audio microcode promises the game: the commands of a list are  *)
(* carried out once each, in order, and each means what the list says --    *)
(* an address is relative to the segment last set in this list, a buffer    *)
(* is the one last set in this list, a loop point and the volumes an        *)
(* envelope starts with those last set in it -- and a stream (a decoder's,  *)
(* resampler's or envelope's state in memory) goes on from where its last   *)
(* command left it.                                                         *)
(*                                                                         *)
(* AudioUcode shows that the recompiled microcode keeps the promise.        *)
(***************************************************************************)
EXTENDS Integers, Sequences

CONSTANTS Lists,   \* the command lists the game may hand over
          Places   \* addresses of stream states and loop points in memory

\* The commands.  off is an address relative to segment seg, base one of the
\* game's memory; in, out, src, dst, left and right are offsets from the
\* buffers, count and reads are bytes.
Segments == 0 .. 15
Volumes == {"left", "right", "left target", "right target", "aux"}
Command ==
  [op : {"SPNOOP"}]
    \cup [op : {"SEGMENT"}, seg : Segments, base : Nat]
    \cup [op : {"SETBUFF"}, aux : BOOLEAN, in : Nat, out : Nat, count : Nat]
    \cup [op : {"SETVOL"}, what : Volumes, level : Nat]
    \cup [op : {"SETLOOP", "LOADBUFF", "SAVEBUFF"}, seg : Segments, off : Nat]
    \cup [op : {"LOADADPCM"}, seg : Segments, off : Nat, count : Nat]
    \cup [op : {"CLEARBUFF"}, dst : Nat, count : Nat]
    \cup [op : {"DMEMMOVE"}, src : Nat, dst : Nat, count : Nat]
    \cup [op : {"MIXER"}, src : Nat, dst : Nat]
    \cup [op : {"INTERLEAVE"}, left : Nat, right : Nat]
    \cup [op : {"ADPCM"}, seg : Segments, off : Nat, init : BOOLEAN, loop : BOOLEAN]
    \cup [op : {"POLEF"}, seg : Segments, off : Nat, init : BOOLEAN]
    \cup [op : {"RESAMPLE"}, seg : Segments, off : Nat, init : BOOLEAN, splice : BOOLEAN,
          reads : Nat]
    \cup [op : {"ENVMIXER"}, seg : Segments, off : Nat, init : BOOLEAN, aux : BOOLEAN]

VARIABLES list,    \* the list being carried out, empty when there is none
          next,    \* its next command
          stream   \* what each place in memory holds of a stream

vars == <<list, next, stream>>

-----------------------------------------------------------------------------

\* A stream's state: where it set out from, the volumes an envelope set out
\* with, and how many blocks it made since.  A place never saved to is a
\* starting point of its own (a loop point in the sample's data).  One SETVOL
\* sets one place: a volume, a target with its rate, or both auxiliary levels.
Silence == -1
Stale == -2
Levels == [Volumes -> Nat]
NoLevels == [v \in Volumes |-> 0]
State == [from : Places \cup {Silence, Stale}, levels : Levels, blocks : Nat]
From(o) == [from |-> o, levels |-> NoLevels, blocks |-> 0]
Started(levels) == [From(Silence) EXCEPT !.levels = levels]
Untouched == [p \in Places |-> From(p)]

Up(n, d) == (n + d - 1) \div d

\* The latest of a set of positions, 0 when there is none.
Last(J) == IF J = {} THEN 0 ELSE CHOOSE j \in J : \A k \in J : k <= j

\* Which of l's first n commands last set a segment, the buffers, a loop point,
\* a volume.
SegmentSet(l, n, s) == Last({j \in 1 .. n : l[j].op = "SEGMENT" /\ l[j].seg = s})
BuffersSet(l, n) == Last({j \in 1 .. n : l[j].op = "SETBUFF" /\ ~l[j].aux})
AuxSet(l, n) == Last({j \in 1 .. n : l[j].op = "SETBUFF" /\ l[j].aux})
LoopSet(l, n) == Last({j \in 1 .. n : l[j].op = "SETLOOP"})
VolumeSet(l, n, v) == Last({j \in 1 .. n : l[j].op = "SETVOL" /\ l[j].what = v})

\* The address command i of l names, and the bytes it is to make.
Base(l, n, s) == IF SegmentSet(l, n, s) = 0 THEN 0 ELSE l[SegmentSet(l, n, s)].base
Place(l, i) == Base(l, i - 1, l[i].seg) + l[i].off
Count(l, i) == l[BuffersSet(l, i - 1)].count

Decodes(c) == c.op = "ADPCM"
Filters(c) == c.op = "POLEF"
Mixes(c) == c.op = "ENVMIXER"
Runs(c) == c.op = "RESAMPLE" \/ Mixes(c)

\* Where the stream of command i of l sets out from.  A filter that is told to
\* start over is not promised silence: see AudioUcode.
LevelsAt(l, i) == [v \in Volumes |-> l[VolumeSet(l, i - 1, v)].level]
Starts(l, i) ==
  IF l[i].init THEN IF Filters(l[i]) THEN {From(Silence), From(Stale)}
                    ELSE IF Mixes(l[i]) THEN {Started(LevelsAt(l, i))}
                    ELSE {From(Silence)}
  ELSE IF Decodes(l[i]) /\ l[i].loop
         THEN {stream[Place(l, LoopSet(l, i - 1))]}
         ELSE {stream[Place(l, i)]}

\* The blocks command i makes: 32 bytes each for the decoder, else 16.
Made(l, i) == Up(Count(l, i), IF Decodes(l[i]) THEN 32 ELSE 16)

Advance(s, n) == [s EXCEPT !.blocks = @ + n]

\* What the game's audio library keeps to, for the microcode keeps what lists
\* set from task to task and would take an earlier list's: at least one command;
\* buffers, loop point, segments and volumes set in the list before they are
\* used, but for segment 0, which every task clears; streams at places of their
\* own; something for a resampler or an envelope to make, and two blocks of it
\* for an envelope that starts.  SETVOL's left target shares its word of memory
\* with the loop point, so one of the two is used before the other is set.
UsesBuffers(c) == c.op \in {"LOADBUFF", "SAVEBUFF", "INTERLEAVE", "MIXER"}
                    \/ Decodes(c) \/ Filters(c) \/ Runs(c)
UsesSegment(c) == c.op \in {"SETLOOP", "LOADBUFF", "SAVEBUFF", "LOADADPCM"}
                    \/ Decodes(c) \/ Filters(c) \/ Runs(c)
LeftSet(l, n) == VolumeSet(l, n, "left target")

CommandFits(l, i) ==
  /\ UsesBuffers(l[i]) => BuffersSet(l, i - 1) # 0
  /\ UsesSegment(l[i]) => l[i].seg = 0 \/ SegmentSet(l, i - 1, l[i].seg) # 0
  /\ l[i].op = "SETLOOP" => Place(l, i) \in Places
  /\ Decodes(l[i]) \/ Filters(l[i]) \/ Runs(l[i]) => Place(l, i) \in Places
  /\ Decodes(l[i]) /\ ~l[i].init /\ l[i].loop =>
       LoopSet(l, i - 1) > LeftSet(l, i - 1)
  /\ Runs(l[i]) => Count(l, i) > 0
  /\ Mixes(l[i]) => AuxSet(l, i - 1) # 0
  /\ Mixes(l[i]) /\ l[i].init =>
       /\ Count(l, i) > 16
       /\ \A v \in Volumes : VolumeSet(l, i - 1, v) # 0
       /\ LeftSet(l, i - 1) > LoopSet(l, i - 1)

WellFormed(l) == Len(l) > 0 /\ \A i \in 1 .. Len(l) : CommandFits(l, i)

-----------------------------------------------------------------------------

Init ==
  /\ list = <<>>
  /\ next = 1
  /\ stream = Untouched

Begin ==
  /\ list = <<>>
  /\ list' \in Lists
  /\ next' = 1
  /\ UNCHANGED stream

Ongoing(c) == Decodes(c) \/ Filters(c) \/ Runs(c)

\* A filter over an empty buffer does nothing at all.
Carry ==
  /\ next <= Len(list)
  /\ next' = next + 1
  /\ IF Ongoing(list[next]) /\ ~(Filters(list[next]) /\ Count(list, next) = 0)
       THEN \E s \in Starts(list, next) :
              stream' = [stream EXCEPT ![Place(list, next)] = Advance(s, Made(list, next))]
       ELSE UNCHANGED stream
  /\ UNCHANGED list

End ==
  /\ list # <<>>
  /\ next > Len(list)
  /\ list' = <<>>
  /\ next' = 1
  /\ UNCHANGED stream

Next == Begin \/ Carry \/ End

Spec == Init /\ [][Next]_vars
=============================================================================
