---------------------------- MODULE MCAudioUcode -----------------------------
(* AudioUcode for TLC: lists of one voice in the layout the game's audio    *)
(* library uses, cut into blocks of four commands.                         *)
EXTENDS AudioBuffers

\* Where the voice keeps its streams, and its sample's loop point.
Dec == 11
Res == 12
Env == 13
Low == 14
LoopPoint == 15
MCPlaces == {Dec, Res, Env, Low, LoopPoint}

\* Offsets from 0x5C0: input and output of the voice, then four accumulators.
Sound == 0
Decoded == 320
Main(n) == 1088 + 352 * n

At(o, s, b, p) == [op |-> o, seg |-> s, off |-> p - b]
Stream(o, s, b, p, init) == [op |-> o, seg |-> s, off |-> p - b, init |-> init]
Plain(o) == [op |-> o]
Segment(s, b) == [op |-> "SEGMENT", seg |-> s, base |-> b]
Buff(i, o, n) == [op |-> "SETBUFF", aux |-> FALSE, in |-> i, out |-> o, count |-> n]
Aux == [op |-> "SETBUFF", aux |-> TRUE, in |-> Main(1), out |-> Main(2), count |-> Main(3)]
Clear(d, n) == [op |-> "CLEARBUFF", dst |-> d, count |-> n]
Vol(w, n) == [op |-> "SETVOL", what |-> w, level |-> n]
Volumes(n) == <<Vol("left", n), Vol("right", n + 1), Vol("left target", n + 2),
                Vol("right target", n + 3), Vol("aux", n + 4)>>
Book(s, b) == [op |-> "LOADADPCM", seg |-> s, off |-> 30 - b, count |-> 64]

Decode(s, b, init, loop, n) ==
  (IF loop THEN <<At("SETLOOP", s, b, LoopPoint)>> ELSE <<>>) \o
  <<[op |-> "ADPCM", seg |-> s, off |-> Dec - b, init |-> init, loop |-> loop]>>
Resample(s, b, init, splice, n) ==
  [op |-> "RESAMPLE", seg |-> s, off |-> Res - b, init |-> init,
   splice |-> splice, reads |-> n]
Envelope(s, b, init, aux) ==
  [op |-> "ENVMIXER", seg |-> s, off |-> Env - b, init |-> init, aux |-> aux]
Mix(d, s) == [op |-> "MIXER", dst |-> d, src |-> s]

\* A voice of n bytes a channel through segment s at b; its envelope starts with
\* the volumes given, or goes on with those it has.
GoesOn == <<>>
Voice(s, b, init, loop, aux, volumes, n) ==
  <<Segment(s, b), Clear(Main(0), 4 * 352), Book(s, b),
    Buff(Sound, 0, 8 * Up(9 * Up(n, 32), 8)), At("LOADBUFF", s, b, 31),
    Buff(Sound, Decoded, n)>>
  \o Decode(s, b, init, loop, n) \o
  <<Buff(Decoded + 32, Sound, n), Resample(s, b, init, ~init, n),
    Buff(Sound, Main(0), n), Aux>>
  \o volumes \o <<Envelope(s, b, volumes # GoesOn, aux)>>

\* The accumulators to the game.
Output(s, b, n) ==
  <<Mix(Main(0), Main(2)), Mix(Main(1), Main(3)), Buff(0, Sound, n),
    [op |-> "INTERLEAVE", left |-> Main(0), right |-> Main(1)],
    Buff(0, Sound, 2 * n), At("SAVEBUFF", s, b, 32)>>

\* The decoder starts and saves its state although it has nothing to decode;
\* what it left is moved down over the input.  The addresses are absolute, by
\* segment 0.
Idle(n) ==
  <<Buff(Sound, Decoded, 0)>> \o Decode(0, 0, TRUE, FALSE, 0) \o
  <<[op |-> "DMEMMOVE", src |-> Decoded, dst |-> Sound, count |-> n],
    Plain("SPNOOP"), Buff(0, Sound, n), At("SAVEBUFF", 0, 0, 32)>>

\* An effect: a filter over what the segment holds.
Filter(s, b, init, n) ==
  <<Segment(s, b), Buff(Sound, Decoded, n), At("LOADBUFF", s, b, 31), Book(s, b),
    Stream("POLEF", s, b, Low, init), Buff(0, Decoded, n), At("SAVEBUFF", s, b, 32)>>

MCLists ==
  {Voice(1, 10, TRUE, FALSE, TRUE, Volumes(1), 320) \o Output(1, 10, 320),
   Voice(2, 5, FALSE, FALSE, FALSE, GoesOn, 336) \o Output(2, 5, 336),
   Voice(1, 3, FALSE, TRUE, TRUE, Volumes(6), 320) \o <<Segment(1, 10)>> \o Output(1, 3, 320),
   Idle(32),
   Filter(0, 4, TRUE, 48) \o Filter(4, 2, FALSE, 0),
   Filter(1, 10, FALSE, 320),
   <<Plain("SPNOOP")>>}
=============================================================================
