---------------------------- MODULE AudioBuffers -----------------------------
(***************************************************************************)
(* What the audio microcode asks of a list for its sound to be this task's:  *)
(* that no command reads what the commands before it have not made.         *)
(*                                                                         *)
(* The game's audio library writes the lists; it is not part of the source. *)
(* What a command reads, makes and spoils is said of the list alone, in the  *)
(* whole blocks the handlers work in: no register, table or buffer of        *)
(* AudioUcode enters into it.  AudioUcodeProofs shows that the handlers,     *)
(* with what they find in their registers, do no worse.                     *)
(***************************************************************************)
EXTENDS AudioUcode

\* Where command i of l has its input and its output.
In(l, i) == Buffers + l[AL!BuffersSet(l, i - 1)].in
Out(l, i) == Buffers + l[AL!BuffersSet(l, i - 1)].out

\* The buffers an envelope mixes its input onto.
Mixed(l, i) ==
  LET a == l[AL!AuxSet(l, i - 1)]
  IN  {Out(l, i), Buffers + a.in} \cup
        IF l[i].aux THEN {Buffers + a.out, Buffers + a.count} ELSE {}

\* The bytes of each buffer it works on.
Worked(l, i) ==
  CASE l[i].op \in {"CLEARBUFF", "DMEMMOVE"} -> 16 * Up(l[i].count, 16)
    [] l[i].op \in {"ADPCM", "MIXER"} -> 32 * Up(AL!Count(l, i), 32)
    [] OTHER -> 16 * Up(AL!Count(l, i), 16)

\* The doublewords it reads.
Reads(l, i) ==
  LET c == l[i]
      n == Worked(l, i)
  IN  CASE c.op = "SAVEBUFF" -> Touched(Out(l, i), AL!Count(l, i))
        [] c.op = "INTERLEAVE" ->
             Touched(Buffers + c.left, n) \cup Touched(Buffers + c.right, n)
        [] c.op = "DMEMMOVE" -> Touched(Buffers + c.src, n)
        [] c.op = "MIXER" -> Touched(Buffers + c.src, n) \cup Touched(Buffers + c.dst, n)
        [] c.op = "ADPCM" /\ n > 0 ->
             Touched(In(l, i), 9 * AL!Made(l, i)) \cup Touched(Codebook, 32)
        [] c.op = "POLEF" /\ n > 0 -> Touched(In(l, i), n) \cup Touched(Codebook, 32)
        [] c.op = "RESAMPLE" -> Touched(In(l, i), c.reads)
        [] c.op = "ENVMIXER" -> UNION {Touched(d, n) : d \in {In(l, i)} \cup Mixed(l, i)}
        [] OTHER -> {}

\* The spans of bytes it makes: where each begins, and how long it is.
Outputs(l, i) ==
  LET c == l[i]
      n == Worked(l, i)
  IN  CASE c.op \in {"CLEARBUFF", "DMEMMOVE", "MIXER"} -> {<<Buffers + c.dst, n>>}
        [] c.op = "LOADBUFF" -> {<<In(l, i), AL!Count(l, i)>>}
        [] c.op = "LOADADPCM" -> {<<Codebook, c.count>>}
        [] c.op = "INTERLEAVE" -> {<<Out(l, i), 2 * n>>}
        [] c.op = "ADPCM" -> {<<Out(l, i), 32 + n>>}
        [] c.op \in {"POLEF", "RESAMPLE"} -> {<<Out(l, i), n>>}
        [] c.op = "ENVMIXER" -> {<<d, n>> : d \in Mixed(l, i)}
        [] OTHER -> {}

\* The doublewords it writes besides.
Spoils(l, i) ==
  CASE l[i].op = "POLEF" /\ Worked(l, i) > 0 -> Touched(Codebook + 16, 16)
    [] l[i].op = "RESAMPLE" ->
         LET n == IF l[i].splice THEN 24 ELSE 8 IN Touched(In(l, i) - n, n)
    [] l[i].op = "ENVMIXER" /\ ~l[i].aux -> Touched(Wet, 16)
    [] OTHER -> {}

Makes(l, i) == UNION {Covered(o[1], o[2]) : o \in Outputs(l, i)}
Writes(l, i) == Spoils(l, i) \cup UNION {Touched(o[1], o[2]) : o \in Outputs(l, i)}

\* What the first n commands of l made and none of them wrote over since.
Known(l, n) ==
  {d \in 0 .. 511 : \E j \in 1 .. n :
     d \in Makes(l, j) /\ \A k \in j + 1 .. n : d \notin Writes(l, k)}

\* Buffers that are worked on block by block begin on a doubleword.
Aligned(l, i) ==
  /\ l[i].op \in {"DMEMMOVE", "MIXER"} => (Buffers + l[i].dst) % 8 = 0
  /\ l[i].op = "INTERLEAVE" => Out(l, i) % 8 = 0
  /\ l[i].op = "ENVMIXER" => \A d \in Mixed(l, i) : d % 8 = 0

ASSUME SourcesAssumption ==
  \A l \in Lists : \A i \in 1 .. Len(l) : Reads(l, i) \subseteq Known(l, i - 1) /\ Aligned(l, i)
=============================================================================
