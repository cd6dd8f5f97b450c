------------------------------- MODULE Capture -------------------------------
(***************************************************************************)
(* The F9 capture (src/src/capture.cpp): a folder of its own per capture    *)
(* with the window, the framebuffer the VI shows and a report stub, taken   *)
(* on a key and, with RAYMAN2_AUTOCAPTURE, on a timer.                      *)
(***************************************************************************)
EXTENDS Integers, Sequences

CONSTANTS Period,     \* RAYMAN2_AUTOCAPTURE in ticks, 0 when it is not set
          ViStates    \* what the VI registers may hold: see height

\* The fields of the registers, as the dump masks them out.
ASSUME CaptureAssumption ==
  /\ Period \in Nat
  /\ ViStates \subseteq [origin : Nat, width : 0 .. 4095, pixel : 0 .. 3,
                          start : 0 .. 1023, end : 0 .. 1023, scale : 0 .. 4095]

VARIABLES
  dir,        \* g_dir is set
  taken,      \* g_count
  folders,    \* the captures on disk: what each holds
  nextAuto,   \* ticks until the next timed capture
  f9Down      \* was_down of poll_hotkey

captureVars == <<dir, taken, folders, nextAuto, f9Down>>

\* set_output_directory: the session's report has a directory, or there is
\* none and nothing is ever captured.
CaptureInit ==
  /\ dir \in BOOLEAN
  /\ taken = 0
  /\ folders = <<>>
  /\ nextAuto = Period
  /\ f9Down = FALSE

-----------------------------------------------------------------------------

\* The height of the picture from the vertical window and Y_SCALE, kept to what
\* a VI can scan out.
height(vi) ==
  LET derived == IF vi.end > vi.start /\ vi.scale # 0
                   THEN (((vi.end - vi.start) \div 2) * vi.scale) \div 1024 ELSE 0
  IN  IF derived = 0 \/ derived > 480 THEN 240 ELSE derived

Bytes(vi) == vi.width * height(vi) * IF vi.pixel = 3 THEN 4 ELSE 2

\* The dump of the framebuffer: none before the game presented one, none when
\* the VI is blanked; "short" when the file cannot be written.
write_vi_framebuffer(present, vi, file) ==
  IF ~present \/ vi.origin = 0 THEN [is |-> "none", bytes |-> 0]
  ELSE IF vi.width = 0 \/ vi.pixel < 2 THEN [is |-> "blanked", bytes |-> 0]
  ELSE IF ~file THEN [is |-> "failed", bytes |-> 0]
  ELSE [is |-> "dumped", bytes |-> Bytes(vi)]

\* The stub is written whatever became of the pictures.
Folder(why, screen, fb) == [by |-> why, screen |-> screen, fb |-> fb]

\* One capture per reason: the number first, then a folder under it.
take(whys, present) ==
  \E screen, file \in BOOLEAN, vi \in ViStates :
    /\ taken' = taken + Len(whys)
    /\ folders' = folders \o
         [i \in 1 .. Len(whys) |->
            Folder(whys[i], screen, write_vi_framebuffer(present, vi, file))]

\* The timer has run out: it is set again before the capture is taken.
AutoDue == Period > 0 /\ nextAuto = 0
poll_autocapture == nextAuto' = IF AutoDue THEN Period ELSE nextAuto

\* The timer is looked at first, then the key; F9 acts when it goes down.
poll_hotkey(down, present) ==
  IF ~dir THEN UNCHANGED captureVars
  ELSE /\ poll_autocapture
       /\ f9Down' = ("F9" \in down)
       /\ take((IF AutoDue THEN <<"timer">> ELSE <<>>) \o
                 (IF "F9" \in down /\ ~f9Down THEN <<"F9">> ELSE <<>>), present)
       /\ UNCHANGED dir
=============================================================================
