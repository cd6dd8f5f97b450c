----------------------------- MODULE AudioOutput -----------------------------
(***************************************************************************)
(* The audio device (src/src/main.cpp: set_frequency, queue_samples,        *)
(* get_frames_remaining): opened when the game names a rate, opened again    *)
(* when it names another, fed by the game and drained by the host.          *)
(***************************************************************************)
EXTENDS Integers

CONSTANTS Rates,     \* sample rates the game asks for
          Volumes,   \* positions of the Main Volume slider, in percent
          Chunks,    \* sizes of a buffer the game queues, in samples
          MaxQueued  \* bound: frames waiting

\* No rate is zero, which stands for no device; the game queues whole stereo
\* frames, two samples each.
ASSUME AudioAssumption ==
  /\ Rates \subseteq Nat \ {0}
  /\ Volumes \subseteq Int
  /\ Chunks \subseteq Nat /\ \A count \in Chunks : count % 2 = 0
  /\ MaxQueued \in Nat

VARIABLES
  device,     \* the rate of the open device, 0 when none is
  frequency,  \* g_audio_frequency
  queued,     \* bytes the device has waiting
  gain,       \* g_audio_gain, in percent
  waiting,    \* stereo frames the game queued on this device and nobody heard
  asked       \* the last rate the game asked for

audioVars == <<device, frequency, queued, gain, waiting, asked>>

kBytesPerFrame == 4
SampleBytes == 2

AudioInit ==
  /\ device = 0
  /\ frequency = 0
  /\ queued = 0
  /\ gain = 100
  /\ waiting = 0
  /\ asked = 0

-----------------------------------------------------------------------------

\* The old device goes first.  Whether SDL can bring up audio and open a device
\* of the rate is not ours to say; the rate is noted only when it did.
Opened_or_kept(f, sdl) ==
  IF sdl THEN device' = f /\ frequency' = f ELSE UNCHANGED <<device, frequency>>
Opened(f, sdl) ==
  IF sdl THEN device' = f /\ frequency' = f ELSE device' = 0 /\ UNCHANGED frequency

set_frequency ==
  \E f \in Rates, sdl \in BOOLEAN :
    /\ asked' = f
    /\ IF f = frequency
         THEN UNCHANGED <<device, frequency, queued, waiting>>
         ELSE queued' = 0 /\ waiting' = 0 /\ Opened(f, sdl)
    /\ UNCHANGED gain

\* The count is of samples, two to a frame; scaled or not, the same number of
\* them is queued.
QueuedBytes_frames(count) == count * kBytesPerFrame
QueuedBytes(count) == count * SampleBytes
queue_samples ==
  \E count \in Chunks :
    /\ waiting + count \div 2 <= MaxQueued
    /\ IF device = 0
         THEN UNCHANGED <<queued, waiting>>
         ELSE /\ queued' = queued + QueuedBytes(count)
              /\ waiting' = waiting + count \div 2
    /\ UNCHANGED <<device, frequency, gain, asked>>

get_frames_remaining == IF device = 0 THEN 0 ELSE queued \div kBytesPerFrame

\* The host plays a frame.
Play ==
  /\ queued >= kBytesPerFrame
  /\ queued' = queued - kBytesPerFrame
  /\ waiting' = waiting - 1
  /\ UNCHANGED <<device, frequency, gain, asked>>

\* update_gfx: the slider, kept between silence and full volume.
follow_volume_boost(percent) == gain' = IF percent < 0 THEN 0 ELSE percent
follow_volume(percent) ==
  gain' = IF percent < 0 THEN 0 ELSE IF percent > 100 THEN 100 ELSE percent
=============================================================================
