# A verification project for the Rayman 2 recompilation

The repository is the port around a statically recompiled Nintendo 64 game:
a C++ program that gives the recompiled code a display, sound, input, a
Controller Pak, a frame rate, and a per-session report for when it goes wrong.
The recompiled code, the runtime it runs on (`ultramodern`, `librecomp`) and the
renderer (RT64) are other projects; what this one owns is the code under
`src/src` and `src/include`, and the audio microcode it recompiled
(`src/RecompiledRsp`). These modules model that code.

Paths below are as in the repository (`src/debug_report.cpp`), found here under
`../src/`.

## 1. Inventory

Each part with the state it keeps, its operations, whom it talks to, and what
is hard about it. "Correct when" is what the modules state.

### Session report and stdout mirror: `debug_report.cpp`
* State: `g_file`, `g_header_open`, three atomic counters, the crash mutex, the
  once flag of `end_session`, the mirror's pipe, saved descriptors and thread.
* Operations: `begin_session`, `add_context`, `info`, `warn`, `error`,
  `crash_begin/line/end`, `end_session`; the pump thread that reads the pipe,
  classifies each printed line and copies it into the report.
* Talks to: every other part calls it, from any thread; the crash handlers write
  their blocks through it; `main` opens and ends it.
* Hard: two mutexes taken in different orders of sections; counters outside
  both; a crash mutex that is held across sections and is not recursive; a
  thread that is joined by whoever ends the session, itself included; a bounded
  wait.
* Correct when: crash blocks are never shuffled; one SUMMARY, at the end, that
  counts at least what stands above it; header before events; nothing printed
  is lost by an orderly end; ending always leads to the end of the process.

### Crash reporter: `crash_report.cpp`
* State: none of its own but the once flag of the lookup-failure handler.
* Operations: the unhandled-exception filter, the terminate handler, the handler
  of calls to an address with no function. Each writes one crash block, ends the
  session and the process; a second lookup failure sleeps for ever.
* Hard: several threads fault together, the handler itself may fault.

### Controller Pak store: `controller_pak.cpp`
* State: four 32 KiB images with `g_loaded` and `g_dirty`, one mutex, a file for
  each port.
* Operations: `read_block`, `write_block` (both load lazily, and create a missing
  file), `flush`, `present`.
* Talks to: the SI transport on the game thread, `update_gfx`'s one-second timer
  on the event pump, the last flush in `main`.
* Hard: file I/O that fails half-way, a process that dies between truncating a
  file and rewriting it, flags that must follow the image.
* Correct when: the game reads what it wrote last; what is marked clean is on
  disk; an orderly exit loses nothing; an existing image is never thrown away.

### SI transport: `si_pak.cpp`
* State: the detect cell of each port. Operations: the two halves of a raw
  transfer, each posting one completion; the joybus commands in the frame.
* Hard: one completion too few hangs the game with the SI semaphore held, one
  too many is taken for the next transfer's; a sign-extended PIF address; parsing
  a 64-byte frame; two CRCs.

### Frame pacing: `frame_pacing.cpp`
* State: the fields of one frame, fixed by the first use of `RAYMAN2_FRAMECAP`, and
  the schedule (`last_field`). Operations: the deadline of each frame's RDP
  completion, which the runtime asks for on the task thread; two probes.
* Hard: rounding to whole fields; a schedule that neither bursts after a stall nor
  holds a frame back when the cap was off in between.
* Correct when: the game never runs faster than was asked, over any stretch of
  frames; no completion is held for longer than a frame.

### RT64 context and render wrapper: `rt64_context.cpp`, `render_context.cpp`
* State: the application pointer, a "dead" flag, `vi_has_ticked`. Operations: the
  constructor, `send_dl`, `update_screen`, `shutdown` and the settings menu's calls, on
  three threads; the choice of presentation mode.
* Hard: `shutdown` against calls that are past their check.
* Correct when: a renderer that fails leaves a game that runs on; no call is in an
  application that has been ended.

### Draw distance and widescreen: `draw_distance.cpp`
* State: the matrices recorded this frame (at most sixteen), the last angle written
  into a camera, the factor that undoes it. Operations: the game thread widens the
  camera and records, the task thread narrows the matrices in RDRAM.
* Hard: a value the game reads back and hands back, a factor that outlives its
  call, a full list, a matrix built twice.
* Correct when: an angle is widened once; the game culls with wide matrices and RT64
  reads the narrow ones.

### Program: `main.cpp`, `spin_yield.cpp`, `frontend.cpp`
* Start-up: a dump from the command line or stored, a starter thread that waits for the
  renderer's first frame, at most ten seconds, and loads the dump, or `maybe_autostart`
  on the event pump; the order of shutdown with its early returns.
* The frame handshake: which external messages are put back when the game's queue is
  full, and the hook that lets a spinning game thread be overtaken.
* The audio device: opened at the game's rate, its queue, the volume.
* `update_gfx`, the event pump, which polls everything else once a frame.
* Hard: everything that waits for something another thread must do; counting in
  samples, frames and bytes; an open that fails.
* Correct when: the game starts once and when it may; the one framebuffer slot is
  never lost; the spin ends; frames keep coming; sound plays at the rate asked for.

### Audio microcode: `RecompiledRsp/rsp_audio.cpp`, `rsp.cpp`
* State: four kilobytes of data memory -- constants and the dispatch table, segments,
  parameters, the commands fetched, a codebook, the buffers -- which survive from task
  to task, and four registers that count commands. Generated code, but code this port
  runs on every audio frame, and the longest file it has.
* Operations: the dispatch by microcode address, the fetching of the list in blocks,
  sixteen commands.
* Hard: of what outlives a task a new one clears only the first segment; handlers round up to blocks and put history before their input, next to the
  commands; two parameters share a word; streams live in the game's memory.
* Correct when: commands are carried out once each, with this list's parameters, and
  streams go on; nothing that is still needed is written over; nothing stale is
  handed to the game.

### Attract-mode scan, memory search, capture: `demo_scan.cpp`, `memory_search.cpp`, `capture.cpp`
* State: a label with the time it has held, a snapshot and candidates; a set of
  remembered words and the edges of four keys; a folder for each capture.
* Hard: samples labelled by a rate of the past, words that change while they are read,
  keys polled in every frame.
* Correct when: no sample has a label of a state the game was not in; a word is kept or
  dropped by a value it had; a held key acts once.

### Other development aids: `thread_sampler.cpp`, `debug_menu.cpp`, `debug_node.cpp`
* A sampler that suspends other threads, and a menu of what others publish.

### Not the port's own logic
`register_sections.cpp` and `port_runtime.cpp` (generated tables, stubs),
`tools/` and `scripts/` (offline analysis).

### Interactions
* Game threads, the renderer, `main` and the handlers all call the report. The
  report calls nobody.
* `main` opens the report, starts the mirror, gives the pak its directory, runs
  the runtime and, when that returns, flushes the pak and ends the session, in
  this order. Two early returns skip both.
* The event pump (`update_gfx`) flushes the pak once a second, sets the volume, polls
  the tools and, with the frontend, starts the game.
* The VI thread's first frame is what the starter waits for. `send_dl` is where the
  widescreen code narrows, the demo scan counts and the frame handshake goes through.

The hazards of each part, at the line where they bite, are listed in
`PROJECT.json`.

## 2. Modules

| module | what it is |
|---|---|
| `ReportLog` | what the report promises: a log with blocks that belong to one thread and a last line |
| `DebugReport` | `debug_report.cpp` and `crash_report.cpp`, thread by thread |
| `ReportLogProofs`, `DebugReportProofs` | proofs |
| `PakStore` | what the Controller Pak promises: blocks, a saved copy, restarts |
| `ControllerPak` | `controller_pak.cpp`, the transfers of `si_pak.cpp`, the flush timer and the last flush |
| `MCControllerPak` | blocks and values for TLC |
| `ControllerPakProofs` | proofs |
| `FramePacing` | `frame_pacing.cpp`: the cap, the deadlines, the gate |
| `FramePacingProofs` | proofs |
| `Widescreen` | `draw_distance.cpp`: the camera hook, the `guPerspective` hooks, the narrowing |
| `WidescreenProofs` | proofs |
| `AudioList` | what the audio microcode promises: lists carried out in order, streams that go on |
| `AudioUcode` | `rsp_audio.cpp` and the dispatch of `rsp.cpp`; implements `AudioList` |
| `AudioBuffers` | what the microcode asks of a list for its sound: nothing is read that the list has not made; extends `AudioUcode` |
| `MCAudioUcode` | extends `AudioBuffers`: seven lists of one voice for TLC |
| `AudioUcodeProofs` | proofs |
| `GameMemory` | the words the developer tools look at |
| `DemoScan`, `MemorySearch`, `Capture`, `AudioOutput` | the file of that name, and the audio device of `main.cpp` |
| `EventPump` | composes the four: `update_gfx`, the game, the player, the clock |
| `MCEventPump` | two words, slices of an eighth of a second, what may be armed |
| `EventPumpProofs` | proofs |
| `Renderer` | `rt64_context.cpp`: who is in the application, and its end |
| `FrameHandshake` | `spin_yield.cpp` and the message-queue control, among the game's two threads |
| `GameLoop` | composes the two with `main`, the starter thread and the autostart |
| `GameLoopProofs` | proofs |

### DebugReport

`pc[t]` is where a thread stands. `g_mutex` guards short sections that never
block, so each such section is one action; the crash mutex is held across
sections and is the variable `crashMutex`. The counters are atomics outside both,
so `warn` and `error` are two actions each (the count, then the line), and
`crash_begin` is three: count, lock, first line.

| code | here |
|---|---|
| `begin_session`, `start_mirror` | `begin_session(opens, mirrors)`: the file may not open, the mirror may not start |
| `add_context`, `info`, `warn`, `error` | actions of the same names; `write_event` is the second half |
| `printf` of anybody, into the pipe | `Printf(t, level)`: blocks when the pipe is full |
| `pump_thread` | `PumpRead`, `await_crash_block`, `PumpWrite`, `PumpEnd` |
| the filter, the terminate handler | `on_fault`; once more inside a block, `on_nested_fault` |
| the lookup handler | `on_lookup_failure` |
| `crash_begin`, `crash_line`, `crash_end` | `CrashCount`, `CrashLock`, `CrashBegin`, `crash_line`, `CrashEnd`, `CrashUnlock` |
| `end_session`, `stop_mirror` | `end_session`, `stop_mirror`, `Joined`, `write_summary` |
| the handlers' last acts, the end of `main` | `Leave`, `MainEnds`, `MainReturnsEarly` |

A line of the report is a record of its level and its writer; what it says is
left out. The pump's two-second wait is `WaitIsOver`: it is over when the crash
mutex is free or, when `MayTimeOut`, at any time.

`ImplementsLog` maps it to `ReportLog`: the report is the log, a file that is open
is a log that takes lines, and the owner of the open block is the holder of the
crash mutex between its BEGIN and its END.

### ControllerPak

One block transfer is one section under `g_mutex` and one action (`DmaRead`, the
second half of the raw transfer, with `read_block` or `write_block` in it). `flush`
holds the mutex for its whole pass, file I/O included, and is several actions:
`FlushStart`, then for each port `FlushSkip` or `FlushOpen` (which truncates the
file) and `FlushWrite`, then `FlushDone`. A `Crash` may come between any two, or
anywhere else; `Launch` starts the program again on the same disk. An orderly
exit is `Stop`, a last pass of flush, and `FlushDone`.

`IoFails` decides whether opening, reading or writing a file may fail. With it,
`ensure_loaded` may find an existing file unreadable, and writes may be cut short.

The game's side (`Pack`, `Recv`) is external: it is the game's own library, modelled
from how `si_pak.cpp` answers it. The first query of a port is a status query, and
a pak is spoken to only where one is present, port 0.

`ImplementsStore` maps it to `PakStore`: the store the game sees is the image in
memory, or what loading the file would give; what is saved is what a restart
would load; the file being written counts as saved unless the process dies.

### FramePacing

Time is counted in ticks from the runtime's start, `Field` ticks to a VI field. The
speed multiplier does not change in a session, so the field does not either.

| code | here |
|---|---|
| `fields_per_frame` | the operator of that name, of `asked`, the environment's value |
| `now_field`, `target`, the resynchronisation | `NowField`, `NextTarget` |
| `pace_deadline`, called as a frame is handed to the renderer | `Submit` |
| the runtime, which signals the completion after the deadline | `Complete` (external) |
| `attract_mode_active` | `attract`; the words it reads are the game's, so `Switch` may come at any time |
| `install_frame_pacing` | `Installed`: without it a completion is due at once |

The game has one frame in flight, as it waits for the completion before it submits
another. `window` is an observer: it opens at any completion and counts the paced
frames that complete after it, until a frame that is not paced.

### Widescreen

An angle is a base the game asked for and how often it was widened; a matrix stands
for the angle its two scale terms come from, and multiplying it by the tangents'
ratio of two angles turns the second into the first and any other into one nobody
asked for. Three variables are observers: `asked`, what an unmodified `guPerspective`
would have built at the same address; `built`, the matrices the frame has built with a
factor to undo; `refused`, those of them the full list did not take.

| code | here |
|---|---|
| the game's `func_8009989C`, up to the hook | `Stored`: it stores an angle, or leaves the word that is there (external) |
| `rayman2_widen_camera_fov` | `widen_camera_fov`, with `InRange` and `IsOurs` for its early returns |
| the hooks at the start and the return of `guPerspective` | part of `SetUpCamera`, and of `Perspective` for the other call site; `Recorded` is the list |
| `narrow_pending_projections`, called by `send_dl` | `send_dl` |
| the frame loop's one framebuffer slot (`main.cpp:1017`) | `building`, `NextFrame` |

`RAYMAN2_FOV` is set: without it the camera hook returns, and all else is idle. `Odd`
are the angles no hook widens: out of range, or of the other call site.

### AudioUcode

`phase` says where a task is: at `L_10E4`, where a command is read and dispatched, or at
`L_1118`, where every handler comes back to. Registers keep their names. Of data memory
the model keeps which doublewords derive from this task (`fresh`), the commands (`buf`),
the segments and the parameters, the five places SETVOL writes among them (`par.vol`,
one level standing for the words of a place); of a stream, where it set out from, with
which levels if it is an envelope, and how many blocks it has made. A task clears
segment 0 and nothing else of these: what it does not set is an earlier task's. A handler's writes are the bytes it touches after rounding, so one that
reaches into 0x380..0x4BF turns commands into `Garbage`, and one below 0x360 clears
`intact`.

| code | here |
|---|---|
| `get_rsp_microcode`, `silent_task_stub` | `BeginTask`, `silent_task_stub` |
| `L_1000` to `L_10E4`, `L_1118` to `L_1178` | `BeginTask`, `Dispatch`, `Continue`, `Refill`, `Finish`; `FetchBlock` |
| `L_11DC`, the first handler, to the end of the envelope mixer | an action for each command, with its name |
| DMA of stream states to and from the game's memory | `Save`, `AdpcmStart`, `PolefStart`, `Start`, `EnvStart` |

`ImplementsList` maps it to `AudioList`: `r28` is the next command, the game's memory
holds the streams. One case is weaker than one would expect: a filter (POLEF) that is
told to start over clears four of the eight history bytes it then reads (`SLV` at
`rsp_audio.cpp:1155`, `LDV` at 1203), so `AudioList` promises silence for every other
stream and silence or what was there for this one.

### EventPump

One pass of `update_gfx` is one action: it runs on one thread. What the game does
meanwhile is inside it, as two values of memory, before and after; every word is read
once, as either (`Readings`). A session has one set of tools armed.

| code | here |
|---|---|
| `update_gfx` | `update_gfx`, in the code's order: capture, scan, freeze, search, volume |
| `demo_scan_poll`, `note_display_list` | `demo_scan_poll`; `note_display_list` is a slice of time with the lists of it |
| `take_idle_snapshot`, `build_candidates`, `filter`, `publish` | the operators of those names |
| `memory_search_poll`, `start`, `narrow`, the selftest | `memory_search_poll`, `PollKeys`, `PollSelftest`, `start`, `narrow` |
| `memory_freeze_poll` | `memory_freeze_poll`, `Holds` |
| `poll_hotkey`, `take`, `write_vi_framebuffer` | the operators of those names, `height` and `Bytes` |
| `set_frequency`, `queue_samples`, `get_frames_remaining` | the same; the device that plays is `Play` (external) |

`shown` (what the game showed in the window), `spent` (the keys that were down when the
tools last looked), `pressed` (the search keys the last poll that had any acted on),
`waiting` (frames queued and not heard) and `asked` (the last rate) are observers.

### Renderer, FrameHandshake, GameLoop

A call of the renderer is three steps, `Ask` (the check), `Go` and `Return`; `shutdown` is
two, the flag and `end()`. The game's threads run one at a time, the ready one of the
highest priority (`Highest`), and only change over in a queue call, in the hook or when
nobody is ready.

| code | here |
|---|---|
| `main` up to `recomp::start`, its exception, its end | `Configure`, `Throw`, `Quit` |
| the starter thread, `load_stored_rom` | `Wait`, `MayStart`, `load_stored_rom` |
| `maybe_autostart` | `maybe_autostart` |
| the `RT64Context` constructor, `send_dl`, `update_screen`, `shutdown` | `create_render_context`, `send_dl`, `update_screen`, `shutdown_mark` and `shutdown_end` |
| the settings menu's calls | `update_config` |
| `rayman2_yield_in_spin` | `yield_in_spin`, `DeliverOne` |
| the message-queue control `main` installs | `Requeues`; `PutBack` is what a delivery that finds the queue full leaves outside it |
| the runtime's delivery and scheduling, the game's frame loop | `DeliverAll`, `Highest`, `Take`, `Post`, `Serve`, `Idle` (external, from what `spin_yield.cpp` and `main.cpp` say of them) |
| retraces and the RDP's completion | `Vertical`, `RdpDone` |

## 3. Runs

| run | question | instance | result |
|---|---|---|---|
| `report` | do crash blocks stay apart, is there one SUMMARY, does it count what it stands under, does the header stay in front, is every printed line there, does the report implement the log | one game thread, main and the pump; the game thread and the pump may fault; one API call, one printed line, a pipe of one | holds |
| `report_shutdown` | does a session that has begun to end always end the process | two game threads, one of which may fault, and fault again inside its block; a pump that may fault | holds, with the exception it names |
| `pump_line_in_block` | can a mirrored line fall inside a crash block without a timeout | one faulting thread, one printed line, `MayTimeOut = FALSE` | violated, section 6 |
| `pak` | is the store the abstract one, is what is clean saved, does an exit save, is an image ever thrown away, do transfers end and dirty paks get clean | two ports, two blocks, three values, a disk that works, crashes anywhere | holds |
| `pak_ignores_failed_write` | does a pass of flush leave in the file what it marks clean | one port, a disk that fails: a game write, `FlushStart`, `FlushOpen`, a `FlushWrite` that fails | violated |
| `pak_reformatted` | can an existing image be replaced by an empty one | one port, a disk that fails | violated |
| `pacing` | is the game ever faster than asked, is a frame ever held for long | caps of none, 20, 30, 60 and 100; fields of three ticks, a margin of one, ten fields | holds |
| `widescreen` | is an angle widened once, does the game cull wide, does RT64 read what was asked for | one camera, two angles and an odd one, three matrices and a list of two entries | holds |
| `audio_ucode` | are commands carried out once each with this list's segments, buffers, loop points and volumes, does any handler write over what is still needed, is anything stale handed over, does a task end | seven lists, three tasks in any order, blocks of four commands | holds |
| `event_pump` | are labels earned, candidates judged fairly, keys taken once, frames counted right, the device at the rate asked for | two words of three values, one tool at a time; two narrowings, two captures, three samples; two rates, six frames | holds |
| `game_loop` | does the game start when it may, does the spin end, is the slot kept, do frames keep coming | both builds, a renderer that may fail or throw, a queue of two, three retraces waiting, a wait of two turns | holds |
| `renderer_ended_in_use` | is any call inside an application that has been ended | three callers, the smallest queue | violated |

Bounds, and why they are enough:
* A game thread and the pump are enough for two blocks to meet while `main` ends the
  session; `report_shutdown` has two game threads. Crash blocks have one body line: the
  order of two lines of one thread is not in question.
* `MaxCalls`, `MaxPrint`: each call or printed line is independent of the next
  but for the header and the counters; a call and a printed line make "before" and
  "after" the first event, and the line every position in the pipe, in the pump's
  hands and in the file. `PipeCap = 1` makes writers wait.
* Two ports make a flush pass that is interrupted between them; two blocks make
  a write that must leave the other alone; the three values are the formatted
  contents, zero, and one the game writes.
* Ten fields of three ticks: a stall of several frames, the frames after it and a
  pause of the cap fit in a session, and a tick before, at and after the margin are
  different moments. `pacing` stops at the end of its clock, so it does not check
  for deadlock.
* One matrix more than the list has entries is the list at its limit and past it: the
  third is refused, and reaches RT64 wide. The three make one of this frame, one built
  twice and one of an earlier frame. `Wide` is two above
  what the code reaches, so that an angle widened again is a state of its own.
* Blocks of four commands (forty in the code) cut each list in many places, some of them
  exactly at its end. The lists have a voice that starts, goes on and loops, with and
  without auxiliary buffers, at sizes that are and are not multiples of the handlers'
  blocks; three tasks are a stream's start, its continuation and one more of another
  list in between. Two lists start an envelope, at different levels, so that one's are
  stale to the other; lists set the same segments at different places and leave others
  as they are, and one uses segment 0 without setting it. Buffers lie where the game's audio library puts them, so that what
  is next to what is as in the code.
* A window of four slices has room for two changes of screen in it, at its edge and
  inside; two windows of settling make a state that has held and one that has not. Two
  words are the flag and one the game writes freely; -1, 0 and 1 make signs differ.
  Three samples are a snapshot, the candidates and one filter. Two keys at a time is
  the case in which one key's result is the other's input.
* A queue of two and three retraces waiting is the queue full, with a completion behind
  it: the case the requeue policy is for. Two turns of the wait are one that is over
  early and one that is used up.
* The theorems of section 5 have none of these bounds.

`report_shutdown` turns the deadlock check off: a thread that faulted again inside
its block, together with a pump that faulted too, does stop the program. That is
the exception `SessionEnds` names, and nothing else is excepted. `report`
checks for deadlock. `game_loop` and `renderer_ended_in_use` turn it off too: a session
that has failed or has quit is over. That play never stops is what `FramesContinue`
says.

## 4. Fairness

`report_shutdown`: weak fairness of each thread's next step and of the pump's.
Nothing else is assumed: no thread has to call, print, fault or end. The
operating system schedules runnable threads, and all the waits involved are
waits on a mutex, a join or a blocking read. Calls, prints, faults and the end of
`main` are free to never happen.

`pak`: weak fairness of the flush timer, of the pass it starts, of the first half of
a transfer and of the game's receive; strong fairness of the second half, which
needs the mutex. The timer leaves the mutex free for a second between passes, so
a game thread that keeps finding it free gets it; weak fairness would let the
timer be back each time. The game does not have to start transfers, and nothing
has to crash or to exit.

`audio_ucode`: weak fairness of the running task. The task thread runs the microcode to
its end, and nothing in it waits. The game does not have to hand over tasks.

`game_loop`: weak fairness of the game's threads, the VI, the RDP's completion, `send_dl`
and the renderer's creation: each is a thread of the host that is runnable or waits on a
clock. And the worker is, again and again, not the running thread
(`[]<>(running # "worker" \/ ~Playing)`): a retrace comes every sixteen milliseconds and
serving one takes microseconds, so the worker empties its queue and blocks; without this
a scheduler could feed it a retrace each time it looks, and the game thread, of lower
priority, would never run. Quitting, failing and the settings menu are free.

## 5. Proofs

Proved for every value of the constants that satisfies the named assumptions. Most of
them only give the constants their types: threads are distinct
(`ThreadsAssumption`), the formatted image is an image (`PakAssumption`), the registers of
the VI have the width the hardware gives them (`CaptureAssumption`). Five say something of
the game or the host:

* `AudioAssumption`: a buffer of samples holds whole frames of two channels, an even
  number of samples; `queue_samples` rounds down and would lose one for good.
* `GapAssumption`: what `kIdleBelow` and `kBusyAbove` were chosen for. Only the title screen
  submits fewer lists than the one, only a demo more than the other; what comes between
  falls in the gap. The intro runs the engine as a demo does and counts as one here.
* `ListsAssumption`, in `AudioUcode`: the game's lists consist of commands of the microcode's
  formats (`Command`) and are `WellFormed`: what a command uses of buffers, loop point,
  segments and levels was set before it in the same list, except for segment 0. It is
  needed: the microcode would use an earlier list's.
* `LayoutAssumption`, in the same module: the library lays its buffers out between 0x5C0 and
  the workspace at 0xF90, by their nominal counts. What the handlers add by rounding and by
  the history they put in front is not in the assumption; that it stays clear of
  everything else is what is proved.
* `SourcesAssumption`, in `AudioBuffers`: a command reads only doublewords that commands
  before it in the list have made and none has written over since, and a buffer worked on
  block by block begins on a doubleword. It is said of the list alone, in the whole blocks
  the microcode works in; that the handlers, which find their addresses and
  counts in registers and in data memory that outlives the task, read and write no more is
  what is proved. TLC evaluates it for the lists of `MCAudioUcode`.

The results, module by module:

* `DebugReportProofs!TypeCorrect`: `TypeInv` is `TypeOK` with the fact that a thread in
  a handler has a reason to be there, which the type of `exit` needs.
* `ReportLogProofs!LogIsReadable`: in `ReportLog`, blocks are disjoint and the SUMMARY
  is last. The invariant is stronger: whoever owns the open block is the only one
  whose block is open in the log; blocks of others are closed.
* `DebugReportProofs!Implements`: the report implements the log. The inductive
  invariant (`SafeInv`) ties `pc` to the crash mutex (only its holder is inside a
  block) and to the once flag (only one thread is between `end_session`'s flag and
  its SUMMARY): without the second, two threads could both write one.
* `CrashBlocksDisjoint`, `OneSummaryAtTheEnd`: the log's theorem carried over the
  refinement. With the mutex dropped from `crash_begin`, or the file left open after
  the SUMMARY, TLC finds the counterexample.
* `OnePumpLine`: section 6 shows a mirrored line inside a crash block. It is one at most
  (assuming `~MayTimeOut`: no block stays open for the two seconds the pump waits). The
  invariant (`PumpLineInv`) adds that a block which is open while the pump is about to write
  holds no mirrored line yet (`ClearToWrite`): the pump comes to write from its wait alone.
* `ShutdownNeverStuck`: once `end_session` has begun, and until the process is gone, some
  thread stands where its guard holds (`CanGo`, `PumpCanGo`, written out rather than with
  ENABLED; TLC found them equal to it on the instance of `MCDebugReportShutdown`). The
  exception is the one the code has: a mutex wedged by a fault inside a block, and a pump
  that faulted too. `ShutdownInv` says who can hold the mutex and the once flag; a holder
  that is neither wedged nor waiting has a next step (`HolderMoves`). It is what
  `SessionEnds` rests on, without the fairness.
* `HeaderStaysFirst`: while the header is open, only context is in the file, and no thread
  is inside a block (`HeaderInv`); the section that writes an event closes the header
  itself, so there is no moment between the two.
* `SummaryCountsAll`: a counter is at least the lines of its kind plus the threads that have
  counted and not written (`CountInv`, with the threads told apart by `pc`). Counting first
  is what makes the inequality hold at every step; it cannot be an equation.
* `MirrorLosesNothing`: while the pump is whole, printed lines are in the file, in its hands
  or in the pipe, as an equation (`FlowInv`). `PumpInv` says that one thread at most takes
  the session down, and that the pump has stopped, or is that thread, when the pipe is
  closed; the equation then leaves no place for a line but the file.
* `ControllerPakProofs!TypeCorrect`, `CompletionsMatch`: for any disk. A completion is
  outstanding exactly while the game waits (`OneCompletion`), and a file being
  written belongs to a loaded, dirty pak (`FlushInv`).
* `SavedWhenClean`, `ExitIsSaved`, `ImageSurvives`, `Implements` of the same module: for
  a disk that works (`~IoFails`, an assumption in each statement; with a disk that
  fails they are false, section 6). `DiskInv` adds to the type invariant that clean
  paks equal their files and that the last pass leaves no dirty pak behind it
  (`LastPass`): the process exits when the pass has come to the end, and only then
  does "no dirty pak below the port" say "no dirty pak". `BlockClean` is the heart:
  a first touch leaves the image and the file equal, and a write that changes
  nothing leaves the image as it is, which is why not marking it is safe.
* `FileIsOnlyEverThePak`, `PakIsWhatTheGameWrote`: what remains on a disk that fails. A
  file changes by a first touch, which formats it, or by a flush, which truncates it and
  writes the dirty pak that belongs to it; a pak in memory changes by the one block the
  game is writing to it, which marks it. So with any failures a file is an image its pak
  has had, the empty pak or too short to be read as one: nothing gets another pak's
  blocks (`TransferTouches`, `FlushTouches`).
* `ReceiveReturns`, `PassEnds`: a game blocked at either receive of a transfer has its
  completion there (from `OneCompletion`), and the pass of `flush` that keeps the mutex
  from it lowers `PassLeft` with every step. What `TransactionEnds` rests on.
* `FramePacingProofs!TypeCorrect`, `HeldNoLonger`, `NoBurst`. The invariant says that only a
  frame in flight is ahead of the clock (`OnSchedule`), and that the fields given to
  the watched frames are a frame's time apart (`Spaced`); a completion comes after
  its deadline, so the completions are too, less one field and the margin. `NoBurst`
  assumes that every cap asked for divides 60 or exceeds it: for the others the
  property is false (section 6, at the end).
* `WidescreenProofs!TypeCorrect`, and for one camera (an assumption of each)
  `WidenedOnce`, `HandedOver`, `WideForCulling`. What is in the camera is what the hook
  wrote last, or an angle it passes over (`InCamera`); that is why finding
  `last_written` is enough. `WideForCulling` is about every matrix the frame has built,
  in the list or not: nothing narrows one before the handover, for any number of matrices
  and entries. For `HandedOver`, `InTheList` says that a matrix the frame has built is in
  the list unless it was refused, and `Owed` that one in the list is owed the factor from
  its own angle to what was asked for, while any other is that already, but for those
  refused. A refused matrix is drawn wide, and `DrawnAsAsked` excepts it; the theorem needs only that there are
  finitely many matrices.
  Cameras share one `last_written`: with two whose angles differ and are left alone,
  each hook finds the other's value, and TLC shows `NeverCompounds` violated.
* `NarrowedByItsOwn`, `OthersDrawnAsAsked`, for any number of cameras: how far that goes.
  The shared factor is the one of the angle written last (`SharedInv`), and a hook
  that passes over an angle has found that very angle there; a matrix is therefore recorded
  with its own camera's factor. Of the angles the hook widens, the pictures that are not as
  asked for are those of cameras widened twice and those a full list refused, and no others
  of the frame. `Wide > 1` is assumed: an angle that one widening takes past `kMaxFov` is
  passed over from then on and says nothing of cameras.
* `GameLoopProofs!SlotNeverLost`: `OneSlot` for any queue and any number of waiting
  retraces. It is inductive only together with the bounds of the queues (`SlotInv`): the
  host's messages are bounded because there is one completion at most, and there is one
  completion because the slot is in one place. The lemmas are about `Held`, the count of
  messages of a kind in a queue, through append, tail, concatenation and what a delivery
  puts back.
* `StartsWhenReady`, `SessionTypes`: `StartInv` adds which thread may have loaded the dump
  and that the game is started once.
* `IdleOnlyForAFrame`: when neither thread runs, the frame the game is blocked for is with
  the RDP or its completion among the host's messages, and every queue has been served
  (`IdleInv`, over `SlotInv`). What `FramesContinue` rests on: the game waits for nothing
  that is not coming. `SpinGivesWay` is the same for `SpinEnds`: one turn of the spin with a
  message waiting makes the worker the running thread, with a queue that is not empty.
* `EventPumpProofs`: each tool has an invariant of its own, kept by every step of the pump
  (`DeviceInv`, `WindowInv`, `SuspectsInv`, `MemoryInv`, `SearchInv`, `CaptureInv`,
  `HeldInv`). `FramesNeverLost` and `DeviceRateAsAsked` come from `DeviceInv`: a device that
  is open has the recorded rate, four bytes are queued for each frame, and without a device
  there are none. `LabelsAreEarned` comes from `WindowInv`, which turns the gap between the
  two rates into what a count of lists says of the screens shown; `SuspectsTellApart` from
  that a snapshot is needed before a demo is compared with it. `NarrowingIsFair` follows each
  word through one narrowing, whatever it is read as. `HeldKeysActOnce` needs `HeldInv`:
  each tool remembers as down the keys that were down when it last looked. It says of
  every poll which keys act, one by one: those that went down since that look, all of
  them, and no others, whatever else is held.
* `PumpTypes` bounds the gain (it never amplifies) and the dump of a picture by the widest
  registers.
* `AudioUcodeProofs!HandlersSpareCommands` (`NothingOverwritten`), `CarriesListsOut`
  (`ImplementsList`) and `UcodeTypes`, for any lists, any block length up to forty and any
  number of tasks. The invariant has four parts. `ControlInv`: what is left of the block is
  the beginning of what is left of the list. `ParamInv`: the segments, parameters and levels that commands
  carried out so far have set are what they set (`Meaning`, with `SegmentsMean` and
  `VolumesMean`), segment 0 is zero until one sets it, and the shared word at 0x370 holds
  whichever of loop point and left target came last. Of the others it says nothing: they
  are an earlier list's. `MemoryInv`, `StreamInv`: types, and
  that nothing below the codebook was touched. `WriteKeeps` is where they meet: a write at
  0x4C0 or above leaves the fetched commands as they are; `HandlersKeep` shows for each
  handler that its rounded output, with its history, starts there and ends within data
  memory. `HandlersStream` is the refinement, one case for each of the four stream
  commands.
* `SoundIsThisTasks` (`NoStaleSound`), from `SourcesAssumption`: `SoundInv` says that what
  the list has made so far (`Known`, of the list) is in `fresh` (of the handlers). The
  handlers spoil no more than the list allows for, which needs `ParamInv`: were an address
  or a count left over from an earlier task, the two accounts would differ.
* `TaskShortens`, `CommandAtHand`: every step of a task lowers a natural number, and the
  dispatch is at the next command of the list, which has a handler. Together what
  `TaskEnds` rests on: a task comes nearer to its end and is never without a step.

The inductive invariants of `DebugReport`, `GameLoop`, `EventPump` and `AudioUcode` also hold
on the instances of their runs, and the statements above that no run checks hold on small
ones (two cameras, two ports with a disk that fails, a pump that waits for ever or not):
TLC checked each of them before it was proved.

Only model-checked:
* `SessionEnds`, `TransactionEnds`, `DirtyIsFlushed`, `TaskEnds`, `SpinEnds`,
  `FramesContinue`: liveness under fairness, which the installed provers do not reach. Of
  five of them the part that is safety is proved above (somebody can move, what is awaited
  is there or on its way, a natural number falls); that a thread which can move does is the
  fairness of section 4, and the step from there to "eventually" stays with TLC.
  `DirtyIsFlushed` is only model-checked.

## 6. Where the code and its words differ

With a run that shows it:

1. `debug_report.cpp:424` says a mirrored line is never in the middle of a crash
   block. The pump takes and releases the crash mutex, then takes `g_mutex` to write;
   a block may begin in between (`pump_line_in_block`). One line per block is the
   worst of it, as long as no block outlasts the wait (`OnePumpLine`).
2. `flush` persists "every pak modified since the last flush" (`controller_pak.h:40`).
   It clears the flag without looking whether the write succeeded: the game writes,
   the pass opens the file and fails to write it, and the pak is clean
   (`pak_ignores_failed_write`, `FlushPersists`).
3. A pak file is created "if absent" (`controller_pak.h:34`). It is also overwritten
   with an empty pak when it exists and cannot be read (`pak_reformatted`). Beyond these
   two no failure reaches a file (`FileIsOnlyEverThePak`).
4. "Ending the application while another thread is part-way through updateScreen() is
   the same defect as calling into it afterwards" (`rt64_context.cpp:422`). `shutdown`
   sets the flag, which keeps later calls out, and ends the application at once, with
   whoever passed the check before still in it (`renderer_ended_in_use`).

Read in the code, without a run:

* Crash blocks "survive anything short of the process being killed outright"
  (`debug_report.cpp:152`). `end_session` closes the file without the crash mutex, so the
  end of `main` cuts a block that is being written.
* A file with no SUMMARY "was killed or died hard" (`docs/DEBUG-REPORTS.md:49`). The
  second caller of `end_session` returns at once and ends the process while the first is
  still joining the pump.
* "A disk write never lands in the middle of a transfer the game is timing"
  (`docs/CONTROLLER-PAK-FINDINGS.md:131`). The transfer takes the mutex that `flush`
  holds during its file I/O.
* The projection matrix "is put back to what an unmodified guPerspective would have
  produced" (`draw_distance.cpp:373`). The factor stays set once a camera was widened,
  and matrices that were not are narrowed with it. `DrawnAsAsked` therefore speaks of
  angles the hook widens.
* The cap is given in frames per second, "so asking for 45 and being given 30 is visible"
  (`frame_pacing.cpp:91`), and the conversion rounds 60 / 45 to one field, 60 frames a
  second. `NoBurst` needs its assumption for that reason.
* The game's "rate changes are honoured" (`main.cpp:405`). When an open fails, the device
  is gone and the rate before it stays in `g_audio_frequency` (414, 444): asking for that
  rate again returns at once, and there is no sound until a third rate is asked for.
  `DeviceAsAsked` holds, as there is no device.
* A window of half a second "cannot land on a transition" (`demo_scan.cpp:47`). It can,
  and the label is then that of the busier or the stiller part; `LabelSeen` claims only
  that the game was in the state for some of the window.
* The loop that clears the microcode's sixteen segments (`rsp_audio.cpp:66`) never moves
  its pointer on: it clears segment 0 sixteen times, and segments 1 to 15 are the task's
  before. So are volumes, targets, rates and auxiliary levels of an envelope that starts in
  a list that does not set them.
* `maybe_autostart` starts the game without `load_stored_rom` (`main.cpp:321`), which the
  starter thread calls first because of an access violation.
* `vi_has_ticked` is set before `app->updateScreen()` (`rt64_context.cpp:366`, 418), so
  "has ticked" is the start of the first frame, not its end.
* The headers of `rsp.cpp` and of the audio part of `main.cpp` (402-407) say that the
  audio microcode has not been recompiled; it has.
* The sampler copies a stack "touching no lock in between" (`thread_sampler.cpp:30`), and
  asks for a module's handle while a thread is suspended (124).
* The early return of `main` at 1095 leaves the sampler's `std::thread` joinable.

## 7. Abstractions

* The text of the report, its rotation and its directory; a printed line arrives in
  the pipe whole. Splitting bytes into lines is one loop of the pump on its own data.
* `g_mutex` is never held at a fault: a thread faults in the code it runs, or in the
  pump's read and wait, not inside `write_line`. A fault inside `fputs` is the C
  library's.
* The bytes of a formatted pak, the CRCs and the search for the joybus request in
  the PIF frame.
* The frame probes, which measure and print. The VI thread itself: the boundaries of
  fields are where the clock says they are.
* The far plane's scale, which is recomputed from the game's own value at each call;
  the display's aspect, read only by a path that is switched off; the rounding of a
  matrix's fixed-point terms; the screen shake's own changes to an angle. Angles are
  symbols: one the game has just computed is never, by chance, the very number the hook
  wrote last. In the code it would be taken for the hook's own and left alone.
* A crash during a first touch: loading and creating a file is one action, so a
  process does not die between the truncation and the write of a file it is
  creating. What such a file leaves is a short file, which is read as no file.
* Sound: samples and the vector unit. What a handler reads and writes, and what
  that derives from, is kept; of volumes, whose they are (which SETVOL's), and not how an
  envelope moves from them to its targets. The lists are those the game's library builds
  (`AudioList!WellFormed`: buffers, segments and levels set before they are used, streams
  at places of their own; `LaidOut`: buffers between 0x5C0 and 0xF90; `AudioBuffers`: nothing read that was
  not made); a list that breaks it is the game's error. A list of no command at all
  counts below zero in the code and is excluded there too.
* `update_gfx` is one pass. The developer tools are armed one at a time: they share the
  thread and the memory, and only the freeze acts on what another reads, which is why it
  is armed with the search.
* The game's memory is two words for the tools; the scan's half second is four slices.
  A word is read at once. `read_word` puts it together from four bytes
  (`memory_search.cpp:116`), so a word half written could be read while the game writes it
  unless the compiler merges the four loads.
* Keys are what the polls find: one that is let go and pressed again between two polls has
  been held, for the code and for `HeldKeyActsOnce`.
* Inside the application (RT64), a display list takes any time and comes back. The
  frontend's renderer is in another repository and is taken to behave like
  `rt64_context.cpp`.
* The worker thread's use of a retrace beyond the end of initialisation, and the game's
  other threads.

## 8. Plan

What is left, in this order:

1. Action properties of `Renderer`: what a call that has passed its check may still meet,
   and that it is met only between the two steps of `shutdown`.
2. `Widescreen` with several cameras: when their angles agree or they do not alternate,
   which of the one-camera theorems hold again, and how far an angle compounds.
3. The liveness properties for every value of the constants, with a prover that takes
   ENABLED and fairness: their safety parts are there (section 5).

Not modelled:
* the PIF frame's parsing and its CRCs: pure functions of 64 bytes;
* the thread sampler: its hazard is a lock of Windows' own;
* input, window creation, the debug menu, the frontend's calls: no state that another
  part depends on;
* `register_sections.cpp`, `port_runtime.cpp`, `tools/`, `scripts/`: generated tables,
  stubs, offline analysis.
