--------------------------- MODULE EventPumpProofs ---------------------------
(***************************************************************************)
(* What holds of the event pump and the tools it polls for any memory, any  *)
(* length of a window and any number of captures, proved with TLAPS.  Each   *)
(* tool has an invariant of its own; they meet in the keys and in memory.    *)
(***************************************************************************)
EXTENDS EventPump, FiniteSetTheorems, SequenceTheorems, TLAPS

-----------------------------------------------------------------------------
(* The audio device                                                        *)

\* The device, when there is one, has the rate last recorded and last asked
\* for; its bytes are four to a frame, and without a device there are none.
DeviceInv ==
  /\ device \in Rates \cup {0} /\ frequency \in Rates \cup {0}
  /\ slider \in Volumes \cup {100} /\ gain \in 0 .. 100
  /\ waiting \in Nat /\ queued = 4 * waiting
  /\ device = 0 => waiting = 0
  /\ device # 0 => device = frequency /\ device = asked

LEMMA DeviceStep ==
  ASSUME DeviceInv, [Next]_vars
  PROVE  DeviceInv'
  <1> USE AudioAssumption DEF DeviceInv
  <1>still. ASSUME UNCHANGED <<audioVars, slider>> PROVE DeviceInv'
    BY <1>still DEF audioVars
  <1>1. CASE UNCHANGED vars
    BY <1>1, <1>still DEF vars, pumpVars
  <1>2. CASE update_gfx
    BY <1>2 DEF update_gfx, follow_volume
  <1>3. CASE Boot \/ Change \/ Slice \/ Tick \/ KeyDown \/ KeyUp
    BY <1>3, <1>still DEF Boot, Change, Slice, Tick, KeyDown, KeyUp, pumpVars
  <1>4. CASE MoveSlider
    BY <1>4 DEF MoveSlider, audioVars
  <1>5. CASE Audio /\ set_frequency
    BY <1>5 DEF Audio, set_frequency, Opened, pumpVars
  <1>6. CASE Audio /\ queue_samples
    <2>1. PICK count \in Chunks :
            /\ IF device = 0
                 THEN UNCHANGED <<queued, waiting>>
                 ELSE /\ queued' = queued + QueuedBytes(count)
                      /\ waiting' = waiting + count \div 2
            /\ UNCHANGED <<device, frequency, gain, asked, slider>>
      BY <1>6 DEF Audio, queue_samples, pumpVars
    <2>2. count \in Nat /\ count = 2 * (count \div 2) /\ count \div 2 \in Nat
      OBVIOUS
    <2>3. QED
      BY <2>1, <2>2 DEF QueuedBytes, SampleBytes
  <1>7. CASE Audio /\ Play
    BY <1>7 DEF Audio, Play, kBytesPerFrame, pumpVars
  <1>8. QED
    BY <1>1, <1>2, <1>3, <1>4, <1>5, <1>6, <1>7 DEF Next, Audio

LEMMA DeviceInit == Init => DeviceInv
  BY DEF Init, AudioInit, DeviceInv

\* The frames the game is told are waiting are the frames it queued and nobody
\* heard.
THEOREM FramesNeverLost == Spec => []FramesKept
  <1>1. Init => DeviceInv
    BY DeviceInit
  <1>2. DeviceInv => FramesKept
    BY DEF DeviceInv, FramesKept, get_frames_remaining, kBytesPerFrame
  <1>3. QED
    BY <1>1, <1>2, DeviceStep, PTL DEF Spec

\* Sound is never played at a rate other than the one last asked for, however
\* often the host fails to open a device.
THEOREM DeviceRateAsAsked == Spec => []DeviceAsAsked
  <1>1. Init => DeviceInv
    BY DeviceInit
  <1>2. DeviceInv => DeviceAsAsked
    BY DEF DeviceInv, DeviceAsAsked
  <1>3. QED
    BY <1>1, <1>2, DeviceStep, PTL DEF Spec

-----------------------------------------------------------------------------
(* The demo scan                                                           *)

\* The number of lists says what was shown in the window: without the title
\* screen it is not below the idle rate, without a demo not above the busy one.
WindowInv ==
  /\ mode \in Modes /\ shown \subseteq Modes /\ mode \in shown
  /\ elapsed \in 0 .. Window + 1 /\ lists \in Nat
  /\ state \in {"unknown", "idle", "busy"} /\ since \in 0 .. Settle
  /\ "title" \notin shown => 10 * elapsed <= lists * (2 * Window)
  /\ "demo" \notin shown => lists * (2 * Window) <= 40 * elapsed

\* A snapshot is of the title screen, candidates come from a snapshot and from
\* a demo, and a suspect differed between the two.
SuspectsInv ==
  /\ samples \in [idle : Nat, busy : Nat]
  /\ snapshot = [have |-> snapshot.have, value |-> snapshot.value]
  /\ cand = [have |-> cand.have, idle |-> cand.idle, busy |-> cand.busy]
  /\ snapshot.have => samples.idle > 0
  /\ Suspects \subseteq Words
  /\ SuspectsSeparate

LEMMA WindowInit == Init => WindowInv
  <1> SUFFICES ASSUME Init PROVE WindowInv
    OBVIOUS
  <1>1. mode \in Modes /\ shown = {mode} /\ elapsed = 0 /\ lists = 0
        /\ state = "unknown" /\ since = 0
    BY DEF Init, ScanInit
  <1>2. 0 * (2 * Window) = 0
    BY DemoScanAssumption
  <1>3. QED
    BY <1>1, <1>2, DemoScanAssumption DEF WindowInv

LEMMA SuspectsInit == Init => SuspectsInv
  BY DEF Init, ScanInit, SuspectsInv, SuspectsSeparate, Suspects, NoSnapshot, NoCandidates

LEMMA WindowStep ==
  ASSUME WindowInv, [Next]_vars
  PROVE  WindowInv'
  <1> USE DemoScanAssumption DEF WindowInv
  <1>still. ASSUME UNCHANGED <<mode, shown, elapsed, lists, state, since>> PROVE WindowInv'
    BY <1>still
  <1>1. CASE UNCHANGED vars
    BY <1>1, <1>still DEF vars, scanVars
  <1>2. CASE update_gfx
    <2>1. CASE UNCHANGED scanVars
      BY <2>1, <1>still DEF scanVars
    <2>2. CASE demo_scan_poll(ram) /\ UNCHANGED mode /\ elapsed < Window
      BY <2>2, <1>still DEF demo_scan_poll
    <2>3. CASE demo_scan_poll(ram) /\ UNCHANGED mode /\ ~(elapsed < Window)
      <3>1. elapsed' = 0 /\ lists' = 0 /\ shown' = {mode} /\ mode' = mode
        BY <2>3 DEF demo_scan_poll, NextWindow
      <3>2. state' \in {"unknown", "idle", "busy"} /\ since' \in 0 .. Settle
        BY <2>3 DEF demo_scan_poll, Observed
      <3>3. QED
        BY <3>1, <3>2
    <2>4. QED
      BY <1>2, <2>1, <2>2, <2>3 DEF update_gfx
  <1>3. CASE Change
    <2>1. PICK m \in Modes : mode' = m /\ shown' = shown \cup {m}
      BY <1>3 DEF Change
    <2>2. UNCHANGED <<elapsed, lists, state, since>>
      BY <1>3 DEF Change
    <2>3. QED
      BY <2>1, <2>2
  <1>4. CASE Slice
    <2>1. /\ elapsed' = elapsed + 1 /\ lists' = lists + PerSlice[mode]
          /\ since' = IF since < Settle THEN since + 1 ELSE since
          /\ UNCHANGED <<mode, shown, state>> /\ elapsed <= Window
      BY <1>4 DEF Slice, note_display_list
    <2>2. PerSlice[mode] \in Nat /\ PerSlice[mode] * (2 * Window) \in Nat
          /\ lists * (2 * Window) \in Nat
      OBVIOUS
    <2>3. lists' * (2 * Window) = lists * (2 * Window) + PerSlice[mode] * (2 * Window)
      <3>1. \A l, p, w \in Nat : (l + p) * w = l * w + p * w
        OBVIOUS
      <3> DEFINE slice == PerSlice[mode]
                 window == 2 * Window
      <3>2. slice \in Nat /\ window \in Nat /\ lists \in Nat /\ lists' = lists + slice
        BY <2>1, <2>2
      <3> HIDE DEF slice, window
      <3>3. (lists + slice) * window = lists * window + slice * window
        BY <3>1, <3>2
      <3>4. lists' * window = lists * window + slice * window
        BY <3>2, <3>3
      <3>5. QED
        BY <3>4 DEF slice, window
    <2>4. /\ mode # "title" => PerSlice[mode] * (2 * Window) >= 10
          /\ mode # "demo" => PerSlice[mode] * (2 * Window) <= 40
      BY GapAssumption
    <2>5. "title" \notin shown => 10 * elapsed' <= lists' * (2 * Window)
      BY <2>1, <2>2, <2>3, <2>4
    <2>6. "demo" \notin shown => lists' * (2 * Window) <= 40 * elapsed'
      BY <2>1, <2>2, <2>3, <2>4
    <2>7. elapsed' \in 0 .. Window + 1 /\ lists' \in Nat /\ since' \in 0 .. Settle
      BY <2>1, <2>2
    <2>8. QED
      BY <2>1, <2>5, <2>6, <2>7
  <1>5. CASE Boot \/ Tick \/ KeyDown \/ KeyUp \/ MoveSlider \/ Audio
    BY <1>5, <1>still DEF Boot, Tick, KeyDown, KeyUp, MoveSlider, Audio, scanVars
  <1>6. QED
    BY <1>1, <1>2, <1>3, <1>4, <1>5 DEF Next

\* A sample is taken only by demo_scan_poll, at the end of a window that had
\* the label already.
LEMMA SampleStep ==
  ASSUME [Next]_vars, <<snapshot, cand, samples>>' # <<snapshot, cand, samples>>
  PROVE  /\ Observed = state /\ state # "unknown"
         /\ Sample(ram)
  <1>1. CASE UNCHANGED vars
    BY <1>1 DEF vars, scanVars
  <1>2. CASE update_gfx
    <2>1. demo_scan_poll(ram)
      BY <1>2 DEF update_gfx, scanVars
    <2>2. QED
      BY <2>1 DEF demo_scan_poll
  <1>3. CASE Change \/ Slice
    BY <1>3 DEF Change, Slice
  <1>4. CASE Boot \/ Tick \/ KeyDown \/ KeyUp \/ MoveSlider \/ Audio
    BY <1>4 DEF Boot, Tick, KeyDown, KeyUp, MoveSlider, Audio, scanVars
  <1>5. QED
    BY <1>1, <1>2, <1>3, <1>4 DEF Next

LEMMA SuspectsStep ==
  ASSUME SuspectsInv, [Next]_vars
  PROVE  SuspectsInv'
  <1> USE DEF SuspectsInv, SuspectsSeparate, Suspects
  <1>1. CASE UNCHANGED <<snapshot, cand, samples>>
    BY <1>1
  <1>2. CASE <<snapshot, cand, samples>>' # <<snapshot, cand, samples>>
    <2>1. Sample(ram)
      BY <1>2, SampleStep
    <2>2. CASE ~snapshot.have /\ ~cand.have
      <3>1. take_idle_snapshot(ram)
        BY <1>2, <2>1, <2>2 DEF Sample
      <3>2. QED
        BY <2>2, <3>1 DEF take_idle_snapshot
    <2>3. CASE snapshot.have /\ ~cand.have
      <3>1. build_candidates(ram)
        BY <1>2, <2>1, <2>3 DEF Sample
      <3>2. QED
        BY <2>3, <3>1 DEF build_candidates, Restricted
    <2>4. CASE cand.have
      <3>1. filter(ram)
        BY <1>2, <2>1, <2>4 DEF Sample
      <3> DEFINE holds == {w \in Suspects :
                             ram[w] = IF state = "idle" THEN cand.idle[w] ELSE cand.busy[w]}
      <3>2. cand' = [cand EXCEPT !.idle = Restricted(@, holds), !.busy = Restricted(@, holds)]
        BY <3>1 DEF filter
      <3>3. cand' = [have |-> cand.have, idle |-> Restricted(cand.idle, holds),
                     busy |-> Restricted(cand.busy, holds)]
        <4> HIDE DEF holds
        <4>1. QED
          BY <3>2
      <3>4. holds \subseteq Suspects
        OBVIOUS
      <3>5. /\ Suspects' = holds
            /\ \A w \in holds : cand'.idle[w] = cand.idle[w] /\ cand'.busy[w] = cand.busy[w]
        <4> HIDE DEF holds
        <4>1. QED
          BY <3>3, <3>4 DEF Restricted
      <3>6. /\ samples' \in [idle : Nat, busy : Nat]
            /\ samples'.idle >= samples.idle
            /\ UNCHANGED snapshot
        BY <3>1 DEF filter
      <3>7. cand'.have = cand.have
        BY <3>3
      <3>8. cand' = [have |-> cand'.have, idle |-> cand'.idle, busy |-> cand'.busy]
        <4> HIDE DEF holds
        <4>1. QED
          BY <3>3
      <3> HIDE DEF holds, Suspects
      <3>9. /\ Suspects' \subseteq Words
            /\ \A w \in Suspects' : cand'.idle[w] # cand'.busy[w]
        BY <3>4, <3>5
      <3>10. /\ samples'.busy > 0 => cand'.have
             /\ cand'.have => samples'.idle > 0
             /\ snapshot'.have => samples'.idle > 0
        BY <2>4, <3>6, <3>7
      <3>11. QED
        BY <3>6, <3>8, <3>9, <3>10
    <2>5. QED
      BY <2>2, <2>3, <2>4
  <1>3. QED
    BY <1>1, <1>2

\* A sample is never labelled with a state the game was not in at any time of
\* the window that labelled it.
THEOREM LabelsAreEarned == Spec => LabelSeen
  <1>1. Init => WindowInv
    BY WindowInit
  <1>2. ASSUME WindowInv, [Next]_vars, samples' # samples
        PROVE  IF state = "idle" THEN "title" \in shown ELSE "demo" \in shown
    <2>1. Observed = state /\ state # "unknown"
      BY <1>2, SampleStep
    <2>2. elapsed \in Nat /\ lists \in Nat /\ Window \in Nat
      BY <1>2, DemoScanAssumption DEF WindowInv
    <2>3. \A n, w \in Nat : (n * 2) * w = n * (2 * w)
      OBVIOUS
    <2>4. lists * 2 * Window = lists * (2 * Window) /\ lists * (2 * Window) \in Nat
      BY <2>2, <2>3
    <2>5. /\ BelowIdle(lists, elapsed) => lists * (2 * Window) < 10 * elapsed
          /\ AboveBusy(lists, elapsed) => lists * (2 * Window) > 40 * elapsed
      BY <2>4 DEF BelowIdle, AboveBusy
    <2>6. /\ state = "idle" => BelowIdle(lists, elapsed)
          /\ state # "idle" => AboveBusy(lists, elapsed)
      BY <2>1 DEF Observed
    <2>7. /\ "title" \notin shown => 10 * elapsed <= lists * (2 * Window)
          /\ "demo" \notin shown => lists * (2 * Window) <= 40 * elapsed
      BY <1>2 DEF WindowInv
    <2>8. QED
      BY <2>2, <2>4, <2>5, <2>6, <2>7
  <1>3. WindowInv /\ [Next]_vars =>
          [samples' # samples =>
             IF state = "idle" THEN "title" \in shown ELSE "demo" \in shown]_vars
    BY <1>2
  <1>4. QED
    BY <1>1, <1>3, WindowStep, PTL DEF Spec, LabelSeen

\* Demos are sampled only against a title screen seen before, and every suspect
\* had another value there.
THEOREM SuspectsTellApart == Spec => []SuspectsSeparate
  <1>1. Init => SuspectsInv
    BY SuspectsInit
  <1>2. SuspectsInv => SuspectsSeparate
    BY DEF SuspectsInv
  <1>3. QED
    BY <1>1, <1>2, SuspectsStep, PTL DEF Spec

-----------------------------------------------------------------------------
(* Memory, its search and the freeze                                       *)

MemoryInv ==
  /\ ram \in [Words -> Values]
  /\ DOMAIN frozen \subseteq Words
  /\ \A w \in DOMAIN frozen : frozen[w] \in Values

\* What is remembered was read from memory.
SearchInv ==
  /\ memsearch \in {"off", "keys", "selftest"}
  /\ started \in BOOLEAN /\ narrowings \in Nat /\ step \in 0 .. 4
  /\ pressed \subseteq SearchKeys /\ wasDown \subseteq SearchKeys
  /\ Candidates \subseteq Words
  /\ \A w \in Candidates : remembered[w] \in Values

\* A poll: the freeze has written, the game may have gone on writing, and the
\* search reads before or after.
LEMMA MemoryPolled ==
  ASSUME MemoryInv, update_gfx, booted
  PROVE  /\ Holds(ram) \in [Words -> Values]
         /\ ram' \in [Words -> Values]
         /\ memory_search_poll(keys, age, Holds(ram), ram')
  <1> USE DEF MemoryInv
  <1>1. Holds(ram) \in [Words -> Values]
    BY DEF Holds, Captured
  <1>2. PICK after \in Writes(Holds(ram)) :
          memory_search_poll(keys, age, Holds(ram), after) /\ ram' = after
    BY DEF update_gfx
  <1>3. after \in [Words -> Values]
    <2> DEFINE mem == Holds(ram)
    <2>1. mem \in [Words -> Values]
      BY <1>1
    <2>2. after \in Writes(mem)
      OBVIOUS
    <2> HIDE DEF mem
    <2>3. CASE after = mem
      BY <2>1, <2>3
    <2>4. ASSUME NEW w \in Words, NEW v \in Values, after = [mem EXCEPT ![w] = v]
          PROVE  after \in [Words -> Values]
      BY <2>1, <2>4
    <2>5. Writable \subseteq Words
      BY DEF Writable
    <2>6. QED
      BY <2>2, <2>3, <2>4, <2>5 DEF Writes
  <1>4. QED
    BY <1>1, <1>2, <1>3

LEMMA MemoryStep ==
  ASSUME MemoryInv, [Next]_vars
  PROVE  MemoryInv'
  <1> USE DEF MemoryInv
  <1>1. CASE UNCHANGED <<ram, frozen>>
    BY <1>1
  <1>2. CASE update_gfx /\ booted
    <2>1. ram' \in [Words -> Values]
      BY <1>2, MemoryPolled
    <2>2. frozen' = [w \in DOMAIN frozen |-> IF w \in Captured(ram) THEN frozen[w] ELSE ram[w]]
      BY <1>2 DEF update_gfx, memory_freeze_poll
    <2>3. QED
      BY <2>1, <2>2
  <1>3. CASE Change
    BY <1>3, PumpAssumption DEF Change, Modes
  <1>4. QED
    BY <1>1, <1>2, <1>3
    DEF Next, vars, pumpVars, update_gfx, Boot, Slice, Tick, KeyDown, KeyUp, MoveSlider, Audio

\* Reading memory while the game writes yields values it held.
LEMMA ReadingsType ==
  ASSUME NEW a \in [Words -> Values], NEW b \in [Words -> Values], NEW r \in Readings(a, b)
  PROVE  r \in [Words -> Values]
  BY DEF Readings

\* A search, as a record: its candidates are words, with values read.
SearchType(s) ==
  /\ s.on \in BOOLEAN /\ s.count \in Nat
  /\ DOMAIN s.values \subseteq Words
  /\ \A w \in DOMAIN s.values : s.values[w] \in Values

LEMMA PressType ==
  ASSUME NEW s, SearchType(s), NEW r \in [Words -> Values], NEW key
  PROVE  SearchType(Press(s, r, key)) /\ SearchType(narrow(s, r, key))
         /\ SearchType(start(s, r))
  <1>1. SearchType(start(s, r))
    BY DEF start, SearchType
  <1>2. SearchType(narrow(s, r, key))
    <2>1. CASE ~s.on
      BY <2>1 DEF narrow
    <2>2. CASE s.on
      <3> DEFINE kept == {w \in DOMAIN s.values : Keeps(key, s.values[w], r[w])}
      <3>1. kept \subseteq Words
        BY DEF SearchType
      <3>2. narrow(s, r, key) = [on |-> TRUE, values |-> [w \in kept |-> r[w]],
                                 count |-> s.count + 1]
        BY <2>2 DEF narrow
      <3> HIDE DEF kept
      <3>3. QED
        BY <3>1, <3>2 DEF SearchType
    <2>3. QED
      BY <2>1, <2>2
  <1>3. QED
    BY <1>1, <1>2 DEF Press

LEMMA SearchStep ==
  ASSUME MemoryInv, SearchInv, [Next]_vars
  PROVE  SearchInv'
  <1> USE DEF SearchInv, Candidates
  <1>1. CASE UNCHANGED searchVars
    BY <1>1 DEF searchVars
  <1>2. CASE update_gfx /\ booted
    <2> DEFINE mem == Holds(ram)
    <2>1. mem \in [Words -> Values] /\ ram' \in [Words -> Values]
          /\ memory_search_poll(keys, age, mem, ram')
      BY <1>2, MemoryPolled
    <2> HIDE DEF mem
    <2>2. SearchType(Search)
      BY DEF Search, SearchType
    <2>become. ASSUME NEW s, SearchType(s), Become(s)
               PROVE  started' \in BOOLEAN /\ narrowings' \in Nat /\ DOMAIN remembered' \subseteq Words
                      /\ \A w \in DOMAIN remembered' : remembered'[w] \in Values
      BY <2>become DEF Become, SearchType
    <2>3. CASE memsearch = "off"
      BY <2>1, <2>3 DEF memory_search_poll
    <2>4. CASE memsearch = "keys"
      <3>1. PollKeys(keys, mem, ram') /\ UNCHANGED memsearch
        BY <2>1, <2>4 DEF memory_search_poll
      <3>2. wasDown' \subseteq SearchKeys /\ pressed' \subseteq SearchKeys /\ UNCHANGED step
        BY <3>1 DEF PollKeys, Edges
      <3>3. started' \in BOOLEAN /\ narrowings' \in Nat /\ DOMAIN remembered' \subseteq Words
            /\ \A w \in DOMAIN remembered' : remembered'[w] \in Values
        <4>1. CASE UNCHANGED <<started, remembered, narrowings, readout>>
          BY <4>1
        <4>2. ASSUME NEW k, NEW r \in Readings(mem, ram'), Become(Press(Search, r, k))
              PROVE  started' \in BOOLEAN /\ narrowings' \in Nat /\ DOMAIN remembered' \subseteq Words
                     /\ \A w \in DOMAIN remembered' : remembered'[w] \in Values
          BY <2>1, <2>2, <4>2, <2>become, ReadingsType, PressType
        <4>3. ASSUME NEW k, NEW l, NEW r \in Readings(mem, ram'), NEW q \in Readings(r, ram'),
                     Become(Press(Press(Search, r, k), q, l))
              PROVE  started' \in BOOLEAN /\ narrowings' \in Nat /\ DOMAIN remembered' \subseteq Words
                     /\ \A w \in DOMAIN remembered' : remembered'[w] \in Values
          <5>1. r \in [Words -> Values] /\ q \in [Words -> Values]
            BY <2>1, ReadingsType
          <5>2. SearchType(Press(Search, r, k))
            BY <2>2, <5>1, PressType
          <5>3. SearchType(Press(Press(Search, r, k), q, l))
            BY <5>1, <5>2, PressType
          <5>4. QED
            BY <4>3, <5>3, <2>become
        <4>4. QED
          BY <3>1, <4>1, <4>2, <4>3 DEF PollKeys
      <3>4. QED
        BY <3>1, <3>2, <3>3
    <2>5. CASE memsearch = "selftest"
      <3>1. PollSelftest(age, mem, ram') /\ UNCHANGED memsearch
        BY <2>1, <2>5 DEF memory_search_poll
      <3>2. CASE step <= 3 /\ age >= SelftestAt[step]
        <4>1. PICK r \in Readings(mem, ram') :
                Become(IF step = 0 THEN start(Search, r) ELSE narrow(Search, r, "F7"))
          BY <3>1, <3>2 DEF PollSelftest
        <4>2. r \in [Words -> Values]
          BY <2>1, ReadingsType
        <4>3. SearchType(IF step = 0 THEN start(Search, r) ELSE narrow(Search, r, "F7"))
          BY <2>2, <4>2, PressType
        <4>4. step' = step + 1 /\ UNCHANGED wasDown /\ pressed' \subseteq SearchKeys
          BY <3>1, <3>2 DEF PollSelftest, SearchKeys
        <4>5. QED
          BY <3>1, <3>2, <4>1, <4>3, <4>4, <2>become
      <3>3. CASE ~(step <= 3 /\ age >= SelftestAt[step])
        BY <3>1, <3>3 DEF PollSelftest
      <3>4. QED
        BY <3>2, <3>3
    <2>6. QED
      BY <2>3, <2>4, <2>5
  <1>3. QED
    BY <1>1, <1>2
    DEF Next, vars, update_gfx, Boot, Change, Slice, Tick, KeyDown, KeyUp, MoveSlider, Audio

\* The order the search's keys are judged by is the one the property states, on
\* one reading of memory.
LEMMA NarrowJudges ==
  ASSUME NEW before, NEW after, NEW r \in Readings(before, after), SearchInv,
         NEW key \in {"F6", "F7", "F8"}, Become(narrow(Search, r, key)),
         narrowings' = narrowings + 1
  PROVE  /\ DOMAIN remembered' \subseteq Candidates
         /\ \A w \in DOMAIN remembered' :
              /\ Judged(key, remembered[w], remembered'[w])
              /\ remembered'[w] \in {before[w], after[w]}
         /\ \A w \in Candidates \ DOMAIN remembered' :
              \E v \in {before[w], after[w]} : ~Judged(key, remembered[w], v)
  <1>1. started
    <2>1. CASE ~started
      BY <2>1 DEF Become, narrow, Search, SearchInv
    <2>2. QED
      BY <2>1
  <1> DEFINE kept == {w \in Candidates : Keeps(key, remembered[w], r[w])}
  <1>2. narrow(Search, r, key) = [on |-> TRUE, values |-> [w \in kept |-> r[w]],
                                  count |-> narrowings + 1]
    BY <1>1 DEF narrow, Search, Candidates
  <1>3. remembered' = [w \in kept |-> r[w]]
    <2> HIDE DEF kept
    <2>1. QED
      BY <1>2 DEF Become
  <1>4. kept \subseteq Candidates /\ Candidates \subseteq Words
    BY DEF SearchInv
  <1>5. \A was, is : Keeps(key, was, is) <=> Judged(key, was, is)
    BY DEF Keeps, Judged
  <1>6. \A w \in Words : r[w] \in {before[w], after[w]}
    BY DEF Readings
  <1>7. \A w \in kept : Judged(key, remembered[w], r[w])
    BY <1>5
  <1>8. \A w \in Candidates \ kept : ~Judged(key, remembered[w], r[w])
    BY <1>5
  <1> HIDE DEF kept
  <1>9. DOMAIN remembered' = kept /\ \A w \in kept : remembered'[w] = r[w]
    BY <1>3
  <1>10. QED
    BY <1>4, <1>6, <1>7, <1>8, <1>9

\* Memory and the search start within their invariants.
LEMMA MemoryInit == Init => MemoryInv /\ SearchInv
  <1> SUFFICES ASSUME Init PROVE MemoryInv /\ SearchInv
    OBVIOUS
  <1>1. frozen \in {Nothing} \cup {[w \in {v} |-> 0] : v \in Words}
    BY DEF Init, SearchInit
  <1>2. DOMAIN frozen \subseteq Words /\ \A w \in DOMAIN frozen : frozen[w] \in Values
    BY <1>1, SearchAssumption DEF Nothing
  <1>3. MemoryInv
    BY <1>2, SearchAssumption DEF Init, MemoryInv
  <1>4. remembered = Nothing /\ narrowings = 0 /\ step = 0 /\ wasDown = {} /\ pressed = {}
        /\ started \in BOOLEAN
        /\ memsearch \in {"off", "keys", "selftest"}
    BY DEF Init, SearchInit
  <1>5. SearchInv
    BY <1>4 DEF SearchInv, Candidates, Nothing
  <1>6. QED
    BY <1>3, <1>5

\* No change slips between two presses, though the game writes during the scan:
\* what a kept word is remembered as is what it was judged by, and a word is
\* dropped only for a value it held.
THEOREM NarrowingIsFair == Spec => NarrowIsFair
  <1> DEFINE Narrowed(key) == narrowings' = narrowings + 1 /\ pressed' = {key}
             Fair(key) ==
               /\ DOMAIN remembered' \subseteq Candidates
               /\ \A w \in DOMAIN remembered' :
                    /\ Judged(key, remembered[w], remembered'[w])
                    /\ remembered'[w] \in {Holds(ram)[w], ram'[w]}
               /\ \A w \in Candidates \ DOMAIN remembered' :
                    \E v \in {Holds(ram)[w], ram'[w]} : ~Judged(key, remembered[w], v)
             AllFair == \A key \in {"F6", "F7", "F8"} : Narrowed(key) => Fair(key)
  <1>1. ASSUME MemoryInv, SearchInv, [Next]_vars, NEW key \in {"F6", "F7", "F8"}, Narrowed(key)
        PROVE  Fair(key)
    <2>1. narrowings' # narrowings
      BY <1>1 DEF SearchInv
    <2>2. update_gfx /\ booted
      BY <1>1, <2>1
      DEF Next, vars, update_gfx, Boot, Change, Slice, Tick, KeyDown, KeyUp, MoveSlider, Audio,
          searchVars
    <2>3. memory_search_poll(keys, age, Holds(ram), ram')
      BY <1>1, <2>2, MemoryPolled
    <2>4. ASSUME NEW r \in Readings(Holds(ram), ram'), Become(narrow(Search, r, key))
          PROVE  Fair(key)
      BY <1>1, <2>4, NarrowJudges
    <2>5. CASE memsearch = "off"
      BY <2>1, <2>3, <2>5 DEF memory_search_poll
    <2>6. CASE memsearch = "keys"
      <3>1. PollKeys(keys, Holds(ram), ram')
        BY <2>3, <2>6 DEF memory_search_poll
      <3> DEFINE new == Edges(keys \cap SearchKeys)
      <3>2. new = {key}
        BY <1>1, <2>1, <3>1 DEF PollKeys
      <3>3. PICK r \in Readings(Holds(ram), ram') : Become(Press(Search, r, key))
        <4>1. \/ \E k \in new, r \in Readings(Holds(ram), ram') :
                   new = {k} /\ Become(Press(Search, r, k))
              \/ \E k, l \in new : k # l
          BY <2>1, <3>1 DEF PollKeys
        <4> HIDE DEF new, Narrowed, Fair
        <4>2. QED
          BY <3>2, <4>1
      <3>4. QED
        BY <1>1, <2>4, <3>3 DEF Press
    <2>7. CASE memsearch = "selftest"
      <3>1. PollSelftest(age, Holds(ram), ram')
        BY <2>3, <2>7 DEF memory_search_poll
      <3>2. PICK r \in Readings(Holds(ram), ram') :
              /\ Become(IF step = 0 THEN start(Search, r) ELSE narrow(Search, r, "F7"))
              /\ pressed' = {IF step = 0 THEN "F5" ELSE "F7"}
        BY <2>1, <3>1 DEF PollSelftest
      <3>3. step # 0 /\ key = "F7"
        BY <1>1, <3>2
      <3>4. QED
        BY <2>4, <3>2, <3>3
    <2>8. QED
      BY <1>1, <2>5, <2>6, <2>7 DEF SearchInv
  <1>2. MemoryInv /\ SearchInv /\ [Next]_vars => [AllFair]_vars
    BY <1>1
  <1>3. [][AllFair]_vars <=> NarrowIsFair
    BY PTL DEF NarrowIsFair
  <1> HIDE DEF AllFair
  <1>4. QED
    BY <1>2, <1>3, MemoryInit, MemoryStep, SearchStep, PTL DEF Spec

-----------------------------------------------------------------------------
(* The keys and the capture                                                *)

\* A capture: the dump is at most the largest picture the VI can show.
MaxBytes == 4095 * 480 * 4
Sizes == {n \in Nat : n <= MaxBytes}
Captures == [by : {"timer", "F9"}, screen : BOOLEAN,
             fb : [is : {"none", "blanked", "failed", "dumped"}, bytes : Sizes]]

CaptureInv ==
  /\ dir \in BOOLEAN /\ f9Down \in BOOLEAN
  /\ folders \in Seq(Captures)
  /\ taken = Len(folders)

\* Each tool remembers as down the keys that were down when it last looked.
HeldInv ==
  /\ keys \subseteq Keys /\ spent \subseteq Keys
  /\ dir => (f9Down <=> "F9" \in spent)
  /\ memsearch = "keys" => wasDown = spent \cap SearchKeys

\* A dump is no larger than the largest picture.
LEMMA DumpBounded ==
  ASSUME NEW vi \in ViStates
  PROVE  Bytes(vi) \in Nat /\ Bytes(vi) <= MaxBytes
  <1>1. /\ vi.width \in Nat /\ vi.width <= 4095
        /\ vi.start \in Nat /\ vi.end \in Nat /\ vi.scale \in Nat
    <2> DEFINE W == 0 .. 4095
               S == 0 .. 1023
               O == Nat
               P == 0 .. 3
    <2>1. ViStates \subseteq [origin : O, width : W, pixel : P, start : S, end : S, scale : W]
      BY CaptureAssumption
    <2> HIDE DEF W, S, O, P
    <2>2. vi.width \in W /\ vi.start \in S /\ vi.end \in S /\ vi.scale \in W
      BY <2>1
    <2>3. (\A n \in W : n \in Nat /\ n <= 4095) /\ (\A n \in S : n \in Nat)
      BY SMT DEF W, S
    <2>4. QED
      BY <2>2, <2>3
  <1>2. height(vi) \in Nat /\ height(vi) <= 480
    <2> DEFINE half == (vi.end - vi.start) \div 2
    <2>1. CASE vi.end > vi.start /\ vi.scale # 0
      <3>1. half \in Nat
        BY <1>1, <2>1
      <3> HIDE DEF half
      <3> DEFINE product == half * vi.scale
                 derived == product \div 1024
      <3>2. product \in Nat
        BY <1>1, <3>1
      <3>3. height(vi) = IF derived = 0 \/ derived > 480 THEN 240 ELSE derived
        BY <2>1 DEF height, half
      <3> HIDE DEF product
      <3>4. derived \in Nat
        BY <3>2
      <3> HIDE DEF derived
      <3>5. QED
        BY <3>3, <3>4
    <2>2. CASE ~(vi.end > vi.start /\ vi.scale # 0)
      BY <2>2 DEF height
    <2>3. QED
      BY <2>1, <2>2
  <1>3. \A w, h, a, b \in Nat : w <= a /\ h <= b => w * h \in Nat /\ w * h <= a * b
    <2> TAKE w, h, a, b \in Nat
    <2> HAVE w <= a /\ h <= b
    <2>1. w * h <= a * h
      OBVIOUS
    <2>2. a * h <= a * b
      OBVIOUS
    <2>3. w * h \in Nat /\ a * h \in Nat /\ a * b \in Nat
      OBVIOUS
    <2>4. QED
      BY <2>1, <2>2, <2>3
  <1> DEFINE pixels == vi.width * height(vi)
             depth == IF vi.pixel = 3 THEN 4 ELSE 2
  <1>4. Bytes(vi) = pixels * depth
    BY DEF Bytes
  <1>5. depth \in Nat /\ depth <= 4
    OBVIOUS
  <1>6. pixels \in Nat /\ pixels <= 4095 * 480
    BY <1>1, <1>2, <1>3, SMT
  <1> HIDE DEF pixels, depth
  <1>7. 4095 * 480 \in Nat
    BY SMT
  <1>8. QED
    BY <1>3, <1>4, <1>5, <1>6, <1>7, SMT DEF MaxBytes

\* What a capture adds: one folder per reason, in order.
LEMMA Taken ==
  ASSUME CaptureInv, NEW whys \in Seq({"timer", "F9"}), NEW present, take(whys, present)
  PROVE  /\ folders' \in Seq(Captures) /\ taken' = Len(folders')
         /\ taken' = taken + Len(whys)
         /\ \A i \in taken + 1 .. taken' : folders'[i].by = whys[i - taken]
  <1>1. PICK screen \in BOOLEAN, file \in BOOLEAN, vi \in ViStates :
          /\ taken' = taken + Len(whys)
          /\ folders' = folders \o
               [i \in 1 .. Len(whys) |->
                  Folder(whys[i], screen, write_vi_framebuffer(present, vi, file))]
    BY DEF take
  <1> DEFINE fb == write_vi_framebuffer(present, vi, file)
             added == [i \in 1 .. Len(whys) |-> Folder(whys[i], screen, fb)]
  <1>2. fb \in [is : {"none", "blanked", "failed", "dumped"}, bytes : Sizes]
    <2>1. 0 \in Sizes
      BY SMT DEF MaxBytes, Sizes
    <2>2. QED
      BY <2>1, DumpBounded DEF write_vi_framebuffer, Sizes
  <1> HIDE DEF fb
  <1>3. Len(whys) \in Nat /\ \A i \in 1 .. Len(whys) : whys[i] \in {"timer", "F9"}
    OBVIOUS
  <1>4. added \in Seq(Captures) /\ Len(added) = Len(whys)
    BY <1>2, <1>3 DEF Folder, Captures
  <1>5. \A i \in 1 .. Len(whys) : added[i].by = whys[i]
    BY <1>3 DEF Folder
  <1>6. folders' = folders \o added /\ taken' = taken + Len(whys)
    BY <1>1 DEF fb
  <1> HIDE DEF added
  <1>7. folders \in Seq(Captures) /\ taken = Len(folders)
    BY DEF CaptureInv
  <1>8. folders' \in Seq(Captures) /\ Len(folders') = Len(folders) + Len(whys)
    <2>1. Len(folders \o added) = Len(folders) + Len(added)
      BY <1>4, <1>7, ConcatProperties
    <2>2. folders \o added \in Seq(Captures)
      BY <1>4, <1>7, ConcatProperties
    <2>3. QED
      BY <1>4, <1>6, <2>1, <2>2
  <1>9. \A i \in Len(folders) + 1 .. Len(folders) + Len(whys) :
          folders'[i] = added[i - Len(folders)]
    BY <1>4, <1>6, <1>7, ConcatProperties
  <1>10. \A i \in taken + 1 .. taken' : folders'[i].by = whys[i - taken]
    <2> TAKE i \in taken + 1 .. taken'
    <2>1. taken \in Nat /\ i - taken \in 1 .. Len(whys)
      BY <1>3, <1>6, <1>7
    <2>2. i \in Len(folders) + 1 .. Len(folders) + Len(whys)
      BY <1>6, <1>7
    <2>3. folders'[i] = added[i - taken]
      BY <1>7, <1>9, <2>2
    <2>4. QED
      BY <1>5, <2>1, <2>3
  <1>11. QED
    BY <1>6, <1>7, <1>8, <1>10

\* The reasons a poll captures for.
Whys == (IF AutoDue THEN <<"timer">> ELSE <<>>) \o
          (IF "F9" \in keys /\ ~f9Down THEN <<"F9">> ELSE <<>>)

LEMMA Polled ==
  ASSUME CaptureInv, poll_hotkey(keys, booted)
  PROVE  /\ CaptureInv'
         /\ ByKey = IF dir /\ "F9" \in keys /\ ~f9Down THEN {taken'} ELSE {}
         /\ dir' = dir
         /\ dir => f9Down' = ("F9" \in keys)
  <1>1. CASE ~dir
    <2>1. UNCHANGED captureVars /\ taken \in Nat
      BY <1>1 DEF poll_hotkey, CaptureInv
    <2>2. taken + 1 .. taken' = {}
      BY <2>1 DEF captureVars
    <2>3. QED
      BY <1>1, <2>1, <2>2 DEF captureVars, CaptureInv, ByKey
  <1>2. CASE dir
    <2>1. take(Whys, booted) /\ UNCHANGED dir /\ f9Down' = ("F9" \in keys)
      BY <1>2 DEF poll_hotkey, Whys
    <2>2. Whys \in Seq({"timer", "F9"})
      <3> DEFINE S == {"timer", "F9"}
                 first == IF AutoDue THEN <<"timer">> ELSE <<>>
                 second == IF "F9" \in keys /\ ~f9Down THEN <<"F9">> ELSE <<>>
      <3>1. first \in Seq(S) /\ second \in Seq(S)
        <4>1. "timer" \in S /\ "F9" \in S
          OBVIOUS
        <4> HIDE DEF S
        <4>2. <<"timer">> \in Seq(S) /\ <<"F9">> \in Seq(S) /\ <<>> \in Seq(S)
          BY <4>1
        <4>3. QED
          BY <4>2
      <3>2. Whys = first \o second
        BY DEF Whys
      <3> HIDE DEF S, first, second
      <3>3. Whys \in Seq(S)
        BY <3>1, <3>2, ConcatProperties
      <3>4. QED
        BY <3>3 DEF S
    <2>3. /\ \A i \in 1 .. Len(Whys) :
                Whys[i] = "F9" <=> ("F9" \in keys /\ ~f9Down /\ i = Len(Whys))
          /\ "F9" \in keys /\ ~f9Down => Len(Whys) >= 1
      <3> DEFINE due == "F9" \in keys /\ ~f9Down
                 S == {"timer", "F9"}
                 first == IF AutoDue THEN <<"timer">> ELSE <<>>
                 second == IF due THEN <<"F9">> ELSE <<>>
      <3>0. "timer" \in S /\ "F9" \in S
        OBVIOUS
      <3> HIDE DEF S, due
      <3>1. /\ first \in Seq(S) /\ Len(first) \in Nat
            /\ \A i \in 1 .. Len(first) : first[i] = "timer"
        BY <3>0
      <3>2. /\ second \in Seq(S) /\ Len(second) = IF due THEN 1 ELSE 0
            /\ \A i \in 1 .. Len(second) : second[i] = "F9"
        BY <3>0
      <3>3. Whys = first \o second
        BY DEF Whys, due
      <3> HIDE DEF first, second
      <3>4. /\ Len(Whys) = Len(first) + Len(second)
            /\ \A i \in 1 .. Len(Whys) :
                 Whys[i] = IF i <= Len(first) THEN first[i] ELSE second[i - Len(first)]
        BY <3>1, <3>2, <3>3, ConcatProperties
      <3>5. \A i \in 1 .. Len(Whys) : Whys[i] = "F9" <=> due /\ i = Len(Whys)
        <4> TAKE i \in 1 .. Len(Whys)
        <4>1. CASE i <= Len(first)
          BY <3>1, <3>2, <3>4, <4>1
        <4>2. CASE i > Len(first)
          <5>1. i - Len(first) \in 1 .. Len(second)
            BY <3>1, <3>2, <3>4, <4>2
          <5>2. due /\ i = Len(Whys)
            BY <3>1, <3>2, <3>4, <5>1
          <5>3. Whys[i] = "F9"
            BY <3>1, <3>2, <3>4, <4>2, <5>1
          <5>4. QED
            BY <5>2, <5>3
        <4>3. QED
          BY <3>1, <4>1, <4>2
      <3>6. due => Len(Whys) >= 1
        BY <3>1, <3>2, <3>4
      <3>7. QED
        BY <3>5, <3>6 DEF due
    <2>4. /\ folders' \in Seq(Captures) /\ taken' = Len(folders')
          /\ taken' = taken + Len(Whys)
          /\ \A i \in taken + 1 .. taken' : folders'[i].by = Whys[i - taken]
      BY <2>1, <2>2, Taken
    <2>5. taken \in Nat /\ Len(Whys) \in Nat
      BY <2>2 DEF CaptureInv
    <2>6. ByKey = IF "F9" \in keys /\ ~f9Down THEN {taken'} ELSE {}
      <3> DEFINE n == Len(Whys)
      <3>0. taken' = taken + n /\ n \in Nat /\ taken \in Nat
        BY <2>4, <2>5
      <3> HIDE DEF n
      <3>1. \A i \in taken + 1 .. taken' :
              folders'[i].by = "F9" <=> ("F9" \in keys /\ ~f9Down /\ i = taken')
        <4> TAKE i \in taken + 1 .. taken'
        <4>1. i - taken \in 1 .. n /\ (i - taken = n <=> i = taken')
          BY <3>0
        <4>2. QED
          BY <2>3, <2>4, <4>1 DEF n
      <3>2. "F9" \in keys /\ ~f9Down => taken' \in taken + 1 .. taken'
        <4>1. "F9" \in keys /\ ~f9Down => n >= 1
          BY <2>3 DEF n
        <4>2. QED
          BY <3>0, <4>1
      <3>3. QED
        BY <3>1, <3>2 DEF ByKey
    <2>7. CaptureInv'
      BY <2>1, <2>4 DEF CaptureInv
    <2>8. QED
      BY <1>2, <2>1, <2>6, <2>7
  <1>3. QED
    BY <1>1, <1>2

LEMMA CaptureStep ==
  ASSUME CaptureInv, [Next]_vars
  PROVE  CaptureInv'
  <1>1. CASE UNCHANGED <<dir, taken, folders, f9Down>>
    BY <1>1 DEF CaptureInv
  <1>2. CASE update_gfx
    BY <1>2, Polled DEF update_gfx
  <1>3. QED
    BY <1>1, <1>2
    DEF Next, vars, captureVars, Boot, Change, Slice, Tick, KeyDown, KeyUp, MoveSlider, Audio

LEMMA HeldStep ==
  ASSUME CaptureInv, SearchInv, HeldInv, [Next]_vars
  PROVE  HeldInv'
  <1> USE DEF HeldInv
  <1>1. CASE UNCHANGED <<keys, spent, dir, f9Down, memsearch, wasDown>>
    BY <1>1
  <1>2. CASE update_gfx
    <2>1. /\ spent' = (spent \ LookedAt) \cup (keys \cap LookedAt) /\ keys' = keys
          /\ poll_hotkey(keys, booted)
      BY <1>2 DEF update_gfx
    <2>2. dir' = dir /\ (dir => f9Down' = ("F9" \in keys))
      BY <2>1, Polled
    <2>3. LookedAt \subseteq Keys /\ (dir <=> "F9" \in LookedAt)
      BY DEF LookedAt, SearchKeys, Keys
    <2>4. memsearch' = memsearch
      BY <1>2 DEF update_gfx, memory_search_poll, searchVars
    <2>5. dir' => (f9Down' <=> "F9" \in spent')
      BY <2>1, <2>2, <2>3
    <2>6. CASE memsearch = "keys" /\ booted
      <3>1. PICK after : memory_search_poll(keys, age, Holds(ram), after)
        BY <1>2, <2>6 DEF update_gfx
      <3>2. wasDown' = keys \cap SearchKeys
        BY <2>6, <3>1 DEF memory_search_poll, PollKeys
      <3>3. SearchKeys \subseteq LookedAt
        BY <2>6 DEF LookedAt
      <3>4. QED
        BY <2>1, <2>3, <2>5, <3>2, <3>3
    <2>7. CASE memsearch = "keys" /\ ~booted
      <3>1. wasDown' = wasDown
        BY <1>2, <2>7 DEF update_gfx, searchVars
      <3>2. LookedAt \cap SearchKeys = {}
        BY <2>7 DEF LookedAt, SearchKeys
      <3>3. QED
        BY <2>1, <2>3, <2>5, <2>7, <3>1, <3>2
    <2>8. CASE memsearch # "keys"
      BY <2>1, <2>3, <2>4, <2>5, <2>8
    <2>9. QED
      BY <2>6, <2>7, <2>8
  <1>3. CASE KeyDown
    <2>1. PICK k \in Keys : keys' = keys \cup {k}
      BY <1>3 DEF KeyDown, Keys
    <2>2. UNCHANGED <<spent, dir, f9Down, memsearch, wasDown>>
      BY <1>3 DEF KeyDown, searchVars, captureVars
    <2>3. QED
      BY <2>1, <2>2
  <1>4. CASE KeyUp
    <2>1. PICK k \in keys : keys' = keys \ {k}
      BY <1>4 DEF KeyUp
    <2>2. UNCHANGED <<spent, dir, f9Down, memsearch, wasDown>>
      BY <1>4 DEF KeyUp, searchVars, captureVars
    <2>3. QED
      BY <2>1, <2>2
  <1>5. QED
    BY <1>1, <1>2, <1>3, <1>4
    DEF Next, vars, searchVars, captureVars, pumpVars, Boot, Change, Slice, Tick, MoveSlider, Audio

LEMMA KeysInit == Init => CaptureInv /\ HeldInv
  <1> SUFFICES ASSUME Init PROVE CaptureInv /\ HeldInv
    OBVIOUS
  <1>1. dir \in BOOLEAN /\ taken = 0 /\ folders = <<>> /\ f9Down = FALSE /\ wasDown = {}
    BY DEF Init, CaptureInit, SearchInit
  <1>2. folders \in Seq(Captures) /\ Len(folders) = 0
    BY <1>1
  <1>3. keys = {} /\ spent = {}
    BY DEF Init
  <1>4. QED
    BY <1>1, <1>2, <1>3 DEF CaptureInv, HeldInv

\* What the new keys do to the search, when they are the edges its poll finds.
LEMMA EachActsOnce ==
  ASSUME SearchInv, NEW after, PollKeys(keys, Holds(ram), after),
         NEW new, new = Edges(keys \cap SearchKeys)
  PROVE  IF new = {} THEN UNCHANGED SearchState ELSE EachKeyActs(new)
  <1>1. CASE new = {}
    BY <1>1 DEF PollKeys, SearchState
  <1>2. CASE new # {}
    <2> DEFINE Narrows(s, k, t) ==
                 /\ t.on = (s.on \/ k = "F5")
                 /\ t.count = IF k = "F5" THEN 0 ELSE IF s.on THEN s.count + 1 ELSE s.count
                 /\ k = "F5" \/ DOMAIN t.values \subseteq DOMAIN s.values
    <2>1. ASSUME NEW s, s.on \in BOOLEAN, NEW r, NEW k \in SearchKeys
          PROVE  Narrows(s, k, Press(s, r, k))
      <3>1. CASE k = "F5"
        BY <3>1 DEF Press, start
      <3>2. CASE k # "F5" /\ ~s.on
        BY <2>1, <3>2 DEF Press, narrow
      <3>3. CASE k # "F5" /\ s.on
        <4> DEFINE kept == {w \in DOMAIN s.values : Keeps(k, s.values[w], r[w])}
        <4>1. Press(s, r, k) = [on |-> TRUE, values |-> [w \in kept |-> r[w]], count |-> s.count + 1]
          BY <3>3 DEF Press, narrow
        <4>2. kept \subseteq DOMAIN s.values
          OBVIOUS
        <4> HIDE DEF kept
        <4>3. /\ Press(s, r, k).on = TRUE /\ Press(s, r, k).count = s.count + 1
              /\ DOMAIN Press(s, r, k).values = kept
          BY <4>1
        <4>4. QED
          BY <3>3, <4>2, <4>3
      <3>4. QED
        BY <2>1, <3>1, <3>2, <3>3
    <2>2. /\ Search.on = started /\ Search.count = narrowings /\ Search.values = remembered
          /\ started \in BOOLEAN /\ narrowings \in Nat
      BY DEF Search, SearchInv
    <2>3. pressed' = new /\ new \subseteq SearchKeys
      BY <1>2 DEF PollKeys, Edges
    <2> HIDE DEF Narrows
    <2>4. ASSUME NEW k \in new, new = {k}, NEW r, Become(Press(Search, r, k))
          PROVE  EachKeyActs(new)
      <3> DEFINE t == Press(Search, r, k)
      <3>1. Narrows(Search, k, t)
        BY <2>1, <2>2, <2>3
      <3>2. started' = t.on /\ narrowings' = t.count /\ remembered' = t.values
        BY <2>4 DEF Become
      <3>3. Cardinality(new \ {"F5"}) = IF k = "F5" THEN 0 ELSE 1
        <4>1. k = "F5" => new \ {"F5"} = {}
          BY <2>4
        <4>2. k # "F5" => new \ {"F5"} = {k}
          BY <2>4
        <4>3. QED
          BY <4>1, <4>2, FS_EmptySet, FS_Singleton
      <3> HIDE DEF t
      <3>4. started' = (started \/ "F5" \in new)
        BY <2>2, <2>4, <3>1, <3>2, Zenon DEF Narrows
      <3>5. narrowings' = IF k = "F5" THEN 0 ELSE IF started THEN narrowings + 1 ELSE narrowings
        BY <2>2, <3>1, <3>2 DEF Narrows
      <3>6. "F5" \in new \/ DOMAIN remembered' \subseteq Candidates
        BY <2>2, <2>4, <3>1, <3>2 DEF Narrows, Candidates
      <3>7. "F5" \in new <=> k = "F5"
        BY <2>4
      <3>8. started' <=> started \/ k = "F5"
        BY <3>4, <3>7
      <3>9. narrowings' = (IF "F5" \in new THEN 0 ELSE narrowings)
                           + (IF started' THEN Cardinality(new \ {"F5"}) ELSE 0)
        <4>1. CASE k = "F5"
          BY <3>3, <3>5, <3>7, <4>1
        <4>2. CASE k # "F5"
          BY <2>2, <3>3, <3>5, <3>7, <3>8, <4>2
        <4>3. QED
          BY <4>1, <4>2
      <3>10. QED
        BY <2>3, <3>4, <3>6, <3>9 DEF EachKeyActs
    <2>5. ASSUME NEW k \in new, NEW l \in new, new = {k, l}, k # l, l # "F5",
                 NEW r, NEW q, Become(Press(Press(Search, r, k), q, l))
          PROVE  EachKeyActs(new)
      <3> DEFINE s == Press(Search, r, k)
                 t == Press(s, q, l)
      <3>1. Narrows(Search, k, s)
        BY <2>1, <2>2, <2>3
      <3>2. s.on \in BOOLEAN
        BY <2>2, <3>1 DEF Narrows
      <3>3. Narrows(s, l, t)
        BY <2>1, <2>3, <3>2
      <3>4. started' = t.on /\ narrowings' = t.count /\ remembered' = t.values
        BY <2>5 DEF Become
      <3>5. Cardinality(new \ {"F5"}) = IF k = "F5" THEN 1 ELSE 2
        <4>1. k = "F5" => new \ {"F5"} = {l}
          BY <2>5
        <4>2. k # "F5" => new \ {"F5"} = {k} \cup {l}
          BY <2>5
        <4>3. Cardinality({l}) = 1 /\ IsFiniteSet({k}) /\ Cardinality({k}) = 1
          BY FS_Singleton
        <4>4. Cardinality({k} \cup {l}) = 2
          BY <2>5, <4>3, FS_AddElement
        <4>5. QED
          BY <4>1, <4>2, <4>3, <4>4
      <3> HIDE DEF s, t
      <3>6. started' = (started \/ "F5" \in new)
        BY <2>2, <2>5, <3>1, <3>3, <3>4, Zenon DEF Narrows
      <3>7. narrowings' = IF k = "F5" THEN 1 ELSE IF started THEN narrowings + 2 ELSE narrowings
        <4>1. s.count = IF k = "F5" THEN 0 ELSE IF started THEN narrowings + 1 ELSE narrowings
          BY <2>2, <3>1 DEF Narrows
        <4>2. narrowings' = IF s.on THEN s.count + 1 ELSE s.count
          BY <2>5, <3>3, <3>4 DEF Narrows
        <4>3. s.on <=> (started \/ k = "F5")
          BY <2>2, <3>1, Zenon DEF Narrows
        <4>4. QED
          BY <2>2, <4>1, <4>2, <4>3
      <3>8. "F5" \in new \/ DOMAIN remembered' \subseteq Candidates
        BY <2>2, <2>5, <3>1, <3>3, <3>4 DEF Narrows, Candidates
      <3>9. "F5" \in new <=> k = "F5"
        BY <2>5
      <3>10. started' <=> started \/ k = "F5"
        BY <3>6, <3>9
      <3>11. narrowings' = (IF "F5" \in new THEN 0 ELSE narrowings)
                            + (IF started' THEN Cardinality(new \ {"F5"}) ELSE 0)
        BY <2>2, <3>5, <3>7, <3>9, <3>10
      <3>12. QED
        BY <2>3, <3>6, <3>8, <3>11 DEF EachKeyActs
    <2>6. \/ \E k \in new, r \in Readings(Holds(ram), after) :
               new = {k} /\ Become(Press(Search, r, k))
          \/ \E k, l \in new, r \in Readings(Holds(ram), after) :
               /\ new = {k, l} /\ k # l /\ l # "F5"
               /\ \E q \in Readings(r, after) : Become(Press(Press(Search, r, k), q, l))
      BY <1>2 DEF PollKeys
    <2>7. QED
      BY <2>4, <2>5, <2>6
  <1>3. QED
    BY <1>1, <1>2

\* A key held down acts, once, at the first poll that finds it down and at no
\* later one, whatever goes down with it or after it.
THEOREM HeldKeysActOnce == Spec => HeldKeyActsOnce
  <1> DEFINE new == Fresh \cap SearchKeys
             Once ==
               /\ ByKey = IF "F9" \in Fresh THEN {taken'} ELSE {}
               /\ memsearch = "keys" =>
                    IF new = {} THEN UNCHANGED SearchState ELSE EachKeyActs(new)
  <1>1. ASSUME MemoryInv, SearchInv, CaptureInv, HeldInv, [Next]_vars
        PROVE  Once
    <2>1. CASE update_gfx
      <3>1. spent' = (spent \ LookedAt) \cup (keys \cap LookedAt)
        BY <2>1 DEF update_gfx
      <3>2. ByKey = IF "F9" \in Fresh THEN {taken'} ELSE {}
        <4>1. dir /\ "F9" \in keys /\ ~f9Down <=> "F9" \in Fresh
          BY <1>1, <3>1 DEF HeldInv, Fresh, LookedAt, SearchKeys
        <4>2. QED
          BY <1>1, <2>1, <4>1, Polled DEF update_gfx
      <3>3. ASSUME memsearch = "keys", booted
            PROVE  IF new = {} THEN UNCHANGED SearchState ELSE EachKeyActs(new)
        <4>1. PollKeys(keys, Holds(ram), ram')
          <5>1. memory_search_poll(keys, age, Holds(ram), ram')
            BY <1>1, <2>1, <3>3, MemoryPolled
          <5>2. QED
            BY <3>3, <5>1 DEF memory_search_poll
        <4>2. new = Edges(keys \cap SearchKeys)
          BY <1>1, <3>1, <3>3 DEF HeldInv, Fresh, LookedAt, Edges
        <4> HIDE DEF new
        <4>3. QED
          BY <1>1, <4>1, <4>2, EachActsOnce
      <3>4. ASSUME memsearch = "keys", ~booted
            PROVE  new = {} /\ UNCHANGED SearchState
        BY <2>1, <3>1, <3>4 DEF Fresh, LookedAt, SearchKeys, update_gfx, searchVars, SearchState
      <3>5. QED
        BY <3>2, <3>3, <3>4
    <2>2. CASE UNCHANGED <<spent, taken, folders, searchVars>>
      <3>1. taken + 1 .. taken' = {} /\ Fresh = {}
        BY <1>1, <2>2 DEF CaptureInv, Fresh
      <3>2. QED
        BY <2>2, <3>1 DEF ByKey, searchVars, SearchState
    <2>3. QED
      BY <1>1, <2>1, <2>2
      DEF Next, vars, searchVars, captureVars, pumpVars, Boot, Change, Slice, Tick, KeyDown, KeyUp,
          MoveSlider, Audio
  <1>2. MemoryInv /\ SearchInv /\ CaptureInv /\ HeldInv /\ [Next]_vars => [Once]_vars
    BY <1>1
  <1>3. [][Once]_vars <=> HeldKeyActsOnce
    BY PTL DEF HeldKeyActsOnce
  <1> HIDE DEF Once
  <1>4. QED
    BY <1>2, <1>3, MemoryInit, KeysInit, MemoryStep, SearchStep, CaptureStep, HeldStep, PTL
    DEF Spec

-----------------------------------------------------------------------------

\* Every variable holds a value of its kind: the gain never amplifies, and a
\* capture's dump is never larger than the largest picture the VI can show.
THEOREM PumpTypes == Spec => []TypeOK
  <1> DEFINE Inv == /\ DeviceInv /\ WindowInv /\ SuspectsInv /\ MemoryInv /\ SearchInv
                    /\ CaptureInv /\ HeldInv
  <1>1. Inv => TypeOK
    <2> SUFFICES ASSUME Inv PROVE TypeOK
      OBVIOUS
    <2>1. Last = 3
      <3>1. \A n \in 0 .. 3 : (\A m \in 0 .. 3 : m <= n) <=> n = 3
        OBVIOUS
      <3>2. DOMAIN SelftestAt = 0 .. 3
        BY SearchAssumption
      <3>3. 3 \in 0 .. 3
        OBVIOUS
      <3>4. QED
        BY <3>1, <3>2, <3>3 DEF Last
    <2>2. step \in 0 .. Last + 1
      BY <2>1 DEF SearchInv
    <2>3. \A i \in 1 .. taken : folders[i].fb.bytes \in Sizes
      <3> TAKE i \in 1 .. taken
      <3>1. folders[i] \in Captures
        BY DEF CaptureInv
      <3>2. QED
        BY <3>1 DEF Captures
    <2>4. \A n \in Sizes : n <= MaxBytes
      BY DEF Sizes
    <2>5. \A i \in 1 .. taken : folders[i].fb.bytes <= 4095 * 480 * 4
      BY <2>3, <2>4, SMT DEF MaxBytes
    <2>6. mode \in Modes /\ shown \subseteq Modes /\ elapsed \in 0 .. Window + 1
          /\ state \in {"unknown", "idle", "busy"} /\ since \in 0 .. Settle
      BY DEF WindowInv
    <2>7. Suspects \subseteq Words /\ ram \in [Words -> Values]
      BY DEF SuspectsInv, MemoryInv
    <2>8. Candidates \subseteq Words /\ (\A w \in Candidates : remembered[w] \in Values)
          /\ wasDown \subseteq SearchKeys /\ pressed \subseteq SearchKeys
      BY DEF SearchInv
    <2>9. taken = Len(folders) /\ keys \subseteq Keys /\ spent \subseteq Keys
      BY DEF CaptureInv, HeldInv
    <2>10. device \in Rates \cup {0} /\ frequency \in Rates \cup {0} /\ gain \in 0 .. 100
      BY DEF DeviceInv
    <2>11. QED
      BY <2>2, <2>5, <2>6, <2>7, <2>8, <2>9, <2>10, SMT DEF TypeOK
  <1>2. Inv /\ [Next]_vars => Inv'
    BY DeviceStep, WindowStep, SuspectsStep, MemoryStep, SearchStep, CaptureStep, HeldStep
  <1>3. Init => Inv
    BY DeviceInit, WindowInit, SuspectsInit, MemoryInit, KeysInit
  <1> HIDE DEF Inv
  <1>4. QED
    BY <1>1, <1>2, <1>3, PTL DEF Spec
=============================================================================
