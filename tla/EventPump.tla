------------------------------ MODULE EventPump ------------------------------
(***************************************************************************)
(* The thread that pumps events (src/src/main.cpp: update_gfx) and the      *)
(* developer tools it polls once a frame, in the order it polls them, while *)
(* the game writes memory and the player works keys and the volume.         *)
(* A session has some of the tools armed.  The Controller Pak's flush and   *)
(* the widescreen policy, polled by the same thread, are modelled in        *)
(* ControllerPak and Widescreen.                                           *)
(***************************************************************************)
EXTENDS DemoScan, MemorySearch, Capture, AudioOutput, Sequences

CONSTANTS Arms,        \* the sets of tools a session may have armed
          Flag,        \* the word that follows what the game shows
          FlagValue,   \* its value on the title screen and in a demo
          MaxSamples, MaxNarrowings, MaxTaken  \* bounds on what a session does

ASSUME PumpAssumption ==
  /\ Flag \in Words /\ FlagValue \in [{"title", "demo"} -> Values]
  /\ MaxSamples \in Nat /\ MaxNarrowings \in Nat /\ MaxTaken \in Nat

VARIABLES
  armed,    \* the tools of this session
  booted,   \* g_rdram is set: the game has memory
  ram,      \* the words of it
  keys,     \* the keys held down
  spent,    \* the keys that were down when the tools last looked at them
  age,      \* ticks of the selftest's clock
  slider    \* Main Volume

pumpVars == <<armed, booted, ram, keys, spent, age, slider>>
vars == <<scanVars, searchVars, frozen, captureVars, audioVars, pumpVars>>

Keys == SearchKeys \cup {"F9"}
Last == CHOOSE n \in DOMAIN SelftestAt : \A m \in DOMAIN SelftestAt : m <= n

Init ==
  /\ ScanInit /\ SearchInit /\ CaptureInit /\ AudioInit
  /\ armed \in Arms
  /\ memsearch = CASE "search" \in armed -> "keys" [] "selftest" \in armed -> "selftest"
                   [] OTHER -> "off"
  /\ "freeze" \in armed <=> frozen # Nothing
  /\ dir = ("capture" \in armed)
  /\ mode = "between"
  /\ booted = FALSE
  /\ ram = [w \in Words |-> 0]
  /\ keys = {} /\ spent = {}
  /\ age = 0
  /\ slider = 100

-----------------------------------------------------------------------------

\* What the game may have written by the time the polls are over.
Writable == IF "scan" \in armed THEN Words \ {Flag} ELSE Words
Writes(mem) ==
  IF armed \cap {"scan", "search", "selftest"} = {} THEN {mem}
  ELSE {mem} \cup {[mem EXCEPT ![w] = v] : w \in Writable, v \in Values}

\* The keys this poll looks at.
LookedAt == (IF memsearch = "keys" /\ booted THEN SearchKeys ELSE {})
              \cup (IF dir THEN {"F9"} ELSE {})

\* One pass over the tools.  Without memory only the capture does anything; the
\* freeze writes before the search reads.
update_gfx ==
  /\ poll_hotkey(keys, booted)
  /\ IF ~booted
       THEN UNCHANGED <<scanVars, searchVars, frozen, ram>>
       ELSE /\ IF "scan" \in armed THEN demo_scan_poll(ram) /\ UNCHANGED mode
                                   ELSE UNCHANGED scanVars
            /\ memory_freeze_poll(ram)
            /\ \E after \in Writes(Holds(ram)) :
                 /\ memory_search_poll(keys, age, Holds(ram), after)
                 /\ ram' = after
  /\ follow_volume(slider)
  /\ spent' = (spent \ LookedAt) \cup (keys \cap LookedAt)
  /\ UNCHANGED <<armed, booted, keys, age, slider, device, frequency, queued, waiting, asked>>

-----------------------------------------------------------------------------
(* The game, the player and the clock                                      *)

\* The game starts: rdram_base.
Boot ==
  /\ ~booted
  /\ booted' = TRUE
  /\ UNCHANGED <<scanVars, searchVars, frozen, captureVars, audioVars, armed, ram, keys,
                 spent, age, slider>>

\* The game goes to the title screen, to a demo or between them.
Change ==
  /\ booted
  /\ "scan" \in armed
  /\ \E m \in Modes \ {mode} :
       /\ mode' = m
       /\ ram' = IF m = "between" THEN ram ELSE [ram EXCEPT ![Flag] = FlagValue[m]]
       /\ shown' = shown \cup {m}
  /\ UNCHANGED <<elapsed, lists, state, since, sampled, snapshot, cand, samples, published,
                 searchVars, frozen, captureVars, audioVars, armed, booted, keys, spent, age,
                 slider>>

Slice ==
  /\ booted
  /\ "scan" \in armed
  /\ elapsed <= Window
  /\ samples.idle + samples.busy < MaxSamples
  /\ note_display_list
  /\ UNCHANGED <<mode, shown, state, sampled, snapshot, cand, samples, published, searchVars,
                 frozen, captureVars, audioVars, pumpVars>>

Tick ==
  /\ age' = IF "selftest" \in armed /\ age < SelftestAt[Last] THEN age + 1 ELSE age
  /\ nextAuto' = IF dir /\ nextAuto > 0 /\ taken < MaxTaken THEN nextAuto - 1 ELSE nextAuto
  /\ UNCHANGED <<scanVars, searchVars, frozen, dir, taken, folders, f9Down, audioVars,
                 armed, booted, ram, keys, spent, slider>>

\* At most two keys are held at a time.
KeyDown ==
  /\ armed \cap {"search", "capture"} # {}
  /\ narrowings < MaxNarrowings /\ taken < MaxTaken
  /\ Cardinality(keys) < 2
  /\ \E k \in IF "search" \in armed THEN SearchKeys ELSE Keys \ keys : keys' = keys \cup {k}
  /\ UNCHANGED <<scanVars, searchVars, frozen, captureVars, audioVars, armed, booted, ram,
                 spent, age, slider>>

KeyUp ==
  /\ \E k \in keys : keys' = keys \ {k}
  /\ UNCHANGED <<scanVars, searchVars, frozen, captureVars, audioVars, armed, booted, ram,
                 spent, age, slider>>

Listening == "audio" \in armed

MoveSlider ==
  /\ Listening
  /\ slider' \in Volumes
  /\ UNCHANGED <<scanVars, searchVars, frozen, captureVars, audioVars, armed, booted, ram,
                 keys, spent, age>>

\* The game's audio: from the threads it runs on.
Audio ==
  /\ Listening
  /\ \/ set_frequency \/ queue_samples \/ Play
  /\ UNCHANGED <<scanVars, searchVars, frozen, captureVars, pumpVars>>

Next == update_gfx \/ Boot \/ Change \/ Slice \/ Tick \/ KeyDown \/ KeyUp \/ MoveSlider \/ Audio

Spec == Init /\ [][Next]_vars

-----------------------------------------------------------------------------
(* Properties                                                              *)

\* Every variable holds a value of its kind: the gain never amplifies, a
\* capture's dump is the size of a picture the VI can show.
TypeOK ==
  /\ mode \in Modes /\ shown \subseteq Modes
  /\ elapsed \in 0 .. Window + 1
  /\ state \in {"unknown", "idle", "busy"} /\ since \in 0 .. Settle
  /\ Suspects \subseteq Words
  /\ Candidates \subseteq Words /\ \A w \in Candidates : remembered[w] \in Values
  /\ pressed \subseteq SearchKeys
  /\ wasDown \subseteq SearchKeys /\ step \in 0 .. Last + 1
  /\ taken = Len(folders)
  /\ \A i \in 1 .. taken : folders[i].fb.bytes <= 4095 * 480 * 4
  /\ device \in Rates \cup {0} /\ frequency \in Rates \cup {0}
  /\ gain \in 0 .. 100
  /\ ram \in [Words -> Values] /\ keys \subseteq Keys /\ spent \subseteq Keys

\* A sample is never labelled with a state the game was not in at any time of
\* the window that labelled it: the gap between the two rates is wide enough.
LabelSeen ==
  [][samples' # samples =>
       IF state = "idle" THEN "title" \in shown ELSE "demo" \in shown]_vars

\* The intro cannot pass for a demo, and what is left tells the two states
\* apart: demos are sampled only against a title screen seen before, and every
\* suspect had another value there.
SuspectsSeparate ==
  /\ samples.busy > 0 => cand.have
  /\ cand.have => samples.idle > 0
  /\ \A w \in Suspects : cand.idle[w] # cand.busy[w]

\* No change slips between two presses, though the game writes during the scan:
\* what a kept word is remembered as is what it was judged by, and a word is
\* dropped only for a value it held.
Judged(key, was, is) ==
  CASE key = "F6" -> is < was [] key = "F7" -> is = was [] key = "F8" -> is > was
NarrowIsFair ==
  [][\A key \in {"F6", "F7", "F8"} : narrowings' = narrowings + 1 /\ pressed' = {key} =>
       /\ DOMAIN remembered' \subseteq Candidates
       /\ \A w \in DOMAIN remembered' :
            /\ Judged(key, remembered[w], remembered'[w])
            /\ remembered'[w] \in {Holds(ram)[w], ram'[w]}
       /\ \A w \in Candidates \ DOMAIN remembered' :
            \E v \in {Holds(ram)[w], ram'[w]} : ~Judged(key, remembered[w], v)]_vars

\* A key held down acts, once, at the first poll that finds it down and at no
\* later one, whatever goes down with it or after it: F9 has one folder written,
\* F5 starts the count of narrowings afresh, each of F6, F7 and F8 adds one to
\* it once a search is on and brings no candidate back, and where no key is new
\* nothing happens.
Fresh == spent' \ spent
ByKey == {i \in taken + 1 .. taken' : folders'[i].by = "F9"}
SearchState == <<started, remembered, narrowings, pressed>>
EachKeyActs(new) ==
  /\ started' = (started \/ "F5" \in new)
  /\ narrowings' = (IF "F5" \in new THEN 0 ELSE narrowings)
                     + (IF started' THEN Cardinality(new \ {"F5"}) ELSE 0)
  /\ "F5" \in new \/ DOMAIN remembered' \subseteq Candidates
  /\ pressed' = new
HeldKeyActsOnce ==
  [][/\ ByKey = IF "F9" \in Fresh THEN {taken'} ELSE {}
     /\ memsearch = "keys" =>
          IF Fresh \cap SearchKeys = {} THEN UNCHANGED SearchState
                                      ELSE EachKeyActs(Fresh \cap SearchKeys)]_vars

\* The frames the game is told are waiting are the frames it queued and nobody
\* heard, though it counts samples one way and frames the other.
FramesKept == get_frames_remaining = waiting

\* Sound is never played at a rate other than the one last asked for, though an
\* open that fails leaves the rate before it recorded: there is none instead.
DeviceAsAsked == device # 0 => device = asked
=============================================================================
