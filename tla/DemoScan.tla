------------------------------ MODULE DemoScan -------------------------------
(***************************************************************************)
(* The search for the game's attract-mode flag (src/src/demo_scan.cpp).     *)
(* Over windows of half a second the rate of display lists says whether the *)
(* title screen or a demo is on; once a state has held for three seconds    *)
(* memory is sampled under its label, and words that do not hold one value  *)
(* per label are dropped.                                                  *)
(*                                                                         *)
(* Time is in slices.  What the game really shows (mode) decides how many   *)
(* lists a slice brings and what the words that follow it hold.            *)
(***************************************************************************)
EXTENDS GameMemory, FiniteSets

CONSTANTS Window,   \* slices of a window: 500 ms
          Settle,   \* slices a state must hold: kSettle
          PerSlice  \* display lists of a slice: mode -> number

Modes == {"title", "demo", "between"}

ASSUME DemoScanAssumption ==
  /\ Window \in Nat \ {0} /\ Settle \in Nat
  /\ PerSlice \in [Modes -> Nat]

\* What kIdleBelow and kBusyAbove are chosen for: only the title screen submits
\* fewer lists, only what runs the engine more (a demo, and the intro, which no
\* rate tells from one), and what comes between falls in the gap.
ASSUME GapAssumption ==
  /\ \A m \in Modes \ {"title"} : PerSlice[m] * (2 * Window) >= 10
  /\ \A m \in Modes \ {"demo"} : PerSlice[m] * (2 * Window) <= 40

VARIABLES
  mode,       \* what the game shows
  shown,      \* everything it showed since the window began
  elapsed,    \* slices since window_start
  lists,      \* g_display_lists since window_base
  state,      \* the label
  since,      \* slices since state_since, as far as they matter
  sampled,    \* sampled_this_state
  snapshot,   \* g_idle_snapshot, g_have_idle_snapshot
  cand,       \* g_candidates, g_have_candidates
  samples,    \* g_idle_samples, g_busy_samples
  published   \* what the debug menu reads

scanVars == <<mode, shown, elapsed, lists, state, since, sampled, snapshot, cand,
              samples, published>>

\* One slice is 500 ms / Window: a rate below 10 a second, one above 40.
BelowIdle_gap_closed(n, t) == n * 2 * Window < 30 * t
BelowIdle(n, t) == n * 2 * Window < 10 * t
AboveBusy(n, t) == n * 2 * Window > 40 * t

NoSnapshot == [have |-> FALSE, value |-> [w \in {} |-> 0]]
NoCandidates == [have |-> FALSE, idle |-> [w \in {} |-> 0], busy |-> [w \in {} |-> 0]]

\* The words still suspected.
Suspects == DOMAIN cand.idle

ScanInit ==
  /\ mode \in Modes
  /\ shown = {mode}
  /\ elapsed = 0
  /\ lists = 0
  /\ state = "unknown"
  /\ since = 0
  /\ sampled = FALSE
  /\ snapshot = NoSnapshot
  /\ cand = NoCandidates
  /\ samples = [idle |-> 0, busy |-> 0]
  /\ published = [have |-> FALSE, candidates |-> 0, idle |-> 0, busy |-> 0]

-----------------------------------------------------------------------------

\* A slice goes by: send_dl counts the lists the game submits in it.
note_display_list ==
  /\ elapsed' = elapsed + 1
  /\ lists' = lists + PerSlice[mode]
  /\ since' = IF since < Settle THEN since + 1 ELSE since

Observed ==
  IF BelowIdle(lists, elapsed) THEN "idle"
  ELSE IF AboveBusy(lists, elapsed) THEN "busy" ELSE "unknown"

\* Memory as the scan reads it is mem; anything could be the flag at first.
take_idle_snapshot(mem) ==
  /\ snapshot' = [have |-> TRUE, value |-> mem]
  /\ samples' = [samples EXCEPT !.idle = 1]
  /\ UNCHANGED cand

Restricted(f, S) == [w \in S |-> f[w]]

build_candidates_any_state(mem) ==
  /\ cand' = [have |-> TRUE, idle |-> snapshot.value, busy |-> mem]
  /\ samples' = [samples EXCEPT !.busy = 1]
  /\ snapshot' = [snapshot EXCEPT !.value = NoSnapshot.value]

\* Everything that moved is a suspect; the snapshot is let go.
build_candidates(mem) ==
  LET moved == {w \in Words : mem[w] # snapshot.value[w]}
  IN  /\ cand' = [have |-> TRUE, idle |-> Restricted(snapshot.value, moved),
                  busy |-> Restricted(mem, moved)]
      /\ samples' = [samples EXCEPT !.busy = 1]
      /\ snapshot' = [snapshot EXCEPT !.value = NoSnapshot.value]

\* Every sample after that only removes.
filter(mem) ==
  LET holds == {w \in Suspects :
                  mem[w] = IF state = "idle" THEN cand.idle[w] ELSE cand.busy[w]}
  IN  /\ cand' = [cand EXCEPT !.idle = Restricted(@, holds), !.busy = Restricted(@, holds)]
      /\ samples' = IF state = "idle" THEN [samples EXCEPT !.idle = @ + 1]
                                      ELSE [samples EXCEPT !.busy = @ + 1]
      /\ UNCHANGED snapshot

publish ==
  published' = [have |-> cand'.have, candidates |-> Cardinality(DOMAIN cand'.idle),
                idle |-> samples'.idle, busy |-> samples'.busy]

\* Nothing is sampled until the title screen has been seen once.
Sample(mem) ==
  /\ IF ~snapshot.have /\ ~cand.have
       THEN IF state = "idle" THEN take_idle_snapshot(mem)
                              ELSE UNCHANGED <<snapshot, cand, samples>>
     ELSE IF ~cand.have
       THEN IF state = "busy" THEN build_candidates(mem)
                              ELSE UNCHANGED <<snapshot, cand, samples>>
     ELSE filter(mem)
  /\ publish

NextWindow == elapsed' = 0 /\ lists' = 0 /\ shown' = {mode}

\* A window in neither range labels nothing; one with the other label starts
\* that state; one with the same label samples it, once it has held.
demo_scan_poll(mem) ==
  IF elapsed < Window
    THEN UNCHANGED <<shown, elapsed, lists, state, since, sampled, snapshot, cand,
                     samples, published>>
  ELSE /\ NextWindow
       /\ \/ /\ Observed = "unknown"
             /\ UNCHANGED <<state, since, sampled, snapshot, cand, samples, published>>
          \/ /\ Observed \notin {"unknown", state}
             /\ state' = Observed
             /\ since' = 0
             /\ sampled' = FALSE
             /\ UNCHANGED <<snapshot, cand, samples, published>>
          \/ /\ Observed = state
             /\ state # "unknown"
             /\ IF sampled \/ since < Settle
                  THEN UNCHANGED <<sampled, snapshot, cand, samples, published>>
                  ELSE sampled' = TRUE /\ Sample(mem)
             /\ UNCHANGED <<state, since>>
=============================================================================
