------------------------------ MODULE GameLoop -------------------------------
(***************************************************************************)
(* A session from main to its end (src/src/main.cpp): the stored ROM, the    *)
(* thread or the event pump that starts the game, the renderer, the game's  *)
(* frame loop, and the end of both.                                        *)
(***************************************************************************)
EXTENDS Renderer, FrameHandshake

CONSTANTS MaxWaits   \* turns of the starter's wait: 1000, of ten milliseconds

ASSUME GameLoopAssumption == MaxWaits \in Nat

VARIABLES
  build,    \* "plain", or "frontend" with RAYMAN2_AUTOSTART set
  main,     \* where main is
  rom,      \* the dump: "none", "stored" (valid, in the config directory), "loaded"
  starter,  \* the thread or the poll that starts the game: "waiting", "ready", "done"
  waited,   \* turns it waited
  started   \* how often start_game was called

mainVars == <<build, main, rom, starter, waited, started>>
vars == <<rendererVars, handshakeVars, mainVars>>

Init ==
  /\ RendererInit /\ HandshakeInit
  /\ build \in {"plain", "frontend"}
  /\ main = "roms"
  /\ rom \in {"none", "stored"}
  /\ starter = "waiting"
  /\ waited = 0
  /\ started = 0

-----------------------------------------------------------------------------
(* main                                                                    *)

\* check_all_stored_roms, else the dump named on the command line: a good one
\* is stored.  Without any, only the frontend goes on.
select_and_report == \E good \in BOOLEAN : rom' = IF rom = "none" /\ good THEN "stored" ELSE rom
Configure ==
  /\ main = "roms"
  /\ select_and_report
  /\ main' = IF build = "plain" /\ rom' = "none" THEN "failed" ELSE "up"
  /\ UNCHANGED <<rendererVars, handshakeVars, build, starter, waited, started>>

\* recomp::start throws while it brings the renderer up: main returns at once.
Throw ==
  /\ main = "up" /\ app = "none"
  /\ main' = "failed"
  /\ UNCHANGED <<rendererVars, handshakeVars, build, rom, starter, waited, started>>

Create ==
  /\ main = "up"
  /\ create_render_context
  /\ UNCHANGED <<handshakeVars, mainVars>>

Quit ==
  /\ main = "up" /\ app # "none"
  /\ main' = "quitting"
  /\ UNCHANGED <<rendererVars, handshakeVars, build, rom, starter, waited, started>>

Shutdown ==
  /\ main = "quitting"
  /\ shutdown_mark \/ shutdown_end
  /\ UNCHANGED <<handshakeVars, mainVars>>

-----------------------------------------------------------------------------
(* Starting the game                                                       *)

\* The detached thread of a plain build: a turn of its wait, over when a frame
\* was presented or the turns are used up.
MayStart_at_once == TRUE
MayStart == ticked \/ waited = MaxWaits
Wait ==
  /\ build = "plain" /\ main \in {"up", "quitting"}
  /\ starter = "waiting"
  /\ IF MayStart THEN starter' = "ready" /\ UNCHANGED waited
                 ELSE waited' = waited + 1 /\ UNCHANGED starter
  /\ UNCHANGED <<rendererVars, handshakeVars, build, main, rom, started>>

\* The stored dump is read before the game starts; when it cannot be, nothing is.
load_stored_rom ==
  /\ build = "plain" /\ main \in {"up", "quitting"}
  /\ starter = "ready"
  /\ starter' = "done"
  /\ \/ rom' = "loaded" /\ started' = started + 1
     \/ UNCHANGED <<rom, started>>
  /\ UNCHANGED <<rendererVars, handshakeVars, build, main, waited>>

\* The event pump of the other build, once: whatever it finds, it has fired.
maybe_autostart ==
  /\ build = "frontend" /\ main = "up"
  /\ starter = "waiting" /\ ticked
  /\ starter' = "done"
  /\ started' = IF rom = "none" THEN started ELSE started + 1
  /\ UNCHANGED <<rendererVars, handshakeVars, build, main, rom, waited>>

-----------------------------------------------------------------------------
(* The host's threads                                                      *)

Hosted == main \in {"up", "quitting"}

Screen == Hosted /\ update_screen /\ UNCHANGED <<handshakeVars, mainVars>>
Settings == Hosted /\ update_config /\ UNCHANGED <<handshakeVars, mainVars>>

\* A submitted list goes through the renderer when there is one to take it; its
\* completion is posted either way.
send_dl ==
  /\ Hosted
  /\ rdp = "list"
  /\ \/ (Ask("gfx") \/ Go("gfx")) /\ UNCHANGED handshakeVars
     \/ Return("gfx") /\ Finish
     \/ app # "none" /\ call["gfx"] = "out" /\ ~Usable /\ Finish /\ UNCHANGED rendererVars
  /\ UNCHANGED mainVars

Playing == main = "up" /\ started > 0

GameThreads == Playing /\ Threads /\ UNCHANGED <<rendererVars, mainVars>>
Vertical == Playing /\ Retrace /\ UNCHANGED <<rendererVars, mainVars>>
RdpDone == Playing /\ Complete /\ UNCHANGED <<rendererVars, mainVars>>

Next ==
  \/ Configure \/ Throw \/ Create \/ Quit \/ Shutdown
  \/ Wait \/ load_stored_rom \/ maybe_autostart
  \/ Screen \/ Settings \/ send_dl
  \/ GameThreads \/ Vertical \/ RdpDone

\* The CPU's threads run, the VI ticks, and what the renderer was given comes
\* back.  Nobody has to quit, and the settings menu may stay open.  A retrace
\* comes every sixteen milliseconds: the worker is not fed without end before it
\* has emptied its queue and blocked.
Fairness ==
  /\ []<>(running # "worker" \/ ~Playing)
  /\ WF_vars(GameThreads) /\ WF_vars(Vertical) /\ WF_vars(RdpDone)
  /\ WF_vars(send_dl) /\ WF_vars(Create)

Spec == Init /\ [][Next]_vars
FairSpec == Spec /\ Fairness

-----------------------------------------------------------------------------
(* Properties                                                              *)

\* Every variable holds a value of its kind; the worker's queue never holds
\* more than it has room for, nor the host more than it may have posted.
TypeOK ==
  /\ app \in {"none", "null", "up", "over"} /\ ended \in BOOLEAN /\ ticked \in BOOLEAN
  /\ call \in [Callers -> {"out", "checked", "inside"}]
  /\ running \in {"game", "worker", "idle"} /\ game \in {"spin", "take", "post"}
  /\ busy \in BOOLEAN /\ blocked \subseteq {"game", "worker"}
  /\ queue \in Seq({"VI", "DP", "task"}) /\ Len(queue) <= QueueSize
  /\ external \in Seq({"VI", "DP"}) /\ Len(external) <= MaxExternal + 1
  /\ slots \in 0 .. 1 /\ rdp \in {"idle", "list", "done"}
  /\ main \in {"roms", "failed", "up", "quitting"} /\ rom \in {"none", "stored", "loaded"}
  /\ starter \in {"waiting", "ready", "done"} /\ waited \in 0 .. MaxWaits
  /\ started \in 0 .. 1

\* The game never starts ahead of the renderer's first frame unless the whole
\* wait went by without one, nor without a dump.
StartIsReady ==
  started > 0 => /\ ticked \/ waited = MaxWaits
                 /\ rom = IF build = "plain" THEN "loaded" ELSE "stored"

\* The one framebuffer slot is somewhere, and in one place only: free, with the
\* game thread, in a task, with the RDP or in its completion.
Held(q, kinds) == Cardinality({i \in DOMAIN q : q[i] \in kinds})
OneSlot ==
  slots + (IF game = "post" THEN 1 ELSE 0) + Held(queue, {"task", "DP"})
    + Held(external, {"DP"}) + (IF rdp # "idle" THEN 1 ELSE 0) = 1

\* The spin at the end of graphics initialisation ends.
SpinEnds == (Playing /\ game = "spin") ~> (game # "spin" \/ ~Playing)

\* The frame loop never stops: as long as the game is played, another display
\* list is submitted.
FramesContinue == Playing ~> (rdp = "list" \/ ~Playing)
=============================================================================
