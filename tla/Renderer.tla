------------------------------ MODULE Renderer -------------------------------
(***************************************************************************)
(* The renderer's context in a build without the frontend                   *)
(* (src/src/rt64_context.cpp): an RT64 application called from threads that  *)
(* do not synchronise with each other, and ended by one of them.            *)
(***************************************************************************)
EXTENDS Integers

VARIABLES
  app,      \* the application: "none" before setup, "null" when it failed,
            \* "up", or "over" once end() was called
  ended,    \* set by shutdown()
  ticked,   \* vi_has_ticked
  call      \* per thread, what it does here: "out", "checked" or "inside" the application

rendererVars == <<app, ended, ticked, call>>

\* The thread that takes the game's tasks, the VI's, and the settings menu's,
\* which stands for the calls that leave nothing behind here.
Callers == {"gfx", "vi", "ui"}

RendererInit ==
  /\ app = "none"
  /\ ended = FALSE
  /\ ticked = FALSE
  /\ call = [c \in Callers |-> "out"]

Usable == app \in {"up", "over"} /\ ~ended

-----------------------------------------------------------------------------

\* RT64Context(): an application that cannot be set up is let go.
create_render_context ==
  /\ app = "none"
  /\ app' \in {"up", "null"}
  /\ UNCHANGED <<ended, ticked, call>>

\* Every entry point asks first, and returns when there is nothing to call into.
Ask(c) ==
  /\ app # "none"
  /\ call[c] = "out"
  /\ Usable
  /\ call' = [call EXCEPT ![c] = "checked"]
  /\ UNCHANGED <<app, ended, ticked>>

\* Only the VI's thread publishes that it has run, on its way into the application.
Go(c) ==
  /\ call[c] = "checked"
  /\ call' = [call EXCEPT ![c] = "inside"]
  /\ ticked' = (ticked \/ c = "vi")
  /\ UNCHANGED <<app, ended>>

Return(c) ==
  /\ call[c] = "inside"
  /\ call' = [call EXCEPT ![c] = "out"]
  /\ UNCHANGED <<app, ended, ticked>>

update_screen == Ask("vi") \/ Go("vi") \/ Return("vi")
update_config == Ask("ui") \/ Go("ui") \/ Return("ui")

\* The flag first, then the application, once.
shutdown_mark ==
  /\ ~ended
  /\ ended' = TRUE
  /\ UNCHANGED <<app, ticked, call>>
shutdown_end ==
  /\ ended
  /\ app = "up"
  /\ app' = "over"
  /\ UNCHANGED <<ended, ticked, call>>

\* "the same defect as calling into it afterwards": no thread is in the
\* application once it is ended.
NoCallPastEnd == app = "over" => \A c \in Callers : call[c] # "inside"
=============================================================================
