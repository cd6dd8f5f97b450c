----------------------------- MODULE FramePacing -----------------------------
(***************************************************************************)
(* The frame cap (src/src/frame_pacing.cpp): RAYMAN2_FRAMECAP turned into  *)
(* whole VI fields, and the deadline before which ultramodern holds back   *)
(* the RDP completion of a frame.                                          *)
(*                                                                         *)
(* Time counts from ultramodern's get_start() in ticks, Field of them to a *)
(* VI field at the session's speed multiplier.  The game has one frame in  *)
(* flight: it submits the next when the completion of this one is back.    *)
(***************************************************************************)
EXTENDS Integers

CONSTANTS Asks,      \* the values RAYMAN2_FRAMECAP may have
          Field,     \* ticks of one VI field
          Margin,    \* pace_margin(): how early the completion lands
          MaxTime    \* bound: ticks of a session

ASSUME PacingAssumption ==
  /\ Asks \subseteq Int
  /\ Field \in Nat \ {0}
  /\ Margin \in Nat
  /\ MaxTime \in Nat

VARIABLES
  asked,     \* RAYMAN2_FRAMECAP of this session, 0 when it is not set
  now,       \* ticks since get_start()
  attract,   \* attract_mode_active
  lastField, \* last_field, -1 before the first paced frame
  held,      \* the completion being held back
  window     \* a stretch of paced frames somebody watches

vars == <<asked, now, attract, lastField, held, window>>

Free == [flying |-> FALSE, paced |-> FALSE, due |-> 0]
Unwatched == [open |-> FALSE, from |-> 0, frames |-> 0]

Init ==
  /\ asked \in Asks
  /\ now = 0
  /\ attract \in BOOLEAN
  /\ lastField = -1
  /\ held = Free
  /\ window = Unwatched

-----------------------------------------------------------------------------

Clamp(n, lo, hi) == IF n < lo THEN lo ELSE IF n > hi THEN hi ELSE n

\* Rounded to the nearest number of whole fields.
fields_per_frame ==
  IF asked <= 0 THEN 0 ELSE Clamp((60 + asked \div 2) \div asked, 1, 60)

\* The VI thread's grid: the field the clock is in.
NowField == now \div Field

\* The field a frame submitted now is due in.
NextTarget_no_resync == IF lastField < 0 THEN NowField ELSE lastField + fields_per_frame
NextTarget_skips ==
  IF lastField >= 0 /\ lastField + fields_per_frame >= NowField
    THEN lastField + fields_per_frame + 1 ELSE NowField
NextTarget ==
  IF lastField >= 0 /\ lastField + fields_per_frame >= NowField
    THEN lastField + fields_per_frame
    ELSE NowField

Installed == fields_per_frame > 0

\* The display list is with the renderer; its completion is due at once, or
\* when pace_deadline says.
Submit ==
  /\ ~held.flying
  /\ IF Installed /\ attract
       THEN /\ lastField' = NextTarget
            /\ held' = [flying |-> TRUE, paced |-> TRUE,
                        due |-> Field * NextTarget - Margin]
       ELSE /\ held' = [flying |-> TRUE, paced |-> FALSE, due |-> now]
            /\ UNCHANGED lastField
  /\ UNCHANGED <<asked, now, attract, window>>

\* ultramodern signals the completion, some time after the deadline.  The
\* observer counts paced frames from any completion on.
Complete ==
  /\ held.flying
  /\ held.due <= now
  /\ held' = Free
  /\ \/ window' = [open |-> TRUE, from |-> now, frames |-> 0]
     \/ /\ window.open
        /\ window' = IF held.paced THEN [window EXCEPT !.frames = @ + 1] ELSE Unwatched
  /\ UNCHANGED <<asked, now, attract, lastField>>

\* The game enters or leaves the state the flag stands for.
Switch ==
  /\ attract' = ~attract
  /\ UNCHANGED <<asked, now, lastField, held, window>>

Tick ==
  /\ now < MaxTime
  /\ now' = now + 1
  /\ UNCHANGED <<asked, attract, lastField, held, window>>

Next == Submit \/ Complete \/ Switch \/ Tick

Spec == Init /\ [][Next]_vars

-----------------------------------------------------------------------------
(* Properties                                                              *)

\* Every variable holds a value of its kind; the schedule is at most one frame
\* ahead of the clock, and nothing is held when no frame is in flight.
TypeOK ==
  /\ asked \in Asks
  /\ now \in 0 .. MaxTime
  /\ attract \in BOOLEAN
  /\ lastField \in -1 .. (now + Margin) \div Field + fields_per_frame
  /\ held \in [flying : BOOLEAN, paced : BOOLEAN, due : Int]
  /\ ~held.flying => held = Free
  /\ window \in [open : BOOLEAN, from : 0 .. MaxTime, frames : Nat]
  /\ window.from <= now

\* The header: a late frame resets the schedule, a debt is never paid back in
\* a burst.  From any completion on, n paced frames take the time of n - 1 at
\* the rate that was asked for, less the field and the margin a completion
\* may be early in its grid; no stall, late completion or pause of the cap
\* in between makes up for lost time.
NeverFasterThanAsked ==
  window.open /\ Installed =>
    asked * (now - window.from + Field + Margin) >= (window.frames - 1) * 60 * Field

\* It only ever limits: no completion is held for longer than the frame's own
\* fields, whatever the schedule was left at.
NeverHeldLong == held.flying => held.due <= now + fields_per_frame * Field
=============================================================================
