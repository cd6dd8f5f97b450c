------------------------------ MODULE Widescreen ------------------------------
(***************************************************************************)
(* The widening of the camera for culling and its undoing for the renderer *)
(* (src/src/draw_distance.cpp, send_dl in src/src/render_context.cpp),     *)
(* with RAYMAN2_FOV set: hooks in the game's camera setup and in           *)
(* guPerspective on the game thread, the narrowing on the task thread.     *)
(* The frame handshake has one frame at a time: the game does not build    *)
(* while the task thread has a display list.                               *)
(*                                                                         *)
(* An angle is the base the game asked for and how often it was widened.   *)
(* A projection matrix stands for the angle its scale terms come from.     *)
(* Of the variables, asked, built and refused are history: no code reads   *)
(* them, and they tell what the properties compare the code's state with.  *)
(***************************************************************************)
EXTENDS Naturals, FiniteSets

CONSTANTS Cameras,   \* the game's camera objects
          Matrices,  \* the addresses it builds projection matrices at
          Bases,     \* the angles it asks for, above 0.05 and below 3 radians
          Odd,       \* angles the hook passes over, or never sees
          Wide,      \* how often an angle can be widened before it reaches 3
          Slots,     \* the entries g_pending may have, sixteen
          Narrowing, \* RAYMAN2_NARROW is not 0
          NoAngle    \* a matrix or a camera nobody has set, no undoing

Angles == [base : Bases \cup Odd, widened : 0 .. Wide]

ASSUME WidescreenAssumption ==
  /\ Bases \cap Odd = {}
  /\ Wide \in Nat \ {0}
  /\ Slots \in Nat
  /\ Narrowing \in BOOLEAN
  /\ NoAngle \notin Angles
  /\ NoAngle \notin [from : Angles, to : Angles]

VARIABLES
  fov,          \* the word at +0x68 of each camera
  last_written, \* of rayman2_widen_camera_fov: one for all cameras
  g_fov_undo,   \* the factor that takes the scale of one angle to another's
  g_pending,    \* the factor owed to each matrix recorded since the last list
  matrix,       \* what is in memory at each address
  asked,        \* what an unmodified guPerspective would have put there
  building,     \* the game is building a frame, or its list is being drawn
  built,        \* the matrices this frame has built since an angle was widened
  refused       \* those that were not among the first Slots of their frame

vars == <<fov, last_written, g_fov_undo, g_pending, matrix, asked, building,
          built, refused>>

Init ==
  /\ fov = [c \in Cameras |-> NoAngle]
  /\ last_written = NoAngle
  /\ g_fov_undo = NoAngle
  /\ g_pending = [m \in {} |-> NoAngle]
  /\ matrix = [m \in Matrices |-> NoAngle]
  /\ asked = [m \in Matrices |-> NoAngle]
  /\ building = TRUE
  /\ built = {}
  /\ refused = {}

-----------------------------------------------------------------------------

\* What the game left in the camera: an angle it has just stored, or the word
\* that was there.
Stored(c) ==
  [base : Bases \cup Odd, widened : {0}] \cup ({fov[c]} \ {NoAngle})

\* The hook before the camera's angle is read.
IsOurs_never(raw) == FALSE
IsOurs(raw) == raw = last_written
InRange(raw) == raw.base \in Bases /\ raw.widened < Wide
widen_camera_fov(c, raw) ==
  IF ~InRange(raw) \/ IsOurs(raw)
    THEN /\ fov' = [fov EXCEPT ![c] = raw]
         /\ UNCHANGED <<last_written, g_fov_undo>>
    ELSE LET out == [raw EXCEPT !.widened = @ + 1]
         IN  /\ fov' = [fov EXCEPT ![c] = out]
             /\ last_written' = out
             /\ g_fov_undo' = [from |-> raw, to |-> out]

\* The hook at guPerspective's return, k being the factor to undo.
With(m, k) == [x \in DOMAIN g_pending \cup {m} |-> IF x = m THEN k ELSE g_pending[x]]
Full == Cardinality(DOMAIN g_pending) >= Slots
Recorded_unguarded(m, k) ==
  IF m \notin DOMAIN g_pending /\ Full THEN g_pending ELSE With(m, k)
Recorded(m, k) ==
  IF k = NoAngle \/ (m \notin DOMAIN g_pending /\ Full) THEN g_pending ELSE With(m, k)

\* What the frame has built, when k is not the factor of nothing.
MarkBuilt(m, k) ==
  IF k = NoAngle
    THEN UNCHANGED <<built, refused>>
    ELSE /\ built' = built \cup {m}
         /\ refused' = IF m \in built THEN refused
                       ELSE IF Cardinality(built) < Slots THEN refused \ {m}
                       ELSE refused \cup {m}

\* The game's camera setup: it may store an angle, reads it back and hands it
\* to guPerspective, which builds the matrix at m.
SetUpCamera_narrows_at_once(c, m) ==
  /\ building
  /\ \E raw \in Stored(c) : widen_camera_fov(c, raw)
  /\ matrix' = [matrix EXCEPT ![m] = [fov'[c] EXCEPT !.widened = 0]]
  /\ asked' = [asked EXCEPT ![m] = [fov'[c] EXCEPT !.widened = 0]]
  /\ MarkBuilt(m, g_fov_undo')
  /\ UNCHANGED <<g_pending, building>>
SetUpCamera(c, m) ==
  /\ building
  /\ \E raw \in Stored(c) : widen_camera_fov(c, raw)
  /\ matrix' = [matrix EXCEPT ![m] = fov'[c]]
  /\ asked' = [asked EXCEPT ![m] = [fov'[c] EXCEPT !.widened = 0]]
  /\ g_pending' = Recorded(m, g_fov_undo')
  /\ MarkBuilt(m, g_fov_undo')
  /\ UNCHANGED building

\* guPerspective's other call site, with an angle no camera hook has seen.
Perspective(m) ==
  /\ building
  /\ \E b \in Odd :
       /\ matrix' = [matrix EXCEPT ![m] = [base |-> b, widened |-> 0]]
       /\ asked' = [asked EXCEPT ![m] = [base |-> b, widened |-> 0]]
  /\ g_pending' = Recorded(m, g_fov_undo)
  /\ MarkBuilt(m, g_fov_undo)
  /\ UNCHANGED <<fov, last_written, g_fov_undo, building>>

\* Multiplied by the factor from one angle to another, a matrix of the second
\* is one of the first; of any other angle it is one of none.
Narrowed(a, k) == IF a = k.to THEN k.from ELSE NoAngle

\* The task thread has the frame's display list: what is owed is narrowed, and
\* RT64 reads the matrices.
narrow_pending_projections_keeps ==
  /\ matrix' = [m \in Matrices |->
       IF m \in DOMAIN g_pending THEN Narrowed(matrix[m], g_pending[m]) ELSE matrix[m]]
  /\ UNCHANGED g_pending
narrow_pending_projections ==
  /\ matrix' = [m \in Matrices |->
       IF Narrowing /\ m \in DOMAIN g_pending
         THEN Narrowed(matrix[m], g_pending[m]) ELSE matrix[m]]
  /\ g_pending' = [m \in {} |-> NoAngle]

send_dl ==
  /\ building
  /\ narrow_pending_projections
  /\ building' = FALSE
  /\ UNCHANGED <<fov, last_written, g_fov_undo, asked, built, refused>>

\* The completion gives the framebuffer back, and the game builds again.
NextFrame ==
  /\ ~building
  /\ building' = TRUE
  /\ built' = {}
  /\ UNCHANGED <<fov, last_written, g_fov_undo, g_pending, matrix, asked, refused>>

Next ==
  \/ \E c \in Cameras, m \in Matrices : SetUpCamera(c, m)
  \/ \E m \in Matrices : Perspective(m)
  \/ send_dl
  \/ NextFrame

Spec == Init /\ [][Next]_vars

-----------------------------------------------------------------------------
(* Properties                                                              *)

\* Every variable holds a value of its kind.
TypeOK ==
  /\ fov \in [Cameras -> Angles \cup {NoAngle}]
  /\ last_written \in Angles \cup {NoAngle}
  /\ g_fov_undo \in [from : Angles, to : Angles] \cup {NoAngle}
  /\ DOMAIN g_pending \subseteq Matrices
  /\ \A m \in DOMAIN g_pending : g_pending[m] \in [from : Angles, to : Angles]
  /\ matrix \in [Matrices -> Angles \cup {NoAngle}]
  /\ asked \in [Matrices -> Angles \cup {NoAngle}]
  /\ building \in BOOLEAN
  /\ built \subseteq Matrices
  /\ refused \subseteq Matrices

\* The hook writes to something the game reads back.  However long the game
\* goes without storing an angle of its own, what is in the camera is
\* base * k and never (base * k) * k.
NeverCompounds == \A c \in Cameras : fov[c] # NoAngle => fov[c].widened <= 1

\* At the handover the matrix of every angle the hook widens is what an
\* unmodified guPerspective would have built: those of this frame, those built
\* twice in it, and those of earlier frames that the list still uses.  Only
\* one built when its frame had built Slots others may reach RT64 wide.
DrawnAsAsked ==
  ~building /\ Narrowing =>
    \A m \in Matrices \ refused :
      asked[m] # NoAngle /\ asked[m].base \in Bases => matrix[m] = asked[m]

\* The game culls while it builds its frame: of every angle the hook widens,
\* each matrix the frame has built stays widened, once, until the handover.
CullsWide ==
  building =>
    \A m \in built :
      asked[m].base \in Bases => matrix[m] = [asked[m] EXCEPT !.widened = 1]
=============================================================================
