--------------------------- MODULE WidescreenProofs ---------------------------
(***************************************************************************)
(* With one camera, the camera's angle is widened once however long it is  *)
(* left alone; the game culls wide until the handover; and every matrix of *)
(* a widened angle is what the game asked for when RT64 reads it, but for  *)
(* those a full list refused.  With several, each matrix is taken back by  *)
(* its camera's last widening, and by no more.                             *)
(***************************************************************************)
EXTENDS Widescreen, FiniteSetTheorems, TLAPS

USE WidescreenAssumption

Undos == [from : Angles, to : Angles]
Plain(a) == [base |-> a.base, widened |-> 0]

-----------------------------------------------------------------------------
(* Types                                                                   *)

\* A word the hook reads is an angle, and so is what it leaves; widened, it is
\* one the hook found in range.
LEMMA HookType ==
  ASSUME TypeOK, NEW c \in Cameras, NEW raw \in Stored(c), widen_camera_fov(c, raw)
  PROVE  /\ raw \in Angles
         /\ fov' = [fov EXCEPT ![c] = fov'[c]] /\ fov'[c] \in Angles
         /\ \/ /\ ~InRange(raw) \/ IsOurs(raw)
               /\ fov'[c] = raw
               /\ UNCHANGED <<last_written, g_fov_undo>>
            \/ /\ InRange(raw) /\ ~IsOurs(raw)
               /\ fov'[c] = [base |-> raw.base, widened |-> raw.widened + 1]
               /\ last_written' = fov'[c]
               /\ g_fov_undo' = [from |-> raw, to |-> fov'[c]]
         /\ Plain(fov'[c]) = [fov'[c] EXCEPT !.widened = 0] /\ Plain(fov'[c]) \in Angles
         /\ last_written' \in Angles \cup {NoAngle}
         /\ g_fov_undo' \in Undos \cup {NoAngle}
<1>1. raw \in Angles
  BY DEF TypeOK, Stored, Angles
<1>plain. ASSUME NEW a \in Angles
          PROVE  Plain(a) = [a EXCEPT !.widened = 0] /\ Plain(a) \in Angles
  BY DEF Plain, Angles
<1>2. CASE ~InRange(raw) \/ IsOurs(raw)
  BY <1>1, <1>2, <1>plain DEF widen_camera_fov, TypeOK, Undos
<1>3. CASE InRange(raw) /\ ~IsOurs(raw)
  <2> DEFINE out == [raw EXCEPT !.widened = @ + 1]
  <2>1. out = [base |-> raw.base, widened |-> raw.widened + 1]
    BY <1>1 DEF Angles
  <2>2. out \in Angles
    BY <1>1, <1>3, <2>1 DEF Angles, InRange
  <2>3. /\ fov' = [fov EXCEPT ![c] = out] /\ fov'[c] = out
        /\ last_written' = out /\ g_fov_undo' = [from |-> raw, to |-> out]
    BY <1>3 DEF widen_camera_fov, TypeOK
  <2>4. [from |-> raw, to |-> out] \in Undos
    BY <1>1, <2>2 DEF Undos
  <2> QED
    BY <1>1, <1>3, <1>plain, <2>1, <2>2, <2>3, <2>4
<1> QED
  BY <1>2, <1>3

\* Recording keeps a factor for every recorded matrix.
LEMMA RecordedType ==
  ASSUME TypeOK, NEW m \in Matrices, NEW k \in Undos \cup {NoAngle}
  PROVE  /\ DOMAIN Recorded(m, k) \subseteq Matrices
         /\ \A x \in DOMAIN Recorded(m, k) : Recorded(m, k)[x] \in Undos
         /\ \A x \in DOMAIN Recorded(m, k) \ {m} :
              x \in DOMAIN g_pending /\ Recorded(m, k)[x] = g_pending[x]
         /\ DOMAIN g_pending \subseteq DOMAIN Recorded(m, k)
         /\ Recorded(m, k) # g_pending => m \in DOMAIN Recorded(m, k) /\ Recorded(m, k)[m] = k
<1>1. CASE Recorded(m, k) = g_pending
  BY <1>1 DEF TypeOK, Undos
<1>2. CASE Recorded(m, k) = With(m, k) /\ k # NoAngle
  BY <1>2 DEF TypeOK, With, Undos
<1> QED
  BY <1>1, <1>2 DEF Recorded

\* Marking m as built keeps both marks sets of matrices.
LEMMA MarkType ==
  ASSUME TypeOK, NEW m \in Matrices, NEW k, MarkBuilt(m, k)
  PROVE  built' \subseteq Matrices /\ refused' \subseteq Matrices
BY DEF MarkBuilt, TypeOK

LEMMA TypeInit == Init => TypeOK
  BY DEF Init, TypeOK

LEMMA TypeNext == TypeOK /\ [Next]_vars => TypeOK'
<1> SUFFICES ASSUME TypeOK, [Next]_vars PROVE TypeOK'
  OBVIOUS
<1>1. ASSUME NEW c \in Cameras, NEW m \in Matrices, SetUpCamera(c, m)
      PROVE  TypeOK'
  <2>1. PICK raw \in Stored(c) : widen_camera_fov(c, raw)
    BY <1>1 DEF SetUpCamera
  <2>2. /\ fov' \in [Cameras -> Angles \cup {NoAngle}]
        /\ last_written' \in Angles \cup {NoAngle}
        /\ g_fov_undo' \in Undos \cup {NoAngle}
    BY <2>1, HookType DEF TypeOK, Undos
  <2>3. fov'[c] \in Angles /\ [fov'[c] EXCEPT !.widened = 0] \in Angles
    BY <2>1, HookType
  <2>4. matrix' \in [Matrices -> Angles \cup {NoAngle}] /\ asked' \in [Matrices -> Angles \cup {NoAngle}]
    BY <1>1, <2>3 DEF SetUpCamera, TypeOK
  <2>5. g_pending' = Recorded(m, g_fov_undo') /\ building' \in BOOLEAN
    BY <1>1 DEF SetUpCamera, TypeOK
  <2>6. DOMAIN g_pending' \subseteq Matrices /\ \A x \in DOMAIN g_pending' : g_pending'[x] \in Undos
    BY <2>2, <2>5, RecordedType
  <2>7. built' \subseteq Matrices /\ refused' \subseteq Matrices
    BY <1>1, MarkType DEF SetUpCamera
  <2> QED
    BY <2>2, <2>4, <2>5, <2>6, <2>7 DEF TypeOK, Undos
<1>2. ASSUME NEW m \in Matrices, Perspective(m)
      PROVE  TypeOK'
  <2>1. /\ g_pending' = Recorded(m, g_fov_undo)
        /\ UNCHANGED <<fov, last_written, g_fov_undo, building>>
        /\ g_fov_undo \in Undos \cup {NoAngle}
    BY <1>2 DEF Perspective, TypeOK, Undos
  <2>2. DOMAIN g_pending' \subseteq Matrices /\ \A x \in DOMAIN g_pending' : g_pending'[x] \in Undos
    BY <2>1, RecordedType
  <2>3. matrix' \in [Matrices -> Angles \cup {NoAngle}] /\ asked' \in [Matrices -> Angles \cup {NoAngle}]
    BY <1>2 DEF Perspective, TypeOK, Angles
  <2>4. built' \subseteq Matrices /\ refused' \subseteq Matrices
    BY <1>2, MarkType DEF Perspective
  <2> QED
    BY <2>1, <2>2, <2>3, <2>4 DEF TypeOK, Undos
<1>3. CASE send_dl
  <2>1. /\ g_pending' = [m \in {} |-> NoAngle]
        /\ UNCHANGED <<fov, last_written, g_fov_undo, asked, built, refused>>
        /\ building' = FALSE
    BY <1>3 DEF send_dl, narrow_pending_projections
  <2>2. matrix' \in [Matrices -> Angles \cup {NoAngle}]
    BY <1>3 DEF send_dl, narrow_pending_projections, Narrowed, TypeOK
  <2> QED
    BY <2>1, <2>2 DEF TypeOK
<1>4. CASE NextFrame
  BY <1>4 DEF NextFrame, TypeOK
<1>5. CASE UNCHANGED vars
  BY <1>5 DEF vars, TypeOK
<1> QED
  BY <1>1, <1>2, <1>3, <1>4, <1>5 DEF Next

\* Every variable keeps its type, with any number of cameras.
THEOREM TypeCorrect == Spec => []TypeOK
  BY TypeInit, TypeNext, PTL DEF Spec

-----------------------------------------------------------------------------
(* One camera                                                              *)

\* What is in the camera was widened once, by the last write, which the factor
\* undoes; or it is an angle the hook passes over.
InCamera(c) ==
  /\ last_written # NoAngle => last_written.widened > 0
  /\ fov[c] # NoAngle =>
       \/ fov[c].base \in Odd /\ fov[c].widened = 0
       \/ /\ fov[c].base \in Bases /\ fov[c].widened = 1
          /\ last_written = fov[c]
          /\ g_fov_undo = [from |-> Plain(fov[c]), to |-> fov[c]]

\* Only what the frame has built is recorded, and all of it that is not refused.
InTheList ==
  /\ ~building => DOMAIN g_pending = {}
  /\ DOMAIN g_pending \subseteq built
  /\ building => built \ refused \subseteq DOMAIN g_pending
  /\ \A m \in built : asked[m] # NoAngle

\* A matrix of an angle the hook widens is owed what takes it back to what was
\* asked for, or is that already, unless it was refused.
Owed ==
  /\ \A m \in Matrices :
       asked[m] # NoAngle /\ asked[m].base \in Bases =>
         IF m \in DOMAIN g_pending
           THEN g_pending[m] = [from |-> asked[m], to |-> matrix[m]]
           ELSE Narrowing /\ m \notin refused => matrix[m] = asked[m]

LEMMA InCameraInit ==
  ASSUME NEW c \in Cameras
  PROVE  Init => InCamera(c)
BY DEF Init, InCamera

\* The hook leaves the camera as InCamera says, whatever the game stored.
LEMMA InCameraHook ==
  ASSUME TypeOK, NEW c \in Cameras, InCamera(c),
         NEW raw \in Stored(c), widen_camera_fov(c, raw)
  PROVE  InCamera(c)'
<1>1. raw \in Angles /\ fov'[c] \in Angles
  BY HookType
<1>2. CASE fov'[c] = raw /\ UNCHANGED <<last_written, g_fov_undo>> /\ (~InRange(raw) \/ IsOurs(raw))
  <2>1. CASE raw = fov[c]
    BY <1>1, <1>2, <2>1 DEF InCamera, Plain
  <2>2. CASE raw \in [base : Bases \cup Odd, widened : {0}]
    <3>1. raw.base \in Odd /\ raw.widened = 0
      BY <1>2, <2>2 DEF InRange, IsOurs, InCamera, Angles
    <3> QED
      BY <1>1, <1>2, <3>1 DEF InCamera
  <2> QED
    BY <2>1, <2>2 DEF Stored
<1>3. CASE /\ InRange(raw) /\ ~IsOurs(raw)
           /\ fov'[c] = [base |-> raw.base, widened |-> raw.widened + 1]
           /\ last_written' = fov'[c]
           /\ g_fov_undo' = [from |-> raw, to |-> fov'[c]]
  <2>1. raw.base \in Bases /\ raw.widened = 0
    BY <1>1, <1>3 DEF Stored, InRange, IsOurs, InCamera
  <2>2. raw = Plain(fov'[c])
    BY <1>1, <1>3, <2>1 DEF Plain, Angles
  <2> QED
    BY <1>1, <1>3, <2>1, <2>2 DEF InCamera, Plain
<1> QED
  BY <1>2, <1>3, HookType

LEMMA InCameraNext ==
  ASSUME NEW c \in Cameras, Cameras = {c}
  PROVE  TypeOK /\ InCamera(c) /\ [Next]_vars => InCamera(c)'
<1> SUFFICES ASSUME TypeOK, InCamera(c), [Next]_vars PROVE InCamera(c)'
  OBVIOUS
<1>1. ASSUME NEW m \in Matrices, SetUpCamera(c, m)
      PROVE  InCamera(c)'
  BY <1>1, InCameraHook DEF SetUpCamera
<1>2. CASE UNCHANGED <<fov, last_written, g_fov_undo>>
  BY <1>2 DEF InCamera, Plain
<1> QED
  BY <1>1, <1>2 DEF Next, Perspective, send_dl, NextFrame, vars

\* With one camera the angle is never widened twice: what the hook finds is
\* what it wrote, or what the game has just stored.
THEOREM WidenedOnce ==
  ASSUME NEW c \in Cameras, Cameras = {c}
  PROVE  Spec => []NeverCompounds
<1>1. InCamera(c) => NeverCompounds
  BY DEF InCamera, NeverCompounds
<1>2. Spec => []InCamera(c)
  BY InCameraInit, InCameraNext, TypeCorrect, PTL DEF Spec
<1> QED
  BY <1>1, <1>2, PTL

-----------------------------------------------------------------------------
(* The list                                                                *)

\* A matrix the frame had room for is recorded, whatever it was before.
LEMMA RecordedUnlessRefused ==
  ASSUME TypeOK, InTheList, building, IsFiniteSet(Matrices),
         NEW m \in Matrices, NEW k \in Undos, MarkBuilt(m, k), m \notin refused'
  PROVE  m \in DOMAIN Recorded(m, k) /\ Recorded(m, k)[m] = k
<1>1. k # NoAngle
  BY DEF Undos
<1>2. ASSUME m \notin DOMAIN g_pending
      PROVE  ~Full
  <2>1. m \notin built
    BY <1>1, <1>2 DEF MarkBuilt, InTheList
  <2>2. ~(Cardinality(built) >= Slots)
    <3>1. IsFiniteSet(built)
      BY FS_Subset DEF TypeOK
    <3>2. Cardinality(built) \in Nat
      BY <3>1, FS_CardinalityType
    <3>3. Cardinality(built) < Slots
      BY <1>1, <2>1 DEF MarkBuilt
    <3> QED
      BY <3>2, <3>3
  <2>3. /\ IsFiniteSet(DOMAIN g_pending) /\ Cardinality(DOMAIN g_pending) <= Cardinality(built)
        /\ Cardinality(built) \in Nat /\ Cardinality(DOMAIN g_pending) \in Nat
    <3>1. IsFiniteSet(built) /\ DOMAIN g_pending \subseteq built
      BY FS_Subset DEF TypeOK, InTheList
    <3> QED
      BY <3>1, FS_Subset, FS_CardinalityType
  <2> QED
    BY <2>2, <2>3 DEF Full
<1> QED
  BY <1>1, <1>2 DEF Recorded, With

\* Building m changes the list and the marks of m only.
LEMMA BuildsOne ==
  ASSUME TypeOK, NEW m \in Matrices, NEW k \in Undos \cup {NoAngle}, MarkBuilt(m, k),
         NEW x \in Matrices, x # m
  PROVE  /\ x \in built' <=> x \in built
         /\ x \in refused' <=> x \in refused
         /\ x \in DOMAIN Recorded(m, k) <=> x \in DOMAIN g_pending
         /\ x \in DOMAIN g_pending => Recorded(m, k)[x] = g_pending[x]
<1>1. /\ x \in built' <=> x \in built
      /\ x \in refused' <=> x \in refused
  BY DEF MarkBuilt
<1> QED
  BY <1>1, RecordedType

\* Building a matrix keeps what InTheList says.
LEMMA InTheListBuild ==
  ASSUME TypeOK, InTheList, IsFiniteSet(Matrices), building, building',
         NEW m \in Matrices, NEW k \in Undos \cup {NoAngle}, MarkBuilt(m, k),
         g_pending' = Recorded(m, k),
         NEW a \in Angles, asked' = [asked EXCEPT ![m] = a]
  PROVE  InTheList'
<1>1. asked'[m] # NoAngle /\ \A x \in Matrices : x # m => asked'[x] = asked[x]
  BY DEF TypeOK
<1>2. CASE k = NoAngle
  <2>1. UNCHANGED <<built, refused, g_pending>>
    BY <1>2 DEF MarkBuilt, Recorded
  <2> QED
    BY <1>1, <2>1 DEF InTheList, TypeOK
<1>3. CASE k \in Undos
  <2>1. m \in built' /\ (m \notin refused' => m \in DOMAIN g_pending')
    <3>1. m \in built'
      BY <1>3 DEF MarkBuilt, Undos
    <3> QED
      BY <1>3, <3>1, RecordedUnlessRefused
  <2>2. DOMAIN g_pending' \subseteq Matrices /\ built' \subseteq Matrices /\ refused' \subseteq Matrices
    BY RecordedType, MarkType
  <2>3. \A x \in Matrices \ {m} :
          /\ x \in built' <=> x \in built
          /\ x \in refused' <=> x \in refused
          /\ x \in DOMAIN g_pending' <=> x \in DOMAIN g_pending
    BY BuildsOne
  <2> QED
    BY <1>1, <2>1, <2>2, <2>3 DEF InTheList
<1> QED
  BY <1>2, <1>3

\* Frame after frame, however many matrices and cameras.
LEMMA InTheListNext ==
  ASSUME TypeOK, InTheList, IsFiniteSet(Matrices), [Next]_vars
  PROVE  InTheList'
<1>1. ASSUME NEW c \in Cameras, NEW m \in Matrices, SetUpCamera(c, m)
      PROVE  InTheList'
  <2>1. PICK raw \in Stored(c) : widen_camera_fov(c, raw)
    BY <1>1 DEF SetUpCamera
  <2>2. Plain(fov'[c]) \in Angles /\ g_fov_undo' \in Undos \cup {NoAngle}
    BY <2>1, HookType
  <2>3. /\ building /\ building' /\ MarkBuilt(m, g_fov_undo')
        /\ g_pending' = Recorded(m, g_fov_undo')
        /\ asked' = [asked EXCEPT ![m] = Plain(fov'[c])]
    BY <1>1, <2>1, HookType DEF SetUpCamera
  <2> QED
    BY <2>2, <2>3, InTheListBuild
<1>2. ASSUME NEW m \in Matrices, Perspective(m)
      PROVE  InTheList'
  <2>1. PICK b \in Odd : asked' = [asked EXCEPT ![m] = [base |-> b, widened |-> 0]]
    BY <1>2 DEF Perspective
  <2>2. /\ building /\ building' /\ MarkBuilt(m, g_fov_undo)
        /\ g_pending' = Recorded(m, g_fov_undo)
        /\ g_fov_undo \in Undos \cup {NoAngle}
    BY <1>2 DEF Perspective, TypeOK, Undos
  <2>3. [base |-> b, widened |-> 0] \in Angles
    BY DEF Angles
  <2> QED
    BY <2>1, <2>2, <2>3, InTheListBuild
<1>3. CASE send_dl
  <2>1. DOMAIN g_pending' = {} /\ ~building' /\ UNCHANGED <<asked, built, refused>>
    BY <1>3 DEF send_dl, narrow_pending_projections
  <2> QED
    BY <2>1 DEF InTheList
<1>4. CASE NextFrame
  BY <1>4 DEF NextFrame, InTheList
<1>5. CASE UNCHANGED vars
  BY <1>5 DEF vars, InTheList
<1> QED
  BY <1>1, <1>2, <1>3, <1>4, <1>5 DEF Next

LEMMA AlwaysInTheList ==
  ASSUME IsFiniteSet(Matrices)
  PROVE  Spec => []InTheList
<1>1. Init => InTheList
  BY DEF Init, InTheList
<1>2. TypeOK /\ InTheList /\ [Next]_vars => InTheList'
  BY InTheListNext
<1> QED
  BY <1>1, <1>2, TypeCorrect, PTL DEF Spec

-----------------------------------------------------------------------------
(* The handover                                                            *)

LEMMA OwedNext ==
  ASSUME NEW c \in Cameras, Cameras = {c},
         IsFiniteSet(Matrices)
  PROVE  TypeOK /\ InCamera(c) /\ InCamera(c)' /\ InTheList /\ Owed /\ [Next]_vars => Owed'
<1> SUFFICES ASSUME TypeOK, InCamera(c), InCamera(c)', InTheList, Owed, [Next]_vars PROVE Owed'
  OBVIOUS
<1>1. ASSUME NEW m \in Matrices, SetUpCamera(c, m)
      PROVE  Owed'
  <2>1. PICK raw \in Stored(c) : widen_camera_fov(c, raw)
    BY <1>1 DEF SetUpCamera
  <2>2. fov'[c] \in Angles /\ g_fov_undo' \in Undos \cup {NoAngle}
    BY <2>1, HookType
  <2>3. /\ building /\ building'
        /\ g_pending' = Recorded(m, g_fov_undo') /\ MarkBuilt(m, g_fov_undo')
        /\ matrix' = [matrix EXCEPT ![m] = fov'[c]]
        /\ asked' = [asked EXCEPT ![m] = Plain(fov'[c])]
    BY <1>1, <2>1, HookType DEF SetUpCamera
  <2>4. asked'[m] = Plain(fov'[c]) /\ matrix'[m] = fov'[c] /\ asked'[m] # NoAngle
    BY <2>2, <2>3 DEF TypeOK, Plain, Angles
  <2>5. ASSUME NEW x \in Matrices, x # m
        PROVE  /\ asked'[x] = asked[x] /\ matrix'[x] = matrix[x]
               /\ x \in refused' <=> x \in refused
               /\ x \in DOMAIN g_pending' <=> x \in DOMAIN g_pending
               /\ x \in DOMAIN g_pending => g_pending'[x] = g_pending[x]
    BY <2>2, <2>3, <2>5, BuildsOne DEF TypeOK
  <2>6. ASSUME fov'[c].base \in Bases, m \notin refused'
        PROVE  m \in DOMAIN g_pending' /\ g_pending'[m] = [from |-> Plain(fov'[c]), to |-> fov'[c]]
    <3>1. g_fov_undo' = [from |-> Plain(fov'[c]), to |-> fov'[c]]
      BY <2>2, <2>6 DEF InCamera, Angles
    <3>2. g_fov_undo' \in Undos
      BY <2>2, <3>1 DEF Undos, Plain, Angles
    <3> QED
      BY <2>3, <2>6, <3>1, <3>2, RecordedUnlessRefused
  <2>7. ASSUME m \in DOMAIN g_pending', fov'[c].base \in Bases
        PROVE  g_pending'[m] = [from |-> Plain(fov'[c]), to |-> fov'[c]]
    <3>1. g_fov_undo' = [from |-> Plain(fov'[c]), to |-> fov'[c]]
      BY <2>2, <2>7 DEF InCamera, Angles
    <3>2. g_fov_undo' # NoAngle
      BY <2>2, <3>1 DEF Undos, Plain, Angles
    <3> QED
      BY <2>3, <2>7, <3>1, <3>2 DEF Recorded, With
  <2> QED
    BY <2>3, <2>4, <2>5, <2>6, <2>7 DEF Owed, Plain
<1>2. ASSUME NEW m \in Matrices, Perspective(m)
      PROVE  Owed'
  <2>1. PICK b \in Odd :
          /\ matrix' = [matrix EXCEPT ![m] = [base |-> b, widened |-> 0]]
          /\ asked' = [asked EXCEPT ![m] = [base |-> b, widened |-> 0]]
    BY <1>2 DEF Perspective
  <2>2. /\ MarkBuilt(m, g_fov_undo) /\ g_pending' = Recorded(m, g_fov_undo)
        /\ g_fov_undo \in Undos \cup {NoAngle}
    BY <1>2 DEF Perspective, TypeOK, Undos
  <2>3. asked'[m] # NoAngle /\ asked'[m].base \notin Bases
    BY <2>1 DEF TypeOK, Angles
  <2>4. ASSUME NEW x \in Matrices, x # m
        PROVE  /\ asked'[x] = asked[x] /\ matrix'[x] = matrix[x]
               /\ x \in refused' <=> x \in refused
               /\ x \in DOMAIN g_pending' <=> x \in DOMAIN g_pending
               /\ x \in DOMAIN g_pending => g_pending'[x] = g_pending[x]
    BY <2>1, <2>2, <2>4, BuildsOne DEF TypeOK
  <2> QED
    BY <2>3, <2>4 DEF Owed
<1>3. CASE send_dl
  <2>1. /\ DOMAIN g_pending' = {} /\ asked' = asked /\ refused' = refused
        /\ matrix' = [m \in Matrices |->
             IF Narrowing /\ m \in DOMAIN g_pending
               THEN Narrowed(matrix[m], g_pending[m]) ELSE matrix[m]]
    BY <1>3 DEF send_dl, narrow_pending_projections
  <2>2. ASSUME Narrowing, NEW m \in Matrices \ refused, asked[m] # NoAngle,
               asked[m].base \in Bases
        PROVE  matrix'[m] = asked[m]
    BY <2>1, <2>2 DEF Owed, Narrowed
  <2> QED
    BY <2>1, <2>2 DEF Owed
<1>4. CASE NextFrame
  BY <1>4 DEF NextFrame, Owed
<1>5. CASE UNCHANGED vars
  BY <1>5 DEF vars, Owed
<1> QED
  BY <1>1, <1>2, <1>3, <1>4, <1>5 DEF Next

\* With one camera RT64 reads what an unmodified guPerspective would have built,
\* for any number of matrices, of all but those a full list refused.
THEOREM HandedOver ==
  ASSUME NEW c \in Cameras, Cameras = {c}, IsFiniteSet(Matrices)
  PROVE  Spec => []DrawnAsAsked
<1>1. Init => Owed
  BY DEF Init, Owed
<1>2. Spec => []InCamera(c)
  BY InCameraInit, InCameraNext, TypeCorrect, PTL DEF Spec
<1>3. InTheList /\ Owed => DrawnAsAsked
  BY DEF InTheList, Owed, DrawnAsAsked
<1> QED
  BY <1>1, <1>2, <1>3, TypeCorrect, AlwaysInTheList, OwedNext, PTL DEF Spec

\* What a frame has built of an angle the hook widens is wide until the display
\* list is handed over: nothing narrows it, recorded or not.
LEMMA WideNext ==
  ASSUME NEW c \in Cameras, Cameras = {c}
  PROVE  TypeOK /\ InCamera(c)' /\ CullsWide /\ [Next]_vars => CullsWide'
<1> SUFFICES ASSUME TypeOK, InCamera(c)', CullsWide, [Next]_vars PROVE CullsWide'
  OBVIOUS
<1>1. ASSUME NEW m \in Matrices, SetUpCamera(c, m)
      PROVE  CullsWide'
  <2>1. PICK raw \in Stored(c) : widen_camera_fov(c, raw)
    BY <1>1 DEF SetUpCamera
  <2>2. fov'[c] \in Angles
    BY <2>1, HookType
  <2>3. /\ building /\ MarkBuilt(m, g_fov_undo')
        /\ matrix' = [matrix EXCEPT ![m] = fov'[c]]
        /\ asked' = [asked EXCEPT ![m] = Plain(fov'[c])]
    BY <1>1, <2>1, HookType DEF SetUpCamera
  <2>4. built' \subseteq built \cup {m} /\ built' \subseteq Matrices
    BY <2>3, MarkType DEF MarkBuilt
  <2>5. \A x \in built' : x # m => x \in built /\ asked'[x] = asked[x] /\ matrix'[x] = matrix[x]
    BY <2>3, <2>4 DEF TypeOK
  <2>6. asked'[m].base \in Bases => matrix'[m] = [asked'[m] EXCEPT !.widened = 1]
    <3>1. matrix'[m] = fov'[c] /\ asked'[m] = Plain(fov'[c])
      BY <2>3 DEF TypeOK
    <3>2. ASSUME fov'[c].base \in Bases
          PROVE  fov'[c] = [base |-> fov'[c].base, widened |-> 1]
      BY <2>2, <3>2 DEF InCamera, Angles
    <3> QED
      BY <3>1, <3>2 DEF Plain
  <2> QED
    BY <2>3, <2>4, <2>5, <2>6 DEF CullsWide
<1>2. ASSUME NEW m \in Matrices, Perspective(m)
      PROVE  CullsWide'
  <2>1. PICK b \in Odd :
          /\ matrix' = [matrix EXCEPT ![m] = [base |-> b, widened |-> 0]]
          /\ asked' = [asked EXCEPT ![m] = [base |-> b, widened |-> 0]]
    BY <1>2 DEF Perspective
  <2>2. building /\ built' \subseteq built \cup {m} /\ built' \subseteq Matrices
    BY <1>2, MarkType DEF Perspective, MarkBuilt
  <2>3. \A x \in built' : x # m => x \in built /\ asked'[x] = asked[x] /\ matrix'[x] = matrix[x]
    BY <2>1, <2>2 DEF TypeOK
  <2>4. asked'[m].base \notin Bases
    BY <2>1 DEF TypeOK
  <2> QED
    BY <2>2, <2>3, <2>4 DEF CullsWide
<1>3. CASE send_dl
  BY <1>3 DEF send_dl, CullsWide
<1>4. CASE NextFrame
  BY <1>4 DEF NextFrame, CullsWide
<1>5. CASE UNCHANGED vars
  BY <1>5 DEF vars, CullsWide
<1> QED
  BY <1>1, <1>2, <1>3, <1>4, <1>5 DEF Next

\* With one camera nothing the frame has built is narrowed before the handover,
\* for any number of matrices and of entries in the list.
THEOREM WideForCulling ==
  ASSUME NEW c \in Cameras, Cameras = {c}
  PROVE  Spec => []CullsWide
<1>1. Init => CullsWide
  BY DEF Init, CullsWide
<1>2. Spec => []InCamera(c)
  BY InCameraInit, InCameraNext, TypeCorrect, PTL DEF Spec
<1> QED
  BY <1>1, <1>2, TypeCorrect, WideNext, PTL DEF Spec

-----------------------------------------------------------------------------
(* Several cameras                                                         *)

OneLess(a) == [base |-> a.base, widened |-> a.widened - 1]

\* rayman2_record_projection_matrix: the hooks share one factor, and still a
\* matrix is recorded with its own camera's last widening, whichever camera
\* wrote last: the hook that passes over an angle finds that angle's factor.
NarrowsOneWidening ==
  \A m \in DOMAIN g_pending :
    asked[m].base \in Bases /\ matrix[m].widened < Wide =>
      /\ matrix[m].widened > 0
      /\ g_pending[m] = [from |-> OneLess(matrix[m]), to |-> matrix[m]]

\* narrow_pending_projections: of the matrices the frame has built, those of
\* cameras that were not widened twice are handed over as asked for, whatever
\* the other cameras did, but for those a full list refused.
OnlyCompoundedSpoiled ==
  [][send_dl /\ Narrowing =>
       \A m \in built \ refused :
         asked[m].base \in Bases /\ matrix[m].widened = 1 => matrix'[m] = asked[m]]_vars

\* The factor is that of the last write, and every recorded matrix was built.
SharedInv ==
  /\ last_written # NoAngle =>
       /\ last_written.widened > 0
       /\ g_fov_undo = [from |-> OneLess(last_written), to |-> last_written]
  /\ \A m \in DOMAIN g_pending : matrix[m] \in Angles /\ asked[m] = Plain(matrix[m])
  /\ NarrowsOneWidening

LEMMA SharedStep ==
  ASSUME TypeOK, SharedInv, [Next]_vars
  PROVE  SharedInv'
<1>1. ASSUME NEW c \in Cameras, NEW m \in Matrices, SetUpCamera(c, m)
      PROVE  SharedInv'
  <2>1. PICK raw \in Stored(c) : widen_camera_fov(c, raw)
    BY <1>1 DEF SetUpCamera
  <2>2. /\ raw \in Angles /\ fov'[c] \in Angles /\ g_fov_undo' \in Undos \cup {NoAngle}
        /\ \/ /\ ~InRange(raw) \/ IsOurs(raw)
              /\ fov'[c] = raw
              /\ UNCHANGED <<last_written, g_fov_undo>>
           \/ /\ InRange(raw)
              /\ fov'[c] = [base |-> raw.base, widened |-> raw.widened + 1]
              /\ last_written' = fov'[c]
              /\ g_fov_undo' = [from |-> raw, to |-> fov'[c]]
    BY <2>1, HookType
  <2>3. /\ g_pending' = Recorded(m, g_fov_undo')
        /\ matrix' = [matrix EXCEPT ![m] = fov'[c]]
        /\ asked' = [asked EXCEPT ![m] = Plain(fov'[c])]
    BY <1>1, <2>1, HookType DEF SetUpCamera
  <2>4. last_written' # NoAngle =>
          /\ last_written'.widened > 0
          /\ g_fov_undo' = [from |-> OneLess(last_written'), to |-> last_written']
    <3>1. CASE UNCHANGED <<last_written, g_fov_undo>>
      BY <3>1 DEF SharedInv, OneLess
    <3>2. CASE /\ fov'[c] = [base |-> raw.base, widened |-> raw.widened + 1]
               /\ last_written' = fov'[c]
               /\ g_fov_undo' = [from |-> raw, to |-> fov'[c]]
      <4>1. raw = [base |-> raw.base, widened |-> raw.widened] /\ raw.widened \in Nat
        BY <2>2 DEF Angles
      <4>2. OneLess(fov'[c]) = raw /\ fov'[c].widened > 0
        BY <3>2, <4>1 DEF OneLess
      <4> QED
        BY <3>2, <4>2
    <3> QED
      BY <2>2, <3>1, <3>2
  <2>5. ASSUME fov'[c].base \in Bases, fov'[c].widened < Wide
        PROVE  /\ fov'[c].widened > 0
               /\ g_fov_undo' = [from |-> OneLess(fov'[c]), to |-> fov'[c]]
    <3>1. last_written' = fov'[c]
      BY <2>2, <2>5 DEF InRange, IsOurs
    <3>2. fov'[c] # NoAngle
      BY <2>2
    <3> QED
      BY <2>4, <3>1, <3>2
  <2>6. DOMAIN g_pending' \subseteq Matrices
    BY <2>2, <2>3, RecordedType
  <2>7. ASSUME NEW x \in DOMAIN g_pending', x # m
        PROVE  /\ x \in DOMAIN g_pending /\ g_pending'[x] = g_pending[x]
               /\ matrix'[x] = matrix[x] /\ asked'[x] = asked[x]
    BY <2>2, <2>3, <2>6, <2>7, RecordedType DEF TypeOK
  <2>8. matrix'[m] = fov'[c] /\ asked'[m] = Plain(fov'[c])
    BY <2>3 DEF TypeOK
  <2>9. ASSUME m \in DOMAIN g_pending', fov'[c].base \in Bases, fov'[c].widened < Wide
        PROVE  g_pending'[m] = g_fov_undo'
    <3>1. g_fov_undo' # NoAngle
      BY <2>2, <2>5, <2>9 DEF Undos, OneLess, Angles
    <3> QED
      BY <2>3, <2>9, <3>1 DEF Recorded, With
  <2>10. Plain(fov'[c]).base = fov'[c].base
    BY DEF Plain
  <2>11. \A x \in DOMAIN g_pending' : matrix'[x] \in Angles /\ asked'[x] = Plain(matrix'[x])
    BY <2>2, <2>7, <2>8 DEF SharedInv
  <2>12. NarrowsOneWidening'
    BY <2>5, <2>7, <2>8, <2>9, <2>10 DEF SharedInv, NarrowsOneWidening
  <2> QED
    BY <2>4, <2>11, <2>12 DEF SharedInv, Plain
<1>2. ASSUME NEW m \in Matrices, Perspective(m)
      PROVE  SharedInv'
  <2>1. PICK b \in Odd :
          /\ matrix' = [matrix EXCEPT ![m] = [base |-> b, widened |-> 0]]
          /\ asked' = [asked EXCEPT ![m] = [base |-> b, widened |-> 0]]
    BY <1>2 DEF Perspective
  <2>2. /\ g_pending' = Recorded(m, g_fov_undo) /\ g_fov_undo \in Undos \cup {NoAngle}
        /\ UNCHANGED <<last_written, g_fov_undo>>
    BY <1>2 DEF Perspective, TypeOK, Undos
  <2>3. /\ matrix'[m] = [base |-> b, widened |-> 0] /\ asked'[m] = Plain(matrix'[m])
        /\ matrix'[m] \in Angles /\ asked'[m].base \notin Bases
    BY <2>1 DEF TypeOK, Angles, Plain
  <2>4. DOMAIN g_pending' \subseteq Matrices
    BY <2>2, RecordedType
  <2>5. ASSUME NEW x \in DOMAIN g_pending', x # m
        PROVE  /\ x \in DOMAIN g_pending /\ g_pending'[x] = g_pending[x]
               /\ matrix'[x] = matrix[x] /\ asked'[x] = asked[x]
    BY <2>1, <2>2, <2>4, <2>5, RecordedType DEF TypeOK
  <2>6. \A x \in DOMAIN g_pending' : matrix'[x] \in Angles /\ asked'[x] = Plain(matrix'[x])
    BY <2>3, <2>5 DEF SharedInv
  <2>7. NarrowsOneWidening'
    BY <2>3, <2>5 DEF SharedInv, NarrowsOneWidening
  <2> QED
    BY <2>2, <2>6, <2>7 DEF SharedInv, Plain, OneLess
<1>3. CASE send_dl
  BY <1>3 DEF send_dl, narrow_pending_projections, SharedInv, NarrowsOneWidening, OneLess
<1>4. CASE NextFrame \/ UNCHANGED vars
  BY <1>4 DEF NextFrame, vars, SharedInv, NarrowsOneWidening, OneLess, Plain
<1> QED
  BY <1>1, <1>2, <1>3, <1>4 DEF Next

LEMMA SharedInit == Init => SharedInv
  BY DEF Init, SharedInv, NarrowsOneWidening

\* With any number of cameras, in any order and however long left alone.
THEOREM NarrowedByItsOwn == Spec => []NarrowsOneWidening
<1>1. SharedInv => NarrowsOneWidening
  BY DEF SharedInv
<1> QED
  BY <1>1, SharedInit, SharedStep, TypeCorrect, PTL DEF Spec

\* A second camera spoils the pictures of those it makes compound, and a full
\* list those it refuses; every other one of the frame is drawn as asked for.
\* An angle that one widening takes out of range is no case of either.
THEOREM OthersDrawnAsAsked ==
  ASSUME IsFiniteSet(Matrices), Wide > 1
  PROVE  Spec => OnlyCompoundedSpoiled
<1>1. ASSUME TypeOK, SharedInv, InTheList, send_dl, Narrowing,
             NEW m \in built \ refused, asked[m].base \in Bases, matrix[m].widened = 1
      PROVE  matrix'[m] = asked[m]
  <2>1. m \in Matrices /\ m \in DOMAIN g_pending
    BY <1>1 DEF TypeOK, InTheList, send_dl
  <2>2. g_pending[m] = [from |-> OneLess(matrix[m]), to |-> matrix[m]]
    BY <1>1, <2>1 DEF SharedInv, NarrowsOneWidening
  <2>3. OneLess(matrix[m]) = asked[m]
    BY <1>1, <2>1 DEF SharedInv, OneLess, Plain
  <2>4. matrix'[m] = Narrowed(matrix[m], g_pending[m])
    BY <1>1, <2>1 DEF send_dl, narrow_pending_projections
  <2> QED
    BY <2>2, <2>3, <2>4 DEF Narrowed
<1>2. TypeOK /\ SharedInv /\ InTheList /\ [Next]_vars =>
        [send_dl /\ Narrowing =>
           \A m \in built \ refused :
             asked[m].base \in Bases /\ matrix[m].widened = 1 => matrix'[m] = asked[m]]_vars
  BY <1>1
<1> QED
  BY <1>2, SharedInit, SharedStep, TypeCorrect, AlwaysInTheList, PTL DEF Spec, OnlyCompoundedSpoiled
=============================================================================
