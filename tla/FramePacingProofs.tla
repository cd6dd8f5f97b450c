-------------------------- MODULE FramePacingProofs --------------------------
(***************************************************************************)
(* The frame cap never runs ahead of the rate that was asked for, and      *)
(* never holds a completion for longer than a frame, for every length of a *)
(* field, margin and session.                                              *)
(***************************************************************************)
EXTENDS FramePacing, TLAPS

USE PacingAssumption

\* A frame's own time.
FrameTime == fields_per_frame * Field

Types ==
  /\ asked \in Asks
  /\ now \in 0 .. MaxTime
  /\ attract \in BOOLEAN
  /\ lastField \in Int /\ lastField >= -1
  /\ held \in [flying : BOOLEAN, paced : BOOLEAN, due : Int]
  /\ ~held.flying => held = Free
  /\ window \in [open : BOOLEAN, from : 0 .. MaxTime, frames : Nat]
  /\ window.from <= now

\* A held completion is due in its field, and only a frame in flight is ahead
\* of the clock: by no more than its own time.
OnSchedule ==
  /\ held.paced => lastField >= 0 /\ held.due = Field * lastField - Margin
  /\ held.flying => held.due <= now + FrameTime
  /\ ~held.paced => Field * lastField <= now + Margin

\* The fields given to the watched frames are a frame's time apart, so the
\* completions, each after its deadline, are too.
Spaced ==
  window.open =>
    /\ held.paced => Field * lastField + Field > window.from + window.frames * FrameTime
    /\ window.frames > 0 =>
         /\ lastField >= 0
         /\ Field * lastField + Field > window.from + (window.frames - 1) * FrameTime
         /\ now + Margin + Field > window.from + (window.frames - 1) * FrameTime

PacingInv == Types /\ OnSchedule /\ Spaced

-----------------------------------------------------------------------------
(* Arithmetic                                                              *)

\* The fields of a frame are a natural number of at most sixty, whatever is
\* asked for, and do not change while the session asks for the same.
LEMMA FieldsType ==
  ASSUME asked \in Asks
  PROVE  fields_per_frame \in 0 .. 60
BY DEF fields_per_frame, Clamp

LEMMA FieldsConstant ==
  ASSUME asked' = asked
  PROVE  fields_per_frame' = fields_per_frame
BY DEF fields_per_frame, Clamp

\* The clock is inside the field NowField names.
LEMMA NowInField ==
  ASSUME now \in Nat
  PROVE  /\ NowField \in Nat
         /\ Field * NowField <= now
         /\ now < Field * NowField + Field
<1>1. Field * (now \div Field) + (now % Field) = now
  OBVIOUS
<1>2. now % Field \in 0 .. (Field - 1)
  OBVIOUS
<1> QED
  BY <1>1, <1>2 DEF NowField

\* The next field is not in the past, not closer than a frame to the last one,
\* and no later than one of the two asks for.
LEMMA TargetBounds ==
  ASSUME Types
  PROVE  /\ NextTarget \in Nat
         /\ Field * NextTarget + Field > now
         /\ lastField >= 0 => Field * NextTarget >= Field * lastField + FrameTime
         /\ \/ Field * NextTarget <= now
            \/ lastField >= 0 /\ Field * NextTarget = Field * lastField + FrameTime
<1>1. now \in Nat /\ fields_per_frame \in Nat /\ lastField \in Int
  BY FieldsType DEF Types
<1>2. Field * (lastField + fields_per_frame) = Field * lastField + FrameTime
  BY <1>1 DEF FrameTime
<1>3. CASE lastField >= 0 /\ lastField + fields_per_frame >= NowField
  <2>1. NextTarget = lastField + fields_per_frame
    BY <1>3 DEF NextTarget
  <2>2. Field * (lastField + fields_per_frame) >= Field * NowField
    BY <1>1, <1>3, NowInField
  <2> QED
    BY <1>1, <1>2, <1>3, <2>1, <2>2, NowInField
<1>4. CASE ~(lastField >= 0 /\ lastField + fields_per_frame >= NowField)
  <2>1. NextTarget = NowField
    BY <1>4 DEF NextTarget
  <2>2. ASSUME lastField >= 0
        PROVE  Field * (lastField + fields_per_frame) <= Field * NowField
    BY <1>1, <1>4, <2>2, NowInField
  <2> QED
    BY <1>1, <1>2, <2>1, <2>2, NowInField
<1> QED
  BY <1>3, <1>4

-----------------------------------------------------------------------------
(* The invariant                                                           *)

LEMMA InitPaced == Init => PacingInv
<1> SUFFICES ASSUME Init PROVE PacingInv
  OBVIOUS
<1>1. Types
  BY DEF Init, Types, Free, Unwatched
<1>2. OnSchedule
  BY DEF Init, OnSchedule, Free
<1>3. Spaced
  BY DEF Init, Spaced, Unwatched
<1> QED
  BY <1>1, <1>2, <1>3 DEF PacingInv

LEMMA NextPaced == PacingInv /\ [Next]_vars => PacingInv'
<1> SUFFICES ASSUME PacingInv, [Next]_vars PROVE PacingInv'
  OBVIOUS
<1> USE DEF PacingInv
<1>asked. asked' = asked
  BY DEF Next, Submit, Complete, Switch, Tick, vars
<1>time. FrameTime' = FrameTime /\ FrameTime \in Nat
  BY <1>asked, FieldsConstant, FieldsType DEF FrameTime, Types
<1>1. CASE Submit
  <2>1. CASE Installed /\ attract
    <3>1. /\ lastField' = NextTarget
          /\ held' = [flying |-> TRUE, paced |-> TRUE, due |-> Field * NextTarget - Margin]
          /\ UNCHANGED <<asked, now, attract, window>>
      BY <1>1, <2>1 DEF Submit
    <3>2. ~held.flying /\ ~held.paced
      BY <1>1 DEF Submit, Types, Free
    <3>3. Types'
      BY <3>1, TargetBounds DEF Types
    <3>4. OnSchedule'
      <4>1. Field * NextTarget - Margin <= now + FrameTime
        BY <3>2, <1>time, TargetBounds DEF OnSchedule, Types
      <4> QED
        BY <3>1, <4>1, <1>time, TargetBounds DEF OnSchedule
    <3>5. Spaced'
      <4> SUFFICES ASSUME window.open PROVE Spaced'
        BY <3>1 DEF Spaced
      <4>1. ASSUME window.frames > 0
            PROVE  Field * NextTarget + Field > window.from + window.frames * FrameTime
        <5>1. window.frames * FrameTime = (window.frames - 1) * FrameTime + FrameTime
          BY <1>time DEF Types
        <5>2. (window.frames - 1) * FrameTime \in Int
          BY <1>time DEF Types
        <5> QED
          BY <4>1, <5>1, <5>2, <1>time, TargetBounds DEF Spaced, Types
      <4>2. ASSUME window.frames = 0
            PROVE  Field * NextTarget + Field > window.from + window.frames * FrameTime
        BY <4>2, <1>time, TargetBounds DEF Types
      <4>3. Field * NextTarget + Field > window.from + window.frames * FrameTime
        BY <4>1, <4>2 DEF Types
      <4>4. ASSUME window.frames > 0
            PROVE  Field * NextTarget + Field > window.from + (window.frames - 1) * FrameTime
        <5>1. (window.frames - 1) * FrameTime \in Int
          BY <1>time DEF Types
        <5> QED
          BY <4>4, <5>1, <1>time, TargetBounds DEF Spaced, Types
      <4> QED
        BY <3>1, <4>3, <4>4, <1>time, TargetBounds DEF Spaced
    <3> QED
      BY <3>3, <3>4, <3>5
  <2>2. CASE ~(Installed /\ attract)
    <3>1. /\ held' = [flying |-> TRUE, paced |-> FALSE, due |-> now]
          /\ UNCHANGED <<asked, now, attract, lastField, window>>
      BY <1>1, <2>2 DEF Submit
    <3>2. ~held.paced
      BY <1>1 DEF Submit, Types, Free
    <3>3. Types'
      BY <3>1 DEF Types
    <3>4. OnSchedule'
      BY <3>1, <3>2, <1>time DEF OnSchedule, Types
    <3>5. Spaced'
      BY <3>1, <1>time DEF Spaced
    <3> QED
      BY <3>3, <3>4, <3>5
  <2> QED
    BY <2>1, <2>2
<1>2. CASE Complete
  <2>1. /\ held.flying /\ held.due <= now /\ held' = Free
        /\ UNCHANGED <<asked, now, attract, lastField>>
    BY <1>2 DEF Complete
  <2>2. \/ window' = [open |-> TRUE, from |-> now, frames |-> 0]
        \/ window' = Unwatched
        \/ /\ window.open /\ held.paced
           /\ window' = [window EXCEPT !.frames = @ + 1]
    BY <1>2 DEF Complete
  <2>3. Types'
    <3>1. held' \in [flying : BOOLEAN, paced : BOOLEAN, due : Int]
      BY <2>1 DEF Free
    <3>2. /\ window' \in [open : BOOLEAN, from : 0 .. MaxTime, frames : Nat]
          /\ window'.from <= now
      <4>1. CASE window' = [open |-> TRUE, from |-> now, frames |-> 0]
        BY <4>1 DEF Types
      <4>2. CASE window' = Unwatched
        BY <4>2 DEF Types, Unwatched
      <4>3. CASE window' = [window EXCEPT !.frames = @ + 1]
        BY <4>3 DEF Types
      <4> QED
        BY <2>2, <4>1, <4>2, <4>3
    <3> QED
      BY <2>1, <3>1, <3>2 DEF Types
  <2>4. OnSchedule'
    BY <2>1, <1>time DEF OnSchedule, Types, Free
  <2>5. Spaced'
    <3>1. ~held'.paced
      BY <2>1 DEF Free
    <3>2. CASE window'.open => window'.frames = 0
      BY <3>1, <3>2 DEF Spaced
    <3>3. CASE window.open /\ held.paced /\ window' = [window EXCEPT !.frames = @ + 1]
      <4>1. /\ window'.open /\ window'.from = window.from
            /\ window'.frames = window.frames + 1
            /\ window'.frames - 1 = window.frames
        BY <3>3 DEF Types
      <4>2. window.frames * FrameTime \in Int
        BY <1>time DEF Types
      <4>3. Field * lastField + Field > window.from + window.frames * FrameTime
        BY <3>3 DEF Spaced
      <4>4. now >= Field * lastField - Margin /\ lastField >= 0
        BY <2>1, <3>3 DEF OnSchedule
      <4>5. now + Margin + Field > window.from + window.frames * FrameTime
        BY <4>2, <4>3, <4>4 DEF Types
      <4> QED
        BY <2>1, <3>1, <4>1, <4>3, <4>4, <4>5, <1>time DEF Spaced
    <3> QED
      BY <2>2, <3>2, <3>3 DEF Unwatched
  <2> QED
    BY <2>3, <2>4, <2>5
<1>3. CASE Switch
  <2>1. Types'
    BY <1>3 DEF Switch, Types
  <2>2. OnSchedule' /\ Spaced'
    BY <1>3, <1>time DEF Switch, OnSchedule, Spaced
  <2> QED
    BY <2>1, <2>2
<1>4. CASE Tick
  <2>1. now' = now + 1 /\ now < MaxTime /\ UNCHANGED <<asked, attract, lastField, held, window>>
    BY <1>4 DEF Tick
  <2>2. Types'
    BY <2>1 DEF Types
  <2>3. OnSchedule'
    BY <2>1, <1>time DEF OnSchedule, Types
  <2>4. Spaced'
    <3>1. (window.frames - 1) * FrameTime \in Int
      BY <1>time DEF Types
    <3> QED
      BY <2>1, <3>1, <1>time DEF Spaced, Types
  <2> QED
    BY <2>2, <2>3, <2>4
<1>5. CASE UNCHANGED vars
  <2>1. Types'
    BY <1>5 DEF vars, Types
  <2>2. OnSchedule' /\ Spaced'
    BY <1>5, <1>time DEF vars, OnSchedule, Spaced
  <2> QED
    BY <2>1, <2>2
<1> QED
  BY <1>1, <1>2, <1>3, <1>4, <1>5 DEF Next

\* The schedule's invariant holds at every step.
THEOREM Paced == Spec => []PacingInv
  BY InitPaced, NextPaced, PTL DEF Spec

-----------------------------------------------------------------------------
(* The properties                                                          *)

\* Types hold, and the schedule is at most one frame ahead of the clock.
THEOREM TypeCorrect == Spec => []TypeOK
<1>1. PacingInv => TypeOK
  <2> SUFFICES ASSUME PacingInv PROVE TypeOK
    OBVIOUS
  <2> DEFINE F == fields_per_frame
             Q == (now + Margin) \div Field
  <2>1. F \in Nat /\ now \in Nat /\ lastField \in Int
    BY FieldsType DEF PacingInv, Types
  <2>2. Field * lastField <= now + Margin + FrameTime
    BY <2>1 DEF PacingInv, Types, OnSchedule, FrameTime, Free
  <2>3. Q \in Nat /\ now + Margin < Field * Q + Field
    <3>1. Field * Q + ((now + Margin) % Field) = now + Margin
      BY <2>1
    <3>2. (now + Margin) % Field \in 0 .. (Field - 1)
      BY <2>1
    <3> QED
      BY <2>1, <3>1, <3>2
  <2>4. Field * lastField < Field * (Q + F + 1)
    <3>1. Field * (Q + F + 1) = Field * Q + F * Field + Field
      BY <2>1, <2>3
    <3> HIDE DEF F, Q
    <3> QED
      BY <2>1, <2>2, <2>3, <3>1 DEF FrameTime, F
  <2>5. lastField < Q + F + 1
    BY <2>1, <2>3, <2>4
  <2> QED
    BY <2>1, <2>3, <2>5 DEF PacingInv, Types, TypeOK
<1> QED
  BY Paced, <1>1, PTL

\* The cap only limits: whatever stalls and pauses the schedule went through, no
\* completion is held for longer than the fields of one frame.
THEOREM HeldNoLonger == Spec => []NeverHeldLong
<1>1. PacingInv => NeverHeldLong
  BY DEF PacingInv, OnSchedule, NeverHeldLong, FrameTime
<1> QED
  BY Paced, <1>1, PTL

\* A rate that divides the sixty fields of a second, or exceeds them, is
\* converted without being rounded up.
LEMMA RateKept ==
  ASSUME asked \in Int, asked > 0,
         asked > 60 \/ \E k \in Nat : asked * k = 60
  PROVE  fields_per_frame \in Nat /\ asked * fields_per_frame >= 60
<1> DEFINE Q == (60 + asked \div 2) \div asked
<1>1. asked \div 2 \in Nat /\ asked \div 2 < asked
  OBVIOUS
<1>2. fields_per_frame = Clamp(Q, 1, 60)
  BY DEF fields_per_frame
<1>3. Q \in Nat
  BY <1>1
<1>4. fields_per_frame \in 1 .. 60
  BY <1>2, <1>3 DEF Clamp
<1>5. CASE asked > 60
  <2>1. asked * fields_per_frame >= asked * 1
    BY <1>4
  <2> QED
    BY <1>4, <1>5, <2>1
<1>6. ASSUME NEW k \in Nat, asked * k = 60
      PROVE  asked * fields_per_frame = 60
  <2>1. k \in 1 .. 60
    BY <1>6
  <2>2. Q = k
    BY <1>1, <1>6, <2>1
  <2>3. fields_per_frame = k
    BY <1>2, <2>1, <2>2 DEF Clamp
  <2> QED
    BY <1>6, <2>3
<1> QED
  BY <1>4, <1>5, <1>6

\* When no rate that is asked for is rounded up, the game is never faster than
\* asked over any stretch of paced frames: a debt is not paid back.
THEOREM NoBurst ==
  ASSUME \A a \in Asks : a > 0 => a > 60 \/ \E k \in Nat : a * k = 60
  PROVE  Spec => []NeverFasterThanAsked
<1>1. PacingInv => NeverFasterThanAsked
  <2> SUFFICES ASSUME PacingInv, window.open, Installed PROVE NeverFasterThanAsked
    BY DEF NeverFasterThanAsked
  <2> DEFINE E == now - window.from + Field + Margin
             G == window.frames - 1
  <2>1. asked \in Int /\ asked > 0
    BY DEF PacingInv, Types, Installed, fields_per_frame
  <2>2. fields_per_frame \in Nat /\ asked * fields_per_frame >= 60
    BY <2>1, RateKept DEF PacingInv, Types
  <2>3. E \in Nat /\ E > 0 /\ G \in Int
    BY DEF PacingInv, Types
  <2>4. CASE G < 0
    <3>1. asked * E >= 0
      BY <2>1, <2>3
    <3>2. G * 60 * Field <= 0
      BY <2>3, <2>4
    <3>3. asked * E >= G * 60 * Field
      <4>1. asked * E \in Int /\ G * 60 * Field \in Int
        BY <2>1, <2>3
      <4> HIDE DEF E, G
      <4> QED
        BY <3>1, <3>2, <4>1
    <3> QED
      BY <3>3 DEF NeverFasterThanAsked
  <2>5. CASE G \in Nat
    <3>1. E > G * FrameTime
      <4>1. G * FrameTime \in Int
        BY <2>2, <2>3 DEF FrameTime
      <4> QED
        BY <2>5, <4>1 DEF PacingInv, Types, Spaced
    <3>2. asked * E >= asked * (G * FrameTime)
      BY <2>1, <2>2, <2>3, <2>5, <3>1 DEF FrameTime
    <3>3. asked * (G * FrameTime) = (asked * fields_per_frame) * (G * Field)
      BY <2>1, <2>2, <2>5 DEF FrameTime
    <3>4. (asked * fields_per_frame) * (G * Field) >= 60 * (G * Field)
      BY <2>1, <2>2, <2>5
    <3>5. 60 * (G * Field) = G * 60 * Field
      BY <2>5
    <3>6. asked * E >= G * 60 * Field
      <4> HIDE DEF E, G
      <4> QED
        BY <2>1, <2>2, <2>3, <2>5, <3>2, <3>3, <3>4, <3>5 DEF FrameTime
    <3> QED
      BY <3>6 DEF NeverFasterThanAsked
  <2> QED
    BY <2>3, <2>4, <2>5
<1> QED
  BY Paced, <1>1, PTL
=============================================================================
