--------------------------- MODULE GameLoopProofs ----------------------------
(***************************************************************************)
(* What holds of a session for any size of the worker's queue, any number  *)
(* of waiting retraces and any length of the starter's wait, proved with   *)
(* TLAPS.  The renderer and the frame loop take their steps side by side;   *)
(* the one framebuffer slot is followed through every queue.                *)
(***************************************************************************)
EXTENDS GameLoop, FiniteSetTheorems, FunctionTheorems, SequenceTheorems, TLAPS

-----------------------------------------------------------------------------
(* Counting in a queue                                                     *)

\* A count of messages is a natural number, and no more than there are.
LEMMA HeldType ==
  ASSUME NEW S, NEW q \in Seq(S), NEW kinds
  PROVE  /\ IsFiniteSet({i \in DOMAIN q : q[i] \in kinds})
         /\ Held(q, kinds) \in Nat
         /\ Held(q, kinds) <= Len(q)
  <1>1. DOMAIN q = 1 .. Len(q) /\ Len(q) \in Nat
    BY LenProperties
  <1>2. IsFiniteSet(DOMAIN q) /\ Cardinality(DOMAIN q) = Len(q)
    BY <1>1, FS_Interval
  <1>3. /\ IsFiniteSet({i \in DOMAIN q : q[i] \in kinds})
        /\ Cardinality({i \in DOMAIN q : q[i] \in kinds}) <= Len(q)
    BY <1>2, FS_Subset
  <1>4. QED
    BY <1>3, FS_CardinalityType DEF Held

\* Nothing is held by an empty queue.
LEMMA HeldEmpty ==
  ASSUME NEW kinds
  PROVE  Held(<<>>, kinds) = 0
  <1>1. {i \in DOMAIN <<>> : <<>>[i] \in kinds} = {}
    OBVIOUS
  <1>2. QED
    BY <1>1, FS_EmptySet DEF Held

\* Two queues one after the other hold what they hold together.
LEMMA HeldConcat ==
  ASSUME NEW S, NEW p \in Seq(S), NEW q \in Seq(S), NEW kinds
  PROVE  Held(p \o q, kinds) = Held(p, kinds) + Held(q, kinds)
  <1> DEFINE n == Len(p)
             A == {i \in DOMAIN p : p[i] \in kinds}
             B == {i \in DOMAIN q : q[i] \in kinds}
             C == {i \in (n + 1) .. (n + Len(q)) : q[i - n] \in kinds}
             f == [i \in B |-> i + n]
  <1>1. /\ DOMAIN p = 1 .. n /\ DOMAIN q = 1 .. Len(q)
        /\ n \in Nat /\ Len(q) \in Nat
    BY LenProperties
  <1>2. /\ DOMAIN (p \o q) = 1 .. n + Len(q)
        /\ \A i \in 1 .. n + Len(q) : (p \o q)[i] = IF i <= n THEN p[i] ELSE q[i - n]
    BY <1>1, ConcatProperties, LenProperties
  <1>3. {i \in DOMAIN (p \o q) : (p \o q)[i] \in kinds} = A \cup C
    BY <1>1, <1>2
  <1>4. f \in Bijection(B, C)
    <2>1. \A i \in B : i + n \in C
      BY <1>1
    <2>2. \A i, j \in B : i + n = j + n => i = j
      BY <1>1
    <2>3. \A c \in C : c - n \in B /\ (c - n) + n = c
      BY <1>1
    <2>4. f \in [B -> C]
      BY <2>1
    <2>5. \A i, j \in B : f[i] = f[j] => i = j
      BY <2>2
    <2>6. \A c \in C : \E i \in B : f[i] = c
      BY <2>3
    <2>7. QED
      BY <2>4, <2>5, <2>6, Fun_IsBij
  <1>5. IsFiniteSet(A) /\ IsFiniteSet(B)
    BY HeldType
  <1>6. IsFiniteSet(C) /\ Cardinality(C) = Cardinality(B)
    BY <1>4, <1>5, FS_Bijection, Fun_ExistsBij
  <1>7. A \cap C = {}
    BY <1>1
  <1>8. Cardinality(A \cup C) = Cardinality(A) + Cardinality(C) - Cardinality(A \cap C)
    BY <1>5, <1>6, FS_Union
  <1>9. Cardinality(A \cap C) = 0 /\ Cardinality(A) \in Nat /\ Cardinality(B) \in Nat
    BY <1>5, <1>7, FS_EmptySet, FS_CardinalityType
  <1>10. Cardinality(A \cup C) = Cardinality(A) + Cardinality(B)
    BY <1>6, <1>8, <1>9
  <1>11. QED
    BY <1>3, <1>10 DEF Held

\* One message holds itself.
LEMMA HeldOne ==
  ASSUME NEW m, NEW kinds
  PROVE  Held(<<m>>, kinds) = IF m \in kinds THEN 1 ELSE 0
  <1>1. DOMAIN <<m>> = {1} /\ <<m>>[1] = m
    OBVIOUS
  <1>2. CASE m \in kinds
    <2>1. {i \in DOMAIN <<m>> : <<m>>[i] \in kinds} = {1}
      BY <1>1, <1>2
    <2>2. QED
      BY <1>2, <2>1, FS_Singleton DEF Held
  <1>3. CASE m \notin kinds
    <2>1. {i \in DOMAIN <<m>> : <<m>>[i] \in kinds} = {}
      BY <1>1, <1>3
    <2>2. QED
      BY <1>3, <2>1, FS_EmptySet DEF Held
  <1>4. QED
    BY <1>2, <1>3

LEMMA HeldAppend ==
  ASSUME NEW S, NEW q \in Seq(S), NEW m \in S, NEW kinds
  PROVE  Held(Append(q, m), kinds) = Held(q, kinds) + IF m \in kinds THEN 1 ELSE 0
  <1>1. Append(q, m) = q \o <<m>> /\ <<m>> \in Seq(S)
    BY AppendIsConcat
  <1>2. Held(q \o <<m>>, kinds) = Held(q, kinds) + Held(<<m>>, kinds)
    BY <1>1, HeldConcat
  <1>3. QED
    BY <1>1, <1>2, HeldOne

LEMMA HeldTail ==
  ASSUME NEW S, NEW q \in Seq(S), q # <<>>, NEW kinds
  PROVE  Held(q, kinds) = Held(Tail(q), kinds) + IF Head(q) \in kinds THEN 1 ELSE 0
  <1>1. Head(q) \in S /\ Tail(q) \in Seq(S) /\ <<Head(q)>> \in Seq(S)
    BY HeadTailProperties
  <1>2. <<Head(q)>> \o Tail(q) = q
    BY HeadTailProperties
  <1>3. Held(<<Head(q)>> \o Tail(q), kinds) = Held(<<Head(q)>>, kinds) + Held(Tail(q), kinds)
    BY <1>1, HeldConcat
  <1>4. Held(Tail(q), kinds) \in Nat
    BY <1>1, HeldType
  <1>5. Held(<<Head(q)>>, kinds) = IF Head(q) \in kinds THEN 1 ELSE 0
    BY HeldOne
  <1>6. Held(q, kinds) = Held(<<Head(q)>>, kinds) + Held(Tail(q), kinds)
    BY <1>2, <1>3
  <1>7. QED
    BY <1>4, <1>5, <1>6

\* Cutting a queue in two.
LEMMA HeldCut ==
  ASSUME NEW S, NEW q \in Seq(S), NEW n \in 0 .. Len(q), NEW kinds
  PROVE  /\ SubSeq(q, 1, n) \in Seq(S) /\ Len(SubSeq(q, 1, n)) = n
         /\ SubSeq(q, n + 1, Len(q)) \in Seq(S)
         /\ Len(SubSeq(q, n + 1, Len(q))) = Len(q) - n
         /\ Held(q, kinds) = Held(SubSeq(q, 1, n), kinds)
                               + Held(SubSeq(q, n + 1, Len(q)), kinds)
  <1> DEFINE a == SubSeq(q, 1, n)
             b == SubSeq(q, n + 1, Len(q))
  <1>1. Len(q) \in Nat /\ n \in Nat /\ n <= Len(q)
    BY LenProperties
  <1>2. a \in Seq(S) /\ Len(a) = n /\ \A i \in 1 .. n : a[i] = q[i]
    BY <1>1, SubSeqProperties
  <1>3. /\ b \in Seq(S) /\ Len(b) = Len(q) - n
        /\ \A i \in 1 .. Len(q) - n : b[i] = q[n + i]
    BY <1>1, SubSeqProperties
  <1>4. a \o b = q
    <2>1. /\ 1 \in 1 .. Len(q) + 1
          /\ n \in 1 - 1 .. Len(q)
          /\ Len(q) \in n .. Len(q)
      BY <1>1
    <2>2. a \o b = SubSeq(q, 1, Len(q))
      BY <2>1, ConcatAdjacentSubSeq
    <2>3. QED
      BY <2>2, SubSeqFull
  <1>5. Held(a \o b, kinds) = Held(a, kinds) + Held(b, kinds)
    BY <1>2, <1>3, HeldConcat
  <1>6. QED
    BY <1>2, <1>3, <1>4, <1>5

-----------------------------------------------------------------------------
(* Delivery                                                                *)

Messages == {"VI", "DP", "task"}
External == {"VI", "DP"}

\* Where the slot is while a message stands for it.
InFlight(q, e) == Held(q, {"task", "DP"}) + Held(e, {"DP"})

\* The host has posted no more retraces than it may; a completion comes on top.
Bounded(e) == Len(e) <= MaxExternal + Held(e, {"DP"})

QueuesOK(q, e) ==
  /\ q \in Seq(Messages) /\ Len(q) <= QueueSize
  /\ e \in Seq(External) /\ Bounded(e)

\* What a delivery may do: fill the queue, never beyond its size, and lose no
\* message that stands for the slot.
Delivers(d) ==
  /\ QueuesOK(d.queue, d.external)
  /\ InFlight(d.queue, d.external) = InFlight(queue, external)

\* Of the host's messages only completions are counted, and a completion is
\* what they are counted for in the worker's queue.
LEMMA HeldExternal ==
  ASSUME NEW e \in Seq(External)
  PROVE  Held(e, {"task", "DP"}) = Held(e, {"DP"})
  <1>1. \A i \in DOMAIN e : e[i] \in {"task", "DP"} <=> e[i] \in {"DP"}
    BY LenProperties DEF External
  <1>2. {i \in DOMAIN e : e[i] \in {"task", "DP"}} = {i \in DOMAIN e : e[i] \in {"DP"}}
    BY <1>1
  <1>3. QED
    BY <1>2 DEF Held

\* What is put back holds every completion there was, and nothing else.
LEMMA PutBackHolds ==
  ASSUME NEW e \in Seq(External)
  PROVE  /\ PutBack(e) \in Seq(External)
         /\ Held(PutBack(e), {"DP"}) = Held(e, {"DP"})
         /\ Len(PutBack(e)) = Held(e, {"DP"})
  <1> DEFINE c == Held(e, {"DP"})
  <1>1. \A i \in DOMAIN e : Requeues(e[i]) <=> e[i] \in {"DP"}
    BY LenProperties DEF External, Requeues
  <1>2. {i \in DOMAIN e : Requeues(e[i])} = {i \in DOMAIN e : e[i] \in {"DP"}}
    BY <1>1
  <1>3. PutBack(e) = [k \in 1 .. c |-> "DP"] /\ c \in Nat
    BY <1>2, HeldType DEF PutBack, Held
  <1>4. PutBack(e) \in Seq(External) /\ Len(PutBack(e)) = c
    BY <1>3 DEF External
  <1>5. {i \in DOMAIN PutBack(e) : PutBack(e)[i] \in {"DP"}} = 1 .. c
    BY <1>3
  <1>6. Cardinality(1 .. c) = c
    BY <1>3, FS_Interval
  <1>7. QED
    BY <1>4, <1>5, <1>6 DEF Held

LEMMA DeliverAllDelivers ==
  ASSUME QueuesOK(queue, external)
  PROVE  Delivers(DeliverAll)
  <1> DEFINE room == QueueSize - Len(queue)
             n == IF Len(external) < room THEN Len(external) ELSE room
             a == SubSeq(external, 1, n)
             b == SubSeq(external, n + 1, Len(external))
  <1> USE HandshakeAssumption
  <1>1. /\ queue \in Seq(Messages) /\ external \in Seq(External)
        /\ Len(queue) \in Nat /\ Len(external) \in Nat /\ Len(queue) <= QueueSize
    BY LenProperties DEF QueuesOK
  <1>2. n \in 0 .. Len(external) /\ n <= room
    BY <1>1
  <1>3. /\ a \in Seq(External) /\ Len(a) = n /\ b \in Seq(External)
        /\ Held(external, {"DP"}) = Held(a, {"DP"}) + Held(b, {"DP"})
    <2> HIDE DEF n
    <2>1. QED
      BY <1>1, <1>2, HeldCut
  <1>4. a \in Seq(Messages)
    BY <1>3, SeqMonotonic DEF External, Messages
  <1>5. /\ queue \o a \in Seq(Messages)
        /\ Len(queue \o a) = Len(queue) + n
    BY <1>1, <1>3, <1>4, ConcatProperties
  <1>6. Held(queue \o a, {"task", "DP"}) = Held(queue, {"task", "DP"}) + Held(a, {"DP"})
    <2>1. Held(queue \o a, {"task", "DP"}) =
            Held(queue, {"task", "DP"}) + Held(a, {"task", "DP"})
      <3> HIDE DEF a
      <3>1. QED
        BY <1>1, <1>4, HeldConcat
    <2>2. Held(a, {"task", "DP"}) = Held(a, {"DP"})
      BY <1>3, HeldExternal
    <2>3. QED
      BY <2>1, <2>2
  <1>7. /\ PutBack(b) \in Seq(External)
        /\ Held(PutBack(b), {"DP"}) = Held(b, {"DP"})
        /\ Len(PutBack(b)) = Held(b, {"DP"})
    BY <1>3, PutBackHolds
  <1>8. /\ Held(queue, {"task", "DP"}) \in Nat /\ Held(a, {"DP"}) \in Nat
        /\ Held(b, {"DP"}) \in Nat
    BY <1>1, <1>3, HeldType
  <1>9. DeliverAll = [queue |-> queue \o a, external |-> PutBack(b)]
    BY DEF DeliverAll, Delivery
  <1>10. Len(queue \o a) <= QueueSize
    BY <1>1, <1>2, <1>5
  <1>11. Bounded(PutBack(b))
    BY <1>7, <1>8 DEF Bounded
  <1>12. InFlight(queue \o a, PutBack(b)) = InFlight(queue, external)
    BY <1>3, <1>6, <1>7, <1>8 DEF InFlight
  <1>13. QED
    BY <1>5, <1>7, <1>9, <1>10, <1>11, <1>12 DEF Delivers, QueuesOK

LEMMA DeliverOneDelivers ==
  ASSUME QueuesOK(queue, external)
  PROVE  Delivers(DeliverOne)
  <1> DEFINE h == Head(external)
             r == Tail(external)
  <1> USE HandshakeAssumption
  <1>1. /\ queue \in Seq(Messages) /\ external \in Seq(External)
        /\ Len(queue) \in Nat /\ Len(external) \in Nat /\ Len(queue) <= QueueSize
    BY LenProperties DEF QueuesOK
  <1>2. CASE external = <<>>
    BY <1>2 DEF DeliverOne, Delivery, Delivers
  <1>3. CASE external # <<>>
    <2>1. /\ h \in External /\ r \in Seq(External) /\ Len(r) = Len(external) - 1
      BY <1>1, <1>3, HeadTailProperties
    <2>2. Held(external, {"DP"}) = Held(r, {"DP"}) + IF h \in {"DP"} THEN 1 ELSE 0
      BY <1>1, <1>3, HeldTail
    <2>3. Held(r, {"DP"}) \in Nat /\ Held(queue, {"task", "DP"}) \in Nat
      BY <1>1, <2>1, HeldType
    <2>4. Bounded(r)
      <3>1. Len(external) <= MaxExternal + Held(external, {"DP"})
        BY DEF QueuesOK, Bounded
      <3>2. Held(external, {"DP"}) <= Held(r, {"DP"}) + 1
        BY <2>2, <2>3
      <3>3. QED
        BY <1>1, <2>1, <2>2, <2>3, <3>1, <3>2 DEF Bounded
    <2>5. CASE Len(queue) < QueueSize
      <3>1. h \in Messages
        BY <2>1 DEF External, Messages
      <3>2. /\ Append(queue, h) \in Seq(Messages)
            /\ Len(Append(queue, h)) = Len(queue) + 1
        BY <1>1, <3>1, AppendProperties
      <3>3. Held(Append(queue, h), {"task", "DP"}) =
              Held(queue, {"task", "DP"}) + IF h \in {"task", "DP"} THEN 1 ELSE 0
        BY <1>1, <3>1, HeldAppend
      <3>4. h \in {"task", "DP"} <=> h \in {"DP"}
        BY <2>1 DEF External
      <3>5. InFlight(Append(queue, h), r) = InFlight(queue, external)
        BY <2>2, <2>3, <3>3, <3>4 DEF InFlight
      <3>6. DeliverOne = [queue |-> Append(queue, h), external |-> r]
        BY <1>3, <2>5 DEF DeliverOne, Delivery
      <3>7. QED
        BY <1>1, <2>1, <2>4, <2>5, <3>2, <3>5, <3>6 DEF Delivers, QueuesOK
    <2>6. CASE ~(Len(queue) < QueueSize) /\ h = "DP"
      <3>1. DeliverOne = [queue |-> queue, external |-> Append(r, h)]
        BY <1>3, <2>6 DEF DeliverOne, Delivery, Requeues
      <3>2. Append(r, h) \in Seq(External) /\ Len(Append(r, h)) = Len(r) + 1
        BY <2>1, AppendProperties
      <3>3. Held(Append(r, h), {"DP"}) = Held(r, {"DP"}) + IF h \in {"DP"} THEN 1 ELSE 0
        BY <2>1, HeldAppend
      <3>4. Held(Append(r, h), {"DP"}) = Held(external, {"DP"})
        BY <2>2, <3>3
      <3>5. Bounded(Append(r, h))
        <4>1. Len(Append(r, h)) = Len(external)
          BY <1>1, <2>1, <3>2
        <4>2. QED
          BY <3>4, <4>1 DEF Bounded, QueuesOK
      <3>6. QED
        BY <1>1, <3>1, <3>2, <3>4, <3>5 DEF Delivers, QueuesOK, InFlight
    <2>7. CASE ~(Len(queue) < QueueSize) /\ h # "DP"
      <3>1. DeliverOne = [queue |-> queue, external |-> r]
        BY <1>3, <2>1, <2>7 DEF DeliverOne, Delivery, Requeues, External
      <3>2. Held(external, {"DP"}) = Held(r, {"DP"})
        BY <2>2, <2>3, <2>7
      <3>3. QED
        BY <1>1, <2>1, <2>4, <3>1, <3>2 DEF Delivers, QueuesOK, InFlight
    <2>8. QED
      BY <2>5, <2>6, <2>7
  <1>4. QED
    BY <1>2, <1>3

LEMMA ArrivedDelivers ==
  ASSUME QueuesOK(queue, external), NEW t
  PROVE  Delivers(Arrived(t))
  BY DeliverAllDelivers DEF Arrived, Delivers, Delivery

-----------------------------------------------------------------------------
(* The slot                                                                *)

HandType ==
  /\ running \in {"game", "worker", "idle"} /\ game \in {"spin", "take", "post"}
  /\ busy \in BOOLEAN /\ blocked \subseteq {"game", "worker"}
  /\ QueuesOK(queue, external)
  /\ slots \in Nat /\ rdp \in {"idle", "list", "done"}

\* The queues keep to their bounds because the slot is in one place: a second
\* completion would be one message more than the host may have posted.
SlotInv == HandType /\ OneSlot

\* OneSlot, with what is in flight counted at once.
SlotSum(s, at, flight, r) ==
  s + (IF at = "post" THEN 1 ELSE 0) + flight + (IF r # "idle" THEN 1 ELSE 0) = 1

LEMMA OneSlotSum ==
  ASSUME queue \in Seq(Messages), external \in Seq(External), slots \in Nat
  PROVE  OneSlot <=> SlotSum(slots, game, InFlight(queue, external), rdp)
  <1>1. Held(queue, {"task", "DP"}) \in Nat /\ Held(external, {"DP"}) \in Nat
    BY HeldType
  <1>2. QED
    BY <1>1 DEF OneSlot, SlotSum, InFlight

LEMMA FlightType ==
  ASSUME NEW q \in Seq(Messages), NEW e \in Seq(External)
  PROVE  InFlight(q, e) \in Nat
  <1>1. Held(q, {"task", "DP"}) \in Nat /\ Held(e, {"DP"}) \in Nat
    BY HeldType
  <1>2. QED
    BY <1>1 DEF InFlight

\* A step that ends in Settled keeps the invariant when it leaves the queues
\* whole and the sum as it was.
LEMMA SettledKeeps ==
  ASSUME NEW b \in SUBSET {"game", "worker"}, NEW q, NEW e, QueuesOK(q, e),
         NEW s \in Nat, NEW at \in {"spin", "take", "post"},
         Settled(b, q, e, s, at), busy' \in BOOLEAN, rdp \in {"idle", "list", "done"},
         UNCHANGED rdp, SlotSum(s, at, InFlight(q, e), rdp)
  PROVE  SlotInv'
  <1>1. /\ blocked' = b /\ queue' = q /\ external' = e /\ slots' = s /\ game' = at
        /\ running' = Highest(b, q, s, at)
    BY DEF Settled
  <1>2. running' \in {"game", "worker", "idle"}
    BY <1>1 DEF Highest
  <1>3. HandType'
    BY <1>1, <1>2 DEF HandType, QueuesOK, Bounded, Held
  <1>4. Held(queue', {"task", "DP"}) \in Nat /\ Held(external', {"DP"}) \in Nat
    BY <1>1, HeldType DEF QueuesOK
  <1>5. OneSlot'
    BY <1>1, <1>4 DEF SlotSum, InFlight, OneSlot, Held
  <1>6. QED
    BY <1>3, <1>5 DEF SlotInv

LEMMA GameThreadsKeep ==
  ASSUME SlotInv, Threads
  PROVE  SlotInv'
  <1>inv. /\ QueuesOK(queue, external) /\ blocked \subseteq {"game", "worker"}
          /\ game \in {"spin", "take", "post"} /\ rdp \in {"idle", "list", "done"}
          /\ busy \in BOOLEAN /\ slots \in Nat
          /\ queue \in Seq(Messages) /\ external \in Seq(External)
    BY DEF SlotInv, HandType, QueuesOK
  <1>sum. SlotSum(slots, game, InFlight(queue, external), rdp)
    BY <1>inv, OneSlotSum DEF SlotInv
  <1> USE <1>inv
  <1>1. ASSUME yield_in_spin PROVE SlotInv'
    <2> DEFINE d == DeliverOne
    <2>1. Delivers(d)
      BY DeliverOneDelivers
    <2> HIDE DEF d
    <2>2. Settled(blocked, d.queue, d.external, slots, "spin") /\ game = "spin"
          /\ UNCHANGED <<busy, rdp>>
      BY <1>1 DEF yield_in_spin, d
    <2>3. QED
      BY <2>1, <2>2, <1>sum, SettledKeeps DEF Delivers
  <1>2. ASSUME LeaveSpin PROVE SlotInv'
    <2>1. game = "spin" /\ game' = "take"
          /\ UNCHANGED <<running, blocked, busy, external, queue, slots, rdp>>
      BY <1>2 DEF LeaveSpin
    <2>2. HandType'
      BY <2>1 DEF SlotInv, HandType, QueuesOK, Bounded, Held
    <2>3. OneSlot'
      BY <2>1 DEF SlotInv, OneSlot, Held
    <2>4. QED
      BY <2>2, <2>3 DEF SlotInv
  <1>3. ASSUME Take PROVE SlotInv'
    <2> DEFINE d == Arrived("game")
    <2>1. Delivers(d)
      BY ArrivedDelivers
    <2> HIDE DEF d
    <2>2. InFlight(d.queue, d.external) \in Nat
      BY <2>1, FlightType DEF Delivers, QueuesOK
    <2>3. game = "take" /\ UNCHANGED <<busy, rdp>>
      BY <1>3 DEF Take
    <2>4. CASE slots > 0
      <3>1. Settled(blocked \ {"game"}, d.queue, d.external, slots - 1, "post")
        BY <1>3, <2>4 DEF Take, d
      <3>2. SlotSum(slots - 1, "post", InFlight(d.queue, d.external), rdp)
        BY <1>sum, <2>1, <2>2, <2>3 DEF Delivers, SlotSum
      <3>3. slots - 1 \in Nat
        BY <2>4
      <3>4. QED
        BY <2>1, <2>3, <3>1, <3>2, <3>3, SettledKeeps DEF Delivers
    <2>5. CASE ~(slots > 0)
      <3>1. Settled(blocked \cup {"game"}, d.queue, d.external, slots, "take")
        BY <1>3, <2>5 DEF Take, d
      <3>2. QED
        BY <1>sum, <2>1, <2>3, <3>1, SettledKeeps DEF Delivers
    <2>6. QED
      BY <2>4, <2>5
  <1>4. ASSUME Post PROVE SlotInv'
    <2> DEFINE d == Arrived("game")
    <2>1. Delivers(d)
      BY ArrivedDelivers
    <2> HIDE DEF d
    <2>2. /\ d.queue \in Seq(Messages) /\ d.external \in Seq(External)
          /\ Len(d.queue) \in Nat
      BY <2>1, LenProperties DEF Delivers, QueuesOK
    <2>3. game = "post" /\ UNCHANGED <<busy, rdp>>
      BY <1>4 DEF Post
    <2>4. CASE Len(d.queue) < QueueSize
      <3> DEFINE q == Append(d.queue, "task")
      <3>1. Settled(blocked \ {"game"}, q, d.external, slots, "take")
        BY <1>4, <2>4 DEF Post, d
      <3>2. q \in Seq(Messages) /\ Len(q) = Len(d.queue) + 1
        BY <2>2, AppendProperties DEF Messages
      <3>3. Held(q, {"task", "DP"}) = Held(d.queue, {"task", "DP"}) + 1
        <4>1. "task" \in Messages
          BY DEF Messages
        <4>2. Held(q, {"task", "DP"}) =
                Held(d.queue, {"task", "DP"}) + IF "task" \in {"task", "DP"} THEN 1 ELSE 0
          BY <2>2, <4>1, HeldAppend
        <4>3. QED
          BY <4>2
      <3>4. /\ Held(d.queue, {"task", "DP"}) \in Nat /\ Held(d.external, {"DP"}) \in Nat
        BY <2>2, HeldType
      <3> HIDE DEF q
      <3>5. SlotSum(slots, "take", InFlight(q, d.external), rdp)
        <4>1. InFlight(q, d.external) = InFlight(d.queue, d.external) + 1
          BY <3>3, <3>4 DEF InFlight
        <4>2. InFlight(d.queue, d.external) \in Nat
          BY <2>2, FlightType
        <4>3. QED
          BY <1>sum, <2>1, <2>3, <4>1, <4>2 DEF Delivers, SlotSum
      <3>6. QueuesOK(q, d.external)
        BY <2>1, <2>2, <2>4, <3>2, HandshakeAssumption DEF Delivers, QueuesOK
      <3>7. QED
        BY <2>3, <3>1, <3>5, <3>6, SettledKeeps
    <2>5. CASE ~(Len(d.queue) < QueueSize)
      <3>1. Settled(blocked \cup {"game"}, d.queue, d.external, slots, "post")
        BY <1>4, <2>5 DEF Post, d
      <3>2. QED
        BY <1>sum, <2>1, <2>3, <3>1, SettledKeeps DEF Delivers
    <2>6. QED
      BY <2>4, <2>5
  <1>5. ASSUME Serve PROVE SlotInv'
    <2> DEFINE d == Arrived("worker")
               m == Head(d.queue)
    <2>1. Delivers(d)
      BY ArrivedDelivers
    <2> HIDE DEF d
    <2>2. /\ d.queue \in Seq(Messages) /\ d.external \in Seq(External)
          /\ Len(d.queue) \in Nat /\ Len(d.queue) <= QueueSize /\ QueueSize \in Nat
      BY <2>1, LenProperties, HandshakeAssumption DEF Delivers, QueuesOK
    <2>3. CASE d.queue = <<>>
      <3>1. /\ Settled(blocked \cup {"worker"}, d.queue, d.external, slots, game)
            /\ UNCHANGED <<busy, rdp>>
        BY <1>5, <2>3 DEF Serve, d
      <3>2. QED
        BY <1>sum, <2>1, <3>1, SettledKeeps DEF Delivers
    <2>4. CASE d.queue # <<>>
      <3>1. /\ blocked' = blocked \ {"worker"}
            /\ queue' = Tail(d.queue) /\ external' = d.external
            /\ slots' = IF m = "DP" THEN slots + 1 ELSE slots
            /\ rdp' = IF m = "task" THEN "list" ELSE rdp
            /\ busy' = FALSE
            /\ UNCHANGED <<running, game>>
        BY <1>5, <2>4 DEF Serve, d
      <3>2. /\ m \in Messages /\ Tail(d.queue) \in Seq(Messages)
            /\ Len(Tail(d.queue)) = Len(d.queue) - 1
        BY <2>2, <2>4, HeadTailProperties
      <3>3. Held(d.queue, {"task", "DP"}) =
              Held(Tail(d.queue), {"task", "DP"}) + IF m \in {"task", "DP"} THEN 1 ELSE 0
        BY <2>2, <2>4, HeldTail
      <3>4. /\ Held(Tail(d.queue), {"task", "DP"}) \in Nat
            /\ Held(d.external, {"DP"}) \in Nat
        BY <2>2, <3>2, HeldType
      <3>5. SlotSum(slots, game, Held(d.queue, {"task", "DP"}) + Held(d.external, {"DP"}), rdp)
        BY <1>sum, <2>1 DEF Delivers, InFlight
      <3> DEFINE held == Held(Tail(d.queue), {"task", "DP"})
                 posted == Held(d.external, {"DP"})
                 before == Held(d.queue, {"task", "DP"})
      <3>6. /\ held \in Nat /\ posted \in Nat
            /\ before = held + IF m \in {"task", "DP"} THEN 1 ELSE 0
            /\ SlotSum(slots, game, before + posted, rdp)
        BY <3>3, <3>4, <3>5
      <3> HIDE DEF held, posted, before, m
      <3>7. SlotSum(slots', game, held + posted, rdp')
        <4>1. CASE m = "DP"
          <5>1. before = held + 1
            BY <3>6, <4>1
          <5>2. slots' = slots + 1 /\ rdp' = rdp
            BY <3>1, <4>1 DEF m
          <5>3. QED
            BY <3>6, <5>1, <5>2 DEF SlotSum
        <4>2. CASE m = "task"
          <5>1. before = held + 1
            BY <3>6, <4>2
          <5>2. slots' = slots /\ rdp' = "list"
            BY <3>1, <4>2 DEF m
          <5>3. QED
            BY <3>6, <5>1, <5>2 DEF SlotSum
        <4>3. CASE m \notin {"task", "DP"}
          <5>1. before = held
            BY <3>6, <4>3
          <5>2. slots' = slots /\ rdp' = rdp
            BY <3>1, <4>3 DEF m
          <5>3. QED
            BY <3>6, <5>1, <5>2 DEF SlotSum
        <4>4. QED
          BY <4>1, <4>2, <4>3
      <3>8. slots' \in Nat /\ rdp' \in {"idle", "list", "done"}
        BY <3>1 DEF m
      <3>9. OneSlot'
        <4>1. Held(queue', {"task", "DP"}) = held /\ Held(external', {"DP"}) = posted
          BY <3>1 DEF held, posted
        <4>2. slots' + (IF game' = "post" THEN 1 ELSE 0) + held + posted
                + (IF rdp' # "idle" THEN 1 ELSE 0) = 1
          BY <3>1, <3>6, <3>7, <3>8 DEF SlotSum
        <4>3. QED
          BY <4>1, <4>2 DEF OneSlot, Held
      <3>10. HandType'
        <4>1. QueuesOK(Tail(d.queue), d.external)
          BY <2>1, <2>2, <3>2 DEF QueuesOK, Delivers
        <4>2. (QueuesOK(queue, external))'
          BY <3>1, <4>1 DEF QueuesOK, Bounded, Held
        <4>3. QED
          BY <3>1, <3>8, <4>2 DEF SlotInv, HandType
      <3>11. QED
        BY <3>9, <3>10 DEF SlotInv
    <2>5. QED
      BY <2>3, <2>4
  <1>6. ASSUME Idle PROVE SlotInv'
    <2> DEFINE d == DeliverAll
    <2>1. Delivers(d)
      BY DeliverAllDelivers
    <2> HIDE DEF d
    <2>2. Settled(blocked, d.queue, d.external, slots, game) /\ UNCHANGED <<busy, rdp>>
      BY <1>6 DEF Idle, d
    <2>3. QED
      BY <2>1, <2>2, <1>sum, SettledKeeps DEF Delivers
  <1>7. QED
    BY <1>1, <1>2, <1>3, <1>4, <1>5, <1>6 DEF Threads

LEMMA RetraceKeeps ==
  ASSUME SlotInv, Retrace
  PROVE  SlotInv'
  <1>1. /\ queue \in Seq(Messages) /\ external \in Seq(External) /\ "VI" \in External
        /\ Len(external) < MaxExternal /\ external' = Append(external, "VI")
        /\ UNCHANGED <<running, game, blocked, busy, queue, slots, rdp>>
    BY DEF SlotInv, HandType, QueuesOK, Retrace, External
  <1>2. /\ external' \in Seq(External) /\ Len(external') = Len(external) + 1
        /\ Len(external) \in Nat
    BY <1>1, AppendProperties, LenProperties
  <1>3. Held(external', {"DP"}) = Held(external, {"DP"})
    <2>1. Held(external, {"DP"}) \in Nat
      BY <1>1, HeldType
    <2>2. Held(Append(external, "VI"), {"DP"}) =
            Held(external, {"DP"}) + IF "VI" \in {"DP"} THEN 1 ELSE 0
      BY <1>1, HeldAppend
    <2>3. QED
      BY <1>1, <2>1, <2>2
  <1>4. Held(external, {"DP"}) \in Nat
    BY <1>1, HeldType
  <1>5. Len(external') <= MaxExternal + Held(external', {"DP"})
    BY <1>1, <1>2, <1>3, <1>4, HandshakeAssumption
  <1>6. HandType'
    BY <1>1, <1>2, <1>5 DEF SlotInv, HandType, QueuesOK, Bounded, Held
  <1>7. OneSlot'
    BY <1>1, <1>3 DEF SlotInv, OneSlot, Held
  <1>8. QED
    BY <1>6, <1>7 DEF SlotInv

LEMMA FinishKeeps ==
  ASSUME SlotInv, Finish
  PROVE  SlotInv'
  <1>1. HandType'
    BY DEF SlotInv, HandType, Finish, QueuesOK, Bounded, Held
  <1>2. OneSlot'
    BY DEF SlotInv, OneSlot, Held, Finish
  <1>3. QED
    BY <1>1, <1>2 DEF SlotInv

LEMMA CompleteKeeps ==
  ASSUME SlotInv, Complete
  PROVE  SlotInv'
  <1>1. /\ queue \in Seq(Messages) /\ external \in Seq(External) /\ "DP" \in External
        /\ external' = Append(external, "DP") /\ rdp = "done" /\ rdp' = "idle"
        /\ UNCHANGED <<running, game, blocked, busy, queue, slots>>
    BY DEF SlotInv, HandType, QueuesOK, Complete, External
  <1>2. /\ external' \in Seq(External) /\ Len(external') = Len(external) + 1
        /\ Len(external) \in Nat
    BY <1>1, AppendProperties, LenProperties
  <1>3. Held(external', {"DP"}) = Held(external, {"DP"}) + 1
    <2>1. Held(Append(external, "DP"), {"DP"}) =
            Held(external, {"DP"}) + IF "DP" \in {"DP"} THEN 1 ELSE 0
      BY <1>1, HeldAppend
    <2>2. QED
      BY <1>1, <2>1
  <1>4. Held(external, {"DP"}) \in Nat /\ Held(queue, {"task", "DP"}) \in Nat
    BY <1>1, HeldType
  <1>5. Len(external) <= MaxExternal + Held(external, {"DP"})
    BY DEF SlotInv, HandType, QueuesOK, Bounded
  <1>6. Len(external') <= MaxExternal + Held(external', {"DP"})
    BY <1>2, <1>3, <1>4, <1>5, HandshakeAssumption
  <1>7. HandType'
    BY <1>1, <1>2, <1>6 DEF SlotInv, HandType, QueuesOK, Bounded, Held
  <1>8. OneSlot'
    <2> DEFINE queued == Held(queue, {"task", "DP"})
               posted == Held(external, {"DP"})
    <2>1. /\ slots + (IF game = "post" THEN 1 ELSE 0) + queued + posted + 1 = 1
          /\ slots \in Nat
      BY <1>1 DEF SlotInv, HandType, OneSlot
    <2>2. Held(queue', {"task", "DP"}) = queued /\ Held(external', {"DP"}) = posted + 1
      BY <1>1, <1>3
    <2>3. queued \in Nat /\ posted \in Nat
      BY <1>4
    <2> HIDE DEF queued, posted
    <2>4. slots' + (IF game' = "post" THEN 1 ELSE 0) + queued + (posted + 1)
            + (IF rdp' # "idle" THEN 1 ELSE 0) = 1
      BY <1>1, <2>1, <2>3
    <2>5. QED
      BY <2>2, <2>4 DEF OneSlot, Held
  <1>9. QED
    BY <1>7, <1>8 DEF SlotInv

LEMMA SlotInit == Init => SlotInv
  <1> SUFFICES ASSUME Init PROVE SlotInv
    OBVIOUS
  <1>1. /\ running = "game" /\ game = "spin" /\ blocked = {"worker"} /\ busy = TRUE
        /\ external = <<>> /\ queue = <<>> /\ slots = 1 /\ rdp = "idle"
    BY DEF Init, HandshakeInit
  <1>2. \A kinds : Held(<<>>, kinds) = 0
    BY HeldEmpty
  <1>3. OneSlot
    <2>1. Held(queue, {"task", "DP"}) = 0 /\ Held(external, {"DP"}) = 0
      BY <1>1, <1>2
    <2>2. QED
      BY <1>1, <2>1 DEF OneSlot
  <1>4. QueuesOK(queue, external)
    <2>1. Held(external, {"DP"}) = 0 /\ Len(queue) = 0 /\ Len(external) = 0
      BY <1>1, <1>2
    <2>2. queue \in Seq(Messages) /\ external \in Seq(External)
      BY <1>1
    <2>3. QED
      BY <2>1, <2>2, HandshakeAssumption DEF QueuesOK, Bounded
  <1>5. QED
    BY <1>1, <1>3, <1>4 DEF SlotInv, HandType

LEMMA SlotStep ==
  ASSUME SlotInv, [Next]_vars
  PROVE  SlotInv'
  <1>still. ASSUME UNCHANGED handshakeVars PROVE SlotInv'
    BY <1>still DEF SlotInv, HandType, QueuesOK, Bounded, OneSlot, Held, handshakeVars
  <1>1. CASE UNCHANGED vars
    BY <1>1, <1>still DEF vars
  <1>2. CASE \/ Configure \/ Throw \/ Create \/ Quit \/ Shutdown
             \/ Wait \/ load_stored_rom \/ maybe_autostart \/ Screen \/ Settings
    BY <1>2, <1>still
    DEF Configure, Throw, Create, Quit, Shutdown, Wait, load_stored_rom, maybe_autostart,
        Screen, Settings
  <1>3. CASE send_dl
    BY <1>3, <1>still, FinishKeeps DEF send_dl
  <1>4. CASE GameThreads
    BY <1>4, GameThreadsKeep DEF GameThreads
  <1>5. CASE Vertical
    BY <1>5, RetraceKeeps DEF Vertical
  <1>6. CASE RdpDone
    BY <1>6, CompleteKeeps DEF RdpDone
  <1>7. QED
    BY <1>1, <1>2, <1>3, <1>4, <1>5, <1>6 DEF Next

\* The one framebuffer slot is never lost and never doubled, whatever finds the
\* worker's queue full and however long the host's threads run ahead.
THEOREM SlotNeverLost == Spec => []OneSlot
  <1>1. SlotInv => OneSlot
    BY DEF SlotInv
  <1>2. QED
    BY <1>1, SlotInit, SlotStep, PTL DEF Spec

-----------------------------------------------------------------------------
(* Starting the game                                                       *)

\* A dump in memory was put there by the starter of a plain build, which has
\* then started the game; nobody starts it twice, nor before a dump was chosen.
StartInv ==
  /\ build \in {"plain", "frontend"} /\ started \in 0 .. 1
  /\ waited \in 0 .. MaxWaits
  /\ starter \in {"waiting", "ready", "done"} /\ main \in {"roms", "failed", "up", "quitting"}
  /\ rom \in {"none", "stored", "loaded"}
  /\ started > 0 => starter = "done" /\ main # "roms"
  /\ starter # "waiting" /\ build = "plain" => ticked \/ waited = MaxWaits
  /\ rom = "loaded" => build = "plain" /\ starter = "done"
  /\ StartIsReady

RendererType ==
  /\ app \in {"none", "null", "up", "over"} /\ ended \in BOOLEAN /\ ticked \in BOOLEAN
  /\ call \in [Callers -> {"out", "checked", "inside"}]

LEMMA RendererStep ==
  ASSUME RendererType, [Next]_vars
  PROVE  RendererType' /\ (ticked => ticked')
  <1> USE DEF RendererType
  <1>still. ASSUME UNCHANGED rendererVars PROVE RendererType' /\ (ticked => ticked')
    BY <1>still DEF rendererVars
  <1>call. ASSUME NEW c \in Callers, Ask(c) \/ Go(c) \/ Return(c)
           PROVE  RendererType' /\ (ticked => ticked')
    BY <1>call DEF Ask, Go, Return
  <1>1. CASE UNCHANGED vars
    BY <1>1, <1>still DEF vars
  <1>2. CASE \/ Configure \/ Throw \/ Quit \/ Wait \/ load_stored_rom \/ maybe_autostart
             \/ GameThreads \/ Vertical \/ RdpDone
    BY <1>2, <1>still
    DEF Configure, Throw, Quit, Wait, load_stored_rom, maybe_autostart,
        GameThreads, Vertical, RdpDone
  <1>3. CASE Create \/ Shutdown
    BY <1>3 DEF Create, create_render_context, Shutdown, shutdown_mark, shutdown_end
  <1>4. CASE Screen \/ Settings
    BY <1>4, <1>call DEF Screen, Settings, update_screen, update_config, Callers
  <1>5. CASE send_dl
    BY <1>5, <1>call, <1>still DEF send_dl, Callers
  <1>6. QED
    BY <1>1, <1>2, <1>3, <1>4, <1>5 DEF Next

LEMMA StartStep ==
  ASSUME RendererType, StartInv, [Next]_vars
  PROVE  StartInv'
  <1> USE GameLoopAssumption DEF StartInv, StartIsReady
  <1>tick. ticked => ticked'
    BY RendererStep
  <1>still. ASSUME UNCHANGED mainVars PROVE StartInv'
    BY <1>still, <1>tick DEF mainVars
  <1>1. CASE UNCHANGED vars
    BY <1>1, <1>still DEF vars
  <1>2. CASE Configure
    BY <1>2, <1>tick DEF Configure, select_and_report
  <1>3. CASE Throw \/ Quit
    BY <1>3, <1>tick DEF Throw, Quit
  <1>4. CASE Wait
    BY <1>4, <1>tick DEF Wait, MayStart
  <1>5. CASE load_stored_rom
    BY <1>5, <1>tick DEF load_stored_rom
  <1>6. CASE maybe_autostart
    BY <1>6, <1>tick DEF maybe_autostart
  <1>7. CASE \/ Create \/ Shutdown \/ Screen \/ Settings \/ send_dl
             \/ GameThreads \/ Vertical \/ RdpDone
    BY <1>7, <1>still
    DEF Create, Shutdown, Screen, Settings, send_dl, GameThreads, Vertical, RdpDone
  <1>8. QED
    BY <1>1, <1>2, <1>3, <1>4, <1>5, <1>6, <1>7 DEF Next

LEMMA StartInit == Init => StartInv /\ RendererType
  <1> SUFFICES ASSUME Init PROVE StartInv /\ RendererType
    OBVIOUS
  <1>1. StartInv
    BY GameLoopAssumption DEF Init, StartInv, StartIsReady
  <1>2. RendererType
    BY DEF Init, RendererInit, RendererType
  <1>3. QED
    BY <1>1, <1>2

\* The game starts once, with a dump, and not ahead of the first frame unless
\* the whole wait went by: whichever of the two starters the build has, and
\* whatever the renderer, the player and the threads do meanwhile.
THEOREM StartsWhenReady == Spec => []StartIsReady
  <1>1. StartInv => StartIsReady
    BY DEF StartInv
  <1>2. QED
    BY <1>1, StartInit, RendererStep, StartStep, PTL DEF Spec

\* The queues stay within their bounds, and the slot within one: the type
\* needs the slot's invariant, since a second completion would overrun both.
THEOREM SessionTypes == Spec => []TypeOK
  <1>1. SlotInv /\ StartInv /\ RendererType => TypeOK
    <2> SUFFICES ASSUME SlotInv, StartInv, RendererType PROVE TypeOK
      OBVIOUS
    <2>1. /\ queue \in Seq(Messages) /\ external \in Seq(External) /\ slots \in Nat
          /\ Len(queue) <= QueueSize /\ Len(external) <= MaxExternal + Held(external, {"DP"})
      BY DEF SlotInv, HandType, QueuesOK, Bounded
    <2>2. /\ Held(queue, {"task", "DP"}) \in Nat /\ Held(external, {"DP"}) \in Nat
          /\ Len(external) \in Nat
      BY <2>1, HeldType, LenProperties
    <2>3. slots <= 1 /\ Held(external, {"DP"}) <= 1
      BY <2>1, <2>2 DEF SlotInv, OneSlot
    <2>4. Len(external) <= MaxExternal + 1 /\ slots \in 0 .. 1
      BY <2>1, <2>2, <2>3, HandshakeAssumption
    <2>5. QED
      BY <2>1, <2>4
      DEF SlotInv, HandType, StartInv, RendererType, TypeOK, Messages, External
  <1>2. QED
    BY <1>1, SlotInit, SlotStep, StartInit, RendererStep, StartStep, PTL DEF Spec

-----------------------------------------------------------------------------
(* Nobody sleeps for ever                                                  *)

\* check_running_queue: the CPU is idle only while a frame is with the
\* renderer or its completion on the way back, with nothing left to serve. The
\* loop then goes on by that completion, whether or not a retrace comes.
IdleAwaitsFrame ==
  running = "idle" =>
    /\ game = "take" /\ slots = 0 /\ queue = <<>>
    /\ rdp # "idle" \/ \E i \in DOMAIN external : external[i] = "DP"

\* rayman2_yield_in_spin: one turn of the spin with a message waiting gives
\* the CPU to the worker with something to serve, and serving it ends the spin.
SpinHandsOver ==
  [][/\ yield_in_spin /\ external # <<>> => running' = "worker" /\ queue' # <<>>
     /\ Serve /\ queue # <<>> => ~busy']_vars

\* Idle is what the scheduler found, and still so: every call looks again.
IdleInv ==
  /\ running = "idle" =>
       ~WorkerReady(blocked, queue) /\ ~GameReady(blocked, queue, slots, game)
  /\ game = "spin" => "game" \notin blocked

LEMMA IdleStep ==
  ASSUME IdleInv, [Next]_vars
  PROVE  IdleInv'
  <1>still. ASSUME UNCHANGED <<running, game, blocked, queue, slots>> PROVE IdleInv'
    BY <1>still DEF IdleInv, WorkerReady, GameReady
  <1>settled. ASSUME NEW b, NEW q, NEW e, NEW s, NEW at, Settled(b, q, e, s, at),
                     at = "spin" => "game" \notin b
              PROVE  IdleInv'
    <2>1. /\ blocked' = b /\ queue' = q /\ slots' = s /\ game' = at
          /\ running' = Highest(b, q, s, at)
      BY <1>settled DEF Settled
    <2>2. running' = "idle" => ~WorkerReady(b, q) /\ ~GameReady(b, q, s, at)
      BY <2>1 DEF Highest
    <2>3. QED
      BY <2>1, <2>2, <1>settled DEF IdleInv, WorkerReady, GameReady
  <1>1. CASE UNCHANGED vars
    BY <1>1, <1>still DEF vars, handshakeVars
  <1>2. CASE \/ Configure \/ Throw \/ Create \/ Quit \/ Shutdown
             \/ Wait \/ load_stored_rom \/ maybe_autostart \/ Screen \/ Settings
    BY <1>2, <1>still
    DEF Configure, Throw, Create, Quit, Shutdown, Wait, load_stored_rom, maybe_autostart,
        Screen, Settings, handshakeVars
  <1>3. CASE send_dl \/ Vertical \/ RdpDone
    BY <1>3, <1>still DEF send_dl, Vertical, RdpDone, Finish, Retrace, Complete, handshakeVars
  <1>4. CASE yield_in_spin
    BY <1>4, <1>settled DEF yield_in_spin, IdleInv
  <1>5. CASE LeaveSpin
    BY <1>5 DEF LeaveSpin, IdleInv
  <1>6. CASE Take \/ Post
    BY <1>6, <1>settled DEF Take, Post
  <1>7. CASE Idle
    BY <1>7, <1>settled DEF Idle, IdleInv
  <1>8. CASE Serve
    <2>1. CASE Arrived("worker").queue = <<>>
      BY <1>8, <2>1, <1>settled DEF Serve, IdleInv
    <2>2. CASE Arrived("worker").queue # <<>>
      BY <1>8, <2>2 DEF Serve, IdleInv
    <2>3. QED
      BY <2>1, <2>2
  <1>9. QED
    BY <1>1, <1>2, <1>3, <1>4, <1>5, <1>6, <1>7, <1>8 DEF Next, GameThreads, Threads

\* With every thread blocked, the one slot is with the RDP or comes back.
THEOREM IdleOnlyForAFrame == Spec => []IdleAwaitsFrame
  <1>1. Init => IdleInv
    BY DEF Init, HandshakeInit, IdleInv
  <1>2. SlotInv /\ IdleInv => IdleAwaitsFrame
    <2> SUFFICES ASSUME SlotInv, IdleInv, running = "idle"
                 PROVE  /\ game = "take" /\ slots = 0 /\ queue = <<>>
                        /\ rdp # "idle" \/ \E i \in DOMAIN external : external[i] = "DP"
      BY DEF IdleAwaitsFrame
    <2>1. /\ game \in {"spin", "take", "post"} /\ slots \in Nat
          /\ queue \in Seq(Messages) /\ external \in Seq(External)
      BY DEF SlotInv, HandType, QueuesOK
    <2>2. queue = <<>> /\ "game" \in blocked /\ game # "spin"
      BY DEF IdleInv, WorkerReady, GameReady
    <2>3. game = "take" /\ slots = 0
      BY <2>1, <2>2, HandshakeAssumption DEF IdleInv, GameReady
    <2>4. Held(queue, {"task", "DP"}) = 0
      BY <2>2, HeldEmpty
    <2>5. Held(external, {"DP"}) + (IF rdp # "idle" THEN 1 ELSE 0) = 1
      <3>1. Held(external, {"DP"}) \in Nat
        BY <2>1, HeldType
      <3>2. QED
        BY <2>3, <2>4, <3>1 DEF SlotInv, OneSlot
    <2>6. ASSUME rdp = "idle"
          PROVE  \E i \in DOMAIN external : external[i] = "DP"
      <3>1. Held(external, {"DP"}) # 0
        BY <2>5, <2>6
      <3>2. {i \in DOMAIN external : external[i] \in {"DP"}} # {}
        BY <3>1, FS_EmptySet DEF Held
      <3>3. QED
        BY <3>2
    <2>7. QED
      BY <2>2, <2>3, <2>6
  <1>3. QED
    BY <1>1, <1>2, IdleStep, SlotInit, SlotStep, PTL DEF Spec

\* One message is enough to leave the spin, whatever fills the queue.
THEOREM SpinGivesWay == Spec => SpinHandsOver
  <1>1. SlotInv /\ [Next]_vars =>
          [/\ yield_in_spin /\ external # <<>> => running' = "worker" /\ queue' # <<>>
           /\ Serve /\ queue # <<>> => ~busy']_vars
    <2> SUFFICES ASSUME SlotInv
                 PROVE  /\ yield_in_spin /\ external # <<>> =>
                             running' = "worker" /\ queue' # <<>>
                        /\ Serve /\ queue # <<>> => ~busy'
      OBVIOUS
    <2>1. queue \in Seq(Messages) /\ external \in Seq(External)
      BY DEF SlotInv, HandType, QueuesOK
    <2>2. ASSUME yield_in_spin, external # <<>>
          PROVE  running' = "worker" /\ queue' # <<>>
      <3> DEFINE d == DeliverOne
      <3>1. d.queue # <<>>
        <4>1. CASE Len(queue) < QueueSize
          <5>1. d.queue = Append(queue, Head(external))
            BY <4>1, <2>2 DEF DeliverOne, Delivery
          <5>2. Head(external) \in Messages
            BY <2>1, <2>2 DEF Messages, External
          <5>3. Len(Append(queue, Head(external))) = Len(queue) + 1 /\ Len(queue) \in Nat
            BY <2>1, <5>2, AppendProperties, LenProperties
          <5> HIDE DEF d
          <5>4. Len(d.queue) # 0
            BY <5>1, <5>3
          <5>5. QED
            BY <5>4
        <4>2. CASE ~(Len(queue) < QueueSize)
          <5>1. d.queue = queue
            BY <4>2, <2>2 DEF DeliverOne, Delivery
          <5>2. Len(queue) # 0
            BY <4>2, <2>1, HandshakeAssumption
          <5>3. QED
            BY <5>1, <5>2
        <4>3. QED
          BY <4>1, <4>2
      <3> HIDE DEF d
      <3>2. queue' = d.queue /\ running' = Highest(blocked, d.queue, slots, "spin")
        BY <2>2 DEF yield_in_spin, Settled, d
      <3>3. QED
        BY <3>1, <3>2 DEF Highest, WorkerReady
    <2>3. ASSUME Serve, queue # <<>>
          PROVE  ~busy'
      <3>1. Arrived("worker").queue # <<>>
        <4>1. CASE "worker" \in blocked
          BY <4>1, <2>3 DEF Arrived, Delivery
        <4>2. CASE "worker" \notin blocked
          <5> DEFINE room == QueueSize - Len(queue)
                     n == IF Len(external) < room THEN Len(external) ELSE room
                     arriving == SubSeq(external, 1, n)
          <5>1. Arrived("worker").queue = queue \o arriving
            BY <4>2 DEF Arrived, DeliverAll, Delivery
          <5>2. /\ Len(queue) \in Nat /\ Len(queue) # 0 /\ Len(queue) <= QueueSize
                /\ Len(external) \in Nat
            BY <2>1, <2>3, LenProperties DEF SlotInv, HandType, QueuesOK
          <5>3. n \in 0 .. Len(external)
            BY <5>2, HandshakeAssumption
          <5> HIDE DEF n
          <5>4. arriving \in Seq(External)
            BY <2>1, <5>3, SubSeqProperties
          <5> HIDE DEF arriving
          <5>5. queue \in Seq(Messages) /\ arriving \in Seq(Messages)
            BY <2>1, <5>4 DEF Messages, External
          <5>6. Len(queue \o arriving) = Len(queue) + Len(arriving) /\ Len(arriving) \in Nat
            BY <5>5, ConcatProperties, LenProperties
          <5>7. QED
            BY <5>1, <5>2, <5>6
        <4>3. QED
          BY <4>1, <4>2
      <3>2. QED
        BY <2>3, <3>1 DEF Serve
    <2>4. QED
      BY <2>2, <2>3
  <1>2. QED
    BY <1>1, SlotInit, SlotStep, PTL DEF Spec, SpinHandsOver
=============================================================================
