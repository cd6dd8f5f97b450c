--------------------------- MODULE FrameHandshake ----------------------------
(***************************************************************************)
(* The game's threads on the runtime's cooperative scheduler                *)
(* (src/src/spin_yield.cpp and the message-queue control of src/src/main.cpp).*)
(* Only the calls on message queues deliver what the host's threads post and *)
(* let another thread run; a thread that spins calls none of them but for   *)
(* the hook.                                                               *)
(*                                                                         *)
(* The game thread spins at the end of graphics initialisation on a byte the *)
(* worker clears; from then on it takes the one free framebuffer slot,      *)
(* posts a task and waits for the slot.  The worker, of higher priority,     *)
(* serves the queue that tasks, retraces and completions arrive in.         *)
(***************************************************************************)
EXTENDS Integers, Sequences, FiniteSets

CONSTANTS QueueSize,   \* messages the worker's queue holds
          MaxExternal  \* bound: retraces waiting to be delivered

ASSUME HandshakeAssumption == QueueSize \in Nat \ {0} /\ MaxExternal \in Nat \ {0}

VARIABLES
  running,   \* the thread that has the CPU: "game", "worker" or "idle"
  game,      \* where the game thread is: "spin", "take" a slot or "post" a task
  blocked,   \* the threads that are inside a call and have delivered
  busy,      \* the byte: set until the worker, blocked in osRecvMesg, is served once
  external,  \* posted by the host's threads and not delivered
  queue,     \* the worker's message queue
  slots,     \* free framebuffer slots
  rdp        \* "idle", a "list" submitted, or "done" and not yet posted

handshakeVars == <<running, game, blocked, busy, external, queue, slots, rdp>>

HandshakeInit ==
  /\ running = "game"
  /\ game = "spin"
  /\ blocked = {"worker"}
  /\ busy = TRUE
  /\ external = <<>>
  /\ queue = <<>>
  /\ slots = 1
  /\ rdp = "idle"

-----------------------------------------------------------------------------
(* Delivery                                                                *)

\* MessageQueueControl's defaults: the RDP's completion is put back when its
\* queue is full, a retrace is thrown away.
Requeues_nothing(source) == FALSE
Requeues(source) == source \in {"timer", "RSP", "SI", "DP"}

Delivery(q, e) == [queue |-> q, external |-> e]

\* Of what finds the queue full, the completions go back; one is like another.
PutBack(messages) ==
  [k \in 1 .. Cardinality({i \in DOMAIN messages : Requeues(messages[i])}) |-> "DP"]

\* A queue call delivers everything that waits, before it does anything else.
DeliverAll_unchecked == Delivery(queue \o external, <<>>)
DeliverAll ==
  LET room == QueueSize - Len(queue)
      n == IF Len(external) < room THEN Len(external) ELSE room
  IN  Delivery(queue \o SubSeq(external, 1, n),
               PutBack(SubSeq(external, n + 1, Len(external))))

\* The hook waits at most a millisecond for one message; none may come.
DeliverOne_never == Delivery(queue, external)
DeliverOne ==
  IF external = <<>> THEN Delivery(queue, external)
  ELSE IF Len(queue) < QueueSize
    THEN Delivery(Append(queue, Head(external)), Tail(external))
  ELSE Delivery(queue, IF Requeues(Head(external)) THEN Append(Tail(external), Head(external))
                                                ELSE Tail(external))

Arrived(t) == IF t \in blocked THEN Delivery(queue, external) ELSE DeliverAll

\* A blocked thread is ready when its call can go on.
GameReady(b, q, s, at) ==
  \/ "game" \notin b
  \/ at = "take" /\ s > 0
  \/ at = "post" /\ Len(q) < QueueSize
WorkerReady(b, q) == "worker" \notin b \/ q # <<>>

\* The ready thread of the highest priority runs: check_running_queue.
Highest(b, q, s, at) ==
  IF WorkerReady(b, q) THEN "worker" ELSE IF GameReady(b, q, s, at) THEN "game" ELSE "idle"

\* A call ends, or leaves its thread among the blocked b, with q, e and s in place.
Settled(b, q, e, s, at) ==
  /\ blocked' = b /\ queue' = q /\ external' = e /\ slots' = s /\ game' = at
  /\ running' = Highest(b, q, s, at)

-----------------------------------------------------------------------------
(* The game thread                                                         *)

\* rayman2_yield_in_spin, in the body of the loop.
yield_in_spin ==
  /\ running = "game" /\ game = "spin" /\ busy
  /\ LET d == DeliverOne IN Settled(blocked, d.queue, d.external, slots, "spin")
  /\ UNCHANGED <<busy, rdp>>

LeaveSpin ==
  /\ running = "game" /\ game = "spin" /\ ~busy
  /\ game' = "take"
  /\ UNCHANGED <<running, blocked, busy, external, queue, slots, rdp>>

\* Without a free slot it blocks.
Take ==
  /\ running = "game" /\ game = "take"
  /\ LET d == Arrived("game")
     IN  IF slots > 0 THEN Settled(blocked \ {"game"}, d.queue, d.external, slots - 1, "post")
                      ELSE Settled(blocked \cup {"game"}, d.queue, d.external, slots, "take")
  /\ UNCHANGED <<busy, rdp>>

Post ==
  /\ running = "game" /\ game = "post"
  /\ LET d == Arrived("game")
     IN  IF Len(d.queue) < QueueSize
           THEN Settled(blocked \ {"game"}, Append(d.queue, "task"), d.external, slots, "take")
           ELSE Settled(blocked \cup {"game"}, d.queue, d.external, slots, "post")
  /\ UNCHANGED <<busy, rdp>>

-----------------------------------------------------------------------------
(* The worker, and nobody                                                  *)

\* A task is submitted, a completion gives the slot back, a retrace only ends
\* the initialisation.
Serve ==
  /\ running = "worker"
  /\ LET d == Arrived("worker")
         m == Head(d.queue)
     IN  IF d.queue = <<>>
           THEN /\ Settled(blocked \cup {"worker"}, d.queue, d.external, slots, game)
                /\ UNCHANGED <<busy, rdp>>
           ELSE /\ blocked' = blocked \ {"worker"}
                /\ queue' = Tail(d.queue) /\ external' = d.external
                /\ slots' = IF m = "DP" THEN slots + 1 ELSE slots
                /\ rdp' = IF m = "task" THEN "list" ELSE rdp
                /\ busy' = FALSE
                /\ UNCHANGED <<running, game>>

\* Every thread is blocked: the runtime waits for a message.
Idle ==
  /\ running = "idle"
  /\ external # <<>>
  /\ LET d == DeliverAll IN Settled(blocked, d.queue, d.external, slots, game)
  /\ UNCHANGED <<busy, rdp>>

Threads == yield_in_spin \/ LeaveSpin \/ Take \/ Post \/ Serve \/ Idle

-----------------------------------------------------------------------------
(* The host                                                                *)

Retrace ==
  /\ Len(external) < MaxExternal
  /\ external' = Append(external, "VI")
  /\ UNCHANGED <<running, game, blocked, busy, queue, slots, rdp>>

\* The list has been through the renderer, or there was none to give it to.
Finish ==
  /\ rdp = "list"
  /\ rdp' = "done"
  /\ UNCHANGED <<running, game, blocked, busy, external, queue, slots>>

Complete ==
  /\ rdp = "done"
  /\ rdp' = "idle"
  /\ external' = Append(external, "DP")
  /\ UNCHANGED <<running, game, blocked, busy, queue, slots>>
=============================================================================
