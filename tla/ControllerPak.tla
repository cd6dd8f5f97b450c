---------------------------- MODULE ControllerPak ----------------------------
(***************************************************************************)
(* The Controller Pak: the game's joybus transactions (si_pak.cpp), the    *)
(* 32 KiB behind them (controller_pak.cpp), the event pump's flush timer   *)
(* and the last flush of main (main.cpp), across crashes and restarts.     *)
(*                                                                         *)
(* g_mutex is held by flush for its whole pass, file I/O included, so a    *)
(* pass is several actions; a read or write of a block is one section and  *)
(* one action.  The game's SI semaphore admits one transaction at a time.  *)
(***************************************************************************)
EXTENDS Naturals

CONSTANTS NPorts,         \* controller ports, 4 in the code
          Blocks,         \* the blocks of storage
          Detect,         \* block 0x400: identify and bank select
          Nowhere,        \* a block above it
          Values,         \* the contents of a 32-byte block
          Zero,           \* the all-zero block
          Formatted,      \* the image format_empty writes
          Absent, Short,  \* no file; a file of fewer than 32768 bytes
          IoFails         \* opening or writing a file may fail

Ports == 0 .. NPorts - 1
Images == [Blocks -> Values]
Cells == Blocks \cup {Detect, Nowhere}

ASSUME PakAssumption ==
  /\ NPorts \in Nat \ {0}
  /\ Formatted \in Images
  /\ Zero \in Values
  /\ Detect \notin Blocks
  /\ Nowhere \notin Blocks \cup {Detect}
  /\ Absent \notin Images
  /\ Short \notin Images
  /\ Absent # Short
  /\ IoFails \in BOOLEAN

VARIABLES
  pak,      \* g_pak
  loaded,   \* g_loaded
  dirty,    \* g_dirty
  detect,   \* g_detect_cell
  disk,     \* the .pak file of each port
  si,       \* the transaction the game is in, and its PIF frame
  siQueue,  \* SI completions the game has not received
  reply,    \* the data of the last answer
  flusher,  \* where flush stands
  run       \* "running", "stopping", "exited" or "crashed"

memory == <<pak, loaded, dirty, detect>>
vars == <<memory, disk, si, siQueue, reply, flusher, run>>

Phases == {"idle", "packed", "wait1", "sent", "wait2"}
Commands == {"status", "read", "write"}
Idle == [phase |-> "idle", cmd |-> "status", port |-> 0, block |-> Detect, data |-> Zero]
FlushIdle == [pc |-> "idle", port |-> 0]

ColdMemory ==
  /\ pak' = [p \in Ports |-> Formatted]
  /\ loaded' = [p \in Ports |-> FALSE]
  /\ dirty' = [p \in Ports |-> FALSE]
  /\ detect' = [p \in Ports |-> Zero]
  /\ si' = Idle
  /\ siQueue' = 0
  /\ flusher' = FlushIdle

Init ==
  /\ pak = [p \in Ports |-> Formatted]
  /\ loaded = [p \in Ports |-> FALSE]
  /\ dirty = [p \in Ports |-> FALSE]
  /\ detect = [p \in Ports |-> Zero]
  /\ disk = [p \in Ports |-> Absent]
  /\ si = Idle
  /\ siQueue = 0
  /\ reply = Zero
  /\ flusher = FlushIdle
  /\ run = "running"

Running == run = "running"
MutexFree == flusher.pc = "idle"

-----------------------------------------------------------------------------
(* The store, under g_mutex.  Each operator gives the possible outcomes of *)
(* ensure_loaded as records of what is in memory and on disk afterwards.   *)

\* What a file that is opened and read in full leaves in memory.
Readable(p) == disk[p] \notin {Absent, Short}

\* The image is formatted and written out; the write may not succeed.
Created(p) ==
  [image : {Formatted},
   file : {Formatted} \cup IF IoFails THEN {Short, disk[p]} ELSE {}]

ensure_loaded_formats(p) ==
  IF loaded[p] THEN {[image |-> pak[p], file |-> disk[p]]} ELSE Created(p)

ensure_loaded(p) ==
  IF loaded[p] THEN {[image |-> pak[p], file |-> disk[p]]}
  ELSE IF Readable(p)
       THEN {[image |-> disk[p], file |-> disk[p]]}
              \cup IF IoFails THEN Created(p) ELSE {}
       ELSE Created(p)

\* Memory after a first touch that found `found`.
Touch(p, found) ==
  /\ disk' = [disk EXCEPT ![p] = found.file]
  /\ loaded' = [loaded EXCEPT ![p] = TRUE]

read_block(p, b) ==
  /\ MutexFree
  /\ \E found \in ensure_loaded(p) :
       /\ Touch(p, found)
       /\ pak' = [pak EXCEPT ![p] = found.image]
       /\ dirty' = [dirty EXCEPT ![p] = loaded[p] /\ @]
       /\ reply' = found.image[b]
  /\ UNCHANGED detect

write_block_marks_nothing(p, b, v) ==
  /\ MutexFree
  /\ \E found \in ensure_loaded(p) :
       /\ Touch(p, found)
       /\ pak' = [pak EXCEPT ![p] = [found.image EXCEPT ![b] = v]]
       /\ dirty' = [dirty EXCEPT ![p] = loaded[p] /\ @]
       /\ reply' = v
  /\ UNCHANGED detect

\* A block that is written as it was leaves the pak clean.
write_block(p, b, v) ==
  /\ MutexFree
  /\ \E found \in ensure_loaded(p) :
       /\ Touch(p, found)
       /\ pak' = [pak EXCEPT ![p] = [found.image EXCEPT ![b] = v]]
       /\ dirty' = [dirty EXCEPT ![p] = (loaded[p] /\ @) \/ found.image[b] # v]
       /\ reply' = v
  /\ UNCHANGED detect

-----------------------------------------------------------------------------
(* The joybus                                                              *)

\* Only port 0 presents a pak; only the status reply depends on it.
present(p) == p = 0

handle_status ==
  /\ si.cmd = "status"
  /\ reply' \in Values
  /\ UNCHANGED <<memory, disk>>

handle_pak_block ==
  /\ si.cmd # "status"
  /\ \/ /\ si.block = Detect
        /\ detect' = IF si.cmd = "write"
                       THEN [detect EXCEPT ![si.port] = si.data] ELSE detect
        /\ reply' = detect'[si.port]
        /\ UNCHANGED <<pak, loaded, dirty, disk>>
     \/ si.block \in Blocks /\ si.cmd = "write" /\ write_block(si.port, si.block, si.data)
     \/ si.block \in Blocks /\ si.cmd = "read" /\ read_block(si.port, si.block)
     \/ /\ si.block = Nowhere
        /\ reply' = IF si.cmd = "write" THEN si.data ELSE Zero
        /\ UNCHANGED <<memory, disk>>

\* The game packs a request.  It looks for a pak with the status query first
\* and speaks to a pak only where one is present.
Pack(cmd, p, c, v) ==
  /\ Running
  /\ si.phase = "idle"
  /\ IF cmd = "status" THEN c = Detect ELSE present(p)
  /\ cmd # "write" => v = Zero   \* only a write carries data
  /\ si' = [phase |-> "packed", cmd |-> cmd, port |-> p, block |-> c, data |-> v]
  /\ UNCHANGED <<memory, disk, siQueue, reply, flusher, run>>

\* __osSiRawStartDma posts one completion on either half.
CompletionsOf_read_only(half) == IF half = "read" THEN 1 ELSE 0
CompletionsOf_twice(half) == IF half = "read" THEN 2 ELSE 1
CompletionsOf(half) == 1

\* The write half serves nothing.
DmaWrite ==
  /\ Running
  /\ si.phase = "packed"
  /\ si' = [si EXCEPT !.phase = "wait1"]
  /\ siQueue' = siQueue + CompletionsOf("write")
  /\ UNCHANGED <<memory, disk, reply, flusher, run>>

\* The read half answers the request in the game's buffer.
DmaRead ==
  /\ Running
  /\ si.phase = "sent"
  /\ handle_status \/ handle_pak_block
  /\ si' = [si EXCEPT !.phase = "wait2"]
  /\ siQueue' = siQueue + CompletionsOf("read")
  /\ UNCHANGED <<flusher, run>>

\* The game's osRecvMesg after each half.
Recv ==
  /\ Running
  /\ si.phase \in {"wait1", "wait2"}
  /\ siQueue > 0
  /\ siQueue' = siQueue - 1
  /\ si' = IF si.phase = "wait1" THEN [si EXCEPT !.phase = "sent"] ELSE Idle
  /\ UNCHANGED <<memory, disk, reply, flusher, run>>

-----------------------------------------------------------------------------
(* flush                                                                   *)

\* Once a second on the event pump, and once when the runtime has returned.
FlushStart ==
  /\ run \in {"running", "stopping"}
  /\ flusher.pc = "idle"
  /\ flusher' = [pc |-> "scan", port |-> 0]
  /\ UNCHANGED <<memory, disk, si, siQueue, reply, run>>

NeedsFlush_while_running(p) == loaded[p] /\ dirty[p] /\ run = "running"
NeedsFlush(p) == loaded[p] /\ dirty[p]

NextPort == [pc |-> "scan", port |-> flusher.port + 1]

\* A pak with nothing to persist, or whose file cannot be opened.
FlushSkip ==
  /\ flusher.pc = "scan"
  /\ flusher.port < NPorts
  /\ ~NeedsFlush(flusher.port) \/ IoFails
  /\ flusher' = NextPort
  /\ UNCHANGED <<memory, disk, si, siQueue, reply, run>>

\* Opening for writing truncates the file.
FlushOpen ==
  /\ flusher.pc = "scan"
  /\ flusher.port < NPorts
  /\ NeedsFlush(flusher.port)
  /\ disk' = [disk EXCEPT ![flusher.port] = Short]
  /\ flusher' = [flusher EXCEPT !.pc = "write"]
  /\ UNCHANGED <<memory, si, siQueue, reply, run>>

FlushWrite_keeps_dirty ==
  /\ flusher.pc = "write"
  /\ disk' = [disk EXCEPT ![flusher.port] = pak[flusher.port]]
  /\ flusher' = NextPort
  /\ UNCHANGED <<memory, si, siQueue, reply, run>>

\* The image goes out, in full or in part; nobody looks which.
FlushWrite ==
  /\ flusher.pc = "write"
  /\ disk' \in {[disk EXCEPT ![flusher.port] = f] :
                  f \in {pak[flusher.port]} \cup IF IoFails THEN {Short} ELSE {}}
  /\ dirty' = [dirty EXCEPT ![flusher.port] = FALSE]
  /\ flusher' = NextPort
  /\ UNCHANGED <<pak, loaded, detect, si, siQueue, reply, run>>

\* The last flush is the process's last act on the pak.
FlushDone ==
  /\ flusher.pc = "scan"
  /\ flusher.port = NPorts
  /\ IF run = "stopping"
       THEN ColdMemory /\ run' = "exited"
       ELSE flusher' = FlushIdle /\ UNCHANGED <<memory, si, siQueue, run>>
  /\ UNCHANGED <<disk, reply>>

-----------------------------------------------------------------------------
(* The process                                                             *)

\* recomp::start has returned: the pump's timer is over, the game is stopped
\* wherever it stood.
Stop ==
  /\ Running
  /\ flusher.pc = "idle"
  /\ run' = "stopping"
  /\ UNCHANGED <<memory, disk, si, siQueue, reply, flusher>>

Crash ==
  /\ run \in {"running", "stopping"}
  /\ run' = "crashed"
  /\ ColdMemory
  /\ UNCHANGED <<disk, reply>>

Launch ==
  /\ run \in {"exited", "crashed"}
  /\ run' = "running"
  /\ UNCHANGED <<memory, disk, si, siQueue, reply, flusher>>

FlushPass == FlushSkip \/ FlushOpen \/ FlushWrite \/ FlushDone

Next ==
  \/ \E cmd \in Commands, p \in Ports, c \in Cells, v \in Values : Pack(cmd, p, c, v)
  \/ DmaWrite \/ DmaRead \/ Recv
  \/ FlushStart \/ FlushPass
  \/ Stop \/ Crash \/ Launch

Spec == Init /\ [][Next]_vars

\* Threads are scheduled and the timer ticks.  The timer leaves the mutex
\* free for a second between passes, so a game thread that keeps finding it
\* free gets it.
FairSpec ==
  /\ Spec
  /\ WF_vars(FlushStart)
  /\ WF_vars(FlushPass)
  /\ WF_vars(DmaWrite)
  /\ WF_vars(Recv)
  /\ SF_vars(DmaRead)

-----------------------------------------------------------------------------
(* Properties                                                              *)

Files == Images \cup {Absent, Short}
TypeOK ==
  /\ pak \in [Ports -> Images]
  /\ loaded \in [Ports -> BOOLEAN]
  /\ dirty \in [Ports -> BOOLEAN]
  /\ detect \in [Ports -> Values]
  /\ disk \in [Ports -> Files]
  /\ si \in [phase : Phases, cmd : Commands, port : Ports, block : Cells, data : Values]
  /\ siQueue \in {0, 1}
  /\ reply \in Values
  /\ flusher \in [pc : {"idle", "scan", "write"}, port : 0 .. NPorts]
  /\ run \in {"running", "stopping", "exited", "crashed"}

Writing(p) == flusher.pc = "write" /\ flusher.port = p

\* A pak that flush considers clean is in its file, byte for byte: what it was
\* loaded from or created as, and what flush last wrote.
CleanIsSaved ==
  \A p \in Ports : loaded[p] /\ ~dirty[p] => disk[p] = pak[p]

\* flush's header: every pak modified since the last flush is persisted.  A pak
\* the game has modified stops counting as modified only when it is in its file.
FlushPersists ==
  [][\A p \in Ports :
       loaded[p] /\ dirty[p] /\ loaded'[p] /\ ~dirty'[p] => disk'[p] = pak[p]]_vars

\* main's last flush catches the last second of writes: the process exits
\* with every pak it touched in its file.
ExitSaves ==
  [][run' = "exited" /\ run # "exited" =>
       \A p \in Ports : loaded[p] => disk[p] = pak[p]]_vars

\* ensure_loaded creates a file where there is none: a complete image on disk
\* is only ever replaced by one that descends from it.  Its file is touched
\* by flush alone, after it was read.
ImageNeverReformatted ==
  [][\A p \in Ports :
       disk[p] \in Images /\ disk'[p] # disk[p] => Writing(p)' /\ loaded[p]]_vars

\* The two completions of a transaction are received by that transaction:
\* none is left over to be taken for the next one's.
NoStaleCompletion == si.phase \in {"idle", "packed", "sent"} => siQueue = 0

\* The game never hangs with the SI semaphore held.
TransactionEnds == si.phase = "packed" ~> si.phase = "idle" \/ run # "running"

\* What the game wrote reaches the file while it plays: no pak stays dirty.
DirtyIsFlushed == \A p \in Ports : dirty[p] ~> ~dirty[p]

-----------------------------------------------------------------------------
(* The pak as the game sees it.  A first touch changes nothing the game    *)
(* could have known, and a file that is truncated to be written in full    *)
(* counts as saved unless the process dies before it is.                   *)

OnDisk(p) == IF Writing(p) THEN pak[p]
             ELSE IF disk[p] \in {Absent, Short} THEN Formatted
             ELSE disk[p]

Store == INSTANCE PakStore WITH
           Nobody <- NPorts,
           store <- [p \in Ports |-> IF loaded[p] THEN pak[p] ELSE OnDisk(p)],
           saved <- [p \in Ports |-> OnDisk(p)],
           saving <- IF flusher.pc = "write" THEN flusher.port ELSE NPorts

\* Reads return the last write through lazy loading, flushes, exits and
\* crashes, and a restart comes back to the last save.
ImplementsStore == Store!StoreSpec
=============================================================================
