------------------------- MODULE ControllerPakProofs -------------------------
(***************************************************************************)
(* What holds of the Controller Pak for any number of ports, any storage   *)
(* and any contents, proved with TLAPS.  What the code promises of the file *)
(* assumes that opening and writing it succeeds, as the runs do; what is   *)
(* left of it on a disk that fails stands at the end.                      *)
(***************************************************************************)
EXTENDS ControllerPak, TLAPS

\* A completion is outstanding exactly while the game waits for one.
OneCompletion == siQueue = IF si.phase \in {"wait1", "wait2"} THEN 1 ELSE 0

\* flush writes the file of a loaded, dirty pak it has just truncated, and a
\* dead process holds nothing.
FlushInv ==
  /\ flusher.pc = "write" =>
       /\ flusher.port \in Ports
       /\ loaded[flusher.port]
       /\ dirty[flusher.port]
       /\ disk[flusher.port] = Short
  /\ run \in {"exited", "crashed"} => flusher = FlushIdle /\ \A p \in Ports : ~loaded[p]

TypeInv == TypeOK /\ OneCompletion /\ FlushInv

\* The last pass leaves no dirty pak behind it.
LastPass ==
  run = "stopping" /\ flusher.pc # "idle" =>
    \A p \in Ports : p < flusher.port => ~NeedsFlush(p)

DiskInv == TypeInv /\ CleanIsSaved /\ LastPass

-----------------------------------------------------------------------------
(* The store's operators                                                   *)

\* A first touch leaves a whole image in memory and a file or nothing on disk.
LEMMA LoadType ==
  ASSUME TypeOK, NEW p \in Ports, NEW found \in ensure_loaded(p)
  PROVE  found.image \in Images /\ found.file \in Files
  BY PakAssumption DEF TypeOK, ensure_loaded, Created, Readable, Files

\* While files can be written, a first touch leaves memory and disk equal, and
\* a whole file as it was.
LEMMA LoadAgrees ==
  ASSUME TypeOK, ~IoFails, NEW p \in Ports, NEW found \in ensure_loaded(p)
  PROVE  /\ loaded[p] => found.image = pak[p] /\ found.file = disk[p]
         /\ ~loaded[p] => found.image = found.file
         /\ ~loaded[p] /\ ~Writing(p) => found.image = OnDisk(p)
         /\ disk[p] \in Images => found.file = disk[p]
  BY PakAssumption DEF TypeOK, ensure_loaded, Created, Readable, Files, OnDisk, Writing

\* What a read or a write of a block does, in one statement.
LEMMA BlockStep ==
  ASSUME TypeOK, NEW p \in Ports, NEW b \in Blocks, NEW v \in Values,
         read_block(p, b) \/ write_block(p, b, v)
  PROVE  /\ flusher.pc = "idle"
         /\ pak' \in [Ports -> Images]
         /\ loaded' \in [Ports -> BOOLEAN]
         /\ dirty' \in [Ports -> BOOLEAN]
         /\ disk' \in [Ports -> Files]
         /\ reply' \in Values
         /\ detect' = detect
  <1>1. ASSUME read_block(p, b)
        PROVE  pak' \in [Ports -> Images] /\ disk' \in [Ports -> Files] /\ reply' \in Values
    <2>1. PICK found \in ensure_loaded(p) :
            /\ Touch(p, found)
            /\ pak' = [pak EXCEPT ![p] = found.image]
            /\ reply' = found.image[b]
      BY <1>1 DEF read_block
    <2>2. found.image \in Images /\ found.file \in Files
      BY LoadType
    <2>3. QED
      BY <2>1, <2>2 DEF TypeOK, Touch, Images
  <1>2. ASSUME write_block(p, b, v)
        PROVE  pak' \in [Ports -> Images] /\ disk' \in [Ports -> Files] /\ reply' \in Values
    <2>1. PICK found \in ensure_loaded(p) :
            /\ Touch(p, found)
            /\ pak' = [pak EXCEPT ![p] = [found.image EXCEPT ![b] = v]]
            /\ reply' = v
      BY <1>2 DEF write_block
    <2>2. found.image \in Images /\ found.file \in Files
      BY LoadType
    <2>3. [found.image EXCEPT ![b] = v] \in Images
      BY <2>2 DEF Images
    <2>4. QED
      BY <2>1, <2>2, <2>3 DEF TypeOK, Touch
  <1>3. dirty' \in [Ports -> BOOLEAN]
    BY DEF TypeOK, read_block, write_block
  <1>4. loaded' \in [Ports -> BOOLEAN]
    BY DEF TypeOK, read_block, write_block, Touch
  <1>5. flusher.pc = "idle" /\ detect' = detect
    BY DEF read_block, write_block, MutexFree
  <1>6. QED
    BY <1>1, <1>2, <1>3, <1>4, <1>5

-----------------------------------------------------------------------------
(* Type correctness                                                        *)

LEMMA TypeInit == Init => TypeInv
  <1> SUFFICES ASSUME Init PROVE TypeInv
    OBVIOUS
  <1> USE PakAssumption DEF Init
  <1>1. TypeOK
    BY DEF TypeOK, Idle, FlushIdle, Phases, Commands, Cells, Ports, Files
  <1>2. OneCompletion
    BY DEF OneCompletion, Idle
  <1>3. FlushInv
    BY DEF FlushInv, FlushIdle
  <1>4. QED
    BY <1>1, <1>2, <1>3 DEF TypeInv

\* A process that starts from nothing.
LEMMA ColdType ==
  ASSUME TypeInv, ColdMemory, run' \in {"exited", "crashed"}, UNCHANGED <<disk, reply>>
  PROVE  TypeInv'
  <1> USE PakAssumption DEF TypeInv, ColdMemory
  <1>1. TypeOK'
    BY DEF TypeOK, Idle, FlushIdle, Phases, Commands, Cells, Ports
  <1>2. OneCompletion'
    BY DEF OneCompletion, Idle
  <1>3. FlushInv'
    BY DEF FlushInv, FlushIdle
  <1>4. QED
    BY <1>1, <1>2, <1>3

LEMMA TypeStep ==
  ASSUME TypeInv, [Next]_vars
  PROVE  TypeInv'
  <1>inv. TypeOK /\ OneCompletion /\ FlushInv
    BY DEF TypeInv
  <1> USE <1>inv, PakAssumption DEF memory
  <1>Pack. ASSUME NEW cmd \in Commands, NEW p \in Ports, NEW c \in Cells, NEW v \in Values,
                  Pack(cmd, p, c, v)
           PROVE  TypeInv'
    BY <1>Pack DEF TypeInv, TypeOK, OneCompletion, FlushInv, Pack, Phases
  <1>DmaWrite. ASSUME DmaWrite PROVE TypeInv'
    BY <1>DmaWrite DEF TypeInv, TypeOK, OneCompletion, FlushInv, DmaWrite, Phases, CompletionsOf
  <1>DmaRead. ASSUME DmaRead PROVE TypeInv'
    <2>1. /\ si' \in [phase : Phases, cmd : Commands, port : Ports, block : Cells, data : Values]
          /\ si'.phase = "wait2"
          /\ siQueue = 0 /\ siQueue' = 1
          /\ flusher' = flusher /\ run' = run /\ run = "running"
      BY <1>DmaRead DEF DmaRead, TypeOK, OneCompletion, Phases, CompletionsOf, Running
    <2>2. CASE UNCHANGED <<pak, loaded, dirty, disk>> /\ detect' \in [Ports -> Values]
                 /\ reply' \in Values
      BY <2>1, <2>2 DEF TypeInv, TypeOK, OneCompletion, FlushInv
    <2>3. CASE si.block \in Blocks /\ (read_block(si.port, si.block)
                                         \/ write_block(si.port, si.block, si.data))
      <3>1. si.port \in Ports /\ si.data \in Values
        BY DEF TypeOK
      <3>2. /\ flusher.pc = "idle"
            /\ pak' \in [Ports -> Images]
            /\ loaded' \in [Ports -> BOOLEAN]
            /\ dirty' \in [Ports -> BOOLEAN]
            /\ disk' \in [Ports -> Files]
            /\ reply' \in Values
            /\ detect' = detect
        BY <2>3, <3>1, BlockStep
      <3>3. QED
        BY <2>1, <3>2 DEF TypeInv, TypeOK, OneCompletion, FlushInv
    <2>4. QED
      <3>1. CASE handle_status
        BY <2>2, <3>1 DEF handle_status, TypeOK
      <3>2. CASE handle_pak_block
        BY <2>2, <2>3, <3>2 DEF handle_pak_block, TypeOK
      <3>3. QED
        BY <3>1, <3>2, <1>DmaRead DEF DmaRead
  <1>Recv. ASSUME Recv PROVE TypeInv'
    <2>1. si' \in [phase : Phases, cmd : Commands, port : Ports, block : Cells, data : Values]
      <3>1. Idle \in [phase : Phases, cmd : Commands, port : Ports, block : Cells, data : Values]
        BY DEF Idle, Phases, Commands, Ports, Cells
      <3>2. [si EXCEPT !.phase = "sent"]
              \in [phase : Phases, cmd : Commands, port : Ports, block : Cells, data : Values]
        BY DEF TypeOK, Phases
      <3>3. QED
        BY <1>Recv, <3>1, <3>2 DEF Recv
    <2>2. siQueue = 1 /\ siQueue' = 0 /\ si'.phase \in {"sent", "idle"}
      BY <1>Recv DEF Recv, OneCompletion, TypeOK, Idle
    <2>3. UNCHANGED <<memory, disk, reply, flusher, run>>
      BY <1>Recv DEF Recv
    <2>4. TypeOK'
      BY <2>1, <2>2, <2>3 DEF TypeOK
    <2>5. OneCompletion' /\ FlushInv'
      BY <2>2, <2>3 DEF OneCompletion, FlushInv
    <2>6. QED
      BY <2>4, <2>5 DEF TypeInv
  <1>FlushStart. ASSUME FlushStart PROVE TypeInv'
    BY <1>FlushStart DEF TypeInv, TypeOK, OneCompletion, FlushInv, FlushStart
  <1>FlushSkip. ASSUME FlushSkip PROVE TypeInv'
    BY <1>FlushSkip DEF TypeInv, TypeOK, OneCompletion, FlushInv, FlushSkip, NextPort, FlushIdle
  <1>FlushOpen. ASSUME FlushOpen PROVE TypeInv'
    <2> DEFINE q == flusher.port
    <2>1. /\ q \in Ports /\ flusher.pc = "scan"
          /\ loaded[q] /\ dirty[q]
          /\ disk' = [disk EXCEPT ![q] = Short]
          /\ flusher' = [flusher EXCEPT !.pc = "write"]
          /\ UNCHANGED <<memory, si, siQueue, reply, run>>
      BY <1>FlushOpen DEF FlushOpen, NeedsFlush, TypeOK, Ports
    <2>2. disk' \in [Ports -> Files] /\ disk'[q] = Short
      BY <2>1 DEF TypeOK, Files
    <2>3. flusher' \in [pc : {"idle", "scan", "write"}, port : 0 .. NPorts] /\ flusher'.port = q
      BY <2>1 DEF TypeOK
    <2>4. run \notin {"exited", "crashed"}
      BY <2>1 DEF FlushInv, FlushIdle
    <2> HIDE DEF q
    <2>5. TypeOK'
      BY <2>1, <2>2, <2>3 DEF TypeOK
    <2>6. FlushInv'
      BY <2>1, <2>2, <2>3, <2>4 DEF FlushInv
    <2>7. QED
      BY <2>1, <2>5, <2>6 DEF TypeInv, OneCompletion
  <1>FlushWrite. ASSUME FlushWrite PROVE TypeInv'
    <2> DEFINE q == flusher.port
    <2>1. /\ q \in Ports /\ flusher.pc = "write"
          /\ disk' \in {[disk EXCEPT ![q] = f] :
                          f \in {pak[q]} \cup IF IoFails THEN {Short} ELSE {}}
          /\ dirty' = [dirty EXCEPT ![q] = FALSE]
          /\ flusher' = [pc |-> "scan", port |-> q + 1]
          /\ UNCHANGED <<pak, loaded, detect, si, siQueue, reply, run>>
      BY <1>FlushWrite DEF FlushWrite, NextPort, FlushInv
    <2>2. disk' \in [Ports -> Files]
      <3>1. pak[q] \in Files /\ Short \in Files
        BY <2>1 DEF TypeOK, Files
      <3>2. QED
        BY <2>1, <3>1 DEF TypeOK
    <2>3. flusher' \in [pc : {"idle", "scan", "write"}, port : 0 .. NPorts]
      BY <2>1 DEF Ports
    <2>4. run \notin {"exited", "crashed"}
      BY <2>1 DEF FlushInv, FlushIdle
    <2> HIDE DEF q
    <2>5. TypeOK'
      BY <2>1, <2>2, <2>3 DEF TypeOK
    <2>6. FlushInv'
      BY <2>1, <2>4 DEF FlushInv
    <2>7. QED
      BY <2>1, <2>5, <2>6 DEF TypeInv, OneCompletion
  <1>FlushDone. ASSUME FlushDone PROVE TypeInv'
    <2>1. CASE run = "stopping"
      BY <1>FlushDone, <2>1, ColdType DEF FlushDone, TypeInv
    <2>2. CASE run # "stopping"
      BY <1>FlushDone, <2>2 DEF TypeInv, TypeOK, OneCompletion, FlushInv, FlushDone, FlushIdle
    <2>3. QED
      BY <2>1, <2>2
  <1>Stop. ASSUME Stop PROVE TypeInv'
    BY <1>Stop DEF TypeInv, TypeOK, OneCompletion, FlushInv, Stop
  <1>Crash. ASSUME Crash PROVE TypeInv'
    BY <1>Crash, ColdType DEF Crash, TypeInv
  <1>Launch. ASSUME Launch PROVE TypeInv'
    BY <1>Launch DEF TypeInv, TypeOK, OneCompletion, FlushInv, Launch
  <1>stutter. CASE UNCHANGED vars
    BY <1>stutter DEF TypeInv, TypeOK, OneCompletion, FlushInv, vars
  <1>qed. QED
    BY <1>Pack, <1>DmaWrite, <1>DmaRead, <1>Recv, <1>FlushStart, <1>FlushSkip, <1>FlushOpen,
       <1>FlushWrite, <1>FlushDone, <1>Stop, <1>Crash, <1>Launch, <1>stutter
       DEF Next, FlushPass

\* The store, the bus and the flusher stay in their types whatever fails and
\* whenever the process dies.
THEOREM TypeCorrect == Spec => []TypeOK
  <1>1. TypeInv => TypeOK
    BY DEF TypeInv
  <1>2. QED
    BY <1>1, TypeInit, TypeStep, PTL DEF Spec

\* No completion of a finished transfer is left for the next one.
THEOREM CompletionsMatch == Spec => []NoStaleCompletion
  <1>1. TypeInv => NoStaleCompletion
    BY DEF TypeInv, OneCompletion, NoStaleCompletion
  <1>2. QED
    BY <1>1, TypeInit, TypeStep, PTL DEF Spec
-----------------------------------------------------------------------------
(* What is clean is in its file                                            *)

\* A transfer of a block keeps every clean pak equal to its file, and leaves
\* every whole file as it was.
LEMMA BlockClean ==
  ASSUME TypeInv, CleanIsSaved, ~IoFails,
         NEW p \in Ports, NEW b \in Blocks, NEW v \in Values,
         read_block(p, b) \/ write_block(p, b, v)
  PROVE  /\ CleanIsSaved'
         /\ \A q \in Ports : disk[q] \in Images => disk'[q] = disk[q]
  <1>inv. TypeOK
    BY DEF TypeInv
  <1>1. PICK found \in ensure_loaded(p), image \in Images :
          /\ Touch(p, found)
          /\ pak' = [pak EXCEPT ![p] = image]
          /\ ~dirty'[p] => image = found.image /\ (loaded[p] => ~dirty[p])
          /\ \A q \in Ports \ {p} : dirty'[q] = dirty[q]
    <2>1. CASE read_block(p, b)
      <3>1. PICK found \in ensure_loaded(p) :
              /\ Touch(p, found)
              /\ pak' = [pak EXCEPT ![p] = found.image]
              /\ dirty' = [dirty EXCEPT ![p] = loaded[p] /\ @]
        BY <2>1 DEF read_block
      <3>2. found.image \in Images
        BY <1>inv, LoadType
      <3>3. QED
        BY <1>inv, <3>1, <3>2 DEF TypeOK
    <2>2. CASE write_block(p, b, v)
      <3>1. PICK found \in ensure_loaded(p) :
              /\ Touch(p, found)
              /\ pak' = [pak EXCEPT ![p] = [found.image EXCEPT ![b] = v]]
              /\ dirty' = [dirty EXCEPT ![p] = (loaded[p] /\ @) \/ found.image[b] # v]
        BY <2>2 DEF write_block
      <3> DEFINE image == [found.image EXCEPT ![b] = v]
      <3>2. found.image \in Images
        BY <1>inv, LoadType
      <3>3. image \in Images /\ (found.image[b] = v => image = found.image)
        BY <3>2 DEF Images
      <3>4. ~dirty'[p] => found.image[b] = v /\ (loaded[p] => ~dirty[p])
        BY <1>inv, <3>1 DEF TypeOK
      <3>5. \A q \in Ports \ {p} : dirty'[q] = dirty[q]
        BY <1>inv, <3>1 DEF TypeOK
      <3>6. pak' = [pak EXCEPT ![p] = image]
        BY <3>1
      <3> HIDE DEF image
      <3>7. QED
        BY <3>1, <3>3, <3>4, <3>5, <3>6
    <2>3. QED
      BY <2>1, <2>2
  <1>2. /\ disk' = [disk EXCEPT ![p] = found.file]
        /\ loaded' = [loaded EXCEPT ![p] = TRUE]
    BY <1>1 DEF Touch
  <1>3. /\ loaded[p] => found.image = pak[p] /\ found.file = disk[p]
        /\ ~loaded[p] => found.image = found.file
        /\ disk[p] \in Images => found.file = disk[p]
    BY <1>inv, LoadAgrees
  <1>4. /\ pak'[p] = image /\ disk'[p] = found.file
        /\ \A q \in Ports \ {p} :
             pak'[q] = pak[q] /\ disk'[q] = disk[q] /\ loaded'[q] = loaded[q]
    BY <1>inv, <1>1, <1>2 DEF TypeOK
  <1>5. ~dirty'[p] => disk'[p] = pak'[p]
    BY <1>1, <1>3, <1>4 DEF CleanIsSaved
  <1>6. CleanIsSaved'
    BY <1>1, <1>4, <1>5 DEF CleanIsSaved
  <1>7. QED
    BY <1>3, <1>4, <1>6

\* What a transfer does to the store, whichever part of the bus answers it.
LEMMA DmaStep ==
  ASSUME TypeInv, CleanIsSaved, ~IoFails, DmaRead
  PROVE  /\ CleanIsSaved'
         /\ \A q \in Ports : disk[q] \in Images => disk'[q] = disk[q]
  <1>1. CASE UNCHANGED <<pak, loaded, dirty, disk>>
    BY <1>1 DEF CleanIsSaved
  <1>2. CASE si.block \in Blocks /\ (read_block(si.port, si.block)
                                       \/ write_block(si.port, si.block, si.data))
    <2>1. si.port \in Ports /\ si.data \in Values
      BY DEF TypeInv, TypeOK
    <2>2. QED
      BY <1>2, <2>1, BlockClean
  <1>3. QED
    BY <1>1, <1>2 DEF DmaRead, handle_status, handle_pak_block, memory

LEMMA DiskInit == Init => DiskInv
  BY TypeInit DEF DiskInv, Init, CleanIsSaved, LastPass

LEMMA DiskStep ==
  ASSUME DiskInv, ~IoFails, [Next]_vars
  PROVE  DiskInv'
  <1>inv. TypeInv /\ TypeOK /\ FlushInv /\ CleanIsSaved /\ LastPass
    BY DEF DiskInv, TypeInv
  <1>type. TypeInv'
    BY <1>inv, TypeStep
  <1> SUFFICES CleanIsSaved' /\ LastPass'
    BY <1>type DEF DiskInv
  <1> USE <1>inv, PakAssumption DEF memory
  <1>quiet. ASSUME UNCHANGED <<pak, loaded, dirty, disk, flusher, run>>
            PROVE  CleanIsSaved' /\ LastPass'
    BY <1>quiet DEF CleanIsSaved, LastPass, NeedsFlush
  <1>Bus. CASE \/ \E cmd \in Commands, p \in Ports, c \in Cells, v \in Values : Pack(cmd, p, c, v)
               \/ DmaWrite
               \/ Recv
    BY <1>Bus, <1>quiet DEF Pack, DmaWrite, Recv
  <1>DmaRead. CASE DmaRead
    <2>1. run' = "running"
      BY <1>DmaRead DEF DmaRead, Running
    <2>2. QED
      BY <1>DmaRead, <2>1, DmaStep DEF LastPass
  <1>FlushStart. CASE FlushStart
    BY <1>FlushStart DEF FlushStart, CleanIsSaved, LastPass, Ports
  <1>FlushSkip. CASE FlushSkip
    <2>1. /\ ~NeedsFlush(flusher.port) /\ flusher.pc = "scan" /\ flusher.port \in Ports
          /\ flusher' = [pc |-> "scan", port |-> flusher.port + 1]
          /\ UNCHANGED <<pak, loaded, dirty, disk, run>>
      BY <1>FlushSkip DEF FlushSkip, NextPort, TypeOK, Ports
    <2>2. CleanIsSaved'
      BY <2>1 DEF CleanIsSaved
    <2>3. \A p \in Ports : p < flusher.port + 1 => p < flusher.port \/ p = flusher.port
      BY <2>1 DEF Ports
    <2>4. LastPass'
      BY <2>1, <2>3 DEF LastPass, NeedsFlush
    <2>5. QED
      BY <2>2, <2>4
  <1>FlushOpen. CASE FlushOpen
    <2> DEFINE q == flusher.port
    <2>1. /\ NeedsFlush(q) /\ flusher.pc = "scan"
          /\ disk' = [disk EXCEPT ![q] = Short]
          /\ flusher'.port = q
          /\ UNCHANGED <<pak, loaded, dirty, run>>
      BY <1>FlushOpen DEF FlushOpen, TypeOK
    <2>2. CleanIsSaved'
      BY <2>1 DEF CleanIsSaved, NeedsFlush, TypeOK
    <2>3. LastPass'
      BY <2>1 DEF LastPass, NeedsFlush
    <2>4. QED
      BY <2>2, <2>3
  <1>FlushWrite. CASE FlushWrite
    <2> DEFINE q == flusher.port
    <2>1. /\ q \in Ports /\ flusher.pc = "write"
          /\ disk' = [disk EXCEPT ![q] = pak[q]]
          /\ dirty' = [dirty EXCEPT ![q] = FALSE]
          /\ flusher' = [pc |-> "scan", port |-> q + 1]
          /\ UNCHANGED <<pak, loaded, run>>
      BY <1>FlushWrite DEF FlushWrite, NextPort, FlushInv
    <2>2. \A p \in Ports : p < q + 1 => p < q \/ p = q
      BY <2>1 DEF Ports
    <2> HIDE DEF q
    <2>3. CleanIsSaved'
      BY <2>1 DEF CleanIsSaved, TypeOK
    <2>4. LastPass'
      BY <2>1, <2>2 DEF LastPass, NeedsFlush, TypeOK, q
    <2>5. QED
      BY <2>3, <2>4
  <1>FlushDone. CASE FlushDone
    BY <1>FlushDone DEF FlushDone, ColdMemory, FlushIdle, CleanIsSaved, LastPass, NeedsFlush
  <1>Process. CASE Stop \/ Crash \/ Launch
    BY <1>Process DEF Stop, Crash, Launch, ColdMemory, FlushIdle, CleanIsSaved, LastPass,
                      NeedsFlush
  <1>stutter. CASE UNCHANGED vars
    BY <1>stutter, <1>quiet DEF vars
  <1>qed. QED
    BY <1>Bus, <1>DmaRead, <1>FlushStart, <1>FlushSkip, <1>FlushOpen, <1>FlushWrite, <1>FlushDone,
       <1>Process, <1>stutter DEF Next, FlushPass

\* While files can be written, a pak flush considers clean is in its file.
THEOREM SavedWhenClean == ASSUME ~IoFails PROVE Spec => []CleanIsSaved
  <1>1. DiskInv => CleanIsSaved
    BY DEF DiskInv
  <1>2. DiskInv /\ [Next]_vars => DiskInv'
    BY DiskStep
  <1>3. QED
    BY <1>1, <1>2, DiskInit, PTL DEF Spec

\* The process exits with every pak it touched in its file.
THEOREM ExitIsSaved == ASSUME ~IoFails PROVE Spec => ExitSaves
  <1>1. ASSUME DiskInv, Next, run' = "exited", run # "exited"
        PROVE  \A p \in Ports : loaded[p] => disk[p] = pak[p]
    <2>1. FlushDone /\ run = "stopping"
      BY <1>1 DEF Next, Pack, DmaWrite, DmaRead, Recv, FlushStart, FlushPass, FlushSkip, FlushOpen,
                  FlushWrite, FlushDone, Stop, Crash, Launch, Running
    <2>2. \A p \in Ports : ~NeedsFlush(p)
      BY <1>1, <2>1, PakAssumption DEF FlushDone, DiskInv, LastPass, Ports
    <2>3. QED
      BY <1>1, <2>2 DEF DiskInv, CleanIsSaved, NeedsFlush, TypeInv, TypeOK
  <1>2. DiskInv /\ [Next]_vars =>
          [run' = "exited" /\ run # "exited" => \A p \in Ports : loaded[p] => disk[p] = pak[p]]_vars
    BY <1>1
  <1>3. DiskInv /\ [Next]_vars => DiskInv'
    BY DiskStep
  <1>4. QED
    BY <1>2, <1>3, DiskInit, PTL DEF Spec, ExitSaves

\* A whole image on disk is replaced by flush alone, by one read from it.
THEOREM ImageSurvives == ASSUME ~IoFails PROVE Spec => ImageNeverReformatted
  <1>1. ASSUME DiskInv, Next, NEW p \in Ports, disk[p] \in Images, disk'[p] # disk[p]
        PROVE  Writing(p)' /\ loaded[p]
    <2>inv. TypeInv /\ TypeOK /\ FlushInv /\ CleanIsSaved
      BY <1>1 DEF DiskInv, TypeInv
    <2>1. FlushOpen \/ FlushWrite \/ DmaRead
      BY <1>1 DEF Next, Pack, DmaWrite, Recv, FlushStart, FlushPass, FlushSkip, FlushDone, Stop,
                  Crash, Launch
    <2>2. CASE FlushOpen
      BY <1>1, <2>inv, <2>2 DEF FlushOpen, NeedsFlush, Writing, TypeOK
    <2>3. CASE FlushWrite
      <3>1. disk[flusher.port] \notin Images
        BY <2>inv, <2>3, PakAssumption DEF FlushWrite, FlushInv
      <3>2. \A q \in Ports \ {flusher.port} : disk'[q] = disk[q]
        BY <2>inv, <2>3 DEF FlushWrite, TypeOK
      <3>3. QED
        BY <1>1, <3>1, <3>2
    <2>4. CASE DmaRead
      BY <1>1, <2>inv, <2>4, DmaStep
    <2>5. QED
      BY <2>1, <2>2, <2>3, <2>4
  <1>2. DiskInv /\ [Next]_vars =>
          [\A p \in Ports :
             disk[p] \in Images /\ disk'[p] # disk[p] => Writing(p)' /\ loaded[p]]_vars
    BY <1>1
  <1>3. DiskInv /\ [Next]_vars => DiskInv'
    BY DiskStep
  <1>4. QED
    BY <1>2, <1>3, DiskInit, PTL DEF Spec, ImageNeverReformatted

-----------------------------------------------------------------------------
(* Refinement                                                              *)

View(p) == IF loaded[p] THEN pak[p] ELSE OnDisk(p)
Saving == IF flusher.pc = "write" THEN flusher.port ELSE NPorts

\* Neither the game nor a restart can tell.
Unseen ==
  /\ UNCHANGED <<pak, loaded, disk, reply>>
  /\ UNCHANGED flusher \/ (flusher.pc # "write" /\ flusher'.pc # "write")

LEMMA StoreStutter == Unseen => UNCHANGED Store!storeVars
  <1> SUFFICES ASSUME Unseen PROVE UNCHANGED Store!storeVars
    OBVIOUS
  <1>1. Saving' = Saving /\ \A p \in Ports : Writing(p)' <=> Writing(p)
    BY DEF Unseen, Writing, Saving
  <1>2. \A p \in Ports : OnDisk(p)' = OnDisk(p)
    BY <1>1 DEF Unseen, OnDisk
  <1>3. QED
    BY <1>1, <1>2 DEF Unseen, Store!storeVars, Saving

\* A first touch, seen from outside, changes nothing, on disk or in memory.
LEMMA TouchUnseen ==
  ASSUME TypeOK, ~IoFails, flusher.pc = "idle", UNCHANGED flusher,
         NEW p \in Ports, NEW found \in ensure_loaded(p), Touch(p, found)
  PROVE  /\ found.image = View(p)
         /\ \A q \in Ports : OnDisk(q)' = OnDisk(q)
         /\ \A q \in Ports \ {p} : loaded'[q] = loaded[q]
         /\ loaded'[p]
  <1>1. /\ disk' = [disk EXCEPT ![p] = found.file]
        /\ loaded' = [loaded EXCEPT ![p] = TRUE]
        /\ \A q \in Ports : ~Writing(q) /\ ~Writing(q)'
    BY DEF Touch, Writing
  <1>2. /\ loaded[p] => found.image = pak[p] /\ found.file = disk[p]
        /\ ~loaded[p] => found.image = found.file
        /\ ~loaded[p] => found.image = OnDisk(p)
        /\ found.image \in Images
    BY <1>1, LoadAgrees, LoadType
  <1>3. \A q \in Ports \ {p} : disk'[q] = disk[q] /\ loaded'[q] = loaded[q]
    BY <1>1 DEF TypeOK
  <1>4. disk'[p] = found.file /\ loaded'[p]
    BY <1>1 DEF TypeOK
  <1>5. OnDisk(p)' = OnDisk(p)
    <2>1. CASE loaded[p]
      BY <1>1, <1>2, <1>4, <2>1 DEF OnDisk
    <2>2. CASE ~loaded[p]
      BY <1>1, <1>2, <1>4, <2>2, PakAssumption DEF OnDisk
    <2>3. QED
      BY <2>1, <2>2 DEF TypeOK
  <1>6. \A q \in Ports \ {p} : OnDisk(q)' = OnDisk(q)
    BY <1>1, <1>3 DEF OnDisk
  <1>7. QED
    BY <1>2, <1>3, <1>4, <1>5, <1>6 DEF View, TypeOK

LEMMA StoreInitially == Init => Store!StoreInit
  <1> SUFFICES ASSUME Init PROVE Store!StoreInit
    OBVIOUS
  <1>1. \A p \in Ports : OnDisk(p) = Formatted /\ View(p) = Formatted
    BY DEF Init, OnDisk, Writing, FlushIdle, View
  <1>2. flusher.pc # "write" /\ reply \in Values
    BY PakAssumption DEF Init, FlushIdle
  <1>3. QED
    BY <1>1, <1>2 DEF Store!StoreInit, View

\* Each transfer reads or writes one block of the store, or none.
LEMMA StoreTransfer ==
  ASSUME TypeInv, CleanIsSaved, ~IoFails, DmaRead
  PROVE  Store!StoreNext \/ UNCHANGED Store!storeVars
  <1>inv. TypeOK /\ TypeOK' /\ UNCHANGED flusher
    BY TypeStep DEF TypeInv, Next, DmaRead
  <1>1. CASE UNCHANGED <<pak, loaded, disk>>
    <2>1. /\ \A p \in Ports : OnDisk(p)' = OnDisk(p)
          /\ reply' \in Values
          /\ UNCHANGED <<pak, loaded, flusher>>
      BY <1>1, <1>inv DEF OnDisk, Writing, TypeOK
    <2>2. Store!Elsewhere
      BY <2>1 DEF Store!Elsewhere
    <2>3. QED
      BY <2>2 DEF Store!StoreNext
  <1>2. ASSUME NEW p \in Ports, NEW b \in Blocks, read_block(p, b)
        PROVE  Store!Read(p, b)
    <2>1. PICK found \in ensure_loaded(p) :
            /\ Touch(p, found)
            /\ pak' = [pak EXCEPT ![p] = found.image]
            /\ reply' = found.image[b]
            /\ flusher.pc = "idle"
      BY <1>2 DEF read_block, MutexFree
    <2>2. /\ found.image = View(p)
          /\ \A q \in Ports : OnDisk(q)' = OnDisk(q)
          /\ \A q \in Ports \ {p} : loaded'[q] = loaded[q]
          /\ loaded'[p]
      BY <1>inv, <2>1, TouchUnseen
    <2>3. /\ pak'[p] = View(p)
          /\ \A q \in Ports \ {p} : pak'[q] = pak[q]
      BY <1>inv, <2>1, <2>2 DEF TypeOK
    <2>4. \A q \in Ports : View(q)' = View(q)
      BY <2>2, <2>3 DEF View
    <2>5. QED
      BY <1>inv, <2>1, <2>2, <2>4 DEF Store!Read, View
  <1>3. ASSUME NEW p \in Ports, NEW b \in Blocks, NEW v \in Values, write_block(p, b, v)
        PROVE  Store!Write(p, b, v)
    <2>1. PICK found \in ensure_loaded(p) :
            /\ Touch(p, found)
            /\ pak' = [pak EXCEPT ![p] = [found.image EXCEPT ![b] = v]]
            /\ reply' = v
            /\ flusher.pc = "idle"
      BY <1>3 DEF write_block, MutexFree
    <2>2. /\ found.image = View(p)
          /\ \A q \in Ports : OnDisk(q)' = OnDisk(q)
          /\ \A q \in Ports \ {p} : loaded'[q] = loaded[q]
          /\ loaded'[p]
      BY <1>inv, <2>1, TouchUnseen
    <2>3. /\ pak'[p] = [View(p) EXCEPT ![b] = v]
          /\ \A q \in Ports \ {p} : pak'[q] = pak[q]
      BY <1>inv, <2>1, <2>2 DEF TypeOK
    <2>4. /\ View(p)' = [View(p) EXCEPT ![b] = v]
          /\ \A q \in Ports \ {p} : View(q)' = View(q)
      <3>1. View(p)' = pak'[p]
        BY <2>2 DEF View
      <3>2. \A q \in Ports \ {p} : View(q)' = View(q)
        BY <2>2, <2>3 DEF View
      <3>3. QED
        BY <2>3, <3>1, <3>2
    <2>5. [q \in Ports |-> View(q)]' = [[q \in Ports |-> View(q)] EXCEPT ![p][b] = v]
      BY <2>4
    <2>6. QED
      BY <1>inv, <2>1, <2>2, <2>5 DEF Store!Write, View
  <1>4. si.port \in Ports /\ si.data \in Values
    BY <1>inv DEF TypeOK
  <1>5. QED
    BY <1>1, <1>2, <1>3, <1>4
       DEF DmaRead, handle_status, handle_pak_block, memory, Store!StoreNext

\* Dying forgets what was not saved, and the pak that was being saved.
LEMMA StoreRestart ==
  ASSUME TypeInv, ColdMemory, UNCHANGED <<disk, reply>>
  PROVE  Store!Restart
  <1>1. \A p \in Ports : ~Writing(p)' /\ ~loaded'[p]
    BY DEF ColdMemory, FlushIdle, Writing
  <1>2. Saving' = NPorts /\ \A p \in Ports : p = Saving <=> Writing(p)
    BY PakAssumption DEF ColdMemory, FlushIdle, Saving, Writing, Ports, TypeInv, FlushInv
  <1>3. \A p \in Ports : OnDisk(p)' = IF p = Saving THEN Formatted ELSE OnDisk(p)
    BY <1>1, <1>2 DEF OnDisk, Writing, TypeInv, FlushInv
  <1>4. \A p \in Ports : View(p)' = OnDisk(p)'
    BY <1>1 DEF View
  <1>5. QED
    BY <1>2, <1>3, <1>4 DEF Store!Restart, View, Saving

LEMMA StoreStep ==
  ASSUME DiskInv, ~IoFails, [Next]_vars
  PROVE  Store!StoreNext \/ UNCHANGED Store!storeVars
  <1>inv. TypeInv /\ TypeOK /\ FlushInv /\ CleanIsSaved
    BY DEF DiskInv, TypeInv
  <1> USE <1>inv, PakAssumption DEF memory
  <1>Unseen. CASE \/ \E cmd \in Commands, p \in Ports, c \in Cells, v \in Values :
                       Pack(cmd, p, c, v)
                  \/ DmaWrite \/ Recv \/ FlushStart \/ FlushSkip \/ Stop \/ Launch
    <2>1. Unseen
      BY <1>Unseen DEF Unseen, Pack, DmaWrite, Recv, FlushStart, FlushSkip, NextPort, Stop, Launch
    <2>2. QED
      BY <2>1, StoreStutter
  <1>DmaRead. CASE DmaRead
    BY <1>DmaRead, StoreTransfer
  <1>FlushOpen. CASE FlushOpen
    <2> DEFINE q == flusher.port
    <2>1. /\ q \in Ports /\ loaded[q] /\ flusher.pc = "scan"
          /\ disk' = [disk EXCEPT ![q] = Short]
          /\ flusher'.pc = "write" /\ flusher'.port = q
          /\ UNCHANGED <<pak, loaded, reply>>
      BY <1>FlushOpen DEF FlushOpen, NeedsFlush, TypeOK, Ports
    <2> HIDE DEF q
    <2>2. \A p \in Ports : ~Writing(p) /\ (Writing(p)' <=> p = q)
      BY <2>1 DEF Writing
    <2>3. \A p \in Ports : p # q => disk'[p] = disk[p]
      BY <2>1 DEF TypeOK
    <2>4. \A p \in Ports : OnDisk(p)' = IF p = q THEN pak[q] ELSE OnDisk(p)
      BY <2>1, <2>2, <2>3 DEF OnDisk
    <2>5. \A p \in Ports : View(p)' = View(p)
      BY <2>1, <2>4 DEF View
    <2>6. [p \in Ports |-> OnDisk(p)]' = [[p \in Ports |-> OnDisk(p)] EXCEPT ![q] = View(q)]
      BY <2>1, <2>4 DEF View
    <2>7. Store!BeginSave(q)
      BY <2>1, <2>5, <2>6 DEF Store!BeginSave, View
    <2>8. QED
      BY <2>1, <2>7 DEF Store!StoreNext
  <1>FlushWrite. CASE FlushWrite
    <2> DEFINE q == flusher.port
    <2>1. /\ q \in Ports /\ loaded[q] /\ flusher.pc = "write"
          /\ disk' = [disk EXCEPT ![q] = pak[q]]
          /\ flusher'.pc = "scan"
          /\ UNCHANGED <<pak, loaded, reply>>
      BY <1>FlushWrite DEF FlushWrite, NextPort, FlushInv
    <2>2. \A p \in Ports : ~Writing(p)' /\ (Writing(p) <=> p = q)
      BY <2>1 DEF Writing
    <2> HIDE DEF q
    <2>3. disk'[q] = pak[q] /\ pak[q] \in Images /\ \A p \in Ports : p # q => disk'[p] = disk[p]
      BY <2>1 DEF TypeOK
    <2>4. \A p \in Ports : OnDisk(p)' = OnDisk(p)
      BY <2>1, <2>2, <2>3 DEF OnDisk
    <2>5. \A p \in Ports : View(p)' = View(p)
      BY <2>1, <2>4 DEF View
    <2>6. Store!EndSave
      BY <2>1, <2>4, <2>5 DEF Store!EndSave, View, Ports, q
    <2>7. QED
      BY <2>6 DEF Store!StoreNext
  <1>FlushDone. CASE FlushDone
    <2>1. CASE run = "stopping"
      BY <1>FlushDone, <2>1, StoreRestart DEF FlushDone, Store!StoreNext
    <2>2. CASE run # "stopping"
      <3>1. Unseen
        BY <1>FlushDone, <2>2 DEF FlushDone, FlushIdle, Unseen
      <3>2. QED
        BY <3>1, StoreStutter
    <2>3. QED
      BY <2>1, <2>2
  <1>Crash. CASE Crash
    BY <1>Crash, StoreRestart DEF Crash, Store!StoreNext
  <1>stutter. CASE UNCHANGED vars
    <2>1. Unseen
      BY <1>stutter DEF vars, Unseen
    <2>2. QED
      BY <2>1, StoreStutter
  <1>qed. QED
    BY <1>Unseen, <1>DmaRead, <1>FlushOpen, <1>FlushWrite, <1>FlushDone, <1>Crash, <1>stutter
       DEF Next, FlushPass

\* The game sees one store: blocks that return what was written last, through
\* lazy loading, flushes and exits, and what was saved after a restart.
THEOREM Implements == ASSUME ~IoFails PROVE Spec => ImplementsStore
  <1>1. DiskInv /\ [Next]_vars => DiskInv'
    BY DiskStep
  <1>2. DiskInv /\ [Next]_vars => [Store!StoreNext]_(Store!storeVars)
    BY StoreStep
  <1>3. QED
    BY <1>1, <1>2, DiskInit, StoreInitially, PTL DEF Spec, ImplementsStore, Store!StoreSpec

-----------------------------------------------------------------------------
(* Nobody waits in vain                                                    *)

\* __osSiRawStartDma: a game that waits for the end of a half has its
\* completion in the queue already, whatever the disk did in that half.
WaitsForItsOwn == si.phase \in {"wait1", "wait2"} => siQueue = 1

\* The steps left of a pass of flush, which holds the store's mutex for all.
PassLeft ==
  IF flusher.pc = "idle" THEN 0
  ELSE 2 * (NPorts - flusher.port) + IF flusher.pc = "scan" THEN 2 ELSE 1

\* flush: whatever fails, a pass comes nearer to its end with each step it
\* takes, so that a transfer waits for the mutex only so long.
PassShortens ==
  [][~MutexFree => UNCHANGED flusher \/ (PassLeft' \in Nat /\ PassLeft' < PassLeft)]_vars

\* The receive after each half of a transaction returns.
THEOREM ReceiveReturns == Spec => []WaitsForItsOwn
  <1>1. TypeInv => WaitsForItsOwn
    BY DEF TypeInv, OneCompletion, WaitsForItsOwn
  <1>2. QED
    BY <1>1, TypeInit, TypeStep, PTL DEF Spec

\* The mutex is never kept by a pass that goes round for ever.
THEOREM PassEnds == Spec => PassShortens
  <1>1. ASSUME TypeInv, Next, ~MutexFree
        PROVE  UNCHANGED flusher \/ (PassLeft' \in Nat /\ PassLeft' < PassLeft)
    <2>inv. /\ flusher \in [pc : {"idle", "scan", "write"}, port : 0 .. NPorts]
            /\ flusher.pc # "idle" /\ NPorts \in Nat
            /\ flusher.pc = "write" => flusher.port < NPorts
      BY <1>1, PakAssumption DEF TypeInv, TypeOK, FlushInv, MutexFree, Ports
    <2> USE <2>inv
    <2>1. CASE FlushSkip \/ FlushWrite
      <3>1. flusher' = [pc |-> "scan", port |-> flusher.port + 1] /\ flusher.port < NPorts
        BY <2>1 DEF FlushSkip, FlushWrite, NextPort
      <3>2. PassLeft' = 2 * (NPorts - (flusher.port + 1)) + 2
        BY <3>1 DEF PassLeft
      <3>3. PassLeft \in {2 * (NPorts - flusher.port) + 2, 2 * (NPorts - flusher.port) + 1}
        BY DEF PassLeft
      <3>4. QED
        BY <3>1, <3>2, <3>3
    <2>2. CASE FlushOpen
      <3>1. flusher' = [flusher EXCEPT !.pc = "write"] /\ flusher.pc = "scan"
            /\ flusher.port < NPorts
        BY <2>2 DEF FlushOpen
      <3>2. PassLeft' = 2 * (NPorts - flusher.port) + 1
        BY <3>1 DEF PassLeft
      <3>3. PassLeft = 2 * (NPorts - flusher.port) + 2
        BY <3>1 DEF PassLeft
      <3>4. QED
        BY <3>1, <3>2, <3>3
    <2>3. CASE FlushDone \/ Crash
      <3>1. flusher'.pc = "idle"
        BY <2>3 DEF FlushDone, Crash, ColdMemory, FlushIdle
      <3>2. PassLeft' = 0 /\ PassLeft \in Nat /\ PassLeft > 0
        BY <3>1 DEF PassLeft
      <3>3. QED
        BY <3>2
    <2>4. CASE ~(FlushSkip \/ FlushOpen \/ FlushWrite \/ FlushDone \/ Crash)
      BY <1>1, <2>4
      DEF Next, Pack, DmaWrite, DmaRead, Recv, FlushStart, FlushPass, Stop, Launch
    <2>5. QED
      BY <2>1, <2>2, <2>3, <2>4
  <1>2. TypeInv /\ [Next]_vars =>
          [~MutexFree => UNCHANGED flusher \/ (PassLeft' \in Nat /\ PassLeft' < PassLeft)]_vars
    BY <1>1
  <1>3. QED
    BY <1>2, TypeInit, TypeStep, PTL DEF Spec, PassShortens

-----------------------------------------------------------------------------
(* What is left on a disk that fails                                       *)

\* Two ways a file changes: the first touch of its pak formats it, or flush
\* truncates it and writes the pak that is in memory, a dirty one.  Whatever
\* fails, no file gets another pak's image or a mixture of two.
FileFollowsPak ==
  [][\A p \in Ports : disk'[p] # disk[p] =>
       \/ ~loaded[p] /\ loaded'[p] /\ disk'[p] \in {Formatted, Short}
       \/ /\ loaded[p] /\ dirty[p] /\ ~MutexFree /\ flusher.port = p
          /\ disk'[p] \in {Short, pak[p]}]_vars

\* A pak in memory changes by the one block the game is writing, and is then
\* marked; no flush, failed or not, and no other port's transfer touches it.
PakFollowsGame ==
  [][\A p \in Ports : loaded[p] /\ loaded'[p] /\ pak'[p] # pak[p] =>
       /\ si.phase = "sent" /\ si.cmd = "write" /\ si.port = p /\ MutexFree
       /\ dirty'[p] /\ pak'[p] = [pak[p] EXCEPT ![si.block] = si.data]]_vars

LEMMA TransferTouches ==
  ASSUME TypeOK, DmaRead, NEW p \in Ports
  PROVE  /\ disk'[p] # disk[p] =>
              ~loaded[p] /\ loaded'[p] /\ disk'[p] \in {Formatted, Short}
         /\ loaded[p] /\ loaded'[p] /\ pak'[p] # pak[p] =>
              /\ si.cmd = "write" /\ si.port = p /\ MutexFree
              /\ dirty'[p] /\ pak'[p] = [pak[p] EXCEPT ![si.block] = si.data]
  <1> USE DEF memory
  <1>type. /\ si.port \in Ports /\ pak \in [Ports -> Images] /\ loaded \in [Ports -> BOOLEAN]
           /\ dirty \in [Ports -> BOOLEAN] /\ disk \in [Ports -> Files]
    BY DEF TypeOK
  <1> USE <1>type
  <1>1. CASE UNCHANGED <<pak, loaded, dirty, disk>>
    BY <1>1
  <1>2. ASSUME NEW found \in ensure_loaded(si.port), Touch(si.port, found)
        PROVE  disk'[p] # disk[p] =>
                 ~loaded[p] /\ loaded'[p] /\ disk'[p] \in {Formatted, Short}
    BY <1>2 DEF Touch, ensure_loaded, Created
  <1>3. CASE si.block \in Blocks /\ si.cmd = "write" /\ write_block(si.port, si.block, si.data)
    <2>1. PICK found \in ensure_loaded(si.port) :
            /\ Touch(si.port, found)
            /\ pak' = [pak EXCEPT ![si.port] = [found.image EXCEPT ![si.block] = si.data]]
            /\ dirty' = [dirty EXCEPT ![si.port] =
                           (loaded[si.port] /\ @) \/ found.image[si.block] # si.data]
      BY <1>3 DEF write_block
    <2>2. loaded[si.port] => found.image = pak[si.port]
      BY <2>1 DEF ensure_loaded
    <2>3. MutexFree
      BY <1>3 DEF write_block
    <2>4. ASSUME loaded[p], pak'[p] # pak[p]
          PROVE  /\ si.port = p /\ dirty'[p]
                 /\ pak'[p] = [pak[p] EXCEPT ![si.block] = si.data]
      <3>1. si.port = p
        BY <2>1, <2>4
      <3>2. pak'[p] = [pak[p] EXCEPT ![si.block] = si.data]
        BY <2>1, <2>2, <2>4, <3>1
      <3>3. pak[p][si.block] # si.data
        <4>1. pak[p] \in [Blocks -> Values]
          BY DEF Images
        <4>2. QED
          BY <2>4, <3>2, <4>1
      <3>4. dirty'[p]
        BY <2>1, <2>2, <2>4, <3>1, <3>3
      <3>5. QED
        BY <3>1, <3>2, <3>4
    <2>5. QED
      BY <1>2, <1>3, <2>1, <2>3, <2>4
  <1>4. CASE si.block \in Blocks /\ si.cmd = "read" /\ read_block(si.port, si.block)
    <2>1. PICK found \in ensure_loaded(si.port) :
            /\ Touch(si.port, found)
            /\ pak' = [pak EXCEPT ![si.port] = found.image]
      BY <1>4 DEF read_block
    <2>2. loaded[si.port] => found.image = pak[si.port]
      BY <2>1 DEF ensure_loaded
    <2>3. loaded[p] => pak'[p] = pak[p]
      BY <2>1, <2>2
    <2>4. QED
      BY <1>2, <2>1, <2>3
  <1>5. QED
    BY <1>1, <1>3, <1>4 DEF DmaRead, handle_status, handle_pak_block

\* Every step but a transfer's: the file by flush alone, the pak not at all.
LEMMA FlushTouches ==
  ASSUME TypeInv, Next, ~DmaRead, NEW p \in Ports
  PROVE  /\ disk'[p] # disk[p] =>
              /\ loaded[p] /\ dirty[p] /\ ~MutexFree /\ flusher.port = p
              /\ disk'[p] \in {Short, pak[p]}
         /\ loaded'[p] => pak'[p] = pak[p]
  <1> USE DEF memory, MutexFree
  <1>type. disk \in [Ports -> Files] /\ loaded \in [Ports -> BOOLEAN] /\ FlushInv
    BY DEF TypeInv, TypeOK
  <1>1. CASE FlushOpen
    BY <1>1, <1>type DEF FlushOpen, NeedsFlush
  <1>2. CASE FlushWrite
    BY <1>2, <1>type DEF FlushWrite, FlushInv
  <1>3. CASE FlushDone \/ Crash
    BY <1>3 DEF FlushDone, Crash, ColdMemory
  <1>4. CASE ~(FlushOpen \/ FlushWrite \/ FlushDone \/ Crash)
    BY <1>4 DEF Next, Pack, DmaWrite, Recv, FlushStart, FlushPass, FlushSkip, Stop, Launch
  <1>5. QED
    BY <1>1, <1>2, <1>3, <1>4

\* On any disk.
THEOREM FileIsOnlyEverThePak == Spec => FileFollowsPak
  <1>1. ASSUME TypeInv, Next, NEW p \in Ports, disk'[p] # disk[p]
        PROVE  \/ ~loaded[p] /\ loaded'[p] /\ disk'[p] \in {Formatted, Short}
               \/ /\ loaded[p] /\ dirty[p] /\ ~MutexFree /\ flusher.port = p
                  /\ disk'[p] \in {Short, pak[p]}
    BY <1>1, TransferTouches, FlushTouches DEF TypeInv
  <1>2. TypeInv /\ [Next]_vars =>
          [\A p \in Ports : disk'[p] # disk[p] =>
             \/ ~loaded[p] /\ loaded'[p] /\ disk'[p] \in {Formatted, Short}
             \/ /\ loaded[p] /\ dirty[p] /\ ~MutexFree /\ flusher.port = p
                /\ disk'[p] \in {Short, pak[p]}]_vars
    BY <1>1
  <1>3. QED
    BY <1>2, TypeInit, TypeStep, PTL DEF Spec, FileFollowsPak

\* On any disk: a failed flush loses the file, never what the game plays with.
THEOREM PakIsWhatTheGameWrote == Spec => PakFollowsGame
  <1>1. ASSUME TypeInv, Next, NEW p \in Ports, loaded[p], loaded'[p], pak'[p] # pak[p]
        PROVE  /\ si.phase = "sent" /\ si.cmd = "write" /\ si.port = p /\ MutexFree
               /\ dirty'[p] /\ pak'[p] = [pak[p] EXCEPT ![si.block] = si.data]
    <2>1. DmaRead
      BY <1>1, FlushTouches
    <2>2. si.phase = "sent"
      BY <2>1 DEF DmaRead
    <2>3. QED
      BY <1>1, <2>1, <2>2, TransferTouches DEF TypeInv
  <1>2. TypeInv /\ [Next]_vars =>
          [\A p \in Ports : loaded[p] /\ loaded'[p] /\ pak'[p] # pak[p] =>
             /\ si.phase = "sent" /\ si.cmd = "write" /\ si.port = p /\ MutexFree
             /\ dirty'[p] /\ pak'[p] = [pak[p] EXCEPT ![si.block] = si.data]]_vars
    BY <1>1
  <1>3. QED
    BY <1>2, TypeInit, TypeStep, PTL DEF Spec, PakFollowsGame
=============================================================================
