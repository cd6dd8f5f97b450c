------------------------------ MODULE PakStore ------------------------------
(***************************************************************************)
(* What the Controller Pak promises the game: blocks that return what was  *)
(* written last, and a saved copy that a restart comes back to.  Saving    *)
(* replaces the copy, and a process that dies while it saves a pak loses   *)
(* that one: it is blank after the restart.                                *)
(***************************************************************************)
CONSTANTS Ports, Blocks, Values,
          Formatted,   \* a blank pak
          Nobody       \* no pak is being saved

VARIABLES store,    \* what the game reads in each block of each port
          saved,    \* what it would read there after a restart
          saving,   \* the port being saved, or Nobody
          reply     \* the data of the last answer

storeVars == <<store, saved, saving, reply>>

StoreInit ==
  /\ store = [p \in Ports |-> Formatted]
  /\ saved = store
  /\ saving = Nobody
  /\ reply \in Values

\* The game and the saver exclude each other.
Write(p, b, v) ==
  /\ saving = Nobody
  /\ store' = [store EXCEPT ![p][b] = v]
  /\ reply' = v
  /\ UNCHANGED <<saved, saving>>

Read(p, b) ==
  /\ saving = Nobody
  /\ reply' = store[p][b]
  /\ UNCHANGED <<store, saved, saving>>

\* The status query, the identify register and addresses that hold nothing.
Elsewhere ==
  /\ reply' \in Values
  /\ UNCHANGED <<store, saved, saving>>

BeginSave(p) ==
  /\ saving = Nobody
  /\ saving' = p
  /\ saved' = [saved EXCEPT ![p] = store[p]]
  /\ UNCHANGED <<store, reply>>

EndSave ==
  /\ saving # Nobody
  /\ saving' = Nobody
  /\ UNCHANGED <<store, saved, reply>>

Restart ==
  /\ saved' = [p \in Ports |-> IF p = saving THEN Formatted ELSE saved[p]]
  /\ store' = saved'
  /\ saving' = Nobody
  /\ UNCHANGED reply

StoreNext ==
  \/ \E p \in Ports : BeginSave(p)
  \/ EndSave
  \/ \E p \in Ports, b \in Blocks : Read(p, b) \/ \E v \in Values : Write(p, b, v)
  \/ Elsewhere
  \/ Restart

StoreSpec == StoreInit /\ [][StoreNext]_storeVars
=============================================================================
