---------------------------- MODULE MemorySearch -----------------------------
(***************************************************************************)
(* The memory search and the freeze (src/src/memory_search.cpp): F5         *)
(* remembers every word, F6, F7 and F8 keep the words that went down, held   *)
(* still or went up since; RAYMAN2_FREEZE holds words at what they first     *)
(* held.  Both run on the thread that pumps events while the game writes.   *)
(***************************************************************************)
EXTENDS GameMemory, FiniteSets

CONSTANTS Unready,     \* 0x00000000 and 0xCCCCCCCC: what freezing refuses
          SelftestAt   \* the age at which the n-th step of the selftest is due

\* Memory is zero before the game writes it; the selftest has four steps.
ASSUME SearchAssumption ==
  /\ Values \subseteq Int /\ 0 \in Values
  /\ Unready \subseteq Values
  /\ SelftestAt \in [0 .. 3 -> Nat]

VARIABLES
  memsearch,    \* RAYMAN2_MEMSEARCH: "off", "keys" or "selftest"
  started,      \* g_started
  remembered,   \* g_candidates and g_snapshot: candidate -> value last read
  narrowings,   \* g_narrowings
  pressed,      \* the keys the last search came from
  wasDown,      \* was_down of the four keys
  step,         \* the selftest's step
  readout,      \* g_published_candidates, g_published_started
  frozen        \* RAYMAN2_FREEZE: address -> value captured

searchVars == <<memsearch, started, remembered, narrowings, pressed, wasDown, step, readout>>

SearchKeys == {"F5", "F6", "F7", "F8"}
Nothing == [w \in {} |-> 0]

SearchInit ==
  /\ memsearch \in {"off", "keys", "selftest"}
  /\ started = FALSE
  /\ remembered = Nothing
  /\ narrowings = 0
  /\ pressed = {}
  /\ wasDown = {}
  /\ step = 0
  /\ readout = [candidates |-> 0, started |-> FALSE]
  /\ frozen \in {Nothing} \cup {[w \in {v} |-> 0] : v \in Words}

Candidates == DOMAIN remembered

-----------------------------------------------------------------------------

\* The game writes a word while memory is being read: every word is read once,
\* before or after.  read_word is taken for one access, though it copies bytes.
Readings(before, after) ==
  {r \in [Words -> Values] : \A w \in Words : r[w] \in {before[w], after[w]}}

Keeps(direction, was, is) ==
  \/ direction = "F6" /\ is < was
  \/ direction = "F7" /\ is = was
  \/ direction = "F8" /\ is > was

\* The search as it stands: one key's work on another's.
Search == [on |-> started, values |-> remembered, count |-> narrowings]

start(s, r) == [on |-> TRUE, values |-> r, count |-> 0]

\* The value compared is the one remembered for the next time.
narrow_no_snapshot(s, r, direction) ==
  IF ~s.on THEN s
  ELSE LET kept == {w \in DOMAIN s.values : Keeps(direction, s.values[w], r[w])}
       IN  [on |-> TRUE, values |-> [w \in kept |-> s.values[w]], count |-> s.count + 1]
narrow(s, r, direction) ==
  IF ~s.on THEN s
  ELSE LET kept == {w \in DOMAIN s.values : Keeps(direction, s.values[w], r[w])}
       IN  [on |-> TRUE, values |-> [w \in kept |-> r[w]], count |-> s.count + 1]

Become(s) ==
  /\ started' = s.on
  /\ remembered' = s.values
  /\ narrowings' = s.count
  /\ readout' = [candidates |-> Cardinality(DOMAIN s.values), started |-> s.on]

Press(s, r, key) == IF key = "F5" THEN start(s, r) ELSE narrow(s, r, key)

\* A key that went down since the last poll is one press.
Edges_level(down) == down
Edges(down) == down \ wasDown

\* Two keys in one poll act in the order of their numbers; the second finds
\* memory as it is by then.
PollKeys(down, before, after) ==
  /\ wasDown' = down \cap SearchKeys
  /\ LET new == Edges(down \cap SearchKeys)
     IN  /\ pressed' = IF new = {} THEN pressed ELSE new
         /\ \/ new = {} /\ UNCHANGED <<started, remembered, narrowings, readout>>
            \/ \E k \in new, r \in Readings(before, after) :
                 /\ new = {k}
                 /\ Become(Press(Search, r, k))
            \/ \E k, l \in new, r \in Readings(before, after) :
                 /\ new = {k, l}
                 /\ <<k, l>> \in {<<"F5", "F6">>, <<"F5", "F7">>, <<"F5", "F8">>,
                                  <<"F6", "F7">>, <<"F6", "F8">>, <<"F7", "F8">>}
                 /\ \E q \in Readings(r, after) : Become(Press(Press(Search, r, k), q, l))
  /\ UNCHANGED step

\* On a timer: start, then "unchanged" three times.
PollSelftest(age, before, after) ==
  /\ IF step <= 3 /\ age >= SelftestAt[step]
       THEN /\ step' = step + 1
            /\ \E r \in Readings(before, after) :
                 Become(IF step = 0 THEN start(Search, r) ELSE narrow(Search, r, "F7"))
            /\ pressed' = {IF step = 0 THEN "F5" ELSE "F7"}
       ELSE UNCHANGED <<step, started, remembered, narrowings, readout, pressed>>
  /\ UNCHANGED wasDown

memory_search_poll(down, age, before, after) ==
  /\ CASE memsearch = "off" ->
            UNCHANGED <<started, remembered, narrowings, pressed, wasDown, step, readout>>
       [] memsearch = "keys" -> PollKeys(down, before, after)
       [] memsearch = "selftest" -> PollSelftest(age, before, after)
  /\ UNCHANGED memsearch

-----------------------------------------------------------------------------

\* What the freeze leaves in memory, and which addresses it holds from now on.
Captured(mem) == {w \in DOMAIN frozen : frozen[w] \notin Unready}
Holds(mem) == [w \in Words |-> IF w \in Captured(mem) THEN frozen[w] ELSE mem[w]]
memory_freeze_poll(mem) ==
  frozen' = [w \in DOMAIN frozen |-> IF w \in Captured(mem) THEN frozen[w] ELSE mem[w]]
=============================================================================
