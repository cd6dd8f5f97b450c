----------------------------- MODULE MCEventPump -----------------------------
(* EventPump for TLC: two words of memory, one of them the flag; slices of *)
(* an eighth of a second and a settling time of two windows.              *)
EXTENDS EventPump

MCPerSlice == [m \in Modes |-> CASE m = "title" -> 0 [] m = "demo" -> 8 [] m = "between" -> 2]
MCFlagValue == [m \in {"title", "demo"} |-> IF m = "title" THEN 0 ELSE 1]
MCValues == {-1, 0, 1}
MCUnready == {-1, 0}
MCSelftestAt == [n \in 0 .. 3 |-> 2 + n]
MCArms == {{"scan"}, {"search"}, {"selftest", "freeze"}, {"capture"}, {"audio"}}
MCVi == {[origin |-> 0, width |-> 320, pixel |-> 2, start |-> 37, end |-> 511, scale |-> 1024],
         [origin |-> 1, width |-> 320, pixel |-> 2, start |-> 37, end |-> 511, scale |-> 967],
         [origin |-> 1, width |-> 640, pixel |-> 3, start |-> 511, end |-> 37, scale |-> 1024],
         [origin |-> 1, width |-> 4095, pixel |-> 3, start |-> 0, end |-> 1023, scale |-> 4095],
         [origin |-> 1, width |-> 320, pixel |-> 1, start |-> 37, end |-> 511, scale |-> 1024]}
MCVolumes == {-10, 0, 50, 100, 150}
=============================================================================
