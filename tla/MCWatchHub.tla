---------------------------- MODULE MCWatchHub ----------------------------
(* One stream that watches event 1, and pokes of event 1, of event 2 and   *)
(* of no event; the proofs cover any number of streams and events.         *)
EXTENDS WatchHub

CONSTANTS s1, p0, p1, p2, p3

MCSessions == {s1}
MCPokes == {p0, p1, p2, p3}
MCEventOf == [p \in MCPokes |-> CASE p = p0 -> 0 [] p = p3 -> 2 [] OTHER -> 1]
MCWatches == [s \in MCSessions |-> {1}]
===========================================================================
