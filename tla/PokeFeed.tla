----------------------------- MODULE PokeFeed -----------------------------
(***************************************************************************)
(* What the live feed promises a client, with none of its machinery: while *)
(* a session is attached every poke published to it is queued for it, in   *)
(* order, or the session is cut; a cut session is still given what it was  *)
(* owed and then ends.  No poke disappears from a session that goes on.    *)
(* WatchHub implements this module; LiveHub is a client of it.             *)
(***************************************************************************)
EXTENDS Naturals, Sequences

CONSTANTS Sessions, Pokes,
          Audience   \* Audience[p]: the sessions that asked for the event of p

VARIABLES stage,  \* stage[s]: "off", "on", "cut" or "over"
          due,    \* due[s]: how many pokes were announced to s since it attached
          owed    \* owed[s]: those that it has not been given

feedVars == <<stage, due, owed>>

Init ==
  /\ stage = [s \in Sessions |-> "off"]
  /\ due = [s \in Sessions |-> 0]
  /\ owed = [s \in Sessions |-> <<>>]

Attach(s) ==
  /\ stage[s] \in {"off", "over"}
  /\ stage' = [stage EXCEPT ![s] = "on"]
  /\ due' = [due EXCEPT ![s] = 0]
  /\ owed' = [owed EXCEPT ![s] = <<>>]

(* A poke is queued for every attached session of its audience but those   *)
(* that are cut instead: there is no third way.                            *)
Announce(p, cut) ==
  LET S == {s \in Sessions : s \in Audience[p] /\ stage[s] = "on"} IN
  /\ cut \subseteq S
  /\ stage' = [s \in Sessions |-> IF s \in cut THEN "cut" ELSE stage[s]]
  /\ due' = [s \in Sessions |-> IF s \in S THEN due[s] + 1 ELSE due[s]]
  /\ owed' = [s \in Sessions |-> IF s \in S \ cut THEN Append(owed[s], p)
                                                  ELSE owed[s]]

(* The server stops: every attached session is cut.                        *)
CutAll ==
  /\ stage' = [s \in Sessions |-> IF stage[s] = "on" THEN "cut" ELSE stage[s]]
  /\ UNCHANGED <<due, owed>>

(* The oldest poke is sent, or withheld from a viewer who may not see it.  *)
Give(s) ==
  /\ stage[s] \in {"on", "cut"}
  /\ owed[s] # <<>>
  /\ owed' = [owed EXCEPT ![s] = Tail(owed[s])]
  /\ UNCHANGED <<due, stage>>

(* The stream ends and the client is told; what it was owed is void.       *)
Over(s) ==
  /\ stage' = [stage EXCEPT ![s] = "over"]
  /\ due' = [due EXCEPT ![s] = 0]
  /\ owed' = [owed EXCEPT ![s] = <<>>]

Next ==
  \/ \E p \in Pokes, cut \in SUBSET Sessions : Announce(p, cut)
  \/ CutAll
  \/ \E s \in Sessions : Attach(s) \/ Give(s) \/ Over(s)

Spec == Init /\ [][Next]_feedVars
===========================================================================
