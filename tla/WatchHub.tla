----------------------------- MODULE WatchHub -----------------------------
(***************************************************************************)
(* The server's live feed: WatchHub (who is subscribed, the bounded queue  *)
(* of pokes of each subscriber) and the Stream handler that drains a queue *)
(* to one client.  A poke names an incident or a report of an event, never *)
(* its content.  Publishers are the write RPCs: they call Publish after a  *)
(* commit and must never wait for a client.                                *)
(*                                                                         *)
(* Every critical section of the hub's mutex is one step.  Stream is       *)
(* several: tokens expire, permissions change and pokes arrive between its *)
(* checks and its sends.                                                   *)
(***************************************************************************)
EXTENDS Integers, Sequences

CONSTANTS Sessions,     \* one element per Stream call
          Pokes,        \* the incidents and reports that may change
          EventOf,      \* EventOf[p]: the poke's EventID, 0 for none
          Watches,      \* Watches[s]: the event ids requested by s
          WatchBuffer,  \* watchBuffer, 64 in the code
          MaxPublishes  \* bound: calls to Publish

ASSUME HubAssumption ==
  /\ EventOf \in [Pokes -> Nat]
  /\ Watches \in [Sessions -> SUBSET (Nat \ {0})]
  /\ WatchBuffer \in Nat \ {0}
  /\ MaxPublishes \in Nat

VARIABLES
  subs,      \* h.subs: the attached sessions
  pokes,     \* pokes[s]: the queue of s
  closed,    \* sessions whose channel is closed
  reason,    \* reason[s]: why the hub ended s
  pc,        \* pc[s]: where the handler is
  hand,      \* hand[s]: the poke it has taken and not yet dealt with
  result,    \* result[s]: what Stream returned
  token,     \* token[s]: the caller's claims, as of now
  hidden,    \* pairs <<s, p>>: s may not see p, as of now
  down,      \* the shutdown hook has called Close
  publishes, \* calls to Publish so far
  due,       \* due[s]: pokes published to s while attached (history)
  dealt,     \* dealt[s]: pokes sent to s or withheld from it (history)
  late,      \* late[s]: messages sent after the token expired (history)
  blind      \* sessions whose poke in hand has been hidden from s ever
             \* since it was taken (history)

hubVars == <<subs, pokes, closed, reason>>
envVars == <<token, hidden, down, publishes>>
vars == <<hubVars, pc, hand, result, envVars, due, dealt, late, blind>>

Locations == {"idle", "gate", "subscribe", "beat", "loop", "visible", "send",
              "closing", "done"}
Results == {"none", "gone", "unauthenticated", "denied", "sendError",
            "fellBehind", "shuttingDown"}

Init ==
  /\ subs = {}
  /\ pokes = [s \in Sessions |-> <<>>]
  /\ closed = {}
  /\ reason = [s \in Sessions |-> "none"]
  /\ pc = [s \in Sessions |-> "idle"]
  /\ hand = [s \in Sessions |-> <<>>]
  /\ result = [s \in Sessions |-> "none"]
  /\ token \in [Sessions -> {"none", "valid"}]
  /\ hidden = {}
  /\ down = FALSE
  /\ publishes = 0
  /\ due = [s \in Sessions |-> 0]
  /\ dealt = [s \in Sessions |-> 0]
  /\ late = [s \in Sessions |-> 0]
  /\ blind = {}

---------------------------------------------------------------------------
(* The hub.                                                                *)

(* WatchSession.end: the reason, then the close, at most once.             *)
End(S, why) ==
  /\ reason' = [s \in Sessions |-> IF s \in S \ closed THEN why ELSE reason[s]]
  /\ closed' = closed \cup S

Watching(s, p) == EventOf[p] \in Watches[s]

(* The send would block.                                                   *)
Full(s) == Len(pokes[s]) = WatchBuffer

(* A Publish that skips a full queue and leaves its session attached.      *)
PublishSkipsFull(p) ==
  LET to == {s \in subs : Watching(s, p) /\ ~Full(s)}
      owed == {s \in subs : Watching(s, p)}
  IN /\ EventOf[p] # 0
     /\ publishes < MaxPublishes
     /\ publishes' = publishes + 1
     /\ pokes' = [s \in Sessions |-> IF s \in to THEN Append(pokes[s], p)
                                                 ELSE pokes[s]]
     /\ due' = [s \in Sessions |-> IF s \in owed THEN due[s] + 1 ELSE due[s]]
     /\ UNCHANGED <<subs, closed, reason, pc, hand, result, token, hidden,
                    down, dealt, late, blind>>

(* Publish: a non-blocking send to every session watching the event; one   *)
(* whose queue is full is detached and ended.                              *)
Publish(p) ==
  LET owed == {s \in subs : Watching(s, p)}
      full == {s \in owed : Full(s)}
  IN /\ EventOf[p] # 0
     /\ publishes < MaxPublishes
     /\ publishes' = publishes + 1
     /\ pokes' = [s \in Sessions |-> IF s \in owed \ full
                                     THEN Append(pokes[s], p) ELSE pokes[s]]
     /\ due' = [s \in Sessions |-> IF s \in owed THEN due[s] + 1 ELSE due[s]]
     /\ subs' = subs \ full
     /\ End(full, "fellBehind")
     /\ UNCHANGED <<pc, hand, result, token, hidden, down, dealt, late, blind>>

(* Close, from the server's shutdown hook.                                 *)
CloseHub ==
  /\ ~down
  /\ down' = TRUE
  /\ subs' = {}
  /\ End(subs, "shuttingDown")
  /\ UNCHANGED <<pokes, pc, hand, result, token, hidden, publishes, due, dealt,
                 late, blind>>

---------------------------------------------------------------------------
(* One Stream call.                                                        *)

Expired(s) == token[s] = "expired"

(* Stream returns before it subscribed.                                    *)
Refuse(s, why) ==
  /\ pc' = [pc EXCEPT ![s] = "done"]
  /\ result' = [result EXCEPT ![s] = why]

(* Claims and expiry are checked before anything else.  A server that is   *)
(* shutting down accepts no new request, but finishes those under way.     *)
Open(s) ==
  /\ pc[s] = "idle"
  /\ ~down
  /\ token[s] = "valid"
  /\ pc' = [pc EXCEPT ![s] = "gate"]
  /\ UNCHANGED <<hubVars, hand, result, envVars, due, dealt, late, blind>>

OpenRefused(s) ==
  /\ pc[s] = "idle"
  /\ ~down
  /\ token[s] # "valid"
  /\ Refuse(s, "unauthenticated")
  /\ UNCHANGED <<hubVars, hand, envVars, due, dealt, late, blind>>

(* MayWatch per requested event: the policy lets the caller in or not.     *)
GatePasses(s) ==
  /\ pc[s] = "gate"
  /\ pc' = [pc EXCEPT ![s] = "subscribe"]
  /\ UNCHANGED <<hubVars, hand, result, envVars, due, dealt, late, blind>>

GateDenies(s) ==
  /\ pc[s] = "gate"
  /\ Refuse(s, "denied")
  /\ UNCHANGED <<hubVars, hand, envVars, due, dealt, late, blind>>

(* Subscribe attaches; the first beat is next.                             *)
Subscribe(s) ==
  /\ pc[s] = "subscribe"
  /\ subs' = subs \cup {s}
  /\ pc' = [pc EXCEPT ![s] = "beat"]
  /\ UNCHANGED <<pokes, closed, reason, hand, result, envVars, due, dealt, late,
                 blind>>

(* Stream returns: the deferred session.Close is still to run.             *)
Return(s, why) ==
  /\ pc' = [pc EXCEPT ![s] = "closing"]
  /\ result' = [result EXCEPT ![s] = why]

CountLate(s) ==
  late' = IF Expired(s) THEN [late EXCEPT ![s] = late[s] + 1] ELSE late

(* A heartbeat is written; or a write, of a heartbeat or a poke, fails.    *)
Beat(s) ==
  /\ pc[s] = "beat"
  /\ pc' = [pc EXCEPT ![s] = "loop"]
  /\ CountLate(s)
  /\ UNCHANGED <<hubVars, hand, result, envVars, due, dealt, blind>>

SendFails(s) ==
  /\ pc[s] \in {"beat", "send"}
  /\ Return(s, "sendError")
  /\ UNCHANGED <<hubVars, hand, envVars, due, dealt, late, blind>>

(* select: the request's context is done.                                  *)
ContextDone(s) ==
  /\ pc[s] = "loop"
  /\ Return(s, "gone")
  /\ UNCHANGED <<hubVars, hand, envVars, due, dealt, late, blind>>

(* select: the ticker.  An expired stream ends here.                       *)
Tick(s) ==
  /\ pc[s] = "loop"
  /\ ~Expired(s)
  /\ pc' = [pc EXCEPT ![s] = "beat"]
  /\ UNCHANGED <<hubVars, hand, result, envVars, due, dealt, late, blind>>

TickExpired(s) ==
  /\ pc[s] = "loop"
  /\ Expired(s)
  /\ Return(s, "unauthenticated")
  /\ UNCHANGED <<hubVars, hand, envVars, due, dealt, late, blind>>

(* select: a poke.  A closed channel still hands out what it holds.        *)
PickUp(s) ==
  /\ pokes[s] # <<>>
  /\ hand' = [hand EXCEPT ![s] = <<Head(pokes[s])>>]
  /\ pokes' = [pokes EXCEPT ![s] = Tail(pokes[s])]
  /\ blind' = IF <<s, Head(pokes[s])>> \in hidden THEN blind \cup {s} ELSE blind

Take(s) ==
  /\ pc[s] = "loop"
  /\ ~Expired(s)
  /\ PickUp(s)
  /\ pc' = [pc EXCEPT ![s] = "visible"]
  /\ UNCHANGED <<subs, closed, reason, result, envVars, due, dealt, late>>

TakeExpired(s) ==
  /\ pc[s] = "loop"
  /\ Expired(s)
  /\ PickUp(s)
  /\ Return(s, "unauthenticated")
  /\ UNCHANGED <<subs, closed, reason, envVars, due, dealt, late>>

(* A handler that takes the end of the channel for an empty queue.         *)
ChannelClosedIgnored(s) ==
  /\ pc[s] = "loop"
  /\ pokes[s] = <<>>
  /\ s \in closed
  /\ UNCHANGED vars

(* select: the channel is drained and closed.                              *)
ChannelClosed(s) ==
  /\ pc[s] = "loop"
  /\ pokes[s] = <<>>
  /\ s \in closed
  /\ Return(s, reason[s])
  /\ UNCHANGED <<hubVars, hand, envVars, due, dealt, late, blind>>

(* The poke in hand is done with.                                          *)
PutDown(s) ==
  /\ hand' = [hand EXCEPT ![s] = <<>>]
  /\ blind' = blind \ {s}
  /\ dealt' = [dealt EXCEPT ![s] = dealt[s] + 1]

(* A check that trusts what the subscriber could see when it subscribed.   *)
CheckTrusting(s) ==
  /\ pc[s] = "visible"
  /\ pc' = [pc EXCEPT ![s] = "send"]
  /\ UNCHANGED <<hubVars, hand, result, envVars, due, dealt, late, blind>>

(* Visible, run again for every poke.                                      *)
CheckPasses(s) ==
  /\ pc[s] = "visible"
  /\ <<s, Head(hand[s])>> \notin hidden
  /\ pc' = [pc EXCEPT ![s] = "send"]
  /\ UNCHANGED <<hubVars, hand, result, envVars, due, dealt, late, blind>>

(* Not visible, or the lookup failed: silently on to the next.             *)
Withhold(s) ==
  /\ pc[s] = "visible"
  /\ pc' = [pc EXCEPT ![s] = "loop"]
  /\ PutDown(s)
  /\ UNCHANGED <<hubVars, result, envVars, due, late>>

(* The poke is written.                                                    *)
Send(s) ==
  /\ pc[s] = "send"
  /\ pc' = [pc EXCEPT ![s] = "loop"]
  /\ PutDown(s)
  /\ CountLate(s)
  /\ UNCHANGED <<hubVars, result, envVars, due>>

(* The deferred session.Close; nothing to do for one the hub has ended.    *)
CloseSession(s) ==
  /\ pc[s] = "closing"
  /\ pc' = [pc EXCEPT ![s] = "done"]
  /\ subs' = subs \ {s}
  /\ End({s} \cap subs, "none")
  /\ UNCHANGED <<pokes, hand, result, envVars, due, dealt, late, blind>>

---------------------------------------------------------------------------
(* What goes on around the hub: time and permissions, as far as they       *)
(* matter to a call in progress.                                           *)
InProgress(s) == pc[s] \notin {"closing", "done"}

ExpireToken(s) ==
  /\ InProgress(s)
  /\ token[s] = "valid"
  /\ token' = [token EXCEPT ![s] = "expired"]
  /\ UNCHANGED <<hubVars, pc, hand, result, hidden, down, publishes, due, dealt,
                 late, blind>>

Hide(s, p) ==
  /\ InProgress(s) /\ Watching(s, p)
  /\ hidden' = hidden \cup {<<s, p>>}
  /\ UNCHANGED <<hubVars, pc, hand, result, token, down, publishes, due, dealt,
                 late, blind>>

Show(s, p) ==
  /\ InProgress(s) /\ Watching(s, p)
  /\ hidden' = hidden \ {<<s, p>>}
  /\ blind' = IF hand[s] = <<p>> THEN blind \ {s} ELSE blind
  /\ UNCHANGED <<hubVars, pc, hand, result, token, down, publishes, due, dealt,
                 late>>

Handler(s) ==
  \/ Open(s) \/ OpenRefused(s) \/ GatePasses(s) \/ GateDenies(s)
  \/ Subscribe(s) \/ Beat(s) \/ SendFails(s) \/ ContextDone(s)
  \/ Tick(s) \/ TickExpired(s) \/ Take(s) \/ TakeExpired(s)
  \/ ChannelClosed(s) \/ CheckPasses(s) \/ Withhold(s) \/ Send(s)
  \/ CloseSession(s)

Next ==
  \/ \E p \in Pokes : Publish(p)
  \/ CloseHub
  \/ \E s \in Sessions : \/ Handler(s)
                         \/ ExpireToken(s)
                         \/ \E p \in Pokes : Hide(s, p) \/ Show(s, p)

Spec == Init /\ [][Next]_vars

(* The handler's goroutine runs; select picks among ready cases at random, *)
(* so a case that is ready again and again is picked eventually.  Nothing  *)
(* makes a client leave, a token expire or a writer publish.               *)
FairSpec ==
  /\ Spec
  /\ \A s \in Sessions :
       /\ WF_vars(GatePasses(s) \/ GateDenies(s) \/ Subscribe(s) \/ Beat(s)
                  \/ CheckPasses(s) \/ Withhold(s) \/ Send(s) \/ SendFails(s)
                  \/ CloseSession(s))
       /\ SF_vars(Take(s) \/ TakeExpired(s) \/ ChannelClosed(s))
       /\ SF_vars(Tick(s) \/ TickExpired(s))

---------------------------------------------------------------------------
TypeOK ==
  /\ subs \in SUBSET Sessions
  /\ pokes \in [Sessions -> Seq(Pokes)]
  /\ \A s \in Sessions : Len(pokes[s]) <= WatchBuffer
  /\ closed \in SUBSET Sessions
  /\ reason \in [Sessions -> Results]
  /\ pc \in [Sessions -> Locations]
  /\ hand \in [Sessions -> {<<>>} \cup {<<p>> : p \in Pokes}]
  /\ result \in [Sessions -> Results]
  /\ token \in [Sessions -> {"none", "valid", "expired"}]
  /\ hidden \in SUBSET (Sessions \X Pokes)
  /\ down \in BOOLEAN
  /\ publishes \in Nat
  /\ due \in [Sessions -> Nat]
  /\ dealt \in [Sessions -> Nat]
  /\ late \in [Sessions -> Nat]
  /\ blind \in SUBSET Sessions

(* Publish never sends on a closed channel and nothing closes one twice    *)
(* (either would panic the writer's RPC): an attached session is open, and *)
(* a handler that has returned is neither attached nor left open.          *)
NoSendOnClosed ==
  /\ subs \cap closed = {}
  /\ \A s \in Sessions : pc[s] = "done" => s \notin subs

Held(s) == IF hand[s] = <<>> THEN 0 ELSE 1
Missed(s) == IF reason[s] = "fellBehind" THEN 1 ELSE 0

(* No poke is lost silently.  As long as a session is attached every poke  *)
(* published to it is sent, withheld, in hand or queued; one dropped for a *)
(* full queue has missed exactly the poke that found it full, and the hub  *)
(* has recorded errFellBehind.                                             *)
NoSilentLoss ==
  \A s \in Sessions :
    due[s] = dealt[s] + Held(s) + Len(pokes[s]) + Missed(s)

(* What Stream returns is the truth: errFellBehind only after all but one  *)
(* poke was dealt with, errShuttingDown only after all of them were, and   *)
(* any other end of an attached stream only by client, token or transport. *)
ReasonIsHonest ==
  \A s \in Sessions :
    /\ result[s] = "fellBehind" => due[s] = dealt[s] + 1
    /\ result[s] = "shuttingDown" => down /\ due[s] = dealt[s]

(* After its token has expired a stream writes at most the one message     *)
(* whose check the expiry raced: every later message checks first.         *)
AtMostOneLateSend == \A s \in Sessions : late[s] <= 1

(* Visibility is decided per poke, not at subscribe time: a poke hidden    *)
(* from the subscriber from before it was taken until now is never sent.   *)
HiddenPokesWithheld == \A s \in Sessions : pc[s] = "send" => s \notin blind

(* What Stream owes a subscriber (watchhub.go, watchstream.go): no channel *)
(* is sent to after it was closed, no poke is lost untold, the end it      *)
(* reports is the true one, at most one message goes out after the token   *)
(* expired, and a poke hidden throughout is withheld.                      *)
HubSafe == /\ NoSendOnClosed
           /\ NoSilentLoss
           /\ ReasonIsHonest
           /\ AtMostOneLateSend
           /\ HiddenPokesWithheld

(* A dropped subscriber learns of it: once the hub has ended a session its *)
(* handler returns, even while heartbeats and queued pokes are ready too.  *)
EndedStreamsReturn ==
  \A s \in Sessions : s \in closed ~> pc[s] = "done"

(* A stream does not outlive its token: an idle one ends at a heartbeat.   *)
ExpiredStreamsReturn ==
  \A s \in Sessions : token[s] = "expired" /\ pc[s] # "idle" ~> pc[s] = "done"

(* After the shutdown hook has run no stream is attached: Stream serves    *)
(* its subscriber "until ... the server shuts down".                       *)
ShutdownEndsStreams == down => subs = {}

(* What a client may rely on, PokeFeed, is what the hub, its queues and    *)
(* the Stream handler do together: the poke in hand and those in the       *)
(* channel are the ones still owed, and a session that the hub has ended   *)
(* but whose handler runs on is cut.                                       *)
StageOf(s) ==
  IF pc[s] \in {"idle", "gate", "subscribe"} THEN "off"
  ELSE IF pc[s] \in {"closing", "done"} THEN "over"
  ELSE IF s \in subs THEN "on" ELSE "cut"

Feed == INSTANCE PokeFeed WITH
          Audience <- [p \in Pokes |-> {s \in Sessions : Watching(s, p)}],
          stage <- [s \in Sessions |-> StageOf(s)],
          due <- [s \in Sessions |-> IF StageOf(s) \in {"on", "cut"}
                                     THEN due[s] ELSE 0],
          owed <- [s \in Sessions |-> IF StageOf(s) \in {"on", "cut"}
                                      THEN hand[s] \o pokes[s] ELSE <<>>]

(* The hub and its handlers implement the feed: no step loses, reorders or *)
(* repeats a poke of a session that goes on.                               *)
ImplementsFeed == Feed!Spec

---------------------------------------------------------------------------
(* The inductive invariant behind the safety properties.                   *)

Serving == {"beat", "loop", "visible", "send", "closing"}

(* Who is attached, ended or not yet attached.                             *)
AttachInv ==
  \A s \in Sessions :
    /\ s \in subs => pc[s] \in Serving /\ s \notin closed
    /\ reason[s] # "none" => s \in closed
    /\ reason[s] = "shuttingDown" => down
    /\ pc[s] \in {"idle", "gate", "subscribe"} => s \notin closed

(* What the handler holds, by where it is.                                 *)
HandInv ==
  \A s \in Sessions :
    /\ pc[s] \in {"idle", "gate", "subscribe", "beat", "loop"} => hand[s] = <<>>
    /\ pc[s] \in {"visible", "send"} => hand[s] # <<>>
    /\ s \in blind => hand[s] # <<>>
    /\ pc[s] = "visible" /\ s \in blind => <<s, Head(hand[s])>> \in hidden

(* A message is late only when the expiry came after its check.            *)
LateInv ==
  \A s \in Sessions :
    /\ late[s] <= 1
    /\ late[s] > 0 => Expired(s) /\ pc[s] \in {"loop", "closing", "done"}

(* A result of the hub's making is the recorded reason, after draining.    *)
ResultInv ==
  \A s \in Sessions :
    result[s] \in {"fellBehind", "shuttingDown"} =>
      /\ pc[s] \in {"closing", "done"}
      /\ reason[s] = result[s]
      /\ hand[s] = <<>> /\ pokes[s] = <<>>

IInv == /\ TypeOK /\ AttachInv /\ HandInv /\ LateInv /\ ResultInv
        /\ NoSilentLoss /\ HiddenPokesWithheld
===========================================================================
