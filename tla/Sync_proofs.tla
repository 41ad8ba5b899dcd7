---------------------------- MODULE Sync_proofs ----------------------------
(***************************************************************************)
(* What keeps the Expo client in step with the server, for any screens,    *)
(* records, users, calls and number of changes.  The hub has one stream    *)
(* exactly while a screen watches and the app is in front, and what the    *)
(* screens show while it is quiet is what is committed.  The session: between*)
(* two ends of it no two of booting, signing in and being signed in overlap,*)
(* so every token in use is that of the session in the store.              *)
(***************************************************************************)
EXTENDS LiveHub, Session, TLAPS

(***************************************************************************)
(* The live hub.                                                           *)
(***************************************************************************)

Views == [Items -> Absent .. MaxCommits]

(* The types, by the parts of the state; a little more than TypeOK says.   *)
ServerTypes == /\ db \in [Items -> 0 .. MaxCommits] /\ hidden \in SUBSET Items
               /\ commits \in 0 .. MaxCommits
FeedTypes == /\ stage \in [{Me} -> {"off", "on", "cut", "over"}]
             /\ due \in [{Me} -> Nat]
             /\ owed \in [{Me} -> Seq(Items)]
HubTypes == /\ refs \in SUBSET Screens
            /\ active \in BOOLEAN /\ gap \in BOOLEAN /\ everOpened \in BOOLEAN
            /\ loop \in {"off", "connecting", "open", "backoff"}
CacheTypes == /\ data \in [Queries -> Views] /\ answer \in [Queries -> Views]
              /\ fetch \in [Queries -> {"idle", "sent", "read"}]
              /\ loaded \in SUBSET Queries /\ invalid \in SUBSET Queries
              /\ missed \in SUBSET Queries /\ late \in SUBSET Queries
PatchTypes == /\ patchSeq \in [Incidents -> Nat]
              /\ \A p \in patches :
                   /\ p \in [item : Incidents, seq : Nat,
                             view : Pending .. MaxCommits, old : BOOLEAN]
                   /\ p.seq <= patchSeq[p.item]

(* One stream while it is wanted.                                          *)
StreamInv == /\ loop # "off" <=> refs # {} /\ active
             /\ stage[Me] \in {"on", "cut"} => loop \in {"connecting", "open"}

LInv == ServerTypes /\ FeedTypes /\ HubTypes /\ CacheTypes /\ PatchTypes /\ StreamInv

(* The invariant gives what is promised of the stream.                     *)
LEMMA LInvSuffices == LInv => OneStreamWhileWatched
BY DEF LInv, OneStreamWhileWatched, TypeOK, ServerTypes, FeedTypes, HubTypes,
       CacheTypes, PatchTypes, StreamInv, Views, Me

(* Whatever the viewer may see is a view.                                  *)
LEMMA NothingIsAView == Nothing \in Views
BY LiveAssumption DEF Nothing, Views, Absent

(* The screens observe queries.                                            *)
LEMMA ObservedQueries ==
  ASSUME HubTypes
  PROVE  Observed \subseteq Queries
BY LiveAssumption DEF HubTypes, Observed

(* The invariant holds at first.                                           *)
LEMMA LiveInitInv == Init => LInv
<1> SUFFICES ASSUME Init PROVE LInv
  OBVIOUS
<1>1. ServerTypes
  BY LiveAssumption DEF Init, ServerTypes
<1>2. FeedTypes
  BY DEF Init, FeedTypes, Feed!Init, Me
<1>3. HubTypes
  BY DEF Init, HubTypes
<1>4. CacheTypes
  BY NothingIsAView DEF Init, CacheTypes
<1>5. PatchTypes
  BY DEF Init, PatchTypes
<1>6. StreamInv
  BY DEF Init, StreamInv, Feed!Init, Me
<1> QED BY <1>1, <1>2, <1>3, <1>4, <1>5, <1>6 DEF LInv

(* Sending a fetch keeps the cache's types.                                *)
LEMMA SendTypes ==
  ASSUME CacheTypes, NEW Q \in SUBSET Queries, Send(Q),
         UNCHANGED <<data, loaded, invalid, missed>>
  PROVE  CacheTypes'
BY NothingIsAView DEF CacheTypes, Send

(* So does reading what is old among some queries.                         *)
LEMMA ReadAgainTypes ==
  ASSUME CacheTypes, NEW Q \in SUBSET Queries, ReadAgain(Q),
         UNCHANGED <<data, loaded, invalid, missed>>
  PROVE  CacheTypes'
<1>1. PICK stale \in SUBSET (Q \cap loaded) : Send(Unread(Q, stale))
  BY DEF ReadAgain
<1>2. Unread(Q, stale) \in SUBSET Queries
  BY DEF Unread
<1> QED BY <1>1, <1>2, SendTypes

(* Invalidating and refetching keeps the cache's types.                    *)
LEMMA InvalidateTypes ==
  ASSUME CacheTypes, NEW Q \in SUBSET Queries, Invalidate(Q)
  PROVE  CacheTypes'
BY NothingIsAView DEF CacheTypes, Invalidate, Loading

(* The end of a stream keeps the feed's types.                             *)
LEMMA OverTypes ==
  ASSUME FeedTypes, Feed!Over(Me)
  PROVE  FeedTypes' /\ stage'[Me] = "over"
BY DEF FeedTypes, Feed!Over, Me

(* Telling of a change keeps the feed's types and attaches no one.         *)
LEMMA TellTypes ==
  ASSUME FeedTypes, NEW i \in Items, Tell(i)
  PROVE  /\ FeedTypes'
         /\ stage'[Me] \in {"on", "cut"} => stage[Me] \in {"on", "cut"}
BY DEF FeedTypes, Tell, Feed!Announce, Me

(* close(): with no claim left the loop is off and the stream is over.     *)
LEMMA CloseTypes ==
  ASSUME FeedTypes, HubTypes, NEW claims, Close(claims)
  PROVE  /\ FeedTypes'
         /\ loop' = IF claims = {} THEN "off" ELSE loop
         /\ everOpened' \in BOOLEAN
         /\ (claims = {} /\ loop # "off") => stage'[Me] = "over"
         /\ ~(claims = {} /\ loop # "off") => UNCHANGED stage
<1>1. CASE claims = {} /\ loop # "off"
  <2>1. loop' = "off" /\ everOpened' = FALSE /\ Feed!Over(Me)
    BY <1>1 DEF Close
  <2> QED BY <1>1, <2>1, OverTypes
<1>2. CASE ~(claims = {} /\ loop # "off")
  <2>1. UNCHANGED <<loop, everOpened, feedVars>>
    BY <1>2 DEF Close
  <2> QED BY <1>2, <2>1 DEF FeedTypes, HubTypes, feedVars
<1> QED BY <1>1, <1>2

(* open(): a loop starts only where none runs, and only if wanted.         *)
LEMMA OpenTypes ==
  ASSUME HubTypes, NEW on, Open(on)
  PROVE  /\ loop' \in {"off", "connecting", "open", "backoff"}
         /\ everOpened' \in BOOLEAN
         /\ loop # "off" => loop' = loop
         /\ loop = "off" => loop' = IF on THEN "connecting" ELSE "off"
BY DEF HubTypes, Open

(* The server's types depend on the server's variables only.               *)
LEMMA ServerKept == ServerTypes /\ UNCHANGED serverVars => ServerTypes'
BY DEF ServerTypes, serverVars

(* The feed's types depend on the feed's variables only.                   *)
LEMMA FeedKept == FeedTypes /\ UNCHANGED feedVars => FeedTypes'
BY DEF FeedTypes, feedVars

(* The hub's types depend on the hub's variables only.                     *)
LEMMA HubKept == HubTypes /\ UNCHANGED hubVars => HubTypes'
BY DEF HubTypes, hubVars

(* The cache's types depend on the cache's variables only.                 *)
LEMMA CacheKept == CacheTypes /\ UNCHANGED cacheVars => CacheTypes'
BY DEF CacheTypes, cacheVars

(* The patches' types depend on the patches' variables only.               *)
LEMMA PatchesKept == PatchTypes /\ UNCHANGED patchVars => PatchTypes'
BY DEF PatchTypes, patchVars

(* What is said of the stream depends on the hub and the feed only.        *)
LEMMA StreamKept == StreamInv /\ UNCHANGED <<hubVars, feedVars>> => StreamInv'
BY DEF StreamInv, hubVars, feedVars

(* Every action preserves the invariant.                                   *)
LEMMA LiveStepInv == LInv /\ [Next]_vars => LInv'
<1> SUFFICES ASSUME LInv, [Next]_vars PROVE LInv'
  OBVIOUS
<1> USE DEF LInv
<1>1. ASSUME NEW s \in Screens, Mount(s) PROVE LInv'
  <2>1. Reads[s] \in SUBSET Queries
    BY LiveAssumption
  <2>2. CacheTypes'
    BY <1>1, <2>1, ReadAgainTypes DEF Mount
  <2>3. refs' = refs \cup {s} /\ Open(active) /\ UNCHANGED <<active, gap, feedVars>>
    BY <1>1 DEF Mount
  <2>4. HubTypes' /\ StreamInv'
    BY <2>3, OpenTypes DEF HubTypes, StreamInv, feedVars
  <2> QED BY <1>1, <2>2, <2>4, ServerKept, FeedKept, PatchesKept DEF Mount
<1>2. ASSUME NEW s \in Screens, Unmount(s) PROVE LInv'
  <2>1. refs' = refs \ {s} /\ gap' \in BOOLEAN /\ Close(refs') /\ UNCHANGED active
    BY <1>2 DEF Unmount, HubTypes
  <2>2. /\ FeedTypes'
        /\ loop' = IF refs' = {} THEN "off" ELSE loop
        /\ everOpened' \in BOOLEAN
        /\ (refs' = {} /\ loop # "off") => stage'[Me] = "over"
        /\ ~(refs' = {} /\ loop # "off") => UNCHANGED stage
    BY <2>1, CloseTypes
  <2>3. HubTypes'
    BY <2>1, <2>2 DEF HubTypes
  <2>4. StreamInv'
    BY <1>2, <2>1, <2>2 DEF StreamInv, Unmount
  <2>5. CacheTypes'
    BY <1>2, NothingIsAView DEF CacheTypes, Unmount
  <2> QED BY <1>2, <2>2, <2>3, <2>4, <2>5, ServerKept, PatchesKept DEF Unmount
<1>3. ASSUME Background PROVE LInv'
  <2>1. active' = FALSE /\ UNCHANGED <<refs, gap>> /\ Close({})
    BY <1>3 DEF Background
  <2>2. /\ FeedTypes' /\ loop' = "off" /\ everOpened' \in BOOLEAN
        /\ loop # "off" => stage'[Me] = "over"
        /\ loop = "off" => UNCHANGED stage
    BY <2>1, CloseTypes
  <2>3. HubTypes' /\ StreamInv'
    BY <2>1, <2>2 DEF HubTypes, StreamInv
  <2> QED BY <1>3, <2>2, <2>3, ServerKept, CacheKept, PatchesKept DEF Background
<1>4. ASSUME Foreground PROVE LInv'
  <2>1. active' = TRUE /\ UNCHANGED <<refs, gap, feedVars>> /\ Open(refs # {})
    BY <1>4 DEF Foreground
  <2>2. HubTypes' /\ StreamInv'
    BY <1>4, <2>1, OpenTypes DEF HubTypes, StreamInv, feedVars, Foreground
  <2>3. CacheTypes'
    BY <1>4, ObservedQueries, ReadAgainTypes DEF Foreground
  <2> QED BY <1>4, <2>2, <2>3, ServerKept, FeedKept, PatchesKept DEF Foreground
<1>5. ASSUME Subscribe PROVE LInv'
  <2>1. FeedTypes'
    BY <1>5 DEF Subscribe, FeedTypes, Feed!Attach, Me
  <2>2. StreamInv'
    BY <1>5 DEF Subscribe, StreamInv, hubVars
  <2> QED BY <1>5, <2>1, <2>2, ServerKept, HubKept, CacheKept, PatchesKept DEF Subscribe
<1>6. ASSUME OnOpen PROVE LInv'
  <2>1. HubTypes' /\ StreamInv'
    BY <1>6 DEF OnOpen, HubTypes, StreamInv, feedVars
  <2>2. CacheTypes'
    <3>1. CASE everOpened \/ gap
      BY <1>6, <3>1, InvalidateTypes DEF OnOpen, RefetchEvent
    <3>2. CASE ~(everOpened \/ gap)
      BY <1>6, <3>2 DEF OnOpen, CacheTypes
    <3> QED BY <3>1, <3>2
  <2>3. PatchTypes'
    BY <1>6 DEF OnOpen, PatchTypes, Aged
  <2> QED BY <1>6, <2>1, <2>2, <2>3, ServerKept, FeedKept DEF OnOpen
<1>7. ASSUME Drop PROVE LInv'
  <2>1. FeedTypes' /\ stage'[Me] = "over"
    BY <1>7, OverTypes DEF Drop
  <2>2. HubTypes' /\ StreamInv'
    BY <1>7, <2>1 DEF Drop, HubTypes, StreamInv
  <2> QED BY <1>7, <2>1, <2>2, ServerKept, CacheKept, PatchesKept DEF Drop
<1>8. ASSUME Retry PROVE LInv'
  <2>1. HubTypes' /\ StreamInv'
    BY <1>8 DEF Retry, SleepOver, HubTypes, StreamInv, feedVars
  <2> QED BY <1>8, <2>1, ServerKept, FeedKept, CacheKept, PatchesKept DEF Retry
<1>9. ASSUME Poke PROVE LInv'
  <2> DEFINE i == Head(owed[Me])
  <2>1. owed[Me] \in Seq(Items) /\ owed[Me] # <<>>
    BY <1>9 DEF Poke, FeedTypes, Feed!Give
  <2>2. i \in Items /\ Tail(owed[Me]) \in Seq(Items)
    BY <2>1
  <2>3. FeedTypes' /\ UNCHANGED stage
    BY <1>9, <2>2 DEF Poke, FeedTypes, Feed!Give
  <2>4. CacheTypes' /\ PatchTypes'
    <3>1. CASE UNCHANGED <<cacheVars, patchVars>>
      BY <3>1, CacheKept, PatchesKept
    <3>2. CASE i \in Incidents /\ PokeIncident(i)
      <4>1. CacheTypes'
        BY <3>2, InvalidateTypes DEF PokeIncident, Queries, Items
      <4>2. PatchTypes'
        <5> DEFINE new == [item |-> i, seq |-> patchSeq[i] + 1,
                           view |-> Pending, old |-> FALSE]
        <5>1. patchSeq' \in [Incidents -> Nat] /\ patchSeq'[i] = patchSeq[i] + 1
          BY <3>2 DEF PokeIncident, PatchTypes
        <5>2. \A j \in Incidents : patchSeq[j] <= patchSeq'[j]
          BY <3>2 DEF PokeIncident, PatchTypes
        <5>3. ASSUME NEW p \in patches
              PROVE  /\ p \in [item : Incidents, seq : Nat,
                              view : Pending .. MaxCommits, old : BOOLEAN]
                     /\ p.seq <= patchSeq'[p.item]
          <6>1. /\ p \in [item : Incidents, seq : Nat,
                          view : Pending .. MaxCommits, old : BOOLEAN]
                /\ p.seq <= patchSeq[p.item]
            BY DEF PatchTypes
          <6>2. p.seq \in Nat /\ p.item \in Incidents
            BY <6>1
          <6>3. patchSeq[p.item] \in Nat /\ patchSeq'[p.item] \in Nat
            BY <5>1, <6>2 DEF PatchTypes
          <6> QED BY <5>2, <6>1, <6>2, <6>3
        <5>4. /\ new \in [item : Incidents, seq : Nat,
                          view : Pending .. MaxCommits, old : BOOLEAN]
              /\ new.seq <= patchSeq'[new.item]
          <6>1. patchSeq[i] + 1 \in Nat /\ Pending \in Pending .. MaxCommits
            BY <3>2, LiveAssumption DEF PatchTypes, Pending
          <6> QED BY <3>2, <5>1, <6>1
        <5>5. patches' = patches \cup {new}
          BY <3>2 DEF PokeIncident
        <5> QED BY <5>1, <5>3, <5>4, <5>5 DEF PatchTypes
      <4> QED BY <4>1, <4>2
    <3>3. CASE PokeReport(i)
      <4>1. {i, "reports"} \in SUBSET Queries
        BY <2>2 DEF Queries, Lists
      <4>2. CacheTypes'
        BY <3>3, <4>1, InvalidateTypes DEF PokeReport
      <4> QED BY <3>3, <4>2, PatchesKept DEF PokeReport
    <3> QED BY <1>9, <3>1, <3>2, <3>3 DEF Poke
  <2>5. StreamInv'
    BY <1>9, <2>3 DEF Poke, StreamInv, hubVars
  <2> QED BY <1>9, <2>3, <2>4, <2>5, ServerKept, HubKept DEF Poke
<1>10. ASSUME NEW q \in Queries, Answer(q) PROVE LInv'
  <2>1. [i \in Items |-> IF i \in Covers(q) THEN View(i) ELSE Absent] \in Views
    BY LiveAssumption DEF ServerTypes, View, Views, Absent
  <2>2. CacheTypes'
    BY <1>10, <2>1 DEF Answer, CacheTypes
  <2> QED BY <1>10, <2>2, ServerKept, FeedKept, HubKept, PatchesKept, StreamKept
          DEF Answer
<1>11. ASSUME NEW q \in Queries, Arrive(q) \/ ReadFails(q) PROVE LInv'
  <2>1. CacheTypes'
    BY <1>11, NothingIsAView DEF Arrive, ReadFails, CacheTypes
  <2> QED BY <1>11, <2>1, ServerKept, FeedKept, HubKept, PatchesKept, StreamKept
          DEF Arrive, ReadFails
<1>12. ASSUME NEW q \in Queries, Poll(q) PROVE LInv'
  <2>1. CacheTypes'
    BY <1>12, SendTypes DEF Poll
  <2> QED BY <1>12, <2>1, ServerKept, FeedKept, HubKept, PatchesKept, StreamKept
          DEF Poll
<1>13. ASSUME NEW p \in patches, PatchRead(p) PROVE LInv'
  <2>1. View(p.item) \in Pending .. MaxCommits
    BY LiveAssumption DEF ServerTypes, PatchTypes, View, Items, Absent, Pending
  <2>2. PatchTypes'
    BY <1>13, <2>1 DEF PatchRead, PatchTypes
  <2> QED BY <1>13, <2>2, ServerKept, FeedKept, HubKept, CacheKept, StreamKept
          DEF PatchRead
<1>14. ASSUME NEW p \in patches, PatchWrites(p) PROVE LInv'
  <2>1. p.item \in Items /\ p.view \in Absent .. MaxCommits
    BY <1>14, LiveAssumption DEF PatchWrites, PatchTypes, Items, Absent, Pending
  <2>2. PatchTypes'
    BY <1>14 DEF PatchWrites, PatchTypes
  <2>3. "incidents" \in Queries
    BY DEF Queries, Lists
  <2>4. data' \in [Queries -> Views]
    <3> DEFINE row == [data["incidents"] EXCEPT ![p.item] = p.view]
    <3>1. data["incidents"] \in [Items -> Absent .. MaxCommits]
      BY <2>3 DEF CacheTypes, Views
    <3>2. row \in Views
      BY <2>1, <3>1 DEF Views
    <3>3. [data EXCEPT !["incidents"] = row] \in [Queries -> Views]
      BY <3>2 DEF CacheTypes
    <3>4. UNCHANGED data \/ data' = [data EXCEPT !["incidents"] = row]
      BY <1>14 DEF PatchWrites
    <3> QED BY <3>3, <3>4 DEF CacheTypes
  <2>5. CacheTypes'
    BY <1>14, <2>3, <2>4 DEF PatchWrites, CacheTypes
  <2> QED BY <1>14, <2>2, <2>5, ServerKept, FeedKept, HubKept, StreamKept
          DEF PatchWrites
<1>15. ASSUME NEW p \in patches, PatchFails(p) PROVE LInv'
  <2>1. {"incidents"} \in SUBSET Queries
    BY DEF Queries, Lists
  <2>2. CacheTypes'
    BY <1>15, <2>1, InvalidateTypes DEF PatchFails
  <2>3. PatchTypes'
    BY <1>15 DEF PatchFails, PatchTypes
  <2> QED BY <1>15, <2>2, <2>3, ServerKept, FeedKept, HubKept, StreamKept
          DEF PatchFails
<1>16. ASSUME NEW i \in Items, Commit(i) PROVE LInv'
  <2>1. ServerTypes'
    BY <1>16, LiveAssumption DEF Commit, ServerTypes
  <2>2. /\ FeedTypes'
        /\ stage'[Me] \in {"on", "cut"} => stage[Me] \in {"on", "cut"}
    BY <1>16, TellTypes DEF Commit
  <2>3. StreamInv'
    BY <1>16, <2>2 DEF Commit, StreamInv, hubVars
  <2> QED BY <1>16, <2>1, <2>2, <2>3, HubKept, CacheKept, PatchesKept DEF Commit
<1>17. CASE UNCHANGED vars
  BY <1>17, ServerKept, FeedKept, HubKept, CacheKept, PatchesKept, StreamKept DEF vars
<1> QED
  BY <1>1, <1>2, <1>3, <1>4, <1>5, <1>6, <1>7, <1>8, <1>9, <1>10, <1>11, <1>12,
     <1>13, <1>14, <1>15, <1>16, <1>17
     DEF Next

(* The hub's loop runs exactly while some screen watches and the app is in *)
(* front, and the server serves a stream only to a loop that reads it, for *)
(* any screens, records and number of changes.                             *)
THEOREM LiveOneStream == Spec => []OneStreamWhileWatched
BY LiveInitInv, LiveStepInv, LInvSuffices, PTL DEF Spec

---------------------------------------------------------------------------
(* What is shown is committed.  Nothing is said of the cache while the     *)
(* stream is down or about to end: the resume reads everything again, or   *)
(* everything is excused.                                                  *)
Attached == loop = "open" /\ stage[Me] = "on"

(* The poke of a change of i is on its way.                                *)
Told(i) == \E k \in 1 .. Len(owed[Me]) : owed[Me][k] = i

(* The row of i is being fetched, by the fetch that may write it.          *)
Patching(i) == \E p \in patches : p.item = i /\ Latest(p)

(* Something has yet to correct record i in query q.                       *)
Coming(q, i) == Told(i) \/ (q = "incidents" /\ Patching(i))

(* A marked query on screen is being read again, or is excused; nothing is *)
(* read that no screen observes.                                           *)
MarkInv == /\ invalid \subseteq loaded
           /\ \A q \in Queries : fetch[q] # "idle" => q \in Observed
           /\ \A q \in invalid \cap Observed : q \in missed \/ fetch[q] # "idle"

(* A cached answer is the committed record, or marked, or to be corrected. *)
DataInv == \A q \in loaded \ missed : \A i \in Covers(q) \ hidden :
             data[q][i] = db[i] \/ q \in invalid \/ Coming(q, i)

(* So is an answer on its way.                                             *)
AnswerInv == \A q \in Queries \ late : \A i \in Covers(q) \ hidden :
               fetch[q] = "read" => answer[q][i] = db[i] \/ Coming(q, i)

(* And the row that a fetch has read and may write.                        *)
RowInv == \A p \in patches :
            Latest(p) /\ p.view # Pending /\ ~p.old /\ p.item \notin hidden =>
              p.view = db[p.item] \/ Told(p.item)

SInv == MarkInv /\ (Attached => DataInv /\ AnswerInv /\ RowInv)

(* A query is about records, and a record is in its list and its detail.   *)
LEMMA CoversWhat ==
  ASSUME NEW q \in Queries, NEW i \in Covers(q)
  PROVE  /\ i \in Items
         /\ i \in Incidents => q \in {"incidents", i}
         /\ i \notin Incidents => i \in Reports /\ q \in {"reports", i}
BY LiveAssumption DEF Covers, Queries, Lists, Items

(* With a quiet stream the invariant leaves only the committed record.     *)
LEMMA SInvSuffices == LInv /\ SInv => ShownIsCommitted
<1> SUFFICES ASSUME LInv, SInv, Quiet,
                    NEW q \in (Observed \cap loaded) \ missed, NEW i \in Covers(q) \ hidden
             PROVE  data[q][i] = db[i]
  BY DEF ShownIsCommitted
<1>1. q \in Queries /\ fetch[q] = "idle"
  BY ObservedQueries DEF LInv, CacheTypes, Quiet
<1>2. q \notin invalid
  BY <1>1 DEF SInv, MarkInv
<1>3. ~Coming(q, i)
  BY DEF Coming, Told, Patching, Quiet
<1>4. data[q][i] = db[i] \/ q \in invalid \/ Coming(q, i)
  BY DEF SInv, DataInv, Attached, Quiet
<1> QED BY <1>2, <1>3, <1>4

(* The invariant holds at first.                                           *)
LEMMA ShownInitInv == Init => SInv
BY DEF Init, SInv, MarkInv, Attached

(* What an invalidation leaves: the queries it names are marked if they    *)
(* have an answer, and none of them is about to take an older one; the     *)
(* others are as they were.                                                *)
LEMMA InvalidateMarks ==
  ASSUME LInv, MarkInv, NEW Q \in SUBSET Queries, Invalidate(Q), UNCHANGED refs
  PROVE  /\ MarkInv'
         /\ UNCHANGED <<data, loaded, missed>> /\ invalid \subseteq invalid'
         /\ Q \cap loaded \subseteq invalid'
         /\ \A q \in Q \ late' : fetch'[q] # "read"
         /\ \A q \in Queries \ Q : /\ fetch'[q] = fetch[q] /\ answer'[q] = answer[q]
                                   /\ q \in late' <=> q \in late
<1> USE DEF LInv, CacheTypes, HubTypes
<1> DEFINE again == {q \in Q \cap Observed : ~Loading(q)}
<1>1. /\ invalid' = invalid \cup (Q \cap loaded)
      /\ fetch' = [q \in Queries |-> IF q \in again THEN "sent" ELSE fetch[q]]
      /\ answer' = [q \in Queries |-> IF q \in again THEN Nothing ELSE answer[q]]
      /\ late' = (late \ again) \cup {q \in Q : Loading(q)}
      /\ UNCHANGED <<data, loaded, missed>>
  BY DEF Invalidate
<1>2. Observed' = Observed
  BY DEF Observed
<1>3. ASSUME NEW q \in Q PROVE q \in late' \/ fetch'[q] # "read"
  <2>1. CASE q \in again
    BY <1>1, <2>1
  <2>2. CASE q \notin again
    BY <1>1, <2>2 DEF Loading, MarkInv
  <2> QED BY <2>1, <2>2
<1>4. MarkInv'
  <2>1. invalid' \subseteq loaded'
    BY <1>1 DEF MarkInv
  <2>2. \A q \in Queries : fetch'[q] # "idle" => q \in Observed'
    BY <1>1, <1>2 DEF MarkInv
  <2>3. ASSUME NEW q \in invalid' \cap Observed' PROVE q \in missed' \/ fetch'[q] # "idle"
    <3>1. q \in Queries /\ q \in loaded
      BY <2>1, <1>1
    <3> QED BY <1>1, <1>2, <3>1 DEF MarkInv, Loading
  <2> QED BY <2>1, <2>2, <2>3 DEF MarkInv
<1> QED BY <1>1, <1>3, <1>4

(* A step that corrects nothing and changes no record keeps what is said   *)
(* of the cache.                                                           *)
LEMMA DataKept ==
  ASSUME DataInv, UNCHANGED <<data, loaded, db, hidden>>,
         invalid \subseteq invalid', missed \subseteq missed',
         \A q, i : Coming(q, i) => Coming(q, i)'
  PROVE  DataInv'
BY DEF DataInv, Covers

(* So does one that starts or gives up reads.                              *)
LEMMA AnswerKept ==
  ASSUME AnswerInv, UNCHANGED <<db, hidden>>,
         \A q \in Queries \ late' : fetch'[q] = "read" =>
           fetch[q] = "read" /\ answer'[q] = answer[q] /\ q \notin late,
         \A q, i : Coming(q, i) => Coming(q, i)'
  PROVE  AnswerInv'
BY DEF AnswerInv, Covers

(* What is to come depends on the feed and the patches only.               *)
LEMMA ComingKept ==
  ASSUME UNCHANGED <<owed, patches, patchSeq>>
  PROVE  \A q, i : Coming(q, i) => Coming(q, i)'
BY DEF Coming, Told, Patching, Latest

(* So do the rows.                                                         *)
LEMMA RowKept ==
  ASSUME RowInv, UNCHANGED <<owed, patches, patchSeq, db, hidden>>
  PROVE  RowInv'
BY DEF RowInv, Told, Latest

(* A step that only starts or gives up reads, or the stream, keeps all.    *)
LEMMA ReadsOnly ==
  ASSUME SInv, Attached' => Attached /\ UNCHANGED owed,
         UNCHANGED <<serverVars, patchVars, data, loaded, invalid>>,
         missed \subseteq missed',
         \A q \in Queries \ late' : fetch'[q] = "read" =>
           fetch[q] = "read" /\ answer'[q] = answer[q] /\ q \notin late
  PROVE  Attached' => DataInv' /\ AnswerInv' /\ RowInv'
<1> SUFFICES ASSUME Attached' PROVE DataInv' /\ AnswerInv' /\ RowInv'
  OBVIOUS
<1>1. DataInv /\ AnswerInv /\ RowInv /\ UNCHANGED owed
  BY DEF SInv
<1>2. UNCHANGED <<db, hidden, patches, patchSeq>>
  BY DEF serverVars, patchVars
<1> QED BY <1>1, <1>2, ComingKept, DataKept, AnswerKept, RowKept

(* Reading what is old among queries that are observed from now on: the    *)
(* marked ones are read, and no read in flight is touched.                 *)
LEMMA ReadAgainMarks ==
  ASSUME CacheTypes, MarkInv, NEW Q \in SUBSET Queries, ReadAgain(Q),
         Observed' = Observed \cup Q, UNCHANGED <<data, loaded, invalid, missed>>
  PROVE  /\ MarkInv'
         /\ \A q \in Queries \ late' : fetch'[q] = "read" =>
              fetch[q] = "read" /\ answer'[q] = answer[q] /\ q \notin late
<1>1. PICK stale \in SUBSET (Q \cap loaded) : Send(Unread(Q, stale))
  BY DEF ReadAgain
<1> DEFINE again == Unread(Q, stale)
<1>2. /\ \A q \in Queries : fetch'[q] = IF q \in again THEN "sent" ELSE fetch[q]
      /\ \A q \in Queries \ again : answer'[q] = answer[q]
      /\ late' = late \ again
  BY <1>1 DEF Send
<1>3. \A q \in Queries : fetch'[q] # "idle" => q \in Observed'
  BY <1>2 DEF MarkInv, Unread
<1>4. ASSUME NEW q \in invalid' \cap Observed' PROVE q \in missed' \/ fetch'[q] # "idle"
  <2>1. q \in invalid /\ q \in Queries /\ UNCHANGED missed
    BY DEF CacheTypes
  <2>2. CASE q \in Observed
    BY <1>2, <2>1, <2>2 DEF MarkInv
  <2>3. CASE q \in Q
    BY <1>2, <2>1, <2>3 DEF MarkInv, Unread
  <2> QED BY <2>2, <2>3
<1>5. MarkInv'
  BY <1>3, <1>4 DEF MarkInv
<1>6. \A q \in Queries \ late' : fetch'[q] = "read" =>
        fetch[q] = "read" /\ answer'[q] = answer[q] /\ q \notin late
  BY <1>2
<1> QED BY <1>5, <1>6

(* Every action preserves it.                                              *)
LEMMA ShownStepInv == LInv /\ SInv /\ [Next]_vars => SInv'
<1> SUFFICES ASSUME LInv, SInv, [Next]_vars PROVE SInv'
  OBVIOUS
<1> USE DEF LInv
<1>1. ASSUME NEW s \in Screens, Mount(s) PROVE SInv'
  <2>1. Observed' = Observed \cup Reads[s] /\ Reads[s] \in SUBSET Queries
    BY <1>1, LiveAssumption DEF Mount, Observed
  <2>2. /\ MarkInv'
        /\ \A q \in Queries \ late' : fetch'[q] = "read" =>
             fetch[q] = "read" /\ answer'[q] = answer[q] /\ q \notin late
    BY <1>1, <2>1, ReadAgainMarks DEF Mount, SInv
  <2>3. Attached' => Attached /\ UNCHANGED owed
    BY <1>1 DEF Mount, Open, Attached, feedVars
  <2>4. Attached' => DataInv' /\ AnswerInv' /\ RowInv'
    BY <1>1, <2>2, <2>3, ReadsOnly DEF Mount
  <2> QED BY <2>2, <2>4 DEF SInv
<1>2. ASSUME NEW s \in Screens, Unmount(s) PROVE SInv'
  <2> DEFINE kept == UNION {Reads[t] : t \in refs'}
  <2>1. /\ \A q \in Queries : fetch'[q] = IF q \in kept THEN fetch[q] ELSE "idle"
        /\ \A q \in Queries : answer'[q] = IF q \in kept THEN answer[q] ELSE Nothing
        /\ late' = late \cap kept
        /\ refs' \subseteq refs
    BY <1>2 DEF Unmount
  <2>2. Observed' = kept /\ kept \subseteq Observed
    BY <2>1 DEF Observed
  <2>3. MarkInv'
    BY <1>2, <2>1, <2>2, ObservedQueries DEF Unmount, SInv, MarkInv, CacheTypes
  <2>4. Attached' => Attached /\ UNCHANGED owed
    BY <1>2 DEF Unmount, Close, Attached, feedVars
  <2>5. Attached' => DataInv' /\ AnswerInv' /\ RowInv'
    BY <1>2, <2>1, <2>4, ReadsOnly DEF Unmount
  <2> QED BY <2>3, <2>5 DEF SInv
<1>3. ASSUME Background \/ Subscribe \/ Drop \/ Retry PROVE SInv'
  <2>1. UNCHANGED <<serverVars, patchVars, cacheVars, refs>>
    BY <1>3 DEF Background, Subscribe, Drop, Retry, hubVars
  <2>2. Attached' => Attached /\ UNCHANGED owed
    BY <1>3 DEF Background, Subscribe, Drop, Retry, SleepOver, Close, Attached,
                hubVars, feedVars
  <2>3. Attached' => DataInv' /\ AnswerInv' /\ RowInv'
    BY <2>1, <2>2, ReadsOnly DEF cacheVars
  <2>4. MarkInv'
    BY <2>1 DEF SInv, MarkInv, Observed, cacheVars
  <2> QED BY <2>3, <2>4 DEF SInv
<1>4. ASSUME OnOpen PROVE SInv'
  <2>1. RowInv'
    BY <1>4 DEF OnOpen, RowInv, Aged, PatchTypes
  <2>2. UNCHANGED refs /\ Observed' = Observed
    BY <1>4 DEF OnOpen, Observed
  <2>3. CASE everOpened \/ gap
    <3>1. Invalidate(Queries)
      BY <1>4, <2>3 DEF OnOpen, RefetchEvent
    <3>2. /\ MarkInv' /\ loaded' = loaded /\ loaded \subseteq invalid'
          /\ \A q \in Queries \ late' : fetch'[q] # "read"
      BY <3>1, <2>2, InvalidateMarks DEF SInv, CacheTypes
    <3>3. DataInv' /\ AnswerInv'
      BY <3>2 DEF DataInv, AnswerInv
    <3> QED BY <2>1, <3>2, <3>3 DEF SInv
  <2>4. CASE ~(everOpened \/ gap)
    <3>1. /\ missed' = loaded /\ late' = {q \in Queries : fetch[q] # "idle"}
          /\ UNCHANGED <<data, loaded, invalid, fetch, answer>>
      BY <1>4, <2>4 DEF OnOpen
    <3>2. MarkInv' /\ DataInv' /\ AnswerInv'
      BY <2>2, <3>1 DEF SInv, MarkInv, DataInv, AnswerInv
    <3> QED BY <2>1, <3>2 DEF SInv
  <2> QED BY <2>3, <2>4
<1>5. ASSUME Poke PROVE SInv'
  <2> DEFINE i == Head(owed[Me])
  <2>1. /\ owed[Me] \in Seq(Items) /\ owed[Me] # <<>> /\ i \in Items
        /\ owed'[Me] = Tail(owed[Me]) /\ UNCHANGED stage
    BY <1>5 DEF Poke, FeedTypes, Feed!Give, Me
  <2>2. UNCHANGED <<db, hidden, commits, refs, active, gap, loop, everOpened>>
    BY <1>5 DEF Poke, serverVars, hubVars
  <2>3. \A j : Told(j) => j = i \/ Told(j)'
    <3>1. ASSUME NEW j, NEW k \in 1 .. Len(owed[Me]), owed[Me][k] = j, j # i
          PROVE  Told(j)'
      <4>1. k # 1
        BY <2>1, <3>1
      <4>2. k - 1 \in 1 .. Len(Tail(owed[Me])) /\ Tail(owed[Me])[k - 1] = j
        BY <2>1, <3>1, <4>1
      <4> QED BY <2>1, <4>2 DEF Told
    <3> QED BY <3>1 DEF Told
  <2>4. Attached' => Attached
    BY <2>1, <2>2 DEF Attached
  <2>5. CASE i \in hidden
    <3>1. UNCHANGED <<cacheVars, patchVars>>
      BY <1>5, <2>5 DEF Poke
    <3>2. MarkInv'
      BY <2>2, <3>1 DEF SInv, MarkInv, Observed, cacheVars
    <3>3. \A q : \A j : j \notin hidden /\ Coming(q, j) => Coming(q, j)'
      BY <2>3, <2>5, <3>1 DEF Coming, Patching, Latest, patchVars
    <3>4. ASSUME DataInv, AnswerInv, RowInv PROVE DataInv' /\ AnswerInv' /\ RowInv'
      <4>1. DataInv'
        BY <2>2, <3>1, <3>3, <3>4 DEF DataInv, cacheVars, Covers
      <4>2. AnswerInv'
        BY <2>2, <3>1, <3>3, <3>4 DEF AnswerInv, cacheVars, Covers
      <4>3. RowInv'
        BY <2>2, <2>3, <2>5, <3>1, <3>4 DEF RowInv, Latest, patchVars
      <4> QED BY <4>1, <4>2, <4>3
    <3> QED BY <2>4, <3>2, <3>4 DEF SInv
  <2>6. CASE i \notin hidden /\ i \in Incidents
    <3>1. Invalidate({i}) /\ {i} \in SUBSET Queries
      BY <1>5, <2>1, <2>6 DEF Poke, PokeIncident, Queries
    <3> DEFINE new == [item |-> i, seq |-> patchSeq[i] + 1,
                       view |-> Pending, old |-> FALSE]
    <3>2. /\ patches' = patches \cup {new}
          /\ patchSeq' = [patchSeq EXCEPT ![i] = patchSeq[i] + 1]
      BY <1>5, <2>6 DEF Poke, PokeIncident
    <3>3. /\ MarkInv'
          /\ UNCHANGED <<data, loaded, missed>> /\ invalid \subseteq invalid'
          /\ {i} \cap loaded \subseteq invalid'
          /\ \A q \in {i} \ late' : fetch'[q] # "read"
          /\ \A q \in Queries \ {i} : /\ fetch'[q] = fetch[q] /\ answer'[q] = answer[q]
                                      /\ q \in late' <=> q \in late
      BY <2>2, <3>1, InvalidateMarks DEF SInv
    <3>4. \A j : j = i \/ Patching(j) => Patching(j)'
      <4>1. new.seq = patchSeq'[new.item] /\ new.item = i /\ new \in patches'
        BY <2>6, <3>2 DEF PatchTypes
      <4>2. ASSUME NEW j, j # i, NEW p \in patches, p.item = j, Latest(p)
            PROVE  Patching(j)'
        <5>1. p.item \in Incidents /\ p \in patches'
          BY <3>2 DEF PatchTypes
        <5>2. patchSeq'[p.item] = patchSeq[p.item]
          BY <3>2, <4>2, <5>1 DEF PatchTypes
        <5> QED BY <4>2, <5>1, <5>2 DEF Patching, Latest
      <4>3. \A j : j = i => Patching(j)'
        BY <4>1 DEF Patching, Latest
      <4>4. \A j : j # i /\ Patching(j) => Patching(j)'
        BY <4>2 DEF Patching
      <4> QED BY <4>3, <4>4
    <3>5. \A q : \A j : j # i /\ Coming(q, j) => Coming(q, j)'
      BY <2>3, <3>4 DEF Coming
    <3>6. \A q, j : q = "incidents" /\ j = i => Coming(q, j)'
      BY <3>4 DEF Coming
    <3>7. ASSUME DataInv, AnswerInv, RowInv PROVE DataInv' /\ AnswerInv' /\ RowInv'
      <4>1. DataInv'
        <5> SUFFICES ASSUME NEW q \in loaded \ missed, NEW j \in Covers(q) \ hidden
                     PROVE  data[q][j] = db[j] \/ q \in invalid' \/ Coming(q, j)'
          BY <2>2, <3>3 DEF DataInv, Covers
        <5>1. q \in Queries
          BY DEF CacheTypes
        <5>2. data[q][j] = db[j] \/ q \in invalid \/ Coming(q, j)
          BY <3>7 DEF DataInv
        <5>3. CASE j = i
          <6> HIDE DEF i
          <6>1. q \in {"incidents", i}
            BY <2>6, <5>1, <5>3, CoversWhat
          <6> QED BY <3>3, <3>6, <5>3, <6>1
        <5> QED BY <3>3, <3>5, <5>2, <5>3
      <4>2. AnswerInv'
        <5> SUFFICES ASSUME NEW q \in Queries \ late', NEW j \in Covers(q) \ hidden,
                            fetch'[q] = "read"
                     PROVE  answer'[q][j] = db[j] \/ Coming(q, j)'
          BY <2>2 DEF AnswerInv, Covers
        <5>1. q # i
          BY <3>3
        <5>2. answer'[q][j] = db[j] \/ Coming(q, j)
          BY <3>3, <3>7, <5>1 DEF AnswerInv
        <5>3. CASE j = i
          <6> HIDE DEF i
          <6>1. q = "incidents"
            BY <2>6, <5>1, <5>3, CoversWhat
          <6> QED BY <3>6, <5>3, <6>1
        <5> QED BY <3>5, <5>2, <5>3
      <4>3. RowInv'
        <5> SUFFICES ASSUME NEW p \in patches', Latest(p)', p.view # Pending, ~p.old,
                            p.item \notin hidden
                     PROVE  p.view = db[p.item] \/ Told(p.item)'
          BY <2>2 DEF RowInv
        <5>1. p \in patches
          BY <3>2
        <5>2. p.item # i /\ Latest(p)
          BY <2>6, <3>2, <5>1 DEF Latest, PatchTypes
        <5> QED BY <2>3, <3>7, <5>1, <5>2 DEF RowInv
      <4> QED BY <4>1, <4>2, <4>3
    <3> QED BY <2>4, <3>3, <3>7 DEF SInv
  <2>7. CASE i \notin hidden /\ i \notin Incidents
    <3> DEFINE Q == {i, "reports"}
    <3>1. Invalidate(Q) /\ Q \in SUBSET Queries /\ UNCHANGED <<patches, patchSeq>>
      BY <1>5, <2>1, <2>7 DEF Poke, PokeReport, Queries, Lists, patchVars
    <3>2. /\ MarkInv'
          /\ UNCHANGED <<data, loaded, missed>> /\ invalid \subseteq invalid'
          /\ Q \cap loaded \subseteq invalid'
          /\ \A q \in Q \ late' : fetch'[q] # "read"
          /\ \A q \in Queries \ Q : /\ fetch'[q] = fetch[q] /\ answer'[q] = answer[q]
                                    /\ q \in late' <=> q \in late
      <4> HIDE DEF Q
      <4> QED BY <2>2, <3>1, InvalidateMarks DEF SInv
    <3>3. \A q : \A j : j # i /\ Coming(q, j) => Coming(q, j)'
      BY <2>3, <3>1 DEF Coming, Patching, Latest
    <3>4. ASSUME DataInv, AnswerInv, RowInv PROVE DataInv' /\ AnswerInv' /\ RowInv'
      <4>1. DataInv'
        <5> SUFFICES ASSUME NEW q \in loaded \ missed, NEW j \in Covers(q) \ hidden
                     PROVE  data[q][j] = db[j] \/ q \in invalid' \/ Coming(q, j)'
          BY <2>2, <3>2 DEF DataInv, Covers
        <5>1. q \in Queries
          BY DEF CacheTypes
        <5>2. data[q][j] = db[j] \/ q \in invalid \/ Coming(q, j)
          BY <3>4 DEF DataInv
        <5>3. CASE j = i
          BY <2>7, <3>2, <5>1, <5>3, CoversWhat
        <5> QED BY <3>2, <3>3, <5>2, <5>3
      <4>2. AnswerInv'
        <5> SUFFICES ASSUME NEW q \in Queries \ late', NEW j \in Covers(q) \ hidden,
                            fetch'[q] = "read"
                     PROVE  answer'[q][j] = db[j] \/ Coming(q, j)'
          BY <2>2 DEF AnswerInv, Covers
        <5>1. q \notin Q
          BY <3>2
        <5>2. answer'[q][j] = db[j] \/ Coming(q, j)
          BY <3>2, <3>4, <5>1 DEF AnswerInv
        <5>3. j # i
          BY <2>7, <5>1, CoversWhat
        <5> QED BY <3>3, <5>2, <5>3
      <4>3. RowInv'
        <5> SUFFICES ASSUME NEW p \in patches, Latest(p), p.view # Pending, ~p.old,
                            p.item \notin hidden
                     PROVE  p.view = db[p.item] \/ Told(p.item)'
          BY <2>2, <3>1 DEF RowInv, Latest
        <5>1. p.item # i
          BY <2>7 DEF PatchTypes
        <5> QED BY <2>3, <3>4, <5>1 DEF RowInv
      <4> QED BY <4>1, <4>2, <4>3
    <3> QED BY <2>4, <3>2, <3>4 DEF SInv
  <2> QED BY <2>5, <2>6, <2>7
<1>6. ASSUME NEW q \in Queries, Answer(q) PROVE SInv'
  <2>1. /\ UNCHANGED <<db, hidden, stage, due, owed, refs, loop, patches, patchSeq,
                       data, loaded, invalid, missed, late>>
        /\ fetch' = [fetch EXCEPT ![q] = "read"] /\ fetch[q] = "sent"
        /\ answer' = [answer EXCEPT ![q] = [i \in Items |->
                        IF i \in Covers(q) THEN View(i) ELSE Absent]]
    BY <1>6 DEF Answer, serverVars, feedVars, hubVars, patchVars
  <2>2. MarkInv'
    BY <2>1 DEF SInv, MarkInv, Observed, CacheTypes
  <2>3. \A r, i : Coming(r, i) => Coming(r, i)'
    BY <2>1, ComingKept
  <2>4. ASSUME DataInv, AnswerInv, RowInv PROVE DataInv' /\ AnswerInv' /\ RowInv'
    <3>1. DataInv' /\ RowInv'
      BY <2>1, <2>3, <2>4, DataKept, RowKept
    <3>2. ASSUME NEW r \in Queries \ late, NEW i \in Covers(r) \ hidden, fetch'[r] = "read"
          PROVE  answer'[r][i] = db[i] \/ Coming(r, i)'
      <4>1. CASE r = q
        <5>1. i \in Items
          BY CoversWhat
        <5> QED BY <2>1, <4>1, <5>1 DEF View, CacheTypes
      <4>2. CASE r # q
        BY <2>1, <2>3, <2>4, <3>2, <4>2 DEF AnswerInv, CacheTypes
      <4> QED BY <4>1, <4>2
    <3>3. AnswerInv'
      BY <2>1, <3>2 DEF AnswerInv, Covers
    <3> QED BY <3>1, <3>3
  <2> QED BY <2>1, <2>2, <2>4 DEF SInv, Attached
<1>7. ASSUME NEW q \in Queries, Arrive(q) PROVE SInv'
  <2>1. /\ UNCHANGED <<db, hidden, stage, due, owed, refs, loop, patches, patchSeq>>
        /\ fetch[q] = "read" /\ fetch' = [fetch EXCEPT ![q] = "idle"]
        /\ data' = [data EXCEPT ![q] = answer[q]] /\ loaded' = loaded \cup {q}
        /\ invalid' = invalid \ {q} /\ missed' = (missed \ {q}) \cup ({q} \cap late)
        /\ answer' = [answer EXCEPT ![q] = Nothing] /\ late' = late \ {q}
    BY <1>7 DEF Arrive, serverVars, feedVars, hubVars, patchVars
  <2>2. MarkInv'
    BY <2>1 DEF SInv, MarkInv, Observed, CacheTypes
  <2>3. \A r, i : Coming(r, i) => Coming(r, i)'
    BY <2>1, ComingKept
  <2>4. ASSUME DataInv, AnswerInv, RowInv PROVE DataInv' /\ AnswerInv' /\ RowInv'
    <3>1. RowInv'
      BY <2>1, <2>4, RowKept
    <3>2. AnswerInv'
      BY <2>1, <2>3, <2>4, AnswerKept DEF CacheTypes
    <3>3. ASSUME NEW r \in loaded' \ missed', NEW i \in Covers(r) \ hidden
          PROVE  data'[r][i] = db[i] \/ r \in invalid' \/ Coming(r, i)'
      <4>1. CASE r = q
        <5>1. data'[r] = answer[q] /\ q \notin late
          BY <2>1, <3>3, <4>1 DEF CacheTypes
        <5> QED BY <2>1, <2>3, <2>4, <4>1, <5>1 DEF AnswerInv
      <4>2. CASE r # q
        BY <2>1, <2>3, <2>4, <3>3, <4>2 DEF DataInv, CacheTypes
      <4> QED BY <4>1, <4>2
    <3>4. DataInv'
      BY <2>1, <3>3 DEF DataInv, Covers
    <3> QED BY <3>1, <3>2, <3>4
  <2> QED BY <2>1, <2>2, <2>4 DEF SInv, Attached
<1>8. ASSUME NEW q \in Queries, ReadFails(q) PROVE SInv'
  <2>1. MarkInv'
    BY <1>8 DEF ReadFails, hubVars, SInv, MarkInv, Observed, CacheTypes
  <2>2. Attached' => Attached /\ UNCHANGED owed
    BY <1>8 DEF ReadFails, Attached, hubVars, feedVars
  <2>3. Attached' => DataInv' /\ AnswerInv' /\ RowInv'
    BY <1>8, <2>2, ReadsOnly DEF ReadFails, CacheTypes
  <2> QED BY <2>1, <2>3 DEF SInv
<1>9. ASSUME NEW q \in Queries, Poll(q) PROVE SInv'
  <2>1. MarkInv'
    BY <1>9 DEF Poll, Send, hubVars, SInv, MarkInv, Observed, CacheTypes
  <2>2. Attached' => Attached /\ UNCHANGED owed
    BY <1>9 DEF Poll, Attached, hubVars, feedVars
  <2>3. Attached' => DataInv' /\ AnswerInv' /\ RowInv'
    BY <1>9, <2>2, ReadsOnly DEF Poll, Send, CacheTypes
  <2> QED BY <2>1, <2>3 DEF SInv
<1>10. ASSUME NEW p \in patches, PatchRead(p) PROVE SInv'
  <2> DEFINE read == [p EXCEPT !.view = View(p.item)]
  <2>1. /\ UNCHANGED <<serverVars, feedVars, hubVars, cacheVars, patchSeq>>
        /\ patches' = (patches \ {p}) \cup {read}
    BY <1>10 DEF PatchRead
  <2>2. /\ UNCHANGED <<db, hidden, stage, owed, refs, loop, data, loaded, invalid, missed,
                       late, fetch, answer>>
    BY <2>1 DEF serverVars, feedVars, hubVars, cacheVars
  <2>3. MarkInv'
    BY <2>2 DEF SInv, MarkInv, Observed
  <2>4. read.item = p.item /\ read.seq = p.seq /\ read.view = View(p.item) /\ read.old = p.old
    BY DEF PatchTypes
  <2>5. \A r, i : Coming(r, i) => Coming(r, i)'
    <3>1. ASSUME NEW i, NEW o \in patches, o.item = i, Latest(o) PROVE Patching(i)'
      <4>1. CASE o = p
        BY <2>1, <2>4, <3>1, <4>1 DEF Patching, Latest
      <4>2. CASE o # p
        BY <2>1, <3>1, <4>2 DEF Patching, Latest
      <4> QED BY <4>1, <4>2
    <3> QED BY <2>2, <3>1 DEF Coming, Told, Patching
  <2>6. ASSUME DataInv, AnswerInv, RowInv PROVE DataInv' /\ AnswerInv' /\ RowInv'
    <3>1. DataInv' /\ AnswerInv'
      BY <2>2, <2>5, <2>6, DataKept, AnswerKept
    <3>2. ASSUME NEW o \in patches', Latest(o)', o.view # Pending, ~o.old,
                 o.item \notin hidden
          PROVE  o.view = db[o.item] \/ Told(o.item)'
      <4>1. CASE o = read
        BY <2>4, <3>2, <4>1 DEF View
      <4>2. CASE o \in patches
        BY <2>1, <2>2, <2>6, <3>2, <4>2 DEF RowInv, Told, Latest
      <4> QED BY <2>1, <4>1, <4>2
    <3>3. RowInv'
      BY <2>2, <3>2 DEF RowInv
    <3> QED BY <3>1, <3>3
  <2> QED BY <2>2, <2>3, <2>6 DEF SInv, Attached
<1>11. ASSUME NEW p \in patches, PatchWrites(p) PROVE SInv'
  <2>1. /\ UNCHANGED <<db, hidden, stage, owed, refs, loop, patchSeq, loaded, fetch, answer>>
        /\ patches' = patches \ {p} /\ p.view # Pending
        /\ late' = IF fetch["incidents"] = "read" THEN late \cup {"incidents"} ELSE late
    BY <1>11 DEF PatchWrites, serverVars, feedVars, hubVars
  <2>2. CASE Latest(p) /\ "incidents" \in loaded
    <3>1. /\ data' = [data EXCEPT !["incidents"][p.item] = p.view]
          /\ invalid' = invalid \ {"incidents"}
          /\ missed' = missed \cup {q \in {"incidents"} : q \in invalid \/ p.old}
      BY <1>11, <2>2 DEF PatchWrites
    <3>2. MarkInv'
      BY <2>1, <3>1 DEF SInv, MarkInv, Observed, CacheTypes
    <3>3. \A q : \A i : Coming(q, i) =>
            Coming(q, i)' \/ (q = "incidents" /\ i = p.item)
      BY <2>1 DEF Coming, Told, Patching, Latest
    <3>4. ASSUME DataInv, AnswerInv, RowInv PROVE DataInv' /\ AnswerInv' /\ RowInv'
      <4>1. DataInv'
        <5> SUFFICES ASSUME NEW q \in loaded \ missed', NEW i \in Covers(q) \ hidden
                     PROVE  data'[q][i] = db[i] \/ q \in invalid' \/ Coming(q, i)'
          BY <2>1 DEF DataInv, Covers
        <5>1. q \in Queries /\ i \in Items /\ q \notin missed
          BY <3>1, CoversWhat DEF CacheTypes
        <5>2. data[q][i] = db[i] \/ q \in invalid \/ Coming(q, i)
          BY <3>4, <5>1 DEF DataInv
        <5>3. CASE q = "incidents" /\ i = p.item
          <6>1. data'[q][i] = p.view
            BY <3>1, <5>1, <5>3 DEF CacheTypes, Views
          <6>2. ~p.old
            BY <3>1, <5>3
          <6>3. p.view = db[i] \/ Told(i)
            BY <2>1, <2>2, <3>4, <5>3, <6>2 DEF RowInv
          <6> QED BY <2>1, <6>1, <6>3 DEF Coming, Told
        <5>4. CASE ~(q = "incidents" /\ i = p.item)
          <6>1. data'[q][i] = data[q][i]
            BY <3>1, <5>1, <5>4 DEF CacheTypes, Views
          <6>2. q \in invalid => q \in invalid'
            BY <3>1
          <6> QED BY <3>3, <5>2, <5>4, <6>1, <6>2
        <5> QED BY <5>3, <5>4
      <4>2. AnswerInv'
        BY <2>1, <3>3, <3>4 DEF AnswerInv, Covers
      <4>3. RowInv'
        BY <2>1, <3>4 DEF RowInv, Told, Latest
      <4> QED BY <4>1, <4>2, <4>3
    <3> QED BY <2>1, <3>2, <3>4 DEF SInv, Attached
  <2>3. CASE ~(Latest(p) /\ "incidents" \in loaded)
    <3>1. UNCHANGED <<data, invalid, missed>>
      BY <1>11, <2>3 DEF PatchWrites
    <3>2. MarkInv'
      BY <2>1, <3>1 DEF SInv, MarkInv, Observed
    <3>3. \A q : \A i : Coming(q, i) =>
            Coming(q, i)' \/ (q = "incidents" /\ "incidents" \notin loaded)
      BY <2>1, <2>3 DEF Coming, Told, Patching, Latest
    <3>4. ASSUME DataInv, AnswerInv, RowInv PROVE DataInv' /\ AnswerInv' /\ RowInv'
      <4>1. DataInv'
        BY <2>1, <3>1, <3>3, <3>4 DEF DataInv, Covers
      <4>2. AnswerInv'
        BY <2>1, <3>3, <3>4 DEF AnswerInv, Covers
      <4>3. RowInv'
        BY <2>1, <3>4 DEF RowInv, Told, Latest
      <4> QED BY <4>1, <4>2, <4>3
    <3> QED BY <2>1, <3>2, <3>4 DEF SInv, Attached
  <2> QED BY <2>2, <2>3
<1>12. ASSUME NEW p \in patches, PatchFails(p) PROVE SInv'
  <2>1. /\ UNCHANGED <<db, hidden, stage, owed, refs, loop, patchSeq>>
        /\ patches' = patches \ {p} /\ Invalidate({"incidents"})
    BY <1>12 DEF PatchFails, serverVars, feedVars, hubVars
  <2>2. {"incidents"} \in SUBSET Queries
    BY DEF Queries, Lists
  <2>3. /\ MarkInv'
        /\ UNCHANGED <<data, loaded, missed>> /\ invalid \subseteq invalid'
        /\ {"incidents"} \cap loaded \subseteq invalid'
        /\ \A q \in {"incidents"} \ late' : fetch'[q] # "read"
        /\ \A q \in Queries \ {"incidents"} :
             /\ fetch'[q] = fetch[q] /\ answer'[q] = answer[q]
             /\ q \in late' <=> q \in late
    BY <2>1, <2>2, InvalidateMarks DEF SInv
  <2>4. \A q : \A i : q # "incidents" /\ Coming(q, i) => Coming(q, i)'
    BY <2>1 DEF Coming, Told
  <2>5. ASSUME DataInv, AnswerInv, RowInv PROVE DataInv' /\ AnswerInv' /\ RowInv'
    <3>1. DataInv'
      BY <2>1, <2>3, <2>4, <2>5 DEF DataInv, Covers
    <3>2. AnswerInv'
      BY <2>1, <2>3, <2>4, <2>5 DEF AnswerInv, Covers
    <3>3. RowInv'
      BY <2>1, <2>5 DEF RowInv, Told, Latest
    <3> QED BY <3>1, <3>2, <3>3
  <2> QED BY <2>1, <2>3, <2>5 DEF SInv, Attached
<1>13. ASSUME NEW i \in Items, Commit(i) PROVE SInv'
  <2>1. /\ UNCHANGED <<refs, loop, data, loaded, invalid, missed, late, fetch, answer,
                       patches, patchSeq>>
        /\ \A j \in Items : j # i => db'[j] = db[j] /\ (j \in hidden' <=> j \in hidden)
        /\ Tell(i)
    BY <1>13 DEF Commit, hubVars, cacheVars, patchVars, ServerTypes
  <2>2. MarkInv'
    BY <2>1 DEF SInv, MarkInv, Observed
  <2>3. CASE Attached'
    <3>1. PICK cut \in SUBSET {Me} : Feed!Announce(i, cut)
      BY <2>1 DEF Tell
    <3>2. stage[Me] = "on" /\ Me \notin cut
      BY <2>3, <3>1 DEF Feed!Announce, Attached, FeedTypes
    <3>3. owed'[Me] = Append(owed[Me], i) /\ owed[Me] \in Seq(Items)
      BY <3>1, <3>2 DEF Feed!Announce, FeedTypes
    <3>4. Told(i)' /\ \A j : Told(j) => Told(j)'
      <4>1. /\ Len(Append(owed[Me], i)) = Len(owed[Me]) + 1
            /\ Append(owed[Me], i)[Len(owed[Me]) + 1] = i
            /\ \A k \in 1 .. Len(owed[Me]) : Append(owed[Me], i)[k] = owed[Me][k]
        BY <3>3
      <4>2. Len(owed[Me]) \in Nat
        BY <3>3
      <4> QED BY <3>3, <4>1, <4>2 DEF Told
    <3>5. \A q, j : Coming(q, i)' /\ (Coming(q, j) => Coming(q, j)')
      BY <2>1, <3>4 DEF Coming, Patching, Latest
    <3>6. DataInv /\ AnswerInv /\ RowInv
      BY <2>1, <2>3, <3>2 DEF SInv, Attached
    <3>7. DataInv'
      <4> SUFFICES ASSUME NEW q \in loaded \ missed, NEW j \in Covers(q) \ hidden'
                   PROVE  data[q][j] = db'[j] \/ q \in invalid \/ Coming(q, j)'
        BY <2>1 DEF DataInv, Covers
      <4>1. j \in Items
        BY CoversWhat DEF CacheTypes
      <4> QED BY <2>1, <3>5, <3>6, <4>1 DEF DataInv
    <3>8. AnswerInv'
      <4> SUFFICES ASSUME NEW q \in Queries \ late, NEW j \in Covers(q) \ hidden',
                          fetch[q] = "read"
                   PROVE  answer[q][j] = db'[j] \/ Coming(q, j)'
        BY <2>1 DEF AnswerInv, Covers
      <4>1. j \in Items
        BY CoversWhat
      <4> QED BY <2>1, <3>5, <3>6, <4>1 DEF AnswerInv
    <3>9. RowInv'
      <4> SUFFICES ASSUME NEW p \in patches, Latest(p), p.view # Pending, ~p.old,
                          p.item \notin hidden'
                   PROVE  p.view = db'[p.item] \/ Told(p.item)'
        BY <2>1 DEF RowInv, Latest
      <4>1. p.item \in Items
        BY DEF PatchTypes, Items
      <4> QED BY <2>1, <3>4, <3>6, <4>1 DEF RowInv
    <3> QED BY <2>2, <3>7, <3>8, <3>9 DEF SInv
  <2> QED BY <2>2, <2>3 DEF SInv
<1>14. ASSUME Foreground PROVE SInv'
  <2>1. Observed' = Observed /\ Observed \in SUBSET Queries
    BY <1>14, ObservedQueries DEF Foreground, Observed
  <2>2. /\ MarkInv'
        /\ \A q \in Queries \ late' : fetch'[q] = "read" =>
             fetch[q] = "read" /\ answer'[q] = answer[q] /\ q \notin late
    BY <1>14, <2>1, ReadAgainMarks DEF Foreground, SInv
  <2>3. Attached' => Attached /\ UNCHANGED owed
    BY <1>14 DEF Foreground, Open, Attached, feedVars
  <2>4. Attached' => DataInv' /\ AnswerInv' /\ RowInv'
    BY <1>14, <2>2, <2>3, ReadsOnly DEF Foreground
  <2> QED BY <2>2, <2>4 DEF SInv
<1>15. CASE UNCHANGED vars
  BY <1>15 DEF vars, serverVars, feedVars, hubVars, cacheVars, patchVars, SInv, MarkInv,
     Attached, DataInv, AnswerInv, RowInv, Observed, Coming, Told, Patching, Latest, Covers
<1> QED
  BY <1>1, <1>2, <1>3, <1>4, <1>5, <1>6, <1>7, <1>8, <1>9, <1>10, <1>11, <1>12,
     <1>13, <1>14, <1>15
     DEF Next

(* With the stream open and nothing outstanding what the screens show is   *)
(* what is committed, for any screens, records and number of changes: each *)
(* poke leaves a mark or a fetch behind, a resume reads everything again,  *)
(* and only the excused answers escape both.                               *)
THEOREM LiveShownIsCommitted == Spec => []ShownIsCommitted
<1>1. Init => LInv /\ SInv
  BY LiveInitInv, ShownInitInv
<1>2. LInv /\ SInv /\ [Next]_vars => (LInv /\ SInv)'
  BY LiveStepInv, ShownStepInv
<1> QED BY <1>1, <1>2, SInvSuffices, PTL DEF Spec

(***************************************************************************)
(* The session.                                                            *)
(***************************************************************************)

(* What is busy are operations and the refresher.                          *)
LEMMA BusyNamed == Busy \subseteq Ops \cup {"refresher"}
BY DEF Busy

(* A call that has not gone out has the token of nobody.                   *)
LEMMA NoBearerTyped == NoBearer \in Token
BY DEF NoBearer, Token

(* The end of a session keeps the types of what it touches.                *)
LEMMA EndLocallyTyped ==
  ASSUME SessionTypeOK, EndLocally
  PROVE  /\ tok' \in Users \cup {None} /\ age' \in {"fresh", "due", "expired"}
         /\ end' \in {"no", "clearing", "caches"}
         /\ old' \subseteq Ops \cup {"refresher"}
BY BusyNamed DEF SessionTypeOK, EndLocally

(* Types and places hold at first, and so does the rest: nothing is begun. *)
LEMMA SessionInitInv == SessionInit => IInv
<1> SUFFICES ASSUME SessionInit PROVE IInv
  OBVIOUS
<1>1. SessionTypeOK
  <2>1. spent \in [asks : 0 .. MaxAsks, ages : 0 .. MaxAges,
                   refusals : 0 .. MaxRefusals, launches : 0 .. MaxLaunches]
    BY SessionAssumption DEF SessionInit
  <2>2. /\ bearer \in [Ops -> Token]
        /\ at \in [Ops -> {"idle", "load", "refresh", "login", "save", "proactive",
                           "sent", "reactive", "resent", "before", "ending"}]
    BY NoBearerTyped DEF SessionInit
  <2> QED BY <2>1, <2>2 DEF SessionInit, SessionTypeOK
<1>2. PlaceInv
  BY DEF SessionInit, PlaceInv, Ops
<1>3. LeftInv /\ PhaseInv /\ TokenInv
  BY DEF SessionInit, LeftInv, PhaseInv, TokenInv, Current, Ops
<1> QED BY <1>1, <1>2, <1>3 DEF SessionInit, IInv

(* The whole invariant gives what is promised of the session.              *)
LEMMA SessionInvSuffices == IInv => SessionSafe
BY DEF IInv, SessionSafe, SessionCanResume, TokenIsTheUsers, OutageKeepsSession,
       RefusedForGood,
       PlaceInv, PhaseInv, TokenInv, EndInv, SessionTypeOK, Busy, Ops

(* Every step keeps the types.                                             *)
LEMMA SessionStepType == SessionTypeOK /\ PlaceInv /\ [SessionNext]_sessionVars => SessionTypeOK'
<1> SUFFICES ASSUME SessionTypeOK, PlaceInv, [SessionNext]_sessionVars PROVE SessionTypeOK'
  OBVIOUS
<1> USE SessionAssumption, BusyNamed, NoBearerTyped DEF SessionTypeOK
<1>1. ASSUME Bootstrap PROVE SessionTypeOK'
  BY <1>1 DEF Bootstrap, SetState, Asked, Ops, Token
<1>2. ASSUME NothingStored PROVE SessionTypeOK'
  BY <1>2 DEF NothingStored, Finish, Applied, SetState, Ops, Token
<1>3. ASSUME TokenStored PROVE SessionTypeOK'
  BY <1>3 DEF TokenStored, JoinRefresh, history, Ops, Token
<1>4. ASSUME LoadRefreshToken PROVE SessionTypeOK'
  BY <1>4 DEF LoadRefreshToken, history
<1>5. ASSUME Refreshed PROVE SessionTypeOK'
  BY <1>5 DEF Refreshed, Applied, Waiting, Ops, Token
<1>6. ASSUME RefreshSignedOut PROVE SessionTypeOK'
  BY <1>6 DEF RefreshSignedOut, Ops, Token
<1>7. ASSUME RefreshFailed PROVE SessionTypeOK'
  BY <1>7 DEF RefreshFailed, SetState, Cached, Ops, Token
<1>8. ASSUME NEW u \in Users, SignIn(u) PROVE SessionTypeOK'
  BY <1>8 DEF SignIn, Asked, Ops, Token
<1>9. ASSUME LoggedIn PROVE SessionTypeOK'
  BY <1>9 DEF LoggedIn, history, Ops, Token
<1>10. ASSUME SignInFails PROVE SessionTypeOK'
  BY <1>10 DEF SignInFails, Finish, history, Ops, Token
<1>11. ASSUME Saved PROVE SessionTypeOK'
  BY <1>11 DEF Saved, Ops, Token
<1>12. ASSUME NEW i \in WhoamiCallers, WhoamiKnown(i) PROVE SessionTypeOK'
  BY <1>12 DEF WhoamiKnown, Finish, Applied, SetState, Accepted, Ops, Token,
     WhoamiCallers
<1>13. ASSUME NEW i \in WhoamiCallers, WhoamiAnonymous(i) PROVE SessionTypeOK'
  <2>1. EndLocally /\ at' = [at EXCEPT ![i] = "ending"]
        /\ crossed' = (crossed \/ i \in old) /\ denied' = denied \cup {"anonymous"}
        /\ UNCHANGED <<st, who, store, ref, body, bearer, login, refused, left, spent>>
    BY <1>13 DEF WhoamiAnonymous
  <2> QED BY <2>1, EndLocallyTyped
<1>14. ASSUME NEW i \in WhoamiCallers, WhoamiFails(i) PROVE SessionTypeOK'
  <2>1. at' \in [Ops -> {"idle", "load", "refresh", "login", "save", "proactive",
                         "sent", "reactive", "resent", "before", "ending"}]
        /\ bearer' \in [Ops -> Token]
    BY <1>14 DEF WhoamiFails, Finish, WhoamiCallers
  <2>2. CASE i = "status"
    BY <1>14, <2>1, <2>2 DEF WhoamiFails
  <2>3. CASE i # "status"
    BY <1>14, <2>1, <2>3 DEF WhoamiFails, SetState, Applied, WhoamiCallers
  <2> QED BY <2>2, <2>3
<1>15. ASSUME RefreshAuthStatus PROVE SessionTypeOK'
  BY <1>15 DEF RefreshAuthStatus, Asked, Call, JoinRefresh, Cached,
     Expiring, Ops, Token
<1>16. ASSUME ScreenCall PROVE SessionTypeOK'
  BY <1>16 DEF ScreenCall, Asked, Call, JoinRefresh, Cached, Expiring, Ops,
     Token
<1>17. ASSUME ScreenUnauthenticated PROVE SessionTypeOK'
  BY <1>17 DEF ScreenUnauthenticated, Applied, JoinRefresh, Accepted, Ops,
     Token
<1>18. ASSUME ScreenAnswered PROVE SessionTypeOK'
  BY <1>18 DEF ScreenAnswered, Finish, history, Ops, Token
<1>19. ASSUME SignOut PROVE SessionTypeOK'
  BY <1>19 DEF SignOut, Asked, Ops, Token
<1>20. ASSUME BeforeSignOutDone PROVE SessionTypeOK'
  <2>1. EndLocally /\ at' = [at EXCEPT !["signOut"] = "ending"]
        /\ crossed' = (crossed \/ "signOut" \in old)
        /\ UNCHANGED <<st, who, store, ref, body, bearer, login, refused, denied,
                       left, spent>>
    BY <1>20 DEF BeforeSignOutDone
  <2> QED BY <2>1, EndLocallyTyped, Zenon
<1>21. ASSUME EndStore PROVE SessionTypeOK'
  BY <1>21 DEF EndStore, history
<1>22. ASSUME EndDone PROVE SessionTypeOK'
  BY <1>22 DEF EndDone, SetState, Ops, Token
<1>23. ASSUME Age PROVE SessionTypeOK'
  BY <1>23 DEF Age, history
<1>24. ASSUME NEW u \in Users, Refuse(u) PROVE SessionTypeOK'
  BY <1>24 DEF Refuse, history, client
<1>25. ASSUME Relaunch PROVE SessionTypeOK'
  <2>1. /\ bearer' \in [Ops -> Token]
        /\ at' \in [Ops -> {"idle", "load", "refresh", "login", "save", "proactive",
                            "sent", "reactive", "resent", "before", "ending"}]
    BY <1>25 DEF Relaunch
  <2>2. spent' \in [asks : 0 .. MaxAsks, ages : 0 .. MaxAges,
                    refusals : 0 .. MaxRefusals, launches : 0 .. MaxLaunches]
    BY <1>25 DEF Relaunch
  <2> QED BY <1>25, <2>1, <2>2 DEF Relaunch, SetState
<1>26. CASE UNCHANGED sessionVars
  BY <1>26 DEF sessionVars, client, history
<1> QED BY <1>1, <1>2, <1>3, <1>4, <1>5, <1>6, <1>7, <1>8, <1>9, <1>10,
   <1>11, <1>12, <1>13, <1>14, <1>15, <1>16, <1>17, <1>18, <1>19, <1>20,
   <1>21, <1>22, <1>23, <1>24, <1>25, <1>26 DEF SessionNext, Ask, BootLoads,
   RefresherStep, SignInStep, ScreenStep, Whoami, EndStep

(* Every step leaves each operation where it can be.                       *)
LEMMA SessionStepPlace == SessionTypeOK /\ PlaceInv /\ [SessionNext]_sessionVars => PlaceInv'
<1> SUFFICES ASSUME SessionTypeOK, PlaceInv, [SessionNext]_sessionVars PROVE PlaceInv'
  OBVIOUS
<1> USE DEF SessionTypeOK, PlaceInv, Ops
<1>1. ASSUME Bootstrap PROVE PlaceInv'
  BY <1>1 DEF Bootstrap, SetState, Asked
<1>2. ASSUME NothingStored PROVE PlaceInv'
  BY <1>2 DEF NothingStored, Finish, Applied, SetState
<1>3. ASSUME TokenStored PROVE PlaceInv'
  BY <1>3 DEF TokenStored, JoinRefresh, history
<1>4. ASSUME LoadRefreshToken PROVE PlaceInv'
  BY <1>4 DEF LoadRefreshToken, history
<1>5. ASSUME Refreshed PROVE PlaceInv'
  BY <1>5 DEF Refreshed, Applied, Waiting
<1>6. ASSUME RefreshSignedOut PROVE PlaceInv'
  BY <1>6 DEF RefreshSignedOut
<1>7. ASSUME RefreshFailed PROVE PlaceInv'
  BY <1>7 DEF RefreshFailed, SetState, Cached
<1>8. ASSUME NEW u \in Users, SignIn(u) PROVE PlaceInv'
  <2>1. u # None
    BY SessionAssumption
  <2> QED BY <1>8, <2>1 DEF SignIn
<1>9. ASSUME LoggedIn PROVE PlaceInv'
  BY <1>9 DEF LoggedIn, history
<1>10. ASSUME SignInFails PROVE PlaceInv'
  BY <1>10 DEF SignInFails, Finish, history
<1>11. ASSUME Saved PROVE PlaceInv'
  BY <1>11 DEF Saved
<1>12. ASSUME NEW i \in WhoamiCallers, WhoamiKnown(i) PROVE PlaceInv'
  BY <1>12 DEF WhoamiKnown, Finish, Applied, SetState, Accepted,
     WhoamiCallers
<1>13. ASSUME NEW i \in WhoamiCallers, WhoamiAnonymous(i) PROVE PlaceInv'
  BY <1>13 DEF WhoamiAnonymous, EndLocally, Accepted, WhoamiCallers
<1>14. ASSUME NEW i \in WhoamiCallers, WhoamiFails(i) PROVE PlaceInv'
  BY <1>14 DEF WhoamiFails, Finish, Applied, SetState, WhoamiCallers
<1>15. ASSUME RefreshAuthStatus PROVE PlaceInv'
  BY <1>15 DEF RefreshAuthStatus, Asked, Call, JoinRefresh, Cached, Expiring
<1>16. ASSUME ScreenCall PROVE PlaceInv'
  BY <1>16 DEF ScreenCall, Asked, Call, JoinRefresh, Cached, Expiring
<1>17. ASSUME ScreenUnauthenticated PROVE PlaceInv'
  BY <1>17 DEF ScreenUnauthenticated, Applied, JoinRefresh, Accepted
<1>18. ASSUME ScreenAnswered PROVE PlaceInv'
  BY <1>18 DEF ScreenAnswered, Finish, history
<1>19. ASSUME SignOut PROVE PlaceInv'
  BY <1>19 DEF SignOut, Asked
<1>20. ASSUME BeforeSignOutDone PROVE PlaceInv'
  BY <1>20 DEF BeforeSignOutDone, EndLocally
<1>21. ASSUME EndStore PROVE PlaceInv'
  BY <1>21 DEF EndStore, history
<1>22. ASSUME EndDone PROVE PlaceInv'
  BY <1>22 DEF EndDone, SetState
<1>23. ASSUME Age PROVE PlaceInv'
  BY <1>23 DEF Age, history
<1>24. ASSUME NEW u \in Users, Refuse(u) PROVE PlaceInv'
  BY <1>24 DEF Refuse, history, client
<1>25. ASSUME Relaunch PROVE PlaceInv'
  BY <1>25 DEF Relaunch, SetState
<1>26. CASE UNCHANGED sessionVars
  BY <1>26 DEF sessionVars, client, history
<1> QED BY <1>1, <1>2, <1>3, <1>4, <1>5, <1>6, <1>7, <1>8, <1>9, <1>10,
   <1>11, <1>12, <1>13, <1>14, <1>15, <1>16, <1>17, <1>18, <1>19, <1>20,
   <1>21, <1>22, <1>23, <1>24, <1>25, <1>26 DEF SessionNext, Ask, BootLoads,
   RefresherStep, SignInStep, ScreenStep, Whoami, EndStep

(* Every step that is not excused keeps the rest.                          *)
LEMMA SessionStepInv == IInv /\ [SessionNext]_sessionVars => IInv'
<1> SUFFICES ASSUME IInv, [SessionNext]_sessionVars, ~crossed'
             PROVE  LeftInv' /\ IF end' = "no" THEN PhaseInv' /\ TokenInv' ELSE EndInv'
  BY SessionStepType, SessionStepPlace DEF IInv
<1> DEFINE Rest == LeftInv' /\ IF end' = "no" THEN PhaseInv' /\ TokenInv' ELSE EndInv'
<1> USE SessionAssumption
    DEF IInv, SessionTypeOK, PlaceInv, LeftInv, PhaseInv, TokenInv, EndInv, Current, Ops,
        Token, NoBearer, RefusedForGood
<1>1. ASSUME Bootstrap PROVE Rest
  BY <1>1 DEF Bootstrap, SetState, Asked
<1>2. ASSUME NothingStored PROVE Rest
  BY <1>2 DEF NothingStored, Finish, Applied, SetState
<1>3. ASSUME TokenStored PROVE Rest
  BY <1>3 DEF TokenStored, JoinRefresh, history
<1>4. ASSUME LoadRefreshToken PROVE Rest
  BY <1>4 DEF LoadRefreshToken, history
<1>5. ASSUME Refreshed PROVE Rest
  BY <1>5 DEF Refreshed, Applied, Waiting
<1>6. ASSUME RefreshSignedOut PROVE Rest
  BY <1>6, ZenonT(30) DEF RefreshSignedOut, Busy
<1>7. ASSUME RefreshFailed PROVE Rest
  BY <1>7 DEF RefreshFailed, SetState, Cached
<1>8. ASSUME NEW u \in Users, SignIn(u) PROVE Rest
  BY <1>8 DEF SignIn, Asked
<1>9. ASSUME LoggedIn PROVE Rest
  BY <1>9 DEF LoggedIn, history
<1>10. ASSUME SignInFails PROVE Rest
  BY <1>10 DEF SignInFails, Finish, history
<1>11. ASSUME Saved PROVE Rest
  BY <1>11 DEF Saved
<1>12. ASSUME NEW i \in WhoamiCallers, WhoamiKnown(i) PROVE Rest
  BY <1>12 DEF WhoamiKnown, Finish, Applied, SetState, Accepted,
     WhoamiCallers
<1>13. ASSUME NEW i \in WhoamiCallers, WhoamiAnonymous(i) PROVE Rest
  BY <1>13 DEF WhoamiAnonymous, EndLocally, Accepted, Busy, WhoamiCallers
<1>14. ASSUME NEW i \in WhoamiCallers, WhoamiFails(i) PROVE Rest
  <2>1. /\ at' = [at EXCEPT ![i] = "idle"] /\ bearer' = [bearer EXCEPT ![i] = NoBearer]
        /\ at[i] = "sent" /\ end' = end
        /\ UNCHANGED <<tok, store, ref, body, login, refused, denied, left>>
    BY <1>14 DEF WhoamiFails, Finish
  <2>2. CASE i = "status"
    <3>1. old' = old \ {i} /\ UNCHANGED <<st, who, crossed>>
      BY <1>14, <2>2 DEF WhoamiFails
    <3>2. LeftInv'
      BY <2>1, <3>1
    <3>3. CASE end = "no"
      <4>1. PhaseInv'
        BY <2>1, <2>2, <3>1, <3>3
      <4>2. TokenInv'
        BY <2>1, <2>2, <3>1, <3>3
      <4> QED BY <2>1, <3>2, <3>3, <4>1, <4>2
    <3>4. CASE end # "no"
      <4>1. EndInv'
        BY <2>1, <2>2, <3>1, <3>4
      <4> QED BY <2>1, <3>2, <3>4, <4>1
    <3> QED BY <3>3, <3>4
  <2>3. CASE i # "status"
    <3>1. /\ st' = "unreachable" /\ who' = None
          /\ old' = old \ {i} /\ ~crossed /\ end = "no"
      BY <1>14, <2>3 DEF WhoamiFails, SetState, Applied
    <3>2. i \in {"boot", "signIn"}
      BY <2>3 DEF WhoamiCallers
    <3>3. LeftInv /\ PhaseInv /\ TokenInv
      BY <3>1, <1>14 DEF WhoamiFails, Applied
    <3>4. ref' = ref
      BY <1>14 DEF WhoamiFails
    <3>5. CASE i = "boot"
      BY <2>1, <3>1, <3>3, <3>4, <3>5
    <3>6. CASE i = "signIn"
      BY <2>1, <3>1, <3>3, <3>4, <3>6
    <3> QED BY <3>2, <3>5, <3>6
  <2> QED BY <2>2, <2>3
<1>15. ASSUME RefreshAuthStatus PROVE Rest
  BY <1>15 DEF RefreshAuthStatus, Asked, Call, JoinRefresh, Cached, Expiring
<1>16. ASSUME ScreenCall PROVE Rest
  BY <1>16 DEF ScreenCall, Asked, Call, JoinRefresh, Cached, Expiring
<1>17. ASSUME ScreenUnauthenticated PROVE Rest
  <2>1. /\ at' = [at EXCEPT !["screen"] = "reactive"] /\ at["screen"] = "sent"
        /\ UNCHANGED <<st, who, tok, store, body, end, bearer, login, denied, left>>
    BY <1>17 DEF ScreenUnauthenticated
  <2>2. /\ ref' = (IF ref = "idle" THEN "load" ELSE ref)
        /\ ~crossed /\ "screen" \notin old /\ end = "no" /\ old' = old \ {"screen"}
    BY <1>17 DEF ScreenUnauthenticated, JoinRefresh, Applied
  <2>3. st = "signedIn"
    BY <2>1, <2>2
  <2>4. LeftInv' /\ PhaseInv'
    BY <2>1, <2>2, <2>3
  <2>5. TokenInv'
    BY <2>1, <2>2, <2>3
  <2> QED BY <2>1, <2>2, <2>4, <2>5
<1>18. ASSUME ScreenAnswered PROVE Rest
  BY <1>18 DEF ScreenAnswered, Finish, history
<1>19. ASSUME SignOut PROVE Rest
  BY <1>19 DEF SignOut, Asked
<1>20. ASSUME BeforeSignOutDone PROVE Rest
  BY <1>20 DEF BeforeSignOutDone, EndLocally, Busy
<1>21. ASSUME EndStore PROVE Rest
  BY <1>21 DEF EndStore, history
<1>22. ASSUME EndDone PROVE Rest
  BY <1>22 DEF EndDone, SetState, Busy
<1>23. ASSUME Age PROVE Rest
  BY <1>23 DEF Age, history
<1>24. ASSUME NEW u \in Users, Refuse(u) PROVE Rest
  BY <1>24 DEF Refuse, history, client
<1>25. ASSUME Relaunch PROVE Rest
  BY <1>25 DEF Relaunch, SetState
<1>26. CASE UNCHANGED sessionVars
  BY <1>26 DEF sessionVars, client, history
<1> QED BY <1>1, <1>2, <1>3, <1>4, <1>5, <1>6, <1>7, <1>8, <1>9, <1>10,
   <1>11, <1>12, <1>13, <1>14, <1>15, <1>16, <1>17, <1>18, <1>19, <1>20,
   <1>21, <1>22, <1>23, <1>24, <1>25, <1>26 DEF SessionNext, Ask, BootLoads,
   RefresherStep, SignInStep, ScreenStep, Whoami, EndStep

(* The session is safe in every run of the client: it can be resumed from  *)
(* the store, its token is its user's, and it ends when the user asks or   *)
(* its refresh token is refused, or else by an anonymous answer.           *)
THEOREM SessionIsSafe == SessionSpec => []SessionSafe
BY SessionInitInv, SessionStepInv, SessionInvSuffices, PTL DEF SessionSpec
=============================================================================
