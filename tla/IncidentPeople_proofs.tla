------------------------ MODULE IncidentPeople_proofs ------------------------
(***************************************************************************)
(* For any number of overlapping calls, people and attempts: everybody on  *)
(* an incident was told, pushes match stored notifications, changes are    *)
(* announced, and the timeline is right wherever no reading was overtaken. *)
(***************************************************************************)
EXTENDS IncidentPeople, TLAPS

(* RequestReportFromPerson grants and asks every row and adds none.        *)
LEMMA StampRows ==
  ASSUME NEW s \in Seq(Row)
  PROVE  /\ Stamp(s) \in Seq(Row)
         /\ Len(Stamp(s)) = Len(s)
         /\ Stamp(s) = <<>> <=> s = <<>>
         /\ s # <<>> => 1 \in DOMAIN Stamp(s) /\ Stamp(s)[1].granted /\ Stamp(s)[1].asked
<1> DEFINE n == Len(s)
<1>1. n \in Nat /\ DOMAIN s = 1 .. n
  OBVIOUS
<1>2. Stamp(s) \in [1 .. n -> Row]
  BY <1>1 DEF Stamp, Row
<1>3. Stamp(s) \in Seq(Row)
  BY <1>1, <1>2
<1>4. Len(Stamp(s)) = n
  BY <1>1, <1>2, <1>3
<1>5. s = <<>> <=> n = 0
  OBVIOUS
<1>6. Stamp(s) = <<>> <=> n = 0
  BY <1>3, <1>4
<1>7. ASSUME s # <<>>
      PROVE  1 \in DOMAIN Stamp(s) /\ Stamp(s)[1].granted /\ Stamp(s)[1].asked
  BY <1>1, <1>5, <1>7 DEF Stamp
<1> QED BY <1>3, <1>4, <1>5, <1>6, <1>7

(* A person with at most one row has the grant and the ask of that row.    *)
LEMMA OneRow ==
  ASSUME NEW s \in Seq(Row), Len(s) <= 1, s # <<>>
  PROVE  /\ Len(s) = 1 /\ DOMAIN s = {1}
         /\ Head(s) = s[1] /\ s[1] \in Row
<1>1. Len(s) = 1
  <2>1. Len(s) \in Nat
    OBVIOUS
  <2>2. Len(s) # 0
    OBVIOUS
  <2> QED BY <2>1, <2>2
<1>2. DOMAIN s = 1 .. 1 /\ 1 .. 1 = {1}
  BY <1>1
<1>3. Head(s) = s[1] /\ s[1] \in Row
  BY <1>1, <1>2
<1> QED BY <1>1, <1>2, <1>3

(* The initial state satisfies the inductive invariant.                    *)
LEMMA PeopleInitInv == Init => IInv
<1> SUFFICES ASSUME Init PROVE IInv
  OBVIOUS
<1>1. Calls # {}
  <2>1. PICK p \in People : TRUE
    BY PeopleAssumption
  <2>2. [rpc |-> "attach", actor |-> p, person |-> p, grant |-> TRUE] \in Calls
    BY <2>1 DEF Calls
  <2> QED BY <2>2
<1>2. (CHOOSE c \in Calls : TRUE) \in Calls
  BY <1>1
<1>3. req \in [Requests -> Calls]
  BY <1>2 DEF Init
<1>4. /\ rows \in [People -> Seq(Row)]
      /\ seen \in [Requests -> Seq(Row)]
      /\ attempt \in [Requests -> 0 .. MaxTxAttempts - 1]
      /\ calls \in 0 .. MaxCalls
  BY PeopleAssumption DEF Init
<1>5. TypeOK
  BY <1>3, <1>4 DEF Init, TypeOK
<1>6. \A p \in People : rows[p] = <<>> /\ Len(rows[p]) = 0 /\ ~HasGrant(p)
  BY DEF Init, HasGrant
<1>7. SingleRow
  BY <1>6 DEF SingleRow
<1>8. JournalTellsAccess
  BY <1>6 DEF Init, JournalTellsAccess
<1> QED
  BY <1>5, <1>6, <1>7, <1>8 DEF Init, IInv, HandlerInv, PushIffNotice,
                                AttachedWasTold, ChangesAnnounced

(* Every action preserves the inductive invariant.                         *)
LEMMA PeopleStepInv == IInv /\ [Next]_vars => IInv'
<1> SUFFICES ASSUME IInv, [Next]_vars PROVE IInv'
  OBVIOUS
<1> USE PeopleAssumption
<1>1. ASSUME NEW q \in Requests, Start(q)
      PROVE  IInv'
  <2>1. TypeOK'
    BY <1>1 DEF IInv, TypeOK, Start, history
  <2>2. HandlerInv'
    <3>1. /\ pc'[q] = "begin" /\ ~noticed'[q] /\ ~pushed'[q]
          /\ \A x \in Requests \ {q} :
               pc'[x] = pc[x] /\ req'[x] = req[x] /\ noticed'[x] = noticed[x] /\ pushed'[x] = pushed[x]
          /\ UNCHANGED <<seen, newly, told>>
      BY <1>1 DEF IInv, TypeOK, Start, history
    <3> QED BY <3>1 DEF IInv, HandlerInv, Attached, Pushes, Notifies
  <2>3. SingleRow'
    BY <1>1 DEF IInv, SingleRow, TypeOK, Start, history
  <2>4. PushIffNotice'
    BY <1>1 DEF IInv, PushIffNotice, TypeOK, HandlerInv, Start, history
  <2>5. AttachedWasTold'
    BY <1>1 DEF IInv, AttachedWasTold, TypeOK, HandlerInv, Attached, Start,
                history
  <2>6. ChangesAnnounced'
    BY <1>1 DEF IInv, ChangesAnnounced, TypeOK, Start, history
  <2>7. JournalTellsAccess'
    BY <1>1 DEF IInv, JournalTellsAccess, TypeOK, HasGrant, Start, history
  <2> QED BY <2>1, <2>2, <2>3, <2>4, <2>5, <2>6, <2>7 DEF IInv
<1>2. ASSUME NEW q \in Requests, ReadPeople(q)
      PROVE  IInv'
  <2>1. TypeOK'
    <3>1. rows[req[q].person] \in Seq(Row)
      BY DEF IInv, TypeOK, Calls
    <3>2. (rows[req[q].person] = <<>>) \in BOOLEAN
      OBVIOUS
    <3>3. newly' \in [Requests -> BOOLEAN]
      BY <1>2, <3>2, Zenon DEF IInv, TypeOK, ReadPeople
    <3>4. seen' \in [Requests -> Seq(Row)]
      BY <1>2, <3>1 DEF IInv, TypeOK, ReadPeople
    <3> QED BY <1>2, <3>3, <3>4 DEF IInv, TypeOK, ReadPeople, history
  <2>2. HandlerInv'
    <3>1. req[q].person \in People
      BY DEF IInv, TypeOK, Calls
    <3>2. /\ pc'[q] = "write" /\ seen'[q] = rows[req[q].person]
          /\ newly'[q] <=> rows[req[q].person] = <<>>
          /\ \A x \in Requests \ {q} :
               pc'[x] = pc[x] /\ seen'[x] = seen[x] /\ newly'[x] = newly[x]
          /\ UNCHANGED <<req, noticed, pushed, told>>
      BY <1>2 DEF IInv, TypeOK, ReadPeople, history
    <3>3. req[q].rpc \in {"attach", "request"} /\ pc[q] = "begin"
      BY <1>2 DEF ReadPeople
    <3> QED BY <3>1, <3>2, <3>3 DEF IInv, HandlerInv, AttachedWasTold,
                                    Attached, Pushes, Notifies
  <2>3. SingleRow'
    BY <1>2 DEF IInv, SingleRow, TypeOK, ReadPeople, history
  <2>4. PushIffNotice'
    BY <1>2 DEF IInv, PushIffNotice, TypeOK, HandlerInv, ReadPeople, history
  <2>5. AttachedWasTold'
    BY <1>2 DEF IInv, AttachedWasTold, TypeOK, HandlerInv, Attached,
                ReadPeople, history
  <2>6. ChangesAnnounced'
    BY <1>2 DEF IInv, ChangesAnnounced, TypeOK, ReadPeople, history
  <2>7. JournalTellsAccess'
    BY <1>2 DEF IInv, JournalTellsAccess, TypeOK, HasGrant, ReadPeople, history
  <2> QED BY <2>1, <2>2, <2>3, <2>4, <2>5, <2>6, <2>7 DEF IInv
<1>3. ASSUME NEW q \in Requests, CommitAttach(q)
      PROVE  IInv'
  <2> DEFINE p == req[q].person
             r == Replacement(q)
  <2>a. /\ p \in People /\ rows \in [People -> Seq(Row)]
        /\ seen[q] \in Seq(Row) /\ req[q].grant \in BOOLEAN
        /\ said \in [People -> [attached : BOOLEAN, access : BOOLEAN]]
    BY DEF IInv, TypeOK, Calls
  <2>b. r \in Row /\ r.granted = req[q].grant
    <3>1. seen[q] # <<>> => Head(seen[q]) \in Row
      BY <2>a
    <3> QED BY <2>a, <3>1 DEF Replacement, Attached, Row
  <2>c. /\ rows'[p] = <<r>>
        /\ \A x \in People \ {p} : rows'[x] = rows[x] /\ said'[x] = said[x]
        /\ said'[p] = AttachSays(q, said[p])
        /\ stale' = IF Fresh(q) THEN stale ELSE stale \cup {p}
        /\ req' = req
    BY <1>3, <2>a DEF CommitAttach, Committed
  <2>d. <<r>> \in Seq(Row) /\ Len(<<r>>) = 1 /\ <<r>> # <<>> /\ <<r>>[1] = r /\ DOMAIN <<r>> = {1}
    BY <2>b
  <2>1. TypeOK'
    <3>1. rows' \in [People -> Seq(Row)]
      BY <1>3, <2>a, <2>d DEF CommitAttach
    <3>2. said' \in [People -> [attached : BOOLEAN, access : BOOLEAN]]
      BY <1>3, <2>a DEF CommitAttach, AttachSays, Attached
    <3> QED BY <1>3, <2>a, <3>1, <3>2 DEF IInv, TypeOK, CommitAttach, Committed
  <2>2. HandlerInv'
    BY <1>3 DEF IInv, TypeOK, HandlerInv, CommitAttach, Committed, Pushes,
                Notifies, Attached
  <2>3. SingleRow'
    <3>1. Len(rows'[p]) <= 1
      BY <2>c, <2>d
    <3> QED BY <2>c, <3>1 DEF IInv, SingleRow
  <2>4. PushIffNotice'
    BY <1>3 DEF IInv, TypeOK, PushIffNotice, CommitAttach, Committed
  <2>5. AttachedWasTold'
    BY <1>3, <2>c DEF IInv, AttachedWasTold, HandlerInv, CommitAttach, Committed
  <2>6. ChangesAnnounced'
    BY <1>3 DEF IInv, TypeOK, ChangesAnnounced, CommitAttach, Committed
  <2>7. JournalTellsAccess'
    <3> SUFFICES ASSUME NEW x \in People, x \notin stale'
                 PROVE  /\ said'[x].attached <=> rows'[x] # <<>>
                        /\ said'[x].access <=> HasGrant(x)'
      BY DEF JournalTellsAccess
    <3>1. CASE x # p
      BY <2>c, <3>1 DEF IInv, JournalTellsAccess, HasGrant
    <3>2. CASE x = p
      <4>1. HasGrant(p)' <=> req[q].grant
        BY <2>b, <2>c, <2>d DEF HasGrant
      <4>2. seen[q] = rows[p] /\ p \notin stale
        BY <2>c, <3>2 DEF Fresh
      <4>3. CASE rows[p] = <<>>
        <5>1. ~Attached(q)
          BY <4>2, <4>3 DEF Attached
        <5>2. said'[p].attached /\ (said'[p].access <=> req[q].grant)
          <6>1. AttachSays(q, said[p]).access = req[q].grant
            BY <5>1 DEF AttachSays
          <6>2. AttachSays(q, said[p]).attached = (said[p].attached \/ ~Attached(q))
            BY DEF AttachSays
          <6>3. said'[p].attached
            BY <2>c, <5>1, <6>2
          <6> QED BY <2>a, <2>c, <6>1, <6>3
        <5> QED BY <2>c, <2>d, <3>2, <4>1, <5>2
      <4>4. CASE rows[p] # <<>>
        <5>1. Len(rows[p]) <= 1
          BY <2>a, <4>2 DEF IInv, SingleRow
        <5>2. DOMAIN rows[p] = {1} /\ Head(rows[p]) = rows[p][1] /\ rows[p][1] \in Row
          BY <2>a, <4>4, <5>1, OneRow
        <5>3. HasGrant(p) <=> Head(rows[p]).granted
          BY <5>2 DEF HasGrant, Row
        <5>4. said[p].attached /\ (said[p].access <=> HasGrant(p))
          BY <2>a, <4>2, <4>4 DEF IInv, JournalTellsAccess
        <5>5. said'[p].attached /\ (said'[p].access <=> req[q].grant)
          BY <5>2, <2>a, <2>c, <4>2, <4>4, <5>3, <5>4 DEF AttachSays, Attached,
                 Row
        <5> QED BY <2>c, <2>d, <3>2, <4>1, <5>5
      <4> QED BY <4>3, <4>4
    <3> QED BY <3>1, <3>2
  <2> QED BY <2>1, <2>2, <2>3, <2>4, <2>5, <2>6, <2>7 DEF IInv
<1>4. ASSUME NEW q \in Requests, CommitRequest(q)
      PROVE  IInv'
  <2> DEFINE p == req[q].person
             new == [granted |-> TRUE, asked |-> TRUE]
             after == IF Attached(q) THEN Stamp(rows[p]) ELSE Append(rows[p], new)
  <2>a. /\ p \in People /\ rows \in [People -> Seq(Row)] /\ rows[p] \in Seq(Row)
        /\ said \in [People -> [attached : BOOLEAN, access : BOOLEAN]]
    BY DEF IInv, TypeOK, Calls
  <2>b. new \in Row
    BY DEF Row
  <2>c. /\ rows'[p] = after
        /\ \A x \in People \ {p} : rows'[x] = rows[x] /\ said'[x] = said[x]
        /\ said'[p] = [attached |-> TRUE, access |-> TRUE]
        /\ stale' = IF Fresh(q) THEN stale ELSE stale \cup {p}
        /\ req' = req
    BY <1>4, <2>a DEF CommitRequest, Committed
  <2>d. /\ Append(rows[p], new) \in Seq(Row)
        /\ Len(Append(rows[p], new)) = Len(rows[p]) + 1
        /\ Append(rows[p], new)[Len(rows[p]) + 1] = new
        /\ Append(rows[p], new) # <<>>
    <3>1. Len(rows[p]) \in Nat
      BY <2>a
    <3>2. /\ Append(rows[p], new) \in Seq(Row)
          /\ Len(Append(rows[p], new)) = Len(rows[p]) + 1
          /\ Append(rows[p], new)[Len(rows[p]) + 1] = new
      BY <2>a, <2>b
    <3>3. Len(Append(rows[p], new)) # 0
      BY <3>1, <3>2
    <3> QED BY <3>2, <3>3
  <2>e. after \in Seq(Row)
    BY <2>a, <2>d, StampRows
  <2>1. TypeOK'
    <3>1. rows' \in [People -> Seq(Row)]
      BY <1>4, <2>a, <2>e DEF CommitRequest
    <3> QED BY <1>4, <2>a, <3>1 DEF IInv, TypeOK, CommitRequest, Committed
  <2>2. HandlerInv'
    BY <1>4 DEF IInv, TypeOK, HandlerInv, CommitRequest, Committed, Pushes,
                Notifies, Attached
  <2>f. ASSUME Fresh(q), Len(rows[p]) <= 1
        PROVE  Len(after) = 1 /\ after # <<>> /\ \E k \in DOMAIN after : after[k].granted
    <3>1. CASE rows[p] = <<>>
      <4>1. Len(rows[p]) = 0 /\ ~Attached(q)
        BY <2>f, <3>1 DEF Fresh, Attached
      <4>2. after = Append(rows[p], new)
        BY <4>1
      <4>3. Len(after) = 1 /\ after[1] = new /\ after # <<>>
        BY <2>d, <4>1, <4>2
      <4>4. 1 \in DOMAIN after
        BY <2>e, <4>3
      <4> QED BY <4>3, <4>4
    <3>2. CASE rows[p] # <<>>
      <4>1. after = Stamp(rows[p])
        BY <2>f, <3>2 DEF Fresh, Attached
      <4>2. Len(rows[p]) = 1
        BY <2>a, <2>f, <3>2, OneRow
      <4> QED BY <2>a, <3>2, <4>1, <4>2, StampRows
    <3> QED BY <3>1, <3>2
  <2>3. SingleRow'
    <3> SUFFICES ASSUME NEW x \in People, x \notin stale'
                 PROVE  Len(rows'[x]) <= 1
      BY DEF SingleRow
    <3>1. CASE x # p
      BY <2>c, <3>1 DEF IInv, SingleRow
    <3>2. CASE x = p
      <4>1. Fresh(q) /\ Len(rows[p]) <= 1
        BY <2>a, <2>c, <3>2 DEF IInv, SingleRow
      <4>2. Len(after) = 1
        BY <2>f, <4>1
      <4> HIDE DEF after
      <4>3. Len(rows'[x]) = 1
        BY <2>c, <3>2, <4>2
      <4> QED BY <4>3
    <3> QED BY <3>1, <3>2
  <2>4. PushIffNotice'
    BY <1>4 DEF IInv, TypeOK, PushIffNotice, CommitRequest, Committed
  <2>5. AttachedWasTold'
    BY <1>4, <2>c DEF IInv, AttachedWasTold, CommitRequest, Committed
  <2>6. ChangesAnnounced'
    BY <1>4 DEF IInv, TypeOK, ChangesAnnounced, CommitRequest, Committed
  <2>7. JournalTellsAccess'
    <3> SUFFICES ASSUME NEW x \in People, x \notin stale'
                 PROVE  /\ said'[x].attached <=> rows'[x] # <<>>
                        /\ said'[x].access <=> HasGrant(x)'
      BY DEF JournalTellsAccess
    <3>1. CASE x # p
      BY <2>c, <3>1 DEF IInv, JournalTellsAccess, HasGrant
    <3>2. CASE x = p
      <4>1. Fresh(q) /\ Len(rows[p]) <= 1
        BY <2>a, <2>c, <3>2 DEF IInv, SingleRow
      <4>2. after # <<>> /\ \E k \in DOMAIN after : after[k].granted
        BY <2>f, <4>1
      <4> HIDE DEF after
      <4>3. rows'[p] # <<>> /\ HasGrant(p)'
        BY <2>c, <4>2 DEF HasGrant
      <4> QED BY <2>c, <3>2, <4>3
    <3> QED BY <3>1, <3>2
  <2> QED BY <2>1, <2>2, <2>3, <2>4, <2>5, <2>6, <2>7 DEF IInv
<1>5. ASSUME NEW q \in Requests, CommitDetach(q)
      PROVE  IInv'
  <2> DEFINE p == req[q].person
  <2>a. /\ p \in People /\ rows \in [People -> Seq(Row)]
        /\ said \in [People -> [attached : BOOLEAN, access : BOOLEAN]]
    BY DEF IInv, TypeOK, Calls
  <2>b. /\ rows'[p] = <<>> /\ Len(rows'[p]) = 0
        /\ \A x \in People \ {p} : rows'[x] = rows[x] /\ said'[x] = said[x]
        /\ said'[p] = [attached |-> FALSE, access |-> FALSE]
        /\ stale' = stale \ {p}
    BY <1>5, <2>a DEF CommitDetach, Committed
  <2>1. TypeOK'
    BY <1>5, <2>a DEF IInv, TypeOK, CommitDetach, Committed
  <2>2. HandlerInv'
    BY <1>5 DEF IInv, TypeOK, HandlerInv, CommitDetach, Committed, Pushes,
                Notifies, Attached
  <2>3. SingleRow'
    BY <2>b DEF IInv, SingleRow
  <2>4. PushIffNotice'
    BY <1>5 DEF IInv, TypeOK, PushIffNotice, CommitDetach, Committed
  <2>5. AttachedWasTold'
    BY <1>5, <2>b DEF IInv, AttachedWasTold, CommitDetach, Committed
  <2>6. ChangesAnnounced'
    BY <1>5 DEF IInv, TypeOK, ChangesAnnounced, CommitDetach, Committed
  <2>7. JournalTellsAccess'
    BY <2>a, <2>b DEF IInv, JournalTellsAccess, HasGrant
  <2> QED BY <2>1, <2>2, <2>3, <2>4, <2>5, <2>6, <2>7 DEF IInv
<1>6. ASSUME NEW q \in Requests, Retry(q)
      PROVE  IInv'
  <2>1. TypeOK'
    BY <1>6 DEF IInv, TypeOK, Retry, history
  <2>2. HandlerInv'
    BY <1>6 DEF IInv, HandlerInv, TypeOK, Attached, Pushes, Notifies,
                AttachedWasTold, Retry, history
  <2>3. SingleRow'
    BY <1>6 DEF IInv, SingleRow, TypeOK, Retry, history
  <2>4. PushIffNotice'
    BY <1>6 DEF IInv, PushIffNotice, TypeOK, HandlerInv, Retry, history
  <2>5. AttachedWasTold'
    BY <1>6 DEF IInv, AttachedWasTold, TypeOK, HandlerInv, Attached, Retry,
                history
  <2>6. ChangesAnnounced'
    BY <1>6 DEF IInv, ChangesAnnounced, TypeOK, Retry, history
  <2>7. JournalTellsAccess'
    BY <1>6 DEF IInv, JournalTellsAccess, TypeOK, HasGrant, Retry, history
  <2> QED BY <2>1, <2>2, <2>3, <2>4, <2>5, <2>6, <2>7 DEF IInv
<1>7. ASSUME NEW q \in Requests, GiveUp(q)
      PROVE  IInv'
  <2>1. TypeOK'
    BY <1>7 DEF IInv, TypeOK, GiveUp, history
  <2>2. HandlerInv'
    BY <1>7 DEF IInv, HandlerInv, TypeOK, Attached, Pushes, Notifies,
                AttachedWasTold, GiveUp, history
  <2>3. SingleRow'
    BY <1>7 DEF IInv, SingleRow, TypeOK, GiveUp, history
  <2>4. PushIffNotice'
    BY <1>7 DEF IInv, PushIffNotice, TypeOK, HandlerInv, GiveUp, history
  <2>5. AttachedWasTold'
    BY <1>7 DEF IInv, AttachedWasTold, TypeOK, HandlerInv, Attached, GiveUp,
                history
  <2>6. ChangesAnnounced'
    BY <1>7 DEF IInv, ChangesAnnounced, TypeOK, GiveUp, history
  <2>7. JournalTellsAccess'
    BY <1>7 DEF IInv, JournalTellsAccess, TypeOK, HasGrant, GiveUp, history
  <2> QED BY <2>1, <2>2, <2>3, <2>4, <2>5, <2>6, <2>7 DEF IInv
<1>8. ASSUME NEW q \in Requests, After(q)
      PROVE  IInv'
  <2>1. TypeOK'
    <3>1. Pushes(q) \in BOOLEAN
      BY DEF IInv, TypeOK, Pushes, Notifies
    <3>2. pushed' \in [Requests -> BOOLEAN]
      BY <1>8, <3>1 DEF IInv, TypeOK, After
    <3> QED BY <1>8, <3>2 DEF IInv, TypeOK, After, history
  <2>2. HandlerInv'
    BY <1>8 DEF IInv, HandlerInv, TypeOK, Attached, Pushes, Notifies,
                AttachedWasTold, After, history
  <2>3. SingleRow'
    BY <1>8 DEF IInv, SingleRow, TypeOK, After, history
  <2>4. PushIffNotice'
    BY <1>8 DEF IInv, PushIffNotice, TypeOK, HandlerInv, After, history
  <2>5. AttachedWasTold'
    BY <1>8 DEF IInv, AttachedWasTold, TypeOK, HandlerInv, Attached, After,
                history
  <2>6. ChangesAnnounced'
    BY <1>8 DEF IInv, ChangesAnnounced, TypeOK, After, history
  <2>7. JournalTellsAccess'
    BY <1>8 DEF IInv, JournalTellsAccess, TypeOK, HasGrant, After, history
  <2> QED BY <2>1, <2>2, <2>3, <2>4, <2>5, <2>6, <2>7 DEF IInv
<1>9. CASE UNCHANGED vars
  BY <1>9 DEF vars, handler, history, IInv, TypeOK, HandlerInv, SingleRow,
              PushIffNotice, AttachedWasTold, ChangesAnnounced,
              JournalTellsAccess, HasGrant, Attached, Pushes, Notifies
<1> QED
  BY <1>1, <1>2, <1>3, <1>4, <1>5, <1>6, <1>7, <1>8, <1>9 DEF Next, Step

(* The inductive invariant holds in every reachable state.                 *)
THEOREM PeopleInvariant == Spec => []IInv
BY PeopleInitInv, PeopleStepInv, PTL DEF Spec

(* Type correctness: in particular RunInTx never exceeds its attempts.     *)
THEOREM PeopleTypeCorrect == Spec => []TypeOK
<1>1. IInv => TypeOK
  BY DEF IInv
<1> QED BY PeopleInvariant, <1>1, PTL

(* A finished call pushed exactly when it stored a notification, whatever  *)
(* attempts were rolled back.                                              *)
THEOREM PeoplePushIffNotice == Spec => []PushIffNotice
<1>1. IInv => PushIffNotice
  BY DEF IInv
<1> QED BY PeopleInvariant, <1>1, PTL

(* Nobody is on the incident without having been told, although attach     *)
(* decides from a reading that may be stale.                               *)
THEOREM PeopleAttachedWasTold == Spec => []AttachedWasTold
<1>1. IInv => AttachedWasTold
  BY DEF IInv
<1> QED BY PeopleInvariant, <1>1, PTL

(* A committed change of the people is announced, or will be by a handler  *)
(* between its commit and its poke.                                        *)
THEOREM PeopleChangesAnnounced == Spec => []ChangesAnnounced
<1>1. IInv => ChangesAnnounced
  BY DEF IInv
<1> QED BY PeopleInvariant, <1>1, PTL

(* Where no reading was overtaken, the timeline says who is on the incident *)
(* and who has access.                                                     *)
THEOREM PeopleJournalTellsAccess == Spec => []JournalTellsAccess
<1>1. IInv => JournalTellsAccess
  BY DEF IInv
<1> QED BY PeopleInvariant, <1>1, PTL

(* Only a commit takes a handler to the point after it.                    *)
LEMMA OnlyCommits ==
  ASSUME IInv, Next, NEW q \in Requests, pc'[q] = "after", pc[q] # "after"
  PROVE  CommitAttach(q) \/ CommitRequest(q) \/ CommitDetach(q)
BY DEF IInv, TypeOK, Next, Step, Start, ReadPeople, CommitAttach,
       CommitRequest, CommitDetach, Committed, Retry, GiveUp, After

(* A commit leaves exactly the access its call asked for, whatever rows    *)
(* overlapping calls had left.                                             *)
THEOREM PeopleRevokeIsComplete == Spec => RevokeIsComplete
<1> DEFINE Complete(q) ==
      LET p == req[q].person IN
        \/ req[q].rpc = "attach" /\ Len(rows'[p]) = 1
                                 /\ HasGrant(p)' = req[q].grant
        \/ req[q].rpc = "detach" /\ ~HasGrant(p)'
        \/ req[q].rpc = "request" /\ (HasGrant(p)' \/ rows'[p] = <<>>)
<1>1. ASSUME IInv, Next, NEW q \in Requests, pc'[q] = "after", pc[q] # "after"
      PROVE  Complete(q)
  <2>1. CommitAttach(q) \/ CommitRequest(q) \/ CommitDetach(q)
    BY <1>1, OnlyCommits
  <2>2. req' = req /\ req[q].person \in People /\ rows \in [People -> Seq(Row)]
    BY <1>1, <2>1 DEF IInv, TypeOK, Calls, CommitAttach, CommitRequest,
                      CommitDetach, Committed
  <2>3. CASE CommitAttach(q)
    <3>1. /\ rows'[req[q].person] = <<Replacement(q)>>
          /\ req[q].rpc = "attach" /\ req[q].grant \in BOOLEAN
          /\ Replacement(q).granted = req[q].grant
      BY <1>1, <2>2, <2>3 DEF IInv, TypeOK, Calls, CommitAttach, Replacement
    <3> DEFINE r == Replacement(q)
    <3> HIDE DEF r
    <3>2. Len(<<r>>) = 1 /\ DOMAIN <<r>> = {1} /\ <<r>>[1] = r
      OBVIOUS
    <3>3. HasGrant(req[q].person)' <=> req[q].grant
      BY <2>2, <3>1, <3>2 DEF HasGrant, r
    <3>4. HasGrant(req[q].person)' \in BOOLEAN
      BY DEF HasGrant
    <3>5. HasGrant(req[q].person)' = req[q].grant
      BY <3>1, <3>3, <3>4
    <3> QED BY <3>1, <3>2, <3>5 DEF r
  <2>4. CASE CommitRequest(q)
    <3>1. req[q].rpc = "request"
      BY <2>4 DEF CommitRequest
    <3>2. rows[req[q].person] \in Seq(Row)
      BY <2>2
    <3>3. CASE Attached(q)
      <4>1. rows'[req[q].person] = Stamp(rows[req[q].person])
        BY <2>2, <2>4, <3>3 DEF CommitRequest
      <4> QED BY <2>2, <3>1, <3>2, <4>1, StampRows DEF HasGrant
    <3>4. CASE ~Attached(q)
      <4> DEFINE s == rows[req[q].person]
                 new == [granted |-> TRUE, asked |-> TRUE]
                 t == Append(s, new)
      <4>1. rows'[req[q].person] = t
        BY <2>2, <2>4, <3>4 DEF CommitRequest
      <4>2. Len(s) + 1 \in DOMAIN t /\ t[Len(s) + 1] = new
        BY <3>2 DEF Row
      <4> QED BY <2>2, <3>1, <4>1, <4>2 DEF HasGrant
    <3> QED BY <3>3, <3>4
  <2>5. CASE CommitDetach(q)
    BY <2>2, <2>5 DEF CommitDetach, HasGrant
  <2> QED BY <2>1, <2>3, <2>4, <2>5
<1>2. IInv /\ [Next]_vars =>
        [\A q \in Requests : pc'[q] = "after" /\ pc[q] # "after" => Complete(q)]_vars
  BY <1>1
<1> QED BY PeopleInvariant, <1>2, PTL DEF Spec, RevokeIsComplete

(* A call whose reading was not overtaken keeps an ask, and a request      *)
(* leaves the person asked and able to read.                               *)
THEOREM PeopleFreshCallsKeepAsk == Spec => FreshCallsKeepAsk
<1> DEFINE Kept(q) ==
      LET p == req[q].person IN
        /\ HasAsk(p) /\ (\A k \in DOMAIN rows[p] : rows[p][k].asked)
             => HasAsk(p)'
        /\ req[q].rpc = "request" => HasGrant(p)' /\ HasAsk(p)'
<1>1. ASSUME IInv, Next, NEW q \in Requests,
             pc[q] = "write", pc'[q] = "after", Fresh(q)
      PROVE  Kept(q)
  <2>1. CommitAttach(q) \/ CommitRequest(q)
    <3>1. pc'[q] = "after" /\ pc[q] # "after"
      BY <1>1
    <3>2. CommitAttach(q) \/ CommitRequest(q) \/ CommitDetach(q)
      BY <1>1, <3>1, OnlyCommits
    <3>3. ~CommitDetach(q)
      BY <1>1 DEF CommitDetach
    <3> QED BY <3>2, <3>3
  <2>2. req' = req /\ req[q].person \in People /\ rows \in [People -> Seq(Row)]
    BY <1>1, <2>1 DEF IInv, TypeOK, Calls, CommitAttach, CommitRequest,
                      Committed
  <2>3. rows[req[q].person] \in Seq(Row) /\ seen[q] = rows[req[q].person]
    BY <1>1, <2>2 DEF Fresh
  <2>4. CASE CommitAttach(q)
    <3>1. req[q].rpc = "attach" /\ rows'[req[q].person] = <<Replacement(q)>>
      BY <2>2, <2>4 DEF CommitAttach
    <3>2. ASSUME HasAsk(req[q].person),
                 \A k \in DOMAIN rows[req[q].person] : rows[req[q].person][k].asked
          PROVE  Replacement(q).asked
      <4>1. seen[q] # <<>> /\ Head(seen[q]).asked
        <5>1. rows[req[q].person] # <<>>
          BY <3>2 DEF HasAsk
        <5>2. 1 \in DOMAIN rows[req[q].person]
          BY <2>3, <5>1
        <5>3. Head(rows[req[q].person]) = rows[req[q].person][1]
          BY <2>3, <5>1
        <5> QED BY <2>3, <3>2, <5>1, <5>2, <5>3
      <4> QED BY <4>1 DEF Replacement, Attached
    <3> DEFINE r == Replacement(q)
    <3> HIDE DEF r
    <3>3. DOMAIN <<r>> = {1} /\ <<r>>[1] = r
      OBVIOUS
    <3>4. r.asked => HasAsk(req[q].person)'
      BY <2>2, <3>1, <3>3 DEF HasAsk, r
    <3> QED BY <3>1, <3>2, <3>4 DEF r
  <2>5. CASE CommitRequest(q)
    <3> SUFFICES HasGrant(req[q].person)' /\ HasAsk(req[q].person)'
      OBVIOUS
    <3>1. CASE Attached(q)
      <4>1. /\ rows'[req[q].person] = Stamp(rows[req[q].person])
            /\ rows[req[q].person] # <<>>
        BY <2>2, <2>3, <2>5, <3>1 DEF CommitRequest, Attached
      <4> QED BY <2>2, <2>3, <4>1, StampRows DEF HasGrant, HasAsk
    <3>2. CASE ~Attached(q)
      <4> DEFINE s == rows[req[q].person]
                 new == [granted |-> TRUE, asked |-> TRUE]
                 t == Append(s, new)
      <4>1. rows'[req[q].person] = t
        BY <2>2, <2>5, <3>2 DEF CommitRequest
      <4>2. Len(s) + 1 \in DOMAIN t /\ t[Len(s) + 1] = new
        BY <2>3 DEF Row
      <4> QED BY <2>2, <4>1, <4>2 DEF HasGrant, HasAsk
    <3> QED BY <3>1, <3>2
  <2> QED BY <2>1, <2>4, <2>5
<1>2. IInv /\ [Next]_vars =>
        [\A q \in Requests :
           LET p == req[q].person IN
             pc[q] = "write" /\ pc'[q] = "after" /\ Fresh(q) =>
               /\ HasAsk(p) /\ (\A k \in DOMAIN rows[p] : rows[p][k].asked)
                    => HasAsk(p)'
               /\ req[q].rpc = "request" => HasGrant(p)' /\ HasAsk(p)']_vars
  BY <1>1
<1> QED BY PeopleInvariant, <1>2, PTL DEF Spec, FreshCallsKeepAsk

(* The people of an incident stay consistent, retries included.            *)
THEOREM PeopleAreSafe == Spec => []PeopleSafe
<1> QED BY PeoplePushIffNotice, PeopleAttachedWasTold, PeopleChangesAnnounced,
           PeopleJournalTellsAccess, PTL DEF PeopleSafe
==============================================================================
